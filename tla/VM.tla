---------------------------------- MODULE VM ----------------------------------
(***************************************************************************)
(* The virtual machine of PA4 (vm.c): a 16-bit machine whose operating     *)
(* system keeps its bookkeeping words, process control blocks (PCBs) and   *)
(* the free list of the allocator in the memory the processes use.         *)
(*                                                                         *)
(* Two drivers exist: main(), which creates a process for every pair of    *)
(* arguments, loads process 0 and enters run(); and the programs of        *)
(* tests/, which include vm.c and call its functions.  Loops of vm.c that  *)
(* may not end (the walks along the free list, the search for a runnable   *)
(* process) are one step per iteration.                                    *)
(***************************************************************************)
EXTENDS Naturals, Sequences, FiniteSets

CONSTANTS
    MaxProcs,      \* bound: createProc() calls of one execution
    MaxAllocs,     \* bound: allocMem() calls of a test
    MaxSteps,      \* bound: instructions fetched by run()
    Sizes,         \* sizes a test asks allocMem() for
    Pointers,      \* pointers a test gives to freeMem()
    Pids,          \* pids a test gives to loadProc()
    Programs,      \* sequences of instructions a test executes directly
    Inputs,        \* words read from standard input
    Image          \* the words of the image files

UINT16_MAX == 65535
Word == 0 .. UINT16_MAX
Cells == 0 .. UINT16_MAX - 1   \* mem has UINT16_MAX words: index 65535 is outside
CODE_SIZE == 4096
HEAP_INIT_SIZE == 4096
OS_MEM_SIZE == 4096
PCB_SIZE == 6
PC_START == 12288
DEAD == 65535          \* the pid of a terminated process
MAGIC == 42

(***************************************************************************)
(* main() runs fewer programs than a code segment has words, and trap      *)
(* vectors outside the table are not executed by the tests.                *)
(***************************************************************************)
ASSUME ProcsAssumption == MaxProcs \in Nat /\ MaxProcs < CODE_SIZE
ASSUME WordsAssumption ==
    /\ Sizes \subseteq Word /\ Pointers \subseteq Word /\ Pids \subseteq Word
    /\ Programs \subseteq Seq(Word) /\ Inputs \subseteq Word
    /\ Image \in Seq(Word) /\ Len(Image) <= CODE_SIZE
    /\ MaxAllocs \in Nat /\ MaxSteps \in Nat

VARIABLES
    driver,   \* "main" or "test"
    mem,      \* the memory, sparse: a word outside the domain is 0
    reg,      \* the registers
    ir,       \* the instruction being executed
    pc,       \* where the machine's code is
    frame,    \* arguments and locals of the function in progress
    program,  \* the instructions the test has still to execute
    loaded,   \* loadProc() has been called by the driver
    inRun,    \* run() has been entered
    created, allocs, steps,  \* calls made so far, for the bounds
    intact,   \* history: no chunk was handed out or freed, and no heap bound moved
    handed,   \* history: pointers allocMem() returned
    saved,    \* history: by pid, the context tyld() saved; createProc() sets its PC
    halted    \* history: pids that executed HALT and were not created again

vars == <<driver, mem, reg, ir, pc, frame, program, loaded, inRun,
          created, allocs, steps, intact, handed, saved, halted>>
counts == <<created, allocs, steps>>
history == <<intact, handed, saved, halted>>

-------------------------------------------------------------------------------
(* Words and memory. *)

U16(n) == n % 65536
Field(i, low, n) == (i \div 2^low) % 2^n
Sext(n, b) == IF Field(n, b - 1, 1) = 1 THEN U16(n + (65536 - 2^b)) ELSE n
AndBit(a, b, k) == IF Field(a, k, 1) = 1 /\ Field(b, k, 1) = 1 THEN 2^k ELSE 0
AndByte(a, b, k) ==
    AndBit(a, b, k) + AndBit(a, b, k + 1) + AndBit(a, b, k + 2) + AndBit(a, b, k + 3)
    + AndBit(a, b, k + 4) + AndBit(a, b, k + 5) + AndBit(a, b, k + 6) + AndBit(a, b, k + 7)
AndWord(a, b) == AndByte(a, b, 0) + AndByte(a, b, 8)

InMem(a) == a \in Cells
At(m, a) == IF a \in DOMAIN m THEN m[a] ELSE 0
Put(m, a, v) == [x \in DOMAIN m \cup {a} |-> IF x = a THEN v ELSE m[x]]

CurProc == At(mem, 0)
ProcCount == At(mem, 1)
\* Mutant of PCB: the field BDH_PCB is not counted in the size of a PCB.
PCBFiveFields(pid) == U16(pid * (PCB_SIZE - 1) + OS_MEM_SIZE)
PCB(pid) == U16(pid * PCB_SIZE + OS_MEM_SIZE)
PidCell(pid) == pid * PCB_SIZE + OS_MEM_SIZE   \* indexed without truncation
Live(pid) == At(mem, PidCell(pid)) # DEAD

-------------------------------------------------------------------------------
(* Registers. *)

R0 == 0
R7 == 7
RPC == 8
RCND == 9
RBSC == 10
RBDC == 11
RBSH == 12
RBDH == 13

FlagOf(v) == IF v = 0 THEN 2 ELSE IF v \div 32768 = 1 THEN 4 ELSE 1
SetReg(r, v) == [reg EXCEPT ![r] = v, ![RCND] = FlagOf(v)]

\* The registers tyld() saves in a PCB and loadProc() loads from it.
Context == <<reg[RPC], reg[RBSC], reg[RBDC], reg[RBSH], reg[RBDH]>>
ContextAt(m, pid) == [k \in 1 .. 5 |-> At(m, PCB(pid) + k)]
WithContext(c) ==
    [reg EXCEPT ![RPC] = c[1], ![RBSC] = c[2], ![RBDC] = c[3], ![RBSH] = c[4], ![RBDH] = c[5]]

-------------------------------------------------------------------------------
(* Address translation, mr() and mw(). *)

Segment(a) == a \div 4096
Offset(a) == a % 4096
\* Mutant of Fault: an offset equal to the bound passes.
FaultPastBound(a) ==
    \/ Segment(a) = 3 /\ Offset(a) > reg[RBDC]
    \/ Segment(a) = 1 /\ Offset(a) > reg[RBDH]
    \/ Segment(a) \in {0, 2} \/ Segment(a) >= 8
Fault(a) ==
    \/ Segment(a) = 3 /\ Offset(a) >= reg[RBDC]
    \/ Segment(a) = 1 /\ Offset(a) >= reg[RBDH]
    \/ Segment(a) \in {0, 2} \/ Segment(a) >= 8
Mapped(a) == Segment(a) \in {1, 3}
Cell(a) == (IF Segment(a) = 3 THEN reg[RBSC] ELSE reg[RBSH]) + Offset(a)
Mr(a) == IF Mapped(a) THEN At(mem, Cell(a)) ELSE 0
Mw(a, v) == IF Mapped(a) THEN Put(mem, Cell(a), v) ELSE mem

Goto(label) == pc' = label
Resume == Goto(IF inRun THEN "fetch" ELSE "call")

\* An access to address a before the rest of a step: a fault ends the program.
Access(a, rest) ==
    IF Fault(a) THEN Goto("exited") /\ UNCHANGED <<mem, reg, ir, intact>>
    ELSE IF Mapped(a) /\ ~InMem(Cell(a))
         THEN Goto("undefined") /\ UNCHANGED <<mem, reg, ir, intact>>
    ELSE rest

-------------------------------------------------------------------------------
(* initOS() and the state before it. *)

NoFrame == [for |-> "none"]

InitOS == [a \in {0, 1, 2} |-> IF a = 0 THEN 65535 ELSE 0]

Init ==
    /\ driver \in {"main", "test"}
    /\ mem = InitOS
    /\ reg = [r \in 0 .. 13 |-> 0]
    /\ ir = 0
    /\ pc = "call"
    /\ frame = NoFrame
    /\ program \in IF driver = "test" THEN Programs ELSE {<<>>}
    /\ loaded = FALSE /\ inRun = FALSE
    /\ created = 0 /\ allocs = 0 /\ steps = 0
    /\ intact = TRUE /\ handed = {} /\ saved = <<>> /\ halted = {}

-------------------------------------------------------------------------------
(* allocMem(): "for" names the caller that continues with the result.      *)

CallAlloc(size, for) ==
    /\ Goto("alloc")
    /\ frame' = [for |-> for, size |-> size, at |-> OS_MEM_SIZE]

AllocReturns(value) ==
    /\ Goto("allocated")
    /\ frame' = [frame EXCEPT !.at = value]

AllocFits == At(mem, frame.at) >= frame.size

AllocEnd ==
    /\ pc = "alloc"
    /\ At(mem, frame.at) = 0
    /\ AllocReturns(0)
    /\ UNCHANGED <<program, mem, reg, ir, loaded, inRun, counts, history>>

\* Mutant of AllocSkip: the walk does not move to the next chunk.
AllocStays ==
    /\ pc = "alloc"
    /\ At(mem, frame.at) # 0
    /\ ~AllocFits
    /\ UNCHANGED vars

AllocSkip ==
    /\ pc = "alloc"
    /\ At(mem, frame.at) # 0
    /\ ~AllocFits
    /\ frame' = [frame EXCEPT !.at = At(mem, frame.at)]
    /\ UNCHANGED <<program, mem, reg, ir, pc, loaded, inRun, counts, history>>

\* The writes of a fitting allocation, in the order the code makes them: they
\* may fall on each other and on the free list.
Carve(at, size) ==
    LET ptr       == U16(At(mem, at) + size + 2)
        remaining == U16(At(mem, at) + 65534 - size)
        m1 == Put(Put(Put(mem, at, ptr), ptr - 2, size), ptr - 1, MAGIC)
        m2 == Put(m1, ptr + size, remaining)
    IN  IF remaining > 0 THEN Put(m2, ptr + size + 1, At(m2, ptr - 1)) ELSE m2

AllocFit ==
    LET ptr == U16(At(mem, frame.at) + frame.size + 2)
    IN
    /\ pc = "alloc"
    /\ At(mem, frame.at) # 0
    /\ AllocFits
    /\ IF ptr >= 2 /\ InMem(ptr + frame.size + 1)
       THEN /\ mem' = Carve(frame.at, frame.size)
            /\ AllocReturns(ptr)
            /\ handed' = handed \cup {ptr}
       ELSE Goto("undefined") /\ UNCHANGED <<mem, frame, handed>>
    /\ intact' = FALSE
    /\ UNCHANGED <<program, reg, ir, loaded, inRun, counts, saved, halted>>

-------------------------------------------------------------------------------
(* freeMem(). *)

CallFree(ptr, for) ==
    /\ Goto("free")
    /\ frame' = [for |-> for, ptr |-> ptr]

\* Mutant of FreeRefuses: the magic number is looked for where it is written.
FreeChecksMagic(ptr) == ptr < OS_MEM_SIZE \/ At(mem, ptr - 1) # MAGIC
FreeRefuses(ptr) == ptr < OS_MEM_SIZE \/ At(mem, ptr - 2) # MAGIC

FreeRefused ==
    /\ pc = "free"
    /\ FreeRefuses(frame.ptr)
    /\ Goto("freed")
    /\ UNCHANGED <<program, mem, reg, ir, frame, loaded, inRun, counts, history>>

\* The chunk after both coalescing tests: the size is what the size cell holds.
FreeCoalesce ==
    LET back  == frame.ptr > OS_MEM_SIZE /\ At(mem, frame.ptr - 4) = 0
        size  == At(mem, frame.ptr - 2) + (IF back THEN 2 ELSE 0)
        ptr   == frame.ptr - (IF back THEN 2 ELSE 0)
    IN
    /\ pc = "free"
    /\ ~FreeRefuses(frame.ptr)
    /\ IF InMem(ptr + size)
       THEN /\ Goto("insert")
            /\ frame' = [for |-> frame.for, ptr |-> ptr, prev |-> 0, at |-> OS_MEM_SIZE,
                         size |-> size + (IF At(mem, ptr + size) = 0 THEN 2 ELSE 0)]
       ELSE Goto("undefined") /\ UNCHANGED frame
    /\ UNCHANGED <<program, mem, reg, ir, loaded, inRun, counts, history>>

InsertFurther == At(mem, frame.at) # 0 /\ At(mem, frame.at) < frame.ptr

FreeWalk ==
    /\ pc = "insert"
    /\ InsertFurther
    /\ frame' = [frame EXCEPT !.prev = frame.at, !.at = At(mem, frame.at)]
    /\ UNCHANGED <<program, mem, reg, ir, pc, loaded, inRun, counts, history>>

FreeInsert ==
    LET head == IF frame.prev # 0 THEN frame.prev ELSE OS_MEM_SIZE
        m1   == Put(Put(Put(mem, frame.ptr - 2, frame.size), frame.ptr - 1, frame.at),
                    head, frame.ptr - 2)
        end  == frame.ptr + frame.size
    IN
    /\ pc = "insert"
    /\ ~InsertFurther
    /\ IF InMem(end)
       THEN Goto("freed") /\ mem' = IF At(m1, end) = 0 THEN Put(m1, head, 0) ELSE m1
       ELSE Goto("undefined") /\ UNCHANGED mem
    /\ intact' = FALSE
    /\ UNCHANGED <<program, reg, ir, frame, loaded, inRun, counts, handed, saved, halted>>

-------------------------------------------------------------------------------
(* createProc(): every process gets the PCB of process 0, since the macro  *)
(* Proc_Count is the number of a cell and not what the cell holds.         *)

NewPCB == (1 - 1) * PCB_SIZE + OS_MEM_SIZE

\* main() creates its processes before it loads one, a test whenever it likes.
MayCreate == pc = "call" /\ (driver = "main" => ~loaded)

CreateRefused ==
    /\ MayCreate
    /\ At(mem, 2) % 2 = 1
    /\ created < MaxProcs
    /\ created' = created + 1
    /\ UNCHANGED <<program, mem, reg, ir, pc, frame, loaded, inRun, allocs, steps, history>>

\* A process that yielded as process 0 starts anew, one that halted is revived.
CreateProc ==
    /\ MayCreate
    /\ At(mem, 2) % 2 = 0
    /\ created < MaxProcs
    /\ created' = created + 1
    /\ mem' = Put(Put(Put(mem, 1, U16(ProcCount + 1)), NewPCB, ProcCount), NewPCB + 1, PC_START)
    /\ CallAlloc(CODE_SIZE, "code")
    /\ saved' = IF 0 \in DOMAIN saved THEN [saved EXCEPT ![0][1] = PC_START] ELSE saved
    /\ halted' = halted \ {0}
    /\ UNCHANGED <<program, reg, ir, loaded, inRun, allocs, steps, intact, handed>>

Segments(base, size, k, m) == Put(Put(m, NewPCB + k, base), NewPCB + k + 1, size)

\* ld_img(): the words of the file, CODE_SIZE at most whatever its length.
Loaded(base) ==
    [x \in DOMAIN mem \cup {base + k - 1 : k \in DOMAIN Image} |->
        IF x >= base /\ x < base + Len(Image) THEN Image[x - base + 1] ELSE At(mem, x)]

CodeAllocated ==
    /\ pc = "allocated" /\ frame.for = "code"
    /\ IF frame.at = 0
       THEN Goto("call") /\ frame' = NoFrame /\ UNCHANGED mem
       ELSE \/ /\ mem' = Segments(frame.at, CODE_SIZE, 2, Loaded(frame.at))
               /\ CallAlloc(HEAP_INIT_SIZE, "heap")
            \/ Goto("exited") /\ UNCHANGED <<mem, frame>>   \* no such file
    /\ UNCHANGED <<program, reg, ir, loaded, inRun, counts, history>>

HeapAllocated ==
    /\ pc = "allocated" /\ frame.for = "heap"
    /\ mem' = IF frame.at = 0 THEN mem ELSE Segments(frame.at, HEAP_INIT_SIZE, 4, mem)
    /\ Goto("call") /\ frame' = NoFrame
    /\ UNCHANGED <<program, reg, ir, loaded, inRun, counts, history>>

-------------------------------------------------------------------------------
(* loadProc() and the other calls of the drivers.                          *)

LoadProc(pid) ==
    IF InMem(PCB(pid) + 5)
    THEN /\ reg' = WithContext(ContextAt(mem, pid))
         /\ mem' = Put(mem, 0, pid)
         /\ Goto(IF inRun THEN "fetch" ELSE "call")
    ELSE Goto("undefined") /\ UNCHANGED <<mem, reg>>

CallLoadProc(pid) ==
    /\ pc = "call" /\ ~inRun
    /\ IF driver = "main" THEN pid = 0 /\ ~loaded ELSE pid \in Pids
    /\ LoadProc(pid)
    /\ loaded' = TRUE
    /\ UNCHANGED <<program, ir, frame, inRun, counts, history>>

Run ==
    /\ pc = "call" /\ loaded
    /\ Goto("fetch")
    /\ inRun' = TRUE
    /\ UNCHANGED <<program, mem, reg, ir, frame, loaded, counts, history>>

TestAlloc(size) ==
    /\ driver = "test" /\ pc = "call"
    /\ allocs < MaxAllocs
    /\ allocs' = allocs + 1
    /\ CallAlloc(size, "test")
    /\ UNCHANGED <<program, mem, reg, ir, loaded, inRun, created, steps, history>>

TestFree(ptr) ==
    /\ driver = "test" /\ pc = "call"
    /\ CallFree(ptr, "test")
    /\ UNCHANGED <<program, mem, reg, ir, loaded, inRun, counts, history>>

TestReturns ==
    /\ pc \in {"allocated", "freed"} /\ frame.for = "test"
    /\ Goto("call") /\ frame' = NoFrame
    /\ UNCHANGED <<program, mem, reg, ir, loaded, inRun, counts, history>>

TestExecutes ==
    /\ driver = "test" /\ pc = "call" /\ loaded
    /\ program # <<>>
    /\ Goto("execute") /\ ir' = Head(program) /\ program' = Tail(program)
    /\ UNCHANGED <<mem, reg, frame, loaded, inRun, counts, history>>

-------------------------------------------------------------------------------
(* run(): fetch, then the handler of the instruction's opcode.             *)

Fetch ==
    /\ pc = "fetch"
    /\ steps < MaxSteps
    /\ steps' = steps + 1
    /\ Access(reg[RPC], /\ ir' = Mr(reg[RPC])
                        /\ reg' = [reg EXCEPT ![RPC] = U16(@ + 1)]
                        /\ Goto("execute")
                        /\ UNCHANGED <<mem, intact>>)
    /\ UNCHANGED <<program, frame, loaded, inRun, created, allocs, handed, saved, halted>>

Opcode == ir \div 4096
DR == Field(ir, 9, 3)
SR1 == Field(ir, 6, 3)
Operand == IF Field(ir, 5, 1) = 1 THEN Sext(Field(ir, 0, 5), 5) ELSE reg[Field(ir, 0, 3)]
NearPC == U16(reg[RPC] + Sext(Field(ir, 0, 9), 9))
NearBase == U16(reg[SR1] + Sext(Field(ir, 0, 6), 6))

Executing(opcode) ==
    /\ pc = "execute" /\ Opcode = opcode
    /\ UNCHANGED <<program, loaded, inRun, counts, handed, halted>>

\* Instructions that only change registers.
Sets(newReg) ==
    reg' = newReg /\ Resume /\ UNCHANGED <<mem, ir, frame, intact, saved>>

\* Instructions that read memory, and those that write it.
Loads(a) ==
    Access(a, /\ reg' = SetReg(DR, Mr(a)) /\ Resume /\ UNCHANGED <<mem, ir, intact>>)
Stores(a) ==
    Access(a, /\ mem' = Mw(a, reg[DR]) /\ Resume /\ UNCHANGED <<reg, ir, intact>>)

Br == Executing(0) /\ Sets([reg EXCEPT ![RPC] = IF AndWord(reg[RCND], DR) # 0
                                                THEN NearPC ELSE @])
Add == Executing(1) /\ Sets(SetReg(DR, U16(reg[SR1] + Operand)))
Ld == Executing(2) /\ Loads(NearPC) /\ UNCHANGED <<frame, saved>>
St == Executing(3) /\ Stores(NearPC) /\ UNCHANGED <<frame, saved>>
Jsr ==
    LET linked == [reg EXCEPT ![R7] = reg[RPC]]
    IN  Executing(4) /\ Sets([linked EXCEPT ![RPC] =
            IF Field(ir, 11, 1) = 1 THEN U16(@ + Sext(Field(ir, 0, 11), 11))
                                    ELSE linked[SR1]])
And == Executing(5) /\ Sets(SetReg(DR, AndWord(reg[SR1], Operand)))
Ldr == Executing(6) /\ Loads(NearBase) /\ UNCHANGED <<frame, saved>>
Str == Executing(7) /\ Stores(NearBase) /\ UNCHANGED <<frame, saved>>
Unused == \E k \in {8, 13} : Executing(k) /\ Sets(reg)
Not == Executing(9) /\ Sets(SetReg(DR, 65535 - reg[SR1]))
Ldi == Executing(10) /\ Access(NearPC, Loads(Mr(NearPC))) /\ UNCHANGED <<frame, saved>>
Sti == Executing(11) /\ Access(NearPC, Stores(Mr(NearPC))) /\ UNCHANGED <<frame, saved>>
Jmp == Executing(12) /\ Sets([reg EXCEPT ![RPC] = reg[SR1]])
Lea == Executing(14) /\ Sets(SetReg(DR, NearPC))

-------------------------------------------------------------------------------
(* The traps. *)

Trap(vectors) == Executing(15) /\ Field(ir, 0, 8) \in vectors

\* GETC and IN: a byte, or 65535 at the end of the input.
Getc == Trap({32, 35}) /\ \E c \in Inputs \cap (0 .. 255 \cup {65535}) :
            Sets([reg EXCEPT ![R0] = c])

\* OUT and OUTU16 print, PUTSP is empty.
Output == Trap({33, 36, 39}) /\ Sets(reg)

\* PUTS reads mem directly, up to the next word that is 0.
Puts ==
    /\ Trap({34})
    /\ IF \E a \in reg[R0] .. UINT16_MAX - 1 : At(mem, a) = 0
       THEN Sets(reg)
       ELSE Goto("undefined") /\ UNCHANGED <<mem, reg, ir, frame, intact, saved>>

\* INU16: a number, or nothing when the input has none.
Inu16 == Trap({38}) /\ \E w \in Inputs \cup {reg[R0]} : Sets([reg EXCEPT ![R0] = w])

\* Any other vector calls through a word outside the table of traps.
NoSuchTrap ==
    /\ Trap(0 .. 255 \ 32 .. 41)
    /\ Goto("undefined") /\ UNCHANGED <<mem, reg, ir, frame, intact, saved>>

\* tbrk(): the heap grows over a word that is 0, by at most two words.
BrkGrow ==
    LET diff == reg[R0] - reg[RBDH]
        end  == reg[RBSH] + reg[RBDH]
    IN
    /\ Trap({41}) /\ reg[R0] > reg[RBDH]
    /\ IF ~InMem(end) THEN Goto("undefined") /\ UNCHANGED frame
       ELSE IF At(mem, end) = 0 /\ At(mem, end) + 2 >= diff THEN CallAlloc(diff, "brk")
       ELSE Resume /\ UNCHANGED frame
    /\ UNCHANGED <<mem, reg, ir, intact, saved>>

BrkShrink ==
    /\ Trap({41}) /\ reg[R0] < reg[RBDH]
    /\ CallFree(U16(reg[RBSH] + reg[R0]), "brk")
    /\ UNCHANGED <<mem, reg, ir, intact, saved>>

BrkSame == Trap({41}) /\ reg[R0] = reg[RBDH] /\ Sets(reg)

\* The bound of the heap follows, whatever allocMem() or freeMem() answered.
BrkReturns ==
    /\ pc \in {"allocated", "freed"} /\ frame.for = "brk"
    /\ reg' = [reg EXCEPT ![RBDH] = reg[R0]]
    /\ Resume /\ frame' = NoFrame
    /\ intact' = FALSE
    /\ UNCHANGED <<program, mem, ir, loaded, inRun, counts, handed, saved, halted>>

\* The fields k of the PCB are written, the others stay.
WithSaved(m) ==
    LET k(a) == a - PCB(CurProc)
    IN  [a \in DOMAIN m \cup {PCB(CurProc) + i : i \in 1 .. 5} |->
            IF k(a) \in 1 .. 5 THEN Context[k(a)] ELSE m[a]]

\* tyld(): the context is saved, then the search for the next process starts with
\* a division by the count of processes as it is then: the PCB may lie over it.
StartSearch(count) ==
    IF count # 0
    THEN frame' = [for |-> "yield", next |-> (CurProc + 1) % count] /\ Goto("yield")
    ELSE Goto("undefined") /\ UNCHANGED frame

SaveContext(m) ==
    IF InMem(PCB(CurProc) + 5)
    THEN /\ mem' = WithSaved(m)
         /\ saved' = Put(saved, CurProc, Context)
         /\ StartSearch(At(WithSaved(m), 1))
    ELSE Goto("undefined") /\ UNCHANGED <<mem, saved, frame>>

Yld == Trap({40}) /\ SaveContext(mem) /\ UNCHANGED <<reg, ir, intact>>

\* Mutant of NextRuns: the search stops when it is back at the current process.
NextOrSelf == InMem(PidCell(frame.next)) /\ (Live(frame.next) \/ frame.next = CurProc)
NextRuns == InMem(PidCell(frame.next)) /\ Live(frame.next)

\* Mutant of YieldSkip: skips the successor of a terminated one.
YieldSkipsTwo ==
    /\ pc = "yield"
    /\ ~NextRuns
    /\ frame' = [frame EXCEPT !.next = (@ + 2) % ProcCount]
    /\ UNCHANGED <<program, mem, reg, ir, pc, loaded, inRun, counts, history>>

YieldSkip ==
    /\ pc = "yield"
    /\ ~NextRuns
    /\ IF InMem(PidCell(frame.next))
       THEN frame' = [frame EXCEPT !.next = (@ + 1) % ProcCount] /\ UNCHANGED pc
       ELSE Goto("undefined") /\ UNCHANGED frame
    /\ UNCHANGED <<program, mem, reg, ir, loaded, inRun, counts, history>>

YieldLoad ==
    /\ pc = "yield"
    /\ NextRuns
    /\ LoadProc(frame.next)
    /\ frame' = NoFrame
    /\ UNCHANGED <<program, ir, loaded, inRun, counts, history>>

\* thalt(): frees both segments, marks the PCB and yields.
Halt ==
    /\ Trap({37})
    /\ CallFree(At(mem, PCB(CurProc) + 2), "halt code")
    /\ UNCHANGED <<mem, reg, ir, intact, saved>>

HaltFreesHeap ==
    /\ pc = "freed" /\ frame.for = "halt code"
    /\ CallFree(At(mem, PCB(CurProc) + 4), "halt heap")
    /\ UNCHANGED <<program, mem, reg, ir, loaded, inRun, counts, history>>

HaltYields ==
    /\ pc = "freed" /\ frame.for = "halt heap"
    /\ SaveContext(Put(mem, PCB(CurProc), DEAD))
    /\ halted' = halted \cup {CurProc}
    /\ UNCHANGED <<program, reg, ir, loaded, inRun, counts, intact, handed>>

-------------------------------------------------------------------------------
AllocMem == AllocEnd \/ AllocSkip \/ AllocFit
FreeMem == FreeRefused \/ FreeCoalesce \/ FreeWalk \/ FreeInsert
Create == CreateRefused \/ CreateProc \/ CodeAllocated \/ HeapAllocated
Tests ==
    \/ \E s \in Sizes : TestAlloc(s)
    \/ \E p \in Pointers : TestFree(p)
    \/ TestReturns
    \/ TestExecutes
Execute ==
    \/ Br \/ Add \/ Ld \/ St \/ Jsr \/ And \/ Ldr \/ Str \/ Unused
    \/ Not \/ Ldi \/ Sti \/ Jmp \/ Lea
    \/ Getc \/ Output \/ Puts \/ Inu16 \/ NoSuchTrap
    \/ BrkGrow \/ BrkShrink \/ BrkSame \/ BrkReturns
    \/ Yld \/ YieldSkip \/ YieldLoad
    \/ Halt \/ HaltFreesHeap \/ HaltYields

Machine == AllocMem \/ FreeMem \/ Create \/ Fetch \/ Execute
Next ==
    /\ UNCHANGED driver
    /\ \/ Machine \/ Tests \/ Run
       \/ \E pid \in Pids \cup {0} : CallLoadProc(pid)

Spec == Init /\ [][Next]_vars

\* The machine's code runs on by itself, and main() enters run() once loaded.
Fairness ==
    /\ WF_vars(Machine /\ UNCHANGED driver)
    /\ WF_vars(driver = "main" /\ (Run \/ CallLoadProc(0)) /\ UNCHANGED driver)
FairSpec == Spec /\ Fairness

-------------------------------------------------------------------------------
(* Properties. *)

Labels == {"call", "alloc", "allocated", "free", "insert", "freed", "fetch",
           "execute", "yield", "exited", "undefined"}

\* Types: words in cells and registers, labels, the bounds.
TypeOK ==
    /\ driver \in {"main", "test"} /\ pc \in Labels /\ ir \in Word /\ program \in Seq(Word)
    /\ DOMAIN mem \subseteq Cells /\ \A a \in DOMAIN mem : mem[a] \in Word
    /\ reg \in [0 .. 13 -> Word]
    /\ loaded \in BOOLEAN /\ inRun \in BOOLEAN /\ intact \in BOOLEAN
    /\ created \in 0 .. MaxProcs /\ allocs \in 0 .. MaxAllocs /\ steps \in 0 .. MaxSteps
    /\ handed \subseteq Word /\ halted \subseteq Word
    /\ DOMAIN saved \subseteq Word

\* Until the allocator hands out a chunk or a heap grows, no instruction of any
\* process reaches a word of memory: only the bookkeeping words and PCBs are
\* written, the process count and the status are what createProc() left, and the
\* current process is one that was created or loaded.
ProcessesWriteNothing ==
    intact =>
        /\ ProcCount = created /\ At(mem, 2) = 0
        /\ CurProc \in {0, DEAD} \cup Pids \cup 0 .. created
        /\ \A a \in DOMAIN mem : mem[a] # 0 =>
              a \in {0, 1} \cup {PCB(p) + k : p \in Pids \cup {0} \cup DOMAIN saved \cup halted,
                                             k \in 0 .. 5}

\* A process that yielded finds, in its PCB, the context it had (loadProc()
\* gives it back), as long as the allocator has not written over the PCBs.  Only
\* createProc() disturbs it, and only for process 0: its PC is PC_START again.
ContextKept ==
    intact => \A p \in DOMAIN saved : ContextAt(mem, p) = saved[p]

\* tyld() gives the turn to the next process in cyclic order that has not
\* executed HALT, as long as the allocator has not written over the PCBs.  A
\* process that halted gets the turn again in one case only: it is process 0 and
\* createProc(), which fills the PCB of process 0 whatever the pid, has written
\* over its mark.
NextInTurn ==
    LET after(d) == (CurProc + d) % ProcCount
    IN  pc = "yield" /\ pc' \in {"call", "fetch"} /\ intact =>
            \E d \in 1 .. ProcCount :
                /\ CurProc' = after(d)
                /\ after(d) \notin halted
                /\ \A e \in 1 .. d - 1 : after(e) \in halted

TurnsInOrder == [][NextInTurn]_vars

\* With a live process left, the search of tyld() ends.
SomeLive == \E p \in 0 .. ProcCount - 1 : Live(p)
YieldReturns == (pc = "yield" /\ SomeLive) ~> (pc # "yield")

\* When the last process halts the search never ends, and neither does run():
\* nothing clears the flag "running".
LastHaltSpins == [](pc = "yield" /\ ~SomeLive => [](pc = "yield"))

\* The search of tyld() ends exactly while a process is left.
SearchEndsIffLive == YieldReturns /\ LastHaltSpins

\* main() executes no instruction of any program: its createProc() calls get no
\* memory, so the bounds of the loaded process are 0 and the first fetch faults.
MainRunsNothing ==
    driver = "main" =>
        /\ pc \notin {"execute", "yield", "undefined"}
        /\ handed = {}
        /\ intact

\* ... and main() always ends that way, however many programs it is given.
MainFaults == (driver = "main") ~> (pc = "exited")

\* allocMem() starts its search from the first cell of the PCB createProc() fills:
\* what it takes for the address of the first free chunk is the pid of the last
\* process created, or 65535 from the HALT of process 0 to the next createProc(),
\* and never a chunk.
ListHeadIsPid ==
    intact => At(mem, OS_MEM_SIZE) = IF 0 \in halted THEN DEAD
                                     ELSE IF created = 0 THEN 0 ELSE created - 1

\* The bookkeeping words and the PCBs: their parts above.
KernelIntact == TypeOK /\ ProcessesWriteNothing /\ ContextKept /\ ListHeadIsPid

\* What freeMem() puts in the list has the size 42 (or 44, 46 after it joins
\* what it takes for free neighbours), never the size that was allocated: it
\* looks for the magic number in the cell of the size.
FreesMagicSize == pc = "insert" => frame.size \in {42, 44, 46}
===============================================================================
