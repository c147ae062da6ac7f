------------------------------- MODULE VMProofs -------------------------------
(***************************************************************************)
(* What main() does, for every number of programs below CODE_SIZE, whatever *)
(* the programs are; and what freeMem() puts in the free list.             *)
(***************************************************************************)
EXTENDS VM, Integers, TLAPS

\* Ranges of words are used through these facts only.
LEMMA MaxWord == UINT16_MAX \in Nat
BY DEF UINT16_MAX

LEMMA WordRange == \A n : n \in Word <=> n \in Nat /\ n <= UINT16_MAX
BY MaxWord DEF Word

LEMMA CellRange == \A n : n \in Cells <=> n \in Nat /\ n < UINT16_MAX
BY MaxWord DEF Cells

LEMMA InWord == \A n : n \in Word <=> n \in Nat /\ n < 65536
BY WordRange DEF UINT16_MAX

LEMMA InCells == \A n : n \in Cells <=> n \in Nat /\ n < 65535
BY CellRange DEF UINT16_MAX

LEMMA Truncates == ASSUME NEW n \in Int PROVE U16(n) \in Word
<1>1. U16(n) \in Nat /\ U16(n) < 65536
  BY DEF U16
<1> QED BY <1>1, InWord

LEMMA AtPut ==
  ASSUME NEW m, NEW a, NEW v, NEW b
  PROVE  At(Put(m, a, v), b) = IF b = a THEN v ELSE At(m, b)
BY DEF At, Put

LEMMA TruncateSmall ==
  ASSUME NEW n \in Nat, n < 65536
  PROVE  U16(n) = n
BY DEF U16

\* The memory main() builds: the count of processes, and one PCB, written over
\* by every createProc(), of which only the first two fields are ever filled.
MainWord(a) ==
  IF a = 1 THEN created
  ELSE IF created > 0 /\ a = OS_MEM_SIZE THEN created - 1
  ELSE IF created > 0 /\ a = OS_MEM_SIZE + 1 THEN PC_START
  ELSE 0

MainMemory == \A a \in Nat \ {0} : At(mem, a) = MainWord(a)

MainRegisters ==
  /\ reg \in [0 .. 13 -> Nat]
  /\ reg[RPC] \in {0, PC_START}
  /\ reg[RBDC] = 0

\* The walk of allocMem() passes the cells 4096, created - 1 and, when that is
\* 1 or 2, the count of processes and the status: all hold less than it asks.
MainWalk ==
  /\ pc \in {"alloc", "allocated"} => ~loaded
  /\ pc = "alloc" => /\ frame = [for |-> "code", size |-> CODE_SIZE, at |-> frame.at]
                     /\ frame.at \in Nat \ {0} /\ frame.at <= OS_MEM_SIZE
  /\ pc = "allocated" => frame.for = "code" /\ frame.at = 0

MainInv ==
  driver = "main" =>
    /\ created \in 0 .. MaxProcs
    /\ pc \in {"call", "alloc", "allocated", "fetch", "exited"}
    /\ handed = {} /\ intact
    /\ MainMemory /\ MainRegisters /\ MainWalk

LEMMA InitMainInv == Init => MainInv
<1> SUFFICES ASSUME Init PROVE MainInv
  OBVIOUS
<1>1. MainMemory
  BY DEF Init, InitOS, MainMemory, MainWord, At
<1>2. MainRegisters
  BY DEF Init, MainRegisters, RPC, RBDC
<1> QED BY <1>1, <1>2, ProcsAssumption DEF Init, MainInv, MainWalk

LEMMA CreateMain ==
  ASSUME MainInv, CreateProc, driver = "main"
  PROVE  MainInv'
<1>1. /\ created' = created + 1 /\ created \in 0 .. MaxProcs /\ created < MaxProcs
      /\ ProcCount = created /\ U16(ProcCount + 1) = created + 1
  BY ProcsAssumption DEF MainInv, CreateProc, MainMemory, MainWord, ProcCount, U16, CODE_SIZE
<1>2. NewPCB = OS_MEM_SIZE
  BY DEF NewPCB, PCB_SIZE, OS_MEM_SIZE
<1>3. mem' = Put(Put(Put(mem, 1, created + 1), OS_MEM_SIZE, created), OS_MEM_SIZE + 1, PC_START)
  BY <1>1, <1>2 DEF CreateProc
<1>4. MainMemory'
  <2> SUFFICES ASSUME NEW a \in Nat \ {0}
               PROVE  At(mem', a) = MainWord(a)'
    BY DEF MainMemory
  <2>1. At(mem', a) = IF a = OS_MEM_SIZE + 1 THEN PC_START
                      ELSE IF a = OS_MEM_SIZE THEN created
                      ELSE IF a = 1 THEN created + 1 ELSE At(mem, a)
    BY <1>3, AtPut
  <2>2. At(mem, a) = MainWord(a)
    BY DEF MainInv, MainMemory
  <2> QED BY <2>1, <2>2, <1>1 DEF MainWord, OS_MEM_SIZE
<1>5. MainRegisters'
  BY DEF MainInv, MainRegisters, CreateProc
<1>6. MainWalk'
  BY DEF CreateProc, MayCreate, CallAlloc, Goto, MainWalk, OS_MEM_SIZE, CODE_SIZE
<1>7. created' \in 0 .. MaxProcs
  BY <1>1, ProcsAssumption
<1> QED BY <1>4, <1>5, <1>6, <1>7 DEF MainInv, CreateProc, CallAlloc, Goto, history

\* Every cell the walk reads holds less than CODE_SIZE.
LEMMA WalkIsShort ==
  ASSUME MainInv, driver = "main", pc = "alloc"
  PROVE  /\ frame.size = CODE_SIZE
         /\ At(mem, frame.at) \in Nat /\ At(mem, frame.at) < CODE_SIZE
         /\ ~AllocFits
<1> DEFINE a == frame.at
<1>1. frame.size = CODE_SIZE /\ a \in Nat \ {0} /\ a <= OS_MEM_SIZE
  BY DEF MainInv, MainWalk
<1>2. At(mem, a) = MainWord(a)
  BY <1>1 DEF MainInv, MainMemory
<1>3. MaxProcs \in Nat /\ MaxProcs < CODE_SIZE /\ created \in 0 .. MaxProcs
  BY ProcsAssumption DEF MainInv
<1>4. created \in Nat /\ created < CODE_SIZE
  BY <1>3 DEF CODE_SIZE
<1> HIDE DEF a
<1>5. MainWord(a) \in {0, created} \/ (created > 0 /\ MainWord(a) = created - 1)
  <2>1. a # OS_MEM_SIZE + 1
    BY <1>1 DEF OS_MEM_SIZE
  <2> QED BY <2>1 DEF MainWord
<1>6. MainWord(a) \in Nat /\ MainWord(a) < CODE_SIZE
  BY <1>4, <1>5 DEF CODE_SIZE
<1>7. ~AllocFits
  BY <1>1, <1>2, <1>6 DEF AllocFits, CODE_SIZE, a
<1> QED BY <1>1, <1>2, <1>6, <1>7 DEF a

LEMMA AllocMain ==
  ASSUME MainInv, driver = "main", AllocMem
  PROVE  MainInv'
<1>1. pc = "alloc"
  BY DEF AllocMem, AllocEnd, AllocSkip, AllocFit
<1>2. ~AllocFit
  BY <1>1, WalkIsShort DEF AllocFit
<1>3. CASE AllocEnd
  <2>1. MainMemory' /\ MainRegisters'
    BY <1>3 DEF AllocEnd, MainInv, MainMemory, MainWord, MainRegisters, counts
  <2>2. MainWalk'
    BY <1>3 DEF AllocEnd, AllocReturns, Goto, MainInv, MainWalk
  <2> QED BY <1>3, <2>1, <2>2 DEF AllocEnd, AllocReturns, Goto, MainInv, counts, history
<1>4. CASE AllocSkip
  <2>1. MainMemory' /\ MainRegisters'
    BY <1>4 DEF AllocSkip, MainInv, MainMemory, MainWord, MainRegisters, counts
  <2>2. At(mem, frame.at) \in Nat \ {0} /\ At(mem, frame.at) <= OS_MEM_SIZE
    BY <1>1, <1>4, WalkIsShort DEF AllocSkip, CODE_SIZE, OS_MEM_SIZE
  <2>3. MainWalk'
    BY <1>4, <2>2 DEF AllocSkip, MainInv, MainWalk
  <2> QED BY <1>4, <2>1, <2>3 DEF AllocSkip, MainInv, counts, history
<1> QED BY <1>2, <1>3, <1>4 DEF AllocMem

LEMMA LoadMain ==
  ASSUME MainInv, driver = "main", NEW pid, CallLoadProc(pid)
  PROVE  MainInv'
<1>1. pid = 0 /\ pc = "call" /\ ~inRun
  BY DEF CallLoadProc
<1>2. PCB(pid) = OS_MEM_SIZE /\ InMem(PCB(pid) + 5)
  BY <1>1, InCells DEF PCB, U16, PCB_SIZE, OS_MEM_SIZE, InMem
<1>3. /\ reg' = WithContext(ContextAt(mem, 0))
      /\ mem' = Put(mem, 0, 0) /\ pc' = "call"
  BY <1>1, <1>2 DEF CallLoadProc, LoadProc, Goto
<1>4. MainMemory'
  BY <1>3, AtPut DEF MainInv, MainMemory, MainWord, CallLoadProc, counts
<1>5. /\ ContextAt(mem, 0)[1] \in {0, PC_START} /\ ContextAt(mem, 0)[3] = 0
      /\ \A k \in 1 .. 5 : ContextAt(mem, 0)[k] \in Nat
  <2>1. \A k \in 1 .. 5 : ContextAt(mem, 0)[k] = MainWord(OS_MEM_SIZE + k)
    BY <1>1, <1>2 DEF ContextAt, MainInv, MainMemory, OS_MEM_SIZE
  <2> QED BY <2>1 DEF MainWord, OS_MEM_SIZE, PC_START
<1>6. MainRegisters'
  BY <1>3, <1>5 DEF MainInv, MainRegisters, WithContext, RPC, RBSC, RBDC, RBSH, RBDH
<1>7. MainWalk'
  BY <1>3 DEF MainWalk
<1> QED BY <1>3, <1>4, <1>6, <1>7 DEF MainInv, CallLoadProc, counts, history

\* The first fetch faults: PC is 0, outside every segment, or the first word of
\* a code segment of length 0.
LEMMA FetchMain ==
  ASSUME MainInv, driver = "main", Fetch
  PROVE  MainInv'
<1>1. Fault(reg[RPC])
  BY DEF MainInv, MainRegisters, Fault, Segment, Offset, PC_START, RPC, RBDC
<1>2. pc' = "exited" /\ UNCHANGED <<mem, reg, intact>>
  BY <1>1 DEF Fetch, Access, Goto
<1> QED BY <1>2 DEF MainInv, MainMemory, MainWord, MainRegisters, MainWalk, Fetch

\* Handlers run after a fetch, or go on from a label the drivers do not reach.
LEMMA ExecuteLabels ==
  ASSUME Execute
  PROVE  pc \in {"execute", "yield", "freed"} \/ (pc = "allocated" /\ frame.for = "brk")
<1>1. CASE Br \/ Add \/ Ld \/ St \/ Jsr \/ And \/ Ldr \/ Str \/ Unused
  BY <1>1 DEF Br, Add, Ld, St, Jsr, And, Ldr, Str, Unused, Executing
<1>2. CASE Not \/ Ldi \/ Sti \/ Jmp \/ Lea
  BY <1>2 DEF Not, Ldi, Sti, Jmp, Lea, Executing
<1>3. CASE Getc \/ Output \/ Puts \/ Inu16 \/ NoSuchTrap
  BY <1>3 DEF Getc, Output, Puts, Inu16, NoSuchTrap, Trap, Executing
<1>4. CASE BrkGrow \/ BrkShrink \/ BrkSame \/ Yld \/ Halt
  BY <1>4 DEF BrkGrow, BrkShrink, BrkSame, Yld, Halt, Trap, Executing
<1>5. CASE BrkReturns \/ YieldSkip \/ YieldLoad \/ HaltFreesHeap \/ HaltYields
  BY <1>5 DEF BrkReturns, YieldSkip, YieldLoad, HaltFreesHeap, HaltYields
<1> QED BY <1>1, <1>2, <1>3, <1>4, <1>5 DEF Execute

LEMMA NextMainInv == MainInv /\ [Next]_vars => MainInv'
<1> SUFFICES ASSUME MainInv, [Next]_vars, driver' = "main" PROVE MainInv'
  BY DEF MainInv
<1>0. driver = "main"
  BY DEF Next, vars
<1>1. CASE AllocMem
  BY <1>0, <1>1, AllocMain
<1>2. CASE FreeMem
  BY <1>0, <1>2 DEF FreeMem, FreeRefused, FreeCoalesce, FreeWalk, FreeInsert, MainInv
<1>3. CASE CreateRefused
  <2>1. At(mem, 2) = 0
    BY <1>0 DEF MainInv, MainMemory, MainWord, OS_MEM_SIZE
  <2> QED BY <1>3, <2>1 DEF CreateRefused
<1>4. CASE CreateProc
  BY <1>0, <1>4, CreateMain
<1>5. CASE CodeAllocated
  BY <1>0, <1>5 DEF CodeAllocated, Goto, MainInv, MainMemory, MainWord, MainRegisters,
                    MainWalk, counts, history
<1>6. CASE HeapAllocated
  BY <1>0, <1>6 DEF HeapAllocated, MainInv, MainWalk
<1>7. CASE Fetch
  BY <1>0, <1>7, FetchMain
<1>8. CASE Execute
  BY <1>0, <1>8, ExecuteLabels DEF MainInv, MainWalk
<1>9. CASE Tests
  BY <1>0, <1>9 DEF Tests, TestAlloc, TestFree, TestReturns, TestExecutes, MainInv, MainWalk
<1>10. CASE Run
  BY <1>0, <1>10 DEF Run, Goto, MainInv, MainMemory, MainWord, MainRegisters, MainWalk,
                     counts, history
<1>11. CASE \E pid \in Pids \cup {0} : CallLoadProc(pid)
  BY <1>0, <1>11, LoadMain
<1>12. CASE UNCHANGED vars
  BY <1>0, <1>12 DEF vars, counts, history, MainInv, MainMemory, MainWord, MainRegisters, MainWalk
<1> QED BY <1>1, <1>2, <1>3, <1>4, <1>5, <1>6, <1>7, <1>8, <1>9, <1>10, <1>11, <1>12
        DEF Next, Machine, Create

\* main() executes no instruction: no createProc() of it gets memory, and its
\* first fetch faults (vm.c, createProc() and mr()).
THEOREM MainNeverExecutes == Spec => []MainRunsNothing
<1>1. MainInv => MainRunsNothing
  BY DEF MainInv, MainRunsNothing
<1> QED BY <1>1, InitMainInv, NextMainInv, PTL DEF Spec

\* No handler goes to the insertion walk of freeMem() by itself.
LEMMA ExecuteTargets ==
  ASSUME Execute
  PROVE  pc' # "insert"
<1>1. CASE Br \/ Add \/ Jsr \/ And \/ Unused \/ Not \/ Jmp \/ Lea
  BY <1>1 DEF Br, Add, Jsr, And, Unused, Not, Jmp, Lea, Sets, Resume, Goto
<1>2. CASE Ld \/ St \/ Ldr \/ Str
  BY <1>2 DEF Ld, St, Ldr, Str, Loads, Stores, Access, Resume, Goto
<1>3. CASE Ldi \/ Sti
  BY <1>3 DEF Ldi, Sti, Loads, Stores, Access, Resume, Goto
<1>4. CASE Getc \/ Output \/ Puts \/ Inu16 \/ NoSuchTrap
  BY <1>4 DEF Getc, Output, Puts, Inu16, NoSuchTrap, Sets, Resume, Goto
<1>5. CASE BrkGrow \/ BrkShrink \/ BrkSame \/ BrkReturns
  BY <1>5 DEF BrkGrow, BrkShrink, BrkSame, BrkReturns, CallAlloc, CallFree, Sets, Resume, Goto
<1>6. CASE Yld \/ Halt \/ HaltFreesHeap \/ HaltYields
  BY <1>6 DEF Yld, Halt, HaltFreesHeap, HaltYields, SaveContext, StartSearch, CallFree, Goto
<1>7. CASE YieldSkip
  BY <1>7 DEF YieldSkip, Goto
<1>8. CASE YieldLoad
  BY <1>8 DEF YieldLoad, LoadProc, Goto
<1> QED BY <1>1, <1>2, <1>3, <1>4, <1>5, <1>6, <1>7, <1>8 DEF Execute

LEMMA NextFreesMagicSize == FreesMagicSize /\ [Next]_vars => FreesMagicSize'
<1> SUFFICES ASSUME FreesMagicSize, [Next]_vars, pc' = "insert"
             PROVE  frame'.size \in {42, 44, 46}
  BY DEF FreesMagicSize
<1>1. CASE FreeCoalesce
  <2>1. At(mem, frame.ptr - 2) = 42
    BY <1>1 DEF FreeCoalesce, FreeRefuses, MAGIC
  <2> QED BY <1>1, <2>1 DEF FreeCoalesce, Goto
<1>2. CASE FreeWalk
  BY <1>2 DEF FreeWalk, FreesMagicSize
<1>3. CASE FreeRefused \/ FreeInsert \/ AllocMem
  BY <1>3 DEF FreeRefused, FreeInsert, AllocMem, AllocEnd, AllocSkip, AllocFit, AllocReturns, Goto
<1>4. CASE Create
  BY <1>4 DEF Create, CreateRefused, CreateProc, MayCreate, CodeAllocated, HeapAllocated,
                CallAlloc, Goto
<1>5. CASE Fetch
  BY <1>5 DEF Fetch, Access, Goto
<1>6. CASE Execute
  BY <1>6, ExecuteTargets
<1>7. CASE Tests \/ Run
  BY <1>7 DEF Tests, Run, TestAlloc, TestFree, TestReturns, TestExecutes, CallAlloc, CallFree, Goto
<1>8. CASE \E pid \in Pids \cup {0} : CallLoadProc(pid)
  BY <1>8 DEF CallLoadProc, LoadProc, Goto
<1>9. CASE UNCHANGED vars
  BY <1>9 DEF vars, FreesMagicSize
<1> QED BY <1>1, <1>2, <1>3, <1>4, <1>5, <1>6, <1>7, <1>8, <1>9 DEF Next, Machine, FreeMem

\* freeMem() never records the size that was allocated: what it accepts has the
\* magic number where it reads the size (vm.c, freeMem()).
THEOREM FreeRecordsMagic == Spec => []FreesMagicSize
<1>1. Init => FreesMagicSize
  BY DEF Init, FreesMagicSize
<1> QED BY <1>1, NextFreesMagicSize, PTL DEF Spec

-------------------------------------------------------------------------------
(***************************************************************************)
(* Types.  No walk leaves the memory, and what a frame carries while its    *)
(* call is in progress is a word, whatever the processes and the allocator *)
(* have written over the PCBs, the list and the bookkeeping words.         *)
(***************************************************************************)

Memory(m) == DOMAIN m \subseteq Cells /\ \A a \in DOMAIN m : m[a] \in Word

Machines ==
  /\ driver \in {"main", "test"} /\ pc \in Labels /\ ir \in Word /\ program \in Seq(Word)
  /\ loaded \in BOOLEAN /\ inRun \in BOOLEAN /\ intact \in BOOLEAN
  /\ created \in 0 .. MaxProcs /\ allocs \in 0 .. MaxAllocs /\ steps \in 0 .. MaxSteps
  /\ handed \subseteq Word /\ halted \subseteq Word /\ DOMAIN saved \subseteq Word

AllocFrame ==
  pc = "alloc" =>
    /\ frame = [for |-> frame.for, size |-> frame.size, at |-> frame.at]
    /\ frame.size \in Word /\ frame.at \in Cells
    /\ frame.for = "code" => frame.size = CODE_SIZE

\* A code segment that was handed out lies in the memory.
AllocatedFrame ==
  pc = "allocated" =>
    /\ frame.at \in Word
    /\ frame.for = "code" /\ frame.at # 0 => frame.at + CODE_SIZE < 65535

FreeFrame == pc = "free" => frame.ptr \in Word

InsertFrame ==
  pc = "insert" =>
    /\ frame = [for |-> frame.for, ptr |-> frame.ptr, prev |-> frame.prev,
                at |-> frame.at, size |-> frame.size]
    /\ frame.ptr \in Word /\ frame.ptr >= OS_MEM_SIZE - 2
    /\ frame.prev \in Cells /\ frame.at \in Cells
    /\ frame.size \in {42, 44, 46}

\* The search of tyld() stays among the processes: the count it divides by is not 0.
YieldFrame ==
  pc = "yield" => /\ frame = [for |-> "yield", next |-> frame.next]
                  /\ ProcCount > 0 /\ frame.next \in 0 .. ProcCount - 1

Frames == AllocFrame /\ AllocatedFrame /\ FreeFrame /\ InsertFrame /\ YieldFrame

TypeInv == Machines /\ Memory(mem) /\ reg \in [0 .. 13 -> Word] /\ Frames

LEMMA AtWord == ASSUME NEW m, Memory(m), NEW a PROVE At(m, a) \in Word
BY InWord DEF Memory, At

LEMMA PutMemory ==
  ASSUME NEW m, Memory(m), NEW a \in Cells, NEW v \in Word
  PROVE  Memory(Put(m, a, v))
BY DEF Memory, Put

\* The fields of an instruction, and what they select.
LEMMA Operands ==
  ASSUME NEW i \in Word
  PROVE  /\ Field(i, 0, 3) \in 0 .. 7 /\ Field(i, 6, 3) \in 0 .. 7 /\ Field(i, 9, 3) \in 0 .. 7
         /\ Sext(Field(i, 0, 5), 5) \in Word /\ Sext(Field(i, 0, 6), 6) \in Word
         /\ Sext(Field(i, 0, 9), 9) \in Word /\ Sext(Field(i, 0, 11), 11) \in Word
<1>0. i \in Nat
  BY InWord
<1>1. Field(i, 0, 3) \in 0 .. 7 /\ Field(i, 6, 3) \in 0 .. 7 /\ Field(i, 9, 3) \in 0 .. 7
  BY <1>0 DEF Field
<1>2. /\ Field(i, 0, 5) \in Nat /\ Field(i, 0, 5) < 32
      /\ Field(i, 0, 6) \in Nat /\ Field(i, 0, 6) < 64
  BY <1>0 DEF Field
<1>3. /\ Field(i, 0, 9) \in Nat /\ Field(i, 0, 9) < 512
      /\ Field(i, 0, 11) \in Nat /\ Field(i, 0, 11) < 2048
  BY <1>0 DEF Field
<1>4. \A n \in Word : /\ Sext(n, 5) \in Word /\ Sext(n, 6) \in Word
                      /\ Sext(n, 9) \in Word /\ Sext(n, 11) \in Word
  BY Truncates, InWord DEF Sext
<1>5. /\ Field(i, 0, 5) \in Word /\ Field(i, 0, 6) \in Word
      /\ Field(i, 0, 9) \in Word /\ Field(i, 0, 11) \in Word
  BY <1>2, <1>3, InWord
<1> QED BY <1>1, <1>4, <1>5

LEMMA AndBits ==
  ASSUME NEW a, NEW b
  PROVE  AndWord(a, b) \in Word
<1>1. /\ AndBit(a, b, 0) \in {0, 1} /\ AndBit(a, b, 0 + 1) \in {0, 2}
      /\ AndBit(a, b, 0 + 2) \in {0, 4} /\ AndBit(a, b, 0 + 3) \in {0, 8}
      /\ AndBit(a, b, 0 + 4) \in {0, 16} /\ AndBit(a, b, 0 + 5) \in {0, 32}
      /\ AndBit(a, b, 0 + 6) \in {0, 64} /\ AndBit(a, b, 0 + 7) \in {0, 128}
  BY DEF AndBit
<1>2. /\ AndBit(a, b, 8) \in {0, 256} /\ AndBit(a, b, 8 + 1) \in {0, 512}
      /\ AndBit(a, b, 8 + 2) \in {0, 1024} /\ AndBit(a, b, 8 + 3) \in {0, 2048}
      /\ AndBit(a, b, 8 + 4) \in {0, 4096} /\ AndBit(a, b, 8 + 5) \in {0, 8192}
      /\ AndBit(a, b, 8 + 6) \in {0, 16384} /\ AndBit(a, b, 8 + 7) \in {0, 32768}
  BY DEF AndBit
<1>3. AndByte(a, b, 0) \in Nat /\ AndByte(a, b, 0) < 256
  BY <1>1 DEF AndByte
<1>4. AndByte(a, b, 8) \in Nat /\ AndByte(a, b, 8) < 65281
  BY <1>2 DEF AndByte
<1> QED BY <1>3, <1>4, InWord DEF AndWord

LEMMA SetRegWord ==
  ASSUME reg \in [0 .. 13 -> Word], NEW r \in 0 .. 7, NEW v \in Word
  PROVE  SetReg(r, v) \in [0 .. 13 -> Word]
<1>1. FlagOf(v) \in Word
  BY InWord DEF FlagOf
<1> QED BY <1>1 DEF SetReg, RCND

LEMMA RegWord ==
  ASSUME reg \in [0 .. 13 -> Word], ir \in Word
  PROVE  /\ reg[R0] \in Word /\ reg[RPC] \in Word /\ reg[RCND] \in Word /\ reg[RBSC] \in Word
         /\ reg[RBDC] \in Word /\ reg[RBSH] \in Word /\ reg[RBDH] \in Word
         /\ DR \in 0 .. 7 /\ reg[DR] \in Word /\ SR1 \in 0 .. 7 /\ reg[SR1] \in Word
         /\ Operand \in Word /\ NearPC \in Word /\ NearBase \in Word
<1>1. DR \in 0 .. 7 /\ SR1 \in 0 .. 7 /\ Field(ir, 0, 3) \in 0 .. 7
  BY Operands DEF DR, SR1
<1>2. /\ reg[R0] \in Word /\ reg[RPC] \in Word /\ reg[RCND] \in Word /\ reg[RBSC] \in Word
      /\ reg[RBDC] \in Word /\ reg[RBSH] \in Word /\ reg[RBDH] \in Word
  BY DEF R0, RPC, RCND, RBSC, RBDC, RBSH, RBDH
<1>3. reg[DR] \in Word /\ reg[SR1] \in Word /\ reg[Field(ir, 0, 3)] \in Word
  BY <1>1
<1>4. Operand \in Word
  BY <1>3, Operands DEF Operand
<1>5. NearPC \in Word
  <2>1. reg[RPC] \in Nat /\ Sext(Field(ir, 0, 9), 9) \in Nat
    BY <1>2, Operands, InWord
  <2> QED BY <2>1, Truncates DEF NearPC
<1>6. NearBase \in Word
  <2>1. reg[SR1] \in Nat /\ Sext(Field(ir, 0, 6), 6) \in Nat
    BY <1>3, Operands, InWord
  <2> QED BY <2>1, Truncates DEF NearBase
<1> QED BY <1>1, <1>2, <1>3, <1>4, <1>5, <1>6

LEMMA MrWord == ASSUME Memory(mem), NEW a PROVE Mr(a) \in Word
BY AtWord, InWord DEF Mr

LEMMA MwMemory ==
  ASSUME Memory(mem), NEW a, NEW v \in Word, Mapped(a) => InMem(Cell(a))
  PROVE  Memory(Mw(a, v))
BY PutMemory DEF Mw, InMem

\* In the labels without a frame of their own.
LEMMA AtRest ==
  ASSUME pc' \in {"call", "fetch", "execute", "freed", "exited", "undefined"}
  PROVE  Frames' /\ pc' \in Labels
BY DEF Frames, AllocFrame, AllocatedFrame, FreeFrame, InsertFrame, YieldFrame, Labels

\* A step of the machine, which leaves the calls of the drivers alone.
LEMMA MachineStep ==
  ASSUME Machines, UNCHANGED <<driver, program, loaded, inRun, counts, handed, halted>>,
         ir' \in Word, intact' \in BOOLEAN, DOMAIN saved' \subseteq Word, pc' \in Labels
  PROVE  Machines'
BY DEF Machines, counts

LEMMA ResumeAtRest == ASSUME Resume PROVE pc' \in {"call", "fetch"}
BY DEF Resume, Goto

LEMMA SetsType ==
  ASSUME TypeInv, UNCHANGED driver, NEW k, Executing(k),
         NEW r \in [0 .. 13 -> Word], Sets(r)
  PROVE  TypeInv'
<1>1. pc' \in {"call", "fetch"} /\ reg' = r /\ UNCHANGED <<mem, ir, intact, saved>>
  BY ResumeAtRest DEF Sets
<1>2. Machines'
  BY <1>1, AtRest, MachineStep DEF TypeInv, Machines, Executing
<1>3. Memory(mem)'
  BY <1>1 DEF TypeInv, Memory
<1> QED BY <1>1, <1>2, <1>3, AtRest DEF TypeInv

\* An access that faults, or leaves the memory.
LEMMA StopsType ==
  ASSUME TypeInv, UNCHANGED driver, NEW k, Executing(k), UNCHANGED saved,
         Goto("exited") \/ Goto("undefined"), UNCHANGED <<mem, reg, ir, intact>>
  PROVE  TypeInv'
<1>1. pc' \in {"exited", "undefined"}
  BY DEF Goto
<1>2. Machines'
  BY <1>1, AtRest, MachineStep DEF TypeInv, Machines, Executing
<1> QED BY <1>1, <1>2, AtRest DEF TypeInv, Memory

LEMMA LoadsType ==
  ASSUME TypeInv, UNCHANGED driver, NEW k, Executing(k), UNCHANGED saved, NEW a, Loads(a)
  PROVE  TypeInv'
<1>1. CASE /\ reg' = SetReg(DR, Mr(a)) /\ Resume /\ UNCHANGED <<mem, ir, intact>>
  <2>1. pc' \in {"call", "fetch"}
    BY <1>1, ResumeAtRest
  <2>2. SetReg(DR, Mr(a)) \in [0 .. 13 -> Word]
    BY RegWord, MrWord, SetRegWord DEF TypeInv, Machines
  <2>3. Machines'
    BY <1>1, <2>1, AtRest, MachineStep DEF TypeInv, Machines, Executing
  <2>4. Memory(mem)'
    BY <1>1 DEF TypeInv, Memory
  <2> QED BY <1>1, <2>1, <2>2, <2>3, <2>4, AtRest DEF TypeInv
<1> QED BY <1>1, StopsType DEF Loads, Access

LEMMA StoresType ==
  ASSUME TypeInv, UNCHANGED driver, NEW k, Executing(k), UNCHANGED saved, NEW a, Stores(a)
  PROVE  TypeInv'
<1>1. CASE /\ Mapped(a) => InMem(Cell(a))
           /\ mem' = Mw(a, reg[DR]) /\ Resume /\ UNCHANGED <<reg, ir, intact>>
  <2>1. pc' \in {"call", "fetch"}
    BY <1>1, ResumeAtRest
  <2>2. Memory(Mw(a, reg[DR]))
    BY <1>1, RegWord, MwMemory DEF TypeInv, Machines
  <2>3. Machines'
    BY <1>1, <2>1, AtRest, MachineStep DEF TypeInv, Machines, Executing
  <2>4. Memory(mem)'
    BY <1>1, <2>2 DEF Memory
  <2> QED BY <1>1, <2>1, <2>3, <2>4, AtRest DEF TypeInv
<1> QED BY <1>1, StopsType DEF Stores, Access

\* The instructions.
LEMMA InstructionsType ==
  ASSUME TypeInv, UNCHANGED driver,
         \/ Br \/ Add \/ Ld \/ St \/ Jsr \/ And \/ Ldr \/ Str \/ Unused
         \/ Not \/ Ldi \/ Sti \/ Jmp \/ Lea
  PROVE  TypeInv'
<1>0. reg \in [0 .. 13 -> Word] /\ ir \in Word
  BY DEF TypeInv, Machines
<1>1. CASE Br
  <2>1. [reg EXCEPT ![RPC] = IF AndWord(reg[RCND], DR) # 0 THEN NearPC ELSE @]
          \in [0 .. 13 -> Word]
    BY <1>0, RegWord
  <2> QED BY <1>1, <2>1, SetsType DEF Br
<1>2. CASE Add
  <2>1. reg[SR1] + Operand \in Int
    BY <1>0, RegWord, InWord
  <2>2. SetReg(DR, U16(reg[SR1] + Operand)) \in [0 .. 13 -> Word]
    BY <1>0, <2>1, RegWord, Truncates, SetRegWord
  <2> QED BY <1>2, <2>2, SetsType DEF Add
<1>3. CASE And
  <2>1. SetReg(DR, AndWord(reg[SR1], Operand)) \in [0 .. 13 -> Word]
    BY <1>0, RegWord, AndBits, SetRegWord
  <2> QED BY <1>3, <2>1, SetsType DEF And
<1>4. CASE Jsr
  <2> DEFINE linked == [reg EXCEPT ![R7] = reg[RPC]]
             next(x) == IF Field(ir, 11, 1) = 1 THEN U16(x + Sext(Field(ir, 0, 11), 11))
                        ELSE linked[SR1]
  <2>1. linked \in [0 .. 13 -> Word] /\ linked[RPC] \in Word /\ linked[SR1] \in Word
    <3>1. linked \in [0 .. 13 -> Word]
      BY <1>0, RegWord
    <3> QED BY <1>0, <3>1, RegWord DEF RPC
  <2>2. linked[RPC] + Sext(Field(ir, 0, 11), 11) \in Int
    <3>1. Sext(Field(ir, 0, 11), 11) \in Nat
      BY <1>0, Operands, InWord
    <3> HIDE DEF linked
    <3> QED BY <2>1, <3>1, InWord
  <2>3. next(linked[RPC]) \in Word
    <3> HIDE DEF linked
    <3> QED BY <2>1, <2>2, Truncates
  <2>4. [linked EXCEPT ![RPC] = next(@)] \in [0 .. 13 -> Word]
    <3> HIDE DEF linked, next
    <3> QED BY <2>1, <2>3
  <2> QED BY <1>4, <2>4, SetsType DEF Jsr
<1>5. CASE Unused
  BY <1>0, <1>5, SetsType DEF Unused
<1>6. CASE Not
  <2>1. 65535 - reg[SR1] \in Word
    <3>1. reg[SR1] \in Nat /\ reg[SR1] < 65536
      BY <1>0, RegWord, InWord
    <3> QED BY <3>1, InWord
  <2>2. SetReg(DR, 65535 - reg[SR1]) \in [0 .. 13 -> Word]
    BY <1>0, <2>1, RegWord, SetRegWord
  <2> QED BY <1>6, <2>2, SetsType DEF Not
<1>7. CASE Jmp
  <2>1. [reg EXCEPT ![RPC] = reg[SR1]] \in [0 .. 13 -> Word]
    BY <1>0, RegWord
  <2> QED BY <1>7, <2>1, SetsType DEF Jmp
<1>8. CASE Lea
  <2>1. SetReg(DR, NearPC) \in [0 .. 13 -> Word]
    BY <1>0, RegWord, SetRegWord
  <2> QED BY <1>8, <2>1, SetsType DEF Lea
<1>9. CASE Ld \/ Ldr
  BY <1>9, LoadsType DEF Ld, Ldr
<1>10. CASE St \/ Str
  BY <1>10, StoresType DEF St, Str
<1>11. CASE Ldi
  BY <1>11, LoadsType, StopsType DEF Ldi, Access
<1>12. CASE Sti
  BY <1>12, StoresType, StopsType DEF Sti, Access
<1> QED BY <1>1, <1>2, <1>3, <1>4, <1>5, <1>6, <1>7, <1>8, <1>9, <1>10, <1>11, <1>12

LEMMA CallAllocFrames ==
  ASSUME NEW size \in Word, NEW for, for = "code" => size = CODE_SIZE, CallAlloc(size, for)
  PROVE  Frames' /\ pc' \in Labels
<1>1. pc' = "alloc" /\ frame' = [for |-> for, size |-> size, at |-> OS_MEM_SIZE]
  BY DEF CallAlloc, Goto
<1>2. OS_MEM_SIZE \in Cells
  BY InCells DEF OS_MEM_SIZE
<1>3. AllocFrame'
  BY <1>1, <1>2 DEF AllocFrame
<1> QED BY <1>1, <1>3 DEF Frames, AllocatedFrame, FreeFrame, InsertFrame, YieldFrame, Labels

LEMMA CallFreeFrames ==
  ASSUME NEW ptr \in Word, NEW for, CallFree(ptr, for)
  PROVE  Frames' /\ pc' \in Labels
<1>1. pc' = "free" /\ frame' = [for |-> for, ptr |-> ptr]
  BY DEF CallFree, Goto
<1>2. FreeFrame'
  BY <1>1 DEF FreeFrame
<1> QED BY <1>1, <1>2 DEF Frames, AllocFrame, AllocatedFrame, InsertFrame, YieldFrame, Labels

LEMMA FetchType ==
  ASSUME TypeInv, UNCHANGED driver, Fetch
  PROVE  TypeInv'
<1>0. /\ UNCHANGED <<program, frame, loaded, inRun, created, allocs, handed, saved, halted>>
      /\ steps' = steps + 1 /\ steps < MaxSteps
  BY DEF Fetch
<1>1. steps' \in 0 .. MaxSteps
  BY <1>0, WordsAssumption DEF TypeInv, Machines
<1>2. CASE /\ ir' = Mr(reg[RPC]) /\ reg' = [reg EXCEPT ![RPC] = U16(@ + 1)]
           /\ Goto("execute") /\ UNCHANGED <<mem, intact>>
  <2>0. reg[RPC] \in Word
    BY RegWord DEF TypeInv, Machines
  <2>1. reg[RPC] + 1 \in Int
    BY <2>0, InWord
  <2>2. [reg EXCEPT ![RPC] = U16(@ + 1)] \in [0 .. 13 -> Word]
    BY <2>1, Truncates DEF TypeInv
  <2>3. Mr(reg[RPC]) \in Word
    BY MrWord DEF TypeInv
  <2>4. Machines'
    BY <1>0, <1>1, <1>2, <2>3 DEF TypeInv, Machines, Goto, Labels
  <2>5. Memory(mem)' /\ pc' = "execute"
    BY <1>2 DEF TypeInv, Memory, Goto
  <2> QED BY <1>2, <2>2, <2>4, <2>5, AtRest DEF TypeInv
<1>3. CASE (Goto("exited") \/ Goto("undefined")) /\ UNCHANGED <<mem, reg, ir, intact>>
  <2>1. pc' \in {"exited", "undefined"}
    BY <1>3 DEF Goto
  <2>2. Machines'
    BY <1>0, <1>1, <1>3, <2>1 DEF TypeInv, Machines, Labels
  <2> QED BY <1>3, <2>1, <2>2, AtRest DEF TypeInv, Memory
<1> QED BY <1>2, <1>3 DEF Fetch, Access

LEMMA InputTrapsType ==
  ASSUME TypeInv, UNCHANGED driver, Getc \/ Output \/ Puts \/ Inu16 \/ NoSuchTrap
  PROVE  TypeInv'
<1>0. reg \in [0 .. 13 -> Word] /\ reg[R0] \in Word
  BY RegWord DEF TypeInv, Machines
<1>1. CASE Output
  BY <1>0, <1>1, SetsType DEF Output, Trap
<1>2. CASE Getc
  <2>1. PICK c \in Inputs : Executing(15) /\ Sets([reg EXCEPT ![R0] = c])
    BY <1>2 DEF Getc, Trap
  <2>2. [reg EXCEPT ![R0] = c] \in [0 .. 13 -> Word]
    BY <1>0, WordsAssumption
  <2> QED BY <2>1, <2>2, SetsType
<1>3. CASE Inu16
  <2>1. PICK c \in Inputs \cup {reg[R0]} : Executing(15) /\ Sets([reg EXCEPT ![R0] = c])
    BY <1>3 DEF Inu16, Trap
  <2>2. [reg EXCEPT ![R0] = c] \in [0 .. 13 -> Word]
    BY <1>0, WordsAssumption
  <2> QED BY <2>1, <2>2, SetsType
<1>4. CASE Puts
  BY <1>0, <1>4, SetsType, StopsType DEF Puts, Trap
<1>5. CASE NoSuchTrap
  BY <1>5, StopsType DEF NoSuchTrap, Trap
<1> QED BY <1>1, <1>2, <1>3, <1>4, <1>5

LEMMA BrkType ==
  ASSUME TypeInv, UNCHANGED driver, BrkGrow \/ BrkShrink \/ BrkSame \/ BrkReturns
  PROVE  TypeInv'
<1>0. /\ reg \in [0 .. 13 -> Word] /\ reg[R0] \in Word /\ reg[RBDH] \in Word
      /\ reg[RBSH] \in Word
  BY RegWord DEF TypeInv, Machines
<1>1. CASE BrkGrow
  <2>1. Executing(15) /\ UNCHANGED <<mem, reg, ir, intact, saved>> /\ reg[R0] > reg[RBDH]
    BY <1>1 DEF BrkGrow, Trap
  <2>2. reg[R0] - reg[RBDH] \in Word
    BY <1>0, <2>1, InWord
  <2>3. Frames' /\ pc' \in Labels
    <3>1. CASE CallAlloc(reg[R0] - reg[RBDH], "brk")
      BY <2>2, <3>1, CallAllocFrames
    <3>2. CASE Resume \/ Goto("undefined")
      BY <3>2, ResumeAtRest, AtRest DEF Goto
    <3> QED BY <1>1, <3>1, <3>2 DEF BrkGrow
  <2>4. Machines'
    BY <2>1, <2>3, MachineStep DEF TypeInv, Machines, Executing
  <2> QED BY <2>1, <2>3, <2>4 DEF TypeInv, Memory
<1>2. CASE BrkShrink
  <2>1. Executing(15) /\ UNCHANGED <<mem, reg, ir, intact, saved>>
    BY <1>2 DEF BrkShrink, Trap
  <2>2. U16(reg[RBSH] + reg[R0]) \in Word
    BY <1>0, InWord, Truncates
  <2>3. Frames' /\ pc' \in Labels
    BY <1>2, <2>2, CallFreeFrames DEF BrkShrink
  <2>4. Machines'
    BY <2>1, <2>3, MachineStep DEF TypeInv, Machines, Executing
  <2> QED BY <2>1, <2>3, <2>4 DEF TypeInv, Memory
<1>3. CASE BrkSame
  BY <1>0, <1>3, SetsType DEF BrkSame, Trap
<1>4. CASE BrkReturns
  <2>1. pc' \in {"call", "fetch"}
    BY <1>4, ResumeAtRest DEF BrkReturns
  <2>2. reg' \in [0 .. 13 -> Word]
    BY <1>0, <1>4 DEF BrkReturns
  <2>3. Machines'
    BY <1>4, <2>1, AtRest, MachineStep DEF TypeInv, Machines, BrkReturns
  <2>4. Memory(mem)'
    BY <1>4 DEF TypeInv, Memory, BrkReturns
  <2> QED BY <2>1, <2>2, <2>3, <2>4, AtRest DEF TypeInv
<1> QED BY <1>1, <1>2, <1>3, <1>4

LEMMA PCBWord == ASSUME NEW p \in Word PROVE PCB(p) \in Word
<1>1. p * PCB_SIZE + OS_MEM_SIZE \in Int
  BY InWord DEF PCB_SIZE, OS_MEM_SIZE
<1> QED BY <1>1, Truncates DEF PCB

LEMMA Remainder == \A n \in Nat, d \in Nat : d > 0 => n % d \in 0 .. d - 1
OBVIOUS

LEMMA SavedMemory ==
  ASSUME TypeInv, NEW m, Memory(m), InMem(PCB(CurProc) + 5)
  PROVE  /\ Memory(WithSaved(m))
         /\ \A k \in 1 .. 5 : At(WithSaved(m), PCB(CurProc) + k) = Context[k]
         /\ \A a : (\A k \in 1 .. 5 : a # PCB(CurProc) + k) => At(WithSaved(m), a) = At(m, a)
<1> DEFINE b == PCB(CurProc)
           w == WithSaved(m)
<1>1. b \in Nat /\ b + 5 < 65535
  BY AtWord, PCBWord, InWord, InCells DEF TypeInv, CurProc, InMem
<1>2. Context[1] \in Word /\ Context[2] \in Word /\ Context[3] \in Word
      /\ Context[4] \in Word /\ Context[5] \in Word
  BY RegWord DEF TypeInv, Machines, Context
<1>3. \A k \in 1 .. 5 : Context[k] \in Word
  <2>1. \A k \in 1 .. 5 : k = 1 \/ k = 2 \/ k = 3 \/ k = 4 \/ k = 5
    OBVIOUS
  <2> QED BY <1>2, <2>1
<1>4. \A a \in DOMAIN m : a \in Nat /\ a \in Cells /\ m[a] \in Word
  BY InCells DEF Memory
<1>5. /\ DOMAIN w = DOMAIN m \cup {b + i : i \in 1 .. 5}
      /\ \A a \in DOMAIN w : w[a] = IF a - b \in 1 .. 5 THEN Context[a - b] ELSE m[a]
  BY DEF WithSaved
<1> HIDE DEF w, b
<1>6. \A i \in 1 .. 5 : b + i \in Nat /\ b + i \in Cells /\ (b + i) - b = i
  BY <1>1, InCells
<1>7. \A a \in Nat : a - b \in 1 .. 5 => \E i \in 1 .. 5 : a = b + i
  BY <1>1
<1>8. DOMAIN w \subseteq Cells
  BY <1>4, <1>5, <1>6
<1>9. \A a \in DOMAIN w : w[a] \in Word
  <2> SUFFICES ASSUME NEW a \in DOMAIN w PROVE w[a] \in Word
    OBVIOUS
  <2>1. CASE a - b \in 1 .. 5
    BY <1>3, <1>5, <2>1
  <2>2. CASE a - b \notin 1 .. 5
    BY <1>4, <1>5, <1>6, <2>2
  <2> QED BY <2>1, <2>2
<1>10. Memory(w)
  BY <1>8, <1>9 DEF Memory
<1>11. \A k \in 1 .. 5 : At(w, b + k) = Context[k]
  BY <1>5, <1>6 DEF At
<1>12. ASSUME NEW a, \A k \in 1 .. 5 : a # b + k
       PROVE  At(w, a) = At(m, a)
  <2>1. a \in DOMAIN w <=> a \in DOMAIN m
    BY <1>5, <1>12
  <2>2. a \in DOMAIN m => w[a] = m[a]
    BY <1>4, <1>5, <1>7, <1>12
  <2> QED BY <2>1, <2>2 DEF At
<1> QED BY <1>10, <1>11, <1>12 DEF w, b

LEMMA SaveContextType ==
  ASSUME TypeInv, NEW m, InMem(PCB(CurProc) + 5) => Memory(m), SaveContext(m),
         UNCHANGED <<driver, reg, ir, program, loaded, inRun, counts, intact, handed>>,
         halted' \subseteq Word
  PROVE  TypeInv'
<1>0. CurProc \in Word /\ ProcCount \in Word
  BY AtWord DEF TypeInv, CurProc, ProcCount
<1>1. CASE InMem(PCB(CurProc) + 5)
  <2> DEFINE count == At(WithSaved(m), 1)
  <2>1. mem' = WithSaved(m) /\ saved' = Put(saved, CurProc, Context) /\ StartSearch(count)
    BY <1>1 DEF SaveContext
  <2>2. Memory(WithSaved(m))
    BY <1>1, SavedMemory
  <2>3. Memory(mem)'
    BY <2>1, <2>2 DEF Memory
  <2>4. ProcCount' = count /\ count \in Nat /\ CurProc + 1 \in Nat
    <3>1. At(WithSaved(m), 1) \in Word
      BY <2>2, AtWord
    <3> QED BY <1>0, <2>1, <3>1, InWord DEF ProcCount
  <2>5. DOMAIN saved' \subseteq Word
    <3>1. DOMAIN saved' = DOMAIN saved \cup {CurProc}
      BY <2>1 DEF Put
    <3> QED BY <1>0, <3>1 DEF TypeInv, Machines
  <2> HIDE DEF count
  <2>6. Frames' /\ pc' \in Labels
    <3>1. CASE count # 0
      <4>1. frame' = [for |-> "yield", next |-> (CurProc + 1) % count] /\ pc' = "yield"
        BY <2>1, <3>1 DEF StartSearch, Goto
      <4>2. frame'.next \in 0 .. ProcCount' - 1 /\ ProcCount' > 0
        BY <2>4, <3>1, <4>1, Remainder
      <4>3. YieldFrame'
        BY <4>1, <4>2 DEF YieldFrame
      <4> QED BY <4>1, <4>3
              DEF Frames, AllocFrame, AllocatedFrame, FreeFrame, InsertFrame, Labels
    <3>2. CASE pc' = "undefined"
      BY <3>2, AtRest
    <3> QED BY <2>1, <3>1, <3>2 DEF StartSearch, Goto
  <2>7. Machines'
    BY <2>5, <2>6 DEF TypeInv, Machines, counts
  <2> QED BY <2>3, <2>6, <2>7 DEF TypeInv
<1>2. CASE pc' = "undefined" /\ UNCHANGED <<mem, saved, frame>>
  <2>1. Machines'
    BY <1>2 DEF TypeInv, Machines, counts, Labels
  <2> QED BY <1>2, <2>1, AtRest DEF TypeInv, Memory
<1> QED BY <1>1, <1>2 DEF SaveContext, Goto

LEMMA LoadedRegisters ==
  ASSUME Memory(mem), reg \in [0 .. 13 -> Word], NEW pid
  PROVE  WithContext(ContextAt(mem, pid)) \in [0 .. 13 -> Word]
<1>1. \A k \in 1 .. 5 : ContextAt(mem, pid)[k] \in Word
  BY AtWord DEF ContextAt
<1> DEFINE c == ContextAt(mem, pid)
<1>2. c[1] \in Word /\ c[2] \in Word /\ c[3] \in Word /\ c[4] \in Word /\ c[5] \in Word
  BY <1>1
<1> HIDE DEF c
<1>3. WithContext(c) \in [0 .. 13 -> Word]
  BY <1>2 DEF WithContext
<1> QED BY <1>3 DEF c

LEMMA LoadProcType ==
  ASSUME TypeInv, NEW pid \in Word, LoadProc(pid), loaded' \in BOOLEAN, UNCHANGED inRun,
         UNCHANGED <<driver, ir, program, counts, history>>
  PROVE  TypeInv'
<1>1. CASE /\ reg' = WithContext(ContextAt(mem, pid)) /\ mem' = Put(mem, 0, pid)
           /\ pc' \in {"fetch", "call"}
  <2>1. 0 \in Cells
    BY InCells
  <2>2. Memory(Put(mem, 0, pid))
    BY <2>1, PutMemory DEF TypeInv
  <2>3. Memory(mem)'
    BY <1>1, <2>2 DEF Memory
  <2>4. reg' \in [0 .. 13 -> Word]
    BY <1>1, LoadedRegisters DEF TypeInv
  <2>5. Machines'
    BY <1>1 DEF TypeInv, Machines, counts, history, Labels
  <2> QED BY <1>1, <2>3, <2>4, <2>5, AtRest DEF TypeInv
<1>2. CASE pc' = "undefined" /\ UNCHANGED <<mem, reg>>
  <2>1. Machines'
    BY <1>2 DEF TypeInv, Machines, counts, history, Labels
  <2> QED BY <1>2, <2>1, AtRest DEF TypeInv, Memory
<1> QED BY <1>1, <1>2 DEF LoadProc, Goto

LEMMA YieldsType ==
  ASSUME TypeInv, UNCHANGED driver, Yld \/ YieldSkip \/ YieldLoad
  PROVE  TypeInv'
<1>1. CASE Yld
  <2>1. Executing(15) /\ SaveContext(mem) /\ UNCHANGED <<reg, ir, intact>>
    BY <1>1 DEF Yld, Trap
  <2> QED BY <2>1, SaveContextType DEF Executing, TypeInv, Machines
<1>2. CASE YieldSkip
  <2>1. /\ pc = "yield" /\ UNCHANGED <<program, mem, reg, ir, loaded, inRun, counts, history>>
    BY <1>2 DEF YieldSkip
  <2>2. CASE frame' = [frame EXCEPT !.next = (@ + 1) % ProcCount] /\ pc' = "yield"
    <3>1. /\ frame = [for |-> "yield", next |-> frame.next]
          /\ ProcCount > 0 /\ frame.next \in 0 .. ProcCount - 1
      BY <2>1 DEF TypeInv, Frames, YieldFrame
    <3>2. ProcCount \in Nat
      BY AtWord, InWord DEF TypeInv, ProcCount
    <3>3. (frame.next + 1) % ProcCount \in 0 .. ProcCount - 1
      <4>1. frame.next + 1 \in Nat
        BY <3>1, <3>2
      <4> QED BY <3>1, <3>2, <4>1, Remainder
    <3>4. frame' = [for |-> "yield", next |-> (frame.next + 1) % ProcCount]
      BY <2>2, <3>1
    <3>5. ProcCount' = ProcCount
      BY <2>1 DEF ProcCount
    <3>6. frame'.next \in 0 .. ProcCount - 1
      BY <3>3, <3>4
    <3>7. YieldFrame'
      BY <3>1, <3>4, <3>5, <3>6 DEF YieldFrame
    <3>8. Frames'
      BY <2>2, <3>7 DEF Frames, AllocFrame, AllocatedFrame, FreeFrame, InsertFrame
    <3> QED BY <2>1, <2>2, <3>8 DEF TypeInv, Machines, Memory, counts, history, Labels
  <2>3. CASE pc' = "undefined"
    BY <2>1, <2>3, AtRest DEF TypeInv, Machines, Memory, counts, history
  <2> QED BY <1>2, <2>1, <2>2, <2>3 DEF YieldSkip, Goto
<1>3. CASE YieldLoad
  <2>1. frame.next \in 0 .. ProcCount - 1 /\ ProcCount \in Word
    BY <1>3, AtWord DEF YieldLoad, TypeInv, Frames, YieldFrame, ProcCount
  <2>2. frame.next \in Word
    BY <2>1, InWord
  <2> QED BY <1>3, <2>2, LoadProcType DEF YieldLoad, TypeInv, Machines
<1> QED BY <1>1, <1>2, <1>3

LEMMA HaltType ==
  ASSUME TypeInv, UNCHANGED driver, Halt \/ HaltFreesHeap \/ HaltYields
  PROVE  TypeInv'
<1>1. CASE Halt
  <2>1. Executing(15) /\ UNCHANGED <<mem, reg, ir, intact, saved>>
    BY <1>1 DEF Halt, Trap
  <2>2. Frames' /\ pc' \in Labels
    BY <1>1, AtWord, CallFreeFrames DEF Halt, TypeInv
  <2>3. Machines'
    BY <2>1, <2>2, MachineStep DEF TypeInv, Machines, Executing
  <2> QED BY <2>1, <2>2, <2>3 DEF TypeInv, Memory
<1>2. CASE HaltFreesHeap
  <2>1. Frames' /\ pc' \in Labels
    BY <1>2, AtWord, CallFreeFrames DEF HaltFreesHeap, TypeInv
  <2> QED BY <1>2, <2>1 DEF HaltFreesHeap, TypeInv, Machines, Memory, counts, history
<1>3. CASE HaltYields
  <2>1. CurProc \in Word
    BY AtWord DEF TypeInv, CurProc
  <2>2. InMem(PCB(CurProc) + 5) => Memory(Put(mem, PCB(CurProc), DEAD))
    <3> SUFFICES ASSUME InMem(PCB(CurProc) + 5)
                 PROVE  Memory(Put(mem, PCB(CurProc), DEAD))
      OBVIOUS
    <3>1. PCB(CurProc) \in Nat /\ PCB(CurProc) + 5 < 65535
      BY <2>1, PCBWord, InWord, InCells DEF InMem
    <3>2. PCB(CurProc) \in Cells /\ DEAD \in Word
      BY <3>1, InCells, InWord DEF DEAD
    <3> QED BY <3>2, PutMemory DEF TypeInv
  <2>3. halted' \subseteq Word
    BY <1>3, <2>1 DEF HaltYields, TypeInv, Machines
  <2>4. /\ SaveContext(Put(mem, PCB(CurProc), DEAD))
        /\ UNCHANGED <<program, reg, ir, loaded, inRun, counts, intact, handed>>
    BY <1>3 DEF HaltYields
  <2> QED BY <2>2, <2>3, <2>4, SaveContextType
<1> QED BY <1>1, <1>2, <1>3

\* The three walks: along the list for a chunk, the chunk itself, along the list
\* for a place.
LEMMA AllocType ==
  ASSUME TypeInv, UNCHANGED driver, AllocMem
  PROVE  TypeInv'
<1>1. /\ pc = "alloc" /\ frame = [for |-> frame.for, size |-> frame.size, at |-> frame.at]
      /\ frame.size \in Word /\ frame.at \in Cells
      /\ frame.for = "code" => frame.size = CODE_SIZE
      /\ UNCHANGED <<program, reg, ir, loaded, inRun, counts, saved, halted>>
  BY DEF AllocMem, AllocEnd, AllocSkip, AllocFit, TypeInv, Frames, AllocFrame, history
<1> DEFINE here == At(mem, frame.at)
           ptr  == U16(here + frame.size + 2)
<1>2. here \in Word
  BY AtWord DEF TypeInv
<1>3. here \in Nat /\ here < 65536 /\ frame.size \in Nat /\ frame.size < 65536
  BY <1>1, <1>2, InWord
<1>4. ptr \in Word /\ ptr \in Nat
  <2>1. here + frame.size + 2 \in Int
    BY <1>3
  <2> QED BY <2>1, Truncates, InWord
<1> HIDE DEF here, ptr
<1>5. CASE AllocEnd
  <2>1. /\ frame' = [for |-> frame.for, size |-> frame.size, at |-> 0] /\ pc' = "allocated"
        /\ UNCHANGED <<mem, intact, handed>>
    BY <1>1, <1>5 DEF AllocEnd, AllocReturns, Goto, history
  <2>2. AllocatedFrame'
    BY <2>1, InWord DEF AllocatedFrame
  <2>3. Frames'
    BY <2>1, <2>2 DEF Frames, AllocFrame, FreeFrame, InsertFrame, YieldFrame
  <2> QED BY <1>1, <2>1, <2>3 DEF TypeInv, Machines, Memory, counts, Labels
<1>6. CASE AllocSkip
  <2>1. /\ frame' = [for |-> frame.for, size |-> frame.size, at |-> here] /\ pc' = "alloc"
        /\ UNCHANGED <<mem, intact, handed>> /\ ~(here >= frame.size)
    BY <1>1, <1>6 DEF AllocSkip, AllocFits, history, here
  <2>2. here \in Cells
    BY <1>3, <2>1, InCells
  <2>3. AllocFrame'
    BY <1>1, <2>1, <2>2 DEF AllocFrame
  <2>4. Frames'
    BY <2>1, <2>3 DEF Frames, AllocatedFrame, FreeFrame, InsertFrame, YieldFrame
  <2> QED BY <1>1, <2>1, <2>4 DEF TypeInv, Machines, Memory, counts, Labels
<1>7. CASE AllocFit
  <2>0. intact' = FALSE
    BY <1>7 DEF AllocFit
  <2>1. CASE /\ ptr >= 2 /\ InMem(ptr + frame.size + 1)
             /\ mem' = Carve(frame.at, frame.size)
             /\ frame' = [for |-> frame.for, size |-> frame.size, at |-> ptr]
             /\ pc' = "allocated" /\ handed' = handed \cup {ptr}
    <3>1. ptr + frame.size + 1 < 65535
      BY <2>1, InCells DEF InMem
    <3>2. /\ ptr - 2 \in Cells /\ ptr - 1 \in Cells /\ ptr + frame.size \in Cells
          /\ ptr + frame.size + 1 \in Cells
      BY <1>3, <1>4, <2>1, <3>1, InCells
    <3> DEFINE rest == U16(here + 65534 - frame.size)
               m0 == Put(mem, frame.at, ptr)
               m1 == Put(Put(m0, ptr - 2, frame.size), ptr - 1, MAGIC)
               m2 == Put(m1, ptr + frame.size, rest)
               m3 == Put(m2, ptr + frame.size + 1, At(m2, ptr - 1))
    <3>3. rest \in Word /\ MAGIC \in Word
      BY <1>3, Truncates, InWord DEF MAGIC
    <3>4. Memory(m0)
      BY <1>1, <1>4, PutMemory DEF TypeInv
    <3>5. Memory(m1)
      <4> HIDE DEF m0
      <4>1. Memory(Put(m0, ptr - 2, frame.size))
        BY <1>1, <3>2, <3>4, PutMemory
      <4> QED BY <3>2, <3>3, <4>1, PutMemory
    <3>6. Memory(m2)
      <4> HIDE DEF m1, rest
      <4> QED BY <3>2, <3>3, <3>5, PutMemory
    <3>7. Memory(m3)
      <4> HIDE DEF m2
      <4> QED BY <3>2, <3>6, AtWord, PutMemory
    <3>8. mem' = IF rest > 0 THEN m3 ELSE m2
      BY <2>1 DEF Carve, ptr, here
    <3>9. Memory(mem)'
      <4> HIDE DEF m2, m3
      <4> QED BY <3>6, <3>7, <3>8 DEF Memory
    <3>10. frame.for = "code" => ptr + CODE_SIZE < 65535
      BY <1>1, <1>3, <1>4, <3>1
    <3>11. AllocatedFrame'
      BY <1>4, <2>1, <3>10 DEF AllocatedFrame
    <3>12. Frames'
      BY <2>1, <3>11 DEF Frames, AllocFrame, FreeFrame, InsertFrame, YieldFrame
    <3>13. Machines'
      BY <1>1, <1>4, <2>0, <2>1 DEF TypeInv, Machines, counts, Labels
    <3> QED BY <1>1, <3>9, <3>12, <3>13 DEF TypeInv
  <2>2. CASE pc' = "undefined" /\ UNCHANGED <<mem, frame, handed>>
    BY <1>1, <2>0, <2>2, AtRest DEF TypeInv, Machines, Memory, counts, Labels
  <2> QED BY <1>1, <1>7, <2>1, <2>2 DEF AllocFit, AllocReturns, Goto, ptr, here
<1> QED BY <1>5, <1>6, <1>7 DEF AllocMem

LEMMA FreeWalkType ==
  ASSUME TypeInv, UNCHANGED driver, FreeRefused \/ FreeCoalesce \/ FreeWalk
  PROVE  TypeInv'
<1>1. UNCHANGED <<program, mem, reg, ir, loaded, inRun, counts, history>>
  BY DEF FreeRefused, FreeCoalesce, FreeWalk
<1>2. Frames' /\ pc' \in Labels
  <2>1. CASE FreeRefused
    BY <2>1, AtRest DEF FreeRefused, Goto
  <2>2. CASE FreeCoalesce
    <3>1. pc = "free" /\ frame.ptr \in Word
      BY <2>2 DEF FreeCoalesce, TypeInv, Frames, FreeFrame
    <3>2. frame.ptr \in Nat /\ frame.ptr < 65536 /\ frame.ptr >= OS_MEM_SIZE
      BY <2>2, <3>1, InWord DEF FreeCoalesce, FreeRefuses, OS_MEM_SIZE
    <3>3. At(mem, frame.ptr - 2) = 42
      BY <2>2 DEF FreeCoalesce, FreeRefuses, MAGIC
    <3> DEFINE back  == frame.ptr > OS_MEM_SIZE /\ At(mem, frame.ptr - 4) = 0
               more == IF back THEN 2 ELSE 0
               ptr   == frame.ptr - more
               next(p, s) == IF At(mem, p + s) = 0 THEN 2 ELSE 0
    <3>4. more \in {0, 2}
      OBVIOUS
    <3>5. CASE /\ pc' = "insert"
               /\ frame' = [for |-> frame.for, ptr |-> ptr, prev |-> 0, at |-> OS_MEM_SIZE,
                            size |-> 42 + more + next(ptr, 42 + more)]
      <4>1. ptr \in Word /\ ptr >= OS_MEM_SIZE - 2
        <5> HIDE DEF more
        <5> QED BY <3>2, <3>4, InWord DEF OS_MEM_SIZE
      <4>2. 0 \in Cells /\ OS_MEM_SIZE \in Cells
        BY InCells DEF OS_MEM_SIZE
      <4>3. next(ptr, 42 + more) \in {0, 2}
        OBVIOUS
      <4>4. frame'.size \in {42, 44, 46}
        <5> HIDE DEF more, next
        <5> QED BY <3>4, <3>5, <4>3
      <4> HIDE DEF more, next, ptr
      <4>5. InsertFrame'
        BY <3>5, <4>1, <4>2, <4>4 DEF InsertFrame
      <4> QED BY <3>5, <4>5 DEF Frames, AllocFrame, AllocatedFrame, FreeFrame, YieldFrame, Labels
    <3>6. CASE pc' = "undefined"
      BY <3>6, AtRest
    <3> QED BY <2>2, <3>3, <3>5, <3>6 DEF FreeCoalesce, Goto
  <2>3. CASE FreeWalk
    <3>1. /\ pc = "insert" /\ pc' = "insert"
          /\ frame = [for |-> frame.for, ptr |-> frame.ptr, prev |-> frame.prev,
                      at |-> frame.at, size |-> frame.size]
          /\ frame' = [frame EXCEPT !.prev = frame.at, !.at = At(mem, frame.at)]
      BY <2>3 DEF FreeWalk, TypeInv, Frames, InsertFrame
    <3>2. frame' = [for |-> frame.for, ptr |-> frame.ptr, prev |-> frame.at,
                    at |-> At(mem, frame.at), size |-> frame.size]
      BY <3>1
    <3>3. /\ frame.ptr \in Word /\ frame.ptr >= OS_MEM_SIZE - 2 /\ frame.at \in Cells
          /\ frame.size \in {42, 44, 46}
      BY <3>1 DEF TypeInv, Frames, InsertFrame
    <3>4. At(mem, frame.at) \in Cells
      <4>1. At(mem, frame.at) \in Word /\ At(mem, frame.at) < frame.ptr
        BY <2>3, AtWord DEF FreeWalk, InsertFurther, TypeInv
      <4> QED BY <3>3, <4>1, InWord, InCells
    <3>5. InsertFrame'
      BY <3>1, <3>2, <3>3, <3>4 DEF InsertFrame
    <3> QED BY <3>1, <3>5 DEF Frames, AllocFrame, AllocatedFrame, FreeFrame, YieldFrame, Labels
  <2> QED BY <2>1, <2>2, <2>3
<1> QED BY <1>1, <1>2 DEF TypeInv, Machines, Memory, counts, history

LEMMA FreeInsertType ==
  ASSUME TypeInv, UNCHANGED driver, FreeInsert
  PROVE  TypeInv'
<1>1. /\ frame.ptr \in Word /\ frame.ptr >= OS_MEM_SIZE - 2
      /\ frame.prev \in Cells /\ frame.at \in Cells /\ frame.size \in {42, 44, 46}
  BY DEF FreeInsert, TypeInv, Frames, InsertFrame
<1>2. /\ UNCHANGED <<program, reg, ir, loaded, inRun, counts, handed, saved, halted>>
      /\ intact' = FALSE
  BY DEF FreeInsert
<1> DEFINE head == IF frame.prev # 0 THEN frame.prev ELSE OS_MEM_SIZE
           m0   == Put(Put(mem, frame.ptr - 2, frame.size), frame.ptr - 1, frame.at)
           m1   == Put(m0, head, frame.ptr - 2)
           end  == frame.ptr + frame.size
<1>3. CASE /\ InMem(end) /\ pc' = "freed"
           /\ mem' = IF At(m1, end) = 0 THEN Put(m1, head, 0) ELSE m1
  <2>1. frame.ptr \in Nat /\ frame.ptr >= 4094 /\ frame.ptr + frame.size < 65535
    BY <1>1, <1>3, InWord, InCells DEF InMem, OS_MEM_SIZE
  <2>2. frame.ptr - 2 \in Cells /\ frame.ptr - 1 \in Cells /\ head \in Cells
    BY <1>1, <2>1, InCells DEF OS_MEM_SIZE
  <2>3. /\ frame.ptr - 2 \in Word /\ frame.size \in Word /\ frame.at \in Word /\ 0 \in Word
    BY <1>1, <2>2, InWord, InCells
  <2>4. Memory(m0)
    <3>1. Memory(Put(mem, frame.ptr - 2, frame.size))
      BY <2>2, <2>3, PutMemory DEF TypeInv
    <3> QED BY <2>2, <2>3, <3>1, PutMemory
  <2>5. Memory(m1)
    <3> HIDE DEF m0, head
    <3> QED BY <2>2, <2>3, <2>4, PutMemory
  <2>6. Memory(Put(m1, head, 0))
    <3> HIDE DEF m1, head
    <3> QED BY <2>2, <2>3, <2>5, PutMemory
  <2>7. Memory(mem)'
    <3> HIDE DEF m1, head, end
    <3> QED BY <1>3, <2>5, <2>6 DEF Memory
  <2> QED BY <1>2, <1>3, <2>7, AtRest DEF TypeInv, Machines, counts
<1>4. CASE pc' = "undefined" /\ UNCHANGED mem
  BY <1>2, <1>4, AtRest DEF TypeInv, Machines, Memory, counts
<1> QED BY <1>3, <1>4 DEF FreeInsert, Goto

LEMMA SegmentsMemory ==
  ASSUME NEW m, Memory(m), NEW base \in Word, NEW size \in Word, NEW k \in {2, 4}
  PROVE  Memory(Segments(base, size, k, m))
<1>1. NewPCB + k \in Cells /\ NewPCB + k + 1 \in Cells
  BY InCells DEF NewPCB, PCB_SIZE, OS_MEM_SIZE
<1>2. Memory(Put(m, NewPCB + k, base))
  BY <1>1, PutMemory
<1> QED BY <1>1, <1>2, PutMemory DEF Segments

\* The file is loaded into the chunk: Image has CODE_SIZE words at most.
LEMMA LoadedMemory ==
  ASSUME Memory(mem), NEW base \in Nat, base + CODE_SIZE < 65535
  PROVE  Memory(Loaded(base))
<1>1. Image \in Seq(Word) /\ Len(Image) \in Nat /\ Len(Image) <= 4096
  BY WordsAssumption DEF CODE_SIZE
<1>2. DOMAIN Image = 1 .. Len(Image) /\ \A k \in DOMAIN Image : Image[k] \in Word
  BY <1>1
<1>3. base + 4096 < 65535
  BY DEF CODE_SIZE
<1>4. \A k \in DOMAIN Image : base + k - 1 \in Cells
  BY <1>1, <1>2, <1>3, InCells
<1>5. DOMAIN Loaded(base) \subseteq Cells
  BY <1>4 DEF Loaded, Memory
<1>6. ASSUME NEW x \in DOMAIN Loaded(base) PROVE Loaded(base)[x] \in Word
  <2>1. x \in Nat
    BY <1>5, InCells
  <2>2. x >= base /\ x < base + Len(Image) => x - base + 1 \in DOMAIN Image
    BY <1>1, <1>2, <2>1
  <2>3. At(mem, x) \in Word
    BY AtWord
  <2> QED BY <1>2, <2>2, <2>3 DEF Loaded
<1> QED BY <1>5, <1>6 DEF Memory

LEMMA CreateType ==
  ASSUME TypeInv, UNCHANGED driver, Create
  PROVE  TypeInv'
<1>1. CASE CreateRefused
  <2>1. created' \in 0 .. MaxProcs
    BY <1>1, ProcsAssumption DEF CreateRefused, TypeInv, Machines
  <2> QED BY <1>1, <2>1, AtRest
          DEF CreateRefused, MayCreate, TypeInv, Machines, Memory, history
<1>2. CASE CreateProc
  <2>0. created' \in 0 .. MaxProcs
    BY <1>2, ProcsAssumption DEF CreateProc, TypeInv, Machines
  <2>1. /\ ProcCount \in Word /\ U16(ProcCount + 1) \in Word /\ PC_START \in Word
        /\ CODE_SIZE \in Word
    <3>1. ProcCount \in Word
      BY AtWord DEF TypeInv, ProcCount
    <3>2. ProcCount + 1 \in Int
      BY <3>1, InWord
    <3> QED BY <3>1, <3>2, Truncates, InWord DEF PC_START, CODE_SIZE
  <2>2. 1 \in Cells /\ NewPCB \in Cells /\ NewPCB + 1 \in Cells
    BY InCells DEF NewPCB, PCB_SIZE, OS_MEM_SIZE
  <2>3. Memory(Put(mem, 1, U16(ProcCount + 1)))
    BY <2>1, <2>2, PutMemory DEF TypeInv
  <2>4. Memory(Put(Put(mem, 1, U16(ProcCount + 1)), NewPCB, ProcCount))
    BY <2>1, <2>2, <2>3, PutMemory
  <2>5. Memory(Put(Put(Put(mem, 1, U16(ProcCount + 1)), NewPCB, ProcCount), NewPCB + 1, PC_START))
    BY <2>1, <2>2, <2>4, PutMemory
  <2>6. Memory(mem)'
    BY <1>2, <2>5 DEF CreateProc, Memory
  <2>7. Frames' /\ pc' \in Labels
    BY <1>2, <2>1, CallAllocFrames DEF CreateProc
  <2> QED BY <1>2, <2>0, <2>6, <2>7 DEF CreateProc, TypeInv, Machines, history
<1>3. CASE CodeAllocated
  <2>1. /\ UNCHANGED <<program, reg, ir, loaded, inRun, counts, history>> /\ pc = "allocated"
        /\ frame.at \in Word /\ (frame.at # 0 => frame.at + CODE_SIZE < 65535)
    BY <1>3 DEF CodeAllocated, TypeInv, Frames, AllocatedFrame
  <2>2. CASE UNCHANGED mem /\ pc' \in {"call", "exited"}
    BY <2>1, <2>2, AtRest DEF TypeInv, Machines, Memory, counts, history
  <2>3. CASE /\ frame.at # 0
             /\ mem' = Segments(frame.at, CODE_SIZE, 2, Loaded(frame.at))
             /\ CallAlloc(HEAP_INIT_SIZE, "heap")
    <3>1. CODE_SIZE \in Word /\ HEAP_INIT_SIZE \in Word /\ frame.at \in Nat
      BY <2>1, InWord DEF CODE_SIZE, HEAP_INIT_SIZE
    <3>2. Memory(Loaded(frame.at))
      BY <2>1, <2>3, <3>1, LoadedMemory DEF TypeInv
    <3>3. Memory(Segments(frame.at, CODE_SIZE, 2, Loaded(frame.at)))
      BY <2>1, <3>1, <3>2, SegmentsMemory
    <3>4. Memory(mem)'
      BY <2>3, <3>3 DEF Memory
    <3>5. Frames' /\ pc' \in Labels
      BY <2>3, <3>1, CallAllocFrames
    <3> QED BY <2>1, <3>4, <3>5 DEF TypeInv, Machines, counts, history
  <2> QED BY <1>3, <2>2, <2>3 DEF CodeAllocated, Goto
<1>4. CASE HeapAllocated
  <2>1. /\ UNCHANGED <<program, reg, ir, loaded, inRun, counts, history>> /\ pc' = "call"
        /\ frame.at \in Word
    BY <1>4 DEF HeapAllocated, Goto, TypeInv, Frames, AllocatedFrame
  <2>2. HEAP_INIT_SIZE \in Word
    BY InWord DEF HEAP_INIT_SIZE
  <2>3. Memory(Segments(frame.at, HEAP_INIT_SIZE, 4, mem))
    BY <2>1, <2>2, SegmentsMemory DEF TypeInv
  <2>4. Memory(mem)'
    BY <1>4, <2>3 DEF HeapAllocated, TypeInv, Memory
  <2> QED BY <2>1, <2>4, AtRest DEF TypeInv, Machines, counts, history
<1> QED BY <1>1, <1>2, <1>3, <1>4 DEF Create

\* The calls of the drivers.
LEMMA DriversType ==
  ASSUME TypeInv, UNCHANGED driver,
         Tests \/ Run \/ \E pid \in Pids \cup {0} : CallLoadProc(pid)
  PROVE  TypeInv'
<1>1. CASE \E s \in Sizes : TestAlloc(s)
  <2>1. PICK s \in Sizes : TestAlloc(s)
    BY <1>1
  <2>2. s \in Word
    BY WordsAssumption
  <2>3. Frames' /\ pc' \in Labels
    BY <2>1, <2>2, CallAllocFrames DEF TestAlloc
  <2>4. allocs' \in 0 .. MaxAllocs
    BY <2>1, WordsAssumption DEF TestAlloc, TypeInv, Machines
  <2> QED BY <2>1, <2>3, <2>4 DEF TestAlloc, TypeInv, Machines, Memory, history
<1>2. CASE \E p \in Pointers : TestFree(p)
  <2>1. PICK p \in Pointers : TestFree(p)
    BY <1>2
  <2>2. p \in Word
    BY WordsAssumption
  <2>3. Frames' /\ pc' \in Labels
    BY <2>1, <2>2, CallFreeFrames DEF TestFree
  <2> QED BY <2>1, <2>3 DEF TestFree, TypeInv, Machines, Memory, counts, history
<1>3. CASE TestReturns
  BY <1>3, AtRest DEF TestReturns, Goto, TypeInv, Machines, Memory, counts, history
<1>4. CASE TestExecutes
  <2>1. Head(program) \in Word /\ Tail(program) \in Seq(Word)
    BY <1>4 DEF TestExecutes, TypeInv, Machines
  <2> QED BY <1>4, <2>1, AtRest DEF TestExecutes, Goto, TypeInv, Machines, Memory, counts, history
<1>5. CASE Run
  BY <1>5, AtRest DEF Run, Goto, TypeInv, Machines, Memory, counts, history
<1>6. CASE \E pid \in Pids \cup {0} : CallLoadProc(pid)
  <2>1. PICK pid \in Pids \cup {0} : CallLoadProc(pid)
    BY <1>6
  <2>2. pid \in Word
    BY WordsAssumption, InWord
  <2> QED BY <2>1, <2>2, LoadProcType DEF CallLoadProc
<1> QED BY <1>1, <1>2, <1>3, <1>4, <1>5, <1>6 DEF Tests

LEMMA InitTypeInv == Init => TypeInv
<1> SUFFICES ASSUME Init PROVE TypeInv
  OBVIOUS
<1>1. Memory(mem)
  <2>1. 0 \in Cells /\ 1 \in Cells /\ 2 \in Cells /\ 0 \in Word /\ 65535 \in Word
    BY InWord, InCells
  <2> QED BY <2>1 DEF Init, InitOS, Memory
<1>2. 0 \in Word
  BY InWord
<1>3. reg \in [0 .. 13 -> Word]
  BY <1>2 DEF Init
<1>4. program \in Seq(Word)
  <2>1. program \in Programs \/ program = << >>
    BY DEF Init
  <2>2. << >> \in Seq(Word)
    OBVIOUS
  <2> QED BY <2>1, <2>2, WordsAssumption
<1>5. Machines
  <2>1. saved = << >> /\ DOMAIN << >> \subseteq Word
    BY DEF Init
  <2>2. 0 \in 0 .. MaxProcs /\ 0 \in 0 .. MaxAllocs /\ 0 \in 0 .. MaxSteps
    BY ProcsAssumption, WordsAssumption
  <2>3. DOMAIN saved \subseteq Word
    BY <2>1
  <2>4. driver \in {"main", "test"} /\ pc \in Labels
    BY DEF Init, Labels
  <2> QED BY <1>2, <1>4, <2>2, <2>3, <2>4 DEF Init, Machines
<1>6. Frames
  BY DEF Init, Frames, AllocFrame, AllocatedFrame, FreeFrame, InsertFrame, YieldFrame
<1> QED BY <1>1, <1>3, <1>5, <1>6 DEF TypeInv

LEMMA NextTypeInv == TypeInv /\ [Next]_vars => TypeInv'
<1> SUFFICES ASSUME TypeInv, [Next]_vars PROVE TypeInv'
  OBVIOUS
<1>1. CASE UNCHANGED vars
  BY <1>1 DEF vars, counts, history, TypeInv, Machines, Memory, Frames, AllocFrame,
              AllocatedFrame, FreeFrame, InsertFrame, YieldFrame, ProcCount
<1>2. CASE UNCHANGED driver /\ Execute
  BY <1>2, InstructionsType, InputTrapsType, BrkType, YieldsType, HaltType DEF Execute
<1>3. CASE UNCHANGED driver /\ (AllocMem \/ FreeMem \/ Create \/ Fetch)
  BY <1>3, AllocType, FreeWalkType, FreeInsertType, CreateType, FetchType DEF FreeMem
<1>4. CASE UNCHANGED driver /\ (Tests \/ Run \/ \E pid \in Pids \cup {0} : CallLoadProc(pid))
  BY <1>4, DriversType
<1> QED BY <1>1, <1>2, <1>3, <1>4 DEF Next, Machine

LEMMA TypeInvTypeOK == TypeInv => TypeOK
BY DEF TypeInv, Machines, Memory, TypeOK

\* Whatever the allocator and the processes write over the PCBs, the free list
\* and the bookkeeping words, every word stays a word in the memory, and so do
\* the registers (vm.c, all of it).
THEOREM TypeCorrect == Spec => []TypeOK
BY InitTypeInv, NextTypeInv, TypeInvTypeOK, PTL DEF Spec

-------------------------------------------------------------------------------
(***************************************************************************)
(* The search of tyld() with no live process left.                         *)
(***************************************************************************)

AllDead == pc = "yield" /\ ~SomeLive

\* In the label "yield" only the search of tyld() goes on.
LEMMA OnlySearch ==
  ASSUME pc = "yield", Next
  PROVE  YieldSkip \/ YieldLoad
<1>1. ~AllocMem /\ ~FreeMem /\ ~Create /\ ~Fetch /\ ~Tests /\ ~Run
  BY DEF AllocMem, AllocEnd, AllocSkip, AllocFit, FreeMem, FreeRefused, FreeCoalesce, FreeWalk,
         FreeInsert, Create, CreateRefused, CreateProc, MayCreate, CodeAllocated, HeapAllocated,
         Fetch, Tests, TestAlloc, TestFree, TestReturns, TestExecutes, Run
<1>2. ~ \E pid \in Pids \cup {0} : CallLoadProc(pid)
  BY DEF CallLoadProc
<1>3. \A k : ~Executing(k)
  BY DEF Executing
<1>4. Execute => YieldSkip \/ YieldLoad
  <2>1. ~(Br \/ Add \/ Ld \/ St \/ Jsr \/ And \/ Ldr \/ Str \/ Unused)
    BY <1>3 DEF Br, Add, Ld, St, Jsr, And, Ldr, Str, Unused
  <2>2. ~(Not \/ Ldi \/ Sti \/ Jmp \/ Lea)
    BY <1>3 DEF Not, Ldi, Sti, Jmp, Lea
  <2>3. ~(Getc \/ Output \/ Puts \/ Inu16 \/ NoSuchTrap)
    BY <1>3 DEF Getc, Output, Puts, Inu16, NoSuchTrap, Trap
  <2>4. ~(BrkGrow \/ BrkShrink \/ BrkSame \/ Yld \/ Halt)
    BY <1>3 DEF BrkGrow, BrkShrink, BrkSame, Yld, Halt, Trap
  <2>5. ~(BrkReturns \/ HaltFreesHeap \/ HaltYields)
    BY DEF BrkReturns, HaltFreesHeap, HaltYields
  <2> QED BY <2>1, <2>2, <2>3, <2>4, <2>5 DEF Execute
<1> QED BY <1>1, <1>2, <1>4 DEF Next, Machine

LEMMA SearchGoesOn == TypeInv /\ AllDead /\ [Next]_vars => AllDead'
<1> SUFFICES ASSUME TypeInv, AllDead, [Next]_vars PROVE AllDead'
  OBVIOUS
<1>1. CASE UNCHANGED vars
  BY <1>1 DEF vars, AllDead, SomeLive, Live, ProcCount
<1>2. CASE Next
  <2>1. pc = "yield" /\ ~SomeLive /\ frame.next \in 0 .. ProcCount - 1
    BY DEF AllDead, TypeInv, Frames, YieldFrame
  <2>2. At(mem, PidCell(frame.next)) = DEAD
    BY <2>1 DEF SomeLive, Live
  <2>3. InMem(PidCell(frame.next))
    BY <2>2 DEF At, TypeInv, Memory, InMem, DEAD
  <2>4. ~NextRuns
    BY <2>2 DEF NextRuns, Live
  <2>5. YieldSkip
    BY <1>2, <2>1, <2>4, OnlySearch DEF YieldLoad
  <2>6. UNCHANGED <<pc, mem>>
    BY <2>3, <2>5 DEF YieldSkip
  <2> QED BY <2>6 DEF AllDead, SomeLive, Live, ProcCount
<1> QED BY <1>1, <1>2

\* When the last process halts, tyld() searches forever and run() never returns
\* (vm.c:337): the safety half of SearchEndsIffLive, for every memory.
THEOREM LastHaltSpinsCorrect == Spec => LastHaltSpins
<1>1. AllDead => pc = "yield"
  BY DEF AllDead
<1>2. Spec => []TypeInv
  BY InitTypeInv, NextTypeInv, PTL DEF Spec
<1>3. Spec => [](AllDead => [](pc = "yield"))
  BY <1>1, <1>2, SearchGoesOn, PTL DEF Spec
<1> QED BY <1>3, PTL DEF LastHaltSpins, AllDead

-------------------------------------------------------------------------------
(***************************************************************************)
(* The kernel while the allocator has handed out nothing.  The bounds of   *)
(* both segments are 0 in the registers and in every PCB, so that every    *)
(* load and store faults; what is written are PCBs that do not overlap.    *)
(***************************************************************************)

\* The PCBs of the pids the tests load lie in the memory.  (The truncation of
\* PCB() puts those of greater pids on the bookkeeping words.)
PidsInMemory == \A pid \in Pids : PidCell(pid) + 5 < 65535

Fits(p) == p \in Nat /\ p <= 10238

Bounds ==
  /\ reg[RBDC] = 0 /\ reg[RBDH] = 0
  /\ \A p : Fits(p) => At(mem, PidCell(p) + 3) = 0 /\ At(mem, PidCell(p) + 5) = 0

\* The process that may run was created, or loaded by the test, or is process 0.
Current ==
  /\ CurProc # DEAD => Fits(CurProc) /\ (CurProc \in Pids \cup {0} \/ CurProc < created)
  /\ loaded => Fits(CurProc)

Bookkeeping == ProcCount = created /\ At(mem, 2) = 0

\* The first field of a PCB tells whether its process has halted.
ListHead ==
  At(mem, PidCell(0)) = IF 0 \in halted THEN DEAD ELSE IF created = 0 THEN 0 ELSE created - 1
Marks ==
  \A p : Fits(p) /\ p # 0 => At(mem, PidCell(p)) = IF p \in halted THEN DEAD ELSE 0

SavedFit == \A p \in DOMAIN saved \cup halted : Fits(p)
ContextsSaved == \A p \in DOMAIN saved : \A k \in 1 .. 5 : At(mem, PidCell(p) + k) = saved[p][k]

Written ==
  \A a : At(mem, a) # 0 =>
     \/ a \in {0, 1}
     \/ \E p \in Pids \cup {0} \cup DOMAIN saved \cup halted, k \in 0 .. 5 : a = PCB(p) + k

Kernel ==
  /\ Bounds /\ Current /\ Bookkeeping /\ ListHead /\ Marks /\ SavedFit /\ ContextsSaved /\ Written
  /\ \A p \in DOMAIN saved : ContextAt(mem, p) = saved[p]

\* Nothing was allocated; only a loaded process executes, halts and yields.
Control ==
  /\ pc = "allocated" => frame.at = 0
  /\ pc \in {"fetch", "execute", "yield"} => loaded
  /\ pc \in {"free", "insert", "freed"} /\ frame.for \in {"halt code", "halt heap"} => loaded
  /\ inRun => loaded

\* The search of tyld() has passed halted processes only.
Passed ==
  pc = "yield" =>
    \E d \in 1 .. ProcCount : /\ frame.next = (CurProc + d) % ProcCount
                              /\ \A e \in 1 .. d - 1 : (CurProc + e) % ProcCount \in halted

KernelInv == PidsInMemory /\ (intact => Kernel /\ Control /\ Passed)

LEMMA PCBOfFitting ==
  ASSUME NEW p, Fits(p)
  PROVE  /\ PCB(p) = PidCell(p) /\ p \in Word
         /\ PidCell(p) \in Nat /\ PidCell(p) >= OS_MEM_SIZE /\ PidCell(p) + 5 < 65535
<1>1. PidCell(p) \in Nat /\ PidCell(p) >= 4096 /\ PidCell(p) + 5 < 65535 /\ p \in Nat /\ p < 65536
  BY DEF Fits, PidCell, PCB_SIZE, OS_MEM_SIZE
<1>2. PCB(p) = U16(PidCell(p))
  BY DEF PCB, PidCell
<1> QED BY <1>1, <1>2, TruncateSmall, InWord DEF OS_MEM_SIZE

\* The fields of two PCBs are different cells.
LEMMA PCBsDisjoint ==
  ASSUME NEW p, NEW q, Fits(p), Fits(q), NEW j \in 0 .. 5, NEW k \in 0 .. 5,
         PidCell(p) + j = PidCell(q) + k
  PROVE  p = q /\ j = k
<1>1. 6 * p + j = 6 * q + k /\ p \in Nat /\ q \in Nat
  BY DEF Fits, PidCell, PCB_SIZE, OS_MEM_SIZE
<1> QED BY <1>1

LEMMA PidsFit == ASSUME PidsInMemory, NEW p \in Pids PROVE Fits(p)
<1>1. p \in Nat
  BY WordsAssumption, InWord
<1> QED BY <1>1 DEF PidsInMemory, PidCell, PCB_SIZE, OS_MEM_SIZE, Fits

\* A step that leaves the memory and the bounds alone.
Quiet ==
  /\ UNCHANGED <<mem, loaded, created, saved, halted>>
  /\ reg'[RBDC] = reg[RBDC] /\ reg'[RBDH] = reg[RBDH]

LEMMA QuietKernel == ASSUME Kernel, Quiet PROVE Kernel'
<1>1. UNCHANGED <<mem, loaded, created, saved, halted>>
  BY DEF Quiet
<1>2. Bounds'
  BY DEF Quiet, Kernel, Bounds
<1>3. Current' /\ Bookkeeping'
  BY <1>1 DEF Kernel, Current, Bookkeeping, CurProc, ProcCount
<1>4. ListHead' /\ Marks' /\ SavedFit' /\ ContextsSaved' /\ Written'
  BY <1>1 DEF Kernel, ListHead, Marks, SavedFit, ContextsSaved, Written
<1>5. (\A p \in DOMAIN saved : ContextAt(mem, p) = saved[p])'
  BY <1>1 DEF Kernel
<1> QED BY <1>2, <1>3, <1>4, <1>5 DEF Kernel

\* With both bounds 0, no address is read or written.
LEMMA EveryAccessFaults ==
  ASSUME Kernel, NEW a \in Word
  PROVE  Mapped(a) => Fault(a)
<1>1. Offset(a) \in Nat
  BY InWord DEF Offset
<1> QED BY <1>1 DEF Kernel, Bounds, Mapped, Fault

\* A quiet step to a label where a process, if any, was loaded.
LEMMA RestKernel ==
  ASSUME KernelInv, intact, Quiet, UNCHANGED inRun,
         pc' \in {"call", "exited", "undefined"} \/ (pc' \in {"fetch", "execute"} /\ loaded)
  PROVE  KernelInv'
<1>1. Kernel' /\ Control /\ PidsInMemory
  BY QuietKernel DEF KernelInv
<1>2. Control'
  BY <1>1 DEF Control, Quiet
<1>3. Passed'
  BY DEF Passed
<1>4. PidsInMemory'
  BY <1>1 DEF PidsInMemory, PidCell
<1> QED BY <1>1, <1>2, <1>3, <1>4 DEF KernelInv

LEMMA SetRegBounds ==
  ASSUME reg \in [0 .. 13 -> Word], NEW r \in 0 .. 7, NEW v
  PROVE  SetReg(r, v)[RBDC] = reg[RBDC] /\ SetReg(r, v)[RBDH] = reg[RBDH]
BY DEF SetReg, RCND, RBDC, RBDH

LEMMA SetsKernel ==
  ASSUME KernelInv, intact, NEW k, Executing(k), NEW r, Sets(r),
         r[RBDC] = reg[RBDC] /\ r[RBDH] = reg[RBDH]
  PROVE  KernelInv'
<1>1. Quiet /\ UNCHANGED inRun
  BY DEF Quiet, Sets, Executing, counts
<1>2. pc' = "call" \/ (pc' = "fetch" /\ loaded)
  BY DEF Sets, Resume, Goto, KernelInv, Control
<1> QED BY <1>1, <1>2, RestKernel

LEMMA StopsKernel ==
  ASSUME KernelInv, intact, NEW k, Executing(k), UNCHANGED saved,
         Goto("exited") \/ Goto("undefined"), UNCHANGED <<mem, reg, ir, intact>>
  PROVE  KernelInv'
<1>1. Quiet /\ UNCHANGED inRun
  BY DEF Quiet, Executing, counts
<1> QED BY <1>1, RestKernel DEF Goto

LEMMA LoadsKernel ==
  ASSUME TypeInv, KernelInv, intact, NEW k, Executing(k), UNCHANGED saved, NEW a, Loads(a)
  PROVE  KernelInv'
<1>1. CASE reg' = SetReg(DR, Mr(a)) /\ Resume /\ UNCHANGED <<mem, ir, intact>>
  <2>1. Quiet /\ UNCHANGED inRun
    BY <1>1, RegWord, SetRegBounds DEF Quiet, Executing, counts, TypeInv, Machines
  <2>2. pc' = "call" \/ (pc' = "fetch" /\ loaded)
    BY <1>1 DEF Resume, Goto, KernelInv, Control
  <2> QED BY <2>1, <2>2, RestKernel
<1> QED BY <1>1, StopsKernel DEF Loads, Access

\* Nothing is stored: the address is in a segment without memory, or faults.
LEMMA StoresKernel ==
  ASSUME TypeInv, KernelInv, intact, NEW k, Executing(k), UNCHANGED saved,
         NEW a \in Word, Stores(a)
  PROVE  KernelInv'
<1>1. CASE /\ ~Fault(a) /\ mem' = Mw(a, reg[DR]) /\ Resume /\ UNCHANGED <<reg, ir, intact>>
  <2>1. ~Mapped(a)
    BY <1>1, EveryAccessFaults DEF KernelInv
  <2>2. Quiet /\ UNCHANGED inRun
    BY <1>1, <2>1 DEF Mw, Quiet, Executing, counts
  <2>3. pc' = "call" \/ (pc' = "fetch" /\ loaded)
    BY <1>1 DEF Resume, Goto, KernelInv, Control
  <2> QED BY <2>2, <2>3, RestKernel
<1> QED BY <1>1, StopsKernel DEF Stores, Access

LEMMA InstructionsKernel ==
  ASSUME TypeInv, KernelInv, intact,
         \/ Br \/ Add \/ Ld \/ St \/ Jsr \/ And \/ Ldr \/ Str \/ Unused
         \/ Not \/ Ldi \/ Sti \/ Jmp \/ Lea
  PROVE  KernelInv'
<1>0. reg \in [0 .. 13 -> Word] /\ ir \in Word /\ DR \in 0 .. 7 /\ NearPC \in Word /\ NearBase \in Word
  BY RegWord DEF TypeInv, Machines
<1>1. CASE Br \/ Jmp
  <2>1. PICK k, v : Executing(k) /\ Sets([reg EXCEPT ![RPC] = v])
    <3>1. CASE Br
      BY <3>1 DEF Br
    <3>2. CASE Jmp
      BY <3>2 DEF Jmp
    <3> QED BY <1>1, <3>1, <3>2
  <2>2. /\ [reg EXCEPT ![RPC] = v][RBDC] = reg[RBDC]
        /\ [reg EXCEPT ![RPC] = v][RBDH] = reg[RBDH]
    BY <1>0 DEF RPC, RBDC, RBDH
  <2> QED BY <2>1, <2>2, SetsKernel
<1>2. CASE Jsr
  <2>1. PICK v : Executing(4) /\ Sets([[reg EXCEPT ![R7] = reg[RPC]] EXCEPT ![RPC] = v])
    BY <1>2 DEF Jsr
  <2>2. /\ [[reg EXCEPT ![R7] = reg[RPC]] EXCEPT ![RPC] = v][RBDC] = reg[RBDC]
        /\ [[reg EXCEPT ![R7] = reg[RPC]] EXCEPT ![RPC] = v][RBDH] = reg[RBDH]
    BY <1>0 DEF R7, RPC, RBDC, RBDH
  <2> QED BY <2>1, <2>2, SetsKernel
<1>3. CASE Add \/ And \/ Not \/ Lea
  BY <1>3, <1>0, SetsKernel, SetRegBounds DEF Add, And, Not, Lea
<1>4. CASE Unused
  BY <1>4, SetsKernel DEF Unused
<1>5. CASE Ld \/ Ldr
  BY <1>5, LoadsKernel DEF Ld, Ldr
<1>6. CASE St \/ Str
  BY <1>0, <1>6, StoresKernel DEF St, Str
<1>7. CASE Ldi
  BY <1>7, LoadsKernel, StopsKernel DEF Ldi, Access
<1>8. CASE Sti
  <2>1. Mr(NearPC) \in Word
    BY MrWord DEF TypeInv
  <2> QED BY <1>8, <2>1, StoresKernel, StopsKernel DEF Sti, Access
<1> QED BY <1>1, <1>2, <1>3, <1>4, <1>5, <1>6, <1>7, <1>8

LEMMA FetchKernel ==
  ASSUME TypeInv, KernelInv, intact, Fetch
  PROVE  KernelInv'
<1>0. reg \in [0 .. 13 -> Word] /\ loaded
  BY DEF TypeInv, KernelInv, Control, Fetch
<1>1. UNCHANGED <<mem, loaded, created, saved, halted, inRun>>
  BY DEF Fetch, Access
<1>2. reg'[RBDC] = reg[RBDC] /\ reg'[RBDH] = reg[RBDH]
  <2>1. UNCHANGED reg \/ \E v : reg' = [reg EXCEPT ![RPC] = v]
    BY DEF Fetch, Access
  <2> QED BY <1>0, <2>1 DEF RPC, RBDC, RBDH
<1>3. pc' \in {"exited", "undefined", "execute"}
  BY DEF Fetch, Access, Goto
<1> QED BY <1>0, <1>1, <1>2, <1>3, RestKernel DEF Quiet

LEMMA TrapsKernel ==
  ASSUME TypeInv, KernelInv, intact,
         Getc \/ Output \/ Puts \/ Inu16 \/ NoSuchTrap \/ BrkSame
  PROVE  KernelInv'
<1>0. reg \in [0 .. 13 -> Word]
  BY DEF TypeInv
<1>1. CASE Output \/ BrkSame
  BY <1>1, SetsKernel DEF Output, BrkSame, Trap
<1>2. CASE Getc \/ Inu16
  <2>1. PICK c : Executing(15) /\ Sets([reg EXCEPT ![R0] = c])
    <3>1. CASE Getc
      <4>1. PICK c : Sets([reg EXCEPT ![R0] = c])
        BY <3>1 DEF Getc
      <4>2. Executing(15)
        BY <3>1 DEF Getc, Trap
      <4> QED BY <4>1, <4>2
    <3>2. CASE Inu16
      BY <3>2 DEF Inu16, Trap
    <3> QED BY <1>2, <3>1, <3>2
  <2>2. [reg EXCEPT ![R0] = c][RBDC] = reg[RBDC] /\ [reg EXCEPT ![R0] = c][RBDH] = reg[RBDH]
    BY <1>0 DEF R0, RBDC, RBDH
  <2> QED BY <2>1, <2>2, SetsKernel
<1>3. CASE Puts
  BY <1>3, SetsKernel, StopsKernel DEF Puts, Trap
<1>4. CASE NoSuchTrap
  BY <1>4, StopsKernel DEF NoSuchTrap, Trap
<1> QED BY <1>1, <1>2, <1>3, <1>4

\* A quiet step to any other label.
LEMMA CallKernel ==
  ASSUME KernelInv, intact, Quiet, Control', pc' # "yield"
  PROVE  KernelInv'
<1>1. Kernel' /\ PidsInMemory
  BY QuietKernel DEF KernelInv
<1>2. Passed'
  BY DEF Passed
<1>3. PidsInMemory'
  BY <1>1 DEF PidsInMemory, PidCell
<1> QED BY <1>1, <1>2, <1>3 DEF KernelInv

\* An allocation that finds nothing, and one that is asked for.
LEMMA AllocKernel ==
  ASSUME TypeInv, KernelInv, intact, AllocMem, intact'
  PROVE  KernelInv'
<1>1. AllocEnd \/ AllocSkip
  BY DEF AllocMem, AllocFit
<1>2. /\ pc = "alloc" /\ frame = [for |-> frame.for, size |-> frame.size, at |-> frame.at]
      /\ UNCHANGED <<mem, reg, loaded, inRun, counts, history>>
  BY <1>1 DEF AllocEnd, AllocSkip, TypeInv, Frames, AllocFrame
<1>3. Quiet
  BY <1>2 DEF Quiet, counts, history
<1>4. Control'
  <2>1. CASE AllocEnd
    <3>1. pc' = "allocated" /\ frame'.at = 0
      BY <1>2, <2>1 DEF AllocEnd, AllocReturns, Goto
    <3> QED BY <1>2, <3>1 DEF KernelInv, Control
  <2>2. CASE AllocSkip
    BY <1>2, <2>2 DEF AllocSkip, KernelInv, Control
  <2> QED BY <1>1, <2>1, <2>2
<1>5. pc' # "yield"
  BY <1>1, <1>2 DEF AllocEnd, AllocSkip, AllocReturns, Goto
<1> QED BY <1>3, <1>4, <1>5, CallKernel

LEMMA FreeKernel ==
  ASSUME TypeInv, KernelInv, intact, FreeMem, intact'
  PROVE  KernelInv'
<1>1. FreeRefused \/ FreeCoalesce \/ FreeWalk
  BY DEF FreeMem, FreeInsert
<1>2. /\ pc \in {"free", "insert"}
      /\ UNCHANGED <<mem, reg, loaded, inRun, counts, history>>
  BY <1>1 DEF FreeRefused, FreeCoalesce, FreeWalk
<1>3. Quiet
  BY <1>2 DEF Quiet, counts, history
<1>4. frame'.for = frame.for /\ pc' \in {"freed", "insert", "undefined"}
  <2>1. CASE FreeRefused
    BY <2>1 DEF FreeRefused, Goto
  <2>2. CASE FreeCoalesce
    BY <2>2 DEF FreeCoalesce, Goto
  <2>3. CASE FreeWalk
    <3>1. frame = [for |-> frame.for, ptr |-> frame.ptr, prev |-> frame.prev,
                   at |-> frame.at, size |-> frame.size]
      BY <2>3 DEF FreeWalk, TypeInv, Frames, InsertFrame
    <3> QED BY <2>3, <3>1 DEF FreeWalk
  <2> QED BY <1>1, <2>1, <2>2, <2>3
<1>5. Control'
  BY <1>2, <1>4 DEF KernelInv, Control
<1> QED BY <1>3, <1>4, <1>5, CallKernel

\* The heap of length 0 cannot shrink, and asking for a longer one changes nothing yet.
LEMMA BrkKernel ==
  ASSUME TypeInv, KernelInv, intact, BrkGrow \/ BrkShrink \/ BrkReturns, intact'
  PROVE  KernelInv'
<1>0. reg[R0] \in Word
  BY RegWord DEF TypeInv, Machines
<1>1. reg[R0] \in Nat /\ reg[RBDH] = 0
  BY <1>0, InWord DEF KernelInv, Kernel, Bounds
<1>2. BrkGrow
  BY <1>1 DEF BrkShrink, BrkReturns
<1>3. Executing(15) /\ UNCHANGED <<mem, reg, ir, intact, saved>> /\ loaded
  BY <1>2 DEF BrkGrow, Trap, Executing, KernelInv, Control
<1>4. Quiet /\ UNCHANGED inRun
  BY <1>3 DEF Quiet, Executing, counts
<1>5. pc' \in {"alloc", "call", "fetch", "undefined"}
  BY <1>2 DEF BrkGrow, CallAlloc, Resume, Goto
<1>6. Control'
  BY <1>3, <1>4, <1>5 DEF KernelInv, Control, Quiet
<1> QED BY <1>4, <1>5, <1>6, CallKernel

\* A process that halts has no segment to free.
LEMMA HaltKernel ==
  ASSUME TypeInv, KernelInv, intact, Halt \/ HaltFreesHeap
  PROVE  KernelInv'
<1>1. loaded
  BY DEF Halt, HaltFreesHeap, Trap, Executing, KernelInv, Control
<1>2. UNCHANGED <<mem, reg, loaded, inRun, counts, halted, saved>>
  BY DEF Halt, HaltFreesHeap, Trap, Executing, history
<1>3. Quiet
  BY <1>2 DEF Quiet, counts
<1>4. pc' = "free"
  BY DEF Halt, HaltFreesHeap, CallFree, Goto
<1>5. Control'
  BY <1>1, <1>2, <1>4 DEF KernelInv, Control
<1> QED BY <1>3, <1>4, <1>5, CallKernel

\* The calls of the drivers that write nothing.
LEMMA TestsKernel ==
  ASSUME TypeInv, KernelInv, intact, Tests \/ Run
  PROVE  KernelInv'
<1>1. UNCHANGED <<mem, reg, loaded, created, saved, halted>>
  BY DEF Tests, TestAlloc, TestFree, TestReturns, TestExecutes, Run, counts, history
<1>2. Quiet
  BY <1>1 DEF Quiet
<1>3. CASE \E s \in Sizes : TestAlloc(s)
  <2>1. pc' = "alloc" /\ UNCHANGED inRun
    BY <1>3 DEF TestAlloc, CallAlloc, Goto
  <2>2. Control'
    BY <1>1, <2>1 DEF KernelInv, Control
  <2> QED BY <1>2, <2>1, <2>2, CallKernel
<1>4. CASE \E p \in Pointers : TestFree(p)
  <2>1. pc' = "free" /\ frame'.for = "test" /\ UNCHANGED inRun
    BY <1>4 DEF TestFree, CallFree, Goto
  <2>2. Control'
    BY <1>1, <2>1 DEF KernelInv, Control
  <2> QED BY <1>2, <2>1, <2>2, CallKernel
<1>5. CASE TestReturns \/ TestExecutes
  <2>1. (pc' = "call" \/ (pc' = "execute" /\ loaded)) /\ UNCHANGED inRun
    BY <1>5 DEF TestReturns, TestExecutes, Goto
  <2> QED BY <1>2, <2>1, RestKernel
<1>6. CASE Run
  <2>1. pc' = "fetch" /\ loaded /\ inRun' = TRUE
    BY <1>6 DEF Run, Goto
  <2>2. Control'
    BY <1>1, <2>1 DEF KernelInv, Control
  <2> QED BY <1>2, <2>1, <2>2, CallKernel
<1> QED BY <1>3, <1>4, <1>5, <1>6 DEF Tests

\* createProc() writes two fields of the PCB of process 0, and the count.
LEMMA CreateKernel ==
  ASSUME TypeInv, KernelInv, intact, Create, intact'
  PROVE  KernelInv'
<1>0. Kernel /\ Control /\ PidsInMemory
  BY DEF KernelInv
<1>1. ~CreateRefused
  BY <1>0 DEF CreateRefused, Kernel, Bookkeeping
<1>2. CASE CreateProc
  <2>1. /\ created \in Nat /\ created' = created + 1 /\ created < 4096
        /\ ProcCount = created /\ U16(ProcCount + 1) = created + 1
    <3>1. created \in Nat /\ created < 4096
      BY <1>2, ProcsAssumption DEF CreateProc, TypeInv, Machines, CODE_SIZE
    <3>2. created + 1 \in Nat /\ created + 1 < 65536
      BY <3>1
    <3> QED BY <1>0, <1>2, <3>1, <3>2, TruncateSmall DEF CreateProc, Kernel, Bookkeeping
  <2>2. NewPCB = PidCell(0) /\ PidCell(0) = 4096
    BY DEF NewPCB, PidCell, PCB_SIZE, OS_MEM_SIZE
  <2>3. \A a : At(mem', a) = IF a = 4097 THEN PC_START
                             ELSE IF a = 4096 THEN created
                             ELSE IF a = 1 THEN created + 1 ELSE At(mem, a)
    <3>1. mem' = Put(Put(Put(mem, 1, created + 1), 4096, created), 4097, PC_START)
      BY <1>2, <2>1, <2>2 DEF CreateProc
    <3> QED BY <3>1, AtPut
  <2>4. /\ UNCHANGED <<reg, loaded, inRun>> /\ halted' = halted \ {0}
        /\ saved' = IF 0 \in DOMAIN saved THEN [saved EXCEPT ![0][1] = PC_START] ELSE saved
    BY <1>2 DEF CreateProc
  <2>5. \A p : Fits(p) => PidCell(p) = 6 * p + 4096 /\ p \in Nat
    BY DEF Fits, PidCell, PCB_SIZE, OS_MEM_SIZE
  <2>6. Bounds'
    BY <1>0, <2>3, <2>4, <2>5 DEF Kernel, Bounds
  <2>7. Current'
    BY <1>0, <2>1, <2>3, <2>4 DEF Kernel, Current, CurProc, Fits
  <2>8. Bookkeeping'
    BY <1>0, <2>1, <2>3, <2>4 DEF Kernel, Bookkeeping, ProcCount
  <2>9. ListHead'
    BY <2>1, <2>2, <2>3, <2>4 DEF ListHead
  \* Only the PC saved for process 0 changes, as the first field of its PCB does.
  <2>a. /\ DOMAIN saved' = DOMAIN saved
        /\ \A p \in DOMAIN saved : p # 0 => saved'[p] = saved[p]
    BY <2>4
  <2>b. ASSUME 0 \in DOMAIN saved
        PROVE  saved'[0] = [k \in 1 .. 5 |-> IF k = 1 THEN PC_START ELSE saved[0][k]]
    <3>1. saved[0] = ContextAt(mem, 0)
      BY <1>0, <2>b DEF Kernel
    <3>2. saved[0] = [k \in 1 .. 5 |-> saved[0][k]]
      BY <3>1 DEF ContextAt
    <3>3. saved'[0] = [saved[0] EXCEPT ![1] = PC_START]
      BY <2>4, <2>b
    <3> DEFINE old == saved[0]
    <3>4. [old EXCEPT ![1] = PC_START] = [k \in 1 .. 5 |-> IF k = 1 THEN PC_START ELSE old[k]]
      <4>1. old = [k \in 1 .. 5 |-> old[k]]
        BY <3>2
      <4> HIDE DEF old
      <4> QED BY <4>1
    <3> QED BY <3>3, <3>4
  <2>10. Marks'
    BY <1>0, <2>3, <2>4, <2>5 DEF Kernel, Marks
  <2>11. Written'
    <3> SUFFICES ASSUME NEW a, At(mem', a) # 0
                 PROVE  \/ a \in {0, 1}
                        \/ \E p \in Pids \cup {0} \cup DOMAIN saved \cup halted, k \in 0 .. 5 :
                              a = PCB(p) + k
      BY <2>4, <2>a DEF Written
    <3>1. CASE a \in {4096, 4097}
      <4>1. PCB(0) = 4096
        BY <2>2, PCBOfFitting DEF Fits
      <4>2. a = PCB(0) + 0 \/ a = PCB(0) + 1
        BY <3>1, <4>1
      <4> QED BY <4>2
    <3>2. CASE a \notin {4096, 4097}
      BY <1>0, <2>3, <3>2 DEF Kernel, Written
    <3> QED BY <3>1, <3>2
  <2>c. SavedFit'
    BY <1>0, <2>4, <2>a DEF Kernel, SavedFit
  <2>d. ContextsSaved'
    <3> SUFFICES ASSUME NEW p \in DOMAIN saved, NEW k \in 1 .. 5
                 PROVE  At(mem', PidCell(p) + k) = saved'[p][k]
      BY <2>a DEF ContextsSaved
    <3>1. Fits(p) /\ At(mem, PidCell(p) + k) = saved[p][k]
      BY <1>0 DEF Kernel, SavedFit, ContextsSaved
    <3>2. CASE p = 0
      BY <2>2, <2>3, <2>b, <3>1, <3>2
    <3>3. CASE p # 0
      BY <2>3, <2>5, <2>a, <3>1, <3>3
    <3> QED BY <3>2, <3>3
  <2>e. ASSUME NEW p \in DOMAIN saved' PROVE ContextAt(mem', p) = saved'[p]
    <3>1. p \in DOMAIN saved /\ Fits(p)
      BY <1>0, <2>a DEF Kernel, SavedFit
    <3>2. \A k \in 1 .. 5 : At(mem', PCB(p) + k) = saved'[p][k]
      BY <2>a, <2>d, <3>1, PCBOfFitting DEF ContextsSaved
    <3>3. ContextAt(mem', p) = [k \in 1 .. 5 |-> saved'[p][k]]
      BY <3>2 DEF ContextAt
    <3>4. saved'[p] = [k \in 1 .. 5 |-> saved'[p][k]]
      <4>1. CASE p = 0
        <5>1. saved'[0] = [k \in 1 .. 5 |-> IF k = 1 THEN PC_START ELSE saved[0][k]]
          BY <2>b, <3>1, <4>1
        <5> QED BY <4>1, <5>1
      <4>2. CASE p # 0
        <5>1. saved'[p] = ContextAt(mem, p)
          BY <1>0, <2>a, <3>1, <4>2 DEF Kernel
        <5> QED BY <5>1 DEF ContextAt
      <4> QED BY <4>1, <4>2
    <3> QED BY <3>3, <3>4
  <2>13. Kernel'
    BY <2>6, <2>7, <2>8, <2>9, <2>10, <2>11, <2>c, <2>d, <2>e DEF Kernel
  <2>14. pc' = "alloc"
    BY <1>2 DEF CreateProc, CallAlloc, Goto
  <2>15. Control' /\ Passed'
    BY <1>0, <2>4, <2>14 DEF Control, Passed
  <2>16. PidsInMemory'
    BY <1>0 DEF PidsInMemory, PidCell
  <2> QED BY <2>13, <2>15, <2>16 DEF KernelInv
<1>3. CASE CodeAllocated \/ HeapAllocated
  <2>1. frame.at = 0
    BY <1>0, <1>3 DEF CodeAllocated, HeapAllocated, Control
  <2>2. UNCHANGED <<mem, reg, loaded, created, saved, halted, inRun>> /\ pc' = "call"
    BY <1>3, <2>1 DEF CodeAllocated, HeapAllocated, Goto, counts, history
  <2> QED BY <2>2, RestKernel DEF Quiet
<1> QED BY <1>1, <1>2, <1>3 DEF Create

\* loadProc() of a process whose PCB holds the bounds 0.
LEMMA LoadKernel ==
  ASSUME TypeInv, KernelInv, intact, NEW p, Fits(p), p \in Pids \cup {0} \/ p < created,
         LoadProc(p), loaded', UNCHANGED <<inRun, counts, history>>,
         inRun => loaded
  PROVE  KernelInv'
<1>0. Kernel /\ Control /\ PidsInMemory
  BY DEF KernelInv
<1>1. /\ reg' = WithContext(ContextAt(mem, p)) /\ mem' = Put(mem, 0, p)
      /\ pc' \in {"fetch", "call"}
  BY PCBOfFitting, InCells DEF LoadProc, Goto, InMem
<1>2. \A a : At(mem', a) = IF a = 0 THEN p ELSE At(mem, a)
  BY <1>1, AtPut
<1>3. UNCHANGED <<created, saved, halted>>
  BY DEF counts, history
<1>4. \A q : Fits(q) => PidCell(q) = 6 * q + 4096 /\ q \in Nat
  BY DEF Fits, PidCell, PCB_SIZE, OS_MEM_SIZE
<1>5. Bounds'
  <2>1. ContextAt(mem, p)[3] = 0 /\ ContextAt(mem, p)[5] = 0
    BY <1>0, PCBOfFitting DEF Kernel, Bounds, ContextAt
  <2>2. reg'[RBDC] = 0 /\ reg'[RBDH] = 0
    <3> DEFINE c == ContextAt(mem, p)
    <3>1. reg \in [0 .. 13 -> Word] /\ c[3] = 0 /\ c[5] = 0 /\ reg' = WithContext(c)
      BY <1>1, <2>1 DEF TypeInv
    <3> HIDE DEF c
    <3> QED BY <3>1 DEF WithContext, RPC, RBSC, RBDC, RBSH, RBDH
  <2>3. \A q : Fits(q) => At(mem', PidCell(q) + 3) = 0 /\ At(mem', PidCell(q) + 5) = 0
    BY <1>0, <1>2, <1>4 DEF Kernel, Bounds
  <2> QED BY <2>2, <2>3 DEF Bounds
<1>6. Current'
  BY <1>2, <1>3 DEF Current, CurProc
<1>7. Bookkeeping'
  BY <1>0, <1>2, <1>3 DEF Kernel, Bookkeeping, ProcCount
<1>8. ListHead' /\ Marks'
  BY <1>0, <1>2, <1>3, <1>4 DEF Kernel, ListHead, Marks, Fits
<1>9. SavedFit'
  BY <1>0, <1>3 DEF Kernel, SavedFit
<1>10. ContextsSaved'
  BY <1>0, <1>2, <1>3, <1>4 DEF Kernel, SavedFit, ContextsSaved
<1>11. Written'
  BY <1>0, <1>2, <1>3 DEF Kernel, Written
<1>12. (\A q \in DOMAIN saved : ContextAt(mem, q) = saved[q])'
  <2> SUFFICES ASSUME NEW q \in DOMAIN saved PROVE ContextAt(mem', q) = saved[q]
    BY <1>3
  <2>1. Fits(q)
    BY <1>0 DEF Kernel, SavedFit
  <2>2. \A k \in 1 .. 5 : At(mem', PCB(q) + k) = At(mem, PCB(q) + k)
    BY <1>2, <1>4, <2>1, PCBOfFitting
  <2>3. ContextAt(mem', q) = ContextAt(mem, q)
    BY <2>2 DEF ContextAt
  <2> QED BY <1>0, <2>3 DEF Kernel
<1>13. Kernel'
  BY <1>5, <1>6, <1>7, <1>8, <1>9, <1>10, <1>11, <1>12 DEF Kernel
<1>14. Control' /\ Passed'
  BY <1>1 DEF Control, Passed
<1>15. PidsInMemory'
  BY <1>0 DEF PidsInMemory, PidCell
<1> QED BY <1>13, <1>14, <1>15 DEF KernelInv

\* tyld() writes the PCB of the current process; thalt() has marked it before.
LEMMA SaveKernel ==
  ASSUME TypeInv, KernelInv, intact, loaded, NEW m, Memory(m), NEW mark \in BOOLEAN,
         \A a : At(m, a) = IF mark /\ a = PidCell(CurProc) THEN DEAD ELSE At(mem, a),
         SaveContext(m), UNCHANGED <<reg, loaded, inRun, created>>,
         halted' = IF mark THEN halted \cup {CurProc} ELSE halted
  PROVE  KernelInv'
<1>0. Kernel /\ Control /\ PidsInMemory
  BY DEF KernelInv
<1> DEFINE c == CurProc
           b == PidCell(c)
           w == WithSaved(m)
<1>1. /\ Fits(c) /\ PCB(c) = b /\ b \in Nat /\ b >= 4096 /\ b + 5 < 65535 /\ c \in Nat
      /\ c # DEAD /\ (c \in Pids \cup {0} \/ c < created)
  <2>1. Fits(c)
    BY <1>0 DEF Kernel, Current
  <2>2. c # DEAD /\ c \in Nat
    BY <2>1 DEF Fits, DEAD
  <2> QED BY <1>0, <2>1, <2>2, PCBOfFitting DEF Kernel, Current, OS_MEM_SIZE
<1>2. InMem(PCB(c) + 5)
  BY <1>1, InCells DEF InMem
<1>3. /\ mem' = w /\ saved' = Put(saved, c, Context) /\ StartSearch(At(w, 1))
  BY <1>2 DEF SaveContext
<1>4. /\ \A k \in 1 .. 5 : At(w, b + k) = Context[k]
      /\ \A a : (\A k \in 1 .. 5 : a # b + k) => At(w, a) = At(m, a)
  BY <1>1, <1>2, SavedMemory
<1>5. /\ \A k \in 1 .. 5 : At(mem', b + k) = Context[k]
      /\ \A a : (\A k \in 1 .. 5 : a # b + k) =>
            At(mem', a) = IF mark /\ a = b THEN DEAD ELSE At(mem, a)
  BY <1>3, <1>4
<1> HIDE DEF b, w
\* The bookkeeping words are below, and the other PCBs aside.
<1>6. \A a \in {0, 1, 2} : At(mem', a) = At(mem, a)
  BY <1>1, <1>5
<1>7. \A q : Fits(q) /\ q # c => \A j \in 0 .. 5 : At(mem', PidCell(q) + j) = At(mem, PidCell(q) + j)
  <2> SUFFICES ASSUME NEW q, Fits(q), q # c, NEW j \in 0 .. 5
               PROVE  At(mem', PidCell(q) + j) = At(mem, PidCell(q) + j)
    OBVIOUS
  <2>1. \A k \in 1 .. 5 : PidCell(q) + j # b + k
    BY <1>1, PCBsDisjoint DEF b
  <2>2. PidCell(q) + j # b
    <3>1. b = PidCell(c) + 0
      BY <1>1 DEF b
    <3> QED BY <1>1, <3>1, PCBsDisjoint
  <2> QED BY <1>5, <2>1, <2>2
<1>8. At(mem', b) = IF mark THEN DEAD ELSE At(mem, b)
  BY <1>1, <1>5
<1>9. \A q : Fits(q) => PidCell(q) = PidCell(q) + 0 /\ q \in Nat
  BY DEF Fits, PidCell, PCB_SIZE, OS_MEM_SIZE
<1>10. Bounds'
  <2>1. Context[3] = 0 /\ Context[5] = 0
    BY <1>0 DEF Kernel, Bounds, Context
  <2>2. At(mem', b + 3) = 0 /\ At(mem', b + 5) = 0
    BY <1>5, <2>1
  <2> QED BY <1>0, <1>7, <2>2 DEF Kernel, Bounds, b
<1>11. Current' /\ Bookkeeping'
  BY <1>0, <1>6 DEF Kernel, Current, Bookkeeping, CurProc, ProcCount
<1>12. ListHead'
  <2>1. Fits(0)
    BY DEF Fits
  <2>2. CASE c = 0
    BY <1>0, <1>8, <2>2 DEF Kernel, ListHead, b, c
  <2>3. CASE c # 0
    BY <1>0, <1>7, <1>9, <2>1, <2>3 DEF Kernel, ListHead, c
  <2> QED BY <2>2, <2>3
<1>13. Marks'
  <2> SUFFICES ASSUME NEW p, Fits(p), p # 0
               PROVE  At(mem', PidCell(p)) = IF p \in halted' THEN DEAD ELSE 0
    BY DEF Marks
  <2>1. CASE p = c
    BY <1>0, <1>8, <2>1 DEF Kernel, Marks, b
  <2>2. CASE p # c
    BY <1>0, <1>7, <1>9, <2>2 DEF Kernel, Marks
  <2> QED BY <2>1, <2>2
<1>14. /\ DOMAIN saved' = DOMAIN saved \cup {c} /\ saved'[c] = Context
       /\ \A p \in DOMAIN saved : p # c => saved'[p] = saved[p]
  BY <1>3 DEF Put
<1>15. SavedFit'
  BY <1>0, <1>1, <1>14 DEF Kernel, SavedFit, c
<1>16. ContextsSaved'
  <2> SUFFICES ASSUME NEW p \in DOMAIN saved', NEW k \in 1 .. 5
               PROVE  At(mem', PidCell(p) + k) = saved'[p][k]
    BY DEF ContextsSaved
  <2>1. CASE p = c
    BY <1>5, <1>14, <2>1 DEF b
  <2>2. CASE p # c
    BY <1>0, <1>7, <1>14, <2>2 DEF Kernel, SavedFit, ContextsSaved
  <2> QED BY <2>1, <2>2
<1>17. ASSUME NEW p \in DOMAIN saved' PROVE ContextAt(mem', p) = saved'[p]
  <2>1. CASE p = c
    <3>1. ContextAt(mem', c) = [k \in 1 .. 5 |-> Context[k]]
      BY <1>1, <1>5 DEF ContextAt
    <3>2. [k \in 1 .. 5 |-> Context[k]] = Context
      BY DEF Context
    <3> QED BY <1>14, <2>1, <3>1, <3>2
  <2>2. CASE p # c
    <3>1. p \in DOMAIN saved /\ Fits(p) /\ saved'[p] = saved[p]
      BY <1>0, <1>14, <2>2 DEF Kernel, SavedFit
    <3>2. \A k \in 1 .. 5 : At(mem', PCB(p) + k) = At(mem, PCB(p) + k)
      BY <1>7, <2>2, <3>1, PCBOfFitting
    <3>3. ContextAt(mem', p) = ContextAt(mem, p)
      BY <3>2 DEF ContextAt
    <3> QED BY <1>0, <3>1, <3>3 DEF Kernel
  <2> QED BY <2>1, <2>2
<1>18. Written'
  <2> SUFFICES ASSUME NEW a, At(mem', a) # 0, a \notin {0, 1}
               PROVE  \E p \in Pids \cup {0} \cup DOMAIN saved' \cup halted', k \in 0 .. 5 :
                         a = PCB(p) + k
    BY DEF Written
  <2>1. CASE \E k \in 1 .. 5 : a = b + k
    BY <1>1, <1>14, <2>1
  <2>2. CASE a = b
    BY <1>1, <1>14, <2>2
  <2>3. CASE a # b /\ \A k \in 1 .. 5 : a # b + k
    <3>1. At(mem, a) # 0
      BY <1>5, <2>3
    <3> QED BY <1>0, <1>14, <3>1 DEF Kernel, Written
  <2> QED BY <2>1, <2>2, <2>3
<1>19. Kernel'
  BY <1>10, <1>11, <1>12, <1>13, <1>15, <1>16, <1>17, <1>18 DEF Kernel
<1>20. Control'
  BY <1>0, <1>3 DEF Control, StartSearch, Goto
<1>21. Passed'
  <2> SUFFICES ASSUME pc' = "yield"
               PROVE  \E d \in 1 .. ProcCount' :
                         /\ frame'.next = (CurProc' + d) % ProcCount'
                         /\ \A e \in 1 .. d - 1 : (CurProc' + e) % ProcCount' \in halted'
    BY DEF Passed
  <2>1. At(w, 1) # 0 /\ frame' = [for |-> "yield", next |-> (CurProc + 1) % At(w, 1)]
    BY <1>3 DEF StartSearch, Goto
  <2>2. ProcCount' = At(w, 1) /\ CurProc' = CurProc /\ ProcCount' = ProcCount
    BY <1>3, <1>6 DEF ProcCount, CurProc
  <2>3. ProcCount \in Nat
    BY AtWord, InWord DEF TypeInv, ProcCount
  <2>4. 1 \in 1 .. ProcCount'
    BY <2>1, <2>2, <2>3
  <2>5. frame'.next = (CurProc' + 1) % ProcCount'
    BY <2>1, <2>2
  <2> QED BY <2>4, <2>5
<1>22. PidsInMemory'
  BY <1>0 DEF PidsInMemory, PidCell
<1> QED BY <1>19, <1>20, <1>21, <1>22 DEF KernelInv

-------------------------------------------------------------------------------
\* Remainders, for the order of the turns.
LEMMA Division ==
  ASSUME NEW a \in Nat, NEW n \in Nat \ {0}
  PROVE  a \div n \in Nat /\ a % n \in 0 .. n - 1 /\ a = n * (a \div n) + (a % n)
OBVIOUS

LEMMA Larger ==
  ASSUME NEW n \in Nat \ {0}, NEW q \in Nat, NEW p \in Nat, p < q
  PROVE  n * p + n <= n * q
<1>1. PICK k \in Nat : q = p + 1 + k
  <2>1. q - p - 1 \in Nat
    OBVIOUS
  <2> QED BY <2>1
<1>2. n * q = n * p + n + n * k
  BY <1>1
<1>3. n * k \in Nat /\ n * p \in Nat
  BY <1>1
<1> QED BY <1>2, <1>3

LEMMA RemainderIs ==
  ASSUME NEW n \in Nat \ {0}, NEW q \in Nat, NEW r \in 0 .. n - 1
  PROVE  (n * q + r) % n = r
<1> DEFINE a == n * q + r
<1>1. a \in Nat
  <2>1. n * q \in Nat
    OBVIOUS
  <2> QED BY <2>1
<1>2. PICK p \in Nat, s \in 0 .. n - 1 : a = n * p + s /\ a % n = s
  <2> HIDE DEF a
  <2> QED BY <1>1, Division
<1>3. n * q \in Nat /\ n * p \in Nat
  BY <1>2
<1>4. ~(p < q)
  BY <1>2, <1>3, Larger
<1>5. ~(q < p)
  BY <1>2, <1>3, Larger
<1>6. p = q
  BY <1>2, <1>4, <1>5
<1>7. r = s
  BY <1>2, <1>3, <1>6
<1> QED BY <1>2, <1>7

LEMMA NextRemainder ==
  ASSUME NEW a \in Nat, NEW n \in Nat \ {0}
  PROVE  ((a % n) + 1) % n = (a + 1) % n
<1>1. PICK q \in Nat, r \in 0 .. n - 1 : a = n * q + r /\ a % n = r
  BY Division
<1>2. CASE r + 1 < n
  <2>1. (n * q + (r + 1)) % n = r + 1
    BY <1>2, RemainderIs
  <2>2. (n * 0 + (r + 1)) % n = r + 1
    BY <1>2, RemainderIs
  <2>3. n * q \in Nat /\ n * 0 = 0
    OBVIOUS
  <2>4. a + 1 = n * q + (r + 1) /\ n * 0 + (r + 1) = (a % n) + 1
    BY <1>1, <2>3
  <2> QED BY <2>1, <2>2, <2>4
<1>3. CASE r + 1 = n
  <2>1. (n * (q + 1) + 0) % n = 0
    BY RemainderIs
  <2>2. (n * 1 + 0) % n = 0
    BY RemainderIs
  <2>3. n * (q + 1) + 0 = n * q + n /\ n * 1 + 0 = n /\ n * q \in Nat
    OBVIOUS
  <2>4. a + 1 = n * (q + 1) + 0 /\ (a % n) + 1 = n * 1 + 0
    BY <1>1, <1>3, <2>3
  <2> QED BY <2>1, <2>2, <2>4
<1> QED BY <1>1, <1>2, <1>3

LEMMA FullTurn ==
  ASSUME NEW a \in Nat, NEW n \in Nat \ {0}
  PROVE  (a + n) % n = a % n
<1>1. PICK q \in Nat, r \in 0 .. n - 1 : a = n * q + r /\ a % n = r
  BY Division
<1>2. (n * (q + 1) + r) % n = r
  BY RemainderIs
<1>3. n * (q + 1) = n * q + n /\ n * q \in Nat
  OBVIOUS
<1>4. a + n = n * (q + 1) + r
  BY <1>1, <1>3
<1> QED BY <1>1, <1>2, <1>4

\* A yield, and the loop of its search.
LEMMA YieldsKernel ==
  ASSUME TypeInv, KernelInv, intact, Yld \/ HaltYields \/ YieldSkip \/ YieldLoad
  PROVE  KernelInv'
<1>0. Kernel /\ Control /\ Passed /\ PidsInMemory /\ Memory(mem) /\ loaded
  BY DEF KernelInv, TypeInv, Yld, HaltYields, YieldSkip, YieldLoad, Trap, Executing, Control
<1>1. CASE Yld
  <2>1. SaveContext(mem) /\ UNCHANGED <<reg, loaded, inRun, created, halted>>
    BY <1>1 DEF Yld, Trap, Executing, counts
  <2>2. \A a : At(mem, a) = IF FALSE /\ a = PidCell(CurProc) THEN DEAD ELSE At(mem, a)
    OBVIOUS
  <2>3. halted' = IF FALSE THEN halted \cup {CurProc} ELSE halted
    BY <2>1
  <2> QED BY <1>0, <2>1, <2>2, <2>3, SaveKernel
<1>2. CASE HaltYields
  <2>1. Fits(CurProc)
    BY <1>0 DEF Kernel, Current
  <2>2. PCB(CurProc) = PidCell(CurProc) /\ PCB(CurProc) \in Cells
    BY <2>1, PCBOfFitting, InCells
  <2> DEFINE m == Put(mem, PCB(CurProc), DEAD)
  <2>3. Memory(m)
    <3>1. DEAD \in Word
      BY InWord DEF DEAD
    <3> QED BY <1>0, <2>2, <3>1, PutMemory DEF InMem
  <2>4. \A a : At(m, a) = IF TRUE /\ a = PidCell(CurProc) THEN DEAD ELSE At(mem, a)
    BY <2>2, AtPut
  <2>5. /\ SaveContext(m) /\ UNCHANGED <<reg, loaded, inRun, created>>
        /\ halted' = IF TRUE THEN halted \cup {CurProc} ELSE halted
    BY <1>2 DEF HaltYields, counts
  <2> QED BY <1>0, <2>3, <2>4, <2>5, SaveKernel
<1>3. CASE YieldSkip \/ YieldLoad
  <2>0. pc = "yield"
    BY <1>3 DEF YieldSkip, YieldLoad
  <2> DEFINE n == ProcCount
             c == CurProc
  <2>1. PICK d \in 1 .. n : /\ frame.next = (c + d) % n
                            /\ \A e \in 1 .. d - 1 : (c + e) % n \in halted
    BY <1>0, <2>0 DEF Passed
  <2>2. n = created /\ n \in Nat \ {0} /\ n < 4096 /\ c \in Nat
    <3>1. created \in 0 .. MaxProcs /\ MaxProcs \in Nat /\ MaxProcs < 4096
      BY ProcsAssumption DEF TypeInv, Machines, CODE_SIZE
    <3>2. n = created /\ c \in Nat
      BY <1>0 DEF Kernel, Current, Bookkeeping, Fits
    <3> QED BY <2>1, <3>1, <3>2
  <2>3. frame.next \in 0 .. n - 1
    <3>1. c + d \in Nat
      BY <2>1, <2>2
    <3> QED BY <2>1, <2>2, <3>1, Division
  <2>4. Fits(frame.next) /\ frame.next < created
    BY <2>2, <2>3 DEF Fits
  <2>5. InMem(PidCell(frame.next))
    BY <2>4, PCBOfFitting, InCells DEF InMem
  <2>6. CASE YieldLoad
    <3>1. LoadProc(frame.next) /\ UNCHANGED <<loaded, inRun, counts, history>>
      BY <2>6 DEF YieldLoad
    <3> QED BY <1>0, <2>4, <3>1, LoadKernel
  <2>7. CASE YieldSkip
    <3>1. frame.next \in halted
      <4>1. At(mem, PidCell(frame.next)) = DEAD
        BY <2>5, <2>7 DEF YieldSkip, NextRuns, Live
      <4> QED BY <1>0, <2>2, <2>4, <4>1 DEF Kernel, ListHead, Marks, DEAD
    <3>2. /\ UNCHANGED <<mem, reg, loaded, inRun, created, saved, halted, pc>>
          /\ frame' = [frame EXCEPT !.next = (@ + 1) % n]
      BY <2>5, <2>7 DEF YieldSkip, counts, history
    <3>3. Kernel' /\ Control'
      BY <1>0, <2>0, <3>2, QuietKernel DEF Quiet, Control
    <3>4. frame'.next = (frame.next + 1) % n
      BY <2>0, <3>2 DEF TypeInv, Frames, YieldFrame
    <3>5. Passed'
      <4>1. ProcCount' = n /\ CurProc' = c
        BY <3>2 DEF ProcCount, CurProc
      <4>2. SUFFICES \E e \in 1 .. n : /\ frame'.next = (c + e) % n
                                       /\ \A k \in 1 .. e - 1 : (c + k) % n \in halted
        BY <3>2, <4>1 DEF Passed
      <4>3. frame'.next = (c + d + 1) % n
        <5> HIDE DEF c, n
        <5>1. c \in Nat /\ n \in Nat \ {0} /\ d \in Nat /\ c + d \in Nat
          BY <2>1, <2>2
        <5>2. (((c + d) % n) + 1) % n = (c + d + 1) % n
          BY <5>1, NextRemainder
        <5> QED BY <2>1, <3>4, <5>2
      <4> HIDE DEF c, n
      <4>4. CASE d < n
        <5>1. \A k \in 1 .. (d + 1) - 1 : (c + k) % n \in halted
          BY <2>1, <2>2, <3>1
        <5>2. d + 1 \in 1 .. n /\ frame'.next = (c + (d + 1)) % n
          BY <2>1, <2>2, <4>3, <4>4
        <5> QED BY <5>1, <5>2
      <4>5. CASE d = n
        <5>1. c + d + 1 = (c + 1) + n
          BY <2>2, <4>5
        <5>2. c + 1 \in Nat /\ n \in Nat \ {0}
          BY <2>2
        <5>3. ((c + 1) + n) % n = (c + 1) % n
          BY <5>2, FullTurn
        <5>4. frame'.next = (c + 1) % n
          BY <4>3, <5>1, <5>3
        <5>5. 1 \in 1 .. n /\ \A k \in 1 .. 1 - 1 : (c + k) % n \in halted
          BY <2>2
        <5> QED BY <5>4, <5>5
      <4> QED BY <2>1, <2>2, <4>4, <4>5
    <3>6. PidsInMemory'
      BY <1>0 DEF PidsInMemory, PidCell
    <3> QED BY <3>3, <3>5, <3>6 DEF KernelInv
  <2> QED BY <1>3, <2>6, <2>7
<1> QED BY <1>1, <1>2, <1>3

LEMMA InitKernelInv == PidsInMemory /\ Init => KernelInv
<1> SUFFICES ASSUME PidsInMemory, Init PROVE KernelInv
  OBVIOUS
<1>1. \A a : At(mem, a) = IF a = 0 THEN 65535 ELSE 0
  BY DEF Init, InitOS, At
<1>2. /\ reg = [r \in 0 .. 13 |-> 0] /\ pc = "call" /\ created = 0 /\ ~loaded /\ ~inRun
      /\ DOMAIN saved = {} /\ halted = {}
  BY DEF Init
<1>3. \A p : Fits(p) => p \in Nat /\ PidCell(p) = 6 * p + 4096
  BY DEF Fits, PidCell, PCB_SIZE, OS_MEM_SIZE
<1>4. Bounds
  BY <1>1, <1>2, <1>3 DEF Bounds, RBDC, RBDH
<1>5. Current /\ Bookkeeping
  BY <1>1, <1>2 DEF Current, Bookkeeping, CurProc, ProcCount, DEAD
<1>6. ListHead /\ Marks
  <2>1. Fits(0)
    BY DEF Fits
  <2>2. PidCell(0) = 4096
    BY <1>3, <2>1
  <2>3. \A p : Fits(p) => At(mem, PidCell(p)) = 0
    BY <1>1, <1>3
  <2> QED BY <1>1, <1>2, <2>2, <2>3 DEF ListHead, Marks
<1>7. /\ SavedFit /\ ContextsSaved /\ Written
      /\ \A p \in DOMAIN saved : ContextAt(mem, p) = saved[p]
  BY <1>1, <1>2 DEF SavedFit, ContextsSaved, Written
<1>8. Control /\ Passed
  BY <1>2 DEF Control, Passed
<1> QED BY <1>4, <1>5, <1>6, <1>7, <1>8 DEF KernelInv, Kernel

\* loadProc() as the drivers call it.
LEMMA DriverLoadKernel ==
  ASSUME TypeInv, KernelInv, intact, NEW p \in Pids \cup {0}, CallLoadProc(p)
  PROVE  KernelInv'
<1>1. Fits(p)
  BY PidsFit DEF KernelInv, Fits
<1>2. LoadProc(p) /\ loaded' /\ UNCHANGED <<inRun, counts, history>> /\ (inRun => loaded)
  BY DEF CallLoadProc, KernelInv, Control
<1> QED BY <1>1, <1>2, LoadKernel

\* The history variable "intact" is only ever cleared.
LEMMA IntactStays == ASSUME Next, intact' PROVE intact
<1>1. AllocMem \/ FreeMem \/ Create \/ Fetch \/ Tests \/ Run => intact
  BY DEF AllocMem, AllocEnd, AllocSkip, AllocFit, FreeMem, FreeRefused, FreeCoalesce, FreeWalk,
         FreeInsert, Create, CreateRefused, CreateProc, CodeAllocated, HeapAllocated, Fetch,
         Access, Tests, TestAlloc, TestFree, TestReturns, TestExecutes, Run, history
<1>2. (\E pid \in Pids \cup {0} : CallLoadProc(pid)) => intact
  BY DEF CallLoadProc, history
<1>0. \A r : Sets(r) => intact
  BY DEF Sets
<1>3. Br \/ Add \/ Jsr \/ And \/ Unused \/ Not \/ Jmp \/ Lea => intact
  BY <1>0 DEF Br, Add, Jsr, And, Unused, Not, Jmp, Lea
<1>4. Ld \/ St \/ Ldr \/ Str \/ Ldi \/ Sti => intact
  BY DEF Ld, St, Ldr, Str, Ldi, Sti, Loads, Stores, Access
<1>5. Getc \/ Output \/ Puts \/ Inu16 \/ NoSuchTrap \/ BrkSame => intact
  <2>1. Puts \/ NoSuchTrap => intact
    BY <1>0 DEF Puts, NoSuchTrap
  <2>2. ASSUME Getc PROVE intact
    <3>1. PICK c : Sets([reg EXCEPT ![R0] = c])
      BY <2>2 DEF Getc
    <3> QED BY <1>0, <3>1
  <2>3. ASSUME Inu16 PROVE intact
    <3>1. PICK c : Sets([reg EXCEPT ![R0] = c])
      BY <2>3 DEF Inu16
    <3> QED BY <1>0, <3>1
  <2>4. Output \/ BrkSame => intact
    BY <1>0 DEF Output, BrkSame
  <2> QED BY <2>1, <2>2, <2>3, <2>4
<1>6. BrkGrow \/ BrkShrink \/ BrkReturns => intact
  BY DEF BrkGrow, BrkShrink, BrkReturns
<1>7. Yld \/ YieldSkip \/ YieldLoad \/ Halt \/ HaltFreesHeap \/ HaltYields => intact
  BY DEF Yld, YieldSkip, YieldLoad, Halt, HaltFreesHeap, HaltYields, history
<1> QED BY <1>1, <1>2, <1>3, <1>4, <1>5, <1>6, <1>7 DEF Next, Machine, Execute

LEMMA NextKernelInv == TypeInv /\ KernelInv /\ [Next]_vars => KernelInv'
<1> SUFFICES ASSUME TypeInv, KernelInv, [Next]_vars PROVE KernelInv'
  OBVIOUS
<1>1. PidsInMemory'
  BY DEF KernelInv, PidsInMemory, PidCell
<1>2. CASE ~intact'
  BY <1>1, <1>2 DEF KernelInv
<1>3. CASE UNCHANGED vars /\ intact'
  <2>1. Quiet /\ UNCHANGED <<mem, pc, frame, inRun, halted>> /\ intact
    BY <1>3 DEF vars, counts, history, Quiet
  <2>2. Kernel' /\ Control'
    BY <2>1, QuietKernel DEF KernelInv, Control, Quiet
  <2>3. Passed'
    BY <2>1 DEF KernelInv, Passed, CurProc, ProcCount
  <2> QED BY <1>1, <2>2, <2>3 DEF KernelInv
<1>4. CASE Next /\ intact'
  <2>1. intact
    BY <1>4, IntactStays
  <2>2. CASE Execute
    BY <1>4, <2>1, <2>2, InstructionsKernel, TrapsKernel, BrkKernel, YieldsKernel, HaltKernel
       DEF Execute
  <2>3. CASE AllocMem \/ FreeMem \/ Create \/ Fetch
    BY <1>4, <2>1, <2>3, AllocKernel, FreeKernel, CreateKernel, FetchKernel
  <2>4. CASE Tests \/ Run
    BY <2>1, <2>4, TestsKernel
  <2>5. CASE \E pid \in Pids \cup {0} : CallLoadProc(pid)
    BY <2>1, <2>5, DriverLoadKernel
  <2> QED BY <1>4, <2>2, <2>3, <2>4, <2>5 DEF Next, Machine
<1> QED BY <1>2, <1>3, <1>4

LEMMA KernelInvIntact == TypeInv /\ KernelInv => KernelIntact
<1> SUFFICES ASSUME TypeInv, KernelInv PROVE KernelIntact
  OBVIOUS
<1>1. TypeOK
  BY TypeInvTypeOK
<1>2. ProcessesWriteNothing
  <2> SUFFICES ASSUME intact
               PROVE  /\ ProcCount = created /\ At(mem, 2) = 0
                      /\ CurProc \in {0, DEAD} \cup Pids \cup 0 .. created
                      /\ \A a \in DOMAIN mem : mem[a] # 0 =>
                            a \in {0, 1} \cup
                              {PCB(p) + k : p \in Pids \cup {0} \cup DOMAIN saved \cup halted,
                                            k \in 0 .. 5}
    BY DEF ProcessesWriteNothing
  <2>1. Kernel
    BY DEF KernelInv
  <2>2. created \in Nat
    BY DEF TypeInv, Machines
  <2>3. CurProc \in {0, DEAD} \cup Pids \cup 0 .. created
    BY <2>1, <2>2 DEF Kernel, Current, Fits
  <2>4. \A a \in DOMAIN mem : mem[a] # 0 => At(mem, a) # 0
    BY DEF At
  <2> QED BY <2>1, <2>3, <2>4 DEF Kernel, Bookkeeping, Written
<1>3. ContextKept
  BY DEF ContextKept, KernelInv, Kernel
<1>4. ListHeadIsPid
  BY DEF ListHeadIsPid, KernelInv, Kernel, ListHead, PidCell, PCB_SIZE, OS_MEM_SIZE
<1> QED BY <1>1, <1>2, <1>3, <1>4 DEF KernelIntact

\* While the allocator has handed out nothing, whatever the processes execute:
\* no instruction reaches memory, every saved context is kept, and the head of
\* the free list is a pid (vm.c:66-95, 205-289, 320-380).
THEOREM KernelIntactCorrect == PidsInMemory /\ Spec => []KernelIntact
<1>1. PidsInMemory /\ Spec => [](TypeInv /\ KernelInv)
  BY InitTypeInv, NextTypeInv, InitKernelInv, NextKernelInv, PTL DEF Spec
<1> QED BY <1>1, KernelInvIntact, PTL

LEMMA TurnStep == KernelInv /\ TypeInv /\ [Next]_vars => [NextInTurn]_vars
<1> SUFFICES ASSUME KernelInv, TypeInv, Next,
                    pc = "yield", pc' \in {"call", "fetch"}, intact
             PROVE  \E d \in 1 .. ProcCount :
                       /\ CurProc' = (CurProc + d) % ProcCount
                       /\ (CurProc + d) % ProcCount \notin halted
                       /\ \A e \in 1 .. d - 1 : (CurProc + e) % ProcCount \in halted
  BY DEF NextInTurn
<1>1. YieldLoad
  BY OnlySearch DEF YieldSkip, Goto
<1>2. PICK d \in 1 .. ProcCount :
        /\ frame.next = (CurProc + d) % ProcCount
        /\ \A e \in 1 .. d - 1 : (CurProc + e) % ProcCount \in halted
  BY DEF KernelInv, Passed
<1>3. CurProc' = frame.next
  BY <1>1, AtPut DEF YieldLoad, LoadProc, Goto, CurProc
<1>4. frame.next \notin halted
  <2> SUFFICES ASSUME frame.next \in halted PROVE FALSE
    OBVIOUS
  <2>1. Fits(frame.next)
    BY DEF KernelInv, Kernel, SavedFit
  <2>2. At(mem, PidCell(frame.next)) = DEAD
    BY <2>1 DEF KernelInv, Kernel, ListHead, Marks
  <2> QED BY <1>1, <2>2 DEF YieldLoad, NextRuns, Live
<1> QED BY <1>2, <1>3, <1>4

\* tyld() gives the turn to the next process in cyclic order that has not
\* halted, for any number of processes (vm.c:325-346).
THEOREM TurnsInOrderCorrect == PidsInMemory /\ Spec => TurnsInOrder
<1>1. PidsInMemory /\ Spec => [](TypeInv /\ KernelInv)
  BY InitTypeInv, NextTypeInv, InitKernelInv, NextKernelInv, PTL DEF Spec
<1> QED BY <1>1, TurnStep, PTL DEF Spec, TurnsInOrder
===============================================================================
