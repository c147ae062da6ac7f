------------------------------ MODULE TreePipe ------------------------------
(***************************************************************************)
(* PA1/treePipe.c: a binary tree of processes.  A node gets num1, has its  *)
(* left child compute num2, runs its worker (pl.c or pr.c) on both, and    *)
(* hands the result to its right child, whose value is its own.            *)
(*                                                                         *)
(* All talk through pipes that carry numbers both ways: the two ends of    *)
(* one pipe are standard input and output of parent and child alike.  One  *)
(* action is one read or write of a pipe, a fork, or a return from wait(). *)
(* A read takes all that is in the pipe into the reader's stdio buffer;    *)
(* scanf takes one number.  Every reader of a pipe holds a write end of it *)
(* too, so there is no end of file and no SIGPIPE, and a read blocks.      *)
(* Processes are started by fork and exec, which leave them empty buffers. *)
(***************************************************************************)
EXTENDS Integers, Sequences

CONSTANTS
  MaxDepths,    \* the values of the argument maxDepth that are explored
  Inputs,       \* the numbers the user may enter
  Deepest       \* a bound of MaxDepths

ASSUME MaxDepthsAssumption == Deepest \in Nat /\ MaxDepths \subseteq 0 .. Deepest
ASSUME InputsAssumption == Inputs \subseteq Int

\* A node is named by its way down from the root: 0 is left, 1 is right.
Nodes == UNION {[1 .. d -> {0, 1}] : d \in 0 .. Deepest}
Root == <<>>
Node(n) == <<n, "node">>
Worker(n) == <<n, "worker">>
Procs == Nodes \X {"node", "worker"}

\* The pipes a node creates, and the terminal.
Pipe(n, use) == <<n, use>>
Tty == <<Root, "tty">>
Pipes == (Nodes \X {"alone", "left", "work", "right"}) \cup {Tty}

VARIABLES
  args,              \* how the root is run: maxDepth, lr, and the number entered
  proc,              \* the processes: pc, descriptors 0 and 1, buffers, locals
  pipe,              \* per pipe, the numbers in it
  final              \* the final results the root has reported, in order

treeVars == <<args, proc, pipe, final>>

maxDepth == args.maxDepth

\* A process that has just been executed.
Started(in, out) ==
  [pc |-> "num1", in |-> in, out |-> out, inbuf |-> <<>>, outbuf |-> <<>>,
   num1 |-> 0, num2 |-> 0, result |-> 0]

NotStarted == [Started(Tty, Tty) EXCEPT !.pc = "none"]

TreeInit ==
  /\ args \in [maxDepth : MaxDepths, lr : {0, 1}, input : Inputs]
  /\ proc = [p \in Procs |-> IF p = Node(Root) THEN Started(Tty, Tty) ELSE NotStarted]
  /\ pipe = [x \in Pipes |-> IF x = Tty THEN <<args.input>> ELSE <<>>]
  /\ final = <<>>

Leaf(n) == Len(n) = maxDepth
Write(x, numbers) == pipe' = [pipe EXCEPT ![x] = @ \o numbers]

-----------------------------------------------------------------------------
(* scanf, by any process *)

Scans == {"num1", "num2", "aloneResult", "leftValue", "result", "rightValue"}

\* The stdio buffer is empty: read().
Fill(p) ==
  /\ proc[p].pc \in Scans
  /\ proc[p].inbuf = <<>>
  /\ pipe[proc[p].in] # <<>>
  /\ proc' = [proc EXCEPT ![p].inbuf = pipe[proc[p].in]]
  /\ pipe' = [pipe EXCEPT ![proc[p].in] = <<>>]
  /\ UNCHANGED <<args, final>>

\* The next number of p, and p after scanf("%d", &var), at its next step.
CanScan(p, at) == proc[p].pc = at /\ proc[p].inbuf # <<>>
Number(p) == Head(proc[p].inbuf)
Scanned(p, var, to) == [proc[p] EXCEPT ![var] = Number(p), !.inbuf = Tail(@), !.pc = to]

FirstStep(n) == IF maxDepth = 0 THEN "alone" ELSE IF Leaf(n) THEN "work" ELSE "left"

\* The root asks the user for num1; everybody else gets two numbers.
ScanNum1(p) ==
  /\ CanScan(p, "num1")
  /\ proc' = [proc EXCEPT ![p] = Scanned(p, "num1", IF p = Node(Root) THEN FirstStep(Root) ELSE "num2")]
  /\ UNCHANGED <<args, pipe, final>>

ScanNum2(p) ==
  /\ CanScan(p, "num2")
  /\ proc' = [proc EXCEPT ![p] = Scanned(p, "num2", IF p[2] = "worker" THEN "answer" ELSE FirstStep(p[1]))]
  /\ UNCHANGED <<args, pipe, final>>

-----------------------------------------------------------------------------
(* The workers, and what nodes do with them *)

Side(n) == IF n = Root THEN args.lr ELSE n[Len(n)]
Compute(side, a, b) == IF side = 0 THEN a + b ELSE a * b

\* The answer is written when the worker exits.
Answer(n) ==
  LET w == Worker(n) IN
  /\ proc[w].pc = "answer"
  /\ Write(proc[w].out, <<Compute(Side(n), proc[w].num1, proc[w].num2)>>)
  /\ proc' = [proc EXCEPT ![w].pc = "exited"]
  /\ UNCHANGED <<args, final>>

\* fork, and exec in the child; a node that is a leaf gives its worker a pipe of its
\* own to read from, any other one the pipe it has with its left child.
ForkWorker(n) ==
  /\ proc[Node(n)].pc = "work"
  /\ LET own == Pipe(n, "work")
         out == proc[Node(n)].out
     IN  proc' = IF Leaf(n)
                 THEN [proc EXCEPT ![Worker(n)] = Started(own, out),
                                   ![Node(n)].out = own, ![Node(n)].num2 = 1, ![Node(n)].pc = "give"]
                 ELSE [proc EXCEPT ![Worker(n)] = Started(proc[Node(n)].in, out), ![Node(n)].pc = "give"]
  /\ UNCHANGED <<args, pipe, final>>

\* printf and fflush: what the buffer already held goes out first.
Pair(n) == <<proc[Node(n)].num1, proc[Node(n)].num2>>

GiveUnflushed(n, at, to) ==       \* mutant of Give: no fflush
  /\ proc[Node(n)].pc = at
  /\ proc' = [proc EXCEPT ![Node(n)].outbuf = @ \o Pair(n), ![Node(n)].pc = to]
  /\ UNCHANGED pipe

Give(n, at, to) ==
  /\ proc[Node(n)].pc = at
  /\ Write(proc[Node(n)].out, proc[Node(n)].outbuf \o Pair(n))
  /\ proc' = [proc EXCEPT ![Node(n)].outbuf = <<>>, ![Node(n)].pc = to]

GiveWorker(n) == Give(n, "give", "workerWait") /\ UNCHANGED <<args, final>>

\* wait(NULL): the only child that has not been waited for has exited.
DoNotWait(child) == TRUE          \* mutant of Exited
Exited(child) == proc[child].pc = "exited"

WaitFor(n, child, at, to) ==
  /\ proc[Node(n)].pc = at
  /\ Exited(child)
  /\ proc' = [proc EXCEPT ![Node(n)].pc = to]
  /\ UNCHANGED <<args, pipe, final>>

WaitWorker(n) == WaitFor(n, Worker(n), "workerWait", IF Leaf(n) THEN "exit" ELSE "result")

\* The result is printed, but stays in the stdio buffer of standard output.
ResultNotPrinted(n) == <<>>       \* mutant of Buffered
Buffered(n) == <<Number(Node(n))>>

ScanResult(n) ==
  /\ CanScan(Node(n), "result")
  /\ proc' = [proc EXCEPT ![Node(n)] =
                [Scanned(Node(n), "result", "right") EXCEPT !.outbuf = @ \o Buffered(n)]]
  /\ UNCHANGED <<args, pipe, final>>

-----------------------------------------------------------------------------
(* A root that is the whole tree has its worker compute twice *)

ForkAlone(n) ==
  /\ proc[Node(n)].pc = "alone"
  /\ LET x == Pipe(n, "alone")
     IN  proc' = [proc EXCEPT ![Worker(n)] = Started(x, x), ![Node(n)].out = x,
                              ![Node(n)].num2 = 1, ![Node(n)].pc = "aloneGive"]
  /\ UNCHANGED <<args, pipe, final>>

\* Standard input becomes the pipe only now.
GiveAlone(n) ==
  /\ proc[Node(n)].pc = "aloneGive"
  /\ Write(proc[Node(n)].out, proc[Node(n)].outbuf \o Pair(n))
  /\ proc' = [proc EXCEPT ![Node(n)].outbuf = <<>>, ![Node(n)].in = Pipe(n, "alone"),
                          ![Node(n)].pc = "aloneWait"]
  /\ UNCHANGED <<args, final>>

WaitAlone(n) == WaitFor(n, Worker(n), "aloneWait", "aloneResult")

ScanAlone(n) ==
  /\ CanScan(Node(n), "aloneResult")
  /\ final' = Append(final, Number(Node(n)))
  /\ proc' = [proc EXCEPT ![Node(n)] = Scanned(Node(n), "result", "work")]
  /\ UNCHANGED <<args, pipe>>

-----------------------------------------------------------------------------
(* The children *)

Child(n, side) == Append(n, side)

\* The pipe becomes both ends of the child, and at once or a little later of the
\* parent too.
ForkChild(n, side, use, at, to) ==
  /\ proc[Node(n)].pc = at
  /\ LET x == Pipe(n, use)
     IN  proc' = [proc EXCEPT ![Node(Child(n, side))] = Started(x, x),
                              ![Node(n)].out = x, ![Node(n)].pc = to]
  /\ UNCHANGED <<args, pipe, final>>

ForkLeft(n) == ForkChild(n, 0, "left", "left", "sendNum1")
ForkRight(n) == ForkChild(n, 1, "right", "right", "sendRight")

\* Two calls of dprintf, past the stdio buffer.
SendNum1(n) ==
  /\ proc[Node(n)].pc = "sendNum1"
  /\ Write(Pipe(n, "left"), <<proc[Node(n)].num1>>)
  /\ proc' = [proc EXCEPT ![Node(n)].pc = "sendNum2"]
  /\ UNCHANGED <<args, final>>

SendNum2(n) ==
  /\ proc[Node(n)].pc = "sendNum2"
  /\ Write(Pipe(n, "left"), <<proc[Node(n)].num2>>)
  /\ proc' = [proc EXCEPT ![Node(n)].in = Pipe(n, "left"), ![Node(n)].pc = "leftWait"]
  /\ UNCHANGED <<args, final>>

WaitLeft(n) == WaitFor(n, Node(Child(n, 0)), "leftWait", "leftValue")

ScanLeftValue(n) ==
  /\ CanScan(Node(n), "leftValue")
  /\ proc' = [proc EXCEPT ![Node(n)] = Scanned(Node(n), "num2", "work")]
  /\ UNCHANGED <<args, pipe, final>>

\* The flush sends the result, still buffered, and then num1 and num2: so the right
\* child's num1 is the result.
SendRight(n) ==
  /\ proc[Node(n)].pc = "sendRight"
  /\ Write(proc[Node(n)].out, proc[Node(n)].outbuf \o Pair(n))
  /\ proc' = [proc EXCEPT ![Node(n)].outbuf = <<>>, ![Node(n)].in = Pipe(n, "right"),
                          ![Node(n)].pc = "rightWait"]
  /\ UNCHANGED <<args, final>>

WaitRight(n) == WaitFor(n, Node(Child(n, 1)), "rightWait", "rightValue")

\* Mutant of ScanRightValue: standard output is the pipe with the parent again.
ScanRightAndRestore(n) ==
  /\ CanScan(Node(n), "rightValue")
  /\ LET up == IF n = Root THEN Tty
              ELSE Pipe(SubSeq(n, 1, Len(n) - 1), IF n[Len(n)] = 0 THEN "left" ELSE "right")
     IN  proc' = [proc EXCEPT ![Node(n)] =
                    [Scanned(Node(n), "num2", "exit") EXCEPT
                       !.outbuf = Append(@, Number(Node(n))), !.out = up]]
  /\ UNCHANGED <<args, pipe, final>>

\* num2 is printed for the parent to read, to the pipe with the right child.
ScanRightValue(n) ==
  /\ CanScan(Node(n), "rightValue")
  /\ proc' = [proc EXCEPT ![Node(n)] =
                [Scanned(Node(n), "num2", "exit") EXCEPT !.outbuf = Append(@, Number(Node(n)))]]
  /\ UNCHANGED <<args, pipe, final>>

\* The root reports num2 unless it did before; exit flushes the buffer.
Exit(n) ==
  /\ proc[Node(n)].pc = "exit"
  /\ final' = IF n = Root /\ maxDepth # 0 THEN Append(final, proc[Node(n)].num2) ELSE final
  /\ Write(proc[Node(n)].out, proc[Node(n)].outbuf)
  /\ proc' = [proc EXCEPT ![Node(n)].outbuf = <<>>, ![Node(n)].pc = "exited"]
  /\ UNCHANGED args

-----------------------------------------------------------------------------
NodeStep(n) ==
  \/ ForkAlone(n) \/ GiveAlone(n) \/ WaitAlone(n) \/ ScanAlone(n)
  \/ ForkLeft(n) \/ SendNum1(n) \/ SendNum2(n) \/ WaitLeft(n) \/ ScanLeftValue(n)
  \/ ForkWorker(n) \/ GiveWorker(n) \/ WaitWorker(n) \/ ScanResult(n)
  \/ ForkRight(n) \/ SendRight(n) \/ WaitRight(n) \/ ScanRightValue(n)
  \/ Exit(n)

Step(p) == Fill(p) \/ ScanNum1(p) \/ ScanNum2(p)
             \/ (IF p[2] = "node" THEN NodeStep(p[1]) ELSE Answer(p[1]))

TreeNext == \E p \in Procs : Step(p)

TreeSpec == TreeInit /\ [][TreeNext]_treeVars

\* Every process that can run does.
TreeFairSpec == TreeSpec /\ \A p \in Procs : WF_treeVars(Step(p))

-----------------------------------------------------------------------------
(* Properties *)

\* Nobody competes for the numbers in a pipe, although parent, child and worker all
\* have both of its ends: of the processes that would read it only one is at a read,
\* so the numbers a node writes are never read back by itself.
OneReader ==
  \A p, q \in Procs :
    proc[p].pc \in Scans /\ proc[q].pc \in Scans /\ proc[p].in = proc[q].in => p = q

\* A worker computes on the pair of its own node, and on nothing else that has passed
\* through the pipe they share with the left child.
WorkerHasItsPair ==
  \A n \in Nodes :
    LET w == proc[Worker(n)]
    IN  w.pc = "answer" => <<w.num1, w.num2>> = <<proc[Node(n)].num1, proc[Node(n)].num2>>

\* The pipes are shared by up to four processes and used as if by two.
PipesPrivate == OneReader /\ WorkerHasItsPair

\* What the value of a tree of height h is meant to be, on the given side of its
\* parent and with the given num1 (the steps listed in treePipenew.c:7-59).
TreeValue[h \in 0 .. Deepest] ==
  [side \in {0, 1} |-> [v \in Int |->
    IF h = 0 THEN Compute(side, v, 1)
    ELSE TreeValue[h - 1][1][Compute(side, v, TreeValue[h - 1][0][v])]]]

\* A final result is the value of the whole tree, and there is only one.
FinalIsTreeValue ==
  final # <<>> => final = <<TreeValue[maxDepth][args.lr][args.input]>>

AllExited == \A p \in Procs : proc[p].pc \in {"none", "exited"}

\* A tree of one or three nodes ends, with its result reported.
ShallowTreesEnd == maxDepth =< 1 => <>(AllExited /\ final # <<>>)

\* A deeper tree never reports a result, and its root never ends: an inner node that is
\* not the root writes the value "for parent to read" to the pipe it has with its own
\* right child, and its parent waits for a value that never comes.
DeepTreesHang ==
  maxDepth >= 2 => final = <<>> /\ proc[Node(Root)].pc # "exited"
=============================================================================
