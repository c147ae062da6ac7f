------------------------- MODULE TreeAndCourtProofs -------------------------
(***************************************************************************)
(* TreePipe for trees of every depth and every number entered: whose the   *)
(* numbers in a pipe are, what the root reports, and that it reports       *)
(* nothing of a deep tree.  After it, with its own variables, Court for    *)
(* every number of threads, players and visits: the unit of court_lock,    *)
(* the count of players, and how a match ends.                             *)
(***************************************************************************)
EXTENDS TreePipe, Court, SequenceTheorems, FiniteSetTheorems, TLAPS

-----------------------------------------------------------------------------
(* The tree *)

P(n) == proc[Node(n)]
W(n) == proc[Worker(n)]
L(n) == Child(n, 0)
R(n) == Child(n, 1)
Up(n) ==
  IF n = Root THEN Tty
  ELSE Pipe(SubSeq(n, 1, Len(n) - 1), IF n[Len(n)] = 0 THEN "left" ELSE "right")

LEMMA NodeIsSeq ==
  ASSUME NEW n \in Nodes
  PROVE  /\ n \in Seq({0, 1}) /\ Len(n) \in 0 .. Deepest
         /\ n = Root <=> Len(n) = 0
<1>1. PICK d \in 0 .. Deepest : n \in [1 .. d -> {0, 1}]
  BY DEF Nodes
<1>2. d \in Nat
  BY <1>1, MaxDepthsAssumption
<1>3. n \in Seq({0, 1})
  BY <1>1, <1>2
<1>4. Len(n) = d
  BY <1>1, <1>2, <1>3
<1> QED BY <1>1, <1>3, <1>4, EmptySeq DEF Root

LEMMA SeqIsNode ==
  ASSUME NEW n \in Seq({0, 1}), Len(n) \in 0 .. Deepest
  PROVE  n \in Nodes
<1>1. n \in [1 .. Len(n) -> {0, 1}]
  OBVIOUS
<1> QED BY <1>1 DEF Nodes

LEMMA Children ==
  ASSUME NEW n \in Nodes, Len(n) < Deepest, NEW s \in {0, 1}
  PROVE  /\ Child(n, s) \in Nodes /\ Len(Child(n, s)) = Len(n) + 1
         /\ Child(n, s) # Root
         /\ SubSeq(Child(n, s), 1, Len(Child(n, s)) - 1) = n
         /\ Child(n, s)[Len(Child(n, s))] = s
<1>1. n \in Seq({0, 1}) /\ Len(n) \in Nat /\ Deepest \in Nat
  BY NodeIsSeq, MaxDepthsAssumption
<1>2. /\ Child(n, s) \in Seq({0, 1}) /\ Len(Child(n, s)) = Len(n) + 1
      /\ Child(n, s)[Len(n) + 1] = s
      /\ \A i \in 1 .. Len(n) : Child(n, s)[i] = n[i]
  BY <1>1 DEF Child
<1>3. Child(n, s) \in Nodes
  BY <1>1, <1>2, SeqIsNode
<1>4. SubSeq(Child(n, s), 1, Len(Child(n, s)) - 1) = n
  <2> DEFINE c == Child(n, s)
             f == SubSeq(c, 1, Len(n))
  <2>1. f = [i \in 1 .. Len(n) |-> c[i]]
    BY <1>1, <1>2
  <2>2. n = [i \in 1 .. Len(n) |-> n[i]]
    BY <1>1
  <2>3. [i \in 1 .. Len(n) |-> c[i]] = [i \in 1 .. Len(n) |-> n[i]]
    BY <1>2
  <2> QED BY <1>1, <1>2, <2>1, <2>2, <2>3
<1>5. Child(n, s) # Root
  BY <1>1, <1>2, <1>3, NodeIsSeq
<1> QED BY <1>2, <1>3, <1>4, <1>5

LEMMA Parents ==
  ASSUME NEW n \in Nodes, n # Root
  PROVE  \E m \in Nodes, s \in {0, 1} : n = Child(m, s) /\ Len(n) = Len(m) + 1
<1>1. n \in Seq({0, 1}) /\ Len(n) \in 1 .. Deepest /\ Deepest \in Nat
  BY NodeIsSeq, MaxDepthsAssumption
<1> DEFINE m == [i \in 1 .. Len(n) - 1 |-> n[i]]
           s == n[Len(n)]
<1>2. m \in Seq({0, 1}) /\ Len(m) = Len(n) - 1 /\ \A i \in 1 .. Len(n) - 1 : m[i] = n[i]
  <2>1. Len(n) - 1 \in Nat /\ \A i \in 1 .. Len(n) - 1 : n[i] \in {0, 1}
    BY <1>1
  <2>2. m \in [1 .. Len(n) - 1 -> {0, 1}]
    BY <2>1
  <2>3. m \in Seq({0, 1})
    BY <2>1, <2>2
  <2> QED BY <2>1, <2>2, <2>3
<1>3. s \in {0, 1}
  BY <1>1
<1> HIDE DEF m
<1>4. m \in Nodes
  <2>1. Len(m) \in 0 .. Deepest
    BY <1>1, <1>2
  <2> QED BY <1>2, <2>1, SeqIsNode
<1>5. n = Append(m, s)
  <2>1. Append(m, s) \in Seq({0, 1}) /\ Len(Append(m, s)) = Len(n)
    BY <1>1, <1>2, <1>3
  <2>2. \A i \in 1 .. Len(n) : Append(m, s)[i] = n[i]
    BY <1>1, <1>2, <1>3
  <2> QED BY <1>1, <2>1, <2>2, SeqEqual
<1>6. Len(n) = Len(m) + 1
  BY <1>1, <1>2
<1> QED BY <1>3, <1>4, <1>5, <1>6 DEF Child

\* A node is the child of one node, on one side.
LEMMA OneParent ==
  ASSUME NEW m \in Nodes, NEW n \in Nodes, NEW s \in {0, 1}, NEW t \in {0, 1},
         Child(m, s) = Child(n, t)
  PROVE  m = n /\ s = t
<1>1. m \in Seq({0, 1}) /\ n \in Seq({0, 1})
  BY NodeIsSeq
<1>2. /\ Len(Child(m, s)) = Len(m) + 1 /\ Len(Child(n, t)) = Len(n) + 1
      /\ Child(m, s)[Len(m) + 1] = s /\ Child(n, t)[Len(n) + 1] = t
      /\ \A i \in 1 .. Len(m) : Child(m, s)[i] = m[i]
      /\ \A i \in 1 .. Len(n) : Child(n, t)[i] = n[i]
  BY <1>1 DEF Child
<1>3. Len(m) = Len(n) /\ s = t
  BY <1>1, <1>2
<1>4. \A i \in 1 .. Len(m) : m[i] = n[i]
  BY <1>2, <1>3
<1> QED BY <1>1, <1>3, <1>4, SeqEqual

LEMMA UpPipe ==
  ASSUME NEW n \in Nodes, Len(n) < Deepest
  PROVE  /\ Up(L(n)) = Pipe(n, "left") /\ L(n) # Root
         /\ Up(R(n)) = Pipe(n, "right") /\ R(n) # Root /\ L(n) # R(n)
<1>1. 0 \in {0, 1} /\ 1 \in {0, 1}
  OBVIOUS
<1>2. \A s \in {0, 1} :
        Up(Child(n, s)) = Pipe(n, IF s = 0 THEN "left" ELSE "right") /\ Child(n, s) # Root
  BY Children DEF Up
<1>3. L(n) # R(n)
  BY <1>1, OneParent DEF L, R
<1> QED BY <1>1, <1>2, <1>3 DEF L, R

\* Every process and every pipe has one name.
LEMMA Names ==
  ASSUME NEW m, NEW n
  PROVE  /\ Node(m) # Worker(n)
         /\ Node(m) = Node(n) => m = n
         /\ Worker(m) = Worker(n) => m = n
         /\ \A u, v : Pipe(m, u) = Pipe(n, v) => m = n /\ u = v
         /\ \A u : u # "tty" => Pipe(m, u) # Tty
BY DEF Node, Worker, Pipe, Tty

LEMMA RootIsNode == Root \in Nodes
<1>1. Root \in Seq({0, 1}) /\ Len(Root) = 0 /\ 0 \in 0 .. Deepest
  BY MaxDepthsAssumption DEF Root
<1> QED BY <1>1, SeqIsNode

LEMMA Members ==
  ASSUME NEW n \in Nodes
  PROVE  /\ Node(n) \in Procs /\ Worker(n) \in Procs
         /\ \A u \in {"alone", "left", "work", "right"} : Pipe(n, u) \in Pipes
         /\ Tty \in Pipes /\ Root \in Nodes
BY RootIsNode DEF Procs, Pipes, Node, Worker, Pipe

-----------------------------------------------------------------------------
(* The invariant *)

Points ==
  {"none", "num1", "num2", "alone", "aloneGive", "aloneWait", "aloneResult",
   "left", "sendNum1", "sendNum2", "leftWait", "leftValue", "work", "give", "workerWait",
   "result", "right", "sendRight", "rightWait", "rightValue", "exit", "exited", "answer"}

Process == [pc : Points, in : Pipes, out : Pipes, inbuf : Seq(Int), outbuf : Seq(Int),
            num1 : Int, num2 : Int, result : Int]

Typed ==
  /\ args \in [maxDepth : MaxDepths, lr : {0, 1}, input : Inputs]
  /\ proc \in [Procs -> Process]
  /\ pipe \in [Pipes -> Seq(Int)]
  /\ final \in Seq(Int)

Inner(n) == Len(n) < maxDepth
Low(n) == Len(n) + 1 = maxDepth        \* an inner node whose children are leaves

Early == {"none", "num1", "num2"}
DeepLabels == Early \cup {"left", "sendNum1", "sendNum2", "leftWait", "leftValue"}
Ending == {"work", "give", "workerWait", "exit", "exited"}
LowLabels ==
  DeepLabels \cup Ending \cup {"result", "right", "sendRight", "rightWait", "rightValue"}
LeafLabels == Early \cup Ending
AloneLabels == Ending \cup {"num1", "alone", "aloneGive", "aloneWait", "aloneResult"}

\* Where a node can be: above the last two levels none gets past its left child.
LabelsOf(n) ==
  IF Len(n) > maxDepth THEN {"none"}
  ELSE IF maxDepth = 0 THEN AloneLabels
  ELSE IF Leaf(n) THEN LeafLabels
  ELSE IF Low(n) THEN LowLabels
  ELSE DeepLabels

WorkerLabels(n) ==
  LET at == P(n).pc IN
  IF at \in {"give", "aloneGive"} THEN {"num1"}
  ELSE IF at \in {"workerWait", "aloneWait"} THEN {"num1", "num2", "answer", "exited"}
  ELSE IF \/ at \in {"exit", "exited", "result", "right", "sendRight", "rightWait",
                     "rightValue", "aloneResult"}
          \/ at = "work" /\ maxDepth = 0
       THEN {"exited"}
  ELSE {"none"}

LeftLabels(n) ==
  LET at == P(n).pc IN
  IF at \in Early \cup {"left"} THEN {"none"}
  ELSE IF at = "sendNum1" THEN {"num1"}
  ELSE IF at = "sendNum2" THEN {"num1", "num2"}
  ELSE IF at = "leftWait" THEN LowLabels \ {"none"}
  ELSE {"exited"}

RightLabels(n) ==
  LET at == P(n).pc IN
  IF at = "sendRight" THEN {"num1"}
  ELSE IF at = "rightWait" THEN LowLabels \ {"none"}
  ELSE IF at \in {"rightValue", "exit", "exited"} THEN {"exited"}
  ELSE {"none"}

Labels(n) ==
  /\ P(n).pc \in LabelsOf(n)
  /\ n = Root => P(n).pc \notin {"none", "num2"}
  /\ W(n).pc \in WorkerLabels(n)
  /\ Inner(n) => P(L(n)).pc \in LeftLabels(n) /\ P(R(n)).pc \in RightLabels(n)

\* What the descriptors 0 and 1 of a node and of its worker are.
InOf(n) ==
  LET at == P(n).pc IN
  IF maxDepth = 0
  THEN IF at \in {"num1", "alone", "aloneGive"} THEN Tty ELSE Pipe(n, "alone")
  ELSE IF Leaf(n) \/ at \in Early \cup {"left", "sendNum1", "sendNum2"} THEN Up(n)
  ELSE IF at \in {"rightWait", "rightValue", "exit", "exited"} THEN Pipe(n, "right")
  ELSE Pipe(n, "left")

OutOf(n) ==
  LET at == P(n).pc IN
  IF maxDepth = 0
  THEN IF at \in {"num1", "alone"} THEN Tty
       ELSE IF at \in {"aloneGive", "aloneWait", "aloneResult", "work"} THEN Pipe(n, "alone")
       ELSE Pipe(n, "work")
  ELSE IF Leaf(n) THEN IF at \in Early \cup {"work"} THEN Up(n) ELSE Pipe(n, "work")
  ELSE IF at \in Early \cup {"left"} THEN Up(n)
  ELSE IF at \in {"sendRight", "rightWait", "rightValue", "exit", "exited"} THEN Pipe(n, "right")
  ELSE Pipe(n, "left")

WorkerIn(n) ==
  IF P(n).pc \in {"aloneGive", "aloneWait"} THEN Pipe(n, "alone")
  ELSE IF Leaf(n) THEN Pipe(n, "work") ELSE Pipe(n, "left")
WorkerOut(n) ==
  IF maxDepth = 0 THEN Pipe(n, "alone") ELSE IF Leaf(n) THEN Up(n) ELSE Pipe(n, "left")

Ends(n) ==
  /\ P(n).pc # "none" => P(n).in = InOf(n) /\ P(n).out = OutOf(n)
  /\ W(n).pc \in {"num1", "num2", "answer"} => W(n).in = WorkerIn(n) /\ W(n).out = WorkerOut(n)

\* The numbers s are on their way to process q, in pipe x or read already.
Has(q, x, s) ==
  \/ q.inbuf = << >> /\ pipe[x] = s
  \/ q.inbuf = s /\ pipe[x] = << >>

Answered(n) == Compute(Side(n), P(n).num1, P(n).num2)

\* What a child has sent to its parent so far: only leaves send.
LeafDone(n) ==
  Leaf(n) /\ (P(n).pc \in {"exit", "exited"} \/ (P(n).pc = "workerWait" /\ W(n).pc = "exited"))
Output(n) == IF LeafDone(n) THEN <<Answered(n)>> ELSE << >>

\* The worker of n reads the pair of n.
WorkerFlow(n) ==
  LET x == WorkerIn(n) IN
  /\ P(n).pc \in {"give", "aloneGive"} => W(n).inbuf = << >> /\ pipe[x] = << >>
  /\ P(n).pc \in {"workerWait", "aloneWait"} =>
       /\ W(n).pc = "num1" => Has(W(n), x, Pair(n))
       /\ W(n).pc = "num2" =>
            W(n).num1 = P(n).num1 /\ W(n).inbuf = <<P(n).num2>> /\ pipe[x] = << >>
       /\ W(n).pc = "answer" => /\ W(n).num1 = P(n).num1 /\ W(n).num2 = P(n).num2
                                /\ pipe[x] = << >>

LeafFlow(n) ==
  Leaf(n) =>
    /\ P(n).outbuf = << >>
    /\ P(n).pc \in {"give", "workerWait", "exit", "exited"} => P(n).num2 = 1
    /\ P(n).pc \notin {"workerWait", "exit", "exited"} => pipe[Pipe(n, "work")] = << >>

\* The tree that is its root.
AloneFlow(n) ==
  LET at == P(n).pc  x == Pipe(n, "alone") IN
  maxDepth = 0 /\ n = Root =>
    /\ at \in {"num1", "alone", "aloneGive"} => pipe[x] = << >>
    /\ at \in {"alone", "aloneGive", "aloneWait"} => P(n).inbuf = << >>
    /\ at \in {"aloneGive", "aloneWait", "aloneResult"} => P(n).num2 = 1
    /\ at = "aloneWait" /\ W(n).pc = "exited" => pipe[x] = <<Answered(n)>>
    /\ at = "aloneResult" => Has(P(n), x, <<Answered(n)>>)
    /\ final = IF at \in Ending THEN <<Compute(args.lr, args.input, 1)>> ELSE << >>

\* Between an inner node and its left child, then its worker: all in one pipe.
LeftFlow(n) ==
  LET at == P(n).pc  l == P(L(n))  x == Pipe(n, "left") IN
  Inner(n) =>
    /\ at \in Early \cup {"left"} => pipe[x] = << >>
    /\ at = "sendNum1" => pipe[x] = << >> /\ l.inbuf = << >>
    /\ at = "sendNum2" =>
         /\ l.pc = "num1" => Has(l, x, <<P(n).num1>>)
         /\ l.pc = "num2" => l.num1 = P(n).num1 /\ l.inbuf = << >> /\ pipe[x] = << >>
    /\ at = "leftWait" =>
         /\ l.pc = "num1" => \/ Has(l, x, Pair(n))
                             \/ l.inbuf = <<P(n).num1>> /\ pipe[x] = <<P(n).num2>>
         /\ l.pc = "num2" => l.num1 = P(n).num1 /\ Has(l, x, <<P(n).num2>>)
         /\ l.pc \notin Early => l.num1 = P(n).num1 /\ pipe[x] = Output(L(n))
    /\ at \in {"left", "sendNum1", "sendNum2", "leftWait"} => P(n).inbuf = << >>
    /\ at = "leftValue" => Has(P(n), x, IF Low(n) THEN <<Compute(0, P(n).num1, 1)>> ELSE << >>)
    /\ at = "work" => pipe[x] = << >>
    /\ at \in {"work", "give", "workerWait"} => P(n).inbuf = << >>
    /\ at \in {"work", "give", "workerWait", "result", "right", "sendRight", "rightWait"} =>
         P(n).num2 = Compute(0, P(n).num1, 1)
    /\ at = "workerWait" /\ W(n).pc = "exited" => pipe[x] = <<Answered(n)>>
    /\ at = "result" => Has(P(n), x, <<Answered(n)>>)

\* Between an inner node and its right child.
RightFlow(n) ==
  LET at == P(n).pc  r == P(R(n))  x == Pipe(n, "right") IN
  Inner(n) =>
    /\ at \notin {"rightWait", "rightValue", "exit", "exited"} => pipe[x] = << >>
    /\ at \notin {"right", "sendRight", "exit"} => P(n).outbuf = << >>
    /\ at \in {"right", "sendRight"} => P(n).outbuf = <<P(n).result>>
    /\ at \in {"right", "sendRight", "rightWait", "rightValue"} =>
         P(n).result = Compute(Side(n), P(n).num1, Compute(0, P(n).num1, 1))
    /\ at = "sendRight" => r.inbuf = << >>
    /\ at = "rightWait" =>
         /\ r.pc = "num1" => Has(r, x, <<P(n).result, P(n).num1, P(n).num2>>)
         /\ r.pc = "num2" => r.num1 = P(n).result /\ r.inbuf = Pair(n) /\ pipe[x] = << >>
         /\ r.pc \notin Early => r.num1 = P(n).result /\ pipe[x] = Output(R(n))
    /\ at \in {"right", "sendRight", "rightWait"} => P(n).inbuf = << >>
    /\ at = "rightValue" => Has(P(n), x, <<Compute(1, P(n).result, 1)>>)

\* The number entered, and the value reported for a tree of depth 1.
RootFlow(n) ==
  n = Root =>
    /\ P(n).pc = "num1" => Has(P(n), Tty, <<args.input>>)
    /\ P(n).pc # "num1" => P(n).num1 = args.input
    /\ maxDepth # 0 =>
         /\ P(n).pc # "exited" => final = << >>
         /\ P(n).pc \in {"exit", "exited"} =>
              P(n).num2 = Compute(1, Compute(args.lr, args.input, Compute(0, args.input, 1)), 1)
         /\ P(n).pc = "exited" => final = <<P(n).num2>>

NodeInv(n) ==
  /\ Labels(n) /\ Ends(n)
  /\ WorkerFlow(n) /\ LeafFlow(n) /\ AloneFlow(n) /\ LeftFlow(n) /\ RightFlow(n) /\ RootFlow(n)

TreeInv == \A n \in Nodes : NodeInv(n)

-----------------------------------------------------------------------------
(* Steps elsewhere *)

\* The levels of the tree.
LEMMA Depths ==
  ASSUME Typed, NEW n \in Nodes
  PROVE  /\ maxDepth \in 0 .. Deepest /\ Deepest \in Nat /\ Len(n) \in Nat
         /\ Inner(n) => Len(n) < Deepest
<1>1. maxDepth \in 0 .. Deepest /\ Deepest \in Nat
  BY MaxDepthsAssumption DEF Typed, maxDepth
<1> QED BY <1>1, NodeIsSeq DEF Inner

\* The children of an inner node.
LEMMA InnerChildren ==
  ASSUME Typed, NEW n \in Nodes, Inner(n)
  PROVE  /\ L(n) \in Nodes /\ R(n) \in Nodes /\ L(n) # R(n) /\ L(n) # n /\ R(n) # n
         /\ Len(L(n)) = Len(n) + 1 /\ Len(R(n)) = Len(n) + 1
         /\ Up(L(n)) = Pipe(n, "left") /\ L(n) # Root
         /\ Up(R(n)) = Pipe(n, "right") /\ R(n) # Root
<1>1. Len(n) < Deepest /\ Len(n) \in Nat
  BY Depths
<1> QED BY <1>1, Children, UpPipe DEF L, R

\* What an invariant of node k speaks of.
Local(k) ==
  /\ UNCHANGED args /\ UNCHANGED P(k) /\ UNCHANGED W(k)
  /\ \A u \in {"alone", "left", "work", "right"} : pipe'[Pipe(k, u)] = pipe[Pipe(k, u)]
  /\ Inner(k) => /\ UNCHANGED P(L(k)) /\ UNCHANGED Output(L(k))
                 /\ UNCHANGED P(R(k)) /\ UNCHANGED Output(R(k))
  /\ k = Root => UNCHANGED final /\ pipe'[Tty] = pipe[Tty]

\* A step that changes nothing k speaks of keeps its invariant.
LEMMA Elsewhere ==
  ASSUME NEW k \in Nodes, NodeInv(k), Local(k)
  PROVE  NodeInv(k)'
<1>1. /\ UNCHANGED maxDepth /\ UNCHANGED args /\ P(k)' = P(k) /\ W(k)' = W(k)
      /\ \A s, a, b : Compute(s, a, b)' = Compute(s, a, b)
      /\ Side(k)' = Side(k) /\ Inner(k)' = Inner(k) /\ Low(k)' = Low(k) /\ Leaf(k)' = Leaf(k)
  BY DEF Local, maxDepth, Side, Inner, Low, Leaf, Compute
<1>2. /\ pipe'[Pipe(k, "alone")] = pipe[Pipe(k, "alone")]
      /\ pipe'[Pipe(k, "left")] = pipe[Pipe(k, "left")]
      /\ pipe'[Pipe(k, "work")] = pipe[Pipe(k, "work")]
      /\ pipe'[Pipe(k, "right")] = pipe[Pipe(k, "right")]
  BY DEF Local
<1>3. Labels(k)'
  BY <1>1 DEF NodeInv, Local, Labels, LabelsOf, WorkerLabels, LeftLabels, RightLabels
<1>4. Ends(k)'
  BY <1>1 DEF NodeInv, Ends, InOf, OutOf, WorkerIn, WorkerOut, Up
<1>5. WorkerIn(k)' = WorkerIn(k) /\ pipe'[WorkerIn(k)] = pipe[WorkerIn(k)]
  BY <1>1, <1>2 DEF WorkerIn
<1>6. WorkerFlow(k)'
  BY <1>1, <1>5 DEF NodeInv, WorkerFlow, Has, Pair, P
<1>7. LeafFlow(k)' /\ AloneFlow(k)'
  BY <1>1, <1>2 DEF NodeInv, Local, LeafFlow, AloneFlow, Has, Answered
<1>8. LeftFlow(k)'
  BY <1>1, <1>2 DEF NodeInv, Local, LeftFlow, Has, Answered, Pair, P
<1>9. RightFlow(k)'
  BY <1>1, <1>2 DEF NodeInv, Local, RightFlow, Has, Pair, P
<1>10. RootFlow(k)'
  BY <1>1 DEF NodeInv, Local, RootFlow, Has
<1> QED BY <1>3, <1>4, <1>6, <1>7, <1>8, <1>9, <1>10 DEF NodeInv

-----------------------------------------------------------------------------
(* Short sequences *)

LEMMA Tuples ==
  ASSUME NEW a \in Int, NEW b \in Int, NEW c \in Int
  PROVE  /\ <<a>> \in Seq(Int) /\ <<a, b>> \in Seq(Int) /\ <<a, b, c>> \in Seq(Int)
         /\ Head(<<a>>) = a /\ Tail(<<a>>) = << >> /\ <<a>> # << >>
         /\ Head(<<a, b>>) = a /\ Tail(<<a, b>>) = <<b>> /\ <<a, b>> # << >>
         /\ Head(<<a, b, c>>) = a /\ Tail(<<a, b, c>>) = <<b, c>> /\ <<a, b, c>> # << >>
         /\ <<a>> \o <<b>> = <<a, b>> /\ <<a>> \o <<b, c>> = <<a, b, c>>
         /\ Append(<< >>, a) = <<a>>
<1>1. <<a>> \in Seq(Int) /\ <<a, b>> \in Seq(Int) /\ <<a, b, c>> \in Seq(Int)
  OBVIOUS
<1>2. Head(<<a>>) = a /\ Tail(<<a>>) = << >> /\ <<a>> # << >>
  OBVIOUS
<1>3. Head(<<a, b>>) = a /\ Tail(<<a, b>>) = <<b>> /\ <<a, b>> # << >>
  OBVIOUS
<1>4. Head(<<a, b, c>>) = a /\ Tail(<<a, b, c>>) = <<b, c>> /\ <<a, b, c>> # << >>
  OBVIOUS
<1>5. <<a>> \o <<b>> = <<a, b>>
  <2>1. /\ <<a>> \o <<b>> \in Seq(Int) /\ Len(<<a>> \o <<b>>) = 2 /\ Len(<<a, b>>) = 2
        /\ (<<a>> \o <<b>>)[1] = a /\ (<<a>> \o <<b>>)[2] = b
    BY <1>1, ConcatProperties
  <2>2. \A i \in 1 .. Len(<<a>> \o <<b>>) : (<<a>> \o <<b>>)[i] = <<a, b>>[i]
    BY <2>1
  <2> QED BY <1>1, <2>1, <2>2, SeqEqual
<1>6. <<a>> \o <<b, c>> = <<a, b, c>>
  <2>1. /\ <<a>> \o <<b, c>> \in Seq(Int) /\ Len(<<a>> \o <<b, c>>) = 3
        /\ Len(<<a, b, c>>) = 3
        /\ (<<a>> \o <<b, c>>)[1] = a /\ (<<a>> \o <<b, c>>)[2] = b
        /\ (<<a>> \o <<b, c>>)[3] = c
    BY <1>1, ConcatProperties
  <2>2. \A i \in 1 .. Len(<<a>> \o <<b, c>>) : (<<a>> \o <<b, c>>)[i] = <<a, b, c>>[i]
    BY <2>1
  <2> QED BY <1>1, <2>1, <2>2, SeqEqual
<1>7. Append(<< >>, a) = <<a>>
  OBVIOUS
<1> QED BY <1>1, <1>2, <1>3, <1>4, <1>5, <1>6, <1>7

LEMMA Joined ==
  ASSUME NEW s \in Seq(Int)
  PROVE  << >> \o s = s /\ s \o << >> = s /\ << >> \in Seq(Int)
OBVIOUS

LEMMA Computed ==
  ASSUME NEW s, NEW a \in Int, NEW b \in Int
  PROVE  Compute(s, a, b) \in Int
BY DEF Compute

LEMMA NodeTypes ==
  ASSUME Typed, NEW n \in Nodes
  PROVE  /\ P(n) \in Process /\ W(n) \in Process
         /\ Pair(n) \in Seq(Int) /\ Pair(n) = <<P(n).num1, P(n).num2>>
         /\ Answered(n) \in Int
         /\ \A u \in {"alone", "left", "work", "right"} : pipe[Pipe(n, u)] \in Seq(Int)
         /\ pipe[Tty] \in Seq(Int)
         /\ Inner(n) => P(L(n)) \in Process /\ P(R(n)) \in Process
<1>1. P(n) \in Process /\ W(n) \in Process
  BY Members DEF Typed, P, W
<1>2. Pair(n) = <<P(n).num1, P(n).num2>> /\ P(n).num1 \in Int /\ P(n).num2 \in Int
  BY <1>1 DEF Pair, P, Process
<1>3. Pair(n) \in Seq(Int) /\ Answered(n) \in Int
  BY <1>2, Tuples, Computed DEF Answered
<1>4. /\ \A u \in {"alone", "left", "work", "right"} : pipe[Pipe(n, u)] \in Seq(Int)
      /\ pipe[Tty] \in Seq(Int)
  BY Members DEF Typed
<1>5. Inner(n) => P(L(n)) \in Process /\ P(R(n)) \in Process
  BY InnerChildren, Members DEF Typed, P
<1> QED BY <1>1, <1>2, <1>3, <1>4, <1>5

-----------------------------------------------------------------------------
(* Which nodes can be where *)

Alone(n) == maxDepth = 0 /\ n = Root

\* What the place of a node says of its level.
LEMMA Where ==
  ASSUME Typed, NEW n \in Nodes, Labels(n)
  PROVE  LET at == P(n).pc IN
         /\ at # "none" => Len(n) =< maxDepth /\ (maxDepth = 0 => Alone(n))
         /\ Leaf(n) => ~Inner(n)
         /\ Alone(n) => Leaf(n) /\ ~Inner(n)
         /\ Low(n) => Inner(n)
         /\ Inner(n) => maxDepth # 0
         /\ at \in {"alone", "aloneGive", "aloneWait", "aloneResult"} => Alone(n)
         /\ at \in {"left", "sendNum1", "sendNum2", "leftWait", "leftValue"} => Inner(n)
         /\ at \in {"result", "right", "sendRight", "rightWait", "rightValue"} => Low(n)
         /\ at \in Ending => Leaf(n) \/ Low(n)
<1> DEFINE at == P(n).pc
           depth == Len(n)
<1>1. depth \in Nat /\ maxDepth \in Nat
  BY Depths
<1>2. at \in LabelsOf(n) /\ (n = Root <=> depth = 0)
  BY NodeIsSeq DEF Labels
<1>3. CASE depth > maxDepth
  BY <1>1, <1>2, <1>3 DEF LabelsOf, Leaf, Inner, Low, Alone, Ending
<1>4. CASE depth =< maxDepth /\ maxDepth = 0
  <2>1. depth = 0 /\ n = Root /\ Leaf(n) /\ ~Inner(n) /\ ~Low(n) /\ Alone(n)
    BY <1>1, <1>2, <1>4 DEF Leaf, Inner, Low, Alone
  <2>2. at \in AloneLabels
    BY <1>1, <1>2, <1>4, <2>1 DEF LabelsOf
  <2> QED BY <1>4, <2>1, <2>2 DEF AloneLabels, Ending
<1>5. CASE depth = maxDepth /\ maxDepth # 0
  <2>1. Leaf(n) /\ ~Inner(n) /\ ~Low(n) /\ ~Alone(n)
    BY <1>1, <1>5 DEF Leaf, Inner, Low, Alone
  <2>2. at \in LeafLabels
    BY <1>1, <1>2, <1>5, <2>1 DEF LabelsOf
  <2> QED BY <1>5, <2>1, <2>2 DEF LeafLabels, Early, Ending
<1>6. CASE depth < maxDepth /\ Low(n)
  <2>1. ~Leaf(n) /\ Inner(n) /\ ~Alone(n) /\ maxDepth # 0
    BY <1>1, <1>6 DEF Leaf, Inner, Alone
  <2>2. at \in LowLabels
    BY <1>1, <1>2, <1>6, <2>1 DEF LabelsOf
  <2> QED BY <1>1, <1>6, <2>1, <2>2 DEF LowLabels, DeepLabels, Early, Ending
<1>7. CASE depth < maxDepth /\ ~Low(n)
  <2>1. ~Leaf(n) /\ Inner(n) /\ ~Alone(n) /\ maxDepth # 0
    BY <1>1, <1>7 DEF Leaf, Inner, Alone
  <2>2. at \in DeepLabels
    BY <1>1, <1>2, <1>7, <2>1 DEF LabelsOf
  <2> QED BY <1>1, <1>7, <2>1, <2>2 DEF DeepLabels, Early, Ending
<1> QED BY <1>1, <1>3, <1>4, <1>5, <1>6, <1>7

-----------------------------------------------------------------------------
(* Steps of one node *)

\* A node and its worker change nothing but what is theirs, the nodes of the children,
\* and the pipe to the parent.
OnlyAt(n) ==
  /\ UNCHANGED args
  /\ \A p \in Procs : p # Node(n) /\ p # Worker(n) /\ (\A s \in {0, 1} : p # Node(Child(n, s)))
                        => proc'[p] = proc[p]
  /\ \A x \in Pipes : /\ \A u \in {"alone", "left", "work", "right"} : x # Pipe(n, u)
                      /\ x # Up(n)
                      => pipe'[x] = pipe[x]
  /\ n # Root => UNCHANGED final

\* The parent sees no more of a step of a node than what its output was and is.
Quiet(n) ==
  /\ P(n).pc \notin Early \cup {"exited"} /\ P(n)'.pc \notin Early
  /\ P(n)'.num1 = P(n).num1
  /\ n # Root /\ pipe[Up(n)] = Output(n) => pipe'[Up(n)] = Output(n)'

\* A node that is neither n nor its child, and any other worker.
LEMMA ProcessKept ==
  ASSUME NEW n \in Nodes, OnlyAt(n), NEW k \in Nodes, k # n
  PROVE  /\ W(k)' = W(k)
         /\ (\A s \in {0, 1} : k # Child(n, s)) => P(k)' = P(k)
BY Members, Names DEF OnlyAt, P, W

LEMMA OutputKept ==
  ASSUME UNCHANGED args, NEW c, UNCHANGED P(c), UNCHANGED W(c)
  PROVE  UNCHANGED Output(c)
<1>1. Side(c)' = Side(c) /\ Leaf(c)' = Leaf(c)
  BY DEF Side, Leaf, maxDepth
<1>2. Answered(c)' = Answered(c)
  BY <1>1 DEF Answered, Compute
<1> QED BY <1>1, <1>2 DEF Output, LeafDone

\* A step of n keeps the invariant of every node but n and its parent.
LEMMA OthersKept ==
  ASSUME Typed, TreeInv, NEW n \in Nodes, OnlyAt(n), Len(n) =< maxDepth,
         NEW k \in Nodes, k # n, UNCHANGED P(k), Inner(k) => n # L(k) /\ n # R(k)
  PROVE  NodeInv(k)'
<1>1. UNCHANGED P(k) /\ UNCHANGED W(k) /\ UNCHANGED args
  BY ProcessKept DEF OnlyAt
<1>2. \A u \in {"alone", "left", "work", "right"} : Pipe(k, u) # Up(n)
  <2>1. SUFFICES ASSUME NEW u \in {"alone", "left", "work", "right"}, Pipe(k, u) = Up(n)
                 PROVE  FALSE
    OBVIOUS
  <2>2. n # Root
    BY <2>1, Names DEF Up
  <2>3. PICK m \in Nodes, s \in {0, 1} : n = Child(m, s) /\ Len(n) = Len(m) + 1
    BY <2>2, Parents
  <2>4. Inner(m) /\ Len(m) < Deepest
    BY <2>3, Depths DEF Inner
  <2>5. Up(n) = Pipe(m, "left") \/ Up(n) = Pipe(m, "right")
    BY <2>3, <2>4, UpPipe DEF L, R
  <2>6. Pipe(k, u) = Pipe(m, "left") \/ Pipe(k, u) = Pipe(m, "right")
    BY <2>1, <2>5
  <2>7. k = m
    BY <2>6 DEF Pipe
  <2> QED BY <2>3, <2>4, <2>7 DEF L, R
<1>3. \A u \in {"alone", "left", "work", "right"} : pipe'[Pipe(k, u)] = pipe[Pipe(k, u)]
  BY <1>2, Members, Names DEF OnlyAt
<1>4. ASSUME NEW t \in {0, 1}, Inner(k)
      PROVE  UNCHANGED P(Child(k, t)) /\ UNCHANGED Output(Child(k, t))
  <2> DEFINE c == Child(k, t)
  <2>1. c \in Nodes /\ c # n /\ \A s \in {0, 1} : c # Child(n, s)
    BY <1>4, InnerChildren, OneParent DEF L, R
  <2> HIDE DEF c
  <2>2. UNCHANGED P(c) /\ UNCHANGED W(c)
    BY <2>1, ProcessKept
  <2>3. UNCHANGED Output(c)
    BY <1>1, <2>2, OutputKept
  <2> QED BY <2>2, <2>3 DEF c
<1>5. k = Root => UNCHANGED final /\ pipe'[Tty] = pipe[Tty]
  <2>1. SUFFICES ASSUME k = Root PROVE UNCHANGED final /\ pipe'[Tty] = pipe[Tty]
    OBVIOUS
  <2>2. n # Root
    BY <2>1
  <2>3. PICK m \in Nodes, s \in {0, 1} : n = Child(m, s) /\ Len(n) = Len(m) + 1
    BY <2>2, Parents
  <2>4. Len(m) < Deepest
    BY <2>3, Depths
  <2>5. Up(n) = Pipe(m, "left") \/ Up(n) = Pipe(m, "right")
    BY <2>3, <2>4, UpPipe DEF L, R
  <2>6. Tty # Up(n) /\ \A u \in {"alone", "left", "work", "right"} : Tty # Pipe(n, u)
    BY <2>5, Names
  <2> QED BY <2>2, <2>6, Members DEF OnlyAt
<1>6. Inner(k) => /\ UNCHANGED P(L(k)) /\ UNCHANGED Output(L(k))
                  /\ UNCHANGED P(R(k)) /\ UNCHANGED Output(R(k))
  BY <1>4 DEF L, R
<1>7. Local(k)
  BY <1>1, <1>3, <1>5, <1>6 DEF Local
<1> QED BY <1>7, Elsewhere DEF TreeInv

LEMMA ParentOf ==
  ASSUME Typed, NEW n \in Nodes, n # Root, Len(n) =< maxDepth
  PROVE  \E m \in Nodes : Inner(m) /\ m # n /\ (n = L(m) \/ n = R(m))
<1>1. PICK m \in Nodes, s \in {0, 1} : n = Child(m, s) /\ Len(n) = Len(m) + 1
  BY Parents
<1>2. Inner(m) /\ m # n
  BY <1>1, Depths DEF Inner
<1> QED BY <1>1, <1>2 DEF L, R

\* What of its parent's invariant speaks of n.
LEMMA ParentSame ==
  ASSUME Typed, NEW n \in Nodes, OnlyAt(n), NEW m \in Nodes, Inner(m), m # n,
         n = L(m) \/ n = R(m)
  PROVE  /\ P(m)' = P(m) /\ W(m)' = W(m) /\ args' = args /\ maxDepth' = maxDepth
         /\ Side(m)' = Side(m) /\ Inner(m)' = Inner(m) /\ Low(m)' = Low(m) /\ Leaf(m)' = Leaf(m)
         /\ \A s, a, b : Compute(s, a, b)' = Compute(s, a, b)
         /\ \A u \in {"alone", "left", "work", "right"} :
              Pipe(m, u) # Up(n) => pipe'[Pipe(m, u)] = pipe[Pipe(m, u)]
         /\ UNCHANGED final /\ pipe'[Tty] = pipe[Tty]
         /\ \A t \in {0, 1} : Child(m, t) # n =>
              P(Child(m, t))' = P(Child(m, t)) /\ Output(Child(m, t))' = Output(Child(m, t))
<1>1. P(m)' = P(m) /\ W(m)' = W(m) /\ args' = args
  <2>1. Len(n) = Len(m) + 1 /\ Len(m) \in Nat /\ n \in Seq({0, 1})
    BY InnerChildren, Depths, NodeIsSeq
  <2>2. \A s \in {0, 1} : Len(Child(n, s)) = Len(n) + 1
    BY <2>1 DEF Child
  <2>3. \A s \in {0, 1} : m # Child(n, s)
    BY <2>1, <2>2
  <2> QED BY <2>3, ProcessKept DEF OnlyAt
<1>2. maxDepth' = maxDepth /\ \A s, a, b : Compute(s, a, b)' = Compute(s, a, b)
  BY <1>1 DEF maxDepth, Compute
<1>3. Side(m)' = Side(m) /\ Inner(m)' = Inner(m) /\ Low(m)' = Low(m) /\ Leaf(m)' = Leaf(m)
  BY <1>1, <1>2 DEF Side, Inner, Low, Leaf
<1>4. \A u \in {"alone", "left", "work", "right"} :
        Pipe(m, u) # Up(n) => pipe'[Pipe(m, u)] = pipe[Pipe(m, u)]
  BY Members, Names DEF OnlyAt
<1>5. n # Root /\ (Up(n) = Pipe(m, "left") \/ Up(n) = Pipe(m, "right"))
  BY InnerChildren
<1>6. Tty # Up(n) /\ \A u \in {"alone", "left", "work", "right"} : Tty # Pipe(n, u)
  BY <1>5, Names
<1>7. UNCHANGED final /\ pipe'[Tty] = pipe[Tty]
  BY <1>5, <1>6, Members DEF OnlyAt
<1>8. ASSUME NEW t \in {0, 1}, Child(m, t) # n
      PROVE  P(Child(m, t))' = P(Child(m, t)) /\ Output(Child(m, t))' = Output(Child(m, t))
  <2> DEFINE c == Child(m, t)
  <2>1. c \in Nodes /\ c # n /\ \A s \in {0, 1} : c # Child(n, s)
    BY <1>8, InnerChildren, OneParent DEF L, R
  <2> HIDE DEF c
  <2>2. UNCHANGED P(c) /\ UNCHANGED W(c)
    BY <2>1, ProcessKept
  <2>3. UNCHANGED Output(c)
    BY <1>1, <2>2, OutputKept
  <2> QED BY <2>2, <2>3 DEF c
<1> QED BY <1>1, <1>2, <1>3, <1>4, <1>7, <1>8

LEMMA ParentKept ==
  ASSUME Typed, TreeInv, NEW n \in Nodes, OnlyAt(n), Quiet(n), Labels(n)',
         NEW m \in Nodes, Inner(m), m # n, n = L(m) \/ n = R(m)
  PROVE  NodeInv(m)'
<1> DEFINE at == P(m).pc
<1>1. NodeInv(m) /\ NodeInv(n)
  BY DEF TreeInv
<1>2. /\ L(m) \in Nodes /\ R(m) \in Nodes /\ L(m) # R(m) /\ L(m) # Root /\ R(m) # Root
      /\ Up(L(m)) = Pipe(m, "left") /\ Up(R(m)) = Pipe(m, "right")
  BY InnerChildren
<1>3. /\ P(m)' = P(m) /\ W(m)' = W(m) /\ args' = args /\ maxDepth' = maxDepth
      /\ Side(m)' = Side(m) /\ Inner(m)' = Inner(m) /\ Low(m)' = Low(m) /\ Leaf(m)' = Leaf(m)
      /\ \A s, a, b : Compute(s, a, b)' = Compute(s, a, b)
  BY ParentSame
<1>4. UNCHANGED final /\ pipe'[Tty] = pipe[Tty]
  BY ParentSame
<1>5. maxDepth # 0 /\ ~Leaf(m) /\ ~Alone(m)
  BY <1>1, Where DEF NodeInv
<1>6. P(n)'.pc \in LowLabels \ {"none"}
  BY <1>3, <1>5 DEF Labels, LabelsOf, Quiet, LowLabels, LeafLabels, DeepLabels, Early, Ending
<1>7. Ends(m)'
  BY <1>1, <1>3 DEF NodeInv, Ends, InOf, OutOf, WorkerIn, WorkerOut, Up
<1>8. LeafFlow(m)' /\ AloneFlow(m)' /\ RootFlow(m)'
  <2>1. LeafFlow(m)' /\ AloneFlow(m)'
    BY <1>3, <1>5 DEF LeafFlow, AloneFlow
  <2>2. RootFlow(m)'
    BY <1>1, <1>3, <1>4 DEF NodeInv, RootFlow, Has, Compute
  <2> QED BY <2>1, <2>2
<1>9. CASE n = L(m)
  <2>1. at = "leftWait"
    BY <1>1, <1>9 DEF NodeInv, Labels, LeftLabels, Quiet, Early
  <2>2. P(R(m))' = P(R(m)) /\ Output(R(m))' = Output(R(m))
    BY <1>2, <1>9, ParentSame DEF R
  <2>3. pipe'[Pipe(m, "right")] = pipe[Pipe(m, "right")]
    BY <1>2, <1>9, ParentSame, Names
  <2>4. Labels(m)'
    BY <1>1, <1>3, <1>6, <1>9, <2>1, <2>2
       DEF NodeInv, Labels, LabelsOf, WorkerLabels, LeftLabels, RightLabels, Early
  <2>5. WorkerFlow(m)'
    BY <1>3, <2>1 DEF WorkerFlow
  <2>6. pipe[Up(n)] = Output(n) /\ P(n).num1 = P(m).num1 /\ P(m).inbuf = << >>
    BY <1>1, <1>2, <1>9, <2>1 DEF NodeInv, LeftFlow, Quiet
  <2>7. LeftFlow(m)'
    BY <1>2, <1>3, <1>6, <1>9, <2>1, <2>6 DEF LeftFlow, Quiet, Early
  <2>8. RightFlow(m)'
    BY <1>1, <1>3, <2>1, <2>2, <2>3 DEF NodeInv, RightFlow
  <2> QED BY <1>7, <1>8, <2>4, <2>5, <2>7, <2>8 DEF NodeInv
<1>10. CASE n = R(m)
  <2>1. at = "rightWait"
    BY <1>1, <1>10 DEF NodeInv, Labels, RightLabels, Quiet, Early
  <2>2. P(L(m))' = P(L(m)) /\ Output(L(m))' = Output(L(m))
    BY <1>2, <1>10, ParentSame DEF L
  <2>3. pipe'[Pipe(m, "left")] = pipe[Pipe(m, "left")]
    BY <1>2, <1>10, ParentSame, Names
  <2>4. Labels(m)'
    BY <1>1, <1>3, <1>6, <1>10, <2>1, <2>2
       DEF NodeInv, Labels, LabelsOf, WorkerLabels, LeftLabels, RightLabels, Early
  <2>5. WorkerFlow(m)'
    BY <1>3, <2>1 DEF WorkerFlow
  <2>6. pipe[Up(n)] = Output(n) /\ P(n).num1 = P(m).result
    BY <1>1, <1>2, <1>10, <2>1 DEF NodeInv, RightFlow, Quiet
  <2>7. LeftFlow(m)'
    BY <1>1, <1>3, <2>1 DEF NodeInv, LeftFlow, Early
  <2>8. RightFlow(m)'
    BY <1>1, <1>2, <1>3, <1>6, <1>10, <2>1, <2>6 DEF NodeInv, RightFlow, Quiet, Early
  <2> QED BY <1>7, <1>8, <2>4, <2>5, <2>7, <2>8 DEF NodeInv
<1> QED BY <1>9, <1>10

\* A step of a node that is past reading its numbers, or of its worker.
LEMMA OwnStep ==
  ASSUME Typed, TreeInv, NEW n \in Nodes, OnlyAt(n), Quiet(n), NodeInv(n)',
         \A c \in Nodes : c # n => UNCHANGED P(c) \/ NodeInv(c)'
  PROVE  TreeInv'
<1>1. Labels(n) /\ Len(n) =< maxDepth
  BY Where DEF TreeInv, NodeInv, Quiet, Early
<1>2. Labels(n)'
  BY DEF NodeInv
<1> SUFFICES ASSUME NEW k \in Nodes, k # n, UNCHANGED P(k) PROVE NodeInv(k)'
  BY DEF TreeInv, Nodes
<1>3. CASE Inner(k) /\ (n = L(k) \/ n = R(k))
  BY <1>2, <1>3, ParentKept
<1>4. CASE Inner(k) => n # L(k) /\ n # R(k)
  BY <1>1, <1>4, OthersKept
<1> QED BY <1>3, <1>4

-----------------------------------------------------------------------------
(* What an action writes *)

LEMMA Frame ==
  ASSUME UNCHANGED args, NEW n
  PROVE  /\ maxDepth' = maxDepth /\ Side(n)' = Side(n)
         /\ Inner(n)' = Inner(n) /\ Low(n)' = Low(n) /\ Leaf(n)' = Leaf(n)
         /\ Alone(n)' = Alone(n)
         /\ \A s, a, b : Compute(s, a, b)' = Compute(s, a, b)
BY DEF maxDepth, Side, Inner, Low, Leaf, Alone, Compute

LEMMA NodeWritten ==
  ASSUME Typed, NEW n \in Nodes, NEW q \in Process, proc' = [proc EXCEPT ![Node(n)] = q]
  PROVE  /\ P(n)' = q /\ W(n)' = W(n) /\ proc' \in [Procs -> Process]
         /\ \A c \in Nodes : c # n => P(c)' = P(c) /\ W(c)' = W(c)
         /\ \A p \in Procs : p # Node(n) => proc'[p] = proc[p]
BY Members, Names DEF Typed, P, W

LEMMA WorkerWritten ==
  ASSUME Typed, NEW n \in Nodes, NEW q \in Process, proc' = [proc EXCEPT ![Worker(n)] = q]
  PROVE  /\ W(n)' = q /\ P(n)' = P(n) /\ proc' \in [Procs -> Process]
         /\ \A c \in Nodes : c # n => P(c)' = P(c) /\ W(c)' = W(c)
         /\ \A p \in Procs : p # Worker(n) => proc'[p] = proc[p]
BY Members, Names DEF Typed, P, W

LEMMA PipeWritten ==
  ASSUME Typed, NEW x \in Pipes, NEW s \in Seq(Int), pipe' = [pipe EXCEPT ![x] = s]
  PROVE  /\ pipe'[x] = s /\ pipe' \in [Pipes -> Seq(Int)]
         /\ \A y \in Pipes : y # x => pipe'[y] = pipe[y]
BY DEF Typed

\* The pipe to the parent is not one of the node's own.
LEMMA UpIsElsewhere ==
  ASSUME Typed, NEW n \in Nodes, Len(n) =< maxDepth
  PROVE  /\ Up(n) \in Pipes
         /\ \A u \in {"alone", "left", "work", "right"} : Up(n) # Pipe(n, u)
<1>1. CASE n = Root
  BY <1>1, Names, Members DEF Up
<1>2. CASE n # Root
  <2>1. PICK m \in Nodes : Inner(m) /\ m # n /\ (n = L(m) \/ n = R(m))
    BY <1>2, ParentOf
  <2>2. Up(n) = Pipe(m, "left") \/ Up(n) = Pipe(m, "right")
    BY <2>1, InnerChildren
  <2> QED BY <2>1, <2>2, Names, Members
<1> QED BY <1>1, <1>2

\* An inner node writes to no pipe but its own.
LEMMA InnerIsQuiet ==
  ASSUME Typed, NEW n \in Nodes, Inner(n), UNCHANGED args,
         P(n).pc \notin Early \cup {"exited"}, P(n)'.pc \notin Early, P(n)'.num1 = P(n).num1,
         pipe'[Up(n)] = pipe[Up(n)]
  PROVE  Quiet(n)
<1>1. ~Leaf(n) /\ ~Leaf(n)'
  BY Depths, Frame DEF Inner, Leaf
<1> QED BY <1>1 DEF Quiet, Output, LeafDone

-----------------------------------------------------------------------------
(* The steps of a node that has children *)

\* n becomes q and pipe x then holds s.
Writes(n, q, x, s) ==
  /\ proc' = [proc EXCEPT ![Node(n)] = q]
  /\ pipe' = [pipe EXCEPT ![x] = s]
  /\ UNCHANGED args

LEMMA InnerFacts ==
  ASSUME Typed, NEW n \in Nodes, Labels(n), Inner(n), NEW q \in Process,
         NEW x \in {Pipe(n, "left"), Pipe(n, "right")}, NEW s \in Seq(Int), Writes(n, q, x, s)
  PROVE  /\ P(n)' = q /\ W(n)' = W(n) /\ P(L(n))' = P(L(n)) /\ P(R(n))' = P(R(n))
         /\ pipe'[x] = s /\ Pipe(n, "left") # Pipe(n, "right")
         /\ \A y \in {Pipe(n, "left"), Pipe(n, "right")} : y # x => pipe'[y] = pipe[y]
         /\ ~Leaf(n) /\ ~Alone(n) /\ maxDepth # 0 /\ Len(n) =< maxDepth
         /\ args' = args /\ maxDepth' = maxDepth /\ Side(n)' = Side(n)
         /\ Inner(n)' = Inner(n) /\ Low(n)' = Low(n) /\ Leaf(n)' = Leaf(n)
         /\ Alone(n)' = Alone(n)
         /\ \A t, a, b : Compute(t, a, b)' = Compute(t, a, b)
<1>1. /\ P(n)' = q /\ W(n)' = W(n) /\ \A c \in Nodes : c # n => P(c)' = P(c)
  BY NodeWritten DEF Writes
<1>2. L(n) \in Nodes /\ R(n) \in Nodes /\ L(n) # n /\ R(n) # n
  BY InnerChildren
<1>3. Pipe(n, "left") \in Pipes /\ Pipe(n, "right") \in Pipes
  BY Members
<1>4. pipe'[x] = s /\ \A y \in {Pipe(n, "left"), Pipe(n, "right")} : y # x => pipe'[y] = pipe[y]
  BY <1>3, PipeWritten DEF Writes
<1>5. Pipe(n, "left") # Pipe(n, "right")
  BY DEF Pipe
<1>6. ~Leaf(n) /\ ~Alone(n) /\ maxDepth # 0 /\ Len(n) =< maxDepth
  BY Where, Depths DEF Inner
<1>7. /\ args' = args /\ maxDepth' = maxDepth /\ Side(n)' = Side(n)
      /\ Inner(n)' = Inner(n) /\ Low(n)' = Low(n) /\ Leaf(n)' = Leaf(n)
      /\ Alone(n)' = Alone(n)
      /\ \A t, a, b : Compute(t, a, b)' = Compute(t, a, b)
  BY Frame DEF Writes
<1> QED BY <1>1, <1>2, <1>4, <1>5, <1>6, <1>7

\* A step of an inner node, when the node's own parts hold after it.
LEMMA InnerStep ==
  ASSUME Typed, TreeInv, NEW n \in Nodes, Inner(n), NEW q \in Process,
         NEW x \in {Pipe(n, "left"), Pipe(n, "right")}, NEW s \in Seq(Int), Writes(n, q, x, s),
         P(n).pc \notin Early \cup {"exited"}, q.pc \notin Early, q.num1 = P(n).num1,
         final' \in Seq(Int), n # Root => UNCHANGED final,
         Labels(n)', Ends(n)', WorkerFlow(n)', LeftFlow(n)', RightFlow(n)', RootFlow(n)'
  PROVE  Typed' /\ TreeInv'
<1>1. Labels(n)
  BY DEF TreeInv, NodeInv
<1>2. P(n)' = q /\ Len(n) =< maxDepth /\ ~Leaf(n)' /\ ~Alone(n)'
  BY <1>1, InnerFacts
<1>3. x \in Pipes
  BY Members
<1>4. /\ proc' \in [Procs -> Process]
      /\ \A p \in Procs : p # Node(n) => proc'[p] = proc[p]
      /\ \A c \in Nodes : c # n => UNCHANGED P(c)
  BY NodeWritten DEF Writes
<1>5. /\ pipe' \in [Pipes -> Seq(Int)]
      /\ \A y \in Pipes : y # x => pipe'[y] = pipe[y]
  BY <1>3, PipeWritten DEF Writes
<1>6. Typed'
  BY <1>4, <1>5 DEF Typed, Writes
<1>7. OnlyAt(n)
  BY <1>4, <1>5 DEF OnlyAt, Writes
<1>8. pipe'[Up(n)] = pipe[Up(n)]
  BY <1>2, <1>5, UpIsElsewhere
<1>9. Quiet(n)
  BY <1>2, <1>8, InnerIsQuiet DEF Writes
<1>10. LeafFlow(n)' /\ AloneFlow(n)'
  BY <1>2 DEF LeafFlow, AloneFlow, Alone
<1>11. NodeInv(n)'
  BY <1>10 DEF NodeInv
<1> QED BY <1>4, <1>6, <1>7, <1>9, <1>11, OwnStep

\* The root's own number stays, and nothing is reported yet.
LEMMA InnerRootKept ==
  ASSUME Typed, TreeInv, NEW n \in Nodes, Inner(n), P(n).pc \notin Early,
         P(n).pc \notin {"exit", "exited"}, P(n)'.pc \notin Early \cup {"exit", "exited"},
         P(n)'.num1 = P(n).num1, UNCHANGED <<args, final>>
  PROVE  RootFlow(n)'
BY Frame DEF TreeInv, NodeInv, RootFlow, Early

LEMMA SendNum1Step ==
  ASSUME Typed, TreeInv, NEW n \in Nodes, SendNum1(n)
  PROVE  Typed' /\ TreeInv'
<1> DEFINE x == Pipe(n, "left")
           q == [P(n) EXCEPT !.pc = "sendNum2"]
           s == <<P(n).num1>>
<1>1. NodeInv(n) /\ Labels(n) /\ P(n).pc = "sendNum1" /\ UNCHANGED <<args, final>>
  BY DEF TreeInv, NodeInv, SendNum1, P
<1>2. Inner(n)
  BY <1>1, Where
<1>3. P(n) \in Process /\ s \in Seq(Int)
  BY NodeTypes, Tuples DEF Process
<1>4. /\ q \in Process /\ q.pc = "sendNum2" /\ q.in = P(n).in /\ q.out = P(n).out
      /\ q.inbuf = P(n).inbuf /\ q.outbuf = P(n).outbuf
      /\ q.num1 = P(n).num1 /\ q.num2 = P(n).num2 /\ q.result = P(n).result
  BY <1>3 DEF Process, Points
<1>5. pipe[x] = << >> /\ << >> \o s = s
  BY <1>1, <1>2, <1>3, Joined DEF NodeInv, LeftFlow
<1> HIDE DEF q
<1>6. Writes(n, q, x, s)
  BY <1>1, <1>5, Members DEF SendNum1, Write, P, Typed, Writes, q
<1>7. /\ P(n)' = q /\ W(n)' = W(n) /\ P(L(n))' = P(L(n)) /\ P(R(n))' = P(R(n))
      /\ pipe'[x] = s /\ pipe'[Pipe(n, "right")] = pipe[Pipe(n, "right")]
      /\ ~Leaf(n) /\ ~Alone(n) /\ maxDepth # 0 /\ Len(n) =< maxDepth
      /\ args' = args /\ maxDepth' = maxDepth /\ Side(n)' = Side(n)
      /\ Inner(n)' = Inner(n) /\ Low(n)' = Low(n) /\ Leaf(n)' = Leaf(n)
      /\ \A t, a, b : Compute(t, a, b)' = Compute(t, a, b)
  BY <1>1, <1>2, <1>3, <1>4, <1>6, InnerFacts
<1>8. Labels(n)'
  BY <1>1, <1>2, <1>4, <1>7
     DEF Labels, LabelsOf, WorkerLabels, LeftLabels, RightLabels, Early, DeepLabels, LowLabels
<1>9. Ends(n)'
  BY <1>1, <1>2, <1>4, <1>7 DEF NodeInv, Ends, InOf, OutOf, WorkerIn, WorkerOut, Up, Early
<1>10. WorkerFlow(n)'
  BY <1>4, <1>7 DEF WorkerFlow
<1>11. LeftFlow(n)'
  BY <1>1, <1>2, <1>4, <1>7 DEF NodeInv, Labels, LeftLabels, LeftFlow, Has, Early
<1>12. RightFlow(n)'
  BY <1>1, <1>2, <1>4, <1>7 DEF NodeInv, RightFlow, Has
<1>13. RootFlow(n)'
  BY <1>1, <1>2, <1>4, <1>7, InnerRootKept DEF Early
<1>14. final' \in Seq(Int)
  BY <1>1 DEF Typed
<1> QED BY <1>1, <1>2, <1>3, <1>4, <1>6, <1>8, <1>9, <1>10, <1>11, <1>12, <1>13, <1>14, InnerStep
           DEF Early

LEMMA PipeKept ==
  ASSUME Typed, NEW x \in Pipes, UNCHANGED pipe
  PROVE  pipe' = [pipe EXCEPT ![x] = pipe[x]]
BY DEF Typed

LEMMA LeftSent ==
  ASSUME Typed, TreeInv, NEW n \in Nodes, Inner(n), P(n).pc = "leftWait", P(L(n)).pc = "exited"
  PROVE  pipe[Pipe(n, "left")] = IF Low(n) THEN <<Compute(0, P(n).num1, 1)>> ELSE << >>
<1>1. /\ L(n) \in Nodes /\ Len(L(n)) = Len(n) + 1 /\ L(n) # Root
  BY InnerChildren
<1>2. NodeInv(n) /\ NodeInv(L(n))
  BY <1>1 DEF TreeInv
<1>3. pipe[Pipe(n, "left")] = Output(L(n)) /\ P(L(n)).num1 = P(n).num1
  BY <1>2 DEF NodeInv, LeftFlow, Early
<1>4. Leaf(L(n)) <=> Low(n)
  BY <1>1 DEF Leaf, Low
<1>5. Leaf(L(n)) => P(L(n)).num2 = 1
  BY <1>2 DEF NodeInv, LeafFlow
<1>6. Side(L(n)) = 0
  <2>1. Len(n) < Deepest /\ 0 \in {0, 1}
    BY Depths
  <2> QED BY <1>1, <2>1, Children DEF L, Side
<1> QED BY <1>3, <1>4, <1>5, <1>6 DEF Output, LeafDone, Answered

LEMMA RightSent ==
  ASSUME Typed, TreeInv, NEW n \in Nodes, Low(n), P(n).pc = "rightWait", P(R(n)).pc = "exited"
  PROVE  pipe[Pipe(n, "right")] = <<Compute(1, P(n).result, 1)>>
<1>1. Inner(n)
  BY Depths DEF Low, Inner
<1>2. /\ R(n) \in Nodes /\ Len(R(n)) = Len(n) + 1 /\ R(n) # Root
  BY <1>1, InnerChildren
<1>3. NodeInv(n) /\ NodeInv(R(n))
  BY <1>2 DEF TreeInv
<1>4. pipe[Pipe(n, "right")] = Output(R(n)) /\ P(R(n)).num1 = P(n).result
  BY <1>1, <1>3 DEF NodeInv, RightFlow, Early
<1>5. Leaf(R(n))
  BY <1>2 DEF Leaf, Low
<1>6. P(R(n)).num2 = 1
  BY <1>3, <1>5 DEF NodeInv, LeafFlow
<1>7. Side(R(n)) = 1
  <2>1. Len(n) < Deepest /\ 1 \in {0, 1}
    BY <1>1, Depths
  <2> QED BY <1>2, <2>1, Children DEF R, Side
<1> QED BY <1>4, <1>5, <1>6, <1>7 DEF Output, LeafDone, Answered

LEMMA SendNum2Step ==
  ASSUME Typed, TreeInv, NEW n \in Nodes, SendNum2(n)
  PROVE  Typed' /\ TreeInv'
<1> DEFINE x == Pipe(n, "left")
           q == [P(n) EXCEPT !.in = Pipe(n, "left"), !.pc = "leftWait"]
           s == pipe[x] \o <<P(n).num2>>
<1>1. NodeInv(n) /\ Labels(n) /\ P(n).pc = "sendNum2" /\ UNCHANGED <<args, final>>
  BY DEF TreeInv, NodeInv, SendNum2, P
<1>2. Inner(n)
  BY <1>1, Where
<1>3. /\ P(n) \in Process /\ s \in Seq(Int) /\ x \in Pipes
      /\ P(L(n)).pc = "num1" =>
           \/ P(L(n)).inbuf = << >> /\ s = Pair(n)
           \/ P(L(n)).inbuf = <<P(n).num1>> /\ s = <<P(n).num2>>
      /\ P(L(n)).pc = "num2" =>
           P(L(n)).num1 = P(n).num1 /\ P(L(n)).inbuf = << >> /\ s = <<P(n).num2>>
      /\ P(L(n)).pc \in {"num1", "num2"}
  <2>1. P(n) \in Process /\ pipe[x] \in Seq(Int) /\ Pair(n) = <<P(n).num1, P(n).num2>>
    BY NodeTypes
  <2>2. /\ P(n).num1 \in Int /\ P(n).num2 \in Int
    BY <2>1 DEF Process
  <2>3. /\ <<P(n).num2>> \in Seq(Int) /\ << >> \o <<P(n).num2>> = <<P(n).num2>>
        /\ <<P(n).num1>> \o <<P(n).num2>> = Pair(n)
    BY <2>1, <2>2, Tuples, Joined
  <2>4. s \in Seq(Int)
    BY <2>1, <2>3
  <2>5. P(L(n)).pc \in {"num1", "num2"}
    BY <1>1, <1>2 DEF Labels, LeftLabels, Early
  <2> QED BY <1>1, <1>2, <2>1, <2>3, <2>4, <2>5, Members DEF NodeInv, LeftFlow, Has
<1>4. /\ q \in Process /\ q.pc = "leftWait" /\ q.in = x /\ q.out = P(n).out
      /\ q.inbuf = P(n).inbuf /\ q.outbuf = P(n).outbuf
      /\ q.num1 = P(n).num1 /\ q.num2 = P(n).num2 /\ q.result = P(n).result
  BY <1>3 DEF Process, Points
<1> HIDE DEF q
<1>5. Writes(n, q, x, s)
  BY <1>1, <1>3, Members DEF SendNum2, Write, P, Typed, Writes, q
<1>6. /\ P(n)' = q /\ W(n)' = W(n) /\ P(L(n))' = P(L(n)) /\ P(R(n))' = P(R(n))
      /\ pipe'[x] = s /\ pipe'[Pipe(n, "right")] = pipe[Pipe(n, "right")]
      /\ ~Leaf(n) /\ ~Alone(n) /\ maxDepth # 0 /\ Len(n) =< maxDepth
      /\ args' = args /\ maxDepth' = maxDepth /\ Side(n)' = Side(n)
      /\ Inner(n)' = Inner(n) /\ Low(n)' = Low(n) /\ Leaf(n)' = Leaf(n)
      /\ \A t, a, b : Compute(t, a, b)' = Compute(t, a, b)
  BY <1>1, <1>2, <1>3, <1>4, <1>5, InnerFacts
<1>7. Labels(n)'
  BY <1>1, <1>2, <1>3, <1>4, <1>6
    
     DEF Labels, LabelsOf, WorkerLabels, LeftLabels, RightLabels, Early, DeepLabels, LowLabels,
         Ending
<1>8. Ends(n)'
  BY <1>1, <1>2, <1>4, <1>6
     DEF NodeInv, Labels, WorkerLabels, Ends, InOf, OutOf, WorkerIn, WorkerOut, Up, Early
<1>9. WorkerFlow(n)'
  BY <1>1, <1>2, <1>3, <1>4, <1>6 DEF WorkerFlow
<1>10. LeftFlow(n)'
  BY <1>1, <1>2, <1>3, <1>4, <1>6 DEF NodeInv, Labels, LeftLabels, LeftFlow, Has, Early , Pair, P
<1>11. RightFlow(n)'
  BY <1>1, <1>2, <1>3, <1>4, <1>6 DEF NodeInv, RightFlow, Has, Early
<1>12. RootFlow(n)'
  BY <1>1, <1>2, <1>4, <1>6, InnerRootKept DEF Early
<1>13. final' \in Seq(Int)
  BY <1>1 DEF Typed
<1> QED BY <1>1, <1>2, <1>3, <1>4, <1>5, <1>7, <1>8, <1>9, <1>10, <1>11, <1>12, <1>13, InnerStep
           DEF Early

LEMMA WaitLeftStep ==
  ASSUME Typed, TreeInv, NEW n \in Nodes, WaitLeft(n)
  PROVE  Typed' /\ TreeInv'
<1> DEFINE x == Pipe(n, "left")
           q == [P(n) EXCEPT !.pc = "leftValue"]
           s == pipe[x]
<1>1. NodeInv(n) /\ Labels(n) /\ P(n).pc = "leftWait" /\ UNCHANGED <<args, final>>
  BY DEF TreeInv, NodeInv, WaitLeft, WaitFor, P
<1>2. Inner(n)
  BY <1>1, Where
<1>3. P(n) \in Process /\ s \in Seq(Int) /\ x \in Pipes
  BY NodeTypes, Members
<1>4. P(L(n)).pc = "exited" /\ pipe[x] = IF Low(n) THEN <<Compute(0, P(n).num1, 1)>> ELSE << >>
  <2>1. P(L(n)).pc = "exited"
    BY DEF WaitLeft, WaitFor, Exited, P, L
  <2> QED BY <1>1, <1>2, <2>1, LeftSent
<1>5. /\ q \in Process /\ q.pc = "leftValue" /\ q.in = P(n).in /\ q.out = P(n).out
      /\ q.inbuf = P(n).inbuf /\ q.outbuf = P(n).outbuf
      /\ q.num1 = P(n).num1 /\ q.num2 = P(n).num2 /\ q.result = P(n).result
  BY <1>3 DEF Process, Points
<1> HIDE DEF q
<1>6. Writes(n, q, x, s)
  BY <1>1, <1>3, PipeKept DEF WaitLeft, WaitFor, P, L, R, Writes, q
<1>7. /\ P(n)' = q /\ W(n)' = W(n) /\ P(L(n))' = P(L(n)) /\ P(R(n))' = P(R(n))
      /\ pipe'[x] = s /\ pipe'[Pipe(n, "right")] = pipe[Pipe(n, "right")]
      /\ ~Leaf(n) /\ ~Alone(n) /\ maxDepth # 0 /\ Len(n) =< maxDepth
      /\ args' = args /\ maxDepth' = maxDepth /\ Side(n)' = Side(n)
      /\ Inner(n)' = Inner(n) /\ Low(n)' = Low(n) /\ Leaf(n)' = Leaf(n)
      /\ \A t, a, b : Compute(t, a, b)' = Compute(t, a, b)
  BY <1>1, <1>2, <1>3, <1>5, <1>6, InnerFacts
<1>8. Labels(n)'
  BY <1>1, <1>2, <1>3, <1>5, <1>7, <1>4
    
     DEF Labels, LabelsOf, WorkerLabels, LeftLabels, RightLabels, Early, DeepLabels, LowLabels,
         Ending
<1>9. Ends(n)'
  BY <1>1, <1>2, <1>5, <1>7
     DEF NodeInv, Labels, WorkerLabels, Ends, InOf, OutOf, WorkerIn, WorkerOut, Up, Early
<1>10. WorkerFlow(n)'
  BY <1>1, <1>2, <1>3, <1>5, <1>7, <1>4 DEF WorkerFlow
<1>11. LeftFlow(n)'
  BY <1>1, <1>2, <1>3, <1>5, <1>7, <1>4 DEF NodeInv, Labels, LeftLabels, LeftFlow, Has, Early
<1>12. RightFlow(n)'
  BY <1>1, <1>2, <1>3, <1>5, <1>7, <1>4 DEF NodeInv, RightFlow, Has, Early
<1>13. RootFlow(n)'
  BY <1>1, <1>2, <1>5, <1>7, InnerRootKept DEF Early
<1>14. final' \in Seq(Int)
  BY <1>1 DEF Typed
<1> QED BY <1>1, <1>2, <1>3, <1>5, <1>6, <1>8, <1>9, <1>10, <1>11, <1>12, <1>13, <1>14, InnerStep
           DEF Early

LEMMA ScanLeftValueStep ==
  ASSUME Typed, TreeInv, NEW n \in Nodes, ScanLeftValue(n)
  PROVE  Typed' /\ TreeInv'
<1> DEFINE x == Pipe(n, "left")
           q == Scanned(Node(n), "num2", "work")
           s == << >>
<1>1. NodeInv(n) /\ Labels(n) /\ P(n).pc = "leftValue" /\ UNCHANGED <<args, final>>
  BY DEF TreeInv, NodeInv, ScanLeftValue, CanScan, P
<1>2. Inner(n)
  BY <1>1, Where
<1>3. /\ P(n) \in Process /\ s \in Seq(Int) /\ x \in Pipes
      /\ Low(n) /\ P(n).inbuf = <<Compute(0, P(n).num1, 1)>> /\ pipe[x] = << >>
      /\ P(n).inbuf # << >> /\ Compute(0, P(n).num1, 1) \in Int
      /\ Tail(P(n).inbuf) = << >> /\ Head(P(n).inbuf) = Compute(0, P(n).num1, 1)
  <2>1. P(n) \in Process /\ s \in Seq(Int) /\ x \in Pipes
    BY NodeTypes, Members, Joined
  <2>2. Compute(0, P(n).num1, 1) \in Int
    BY <2>1, Computed DEF Process
  <2>3. P(n).inbuf # << >>
    BY DEF ScanLeftValue, CanScan, P
  <2>4. Low(n) /\ P(n).inbuf = <<Compute(0, P(n).num1, 1)>> /\ pipe[x] = << >>
    BY <1>1, <1>2, <2>2, <2>3, Tuples DEF NodeInv, LeftFlow, Has
  <2> QED BY <2>1, <2>2, <2>3, <2>4, Tuples
<1>4. /\ q \in Process /\ q.pc = "work" /\ q.in = P(n).in /\ q.out = P(n).out
      /\ q.inbuf = << >> /\ q.outbuf = P(n).outbuf
      /\ q.num1 = P(n).num1 /\ q.num2 = Compute(0, P(n).num1, 1) /\ q.result = P(n).result
  BY <1>3 DEF Process, Points, Scanned, Number, P
<1> HIDE DEF q
<1>5. Writes(n, q, x, s)
  BY <1>1, <1>3, PipeKept DEF ScanLeftValue, P, Writes, q
<1>6. /\ P(n)' = q /\ W(n)' = W(n) /\ P(L(n))' = P(L(n)) /\ P(R(n))' = P(R(n))
      /\ pipe'[x] = s /\ pipe'[Pipe(n, "right")] = pipe[Pipe(n, "right")]
      /\ ~Leaf(n) /\ ~Alone(n) /\ maxDepth # 0 /\ Len(n) =< maxDepth
      /\ args' = args /\ maxDepth' = maxDepth /\ Side(n)' = Side(n)
      /\ Inner(n)' = Inner(n) /\ Low(n)' = Low(n) /\ Leaf(n)' = Leaf(n)
      /\ \A t, a, b : Compute(t, a, b)' = Compute(t, a, b)
  BY <1>1, <1>2, <1>3, <1>4, <1>5, InnerFacts
<1>7. Labels(n)'
  BY <1>1, <1>2, <1>3, <1>4, <1>6
    
     DEF Labels, LabelsOf, WorkerLabels, LeftLabels, RightLabels, Early, DeepLabels, LowLabels,
         Ending
<1>8. Ends(n)'
  BY <1>1, <1>2, <1>4, <1>6
     DEF NodeInv, Labels, WorkerLabels, Ends, InOf, OutOf, WorkerIn, WorkerOut, Up, Early
<1>9. WorkerFlow(n)'
  BY <1>1, <1>2, <1>3, <1>4, <1>6 DEF WorkerFlow
<1>10. LeftFlow(n)'
  BY <1>1, <1>2, <1>3, <1>4, <1>6 DEF NodeInv, Labels, LeftLabels, LeftFlow, Has, Early
<1>11. RightFlow(n)'
  BY <1>1, <1>2, <1>3, <1>4, <1>6 DEF NodeInv, RightFlow, Has, Early
<1>12. RootFlow(n)'
  BY <1>1, <1>2, <1>4, <1>6, InnerRootKept DEF Early
<1>13. final' \in Seq(Int)
  BY <1>1 DEF Typed
<1> QED BY <1>1, <1>2, <1>3, <1>4, <1>5, <1>7, <1>8, <1>9, <1>10, <1>11, <1>12, <1>13, InnerStep
           DEF Early

LEMMA GiveInnerStep ==
  ASSUME Typed, TreeInv, NEW n \in Nodes, GiveWorker(n), Inner(n)
  PROVE  Typed' /\ TreeInv'
<1> DEFINE x == Pipe(n, "left")
           q == [P(n) EXCEPT !.outbuf = << >>, !.pc = "workerWait"]
           s == Pair(n)
<1>1. NodeInv(n) /\ Labels(n) /\ P(n).pc = "give" /\ UNCHANGED <<args, final>>
  BY DEF TreeInv, NodeInv, GiveWorker, Give, P
<1>2. Inner(n) /\ Low(n)
  BY <1>1, Where DEF Ending
<1>3. /\ P(n) \in Process /\ s \in Seq(Int) /\ x \in Pipes
      /\ P(n).out = x /\ P(n).outbuf = << >> /\ pipe[x] = << >>
      /\ W(n).pc = "num1" /\ W(n).inbuf = << >> /\ Pair(n)' = Pair(n) /\ ~Leaf(n)
      /\ s = pipe[x] \o (P(n).outbuf \o Pair(n))
  <2>1. P(n) \in Process /\ s \in Seq(Int) /\ x \in Pipes
    BY NodeTypes, Members
  <2>2. ~Leaf(n) /\ maxDepth # 0
    BY <1>1, <1>2, Where
  <2>3. P(n).out = x
    BY <1>1, <2>2 DEF NodeInv, Ends, OutOf, Early
  <2>4. P(n).outbuf = << >>
    BY <1>1, <1>2 DEF NodeInv, RightFlow
  <2>5. pipe[x] = << >> /\ W(n).pc = "num1" /\ W(n).inbuf = << >>
    BY <1>1, <2>2 DEF NodeInv, WorkerFlow, WorkerIn, Labels, WorkerLabels
  <2>6. Pair(n)' = Pair(n)
    <3>1. P(n)'.num1 = P(n).num1 /\ P(n)'.num2 = P(n).num2
      BY <2>1, Members DEF GiveWorker, Give, P, Typed, Process
    <3> QED BY <3>1 DEF Pair, P
  <2>7. s = pipe[x] \o (P(n).outbuf \o Pair(n))
    BY <2>1, <2>4, <2>5, Joined
  <2> QED BY <2>1, <2>2, <2>3, <2>4, <2>5, <2>6, <2>7
<1>4. /\ q \in Process /\ q.pc = "workerWait" /\ q.in = P(n).in /\ q.out = P(n).out
      /\ q.inbuf = P(n).inbuf /\ q.outbuf = << >>
      /\ q.num1 = P(n).num1 /\ q.num2 = P(n).num2 /\ q.result = P(n).result
  BY <1>3 DEF Process, Points
<1> HIDE DEF q
<1>5. Writes(n, q, x, s)
  BY <1>1, <1>3, Members DEF GiveWorker, Give, Write, P, Typed, Writes, q
<1>6. /\ P(n)' = q /\ W(n)' = W(n) /\ P(L(n))' = P(L(n)) /\ P(R(n))' = P(R(n))
      /\ pipe'[x] = s /\ pipe'[Pipe(n, "right")] = pipe[Pipe(n, "right")]
      /\ ~Leaf(n) /\ ~Alone(n) /\ maxDepth # 0 /\ Len(n) =< maxDepth
      /\ args' = args /\ maxDepth' = maxDepth /\ Side(n)' = Side(n)
      /\ Inner(n)' = Inner(n) /\ Low(n)' = Low(n) /\ Leaf(n)' = Leaf(n)
      /\ \A t, a, b : Compute(t, a, b)' = Compute(t, a, b)
  BY <1>1, <1>2, <1>3, <1>4, <1>5, InnerFacts
<1>7. Labels(n)'
  BY <1>1, <1>2, <1>3, <1>4, <1>6
    
     DEF Labels, LabelsOf, WorkerLabels, LeftLabels, RightLabels, Early, DeepLabels, LowLabels,
         Ending
<1>8. Ends(n)'
  BY <1>1, <1>2, <1>4, <1>6
     DEF NodeInv, Labels, WorkerLabels, Ends, InOf, OutOf, WorkerIn, WorkerOut, Up, Early
<1>9. WorkerFlow(n)'
  BY <1>1, <1>2, <1>3, <1>4, <1>6 DEF WorkerFlow , WorkerIn, Has
<1>10. LeftFlow(n)'
  BY <1>1, <1>2, <1>3, <1>4, <1>6 DEF NodeInv, Labels, LeftLabels, LeftFlow, Has, Early
<1>11. RightFlow(n)'
  BY <1>1, <1>2, <1>3, <1>4, <1>6 DEF NodeInv, RightFlow, Has, Early
<1>12. RootFlow(n)'
  BY <1>1, <1>2, <1>4, <1>6, InnerRootKept DEF Early
<1>13. final' \in Seq(Int)
  BY <1>1 DEF Typed
<1> QED BY <1>1, <1>2, <1>3, <1>4, <1>5, <1>7, <1>8, <1>9, <1>10, <1>11, <1>12, <1>13, InnerStep
           DEF Early

LEMMA WaitWorkerInnerStep ==
  ASSUME Typed, TreeInv, NEW n \in Nodes, WaitWorker(n), Inner(n)
  PROVE  Typed' /\ TreeInv'
<1> DEFINE x == Pipe(n, "left")
           q == [P(n) EXCEPT !.pc = "result"]
           s == pipe[x]
<1>1. NodeInv(n) /\ Labels(n) /\ P(n).pc = "workerWait" /\ UNCHANGED <<args, final>>
  BY DEF TreeInv, NodeInv, WaitWorker, WaitFor, P
<1>2. Inner(n) /\ Low(n)
  BY <1>1, Where DEF Ending
<1>3. /\ P(n) \in Process /\ s \in Seq(Int) /\ x \in Pipes
      /\ W(n).pc = "exited" /\ pipe[x] = <<Answered(n)>> /\ ~Leaf(n)
  <2>1. P(n) \in Process /\ s \in Seq(Int) /\ x \in Pipes
    BY NodeTypes, Members
  <2>2. W(n).pc = "exited"
    BY DEF WaitWorker, WaitFor, Exited, W
  <2> QED BY <1>1, <1>2, <2>1, <2>2, Where DEF NodeInv, LeftFlow
<1>4. /\ q \in Process /\ q.pc = "result" /\ q.in = P(n).in /\ q.out = P(n).out
      /\ q.inbuf = P(n).inbuf /\ q.outbuf = P(n).outbuf
      /\ q.num1 = P(n).num1 /\ q.num2 = P(n).num2 /\ q.result = P(n).result
  BY <1>3 DEF Process, Points
<1> HIDE DEF q
<1>5. Writes(n, q, x, s)
  BY <1>1, <1>3, PipeKept DEF WaitWorker, WaitFor, P, Writes, q
<1>6. /\ P(n)' = q /\ W(n)' = W(n) /\ P(L(n))' = P(L(n)) /\ P(R(n))' = P(R(n))
      /\ pipe'[x] = s /\ pipe'[Pipe(n, "right")] = pipe[Pipe(n, "right")]
      /\ ~Leaf(n) /\ ~Alone(n) /\ maxDepth # 0 /\ Len(n) =< maxDepth
      /\ args' = args /\ maxDepth' = maxDepth /\ Side(n)' = Side(n)
      /\ Inner(n)' = Inner(n) /\ Low(n)' = Low(n) /\ Leaf(n)' = Leaf(n)
      /\ \A t, a, b : Compute(t, a, b)' = Compute(t, a, b)
  BY <1>1, <1>2, <1>3, <1>4, <1>5, InnerFacts
<1>7. Labels(n)'
  BY <1>1, <1>2, <1>3, <1>4, <1>6
    
     DEF Labels, LabelsOf, WorkerLabels, LeftLabels, RightLabels, Early, DeepLabels, LowLabels,
         Ending
<1>8. Ends(n)'
  BY <1>1, <1>2, <1>4, <1>6
     DEF NodeInv, Labels, WorkerLabels, Ends, InOf, OutOf, WorkerIn, WorkerOut, Up, Early
<1>9. WorkerFlow(n)'
  BY <1>1, <1>2, <1>3, <1>4, <1>6 DEF WorkerFlow
<1>10. LeftFlow(n)'
  BY <1>1, <1>2, <1>3, <1>4, <1>6 DEF NodeInv, Labels, LeftLabels, LeftFlow, Has, Early , Answered
<1>11. RightFlow(n)'
  BY <1>1, <1>2, <1>3, <1>4, <1>6 DEF NodeInv, RightFlow, Has, Early
<1>12. RootFlow(n)'
  BY <1>1, <1>2, <1>4, <1>6, InnerRootKept DEF Early
<1>13. final' \in Seq(Int)
  BY <1>1 DEF Typed
<1> QED BY <1>1, <1>2, <1>3, <1>4, <1>5, <1>7, <1>8, <1>9, <1>10, <1>11, <1>12, <1>13, InnerStep
           DEF Early

LEMMA ScanResultStep ==
  ASSUME Typed, TreeInv, NEW n \in Nodes, ScanResult(n)
  PROVE  Typed' /\ TreeInv'
<1> DEFINE x == Pipe(n, "left")
           q == [Scanned(Node(n), "result", "right") EXCEPT !.outbuf = @ \o Buffered(n)]
           s == << >>
<1>1. NodeInv(n) /\ Labels(n) /\ P(n).pc = "result" /\ UNCHANGED <<args, final>>
  BY DEF TreeInv, NodeInv, ScanResult, CanScan, P
<1>2. Inner(n) /\ Low(n)
  BY <1>1, Where
<1>3. /\ P(n) \in Process /\ s \in Seq(Int) /\ x \in Pipes /\ Answered(n) \in Int
      /\ P(n).inbuf = <<Answered(n)>> /\ pipe[x] = << >> /\ P(n).outbuf = << >>
      /\ Number(Node(n)) = Answered(n) /\ Tail(P(n).inbuf) = << >>
      /\ P(n).outbuf \o Buffered(n) = <<Answered(n)>> /\ <<Answered(n)>> \in Seq(Int)
  <2>1. P(n) \in Process /\ s \in Seq(Int) /\ x \in Pipes /\ Answered(n) \in Int
    BY NodeTypes, Members, Joined
  <2>2. P(n).inbuf # << >>
    BY DEF ScanResult, CanScan, P
  <2>3. P(n).inbuf = <<Answered(n)>> /\ pipe[x] = << >>
    BY <1>1, <1>2, <2>2 DEF NodeInv, LeftFlow, Has
  <2>4. P(n).outbuf = << >>
    BY <1>1, <1>2 DEF NodeInv, RightFlow
  <2>5. Number(Node(n)) = Answered(n) /\ Tail(P(n).inbuf) = << >>
    BY <2>1, <2>3, Tuples DEF Number, P
  <2>6. Buffered(n) = <<Answered(n)>>
    BY <2>5 DEF Buffered
  <2>7. << >> \o <<Answered(n)>> = <<Answered(n)>> /\ <<Answered(n)>> \in Seq(Int)
    BY <2>1, Tuples, Joined
  <2> QED BY <2>1, <2>3, <2>4, <2>5, <2>6, <2>7
<1>4. /\ q \in Process /\ q.pc = "right" /\ q.in = P(n).in /\ q.out = P(n).out
      /\ q.inbuf = << >> /\ q.outbuf = <<Answered(n)>>
      /\ q.num1 = P(n).num1 /\ q.num2 = P(n).num2 /\ q.result = Answered(n)
  <2>1. P(n) = proc[Node(n)]
    BY DEF P
  <2> QED BY <1>3, <2>1 DEF Process, Points, Scanned
<1> HIDE DEF q
<1>5. Writes(n, q, x, s)
  BY <1>1, <1>3, PipeKept DEF ScanResult, P, Writes, q
<1>6. /\ P(n)' = q /\ W(n)' = W(n) /\ P(L(n))' = P(L(n)) /\ P(R(n))' = P(R(n))
      /\ pipe'[x] = s /\ pipe'[Pipe(n, "right")] = pipe[Pipe(n, "right")]
      /\ ~Leaf(n) /\ ~Alone(n) /\ maxDepth # 0 /\ Len(n) =< maxDepth
      /\ args' = args /\ maxDepth' = maxDepth /\ Side(n)' = Side(n)
      /\ Inner(n)' = Inner(n) /\ Low(n)' = Low(n) /\ Leaf(n)' = Leaf(n)
      /\ \A t, a, b : Compute(t, a, b)' = Compute(t, a, b)
  BY <1>1, <1>2, <1>3, <1>4, <1>5, InnerFacts
<1>7. Labels(n)'
  BY <1>1, <1>2, <1>3, <1>4, <1>6
    
     DEF Labels, LabelsOf, WorkerLabels, LeftLabels, RightLabels, Early, DeepLabels, LowLabels,
         Ending
<1>8. Ends(n)'
  BY <1>1, <1>2, <1>4, <1>6
     DEF NodeInv, Labels, WorkerLabels, Ends, InOf, OutOf, WorkerIn, WorkerOut, Up, Early
<1>9. WorkerFlow(n)'
  BY <1>1, <1>2, <1>3, <1>4, <1>6 DEF WorkerFlow
<1>10. LeftFlow(n)'
  BY <1>1, <1>2, <1>3, <1>4, <1>6 DEF NodeInv, Labels, LeftLabels, LeftFlow, Has, Early
<1>11. RightFlow(n)'
  BY <1>1, <1>2, <1>3, <1>4, <1>6 DEF NodeInv, RightFlow, Has, Early , LeftFlow, Answered
<1>12. RootFlow(n)'
  BY <1>1, <1>2, <1>4, <1>6, InnerRootKept DEF Early
<1>13. final' \in Seq(Int)
  BY <1>1 DEF Typed
<1> QED BY <1>1, <1>2, <1>3, <1>4, <1>5, <1>7, <1>8, <1>9, <1>10, <1>11, <1>12, <1>13, InnerStep
           DEF Early

LEMMA SendRightStep ==
  ASSUME Typed, TreeInv, NEW n \in Nodes, SendRight(n)
  PROVE  Typed' /\ TreeInv'
<1> DEFINE x == Pipe(n, "right")
           q == [P(n) EXCEPT !.outbuf = << >>, !.in = Pipe(n, "right"), !.pc = "rightWait"]
           s == <<P(n).result, P(n).num1, P(n).num2>>
<1>1. NodeInv(n) /\ Labels(n) /\ P(n).pc = "sendRight" /\ UNCHANGED <<args, final>>
  BY DEF TreeInv, NodeInv, SendRight, P
<1>2. Inner(n) /\ Low(n)
  BY <1>1, Where
<1>3. /\ P(n) \in Process /\ s \in Seq(Int) /\ x \in Pipes
      /\ P(n).out = x /\ pipe[x] = << >> /\ s = pipe[x] \o (P(n).outbuf \o Pair(n))
      /\ P(R(n)).pc = "num1" /\ P(R(n)).inbuf = << >>
  <2>1. /\ P(n) \in Process /\ x \in Pipes /\ Pair(n) = <<P(n).num1, P(n).num2>>
    BY NodeTypes, Members
  <2>2. ~Leaf(n) /\ maxDepth # 0
    BY <1>1, <1>2, Where
  <2>3. P(n).out = x
    BY <1>1, <2>2 DEF NodeInv, Ends, OutOf, Early
  <2>4. pipe[x] = << >> /\ P(n).outbuf = <<P(n).result>> /\ P(R(n)).inbuf = << >>
    BY <1>1, <1>2 DEF NodeInv, RightFlow
  <2>5. P(n).result \in Int /\ P(n).num1 \in Int /\ P(n).num2 \in Int
    BY <2>1 DEF Process
  <2>6. s \in Seq(Int) /\ <<P(n).result>> \o <<P(n).num1, P(n).num2>> = s
    BY <2>5, Tuples
  <2>7. s = pipe[x] \o (P(n).outbuf \o Pair(n))
    BY <2>1, <2>4, <2>6, Joined
  <2>8. P(R(n)).pc = "num1"
    BY <1>1, <1>2 DEF Labels, RightLabels
  <2> QED BY <2>1, <2>3, <2>4, <2>6, <2>7, <2>8
<1>4. /\ q \in Process /\ q.pc = "rightWait" /\ q.in = x /\ q.out = P(n).out
      /\ q.inbuf = P(n).inbuf /\ q.outbuf = << >>
      /\ q.num1 = P(n).num1 /\ q.num2 = P(n).num2 /\ q.result = P(n).result
  <2>1. P(n) \in Process /\ Pipe(n, "right") \in Pipes
    BY <1>3
  <2>2. << >> \in Seq(Int) /\ "rightWait" \in Points
    BY DEF Points
  <2>3. q \in Process
    BY <2>1, <2>2 DEF Process
  <2> QED BY <2>1, <2>3 DEF Process
<1> HIDE DEF q
<1>5. Writes(n, q, x, s)
  BY <1>1, <1>3, Members DEF SendRight, Write, P, Typed, Writes, q
<1>6. /\ P(n)' = q /\ W(n)' = W(n) /\ P(L(n))' = P(L(n)) /\ P(R(n))' = P(R(n))
      /\ pipe'[x] = s /\ pipe'[Pipe(n, "left")] = pipe[Pipe(n, "left")]
      /\ ~Leaf(n) /\ ~Alone(n) /\ maxDepth # 0 /\ Len(n) =< maxDepth
      /\ args' = args /\ maxDepth' = maxDepth /\ Side(n)' = Side(n)
      /\ Inner(n)' = Inner(n) /\ Low(n)' = Low(n) /\ Leaf(n)' = Leaf(n)
      /\ \A t, a, b : Compute(t, a, b)' = Compute(t, a, b)
  BY <1>1, <1>2, <1>3, <1>4, <1>5, InnerFacts
<1>7. Labels(n)'
  BY <1>1, <1>2, <1>3, <1>4, <1>6
    
     DEF Labels, LabelsOf, WorkerLabels, LeftLabels, RightLabels, Early, DeepLabels, LowLabels,
         Ending
<1>8. Ends(n)'
  BY <1>1, <1>2, <1>4, <1>6
     DEF NodeInv, Labels, WorkerLabels, Ends, InOf, OutOf, WorkerIn, WorkerOut, Up, Early
<1>9. WorkerFlow(n)'
  BY <1>1, <1>2, <1>3, <1>4, <1>6 DEF WorkerFlow
<1>10. LeftFlow(n)'
  BY <1>1, <1>2, <1>3, <1>4, <1>6 DEF NodeInv, Labels, LeftLabels, LeftFlow, Has, Early
<1>11. RightFlow(n)'
  BY <1>1, <1>2, <1>3, <1>4, <1>6 DEF NodeInv, RightFlow, Has, Early
<1>12. RootFlow(n)'
  BY <1>1, <1>2, <1>4, <1>6, InnerRootKept DEF Early
<1>13. final' \in Seq(Int)
  BY <1>1 DEF Typed
<1> QED BY <1>1, <1>2, <1>3, <1>4, <1>5, <1>7, <1>8, <1>9, <1>10, <1>11, <1>12, <1>13, InnerStep
           DEF Early

LEMMA WaitRightStep ==
  ASSUME Typed, TreeInv, NEW n \in Nodes, WaitRight(n)
  PROVE  Typed' /\ TreeInv'
<1> DEFINE x == Pipe(n, "right")
           q == [P(n) EXCEPT !.pc = "rightValue"]
           s == pipe[x]
<1>1. NodeInv(n) /\ Labels(n) /\ P(n).pc = "rightWait" /\ UNCHANGED <<args, final>>
  BY DEF TreeInv, NodeInv, WaitRight, WaitFor, P
<1>2. Inner(n) /\ Low(n)
  BY <1>1, Where
<1>3. P(n) \in Process /\ s \in Seq(Int) /\ x \in Pipes
  BY NodeTypes, Members
<1>4. P(R(n)).pc = "exited" /\ pipe[x] = <<Compute(1, P(n).result, 1)>>
  <2>1. P(R(n)).pc = "exited"
    BY DEF WaitRight, WaitFor, Exited, P, R
  <2> QED BY <1>1, <1>2, <2>1, RightSent
<1>5. /\ q \in Process /\ q.pc = "rightValue" /\ q.in = P(n).in /\ q.out = P(n).out
      /\ q.inbuf = P(n).inbuf /\ q.outbuf = P(n).outbuf
      /\ q.num1 = P(n).num1 /\ q.num2 = P(n).num2 /\ q.result = P(n).result
  BY <1>3 DEF Process, Points
<1> HIDE DEF q
<1>6. Writes(n, q, x, s)
  BY <1>1, <1>3, PipeKept DEF WaitRight, WaitFor, P, L, R, Writes, q
<1>7. /\ P(n)' = q /\ W(n)' = W(n) /\ P(L(n))' = P(L(n)) /\ P(R(n))' = P(R(n))
      /\ pipe'[x] = s /\ pipe'[Pipe(n, "left")] = pipe[Pipe(n, "left")]
      /\ ~Leaf(n) /\ ~Alone(n) /\ maxDepth # 0 /\ Len(n) =< maxDepth
      /\ args' = args /\ maxDepth' = maxDepth /\ Side(n)' = Side(n)
      /\ Inner(n)' = Inner(n) /\ Low(n)' = Low(n) /\ Leaf(n)' = Leaf(n)
      /\ \A t, a, b : Compute(t, a, b)' = Compute(t, a, b)
  BY <1>1, <1>2, <1>3, <1>5, <1>6, InnerFacts
<1>8. Labels(n)'
  BY <1>1, <1>2, <1>3, <1>5, <1>7, <1>4
    
     DEF Labels, LabelsOf, WorkerLabels, LeftLabels, RightLabels, Early, DeepLabels, LowLabels,
         Ending
<1>9. Ends(n)'
  BY <1>1, <1>2, <1>5, <1>7
     DEF NodeInv, Labels, WorkerLabels, Ends, InOf, OutOf, WorkerIn, WorkerOut, Up, Early
<1>10. WorkerFlow(n)'
  BY <1>1, <1>2, <1>3, <1>5, <1>7, <1>4 DEF WorkerFlow
<1>11. LeftFlow(n)'
  BY <1>1, <1>2, <1>3, <1>5, <1>7, <1>4 DEF NodeInv, Labels, LeftLabels, LeftFlow, Has, Early
<1>12. RightFlow(n)'
  BY <1>1, <1>2, <1>3, <1>5, <1>7, <1>4 DEF NodeInv, RightFlow, Has, Early
<1>13. RootFlow(n)'
  BY <1>1, <1>2, <1>5, <1>7, InnerRootKept DEF Early
<1>14. final' \in Seq(Int)
  BY <1>1 DEF Typed
<1> QED BY <1>1, <1>2, <1>3, <1>5, <1>6, <1>8, <1>9, <1>10, <1>11, <1>12, <1>13, <1>14, InnerStep
           DEF Early

LEMMA ScanRightValueStep ==
  ASSUME Typed, TreeInv, NEW n \in Nodes, ScanRightValue(n)
  PROVE  Typed' /\ TreeInv'
<1> DEFINE x == Pipe(n, "right")
           q == [Scanned(Node(n), "num2", "exit") EXCEPT !.outbuf = Append(@, Number(Node(n)))]
           s == << >>
<1>1. NodeInv(n) /\ Labels(n) /\ P(n).pc = "rightValue" /\ UNCHANGED <<args, final>>
  BY DEF TreeInv, NodeInv, ScanRightValue, CanScan, P
<1>2. Inner(n) /\ Low(n)
  BY <1>1, Where
<1>3. /\ P(n) \in Process /\ s \in Seq(Int) /\ x \in Pipes
      /\ Compute(1, P(n).result, 1) \in Int /\ <<Compute(1, P(n).result, 1)>> \in Seq(Int)
      /\ P(n).inbuf = <<Compute(1, P(n).result, 1)>> /\ pipe[x] = << >> /\ P(n).outbuf = << >>
      /\ Number(Node(n)) = Compute(1, P(n).result, 1) /\ Tail(P(n).inbuf) = << >>
      /\ Append(P(n).outbuf, Number(Node(n))) = <<Compute(1, P(n).result, 1)>>
  <2>1. P(n) \in Process /\ s \in Seq(Int) /\ x \in Pipes
    BY NodeTypes, Members, Joined
  <2>2. Compute(1, P(n).result, 1) \in Int
    BY <2>1, Computed DEF Process
  <2>3. P(n).inbuf # << >>
    BY DEF ScanRightValue, CanScan, P
  <2>4. P(n).inbuf = <<Compute(1, P(n).result, 1)>> /\ pipe[x] = << >> /\ P(n).outbuf = << >>
    BY <1>1, <1>2, <2>3 DEF NodeInv, RightFlow, Has
  <2>5. Number(Node(n)) = Compute(1, P(n).result, 1) /\ Tail(P(n).inbuf) = << >>
    BY <2>2, <2>4, Tuples DEF Number, P
  <2>6. /\ <<Compute(1, P(n).result, 1)>> \in Seq(Int)
        /\ Append(P(n).outbuf, Number(Node(n))) = <<Compute(1, P(n).result, 1)>>
    BY <2>2, <2>4, <2>5, Tuples
  <2> QED BY <2>1, <2>2, <2>4, <2>5, <2>6
<1>4. /\ q \in Process /\ q.pc = "exit" /\ q.in = P(n).in /\ q.out = P(n).out
      /\ q.inbuf = << >> /\ q.outbuf = <<Compute(1, P(n).result, 1)>>
      /\ q.num1 = P(n).num1 /\ q.num2 = Compute(1, P(n).result, 1) /\ q.result = P(n).result
  <2>1. P(n) = proc[Node(n)]
    BY DEF P
  <2> QED BY <1>3, <2>1 DEF Process, Points, Scanned
<1> HIDE DEF q
<1>5. Writes(n, q, x, s)
  BY <1>1, <1>3, PipeKept DEF ScanRightValue, P, Writes, q
<1>6. /\ P(n)' = q /\ W(n)' = W(n) /\ P(L(n))' = P(L(n)) /\ P(R(n))' = P(R(n))
      /\ pipe'[x] = s /\ pipe'[Pipe(n, "left")] = pipe[Pipe(n, "left")]
      /\ ~Leaf(n) /\ ~Alone(n) /\ maxDepth # 0 /\ Len(n) =< maxDepth
      /\ args' = args /\ maxDepth' = maxDepth /\ Side(n)' = Side(n)
      /\ Inner(n)' = Inner(n) /\ Low(n)' = Low(n) /\ Leaf(n)' = Leaf(n)
      /\ \A t, a, b : Compute(t, a, b)' = Compute(t, a, b)
  BY <1>1, <1>2, <1>3, <1>4, <1>5, InnerFacts
<1>7. Labels(n)'
  BY <1>1, <1>2, <1>3, <1>4, <1>6
    
     DEF Labels, LabelsOf, WorkerLabels, LeftLabels, RightLabels, Early, DeepLabels, LowLabels,
         Ending
<1>8. Ends(n)'
  BY <1>1, <1>2, <1>4, <1>6
     DEF NodeInv, Labels, WorkerLabels, Ends, InOf, OutOf, WorkerIn, WorkerOut, Up, Early
<1>9. WorkerFlow(n)'
  BY <1>1, <1>2, <1>3, <1>4, <1>6 DEF WorkerFlow
<1>10. LeftFlow(n)'
  BY <1>1, <1>2, <1>3, <1>4, <1>6 DEF NodeInv, Labels, LeftLabels, LeftFlow, Has, Early
<1>11. RightFlow(n)'
  BY <1>1, <1>2, <1>3, <1>4, <1>6 DEF NodeInv, RightFlow, Has, Early
<1>12. RootFlow(n)'
  <2>1. n = Root => Side(n) = args.lr /\ P(n).num1 = args.input /\ final = << >>
    BY <1>1, <1>6 DEF NodeInv, RootFlow, Side
  <2>2. P(n).result = Compute(Side(n), P(n).num1, Compute(0, P(n).num1, 1))
    BY <1>1, <1>2 DEF NodeInv, RightFlow
  <2> QED BY <1>1, <1>4, <1>6, <2>1, <2>2 DEF RootFlow
<1>13. final' \in Seq(Int)
  BY <1>1 DEF Typed
<1> QED BY <1>1, <1>2, <1>3, <1>4, <1>5, <1>7, <1>8, <1>9, <1>10, <1>11, <1>12, <1>13, InnerStep
           DEF Early

LEMMA ExitInnerStep ==
  ASSUME Typed, TreeInv, NEW n \in Nodes, Exit(n), Inner(n)
  PROVE  Typed' /\ TreeInv'
<1> DEFINE x == Pipe(n, "right")
           q == [P(n) EXCEPT !.outbuf = << >>, !.pc = "exited"]
           s == pipe[x] \o P(n).outbuf
<1>1. NodeInv(n) /\ Labels(n) /\ P(n).pc = "exit" /\ UNCHANGED args
  BY DEF TreeInv, NodeInv, Exit, P
<1>2. Inner(n) /\ Low(n)
  BY <1>1, Where DEF Ending
<1>3. /\ P(n) \in Process /\ s \in Seq(Int) /\ x \in Pipes
      /\ P(n).out = x /\ P(n).num2 \in Int
      /\ final' = IF n = Root THEN Append(final, P(n).num2) ELSE final
      /\ n = Root => final = << >>
  <2>1. P(n) \in Process /\ x \in Pipes /\ pipe[x] \in Seq(Int)
    BY NodeTypes, Members
  <2>2. ~Leaf(n) /\ maxDepth # 0
    BY <1>1, <1>2, Where
  <2>3. P(n).out = x
    BY <1>1, <2>2 DEF NodeInv, Ends, OutOf, Early
  <2>4. s \in Seq(Int) /\ P(n).num2 \in Int
    BY <2>1 DEF Process
  <2>5. final' = IF n = Root THEN Append(final, P(n).num2) ELSE final
    BY <2>2 DEF Exit, P
  <2>6. n = Root => final = << >>
    BY <1>1, <2>2 DEF NodeInv, RootFlow
  <2> QED BY <2>1, <2>3, <2>4, <2>5, <2>6
<1>4. /\ q \in Process /\ q.pc = "exited" /\ q.in = P(n).in /\ q.out = P(n).out
      /\ q.inbuf = P(n).inbuf /\ q.outbuf = << >>
      /\ q.num1 = P(n).num1 /\ q.num2 = P(n).num2 /\ q.result = P(n).result
  <2>1. P(n) \in Process /\ << >> \in Seq(Int)
    BY <1>3
  <2>2. q \in Process
    BY <2>1 DEF Process, Points
  <2> QED BY <2>1, <2>2 DEF Process
<1> HIDE DEF q
<1>5. Writes(n, q, x, s)
  BY <1>1, <1>3, Members DEF Exit, Write, P, Typed, Writes, q
<1>6. /\ P(n)' = q /\ W(n)' = W(n) /\ P(L(n))' = P(L(n)) /\ P(R(n))' = P(R(n))
      /\ pipe'[x] = s /\ pipe'[Pipe(n, "left")] = pipe[Pipe(n, "left")]
      /\ ~Leaf(n) /\ ~Alone(n) /\ maxDepth # 0 /\ Len(n) =< maxDepth
      /\ args' = args /\ maxDepth' = maxDepth /\ Side(n)' = Side(n)
      /\ Inner(n)' = Inner(n) /\ Low(n)' = Low(n) /\ Leaf(n)' = Leaf(n)
      /\ \A t, a, b : Compute(t, a, b)' = Compute(t, a, b)
  BY <1>1, <1>2, <1>3, <1>4, <1>5, InnerFacts
<1>7. Labels(n)'
  BY <1>1, <1>2, <1>3, <1>4, <1>6
    
     DEF Labels, LabelsOf, WorkerLabels, LeftLabels, RightLabels, Early, DeepLabels, LowLabels,
         Ending
<1>8. Ends(n)'
  BY <1>1, <1>2, <1>4, <1>6
     DEF NodeInv, Labels, WorkerLabels, Ends, InOf, OutOf, WorkerIn, WorkerOut, Up, Early
<1>9. WorkerFlow(n)'
  BY <1>1, <1>2, <1>3, <1>4, <1>6 DEF WorkerFlow
<1>10. LeftFlow(n)'
  BY <1>1, <1>2, <1>3, <1>4, <1>6 DEF NodeInv, Labels, LeftLabels, LeftFlow, Has, Early
<1>11. RightFlow(n)'
  BY <1>1, <1>2, <1>3, <1>4, <1>6 DEF NodeInv, RightFlow, Has, Early
<1>12. RootFlow(n)'
  <2>1. n = Root => final' = <<P(n).num2>>
    BY <1>3, Tuples
  <2> QED BY <1>1, <1>4, <1>6, <2>1 DEF NodeInv, RootFlow
<1>13. final' \in Seq(Int) /\ (n # Root => UNCHANGED final)
  BY <1>3, Tuples DEF Typed
<1> QED BY <1>1, <1>2, <1>3, <1>4, <1>5, <1>7, <1>8, <1>9, <1>10, <1>11, <1>12, <1>13, InnerStep
           DEF Early

LEMMA FillLeftStep ==
  ASSUME Typed, TreeInv, NEW n \in Nodes, Fill(Node(n)), Inner(n),
         P(n).pc \in {"leftValue", "result"}
  PROVE  Typed' /\ TreeInv'
<1> DEFINE x == Pipe(n, "left")
           q == [P(n) EXCEPT !.inbuf = pipe[x]]
           s == << >>
<1>1. NodeInv(n) /\ Labels(n) /\ P(n).pc \in {"leftValue", "result"} /\ UNCHANGED <<args, final>>
  BY DEF TreeInv, NodeInv, Fill, P
<1>2. Inner(n)
  BY <1>1, Where DEF Ending
<1>3. /\ P(n) \in Process /\ s \in Seq(Int) /\ x \in Pipes /\ pipe[x] \in Seq(Int)
      /\ P(n).in = x /\ P(n).inbuf = << >>
  <2>1. P(n) \in Process /\ s \in Seq(Int) /\ x \in Pipes /\ pipe[x] \in Seq(Int)
    BY NodeTypes, Members, Joined
  <2>2. ~Leaf(n) /\ maxDepth # 0
    BY <1>1, <1>2, Where
  <2>3. P(n).in = x
    BY <1>1, <2>2 DEF NodeInv, Ends, InOf, Early
  <2> QED BY <2>1, <2>3 DEF Fill, P
<1>4. /\ q \in Process /\ q.pc = P(n).pc /\ q.in = P(n).in /\ q.out = P(n).out
      /\ q.inbuf = pipe[x] /\ q.outbuf = P(n).outbuf
      /\ q.num1 = P(n).num1 /\ q.num2 = P(n).num2 /\ q.result = P(n).result
  <2>1. q \in Process
    BY <1>3 DEF Process
  <2> QED BY <1>3, <2>1 DEF Process
<1> HIDE DEF q
<1>5. Writes(n, q, x, s)
  BY <1>1, <1>3, Members DEF Fill, P, Typed, Writes, q
<1>6. /\ P(n)' = q /\ W(n)' = W(n) /\ P(L(n))' = P(L(n)) /\ P(R(n))' = P(R(n))
      /\ pipe'[x] = s /\ pipe'[Pipe(n, "right")] = pipe[Pipe(n, "right")]
      /\ ~Leaf(n) /\ ~Alone(n) /\ maxDepth # 0 /\ Len(n) =< maxDepth
      /\ args' = args /\ maxDepth' = maxDepth /\ Side(n)' = Side(n)
      /\ Inner(n)' = Inner(n) /\ Low(n)' = Low(n) /\ Leaf(n)' = Leaf(n)
      /\ \A t, a, b : Compute(t, a, b)' = Compute(t, a, b)
  BY <1>1, <1>2, <1>3, <1>4, <1>5, InnerFacts
<1>7. Labels(n)'
  BY <1>1, <1>2, <1>3, <1>4, <1>6
    
     DEF Labels, LabelsOf, WorkerLabels, LeftLabels, RightLabels, Early, DeepLabels, LowLabels,
         Ending
<1>8. Ends(n)'
  BY <1>1, <1>2, <1>4, <1>6
     DEF NodeInv, Labels, WorkerLabels, Ends, InOf, OutOf, WorkerIn, WorkerOut, Up, Early
<1>9. WorkerFlow(n)'
  BY <1>1, <1>2, <1>3, <1>4, <1>6 DEF WorkerFlow
<1>10. LeftFlow(n)'
  <2>1. CASE P(n).pc = "leftValue"
    BY <1>1, <1>2, <1>3, <1>4, <1>6, <2>1 DEF NodeInv, Labels, LeftLabels, LeftFlow, Has, Early
  <2>2. CASE P(n).pc = "result"
    BY <1>1, <1>2, <1>3, <1>4, <1>6, <2>2 DEF NodeInv, LeftFlow, Has, Early, Answered
  <2> QED BY <1>1, <2>1, <2>2
<1>11. RightFlow(n)'
  BY <1>1, <1>2, <1>3, <1>4, <1>6 DEF NodeInv, RightFlow, Has, Early
<1>12. RootFlow(n)'
  BY <1>1, <1>2, <1>4, <1>6, InnerRootKept DEF Early
<1>13. final' \in Seq(Int)
  BY <1>1 DEF Typed
<1> QED BY <1>1, <1>2, <1>3, <1>4, <1>5, <1>7, <1>8, <1>9, <1>10, <1>11, <1>12, <1>13, InnerStep
           DEF Early

LEMMA FillRightStep ==
  ASSUME Typed, TreeInv, NEW n \in Nodes, Fill(Node(n)), Inner(n), P(n).pc = "rightValue"
  PROVE  Typed' /\ TreeInv'
<1> DEFINE x == Pipe(n, "right")
           q == [P(n) EXCEPT !.inbuf = pipe[x]]
           s == << >>
<1>1. NodeInv(n) /\ Labels(n) /\ P(n).pc = "rightValue" /\ UNCHANGED <<args, final>>
  BY DEF TreeInv, NodeInv, Fill, P
<1>2. Inner(n)
  BY <1>1, Where DEF Ending
<1>3. /\ P(n) \in Process /\ s \in Seq(Int) /\ x \in Pipes /\ pipe[x] \in Seq(Int)
      /\ P(n).in = x /\ P(n).inbuf = << >>
  <2>1. P(n) \in Process /\ s \in Seq(Int) /\ x \in Pipes /\ pipe[x] \in Seq(Int)
    BY NodeTypes, Members, Joined
  <2>2. ~Leaf(n) /\ maxDepth # 0
    BY <1>1, <1>2, Where
  <2>3. P(n).in = x
    BY <1>1, <2>2 DEF NodeInv, Ends, InOf, Early
  <2> QED BY <2>1, <2>3 DEF Fill, P
<1>4. /\ q \in Process /\ q.pc = "rightValue" /\ q.in = P(n).in /\ q.out = P(n).out
      /\ q.inbuf = pipe[x] /\ q.outbuf = P(n).outbuf
      /\ q.num1 = P(n).num1 /\ q.num2 = P(n).num2 /\ q.result = P(n).result
  BY <1>3 DEF Process, Points
<1> HIDE DEF q
<1>5. Writes(n, q, x, s)
  BY <1>1, <1>3, Members DEF Fill, P, Typed, Writes, q
<1>6. /\ P(n)' = q /\ W(n)' = W(n) /\ P(L(n))' = P(L(n)) /\ P(R(n))' = P(R(n))
      /\ pipe'[x] = s /\ pipe'[Pipe(n, "left")] = pipe[Pipe(n, "left")]
      /\ ~Leaf(n) /\ ~Alone(n) /\ maxDepth # 0 /\ Len(n) =< maxDepth
      /\ args' = args /\ maxDepth' = maxDepth /\ Side(n)' = Side(n)
      /\ Inner(n)' = Inner(n) /\ Low(n)' = Low(n) /\ Leaf(n)' = Leaf(n)
      /\ \A t, a, b : Compute(t, a, b)' = Compute(t, a, b)
  BY <1>1, <1>2, <1>3, <1>4, <1>5, InnerFacts
<1>7. Labels(n)'
  BY <1>1, <1>2, <1>3, <1>4, <1>6
    
     DEF Labels, LabelsOf, WorkerLabels, LeftLabels, RightLabels, Early, DeepLabels, LowLabels,
         Ending
<1>8. Ends(n)'
  BY <1>1, <1>2, <1>4, <1>6
     DEF NodeInv, Labels, WorkerLabels, Ends, InOf, OutOf, WorkerIn, WorkerOut, Up, Early
<1>9. WorkerFlow(n)'
  BY <1>1, <1>2, <1>3, <1>4, <1>6 DEF WorkerFlow
<1>10. LeftFlow(n)'
  BY <1>4, <1>6 DEF LeftFlow, Early
<1>11. RightFlow(n)'
  BY <1>1, <1>2, <1>3, <1>4, <1>6 DEF NodeInv, RightFlow, Has, Early
<1>12. RootFlow(n)'
  BY <1>1, <1>2, <1>4, <1>6, InnerRootKept DEF Early
<1>13. final' \in Seq(Int)
  BY <1>1 DEF Typed
<1> QED BY <1>1, <1>2, <1>3, <1>4, <1>5, <1>7, <1>8, <1>9, <1>10, <1>11, <1>12, <1>13, InnerStep
           DEF Early

-----------------------------------------------------------------------------
(* Forks *)

LEMMA StartedFields ==
  ASSUME NEW x \in Pipes, NEW y \in Pipes
  PROVE  LET q == Started(x, y) IN
         /\ q \in Process /\ q.pc = "num1" /\ q.in = x /\ q.out = y
         /\ q.inbuf = << >> /\ q.outbuf = << >> /\ q.num1 = 0 /\ q.num2 = 0 /\ q.result = 0
BY DEF Started, Process, Points

\* A child that has just been forked.
LEMMA NewChild ==
  ASSUME Typed, TreeInv, NEW c \in Nodes, c # Root, Len(c) =< maxDepth, maxDepth # 0,
         P(c).pc = "none", P(c)' = Started(Up(c), Up(c)), W(c)' = W(c), UNCHANGED args,
         Inner(c) => P(L(c))' = P(L(c)) /\ P(R(c))' = P(R(c)),
         pipe'[Pipe(c, "left")] = pipe[Pipe(c, "left")],
         pipe'[Pipe(c, "right")] = pipe[Pipe(c, "right")],
         pipe'[Pipe(c, "work")] = pipe[Pipe(c, "work")]
  PROVE  NodeInv(c)'
<1> DEFINE q == Started(Up(c), Up(c))
<1>1. NodeInv(c) /\ Labels(c)
  BY DEF TreeInv, NodeInv
<1>2. /\ q.pc = "num1" /\ q.in = Up(c) /\ q.out = Up(c)
      /\ q.inbuf = << >> /\ q.outbuf = << >>
  BY UpIsElsewhere, StartedFields
<1> HIDE DEF q
<1>3. P(c)' = q
  BY DEF q
<1>4. /\ maxDepth' = maxDepth /\ Side(c)' = Side(c) /\ Inner(c)' = Inner(c)
      /\ Low(c)' = Low(c) /\ Leaf(c)' = Leaf(c)
  BY Frame
<1>5. ~(Leaf(c) /\ Inner(c)) /\ Len(c) \in Nat /\ maxDepth \in Nat
  BY Depths DEF Leaf, Inner
<1>6. Labels(c)'
  BY <1>1, <1>2, <1>3, <1>4, <1>5
  DEF Labels, LabelsOf, WorkerLabels, LeftLabels, RightLabels, Early, DeepLabels,
      LowLabels, LeafLabels
<1>7. Ends(c)'
  BY <1>1, <1>2, <1>3, <1>4 DEF Labels, WorkerLabels, Ends, InOf, OutOf, Up, Early
<1>8. WorkerFlow(c)' /\ AloneFlow(c)' /\ RootFlow(c)'
  BY <1>2, <1>3, <1>4 DEF WorkerFlow, AloneFlow, RootFlow
<1>9. LeafFlow(c)'
  BY <1>1, <1>2, <1>3, <1>4 DEF NodeInv, LeafFlow
<1>10. LeftFlow(c)' /\ RightFlow(c)'
  BY <1>1, <1>2, <1>3, <1>4 DEF NodeInv, LeftFlow, RightFlow, Early
<1> QED BY <1>6, <1>7, <1>8, <1>9, <1>10 DEF NodeInv

\* n becomes q and its child on side s starts with both ends of pipe x.
Forks(n, q, s, x) ==
  /\ proc' = [proc EXCEPT ![Node(Child(n, s))] = Started(x, x), ![Node(n)] = q]
  /\ UNCHANGED <<args, pipe, final>>

LEMMA ForkFacts ==
  ASSUME Typed, TreeInv, NEW n \in Nodes, Inner(n), NEW q \in Process, NEW s \in {0, 1},
         NEW x \in Pipes, Forks(n, q, s, x)
  PROVE  /\ P(n)' = q /\ W(n)' = W(n) /\ P(Child(n, s))' = Started(x, x)
         /\ P(Child(n, 1 - s))' = P(Child(n, 1 - s))
         /\ ~Leaf(n) /\ ~Alone(n) /\ maxDepth # 0 /\ Len(n) =< maxDepth
         /\ args' = args /\ maxDepth' = maxDepth /\ Side(n)' = Side(n)
         /\ Inner(n)' = Inner(n) /\ Low(n)' = Low(n) /\ Leaf(n)' = Leaf(n)
         /\ Alone(n)' = Alone(n)
         /\ \A t, a, b : Compute(t, a, b)' = Compute(t, a, b)
         /\ \A k \in Nodes : W(k)' = W(k) /\ (k # n /\ k # Child(n, s) => P(k)' = P(k))
         /\ Typed' /\ OnlyAt(n)
<1> DEFINE c == Child(n, s)
           d == Child(n, 1 - s)
<1>1. c \in Nodes /\ d \in Nodes /\ c # n /\ d # n /\ c # d
  BY InnerChildren DEF L, R
<1>2. c = Child(n, s)
  OBVIOUS
<1>3. Started(x, x) \in Process
  BY StartedFields
<1> HIDE DEF c, d
<1>4. /\ proc' = [proc EXCEPT ![Node(c)] = Started(x, x), ![Node(n)] = q]
      /\ proc \in [Procs -> Process]
  BY <1>2 DEF Forks, Typed
<1>5. /\ P(n)' = q /\ P(c)' = Started(x, x) /\ proc' \in [Procs -> Process]
      /\ \A k \in Nodes : W(k)' = W(k) /\ (k # n /\ k # c => P(k)' = P(k))
      /\ \A p \in Procs : p # Node(n) /\ p # Node(c) => proc'[p] = proc[p]
  BY <1>1, <1>3, <1>4, Members, Names DEF P, W
<1>6. P(d)' = P(d)
  BY <1>1, <1>5
<1>7. Typed'
  BY <1>5 DEF Typed, Forks
<1>8. OnlyAt(n)
  BY <1>2, <1>5 DEF OnlyAt, Forks
<1>9. ~Leaf(n) /\ ~Alone(n) /\ maxDepth # 0 /\ Len(n) =< maxDepth
  BY Where, Depths DEF Inner, TreeInv, NodeInv
<1>10. /\ args' = args /\ maxDepth' = maxDepth /\ Side(n)' = Side(n)
       /\ Inner(n)' = Inner(n) /\ Low(n)' = Low(n) /\ Leaf(n)' = Leaf(n)
       /\ Alone(n)' = Alone(n)
       /\ \A t, a, b : Compute(t, a, b)' = Compute(t, a, b)
  BY Frame DEF Forks
<1> QED BY <1>5, <1>6, <1>7, <1>8, <1>9, <1>10 DEF c, d

LEMMA ForkStep ==
  ASSUME Typed, TreeInv, NEW n \in Nodes, Inner(n), NEW q \in Process, NEW s \in {0, 1},
         Forks(n, q, s, Up(Child(n, s))), P(Child(n, s)).pc = "none",
         P(n).pc \notin Early \cup {"exited"}, q.pc \notin Early, q.num1 = P(n).num1,
         Labels(n)', Ends(n)', WorkerFlow(n)', LeftFlow(n)', RightFlow(n)', RootFlow(n)'
  PROVE  Typed' /\ TreeInv'
<1> DEFINE c == Child(n, s)
<1>1. c \in Nodes /\ c # n /\ c # Root /\ Len(c) = Len(n) + 1 /\ Up(c) \in Pipes
  BY InnerChildren, Members DEF L, R
<1>2. c = Child(n, s)
  OBVIOUS
<1> HIDE DEF c
<1>3. /\ P(n)' = q /\ P(c)' = Started(Up(c), Up(c))
      /\ ~Leaf(n)' /\ ~Alone(n)' /\ maxDepth # 0
      /\ \A k \in Nodes : W(k)' = W(k) /\ (k # n /\ k # c => P(k)' = P(k))
      /\ Typed' /\ OnlyAt(n)
  BY <1>1, <1>2, ForkFacts
<1>4. Quiet(n)
  BY <1>3, InnerIsQuiet DEF Forks
<1>5. LeafFlow(n)' /\ AloneFlow(n)'
  BY <1>3 DEF LeafFlow, AloneFlow, Alone
<1>6. NodeInv(n)'
  BY <1>5 DEF NodeInv
<1>7. NodeInv(c)'
  <2>1. Inner(c) => P(L(c))' = P(L(c)) /\ P(R(c))' = P(R(c))
    <3>1. SUFFICES ASSUME Inner(c) PROVE P(L(c))' = P(L(c)) /\ P(R(c))' = P(R(c))
      OBVIOUS
    <3>2. /\ L(c) \in Nodes /\ R(c) \in Nodes /\ L(c) # c /\ R(c) # c
          /\ Len(L(c)) = Len(c) + 1 /\ Len(R(c)) = Len(c) + 1 /\ Len(n) \in Nat
      BY <1>1, <3>1, InnerChildren, Depths
    <3>3. L(c) # n /\ R(c) # n
      BY <1>1, <3>2
    <3> QED BY <1>3, <3>2, <3>3
  <2>2. Len(c) =< maxDepth
    BY <1>1, Depths DEF Inner
  <2> QED BY <1>1, <1>2, <1>3, <2>1, <2>2, NewChild DEF Forks
<1> QED BY <1>3, <1>4, <1>6, <1>7, OwnStep

LEMMA ForkLeftStep ==
  ASSUME Typed, TreeInv, NEW n \in Nodes, ForkLeft(n)
  PROVE  Typed' /\ TreeInv'
<1> DEFINE x == Pipe(n, "left")
           q == [P(n) EXCEPT !.out = x, !.pc = "sendNum1"]
<1>1. NodeInv(n) /\ Labels(n) /\ P(n).pc = "left" /\ UNCHANGED <<args, pipe, final>>
  BY DEF TreeInv, NodeInv, ForkLeft, ForkChild, P
<1>2. Inner(n)
  BY <1>1, Where
<1>3. /\ P(n) \in Process /\ x \in Pipes /\ x = Up(Child(n, 0)) /\ P(L(n)).pc = "none"
      /\ 0 \in {0, 1} /\ 1 - 0 = 1 /\ L(n) = Child(n, 0) /\ R(n) = Child(n, 1)
  <2>1. x = Up(Child(n, 0))
    BY <1>2, InnerChildren DEF L
  <2>2. P(L(n)).pc = "none"
    BY <1>1, <1>2 DEF Labels, LeftLabels, RightLabels, Early
  <2> QED BY <2>1, <2>2, NodeTypes, Members DEF L, R
<1>4. /\ q \in Process /\ q.pc = "sendNum1" /\ q.in = P(n).in /\ q.out = x
      /\ q.inbuf = P(n).inbuf /\ q.outbuf = P(n).outbuf
      /\ q.num1 = P(n).num1 /\ q.num2 = P(n).num2 /\ q.result = P(n).result
  BY <1>3 DEF Process, Points
<1>5. Started(x, x).inbuf = << >> /\ Started(x, x).pc = "num1"
  BY <1>3, StartedFields
<1> HIDE DEF q
<1>6. Forks(n, q, 0, x)
  BY <1>1, <1>3, Members, Names DEF ForkLeft, ForkChild, Forks, P, L, R, q, Typed
<1>7. /\ P(n)' = q /\ W(n)' = W(n) /\ P(L(n))' = Started(x, x) /\ P(R(n))' = P(R(n))
      /\ ~Leaf(n) /\ ~Alone(n) /\ maxDepth # 0 /\ Len(n) =< maxDepth
      /\ args' = args /\ maxDepth' = maxDepth /\ Side(n)' = Side(n)
      /\ Inner(n)' = Inner(n) /\ Low(n)' = Low(n) /\ Leaf(n)' = Leaf(n)
      /\ \A t, a, b : Compute(t, a, b)' = Compute(t, a, b)
  <2> HIDE DEF x
  <2> QED BY <1>2, <1>3, <1>4, <1>6, ForkFacts
<1>8. Labels(n)'
  BY <1>1, <1>2, <1>3, <1>4, <1>5, <1>7
     DEF Labels, LabelsOf, WorkerLabels, LeftLabels, RightLabels, Early, DeepLabels, LowLabels
<1>9. Ends(n)'
  BY <1>1, <1>2, <1>4, <1>7
     DEF NodeInv, Labels, WorkerLabels, Ends, InOf, OutOf, WorkerIn, WorkerOut, Up, Early
<1>10. WorkerFlow(n)'
  BY <1>4, <1>7 DEF WorkerFlow
<1>11. LeftFlow(n)'
  BY <1>1, <1>2, <1>3, <1>4, <1>5, <1>7 DEF NodeInv, LeftFlow, Early
<1>12. RightFlow(n)'
  BY <1>1, <1>2, <1>3, <1>4, <1>5, <1>7 DEF NodeInv, RightFlow, Early
<1>13. RootFlow(n)'
  BY <1>1, <1>2, <1>4, <1>7, InnerRootKept DEF Early
<1> QED BY <1>1, <1>2, <1>3, <1>4, <1>6, <1>8, <1>9, <1>10, <1>11, <1>12, <1>13, ForkStep
        DEF Early

LEMMA ForkRightStep ==
  ASSUME Typed, TreeInv, NEW n \in Nodes, ForkRight(n)
  PROVE  Typed' /\ TreeInv'
<1> DEFINE x == Pipe(n, "right")
           q == [P(n) EXCEPT !.out = x, !.pc = "sendRight"]
<1>1. NodeInv(n) /\ Labels(n) /\ P(n).pc = "right" /\ UNCHANGED <<args, pipe, final>>
  BY DEF TreeInv, NodeInv, ForkRight, ForkChild, P
<1>2. Inner(n) /\ Low(n)
  BY <1>1, Where
<1>3. /\ P(n) \in Process /\ x \in Pipes /\ x = Up(Child(n, 1)) /\ P(R(n)).pc = "none"
      /\ 1 \in {0, 1} /\ 1 - 1 = 0 /\ R(n) = Child(n, 1) /\ L(n) = Child(n, 0)
  <2>1. x = Up(Child(n, 1))
    BY <1>2, InnerChildren DEF R
  <2>2. P(R(n)).pc = "none"
    BY <1>1, <1>2 DEF Labels, LeftLabels, RightLabels, Early
  <2> QED BY <2>1, <2>2, NodeTypes, Members DEF L, R
<1>4. /\ q \in Process /\ q.pc = "sendRight" /\ q.in = P(n).in /\ q.out = x
      /\ q.inbuf = P(n).inbuf /\ q.outbuf = P(n).outbuf
      /\ q.num1 = P(n).num1 /\ q.num2 = P(n).num2 /\ q.result = P(n).result
  BY <1>3 DEF Process, Points
<1>5. Started(x, x).inbuf = << >> /\ Started(x, x).pc = "num1"
  BY <1>3, StartedFields
<1> HIDE DEF q
<1>6. Forks(n, q, 1, x)
  BY <1>1, <1>3, Members, Names DEF ForkRight, ForkChild, Forks, P, L, R, q, Typed
<1>7. /\ P(n)' = q /\ W(n)' = W(n) /\ P(R(n))' = Started(x, x) /\ P(L(n))' = P(L(n))
      /\ ~Leaf(n) /\ ~Alone(n) /\ maxDepth # 0 /\ Len(n) =< maxDepth
      /\ args' = args /\ maxDepth' = maxDepth /\ Side(n)' = Side(n)
      /\ Inner(n)' = Inner(n) /\ Low(n)' = Low(n) /\ Leaf(n)' = Leaf(n)
      /\ \A t, a, b : Compute(t, a, b)' = Compute(t, a, b)
  <2> HIDE DEF x
  <2> QED BY <1>2, <1>3, <1>4, <1>6, ForkFacts
<1>8. Labels(n)'
  BY <1>1, <1>2, <1>3, <1>4, <1>5, <1>7
     DEF Labels, LabelsOf, WorkerLabels, LeftLabels, RightLabels, Early, DeepLabels, LowLabels
<1>9. Ends(n)'
  BY <1>1, <1>2, <1>4, <1>7
     DEF NodeInv, Labels, WorkerLabels, Ends, InOf, OutOf, WorkerIn, WorkerOut, Up, Early
<1>10. WorkerFlow(n)'
  BY <1>4, <1>7 DEF WorkerFlow
<1>11. LeftFlow(n)'
  BY <1>1, <1>2, <1>3, <1>4, <1>5, <1>7 DEF NodeInv, LeftFlow, Early
<1>12. RightFlow(n)'
  BY <1>1, <1>2, <1>3, <1>4, <1>5, <1>7 DEF NodeInv, RightFlow, Early
<1>13. RootFlow(n)'
  BY <1>1, <1>2, <1>4, <1>7, InnerRootKept DEF Early
<1> QED BY <1>1, <1>2, <1>3, <1>4, <1>6, <1>8, <1>9, <1>10, <1>11, <1>12, <1>13, ForkStep
        DEF Early

-----------------------------------------------------------------------------
(* The steps of a worker, and of a node with its worker *)

\* n becomes q and its worker w; the pipes written are x, if it is their own, or up.
OwnWrites(n, q, w, x, s) ==
  /\ proc' = [proc EXCEPT ![Worker(n)] = w, ![Node(n)] = q]
  /\ pipe' = [pipe EXCEPT ![x] = s]
  /\ UNCHANGED args

OwnPipes(n) == {Pipe(n, "alone"), Pipe(n, "left"), Pipe(n, "work"), Pipe(n, "right")}

LEMMA OwnPipesNamed ==
  ASSUME Typed, NEW n \in Nodes, Len(n) =< maxDepth
  PROVE  /\ OwnPipes(n) \subseteq Pipes /\ Up(n) \in Pipes /\ Up(n) \notin OwnPipes(n)
         /\ Tty \in Pipes /\ Tty \notin OwnPipes(n)
         /\ Pipe(n, "alone") # Pipe(n, "left") /\ Pipe(n, "alone") # Pipe(n, "work")
         /\ Pipe(n, "alone") # Pipe(n, "right") /\ Pipe(n, "left") # Pipe(n, "work")
         /\ Pipe(n, "left") # Pipe(n, "right") /\ Pipe(n, "work") # Pipe(n, "right")
<1>1. OwnPipes(n) \subseteq Pipes /\ Tty \in Pipes
  BY Members DEF OwnPipes
<1>2. Up(n) \in Pipes /\ Up(n) \notin OwnPipes(n)
  BY UpIsElsewhere DEF OwnPipes
<1>3. Tty \notin OwnPipes(n)
  BY Names DEF OwnPipes
<1>4. /\ Pipe(n, "alone") # Pipe(n, "left") /\ Pipe(n, "alone") # Pipe(n, "work")
      /\ Pipe(n, "alone") # Pipe(n, "right") /\ Pipe(n, "left") # Pipe(n, "work")
      /\ Pipe(n, "left") # Pipe(n, "right") /\ Pipe(n, "work") # Pipe(n, "right")
  BY DEF Pipe
<1> QED BY <1>1, <1>2, <1>3, <1>4

\* What such a step leaves as it was.
LEMMA OwnFacts ==
  ASSUME Typed, NEW n \in Nodes, Labels(n), P(n).pc # "none", NEW q \in Process,
         NEW w \in Process, NEW x \in OwnPipes(n) \cup {Up(n)}, NEW s \in Seq(Int),
         OwnWrites(n, q, w, x, s), final' \in Seq(Int), n # Root => UNCHANGED final
  PROVE  /\ P(n)' = q /\ W(n)' = w /\ Typed' /\ OnlyAt(n)
         /\ \A c \in Nodes : c # n => UNCHANGED P(c)
         /\ Inner(n) => P(L(n))' = P(L(n)) /\ P(R(n))' = P(R(n))
         /\ pipe'[x] = s /\ \A y \in OwnPipes(n) \cup {Up(n), Tty} : y # x => pipe'[y] = pipe[y]
         /\ args' = args /\ maxDepth' = maxDepth /\ Side(n)' = Side(n)
         /\ Inner(n)' = Inner(n) /\ Low(n)' = Low(n) /\ Leaf(n)' = Leaf(n)
         /\ Alone(n)' = Alone(n)
         /\ \A t, a, b : Compute(t, a, b)' = Compute(t, a, b)
         /\ Len(n) =< maxDepth
<1>1. /\ proc' = [proc EXCEPT ![Worker(n)] = w, ![Node(n)] = q] /\ proc \in [Procs -> Process]
  BY DEF OwnWrites, Typed
<1>2. /\ P(n)' = q /\ W(n)' = w /\ proc' \in [Procs -> Process]
      /\ \A c \in Nodes : c # n => P(c)' = P(c)
      /\ \A p \in Procs : p # Node(n) /\ p # Worker(n) => proc'[p] = proc[p]
  BY <1>1, Members, Names DEF P, W
<1>3. Inner(n) => P(L(n))' = P(L(n)) /\ P(R(n))' = P(R(n))
  BY <1>2, InnerChildren
<1>4. Len(n) =< maxDepth
  BY Where
<1>5. OwnPipes(n) \subseteq Pipes /\ Up(n) \in Pipes /\ Tty \in Pipes
  BY <1>4, OwnPipesNamed
<1>6. /\ pipe'[x] = s /\ pipe' \in [Pipes -> Seq(Int)]
      /\ \A y \in Pipes : y # x => pipe'[y] = pipe[y]
  BY <1>5, PipeWritten DEF OwnWrites
<1>7. \A y \in OwnPipes(n) \cup {Up(n), Tty} : y # x => pipe'[y] = pipe[y]
  BY <1>5, <1>6
<1>8. Typed'
  BY <1>2, <1>6 DEF Typed, OwnWrites
<1>9. OnlyAt(n)
  BY <1>2, <1>6 DEF OnlyAt, OwnWrites, OwnPipes
<1>10. /\ args' = args /\ maxDepth' = maxDepth /\ Side(n)' = Side(n)
       /\ Inner(n)' = Inner(n) /\ Low(n)' = Low(n) /\ Leaf(n)' = Leaf(n)
       /\ Alone(n)' = Alone(n)
       /\ \A t, a, b : Compute(t, a, b)' = Compute(t, a, b)
  BY Frame DEF OwnWrites
<1> QED BY <1>2, <1>3, <1>4, <1>6, <1>7, <1>8, <1>9, <1>10

LEMMA Kinds ==
  ASSUME Typed, NEW n \in Nodes, Labels(n), P(n).pc # "none"
  PROVE  /\ \/ Inner(n) /\ ~Leaf(n) /\ ~Alone(n) /\ maxDepth # 0
            \/ Leaf(n) /\ ~Inner(n) /\ ~Low(n) /\ ~Alone(n) /\ maxDepth # 0 /\ n # Root
            \/ Alone(n) /\ Leaf(n) /\ ~Inner(n) /\ ~Low(n) /\ maxDepth = 0 /\ n = Root
         /\ Alone(n) <=> maxDepth = 0
<1>1. /\ Len(n) =< maxDepth /\ (maxDepth = 0 => Alone(n)) /\ Len(n) \in Nat /\ maxDepth \in Nat
      /\ n = Root <=> Len(n) = 0
  BY Where, Depths, NodeIsSeq
<1> QED BY <1>1 DEF Inner, Leaf, Low, Alone

\* A worker that has its pair to read, in its pipe or its buffer.
LEMMA WorkerReads ==
  ASSUME Typed, TreeInv, NEW n \in Nodes, W(n).pc \in {"num1", "num2", "answer"},
         W(n).pc = "num1" => W(n).inbuf # << >> \/ pipe[W(n).in] # << >>
  PROVE  /\ P(n).pc \in {"workerWait", "aloneWait"}
         /\ W(n).in = WorkerIn(n) /\ W(n).out = WorkerOut(n) /\ WorkerIn(n) \in OwnPipes(n)
         /\ P(n).pc = "workerWait" => Leaf(n) \/ Low(n)
         /\ P(n).pc = "aloneWait" => Alone(n)
<1>1. NodeInv(n) /\ Labels(n)
  BY DEF TreeInv, NodeInv
<1>2. P(n).pc \in {"give", "aloneGive", "workerWait", "aloneWait"}
  BY <1>1 DEF Labels, WorkerLabels
<1>3. W(n).in = WorkerIn(n) /\ W(n).out = WorkerOut(n)
  BY <1>1 DEF NodeInv, Ends
<1>4. P(n).pc \in {"give", "aloneGive"} =>
        W(n).pc = "num1" /\ W(n).inbuf = << >> /\ pipe[WorkerIn(n)] = << >>
  BY <1>1 DEF NodeInv, WorkerFlow, Labels, WorkerLabels
<1>5. WorkerIn(n) \in OwnPipes(n)
  BY DEF WorkerIn, OwnPipes
<1>6. P(n).pc \in {"workerWait", "aloneWait"}
  BY <1>2, <1>3, <1>4
<1> QED BY <1>1, <1>3, <1>5, <1>6, Where DEF Ending

LEMMA FillWorker ==
  ASSUME Typed, TreeInv, NEW n \in Nodes, Fill(Worker(n))
  PROVE  Typed' /\ TreeInv'
<1> DEFINE x == WorkerIn(n)
           w == [W(n) EXCEPT !.inbuf = pipe[x]]
<1>1. NodeInv(n) /\ Labels(n) /\ W(n).inbuf = << >> /\ UNCHANGED <<args, final>>
  BY DEF TreeInv, NodeInv, Fill, W
<1>2. /\ P(n).pc \in {"workerWait", "aloneWait"} /\ W(n).in = x /\ x \in OwnPipes(n)
      /\ P(n).pc = "workerWait" => Leaf(n) \/ Low(n)
      /\ P(n).pc = "aloneWait" => Alone(n)
      /\ W(n).pc \in {"num1", "num2"}
  <2>1. W(n).pc \in {"num1", "num2"} /\ pipe[W(n).in] # << >>
    BY <1>1 DEF Fill, W, Scans, Labels, WorkerLabels
  <2> QED BY <2>1, WorkerReads
<1>3. /\ P(n) \in Process /\ W(n) \in Process /\ << >> \in Seq(Int) /\ pipe[x] \in Seq(Int)
      /\ x \in Pipes /\ Pair(n) = <<P(n).num1, P(n).num2>>
  BY <1>2, NodeTypes, Members, Joined DEF OwnPipes
<1>4. W(n).pc = "num1" /\ pipe[x] = Pair(n)
  BY <1>1, <1>2 DEF NodeInv, WorkerFlow, Has
<1>5. /\ w \in Process /\ w.pc = "num1" /\ w.in = W(n).in /\ w.out = W(n).out
      /\ w.inbuf = Pair(n)
  <2>1. w \in Process
    BY <1>3 DEF Process
  <2> QED BY <1>3, <1>4, <2>1 DEF Process
<1> HIDE DEF w, x
<1>6. OwnWrites(n, P(n), w, x, << >>)
  BY <1>2, <1>3, Members, Names DEF Fill, P, W, Typed, OwnWrites, w, x
<1>7. /\ P(n)' = P(n) /\ W(n)' = w /\ Typed' /\ OnlyAt(n)
      /\ \A c \in Nodes : c # n => UNCHANGED P(c)
      /\ Inner(n) => P(L(n))' = P(L(n)) /\ P(R(n))' = P(R(n))
      /\ pipe'[x] = << >> /\ \A y \in OwnPipes(n) \cup {Up(n), Tty} : y # x => pipe'[y] = pipe[y]
      /\ args' = args /\ maxDepth' = maxDepth /\ Side(n)' = Side(n)
      /\ Inner(n)' = Inner(n) /\ Low(n)' = Low(n) /\ Leaf(n)' = Leaf(n)
      /\ Alone(n)' = Alone(n) /\ Len(n) =< maxDepth
      /\ \A t, a, b : Compute(t, a, b)' = Compute(t, a, b)
  <2> DEFINE q == P(n)
             s == << >>
  <2>1. final' \in Seq(Int) /\ P(n).pc # "none" /\ (n # Root => UNCHANGED final)
    BY <1>1, <1>2 DEF Typed
  <2>2. q \in Process /\ s \in Seq(Int) /\ x \in OwnPipes(n) \cup {Up(n)}
    BY <1>2, <1>3
  <2>3. OwnWrites(n, q, w, x, s)
    BY <1>6
  <2>4. q = P(n) /\ s = << >>
    OBVIOUS
  <2> HIDE DEF q, s
  <2> QED BY <1>1, <1>5, <2>1, <2>2, <2>3, <2>4, OwnFacts
<1>8. Labels(n)'
  BY <1>1, <1>2, <1>4, <1>5, <1>7
  DEF Labels, LabelsOf, WorkerLabels, LeftLabels, RightLabels, Early, DeepLabels,
      LowLabels, Ending, LeafLabels, AloneLabels
<1>9. WorkerIn(n)' = x /\ Pair(n)' = Pair(n)
  BY <1>7 DEF WorkerIn, Pair, P, x
<1>10. Ends(n)'
  BY <1>1, <1>2, <1>4, <1>5, <1>7 DEF NodeInv, Ends, InOf, OutOf, WorkerIn, WorkerOut, Up, x
<1>11. WorkerFlow(n)'
  BY <1>2, <1>5, <1>7, <1>9 DEF WorkerFlow, Has
<1>12. Up(n) \notin OwnPipes(n) /\ (P(n).pc = "aloneWait" => x = Pipe(n, "alone"))
       /\ (Inner(n) => x = Pipe(n, "left")) /\ Pipe(n, "work") # Pipe(n, "alone")
       /\ Pipe(n, "right") # Pipe(n, "left")
  <2>1. Inner(n) => ~Leaf(n) /\ ~Alone(n)
    BY <1>1, <1>2, Kinds
  <2> QED BY <1>2, <1>7, <2>1, OwnPipesNamed DEF WorkerIn, x
<1>13. LeafFlow(n)' /\ AloneFlow(n)'
  BY <1>1, <1>2, <1>5, <1>7, <1>12 DEF NodeInv, LeafFlow, AloneFlow, OwnPipes, Alone
<1>14. LeftFlow(n)'
  BY <1>1, <1>2, <1>5, <1>7, <1>12 DEF NodeInv, LeftFlow, Early, Alone
<1>15. RightFlow(n)'
  BY <1>1, <1>2, <1>5, <1>7, <1>12 DEF NodeInv, RightFlow, OwnPipes, Alone
<1>16. RootFlow(n)'
  BY <1>1, <1>2, <1>7 DEF NodeInv, RootFlow
<1>17. NodeInv(n)'
  BY <1>8, <1>10, <1>11, <1>13, <1>14, <1>15, <1>16 DEF NodeInv
<1>18. Quiet(n)
  <2>1. Output(n)' = Output(n)
    BY <1>2, <1>4, <1>5, <1>7 DEF Output, LeafDone
  <2> QED BY <1>2, <1>7, <1>12, <2>1 DEF Quiet, Early
<1> QED BY <1>7, <1>17, <1>18, OwnStep

LEMMA ScanNum1Worker ==
  ASSUME Typed, TreeInv, NEW n \in Nodes, ScanNum1(Worker(n))
  PROVE  Typed' /\ TreeInv'
<1> DEFINE x == WorkerIn(n)
           w == Scanned(Worker(n), "num1", "num2")
<1>1. /\ NodeInv(n) /\ Labels(n) /\ W(n).pc = "num1" /\ W(n).inbuf # << >>
      /\ UNCHANGED <<args, pipe, final>>
  BY DEF TreeInv, NodeInv, ScanNum1, CanScan, W
<1>2. /\ P(n).pc \in {"workerWait", "aloneWait"} /\ W(n).in = x /\ x \in OwnPipes(n)
      /\ P(n).pc = "workerWait" => Leaf(n) \/ Low(n)
      /\ P(n).pc = "aloneWait" => Alone(n)
  BY <1>1, WorkerReads
<1>3. /\ P(n) \in Process /\ W(n) \in Process /\ << >> \in Seq(Int) /\ pipe[x] \in Seq(Int)
      /\ x \in Pipes /\ Pair(n) = <<P(n).num1, P(n).num2>>
      /\ P(n).num1 \in Int /\ P(n).num2 \in Int
  <2>1. /\ P(n) \in Process /\ W(n) \in Process /\ << >> \in Seq(Int) /\ pipe[x] \in Seq(Int)
        /\ x \in Pipes /\ Pair(n) = <<P(n).num1, P(n).num2>>
    BY <1>2, NodeTypes, Members, Joined DEF OwnPipes
  <2> QED BY <2>1 DEF Process
<1>4. /\ W(n).inbuf = Pair(n) /\ pipe[x] = << >>
      /\ Head(W(n).inbuf) = P(n).num1 /\ Tail(W(n).inbuf) = <<P(n).num2>>
      /\ <<P(n).num2>> \in Seq(Int)
  <2>1. W(n).inbuf = Pair(n) /\ pipe[x] = << >>
    BY <1>1, <1>2 DEF NodeInv, WorkerFlow, Has
  <2> QED BY <1>3, <2>1, Tuples
<1>5. /\ w \in Process /\ w.pc = "num2" /\ w.in = W(n).in /\ w.out = W(n).out
      /\ w.num1 = P(n).num1 /\ w.inbuf = <<P(n).num2>>
  <2>1. W(n) = proc[Worker(n)]
    BY DEF W
  <2> QED BY <1>3, <1>4, <2>1 DEF Process, Points, Scanned, Number

<1> HIDE DEF w, x
<1>6. OwnWrites(n, P(n), w, x, pipe[x])
  BY <1>1, <1>2, <1>3, PipeKept, Members, Names
  DEF ScanNum1, Node, Worker, P, W, Typed, OwnWrites, w
<1>7. /\ P(n)' = P(n) /\ W(n)' = w /\ Typed' /\ OnlyAt(n)
      /\ \A c \in Nodes : c # n => UNCHANGED P(c)
      /\ Inner(n) => P(L(n))' = P(L(n)) /\ P(R(n))' = P(R(n))
      /\ pipe'[x] = pipe[x]
      /\ \A y \in OwnPipes(n) \cup {Up(n), Tty} : y # x => pipe'[y] = pipe[y]
      /\ args' = args /\ maxDepth' = maxDepth /\ Side(n)' = Side(n)
      /\ Inner(n)' = Inner(n) /\ Low(n)' = Low(n) /\ Leaf(n)' = Leaf(n)
      /\ Alone(n)' = Alone(n) /\ Len(n) =< maxDepth
      /\ \A t, a, b : Compute(t, a, b)' = Compute(t, a, b)
  <2> DEFINE q == P(n)
             s == pipe[x]
  <2>1. final' \in Seq(Int) /\ P(n).pc # "none" /\ (n # Root => UNCHANGED final)
    BY <1>1, <1>2 DEF Typed
  <2>2. q \in Process /\ s \in Seq(Int) /\ x \in OwnPipes(n) \cup {Up(n)}
    BY <1>2, <1>3
  <2>3. OwnWrites(n, q, w, x, s)
    BY <1>6
  <2>4. q = P(n) /\ s = pipe[x]
    OBVIOUS
  <2> HIDE DEF q, s
  <2> QED BY <1>1, <1>5, <2>1, <2>2, <2>3, <2>4, OwnFacts
<1>8. Labels(n)'
  BY <1>1, <1>2, <1>4, <1>5, <1>7
  DEF Labels, LabelsOf, WorkerLabels, LeftLabels, RightLabels, Early, DeepLabels,
      LowLabels, Ending, LeafLabels, AloneLabels
<1>9. WorkerIn(n)' = x /\ Pair(n)' = Pair(n)
  BY <1>7 DEF WorkerIn, Pair, P, x
<1>10. Ends(n)'
  BY <1>1, <1>2, <1>4, <1>5, <1>7 DEF NodeInv, Ends, InOf, OutOf, WorkerIn, WorkerOut, Up, x
<1>11. WorkerFlow(n)'
  BY <1>1, <1>2, <1>3, <1>4, <1>5, <1>7, <1>9 DEF WorkerFlow, Has
<1>12. Up(n) \notin OwnPipes(n) /\ (P(n).pc = "aloneWait" => x = Pipe(n, "alone"))
       /\ (Inner(n) => x = Pipe(n, "left")) /\ Pipe(n, "work") # Pipe(n, "alone")
       /\ Pipe(n, "right") # Pipe(n, "left")
  <2>1. Inner(n) => ~Leaf(n) /\ ~Alone(n)
    BY <1>1, <1>2, Kinds
  <2> QED BY <1>2, <1>7, <2>1, OwnPipesNamed DEF WorkerIn, x
<1>13. LeafFlow(n)' /\ AloneFlow(n)'
  BY <1>1, <1>2, <1>5, <1>7, <1>12 DEF NodeInv, LeafFlow, AloneFlow, OwnPipes, Alone
<1>14. LeftFlow(n)'
  BY <1>1, <1>2, <1>5, <1>7, <1>12 DEF NodeInv, LeftFlow, Early, Alone
<1>15. RightFlow(n)'
  BY <1>1, <1>2, <1>5, <1>7, <1>12 DEF NodeInv, RightFlow, OwnPipes, Alone
<1>16. RootFlow(n)'
  BY <1>1, <1>2, <1>7 DEF NodeInv, RootFlow
<1>17. NodeInv(n)'
  BY <1>8, <1>10, <1>11, <1>13, <1>14, <1>15, <1>16 DEF NodeInv
<1>18. Quiet(n)
  <2>1. Output(n)' = Output(n)
    BY <1>1, <1>2, <1>4, <1>5, <1>7 DEF Output, LeafDone
  <2> QED BY <1>2, <1>7, <1>12, <2>1 DEF Quiet, Early
<1> QED BY <1>7, <1>17, <1>18, OwnStep

LEMMA ScanNum2Worker ==
  ASSUME Typed, TreeInv, NEW n \in Nodes, ScanNum2(Worker(n))
  PROVE  Typed' /\ TreeInv'
<1> DEFINE x == WorkerIn(n)
           w == Scanned(Worker(n), "num2", "answer")
<1>1. /\ NodeInv(n) /\ Labels(n) /\ W(n).pc = "num2" /\ W(n).inbuf # << >>
      /\ UNCHANGED <<args, pipe, final>>
  BY DEF TreeInv, NodeInv, ScanNum2, CanScan, W
<1>2. /\ P(n).pc \in {"workerWait", "aloneWait"} /\ W(n).in = x /\ x \in OwnPipes(n)
      /\ P(n).pc = "workerWait" => Leaf(n) \/ Low(n)
      /\ P(n).pc = "aloneWait" => Alone(n)
  BY <1>1, WorkerReads
<1>3. /\ P(n) \in Process /\ W(n) \in Process /\ << >> \in Seq(Int) /\ pipe[x] \in Seq(Int)
      /\ x \in Pipes /\ Pair(n) = <<P(n).num1, P(n).num2>>
      /\ P(n).num1 \in Int /\ P(n).num2 \in Int
  <2>1. /\ P(n) \in Process /\ W(n) \in Process /\ << >> \in Seq(Int) /\ pipe[x] \in Seq(Int)
        /\ x \in Pipes /\ Pair(n) = <<P(n).num1, P(n).num2>>
    BY <1>2, NodeTypes, Members, Joined DEF OwnPipes
  <2> QED BY <2>1 DEF Process
<1>4. /\ W(n).inbuf = <<P(n).num2>> /\ pipe[x] = << >> /\ W(n).num1 = P(n).num1
      /\ Head(W(n).inbuf) = P(n).num2 /\ Tail(W(n).inbuf) = << >>
  <2>1. W(n).inbuf = <<P(n).num2>> /\ pipe[x] = << >> /\ W(n).num1 = P(n).num1
    BY <1>1, <1>2 DEF NodeInv, WorkerFlow
  <2> QED BY <1>3, <2>1, Tuples
<1>5. /\ w \in Process /\ w.pc = "answer" /\ w.in = W(n).in /\ w.out = W(n).out
      /\ w.num1 = P(n).num1 /\ w.num2 = P(n).num2
  <2>1. W(n) = proc[Worker(n)]
    BY DEF W
  <2> QED BY <1>3, <1>4, <2>1 DEF Process, Points, Scanned, Number

<1> HIDE DEF w, x
<1>6. OwnWrites(n, P(n), w, x, pipe[x])
  BY <1>1, <1>2, <1>3, PipeKept, Members, Names DEF ScanNum2, Worker, P, W, Typed, OwnWrites, w
<1>7. /\ P(n)' = P(n) /\ W(n)' = w /\ Typed' /\ OnlyAt(n)
      /\ \A c \in Nodes : c # n => UNCHANGED P(c)
      /\ Inner(n) => P(L(n))' = P(L(n)) /\ P(R(n))' = P(R(n))
      /\ pipe'[x] = pipe[x]
      /\ \A y \in OwnPipes(n) \cup {Up(n), Tty} : y # x => pipe'[y] = pipe[y]
      /\ args' = args /\ maxDepth' = maxDepth /\ Side(n)' = Side(n)
      /\ Inner(n)' = Inner(n) /\ Low(n)' = Low(n) /\ Leaf(n)' = Leaf(n)
      /\ Alone(n)' = Alone(n) /\ Len(n) =< maxDepth
      /\ \A t, a, b : Compute(t, a, b)' = Compute(t, a, b)
  <2> DEFINE q == P(n)
             s == pipe[x]
  <2>1. final' \in Seq(Int) /\ P(n).pc # "none" /\ (n # Root => UNCHANGED final)
    BY <1>1, <1>2 DEF Typed
  <2>2. q \in Process /\ s \in Seq(Int) /\ x \in OwnPipes(n) \cup {Up(n)}
    BY <1>2, <1>3
  <2>3. OwnWrites(n, q, w, x, s)
    BY <1>6
  <2>4. q = P(n) /\ s = pipe[x]
    OBVIOUS
  <2> HIDE DEF q, s
  <2> QED BY <1>1, <1>5, <2>1, <2>2, <2>3, <2>4, OwnFacts
<1>8. Labels(n)'
  BY <1>1, <1>2, <1>4, <1>5, <1>7
  DEF Labels, LabelsOf, WorkerLabels, LeftLabels, RightLabels, Early, DeepLabels,
      LowLabels, Ending, LeafLabels, AloneLabels
<1>9. WorkerIn(n)' = x /\ Pair(n)' = Pair(n)
  BY <1>7 DEF WorkerIn, Pair, P, x
<1>10. Ends(n)'
  BY <1>1, <1>2, <1>4, <1>5, <1>7 DEF NodeInv, Ends, InOf, OutOf, WorkerIn, WorkerOut, Up, x
<1>11. WorkerFlow(n)'
  BY <1>1, <1>2, <1>3, <1>4, <1>5, <1>7, <1>9 DEF WorkerFlow, Has
<1>12. Up(n) \notin OwnPipes(n) /\ (P(n).pc = "aloneWait" => x = Pipe(n, "alone"))
       /\ (Inner(n) => x = Pipe(n, "left")) /\ Pipe(n, "work") # Pipe(n, "alone")
       /\ Pipe(n, "right") # Pipe(n, "left")
  <2>1. Inner(n) => ~Leaf(n) /\ ~Alone(n)
    BY <1>1, <1>2, Kinds
  <2> QED BY <1>2, <1>7, <2>1, OwnPipesNamed DEF WorkerIn, x
<1>13. LeafFlow(n)' /\ AloneFlow(n)'
  BY <1>1, <1>2, <1>5, <1>7, <1>12 DEF NodeInv, LeafFlow, AloneFlow, OwnPipes, Alone
<1>14. LeftFlow(n)'
  BY <1>1, <1>2, <1>5, <1>7, <1>12 DEF NodeInv, LeftFlow, Early, Alone
<1>15. RightFlow(n)'
  BY <1>1, <1>2, <1>5, <1>7, <1>12 DEF NodeInv, RightFlow, OwnPipes, Alone
<1>16. RootFlow(n)'
  BY <1>1, <1>2, <1>7 DEF NodeInv, RootFlow
<1>17. NodeInv(n)'
  BY <1>8, <1>10, <1>11, <1>13, <1>14, <1>15, <1>16 DEF NodeInv
<1>18. Quiet(n)
  <2>1. Output(n)' = Output(n)
    BY <1>1, <1>2, <1>4, <1>5, <1>7 DEF Output, LeafDone
  <2> QED BY <1>2, <1>7, <1>12, <2>1 DEF Quiet, Early
<1> QED BY <1>7, <1>17, <1>18, OwnStep

LEMMA AnswerStep ==
  ASSUME Typed, TreeInv, NEW n \in Nodes, Answer(n)
  PROVE  Typed' /\ TreeInv'
<1> DEFINE x == WorkerOut(n)
           w == [W(n) EXCEPT !.pc = "exited"]
           s == pipe[x] \o <<Answered(n)>>
<1>1. NodeInv(n) /\ Labels(n) /\ W(n).pc = "answer" /\ UNCHANGED <<args, final>>
  BY DEF TreeInv, NodeInv, Answer, W
<1>2. /\ P(n).pc \in {"workerWait", "aloneWait"} /\ W(n).out = x /\ WorkerIn(n) \in OwnPipes(n)
      /\ P(n).pc = "workerWait" => Leaf(n) \/ Low(n)
      /\ P(n).pc = "aloneWait" => Alone(n)
  BY <1>1, WorkerReads
<1>3. /\ \/ Inner(n) /\ ~Leaf(n) /\ ~Alone(n) /\ maxDepth # 0
         \/ Leaf(n) /\ ~Inner(n) /\ ~Low(n) /\ ~Alone(n) /\ maxDepth # 0 /\ n # Root
         \/ Alone(n) /\ Leaf(n) /\ ~Inner(n) /\ ~Low(n) /\ maxDepth = 0 /\ n = Root
      /\ Len(n) =< maxDepth
  BY <1>1, <1>2, Kinds, Where
<1>4. /\ P(n) \in Process /\ W(n) \in Process /\ Answered(n) \in Int
      /\ x \in OwnPipes(n) \cup {Up(n)} /\ x \in Pipes /\ pipe[x] \in Seq(Int) /\ s \in Seq(Int)
      /\ << >> \o <<Answered(n)>> = <<Answered(n)>>
  <2>1. P(n) \in Process /\ W(n) \in Process /\ Answered(n) \in Int
    BY NodeTypes
  <2>2. x \in OwnPipes(n) \cup {Up(n)}
    BY DEF WorkerOut, OwnPipes
  <2>3. x \in Pipes
    BY <1>3, <2>2, OwnPipesNamed
  <2>4. pipe[x] \in Seq(Int) /\ <<Answered(n)>> \in Seq(Int)
    BY <2>1, <2>3, Tuples DEF Typed
  <2>5. s \in Seq(Int) /\ << >> \o <<Answered(n)>> = <<Answered(n)>>
    BY <2>4, Joined
  <2> QED BY <2>1, <2>2, <2>3, <2>4, <2>5
<1>5. W(n).num1 = P(n).num1 /\ W(n).num2 = P(n).num2 /\ pipe[WorkerIn(n)] = << >>
  BY <1>1, <1>2 DEF NodeInv, WorkerFlow
<1>6. w \in Process /\ w.pc = "exited"
  BY <1>4 DEF Process, Points
<1> HIDE DEF w, x, s
<1>7. OwnWrites(n, P(n), w, x, s)
  <2>1. Compute(Side(n), proc[Worker(n)].num1, proc[Worker(n)].num2) = Answered(n)
    BY <1>5 DEF Answered, W
  <2> QED BY <1>1, <1>2, <1>4, <2>1, Members, Names
         DEF Answer, Write, P, W, Typed, OwnWrites, w, s
<1>8. /\ P(n)' = P(n) /\ W(n)' = w /\ Typed' /\ OnlyAt(n)
      /\ \A c \in Nodes : c # n => UNCHANGED P(c)
      /\ Inner(n) => P(L(n))' = P(L(n)) /\ P(R(n))' = P(R(n))
      /\ pipe'[x] = s
      /\ \A y \in OwnPipes(n) \cup {Up(n), Tty} : y # x => pipe'[y] = pipe[y]
      /\ args' = args /\ maxDepth' = maxDepth /\ Side(n)' = Side(n)
      /\ Inner(n)' = Inner(n) /\ Low(n)' = Low(n) /\ Leaf(n)' = Leaf(n)
      /\ Alone(n)' = Alone(n) /\ Len(n) =< maxDepth
      /\ \A t, a, b : Compute(t, a, b)' = Compute(t, a, b)
  <2> DEFINE q == P(n)
  <2>1. final' \in Seq(Int) /\ P(n).pc # "none" /\ (n # Root => UNCHANGED final)
    BY <1>1, <1>2 DEF Typed
  <2>2. q \in Process /\ s \in Seq(Int) /\ OwnWrites(n, q, w, x, s) /\ q = P(n)
    BY <1>4, <1>7
  <2> HIDE DEF q
  <2> QED BY <1>1, <1>4, <1>6, <2>1, <2>2, OwnFacts
<1>9. /\ Up(n) \notin OwnPipes(n) /\ Pipe(n, "work") # Pipe(n, "alone")
      /\ Pipe(n, "right") # Pipe(n, "left") /\ Pipe(n, "right") \in OwnPipes(n)
      /\ Pipe(n, "work") \in OwnPipes(n)
      /\ Alone(n) => x = Pipe(n, "alone")
      /\ Inner(n) => x = Pipe(n, "left")
      /\ Leaf(n) /\ ~Alone(n) => x = Up(n)
  BY <1>3, OwnPipesNamed DEF WorkerOut, OwnPipes, x
<1>10. Labels(n)'
  BY <1>1, <1>2, <1>6, <1>8
  DEF Labels, LabelsOf, WorkerLabels, LeftLabels, RightLabels, Early, DeepLabels,
      LowLabels, Ending, LeafLabels, AloneLabels
<1>11. Answered(n)' = Answered(n)
  BY <1>8 DEF Answered
<1>12. Ends(n)' /\ WorkerFlow(n)'
  <2>1. Ends(n)'
    BY <1>1, <1>2, <1>6, <1>8 DEF NodeInv, Ends, InOf, OutOf, Up
  <2>2. WorkerFlow(n)'
    BY <1>2, <1>6, <1>8 DEF WorkerFlow
  <2> QED BY <2>1, <2>2
<1>13. LeafFlow(n)'
  BY <1>1, <1>2, <1>8, <1>9 DEF NodeInv, LeafFlow
<1>14. AloneFlow(n)'
  <2>1. Alone(n) /\ P(n).pc = "aloneWait" => pipe'[x] = <<Answered(n)>>
    BY <1>4, <1>5, <1>8, <1>9 DEF WorkerIn, s
  <2> QED BY <1>1, <1>2, <1>8, <1>9, <1>11, <2>1 DEF NodeInv, AloneFlow, Alone
<1>15. LeftFlow(n)'
  <2>1. Inner(n) => pipe'[x] = <<Answered(n)>>
    BY <1>2, <1>3, <1>4, <1>5, <1>8, <1>9 DEF WorkerIn, s
  <2> QED BY <1>1, <1>2, <1>3, <1>8, <1>9, <1>11, <2>1 DEF NodeInv, LeftFlow, Early
<1>16. RightFlow(n)' /\ RootFlow(n)'
  <2>1. RightFlow(n)'
    BY <1>1, <1>2, <1>3, <1>8, <1>9 DEF NodeInv, RightFlow
  <2>2. RootFlow(n)'
    BY <1>1, <1>2, <1>8 DEF NodeInv, RootFlow
  <2> QED BY <2>1, <2>2
<1>17. NodeInv(n)'
  BY <1>10, <1>12, <1>13, <1>14, <1>15, <1>16 DEF NodeInv
<1>18. Quiet(n)
  <2>1. SUFFICES ASSUME n # Root, pipe[Up(n)] = Output(n) PROVE pipe'[Up(n)] = Output(n)'
    BY <1>2, <1>8 DEF Quiet, Early
  <2>2. CASE Inner(n)
    <3>1. Output(n) = << >> /\ Output(n)' = << >>
      BY <1>3, <1>8, <2>2 DEF Output, LeafDone
    <3>2. pipe'[Up(n)] = pipe[Up(n)]
      BY <1>8, <1>9, <2>2 DEF OwnPipes
    <3> QED BY <2>1, <3>1, <3>2
  <2>3. CASE Leaf(n)
    <3>1. P(n).pc = "workerWait" /\ x = Up(n)
      BY <1>2, <1>3, <1>9, <2>1, <2>3 DEF Alone
    <3>2. Output(n) = << >> /\ Output(n)' = <<Answered(n)>>
      BY <1>1, <1>6, <1>8, <1>11, <2>3, <3>1 DEF Output, LeafDone
    <3> QED BY <1>4, <1>8, <2>1, <3>1, <3>2 DEF s
  <2> QED BY <1>3, <2>2, <2>3
<1> QED BY <1>8, <1>17, <1>18, OwnStep

LEMMA ForkWorkerInner ==
  ASSUME Typed, TreeInv, NEW n \in Nodes, ForkWorker(n), Inner(n)
  PROVE  Typed' /\ TreeInv'
<1> DEFINE x == Pipe(n, "left")
           q == [P(n) EXCEPT !.pc = "give"]
           w == Started(x, x)
           s == << >>
<1>1. NodeInv(n) /\ Labels(n) /\ P(n).pc = "work" /\ UNCHANGED <<args, final>>
  BY DEF TreeInv, NodeInv, ForkWorker, P
<1>2. Inner(n) /\ Low(n) /\ ~Leaf(n) /\ ~Alone(n) /\ maxDepth # 0
  BY <1>1, Kinds, Where DEF Ending
<1>3. /\ P(n) \in Process /\ x \in OwnPipes(n) \cup {Up(n)} /\ x \in OwnPipes(n)
      /\ x \in Pipes /\ s \in Seq(Int) /\ Up(n) \notin OwnPipes(n)
      /\ P(n).in = x /\ P(n).out = x /\ pipe[x] = << >> /\ Pipe(n, "left") # Pipe(n, "right")
      /\ Pipe(n, "right") \in OwnPipes(n)
  <2>1. P(n).in = x /\ P(n).out = x
    BY <1>1, <1>2 DEF NodeInv, Ends, InOf, OutOf, Early
  <2>2. pipe[x] = << >>
    BY <1>1, <1>2 DEF NodeInv, LeftFlow
  <2>3. Len(n) =< maxDepth
    BY <1>1, Where
  <2>4. x \in OwnPipes(n) /\ Pipe(n, "right") \in OwnPipes(n)
    BY DEF OwnPipes
  <2> QED BY <2>1, <2>2, <2>3, <2>4, NodeTypes, OwnPipesNamed
<1>4. /\ q \in Process /\ q.pc = "give" /\ q.in = P(n).in /\ q.out = P(n).out
      /\ q.inbuf = P(n).inbuf /\ q.outbuf = P(n).outbuf
      /\ q.num1 = P(n).num1 /\ q.num2 = P(n).num2 /\ q.result = P(n).result
      /\ w \in Process /\ w.pc = "num1" /\ w.in = x /\ w.out = x /\ w.inbuf = << >>
  <2>1. w \in Process /\ w.pc = "num1" /\ w.in = x /\ w.out = x /\ w.inbuf = << >>
    BY <1>3, StartedFields
  <2>2. P(n) \in Process
    BY <1>3
  <2> QED BY <2>1, <2>2 DEF Process, Points
<1>5. s = << >>
  BY <1>3
<1> HIDE DEF q, w, s
<1>6. OwnWrites(n, q, w, x, s)
  BY <1>1, <1>2, <1>3, PipeKept, Members, Names
     DEF ForkWorker, P, W, Typed, OwnWrites, q, w, s
<1>7. /\ P(n)' = q /\ W(n)' = w /\ Typed' /\ OnlyAt(n)
      /\ \A c \in Nodes : c # n => UNCHANGED P(c)
      /\ Inner(n) => P(L(n))' = P(L(n)) /\ P(R(n))' = P(R(n))
      /\ pipe'[x] = s
      /\ \A y \in OwnPipes(n) \cup {Up(n), Tty} : y # x => pipe'[y] = pipe[y]
      /\ args' = args /\ maxDepth' = maxDepth /\ Side(n)' = Side(n)
      /\ Inner(n)' = Inner(n) /\ Low(n)' = Low(n) /\ Leaf(n)' = Leaf(n)
      /\ Alone(n)' = Alone(n) /\ Len(n) =< maxDepth
      /\ \A t, a, b : Compute(t, a, b)' = Compute(t, a, b)
  <2>1. P(n).pc # "none" /\ final' \in Seq(Int) /\ (n # Root => UNCHANGED final)
    BY <1>1 DEF Typed
  <2>2. q \in Process /\ w \in Process /\ x \in OwnPipes(n) \cup {Up(n)} /\ s \in Seq(Int)
    BY <1>3, <1>4
  <2> HIDE DEF x
  <2> QED BY <1>1, <1>6, <2>1, <2>2, OwnFacts
<1>8. Labels(n)'
  BY <1>1, <1>2, <1>3, <1>4, <1>5, <1>7
  DEF Labels, LabelsOf, WorkerLabels, LeftLabels, RightLabels, Early, DeepLabels,
      LowLabels, Ending, LeafLabels, AloneLabels
<1>9. Ends(n)'
  BY <1>1, <1>2, <1>3, <1>4, <1>5, <1>7
     DEF NodeInv, Ends, InOf, OutOf, WorkerIn, WorkerOut, Up, Early, Alone
<1>10. WorkerFlow(n)'
  BY <1>2, <1>3, <1>4, <1>5, <1>7 DEF WorkerFlow, WorkerIn
<1>11. LeafFlow(n)' /\ AloneFlow(n)'
  BY <1>2, <1>7 DEF LeafFlow, AloneFlow, Alone
<1>12. LeftFlow(n)'
  BY <1>1, <1>2, <1>3, <1>4, <1>5, <1>7 DEF NodeInv, Labels, LeftLabels, LeftFlow, Has, Early
<1>13. RightFlow(n)'
  BY <1>1, <1>2, <1>3, <1>4, <1>5, <1>7 DEF NodeInv, RightFlow, Has, Early
<1>14. RootFlow(n)'
  BY <1>1, <1>2, <1>3, <1>4, <1>5, <1>7 DEF NodeInv, RootFlow, Alone
<1>15. NodeInv(n)'
  BY <1>8, <1>9, <1>10, <1>11, <1>12, <1>13, <1>14 DEF NodeInv
<1>16. Quiet(n)
  <2>1. Output(n)' = Output(n)
    BY <1>1, <1>2, <1>3, <1>4, <1>5, <1>7 DEF Output, LeafDone
  <2>2. pipe'[Up(n)] = pipe[Up(n)]
    BY <1>3, <1>7 DEF OwnPipes
  <2> QED BY <1>1, <1>4, <1>7, <2>1, <2>2 DEF Quiet, Early
<1> QED BY <1>7, <1>15, <1>16, OwnStep

LEMMA ForkWorkerLeaf ==
  ASSUME Typed, TreeInv, NEW n \in Nodes, ForkWorker(n), Leaf(n)
  PROVE  Typed' /\ TreeInv'
<1> DEFINE x == Pipe(n, "work")
           q == [P(n) EXCEPT !.out = x, !.num2 = 1, !.pc = "give"]
           w == Started(x, WorkerOut(n))
           s == << >>
<1>1. NodeInv(n) /\ Labels(n) /\ P(n).pc = "work" /\ UNCHANGED <<args, final>>
  BY DEF TreeInv, NodeInv, ForkWorker, P
<1>2. Leaf(n) /\ ~Inner(n) /\ ~Low(n) /\ (Alone(n) <=> maxDepth = 0) /\ (n = Root <=> Alone(n))
  BY <1>1, Kinds, Where DEF Ending
<1>3. /\ P(n) \in Process /\ x \in OwnPipes(n) \cup {Up(n)} /\ x \in OwnPipes(n)
      /\ x \in Pipes /\ s \in Seq(Int) /\ Up(n) \notin OwnPipes(n)
      /\ P(n).out = WorkerOut(n) /\ WorkerOut(n) \in Pipes /\ pipe[x] = << >>
      /\ Pipe(n, "alone") \in OwnPipes(n) /\ Pipe(n, "alone") # Pipe(n, "work")
  <2>1. P(n).out = WorkerOut(n)
    BY <1>1, <1>2 DEF NodeInv, Ends, OutOf, WorkerOut, Early
  <2>2. pipe[x] = << >>
    BY <1>1, <1>2 DEF NodeInv, LeafFlow
  <2>3. Len(n) =< maxDepth
    BY <1>1, Where
  <2>4. x \in OwnPipes(n) /\ Pipe(n, "alone") \in OwnPipes(n)
    BY DEF OwnPipes
  <2>5. P(n) \in Process
    BY NodeTypes
  <2>6. WorkerOut(n) \in Pipes
    BY <2>1, <2>5 DEF Process
  <2> QED BY <2>1, <2>2, <2>3, <2>4, <2>5, <2>6, NodeTypes, OwnPipesNamed
<1>4. /\ q \in Process /\ q.pc = "give" /\ q.in = P(n).in /\ q.out = x
      /\ q.inbuf = P(n).inbuf /\ q.outbuf = P(n).outbuf
      /\ q.num1 = P(n).num1 /\ q.num2 = 1 /\ q.result = P(n).result
      /\ w \in Process /\ w.pc = "num1" /\ w.in = x /\ w.out = WorkerOut(n) /\ w.inbuf = << >>
  <2>1. /\ w \in Process /\ w.pc = "num1" /\ w.in = x /\ w.out = WorkerOut(n)
        /\ w.inbuf = << >>
    BY <1>3, StartedFields
  <2>2. P(n) \in Process /\ x \in Pipes
    BY <1>3
  <2>3. "give" \in Points /\ 1 \in Int
    BY DEF Points
  <2>4. q \in Process
    BY <2>2, <2>3 DEF Process
  <2> QED BY <2>1, <2>2, <2>4 DEF Process
<1>5. s = << >>
  BY <1>3
<1> HIDE DEF q, w, s
<1>6. OwnWrites(n, q, w, x, s)
  BY <1>1, <1>2, <1>3, PipeKept, Members, Names
     DEF ForkWorker, P, W, Typed, OwnWrites, q, w, s
<1>7. /\ P(n)' = q /\ W(n)' = w /\ Typed' /\ OnlyAt(n)
      /\ \A c \in Nodes : c # n => UNCHANGED P(c)
      /\ Inner(n) => P(L(n))' = P(L(n)) /\ P(R(n))' = P(R(n))
      /\ pipe'[x] = s
      /\ \A y \in OwnPipes(n) \cup {Up(n), Tty} : y # x => pipe'[y] = pipe[y]
      /\ args' = args /\ maxDepth' = maxDepth /\ Side(n)' = Side(n)
      /\ Inner(n)' = Inner(n) /\ Low(n)' = Low(n) /\ Leaf(n)' = Leaf(n)
      /\ Alone(n)' = Alone(n) /\ Len(n) =< maxDepth
      /\ \A t, a, b : Compute(t, a, b)' = Compute(t, a, b)
  <2>1. P(n).pc # "none" /\ final' \in Seq(Int) /\ (n # Root => UNCHANGED final)
    BY <1>1 DEF Typed
  <2>2. q \in Process /\ w \in Process /\ x \in OwnPipes(n) \cup {Up(n)} /\ s \in Seq(Int)
    BY <1>3, <1>4
  <2> HIDE DEF x
  <2> QED BY <1>1, <1>6, <2>1, <2>2, OwnFacts
<1>8. Labels(n)'
  BY <1>1, <1>2, <1>3, <1>4, <1>5, <1>7
  DEF Labels, LabelsOf, WorkerLabels, LeftLabels, RightLabels, Early, DeepLabels,
      LowLabels, Ending, LeafLabels, AloneLabels
<1>9. Ends(n)'
  BY <1>1, <1>2, <1>3, <1>4, <1>5, <1>7
     DEF NodeInv, Ends, InOf, OutOf, WorkerIn, WorkerOut, Up, Early, Alone
<1>10. WorkerFlow(n)'
  BY <1>1, <1>2, <1>3, <1>4, <1>5, <1>7 DEF WorkerFlow, WorkerIn, Alone
<1>11. LeafFlow(n)'
  BY <1>1, <1>2, <1>3, <1>4, <1>5, <1>7 DEF NodeInv, LeafFlow
<1>12. AloneFlow(n)'
  BY <1>1, <1>2, <1>3, <1>4, <1>5, <1>7 DEF NodeInv, AloneFlow, Alone, Ending
<1>13. LeftFlow(n)' /\ RightFlow(n)'
  BY <1>2, <1>7 DEF LeftFlow, RightFlow
<1>14. RootFlow(n)'
  BY <1>1, <1>2, <1>3, <1>4, <1>5, <1>7 DEF NodeInv, RootFlow, Alone
<1>15. NodeInv(n)'
  BY <1>8, <1>9, <1>10, <1>11, <1>12, <1>13, <1>14 DEF NodeInv
<1>16. Quiet(n)
  <2>1. Output(n)' = Output(n)
    BY <1>1, <1>2, <1>3, <1>4, <1>5, <1>7 DEF Output, LeafDone
  <2>2. pipe'[Up(n)] = pipe[Up(n)]
    BY <1>3, <1>7 DEF OwnPipes
  <2> QED BY <1>1, <1>4, <1>7, <2>1, <2>2 DEF Quiet, Early
<1> QED BY <1>7, <1>15, <1>16, OwnStep

LEMMA GiveLeaf ==
  ASSUME Typed, TreeInv, NEW n \in Nodes, GiveWorker(n), Leaf(n)
  PROVE  Typed' /\ TreeInv'
<1> DEFINE x == Pipe(n, "work")
           q == [P(n) EXCEPT !.outbuf = << >>, !.pc = "workerWait"]
           w == W(n)
           s == Pair(n)
<1>1. NodeInv(n) /\ Labels(n) /\ P(n).pc = "give" /\ UNCHANGED <<args, final>>
  BY DEF TreeInv, NodeInv, GiveWorker, Give, P
<1>2. Leaf(n) /\ ~Inner(n) /\ ~Low(n) /\ (Alone(n) <=> maxDepth = 0) /\ (n = Root <=> Alone(n))
  BY <1>1, Kinds, Where DEF Ending
<1>3. /\ P(n) \in Process /\ W(n) \in Process /\ x \in OwnPipes(n) \cup {Up(n)}
      /\ x \in OwnPipes(n) /\ x \in Pipes /\ s \in Seq(Int) /\ Up(n) \notin OwnPipes(n)
      /\ Pipe(n, "alone") \in OwnPipes(n) /\ Pipe(n, "alone") # Pipe(n, "work")
      /\ w = W(n)
      /\ P(n).out = x /\ pipe[x] \o (P(n).outbuf \o Pair(n)) = s
  <2>1. Len(n) =< maxDepth
    BY <1>1, Where
  <2>2. x \in OwnPipes(n) /\ Pipe(n, "alone") \in OwnPipes(n)
    BY DEF OwnPipes
  <2>3. P(n) \in Process /\ W(n) \in Process /\ pipe[x] \in Seq(Int)
    BY NodeTypes
  <2>4. P(n).out = x
    BY <1>1, <1>2 DEF NodeInv, Ends, OutOf, Early
  <2>5. pipe[x] = << >> /\ P(n).outbuf = << >>
    BY <1>1, <1>2 DEF NodeInv, LeafFlow
  <2>6. pipe[x] \o (P(n).outbuf \o Pair(n)) = s
    BY <2>5, NodeTypes, Joined
  <2> QED BY <2>1, <2>2, <2>3, <2>4, <2>6, NodeTypes, OwnPipesNamed
<1>4. /\ q \in Process /\ q.pc = "workerWait" /\ q.in = P(n).in /\ q.out = P(n).out
      /\ q.inbuf = P(n).inbuf /\ q.outbuf = << >>
      /\ q.num1 = P(n).num1 /\ q.num2 = P(n).num2 /\ q.result = P(n).result
  <2>1. P(n) \in Process /\ << >> \in Seq(Int)
    BY <1>3
  <2>2. q \in Process
    BY <2>1 DEF Process, Points
  <2> QED BY <2>1, <2>2 DEF Process
<1>5. /\ s = Pair(n) /\ Pair(n) = <<P(n).num1, P(n).num2>>
      /\ W(n).pc = "num1" /\ W(n).inbuf = << >>
  BY <1>1, NodeTypes DEF NodeInv, Labels, WorkerLabels, WorkerFlow
<1> HIDE DEF q, w, s
<1>6. OwnWrites(n, q, w, x, s)
  BY <1>1, <1>2, <1>3, PipeKept, Members, Names
     DEF GiveWorker, Give, Write, P, W, Typed, OwnWrites, q, w, s
<1>7. /\ P(n)' = q /\ W(n)' = w /\ Typed' /\ OnlyAt(n)
      /\ \A c \in Nodes : c # n => UNCHANGED P(c)
      /\ Inner(n) => P(L(n))' = P(L(n)) /\ P(R(n))' = P(R(n))
      /\ pipe'[x] = s
      /\ \A y \in OwnPipes(n) \cup {Up(n), Tty} : y # x => pipe'[y] = pipe[y]
      /\ args' = args /\ maxDepth' = maxDepth /\ Side(n)' = Side(n)
      /\ Inner(n)' = Inner(n) /\ Low(n)' = Low(n) /\ Leaf(n)' = Leaf(n)
      /\ Alone(n)' = Alone(n) /\ Len(n) =< maxDepth
      /\ \A t, a, b : Compute(t, a, b)' = Compute(t, a, b)
  <2>1. P(n).pc # "none" /\ final' \in Seq(Int) /\ (n # Root => UNCHANGED final)
    BY <1>1 DEF Typed
  <2>2. q \in Process /\ w \in Process /\ x \in OwnPipes(n) \cup {Up(n)} /\ s \in Seq(Int)
    BY <1>3, <1>4
  <2> HIDE DEF x
  <2> QED BY <1>1, <1>6, <2>1, <2>2, OwnFacts
<1>8. Labels(n)'
  BY <1>1, <1>2, <1>3, <1>4, <1>5, <1>7
  DEF Labels, LabelsOf, WorkerLabels, LeftLabels, RightLabels, Early, DeepLabels,
      LowLabels, Ending, LeafLabels, AloneLabels
<1>9. Ends(n)'
  BY <1>1, <1>2, <1>3, <1>4, <1>5, <1>7
     DEF NodeInv, Ends, InOf, OutOf, WorkerIn, WorkerOut, Up, Early, Alone
<1>10. WorkerFlow(n)'
  <2>1. Pair(n)' = Pair(n)
    BY <1>4, <1>5, <1>7 DEF Pair, P
  <2> QED BY <1>2, <1>3, <1>4, <1>5, <1>7, <2>1 DEF WorkerFlow, WorkerIn, Has
<1>11. LeafFlow(n)'
  BY <1>1, <1>2, <1>3, <1>4, <1>5, <1>7 DEF NodeInv, LeafFlow
<1>12. AloneFlow(n)'
  BY <1>1, <1>2, <1>3, <1>4, <1>5, <1>7 DEF NodeInv, AloneFlow, Alone, Ending
<1>13. LeftFlow(n)' /\ RightFlow(n)'
  BY <1>2, <1>7 DEF LeftFlow, RightFlow
<1>14. RootFlow(n)'
  BY <1>1, <1>2, <1>3, <1>4, <1>5, <1>7 DEF NodeInv, RootFlow, Alone
<1>15. NodeInv(n)'
  BY <1>8, <1>9, <1>10, <1>11, <1>12, <1>13, <1>14 DEF NodeInv
<1>16. Quiet(n)
  <2>1. Output(n)' = Output(n)
    BY <1>1, <1>2, <1>3, <1>4, <1>5, <1>7 DEF Output, LeafDone
  <2>2. pipe'[Up(n)] = pipe[Up(n)]
    BY <1>3, <1>7 DEF OwnPipes
  <2> QED BY <1>1, <1>4, <1>7, <2>1, <2>2 DEF Quiet, Early
<1> QED BY <1>7, <1>15, <1>16, OwnStep

LEMMA WaitWorkerLeaf ==
  ASSUME Typed, TreeInv, NEW n \in Nodes, WaitWorker(n), Leaf(n)
  PROVE  Typed' /\ TreeInv'
<1> DEFINE x == Pipe(n, "work")
           q == [P(n) EXCEPT !.pc = "exit"]
           w == W(n)
           s == pipe[x]
<1>1. NodeInv(n) /\ Labels(n) /\ P(n).pc = "workerWait" /\ UNCHANGED <<args, final>>
  BY DEF TreeInv, NodeInv, WaitWorker, WaitFor, P
<1>2. Leaf(n) /\ ~Inner(n) /\ ~Low(n) /\ (Alone(n) <=> maxDepth = 0) /\ (n = Root <=> Alone(n))
  BY <1>1, Kinds, Where DEF Ending
<1>3. /\ P(n) \in Process /\ W(n) \in Process /\ x \in OwnPipes(n) \cup {Up(n)}
      /\ x \in OwnPipes(n) /\ x \in Pipes /\ s \in Seq(Int) /\ Up(n) \notin OwnPipes(n)
      /\ Pipe(n, "alone") \in OwnPipes(n) /\ Pipe(n, "alone") # Pipe(n, "work")
      /\ w = W(n)
      /\ W(n).pc = "exited"
  <2>1. Len(n) =< maxDepth
    BY <1>1, Where
  <2>2. x \in OwnPipes(n) /\ Pipe(n, "alone") \in OwnPipes(n)
    BY DEF OwnPipes
  <2>3. P(n) \in Process /\ W(n) \in Process /\ pipe[x] \in Seq(Int)
    BY NodeTypes
  <2>4. W(n).pc = "exited"
    BY DEF WaitWorker, WaitFor, Exited, W
  <2> QED BY <2>1, <2>2, <2>3, <2>4, NodeTypes, OwnPipesNamed
<1>4. /\ q \in Process /\ q.pc = "exit" /\ q.in = P(n).in /\ q.out = P(n).out
      /\ q.inbuf = P(n).inbuf /\ q.outbuf = P(n).outbuf
      /\ q.num1 = P(n).num1 /\ q.num2 = P(n).num2 /\ q.result = P(n).result
  BY <1>3 DEF Process, Points
<1>5. s = pipe[x] /\ (n # Root => maxDepth # 0)
  BY <1>2
<1> HIDE DEF q, w, s
<1>6. OwnWrites(n, q, w, x, s)
  BY <1>1, <1>2, <1>3, PipeKept, Members, Names
     DEF WaitWorker, WaitFor, P, W, Typed, OwnWrites, q, w, s
<1>7. /\ P(n)' = q /\ W(n)' = w /\ Typed' /\ OnlyAt(n)
      /\ \A c \in Nodes : c # n => UNCHANGED P(c)
      /\ Inner(n) => P(L(n))' = P(L(n)) /\ P(R(n))' = P(R(n))
      /\ pipe'[x] = s
      /\ \A y \in OwnPipes(n) \cup {Up(n), Tty} : y # x => pipe'[y] = pipe[y]
      /\ args' = args /\ maxDepth' = maxDepth /\ Side(n)' = Side(n)
      /\ Inner(n)' = Inner(n) /\ Low(n)' = Low(n) /\ Leaf(n)' = Leaf(n)
      /\ Alone(n)' = Alone(n) /\ Len(n) =< maxDepth
      /\ \A t, a, b : Compute(t, a, b)' = Compute(t, a, b)
  <2>1. P(n).pc # "none" /\ final' \in Seq(Int) /\ (n # Root => UNCHANGED final)
    BY <1>1 DEF Typed
  <2>2. q \in Process /\ w \in Process /\ x \in OwnPipes(n) \cup {Up(n)} /\ s \in Seq(Int)
    BY <1>3, <1>4
  <2> HIDE DEF x
  <2> QED BY <1>1, <1>6, <2>1, <2>2, OwnFacts
<1>8. Labels(n)'
  BY <1>1, <1>2, <1>3, <1>4, <1>5, <1>7
  DEF Labels, LabelsOf, WorkerLabels, LeftLabels, RightLabels, Early, DeepLabels,
      LowLabels, Ending, LeafLabels, AloneLabels
<1>9. Ends(n)'
  BY <1>1, <1>2, <1>3, <1>4, <1>5, <1>7
     DEF NodeInv, Ends, InOf, OutOf, WorkerIn, WorkerOut, Up, Early, Alone
<1>10. WorkerFlow(n)'
  BY <1>1, <1>2, <1>3, <1>4, <1>5, <1>7 DEF WorkerFlow, WorkerIn, Alone
<1>11. LeafFlow(n)'
  BY <1>1, <1>2, <1>3, <1>4, <1>5, <1>7 DEF NodeInv, LeafFlow
<1>12. AloneFlow(n)'
  BY <1>1, <1>2, <1>3, <1>4, <1>5, <1>7 DEF NodeInv, AloneFlow, Alone, Ending
<1>13. LeftFlow(n)' /\ RightFlow(n)'
  BY <1>2, <1>7 DEF LeftFlow, RightFlow
<1>14. RootFlow(n)'
  BY <1>1, <1>2, <1>3, <1>4, <1>5, <1>7 DEF NodeInv, RootFlow, Alone
<1>15. NodeInv(n)'
  BY <1>8, <1>9, <1>10, <1>11, <1>12, <1>13, <1>14 DEF NodeInv
<1>16. Quiet(n)
  <2>1. Output(n)' = Output(n)
    <3>1. Answered(n)' = Answered(n)
      BY <1>4, <1>7 DEF Answered
    <3> QED BY <1>1, <1>2, <1>3, <1>4, <1>7, <3>1 DEF Output, LeafDone
  <2>2. pipe'[Up(n)] = pipe[Up(n)]
    BY <1>3, <1>7
  <2> QED BY <1>1, <1>4, <1>7, <2>1, <2>2 DEF Quiet, Early
<1> QED BY <1>7, <1>15, <1>16, OwnStep

LEMMA ExitLeaf ==
  ASSUME Typed, TreeInv, NEW n \in Nodes, Exit(n), Leaf(n)
  PROVE  Typed' /\ TreeInv'
<1> DEFINE x == Pipe(n, "work")
           q == [P(n) EXCEPT !.outbuf = << >>, !.pc = "exited"]
           w == W(n)
           s == pipe[x]
<1>1. NodeInv(n) /\ Labels(n) /\ P(n).pc = "exit" /\ UNCHANGED <<args, final>>
  <2>1. Labels(n) /\ P(n).pc = "exit"
    BY DEF TreeInv, NodeInv, Exit, P
  <2>2. n = Root => maxDepth = 0
    BY <2>1, Kinds
  <2> QED BY <2>1, <2>2 DEF TreeInv, NodeInv, Exit
<1>2. Leaf(n) /\ ~Inner(n) /\ ~Low(n) /\ (Alone(n) <=> maxDepth = 0) /\ (n = Root <=> Alone(n))
  BY <1>1, Kinds, Where DEF Ending
<1>3. /\ P(n) \in Process /\ W(n) \in Process /\ x \in OwnPipes(n) \cup {Up(n)}
      /\ x \in OwnPipes(n) /\ x \in Pipes /\ s \in Seq(Int) /\ Up(n) \notin OwnPipes(n)
      /\ Pipe(n, "alone") \in OwnPipes(n) /\ Pipe(n, "alone") # Pipe(n, "work")
      /\ w = W(n)
      /\ P(n).out = x /\ pipe[x] \o P(n).outbuf = pipe[x]
  <2>1. Len(n) =< maxDepth
    BY <1>1, Where
  <2>2. x \in OwnPipes(n) /\ Pipe(n, "alone") \in OwnPipes(n)
    BY DEF OwnPipes
  <2>3. P(n) \in Process /\ W(n) \in Process /\ pipe[x] \in Seq(Int)
    BY NodeTypes
  <2>4. P(n).out = x
    BY <1>1, <1>2 DEF NodeInv, Ends, OutOf, Early
  <2>5. pipe[x] \o P(n).outbuf = pipe[x]
    BY <1>1, <1>2, <2>3, Joined DEF NodeInv, LeafFlow
  <2> QED BY <2>1, <2>2, <2>3, <2>4, <2>5, NodeTypes, OwnPipesNamed
<1>4. /\ q \in Process /\ q.pc = "exited" /\ q.in = P(n).in /\ q.out = P(n).out
      /\ q.inbuf = P(n).inbuf /\ q.outbuf = << >>
      /\ q.num1 = P(n).num1 /\ q.num2 = P(n).num2 /\ q.result = P(n).result
  <2>1. P(n) \in Process /\ << >> \in Seq(Int)
    BY <1>3
  <2>2. q \in Process
    BY <2>1 DEF Process, Points
  <2> QED BY <2>1, <2>2 DEF Process
<1>5. s = pipe[x] /\ W(n).pc = "exited"
  BY <1>1 DEF Labels, WorkerLabels
<1> HIDE DEF q, w, s
<1>6. OwnWrites(n, q, w, x, s)
  BY <1>1, <1>2, <1>3, PipeKept, Members, Names
     DEF Exit, Write, P, W, Typed, OwnWrites, q, w, s
<1>7. /\ P(n)' = q /\ W(n)' = w /\ Typed' /\ OnlyAt(n)
      /\ \A c \in Nodes : c # n => UNCHANGED P(c)
      /\ Inner(n) => P(L(n))' = P(L(n)) /\ P(R(n))' = P(R(n))
      /\ pipe'[x] = s
      /\ \A y \in OwnPipes(n) \cup {Up(n), Tty} : y # x => pipe'[y] = pipe[y]
      /\ args' = args /\ maxDepth' = maxDepth /\ Side(n)' = Side(n)
      /\ Inner(n)' = Inner(n) /\ Low(n)' = Low(n) /\ Leaf(n)' = Leaf(n)
      /\ Alone(n)' = Alone(n) /\ Len(n) =< maxDepth
      /\ \A t, a, b : Compute(t, a, b)' = Compute(t, a, b)
  <2>1. P(n).pc # "none" /\ final' \in Seq(Int) /\ (n # Root => UNCHANGED final)
    BY <1>1 DEF Typed
  <2>2. q \in Process /\ w \in Process /\ x \in OwnPipes(n) \cup {Up(n)} /\ s \in Seq(Int)
    BY <1>3, <1>4
  <2> HIDE DEF x
  <2> QED BY <1>1, <1>6, <2>1, <2>2, OwnFacts
<1>8. Labels(n)'
  BY <1>1, <1>2, <1>3, <1>4, <1>5, <1>7
  DEF Labels, LabelsOf, WorkerLabels, LeftLabels, RightLabels, Early, DeepLabels,
      LowLabels, Ending, LeafLabels, AloneLabels
<1>9. Ends(n)'
  BY <1>1, <1>2, <1>3, <1>4, <1>5, <1>7
     DEF NodeInv, Ends, InOf, OutOf, WorkerIn, WorkerOut, Up, Early, Alone
<1>10. WorkerFlow(n)'
  BY <1>1, <1>2, <1>3, <1>4, <1>5, <1>7 DEF WorkerFlow, WorkerIn, Alone
<1>11. LeafFlow(n)'
  BY <1>1, <1>2, <1>3, <1>4, <1>5, <1>7 DEF NodeInv, LeafFlow
<1>12. AloneFlow(n)'
  BY <1>1, <1>2, <1>3, <1>4, <1>5, <1>7 DEF NodeInv, AloneFlow, Alone, Ending
<1>13. LeftFlow(n)' /\ RightFlow(n)'
  BY <1>2, <1>7 DEF LeftFlow, RightFlow
<1>14. RootFlow(n)'
  BY <1>1, <1>2, <1>3, <1>4, <1>5, <1>7 DEF NodeInv, RootFlow, Alone
<1>15. NodeInv(n)'
  BY <1>8, <1>9, <1>10, <1>11, <1>12, <1>13, <1>14 DEF NodeInv
<1>16. Quiet(n)
  <2>1. Output(n)' = Output(n)
    <3>1. Answered(n)' = Answered(n)
      BY <1>4, <1>7 DEF Answered
    <3> QED BY <1>1, <1>2, <1>3, <1>4, <1>7, <3>1 DEF Output, LeafDone
  <2>2. pipe'[Up(n)] = pipe[Up(n)]
    BY <1>3, <1>7
  <2> QED BY <1>1, <1>4, <1>7, <2>1, <2>2 DEF Quiet, Early
<1> QED BY <1>7, <1>15, <1>16, OwnStep

LEMMA ForkAloneStep ==
  ASSUME Typed, TreeInv, NEW n \in Nodes, ForkAlone(n)
  PROVE  Typed' /\ TreeInv'
<1> DEFINE x == Pipe(n, "alone")
           q == [P(n) EXCEPT !.out = x, !.num2 = 1, !.pc = "aloneGive"]
           w == Started(x, x)
           s == pipe[x]
<1>1. NodeInv(n) /\ Labels(n) /\ P(n).pc = "alone" /\ UNCHANGED <<args, final>>
  BY DEF TreeInv, NodeInv, ForkAlone, P
<1>2. Alone(n) /\ Leaf(n) /\ ~Inner(n) /\ ~Low(n) /\ maxDepth = 0 /\ n = Root
  BY <1>1, Kinds, Where DEF Ending
<1>3. /\ P(n) \in Process /\ W(n) \in Process /\ x \in OwnPipes(n) \cup {Up(n)}
      /\ x \in OwnPipes(n) /\ x \in Pipes /\ s \in Seq(Int) /\ Up(n) \notin OwnPipes(n)
      /\ Pipe(n, "work") \in OwnPipes(n) /\ Pipe(n, "alone") # Pipe(n, "work")
  <2>1. Len(n) =< maxDepth
    BY <1>1, Where
  <2>2. x \in OwnPipes(n) /\ Pipe(n, "work") \in OwnPipes(n)
    BY DEF OwnPipes
  <2>3. P(n) \in Process /\ W(n) \in Process /\ pipe[x] \in Seq(Int)
    BY NodeTypes
  <2> QED BY <2>1, <2>2, <2>3, NodeTypes, OwnPipesNamed
<1>4. /\ q \in Process /\ q.pc = "aloneGive" /\ q.in = P(n).in /\ q.out = x
      /\ q.inbuf = P(n).inbuf /\ q.outbuf = P(n).outbuf
      /\ q.num1 = P(n).num1 /\ q.num2 = 1 /\ q.result = P(n).result
      /\ w \in Process /\ w.pc = "num1" /\ w.in = x /\ w.out = x /\ w.inbuf = << >>
  <2>1. w \in Process /\ w.pc = "num1" /\ w.in = x /\ w.out = x /\ w.inbuf = << >>
    BY <1>3, StartedFields
  <2>2. P(n) \in Process /\ x \in Pipes
    BY <1>3
  <2>3. "aloneGive" \in Points /\ 1 \in Int
    BY DEF Points
  <2>4. q \in Process
    BY <2>2, <2>3 DEF Process
  <2> QED BY <2>1, <2>2, <2>4 DEF Process
<1>5. s = pipe[x] /\ s = << >>
  BY <1>1, <1>2 DEF NodeInv, AloneFlow
<1> HIDE DEF q, w, s
<1>6. OwnWrites(n, q, w, x, s)
  BY <1>1, <1>2, <1>3, PipeKept, Members, Names
     DEF ForkAlone, P, W, Typed, OwnWrites, q, w, s
<1>7. /\ P(n)' = q /\ W(n)' = w /\ Typed' /\ OnlyAt(n)
      /\ \A c \in Nodes : c # n => UNCHANGED P(c)
      /\ Inner(n) => P(L(n))' = P(L(n)) /\ P(R(n))' = P(R(n))
      /\ pipe'[x] = s
      /\ \A y \in OwnPipes(n) \cup {Up(n), Tty} : y # x => pipe'[y] = pipe[y]
      /\ args' = args /\ maxDepth' = maxDepth /\ Side(n)' = Side(n)
      /\ Inner(n)' = Inner(n) /\ Low(n)' = Low(n) /\ Leaf(n)' = Leaf(n)
      /\ Alone(n)' = Alone(n) /\ Len(n) =< maxDepth
      /\ \A t, a, b : Compute(t, a, b)' = Compute(t, a, b)
  <2>1. P(n).pc # "none" /\ final' \in Seq(Int) /\ (n # Root => UNCHANGED final)
    BY <1>1 DEF Typed
  <2>2. q \in Process /\ w \in Process /\ x \in OwnPipes(n) \cup {Up(n)} /\ s \in Seq(Int)
    BY <1>3, <1>4
  <2> HIDE DEF x
  <2> QED BY <1>1, <1>6, <2>1, <2>2, OwnFacts
<1>8. Labels(n)'
  BY <1>1, <1>2, <1>3, <1>4, <1>5, <1>7
  DEF Labels, LabelsOf, WorkerLabels, LeftLabels, RightLabels, Early, DeepLabels,
      LowLabels, Ending, LeafLabels, AloneLabels
<1>9. Ends(n)'
  BY <1>1, <1>2, <1>3, <1>4, <1>5, <1>7
     DEF NodeInv, Ends, InOf, OutOf, WorkerIn, WorkerOut, Up, Early, Alone
<1>10. WorkerFlow(n)'
  BY <1>1, <1>2, <1>3, <1>4, <1>5, <1>7 DEF WorkerFlow, WorkerIn, Alone
<1>11. LeafFlow(n)'
  BY <1>1, <1>2, <1>3, <1>4, <1>5, <1>7 DEF NodeInv, LeafFlow
<1>12. AloneFlow(n)'
  BY <1>1, <1>2, <1>3, <1>4, <1>5, <1>7 DEF NodeInv, AloneFlow, Alone, Ending
<1>13. LeftFlow(n)' /\ RightFlow(n)'
  BY <1>2, <1>7 DEF LeftFlow, RightFlow
<1>14. RootFlow(n)'
  BY <1>1, <1>2, <1>3, <1>4, <1>5, <1>7 DEF NodeInv, RootFlow, Alone
<1>15. NodeInv(n)'
  BY <1>8, <1>9, <1>10, <1>11, <1>12, <1>13, <1>14 DEF NodeInv
<1>16. Quiet(n)
  BY <1>1, <1>2, <1>4, <1>7 DEF Quiet, Early
<1> QED BY <1>7, <1>15, <1>16, OwnStep

LEMMA GiveAloneStep ==
  ASSUME Typed, TreeInv, NEW n \in Nodes, GiveAlone(n)
  PROVE  Typed' /\ TreeInv'
<1> DEFINE x == Pipe(n, "alone")
           q == [P(n) EXCEPT !.outbuf = << >>, !.in = x, !.pc = "aloneWait"]
           w == W(n)
           s == Pair(n)
<1>1. NodeInv(n) /\ Labels(n) /\ P(n).pc = "aloneGive" /\ UNCHANGED <<args, final>>
  BY DEF TreeInv, NodeInv, GiveAlone, P
<1>2. Alone(n) /\ Leaf(n) /\ ~Inner(n) /\ ~Low(n) /\ maxDepth = 0 /\ n = Root
  BY <1>1, Kinds, Where DEF Ending
<1>3. /\ P(n) \in Process /\ W(n) \in Process /\ x \in OwnPipes(n) \cup {Up(n)}
      /\ x \in OwnPipes(n) /\ x \in Pipes /\ s \in Seq(Int) /\ Up(n) \notin OwnPipes(n)
      /\ Pipe(n, "work") \in OwnPipes(n) /\ Pipe(n, "alone") # Pipe(n, "work")
      /\ P(n).out = x /\ pipe[x] \o (P(n).outbuf \o Pair(n)) = s
  <2>1. Len(n) =< maxDepth
    BY <1>1, Where
  <2>2. x \in OwnPipes(n) /\ Pipe(n, "work") \in OwnPipes(n)
    BY DEF OwnPipes
  <2>3. P(n) \in Process /\ W(n) \in Process /\ pipe[x] \in Seq(Int)
    BY NodeTypes
  <2>4. P(n).out = x
    BY <1>1, <1>2 DEF NodeInv, Ends, OutOf
  <2>5. pipe[x] = << >> /\ P(n).outbuf = << >>
    BY <1>1, <1>2 DEF NodeInv, LeafFlow, AloneFlow
  <2>6. pipe[x] \o (P(n).outbuf \o Pair(n)) = s
    BY <2>5, NodeTypes, Joined
  <2> QED BY <2>1, <2>2, <2>3, <2>4, <2>6, NodeTypes, OwnPipesNamed
<1>4. /\ q \in Process /\ q.pc = "aloneWait" /\ q.in = x /\ q.out = P(n).out
      /\ q.inbuf = P(n).inbuf /\ q.outbuf = << >>
      /\ q.num1 = P(n).num1 /\ q.num2 = P(n).num2 /\ q.result = P(n).result /\ w = W(n)
  <2>1. P(n) \in Process /\ << >> \in Seq(Int) /\ x \in Pipes
    BY <1>3
  <2>2. "aloneWait" \in Points
    BY DEF Points
  <2>3. q \in Process
    BY <2>1, <2>2 DEF Process
  <2> QED BY <2>1, <2>3 DEF Process
<1>5. /\ s = Pair(n) /\ Pair(n) = <<P(n).num1, P(n).num2>>
      /\ W(n).pc = "num1" /\ W(n).inbuf = << >>
  BY <1>1, NodeTypes DEF NodeInv, Labels, WorkerLabels, WorkerFlow
<1> HIDE DEF q, w, s
<1>6. OwnWrites(n, q, w, x, s)
  BY <1>1, <1>2, <1>3, PipeKept, Members, Names
     DEF GiveAlone, Write, P, W, Typed, OwnWrites, q, w, s
<1>7. /\ P(n)' = q /\ W(n)' = w /\ Typed' /\ OnlyAt(n)
      /\ \A c \in Nodes : c # n => UNCHANGED P(c)
      /\ Inner(n) => P(L(n))' = P(L(n)) /\ P(R(n))' = P(R(n))
      /\ pipe'[x] = s
      /\ \A y \in OwnPipes(n) \cup {Up(n), Tty} : y # x => pipe'[y] = pipe[y]
      /\ args' = args /\ maxDepth' = maxDepth /\ Side(n)' = Side(n)
      /\ Inner(n)' = Inner(n) /\ Low(n)' = Low(n) /\ Leaf(n)' = Leaf(n)
      /\ Alone(n)' = Alone(n) /\ Len(n) =< maxDepth
      /\ \A t, a, b : Compute(t, a, b)' = Compute(t, a, b)
  <2>1. P(n).pc # "none" /\ final' \in Seq(Int) /\ (n # Root => UNCHANGED final)
    BY <1>1 DEF Typed
  <2>2. q \in Process /\ w \in Process /\ x \in OwnPipes(n) \cup {Up(n)} /\ s \in Seq(Int)
    BY <1>3, <1>4
  <2> HIDE DEF x
  <2> QED BY <1>1, <1>6, <2>1, <2>2, OwnFacts
<1>8. Labels(n)'
  BY <1>1, <1>2, <1>3, <1>4, <1>5, <1>7
  DEF Labels, LabelsOf, WorkerLabels, LeftLabels, RightLabels, Early, DeepLabels,
      LowLabels, Ending, LeafLabels, AloneLabels
<1>9. Ends(n)'
  BY <1>1, <1>2, <1>3, <1>4, <1>5, <1>7
     DEF NodeInv, Ends, InOf, OutOf, WorkerIn, WorkerOut, Up, Early, Alone
<1>10. WorkerFlow(n)'
  <2>1. Pair(n)' = Pair(n)
    BY <1>4, <1>5, <1>7 DEF Pair, P
  <2> QED BY <1>2, <1>3, <1>4, <1>5, <1>7, <2>1 DEF WorkerFlow, WorkerIn, Has
<1>11. LeafFlow(n)'
  BY <1>1, <1>2, <1>3, <1>4, <1>5, <1>7 DEF NodeInv, LeafFlow
<1>12. AloneFlow(n)'
  BY <1>1, <1>2, <1>3, <1>4, <1>5, <1>7 DEF NodeInv, AloneFlow, Alone, Ending
<1>13. LeftFlow(n)' /\ RightFlow(n)'
  BY <1>2, <1>7 DEF LeftFlow, RightFlow
<1>14. RootFlow(n)'
  BY <1>1, <1>2, <1>3, <1>4, <1>5, <1>7 DEF NodeInv, RootFlow, Alone
<1>15. NodeInv(n)'
  BY <1>8, <1>9, <1>10, <1>11, <1>12, <1>13, <1>14 DEF NodeInv
<1>16. Quiet(n)
  BY <1>1, <1>2, <1>4, <1>7 DEF Quiet, Early
<1> QED BY <1>7, <1>15, <1>16, OwnStep

LEMMA WaitAloneStep ==
  ASSUME Typed, TreeInv, NEW n \in Nodes, WaitAlone(n)
  PROVE  Typed' /\ TreeInv'
<1> DEFINE x == Pipe(n, "alone")
           q == [P(n) EXCEPT !.pc = "aloneResult"]
           w == W(n)
           s == pipe[x]
<1>1. NodeInv(n) /\ Labels(n) /\ P(n).pc = "aloneWait" /\ UNCHANGED <<args, final>>
  BY DEF TreeInv, NodeInv, WaitAlone, WaitFor, P
<1>2. Alone(n) /\ Leaf(n) /\ ~Inner(n) /\ ~Low(n) /\ maxDepth = 0 /\ n = Root
  BY <1>1, Kinds, Where DEF Ending
<1>3. /\ P(n) \in Process /\ W(n) \in Process /\ x \in OwnPipes(n) \cup {Up(n)}
      /\ x \in OwnPipes(n) /\ x \in Pipes /\ s \in Seq(Int) /\ Up(n) \notin OwnPipes(n)
      /\ Pipe(n, "work") \in OwnPipes(n) /\ Pipe(n, "alone") # Pipe(n, "work")
      /\ W(n).pc = "exited"
  <2>1. Len(n) =< maxDepth
    BY <1>1, Where
  <2>2. x \in OwnPipes(n) /\ Pipe(n, "work") \in OwnPipes(n)
    BY DEF OwnPipes
  <2>3. P(n) \in Process /\ W(n) \in Process /\ pipe[x] \in Seq(Int)
    BY NodeTypes
  <2>4. W(n).pc = "exited"
    BY DEF WaitAlone, WaitFor, Exited, W
  <2> QED BY <2>1, <2>2, <2>3, <2>4, NodeTypes, OwnPipesNamed
<1>4. /\ q \in Process /\ q.pc = "aloneResult" /\ q.in = P(n).in /\ q.out = P(n).out
      /\ q.inbuf = P(n).inbuf /\ q.outbuf = P(n).outbuf
      /\ q.num1 = P(n).num1 /\ q.num2 = P(n).num2 /\ q.result = P(n).result /\ w = W(n)
  BY <1>3 DEF Process, Points
<1>5. s = pipe[x]
  OBVIOUS
<1> HIDE DEF q, w, s
<1>6. OwnWrites(n, q, w, x, s)
  BY <1>1, <1>2, <1>3, PipeKept, Members, Names
     DEF WaitAlone, WaitFor, P, W, Typed, OwnWrites, q, w, s
<1>7. /\ P(n)' = q /\ W(n)' = w /\ Typed' /\ OnlyAt(n)
      /\ \A c \in Nodes : c # n => UNCHANGED P(c)
      /\ Inner(n) => P(L(n))' = P(L(n)) /\ P(R(n))' = P(R(n))
      /\ pipe'[x] = s
      /\ \A y \in OwnPipes(n) \cup {Up(n), Tty} : y # x => pipe'[y] = pipe[y]
      /\ args' = args /\ maxDepth' = maxDepth /\ Side(n)' = Side(n)
      /\ Inner(n)' = Inner(n) /\ Low(n)' = Low(n) /\ Leaf(n)' = Leaf(n)
      /\ Alone(n)' = Alone(n) /\ Len(n) =< maxDepth
      /\ \A t, a, b : Compute(t, a, b)' = Compute(t, a, b)
  <2>1. P(n).pc # "none" /\ final' \in Seq(Int) /\ (n # Root => UNCHANGED final)
    BY <1>1 DEF Typed
  <2>2. q \in Process /\ w \in Process /\ x \in OwnPipes(n) \cup {Up(n)} /\ s \in Seq(Int)
    BY <1>3, <1>4
  <2> HIDE DEF x
  <2> QED BY <1>1, <1>6, <2>1, <2>2, OwnFacts
<1>8. Labels(n)'
  BY <1>1, <1>2, <1>3, <1>4, <1>5, <1>7
  DEF Labels, LabelsOf, WorkerLabels, LeftLabels, RightLabels, Early, DeepLabels,
      LowLabels, Ending, LeafLabels, AloneLabels
<1>9. Ends(n)'
  BY <1>1, <1>2, <1>3, <1>4, <1>5, <1>7
     DEF NodeInv, Ends, InOf, OutOf, WorkerIn, WorkerOut, Up, Early, Alone
<1>10. WorkerFlow(n)'
  BY <1>1, <1>2, <1>3, <1>4, <1>5, <1>7 DEF WorkerFlow, WorkerIn, Alone
<1>11. LeafFlow(n)'
  BY <1>1, <1>2, <1>3, <1>4, <1>5, <1>7 DEF NodeInv, LeafFlow
<1>12. AloneFlow(n)'
  BY <1>1, <1>2, <1>3, <1>4, <1>5, <1>7
     DEF NodeInv, AloneFlow, Alone, Ending, Has, Answered
<1>13. LeftFlow(n)' /\ RightFlow(n)'
  BY <1>2, <1>7 DEF LeftFlow, RightFlow
<1>14. RootFlow(n)'
  BY <1>1, <1>2, <1>3, <1>4, <1>5, <1>7 DEF NodeInv, RootFlow, Alone
<1>15. NodeInv(n)'
  BY <1>8, <1>9, <1>10, <1>11, <1>12, <1>13, <1>14 DEF NodeInv
<1>16. Quiet(n)
  BY <1>1, <1>2, <1>4, <1>7 DEF Quiet, Early
<1> QED BY <1>7, <1>15, <1>16, OwnStep

LEMMA FillAlone ==
  ASSUME Typed, TreeInv, NEW n \in Nodes, Fill(Node(n)), P(n).pc = "aloneResult"
  PROVE  Typed' /\ TreeInv'
<1> DEFINE x == Pipe(n, "alone")
           q == [P(n) EXCEPT !.inbuf = pipe[x]]
           w == W(n)
           s == << >>
<1>1. NodeInv(n) /\ Labels(n) /\ P(n).pc = "aloneResult" /\ UNCHANGED <<args, final>>
  BY DEF TreeInv, NodeInv, Fill, P
<1>2. Alone(n) /\ Leaf(n) /\ ~Inner(n) /\ ~Low(n) /\ maxDepth = 0 /\ n = Root
  BY <1>1, Kinds, Where DEF Ending
<1>3. /\ P(n) \in Process /\ W(n) \in Process /\ x \in OwnPipes(n) \cup {Up(n)}
      /\ x \in OwnPipes(n) /\ x \in Pipes /\ s \in Seq(Int) /\ Up(n) \notin OwnPipes(n)
      /\ Pipe(n, "work") \in OwnPipes(n) /\ Pipe(n, "alone") # Pipe(n, "work")
      /\ P(n).in = x /\ P(n).inbuf = << >> /\ pipe[x] \in Seq(Int)
  <2>1. Len(n) =< maxDepth
    BY <1>1, Where
  <2>2. x \in OwnPipes(n) /\ Pipe(n, "work") \in OwnPipes(n)
    BY DEF OwnPipes
  <2>3. P(n) \in Process /\ W(n) \in Process /\ pipe[x] \in Seq(Int)
    BY NodeTypes
  <2>4. P(n).in = x /\ P(n).inbuf = << >>
    BY <1>1, <1>2 DEF NodeInv, Ends, InOf, Fill, P
  <2> QED BY <2>1, <2>2, <2>3, <2>4, Joined, NodeTypes, OwnPipesNamed
<1>4. /\ q \in Process /\ q.pc = "aloneResult" /\ q.in = P(n).in /\ q.out = P(n).out
      /\ q.inbuf = pipe[x] /\ q.outbuf = P(n).outbuf
      /\ q.num1 = P(n).num1 /\ q.num2 = P(n).num2 /\ q.result = P(n).result /\ w = W(n)
  <2>1. P(n) \in Process /\ pipe[x] \in Seq(Int)
    BY <1>3
  <2>2. q \in Process
    BY <2>1 DEF Process
  <2> QED BY <1>1, <2>1, <2>2 DEF Process
<1>5. s = << >>
  OBVIOUS
<1> HIDE DEF q, w, s
<1>6. OwnWrites(n, q, w, x, s)
  BY <1>1, <1>2, <1>3, PipeKept, Members, Names
     DEF Fill, P, W, Typed, OwnWrites, q, w, s
<1>7. /\ P(n)' = q /\ W(n)' = w /\ Typed' /\ OnlyAt(n)
      /\ \A c \in Nodes : c # n => UNCHANGED P(c)
      /\ Inner(n) => P(L(n))' = P(L(n)) /\ P(R(n))' = P(R(n))
      /\ pipe'[x] = s
      /\ \A y \in OwnPipes(n) \cup {Up(n), Tty} : y # x => pipe'[y] = pipe[y]
      /\ args' = args /\ maxDepth' = maxDepth /\ Side(n)' = Side(n)
      /\ Inner(n)' = Inner(n) /\ Low(n)' = Low(n) /\ Leaf(n)' = Leaf(n)
      /\ Alone(n)' = Alone(n) /\ Len(n) =< maxDepth
      /\ \A t, a, b : Compute(t, a, b)' = Compute(t, a, b)
  <2>1. P(n).pc # "none" /\ final' \in Seq(Int) /\ (n # Root => UNCHANGED final)
    BY <1>1 DEF Typed
  <2>2. q \in Process /\ w \in Process /\ x \in OwnPipes(n) \cup {Up(n)} /\ s \in Seq(Int)
    BY <1>3, <1>4
  <2> HIDE DEF x
  <2> QED BY <1>1, <1>6, <2>1, <2>2, OwnFacts
<1>8. Labels(n)'
  BY <1>1, <1>2, <1>3, <1>4, <1>5, <1>7
  DEF Labels, LabelsOf, WorkerLabels, LeftLabels, RightLabels, Early, DeepLabels,
      LowLabels, Ending, LeafLabels, AloneLabels
<1>9. Ends(n)'
  BY <1>1, <1>2, <1>3, <1>4, <1>5, <1>7
     DEF NodeInv, Ends, InOf, OutOf, WorkerIn, WorkerOut, Up, Early, Alone
<1>10. WorkerFlow(n)'
  BY <1>1, <1>2, <1>3, <1>4, <1>5, <1>7 DEF WorkerFlow, WorkerIn, Alone
<1>11. LeafFlow(n)'
  BY <1>1, <1>2, <1>3, <1>4, <1>5, <1>7 DEF NodeInv, LeafFlow
<1>12. AloneFlow(n)'
  BY <1>1, <1>2, <1>3, <1>4, <1>5, <1>7
     DEF NodeInv, AloneFlow, Alone, Ending, Has, Answered
<1>13. LeftFlow(n)' /\ RightFlow(n)'
  BY <1>2, <1>7 DEF LeftFlow, RightFlow
<1>14. RootFlow(n)'
  BY <1>1, <1>2, <1>3, <1>4, <1>5, <1>7 DEF NodeInv, RootFlow, Alone
<1>15. NodeInv(n)'
  BY <1>8, <1>9, <1>10, <1>11, <1>12, <1>13, <1>14 DEF NodeInv
<1>16. Quiet(n)
  BY <1>1, <1>2, <1>4, <1>7 DEF Quiet, Early
<1> QED BY <1>7, <1>15, <1>16, OwnStep

LEMMA ScanAloneStep ==
  ASSUME Typed, TreeInv, NEW n \in Nodes, ScanAlone(n)
  PROVE  Typed' /\ TreeInv'
<1> DEFINE x == Pipe(n, "alone")
           q == Scanned(Node(n), "result", "work")
           w == W(n)
           s == pipe[x]
<1>1. NodeInv(n) /\ Labels(n) /\ P(n).pc = "aloneResult" /\ UNCHANGED args
  BY DEF TreeInv, NodeInv, ScanAlone, CanScan, P
<1>2. Alone(n) /\ Leaf(n) /\ ~Inner(n) /\ ~Low(n) /\ maxDepth = 0 /\ n = Root
  BY <1>1, Kinds, Where DEF Ending
<1>3. /\ P(n) \in Process /\ W(n) \in Process /\ x \in OwnPipes(n) \cup {Up(n)}
      /\ x \in OwnPipes(n) /\ x \in Pipes /\ s \in Seq(Int) /\ Up(n) \notin OwnPipes(n)
      /\ Pipe(n, "work") \in OwnPipes(n) /\ Pipe(n, "alone") # Pipe(n, "work")
      /\ P(n).inbuf = <<Answered(n)>> /\ Answered(n) \in Int
      /\ Head(P(n).inbuf) = Answered(n) /\ Tail(P(n).inbuf) = << >>
      /\ final' = <<Compute(args.lr, args.input, 1)>>
      /\ Compute(args.lr, args.input, 1) \in Int
  <2>1. Len(n) =< maxDepth
    BY <1>1, Where
  <2>2. x \in OwnPipes(n) /\ Pipe(n, "work") \in OwnPipes(n)
    BY DEF OwnPipes
  <2>3. P(n) \in Process /\ W(n) \in Process /\ pipe[x] \in Seq(Int)
    BY NodeTypes
  <2>4. P(n).inbuf # << >> /\ final' = Append(final, Head(P(n).inbuf))
    BY DEF ScanAlone, CanScan, Number, P
  <2>5. P(n).inbuf = <<Answered(n)>> /\ final = << >> /\ Answered(n) \in Int
    BY <1>1, <1>2, <2>4, NodeTypes DEF NodeInv, AloneFlow, Has, Ending
  <2>6. Head(P(n).inbuf) = Answered(n) /\ Tail(P(n).inbuf) = << >>
    BY <2>5, Tuples
  <2>7. Answered(n) = Compute(args.lr, args.input, 1)
    BY <1>1, <1>2 DEF NodeInv, AloneFlow, RootFlow, Answered, Side
  <2>8. final' = <<Compute(args.lr, args.input, 1)>>
    BY <2>4, <2>5, <2>6, <2>7, Tuples
  <2> QED BY <2>1, <2>2, <2>3, <2>5, <2>6, <2>7, <2>8, NodeTypes, OwnPipesNamed
<1>4. /\ q \in Process /\ q.pc = "work" /\ q.in = P(n).in /\ q.out = P(n).out
      /\ q.inbuf = << >> /\ q.outbuf = P(n).outbuf
      /\ q.num1 = P(n).num1 /\ q.num2 = P(n).num2 /\ q.result = Answered(n) /\ w = W(n)
  <2>1. /\ P(n) = proc[Node(n)] /\ P(n) \in Process /\ Answered(n) \in Int
        /\ Head(P(n).inbuf) = Answered(n) /\ Tail(P(n).inbuf) = << >>
    BY <1>3 DEF P
  <2>2. q = [P(n) EXCEPT !.result = Answered(n), !.inbuf = << >>, !.pc = "work"]
    BY <2>1 DEF Scanned, Number, Process
  <2>3. "work" \in Points /\ << >> \in Seq(Int)
    BY DEF Points
  <2>4. q \in Process
    BY <2>1, <2>2, <2>3 DEF Process
  <2> QED BY <1>3, <2>1, <2>2, <2>4 DEF Process
<1>5. s = pipe[x]
  OBVIOUS
<1> HIDE DEF q, w, s
<1>6. OwnWrites(n, q, w, x, s)
  BY <1>1, <1>2, <1>3, PipeKept, Members, Names
     DEF ScanAlone, P, W, Typed, OwnWrites, q, w, s
<1>7. /\ P(n)' = q /\ W(n)' = w /\ Typed' /\ OnlyAt(n)
      /\ \A c \in Nodes : c # n => UNCHANGED P(c)
      /\ Inner(n) => P(L(n))' = P(L(n)) /\ P(R(n))' = P(R(n))
      /\ pipe'[x] = s
      /\ \A y \in OwnPipes(n) \cup {Up(n), Tty} : y # x => pipe'[y] = pipe[y]
      /\ args' = args /\ maxDepth' = maxDepth /\ Side(n)' = Side(n)
      /\ Inner(n)' = Inner(n) /\ Low(n)' = Low(n) /\ Leaf(n)' = Leaf(n)
      /\ Alone(n)' = Alone(n) /\ Len(n) =< maxDepth
      /\ \A t, a, b : Compute(t, a, b)' = Compute(t, a, b)
  <2>1. P(n).pc # "none" /\ final' \in Seq(Int) /\ (n # Root => UNCHANGED final)
    <3>1. final' \in Seq(Int)
      BY <1>3, Tuples
    <3> QED BY <1>1, <1>2, <3>1
  <2>2. q \in Process /\ w \in Process /\ x \in OwnPipes(n) \cup {Up(n)} /\ s \in Seq(Int)
    BY <1>3, <1>4
  <2> HIDE DEF x
  <2> QED BY <1>1, <1>6, <2>1, <2>2, OwnFacts
<1>8. Labels(n)'
  BY <1>1, <1>2, <1>3, <1>4, <1>7
     DEF Labels, LabelsOf, WorkerLabels, LeftLabels, RightLabels, Early, Ending, AloneLabels
<1>9. Ends(n)'
  BY <1>1, <1>2, <1>3, <1>4, <1>5, <1>7
     DEF NodeInv, Ends, InOf, OutOf, WorkerIn, WorkerOut, Up, Early, Alone
<1>10. WorkerFlow(n)'
  BY <1>1, <1>2, <1>3, <1>4, <1>5, <1>7 DEF WorkerFlow, WorkerIn, Alone
<1>11. LeafFlow(n)'
  BY <1>1, <1>2, <1>3, <1>4, <1>5, <1>7 DEF NodeInv, LeafFlow
<1>12. AloneFlow(n)'
  BY <1>1, <1>2, <1>3, <1>4, <1>5, <1>7 DEF NodeInv, AloneFlow, Alone, Ending
<1>13. LeftFlow(n)' /\ RightFlow(n)'
  BY <1>2, <1>7 DEF LeftFlow, RightFlow
<1>14. RootFlow(n)'
  BY <1>1, <1>2, <1>3, <1>4, <1>5, <1>7 DEF NodeInv, RootFlow, Alone
<1>15. NodeInv(n)'
  BY <1>8, <1>9, <1>10, <1>11, <1>12, <1>13, <1>14 DEF NodeInv
<1>16. Quiet(n)
  BY <1>1, <1>2, <1>4, <1>7 DEF Quiet, Early
<1> QED BY <1>7, <1>15, <1>16, OwnStep

-----------------------------------------------------------------------------
(* A node reads its numbers *)

\* What the parent's invariant still needs when a left child reads.
LEMMA LeftReads ==
  ASSUME Typed, TreeInv, NEW n \in Nodes, OnlyAt(n), P(n).pc \in {"num1", "num2"},
         NEW m \in Nodes, Inner(m), m # n, n = L(m), P(n)'.pc \in LeftLabels(m), LeftFlow(m)'
  PROVE  NodeInv(m)'
<1>1. NodeInv(m)
  BY DEF TreeInv
<1>2. /\ R(m) = Child(m, 1) /\ R(m) # n /\ Up(n) = Pipe(m, "left")
  BY InnerChildren DEF R
<1>3. /\ P(m)' = P(m) /\ W(m)' = W(m) /\ args' = args /\ maxDepth' = maxDepth
      /\ Side(m)' = Side(m) /\ Inner(m)' = Inner(m) /\ Low(m)' = Low(m) /\ Leaf(m)' = Leaf(m)
      /\ \A s, a, b : Compute(s, a, b)' = Compute(s, a, b)
      /\ UNCHANGED final /\ pipe'[Tty] = pipe[Tty]
      /\ P(R(m))' = P(R(m)) /\ Output(R(m))' = Output(R(m))
  BY <1>2, ParentSame
<1>4. pipe'[Pipe(m, "right")] = pipe[Pipe(m, "right")]
  BY <1>2, ParentSame, Names
<1>5. ~Leaf(m) /\ ~Alone(m)
  BY <1>1, Where DEF NodeInv
<1>6. P(m).pc \in {"sendNum1", "sendNum2", "leftWait"}
  BY <1>1 DEF NodeInv, Labels, LeftLabels, Early
<1>7. Labels(m)'
  BY <1>1, <1>3
     DEF NodeInv, Labels, LabelsOf, WorkerLabels, LeftLabels, RightLabels, Early
<1>8. Ends(m)'
  BY <1>1, <1>3 DEF NodeInv, Ends, InOf, OutOf, WorkerIn, WorkerOut, Up
<1>9. WorkerFlow(m)' /\ LeafFlow(m)' /\ AloneFlow(m)'
  BY <1>3, <1>5, <1>6 DEF WorkerFlow, LeafFlow, AloneFlow, Alone
<1>10. RightFlow(m)'
  BY <1>1, <1>3, <1>4, <1>6 DEF NodeInv, RightFlow
<1>11. RootFlow(m)'
  BY <1>1, <1>3 DEF NodeInv, RootFlow, Has
<1> QED BY <1>7, <1>8, <1>9, <1>10, <1>11 DEF NodeInv

LEMMA RightReads ==
  ASSUME Typed, TreeInv, NEW n \in Nodes, OnlyAt(n), P(n).pc \in {"num1", "num2"},
         NEW m \in Nodes, Inner(m), m # n, n = R(m), P(n)'.pc \in RightLabels(m), RightFlow(m)'
  PROVE  NodeInv(m)'
<1>1. NodeInv(m)
  BY DEF TreeInv
<1>2. /\ L(m) = Child(m, 0) /\ L(m) # n /\ Up(n) = Pipe(m, "right")
  BY InnerChildren DEF L
<1>3. /\ P(m)' = P(m) /\ W(m)' = W(m) /\ args' = args /\ maxDepth' = maxDepth
      /\ Side(m)' = Side(m) /\ Inner(m)' = Inner(m) /\ Low(m)' = Low(m) /\ Leaf(m)' = Leaf(m)
      /\ \A s, a, b : Compute(s, a, b)' = Compute(s, a, b)
      /\ UNCHANGED final /\ pipe'[Tty] = pipe[Tty]
      /\ P(L(m))' = P(L(m)) /\ Output(L(m))' = Output(L(m))
  BY <1>2, ParentSame
<1>4. pipe'[Pipe(m, "left")] = pipe[Pipe(m, "left")]
  BY <1>2, ParentSame, Names
<1>5. ~Leaf(m) /\ ~Alone(m)
  BY <1>1, Where DEF NodeInv
<1>6. P(m).pc \in {"sendRight", "rightWait"}
  BY <1>1 DEF NodeInv, Labels, RightLabels
<1>7. Labels(m)'
  BY <1>1, <1>3
     DEF NodeInv, Labels, LabelsOf, WorkerLabels, LeftLabels, RightLabels, Early
<1>8. Ends(m)'
  BY <1>1, <1>3 DEF NodeInv, Ends, InOf, OutOf, WorkerIn, WorkerOut, Up
<1>9. WorkerFlow(m)' /\ LeafFlow(m)' /\ AloneFlow(m)'
  BY <1>3, <1>5, <1>6 DEF WorkerFlow, LeafFlow, AloneFlow, Alone
<1>10. LeftFlow(m)'
  BY <1>1, <1>3, <1>4, <1>6 DEF NodeInv, LeftFlow, Early
<1>11. RootFlow(m)'
  BY <1>1, <1>3 DEF NodeInv, RootFlow, Has
<1> QED BY <1>7, <1>8, <1>9, <1>10, <1>11 DEF NodeInv

LEMMA ReadStep ==
  ASSUME Typed, TreeInv, NEW n \in Nodes, OnlyAt(n), P(n).pc \in {"num1", "num2"}, NodeInv(n)',
         \A c \in Nodes : c # n => UNCHANGED P(c),
         \A m \in Nodes : Inner(m) /\ n = L(m) => P(n)'.pc \in LeftLabels(m) /\ LeftFlow(m)',
         \A m \in Nodes : Inner(m) /\ n = R(m) => P(n)'.pc \in RightLabels(m) /\ RightFlow(m)'
  PROVE  TreeInv'
<1>1. Len(n) =< maxDepth
  BY Where DEF TreeInv, NodeInv
<1> SUFFICES ASSUME NEW k \in Nodes, k # n PROVE NodeInv(k)'
  BY DEF TreeInv, Nodes
<1>2. CASE Inner(k) /\ n = L(k)
  BY <1>2, LeftReads
<1>3. CASE Inner(k) /\ n = R(k)
  BY <1>3, RightReads
<1>4. CASE Inner(k) => n # L(k) /\ n # R(k)
  BY <1>1, <1>4, OthersKept
<1> QED BY <1>2, <1>3, <1>4

LEMMA FillNode ==
  ASSUME Typed, TreeInv, NEW n \in Nodes, Fill(Node(n)), P(n).pc \in {"num1", "num2"}
  PROVE  Typed' /\ TreeInv'
<1> DEFINE x == Up(n)
           q == [P(n) EXCEPT !.inbuf = pipe[x]]
           w == W(n)
           s == << >>
<1>1. /\ NodeInv(n) /\ Labels(n) /\ P(n).pc \in {"num1", "num2"} /\ UNCHANGED <<args, final>>
      /\ P(n).inbuf = << >> /\ pipe[P(n).in] # << >>
  BY DEF TreeInv, NodeInv, Fill, P
<1>2. /\ P(n).in = x /\ Len(n) =< maxDepth /\ (Leaf(n) => ~Inner(n))
      /\ (Alone(n) <=> maxDepth = 0) /\ (Leaf(n) /\ maxDepth # 0 => n # Root)
  <2>1. Len(n) =< maxDepth /\ (maxDepth = 0 => Alone(n)) /\ (Leaf(n) => ~Inner(n))
    BY <1>1, Where
  <2>2. n = Root <=> Len(n) = 0
    BY NodeIsSeq
  <2> QED BY <1>1, <2>1, <2>2 DEF NodeInv, Ends, InOf, Early, Up, Alone, Leaf, Labels, LabelsOf,
             AloneLabels, Ending
<1>3. /\ P(n) \in Process /\ W(n) \in Process /\ x \in Pipes /\ x \in OwnPipes(n) \cup {Up(n)}
      /\ x \notin OwnPipes(n) /\ s \in Seq(Int) /\ pipe[x] \in Seq(Int)
  BY <1>2, NodeTypes, OwnPipesNamed, Joined DEF Typed
<1>4. /\ q \in Process /\ q.pc = P(n).pc /\ q.in = P(n).in /\ q.out = P(n).out
      /\ q.inbuf = pipe[x] /\ q.outbuf = P(n).outbuf
      /\ q.num1 = P(n).num1 /\ q.num2 = P(n).num2 /\ q.result = P(n).result
      /\ w = W(n)
  <2>1. P(n) \in Process /\ pipe[x] \in Seq(Int)
    BY <1>3
  <2>2. q \in Process
    BY <2>1 DEF Process
  <2> QED BY <2>1, <2>2 DEF Process
<1>5. s = << >>
  OBVIOUS
<1> HIDE DEF q, s, w
<1>6. OwnWrites(n, q, w, x, s)
  BY <1>1, <1>2, <1>3, Members, Names DEF Fill, P, W, Typed, OwnWrites, q, w, s
<1>7. /\ P(n)' = q /\ W(n)' = w /\ Typed' /\ OnlyAt(n)
      /\ \A c \in Nodes : c # n => UNCHANGED P(c)
      /\ Inner(n) => P(L(n))' = P(L(n)) /\ P(R(n))' = P(R(n))
      /\ pipe'[x] = s
      /\ \A y \in OwnPipes(n) \cup {Up(n), Tty} : y # x => pipe'[y] = pipe[y]
      /\ args' = args /\ maxDepth' = maxDepth /\ Side(n)' = Side(n)
      /\ Inner(n)' = Inner(n) /\ Low(n)' = Low(n) /\ Leaf(n)' = Leaf(n)
      /\ Alone(n)' = Alone(n) /\ Len(n) =< maxDepth
      /\ \A t, a, b : Compute(t, a, b)' = Compute(t, a, b)
  <2>1. P(n).pc # "none" /\ final' \in Seq(Int) /\ (n # Root => UNCHANGED final)
    BY <1>1 DEF Typed
  <2>2. q \in Process /\ w \in Process /\ x \in OwnPipes(n) \cup {Up(n)} /\ s \in Seq(Int)
    BY <1>3, <1>4
  <2> HIDE DEF x
  <2> QED BY <1>1, <1>6, <2>1, <2>2, OwnFacts
<1>8. NodeInv(n)'
  <2>1. Labels(n)'
    BY <1>1, <1>4, <1>7 DEF Labels, LabelsOf, WorkerLabels, LeftLabels, RightLabels
  <2>2. Ends(n)'
    BY <1>1, <1>4, <1>7 DEF NodeInv, Labels, WorkerLabels, Ends, InOf, OutOf, Up
  <2>3. WorkerFlow(n)'
    BY <1>1, <1>4, <1>7 DEF WorkerFlow
  <2>4. LeafFlow(n)' /\ AloneFlow(n)'
    BY <1>1, <1>3, <1>4, <1>7 DEF NodeInv, LeafFlow, AloneFlow, OwnPipes, Ending
  <2>5. LeftFlow(n)' /\ RightFlow(n)'
    BY <1>1, <1>3, <1>4, <1>7 DEF NodeInv, LeftFlow, RightFlow, OwnPipes, Early
  <2>6. RootFlow(n)'
    BY <1>1, <1>4, <1>5, <1>7 DEF NodeInv, RootFlow, Has, Up, Labels
  <2> QED BY <2>1, <2>2, <2>3, <2>4, <2>5, <2>6 DEF NodeInv
<1>9. ASSUME NEW m \in Nodes, Inner(m)
      PROVE  /\ m # n => P(m)' = P(m) /\ W(m)' = W(m)
             /\ Pair(m) = <<P(m).num1, P(m).num2>> /\ P(m).num1 \in Int /\ P(m).num2 \in Int
             /\ P(m).result \in Int
             /\ NodeInv(m) /\ maxDepth # 0
             /\ Inner(m)' = Inner(m) /\ Low(m)' = Low(m) /\ Pair(m) # << >> /\ Side(m)' = Side(m)
             /\ Up(L(m)) = Pipe(m, "left") /\ Up(R(m)) = Pipe(m, "right")
             /\ m # L(m) /\ m # R(m) /\ L(m) # Root /\ R(m) # Root
  <2>1. P(m) \in Process /\ Pair(m) = <<P(m).num1, P(m).num2>> /\ NodeInv(m)
    BY NodeTypes DEF TreeInv
  <2>2. P(m).num1 \in Int /\ P(m).num2 \in Int /\ P(m).result \in Int
    BY <2>1 DEF Process
  <2>3. Pair(m) # << >>
    BY <2>1, <2>2, Tuples
  <2>4. m # n => W(m)' = W(m)
    BY <1>7, ProcessKept
  <2> QED BY <1>7, <1>9, <2>1, <2>2, <2>3, <2>4, InnerChildren, Frame, Where DEF NodeInv
<1>10. ASSUME NEW m \in Nodes, Inner(m), n = L(m)
       PROVE  P(n)'.pc \in LeftLabels(m) /\ LeftFlow(m)'
  <2>1. P(n).pc \in LeftLabels(m)
    BY <1>9, <1>10 DEF NodeInv, Labels
  <2>2. LeftFlow(m)'
    BY <1>1, <1>2, <1>4, <1>5, <1>7, <1>9, <1>10
    DEF NodeInv, Labels, LeftLabels, LeftFlow, Has, Early, Pair, P
  <2> QED BY <1>4, <1>7, <2>1, <2>2
<1>11. ASSUME NEW m \in Nodes, Inner(m), n = R(m)
       PROVE  P(n)'.pc \in RightLabels(m) /\ RightFlow(m)'
  <2>1. P(n).pc \in RightLabels(m)
    BY <1>9, <1>11 DEF NodeInv, Labels
  <2>2. P(m).pc \in {"sendRight", "rightWait"}
    BY <1>1, <2>1 DEF RightLabels
  <2>3. x = Pipe(m, "right") /\ pipe[x] # << >> /\ P(n).inbuf = << >> /\ m # n
    BY <1>1, <1>2, <1>9, <1>11
  <2>4. P(m).pc = "rightWait" /\ P(n).pc = "num1"
    BY <1>1, <1>9, <1>11, <2>2, <2>3 DEF NodeInv, RightFlow
  <2>5. pipe[x] = <<P(m).result, P(m).num1, P(m).num2>>
    BY <1>9, <1>11, <2>3, <2>4 DEF NodeInv, RightFlow, Has
  <2>6. P(m)' = P(m) /\ P(R(m))' = q /\ pipe'[Pipe(m, "right")] = << >>
    BY <1>5, <1>7, <1>9, <1>11, <2>3
  <2>7. RightFlow(m)'
    BY <1>4, <1>7, <1>9, <1>11, <2>4, <2>5, <2>6 DEF NodeInv, RightFlow, Has, Early
  <2> QED BY <1>4, <1>7, <2>1, <2>7
<1> QED BY <1>1, <1>7, <1>8, <1>10, <1>11, ReadStep

LEMMA ScanNum1Root ==
  ASSUME Typed, TreeInv, NEW n \in Nodes, ScanNum1(Node(n)), n = Root
  PROVE  Typed' /\ TreeInv'
<1> DEFINE x == Up(n)
           q == Scanned(Node(n), "num1", FirstStep(n))
           w == W(n)
           s == pipe[x]
<1>1. /\ NodeInv(n) /\ Labels(n) /\ P(n).pc = "num1" /\ UNCHANGED <<args, pipe, final>>
      /\ P(n).inbuf # << >>
  BY DEF TreeInv, NodeInv, ScanNum1, CanScan, P
<1>2. /\ Len(n) =< maxDepth /\ (Leaf(n) => ~Inner(n)) /\ (Leaf(n) \/ Inner(n))
      /\ (Alone(n) <=> maxDepth = 0) /\ (Leaf(n) /\ maxDepth # 0 => n # Root)
      /\ (Alone(n) => Leaf(n))
  <2>1. /\ Len(n) =< maxDepth /\ (maxDepth = 0 => Alone(n)) /\ (Leaf(n) => ~Inner(n))
        /\ (Alone(n) => Leaf(n))
    BY <1>1, Where
  <2>2. (n = Root <=> Len(n) = 0) /\ Len(n) \in Nat /\ maxDepth \in Nat
    BY NodeIsSeq, Depths
  <2> QED BY <2>1, <2>2 DEF Alone, Leaf, Inner
<1>3. /\ P(n) \in Process /\ W(n) \in Process /\ x \in Pipes /\ x \in OwnPipes(n) \cup {Up(n)}
      /\ x \notin OwnPipes(n) /\ s \in Seq(Int) /\ P(n).inbuf \in Seq(Int)
  <2>1. P(n) \in Process
    BY NodeTypes
  <2> QED BY <1>2, <2>1, NodeTypes, OwnPipesNamed DEF Typed, Process
<1>4. /\ q \in Process /\ q.pc = FirstStep(n) /\ q.in = P(n).in /\ q.out = P(n).out
      /\ q.inbuf = Tail(P(n).inbuf) /\ q.outbuf = P(n).outbuf
      /\ q.num1 = Head(P(n).inbuf) /\ q.num2 = P(n).num2 /\ q.result = P(n).result
      /\ w = W(n)
  <2>1. /\ P(n) = proc[Node(n)] /\ P(n) \in Process /\ Head(P(n).inbuf) \in Int
        /\ Tail(P(n).inbuf) \in Seq(Int)
    BY <1>1, <1>3 DEF P
  <2>2. FirstStep(n) \in Points
    BY DEF FirstStep, Points
  <2>3. q \in Process
    BY <2>1, <2>2 DEF Scanned, Number, Process
  <2> QED BY <2>1, <2>2, <2>3 DEF Scanned, Number, Process
<1>5. s = pipe[x]
  OBVIOUS
<1> HIDE DEF q, s, w
<1>6. OwnWrites(n, q, w, x, s)
  BY <1>1, <1>3, PipeKept, Members, Names DEF ScanNum1, P, W, Typed, OwnWrites, q, w, s
<1>7. /\ P(n)' = q /\ W(n)' = w /\ Typed' /\ OnlyAt(n)
      /\ \A c \in Nodes : c # n => UNCHANGED P(c)
      /\ Inner(n) => P(L(n))' = P(L(n)) /\ P(R(n))' = P(R(n))
      /\ pipe'[x] = s
      /\ \A y \in OwnPipes(n) \cup {Up(n), Tty} : y # x => pipe'[y] = pipe[y]
      /\ args' = args /\ maxDepth' = maxDepth /\ Side(n)' = Side(n)
      /\ Inner(n)' = Inner(n) /\ Low(n)' = Low(n) /\ Leaf(n)' = Leaf(n)
      /\ Alone(n)' = Alone(n) /\ Len(n) =< maxDepth
      /\ \A t, a, b : Compute(t, a, b)' = Compute(t, a, b)
  <2>1. P(n).pc # "none" /\ final' \in Seq(Int) /\ (n # Root => UNCHANGED final)
    BY <1>1 DEF Typed
  <2>2. q \in Process /\ w \in Process /\ x \in OwnPipes(n) \cup {Up(n)} /\ s \in Seq(Int)
    BY <1>3, <1>4
  <2> HIDE DEF x
  <2> QED BY <1>1, <1>6, <2>1, <2>2, OwnFacts
<1>8. NodeInv(n)'
  <2>1. FirstStep(n) = IF maxDepth = 0 THEN "alone" ELSE "left"
    BY <1>2 DEF FirstStep
  <2>2. Tail(P(n).inbuf) = << >> /\ Head(P(n).inbuf) = args.input
    <3>1. args.input \in Int
      BY InputsAssumption DEF Typed
    <3>2. P(n).inbuf = <<args.input>>
      BY <1>1 DEF NodeInv, RootFlow, Has
    <3> QED BY <3>1, <3>2, Tuples
  <2>3. Labels(n)'
    BY <1>1, <1>2, <1>4, <1>7, <2>1
    DEF Labels, LabelsOf, WorkerLabels, LeftLabels, RightLabels, Early, DeepLabels,
        LowLabels, AloneLabels
  <2>4. Ends(n)'
    BY <1>1, <1>2, <1>4, <1>7, <2>1
    DEF NodeInv, Labels, WorkerLabels, Ends, InOf, OutOf, Up, Early
  <2>5. WorkerFlow(n)'
    BY <1>1, <1>4, <1>7, <2>1 DEF WorkerFlow
  <2>6. LeafFlow(n)' /\ AloneFlow(n)'
    BY <1>1, <1>2, <1>3, <1>4, <1>5, <1>7, <2>1, <2>2
       DEF NodeInv, LeafFlow, AloneFlow, OwnPipes, Ending
  <2>7. LeftFlow(n)' /\ RightFlow(n)'
    BY <1>1, <1>2, <1>3, <1>4, <1>5, <1>7, <2>1, <2>2
       DEF NodeInv, LeftFlow, RightFlow, OwnPipes, Early, Alone
  <2>8. RootFlow(n)'
    BY <1>1, <1>4, <1>5, <1>7, <2>1, <2>2 DEF NodeInv, RootFlow
  <2> QED BY <2>3, <2>4, <2>5, <2>6, <2>7, <2>8 DEF NodeInv
<1>9. ASSUME NEW m \in Nodes, Inner(m)
      PROVE  /\ m # n => P(m)' = P(m) /\ W(m)' = W(m)
             /\ Pair(m) = <<P(m).num1, P(m).num2>> /\ P(m).num1 \in Int /\ P(m).num2 \in Int
             /\ P(m).result \in Int
             /\ NodeInv(m) /\ maxDepth # 0
             /\ Inner(m)' = Inner(m) /\ Low(m)' = Low(m) /\ Pair(m) # << >> /\ Side(m)' = Side(m)
             /\ Up(L(m)) = Pipe(m, "left") /\ Up(R(m)) = Pipe(m, "right")
             /\ m # L(m) /\ m # R(m) /\ L(m) # Root /\ R(m) # Root
  <2>1. P(m) \in Process /\ Pair(m) = <<P(m).num1, P(m).num2>> /\ NodeInv(m)
    BY NodeTypes DEF TreeInv
  <2>2. P(m).num1 \in Int /\ P(m).num2 \in Int /\ P(m).result \in Int
    BY <2>1 DEF Process
  <2>3. Pair(m) # << >>
    BY <2>1, <2>2, Tuples
  <2>4. m # n => W(m)' = W(m)
    BY <1>7, ProcessKept
  <2> QED BY <1>7, <1>9, <2>1, <2>2, <2>3, <2>4, InnerChildren, Frame, Where DEF NodeInv
<1>10. ASSUME NEW m \in Nodes, Inner(m), n = L(m)
       PROVE  P(n)'.pc \in LeftLabels(m) /\ LeftFlow(m)'
  BY <1>9, <1>10
<1>11. ASSUME NEW m \in Nodes, Inner(m), n = R(m)
       PROVE  P(n)'.pc \in RightLabels(m) /\ RightFlow(m)'
  BY <1>9, <1>11
<1> QED BY <1>1, <1>7, <1>8, <1>10, <1>11, ReadStep

LEMMA ScanNum1Child ==
  ASSUME Typed, TreeInv, NEW n \in Nodes, ScanNum1(Node(n)), n # Root
  PROVE  Typed' /\ TreeInv'
<1> DEFINE x == Up(n)
           q == Scanned(Node(n), "num1", "num2")
           w == W(n)
           s == pipe[x]
<1>1. /\ NodeInv(n) /\ Labels(n) /\ P(n).pc = "num1" /\ UNCHANGED <<args, pipe, final>>
      /\ P(n).inbuf # << >>
  BY DEF TreeInv, NodeInv, ScanNum1, CanScan, P
<1>2. /\ Len(n) =< maxDepth /\ (Leaf(n) => ~Inner(n)) /\ (Leaf(n) \/ Inner(n))
      /\ (Alone(n) <=> maxDepth = 0) /\ (Leaf(n) /\ maxDepth # 0 => n # Root)
      /\ (Alone(n) => Leaf(n))
  <2>1. /\ Len(n) =< maxDepth /\ (maxDepth = 0 => Alone(n)) /\ (Leaf(n) => ~Inner(n))
        /\ (Alone(n) => Leaf(n))
    BY <1>1, Where
  <2>2. (n = Root <=> Len(n) = 0) /\ Len(n) \in Nat /\ maxDepth \in Nat
    BY NodeIsSeq, Depths
  <2> QED BY <2>1, <2>2 DEF Alone, Leaf, Inner
<1>3. /\ P(n) \in Process /\ W(n) \in Process /\ x \in Pipes /\ x \in OwnPipes(n) \cup {Up(n)}
      /\ x \notin OwnPipes(n) /\ s \in Seq(Int) /\ P(n).inbuf \in Seq(Int)
  <2>1. P(n) \in Process
    BY NodeTypes
  <2> QED BY <1>2, <2>1, NodeTypes, OwnPipesNamed DEF Typed, Process
<1>4. /\ q \in Process /\ q.pc = "num2" /\ q.in = P(n).in /\ q.out = P(n).out
      /\ q.inbuf = Tail(P(n).inbuf) /\ q.outbuf = P(n).outbuf
      /\ q.num1 = Head(P(n).inbuf) /\ q.num2 = P(n).num2 /\ q.result = P(n).result
      /\ w = W(n)
  <2>1. /\ P(n) = proc[Node(n)] /\ P(n) \in Process /\ Head(P(n).inbuf) \in Int
        /\ Tail(P(n).inbuf) \in Seq(Int)
    BY <1>1, <1>3 DEF P
  <2>2. "num2" \in Points
    BY DEF Points
  <2>3. q \in Process
    BY <2>1, <2>2 DEF Scanned, Number, Process
  <2> QED BY <2>1, <2>2, <2>3 DEF Scanned, Number, Process
<1>5. s = pipe[x]
  OBVIOUS
<1> HIDE DEF q, s, w
<1>6. OwnWrites(n, q, w, x, s)
  BY <1>1, <1>3, PipeKept, Members, Names DEF ScanNum1, P, W, Typed, OwnWrites, q, w, s
<1>7. /\ P(n)' = q /\ W(n)' = w /\ Typed' /\ OnlyAt(n)
      /\ \A c \in Nodes : c # n => UNCHANGED P(c)
      /\ Inner(n) => P(L(n))' = P(L(n)) /\ P(R(n))' = P(R(n))
      /\ pipe'[x] = s
      /\ \A y \in OwnPipes(n) \cup {Up(n), Tty} : y # x => pipe'[y] = pipe[y]
      /\ args' = args /\ maxDepth' = maxDepth /\ Side(n)' = Side(n)
      /\ Inner(n)' = Inner(n) /\ Low(n)' = Low(n) /\ Leaf(n)' = Leaf(n)
      /\ Alone(n)' = Alone(n) /\ Len(n) =< maxDepth
      /\ \A t, a, b : Compute(t, a, b)' = Compute(t, a, b)
  <2>1. P(n).pc # "none" /\ final' \in Seq(Int) /\ (n # Root => UNCHANGED final)
    BY <1>1 DEF Typed
  <2>2. q \in Process /\ w \in Process /\ x \in OwnPipes(n) \cup {Up(n)} /\ s \in Seq(Int)
    BY <1>3, <1>4
  <2> HIDE DEF x
  <2> QED BY <1>1, <1>6, <2>1, <2>2, OwnFacts
<1>8. NodeInv(n)'
  <2>1. Labels(n)'
    BY <1>1, <1>2, <1>4, <1>7
    DEF Labels, LabelsOf, WorkerLabels, LeftLabels, RightLabels, Early, DeepLabels,
        LowLabels, LeafLabels, Alone
  <2>2. Ends(n)'
    BY <1>1, <1>2, <1>4, <1>7
    DEF NodeInv, Labels, WorkerLabels, Ends, InOf, OutOf, Early, Up, Alone
  <2>3. WorkerFlow(n)'
    BY <1>1, <1>4, <1>7 DEF WorkerFlow
  <2>4. LeafFlow(n)' /\ AloneFlow(n)'
    BY <1>1, <1>3, <1>4, <1>7 DEF NodeInv, LeafFlow, AloneFlow, OwnPipes
  <2>5. LeftFlow(n)' /\ RightFlow(n)'
    BY <1>1, <1>3, <1>4, <1>7 DEF NodeInv, LeftFlow, RightFlow, OwnPipes, Early
  <2>6. RootFlow(n)'
    BY DEF RootFlow
  <2> QED BY <2>1, <2>2, <2>3, <2>4, <2>5, <2>6 DEF NodeInv
<1>9. ASSUME NEW m \in Nodes, Inner(m)
      PROVE  /\ m # n => P(m)' = P(m) /\ W(m)' = W(m)
             /\ Pair(m) = <<P(m).num1, P(m).num2>> /\ P(m).num1 \in Int /\ P(m).num2 \in Int
             /\ P(m).result \in Int
             /\ NodeInv(m) /\ maxDepth # 0
             /\ Inner(m)' = Inner(m) /\ Low(m)' = Low(m) /\ Pair(m) # << >> /\ Side(m)' = Side(m)
             /\ Up(L(m)) = Pipe(m, "left") /\ Up(R(m)) = Pipe(m, "right")
             /\ m # L(m) /\ m # R(m) /\ L(m) # Root /\ R(m) # Root
  <2>1. P(m) \in Process /\ Pair(m) = <<P(m).num1, P(m).num2>> /\ NodeInv(m)
    BY NodeTypes DEF TreeInv
  <2>2. P(m).num1 \in Int /\ P(m).num2 \in Int /\ P(m).result \in Int
    BY <2>1 DEF Process
  <2>3. Pair(m) # << >>
    BY <2>1, <2>2, Tuples
  <2>4. m # n => W(m)' = W(m)
    BY <1>7, ProcessKept
  <2> QED BY <1>7, <1>9, <2>1, <2>2, <2>3, <2>4, InnerChildren, Frame, Where DEF NodeInv
<1>10. ASSUME NEW m \in Nodes, Inner(m), n = L(m)
       PROVE  P(n)'.pc \in LeftLabels(m) /\ LeftFlow(m)'
  <2>1. x = Pipe(m, "left") /\ m # n /\ P(m)' = P(m)
    BY <1>7, <1>9, <1>10
  <2>2. P(m).pc \in {"sendNum1", "sendNum2", "leftWait"}
    BY <1>1, <1>9, <1>10 DEF NodeInv, Labels, LeftLabels, Early
  <2>3. /\ P(m).pc = "sendNum2" => P(n).inbuf = <<P(m).num1>> /\ pipe[x] = << >>
        /\ P(m).pc = "leftWait" =>
             \/ P(n).inbuf = Pair(m) /\ pipe[x] = << >>
             \/ P(n).inbuf = <<P(m).num1>> /\ pipe[x] = <<P(m).num2>>
        /\ P(m).pc # "sendNum1"
    BY <1>1, <1>9, <1>10, <2>1, <2>2 DEF NodeInv, LeftFlow, Has
  <2>4. /\ P(m).pc = "sendNum2" => q.num1 = P(m).num1 /\ q.inbuf = << >> /\ pipe[x] = << >>
        /\ P(m).pc = "leftWait" =>
             /\ q.num1 = P(m).num1
             /\ \/ q.inbuf = <<P(m).num2>> /\ pipe[x] = << >>
                \/ q.inbuf = << >> /\ pipe[x] = <<P(m).num2>>
    <3>1. /\ P(m).num1 \in Int /\ P(m).num2 \in Int /\ Pair(m) = <<P(m).num1, P(m).num2>>
          /\ q.num1 = Head(P(n).inbuf) /\ q.inbuf = Tail(P(n).inbuf)
      BY <1>4, <1>9, <1>10
    <3>2. Head(<<P(m).num1>>) = P(m).num1 /\ Tail(<<P(m).num1>>) = << >>
      BY <3>1, Tuples
    <3>3. /\ Head(<<P(m).num1, P(m).num2>>) = P(m).num1
          /\ Tail(<<P(m).num1, P(m).num2>>) = <<P(m).num2>>
      BY <3>1, Tuples
    <3>4. <<P(m).num2>> # << >>
      BY <3>1, Tuples
    <3>5. CASE P(m).pc = "sendNum2"
      BY <2>3, <3>5, <3>1, <3>2
    <3>6. CASE P(n).inbuf = <<P(m).num1>> /\ P(m).pc = "leftWait"
      <4>1. q.num1 = P(m).num1 /\ q.inbuf = << >>
        BY <3>6, <3>1, <3>2
      <4>2. pipe[x] = <<P(m).num2>>
        <5>1. <<P(m).num1>> # Pair(m)
          BY <3>1, <3>2, <3>3, <3>4
        <5> QED BY <2>3, <3>6, <5>1
      <4> QED BY <3>6, <4>1, <4>2
    <3>7. CASE P(n).inbuf = Pair(m) /\ pipe[x] = << >> /\ P(m).pc = "leftWait"
      <4>1. q.num1 = P(m).num1 /\ q.inbuf = <<P(m).num2>>
        BY <3>7, <3>1, <3>3
      <4> QED BY <3>7, <4>1
    <3> QED BY <2>2, <2>3, <3>5, <3>6, <3>7
  <2>5. P(L(m))' = q /\ pipe'[Pipe(m, "left")] = pipe[x] /\ q.pc = "num2"
    BY <1>4, <1>5, <1>7, <1>10, <2>1
  <2>6. LeftFlow(m)'
    BY <1>7, <1>9, <1>10, <2>1, <2>2, <2>3, <2>4, <2>5 DEF NodeInv, LeftFlow, Has, Early
  <2> QED BY <1>4, <1>7, <2>2, <2>3, <2>6 DEF LeftLabels, LowLabels, DeepLabels, Early
<1>11. ASSUME NEW m \in Nodes, Inner(m), n = R(m)
       PROVE  P(n)'.pc \in RightLabels(m) /\ RightFlow(m)'
  <2>1. x = Pipe(m, "right") /\ m # n /\ P(m)' = P(m)
    BY <1>7, <1>9, <1>11
  <2>2. P(m).pc \in {"sendRight", "rightWait"}
    BY <1>1, <1>9, <1>11 DEF NodeInv, Labels, RightLabels
  <2>3. /\ P(m).pc = "rightWait" /\ pipe[x] = << >>
        /\ P(n).inbuf = <<P(m).result, P(m).num1, P(m).num2>>
    BY <1>1, <1>9, <1>11, <2>1, <2>2 DEF NodeInv, RightFlow, Has
  <2>4. q.num1 = P(m).result /\ q.inbuf = Pair(m)
    BY <1>4, <1>9, <1>11, <2>3, Tuples
  <2>5. /\ P(R(m))' = q /\ pipe'[Pipe(m, "right")] = << >> /\ q.pc = "num2"
        /\ Pair(m)' = Pair(m)
    BY <1>4, <1>5, <1>7, <1>11, <2>1, <2>3 DEF Pair, P
  <2>6. RightFlow(m)'
    BY <1>7, <1>9, <1>11, <2>1, <2>3, <2>4, <2>5 DEF NodeInv, RightFlow, Has, Early
  <2> QED BY <1>4, <1>7, <2>3, <2>6 DEF RightLabels, LowLabels, DeepLabels, Early
<1> QED BY <1>1, <1>7, <1>8, <1>10, <1>11, ReadStep

LEMMA ScanNum2Node ==
  ASSUME Typed, TreeInv, NEW n \in Nodes, ScanNum2(Node(n))
  PROVE  Typed' /\ TreeInv'
<1> DEFINE x == Up(n)
           q == Scanned(Node(n), "num2", FirstStep(n))
           w == W(n)
           s == pipe[x]
<1>1. /\ NodeInv(n) /\ Labels(n) /\ P(n).pc = "num2" /\ UNCHANGED <<args, pipe, final>>
      /\ P(n).inbuf # << >>
  BY DEF TreeInv, NodeInv, ScanNum2, CanScan, P
<1>2. /\ n # Root /\ maxDepth # 0 /\ Len(n) =< maxDepth
      /\ (Leaf(n) => ~Inner(n)) /\ (Leaf(n) \/ Inner(n))
      /\ (Alone(n) <=> maxDepth = 0) /\ (Leaf(n) /\ maxDepth # 0 => n # Root)
      /\ (Alone(n) => Leaf(n))
  <2>1. /\ Len(n) =< maxDepth /\ (maxDepth = 0 => Alone(n)) /\ (Leaf(n) => ~Inner(n))
        /\ (Alone(n) => Leaf(n))
    BY <1>1, Where
  <2>2. (n = Root <=> Len(n) = 0) /\ Len(n) \in Nat /\ maxDepth \in Nat
    BY NodeIsSeq, Depths
  <2> QED BY <1>1, <2>1, <2>2 DEF Alone, Leaf, Inner, Labels
<1>3. /\ P(n) \in Process /\ W(n) \in Process /\ x \in Pipes /\ x \in OwnPipes(n) \cup {Up(n)}
      /\ x \notin OwnPipes(n) /\ s \in Seq(Int) /\ P(n).inbuf \in Seq(Int)
  <2>1. P(n) \in Process
    BY NodeTypes
  <2> QED BY <1>2, <2>1, NodeTypes, OwnPipesNamed DEF Typed, Process
<1>4. /\ q \in Process /\ q.pc = FirstStep(n) /\ q.in = P(n).in /\ q.out = P(n).out
      /\ q.inbuf = Tail(P(n).inbuf) /\ q.outbuf = P(n).outbuf
      /\ q.num1 = P(n).num1 /\ q.num2 = Head(P(n).inbuf) /\ q.result = P(n).result
      /\ w = W(n)
  <2>1. /\ P(n) = proc[Node(n)] /\ P(n) \in Process /\ Head(P(n).inbuf) \in Int
        /\ Tail(P(n).inbuf) \in Seq(Int)
    BY <1>1, <1>3 DEF P
  <2>2. FirstStep(n) \in Points
    BY DEF FirstStep, Points
  <2>3. q \in Process
    BY <2>1, <2>2 DEF Scanned, Number, Process
  <2> QED BY <2>1, <2>2, <2>3 DEF Scanned, Number, Process
<1>5. s = pipe[x]
  OBVIOUS
<1> HIDE DEF q, s, w
<1>6. OwnWrites(n, q, w, x, s)
  BY <1>1, <1>3, PipeKept, Members, Names DEF ScanNum2, P, W, Typed, OwnWrites, q, w, s,
     Node
<1>7. /\ P(n)' = q /\ W(n)' = w /\ Typed' /\ OnlyAt(n)
      /\ \A c \in Nodes : c # n => UNCHANGED P(c)
      /\ Inner(n) => P(L(n))' = P(L(n)) /\ P(R(n))' = P(R(n))
      /\ pipe'[x] = s
      /\ \A y \in OwnPipes(n) \cup {Up(n), Tty} : y # x => pipe'[y] = pipe[y]
      /\ args' = args /\ maxDepth' = maxDepth /\ Side(n)' = Side(n)
      /\ Inner(n)' = Inner(n) /\ Low(n)' = Low(n) /\ Leaf(n)' = Leaf(n)
      /\ Alone(n)' = Alone(n) /\ Len(n) =< maxDepth
      /\ \A t, a, b : Compute(t, a, b)' = Compute(t, a, b)
  <2>1. P(n).pc # "none" /\ final' \in Seq(Int) /\ (n # Root => UNCHANGED final)
    BY <1>1 DEF Typed
  <2>2. q \in Process /\ w \in Process /\ x \in OwnPipes(n) \cup {Up(n)} /\ s \in Seq(Int)
    BY <1>3, <1>4
  <2> HIDE DEF x
  <2> QED BY <1>1, <1>6, <2>1, <2>2, OwnFacts
<1>8. NodeInv(n)'
  <2>1. FirstStep(n) = IF Leaf(n) THEN "work" ELSE "left"
    BY <1>2 DEF FirstStep
  <2>2. Labels(n)'
    BY <1>1, <1>2, <1>4, <1>7, <2>1
    DEF Labels, LabelsOf, WorkerLabels, LeftLabels, RightLabels, Early, DeepLabels,
        LowLabels, LeafLabels, Ending, Inner
  <2>3. Ends(n)'
    BY <1>1, <1>2, <1>4, <1>7, <2>1
    DEF NodeInv, Labels, WorkerLabels, Ends, InOf, OutOf, Up, Early
  <2>4. WorkerFlow(n)'
    BY <1>1, <1>4, <1>7, <2>1 DEF WorkerFlow
  <2>5. LeafFlow(n)' /\ AloneFlow(n)'
    BY <1>1, <1>2, <1>3, <1>4, <1>7, <2>1 DEF NodeInv, LeafFlow, AloneFlow, OwnPipes
  <2>6. Inner(n) => q.inbuf = << >>
    <3>1. SUFFICES ASSUME Inner(n) PROVE q.inbuf = << >>
      OBVIOUS
    <3>2. PICK m \in Nodes, t \in {0, 1} : n = Child(m, t) /\ Len(n) = Len(m) + 1
      BY <1>2, Parents
    <3>3. Inner(m) /\ ~Low(m)
      BY <3>1, <3>2, Depths DEF Inner, Low
    <3>4. NodeInv(m) /\ P(m).num2 \in Int
      BY NodeTypes DEF TreeInv, Process
    <3>5. n # R(m)
      BY <1>1, <3>3, <3>4, Where DEF NodeInv, Labels, RightLabels
    <3>6. n = L(m)
      BY <3>2, <3>5 DEF L, R
    <3>7. P(m).pc \in {"sendNum2", "leftWait"}
      BY <1>1, <3>3, <3>4, <3>6 DEF NodeInv, Labels, LeftLabels, Early
    <3>8. P(n).inbuf = <<P(m).num2>>
      BY <1>1, <3>3, <3>4, <3>6, <3>7 DEF NodeInv, LeftFlow, Has
    <3>9. Tail(<<P(m).num2>>) = << >>
      BY <3>4, Tuples
    <3> QED BY <1>4, <3>8, <3>9
  <2>7. LeftFlow(n)'
    BY <1>1, <1>2, <1>3, <1>4, <1>7, <2>1, <2>6 DEF NodeInv, LeftFlow, OwnPipes, Early
  <2>8. RightFlow(n)'
    BY <1>1, <1>2, <1>3, <1>4, <1>7, <2>1 DEF NodeInv, RightFlow, OwnPipes
  <2>9. RootFlow(n)'
    BY <1>2 DEF RootFlow
  <2> QED BY <2>2, <2>3, <2>4, <2>5, <2>7, <2>8, <2>9 DEF NodeInv
<1>9. ASSUME NEW m \in Nodes, Inner(m)
      PROVE  /\ m # n => P(m)' = P(m) /\ W(m)' = W(m)
             /\ Pair(m) = <<P(m).num1, P(m).num2>> /\ P(m).num1 \in Int /\ P(m).num2 \in Int
             /\ P(m).result \in Int
             /\ NodeInv(m) /\ maxDepth # 0
             /\ Inner(m)' = Inner(m) /\ Low(m)' = Low(m) /\ Pair(m) # << >> /\ Side(m)' = Side(m)
             /\ Up(L(m)) = Pipe(m, "left") /\ Up(R(m)) = Pipe(m, "right")
             /\ m # L(m) /\ m # R(m) /\ L(m) # Root /\ R(m) # Root
  <2>1. P(m) \in Process /\ Pair(m) = <<P(m).num1, P(m).num2>> /\ NodeInv(m)
    BY NodeTypes DEF TreeInv
  <2>2. P(m).num1 \in Int /\ P(m).num2 \in Int /\ P(m).result \in Int
    BY <2>1 DEF Process
  <2>3. Pair(m) # << >>
    BY <2>1, <2>2, Tuples
  <2>4. m # n => W(m)' = W(m)
    BY <1>7, ProcessKept
  <2> QED BY <1>7, <1>9, <2>1, <2>2, <2>3, <2>4, InnerChildren, Frame, Where DEF NodeInv
<1>10. ASSUME NEW m \in Nodes, Inner(m), n = L(m)
       PROVE  P(n)'.pc \in LeftLabels(m) /\ LeftFlow(m)'
  <2>1. x = Pipe(m, "left") /\ m # n /\ P(m)' = P(m)
    BY <1>7, <1>9, <1>10
  <2>2. P(m).pc \in {"sendNum2", "leftWait"}
    BY <1>1, <1>9, <1>10 DEF NodeInv, Labels, LeftLabels, Early
  <2>3. /\ P(m).pc = "leftWait" /\ pipe[x] = << >>
        /\ P(n).num1 = P(m).num1 /\ P(n).inbuf = <<P(m).num2>>
    BY <1>1, <1>9, <1>10, <2>1, <2>2 DEF NodeInv, LeftFlow, Has
  <2>4. q.num1 = P(m).num1 /\ q.pc \notin Early /\ q.pc \in {"work", "left"}
    BY <1>2, <1>4, <2>3 DEF FirstStep, Early
  <2>5. P(L(m))' = q /\ pipe'[Pipe(m, "left")] = << >> /\ Output(L(m))' = << >>
    BY <1>5, <1>7, <1>10, <2>1, <2>3, <2>4 DEF Output, LeafDone
  <2>6. LeftFlow(m)'
    BY <1>7, <1>9, <1>10, <2>1, <2>3, <2>4, <2>5 DEF NodeInv, LeftFlow
  <2> QED BY <1>4, <1>7, <2>3, <2>4, <2>6 DEF LeftLabels, LowLabels, DeepLabels, Early, Ending
<1>11. ASSUME NEW m \in Nodes, Inner(m), n = R(m)
       PROVE  P(n)'.pc \in RightLabels(m) /\ RightFlow(m)'
  <2>1. x = Pipe(m, "right") /\ m # n /\ P(m)' = P(m)
    BY <1>7, <1>9, <1>11
  <2>2. P(m).pc = "rightWait"
    BY <1>1, <1>9, <1>11 DEF NodeInv, Labels, RightLabels
  <2>3. pipe[x] = << >> /\ P(n).num1 = P(m).result
    BY <1>1, <1>9, <1>11, <2>1, <2>2 DEF NodeInv, RightFlow
  <2>4. q.num1 = P(m).result /\ q.pc \notin Early /\ q.pc \in {"work", "left"}
    BY <1>2, <1>4, <2>3 DEF FirstStep, Early
  <2>5. P(R(m))' = q /\ pipe'[Pipe(m, "right")] = << >> /\ Output(R(m))' = << >>
    BY <1>5, <1>7, <1>11, <2>1, <2>3, <2>4 DEF Output, LeafDone
  <2>6. RightFlow(m)'
    BY <1>7, <1>9, <1>11, <2>1, <2>2, <2>3, <2>4, <2>5 DEF NodeInv, RightFlow
  <2> QED BY <1>4, <1>7, <2>2, <2>4, <2>6 DEF RightLabels, LowLabels, DeepLabels, Early, Ending
<1> QED BY <1>1, <1>7, <1>8, <1>10, <1>11, ReadStep

-----------------------------------------------------------------------------
(* The invariant holds *)

LEMMA InitInv ==
  ASSUME TreeInit
  PROVE  Typed /\ TreeInv
<1>1. /\ args \in [maxDepth : MaxDepths, lr : {0, 1}, input : Inputs]
      /\ args.input \in Int /\ maxDepth \in Nat
  <2>1. args \in [maxDepth : MaxDepths, lr : {0, 1}, input : Inputs]
    BY DEF TreeInit
  <2>2. args.input \in Int /\ args.maxDepth \in MaxDepths
    BY <2>1, InputsAssumption
  <2>3. args.maxDepth \in 0 .. Deepest /\ Deepest \in Nat
    BY <2>2, MaxDepthsAssumption
  <2> QED BY <2>1, <2>2, <2>3 DEF maxDepth
<1>2. /\ Tty \in Pipes /\ Started(Tty, Tty) \in Process /\ Started(Tty, Tty).pc = "num1"
      /\ Started(Tty, Tty).in = Tty /\ Started(Tty, Tty).out = Tty
      /\ Started(Tty, Tty).inbuf = << >> /\ Started(Tty, Tty).outbuf = << >>
  BY StartedFields DEF Pipes
<1>3. /\ NotStarted \in Process /\ NotStarted.pc = "none"
      /\ NotStarted.inbuf = << >> /\ NotStarted.outbuf = << >>
  <2>1. NotStarted \in Process /\ NotStarted.pc = "none"
    BY <1>2 DEF NotStarted, Process, Points
  <2> QED BY <1>2, <2>1 DEF NotStarted, Process
<1>4. Typed
  <2>1. <<args.input>> \in Seq(Int) /\ << >> \in Seq(Int)
    BY <1>1
  <2>2. pipe \in [Pipes -> Seq(Int)]
    BY <2>1 DEF TreeInit
  <2>3. proc \in [Procs -> Process]
    BY <1>2, <1>3 DEF TreeInit
  <2> QED BY <1>1, <2>1, <2>2, <2>3 DEF TreeInit, Typed
<1>5. ASSUME NEW n \in Nodes
      PROVE  /\ P(n) = IF n = Root THEN Started(Tty, Tty) ELSE NotStarted
             /\ W(n) = NotStarted
  BY Members, Names DEF TreeInit, P, W
<1>6. /\ \A n \in Nodes, u \in {"alone", "left", "work", "right"} : pipe[Pipe(n, u)] = << >>
      /\ pipe[Tty] = <<args.input>>
  BY <1>2, Members, Names DEF TreeInit
<1>7. ASSUME NEW n \in Nodes
      PROVE  NodeInv(n)
  <2>1. Inner(n) => P(L(n)) = NotStarted /\ P(R(n)) = NotStarted
    BY <1>4, <1>5, InnerChildren
  <2>2. Len(n) \in Nat /\ (n = Root <=> Len(n) = 0)
    BY NodeIsSeq
  <2>3. /\ P(n) = IF n = Root THEN Started(Tty, Tty) ELSE NotStarted
        /\ W(n) = NotStarted
    BY <1>5
  <2>4. /\ P(n).pc = IF n = Root THEN "num1" ELSE "none"
        /\ P(n).inbuf = << >> /\ P(n).outbuf = << >> /\ W(n).pc = "none"
        /\ n = Root => P(n).in = Tty /\ P(n).out = Tty
        /\ Inner(n) => P(L(n)).pc = "none" /\ P(R(n)).pc = "none"
    BY <1>2, <1>3, <2>1, <2>3
  <2>5. Labels(n)
    BY <1>1, <2>2, <2>4 DEF Labels, LabelsOf, WorkerLabels, LeftLabels, RightLabels, AloneLabels,
       LeafLabels, LowLabels, DeepLabels, Early
  <2>6. Ends(n)
    BY <2>4 DEF Ends, InOf, OutOf, Up, Early
  <2>7. WorkerFlow(n) /\ LeafFlow(n)
    BY <1>6, <2>4 DEF WorkerFlow, LeafFlow
  <2>8. AloneFlow(n) /\ final = << >>
    BY <1>6, <2>4 DEF AloneFlow, Ending, TreeInit
  <2>9. LeftFlow(n) /\ RightFlow(n)
    BY <1>6, <2>4 DEF LeftFlow, RightFlow, Early
  <2>10. RootFlow(n)
    BY <1>6, <2>4, <2>8 DEF RootFlow, Has
  <2> QED BY <2>5, <2>6, <2>7, <2>8, <2>9, <2>10 DEF NodeInv
<1> QED BY <1>4, <1>7 DEF TreeInv

\* Each step of a node.
LEMMA NodeSteps ==
  ASSUME Typed, TreeInv, NEW n \in Nodes, NodeStep(n)
  PROVE  Typed' /\ TreeInv'
<1>1. CASE ForkAlone(n) \/ GiveAlone(n) \/ WaitAlone(n) \/ ScanAlone(n)
  BY <1>1, ForkAloneStep, GiveAloneStep, WaitAloneStep, ScanAloneStep
<1>2. CASE ForkLeft(n) \/ SendNum1(n) \/ SendNum2(n) \/ WaitLeft(n) \/ ScanLeftValue(n)
  BY <1>2, ForkLeftStep, SendNum1Step, SendNum2Step, WaitLeftStep, ScanLeftValueStep
<1>3. CASE ScanResult(n) \/ ForkRight(n) \/ SendRight(n) \/ WaitRight(n) \/ ScanRightValue(n)
  BY <1>3, ScanResultStep, ForkRightStep, SendRightStep, WaitRightStep, ScanRightValueStep
<1>4. CASE ForkWorker(n) \/ GiveWorker(n) \/ WaitWorker(n) \/ Exit(n)
  <2>1. Labels(n) /\ P(n).pc # "none"
    BY <1>4 DEF TreeInv, NodeInv, ForkWorker, GiveWorker, Give, WaitWorker, WaitFor, Exit, P
  <2>2. Inner(n) \/ Leaf(n)
    BY <2>1, Kinds
  <2> QED BY <1>4, <2>2, ForkWorkerInner, ForkWorkerLeaf, GiveInnerStep, GiveLeaf,
             WaitWorkerInnerStep, WaitWorkerLeaf, ExitInnerStep, ExitLeaf
<1> QED BY <1>1, <1>2, <1>3, <1>4 DEF NodeStep

\* A node reads.
LEMMA NodeReads ==
  ASSUME Typed, TreeInv, NEW n \in Nodes, Fill(Node(n)) \/ ScanNum1(Node(n)) \/ ScanNum2(Node(n))
  PROVE  Typed' /\ TreeInv'
<1>1. CASE Fill(Node(n))
  <2>1. Labels(n) /\ P(n).pc \in Scans
    BY <1>1 DEF TreeInv, NodeInv, Fill, P
  <2>2. P(n).pc \in {"leftValue", "result", "rightValue"} => Inner(n)
    BY <2>1, Where
  <2> QED BY <1>1, <2>1, <2>2, FillNode, FillAlone, FillLeftStep, FillRightStep DEF Scans
<1>2. CASE ScanNum1(Node(n))
  BY <1>2, ScanNum1Root, ScanNum1Child
<1>3. CASE ScanNum2(Node(n))
  BY <1>3, ScanNum2Node
<1> QED BY <1>1, <1>2, <1>3

LEMMA NextInv ==
  ASSUME Typed, TreeInv, [TreeNext]_treeVars
  PROVE  Typed' /\ TreeInv'
<1>1. CASE UNCHANGED treeVars
  <2>1. UNCHANGED <<args, proc, pipe, final>>
    BY <1>1 DEF treeVars
  <2>2. Typed'
    BY <2>1 DEF Typed
  <2>3. ASSUME NEW n \in Nodes PROVE Local(n)
    <3>1. \A c : UNCHANGED P(c) /\ UNCHANGED W(c)
      BY <2>1 DEF P, W
    <3> QED BY <2>1, <3>1, OutputKept DEF Local
  <2> QED BY <2>2, <2>3, Elsewhere DEF TreeInv
<1>2. ASSUME NEW p \in Procs, Step(p) PROVE Typed' /\ TreeInv'
  <2>1. PICK n \in Nodes : p = Node(n) \/ p = Worker(n)
    BY DEF Procs, Node, Worker
  <2>2. CASE p = Node(n)
    <3>1. p[1] = n /\ p[2] = "node"
      BY <2>2 DEF Node
    <3> QED BY <1>2, <2>2, <3>1, NodeReads, NodeSteps DEF Step
  <2>3. CASE p = Worker(n)
    <3>1. p[1] = n /\ p[2] # "node"
      BY <2>3 DEF Worker
    <3> QED BY <1>2, <2>3, <3>1, FillWorker, ScanNum1Worker, ScanNum2Worker, AnswerStep DEF Step
  <2> QED BY <2>1, <2>2, <2>3
<1> QED BY <1>1, <1>2 DEF TreeNext

LEMMA Invariant == TreeSpec => [](Typed /\ TreeInv)
<1>1. TreeInit => Typed /\ TreeInv
  BY InitInv
<1>2. Typed /\ TreeInv /\ [TreeNext]_treeVars => (Typed /\ TreeInv)'
  BY NextInv
<1> QED BY <1>1, <1>2, PTL DEF TreeSpec

-----------------------------------------------------------------------------
(* What follows *)

\* Who reads the pipe of n, as n is now.
ReaderOf(n, use) ==
  LET at == P(n).pc IN
  IF \/ use = "left" /\ at \in {"leftValue", "result"}
     \/ use = "right" /\ at = "rightValue"
     \/ use = "alone" /\ at = "aloneResult"
  THEN Node(n)
  ELSE IF use \in {"work", "alone"} \/ (use = "left" /\ at \in {"give", "workerWait"})
  THEN Worker(n)
  ELSE IF use = "left" THEN Node(L(n)) ELSE Node(R(n))

LEMMA NodeIsReader ==
  ASSUME Typed, TreeInv, NEW n \in Nodes, P(n).pc \in Scans
  PROVE  \/ P(n).in = Tty /\ n = Root
         \/ \E m \in Nodes, u \in {"alone", "left", "work", "right"} :
              P(n).in = Pipe(m, u) /\ Node(n) = ReaderOf(m, u)
<1>1. NodeInv(n) /\ P(n).pc # "none" /\ P(n).in = InOf(n)
  BY DEF TreeInv, NodeInv, Ends, Scans
<1>2. CASE P(n).pc = "aloneResult"
  <2>1. P(n).in = Pipe(n, "alone")
    BY <1>1, <1>2, Where DEF NodeInv, InOf, Alone
  <2> QED BY <1>2, <2>1 DEF ReaderOf
<1>3. CASE P(n).pc \in {"leftValue", "result"}
  <2>1. P(n).in = Pipe(n, "left")
    BY <1>1, <1>3, Where DEF NodeInv, InOf, Early
  <2> QED BY <1>3, <2>1 DEF ReaderOf
<1>4. CASE P(n).pc = "rightValue"
  <2>1. P(n).in = Pipe(n, "right")
    BY <1>1, <1>4, Where DEF NodeInv, InOf, Early
  <2> QED BY <1>4, <2>1 DEF ReaderOf
<1>5. CASE P(n).pc \in {"num1", "num2"} /\ n = Root
  <2>1. P(n).in = Tty
    BY <1>1, <1>5 DEF NodeInv, Labels, InOf, Early, Up
  <2> QED BY <1>5, <2>1
<1>6. CASE P(n).pc \in {"num1", "num2"} /\ n # Root
  <2>1. PICK m \in Nodes, s \in {0, 1} : n = Child(m, s) /\ Len(n) = Len(m) + 1
    BY <1>6, Parents
  <2>2. Inner(m) /\ maxDepth # 0
    BY <1>1, <2>1, Where, Depths DEF NodeInv, Inner
  <2>3. P(n).in = Up(n)
    BY <1>1, <1>6, <2>2 DEF InOf, Early
  <2>4. Labels(m) /\ Up(L(m)) = Pipe(m, "left") /\ Up(R(m)) = Pipe(m, "right")
    BY <2>2, InnerChildren DEF TreeInv, NodeInv
  <2>5. CASE n = L(m)
    <3>1. P(m).pc \notin {"leftValue", "result", "give", "workerWait"}
      BY <1>6, <2>2, <2>4, <2>5 DEF Labels, LeftLabels, Early
    <3> QED BY <2>3, <2>4, <2>5, <3>1 DEF ReaderOf
  <2>6. CASE n = R(m)
    <3>1. P(m).pc # "rightValue"
      BY <1>6, <2>2, <2>4, <2>6 DEF Labels, RightLabels
    <3> QED BY <2>3, <2>4, <2>6, <3>1 DEF ReaderOf
  <2> QED BY <2>1, <2>5, <2>6 DEF L, R
<1> QED BY <1>2, <1>3, <1>4, <1>5, <1>6 DEF Scans

LEMMA WorkerIsReader ==
  ASSUME Typed, TreeInv, NEW n \in Nodes, W(n).pc \in Scans
  PROVE  \E u \in {"alone", "left", "work", "right"} :
           W(n).in = Pipe(n, u) /\ Worker(n) = ReaderOf(n, u)
<1>1. NodeInv(n) /\ W(n).pc \in WorkerLabels(n)
  BY DEF TreeInv, NodeInv, Labels
<1>2. /\ W(n).pc \in {"num1", "num2"}
      /\ P(n).pc \in {"give", "aloneGive", "workerWait", "aloneWait"}
  BY <1>1 DEF WorkerLabels, Scans
<1>3. W(n).in = WorkerIn(n)
  BY <1>1, <1>2 DEF NodeInv, Ends
<1> QED BY <1>2, <1>3 DEF WorkerIn, ReaderOf

LEMMA PipesOfInv ==
  ASSUME Typed, TreeInv
  PROVE  PipesPrivate
<1>1. ASSUME NEW p \in Procs, proc[p].pc \in Scans
      PROVE  \/ proc[p].in = Tty /\ p = Node(Root)
             \/ \E m \in Nodes, u \in {"alone", "left", "work", "right"} :
                  proc[p].in = Pipe(m, u) /\ p = ReaderOf(m, u)
  <2>1. PICK n \in Nodes : p = Node(n) \/ p = Worker(n)
    BY DEF Procs, Node, Worker
  <2> QED BY <1>1, <2>1, NodeIsReader, WorkerIsReader DEF P, W
<1>2. OneReader
  <2>1. SUFFICES ASSUME NEW p \in Procs, NEW q \in Procs, proc[p].pc \in Scans,
                        proc[q].pc \in Scans, proc[p].in = proc[q].in
                 PROVE  p = q
    BY DEF OneReader
  <2>2. CASE proc[p].in = Tty
    <3>1. \A m \in Nodes, u \in {"alone", "left", "work", "right"} : Pipe(m, u) # Tty
      BY Names
    <3> QED BY <1>1, <2>1, <2>2, <3>1
  <2>3. CASE proc[p].in # Tty
    <3>1. PICK m \in Nodes, u \in {"alone", "left", "work", "right"} :
            proc[p].in = Pipe(m, u) /\ p = ReaderOf(m, u)
      BY <1>1, <2>1, <2>3
    <3>2. PICK k \in Nodes, v \in {"alone", "left", "work", "right"} :
            proc[q].in = Pipe(k, v) /\ q = ReaderOf(k, v)
      BY <1>1, <2>1, <2>3
    <3>3. Pipe(m, u) = Pipe(k, v)
      BY <2>1, <3>1, <3>2
    <3>4. m = k /\ u = v
      BY <3>3 DEF Pipe
    <3> QED BY <3>1, <3>2, <3>4
  <2> QED BY <2>2, <2>3
<1>3. WorkerHasItsPair
  <2>1. SUFFICES ASSUME NEW n \in Nodes, W(n).pc = "answer"
                 PROVE  W(n).num1 = P(n).num1 /\ W(n).num2 = P(n).num2
    BY DEF WorkerHasItsPair, P, W
  <2>2. P(n).pc \in {"workerWait", "aloneWait"}
    BY <2>1 DEF TreeInv, NodeInv, Labels, WorkerLabels
  <2> QED BY <2>1, <2>2 DEF TreeInv, NodeInv, WorkerFlow
<1> QED BY <1>2, <1>3 DEF PipesPrivate

LEMMA HangOfInv ==
  ASSUME Typed, TreeInv
  PROVE  DeepTreesHang
<1>1. SUFFICES ASSUME maxDepth >= 2
               PROVE  final = << >> /\ P(Root).pc # "exited"
  BY DEF DeepTreesHang, P
<1>2. Root \in Nodes /\ NodeInv(Root)
  BY RootIsNode DEF TreeInv
<1>3. Len(Root) = 0 /\ maxDepth \in Nat
  BY <1>2, NodeIsSeq, Depths
<1>4. P(Root).pc \in DeepLabels
  BY <1>1, <1>2, <1>3 DEF NodeInv, Labels, LabelsOf, Leaf, Low
<1>5. P(Root).pc # "exited"
  BY <1>4 DEF DeepLabels, Early
<1> QED BY <1>1, <1>2, <1>3, <1>5 DEF NodeInv, RootFlow

-----------------------------------------------------------------------------
(* The value of a tree *)

\* The value of a tree of height h, from those g of smaller ones.
ValueFrom(g, h, side, v) ==
  IF h = 0 THEN Compute(side, v, 1) ELSE g[h - 1][1][Compute(side, v, g[h - 1][0][v])]

IsTreeValue(g, d) ==
  /\ g \in [0 .. d -> [{0, 1} -> [Int -> Int]]]
  /\ \A h \in 0 .. d, side \in {0, 1}, v \in Int : g[h][side][v] = ValueFrom(g, h, side, v)

LEMMA TreeValueStep ==
  ASSUME NEW d \in Nat, NEW g, IsTreeValue(g, d)
  PROVE  \E f : IsTreeValue(f, d + 1)
<1> DEFINE next == [side \in {0, 1} |-> [v \in Int |-> ValueFrom(g, d + 1, side, v)]]
           f == [h \in 0 .. d + 1 |-> IF h = d + 1 THEN next ELSE g[h]]
<1>1. ASSUME NEW h \in 0 .. d, NEW side \in {0, 1}, NEW v \in Int
      PROVE  g[h][side][v] \in Int
  <2>1. g[h] \in [{0, 1} -> [Int -> Int]]
    BY DEF IsTreeValue
  <2>2. g[h][side] \in [Int -> Int]
    BY <2>1
  <2> QED BY <2>2
<1>2. ASSUME NEW h \in 0 .. d + 1, NEW side \in {0, 1}, NEW v \in Int
      PROVE  ValueFrom(g, h, side, v) \in Int
  <2>1. CASE h = 0
    BY <2>1, Computed DEF ValueFrom
  <2>2. CASE h # 0
    <3>1. h - 1 \in 0 .. d
      BY <2>2
    <3>2. g[h - 1][0][v] \in Int
      BY <1>1, <3>1
    <3>3. Compute(side, v, g[h - 1][0][v]) \in Int
      BY <3>2, Computed
    <3> QED BY <1>1, <2>2, <3>1, <3>3 DEF ValueFrom
  <2> QED BY <2>1, <2>2
<1>3. next \in [{0, 1} -> [Int -> Int]]
  <2>1. d + 1 \in 0 .. d + 1
    OBVIOUS
  <2> QED BY <1>2, <2>1
<1> HIDE DEF next
<1>4. f \in [0 .. d + 1 -> [{0, 1} -> [Int -> Int]]]
  <2>1. \A h \in 0 .. d : g[h] \in [{0, 1} -> [Int -> Int]]
    BY DEF IsTreeValue
  <2>2. \A h \in 0 .. d + 1 : h = d + 1 \/ h \in 0 .. d
    OBVIOUS
  <2> QED BY <1>3, <2>1, <2>2
<1>5. \A h \in 0 .. d : f[h] = g[h]
  OBVIOUS
<1>6. f[d + 1] = next
  OBVIOUS
<1> HIDE DEF f
<1>7. ASSUME NEW h \in 0 .. d + 1, NEW side \in {0, 1}, NEW v \in Int
      PROVE  f[h][side][v] = ValueFrom(f, h, side, v)
  <2>1. ValueFrom(f, h, side, v) = ValueFrom(g, h, side, v)
    <3>1. CASE h = 0
      BY <3>1 DEF ValueFrom
    <3>2. CASE h # 0
      <4>1. h - 1 \in 0 .. d
        BY <3>2
      <4> QED BY <1>5, <3>2, <4>1 DEF ValueFrom
    <3> QED BY <3>1, <3>2
  <2>2. CASE h = d + 1
    <3>1. f[h][side][v] = next[side][v]
      BY <1>6, <2>2
    <3>2. next[side][v] = ValueFrom(g, d + 1, side, v)
      BY DEF next
    <3> QED BY <2>1, <2>2, <3>1, <3>2
  <2>3. CASE h # d + 1
    <3>1. h \in 0 .. d
      BY <2>3
    <3> QED BY <1>5, <2>1, <3>1 DEF IsTreeValue
  <2> QED BY <2>2, <2>3
<1> QED BY <1>4, <1>7 DEF IsTreeValue

LEMMA TreeValueBase == \E g : IsTreeValue(g, 0)
<1> DEFINE g == [h \in 0 .. 0 |-> [side \in {0, 1} |-> [v \in Int |-> Compute(side, v, 1)]]]
<1>1. [side \in {0, 1} |-> [v \in Int |-> Compute(side, v, 1)]] \in [{0, 1} -> [Int -> Int]]
  BY Computed
<1>2. g \in [0 .. 0 -> [{0, 1} -> [Int -> Int]]]
  BY <1>1
<1>3. \A h \in 0 .. 0, side \in {0, 1}, v \in Int : g[h][side][v] = ValueFrom(g, h, side, v)
  BY DEF ValueFrom
<1> QED BY <1>2, <1>3 DEF IsTreeValue

\* A set of naturals that is not empty has a least member.
LEMMA LeastNat ==
  ASSUME NEW A \in SUBSET Nat, A # {}
  PROVE  \E n \in A : \A m \in A : n =< m
<1> DEFINE T == {1 .. n : n \in A}
           Less == StrictSubsetOrdering(Nat)
<1>1. T \subseteq FiniteSubsetsOf(Nat)
  <2>1. \A n \in Nat : IsFiniteSet(1 .. n) /\ 1 .. n \in SUBSET Nat
    BY FS_Interval
  <2> QED BY <2>1 DEF FiniteSubsetsOf
<1>2. T # {}
  OBVIOUS
<1>3. PICK x \in T : \A y \in T : ~ (<<y, x>> \in Less)
  <2>1. IsWellFoundedOn(Less, FiniteSubsetsOf(Nat))
    BY FS_StrictSubsetOrderingWellFounded
  <2> HIDE DEF T, Less
  <2> QED BY <1>1, <1>2, <2>1, WFMin
<1>4. PICK n \in A : x = 1 .. n
  OBVIOUS
<1>5. ASSUME NEW m \in A, m < n PROVE FALSE
  <2>1. m \in Nat /\ n \in Nat /\ n \in 1 .. n /\ n \notin 1 .. m
    BY <1>5
  <2>2. 1 .. m \subseteq 1 .. n /\ 1 .. m # 1 .. n /\ 1 .. m \in SUBSET Nat /\ 1 .. n \in SUBSET Nat
    BY <1>5, <2>1
  <2>3. <<1 .. m, x>> \in Less
    BY <1>4, <2>2 DEF StrictSubsetOrdering
  <2> QED BY <1>3, <2>3
<1> QED BY <1>5

LEMMA TreeValueExists == \A d \in Nat : \E g : IsTreeValue(g, d)
<1> DEFINE A == {d \in Nat : ~ \E g : IsTreeValue(g, d)}
<1>1. SUFFICES ASSUME A # {} PROVE FALSE
  OBVIOUS
<1>2. A \in SUBSET Nat
  OBVIOUS
<1>3. PICK d \in A : \A m \in A : d =< m
  <2> HIDE DEF A
  <2> QED BY <1>1, <1>2, LeastNat
<1>4. d \in Nat /\ d # 0 /\ ~ \E g : IsTreeValue(g, d)
  BY TreeValueBase
<1>5. d - 1 \in Nat /\ d - 1 \notin A
  BY <1>3, <1>4
<1>6. PICK g : IsTreeValue(g, d - 1)
  BY <1>5
<1>7. \E f : IsTreeValue(f, d - 1 + 1)
  <2> HIDE DEF A
  <2> QED BY <1>5, <1>6, TreeValueStep
<1> QED BY <1>4, <1>7

LEMMA TreeValueDef ==
  TreeValue = [h \in 0 .. Deepest |-> [side \in {0, 1} |-> [v \in Int |->
                 ValueFrom(TreeValue, h, side, v)]]]
<1>1. PICK g : IsTreeValue(g, Deepest)
  BY TreeValueExists, MaxDepthsAssumption
<1>2. g = [h \in 0 .. Deepest |-> [side \in {0, 1} |-> [v \in Int |-> ValueFrom(g, h, side, v)]]]
  <2>1. ASSUME NEW h \in 0 .. Deepest
        PROVE  g[h] = [side \in {0, 1} |-> [v \in Int |-> ValueFrom(g, h, side, v)]]
    <3>1. g[h] \in [{0, 1} -> [Int -> Int]]
      BY <1>1 DEF IsTreeValue
    <3>2. ASSUME NEW side \in {0, 1}
          PROVE  g[h][side] = [v \in Int |-> ValueFrom(g, h, side, v)]
      <4>1. g[h][side] \in [Int -> Int]
        BY <3>1
      <4>2. \A v \in Int : g[h][side][v] = ValueFrom(g, h, side, v)
        BY <1>1 DEF IsTreeValue
      <4> QED BY <4>1, <4>2
    <3> QED BY <3>1, <3>2
  <2> QED BY <1>1, <2>1 DEF IsTreeValue
<1> QED BY <1>2 DEF TreeValue, ValueFrom

LEMMA SmallTrees ==
  ASSUME NEW side \in {0, 1}, NEW v \in Int
  PROVE  /\ TreeValue[0][side][v] = Compute(side, v, 1)
         /\ 1 =< Deepest =>
              TreeValue[1][side][v] = Compute(1, Compute(side, v, Compute(0, v, 1)), 1)
<1>1. /\ 0 \in 0 .. Deepest
      /\ 1 =< Deepest => 1 \in 0 .. Deepest
      /\ 0 \in {0, 1} /\ 1 \in {0, 1}
  BY MaxDepthsAssumption
<1>2. \A h \in 0 .. Deepest, s \in {0, 1}, w \in Int :
        TreeValue[h][s][w] = ValueFrom(TreeValue, h, s, w)
  <2>1. ASSUME NEW h \in 0 .. Deepest, NEW s \in {0, 1}, NEW w \in Int
        PROVE  TreeValue[h][s][w] = ValueFrom(TreeValue, h, s, w)
    <3>1. TreeValue[h] = [t \in {0, 1} |-> [u \in Int |-> ValueFrom(TreeValue, h, t, u)]]
      BY TreeValueDef
    <3> QED BY <3>1
  <2> QED BY <2>1
<1>3. ASSUME NEW s \in {0, 1}, NEW w \in Int
      PROVE  TreeValue[0][s][w] = Compute(s, w, 1)
  <2>1. TreeValue[0][s][w] = ValueFrom(TreeValue, 0, s, w)
    BY <1>1, <1>2
  <2> QED BY <2>1 DEF ValueFrom
<1>4. ASSUME 1 =< Deepest
      PROVE  TreeValue[1][side][v] = Compute(1, Compute(side, v, Compute(0, v, 1)), 1)
  <2>1. TreeValue[1][side][v] = TreeValue[0][1][Compute(side, v, TreeValue[0][0][v])]
    <3>1. TreeValue[1][side][v] = ValueFrom(TreeValue, 1, side, v)
      BY <1>1, <1>2, <1>4
    <3> QED BY <3>1 DEF ValueFrom
  <2>2. TreeValue[0][0][v] = Compute(0, v, 1) /\ Compute(0, v, 1) \in Int
    BY <1>1, <1>3, Computed
  <2>3. Compute(side, v, Compute(0, v, 1)) \in Int
    BY <2>2, Computed
  <2> QED BY <1>1, <1>3, <2>1, <2>2, <2>3
<1> QED BY <1>3, <1>4

LEMMA FinalOfInv ==
  ASSUME Typed, TreeInv
  PROVE  FinalIsTreeValue
<1>1. /\ args.lr \in {0, 1} /\ args.input \in Int
      /\ maxDepth \in 0 .. Deepest /\ Deepest \in Nat
  <2>1. args.lr \in {0, 1} /\ args.input \in Inputs
    BY DEF Typed
  <2>2. maxDepth \in 0 .. Deepest /\ Deepest \in Nat
    BY RootIsNode, Depths
  <2> QED BY <2>1, <2>2, InputsAssumption
<1>2. NodeInv(Root) /\ Len(Root) = 0
  BY RootIsNode, NodeIsSeq DEF TreeInv
<1>3. CASE maxDepth = 0
  <2>1. final # << >> => final = <<Compute(args.lr, args.input, 1)>>
    BY <1>2, <1>3 DEF NodeInv, AloneFlow
  <2>2. TreeValue[maxDepth][args.lr][args.input] = Compute(args.lr, args.input, 1)
    BY <1>1, <1>3, SmallTrees
  <2> QED BY <2>1, <2>2 DEF FinalIsTreeValue
<1>4. CASE maxDepth = 1
  <2>1. final # << >> =>
          final = <<Compute(1, Compute(args.lr, args.input, Compute(0, args.input, 1)), 1)>>
    BY <1>2, <1>4 DEF NodeInv, RootFlow
  <2>2. TreeValue[maxDepth][args.lr][args.input]
          = Compute(1, Compute(args.lr, args.input, Compute(0, args.input, 1)), 1)
    BY <1>1, <1>4, SmallTrees
  <2> QED BY <2>1, <2>2 DEF FinalIsTreeValue
<1>5. CASE maxDepth >= 2
  BY <1>5, HangOfInv DEF DeepTreesHang, FinalIsTreeValue
<1> QED BY <1>1, <1>3, <1>4, <1>5

\* Every process stays a process and every pipe a sequence of numbers.
THEOREM TreeTypesCorrect == TreeSpec => []Typed
BY Invariant, PTL

\* No number in a pipe is read by two processes, or by the one that wrote it, and a
\* worker computes on the pair of its own node, in a tree of any depth.
THEOREM PipesPrivateCorrect == TreeSpec => []PipesPrivate
BY Invariant, PipesOfInv, PTL

\* The root reports the value of the tree or nothing, whatever the number entered.
THEOREM FinalCorrect == TreeSpec => []FinalIsTreeValue
BY Invariant, FinalOfInv, PTL

\* Above two levels nothing is ever reported, and the root never ends.
THEOREM DeepTreesHangCorrect == TreeSpec => []DeepTreesHang
BY Invariant, HangOfInv, PTL


-----------------------------------------------------------------------------
(* The court *)

\* The inductive invariant.  current_players stays a natural number because it
\* counts the leaving thread, and a leaver knows the court is empty because of
\* CountMatches; that a thread which enters finds no match is CourtLockToken.
CourtInv == TypeOK /\ CourtLockToken /\ CountMatches /\ RefereeAnnouncesOnce

LEMMA CountedFinite ==
  /\ IsFiniteSet(Counted) /\ Cardinality(Counted) \in Nat
  /\ IsFiniteSet(Counted)' /\ Cardinality(Counted)' \in Nat
<1>1. Counted \subseteq Threads /\ Counted' \subseteq Threads
  BY DEF Counted
<1> QED BY <1>1, ThreadsAssumption, FS_Subset, FS_CardinalityType

\* A thread that comes onto the court, or leaves it, changes the count by one.
LEMMA CountedGrows ==
  ASSUME NEW t \in Threads, t \notin Counted, Counted' = Counted \cup {t}
  PROVE  Cardinality(Counted)' = Cardinality(Counted) + 1
BY CountedFinite, FS_AddElement

LEMMA CountedShrinks ==
  ASSUME NEW t \in Counted, Counted' = Counted \ {t}
  PROVE  /\ Cardinality(Counted)' = Cardinality(Counted) - 1
         /\ Cardinality(Counted) >= 1
<1>1. Cardinality(Counted)' = Cardinality(Counted) - 1
  BY CountedFinite, FS_RemoveElement
<1> QED BY <1>1, CountedFinite

LEMMA InitCourtInv == Init => CourtInv
<1> SUFFICES ASSUME Init PROVE CourtInv
  OBVIOUS
<1>1. TypeOK
  <2>1. visits \in [Threads -> 0 .. Visits]
    BY VisitsAssumption DEF Init
  <2>2. pc \in [Threads -> {"out", "arrived", "entering", "passing", "inside",
                           "barred", "waiting", "woken"}]
    BY DEF Init
  <2>3. court_lock \in Nat /\ match_start \in Nat /\ match_in_progress \in BOOLEAN
    BY DEF Init
  <2>4. /\ current_players \in Nat /\ waiting_players \in Int
        /\ referee_thread \in Threads \cup {NoThread}
        /\ noMatch \in Nat /\ refereeLeft \in Nat
    BY DEF Init
  <2> QED BY <2>1, <2>2, <2>3, <2>4 DEF TypeOK
<1>2. CourtLockToken /\ RefereeAnnouncesOnce
  BY DEF Init, CourtLockToken, InLock, RefereeAnnouncesOnce
<1>3. Counted = {}
  BY DEF Init, Counted
<1>4. CountMatches
  BY <1>3, FS_EmptySet DEF Init, CountMatches
<1> QED BY <1>1, <1>2, <1>4 DEF CourtInv

\* How the count of the threads on the court moves in each action.
LEMMA CountStep ==
  ASSUME CourtInv, [Next]_vars
  PROVE  CountMatches' /\ current_players' \in Nat
<1> USE DEF CourtInv, TypeOK, CountMatches, Goto
<1>1. CASE Counted' = Counted /\ UNCHANGED <<current_players, noMatch>>
  BY <1>1
<1>2. CASE UNCHANGED vars
  BY <1>1, <1>2 DEF vars, fields, messages, Counted
<1>3. ASSUME NEW t \in Threads, Thread(t) PROVE CountMatches' /\ current_players' \in Nat
  <2>1. CASE Arrive(t)
    <3>1. Counted' = Counted
      BY <2>1 DEF Arrive, Counted
    <3> QED BY <1>1, <2>1, <3>1 DEF Arrive, fields, messages
  <2>2. CASE SemWait(t)
    <3>1. Counted' = Counted
      BY <2>2 DEF SemWait, Counted
    <3> QED BY <1>1, <2>2, <3>1 DEF SemWait, fields, messages
  <2>3. CASE EnterSection(t)
    <3>1. pc[t] = "entering" /\ ~match_in_progress
      BY <2>3 DEF EnterSection, AfterStart, CourtLockToken, InLock
    <3>2. current_players' = current_players + 1 /\ noMatch' = noMatch
      BY <2>3, <3>1 DEF EnterSection, AfterStart
    <3>3. t \notin Counted /\ Counted' = Counted \cup {t}
      BY <2>3, <3>1 DEF EnterSection, AfterStart, Counted
    <3> QED BY <3>2, <3>3, CountedGrows, CountedFinite
  <2>4. CASE PostCourtLock(t)
    <3>1. pc[t] = "passing"
      BY <2>4 DEF PostCourtLock, CourtLockToken
    <3>2. Counted' = Counted
      BY <2>4, <3>1 DEF PostCourtLock, Counted
    <3> QED BY <1>1, <2>4, <3>2 DEF PostCourtLock, fields, messages
  <2>5. CASE LeaveWithoutMatch(t)
    <3>1. t \in Counted /\ Counted' = Counted \ {t}
      BY <2>5 DEF LeaveWithoutMatch, Counted
    <3>2. current_players' = current_players /\ noMatch' = noMatch + 1
      BY <2>5 DEF LeaveWithoutMatch, fields
    <3> QED BY <3>1, <3>2, CountedShrinks, CountedFinite
  <2>6. CASE LeaveMatch(t)
    <3>1. t \in Counted /\ Counted' = Counted \ {t}
      BY <2>6 DEF LeaveMatch, Counted
    <3>2. current_players' = current_players - 1 /\ noMatch' = noMatch
      BY <2>6 DEF LeaveMatch, PlayersLeft
    <3>3. Cardinality(Counted)' = Cardinality(Counted) - 1
      BY <3>1, CountedShrinks
    <3>4. Cardinality(Counted) \in Nat /\ Cardinality(Counted)' \in Nat
      BY CountedFinite
    <3> HIDE DEF Counted
    <3>5. current_players' = Cardinality(Counted)' + noMatch'
      BY <3>2, <3>3, <3>4
    <3> QED BY <3>2, <3>4, <3>5
  <2> QED BY <1>3, <2>1, <2>2, <2>3, <2>4, <2>5, <2>6 DEF Thread
<1> QED BY <1>2, <1>3 DEF Next

LEMMA TypeStep ==
  ASSUME CourtInv, [Next]_vars
  PROVE  TypeOK'
<1> USE DEF CourtInv, TypeOK, Goto, fields, messages
<1>1. current_players' \in Nat
  BY CountStep
<1>2. CASE UNCHANGED vars
  BY <1>2 DEF vars
<1>3. ASSUME NEW t \in Threads, Thread(t) PROVE TypeOK'
  <2>1. CASE Arrive(t)
    BY <2>1, VisitsAssumption DEF Arrive
  <2>2. CASE SemWait(t)
    BY <2>2 DEF SemWait
  <2>3. CASE EnterSection(t)
    <3>1. pc[t] = "entering" /\ ~match_in_progress
      BY <2>3 DEF EnterSection, AfterStart, CourtLockToken, InLock
    <3>2. match_start' \in Nat
      <4>1. current_players' - 1 \in Nat
               \/ UNCHANGED match_start
        BY <2>3, <3>1 DEF EnterSection, AfterStart
      <4> QED BY <2>3, <3>1, <4>1 DEF EnterSection, AfterStart
    <3>3. referee_thread' \in Threads \cup {NoThread} /\ match_in_progress' \in BOOLEAN
      BY <2>3, <3>1 DEF EnterSection, AfterStart, NextReferee
    <3>4. pc' \in [Threads -> {"out", "arrived", "entering", "passing", "inside",
                              "barred", "waiting", "woken"}]
      BY <2>3, <3>1 DEF EnterSection, AfterStart
    <3>5. waiting_players' \in Int /\ refereeLeft' \in Nat
      BY <2>3, <3>1 DEF EnterSection, AfterStart
    <3>6. UNCHANGED <<visits, court_lock, noMatch>>
      BY <2>3 DEF EnterSection, AfterStart
    <3> QED BY <1>1, <3>2, <3>3, <3>4, <3>5, <3>6
  <2>4. CASE PostCourtLock(t)
    BY <2>4 DEF PostCourtLock
  <2>5. CASE LeaveWithoutMatch(t)
    BY <2>5 DEF LeaveWithoutMatch
  <2>6. CASE LeaveMatch(t)
    <3>1. match_start' \in Nat /\ court_lock' \in Nat /\ match_in_progress' \in BOOLEAN
      <4>1. waiting_players = 0
        BY DEF CourtLockToken
      <4>2. CASE current_players = 1
        <5>1. /\ match_start' = match_start + waiting_players
              /\ court_lock' = court_lock + 1
          BY <2>6, <4>2 DEF LeaveMatch, LastToLeave
        <5>2. match_in_progress' = FALSE
          BY <2>6, <4>2 DEF LeaveMatch, LastToLeave
        <5>3. match_start' \in Nat /\ court_lock' \in Nat
          BY <4>1, <5>1
        <5> QED BY <5>2, <5>3
      <4>3. CASE current_players # 1
        BY <2>6, <4>3 DEF LeaveMatch, LastToLeave
      <4> QED BY <4>2, <4>3
    <3>2. refereeLeft' \in Nat
      BY <2>6 DEF LeaveMatch
    <3>3. pc' \in [Threads -> {"out", "arrived", "entering", "passing", "inside",
                              "barred", "waiting", "woken"}]
      BY <2>6 DEF LeaveMatch
    <3> QED BY <1>1, <2>6, <3>1, <3>2, <3>3 DEF LeaveMatch
  <2> QED BY <1>3, <2>1, <2>2, <2>3, <2>4, <2>5, <2>6 DEF Thread
<1> QED BY <1>2, <1>3 DEF Next

\* Where the unit of court_lock goes in each action.
LEMMA LockStep ==
  ASSUME CourtInv, [Next]_vars
  PROVE  CourtLockToken'
<1> USE DEF CourtInv, TypeOK, Goto, fields, messages, CourtLockToken, InLock
<1>1. CASE UNCHANGED vars
  BY <1>1 DEF vars
<1>2. ASSUME NEW t \in Threads, Thread(t) PROVE CourtLockToken'
  <2>1. CASE Arrive(t)
    BY <2>1 DEF Arrive
  <2>2. CASE SemWait(t)
    BY <2>2 DEF SemWait
  <2>3. CASE EnterSection(t)
    BY <2>3 DEF EnterSection, AfterStart
  <2>4. CASE PostCourtLock(t)
    BY <2>4 DEF PostCourtLock
  <2>5. CASE LeaveWithoutMatch(t)
    BY <2>5 DEF LeaveWithoutMatch
  <2>6. CASE LeaveMatch(t)
    <3>1. match_in_progress /\ court_lock = 0 /\ waiting_players' = waiting_players
      BY <2>6 DEF LeaveMatch
    <3>2. \A u \in Threads : ~InLock(u)
      BY <3>1
    <3>3. pc' = [pc EXCEPT ![t] = "out"]
      BY <2>6 DEF LeaveMatch
    <3>4. \/ ~match_in_progress' /\ court_lock' = 1
          \/ court_lock' = 0
      <4>1. CASE current_players = 1
        <5>1. court_lock' = court_lock + 1
          BY <2>6, <4>1 DEF LeaveMatch, LastToLeave
        <5>2. match_in_progress' = FALSE
          BY <2>6, <4>1 DEF LeaveMatch, LastToLeave
        <5> QED BY <3>1, <5>1, <5>2
      <4>2. CASE current_players # 1
        BY <2>6, <3>1, <4>2 DEF LeaveMatch, LastToLeave
      <4> QED BY <4>1, <4>2
    <3> QED BY <3>1, <3>2, <3>3, <3>4
  <2> QED BY <1>2, <2>1, <2>2, <2>3, <2>4, <2>5, <2>6 DEF Thread
<1> QED BY <1>1, <1>2 DEF Next

LEMMA RefereeStep ==
  ASSUME CourtInv, [Next]_vars
  PROVE  RefereeAnnouncesOnce'
<1> USE DEF CourtInv, TypeOK, Goto, fields, messages, RefereeAnnouncesOnce
<1>1. CASE UNCHANGED vars
  BY <1>1 DEF vars
<1>2. ASSUME NEW t \in Threads, Thread(t) PROVE RefereeAnnouncesOnce'
  <2>1. CASE Arrive(t)
    BY <2>1 DEF Arrive
  <2>2. CASE SemWait(t)
    BY <2>2 DEF SemWait
  <2>3. CASE EnterSection(t)
    <3>1. pc[t] = "entering" /\ ~match_in_progress
      BY <2>3 DEF EnterSection, AfterStart, CourtLockToken, InLock
    <3> QED BY <2>3, <3>1 DEF EnterSection, AfterStart, NextReferee
  <2>4. CASE PostCourtLock(t)
    BY <2>4 DEF PostCourtLock, CourtLockToken, InLock
  <2>5. CASE LeaveWithoutMatch(t)
    BY <2>5 DEF LeaveWithoutMatch
  <2>6. CASE LeaveMatch(t)
    <3>1. CASE ~match_in_progress'
      BY <3>1
    <3>2. CASE match_in_progress'
      <4>1. pc' = [pc EXCEPT ![t] = "out"] /\ pc[t] = "inside" /\ match_in_progress
        BY <2>6 DEF LeaveMatch
      <4>2. referee_thread' = referee_thread
        BY <2>6 DEF LeaveMatch
      <4>3. CASE HasReferee = 1 /\ t = referee_thread
        <5>1. refereeLeft' = 1
          BY <2>6, <4>1, <4>3 DEF LeaveMatch
        <5>2. pc'[t] = "out"
          BY <4>1
        <5> QED BY <4>2, <4>3, <5>1, <5>2
      <4>4. CASE ~(HasReferee = 1 /\ t = referee_thread)
        <5>1. refereeLeft' = refereeLeft
          BY <2>6, <4>4 DEF LeaveMatch
        <5>2. HasReferee = 1 => pc'[referee_thread] = pc[referee_thread]
          BY <4>1, <4>4
        <5> QED BY <4>1, <4>2, <5>1, <5>2
      <4> QED BY <4>3, <4>4
    <3> QED BY <3>1, <3>2
  <2> QED BY <1>2, <2>1, <2>2, <2>3, <2>4, <2>5, <2>6 DEF Thread
<1> QED BY <1>1, <1>2 DEF Next

LEMMA CourtInductive == Spec => []CourtInv
<1>1. CourtInv /\ [Next]_vars => CourtInv'
  BY CountStep, TypeStep, LockStep, RefereeStep DEF CourtInv
<1> QED BY <1>1, InitCourtInv, PTL DEF Spec

\* Every variable keeps its type; current_players never goes below zero.
THEOREM CourtTypesCorrect == Spec => []TypeOK
<1>1. CourtInv => TypeOK
  BY DEF CourtInv
<1> QED BY <1>1, CourtInductive, PTL

\* The unit of court_lock is in one place, and nobody waits for a match to end.
THEOREM CourtLockCorrect == Spec => []CourtLockToken
<1>1. CourtInv => CourtLockToken
  BY DEF CourtInv
<1> QED BY <1>1, CourtInductive, PTL

\* current_players is the threads on the court plus those that gave up.
THEOREM CountCorrect == Spec => []CountMatches
<1>1. CourtInv => CountMatches
  BY DEF CourtInv
<1> QED BY <1>1, CourtInductive, PTL

-----------------------------------------------------------------------------
\* The leave() that ends a match: current_players = 1 is the leaving thread, so
\* nobody else is on the court and nobody ever gave up.
LEMMA LastLeaver ==
  ASSUME CourtInv, NEW t \in Threads, LeaveMatch(t), LastToLeave
  PROVE  Counted = {t} /\ noMatch = 0
<1>1. t \in Counted
  BY DEF LeaveMatch, Goto, Counted
<1>2. Cardinality(Counted) + noMatch = 1 /\ noMatch \in Nat
  BY DEF CourtInv, TypeOK, CountMatches, LastToLeave
<1>3. Cardinality(Counted \ {t}) = Cardinality(Counted) - 1
  BY <1>1, CountedFinite, FS_RemoveElement
<1>4. IsFiniteSet(Counted \ {t}) /\ Cardinality(Counted \ {t}) \in Nat
  BY CountedFinite, FS_Subset, FS_CardinalityType
<1>5. Cardinality(Counted \ {t}) = 0 /\ noMatch = 0
  <2> HIDE DEF Counted
  <2> QED BY <1>2, <1>3, <1>4, CountedFinite
<1>6. Counted \ {t} = {}
  BY <1>4, <1>5, FS_EmptySet
<1> QED BY <1>1, <1>5, <1>6

\* Only a LeaveMatch that is the last one ends a match.
LEMMA OnlyLastLeaverEnds ==
  ASSUME CourtInv, [Next]_vars, match_in_progress, ~match_in_progress'
  PROVE  \E t \in Threads : LeaveMatch(t) /\ LastToLeave
<1>1. PICK t \in Threads : Thread(t)
  BY DEF Next, vars, fields
<1>2. ~Arrive(t) /\ ~SemWait(t) /\ ~PostCourtLock(t) /\ ~LeaveWithoutMatch(t)
  BY DEF Arrive, SemWait, PostCourtLock, LeaveWithoutMatch, fields
<1>3. ~EnterSection(t)
  BY DEF EnterSection, AfterStart, CourtInv, CourtLockToken, InLock
<1>4. LeaveMatch(t)
  BY <1>1, <1>2, <1>3 DEF Thread
<1>5. LastToLeave
  BY <1>4 DEF LeaveMatch
<1> QED BY <1>4, <1>5

\* A match ends with an empty court, after its referee's one announcement.
THEOREM EndsEmpty == Spec => MatchEndsEmpty
<1>1. ASSUME CourtInv, [Next]_vars, match_in_progress, ~match_in_progress'
      PROVE  /\ \A u \in Threads : pc'[u] # "inside"
             /\ refereeLeft' = HasReferee
  <2>1. PICK t \in Threads : LeaveMatch(t) /\ LastToLeave
    BY <1>1, OnlyLastLeaverEnds
  <2>2. Counted = {t}
    BY <1>1, <2>1, LastLeaver
  <2>3. pc[t] = "inside" /\ pc' = [pc EXCEPT ![t] = "out"]
    BY <2>1 DEF LeaveMatch, Goto
  <2>4. \A u \in Threads : pc'[u] # "inside"
    BY <1>1, <2>2, <2>3 DEF Counted, CourtInv, TypeOK
  <2>5. refereeLeft' = HasReferee
    <3>1. CASE HasReferee = 1 /\ t = referee_thread
      <4>1. refereeLeft = 0
        BY <1>1, <2>3, <3>1 DEF CourtInv, RefereeAnnouncesOnce
      <4> QED BY <2>1, <3>1, <4>1 DEF LeaveMatch
    <3>2. CASE HasReferee = 1 /\ t # referee_thread
      <4>1. referee_thread \in Threads /\ pc[referee_thread] # "inside"
        BY <1>1, <2>2, <3>2 DEF Counted, CourtInv, RefereeAnnouncesOnce
      <4>2. refereeLeft = 1
        BY <1>1, <3>2, <4>1 DEF CourtInv, RefereeAnnouncesOnce
      <4> QED BY <1>1, <2>1, <3>2, <4>2 DEF LeaveMatch, CourtInv, TypeOK
    <3>3. CASE HasReferee = 0
      <4>1. refereeLeft = 0
        BY <1>1, <3>3 DEF CourtInv, RefereeAnnouncesOnce
      <4> QED BY <2>1, <3>3, <4>1 DEF LeaveMatch
    <3> QED BY <3>1, <3>2, <3>3, ArgumentsAssumption
  <2> QED BY <2>4, <2>5
<1>2. CourtInv /\ [Next]_vars => [EndsEmptyStep]_vars
  BY <1>1 DEF EndsEmptyStep
<1> QED BY <1>2, CourtInductive, PTL DEF Spec, MatchEndsEmpty

\* A match that counted somebody who had given up never ends.
THEOREM ShortNeverEnds == Spec => ShortMatchNeverEnds
<1>1. ASSUME CourtInv, [Next]_vars, match_in_progress, noMatch > 0
      PROVE  match_in_progress'
  BY <1>1, OnlyLastLeaverEnds, LastLeaver
<1>2. CourtInv /\ [Next]_vars
        => [match_in_progress /\ noMatch > 0 => match_in_progress']_vars
  BY <1>1
<1> QED BY <1>2, CourtInductive, PTL DEF Spec, ShortMatchNeverEnds

=============================================================================
