---------------------------- MODULE TwoLockQueue ----------------------------
(***************************************************************************)
(* The other Queue, PA2/queue__.h: a linked list with a dummy node, a lock *)
(* for its head and one for its tail.  A dequeue frees the node it leaves  *)
(* behind, and malloc may hand that node to the next enqueue.              *)
(***************************************************************************)
EXTENDS Integers, Sequences, FiniteSets, Functions

CONSTANTS
  Producers, Consumers, NoCaller,
  Nodes, Null,        \* the memory malloc takes nodes from; the null pointer
  Puts, Gets          \* enqueue calls per producer, dequeue calls per consumer (bounds)

ASSUME CallersAssumption == Producers \cap Consumers = {} /\ NoCaller \notin Producers \cup Consumers
ASSUME NodesAssumption == IsFiniteSet(Nodes) /\ Nodes # {} /\ Null \notin Nodes
ASSUME CallsAssumption == Puts \in Nat /\ Gets \in Nat

Callers == Producers \cup Consumers

VARIABLES
  head, tail,          \* the queue's pointers
  headLock, tailLock,  \* who holds them, or NoCaller
  value, next,         \* per node
  free,                \* the nodes that are not allocated
  pc, calls,           \* per caller: its next step, the calls it has started
  node, newHead,       \* per caller: the locals tmp and newHead
  got                  \* per consumer: the values its dequeues returned, in order

locals == <<node, newHead>>
vars == <<head, tail, headLock, tailLock, value, next, free, pc, calls, locals, got>>

Item(p, i) == <<p, i>>
Items == Producers \X (1 .. Puts)
NoItem == <<>>

\* Queue_Init: one dummy node.
Init ==
  /\ \E dummy \in Nodes :
       /\ head = dummy
       /\ tail = dummy
       /\ free = Nodes \ {dummy}
  /\ headLock = NoCaller
  /\ tailLock = NoCaller
  /\ value = [n \in Nodes |-> NoItem]
  /\ next = [n \in Nodes |-> Null]
  /\ pc = [a \in Callers |-> "idle"]
  /\ calls = [a \in Callers |-> 0]
  /\ node = [a \in Callers |-> Null]
  /\ newHead = [a \in Callers |-> Null]
  /\ got = [c \in Consumers |-> <<>>]

Goto(a, from, to) == pc[a] = from /\ pc' = [pc EXCEPT ![a] = to]

-----------------------------------------------------------------------------
(* Queue_Enqueue *)

\* malloc returns any node that is free, a recycled one too.
Allocate(p) ==
  /\ calls[p] < Puts
  /\ Goto(p, "idle", "lockTail")
  /\ calls' = [calls EXCEPT ![p] = @ + 1]
  /\ \E n \in free :
       /\ free' = free \ {n}
       /\ node' = [node EXCEPT ![p] = n]
       /\ value' = [value EXCEPT ![n] = Item(p, calls[p] + 1)]
       /\ next' = [next EXCEPT ![n] = Null]
  /\ UNCHANGED <<head, tail, headLock, tailLock, newHead, got>>

LockTailAnyway(p) ==     \* mutant of LockTail: enqueues do not exclude each other
  /\ Goto(p, "lockTail", "link")
  /\ tailLock' = p
  /\ UNCHANGED <<head, tail, headLock, value, next, free, calls, locals, got>>

LockTail(p) ==
  /\ tailLock = NoCaller
  /\ Goto(p, "lockTail", "link")
  /\ tailLock' = p
  /\ UNCHANGED <<head, tail, headLock, value, next, free, calls, locals, got>>

Link(p) ==
  /\ Goto(p, "link", "advance")
  /\ next' = [next EXCEPT ![tail] = node[p]]
  /\ UNCHANGED <<head, tail, headLock, tailLock, value, free, calls, locals, got>>

AdvanceTail(p) ==
  /\ Goto(p, "advance", "unlockTail")
  /\ tail' = node[p]
  /\ UNCHANGED <<head, headLock, tailLock, value, next, free, calls, locals, got>>

UnlockTail(p) ==
  /\ Goto(p, "unlockTail", "idle")
  /\ tailLock' = NoCaller
  /\ UNCHANGED <<head, tail, headLock, value, next, free, calls, locals, got>>

-----------------------------------------------------------------------------
(* Queue_Dequeue *)

LockHeadAnyway(c) ==     \* mutant of LockHead: dequeues do not exclude each other
  /\ calls[c] < Gets
  /\ Goto(c, "idle", "look")
  /\ headLock' = c
  /\ calls' = [calls EXCEPT ![c] = @ + 1]
  /\ UNCHANGED <<head, tail, tailLock, value, next, free, locals, got>>

LockHead(c) ==
  /\ calls[c] < Gets
  /\ headLock = NoCaller
  /\ Goto(c, "idle", "look")
  /\ headLock' = c
  /\ calls' = [calls EXCEPT ![c] = @ + 1]
  /\ UNCHANGED <<head, tail, tailLock, value, next, free, locals, got>>

\* The next node is read without tailLock.  There is none: return 0.
Look(c) ==
  /\ Goto(c, "look", IF next[head] = Null THEN "unlockEmpty" ELSE "remove")
  /\ node' = [node EXCEPT ![c] = head]
  /\ newHead' = [newHead EXCEPT ![c] = next[head]]
  /\ UNCHANGED <<head, tail, headLock, tailLock, value, next, free, calls, got>>

Remove(c) ==
  /\ Goto(c, "remove", "unlockHead")
  /\ got' = [got EXCEPT ![c] = Append(@, value[newHead[c]])]
  /\ head' = newHead[c]
  /\ UNCHANGED <<tail, headLock, tailLock, value, next, free, calls, locals>>

UnlockHead(c) ==
  /\ \/ Goto(c, "unlockHead", "free")
     \/ Goto(c, "unlockEmpty", "idle")
  /\ headLock' = NoCaller
  /\ UNCHANGED <<head, tail, tailLock, value, next, free, calls, locals, got>>

LeftBehind(c) == node[c]

Free(c) ==
  /\ Goto(c, "free", "idle")
  /\ free' = free \cup {LeftBehind(c)}
  /\ UNCHANGED <<head, tail, headLock, tailLock, value, next, calls, locals, got>>

-----------------------------------------------------------------------------
(* Queue::print, called by a consumer: headLock is held for the whole walk *)

LockToPrint(c) ==
  /\ calls[c] < Gets
  /\ headLock = NoCaller
  /\ Goto(c, "idle", "walk")
  /\ headLock' = c
  /\ calls' = [calls EXCEPT ![c] = @ + 1]
  /\ node' = [node EXCEPT ![c] = head]
  /\ UNCHANGED <<head, tail, tailLock, value, next, free, newHead, got>>

\* Reads tmp->next: goes on to that node, or stops where there is none.
Walk(c) ==
  /\ Goto(c, "walk", IF next[node[c]] = Null THEN "unlockEmpty" ELSE "walk")
  /\ node' = [node EXCEPT ![c] = IF next[@] = Null THEN @ ELSE next[@]]
  /\ UNCHANGED <<head, tail, headLock, tailLock, value, next, free, calls, newHead, got>>

-----------------------------------------------------------------------------
Enqueue(p) == Allocate(p) \/ LockTail(p) \/ Link(p) \/ AdvanceTail(p) \/ UnlockTail(p)
Dequeue(c) == LockHead(c) \/ Look(c) \/ Remove(c) \/ UnlockHead(c) \/ Free(c)
PrintList(c) == LockToPrint(c) \/ Walk(c)

Next == (\E p \in Producers : Enqueue(p)) \/ (\E c \in Consumers : Dequeue(c) \/ PrintList(c))

Spec == Init /\ [][Next]_vars

-----------------------------------------------------------------------------
(* Properties *)

\* The type invariant.
TypeOK ==
  /\ head \in Nodes /\ tail \in Nodes
  /\ headLock \in Callers \cup {NoCaller} /\ tailLock \in Callers \cup {NoCaller}
  /\ value \in [Nodes -> Items \cup {NoItem}]
  /\ next \in [Nodes -> Nodes \cup {Null}]
  /\ free \subseteq Nodes
  /\ pc \in [Callers -> {"idle", "lockTail", "link", "advance", "unlockTail",
                         "look", "remove", "unlockEmpty", "unlockHead", "free", "walk"}]
  /\ node \in [Callers -> Nodes \cup {Null}]
  /\ newHead \in [Callers -> Nodes \cup {Null}]
  /\ calls \in [Callers -> Nat]
  /\ got \in [Consumers -> Seq(Items \cup {NoItem})]

\* s leads from head along the next pointers to a node without one.
IsList(s) ==
  /\ s[1] = head
  /\ \A i \in 1 .. Len(s) - 1 : next[s[i]] = s[i + 1]
  /\ next[s[Len(s)]] = Null

\* The nodes of the list, head first.
Paths == UNION {Injection(1 .. n, Nodes) : n \in 1 .. Cardinality(Nodes)}
List == CHOOSE s \in Paths : IsList(s)

\* No step reads or writes freed memory, although dequeues free nodes while enqueues
\* under the other lock are half done: the list is whole, and it and the nodes the calls in progress
\* will follow or free, are allocated.  The tail is freed only while an enqueue that
\* has linked its node has yet to move it.
NoUseAfterFree ==
  /\ \E s \in Paths : IsList(s) /\ \A i \in 1 .. Len(s) : s[i] \notin free
  /\ tail \in free => \E p \in Producers : pc[p] = "advance"
  /\ \A a \in Callers :
       /\ pc[a] \in {"lockTail", "link", "advance", "remove", "unlockHead", "free", "walk"} => node[a] \notin free
       /\ pc[a] = "remove" => newHead[a] \notin free

\* The tail is the last node of the list, or is about to be: the node linked last is
\* the one the enqueue that holds tailLock will make the tail, however many dequeues
\* run, and free the old tail, in between.
TailOnList ==
  LET list == List
      last == list[Len(list)]
  IN  \/ tail = last
      \/ \E p \in Producers : pc[p] = "advance" /\ node[p] = last

\* The list under both locks: its parts above.
ListSound == TypeOK /\ NoUseAfterFree /\ TailOnList

\* The node at the head is the dummy.
Waiting ==
  LET list == List
  IN  [i \in 1 .. Len(list) - 1 |-> value[list[i + 1]]]

Abstract == INSTANCE FifoQueue WITH Values <- Items, items <- Waiting

\* The list is a FIFO queue: an enqueue takes effect when its node is linked, a
\* dequeue when head moves.
ImplementsFifo == Abstract!Spec
=============================================================================
