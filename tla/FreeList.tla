------------------------------ MODULE FreeList ------------------------------
(***************************************************************************)
(* FreeList of PA2/concurrentqueue.h: the lock-free stack from which the   *)
(* producers of a queue take their blocks and to which the consumers that  *)
(* empty a block return it.  A node carries a count of the references to   *)
(* it, whose top bit says that the node should be on the list.             *)
(*                                                                         *)
(* One action is one atomic operation of the code.                         *)
(***************************************************************************)
EXTENDS Integers, FiniteSets

CONSTANTS
    Threads, Nodes, Null,
    SHOULD_BE_ON_FREELIST,   \* 2^31 in the code
    MaxCalls                 \* bound: calls of each thread

REFS_MASK == SHOULD_BE_ON_FREELIST - 1
Refs == 0 .. 2 * SHOULD_BE_ON_FREELIST - 1

ASSUME NullAssumption == Null \notin Nodes
ASSUME ThreadsAssumption == IsFiniteSet(Threads)
\* The threads of a program are far fewer than the references a word counts.
ASSUME RefsAssumption ==
    /\ SHOULD_BE_ON_FREELIST \in Nat
    /\ Cardinality(Threads) + 2 < SHOULD_BE_ON_FREELIST
ASSUME CallsAssumption == MaxCalls \in Nat

VARIABLES
    freeListHead,
    freeListRefs, freeListNext,  \* per node
    place,    \* per node: who answers for it
    pc,       \* per thread
    node,     \* per thread: the node it works on (head, prevHead)
    seen,     \* per thread: the references it has read
    next,     \* per thread: the successor of that node, as it has read it
    top,      \* per thread: the head with which try_get() goes on
    calls     \* per thread: calls made, for the bound

vars == <<freeListHead, freeListRefs, freeListNext, place, pc, node, seen, next, top, calls>>

\* A node is held by the queue, taken off the list by a thread about to hold it,
\* in the hands of a thread that adds it, waiting for the thread that puts its
\* references back at zero, or listed.
Places == {"held", "taken", "adding", "waiting", "listed"}

Init ==
    /\ freeListHead = Null
    /\ freeListRefs = [n \in Nodes |-> 0]
    /\ freeListNext = [n \in Nodes |-> Null]
    /\ place = [n \in Nodes |-> "held"]
    /\ pc = [t \in Threads |-> "idle"]
    /\ node = [t \in Threads |-> Null]
    /\ seen = [t \in Threads |-> 0]
    /\ next = [t \in Threads |-> Null]
    /\ top = [t \in Threads |-> Null]
    /\ calls = [t \in Threads |-> 0]

Goto(t, label) == pc' = [pc EXCEPT ![t] = label]
Move(n, p) == place' = [place EXCEPT ![n] = p]
\* fetch_add and fetch_sub; TypeOK says that the 32 bits never wrap.
AddRefs(n, k) == freeListRefs' = [freeListRefs EXCEPT ![n] = @ + k]

\* Locals that go out of scope.
Forget(local, t) == [local EXCEPT ![t] = Null]

Call(t) == calls[t] < MaxCalls /\ calls' = [calls EXCEPT ![t] = @ + 1]

-------------------------------------------------------------------------------
(* try_get() *)

\* The head of the loop of try_get(), with h the head it has.
Loop(t, h) ==
    /\ node' = [node EXCEPT ![t] = h]
    /\ top' = Forget(top, t)
    /\ Goto(t, IF h = Null THEN "idle" ELSE "refs")

TryGet(t) ==
    /\ pc[t] = "idle"
    /\ Call(t)
    /\ Loop(t, freeListHead)
    /\ UNCHANGED <<freeListHead, freeListRefs, freeListNext, place, seen, next>>

LoadRefs(t) ==
    /\ pc[t] = "refs"
    /\ seen' = [seen EXCEPT ![t] = freeListRefs[node[t]]]
    /\ Goto(t, IF freeListRefs[node[t]] % SHOULD_BE_ON_FREELIST = 0 THEN "reload" ELSE "acquire")
    /\ UNCHANGED <<freeListHead, freeListRefs, freeListNext, place, node, next, top, calls>>

\* Mutant of Acquire: the references are increased whatever they have become.
AcquireAnyway(t) ==
    /\ pc[t] = "acquire"
    /\ AddRefs(node[t], 1)
    /\ seen' = [seen EXCEPT ![t] = 0]
    /\ Goto(t, "next")
    /\ UNCHANGED <<freeListHead, freeListNext, place, node, next, top, calls>>

Acquire(t) ==
    /\ pc[t] = "acquire"
    /\ freeListRefs[node[t]] = seen[t]
    /\ AddRefs(node[t], 1)
    /\ seen' = [seen EXCEPT ![t] = 0]
    /\ Goto(t, "next")
    /\ UNCHANGED <<freeListHead, freeListNext, place, node, next, top, calls>>

AcquireFails(t) ==
    /\ pc[t] = "acquire"
    /\ freeListRefs[node[t]] # seen[t]
    /\ seen' = [seen EXCEPT ![t] = 0]
    /\ Goto(t, "reload")
    /\ UNCHANGED <<freeListHead, freeListRefs, freeListNext, place, node, next, top, calls>>

Reload(t) ==
    /\ pc[t] = "reload"
    /\ Loop(t, freeListHead)
    /\ UNCHANGED <<freeListHead, freeListRefs, freeListNext, place, seen, next, calls>>

LoadNext(t) ==
    /\ pc[t] = "next"
    /\ next' = [next EXCEPT ![t] = freeListNext[node[t]]]
    /\ Goto(t, "pop")
    /\ UNCHANGED <<freeListHead, freeListRefs, freeListNext, place, node, seen, top, calls>>

Pop(t) ==
    /\ pc[t] = "pop"
    /\ freeListHead = node[t]
    /\ freeListHead' = next[t]
    /\ Move(node[t], "taken")
    /\ next' = Forget(next, t)
    /\ Goto(t, "take")
    /\ UNCHANGED <<freeListRefs, freeListNext, node, seen, top, calls>>

PopFails(t) ==
    /\ pc[t] = "pop"
    /\ freeListHead # node[t]
    /\ top' = [top EXCEPT ![t] = freeListHead]
    /\ next' = Forget(next, t)
    /\ Goto(t, "drop")
    /\ UNCHANGED <<freeListHead, freeListRefs, freeListNext, place, node, seen, calls>>

\* Mutant of Take: the reference of the list is not dropped.
TakeDropsOne(t) ==
    /\ pc[t] = "take"
    /\ AddRefs(node[t], -1)
    /\ Move(node[t], "held")
    /\ node' = Forget(node, t)
    /\ Goto(t, "idle")
    /\ UNCHANGED <<freeListHead, freeListNext, seen, next, top, calls>>

\* The thread's own reference and the list's are dropped: the node is returned.
Take(t) ==
    /\ pc[t] = "take"
    /\ AddRefs(node[t], -2)
    /\ Move(node[t], "held")
    /\ node' = Forget(node, t)
    /\ Goto(t, "idle")
    /\ UNCHANGED <<freeListHead, freeListNext, seen, next, top, calls>>

\* Mutant of Drop: the node waiting for its last reference is forgotten.
DropForgets(t) ==
    /\ pc[t] = "drop"
    /\ AddRefs(node[t], -1)
    /\ Loop(t, top[t])
    /\ UNCHANGED <<freeListHead, freeListNext, place, seen, next, calls>>

\* The last reference to a waiting node: this thread adds it.
Drop(t) ==
    /\ pc[t] = "drop"
    /\ AddRefs(node[t], -1)
    /\ IF freeListRefs[node[t]] = SHOULD_BE_ON_FREELIST + 1
       THEN Move(node[t], "adding") /\ Goto(t, "load") /\ UNCHANGED <<node, top>>
       ELSE Loop(t, top[t]) /\ UNCHANGED place
    /\ UNCHANGED <<freeListHead, freeListNext, seen, next, calls>>

-------------------------------------------------------------------------------
(* add() and add_knowing_refcount_is_zero(), which add() and try_get()     *)
(* call: with top[t] = Null the loop of try_get() that follows returns.    *)

Add(t, n) ==
    /\ pc[t] = "idle"
    /\ Call(t)
    /\ place[n] = "held"
    /\ AddRefs(n, SHOULD_BE_ON_FREELIST)
    /\ IF freeListRefs[n] = 0
       THEN Move(n, "adding") /\ Goto(t, "load") /\ node' = [node EXCEPT ![t] = n]
       ELSE Move(n, "waiting") /\ UNCHANGED <<pc, node>>
    /\ UNCHANGED <<freeListHead, freeListNext, seen, next, top>>

LoadHead(t) ==
    /\ pc[t] = "load"
    /\ next' = [next EXCEPT ![t] = freeListHead]
    /\ Goto(t, "link")
    /\ UNCHANGED <<freeListHead, freeListRefs, freeListNext, place, node, seen, top, calls>>

StoreNext(t) ==
    /\ pc[t] = "link"
    /\ freeListNext' = [freeListNext EXCEPT ![node[t]] = next[t]]
    /\ Goto(t, "count")
    /\ UNCHANGED <<freeListHead, freeListRefs, place, node, seen, next, top, calls>>

StoreRefs(t) ==
    /\ pc[t] = "count"
    /\ freeListRefs' = [freeListRefs EXCEPT ![node[t]] = 1]
    /\ Goto(t, "push")
    /\ UNCHANGED <<freeListHead, freeListNext, place, node, seen, next, top, calls>>

Push(t) ==
    /\ pc[t] = "push"
    /\ freeListHead = next[t]
    /\ freeListHead' = node[t]
    /\ Move(node[t], "listed")
    /\ next' = Forget(next, t)
    /\ Loop(t, top[t])
    /\ UNCHANGED <<freeListRefs, freeListNext, seen, calls>>

PushFails(t) ==
    /\ pc[t] = "push"
    /\ freeListHead # next[t]
    /\ next' = [next EXCEPT ![t] = freeListHead]
    /\ Goto(t, "defer")
    /\ UNCHANGED <<freeListHead, freeListRefs, freeListNext, place, node, seen, top, calls>>

\* Tried again by the thread that drops the last reference: this one, when no
\* other refers to the node.
Defer(t) ==
    /\ pc[t] = "defer"
    /\ AddRefs(node[t], SHOULD_BE_ON_FREELIST - 1)
    /\ IF freeListRefs[node[t]] = 1
       THEN Goto(t, "link") /\ UNCHANGED <<place, node, next, top>>
       ELSE Move(node[t], "waiting") /\ next' = Forget(next, t) /\ Loop(t, top[t])
    /\ UNCHANGED <<freeListHead, freeListNext, seen, calls>>

-------------------------------------------------------------------------------
Getting(t) ==
    \/ TryGet(t) \/ LoadRefs(t) \/ Acquire(t) \/ AcquireFails(t) \/ Reload(t)
    \/ LoadNext(t) \/ Pop(t) \/ PopFails(t) \/ Take(t) \/ Drop(t)
Adding(t) ==
    \/ LoadHead(t) \/ StoreNext(t) \/ StoreRefs(t) \/ Push(t) \/ PushFails(t) \/ Defer(t)

Next == \E t \in Threads : Getting(t) \/ (\E n \in Nodes : Add(t, n)) \/ Adding(t)

Spec == Init /\ [][Next]_vars

(* A thread of a preemptive scheduler always takes its next step, once it is *)
(* in a call; nothing makes it call.                                         *)
Working(t) == pc[t] # "idle" /\ (Getting(t) \/ Adding(t))
FairSpec == Spec /\ \A t \in Threads : WF_vars(Working(t))

-------------------------------------------------------------------------------
(* Properties *)

TypeOK ==
    /\ freeListHead \in Nodes \cup {Null}
    /\ freeListRefs \in [Nodes -> Refs]
    /\ freeListNext \in [Nodes -> Nodes \cup {Null}]
    /\ place \in [Nodes -> Places]
    /\ pc \in [Threads -> {"idle", "refs", "reload", "acquire", "next", "pop", "take", "drop",
                           "load", "link", "count", "push", "defer"}]
    /\ node \in [Threads -> Nodes \cup {Null}]
    /\ seen \in [Threads -> Refs]
    /\ next \in [Threads -> Nodes \cup {Null}]
    /\ top \in [Threads -> Nodes \cup {Null}]
    /\ calls \in [Threads -> Nat]

\* The threads with a reference to n, and those that add n.
Referring(n) == {t \in Threads : node[t] = n /\ pc[t] \in {"next", "pop", "take", "drop"}}
AddingSteps == {"load", "link", "count", "push", "defer"}
Adders(n) == {t \in Threads : node[t] = n /\ pc[t] \in AddingSteps}

\* A set that the list, followed from freeListHead, never leaves, and the nodes
\* reachable from freeListHead: those of every such set.
Closed(S) ==
    /\ freeListHead \in S \cup {Null}
    /\ \A n \in S : freeListNext[n] \in S \cup {Null}
Reach == {n \in Nodes : \A S \in SUBSET Nodes : Closed(S) => n \in S}

\* The list holds the listed nodes and no other: no node is lost by two
\* operations that overtake each other, and none is on the list while the queue
\* uses it as a block.  (lines 1490-1498 and 1528-1536)
ListHasListed == Reach = {n \in Nodes : place[n] = "listed"}

\* The references are counted exactly, whoever overtakes whom: the list's own
\* while the node is on it or being put there, one of each thread that is to
\* read its successor, and the top bit while it is to be added.  In particular
\* the store of line 1529 overwrites nobody's reference.
Published(n) ==
    \/ place[n] \in {"listed", "taken"}
    \/ \E t \in Adders(n) : pc[t] \in {"push", "defer"}
ToBeAdded(n) ==
    \/ place[n] = "waiting"
    \/ \E t \in Adders(n) : pc[t] \in {"load", "link", "count"}
RefsExact ==
    \A n \in Nodes :
        freeListRefs[n] = Cardinality(Referring(n)) + (IF Published(n) THEN 1 ELSE 0)
                            + (IF ToBeAdded(n) THEN SHOULD_BE_ON_FREELIST ELSE 0)

\* The assertion of line 1493: a node just taken off the list is not to be on it.
TakenIsOff ==
    \A t \in Threads : pc[t] = "take" => freeListRefs[node[t]] < SHOULD_BE_ON_FREELIST

\* "run only one copy of this method per node at a time" (line 1519).
OneAdder ==
    \A n \in Nodes : /\ Cardinality(Adders(n)) = IF place[n] = "adding" THEN 1 ELSE 0
                     /\ Cardinality({t \in Referring(n) : pc[t] = "take"})
                            = IF place[n] = "taken" THEN 1 ELSE 0

\* The references and the places of every node agree.
References == TypeOK /\ RefsExact /\ TakenIsOff /\ OneAdder

\* "we can read the next and not worry about it changing between now and the
\* time we do the CAS" (line 1488): no ABA, whatever has been taken and added.
NextStays ==
    \A t \in Threads :
        pc[t] = "pop" /\ freeListHead = node[t] => next[t] = freeListNext[node[t]]

\* The list is never cut short or mixed up.
ListIntact == ListHasListed /\ NextStays

\* A node left to "the next thread who puts the refcount back at zero" (line
\* 1525) is added by somebody.
LeftIsAdded ==
    \A n \in Nodes : place[n] \in {"waiting", "adding"} ~> place[n] = "listed"
===============================================================================
