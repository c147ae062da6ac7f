---------------------------- MODULE AtomicQueue ----------------------------
(***************************************************************************)
(* Queue of PA2/queue.h: AtomicQueueB, a ring buffer of Size slots used by *)
(* any number of producers (enqueue = push) and consumers (dequeue =       *)
(* try_pop).  head_ and tail_ are unsigned counters: a push takes the      *)
(* ticket head_++, a pop claims the ticket tail_ by compare-and-swap, and  *)
(* each then works on its slot through the slot's atomic state.            *)
(*                                                                         *)
(* One action is one atomic operation of the code.  The index of a slot is *)
(* the ticket modulo Size; the code's remapping of it is a permutation.    *)
(***************************************************************************)
EXTENDS Integers, Sequences

CONSTANTS
  Producers, Consumers,
  Size,            \* slots (4096 in the code)
  Width,           \* tickets are counted modulo Width (2^32 in the code)
  Pushes, Tries,   \* enqueue calls per producer, dequeue calls per consumer (bounds)
  Disciplined      \* callers start a push only while fewer than Size tickets are open

ASSUME SizeAssumption == Size \in Nat \ {0}
ASSUME WidthAssumption ==
  Width \in Nat /\ Width >= 2 * Size /\ Width % Size = 0 /\ Width % 2 = 0
ASSUME CallsAssumption == Pushes \in Nat /\ Tries \in Nat
ASSUME CallersAssumption == Producers \cap Consumers = {}

Callers == Producers \cup Consumers
Tickets == 0 .. Width - 1
Slots == 0 .. Size - 1
Slot(k) == k % Size

\* head_ + 1 and tail_ + 1 on unsigned counters.
Successor(k) == (k + 1) % Width

\* static_cast<int> of a difference of unsigned counters.
Signed(d) == LET m == d % Width IN IF m < Width \div 2 THEN m ELSE m - Width

VARIABLES
  head, tail,      \* head_ and tail_
  state, element,  \* per slot
  pc,              \* per caller: its next step
  ticket,          \* per caller: the ticket it works on, or the tail_ it has read
  calls,           \* per caller: the calls it has started
  got              \* per consumer: the items its dequeues have returned, in order

vars == <<head, tail, state, element, pc, ticket, calls, got>>

\* The i-th item enqueued by p.
Item(p, i) == <<p, i>>
NoItem == <<>>

Init ==
  /\ head = 0
  /\ tail = 0
  /\ state = [s \in Slots |-> "EMPTY"]
  /\ element = [s \in Slots |-> NoItem]
  /\ pc = [a \in Callers |-> "idle"]
  /\ ticket = [a \in Callers |-> 0]
  /\ calls = [a \in Callers |-> 0]
  /\ got = [c \in Consumers |-> <<>>]

Goto(a, from, to) == pc[a] = from /\ pc' = [pc EXCEPT ![a] = to]

\* The tickets whose push or pop has not finished.
OpenTickets ==
  {ticket[a] : a \in {b \in Callers : pc[b] \in {"push", "storing", "pop", "loading"}}}
    \cup {k \in Tickets : (k - tail) % Width < (head - tail) % Width}

MayPush == Disciplined => \A k \in OpenTickets : (head - k) % Width < Size

-----------------------------------------------------------------------------
(* enqueue: push *)

TakeTicket(p) ==
  /\ calls[p] < Pushes
  /\ MayPush
  /\ Goto(p, "idle", "push")
  /\ ticket' = [ticket EXCEPT ![p] = head]
  /\ head' = Successor(head)
  /\ calls' = [calls EXCEPT ![p] = @ + 1]
  /\ UNCHANGED <<tail, state, element, got>>

\* The compare-and-swap of the slot's state; a push spins until it succeeds.
BeginStore(p) ==
  /\ Goto(p, "push", "storing")
  /\ state[Slot(ticket[p])] = "EMPTY"
  /\ state' = [state EXCEPT ![Slot(ticket[p])] = "STORING"]
  /\ UNCHANGED <<head, tail, element, ticket, calls, got>>

EndStore(p) ==
  /\ Goto(p, "storing", "idle")
  /\ element' = [element EXCEPT ![Slot(ticket[p])] = Item(p, calls[p])]
  /\ state' = [state EXCEPT ![Slot(ticket[p])] = "STORED"]
  /\ UNCHANGED <<head, tail, ticket, calls, got>>

-----------------------------------------------------------------------------
(* dequeue: try_pop *)

LoadTail(c) ==
  /\ calls[c] < Tries
  /\ Goto(c, "idle", "check")
  /\ ticket' = [ticket EXCEPT ![c] = tail]
  /\ calls' = [calls EXCEPT ![c] = @ + 1]
  /\ UNCHANGED <<head, tail, state, element, got>>

SeesItemOrNone(c) == Signed(head - ticket[c]) >= 0   \* mutant of SeesItem: off by one
SeesItem(c) == Signed(head - ticket[c]) > 0

\* Nothing to pop: try_pop fails, and dequeue returns its uninitialised local.
CheckHead(c) ==
  /\ Goto(c, "check", IF SeesItem(c) THEN "claim" ELSE "idle")
  /\ UNCHANGED <<head, tail, state, element, ticket, calls, got>>

ClaimAnyway(c) ==          \* mutant of ClaimTicket: a load and a store
  /\ Goto(c, "claim", "pop")
  /\ tail' = Successor(ticket[c])
  /\ UNCHANGED <<head, state, element, ticket, calls, got>>

\* The compare-and-swap of tail_; when another consumer was faster the new value
\* of tail_ is checked again.
ClaimTicket(c) ==
  /\ tail = ticket[c]
  /\ Goto(c, "claim", "pop")
  /\ tail' = Successor(tail)
  /\ UNCHANGED <<head, state, element, ticket, calls, got>>

ClaimFails(c) ==
  /\ tail # ticket[c]
  /\ Goto(c, "claim", "check")
  /\ ticket' = [ticket EXCEPT ![c] = tail]
  /\ UNCHANGED <<head, tail, state, element, calls, got>>

LoadAnyway(c) ==           \* mutant of BeginLoad: does not wait for STORED
  /\ Goto(c, "pop", "loading")
  /\ state' = [state EXCEPT ![Slot(ticket[c])] = "LOADING"]
  /\ UNCHANGED <<head, tail, element, ticket, calls, got>>

\* A pop spins until its push has stored the element.
BeginLoad(c) ==
  /\ Goto(c, "pop", "loading")
  /\ state[Slot(ticket[c])] = "STORED"
  /\ state' = [state EXCEPT ![Slot(ticket[c])] = "LOADING"]
  /\ UNCHANGED <<head, tail, element, ticket, calls, got>>

EndLoad(c) ==
  /\ Goto(c, "loading", "idle")
  /\ got' = [got EXCEPT ![c] = Append(@, element[Slot(ticket[c])])]
  /\ state' = [state EXCEPT ![Slot(ticket[c])] = "EMPTY"]
  /\ UNCHANGED <<head, tail, element, ticket, calls>>

-----------------------------------------------------------------------------
Push(p) == TakeTicket(p) \/ BeginStore(p) \/ EndStore(p)
TryPop(c) == \/ LoadTail(c) \/ CheckHead(c) \/ ClaimTicket(c) \/ ClaimFails(c)
             \/ BeginLoad(c) \/ EndLoad(c)

Next == (\E p \in Producers : Push(p)) \/ (\E c \in Consumers : TryPop(c))

Spec == Init /\ [][Next]_vars

\* Every caller is scheduled; a spinning one succeeds once its slot is ready.
FairSpec == /\ Spec
            /\ \A p \in Producers : WF_vars(Push(p))
            /\ \A c \in Consumers : WF_vars(TryPop(c))

-----------------------------------------------------------------------------
(* Properties *)

\* The type invariant.
TypeOK ==
  /\ head \in Tickets /\ tail \in Tickets
  /\ state \in [Slots -> {"EMPTY", "STORING", "STORED", "LOADING"}]
  /\ element \in [Slots -> (Producers \X (1 .. Pushes)) \cup {NoItem}]
  /\ pc \in [Callers -> {"idle", "push", "storing", "check", "claim", "pop", "loading"}]
  /\ ticket \in [Callers -> Tickets]
  /\ calls \in [Callers -> Nat]
  /\ got \in [Consumers -> Seq((Producers \X (1 .. Pushes)) \cup {NoItem})]

\* The plain (non-atomic) element of a slot is accessed by one caller at a time:
\* the one that set the slot's state to STORING or LOADING.
SlotExclusive ==
  /\ \A a \in Callers :
       /\ pc[a] = "storing" => state[Slot(ticket[a])] = "STORING"
       /\ pc[a] = "loading" => state[Slot(ticket[a])] = "LOADING"
  /\ \A a, b \in Callers :
       /\ pc[a] \in {"storing", "loading"} /\ pc[b] \in {"storing", "loading"}
       /\ Slot(ticket[a]) = Slot(ticket[b])
       => a = b

\* The compare-and-swap of tail_ compares the counter only: a consumer that has checked
\* head_ finds tail_ as it read it, and the queue empty, when the counters have gone
\* round once in between.
NoFullTurn == \A c \in Consumers : pc[c] = "claim" /\ ticket[c] = tail => head # tail

\* The item of ticket k: still with its producer, or stored in its slot.
PushedBy(k) == {p \in Producers : pc[p] \in {"push", "storing"} /\ ticket[p] = k}
ItemOf(k) == IF PushedBy(k) # {}
             THEN LET p == CHOOSE q \in PushedBy(k) : TRUE IN Item(p, calls[p])
             ELSE element[Slot(k)]

\* The items whose tickets are not claimed yet, and the items each consumer has
\* claimed or got.
Waiting == [i \in 1 .. (head - tail) % Width |-> ItemOf((tail + i - 1) % Width)]
Received ==
  [c \in Consumers |->
    IF pc[c] \in {"pop", "loading"} THEN Append(got[c], ItemOf(ticket[c])) ELSE got[c]]

Abstract == INSTANCE FifoQueue WITH
  Values <- Producers \X (1 .. Pushes), items <- Waiting, got <- Received

\* The queue is a FIFO queue with atomic enqueues (at fetch_add on head_) and
\* dequeues (at the compare-and-swap on tail_): nothing is lost, doubled or
\* reordered.  It needs callers that keep the open tickets within the ring; without
\* them it fails, whatever the comment at queue.h:436 says of FIFO and total order.
ImplementsFifo == Abstract!Spec

\* A consumer that has claimed a ticket gets its item.
ClaimedIsDelivered == \A c \in Consumers : pc[c] = "pop" ~> pc[c] = "idle"
=============================================================================
