----------------------------- MODULE FifoQueue -----------------------------
(***************************************************************************)
(* What the Queue classes of PA2 promise: one sequence of items, appended  *)
(* to and taken from atomically.                                           *)
(***************************************************************************)
EXTENDS Sequences

CONSTANTS Consumers, Values

VARIABLES items,    \* the queue, oldest item first
          got       \* per consumer, what its dequeues have been given, in order

vars == <<items, got>>

Init == items = <<>> /\ got = [c \in Consumers |-> <<>>]

Put(v) == items' = Append(items, v) /\ UNCHANGED got

Get(c) ==
  /\ items # <<>>
  /\ items' = Tail(items)
  /\ got' = [got EXCEPT ![c] = Append(@, Head(items))]

Next == (\E v \in Values : Put(v)) \/ (\E c \in Consumers : Get(c))

Spec == Init /\ [][Next]_vars
=============================================================================
