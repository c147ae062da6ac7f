---------------------------- MODULE PriorityLock ----------------------------
(***************************************************************************)
(* What MLFQMutex (PA2/MLFQmutex.h) promises, with no flags, guard mutex   *)
(* or per-level queues: a lock whose waiters stand in one line, ordered by *)
(* priority level and, within a level, by arrival.  A release hands the    *)
(* lock to the head of the line; the lock only becomes free when the line  *)
(* is empty at that moment.                                                *)
(***************************************************************************)
EXTENDS Integers

CONSTANTS Threads, Levels, NoThread

VARIABLES holder,   \* the thread that has been given the lock, or NoThread
          level,    \* the level of each waiter
          ahead     \* the line: the pairs of a waiter and one behind it

vars == <<holder, level, ahead>>

Waiters == DOMAIN level

Init == holder = NoThread /\ level = [t \in {} |-> 0] /\ ahead = {}

\* A thread finds the lock free.  Nothing says the line is empty: a thread may
\* have joined it after the last release looked at it.
Take(t) ==
  /\ holder = NoThread
  /\ t \notin Waiters
  /\ holder' = t
  /\ UNCHANGED <<level, ahead>>

\* A waiter goes behind everyone of its own level and of the better ones.
Join(t, l) ==
  /\ holder # t
  /\ t \notin Waiters
  /\ level' = [u \in Waiters \cup {t} |-> IF u = t THEN l ELSE level[u]]
  /\ ahead' = ahead \cup {<<u, t>> : u \in {v \in Waiters : level[v] =< l}}
                    \cup {<<t, u>> : u \in {v \in Waiters : level[v] > l}}
  /\ UNCHANGED holder

\* The head of the line: t is ahead of every other waiter.
HandOff(t) ==
  /\ holder # NoThread
  /\ \A u \in Waiters \ {t} : <<t, u>> \in ahead
  /\ holder' = t
  /\ level' = [u \in Waiters \ {t} |-> level[u]]
  /\ ahead' = {p \in ahead : p[1] # t /\ p[2] # t}

Release ==
  /\ holder # NoThread
  /\ Waiters = {}
  /\ holder' = NoThread
  /\ UNCHANGED <<level, ahead>>

Next == \/ \E t \in Threads : Take(t) \/ \E l \in Levels : Join(t, l)
        \/ \E t \in Waiters : HandOff(t)
        \/ Release

Spec == Init /\ [][Next]_vars
=============================================================================
