--------------------------- MODULE MLFQMutexLine ---------------------------
(***************************************************************************)
(* MLFQMutex implements PriorityLock: the refinement mapping.              *)
(***************************************************************************)
EXTENDS MLFQMutex

\* The level of each waiter is that of the queue it stands in.
WaitLevel ==
  [t \in {u \in Threads : Queued(u)} |->
    CHOOSE l \in Levels : \E i \in 1 .. Len(queues[l]) : queues[l][i] = t]

\* The queues one after the other are one line.
Before(t, u) ==
  \E l, m \in Levels : \E i \in 1 .. Len(queues[l]), j \in 1 .. Len(queues[m]) :
    /\ queues[l][i] = t /\ queues[m][j] = u
    /\ l < m \/ (l = m /\ i < j)
Line == {p \in Threads \X Threads : Before(p[1], p[2])}

\* unlock() has not chosen a successor yet, or has chosen none.
StillOwner(t) ==
  pc[t] \in {"critical", "drain", "install", "printed", "level", "levelRehash",
             "unlockGuard", "scan"}

\* The mutex belongs to its successor from the moment PickNext chose it, and to
\* nobody from the moment PickNone found every queue empty.
Holds(t) == StillOwner(t) \/ ChosenBy(t) # {} \/ Granted(t)
Holder ==
  IF \E t \in Threads : Holds(t) THEN CHOOSE t \in Threads : Holds(t) ELSE NoThread

Abstract == INSTANCE PriorityLock WITH holder <- Holder, level <- WaitLevel, ahead <- Line

\* The flags, the guard mutex and the queues together are a lock whose waiters are
\* served lowest level first and in arrival order within a level, which is handed
\* over directly, and which is set free only by an unlock() that found no waiter.
ImplementsPriorityLock == Abstract!Spec
=============================================================================
