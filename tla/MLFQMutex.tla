----------------------------- MODULE MLFQMutex -----------------------------
(***************************************************************************)
(* MLFQMutex (PA2/MLFQmutex.h) over Garage (PA2/park.h): worker threads    *)
(* that lock the mutex, spend some time in the critical section, possibly  *)
(* print() the queues, and unlock it, a bounded number of times.           *)
(*                                                                         *)
(* One action is one access to a shared object: the atomic flag `locked`,  *)
(* the guard mutex mtx, a level's queue, the map threadLevels, a Garage    *)
(* flag.  A level's Queue is the sequence of its waiters.                  *)
(***************************************************************************)
EXTENDS Integers, Sequences, FiniteSets

CONSTANTS
  Threads, NoThread,    \* the workers; NoThread is the code's nextThread = 0
  NumLevels,            \* constructor argument numLevels
  Quantum, Second,      \* constructor argument quantum, and a second, in ticks
  HoldTimes,            \* the critical-section lengths explored, in ticks
  Rounds,               \* lock/unlock rounds per worker (bound)
  Printers,             \* the workers that call print() in each round
  RehashAt,             \* sizes at which an insertion rehashes an unordered_map
  PastEnd               \* what queues[numLevels] may look like: "empty", "garbage"

ASSUME NumLevelsAssumption == NumLevels \in Nat \ {0}
ASSUME TimeAssumption == /\ Quantum \in Nat \ {0}
                         /\ Second \in Nat \ {0}
                         /\ HoldTimes \subseteq Nat
ASSUME RoundsAssumption == Rounds \in Nat
ASSUME RehashAtAssumption == RehashAt \subseteq Nat
ASSUME NoThreadAssumption == NoThread \notin Threads
ASSUME PastEndAssumption == PastEnd \subseteq {"empty", "garbage"}

Levels == 0 .. NumLevels - 1
Unseen == -1            \* a thread without an entry in threadLevels

VARIABLES
  pc, rounds,           \* per worker: its next step, the rounds it has left
  locked, mtx,          \* the lock flag; the holder of the guard mutex
  queues,               \* per level, the waiting threads in arrival order
  threadLevels,         \* per thread, its entry in the map, or Unseen
  flag,                 \* per thread, its entries in flag_map: "down" or "up" each
  found,                \* per thread, which of its entries a lookup finds
  currentLevel,         \* per thread, the local of lock()
  entry,                \* per thread, the entry its park() or unpark() refers to
  held, nextThread,     \* per thread, the locals of unlock(): time held, successor
  shown, temp           \* per thread, the locals of print(): level, tempQueue

locals == <<currentLevel, entry, held, nextThread, shown, temp>>
garage == <<flag, found>>
vars == <<pc, rounds, locked, mtx, queues, threadLevels, garage, locals>>

Init ==
  /\ pc = [t \in Threads |-> "out"]
  /\ rounds = [t \in Threads |-> Rounds]
  /\ locked = FALSE
  /\ mtx = NoThread
  /\ queues = [l \in Levels |-> <<>>]
  /\ threadLevels = [t \in Threads |-> Unseen]
  /\ flag = [t \in Threads |-> <<>>]
  /\ found = [t \in Threads |-> 1]
  /\ currentLevel = [t \in Threads |-> 0]
  /\ entry = [t \in Threads |-> 0]
  /\ held = [t \in Threads |-> 0]
  /\ nextThread = [t \in Threads |-> NoThread]
  /\ shown = [t \in Threads |-> 0]
  /\ temp = [t \in Threads |-> <<>>]

Goto(t, from, to) == pc[t] = from /\ pc' = [pc EXCEPT ![t] = to]

-----------------------------------------------------------------------------
(* lock() *)

\* The lookup at the top of lock() is not under mtx.  While an unlocking
\* thread's insertion rehashes the map the lookup may miss its own entry.
AlwaysTop(t) == {0}     \* mutant of LevelsRead: no lookup

LevelsRead(t) ==
  {IF threadLevels[t] = Unseen THEN 0 ELSE threadLevels[t]}
    \cup {l \in {0} : \E u \in Threads : pc[u] = "levelRehash"}

ReadLevel(t) ==
  /\ rounds[t] > 0
  /\ Goto(t, "out", "cas")
  /\ \E l \in LevelsRead(t) : currentLevel' = [currentLevel EXCEPT ![t] = l]
  /\ rounds' = [rounds EXCEPT ![t] = @ - 1]
  /\ UNCHANGED <<locked, mtx, queues, threadLevels, garage, entry, held, nextThread, shown, temp>>

\* The compare-and-swap succeeds: lock() returns and the timer is started.
LockDirectly(t) ==
  /\ ~locked
  /\ Goto(t, "cas", "critical")
  /\ locked' = TRUE
  /\ UNCHANGED <<rounds, mtx, queues, threadLevels, garage, locals>>

LockBusy(t) ==
  /\ locked
  /\ Goto(t, "cas", "guard")
  /\ UNCHANGED <<rounds, locked, mtx, queues, threadLevels, garage, locals>>

\* pthread_mutex_lock(&mtx), by lock() and by unlock().
AcquireGuard(t) ==
  /\ mtx = NoThread
  /\ Goto(t, "guard", "enqueue") \/ Goto(t, "unlockGuard", "scan")
  /\ mtx' = t
  /\ UNCHANGED <<rounds, locked, queues, threadLevels, garage, locals>>

Enqueue(t) ==
  /\ Goto(t, "enqueue", "setPark")
  /\ queues' = [queues EXCEPT ![currentLevel[t]] = Append(@, t)]
  /\ UNCHANGED <<rounds, locked, mtx, threadLevels, garage, locals>>

\* Garage::setPark: operator[] inserts the thread's flag the first time, which
\* rehashes flag_map when the table is full; then the flag is cleared.
FlagEntries == UNION {{u} \X DOMAIN flag[u] : u \in Threads}
FlagRehashDue(t) == flag[t] = <<>> /\ Cardinality(FlagEntries) \in RehashAt

BeginFlagRehash(t) ==
  /\ FlagRehashDue(t)
  /\ Goto(t, "setPark", "flagRehash")
  /\ UNCHANGED <<rounds, locked, mtx, queues, threadLevels, garage, locals>>

\* A rehash may exchange the entries of one thread.
MayFind(t) == {1} \cup DOMAIN flag[t]
Found(t) ==
  IF pc[t] = "flagRehash"
  THEN /\ found' \in [Threads -> UNION {MayFind(u) : u \in Threads}]
       /\ \A u \in Threads : found'[u] \in MayFind(u)
  ELSE UNCHANGED found

\* Mutant of SetPark: only a new flag starts down, an old one is left up.
SetParkOnInsert(t) ==
  /\ \/ Goto(t, "flagRehash", "releaseGuard")
     \/ ~FlagRehashDue(t) /\ Goto(t, "setPark", "releaseGuard")
  /\ flag' = [flag EXCEPT ![t] = IF @ = <<>> THEN <<"down">> ELSE @]
  /\ Found(t)
  /\ UNCHANGED <<rounds, locked, mtx, queues, threadLevels, locals>>

SetPark(t) ==
  /\ \/ Goto(t, "flagRehash", "releaseGuard")
     \/ ~FlagRehashDue(t) /\ Goto(t, "setPark", "releaseGuard")
  /\ flag' = [flag EXCEPT ![t] = IF @ = <<>> THEN <<"down">> ELSE [@ EXCEPT ![found[t]] = "down"]]
  /\ Found(t)
  /\ UNCHANGED <<rounds, locked, mtx, queues, threadLevels, locals>>

ReleaseGuard(t) ==
  /\ Goto(t, "releaseGuard", "park")
  /\ mtx' = NoThread
  /\ UNCHANGED <<rounds, locked, queues, threadLevels, garage, locals>>

\* A lookup by t of an entry of u, not under mtx: while another thread's setPark
\* rehashes flag_map it may come to any of u's entries, or miss them all.
FlagRehashByOther(t) == \E u \in Threads \ {t} : pc[u] = "flagRehash"
Finds(t, u) == {i \in DOMAIN flag[u] : i = found[u] \/ FlagRehashByOther(t)}

\* Garage::park looks its flag up again.  operator[] inserts a further, cleared
\* entry when it misses, which later lookups find, or the rehash puts behind.
ParkLookup(t) ==
  /\ Goto(t, "park", "wait")
  /\ \/ /\ \E i \in Finds(t, t) : entry' = [entry EXCEPT ![t] = i]
        /\ UNCHANGED garage
     \/ /\ FlagRehashByOther(t)
        /\ flag' = [flag EXCEPT ![t] = Append(@, "down")]
        /\ entry' = [entry EXCEPT ![t] = Len(flag[t]) + 1]
        /\ found' \in {found, [found EXCEPT ![t] = Len(flag[t]) + 1]}
  /\ UNCHANGED <<rounds, locked, mtx, queues, threadLevels, currentLevel, held,
                 nextThread, shown, temp>>

\* flag.wait(false): the check and the blocking are one atomic step, a
\* notified thread checks again.  Returning from it is owning the lock.
Wait(t) ==
  /\ \/ /\ Goto(t, "wait", "critical")
        /\ flag[t][entry[t]] = "up"
        /\ entry' = [entry EXCEPT ![t] = 0]
     \/ /\ Goto(t, "wait", "asleep")
        /\ flag[t][entry[t]] = "down"
        /\ UNCHANGED entry
  /\ UNCHANGED <<rounds, locked, mtx, queues, threadLevels, garage, currentLevel, held,
                 nextThread, shown, temp>>

-----------------------------------------------------------------------------
(* print(), called by the owner without taking mtx *)

BeginPrint(t) ==
  /\ t \in Printers
  /\ Goto(t, "critical", "drain")
  /\ shown' = [shown EXCEPT ![t] = 0]
  /\ UNCHANGED <<rounds, locked, mtx, queues, threadLevels, garage, currentLevel, entry,
                 held, nextThread, temp>>

\* Queue::print pops everything into tempQueue ...
Drain(t) ==
  /\ Goto(t, "drain", "install")
  /\ temp' = [temp EXCEPT ![t] = queues[shown[t]]]
  /\ queues' = [queues EXCEPT ![shown[t]] = <<>>]
  /\ UNCHANGED <<rounds, locked, mtx, threadLevels, garage, currentLevel, entry, held,
                 nextThread, shown>>

\* ... and then makes tempQueue the queue, whatever was pushed in between.
ReinstalledEmpty(t) == <<>>     \* mutant of Reinstalled: what was popped is forgotten
Reinstalled(t) == temp[t]

Install(t) ==
  /\ Goto(t, "install", IF shown[t] = NumLevels - 1 THEN "printed" ELSE "drain")
  /\ queues' = [queues EXCEPT ![shown[t]] = Reinstalled(t)]
  /\ temp' = [temp EXCEPT ![t] = <<>>]
  /\ shown' = [shown EXCEPT ![t] = IF @ = NumLevels - 1 THEN 0 ELSE @ + 1]
  /\ UNCHANGED <<rounds, locked, mtx, threadLevels, garage, currentLevel, entry, held, nextThread>>

-----------------------------------------------------------------------------
(* unlock() *)

\* Reads the clock.  (held and nextThread are cleared after their last use, so
\* that dead locals do not multiply the states.)
StopTimer(t) ==
  /\ Goto(t, IF t \in Printers THEN "printed" ELSE "critical", "level")
  /\ \E d \in HoldTimes : held' = [held EXCEPT ![t] = d]
  /\ UNCHANGED <<rounds, locked, mtx, queues, threadLevels, garage, currentLevel, entry,
                 nextThread, shown, temp>>

\* The duration is cast to whole seconds before it is divided by the quantum.
LevelChange(d) == ((d \div Second) * Second) \div Quantum

NewLevel(t) ==
  LET sunk == (IF threadLevels[t] = Unseen THEN 0 ELSE threadLevels[t]) + LevelChange(held[t])
  IN  IF sunk < NumLevels - 1 THEN sunk ELSE NumLevels - 1

LevelRehashDue(t) ==
  /\ threadLevels[t] = Unseen
  /\ Cardinality({u \in Threads : threadLevels[u] # Unseen}) \in RehashAt

BeginLevelRehash(t) ==
  /\ LevelRehashDue(t)
  /\ Goto(t, "level", "levelRehash")
  /\ UNCHANGED <<rounds, locked, mtx, queues, threadLevels, garage, locals>>

SetLevel(t) ==
  /\ \/ Goto(t, "levelRehash", "unlockGuard")
     \/ ~LevelRehashDue(t) /\ Goto(t, "level", "unlockGuard")
  /\ threadLevels' = [threadLevels EXCEPT ![t] = NewLevel(t)]
  /\ held' = [held EXCEPT ![t] = 0]
  /\ UNCHANGED <<rounds, locked, mtx, queues, garage, currentLevel, entry, nextThread, shown, temp>>

\* The loop over the levels, under mtx: the first waiter of the first level
\* that has one.
Occupied == {l \in Levels : queues[l] # <<>>}

LastOccupied(l) == l \in Occupied /\ \A m \in Occupied : m =< l   \* mutant of FirstOccupied
FirstOccupied(l) == l \in Occupied /\ \A m \in Occupied : l =< m

\* Mutant of PickNext: reads the head of the queue and leaves it there.
PeekNext(t) ==
  \E l \in Levels :
    /\ FirstOccupied(l)
    /\ Goto(t, "scan", "unlockRelease")
    /\ nextThread' = [nextThread EXCEPT ![t] = Head(queues[l])]
    /\ UNCHANGED <<rounds, locked, mtx, queues, threadLevels, garage, currentLevel,
                   entry, held, shown, temp>>

PickNext(t) ==
  \E l \in Levels :
    /\ FirstOccupied(l)
    /\ Goto(t, "scan", "unlockRelease")
    /\ nextThread' = [nextThread EXCEPT ![t] = Head(queues[l])]
    /\ queues' = [queues EXCEPT ![l] = Tail(@)]
    /\ UNCHANGED <<rounds, locked, mtx, threadLevels, garage, currentLevel, entry, held, shown, temp>>

\* No level has a waiter: the loop, whose bound is i <= numLevels, goes on to
\* queues[numLevels], memory past the end of the vector.  It looks empty, or dequeue() spins on it forever.
PickNone(t) ==
  /\ Occupied = {}
  /\ \/ "empty" \in PastEnd /\ Goto(t, "scan", "unlockRelease")
     \/ "garbage" \in PastEnd /\ Goto(t, "scan", "corrupt")
  /\ nextThread' = [nextThread EXCEPT ![t] = NoThread]
  /\ UNCHANGED <<rounds, locked, mtx, queues, threadLevels, garage, currentLevel, entry,
                 held, shown, temp>>

UnlockRelease(t) ==
  /\ Goto(t, "unlockRelease", IF nextThread[t] = NoThread THEN "free" ELSE "find")
  /\ mtx' = NoThread
  /\ UNCHANGED <<rounds, locked, queues, threadLevels, garage, locals>>

\* Mutant of Free: locked.store(false) is missing.
FreeForgotten(t) ==
  /\ Goto(t, "free", "out")
  /\ UNCHANGED <<rounds, locked, mtx, queues, threadLevels, garage, locals>>

Free(t) ==
  /\ Goto(t, "free", "out")
  /\ locked' = FALSE
  /\ UNCHANGED <<rounds, mtx, queues, threadLevels, garage, locals>>

\* Garage::unpark, not under mtx: find the flag, raise it, notify.  The find may
\* miss the entry while another thread's setPark rehashes flag_map.
UnparkFind(t) ==
  /\ Goto(t, "find", "store")
  /\ \E i \in Finds(t, nextThread[t]) : entry' = [entry EXCEPT ![t] = i]
  /\ UNCHANGED <<rounds, locked, mtx, queues, threadLevels, garage, currentLevel, held,
                 nextThread, shown, temp>>

UnparkMiss(t) ==
  /\ Goto(t, "find", "out")
  /\ flag[nextThread[t]] = <<>> \/ FlagRehashByOther(t)
  /\ nextThread' = [nextThread EXCEPT ![t] = NoThread]
  /\ UNCHANGED <<rounds, locked, mtx, queues, threadLevels, garage, currentLevel, entry,
                 held, shown, temp>>

\* Mutant of UnparkStore: unlock() clears locked on the hand-off path too.
UnparkAndFree(t) ==
  /\ Goto(t, "store", "notify")
  /\ flag' = [flag EXCEPT ![nextThread[t]][entry[t]] = "up"]
  /\ locked' = FALSE
  /\ UNCHANGED <<rounds, mtx, queues, threadLevels, found, locals>>

UnparkStore(t) ==
  /\ Goto(t, "store", "notify")
  /\ flag' = [flag EXCEPT ![nextThread[t]][entry[t]] = "up"]
  /\ UNCHANGED <<rounds, locked, mtx, queues, threadLevels, found, locals>>

\* Mutant of UnparkNotify: the flag is raised and nobody is notified.
UnparkSilently(t) ==
  /\ Goto(t, "notify", "out")
  /\ nextThread' = [nextThread EXCEPT ![t] = NoThread]
  /\ entry' = [entry EXCEPT ![t] = 0]
  /\ UNCHANGED <<rounds, locked, mtx, queues, threadLevels, garage, currentLevel, held, shown, temp>>

UnparkNotify(t) ==
  /\ pc[t] = "notify"
  /\ pc' = [u \in Threads |->
              IF u = t THEN "out"
              ELSE IF u = nextThread[t] /\ pc[u] = "asleep" /\ entry[u] = entry[t] THEN "wait"
              ELSE pc[u]]
  /\ nextThread' = [nextThread EXCEPT ![t] = NoThread]
  /\ entry' = [entry EXCEPT ![t] = 0]
  /\ UNCHANGED <<rounds, locked, mtx, queues, threadLevels, garage, currentLevel, held, shown, temp>>

-----------------------------------------------------------------------------
Lock(t) == \/ ReadLevel(t) \/ LockDirectly(t) \/ LockBusy(t) \/ AcquireGuard(t)
           \/ Enqueue(t) \/ BeginFlagRehash(t) \/ SetPark(t) \/ ReleaseGuard(t)
           \/ ParkLookup(t) \/ Wait(t)
PrintQueues(t) == BeginPrint(t) \/ Drain(t) \/ Install(t)
Unlock(t) == \/ StopTimer(t) \/ BeginLevelRehash(t) \/ SetLevel(t)
             \/ PickNext(t) \/ PickNone(t) \/ UnlockRelease(t) \/ Free(t)
             \/ UnparkFind(t) \/ UnparkMiss(t) \/ UnparkStore(t) \/ UnparkNotify(t)

Worker(t) == Lock(t) \/ PrintQueues(t) \/ Unlock(t)

Next == \E t \in Threads : Worker(t)

Spec == Init /\ [][Next]_vars

\* The operating system schedules every runnable thread, a critical section
\* ends, and whoever waits for mtx gets it.
FairSpec == Spec /\ \A t \in Threads : WF_vars(Worker(t))

-----------------------------------------------------------------------------
(* Properties *)

\* The steps from a return of lock() to unlock()'s release or hand-off: a thread
\* there has the mutex.
OwnerSteps == {"critical", "drain", "install", "printed", "level", "levelRehash",
               "unlockGuard", "scan", "corrupt", "unlockRelease", "free", "find", "store"}
\* The steps at which a thread of lock() waits to be handed the mutex.
WaitSteps == {"releaseGuard", "park", "wait", "asleep"}

GuardSteps == {"enqueue", "setPark", "flagRehash", "releaseGuard", "scan", "corrupt", "unlockRelease"}
Steps == OwnerSteps \cup WaitSteps \cup GuardSteps
           \cup {"out", "cas", "guard", "notify"}

\* The entries of a thread in flag_map, in the order in which they were inserted.
FlagLists == Seq({"down", "up"})

\* The type invariant.
TypeOK ==
  /\ pc \in [Threads -> Steps]
  /\ rounds \in [Threads -> 0 .. Rounds]
  /\ locked \in BOOLEAN
  /\ mtx \in Threads \cup {NoThread}
  /\ queues \in [Levels -> Seq(Threads)]
  /\ threadLevels \in [Threads -> Levels \cup {Unseen}]
  /\ flag \in [Threads -> FlagLists]
  /\ found \in [Threads -> Nat]
  /\ currentLevel \in [Threads -> Levels]
  /\ entry \in [Threads -> Nat]
  /\ held \in [Threads -> Nat]
  /\ nextThread \in [Threads -> Threads \cup {NoThread}]
  /\ shown \in [Threads -> Levels]
  /\ temp \in [Threads -> Seq(Threads)]

\* Mutual exclusion: no two threads are between the return of lock() and the
\* release or hand-off in unlock(); hence print(), the timers and threadLevels'
\* writes, which take no mutex of their own, never overlap.
MutualExclusion ==
  \A t, u \in Threads : pc[t] \in OwnerSteps /\ pc[u] \in OwnerSteps => t = u

\* The flag a waiter awaits: in the entry its park() has found or, before that, in
\* the one a lookup finds.  A waiter for whom it is up has been handed the mutex.
AwaitedFlag(t) == flag[t][IF pc[t] \in {"wait", "asleep"} THEN entry[t] ELSE found[t]]
Granted(t) == pc[t] \in WaitSteps /\ AwaitedFlag(t) = "up"
HasMutex(t) == pc[t] \in OwnerSteps \/ Granted(t)

\* The hand-off is of one token: whoever owns the mutex or has been granted it is
\* alone, and `locked` stays set for as long as the token exists, so the fast path
\* of lock() never overtakes a hand-off that is under way.
OneToken ==
  /\ \A t, u \in Threads : HasMutex(t) /\ HasMutex(u) => t = u
  /\ \A t \in Threads : HasMutex(t) => locked

Queued(t) == \E l \in Levels : \E i \in 1 .. Len(queues[l]) : queues[l][i] = t
Places(t) == UNION {{<<l, i>> : i \in {j \in 1 .. Len(queues[l]) : queues[l][j] = t}} : l \in Levels}
ChosenBy(t) == {u \in Threads : pc[u] \in {"unlockRelease", "find", "store"} /\ nextThread[u] = t}

InLine(t) == pc[t] \in WaitSteps \cup {"setPark", "flagRehash"}
Marks(t) ==
  Cardinality(Places(t)) + Cardinality(ChosenBy(t)) + (IF Granted(t) THEN 1 ELSE 0)

\* No waiter is lost and none is woken twice: a thread waiting in lock() is in
\* exactly one place of one queue, or has been chosen by exactly one unlock(), or
\* its flag is up, and only one of these; no other thread is in a queue.
EveryWaiterAccountedFor ==
  \A t \in Threads : Marks(t) = IF InLine(t) THEN 1 ELSE 0

\* A waiter that nothing leads to any more: nobody will wake it.
Lost(t) ==
  InLine(t) /\ Marks(t) = 0 /\ \A u \in Threads : \A i \in 1 .. Len(temp[u]) : temp[u][i] # t

\* print() runs beside lock() and setPark() beside park() and unpark(), without a
\* common mutex.  A waiter is lost in four ways only: print() puts back a queue that
\* lock() has added it to in the meantime; unpark() does not find its flag; park()
\* does not find the flag that unpark() has raised; or unpark() raises one flag of the
\* thread while it awaits another.
LosesOnlyBy(t) ==
  \E u \in Threads :
    \/ /\ pc[u] = "install" /\ pc'[u] # "install"
       /\ \E i \in 1 .. Len(queues[shown[u]]) : queues[shown[u]][i] = t
    \/ pc[u] = "find" /\ pc'[u] = "out" /\ nextThread[u] = t /\ FlagRehashByOther(u)
    \/ /\ u = t /\ pc[t] = "park" /\ flag[t][found[t]] = "up"
       /\ FlagRehashByOther(t) /\ entry'[t] # found[t]
    \/ /\ pc[u] = "store" /\ pc'[u] = "notify" /\ nextThread[u] = t
       /\ pc[t] \in {"wait", "asleep"} /\ entry[u] # entry[t]

LostOnlyInRaces ==
  [][\A t \in Threads : ~ Lost(t) /\ Lost(t)' => LosesOnlyBy(t)]_vars

\* The level read without a lock at the top of lock() is still the thread's level
\* when it is queued and while it waits.
QueuedAtOwnLevel ==
  \A l \in Levels : \A i \in 1 .. Len(queues[l]) :
    LET t == queues[l][i]
    IN  l = (IF threadLevels[t] = Unseen THEN 0 ELSE threadLevels[t])

Finished(t) == pc[t] = "out" /\ rounds[t] = 0

\* Whoever unlock() takes out of a queue returns from its lock().
HandOffArrives ==
  \A u \in Threads : ChosenBy(u) # {} ~> pc[u] = "critical"

\* The mutex is never leaked: in the end it is free for good, and whoever has not
\* finished sleeps in a queue where no unlock() is left to find it.
EndsFree ==
  <>[](/\ ~locked
       /\ \A t \in Threads : Finished(t) \/ (pc[t] = "asleep" /\ Queued(t)))

\* Every worker finishes its rounds: main joins them all (sample1Level.cpp:43-48).
\* Refuted by the lost wakeup between lock()'s failed compare-and-swap and its
\* enqueue: see the finding.
AllFinish == <>(\A t \in Threads : Finished(t))
=============================================================================
