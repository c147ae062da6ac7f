-------------------------- MODULE MLFQMutexProofs --------------------------
(***************************************************************************)
(* MLFQMutex for every number of threads, levels and rounds.  With and     *)
(* without printing threads and rehashing tables: its types are preserved, *)
(* and, while no table is rehashed twice, the mutex is one token and       *)
(* waiters are lost in four races only.                                    *)
(* Without rehashes every waiter stands at its own level; without printing *)
(* threads too, no waiter is lost and the mutex implements PriorityLock.   *)
(***************************************************************************)
EXTENDS MLFQMutexLine, FiniteSetTheorems, TLAPS

\* Whole seconds over a quantum: the level change is a natural number.
LEMMA LevelChangeNat ==
  ASSUME NEW d \in Nat
  PROVE  LevelChange(d) \in Nat
<1>1. ASSUME NEW a \in Nat, NEW b \in Nat \ {0} PROVE a \div b \in Nat
  OBVIOUS
<1>2. d \div Second \in Nat
  BY <1>1, TimeAssumption
<1>3. (d \div Second) * Second \in Nat
  BY <1>2, TimeAssumption
<1> QED BY <1>1, <1>3, TimeAssumption DEF LevelChange

LEMMA NewLevelTyped ==
  ASSUME TypeOK, NEW t \in Threads
  PROVE  NewLevel(t) \in Levels
<1> DEFINE l == IF threadLevels[t] = Unseen THEN 0 ELSE threadLevels[t]
<1>0. threadLevels \in [Threads -> Levels \cup {Unseen}]
  BY DEF TypeOK
<1>1. l \in Levels
  BY <1>0, NumLevelsAssumption DEF Levels, Unseen
<1>2. LevelChange(held[t]) \in Nat
  BY LevelChangeNat DEF TypeOK
<1> QED BY <1>1, <1>2, NumLevelsAssumption DEF NewLevel, Levels, l

\* Setting one entry of a list of flags leaves its length.
LEMMA SetEntry ==
  ASSUME NEW S, NEW q \in Seq(S), NEW i \in Nat, NEW v \in S
  PROVE  /\ [q EXCEPT ![i] = v] \in Seq(S)
         /\ Len([q EXCEPT ![i] = v]) = Len(q)
         /\ DOMAIN [q EXCEPT ![i] = v] = DOMAIN q
         /\ \A j \in 1 .. Len(q) : [q EXCEPT ![i] = v][j] = IF j = i THEN v ELSE q[j]
<1>1. Len(q) \in Nat /\ q \in [1 .. Len(q) -> S]
  OBVIOUS
<1>2. [q EXCEPT ![i] = v] \in [1 .. Len(q) -> S]
  BY <1>1
<1>3. \A f \in [1 .. Len(q) -> S] : f \in Seq(S) /\ Len(f) = Len(q)
  BY <1>1
<1> QED BY <1>1, <1>2, <1>3

\* Adding one too.
LEMMA AddEntry ==
  ASSUME NEW S, NEW q \in Seq(S), NEW v \in S
  PROVE  /\ Append(q, v) \in Seq(S)
         /\ Len(q) \in Nat /\ Len(Append(q, v)) = Len(q) + 1
         /\ DOMAIN q = 1 .. Len(q) /\ DOMAIN Append(q, v) = 1 .. Len(q) + 1
         /\ \A j \in 1 .. Len(q) : Append(q, v)[j] = q[j]
         /\ Append(q, v)[Len(q) + 1] = v
OBVIOUS

\* A list with one entry.
LEMMA OneEntry ==
  ASSUME NEW S, NEW q \in Seq(S), Len(q) > 0, ~ (Len(q) > 1)
  PROVE  DOMAIN q = {1}
<1>1. Len(q) \in Nat /\ DOMAIN q = 1 .. Len(q)
  OBVIOUS
<1>2. Len(q) = 1
  BY <1>1
<1> QED BY <1>1, <1>2

\* The entries a lookup may come to.
LEMMA FoundTyped ==
  ASSUME TypeOK, NEW t \in Threads, Found(t)
  PROVE  found' \in [Threads -> Nat]
<1>1. \A u \in Threads : MayFind(u) \subseteq Nat
  <2> SUFFICES ASSUME NEW u \in Threads PROVE MayFind(u) \subseteq Nat
    OBVIOUS
  <2>1. DOMAIN flag[u] = 1 .. Len(flag[u]) /\ Len(flag[u]) \in Nat
    BY AddEntry DEF TypeOK, FlagLists
  <2> QED BY <2>1 DEF MayFind
<1> QED BY <1>1 DEF Found, TypeOK

LEMMA LevelsClosed ==
  /\ 0 \in Levels
  /\ \A l \in Levels : l # NumLevels - 1 => l + 1 \in Levels
BY NumLevelsAssumption DEF Levels

\* Whom unpark() is called for, unlock() has chosen.
ChosenThere == \A u \in Threads : pc[u] \in {"find", "store"} => nextThread[u] # NoThread

LEMMA ChosenStep ==
  ASSUME TypeOK, ChosenThere, [Next]_vars
  PROVE  ChosenThere'
<1>1. CASE UNCHANGED vars
  BY <1>1 DEF vars, locals, ChosenThere
<1>2. ASSUME NEW t \in Threads, Worker(t) PROVE ChosenThere'
  <2> USE DEF TypeOK, Goto, locals, ChosenThere
  <2>1. CASE Lock(t)
    BY <2>1
    DEF Lock, ReadLevel, LockDirectly, LockBusy, AcquireGuard, Enqueue, BeginFlagRehash, SetPark,
        ReleaseGuard, ParkLookup, Wait
  <2>2. CASE PrintQueues(t)
    BY <2>2 DEF PrintQueues, BeginPrint, Drain, Install
  <2>3. CASE Unlock(t)
    BY <2>3
    DEF Unlock, StopTimer, BeginLevelRehash, SetLevel, PickNext, PickNone, UnlockRelease, Free,
        UnparkFind, UnparkMiss, UnparkStore, UnparkNotify
  <2> QED BY <1>2, <2>1, <2>2, <2>3 DEF Worker
<1> QED BY <1>1, <1>2 DEF Next

\* Types are preserved by every step.
LEMMA TypeStep ==
  ASSUME TypeOK, ChosenThere, [Next]_vars
  PROVE  TypeOK'
<1> USE DEF TypeOK, Goto, garage, locals, Steps, OwnerSteps, WaitSteps, GuardSteps
<1>1. CASE UNCHANGED vars
  BY <1>1 DEF vars
<1>2. ASSUME NEW t \in Threads, Worker(t) PROVE TypeOK'
  <2>1. CASE ReadLevel(t)
    <3>1. LevelsRead(t) \subseteq Levels
      BY LevelsClosed DEF LevelsRead
    <3>2. /\ pc' \in [Threads -> Steps]
          /\ rounds' \in [Threads -> 0 .. Rounds]
      BY <2>1, RoundsAssumption DEF ReadLevel
    <3> QED BY <2>1, <3>1, <3>2 DEF ReadLevel
  <2>2. CASE LockDirectly(t)
    BY <2>2 DEF LockDirectly
  <2>3. CASE LockBusy(t)
    BY <2>3 DEF LockBusy
  <2>4. CASE AcquireGuard(t)
    BY <2>4 DEF AcquireGuard
  <2>5. CASE Enqueue(t)
    <3>1. queues' \in [Levels -> Seq(Threads)]
      <4>1. Append(queues[currentLevel[t]], t) \in Seq(Threads)
        OBVIOUS
      <4> QED BY <2>5, <4>1 DEF Enqueue
    <3>2. pc' \in [Threads -> Steps]
      BY <2>5 DEF Enqueue
    <3> QED BY <2>5, <3>1, <3>2 DEF Enqueue
  <2>6. CASE BeginFlagRehash(t)
    BY <2>6 DEF BeginFlagRehash
  <2>7. CASE SetPark(t)
    <3>1. found' \in [Threads -> Nat]
      BY <2>7, FoundTyped DEF SetPark
    <3>2. [flag[t] EXCEPT ![found[t]] = "down"] \in FlagLists
      BY SetEntry DEF FlagLists
    <3>3. <<"down">> \in FlagLists
      BY DEF FlagLists
    <3>4. flag' \in [Threads -> FlagLists]
      BY <2>7, <3>2, <3>3 DEF SetPark
    <3>5. pc' \in [Threads -> Steps]
      BY <2>7 DEF SetPark
    <3> QED BY <2>7, <3>1, <3>4, <3>5 DEF SetPark
  <2>8. CASE ReleaseGuard(t)
    BY <2>8 DEF ReleaseGuard
  <2>9. CASE ParkLookup(t)
    <3>1. /\ Append(flag[t], "down") \in FlagLists
          /\ Len(flag[t]) + 1 \in Nat /\ Finds(t, t) \subseteq Nat
      BY AddEntry DEF Finds, FlagLists
    <3>2. flag' \in [Threads -> FlagLists]
      BY <2>9, <3>1 DEF ParkLookup
    <3>3. PICK n \in Nat : n = Len(flag[t]) + 1
      BY <3>1
    <3>4. found' \in [Threads -> Nat]
      <4>1. found' \in {found, [found EXCEPT ![t] = n]}
        BY <2>9, <3>3 DEF ParkLookup
      <4> QED BY <4>1
    <3>5. entry' \in [Threads -> Nat]
      <4>1. \E i \in Nat : entry' = [entry EXCEPT ![t] = i]
        BY <2>9, <3>1, <3>3 DEF ParkLookup
      <4> QED BY <4>1
    <3>6. pc' \in [Threads -> Steps]
      BY <2>9 DEF ParkLookup
    <3> QED BY <2>9, <3>2, <3>4, <3>5, <3>6 DEF ParkLookup
  <2>10. CASE Wait(t)
    <3>1. /\ pc' = [pc EXCEPT ![t] = "critical"] \/ pc' = [pc EXCEPT ![t] = "asleep"]
          /\ entry' = [entry EXCEPT ![t] = 0] \/ entry' = entry
      BY <2>10 DEF Wait
    <3>2. pc' \in [Threads -> Steps]
      BY <3>1
    <3>3. entry \in [Threads -> Nat] /\ 0 \in Nat
      OBVIOUS
    <3>4. entry' \in [Threads -> Nat]
      <4> HIDE DEF TypeOK
      <4> QED BY <3>1, <3>3
    <3> QED BY <3>4, <2>10, <3>2, <3>3 DEF Wait
  <2>11. CASE BeginPrint(t)
    BY <2>11, LevelsClosed DEF BeginPrint
  <2>12. CASE Drain(t)
    <3>1. queues[shown[t]] \in Seq(Threads) /\ <<>> \in Seq(Threads)
      OBVIOUS
    <3>2. /\ queues' \in [Levels -> Seq(Threads)]
          /\ temp' \in [Threads -> Seq(Threads)]
          /\ pc' \in [Threads -> Steps]
      BY <2>12, <3>1 DEF Drain
    <3> QED BY <2>12, <3>2 DEF Drain
  <2>13. CASE Install(t)
    <3>1. shown' \in [Threads -> Levels]
      BY <2>13, LevelsClosed DEF Install
    <3>2. /\ queues' \in [Levels -> Seq(Threads)]
          /\ temp' \in [Threads -> Seq(Threads)]
      BY <2>13 DEF Install, Reinstalled
    <3>3. pc' \in [Threads -> Steps]
      BY <2>13 DEF Install
    <3> QED BY <2>13, <3>1, <3>2, <3>3 DEF Install
  <2>14. CASE StopTimer(t)
    BY <2>14, TimeAssumption DEF StopTimer
  <2>15. CASE BeginLevelRehash(t)
    BY <2>15 DEF BeginLevelRehash
  <2>16. CASE SetLevel(t)
    BY <2>16, NewLevelTyped DEF SetLevel
  <2>17. CASE PickNext(t)
    <3>1. PICK l \in Levels :
             /\ queues[l] # <<>>
             /\ nextThread' = [nextThread EXCEPT ![t] = Head(queues[l])]
             /\ queues' = [queues EXCEPT ![l] = Tail(@)]
      BY <2>17 DEF PickNext, FirstOccupied, Occupied
    <3>2. Head(queues[l]) \in Threads /\ Tail(queues[l]) \in Seq(Threads)
      BY <3>1
    <3>3. pc' \in [Threads -> Steps]
      BY <2>17 DEF PickNext
    <3>4. UNCHANGED <<rounds, locked, mtx, threadLevels, garage, currentLevel, entry, held, shown, temp>>
      BY <2>17 DEF PickNext
    <3> QED BY <3>1, <3>2, <3>3, <3>4
  <2>18. CASE PickNone(t)
    BY <2>18 DEF PickNone
  <2>19. CASE UnlockRelease(t)
    BY <2>19 DEF UnlockRelease
  <2>20. CASE Free(t)
    BY <2>20 DEF Free
  <2>21. CASE UnparkFind(t)
    <3>1. \A i \in Finds(t, nextThread[t]) : i \in Nat
      <4>1. nextThread[t] \in Threads
        BY <2>21 DEF UnparkFind, ChosenThere
      <4> QED BY <4>1 DEF Finds, FlagLists
    <3> QED BY <2>21, <3>1 DEF UnparkFind
  <2>22. CASE UnparkMiss(t)
    BY <2>22 DEF UnparkMiss
  <2>23. CASE UnparkStore(t)
    <3>1. flag' \in [Threads -> FlagLists]
      <4>1. CASE nextThread[t] \in Threads
        <5>1. [flag[nextThread[t]] EXCEPT ![entry[t]] = "up"] \in FlagLists
          BY <4>1, SetEntry DEF FlagLists
        <5> QED BY <2>23, <4>1, <5>1 DEF UnparkStore
      <4>2. CASE nextThread[t] \notin Threads
        BY <2>23, <4>2 DEF UnparkStore
      <4> QED BY <4>1, <4>2
    <3> QED BY <2>23, <3>1 DEF UnparkStore
  <2>24. CASE UnparkNotify(t)
    BY <2>24 DEF UnparkNotify
  <2> QED BY <1>2, <2>1, <2>2, <2>3, <2>4, <2>5, <2>6, <2>7, <2>8, <2>9, <2>10, <2>11, <2>12,
             <2>13, <2>14, <2>15, <2>16, <2>17, <2>18, <2>19, <2>20, <2>21, <2>22, <2>23, <2>24
       DEF Worker, Lock, PrintQueues, Unlock
<1> QED BY <1>1, <1>2 DEF Next

LEMMA InitTyped == Init => TypeOK /\ ChosenThere
<1> SUFFICES ASSUME Init PROVE TypeOK /\ ChosenThere
  OBVIOUS
<1>1. flag \in [Threads -> FlagLists] /\ found \in [Threads -> Nat] /\ entry \in [Threads -> Nat]
  BY DEF Init, FlagLists
<1>2. /\ pc \in [Threads -> Steps] /\ ChosenThere
      /\ rounds \in [Threads -> 0 .. Rounds] /\ held \in [Threads -> Nat]
  BY RoundsAssumption DEF Init, Steps, ChosenThere
<1>3. /\ queues \in [Levels -> Seq(Threads)] /\ temp \in [Threads -> Seq(Threads)]
      /\ threadLevels \in [Threads -> Levels \cup {Unseen}]
      /\ currentLevel \in [Threads -> Levels] /\ shown \in [Threads -> Levels]
  BY LevelsClosed DEF Init
<1> QED BY <1>1, <1>2, <1>3 DEF Init, TypeOK

\* Every variable keeps its type, whatever the number of workers and levels.
THEOREM TypeCorrect == Spec => []TypeOK
<1>1. Init => TypeOK /\ ChosenThere
  BY InitTyped
<1>2. TypeOK /\ ChosenThere /\ [Next]_vars => TypeOK' /\ ChosenThere'
  BY TypeStep, ChosenStep
<1> QED BY <1>1, <1>2, PTL DEF Spec

-----------------------------------------------------------------------------
(* The flags.  A lookup of park() that misses adds an entry during a rehash, and a
   later rehash may exchange the entries: setPark() would then clear one flag and
   park() await another.  As long as a table that is not empty is rehashed once at
   most, whoever has several entries keeps the one that a lookup finds.           *)

RehashesOnce == \A r, s \in RehashAt \ {0} : r = s

\* Nobody else is at a step that holds the guard mutex.
Guarded == \A t \in Threads : pc[t] \in GuardSteps => mtx = t

\* Whoever waits has entries, and what is looked up is one of them.
EntriesThere ==
  /\ \A t \in Threads : found[t] \in MayFind(t)
  /\ \A t \in Threads : pc[t] \in WaitSteps => Len(flag[t]) > 0
  /\ \A t \in Threads : pc[t] \in {"wait", "asleep"} => entry[t] \in DOMAIN flag[t]
  /\ \A u, n \in Threads : pc[u] = "store" /\ nextThread[u] = n => entry[u] \in DOMAIN flag[n]

\* A second entry appears during the rehash, so no rehash comes after it.
RehashOver ==
  /\ IsFiniteSet(FlagEntries)
  /\ \A u \in Threads : pc[u] = "flagRehash" =>
        /\ Len(flag[u]) = 0
        /\ FlagEntries = {} \/ \A r \in RehashAt : Cardinality(FlagEntries) >= r
  /\ \A t \in Threads : Len(flag[t]) > 1 => \A r \in RehashAt : Cardinality(FlagEntries) > r
  /\ \A t, u \in Threads :
        pc[t] \in {"releaseGuard", "park"} /\ Len(flag[t]) > 1 => pc[u] # "flagRehash"

GInv == TypeOK /\ ChosenThere /\ Guarded /\ EntriesThere /\ RehashOver

\* mtx is taken when it is free and released by its holder.
LEMMA GuardStep ==
  ASSUME TypeOK, Guarded, [Next]_vars
  PROVE  Guarded'
<1>1. CASE UNCHANGED vars
  BY <1>1 DEF vars, Guarded
<1>2. ASSUME NEW t \in Threads, Worker(t) PROVE Guarded'
  <2> USE DEF TypeOK, Goto, locals, Guarded, GuardSteps
  <2>1. CASE ReadLevel(t) \/ LockDirectly(t) \/ LockBusy(t) \/ Enqueue(t) \/ BeginFlagRehash(t)
    BY <2>1 DEF ReadLevel, LockDirectly, LockBusy, Enqueue, BeginFlagRehash
  <2>2. CASE AcquireGuard(t) \/ ReleaseGuard(t)
    BY <2>2, NoThreadAssumption DEF AcquireGuard, ReleaseGuard
  <2>3. CASE SetPark(t) \/ ParkLookup(t) \/ Wait(t)
    BY <2>3 DEF SetPark, ParkLookup, Wait
  <2>4. CASE PrintQueues(t)
    BY <2>4 DEF PrintQueues, BeginPrint, Drain, Install
  <2>5. CASE Unlock(t)
    BY <2>5
    DEF Unlock, StopTimer, BeginLevelRehash, SetLevel, PickNext, PickNone, UnlockRelease, Free,
        UnparkFind, UnparkMiss, UnparkStore, UnparkNotify
  <2> QED BY <1>2, <2>1, <2>2, <2>3, <2>4, <2>5 DEF Worker, Lock
<1> QED BY <1>1, <1>2 DEF Next

\* What setPark() and unpark() do to the entries.
LEMMA SetParkFlags ==
  ASSUME TypeOK, NEW t \in Threads, SetPark(t)
  PROVE  /\ \A u \in Threads \ {t} : flag'[u] = flag[u]
         /\ flag[t] = <<>> => flag'[t] = <<"down">>
         /\ flag[t] # <<>> =>
              /\ Len(flag'[t]) = Len(flag[t]) /\ DOMAIN flag'[t] = DOMAIN flag[t]
              /\ found[t] \in DOMAIN flag[t] => flag'[t][found[t]] = "down"
<1>1. /\ flag[t] \in Seq({"down", "up"}) /\ found[t] \in Nat
      /\ flag \in [Threads -> Seq({"down", "up"})]
  BY DEF TypeOK, FlagLists
<1>2. flag' = [flag EXCEPT ![t] = IF flag[t] = <<>> THEN <<"down">>
                                  ELSE [flag[t] EXCEPT ![found[t]] = "down"]]
  BY DEF SetPark
<1>3. flag'[t] = IF flag[t] = <<>> THEN <<"down">> ELSE [flag[t] EXCEPT ![found[t]] = "down"]
  BY <1>1, <1>2
<1>4. \A u \in Threads \ {t} : flag'[u] = flag[u]
  BY <1>1, <1>2
<1>5. /\ Len([flag[t] EXCEPT ![found[t]] = "down"]) = Len(flag[t])
      /\ DOMAIN [flag[t] EXCEPT ![found[t]] = "down"] = DOMAIN flag[t]
  BY <1>1, SetEntry
<1>6. found[t] \in DOMAIN flag[t] => [flag[t] EXCEPT ![found[t]] = "down"][found[t]] = "down"
  OBVIOUS
<1> QED BY <1>3, <1>4, <1>5, <1>6

LEMMA StoreFlags ==
  ASSUME TypeOK, NEW t \in Threads, UnparkStore(t), NEW n \in Threads, nextThread[t] = n
  PROVE  /\ \A u \in Threads \ {n} : flag'[u] = flag[u]
         /\ Len(flag'[n]) = Len(flag[n]) /\ DOMAIN flag'[n] = DOMAIN flag[n]
         /\ \A j \in DOMAIN flag[n] : flag'[n][j] = IF j = entry[t] THEN "up" ELSE flag[n][j]
<1>1. /\ flag[n] \in Seq({"down", "up"}) /\ entry[t] \in Nat
      /\ flag \in [Threads -> Seq({"down", "up"})]
  BY DEF TypeOK, FlagLists
<1>2. flag' = [flag EXCEPT ![n] = [flag[n] EXCEPT ![entry[t]] = "up"]]
  BY DEF UnparkStore
<1>3. flag'[n] = [flag[n] EXCEPT ![entry[t]] = "up"] /\ \A u \in Threads \ {n} : flag'[u] = flag[u]
  BY <1>1, <1>2
<1>4. /\ Len([flag[n] EXCEPT ![entry[t]] = "up"]) = Len(flag[n])
      /\ DOMAIN [flag[n] EXCEPT ![entry[t]] = "up"] = DOMAIN flag[n]
      /\ \A j \in DOMAIN flag[n] :
            [flag[n] EXCEPT ![entry[t]] = "up"][j] = IF j = entry[t] THEN "up" ELSE flag[n][j]
  BY <1>1, SetEntry, AddEntry
<1> QED BY <1>3, <1>4

\* The entries of the table before and after a step.
LEMMA EntriesKept ==
  ASSUME \A u \in Threads : DOMAIN flag'[u] = DOMAIN flag[u]
  PROVE  FlagEntries' = FlagEntries
BY DEF FlagEntries

LEMMA EntriesAdd ==
  ASSUME RehashOver, NEW t \in Threads, NEW i \in Nat, i \notin DOMAIN flag[t],
         DOMAIN flag'[t] = DOMAIN flag[t] \cup {i},
         \A u \in Threads \ {t} : DOMAIN flag'[u] = DOMAIN flag[u]
  PROVE  /\ IsFiniteSet(FlagEntries') /\ FlagEntries' # {}
         /\ Cardinality(FlagEntries) \in Nat
         /\ Cardinality(FlagEntries') = Cardinality(FlagEntries) + 1
<1>1. FlagEntries' = FlagEntries \cup {<<t, i>>} /\ <<t, i>> \notin FlagEntries
  <2>1. \A x : x \in FlagEntries <=> \E u \in Threads : \E j \in DOMAIN flag[u] : x = <<u, j>>
    BY DEF FlagEntries
  <2>2. \A x : x \in FlagEntries' <=> \E u \in Threads : \E j \in DOMAIN flag'[u] : x = <<u, j>>
    BY DEF FlagEntries
  <2>3. <<t, i>> \notin FlagEntries
    BY <2>1
  <2>4. \A x : x \in FlagEntries' => x \in FlagEntries \/ x = <<t, i>>
    BY <2>1, <2>2
  <2>5. \A x : x \in FlagEntries \/ x = <<t, i>> => x \in FlagEntries'
    BY <2>1, <2>2
  <2> QED BY <2>3, <2>4, <2>5
<1>2. IsFiniteSet(FlagEntries) /\ Cardinality(FlagEntries) \in Nat
  BY FS_CardinalityType DEF RehashOver
<1>3. /\ IsFiniteSet(FlagEntries \cup {<<t, i>>})
      /\ Cardinality(FlagEntries \cup {<<t, i>>}) = Cardinality(FlagEntries) + 1
  BY <1>1, <1>2, FS_AddElement
<1> QED BY <1>1, <1>2, <1>3

\* A step that leaves the entries as they are.
LEMMA GarageKept ==
  ASSUME GInv, NEW t \in Threads,
         \A u \in Threads : DOMAIN flag'[u] = DOMAIN flag[u],
         \A u \in Threads : Len(flag'[u]) = Len(flag[u]),
         found' = found,
         \A u \in Threads \ {t} : /\ pc'[u] = pc[u] \/ {pc[u], pc'[u]} = {"wait", "asleep"}
                                  /\ entry'[u] = entry[u] /\ nextThread'[u] = nextThread[u],
         pc'[t] # "flagRehash",
         pc'[t] \in {"releaseGuard", "park"} => pc[t] \in {"releaseGuard", "park"},
         pc'[t] \in WaitSteps => pc[t] \in WaitSteps,
         pc'[t] \in {"wait", "asleep"} => entry'[t] \in DOMAIN flag[t],
         pc'[t] = "store" => \A n \in Threads : nextThread'[t] = n => entry'[t] \in DOMAIN flag[n]
  PROVE  EntriesThere' /\ RehashOver'
<1>1. FlagEntries' = FlagEntries
  BY EntriesKept
<1>2. EntriesThere'
  <2>1. \A u \in Threads : found'[u] \in MayFind(u)'
    BY DEF GInv, EntriesThere, MayFind
  <2>2. \A u \in Threads : pc'[u] \in WaitSteps => Len(flag'[u]) > 0
    BY DEF GInv, EntriesThere, WaitSteps
  <2>3. \A u \in Threads : pc'[u] \in {"wait", "asleep"} => entry'[u] \in DOMAIN flag'[u]
    BY DEF GInv, EntriesThere
  <2>4. \A u, n \in Threads : pc'[u] = "store" /\ nextThread'[u] = n => entry'[u] \in DOMAIN flag'[n]
    BY DEF GInv, EntriesThere
  <2> QED BY <2>1, <2>2, <2>3, <2>4 DEF EntriesThere
<1>3. RehashOver'
  BY <1>1 DEF GInv, RehashOver
<1> QED BY <1>2, <1>3

\* Rehashing begins with the first entry, or when there are as many as never again.
LEMMA GarageRehash ==
  ASSUME GInv, RehashesOnce, NEW t \in Threads, BeginFlagRehash(t)
  PROVE  EntriesThere' /\ RehashOver'
<1>1. /\ pc[t] = "setPark" /\ pc' = [pc EXCEPT ![t] = "flagRehash"] /\ flag[t] = <<>>
      /\ Cardinality(FlagEntries) \in RehashAt /\ UNCHANGED <<flag, found, entry, nextThread>>
  BY DEF BeginFlagRehash, FlagRehashDue, Goto, garage, locals
<1>2. FlagEntries' = FlagEntries
  BY <1>1 DEF FlagEntries
<1>3. FlagEntries = {} \/ Cardinality(FlagEntries) # 0
  BY FS_EmptySet DEF GInv, RehashOver
<1>4. Cardinality(FlagEntries) \in Nat /\ RehashAt \subseteq Nat
  BY FS_CardinalityType, RehashAtAssumption DEF GInv, RehashOver
<1>5. FlagEntries = {} \/ \A r \in RehashAt : Cardinality(FlagEntries) >= r
  BY <1>1, <1>3, <1>4 DEF RehashesOnce
<1>6. \A u \in Threads : ~ (Len(flag[u]) > 1)
  BY <1>1, <1>4 DEF GInv, RehashOver
<1>7. Len(flag[t]) = 0
  BY <1>1
<1>8. RehashOver'
  BY <1>1, <1>2, <1>5, <1>6, <1>7 DEF GInv, TypeOK, RehashOver
<1>9. EntriesThere'
  BY <1>1 DEF GInv, TypeOK, EntriesThere, MayFind, WaitSteps
<1> QED BY <1>8, <1>9

\* setPark() holds the guard mutex: nobody is rehashing when it is done.
LEMMA GaragePark ==
  ASSUME GInv, NEW t \in Threads, SetPark(t)
  PROVE  EntriesThere' /\ RehashOver'
<1>1. /\ pc[t] \in {"setPark", "flagRehash"} /\ pc' = [pc EXCEPT ![t] = "releaseGuard"]
      /\ UNCHANGED <<entry, nextThread>>
      /\ \A u \in Threads : found'[u] = found[u] \/ found'[u] \in MayFind(u)
  BY DEF SetPark, Goto, locals, Found
<1>2. \A u \in Threads : pc'[u] # "flagRehash"
  BY <1>1 DEF GInv, Guarded, GuardSteps, TypeOK
<1>3. /\ \A u \in Threads \ {t} : flag'[u] = flag[u]
      /\ flag[t] = <<>> => flag'[t] = <<"down">>
      /\ flag[t] # <<>> => Len(flag'[t]) = Len(flag[t]) /\ DOMAIN flag'[t] = DOMAIN flag[t]
  BY SetParkFlags DEF GInv
<1>4. /\ flag[t] = <<>> => Len(flag[t]) = 0 /\ DOMAIN flag[t] = {}
      /\ <<"down">> # <<>> /\ Len(<<"down">>) = 1 /\ DOMAIN <<"down">> = {1}
      /\ flag[t] # <<>> => Len(flag[t]) > 0 /\ Len(flag[t]) \in Nat
  BY DEF GInv, TypeOK, FlagLists
<1>5. EntriesThere'
  <2>1. \A u \in Threads : DOMAIN flag[u] \subseteq DOMAIN flag'[u]
    BY <1>3, <1>4
  <2>2. \A u \in Threads : found'[u] \in MayFind(u)'
    BY <1>1, <2>1 DEF GInv, EntriesThere, MayFind
  <2>3. \A u \in Threads : pc'[u] \in WaitSteps => Len(flag'[u]) > 0
    <3>1. Len(flag'[t]) > 0
      BY <1>3, <1>4
    <3>2. \A u \in Threads \ {t} : pc'[u] = pc[u]
      BY <1>1 DEF GInv, TypeOK
    <3> QED BY <1>3, <3>1, <3>2 DEF GInv, EntriesThere
  <2>4. \A u \in Threads : pc'[u] \in {"wait", "asleep"} => entry'[u] \in DOMAIN flag'[u]
    BY <1>1, <2>1 DEF GInv, TypeOK, EntriesThere
  <2>5. \A u, n \in Threads : pc'[u] = "store" /\ nextThread'[u] = n => entry'[u] \in DOMAIN flag'[n]
    BY <1>1, <2>1 DEF GInv, TypeOK, EntriesThere
  <2> QED BY <2>2, <2>3, <2>4, <2>5 DEF EntriesThere
<1>6. RehashOver'
  <2>1. CASE flag[t] # <<>>
    <3>1. FlagEntries' = FlagEntries /\ \A u \in Threads : Len(flag'[u]) = Len(flag[u])
      BY <1>3, <2>1, EntriesKept
    <3> QED BY <1>2, <3>1 DEF GInv, RehashOver
  <2>2. CASE flag[t] = <<>>
    <3>1. /\ IsFiniteSet(FlagEntries') /\ Cardinality(FlagEntries) \in Nat
          /\ Cardinality(FlagEntries') = Cardinality(FlagEntries) + 1
      <4>1. DOMAIN flag'[t] = DOMAIN flag[t] \cup {1} /\ 1 \notin DOMAIN flag[t]
        BY <1>3, <1>4, <2>2
      <4>2. \A u \in Threads \ {t} : DOMAIN flag'[u] = DOMAIN flag[u]
        BY <1>3
      <4> QED BY <4>1, <4>2, EntriesAdd DEF GInv
    <3>2. \A u \in Threads : Len(flag'[u]) > 1 => Len(flag[u]) > 1
      <4>1. Len(flag'[t]) = 1
        BY <1>3, <1>4, <2>2
      <4>2. \A u \in Threads \ {t} : Len(flag'[u]) = Len(flag[u])
        BY <1>3
      <4>3. ~ (1 > 1)
        OBVIOUS
      <4> QED BY <4>1, <4>2, <4>3, Zenon
    <3>3. \A u \in Threads : Len(flag'[u]) > 1 => \A r \in RehashAt : Cardinality(FlagEntries') > r
      BY <3>1, <3>2, RehashAtAssumption DEF GInv, RehashOver
    <3> QED BY <1>2, <3>1, <3>3 DEF RehashOver
  <2> QED BY <2>1, <2>2
<1> QED BY <1>5, <1>6

\* park() adds an entry to a table that has one already and is being rehashed.
LEMMA GarageLookup ==
  ASSUME GInv, NEW t \in Threads, ParkLookup(t)
  PROVE  EntriesThere' /\ RehashOver'
<1>1. /\ pc[t] = "park" /\ pc' = [pc EXCEPT ![t] = "wait"] /\ UNCHANGED nextThread
      /\ \A u \in Threads \ {t} : entry'[u] = entry[u]
  BY DEF ParkLookup, Goto, GInv, TypeOK
<1>2. PICK k \in Nat : k = Len(flag[t]) /\ DOMAIN flag[t] = 1 .. k /\ k > 0
  <2>1. Len(flag[t]) > 0
    BY <1>1 DEF GInv, EntriesThere, WaitSteps
  <2> QED BY <2>1, AddEntry DEF GInv, TypeOK, FlagLists
<1>3. CASE UNCHANGED garage /\ \E i \in Finds(t, t) : entry' = [entry EXCEPT ![t] = i]
  <2>1. entry'[t] \in DOMAIN flag[t]
    BY <1>3 DEF Finds, GInv, TypeOK
  <2>2. UNCHANGED <<flag, found>>
    BY <1>3 DEF garage
  <2>3. \A u \in Threads \ {t} : pc'[u] = pc[u]
    BY <1>1 DEF GInv, TypeOK
  <2> QED BY <1>1, <2>1, <2>2, <2>3, GarageKept DEF WaitSteps, GInv, TypeOK
<1>4. CASE /\ FlagRehashByOther(t)
           /\ flag' = [flag EXCEPT ![t] = Append(@, "down")]
           /\ entry' = [entry EXCEPT ![t] = Len(flag[t]) + 1]
           /\ found' \in {found, [found EXCEPT ![t] = Len(flag[t]) + 1]}
  <2>1. /\ \A u \in Threads \ {t} : flag'[u] = flag[u] /\ found'[u] = found[u]
        /\ flag'[t] = Append(flag[t], "down")
        /\ entry'[t] = k + 1 /\ found'[t] \in {found[t], k + 1}
    BY <1>2, <1>4 DEF GInv, TypeOK
  <2>2. Len(flag'[t]) = k + 1 /\ DOMAIN flag'[t] = DOMAIN flag[t] \cup {k + 1} /\ k + 1 \notin DOMAIN flag[t]
    <3>1. flag[t] \in Seq({"down", "up"})
      BY DEF GInv, TypeOK, FlagLists
    <3>2. Len(flag'[t]) = k + 1 /\ DOMAIN flag'[t] = 1 .. k + 1
      BY <1>2, <2>1, <3>1, AddEntry
    <3> QED BY <1>2, <3>2
  <2>3. EntriesThere'
    <3>1. \A u \in Threads : DOMAIN flag[u] \subseteq DOMAIN flag'[u]
      BY <2>1, <2>2
    <3>2. \A u \in Threads : found'[u] \in MayFind(u)'
      BY <2>1, <2>2, <3>1 DEF GInv, EntriesThere, MayFind
    <3>3. \A u \in Threads : pc'[u] \in WaitSteps => Len(flag'[u]) > 0
      BY <1>1, <1>2, <2>1, <2>2 DEF GInv, TypeOK, EntriesThere
    <3>4. \A u \in Threads : pc'[u] \in {"wait", "asleep"} => entry'[u] \in DOMAIN flag'[u]
      BY <1>1, <2>1, <2>2, <3>1 DEF GInv, TypeOK, EntriesThere
    <3>5. \A u, n \in Threads : pc'[u] = "store" /\ nextThread'[u] = n => entry'[u] \in DOMAIN flag'[n]
      BY <1>1, <3>1 DEF GInv, TypeOK, EntriesThere
    <3> QED BY <3>2, <3>3, <3>4, <3>5 DEF EntriesThere
  <2>4. PICK v \in Threads \ {t} : pc[v] = "flagRehash"
    BY <1>4 DEF FlagRehashByOther
  <2>5. <<t, 1>> \in FlagEntries
    BY <1>2 DEF FlagEntries
  <2>6. /\ IsFiniteSet(FlagEntries') /\ Cardinality(FlagEntries) \in Nat
        /\ Cardinality(FlagEntries') = Cardinality(FlagEntries) + 1
    BY <2>1, <2>2, EntriesAdd DEF GInv
  <2>7. \A r \in RehashAt : Cardinality(FlagEntries) >= r
    BY <2>4, <2>5 DEF GInv, RehashOver
  <2>8. \A r \in RehashAt : Cardinality(FlagEntries') > r
    BY <2>6, <2>7, RehashAtAssumption
  <2>9. \A u \in Threads : pc'[u] = "flagRehash" => Len(flag'[u]) = 0
    BY <1>1, <2>1 DEF GInv, TypeOK, RehashOver
  <2>10. \A u, x \in Threads :
           pc'[u] \in {"releaseGuard", "park"} /\ Len(flag'[u]) > 1 => pc'[x] # "flagRehash"
    BY <1>1, <2>1 DEF GInv, TypeOK, RehashOver
  <2>11. \A r \in RehashAt : Cardinality(FlagEntries') >= r
    BY <2>6, <2>7, RehashAtAssumption
  <2> QED BY <2>3, <2>6, <2>8, <2>9, <2>10, <2>11 DEF RehashOver
<1> QED BY <1>3, <1>4 DEF ParkLookup

LEMMA GarageStep ==
  ASSUME GInv, RehashesOnce, [Next]_vars
  PROVE  EntriesThere' /\ RehashOver'
<1>1. CASE UNCHANGED vars
  BY <1>1 DEF vars, garage, locals, GInv, EntriesThere, RehashOver, FlagEntries, MayFind
<1>2. ASSUME NEW t \in Threads, Worker(t) PROVE EntriesThere' /\ RehashOver'
  <2> USE DEF Goto, garage, locals, WaitSteps
  <2>1. CASE ReadLevel(t) \/ LockDirectly(t) \/ LockBusy(t) \/ AcquireGuard(t) \/ Enqueue(t)
    BY <2>1, GarageKept DEF ReadLevel, LockDirectly, LockBusy, AcquireGuard, Enqueue, GInv, TypeOK
  <2>2. CASE ReleaseGuard(t)
    BY <2>2, GarageKept DEF ReleaseGuard, GInv, TypeOK
  <2>3. CASE Wait(t)
    <3>1. entry[t] \in DOMAIN flag[t]
      BY <2>3 DEF Wait, GInv, EntriesThere
    <3>2. /\ UNCHANGED <<flag, found, nextThread>> /\ pc[t] = "wait"
          /\ \A u \in Threads \ {t} : pc'[u] = pc[u] /\ entry'[u] = entry[u]
          /\ pc'[t] = "critical" \/ (pc'[t] = "asleep" /\ entry'[t] = entry[t])
      BY <2>3 DEF Wait, GInv, TypeOK
    <3> QED BY <3>1, <3>2, GarageKept
  <2>4. CASE BeginPrint(t) \/ Drain(t) \/ StopTimer(t) \/ BeginLevelRehash(t) \/ SetLevel(t)
    BY <2>4, GarageKept DEF BeginPrint, Drain, StopTimer, BeginLevelRehash, SetLevel, GInv, TypeOK
  <2>5. CASE Install(t)
    BY <2>5, GarageKept DEF Install, GInv, TypeOK
  <2>6. CASE PickNext(t) \/ PickNone(t) \/ Free(t) \/ UnparkMiss(t)
    BY <2>6, GarageKept DEF PickNext, PickNone, Free, UnparkMiss, GInv, TypeOK
  <2>7. CASE UnlockRelease(t)
    BY <2>7, GarageKept DEF UnlockRelease, GInv, TypeOK
  <2>8. CASE UnparkFind(t)
    <3>1. \A n \in Threads : nextThread'[t] = n => entry'[t] \in DOMAIN flag[n]
      BY <2>8 DEF UnparkFind, Finds, GInv, TypeOK
    <3> QED BY <2>8, <3>1, GarageKept DEF UnparkFind, GInv, TypeOK
  <2>9. CASE UnparkStore(t)
    <3>1. PICK n \in Threads : n = nextThread[t]
      BY <2>9 DEF UnparkStore, GInv, ChosenThere, TypeOK
    <3>2. \A u \in Threads : Len(flag'[u]) = Len(flag[u]) /\ DOMAIN flag'[u] = DOMAIN flag[u]
      BY <2>9, <3>1, StoreFlags DEF GInv
    <3>3. /\ pc' = [pc EXCEPT ![t] = "notify"] /\ UNCHANGED <<found, entry, nextThread>>
      BY <2>9 DEF UnparkStore
    <3>4. pc'[t] = "notify" /\ \A u \in Threads \ {t} : pc'[u] = pc[u]
      BY <3>3 DEF GInv, TypeOK
    <3> QED BY <3>2, <3>3, <3>4, GarageKept
  <2>10. CASE UnparkNotify(t)
    <3>1. /\ pc'[t] = "out" /\ UNCHANGED <<flag, found>>
          /\ \A u \in Threads \ {t} : pc'[u] = pc[u] \/ (pc[u] = "asleep" /\ pc'[u] = "wait")
          /\ \A u \in Threads \ {t} : nextThread'[u] = nextThread[u] /\ entry'[u] = entry[u]
      BY <2>10 DEF UnparkNotify, GInv, TypeOK
    <3>2. \A u \in Threads \ {t} : pc'[u] = pc[u] \/ {pc[u], pc'[u]} = {"wait", "asleep"}
      BY <3>1
    <3> QED BY <3>1, <3>2, GarageKept
  <2> QED BY <1>2, <2>1, <2>2, <2>3, <2>4, <2>5, <2>6, <2>7, <2>8, <2>9, <2>10, GarageRehash,
             GaragePark, GarageLookup
          DEF Worker, Lock, PrintQueues, Unlock
<1> QED BY <1>1, <1>2 DEF Next

LEMMA FlagsStep ==
  ASSUME GInv, RehashesOnce, [Next]_vars
  PROVE  GInv'
BY TypeStep, ChosenStep, GuardStep, GarageStep DEF GInv

LEMMA FlagsInit == Init => GInv
<1> SUFFICES ASSUME Init PROVE GInv
  OBVIOUS
<1>1. FlagEntries = {}
  BY DEF Init, FlagEntries
<1>2. IsFiniteSet(FlagEntries)
  BY <1>1, FS_EmptySet
<1>3. EntriesThere
  BY DEF Init, EntriesThere, MayFind, WaitSteps
<1>4. RehashOver
  BY <1>2 DEF Init, RehashOver
<1> QED BY <1>3, <1>4, InitTyped DEF Init, GInv, Guarded, GuardSteps

-----------------------------------------------------------------------------
(* The flag a waiter awaits. *)

LEMMA AwaitedIs ==
  ASSUME GInv, NEW t \in Threads, pc[t] \in WaitSteps
  PROVE  AwaitedFlag(t) \in {"down", "up"}
<1>1. flag[t] \in Seq({"down", "up"}) /\ Len(flag[t]) > 0
  BY DEF GInv, TypeOK, FlagLists, EntriesThere
<1>2. \A i \in DOMAIN flag[t] : flag[t][i] \in {"down", "up"}
  BY <1>1
<1>3. 1 \in DOMAIN flag[t]
  BY <1>1
<1>4. found[t] \in DOMAIN flag[t]
  BY <1>3 DEF GInv, EntriesThere, MayFind
<1>5. pc[t] \in {"wait", "asleep"} => entry[t] \in DOMAIN flag[t]
  BY DEF GInv, EntriesThere
<1> QED BY <1>2, <1>4, <1>5 DEF AwaitedFlag

\* A rehash exchanges no entries of a thread that is about to look its flag up.
LEMMA FoundKept ==
  ASSUME GInv, NEW t \in Threads, SetPark(t),
         NEW u \in Threads, pc[u] \in {"releaseGuard", "park"}
  PROVE  found'[u] = found[u]
<1>1. CASE pc[t] # "flagRehash"
  BY <1>1 DEF SetPark, Found
<1>2. CASE pc[t] = "flagRehash"
  <2>1. found'[u] \in MayFind(u) /\ found[u] \in MayFind(u)
    BY <1>2 DEF SetPark, Found, GInv, EntriesThere
  <2>2. flag[u] \in Seq({"down", "up"}) /\ Len(flag[u]) \in Nat /\ Len(flag[u]) > 0
    BY AddEntry DEF GInv, TypeOK, FlagLists, EntriesThere, WaitSteps
  <2>3. ~ (Len(flag[u]) > 1)
    BY <1>2 DEF GInv, RehashOver
  <2>4. MayFind(u) = {1}
    BY <2>2, <2>3 DEF MayFind
  <2> QED BY <2>1, <2>4
<1> QED BY <1>1, <1>2

\* Only unpark() touches the flag that another thread awaits.
LEMMA OthersFlags ==
  ASSUME GInv, NEW t \in Threads, Worker(t), pc[t] # "store"
  PROVE  \A u \in Threads \ {t} : pc[u] \in WaitSteps => AwaitedFlag(u)' = AwaitedFlag(u)
<1>1. ASSUME NEW u \in Threads, u # t, flag'[u] = flag[u], entry'[u] = entry[u],
             pc'[u] = pc[u] \/ (pc[u] = "asleep" /\ pc'[u] = "wait"),
             found'[u] = found[u] \/ pc[u] \in {"wait", "asleep"}
      PROVE  AwaitedFlag(u)' = AwaitedFlag(u)
  BY <1>1 DEF AwaitedFlag
<1>2. CASE UnparkNotify(t)
  BY <1>1, <1>2 DEF UnparkNotify, garage, GInv, TypeOK
<1>3. CASE SetPark(t)
  <2> SUFFICES ASSUME NEW u \in Threads, u # t, pc[u] \in WaitSteps
               PROVE  found'[u] = found[u] \/ pc[u] \in {"wait", "asleep"}
    BY <1>1, <1>3, SetParkFlags DEF SetPark, Goto, locals, GInv, TypeOK
  <2> QED BY <1>3, FoundKept DEF WaitSteps
<1>4. CASE ParkLookup(t)
  <2>1. \A u \in Threads \ {t} :
          pc'[u] = pc[u] /\ flag'[u] = flag[u] /\ found'[u] = found[u] /\ entry'[u] = entry[u]
    BY <1>4 DEF ParkLookup, Goto, garage, GInv, TypeOK
  <2> QED BY <1>1, <2>1
<1>5. CASE Lock(t) /\ ~ SetPark(t) /\ ~ ParkLookup(t)
  <2>1. \A u \in Threads \ {t} :
          pc'[u] = pc[u] /\ flag'[u] = flag[u] /\ found'[u] = found[u] /\ entry'[u] = entry[u]
    BY <1>5 DEF Lock, ReadLevel, LockDirectly, LockBusy, AcquireGuard, Enqueue, BeginFlagRehash,
                ReleaseGuard, Wait, Goto, garage, locals, GInv, TypeOK
  <2> QED BY <1>1, <2>1
<1>6. CASE PrintQueues(t)
  <2>1. \A u \in Threads \ {t} :
          pc'[u] = pc[u] /\ flag'[u] = flag[u] /\ found'[u] = found[u] /\ entry'[u] = entry[u]
    BY <1>6 DEF PrintQueues, BeginPrint, Drain, Install, Goto, garage, locals, GInv, TypeOK
  <2> QED BY <1>1, <2>1
<1>7. CASE Unlock(t) /\ ~ UnparkNotify(t)
  <2>1. \A u \in Threads \ {t} :
          pc'[u] = pc[u] /\ flag'[u] = flag[u] /\ found'[u] = found[u] /\ entry'[u] = entry[u]
    BY <1>7 DEF Unlock, StopTimer, BeginLevelRehash, SetLevel, PickNext, PickNone, UnlockRelease,
                Free, UnparkFind, UnparkMiss, UnparkStore, Goto, garage, locals, GInv, TypeOK
  <2> QED BY <1>1, <2>1
<1> QED BY <1>2, <1>3, <1>4, <1>5, <1>6, <1>7 DEF Worker

\* What a thread does to the flag it awaits itself.
LEMMA OwnSetPark ==
  ASSUME GInv, NEW t \in Threads, SetPark(t)
  PROVE  AwaitedFlag(t)' = "down"
<1>1. pc'[t] = "releaseGuard"
  BY DEF SetPark, Goto, GInv, TypeOK
<1>2. pc[t] # "flagRehash" => found' = found
  BY DEF SetPark, Found
<1>3. flag[t] \in Seq({"down", "up"}) /\ found[t] \in MayFind(t)
  BY DEF GInv, TypeOK, FlagLists, EntriesThere
<1>4. CASE flag[t] = <<>>
  <2>1. flag'[t] = <<"down">>
    BY <1>4, SetParkFlags DEF GInv
  <2>2. MayFind(t) = {1}
    BY <1>4 DEF MayFind
  <2>3. found'[t] = 1
    BY <1>2, <1>3, <2>2 DEF SetPark, Found
  <2> QED BY <1>1, <2>1, <2>3 DEF AwaitedFlag
<1>5. CASE flag[t] # <<>>
  <2>1. Len(flag[t]) > 0 /\ 1 \in DOMAIN flag[t]
    BY <1>3, <1>5
  <2>2. found[t] \in DOMAIN flag[t]
    BY <1>3, <2>1 DEF MayFind
  <2>3. flag'[t][found[t]] = "down"
    BY <1>5, <2>2, SetParkFlags DEF GInv
  <2>4. pc[t] # "flagRehash"
    BY <2>1 DEF GInv, RehashOver
  <2> QED BY <1>1, <1>2, <2>3, <2>4 DEF AwaitedFlag
<1> QED BY <1>4, <1>5

LEMMA OwnLookup ==
  ASSUME GInv, NEW t \in Threads, ParkLookup(t)
  PROVE  \/ AwaitedFlag(t)' = AwaitedFlag(t)
         \/ /\ AwaitedFlag(t)' = "down" /\ AwaitedFlag(t) = flag[t][found[t]]
            /\ FlagRehashByOther(t) /\ entry'[t] # found[t]
<1>1. pc[t] = "park" /\ pc'[t] = "wait"
  BY DEF ParkLookup, Goto, GInv, TypeOK
<1>2. AwaitedFlag(t) = flag[t][found[t]] /\ AwaitedFlag(t)' = flag'[t][entry'[t]]
  BY <1>1 DEF AwaitedFlag
<1>3. flag[t] \in Seq({"down", "up"}) /\ Len(flag[t]) > 0 /\ found[t] \in DOMAIN flag[t]
  BY <1>1 DEF GInv, TypeOK, FlagLists, EntriesThere, WaitSteps, MayFind
<1>4. CASE UNCHANGED garage /\ \E i \in Finds(t, t) : entry' = [entry EXCEPT ![t] = i]
  <2>1. PICK i \in DOMAIN flag[t] : entry'[t] = i /\ (i = found[t] \/ FlagRehashByOther(t))
    BY <1>4 DEF Finds, GInv, TypeOK
  <2>2. FlagRehashByOther(t) => Len(flag[t]) = 1
    <3>1. PICK k \in Nat : k = Len(flag[t]) /\ k > 0
      BY <1>3, AddEntry
    <3>2. FlagRehashByOther(t) => ~ (k > 1)
      BY <1>1, <3>1 DEF FlagRehashByOther, GInv, RehashOver
    <3>3. k > 0 /\ ~ (k > 1) => k = 1
      OBVIOUS
    <3> QED BY <3>1, <3>2, <3>3, Zenon
  <2>3. i = found[t]
    BY <1>3, <2>1, <2>2
  <2> QED BY <1>2, <1>4, <2>1, <2>3 DEF garage
<1>5. CASE /\ FlagRehashByOther(t)
           /\ flag' = [flag EXCEPT ![t] = Append(@, "down")]
           /\ entry' = [entry EXCEPT ![t] = Len(flag[t]) + 1]
  <2>1. flag'[t] = Append(flag[t], "down") /\ entry'[t] = Len(flag[t]) + 1
    BY <1>5 DEF GInv, TypeOK
  <2>2. Append(flag[t], "down")[Len(flag[t]) + 1] = "down" /\ found[t] # Len(flag[t]) + 1
    BY <1>3
  <2> QED BY <1>2, <1>5, <2>1, <2>2
<1> QED BY <1>4, <1>5 DEF ParkLookup

\* The steps of a waiter that leave its flag.
LEMMA OwnWait ==
  ASSUME GInv, NEW t \in Threads
  PROVE  /\ ReleaseGuard(t) => AwaitedFlag(t)' = AwaitedFlag(t)
         /\ Wait(t) => \/ pc'[t] = "asleep" /\ AwaitedFlag(t)' = AwaitedFlag(t)
                       \/ pc'[t] = "critical" /\ AwaitedFlag(t) = "up"
BY DEF AwaitedFlag, ReleaseGuard, Wait, Goto, garage, locals, GInv, TypeOK

\* unpark() raises one flag of the thread it is called for.
LEMMA OthersStore ==
  ASSUME GInv, NEW t \in Threads, UnparkStore(t), NEW n \in Threads, nextThread[t] = n
  PROVE  /\ \A u \in Threads \ {n} : pc[u] \in WaitSteps => AwaitedFlag(u)' = AwaitedFlag(u)
         /\ pc[n] \in {"wait", "asleep"} /\ entry[n] = entry[t] => AwaitedFlag(n)' = "up"
         /\ pc[n] = "park" /\ found[n] = entry[t] => AwaitedFlag(n)' = "up"
<1>1. /\ pc[t] = "store" /\ pc' = [pc EXCEPT ![t] = "notify"]
      /\ UNCHANGED <<found, entry, nextThread>>
  BY DEF UnparkStore, Goto, locals
<1>2. pc'[t] = "notify" /\ \A u \in Threads \ {t} : pc'[u] = pc[u]
  BY <1>1 DEF GInv, TypeOK
<1>3. /\ \A u \in Threads \ {n} : flag'[u] = flag[u]
      /\ \A j \in DOMAIN flag[n] : flag'[n][j] = IF j = entry[t] THEN "up" ELSE flag[n][j]
  BY StoreFlags DEF GInv
<1>4. entry[t] \in DOMAIN flag[n]
  BY <1>1 DEF GInv, EntriesThere
<1>5. flag'[n][entry[t]] = "up"
  BY <1>3, <1>4
<1>6. ASSUME NEW u \in Threads, u # n, pc[u] \in WaitSteps PROVE AwaitedFlag(u)' = AwaitedFlag(u)
  <2>1. u # t
    BY <1>1, <1>6 DEF WaitSteps
  <2> QED BY <1>1, <1>2, <1>3, <1>6, <2>1 DEF AwaitedFlag
<1>7. pc[n] \in {"wait", "asleep"} /\ entry[n] = entry[t] => AwaitedFlag(n)' = "up"
  BY <1>1, <1>2, <1>5 DEF AwaitedFlag
<1>8. pc[n] = "park" /\ found[n] = entry[t] => AwaitedFlag(n)' = "up"
  BY <1>1, <1>2, <1>5 DEF AwaitedFlag
<1> QED BY <1>6, <1>7, <1>8

-----------------------------------------------------------------------------
(* The mutex. *)

\* A step that moves t without setting a flag or locked keeps the token where it
\* is, provided t does not come to have it.
LEMMA LocalStep ==
  ASSUME OneToken, NEW t \in Threads,
         UNCHANGED locked,
         \A u \in Threads \ {t} :
            pc'[u] = pc[u] /\ (pc[u] \in WaitSteps => AwaitedFlag(u)' = AwaitedFlag(u)),
         HasMutex(t)' => HasMutex(t)
  PROVE  OneToken'
<1>1. \A u \in Threads : HasMutex(u)' => HasMutex(u)
  BY DEF HasMutex, Granted
<1> QED BY <1>1 DEF OneToken

\* The hand-off step by step.  A step of t either leaves HasMutex alone, takes the
\* token away from t, lets t take it from a free lock, or moves it from t to the
\* thread it has chosen.
LEMMA TokenStep ==
  ASSUME GInv, OneToken, [Next]_vars
  PROVE  OneToken'
<1>1. CASE UNCHANGED vars
  BY <1>1 DEF vars, garage, locals, OneToken, HasMutex, Granted, AwaitedFlag
<1>2. ASSUME NEW t \in Threads, Worker(t) PROVE OneToken'
  <2> USE DEF GInv, TypeOK, Goto, locals, HasMutex, Granted, OwnerSteps, WaitSteps
  <2>1. pc[t] # "store" =>
          \A u \in Threads \ {t} : pc[u] \in WaitSteps => AwaitedFlag(u)' = AwaitedFlag(u)
    BY <1>2, OthersFlags
  <2>2. CASE ReadLevel(t)
    BY <2>1, <2>2, LocalStep DEF ReadLevel
  <2>3. CASE LockBusy(t) \/ AcquireGuard(t) \/ Enqueue(t) \/ BeginFlagRehash(t)
    <3>1. /\ UNCHANGED locked /\ \A u \in Threads \ {t} : pc'[u] = pc[u]
          /\ pc[t] # "store" /\ pc'[t] \in {"guard", "enqueue", "setPark", "flagRehash", "scan"}
          /\ pc'[t] = "scan" => pc[t] = "unlockGuard"
      BY <2>3 DEF LockBusy, AcquireGuard, Enqueue, BeginFlagRehash
    <3> QED BY <2>1, <3>1, LocalStep
  <2>4. CASE SetPark(t)
    BY <2>1, <2>4, LocalStep, OwnSetPark DEF SetPark
  <2>5. CASE ReleaseGuard(t)
    BY <2>1, <2>5, LocalStep, OwnWait DEF ReleaseGuard
  <2>6. CASE ParkLookup(t)
    BY <2>1, <2>6, LocalStep, OwnLookup DEF ParkLookup
  <2>7. CASE Wait(t)
    <3>1. /\ UNCHANGED locked /\ \A u \in Threads \ {t} : pc'[u] = pc[u]
          /\ pc[t] = "wait" /\ pc'[t] \in {"critical", "asleep"}
      BY <2>7 DEF Wait
    <3>2. HasMutex(t)' => HasMutex(t)
      BY <2>7, <3>1, OwnWait
    <3> QED BY <2>1, <3>1, <3>2, LocalStep
  <2>8. CASE BeginPrint(t) \/ Drain(t) \/ Install(t)
    BY <2>1, <2>8, LocalStep DEF BeginPrint, Drain, Install
  <2>9. CASE StopTimer(t) \/ BeginLevelRehash(t) \/ SetLevel(t)
    BY <2>1, <2>9, LocalStep DEF StopTimer, BeginLevelRehash, SetLevel
  <2>10. CASE PickNext(t) \/ PickNone(t)
    BY <2>1, <2>10, LocalStep DEF PickNext, PickNone
  <2>11. CASE UnlockRelease(t) \/ UnparkFind(t) \/ UnparkMiss(t)
    BY <2>1, <2>11, LocalStep DEF UnlockRelease, UnparkFind, UnparkMiss
  <2>12. CASE LockDirectly(t)
    <3>1. \A u \in Threads : ~ HasMutex(u)
      BY <2>12 DEF LockDirectly, OneToken
    <3>2. \A u \in Threads \ {t} : HasMutex(u)' => HasMutex(u)
      BY <2>1, <2>12 DEF LockDirectly
    <3> QED BY <2>12, <3>1, <3>2 DEF LockDirectly, OneToken
  <2>13. CASE Free(t)
    <3>1. HasMutex(t) /\ ~HasMutex(t)'
      BY <2>13 DEF Free
    <3>2. \A u \in Threads \ {t} : HasMutex(u)' => HasMutex(u)
      BY <2>1, <2>13 DEF Free
    <3>3. \A u \in Threads \ {t} : ~HasMutex(u)
      BY <3>1 DEF OneToken
    <3> QED BY <3>1, <3>2, <3>3 DEF OneToken
  <2>14. CASE UnparkStore(t)
    <3>1. PICK n \in Threads : n = nextThread[t]
      BY <2>14 DEF UnparkStore, ChosenThere
    <3>2. HasMutex(t) /\ ~HasMutex(t)'
      BY <2>14 DEF UnparkStore
    <3>3. \A u \in Threads \ {t} : ~HasMutex(u)
      BY <3>2 DEF OneToken
    <3>4. \A u \in Threads \ {t, n} : HasMutex(u)' => HasMutex(u)
      <4>1. \A u \in Threads \ {t} : pc'[u] = pc[u]
        BY <2>14 DEF UnparkStore
      <4>2. \A u \in Threads \ {n} : pc[u] \in WaitSteps => AwaitedFlag(u)' = AwaitedFlag(u)
        BY <2>14, <3>1, OthersStore
      <4> QED BY <4>1, <4>2
    <3>5. \A u \in Threads : HasMutex(u)' => u = n
      BY <3>2, <3>3, <3>4
    <3>6. locked /\ locked'
      BY <2>14, <3>2 DEF UnparkStore, OneToken
    <3> QED BY <3>5, <3>6 DEF OneToken
  <2>15. CASE UnparkNotify(t)
    <3>1. /\ UNCHANGED locked /\ pc'[t] = "out" /\ pc[t] = "notify"
          /\ \A u \in Threads \ {t} : pc'[u] = pc[u] \/ (pc[u] = "asleep" /\ pc'[u] = "wait")
      BY <2>15 DEF UnparkNotify
    <3>2. \A u \in Threads : HasMutex(u)' => HasMutex(u)
      BY <2>1, <3>1
    <3> QED BY <3>1, <3>2 DEF OneToken
  <2> QED BY <1>2, <2>2, <2>3, <2>4, <2>5, <2>6, <2>7, <2>8, <2>9, <2>10, <2>11, <2>12, <2>13,
             <2>14, <2>15
          DEF Worker, Lock, PrintQueues, Unlock
<1> QED BY <1>1, <1>2 DEF Next

\* The mutex is one token, and the fast path never overtakes a hand-off, as long as
\* no table that is not empty is rehashed more than once.
THEOREM TokenUnique ==
  ASSUME RehashesOnce
  PROVE  Spec => []OneToken
<1>1. Init => GInv /\ OneToken
  BY FlagsInit DEF Init, OneToken, HasMutex, Granted, OwnerSteps, WaitSteps
<1>2. GInv /\ OneToken /\ [Next]_vars => GInv' /\ OneToken'
  BY FlagsStep, TokenStep
<1> QED BY <1>1, <1>2, PTL DEF Spec

\* At most one thread is between the return of lock() and unlock()'s release, on the
\* same condition.
THEOREM MutexCorrect ==
  ASSUME RehashesOnce
  PROVE  Spec => []MutualExclusion
<1>1. OneToken => MutualExclusion
  BY DEF OneToken, HasMutex, MutualExclusion
<1> QED BY <1>1, TokenUnique, PTL

-----------------------------------------------------------------------------
(* The waiters: what every step keeps, races included. *)

SetAside(t) == \E u \in Threads : \E i \in 1 .. Len(temp[u]) : temp[u][i] = t

\* No thread stands in two places, be it of a queue or of what print() has drained.
OnePlace ==
  /\ \A l, m \in Levels : \A i \in 1 .. Len(queues[l]), j \in 1 .. Len(queues[m]) :
        queues[l][i] = queues[m][j] => l = m /\ i = j
  /\ \A u \in Threads : \A i, j \in 1 .. Len(temp[u]) : temp[u][i] = temp[u][j] => i = j
  /\ \A t \in Threads : ~ (Queued(t) /\ SetAside(t))
  /\ \A u \in Threads : pc[u] # "install" => temp[u] = <<>>

\* Who stands there is in lock() and has been granted nothing.
Awaiting(t) == InLine(t) /\ (pc[t] \in WaitSteps => AwaitedFlag(t) = "down")
StandingAwait == \A t \in Threads : Queued(t) \/ SetAside(t) => Awaiting(t)

\* Who has been chosen is past the guard mutex, has been granted nothing yet and
\* stands nowhere.
Chooses(u) ==
  pc[u] \in {"unlockRelease", "find", "store"} /\ nextThread[u] # NoThread
Parked == {"park", "wait", "asleep"}
ChosenParked ==
  \A u, n \in Threads : Chooses(u) /\ nextThread[u] = n =>
    /\ pc[n] \in Parked /\ AwaitedFlag(n) = "down"
    /\ ~ Queued(n) /\ ~ SetAside(n)

\* Of a thread that has yet to look its flag up, unpark() has found the same flag.
StoresRight ==
  \A u, n \in Threads :
    pc[u] = "store" /\ nextThread[u] = n /\ pc[n] = "park" => entry[u] = found[n]

WInv == GInv /\ OneToken /\ OnePlace /\ StandingAwait /\ ChosenParked /\ StoresRight

LEMMA StoresStep ==
  ASSUME WInv, NEW t \in Threads, Worker(t)
  PROVE  StoresRight'
<1> SUFFICES ASSUME NEW u \in Threads, NEW n \in Threads,
                    pc'[u] = "store", nextThread'[u] = n, pc'[n] = "park"
             PROVE  entry'[u] = found'[n]
  BY DEF StoresRight
<1> USE DEF Goto, garage, locals, WInv, GInv, TypeOK
<1>1. CASE UnparkFind(t)
  <2>1. /\ found'[n] = found[n] /\ pc[n] = "park"
        /\ \A v \in Threads \ {t} : entry'[v] = entry[v] /\ nextThread'[v] = nextThread[v] /\ pc'[v] = pc[v]
    BY <1>1 DEF UnparkFind
  <2>2. CASE u # t
    BY <2>1, <2>2 DEF StoresRight
  <2>3. CASE u = t
    <3>1. entry'[t] \in DOMAIN flag[n] /\ (entry'[t] = found[n] \/ FlagRehashByOther(t))
      BY <1>1, <2>3 DEF UnparkFind, Finds
    <3>2. CASE FlagRehashByOther(t)
      <4>1. flag[n] \in Seq({"down", "up"}) /\ Len(flag[n]) > 0
        BY <2>1 DEF FlagLists, EntriesThere, WaitSteps
      <4>2. ~ (Len(flag[n]) > 1)
        BY <2>1, <3>2 DEF FlagRehashByOther, RehashOver
      <4>3. DOMAIN flag[n] = {1}
        BY <4>1, <4>2, OneEntry, Zenon
      <4>4. found[n] = 1
        BY <4>3 DEF EntriesThere, MayFind
      <4> QED BY <2>1, <2>3, <3>1, <4>3, <4>4
    <3> QED BY <2>1, <2>3, <3>1, <3>2
  <2> QED BY <2>2, <2>3
<1>2. CASE SetPark(t)
  <2>1. /\ pc'[t] = "releaseGuard" /\ UNCHANGED <<entry, nextThread>>
        /\ \A v \in Threads \ {t} : pc'[v] = pc[v]
    BY <1>2 DEF SetPark
  <2>2. pc[u] = "store" /\ pc[n] = "park" /\ nextThread[u] = n
    BY <2>1
  <2>3. found'[n] = found[n]
    BY <1>2, <2>2, FoundKept
  <2> QED BY <2>1, <2>2, <2>3 DEF StoresRight
<1>3. CASE ReleaseGuard(t)
  <2>1. /\ pc[t] = "releaseGuard" /\ pc'[t] = "park" /\ UNCHANGED <<entry, found, nextThread>>
        /\ \A v \in Threads \ {t} : pc'[v] = pc[v]
    BY <1>3 DEF ReleaseGuard
  <2>2. Chooses(u) /\ nextThread[u] = n
    BY <2>1, NoThreadAssumption DEF Chooses
  <2>3. n # t
    BY <2>1, <2>2 DEF ChosenParked, Parked
  <2> QED BY <2>1, <2>3 DEF StoresRight
<1>4. CASE ParkLookup(t)
  <2>1. /\ pc'[t] = "wait" /\ UNCHANGED nextThread
        /\ \A v \in Threads \ {t} : pc'[v] = pc[v] /\ entry'[v] = entry[v] /\ found'[v] = found[v]
    BY <1>4 DEF ParkLookup
  <2> QED BY <2>1 DEF StoresRight
<1>5. ASSUME UNCHANGED found, pc'[t] # "store", pc'[t] # "park",
             \A v \in Threads \ {t} :
                /\ pc'[v] = pc[v] \/ pc'[v] = "wait"
                /\ entry'[v] = entry[v] /\ nextThread'[v] = nextThread[v]
      PROVE  entry'[u] = found'[n]
  <2>1. u # t /\ n # t /\ pc[u] = "store" /\ pc[n] = "park" /\ nextThread[u] = n
    BY <1>5
  <2>2. entry[u] = found[n]
    BY <2>1 DEF StoresRight
  <2> QED BY <1>5, <2>1, <2>2
<1>6. CASE Lock(t) /\ ~ SetPark(t) /\ ~ ReleaseGuard(t) /\ ~ ParkLookup(t)
  BY <1>5, <1>6
  DEF Lock, ReadLevel, LockDirectly, LockBusy, AcquireGuard, Enqueue, BeginFlagRehash, Wait
<1>7. CASE PrintQueues(t)
  BY <1>5, <1>7 DEF PrintQueues, BeginPrint, Drain, Install
<1>8. CASE Unlock(t) /\ ~ UnparkFind(t)
  BY <1>5, <1>8
  DEF Unlock, StopTimer, BeginLevelRehash, SetLevel, PickNext, PickNone, UnlockRelease, Free,
      UnparkMiss, UnparkStore, UnparkNotify
<1> QED BY <1>1, <1>2, <1>3, <1>4, <1>6, <1>7, <1>8 DEF Worker

\* A step that moves t and leaves every queue alone.
LEMMA QuietStep ==
  ASSUME WInv, NEW t \in Threads, UNCHANGED <<queues, temp>>,
         \A u \in Threads \ {t} :
            /\ pc'[u] = pc[u] /\ nextThread'[u] = nextThread[u]
            /\ pc[u] \in WaitSteps => AwaitedFlag(u)' = AwaitedFlag(u),
         pc[t] # "install",
         InLine(t) => InLine(t)' \/ Granted(t),
         InLine(t) /\ pc'[t] \in WaitSteps => AwaitedFlag(t)' = "down" \/ Granted(t),
         pc[t] \in Parked /\ AwaitedFlag(t) = "down" =>
            pc'[t] \in Parked /\ AwaitedFlag(t)' = "down",
         Chooses(t)' => Chooses(t) /\ nextThread'[t] = nextThread[t]
  PROVE  OnePlace' /\ StandingAwait' /\ ChosenParked'
<1>1. \A u \in Threads : /\ Queued(u)' <=> Queued(u)
                         /\ SetAside(u)' <=> SetAside(u)
  BY DEF Queued, SetAside
<1>2. OnePlace'
  BY <1>1 DEF OnePlace, WInv
<1>3. StandingAwait'
  BY <1>1 DEF WInv, StandingAwait, Awaiting, InLine, Granted, WaitSteps
<1>4. ChosenParked'
  <2> SUFFICES ASSUME NEW u \in Threads, NEW n \in Threads, Chooses(u)', nextThread'[u] = n
               PROVE  /\ pc'[n] \in Parked /\ AwaitedFlag(n)' = "down"
                      /\ ~ Queued(n)' /\ ~ SetAside(n)'
    BY DEF ChosenParked
  <2>1. Chooses(u) /\ nextThread[u] = n
    BY DEF Chooses
  <2>2. pc[n] \in Parked /\ AwaitedFlag(n) = "down" /\ ~ Queued(n) /\ ~ SetAside(n)
    BY <2>1 DEF WInv, ChosenParked
  <2>3. pc'[n] \in Parked /\ AwaitedFlag(n)' = "down"
    BY <2>2 DEF Parked, WaitSteps
  <2> QED BY <1>1, <2>2, <2>3
<1> QED BY <1>2, <1>3, <1>4

\* The other steps of lock(), and those of unlock() that choose nobody.
LEMMA LockWInv ==
  ASSUME WInv, NEW t \in Threads, Lock(t), ~ Enqueue(t)
  PROVE  OnePlace' /\ StandingAwait' /\ ChosenParked'
<1> USE DEF Goto, locals, InLine, Granted, WaitSteps, Parked, Chooses, WInv, GInv, TypeOK
<1>1. pc[t] # "store" =>
        \A u \in Threads \ {t} : pc[u] \in WaitSteps => AwaitedFlag(u)' = AwaitedFlag(u)
  BY OthersFlags DEF Worker
<1>2. CASE ReadLevel(t)
  BY <1>1, <1>2, QuietStep DEF ReadLevel
<1>3. CASE LockDirectly(t) \/ LockBusy(t)
  BY <1>1, <1>3, QuietStep DEF LockDirectly, LockBusy
<1>4. CASE AcquireGuard(t)
  BY <1>1, <1>4, QuietStep DEF AcquireGuard
<1>5. CASE BeginFlagRehash(t)
  BY <1>1, <1>5, QuietStep DEF BeginFlagRehash
<1>6. CASE SetPark(t)
  BY <1>1, <1>6, QuietStep, OwnSetPark DEF SetPark
<1>7. CASE ReleaseGuard(t)
  <2>1. AwaitedFlag(t) \in {"down", "up"}
    BY <1>7, AwaitedIs DEF ReleaseGuard
  <2> QED BY <1>1, <1>7, <2>1, QuietStep, OwnWait DEF ReleaseGuard
<1>8. CASE ParkLookup(t)
  <2>1. AwaitedFlag(t) \in {"down", "up"}
    BY <1>8, AwaitedIs DEF ParkLookup
  <2> QED BY <1>1, <1>8, <2>1, QuietStep, OwnLookup DEF ParkLookup
<1>9. CASE Wait(t)
  <2>1. AwaitedFlag(t) \in {"down", "up"}
    BY <1>9, AwaitedIs DEF Wait
  <2>2. /\ UNCHANGED <<queues, temp, nextThread>> /\ pc[t] = "wait"
        /\ pc'[t] \in {"asleep", "critical"}
    BY <1>9 DEF Wait
  <2>3. \A u \in Threads \ {t} : pc'[u] = pc[u]
    BY <1>9 DEF Wait
  <2> QED BY <1>1, <1>9, <2>1, <2>2, <2>3, QuietStep, OwnWait
<1> QED BY <1>2, <1>3, <1>4, <1>5, <1>6, <1>7, <1>8, <1>9 DEF Lock

LEMMA UnlockWInv ==
  ASSUME WInv, NEW t \in Threads,
         \/ BeginPrint(t) \/ StopTimer(t) \/ BeginLevelRehash(t) \/ SetLevel(t) \/ PickNone(t)
         \/ UnlockRelease(t) \/ Free(t) \/ UnparkFind(t) \/ UnparkMiss(t)
  PROVE  OnePlace' /\ StandingAwait' /\ ChosenParked'
<1> USE DEF Goto, locals, InLine, Granted, WaitSteps, Parked, Chooses, WInv, GInv, TypeOK
<1>1. pc[t] # "store" =>
        \A u \in Threads \ {t} : pc[u] \in WaitSteps => AwaitedFlag(u)' = AwaitedFlag(u)
  BY OthersFlags DEF Worker, PrintQueues, Unlock
<1>2. CASE BeginPrint(t)
  BY <1>1, <1>2, QuietStep DEF BeginPrint
<1>3. CASE StopTimer(t)
  BY <1>1, <1>3, QuietStep DEF StopTimer
<1>4. CASE BeginLevelRehash(t) \/ SetLevel(t)
  BY <1>1, <1>4, QuietStep DEF BeginLevelRehash, SetLevel
<1>5. CASE PickNone(t)
  BY <1>1, <1>5, QuietStep DEF PickNone
<1>6. CASE UnlockRelease(t)
  BY <1>1, <1>6, QuietStep DEF UnlockRelease
<1>7. CASE Free(t)
  BY <1>1, <1>7, QuietStep DEF Free
<1>8. CASE UnparkFind(t)
  BY <1>1, <1>8, QuietStep DEF UnparkFind
<1>9. CASE UnparkMiss(t)
  BY <1>1, <1>9, QuietStep DEF UnparkMiss
<1> QED BY <1>2, <1>3, <1>4, <1>5, <1>6, <1>7, <1>8, <1>9

\* Nobody else has chosen a successor while t owns the mutex.
LEMMA OnlyOwner ==
  ASSUME WInv, NEW t \in Threads, NEW u \in Threads, pc[t] \in OwnerSteps,
         pc[u] \in OwnerSteps
  PROVE  u = t
BY DEF WInv, OneToken, HasMutex

\* A flag of the chosen thread is raised: it stands nowhere, and nobody chooses.
LEMMA StoreWInv ==
  ASSUME WInv, NEW t \in Threads, UnparkStore(t)
  PROVE  OnePlace' /\ StandingAwait' /\ ChosenParked'
<1>1. PICK n \in Threads : n = nextThread[t]
  BY DEF UnparkStore, Goto, WInv, GInv, ChosenThere, TypeOK
<1>2. /\ pc[t] = "store" /\ pc' = [pc EXCEPT ![t] = "notify"]
      /\ UNCHANGED <<queues, temp, nextThread>>
  BY DEF UnparkStore, Goto, locals
<1>3. pc[n] \in Parked /\ ~ Queued(n) /\ ~ SetAside(n)
  BY <1>1, <1>2, NoThreadAssumption DEF WInv, ChosenParked, Chooses, Parked
<1>4. \A u \in Threads : Queued(u)' <=> Queued(u)
  BY <1>2 DEF Queued
<1>5. \A u \in Threads : SetAside(u)' <=> SetAside(u)
  BY <1>2 DEF SetAside
<1>6. OnePlace'
  BY <1>2, <1>4, <1>5 DEF OnePlace, WInv, GInv, TypeOK
<1>7. \A u \in Threads \ {n} : pc[u] \in WaitSteps => AwaitedFlag(u)' = AwaitedFlag(u)
  BY <1>1, OthersStore DEF WInv
<1>8. StandingAwait'
  BY <1>2, <1>3, <1>4, <1>5, <1>7
  DEF WInv, GInv, TypeOK, StandingAwait, Awaiting, InLine, WaitSteps
<1>9. \A u \in Threads : ~ Chooses(u)'
  BY <1>2, OnlyOwner DEF Chooses, WInv, GInv, TypeOK, OwnerSteps
<1> QED BY <1>6, <1>8, <1>9 DEF ChosenParked

\* A sleeper wakes up and waits again.
LEMMA NotifyWInv ==
  ASSUME WInv, NEW t \in Threads, UnparkNotify(t)
  PROVE  OnePlace' /\ StandingAwait' /\ ChosenParked'
<1>1. /\ pc[t] = "notify" /\ pc'[t] = "out"
      /\ \A u \in Threads \ {t} : pc'[u] = pc[u] \/ (pc[u] = "asleep" /\ pc'[u] = "wait")
      /\ \A u \in Threads \ {t} : nextThread'[u] = nextThread[u]
      /\ UNCHANGED <<queues, temp>>
  BY DEF UnparkNotify, WInv, GInv, TypeOK
<1>2. \A u \in Threads \ {t} : pc[u] \in WaitSteps => AwaitedFlag(u)' = AwaitedFlag(u)
  BY <1>1, OthersFlags DEF Worker, Unlock, WInv
<1>3. \A u \in Threads : Queued(u)' <=> Queued(u)
  BY <1>1 DEF Queued
<1>4. \A u \in Threads : SetAside(u)' <=> SetAside(u)
  BY <1>1 DEF SetAside
<1>5. OnePlace'
  BY <1>1, <1>3, <1>4 DEF OnePlace, WInv
<1>6. StandingAwait'
  BY <1>1, <1>2, <1>3, <1>4 DEF WInv, StandingAwait, Awaiting, InLine, WaitSteps
<1>7. ChosenParked'
  <2> SUFFICES ASSUME NEW u \in Threads, NEW n \in Threads, Chooses(u)', nextThread'[u] = n
               PROVE  /\ pc'[n] \in Parked /\ AwaitedFlag(n)' = "down"
                      /\ ~ Queued(n)' /\ ~ SetAside(n)'
    BY DEF ChosenParked
  <2>1. u # t /\ Chooses(u) /\ nextThread[u] = n
    BY <1>1 DEF Chooses
  <2>2. pc[n] \in Parked /\ AwaitedFlag(n) = "down" /\ ~ Queued(n) /\ ~ SetAside(n)
    BY <2>1 DEF WInv, ChosenParked
  <2>3. n # t /\ pc'[n] \in Parked /\ AwaitedFlag(n)' = "down"
    BY <2>2, <1>1, <1>2 DEF Parked, WaitSteps
  <2> QED BY <1>3, <1>4, <2>2, <2>3
<1> QED BY <1>5, <1>6, <1>7

\* Enqueue adds t to those that stand in a queue, and nobody else.
LEMMA EnqueueQueued ==
  ASSUME WInv, NEW t \in Threads, Enqueue(t)
  PROVE  \A u \in Threads : Queued(u)' <=> Queued(u) \/ u = t
<1>1. PICK c \in Levels : c = currentLevel[t]
  BY DEF WInv, GInv, TypeOK
<1>2. /\ pc[t] = "enqueue" /\ pc' = [pc EXCEPT ![t] = "setPark"]
      /\ queues' = [queues EXCEPT ![c] = Append(queues[c], t)]
      /\ UNCHANGED <<temp, nextThread>>
  BY <1>1 DEF Enqueue, Goto, locals
<1>3. /\ queues[c] \in Seq(Threads) /\ Len(queues[c]) \in Nat
      /\ Len(queues'[c]) = Len(queues[c]) + 1
      /\ queues'[c][Len(queues[c]) + 1] = t
      /\ \A i \in 1 .. Len(queues[c]) : queues'[c][i] = queues[c][i]
      /\ \A l \in Levels \ {c} : queues'[l] = queues[l]
  BY <1>2 DEF WInv, GInv, TypeOK
<1>4. ASSUME NEW u \in Threads, Queued(u) PROVE Queued(u)'
  <2>1. PICK l \in Levels : \E i \in 1 .. Len(queues[l]) : queues[l][i] = u
    BY <1>4 DEF Queued
  <2>2. PICK i \in 1 .. Len(queues[l]) : queues[l][i] = u
    BY <2>1
  <2>3. i \in 1 .. Len(queues'[l]) /\ queues'[l][i] = u
    BY <1>3, <2>2
  <2> QED BY <2>3 DEF Queued
<1>5. Queued(t)'
  <2>1. Len(queues[c]) + 1 \in 1 .. Len(queues'[c])
    BY <1>3
  <2> QED BY <1>3, <2>1 DEF Queued
<1>6. ASSUME NEW u \in Threads, Queued(u)', u # t PROVE Queued(u)
  <2>1. PICK l \in Levels : \E i \in 1 .. Len(queues'[l]) : queues'[l][i] = u
    BY <1>6 DEF Queued
  <2>2. PICK i \in 1 .. Len(queues'[l]) : queues'[l][i] = u
    BY <2>1
  <2>3. i \in 1 .. Len(queues[l]) /\ queues[l][i] = u
    BY <1>3, <1>6, <2>2
  <2> QED BY <2>3 DEF Queued
<1> QED BY <1>4, <1>5, <1>6

\* A thread that stands nowhere is put behind the others of its queue.
LEMMA EnqueueWInv ==
  ASSUME WInv, NEW t \in Threads, Enqueue(t)
  PROVE  OnePlace' /\ StandingAwait' /\ ChosenParked'
<1>1. PICK c \in Levels : c = currentLevel[t]
  BY DEF WInv, GInv, TypeOK
<1>2. /\ pc[t] = "enqueue" /\ pc' = [pc EXCEPT ![t] = "setPark"]
      /\ queues' = [queues EXCEPT ![c] = Append(queues[c], t)]
      /\ UNCHANGED <<temp, nextThread>>
  BY <1>1 DEF Enqueue, Goto, locals
<1>11. \A v \in Threads \ {t} : pc[v] \in WaitSteps => AwaitedFlag(v)' = AwaitedFlag(v)
  BY <1>2, OthersFlags DEF Worker, Lock, WInv
<1>3. ~ Queued(t) /\ ~ SetAside(t)
  BY <1>2 DEF WInv, StandingAwait, Awaiting, InLine, WaitSteps
<1>4. /\ queues[c] \in Seq(Threads) /\ Len(queues[c]) \in Nat
      /\ Len(queues'[c]) = Len(queues[c]) + 1
      /\ queues'[c][Len(queues[c]) + 1] = t
      /\ \A i \in 1 .. Len(queues[c]) : queues'[c][i] = queues[c][i]
      /\ \A l \in Levels \ {c} : queues'[l] = queues[l]
  BY <1>2 DEF WInv, GInv, TypeOK
<1>5. \A u \in Threads : Queued(u)' <=> Queued(u) \/ u = t
  BY EnqueueQueued
<1>6. \A u \in Threads : SetAside(u)' <=> SetAside(u)
  BY <1>2 DEF SetAside
<1>7. ASSUME NEW l \in Levels, NEW m \in Levels,
             NEW i \in 1 .. Len(queues'[l]), NEW j \in 1 .. Len(queues'[m]),
             queues'[l][i] = queues'[m][j]
      PROVE  l = m /\ i = j
  <2> DEFINE New(k, n) == k = c /\ n = Len(queues[c]) + 1
  <2>1. ~ New(l, i) => i \in 1 .. Len(queues[l]) /\ queues'[l][i] = queues[l][i]
    BY <1>4
  <2>2. ~ New(m, j) => j \in 1 .. Len(queues[m]) /\ queues'[m][j] = queues[m][j]
    BY <1>4
  <2>3. \A k \in Levels : \A n \in 1 .. Len(queues[k]) : queues[k][n] # t
    BY <1>3 DEF Queued
  <2>4. CASE ~ New(l, i) /\ ~ New(m, j)
    BY <1>7, <2>1, <2>2, <2>4 DEF WInv, OnePlace
  <2>5. CASE New(l, i) \/ New(m, j)
    BY <1>4, <1>7, <2>1, <2>2, <2>3, <2>5
  <2> QED BY <2>4, <2>5
<1>8. OnePlace'
  <2>1. \A u \in Threads : ~ (Queued(u)' /\ SetAside(u)')
    BY <1>3, <1>5, <1>6 DEF WInv, OnePlace
  <2>2. \A u \in Threads : pc'[u] # "install" => temp'[u] = <<>>
    BY <1>2 DEF WInv, GInv, OnePlace, TypeOK
  <2> QED BY <1>2, <1>7, <2>1, <2>2 DEF WInv, OnePlace
<1>9. StandingAwait'
  BY <1>2, <1>5, <1>6, <1>11 DEF WInv, GInv, TypeOK, StandingAwait, Awaiting, InLine, WaitSteps
<1>10. ChosenParked'
  <2> SUFFICES ASSUME NEW u \in Threads, NEW n \in Threads, Chooses(u)', nextThread'[u] = n
               PROVE  /\ pc'[n] \in Parked /\ AwaitedFlag(n)' = "down"
                      /\ ~ Queued(n)' /\ ~ SetAside(n)'
    BY DEF ChosenParked
  <2>1. u # t /\ Chooses(u) /\ nextThread[u] = n
    BY <1>2 DEF Chooses, WInv, GInv, TypeOK
  <2>2. pc[n] \in Parked /\ AwaitedFlag(n) = "down" /\ ~ Queued(n) /\ ~ SetAside(n)
    BY <2>1 DEF WInv, ChosenParked
  <2>3. n # t /\ pc'[n] = pc[n] /\ AwaitedFlag(n)' = AwaitedFlag(n)
    BY <2>2, <1>2, <1>11 DEF Parked, WaitSteps, WInv, GInv, TypeOK
  <2> QED BY <1>5, <1>6, <2>2, <2>3
<1> QED BY <1>8, <1>9, <1>10

\* The tail of a sequence that is not empty.
LEMMA TailFacts ==
  ASSUME NEW S, NEW q \in Seq(S), q # <<>>
  PROVE  /\ Len(q) \in Nat /\ Len(q) > 0
         /\ Len(Tail(q)) = Len(q) - 1
         /\ \A i \in 1 .. Len(Tail(q)) : Tail(q)[i] = q[i + 1]
OBVIOUS

\* The head of a queue becomes the chosen one: it is past the guard mutex, which
\* unlock() holds, and stands nowhere else.
LEMMA PickWInv ==
  ASSUME WInv, NEW t \in Threads, PickNext(t)
  PROVE  OnePlace' /\ StandingAwait' /\ ChosenParked'
<1>1. PICK c \in Levels :
      /\ queues[c] # <<>> /\ pc[t] = "scan" /\ pc' = [pc EXCEPT ![t] = "unlockRelease"]
      /\ nextThread' = [nextThread EXCEPT ![t] = Head(queues[c])]
      /\ queues' = [queues EXCEPT ![c] = Tail(queues[c])]
      /\ UNCHANGED temp
  BY DEF PickNext, FirstOccupied, Occupied, Goto
<1>2. PICK n \in Threads : n = Head(queues[c]) /\ n = queues[c][1] /\ nextThread'[t] = n
    <2>1. queues[c] \in Seq(Threads)
    BY DEF WInv, GInv, TypeOK
  <2>2. Head(queues[c]) \in Threads /\ Head(queues[c]) = queues[c][1]
    BY <1>1, <2>1
  <2> QED BY <1>1, <2>2 DEF WInv, GInv, TypeOK
<1>3. /\ queues[c] \in Seq(Threads) /\ Len(queues[c]) \in Nat /\ Len(queues[c]) > 0
      /\ Len(queues'[c]) = Len(queues[c]) - 1
      /\ \A i \in 1 .. Len(queues'[c]) : queues'[c][i] = queues[c][i + 1]
      /\ \A l \in Levels \ {c} : queues'[l] = queues[l]
  <2>1. queues[c] \in Seq(Threads) /\ queues'[c] = Tail(queues[c])
    BY <1>1 DEF WInv, GInv, TypeOK
  <2>2. \A l \in Levels \ {c} : queues'[l] = queues[l]
    BY <1>1 DEF WInv, GInv, TypeOK
  <2>3. /\ Len(queues[c]) \in Nat /\ Len(queues[c]) > 0
        /\ Len(Tail(queues[c])) = Len(queues[c]) - 1
        /\ \A i \in 1 .. Len(Tail(queues[c])) : Tail(queues[c])[i] = queues[c][i + 1]
    BY <1>1, <2>1, TailFacts, Zenon
  <2> QED BY <2>1, <2>2, <2>3
<1>12. \A v \in Threads \ {t} : pc[v] \in WaitSteps => AwaitedFlag(v)' = AwaitedFlag(v)
  BY <1>1, OthersFlags DEF Worker, Unlock, WInv
<1>4. Queued(n)
  BY <1>2, <1>3 DEF Queued
<1>5. pc[n] \in Parked /\ AwaitedFlag(n) = "down" /\ ~ SetAside(n) /\ n # t
  <2>1. InLine(n) /\ (pc[n] \in WaitSteps => AwaitedFlag(n) = "down") /\ ~ SetAside(n)
    BY <1>4 DEF WInv, StandingAwait, Awaiting, OnePlace
  <2>2. pc[n] \notin GuardSteps
    BY <1>1, <2>1 DEF WInv, GInv, Guarded, GuardSteps, InLine, WaitSteps
  <2> QED BY <1>1, <2>1, <2>2 DEF InLine, WaitSteps, GuardSteps, Parked
<1>6. \A u \in Threads : Queued(u)' => Queued(u) /\ u # n
  <2> SUFFICES ASSUME NEW u \in Threads, Queued(u)' PROVE Queued(u) /\ u # n
    OBVIOUS
  <2>1. PICK l \in Levels : \E i \in 1 .. Len(queues'[l]) : queues'[l][i] = u
    BY DEF Queued
  <2>2. PICK i \in 1 .. Len(queues'[l]) : queues'[l][i] = u
    BY <2>1
  <2>3. CASE l = c
    <3>1. i + 1 \in 2 .. Len(queues[c]) /\ queues[c][i + 1] = u
      BY <1>3, <2>2, <2>3
    <3>2. u # queues[c][1]
      BY <1>3, <3>1 DEF WInv, OnePlace
    <3> QED BY <1>2, <1>3, <3>1, <3>2 DEF Queued
  <2>4. CASE l # c
    <3>1. i \in 1 .. Len(queues[l]) /\ queues[l][i] = u
      BY <1>3, <2>2, <2>4
    <3>2. u # queues[c][1]
      BY <1>3, <3>1, <2>4 DEF WInv, OnePlace
    <3> QED BY <1>2, <3>1, <3>2 DEF Queued
  <2> QED BY <2>3, <2>4
<1>7. \A u \in Threads : SetAside(u)' <=> SetAside(u)
  BY <1>1 DEF SetAside
<1>8. ASSUME NEW l \in Levels, NEW m \in Levels,
             NEW i \in 1 .. Len(queues'[l]), NEW j \in 1 .. Len(queues'[m]),
             queues'[l][i] = queues'[m][j]
      PROVE  l = m /\ i = j
  <2> DEFINE Was(k, h) == IF k = c THEN h + 1 ELSE h
  <2>1. \A k \in Levels : \A h \in 1 .. Len(queues'[k]) :
            Was(k, h) \in 1 .. Len(queues[k]) /\ queues'[k][h] = queues[k][Was(k, h)]
    <3> SUFFICES ASSUME NEW k \in Levels, NEW h \in 1 .. Len(queues'[k])
                 PROVE  Was(k, h) \in 1 .. Len(queues[k]) /\ queues'[k][h] = queues[k][Was(k, h)]
      OBVIOUS
    <3>1. CASE k = c
      BY <1>3, <3>1
    <3>2. CASE k # c
      BY <1>3, <3>2
    <3> QED BY <3>1, <3>2
  <2>2. l = m /\ Was(l, i) = Was(m, j)
    <3> HIDE DEF Was
    <3>1. /\ Was(l, i) \in 1 .. Len(queues[l]) /\ Was(m, j) \in 1 .. Len(queues[m])
          /\ queues[l][Was(l, i)] = queues[m][Was(m, j)]
      BY <1>8, <2>1
    <3> QED BY <3>1 DEF WInv, OnePlace
  <2> QED BY <1>8, <2>2
<1>9. OnePlace'
  <2>1. \A u \in Threads : ~ (Queued(u)' /\ SetAside(u)')
    BY <1>6, <1>7 DEF WInv, OnePlace
  <2>2. \A u \in Threads : pc'[u] # "install" => temp'[u] = <<>>
    BY <1>1 DEF WInv, GInv, OnePlace, TypeOK
  <2> QED BY <1>1, <1>8, <2>1, <2>2 DEF WInv, OnePlace
<1>10. StandingAwait'
  BY <1>1, <1>6, <1>7, <1>12 DEF WInv, GInv, TypeOK, StandingAwait, Awaiting, InLine, WaitSteps
<1>11. ChosenParked'
  <2> SUFFICES ASSUME NEW u \in Threads, NEW m \in Threads, Chooses(u)', nextThread'[u] = m
               PROVE  /\ pc'[m] \in Parked /\ AwaitedFlag(m)' = "down"
                      /\ ~ Queued(m)' /\ ~ SetAside(m)'
    BY DEF ChosenParked
  <2>1. pc[u] \in OwnerSteps /\ pc[t] \in OwnerSteps
    BY <1>1 DEF Chooses, OwnerSteps, WInv, GInv, TypeOK
  <2>2. u = t /\ m = n
    BY <1>2, <2>1, OnlyOwner
  <2>3. pc'[n] = pc[n] /\ AwaitedFlag(n)' = AwaitedFlag(n)
    BY <1>1, <1>5, <1>12 DEF WInv, GInv, TypeOK, Parked, WaitSteps
  <2>4. ~ Queued(n)' /\ ~ SetAside(n)'
    BY <1>5, <1>6, <1>7
  <2> QED BY <1>5, <2>2, <2>3, <2>4
<1> QED BY <1>9, <1>10, <1>11

\* print(): only the owner is there, so nobody has chosen a successor, and the only
\* temporary queue in use is its own.
LEMMA PrinterAlone ==
  ASSUME WInv, NEW t \in Threads, pc[t] \in {"drain", "install"}
  PROVE  \A u \in Threads : ~ Chooses(u) /\ (u # t => temp[u] = <<>>)
<1>1. \A u \in Threads : pc[u] \in OwnerSteps => u = t
  BY OnlyOwner DEF OwnerSteps
<1> QED BY <1>1 DEF Chooses, OwnerSteps, WInv, OnePlace

\* print() sets a whole queue aside ...
LEMMA DrainWInv ==
  ASSUME WInv, NEW t \in Threads, Drain(t)
  PROVE  OnePlace' /\ StandingAwait' /\ ChosenParked'
<1>1. PICK c \in Levels : c = shown[t]
  BY DEF WInv, GInv, TypeOK
<1>2. /\ pc[t] = "drain" /\ pc' = [pc EXCEPT ![t] = "install"]
      /\ temp' = [temp EXCEPT ![t] = queues[c]]
      /\ queues' = [queues EXCEPT ![c] = <<>>]
      /\ UNCHANGED nextThread
  BY <1>1 DEF Drain, Goto
<1>3. /\ \A u \in Threads : temp[u] = <<>>
      /\ temp'[t] = queues[c] /\ \A u \in Threads \ {t} : temp'[u] = <<>>
      /\ queues'[c] = <<>> /\ \A l \in Levels \ {c} : queues'[l] = queues[l]
  BY <1>2, PrinterAlone DEF WInv, GInv, TypeOK, OnePlace
<1>10. \A v \in Threads \ {t} : pc[v] \in WaitSteps => AwaitedFlag(v)' = AwaitedFlag(v)
  BY <1>2, OthersFlags DEF Worker, PrintQueues, WInv
<1>4. \A u \in Threads : Queued(u)' => Queued(u)
  BY <1>3 DEF Queued
<1>5. \A u \in Threads : SetAside(u)' <=> \E i \in 1 .. Len(queues[c]) : queues[c][i] = u
  BY <1>3 DEF SetAside
<1>6. \A u \in Threads : SetAside(u)' => Queued(u) /\ ~ Queued(u)'
  <2> SUFFICES ASSUME NEW u \in Threads, NEW i \in 1 .. Len(queues[c]), queues[c][i] = u
               PROVE  Queued(u) /\ ~ Queued(u)'
    BY <1>5
  <2>1. \A l \in Levels \ {c} : \A j \in 1 .. Len(queues[l]) : queues[l][j] # u
    BY DEF WInv, OnePlace
  <2> QED BY <1>3, <2>1 DEF Queued
<1>7. OnePlace'
  <2>1. \A l, m \in Levels : \A i \in 1 .. Len(queues'[l]), j \in 1 .. Len(queues'[m]) :
           queues'[l][i] = queues'[m][j] => l = m /\ i = j
    BY <1>3 DEF WInv, OnePlace
  <2>2. \A u \in Threads : \A i, j \in 1 .. Len(temp'[u]) : temp'[u][i] = temp'[u][j] => i = j
    BY <1>3 DEF WInv, OnePlace
  <2>3. \A u \in Threads : pc'[u] # "install" => temp'[u] = <<>>
    BY <1>2, <1>3 DEF WInv, GInv, TypeOK
  <2> QED BY <1>6, <2>1, <2>2, <2>3 DEF OnePlace
<1>8. StandingAwait'
  BY <1>2, <1>4, <1>6, <1>10 DEF WInv, GInv, TypeOK, StandingAwait, Awaiting, InLine, WaitSteps
<1>9. ChosenParked'
  BY <1>2, PrinterAlone DEF ChosenParked, Chooses, WInv, GInv, TypeOK
<1> QED BY <1>7, <1>8, <1>9

\* ... and puts it back in the place of what has come since.
LEMMA InstallWInv ==
  ASSUME WInv, NEW t \in Threads, Install(t)
  PROVE  OnePlace' /\ StandingAwait' /\ ChosenParked'
<1>1. PICK c \in Levels : c = shown[t]
  BY DEF WInv, GInv, TypeOK
<1>2. /\ pc[t] = "install" /\ pc'[t] \in {"printed", "drain"}
      /\ \A u \in Threads \ {t} : pc'[u] = pc[u]
      /\ temp' = [temp EXCEPT ![t] = <<>>]
      /\ queues' = [queues EXCEPT ![c] = temp[t]]
      /\ UNCHANGED nextThread
  BY <1>1 DEF Install, Goto, Reinstalled, WInv, GInv, TypeOK
<1>3. /\ \A u \in Threads : temp'[u] = <<>>
      /\ queues'[c] = temp[t] /\ \A l \in Levels \ {c} : queues'[l] = queues[l]
  BY <1>2, PrinterAlone DEF WInv, GInv, TypeOK, OnePlace
<1>10. \A v \in Threads \ {t} : pc[v] \in WaitSteps => AwaitedFlag(v)' = AwaitedFlag(v)
  BY <1>2, OthersFlags DEF Worker, PrintQueues, WInv
<1>4. \A u \in Threads : ~ SetAside(u)'
  BY <1>3 DEF SetAside
<1>5. \A u \in Threads : Queued(u)' => Queued(u) \/ SetAside(u)
  BY <1>3 DEF Queued, SetAside
<1>6. ASSUME NEW l \in Levels, NEW m \in Levels,
             NEW i \in 1 .. Len(queues'[l]), NEW j \in 1 .. Len(queues'[m]),
             queues'[l][i] = queues'[m][j]
      PROVE  l = m /\ i = j
  <2>1. \A k \in Levels \ {c} : \A h \in 1 .. Len(queues[k]), g \in 1 .. Len(temp[t]) :
           temp[t][g] # queues[k][h]
    <3> SUFFICES ASSUME NEW k \in Levels,
                        NEW h \in 1 .. Len(queues[k]), NEW g \in 1 .. Len(temp[t]),
                        temp[t][g] = queues[k][h]
                 PROVE  FALSE
      OBVIOUS
    <3>1. temp[t][g] \in Threads
      BY DEF WInv, GInv, TypeOK
    <3>2. Queued(temp[t][g]) /\ SetAside(temp[t][g])
      BY DEF Queued, SetAside
    <3> QED BY <3>1, <3>2 DEF WInv, OnePlace
  <2>2. CASE l = c /\ m = c
    BY <1>3, <1>6, <2>2 DEF WInv, OnePlace
  <2>3. CASE l # c /\ m # c
    BY <1>3, <1>6, <2>3 DEF WInv, OnePlace
  <2>4. CASE (l = c) # (m = c)
    BY <1>3, <1>6, <2>1, <2>4
  <2> QED BY <2>2, <2>3, <2>4
<1>7. OnePlace'
  BY <1>3, <1>4, <1>6 DEF OnePlace
<1>8. StandingAwait'
  BY <1>2, <1>4, <1>5, <1>10 DEF WInv, StandingAwait, Awaiting, InLine, WaitSteps
<1>9. ChosenParked'
  BY <1>2, PrinterAlone DEF ChosenParked, Chooses
<1> QED BY <1>7, <1>8, <1>9

LEMMA WaitersStep ==
  ASSUME RehashesOnce, WInv, [Next]_vars
  PROVE  WInv'
<1>1. GInv' /\ OneToken'
  BY FlagsStep, TokenStep DEF WInv
<1>2. OnePlace' /\ StandingAwait' /\ ChosenParked' /\ StoresRight'
  <2>1. CASE UNCHANGED vars
    <3> USE <2>1 DEF vars, garage, locals, Queued, SetAside, InLine, AwaitedFlag
    <3>1. OnePlace'
      BY DEF WInv, OnePlace
    <3>2. StandingAwait'
      BY DEF WInv, StandingAwait, Awaiting
    <3>3. ChosenParked'
      BY DEF WInv, ChosenParked, Chooses
    <3>4. StoresRight'
      BY DEF WInv, StoresRight
    <3> QED BY <3>1, <3>2, <3>3, <3>4
  <2>2. ASSUME NEW t \in Threads, Worker(t)
        PROVE  OnePlace' /\ StandingAwait' /\ ChosenParked'
    BY <2>2, LockWInv, EnqueueWInv, UnlockWInv, PickWInv, StoreWInv, NotifyWInv, DrainWInv,
       InstallWInv
    DEF Worker, PrintQueues, Unlock, Lock
  <2> QED BY <2>1, <2>2, StoresStep DEF Next
<1> QED BY <1>1, <1>2 DEF WInv

LEMMA InitWaiters == Init => WInv
<1> SUFFICES ASSUME Init PROVE WInv
  OBVIOUS
<1>1. GInv
  BY FlagsInit
<1>2. \A t \in Threads : ~ Queued(t) /\ ~ SetAside(t)
  BY DEF Init, Queued, SetAside
<1>3. OnePlace
  BY <1>2 DEF Init, OnePlace
<1>4. OneToken
  BY DEF Init, OneToken, HasMutex, Granted, OwnerSteps, WaitSteps
<1>5. StandingAwait
  BY <1>2 DEF StandingAwait
<1>6. ChosenParked /\ StoresRight
  BY DEF Init, ChosenParked, Chooses, StoresRight
<1> QED BY <1>1, <1>3, <1>4, <1>5, <1>6 DEF WInv

-----------------------------------------------------------------------------
(* The marks of a thread, and the steps after which it has none. *)

\* In lock(), with nothing that leads to it.
Alone(t) ==
  InLine(t) /\ ~ Queued(t) /\ ~ SetAside(t) /\ ChosenBy(t) = {} /\ ~ Granted(t)

\* A thread has one place at most, is chosen by one thread at most, and has one of
\* place, choice and grant at most.
LEMMA PlacesAre ==
  ASSUME WInv, NEW t \in Threads
  PROVE  /\ Queued(t) => \E p : Places(t) = {p}
         /\ ~ Queued(t) => Places(t) = {}
<1>1. \A p : p \in Places(t) <=>
         \E l \in Levels : \E i \in 1 .. Len(queues[l]) : queues[l][i] = t /\ p = <<l, i>>
  BY DEF Places
<1>2. ASSUME Queued(t) PROVE \E p : Places(t) = {p}
  <2>1. PICK l \in Levels : \E i \in 1 .. Len(queues[l]) : queues[l][i] = t
    BY <1>2 DEF Queued
  <2>2. PICK i \in 1 .. Len(queues[l]) : queues[l][i] = t
    BY <2>1
  <2>3. \A m \in Levels : \A j \in 1 .. Len(queues[m]) : queues[m][j] = t => m = l /\ j = i
    BY <2>2 DEF WInv, OnePlace
  <2>4. Places(t) = {<<l, i>>}
    BY <1>1, <2>2, <2>3
  <2> QED BY <2>4
<1>3. ~ Queued(t) => Places(t) = {}
  BY <1>1 DEF Queued
<1> QED BY <1>2, <1>3

LEMMA ChosenAre ==
  ASSUME WInv, NEW t \in Threads, ChosenBy(t) # {}
  PROVE  /\ \E u : ChosenBy(t) = {u}
         /\ ~ Queued(t) /\ ~ SetAside(t) /\ ~ Granted(t) /\ InLine(t)
<1>1. PICK u \in Threads : u \in ChosenBy(t)
  BY DEF ChosenBy
<1>2. \A v \in ChosenBy(t) : v = u
  BY <1>1, OnlyOwner DEF ChosenBy, OwnerSteps
<1>3. Chooses(u) /\ nextThread[u] = t
  BY <1>1, NoThreadAssumption DEF ChosenBy, Chooses
<1> QED BY <1>1, <1>2, <1>3 DEF WInv, ChosenParked, Granted, Parked, InLine, WaitSteps

LEMMA StandingAre ==
  ASSUME WInv, NEW t \in Threads, Queued(t) \/ SetAside(t)
  PROVE  InLine(t) /\ ~ Granted(t) /\ ~ (Queued(t) /\ SetAside(t))
BY DEF WInv, StandingAwait, Awaiting, Granted, OnePlace

LEMMA MarksAre ==
  ASSUME WInv, NEW t \in Threads
  PROVE  Marks(t) = IF Queued(t) \/ ChosenBy(t) # {} \/ Granted(t) THEN 1 ELSE 0
<1>1. Cardinality(Places(t)) = IF Queued(t) THEN 1 ELSE 0
  BY PlacesAre, FS_Singleton, FS_EmptySet
<1>2. Cardinality(ChosenBy(t)) = IF ChosenBy(t) # {} THEN 1 ELSE 0
  BY ChosenAre, FS_Singleton, FS_EmptySet
<1> QED BY <1>1, <1>2, ChosenAre, StandingAre DEF Marks

LEMMA LostIsAlone ==
  ASSUME WInv, NEW t \in Threads
  PROVE  Lost(t) <=> Alone(t)
BY MarksAre DEF Lost, Alone, SetAside

\* A step of u that leaves the queues alone and takes neither a grant nor a choice
\* away.
LEMMA QuietLoss ==
  ASSUME NEW t \in Threads, NEW u \in Threads, UNCHANGED <<queues, temp>>,
         \A v \in Threads \ {u} :
            /\ pc'[v] = pc[v] /\ nextThread'[v] = nextThread[v]
            /\ pc[v] \in WaitSteps => AwaitedFlag(v)' = AwaitedFlag(v),
         Alone(t)', InLine(u)' => InLine(u),
         Granted(u) => Granted(u)' \/ ~ InLine(u)',
         Chooses(u) => Chooses(u)' /\ nextThread'[u] = nextThread[u]
  PROVE  Alone(t)
<1>1. /\ ~ Queued(t) /\ ~ SetAside(t)
  BY DEF Queued, SetAside, Alone
<1>2. InLine(t) /\ ~ Granted(t)
  BY DEF Alone, InLine, Granted
<1>3. ChosenBy(t) = {}
  BY NoThreadAssumption DEF Alone, ChosenBy, Chooses
<1> QED BY <1>1, <1>2, <1>3 DEF Alone

\* The steps that lose nobody ...
LEMMA QuietLosses ==
  ASSUME WInv, NEW t \in Threads, NEW u \in Threads, Alone(t)',
         \/ ReadLevel(u) \/ LockDirectly(u) \/ LockBusy(u) \/ AcquireGuard(u) \/ BeginFlagRehash(u)
         \/ SetPark(u) \/ ReleaseGuard(u) \/ Wait(u) \/ BeginPrint(u) \/ StopTimer(u)
         \/ BeginLevelRehash(u) \/ SetLevel(u) \/ PickNone(u) \/ UnlockRelease(u) \/ Free(u)
         \/ UnparkFind(u)
  PROVE  Alone(t)
<1> USE DEF Goto, locals, InLine, Granted, WaitSteps, Chooses
<1>0. pc \in [Threads -> Steps] /\ nextThread \in [Threads -> Threads \cup {NoThread}]
  BY DEF WInv, GInv, TypeOK
<1>1. pc[u] # "store" =>
      \A v \in Threads \ {u} : pc[v] \in WaitSteps => AwaitedFlag(v)' = AwaitedFlag(v)
  BY OthersFlags DEF WInv, Worker, Lock, PrintQueues, Unlock
<1>2. CASE ReadLevel(u)
  BY <1>0, <1>1, <1>2, QuietLoss DEF ReadLevel
<1>3. CASE LockDirectly(u) \/ LockBusy(u) \/ AcquireGuard(u)
  BY <1>0, <1>1, <1>3, QuietLoss DEF LockDirectly, LockBusy, AcquireGuard
<1>4. CASE BeginFlagRehash(u) \/ SetPark(u)
  BY <1>0, <1>1, <1>4, QuietLoss DEF BeginFlagRehash, SetPark
<1>5. CASE ReleaseGuard(u)
  BY <1>0, <1>1, <1>5, QuietLoss, OwnWait DEF WInv, ReleaseGuard
<1>6. CASE Wait(u)
  <2>1. /\ UNCHANGED <<queues, temp, nextThread>> /\ pc[u] = "wait" /\ pc'[u] \in {"critical", "asleep"}
        /\ \A v \in Threads \ {u} : pc'[v] = pc[v]
    BY <1>0, <1>6 DEF Wait
  <2> QED BY <1>0, <1>1, <1>6, <2>1, QuietLoss, OwnWait DEF WInv
<1>7. CASE BeginPrint(u) \/ StopTimer(u)
  BY <1>0, <1>1, <1>7, QuietLoss DEF BeginPrint, StopTimer
<1>8. CASE BeginLevelRehash(u) \/ SetLevel(u)
  BY <1>0, <1>1, <1>8, QuietLoss DEF BeginLevelRehash, SetLevel
<1>9. CASE PickNone(u)
  BY <1>0, <1>1, <1>9, QuietLoss DEF PickNone
<1>10. CASE UnlockRelease(u) \/ Free(u)
  BY <1>0, <1>1, <1>10, QuietLoss DEF UnlockRelease, Free
<1>11. CASE UnparkFind(u)
  BY <1>0, <1>1, <1>11, QuietLoss DEF UnparkFind
<1> QED BY <1>2, <1>3, <1>4, <1>5, <1>6, <1>7, <1>8, <1>9, <1>10, <1>11

\* ... and, one by one, those that touch a mark.
LEMMA ParkLoss ==
  ASSUME WInv, NEW t \in Threads, NEW u \in Threads, Alone(t)', ParkLookup(u)
  PROVE  Alone(t) \/ LosesOnlyBy(t)
<1>1. /\ pc[u] = "park" /\ pc' = [pc EXCEPT ![u] = "wait"]
      /\ UNCHANGED <<queues, temp, nextThread>>
  BY DEF ParkLookup, Goto, locals
<1>2. pc'[u] = "wait" /\ \A v \in Threads \ {u} : pc'[v] = pc[v]
  BY <1>1 DEF WInv, GInv, TypeOK
<1>3. \A v \in Threads \ {u} : pc[v] \in WaitSteps => AwaitedFlag(v)' = AwaitedFlag(v)
  BY <1>1, OthersFlags DEF Worker, Lock, WInv
<1>4. ~ Queued(t) /\ ~ SetAside(t)
  BY <1>1 DEF Alone, Queued, SetAside
<1>5. ChosenBy(t) = {}
  BY <1>1, <1>2 DEF Alone, ChosenBy
<1>6. CASE t = u /\ AwaitedFlag(t) = "up"
  <2>1. AwaitedFlag(t)' # "up"
    BY <1>2, <1>6 DEF Alone, Granted, WaitSteps
  <2>2. FlagRehashByOther(t) /\ entry'[t] # found[t]
    BY <1>6, <2>1, OwnLookup DEF WInv
  <2>3. flag[t][found[t]] = "up"
    BY <1>1, <1>6 DEF AwaitedFlag
  <2> QED BY <1>1, <1>6, <2>2, <2>3 DEF LosesOnlyBy
<1>7. CASE ~ (t = u /\ AwaitedFlag(t) = "up")
  <2>1. InLine(t)
    BY <1>1, <1>2 DEF Alone, InLine, WaitSteps
  <2>2. ~ Granted(t)
    BY <1>2, <1>3, <1>7 DEF Alone, Granted
  <2> QED BY <1>4, <1>5, <2>1, <2>2 DEF Alone
<1> QED BY <1>6, <1>7

LEMMA MissLoss ==
  ASSUME WInv, NEW t \in Threads, NEW u \in Threads, Alone(t)', UnparkMiss(u)
  PROVE  Alone(t) \/ LosesOnlyBy(t)
<1>1. /\ pc[u] = "find" /\ pc' = [pc EXCEPT ![u] = "out"] /\ UNCHANGED <<queues, temp>>
      /\ \A v \in Threads \ {u} : nextThread'[v] = nextThread[v]
      /\ flag[nextThread[u]] = <<>> \/ FlagRehashByOther(u)
  BY DEF UnparkMiss, Goto, WInv, GInv, TypeOK
<1>2. pc'[u] = "out" /\ \A v \in Threads \ {u} : pc'[v] = pc[v]
  BY <1>1 DEF WInv, GInv, TypeOK
<1>3. CASE nextThread[u] = t
  <2>1. pc[t] \in Parked
    BY <1>1, <1>3, NoThreadAssumption DEF WInv, ChosenParked, Chooses
  <2>2. flag[t] # <<>>
    BY <2>1 DEF WInv, GInv, EntriesThere, Parked, WaitSteps
  <2> QED BY <1>1, <1>2, <1>3, <2>2 DEF LosesOnlyBy
<1>4. CASE nextThread[u] # t
  <2>1. ~ Queued(t) /\ ~ SetAside(t)
    BY <1>1 DEF Alone, Queued, SetAside
  <2>2. \A v \in Threads \ {u} : pc[v] \in WaitSteps => AwaitedFlag(v)' = AwaitedFlag(v)
    BY <1>1, OthersFlags DEF Worker, Unlock, WInv
  <2>3. InLine(t) /\ ~ Granted(t)
    BY <1>2, <2>2 DEF Alone, InLine, Granted, WaitSteps
  <2>4. ChosenBy(t) = {}
    BY <1>1, <1>2, <1>4 DEF Alone, ChosenBy
  <2> QED BY <2>1, <2>3, <2>4 DEF Alone
<1> QED BY <1>3, <1>4

LEMMA StoreLoss ==
  ASSUME WInv, NEW t \in Threads, NEW u \in Threads, Alone(t)', UnparkStore(u)
  PROVE  Alone(t) \/ LosesOnlyBy(t)
<1>1. /\ pc[u] = "store" /\ pc' = [pc EXCEPT ![u] = "notify"]
      /\ UNCHANGED <<queues, temp, nextThread>>
  BY DEF UnparkStore, Goto, locals
<1>2. pc'[u] = "notify" /\ \A v \in Threads \ {u} : pc'[v] = pc[v]
  BY <1>1 DEF WInv, GInv, TypeOK
<1>3. PICK n \in Threads : nextThread[u] = n
  BY <1>1 DEF WInv, GInv, TypeOK, ChosenThere
<1>4. pc[n] \in Parked
  BY <1>1, <1>3, NoThreadAssumption DEF WInv, ChosenParked, Chooses
<1>5. CASE t = n
  <2>1. AwaitedFlag(t)' # "up"
    BY <1>1, <1>2, <1>4, <1>5 DEF Alone, Granted, Parked, WaitSteps
  <2>2. pc[t] \in {"wait", "asleep"} /\ entry[u] # entry[t]
    <3>1. CASE pc[t] = "park"
      <4>1. found[t] = entry[u]
        BY <1>1, <1>3, <1>5, <3>1 DEF WInv, StoresRight
      <4> QED BY <1>3, <1>5, <2>1, <3>1, <4>1, OthersStore DEF WInv
    <3>2. CASE pc[t] \in {"wait", "asleep"} /\ entry[t] = entry[u]
      BY <1>3, <1>5, <2>1, <3>2, OthersStore DEF WInv
    <3> QED BY <1>4, <1>5, <3>1, <3>2 DEF Parked
  <2> QED BY <1>1, <1>2, <1>3, <1>5, <2>2 DEF LosesOnlyBy
<1>6. CASE t # n
  <2>1. ~ Queued(t) /\ ~ SetAside(t)
    BY <1>1 DEF Alone, Queued, SetAside
  <2>2. pc[t] \in WaitSteps => AwaitedFlag(t)' = AwaitedFlag(t)
    BY <1>3, <1>6, OthersStore DEF WInv
  <2>3. InLine(t) /\ ~ Granted(t)
    BY <1>1, <1>2, <2>2 DEF Alone, InLine, Granted, WaitSteps
  <2>4. ChosenBy(t) = {}
    BY <1>1, <1>2, <1>3, <1>6 DEF Alone, ChosenBy
  <2> QED BY <2>1, <2>3, <2>4 DEF Alone
<1> QED BY <1>5, <1>6

LEMMA NotifyLoss ==
  ASSUME WInv, NEW t \in Threads, NEW u \in Threads, Alone(t)', UnparkNotify(u)
  PROVE  Alone(t)
<1>1. /\ pc[u] = "notify" /\ pc'[u] = "out"
      /\ \A v \in Threads \ {u} : pc'[v] = pc[v] \/ (pc[v] = "asleep" /\ pc'[v] = "wait")
      /\ \A v \in Threads \ {u} : nextThread'[v] = nextThread[v]
      /\ UNCHANGED <<queues, temp>>
  BY DEF UnparkNotify, WInv, GInv, TypeOK
<1>2. ~ Queued(t) /\ ~ SetAside(t)
  BY <1>1 DEF Alone, Queued, SetAside
<1>3. \A v \in Threads \ {u} : pc[v] \in WaitSteps => AwaitedFlag(v)' = AwaitedFlag(v)
  BY <1>1, OthersFlags DEF Worker, Unlock, WInv
<1>4. InLine(t) /\ ~ Granted(t)
  BY <1>1, <1>3 DEF Alone, InLine, Granted, WaitSteps
<1>5. ChosenBy(t) = {}
  BY <1>1 DEF Alone, ChosenBy
<1> QED BY <1>2, <1>4, <1>5 DEF Alone

LEMMA EnqueueLoss ==
  ASSUME WInv, NEW t \in Threads, NEW u \in Threads, Alone(t)', Enqueue(u)
  PROVE  Alone(t)
<1>1. PICK c \in Levels : c = currentLevel[u]
  BY DEF WInv, GInv, TypeOK
<1>2. /\ pc[u] = "enqueue" /\ pc' = [pc EXCEPT ![u] = "setPark"]
      /\ queues' = [queues EXCEPT ![c] = Append(queues[c], u)]
      /\ UNCHANGED <<temp, nextThread>>
  BY <1>1 DEF Enqueue, Goto, locals
<1>3. \A v \in Threads : Queued(v)' <=> Queued(v) \/ v = u
  BY EnqueueQueued
<1>4. t # u /\ ~ Queued(t)
  <2>1. ~ Queued(t)'
    BY DEF Alone
  <2> QED BY <1>3, <2>1
<1>5. ~ SetAside(t)
  BY <1>2 DEF Alone, SetAside
<1>9. \A v \in Threads \ {u} : pc[v] \in WaitSteps => AwaitedFlag(v)' = AwaitedFlag(v)
  BY <1>2, OthersFlags DEF Worker, Lock, WInv
<1>6. InLine(t) /\ ~ Granted(t)
  BY <1>2, <1>4, <1>9 DEF WInv, GInv, TypeOK, Alone, InLine, Granted, WaitSteps
<1>7. ChosenBy(t) = {}
  BY <1>2 DEF WInv, GInv, TypeOK, Alone, ChosenBy
<1> QED BY <1>4, <1>5, <1>6, <1>7 DEF Alone

LEMMA PickLoss ==
  ASSUME WInv, NEW t \in Threads, NEW u \in Threads, Alone(t)', PickNext(u)
  PROVE  Alone(t)
<1>1. PICK c \in Levels :
      /\ queues[c] # <<>> /\ pc[u] = "scan" /\ pc' = [pc EXCEPT ![u] = "unlockRelease"]
      /\ nextThread' = [nextThread EXCEPT ![u] = Head(queues[c])]
      /\ queues' = [queues EXCEPT ![c] = Tail(queues[c])]
      /\ UNCHANGED temp
  BY DEF PickNext, FirstOccupied, Occupied, Goto
<1>2. pc'[u] = "unlockRelease" /\ nextThread'[u] = Head(queues[c])
  BY <1>1 DEF WInv, GInv, TypeOK
<1>3. t # Head(queues[c])
  BY <1>2 DEF Alone, ChosenBy
<1>4. Queued(t) => Queued(t)'
  <2> SUFFICES ASSUME Queued(t) PROVE Queued(t)'
    OBVIOUS
  <2>1. PICK l \in Levels : \E i \in 1 .. Len(queues[l]) : queues[l][i] = t
    BY DEF Queued
  <2>2. PICK i \in 1 .. Len(queues[l]) : queues[l][i] = t
    BY <2>1
  <2>3. CASE l # c
    BY <1>1, <2>2, <2>3 DEF WInv, GInv, TypeOK, Queued
  <2>4. CASE l = c
    <3>1. /\ queues[c] \in Seq(Threads) /\ queues'[c] = Tail(queues[c])
          /\ Head(queues[c]) = queues[c][1]
      BY <1>1 DEF WInv, GInv, TypeOK
    <3>2. /\ Len(queues[c]) \in Nat /\ Len(queues[c]) > 0
          /\ Len(Tail(queues[c])) = Len(queues[c]) - 1
          /\ \A j \in 1 .. Len(Tail(queues[c])) : Tail(queues[c])[j] = queues[c][j + 1]
      BY <1>1, <3>1, TailFacts, Zenon
    <3>3. i - 1 \in 1 .. Len(queues'[c]) /\ queues'[c][i - 1] = t
      BY <1>3, <2>2, <2>4, <3>1, <3>2
    <3> QED BY <3>3 DEF Queued
  <2> QED BY <2>3, <2>4
<1>5. ~ Queued(t) /\ ~ SetAside(t)
  BY <1>1, <1>4 DEF Alone, SetAside
<1>9. \A v \in Threads \ {u} : pc[v] \in WaitSteps => AwaitedFlag(v)' = AwaitedFlag(v)
  BY <1>1, OthersFlags DEF Worker, Unlock, WInv
<1>6. InLine(t) /\ ~ Granted(t)
  BY <1>1, <1>9 DEF WInv, GInv, TypeOK, Alone, InLine, Granted, WaitSteps
<1>7. ChosenBy(t) = {}
  BY <1>1 DEF WInv, GInv, TypeOK, Alone, ChosenBy
<1> QED BY <1>5, <1>6, <1>7 DEF Alone

LEMMA DrainLoss ==
  ASSUME WInv, NEW t \in Threads, NEW u \in Threads, Alone(t)', Drain(u)
  PROVE  Alone(t)
<1>1. PICK c \in Levels : c = shown[u]
  BY DEF WInv, GInv, TypeOK
<1>2. /\ pc[u] = "drain" /\ pc' = [pc EXCEPT ![u] = "install"]
      /\ temp' = [temp EXCEPT ![u] = queues[c]]
      /\ queues' = [queues EXCEPT ![c] = <<>>]
      /\ UNCHANGED nextThread
  BY <1>1 DEF Drain, Goto
<1>3. /\ \A v \in Threads : temp[v] = <<>>
      /\ temp'[u] = queues[c]
      /\ \A l \in Levels \ {c} : queues'[l] = queues[l]
  BY <1>2, PrinterAlone DEF WInv, GInv, TypeOK, OnePlace
<1>4. ~ Queued(t) /\ ~ SetAside(t)
  BY <1>3 DEF Alone, Queued, SetAside
<1>9. \A v \in Threads \ {u} : pc[v] \in WaitSteps => AwaitedFlag(v)' = AwaitedFlag(v)
  BY <1>2, OthersFlags DEF Worker, PrintQueues, WInv
<1>5. InLine(t) /\ ~ Granted(t)
  BY <1>2, <1>9 DEF WInv, GInv, TypeOK, Alone, InLine, Granted, WaitSteps
<1>6. ChosenBy(t) = {}
  BY <1>2 DEF WInv, GInv, TypeOK, Alone, ChosenBy
<1> QED BY <1>4, <1>5, <1>6 DEF Alone

LEMMA InstallLoss ==
  ASSUME WInv, NEW t \in Threads, NEW u \in Threads, Alone(t)', Install(u)
  PROVE  Alone(t) \/ LosesOnlyBy(t)
<1>1. PICK c \in Levels : c = shown[u]
  BY DEF WInv, GInv, TypeOK
<1>2. /\ pc[u] = "install" /\ pc'[u] \in {"printed", "drain"}
      /\ \A v \in Threads \ {u} : pc'[v] = pc[v]
      /\ temp' = [temp EXCEPT ![u] = <<>>]
      /\ queues' = [queues EXCEPT ![c] = temp[u]]
      /\ UNCHANGED nextThread
  BY <1>1 DEF Install, Goto, Reinstalled, WInv, GInv, TypeOK
<1>3. CASE \E i \in 1 .. Len(queues[c]) : queues[c][i] = t
  BY <1>1, <1>2, <1>3 DEF LosesOnlyBy
<1>4. CASE ~ \E i \in 1 .. Len(queues[c]) : queues[c][i] = t
  <2>1. /\ \A v \in Threads \ {u} : temp[v] = <<>>
        /\ queues'[c] = temp[u] /\ \A l \in Levels \ {c} : queues'[l] = queues[l]
    BY <1>2, PrinterAlone DEF WInv, GInv, TypeOK
  <2>2. ~ Queued(t) /\ ~ SetAside(t)
    BY <1>4, <2>1 DEF Alone, Queued, SetAside
  <2>5. \A v \in Threads \ {u} : pc[v] \in WaitSteps => AwaitedFlag(v)' = AwaitedFlag(v)
    BY <1>2, OthersFlags DEF Worker, PrintQueues, WInv
  <2>3. InLine(t) /\ ~ Granted(t)
    BY <1>2, <2>5 DEF Alone, InLine, Granted, WaitSteps
  <2>4. ChosenBy(t) = {}
    BY <1>2 DEF Alone, ChosenBy
  <2> QED BY <2>2, <2>3, <2>4 DEF Alone
<1> QED BY <1>3, <1>4

\* Nobody comes to be alone but by a race.
LEMMA LossStep ==
  ASSUME WInv, [Next]_vars, NEW t \in Threads, Alone(t)'
  PROVE  Alone(t) \/ LosesOnlyBy(t)
<1>1. CASE UNCHANGED vars
  BY <1>1 DEF vars, garage, locals, Alone, InLine, Queued, SetAside, ChosenBy, Granted, AwaitedFlag
<1>2. ASSUME NEW u \in Threads, Worker(u) PROVE Alone(t) \/ LosesOnlyBy(t)
  BY <1>2, QuietLosses, ParkLoss, MissLoss, StoreLoss, NotifyLoss, EnqueueLoss, PickLoss,
     DrainLoss, InstallLoss
  DEF Worker, Lock, PrintQueues, Unlock
<1> QED BY <1>1, <1>2 DEF Next

\* For every number of threads, levels and rounds, with print() and rehashes at any
\* time, a waiter is lost in the four races named by LosesOnlyBy only, as long as no
\* table that is not empty is rehashed more than once.
THEOREM LostOnlyInRacesCorrect ==
  ASSUME RehashesOnce
  PROVE  Spec => LostOnlyInRaces
<1>1. WInv => \A t \in Threads : Lost(t) <=> Alone(t)
  BY LostIsAlone
<1>2. WInv' => (\A t \in Threads : Lost(t) <=> Alone(t))'
  BY <1>1, PTL
<1>3. WInv /\ WInv' /\ [Next]_vars =>
        [\A t \in Threads : ~ Lost(t) /\ Lost(t)' => LosesOnlyBy(t)]_vars
  <2> SUFFICES ASSUME WInv, WInv', [Next]_vars, NEW t \in Threads, ~ Lost(t), Lost(t)'
               PROVE  LosesOnlyBy(t)
    OBVIOUS
  <2>1. Alone(t)' /\ ~ Alone(t)
    BY <1>1, <1>2
  <2> QED BY <2>1, LossStep
<1>4. WInv /\ [Next]_vars => WInv'
  BY WaitersStep
<1> QED BY <1>3, <1>4, InitWaiters, PTL DEF Spec, LostOnlyInRaces

\* Neither print() nor a rehash is under way, nor has been: flags are not doubled.
Plain ==
  /\ \A t \in Threads :
        pc[t] \notin {"drain", "install", "printed", "flagRehash", "levelRehash"}
  /\ \A t \in Threads : Len(flag[t]) =< 1

LEMMA PlainStep ==
  ASSUME Printers = {}, RehashAt = {}, GInv, Plain, [Next]_vars
  PROVE  Plain'
<1>1. CASE UNCHANGED vars
  BY <1>1 DEF vars, garage, Plain
<1>2. ASSUME NEW t \in Threads, Worker(t)
      PROVE  \A u \in Threads :
                pc'[u] \notin {"drain", "install", "printed", "flagRehash", "levelRehash"}
  <2> USE DEF GInv, TypeOK, Goto, Plain
  <2>1. CASE Lock(t)
    BY <1>2, <2>1
    DEF Lock, ReadLevel, LockDirectly, LockBusy, AcquireGuard, Enqueue, BeginFlagRehash,
        FlagRehashDue, SetPark, ReleaseGuard, ParkLookup, Wait
  <2>2. CASE PrintQueues(t)
    BY <1>2, <2>2 DEF PrintQueues, BeginPrint, Drain, Install
  <2>3. CASE Unlock(t)
    BY <1>2, <2>3
    DEF Unlock, StopTimer, BeginLevelRehash, LevelRehashDue, SetLevel, PickNext, PickNone,
        UnlockRelease, Free, UnparkFind, UnparkMiss, UnparkStore, UnparkNotify
  <2> QED BY <1>2, <2>1, <2>2, <2>3 DEF Worker
<1>3. ASSUME NEW t \in Threads, Worker(t), NEW u \in Threads PROVE Len(flag'[u]) =< 1
  <2>1. CASE SetPark(t)
    <3>1. CASE u # t \/ flag[t] # <<>>
      <4>1. Len(flag'[u]) = Len(flag[u])
        BY <2>1, <3>1, SetParkFlags DEF GInv
      <4> QED BY <4>1 DEF Plain
    <3>2. CASE u = t /\ flag[t] = <<>>
      <4>1. flag'[u] = <<"down">>
        BY <2>1, <3>2, SetParkFlags DEF GInv
      <4> QED BY <4>1
    <3> QED BY <3>1, <3>2
  <2>2. CASE UnparkStore(t)
    <3>1. PICK n \in Threads : nextThread[t] = n
      BY <2>2 DEF UnparkStore, Goto, GInv, TypeOK, ChosenThere
    <3>2. Len(flag'[u]) = Len(flag[u])
      BY <2>2, <3>1, StoreFlags DEF GInv
    <3> QED BY <3>2 DEF Plain
  <2>3. CASE UNCHANGED flag
    BY <2>3 DEF Plain
  <2>4. CASE ParkLookup(t)
    BY <2>3, <2>4 DEF ParkLookup, garage, FlagRehashByOther, Plain
  <2> QED BY <1>3, <2>1, <2>2, <2>3, <2>4
          DEF Worker, Lock, ReadLevel, LockDirectly, LockBusy, AcquireGuard, Enqueue,
              BeginFlagRehash, ReleaseGuard, Wait, PrintQueues, BeginPrint, Drain, Install,
              Unlock, StopTimer, BeginLevelRehash, SetLevel, PickNext, PickNone, UnlockRelease,
              Free, UnparkFind, UnparkMiss, UnparkNotify, garage
<1> QED BY <1>1, <1>2, <1>3 DEF Next, Plain

\* A thread has one flag then.
LEMMA PlainEntries ==
  ASSUME GInv, Plain
  PROVE  /\ \A t \in Threads : pc[t] \in WaitSteps =>
               /\ DOMAIN flag[t] = {1} /\ found[t] = 1
               /\ pc[t] \in {"wait", "asleep"} => entry[t] = 1
         /\ \A u \in Threads : pc[u] = "store" =>
               (pc[nextThread[u]] \in WaitSteps => entry[u] = 1)
<1>1. ASSUME NEW t \in Threads, pc[t] \in WaitSteps
      PROVE  DOMAIN flag[t] = {1} /\ found[t] = 1
  <2>1. flag[t] \in Seq({"down", "up"}) /\ Len(flag[t]) > 0
    BY <1>1 DEF GInv, TypeOK, FlagLists, EntriesThere
  <2>2. Len(flag[t]) \in Nat /\ Len(flag[t]) =< 1
    BY <2>1 DEF Plain
  <2>3. DOMAIN flag[t] = {1}
    BY <2>1, <2>2, OneEntry
  <2> QED BY <2>3 DEF GInv, EntriesThere, MayFind
<1>2. ASSUME NEW t \in Threads, pc[t] \in {"wait", "asleep"} PROVE entry[t] = 1
  BY <1>1, <1>2 DEF GInv, EntriesThere, WaitSteps
<1>3. ASSUME NEW u \in Threads, pc[u] = "store", pc[nextThread[u]] \in WaitSteps PROVE entry[u] = 1
  <2>1. nextThread[u] \in Threads
    BY <1>3 DEF GInv, TypeOK, ChosenThere
  <2> QED BY <1>1, <1>3, <2>1 DEF GInv, EntriesThere
<1> QED BY <1>1, <1>2, <1>3

\* Without print() and rehashes, for every number of threads, levels and rounds, a
\* thread that waits in lock() has exactly one of a place in a queue, an unlock() that
\* has chosen it and a raised flag, and other threads have none.
THEOREM WaitersCorrect ==
  ASSUME Printers = {}, RehashAt = {}
  PROVE  Spec => []EveryWaiterAccountedFor
<1> DEFINE NoneAlone == \A t \in Threads : ~ Alone(t)
<1>1. Init => Plain /\ NoneAlone
  BY DEF Init, Plain, Alone, InLine, WaitSteps
<1>2. WInv /\ Plain /\ [Next]_vars => Plain'
  BY PlainStep DEF WInv
<1>3. WInv /\ Plain /\ NoneAlone /\ [Next]_vars => NoneAlone'
  <2> SUFFICES ASSUME WInv, Plain, NoneAlone, [Next]_vars, NEW t \in Threads, Alone(t)'
               PROVE  FALSE
    OBVIOUS
  <2>1. ASSUME NEW u \in Threads, pc[u] = "store", nextThread[u] = t, pc[t] \in {"wait", "asleep"}
        PROVE  entry[u] = entry[t]
    BY <2>1, PlainEntries DEF WInv, WaitSteps
  <2>2. ~ LosesOnlyBy(t)
    BY <2>1 DEF LosesOnlyBy, FlagRehashByOther, Plain
  <2> QED BY <2>2, LossStep
<1>4. WInv /\ Plain /\ NoneAlone => EveryWaiterAccountedFor
  <2> SUFFICES ASSUME WInv, Plain, NoneAlone, NEW t \in Threads
               PROVE  Marks(t) = IF InLine(t) THEN 1 ELSE 0
    BY DEF EveryWaiterAccountedFor
  <2>1. ~ SetAside(t)
    BY DEF WInv, OnePlace, Plain, SetAside
  <2>2. InLine(t) => Queued(t) \/ ChosenBy(t) # {} \/ Granted(t)
    BY <2>1 DEF Alone
  <2>3. Queued(t) \/ ChosenBy(t) # {} \/ Granted(t) => InLine(t)
    BY ChosenAre, StandingAre DEF Granted, InLine
  <2> QED BY <2>2, <2>3, MarksAre
<1>5. WInv /\ [Next]_vars => WInv'
  BY WaitersStep DEF RehashesOnce
<1> QED BY <1>1, <1>2, <1>3, <1>4, <1>5, InitWaiters, PTL DEF Spec

-----------------------------------------------------------------------------
(* The level of a waiter. *)

LevelOf(t) == IF threadLevels[t] = Unseen THEN 0 ELSE threadLevels[t]

\* Without rehashes, the level a thread has read in lock() is its level until it is
\* queued, and what print() has drained still has the level of its queue.
NoRehash == \A t \in Threads : pc[t] \notin {"flagRehash", "levelRehash"}
LevelRead ==
  \A t \in Threads :
    pc[t] \in {"cas", "guard", "enqueue"} => currentLevel[t] = LevelOf(t)
AsideLevel == \A u \in Threads : \A i \in 1 .. Len(temp[u]) : LevelOf(temp[u][i]) = shown[u]
LInv == NoRehash /\ LevelRead /\ AsideLevel /\ QueuedAtOwnLevel

\* A table that never rehashes is never being rehashed.
LEMMA NoRehashStep ==
  ASSUME RehashAt = {}, TypeOK, NoRehash, [Next]_vars
  PROVE  NoRehash'
<1>1. CASE UNCHANGED vars
  BY <1>1 DEF vars, NoRehash
<1>2. ASSUME NEW t \in Threads, Worker(t) PROVE NoRehash'
  <2> USE DEF TypeOK, Goto, NoRehash
  <2>1. CASE Lock(t)
    BY <2>1
    DEF Lock, ReadLevel, LockDirectly, LockBusy, AcquireGuard, Enqueue, BeginFlagRehash,
        FlagRehashDue, SetPark, ReleaseGuard, ParkLookup, Wait
  <2>2. CASE PrintQueues(t)
    BY <2>2 DEF PrintQueues, BeginPrint, Drain, Install
  <2>3. CASE Unlock(t)
    BY <2>3
    DEF Unlock, StopTimer, BeginLevelRehash, LevelRehashDue, SetLevel, PickNext, PickNone,
        UnlockRelease, Free, UnparkFind, UnparkMiss, UnparkStore, UnparkNotify
  <2> QED BY <1>2, <2>1, <2>2, <2>3 DEF Worker
<1> QED BY <1>1, <1>2 DEF Next

\* QueuedAtOwnLevel, in short.
LEMMA QueuedAt ==
  QueuedAtOwnLevel <=> \A l \in Levels : \A i \in 1 .. Len(queues[l]) : l = LevelOf(queues[l][i])
BY DEF QueuedAtOwnLevel, LevelOf

LEMMA QueuedAtPrime ==
  QueuedAtOwnLevel' <=> \A l \in Levels : \A i \in 1 .. Len(queues'[l]) : l = LevelOf(queues[l][i])'
BY DEF QueuedAtOwnLevel, LevelOf

\* A step that leaves the queues and the levels alone.
LEMMA QuietLevels ==
  ASSUME LInv, WInv, NEW t \in Threads, UNCHANGED <<queues, threadLevels, temp>>,
         \A u \in Threads \ {t} : currentLevel'[u] = currentLevel[u] /\ shown'[u] = shown[u]
            /\ (pc'[u] \in {"cas", "guard", "enqueue"} => pc[u] = pc'[u]),
         pc'[t] \in {"cas", "guard", "enqueue"} => currentLevel'[t] = LevelOf(t),
         temp[t] = <<>> \/ shown'[t] = shown[t]
  PROVE  LevelRead' /\ AsideLevel' /\ QueuedAtOwnLevel'
<1>1. LevelRead'
  BY DEF LInv, LevelRead, LevelOf
<1>2. AsideLevel'
  BY DEF LInv, AsideLevel, LevelOf
<1>3. QueuedAtOwnLevel'
  BY DEF LInv, QueuedAtOwnLevel
<1> QED BY <1>1, <1>2, <1>3

\* The level of a thread changes when it stands nowhere and is not in lock().
LEMMA LevelsStep ==
  ASSUME WInv, LInv, [Next]_vars
  PROVE  LevelRead' /\ AsideLevel' /\ QueuedAtOwnLevel'
<1>1. CASE UNCHANGED vars
  BY <1>1 DEF vars, locals, LInv, LevelRead, LevelOf, AsideLevel, QueuedAtOwnLevel
<1>2. ASSUME NEW t \in Threads, Worker(t) PROVE LevelRead' /\ AsideLevel' /\ QueuedAtOwnLevel'
  <2> USE DEF Goto, locals
  <2>1. CASE ReadLevel(t)
    <3>1. LevelsRead(t) = {LevelOf(t)}
      BY DEF LevelsRead, LevelOf, LInv, NoRehash
    <3> QED BY <2>1, <3>1, QuietLevels DEF ReadLevel, WInv, GInv, TypeOK
  <2>2. CASE LockDirectly(t) \/ LockBusy(t) \/ AcquireGuard(t)
    BY <2>2, QuietLevels DEF LockDirectly, LockBusy, AcquireGuard, WInv, GInv, TypeOK, LInv, LevelRead
  <2>3. CASE BeginFlagRehash(t) \/ SetPark(t) \/ ReleaseGuard(t)
    BY <2>3, QuietLevels DEF BeginFlagRehash, SetPark, ReleaseGuard, WInv, GInv, TypeOK
  <2>4. CASE ParkLookup(t) \/ Wait(t)
    BY <2>4, QuietLevels DEF ParkLookup, Wait, WInv, GInv, TypeOK
  <2>5. CASE BeginPrint(t)
    <3>1. temp[t] = <<>>
      BY <2>5 DEF BeginPrint, WInv, OnePlace
    <3> QED BY <2>5, <3>1, QuietLevels DEF BeginPrint, WInv, GInv, TypeOK
  <2>6. CASE StopTimer(t) \/ BeginLevelRehash(t)
    BY <2>6, QuietLevels DEF StopTimer, BeginLevelRehash, WInv, GInv, TypeOK
  <2>7. CASE PickNone(t) \/ UnlockRelease(t) \/ Free(t)
    BY <2>7, QuietLevels DEF PickNone, UnlockRelease, Free, WInv, GInv, TypeOK
  <2>8. CASE UnparkFind(t) \/ UnparkMiss(t) \/ UnparkStore(t)
    BY <2>8, QuietLevels DEF UnparkFind, UnparkMiss, UnparkStore, WInv, GInv, TypeOK
  <2>9. CASE UnparkNotify(t)
    BY <2>9, QuietLevels DEF UnparkNotify, WInv, GInv, TypeOK
  <2>10. CASE SetLevel(t)
    <3>1. /\ UNCHANGED <<queues, temp, currentLevel, shown>>
          /\ \A u \in Threads \ {t} : LevelOf(u)' = LevelOf(u) /\ pc'[u] = pc[u]
          /\ pc[t] \in {"level", "levelRehash"} /\ pc'[t] = "unlockGuard"
      BY <2>10 DEF SetLevel, LevelOf, WInv, GInv, TypeOK
    <3>2. ~ Queued(t) /\ ~ SetAside(t)
      BY <3>1 DEF WInv, StandingAwait, Awaiting, InLine, WaitSteps
    <3>3. LevelRead'
      BY <3>1 DEF LInv, LevelRead
    <3>4. AsideLevel'
      <4> SUFFICES ASSUME NEW u \in Threads, NEW i \in 1 .. Len(temp[u])
                   PROVE  LevelOf(temp[u][i])' = shown'[u]
        BY <3>1 DEF AsideLevel
      <4>1. PICK v \in Threads : v = temp[u][i]
        <5>1. temp[u] \in Seq(Threads)
          BY DEF WInv, GInv, TypeOK
        <5> QED BY <5>1
      <4>2. v # t /\ LevelOf(v) = shown[u]
        BY <4>1, <3>2 DEF SetAside, LInv, AsideLevel
      <4>3. LevelOf(v)' = shown'[u]
        BY <3>1, <4>2
      <4>4. temp'[u][i] = v
        BY <3>1, <4>1
      <4> QED BY <4>3, <4>4 DEF LevelOf
    <3>5. QueuedAtOwnLevel'
      <4> SUFFICES ASSUME NEW l \in Levels, NEW i \in 1 .. Len(queues'[l])
                   PROVE  l = LevelOf(queues[l][i])'
        BY QueuedAtPrime
      <4>1. PICK v \in Threads : v = queues[l][i]
        <5>1. queues[l] \in Seq(Threads) /\ i \in 1 .. Len(queues[l])
          BY <3>1 DEF WInv, GInv, TypeOK
        <5> QED BY <5>1
      <4>2. v # t /\ LevelOf(v) = l
        BY <4>1, <3>1, <3>2, QueuedAt DEF Queued, LInv
      <4>3. LevelOf(v)' = l
        BY <3>1, <4>2
      <4>4. queues'[l][i] = v
        BY <3>1, <4>1
      <4> QED BY <4>3, <4>4 DEF LevelOf
    <3> QED BY <3>3, <3>4, <3>5
  <2>11. CASE Enqueue(t)
    <3>1. PICK c \in Levels : c = currentLevel[t]
      BY DEF WInv, GInv, TypeOK
    <3>2. /\ pc[t] = "enqueue" /\ pc' = [pc EXCEPT ![t] = "setPark"]
          /\ queues' = [queues EXCEPT ![c] = Append(queues[c], t)]
          /\ UNCHANGED <<temp, threadLevels, currentLevel, shown>>
      BY <2>11, <3>1 DEF Enqueue
    <3>3. LevelRead'
      BY <3>2 DEF LInv, LevelRead, LevelOf, WInv, GInv, TypeOK
    <3>4. AsideLevel'
      BY <3>2 DEF LInv, AsideLevel, LevelOf
    <3>5. QueuedAtOwnLevel'
      <4> SUFFICES ASSUME NEW l \in Levels, NEW i \in 1 .. Len(queues'[l])
                   PROVE  l = LevelOf(queues[l][i])'
        BY QueuedAtPrime
      <4>1. /\ queues[c] \in Seq(Threads) /\ Len(queues'[c]) = Len(queues[c]) + 1
            /\ queues'[c][Len(queues[c]) + 1] = t
            /\ \A j \in 1 .. Len(queues[c]) : queues'[c][j] = queues[c][j]
            /\ \A k \in Levels \ {c} : queues'[k] = queues[k]
        BY <3>2 DEF WInv, GInv, TypeOK
      <4>2. CASE l = c /\ i = Len(queues[c]) + 1
        BY <3>1, <3>2, <4>1, <4>2 DEF LInv, LevelRead, LevelOf
      <4>3. CASE ~ (l = c /\ i = Len(queues[c]) + 1)
        <5>1. i \in 1 .. Len(queues[l]) /\ queues'[l][i] = queues[l][i]
          BY <4>1, <4>3
        <5> QED BY <3>2, <5>1, QueuedAt DEF LInv, LevelOf
      <4> QED BY <4>2, <4>3
    <3> QED BY <3>3, <3>4, <3>5
  <2>12. CASE PickNext(t)
    <3>1. PICK c \in Levels :
            /\ queues[c] # <<>> /\ pc' = [pc EXCEPT ![t] = "unlockRelease"]
            /\ queues' = [queues EXCEPT ![c] = Tail(queues[c])]
            /\ UNCHANGED <<temp, threadLevels, currentLevel, shown>>
      BY <2>12 DEF PickNext, FirstOccupied, Occupied
    <3>2. LevelRead'
      BY <3>1 DEF LInv, LevelRead, LevelOf, WInv, GInv, TypeOK
    <3>3. AsideLevel'
      BY <3>1 DEF LInv, AsideLevel, LevelOf
    <3>4. QueuedAtOwnLevel'
      <4> SUFFICES ASSUME NEW l \in Levels, NEW i \in 1 .. Len(queues'[l])
                   PROVE  l = LevelOf(queues[l][i])'
        BY QueuedAtPrime
      <4>1. /\ queues[c] \in Seq(Threads) /\ queues'[c] = Tail(queues[c])
            /\ \A k \in Levels \ {c} : queues'[k] = queues[k]
        BY <3>1 DEF WInv, GInv, TypeOK
      <4>2. /\ Len(queues[c]) \in Nat /\ Len(queues[c]) > 0
            /\ Len(Tail(queues[c])) = Len(queues[c]) - 1
            /\ \A j \in 1 .. Len(Tail(queues[c])) : Tail(queues[c])[j] = queues[c][j + 1]
        BY <3>1, <4>1, TailFacts, Zenon
      <4>3. \E j \in 1 .. Len(queues[l]) : queues'[l][i] = queues[l][j]
        <5>1. CASE l = c
          <6>1. i \in 1 .. Len(Tail(queues[c])) /\ queues'[l][i] = Tail(queues[c])[i]
            BY <4>1, <5>1
          <6>2. i + 1 \in 1 .. Len(queues[c]) /\ queues'[l][i] = queues[c][i + 1]
            BY <4>2, <6>1
          <6> QED BY <5>1, <6>2
        <5>2. CASE l # c
          BY <4>1, <5>2
        <5> QED BY <5>1, <5>2
      <4> QED BY <3>1, <4>3, QueuedAt DEF LInv, LevelOf
    <3> QED BY <3>2, <3>3, <3>4
  <2>13. CASE Drain(t)
    <3>1. /\ pc' = [pc EXCEPT ![t] = "install"]
          /\ temp' = [temp EXCEPT ![t] = queues[shown[t]]]
          /\ queues' = [queues EXCEPT ![shown[t]] = <<>>]
          /\ UNCHANGED <<threadLevels, currentLevel, shown>>
      BY <2>13 DEF Drain
    <3>2. LevelRead'
      BY <3>1 DEF LInv, LevelRead, LevelOf, WInv, GInv, TypeOK
    <3>3. PICK c \in Levels : c = shown[t]
      BY DEF WInv, GInv, TypeOK
    <3>4. /\ temp'[t] = queues[c] /\ \A u \in Threads \ {t} : temp'[u] = temp[u]
          /\ queues'[c] = <<>> /\ \A l \in Levels \ {c} : queues'[l] = queues[l]
          /\ \A v : LevelOf(v)' = LevelOf(v)
      BY <3>1, <3>3 DEF WInv, GInv, TypeOK, LevelOf
    <3>5. AsideLevel'
      <4> SUFFICES ASSUME NEW u \in Threads, NEW i \in 1 .. Len(temp'[u])
                   PROVE  LevelOf(temp[u][i])' = shown'[u]
        BY DEF AsideLevel
      <4>1. CASE u = t
        <5>1. i \in 1 .. Len(queues[c]) /\ temp'[u][i] = queues[c][i]
          BY <3>4, <4>1
        <5> QED BY <3>1, <3>3, <4>1, <5>1, QueuedAt DEF LInv, LevelOf
      <4>2. CASE u # t
        <5>1. i \in 1 .. Len(temp[u]) /\ temp'[u][i] = temp[u][i]
          BY <3>4, <4>2
        <5> QED BY <3>1, <5>1 DEF LInv, AsideLevel, LevelOf
      <4> QED BY <4>1, <4>2
    <3>6. QueuedAtOwnLevel'
      <4> SUFFICES ASSUME NEW l \in Levels, NEW i \in 1 .. Len(queues'[l])
                   PROVE  l = LevelOf(queues[l][i])'
        BY QueuedAtPrime
      <4>1. i \in 1 .. Len(queues[l]) /\ queues'[l][i] = queues[l][i]
        BY <3>4
      <4> QED BY <3>1, <4>1, QueuedAt DEF LInv, LevelOf
    <3> QED BY <3>2, <3>5, <3>6
  <2>14. CASE Install(t)
    <3>1. /\ pc[t] = "install" /\ pc'[t] \in {"printed", "drain"}
          /\ \A v \in Threads \ {t} : pc'[v] = pc[v]
          /\ temp' = [temp EXCEPT ![t] = <<>>]
          /\ queues' = [queues EXCEPT ![shown[t]] = temp[t]]
          /\ UNCHANGED <<threadLevels, currentLevel>>
      BY <2>14 DEF Install, Reinstalled, WInv, GInv, TypeOK
    <3>2. LevelRead'
      BY <3>1 DEF LInv, LevelRead, LevelOf
    <3>3. \A u \in Threads : temp'[u] = <<>>
      BY <3>1, PrinterAlone DEF WInv, GInv, TypeOK
    <3>4. AsideLevel'
      BY <3>3 DEF AsideLevel
    <3>5. QueuedAtOwnLevel'
      <4> SUFFICES ASSUME NEW l \in Levels, NEW i \in 1 .. Len(queues'[l])
                   PROVE  l = LevelOf(queues[l][i])'
        BY QueuedAtPrime
      <4>1. CASE l = shown[t]
        <5>1. i \in 1 .. Len(temp[t]) /\ queues'[l][i] = temp[t][i]
          BY <3>1, <4>1 DEF WInv, GInv, TypeOK
        <5> QED BY <3>1, <4>1, <5>1 DEF LInv, AsideLevel, LevelOf
      <4>2. CASE l # shown[t]
        <5>1. i \in 1 .. Len(queues[l]) /\ queues'[l][i] = queues[l][i]
          BY <3>1, <4>2 DEF WInv, GInv, TypeOK
        <5> QED BY <3>1, <5>1, QueuedAt DEF LInv, LevelOf
      <4> QED BY <4>1, <4>2
    <3> QED BY <3>2, <3>4, <3>5
  <2> QED BY <1>2, <2>1, <2>2, <2>3, <2>4, <2>5, <2>6, <2>7, <2>8, <2>9, <2>10, <2>11, <2>12,
             <2>13, <2>14
       DEF Worker, Lock, PrintQueues, Unlock
<1> QED BY <1>1, <1>2 DEF Next

\* Without rehashes, and with print() at any time, every waiter stands in the queue
\* of its own level, for every number of threads, levels and rounds.
THEOREM LevelsCorrect ==
  ASSUME RehashAt = {}
  PROVE  Spec => []QueuedAtOwnLevel
<1>1. Init => LInv
  BY DEF Init, LInv, NoRehash, LevelRead, AsideLevel, QueuedAtOwnLevel
<1>2. WInv /\ LInv /\ [Next]_vars => LInv'
  BY LevelsStep, NoRehashStep DEF LInv, WInv, GInv
<1>3. LInv => QueuedAtOwnLevel
  BY DEF LInv
<1>4. WInv /\ [Next]_vars => WInv'
  BY WaitersStep DEF RehashesOnce
<1> QED BY <1>1, <1>2, <1>3, <1>4, InitWaiters, PTL DEF Spec

-----------------------------------------------------------------------------
(* The refinement of PriorityLock. *)

\* The mapping in plain words: the holder is the one thread that holds the lock, the
\* level of a waiter the queue it stands in.
HolderIs ==
  /\ \A t \in Threads : Holds(t) => Holder = t
  /\ (\A t \in Threads : ~ Holds(t)) => Holder = NoThread
LevelIs ==
  /\ WaitLevel = [u \in {u \in Threads : Queued(u)} |-> WaitLevel[u]]
  /\ \A l \in Levels : \A i \in 1 .. Len(queues[l]) : \A t \in Threads :
        queues[l][i] = t => WaitLevel[t] = l

\* The thread that has the token, and through it the one that holds the lock.
LEMMA OneHolder ==
  ASSUME WInv
  PROVE  HolderIs
<1>1. ASSUME NEW t \in Threads, NEW u \in Threads, Holds(t), Holds(u) PROVE t = u
  <2>1. \A v \in Threads : Holds(v) => 
          \/ HasMutex(v) /\ pc[v] \notin {"unlockRelease", "find", "store"}
          \/ \E o \in Threads :
                /\ HasMutex(o) /\ pc[o] \in {"unlockRelease", "find", "store"}
                /\ nextThread[o] = v
    BY DEF Holds, StillOwner, ChosenBy, Granted, HasMutex, OwnerSteps, WaitSteps
  <2> QED BY <1>1, <2>1 DEF WInv, OneToken
<1> QED BY <1>1 DEF HolderIs, Holder

\* A waiter has the level of its place.
LEMMA LevelOfPlace ==
  ASSUME WInv
  PROVE  LevelIs
<1>1. ASSUME NEW l \in Levels, NEW i \in 1 .. Len(queues[l]), NEW t \in Threads, queues[l][i] = t
      PROVE  WaitLevel[t] = l
  <2> DEFINE P(m) == \E j \in 1 .. Len(queues[m]) : queues[m][j] = t
  <2>1. \A m \in Levels : P(m) => m = l
    BY <1>1 DEF WInv, OnePlace
  <2>2. P(l)
    BY <1>1
  <2>3. (CHOOSE m \in Levels : P(m)) = l
    <3> HIDE DEF P
    <3> QED BY <2>1, <2>2
  <2>4. Queued(t)
    BY <1>1 DEF Queued
  <2> QED BY <2>3, <2>4 DEF WaitLevel
<1>2. WaitLevel = [u \in {u \in Threads : Queued(u)} |-> WaitLevel[u]]
  <2> DEFINE f(u) == CHOOSE l \in Levels : \E i \in 1 .. Len(queues[l]) : queues[l][i] = u
             S == {u \in Threads : Queued(u)}
  <2>1. WaitLevel = [u \in S |-> f(u)]
    BY DEF WaitLevel
  <2>2. WaitLevel = [u \in S |-> WaitLevel[u]]
    <3> HIDE DEF f, S
    <3> QED BY <2>1
  <2> QED BY <2>2
<1> QED BY <1>1, <1>2 DEF LevelIs

\* Steps that leave the queues and the holder of the lock alone.
LEMMA StutterStep ==
  ASSUME HolderIs, HolderIs', UNCHANGED queues, \A u \in Threads : Holds(u)' <=> Holds(u)
  PROVE  UNCHANGED Abstract!vars
<1>1. Holder' = Holder
  BY DEF HolderIs
<1>2. WaitLevel' = WaitLevel /\ Line' = Line
  BY DEF WaitLevel, Line, Before, Queued
<1> QED BY <1>1, <1>2 DEF Abstract!vars

\* The fast path finds no holder: the flag is down, so there is no token.
LEMMA TakeStep ==
  ASSUME WInv, HolderIs, HolderIs', NEW t \in Threads, LockDirectly(t)
  PROVE  Abstract!Take(t)
<1>1. ~ locked /\ pc[t] = "cas" /\ pc' = [pc EXCEPT ![t] = "critical"]
      /\ UNCHANGED <<queues, nextThread>>
  BY DEF LockDirectly, Goto, locals
<1>2. \A u \in Threads : ~ HasMutex(u)
  BY <1>1 DEF WInv, OneToken
<1>3. \A u \in Threads : ~ Holds(u)
  BY <1>2 DEF Holds, StillOwner, ChosenBy, HasMutex, OwnerSteps
<1>4. Holds(t)'
  BY <1>1 DEF Holds, StillOwner, WInv, GInv, TypeOK
<1>5. Holder = NoThread /\ Holder' = t
  BY <1>3, <1>4 DEF HolderIs
<1>6. ~ Queued(t)
  BY <1>1 DEF WInv, StandingAwait, Awaiting, InLine, WaitSteps
<1>7. WaitLevel' = WaitLevel /\ Line' = Line /\ t \notin DOMAIN WaitLevel
  BY <1>1, <1>6 DEF WaitLevel, Line, Before, Queued
<1> QED BY <1>5, <1>7 DEF Abstract!Take, Abstract!Waiters

\* Empty queues: the lock is released when PickNone finds them.
LEMMA NoneStep ==
  ASSUME WInv, HolderIs, HolderIs', NEW t \in Threads, PickNone(t)
  PROVE  Abstract!Release
<1>1. /\ pc[t] = "scan" /\ pc'[t] \in {"unlockRelease", "corrupt"} /\ nextThread'[t] = NoThread
      /\ \A u \in Threads \ {t} : pc'[u] = pc[u] /\ nextThread'[u] = nextThread[u]
      /\ UNCHANGED queues /\ Occupied = {}
  BY DEF PickNone, Goto, WInv, GInv, TypeOK
<1>2. \A u \in Threads \ {t} : ~ HasMutex(u)
  BY <1>1 DEF WInv, OneToken, HasMutex, OwnerSteps
<1>3. Holds(t)
  BY <1>1 DEF Holds, StillOwner
<1>9. \A v \in Threads \ {t} : pc[v] \in WaitSteps => AwaitedFlag(v)' = AwaitedFlag(v)
  BY <1>1, OthersFlags DEF Worker, Unlock, WInv
<1>4. \A u \in Threads : ~ Holds(u)'
  BY <1>1, <1>2, <1>9, NoThreadAssumption
  DEF Holds, StillOwner, ChosenBy, HasMutex, OwnerSteps, Granted, WaitSteps
<1>5. Holder = t /\ Holder' = NoThread /\ t # NoThread
  BY <1>3, <1>4, NoThreadAssumption DEF HolderIs
<1>6. WaitLevel' = WaitLevel /\ Line' = Line
  BY <1>1 DEF WaitLevel, Line, Before, Queued
<1>7. \A u \in Threads : ~ Queued(u)
  BY <1>1 DEF Occupied, Queued
<1>8. DOMAIN WaitLevel = {}
  BY <1>7 DEF WaitLevel
<1> QED BY <1>5, <1>6, <1>8 DEF Abstract!Release, Abstract!Waiters

\* A step of t that leaves what t has of the token.
LEMMA HoldsSame ==
  ASSUME NEW t \in Threads,
         \A u \in Threads \ {t} :
            /\ pc'[u] = pc[u] /\ nextThread'[u] = nextThread[u]
            /\ pc[u] \in WaitSteps => AwaitedFlag(u)' = AwaitedFlag(u),
         StillOwner(t)' \/ Granted(t)' <=> StillOwner(t) \/ Granted(t),
         Chooses(t)' <=> Chooses(t),
         Chooses(t) => nextThread'[t] = nextThread[t]
  PROVE  \A u \in Threads : Holds(u)' <=> Holds(u)
<1>1. \A u \in Threads : Holds(u) <=> \/ StillOwner(u) \/ Granted(u)
                                     \/ \E v \in Threads : Chooses(v) /\ nextThread[v] = u
  <2>1. ASSUME NEW u \in Threads
        PROVE  ChosenBy(u) # {} <=> \E v \in Threads : Chooses(v) /\ nextThread[v] = u
    BY NoThreadAssumption DEF ChosenBy, Chooses
  <2> QED BY <2>1 DEF Holds
<1>2. \A u \in Threads : Holds(u)' <=> \/ StillOwner(u)' \/ Granted(u)'
                                     \/ \E v \in Threads : Chooses(v)' /\ nextThread'[v] = u
  <2>1. ASSUME NEW u \in Threads
        PROVE  ChosenBy(u)' # {} <=> \E v \in Threads : Chooses(v)' /\ nextThread'[v] = u
    BY NoThreadAssumption DEF ChosenBy, Chooses
  <2> QED BY <2>1 DEF Holds
<1>3. ASSUME NEW u \in Threads, u # t
      PROVE  /\ StillOwner(u)' <=> StillOwner(u)
             /\ Granted(u)' <=> Granted(u)
             /\ Chooses(u)' <=> Chooses(u)
  <2>1. /\ pc'[u] = pc[u] /\ nextThread'[u] = nextThread[u]
        /\ pc[u] \in WaitSteps => AwaitedFlag(u)' = AwaitedFlag(u)
    BY <1>3
  <2> QED BY <2>1 DEF StillOwner, Granted, Chooses
<1>4. ASSUME NEW u \in Threads PROVE Holds(u)' <=> Holds(u)
  <2>1. (\E v \in Threads : Chooses(v)' /\ nextThread'[v] = u)
          <=> \E v \in Threads : Chooses(v) /\ nextThread[v] = u
    <3>1. \A v \in Threads : Chooses(v)' <=> Chooses(v)
      BY <1>3, Zenon
    <3>2. \A v \in Threads : Chooses(v) => nextThread'[v] = nextThread[v]
      OBVIOUS
    <3> QED BY <3>1, <3>2
  <2>2. StillOwner(u)' \/ Granted(u)' <=> StillOwner(u) \/ Granted(u)
    BY <1>3, Zenon
  <2> QED BY <1>1, <1>2, <2>1, <2>2
<1> QED BY <1>4

\* ... and the queues too.
LEMMA HoldsKept ==
  ASSUME HolderIs, HolderIs', NEW t \in Threads, UNCHANGED queues,
         \A u \in Threads \ {t} :
            /\ pc'[u] = pc[u] /\ nextThread'[u] = nextThread[u]
            /\ pc[u] \in WaitSteps => AwaitedFlag(u)' = AwaitedFlag(u),
         StillOwner(t)' \/ Granted(t)' <=> StillOwner(t) \/ Granted(t),
         Chooses(t)' <=> Chooses(t),
         Chooses(t) => nextThread'[t] = nextThread[t]
  PROVE  UNCHANGED Abstract!vars
BY HoldsSame, StutterStep, Zenon

\* The steps of lock() and unlock() that the abstract lock does not see.
LEMMA QuietHolds ==
  ASSUME WInv, HolderIs, HolderIs', Plain, NEW t \in Threads,
         \/ ReadLevel(t) \/ LockBusy(t) \/ AcquireGuard(t) \/ BeginFlagRehash(t) \/ SetPark(t)
         \/ ReleaseGuard(t) \/ ParkLookup(t) \/ Wait(t) \/ StopTimer(t) \/ BeginLevelRehash(t)
         \/ SetLevel(t) \/ UnlockRelease(t) \/ Free(t) \/ UnparkFind(t)
  PROVE  UNCHANGED Abstract!vars
<1> USE DEF Goto, locals, StillOwner, Chooses, Granted, WaitSteps
<1>0. pc \in [Threads -> Steps] /\ nextThread \in [Threads -> Threads \cup {NoThread}]
  BY DEF WInv, GInv, TypeOK
<1>1. pc[t] # "store" =>
      \A v \in Threads \ {t} : pc[v] \in WaitSteps => AwaitedFlag(v)' = AwaitedFlag(v)
  BY OthersFlags DEF WInv, Worker, Lock, Unlock
<1>2. CASE ReadLevel(t)
  BY <1>0, <1>1, <1>2, HoldsKept DEF ReadLevel
<1>3. CASE LockBusy(t) \/ AcquireGuard(t) \/ BeginFlagRehash(t)
  BY <1>0, <1>1, <1>3, HoldsKept DEF LockBusy, AcquireGuard, BeginFlagRehash
<1>4. CASE SetPark(t)
  BY <1>0, <1>1, <1>4, HoldsKept, OwnSetPark DEF WInv, SetPark
<1>5. CASE ReleaseGuard(t)
  BY <1>0, <1>1, <1>5, HoldsKept, OwnWait DEF WInv, ReleaseGuard
<1>6. CASE ParkLookup(t)
  <2>1. AwaitedFlag(t)' = AwaitedFlag(t)
    BY <1>6, OwnLookup DEF WInv, FlagRehashByOther, Plain
  <2> QED BY <1>0, <1>1, <1>6, <2>1, HoldsKept DEF ParkLookup
<1>7. CASE Wait(t)
  <2>1. /\ UNCHANGED <<queues, nextThread>> /\ pc[t] = "wait" /\ pc'[t] \in {"critical", "asleep"}
        /\ \A u \in Threads \ {t} : pc'[u] = pc[u]
    BY <1>0, <1>7 DEF Wait
  <2> QED BY <1>0, <1>1, <1>7, <2>1, HoldsKept, OwnWait DEF WInv
<1>8. CASE StopTimer(t) \/ BeginLevelRehash(t) \/ SetLevel(t)
  BY <1>0, <1>1, <1>8, HoldsKept DEF StopTimer, BeginLevelRehash, SetLevel
<1>9. CASE UnlockRelease(t)
  BY <1>0, <1>1, <1>9, HoldsKept DEF UnlockRelease
<1>10. CASE UnparkFind(t)
  BY <1>0, <1>1, <1>10, HoldsKept DEF UnparkFind
<1>11. CASE Free(t)
  BY <1>0, <1>1, <1>11, HoldsKept DEF Free
<1> QED BY <1>2, <1>3, <1>4, <1>5, <1>6, <1>7, <1>8, <1>9, <1>10, <1>11

LEMMA NotifyHolds ==
  ASSUME WInv, HolderIs, HolderIs', NEW t \in Threads, UnparkNotify(t)
  PROVE  UNCHANGED Abstract!vars
<1>1. /\ pc[t] = "notify" /\ pc'[t] = "out" 
      /\ \A v \in Threads \ {t} : pc'[v] = pc[v] \/ (pc[v] = "asleep" /\ pc'[v] = "wait")
      /\ \A v \in Threads \ {t} : nextThread'[v] = nextThread[v]
      /\ UNCHANGED queues
  BY DEF UnparkNotify, WInv, GInv, TypeOK
<1>5. \A v \in Threads \ {t} : pc[v] \in WaitSteps => AwaitedFlag(v)' = AwaitedFlag(v)
  BY <1>1, OthersFlags DEF Worker, Unlock, WInv
<1>2. \A u \in Threads : StillOwner(u)' = StillOwner(u) /\ Granted(u)' = Granted(u)
  BY <1>1, <1>5 DEF StillOwner, Granted, WaitSteps
<1>3. \A u \in Threads : ChosenBy(u)' = ChosenBy(u)
  BY <1>1 DEF ChosenBy
<1>4. \A u \in Threads : Holds(u)' <=> Holds(u)
  BY <1>2, <1>3 DEF Holds
<1> QED BY <1>1, <1>4, StutterStep

\* The hand-off passes from the choice to the grant.
LEMMA StoreHolds ==
  ASSUME WInv, HolderIs, HolderIs', Plain, NEW t \in Threads, UnparkStore(t)
  PROVE  UNCHANGED Abstract!vars
<1>1. PICK n \in Threads : n = nextThread[t]
  BY DEF UnparkStore, Goto, WInv, GInv, ChosenThere, TypeOK
<1>2. /\ pc[t] = "store" /\ pc' = [pc EXCEPT ![t] = "notify"]
      /\ UNCHANGED <<queues, nextThread>>
  BY <1>1 DEF UnparkStore, Goto, locals
<1>3. pc[n] \in Parked
  BY <1>1, <1>2, NoThreadAssumption DEF WInv, ChosenParked, Chooses, Parked
<1>8. AwaitedFlag(n)' = "up" /\ pc'[n] = pc[n]
  <2>1. entry[t] = 1 /\ found[n] = 1 /\ (pc[n] \in {"wait", "asleep"} => entry[n] = 1)
    BY <1>1, <1>2, <1>3, PlainEntries DEF WInv, Parked, WaitSteps
  <2>2. AwaitedFlag(n)' = "up"
    BY <1>1, <1>3, <2>1, OthersStore DEF WInv, Parked
  <2> QED BY <1>2, <1>3, <2>2 DEF WInv, GInv, TypeOK, Parked
<1>4. t \in ChosenBy(n) /\ Granted(n)'
  BY <1>1, <1>2, <1>3, <1>8 DEF ChosenBy, Granted, WaitSteps, Parked
<1>5. Holds(n) /\ Holds(n)'
  BY <1>4 DEF Holds
<1>6. Holder = n /\ Holder' = n
  BY <1>5 DEF HolderIs
<1>7. WaitLevel' = WaitLevel /\ Line' = Line
  BY <1>2 DEF WaitLevel, Line, Before, Queued
<1> QED BY <1>6, <1>7 DEF Abstract!vars

\* x stands at place i of level l.
At(l, i, x) == l \in Levels /\ i \in 1 .. Len(queues[l]) /\ queues[l][i] = x

\* Places of queues that keep distinct waiters apart, and what Queued, WaitLevel and
\* Before are in terms of them.
Placed ==
  /\ \A l, m, i, j, t : At(l, i, t) /\ At(m, j, t) => l = m /\ i = j
  /\ \A l, i, t : At(l, i, t) => t \in Threads /\ i \in Nat /\ l \in Nat
  /\ \A t : Queued(t) <=> \E l, i : At(l, i, t)
  /\ \A l, i, t : At(l, i, t) => WaitLevel[t] = l
  /\ \A t, u : Before(t, u) <=>
        \E l, m, i, j : At(l, i, t) /\ At(m, j, u) /\ (l < m \/ (l = m /\ i < j))

LEMMA AtPlaces ==
  ASSUME WInv
  PROVE  Placed
<1>1. \A l, m, i, j, t : At(l, i, t) /\ At(m, j, t) => l = m /\ i = j
  BY DEF WInv, OnePlace, At
<1>2. ASSUME NEW l, NEW i, NEW t, At(l, i, t) PROVE t \in Threads /\ i \in Nat /\ l \in Nat
  <2>1. l \in Levels /\ queues[l] \in Seq(Threads) /\ i \in 1 .. Len(queues[l]) /\ t = queues[l][i]
    BY <1>2 DEF At, WInv, GInv, TypeOK
  <2> QED BY <2>1, NumLevelsAssumption DEF Levels
<1>3. \A t : Queued(t) <=> \E l, i : At(l, i, t)
  BY DEF Queued, At
<1>4. \A l, i, t : At(l, i, t) => WaitLevel[t] = l
  BY <1>2, LevelOfPlace DEF LevelIs, At
<1>5. \A t, u : Before(t, u) <=>
        \E l, m, i, j : At(l, i, t) /\ At(m, j, u) /\ (l < m \/ (l = m /\ i < j))
  BY DEF Before, At
<1> QED BY <1>1, <1>2, <1>3, <1>4, <1>5 DEF Placed

\* Enqueue: the new place is behind those of its level and of the better ones.
LEMMA JoinStep ==
  ASSUME WInv, Placed, Placed', LevelIs, LevelIs', HolderIs, HolderIs',
         NEW t \in Threads, Enqueue(t)
  PROVE  \E l \in Levels : Abstract!Join(t, l)
<1>1. PICK c \in Levels : c = currentLevel[t]
  BY DEF WInv, GInv, TypeOK
<1>2. /\ pc[t] = "enqueue" /\ pc' = [pc EXCEPT ![t] = "setPark"]
      /\ queues' = [queues EXCEPT ![c] = Append(queues[c], t)]
      /\ UNCHANGED <<temp, nextThread>>
  BY <1>1 DEF Enqueue, Goto, locals
<1>3. ~ Queued(t) /\ ~ Holds(t)
  <2>1. ~ InLine(t) /\ ~ StillOwner(t) /\ ~ Granted(t)
    BY <1>2 DEF InLine, WaitSteps, StillOwner, Granted
  <2> QED BY <2>1, ChosenAre, StandingAre DEF Holds
<1>4. PICK L \in Nat : L = Len(queues[c]) 
  BY DEF WInv, GInv, TypeOK
<1>5. \A l, i, x : At(l, i, x)' <=> At(l, i, x) \/ (l = c /\ i = L + 1 /\ x = t)
  <2>1. /\ Len(queues'[c]) = L + 1 /\ queues'[c][L + 1] = t
        /\ \A i \in 1 .. L : queues'[c][i] = queues[c][i]
        /\ \A l \in Levels \ {c} : queues'[l] = queues[l]
    BY <1>2, <1>4 DEF WInv, GInv, TypeOK
  <2> QED BY <1>4, <2>1 DEF At
<1>6. Holder' = Holder /\ Holder # t
  <2>4. \A v \in Threads \ {t} : pc[v] \in WaitSteps => AwaitedFlag(v)' = AwaitedFlag(v)
    BY <1>2, OthersFlags DEF Worker, Lock, WInv
  <2>1. \A u \in Threads : Holds(u)' <=> Holds(u)
    BY <1>2, <2>4, HoldsSame DEF StillOwner, Granted, WaitSteps, Chooses, WInv, GInv, TypeOK
  <2>2. Holder' = Holder
    BY <2>1 DEF HolderIs
  <2>3. Holder # t
    BY <1>3, NoThreadAssumption DEF HolderIs
  <2> QED BY <2>2, <2>3
<1>7. \A x : Queued(x)' <=> Queued(x) \/ x = t
  BY <1>5 DEF Placed
<1>8. /\ \A x, y : Before(x, y)' <=>
            \E l, m, i, j : At(l, i, x)' /\ At(m, j, y)' /\ (l < m \/ (l = m /\ i < j))
      /\ \A x, y : Before(x, y) <=>
            \E l, m, i, j : At(l, i, x) /\ At(m, j, y) /\ (l < m \/ (l = m /\ i < j))
  BY DEF Placed
<1>9. DOMAIN WaitLevel = {u \in Threads : Queued(u)}
  BY DEF WaitLevel
<1>10. WaitLevel' = [u \in DOMAIN WaitLevel \cup {t} |-> IF u = t THEN c ELSE WaitLevel[u]]
  <2>1. \A u \in DOMAIN WaitLevel : WaitLevel'[u] = WaitLevel[u]
    BY <1>5, <1>9 DEF Placed
  <2>2. WaitLevel'[t] = c
    BY <1>5 DEF Placed
  <2>3. WaitLevel' = [u \in DOMAIN WaitLevel \cup {t} |-> WaitLevel'[u]]
    BY <1>7, <1>9 DEF LevelIs
  <2> QED BY <1>3, <1>9, <2>1, <2>2, <2>3
<1>11. ASSUME NEW x \in Threads, NEW y \in Threads
      PROVE  Before(x, y)' <=> \/ Before(x, y)
                               \/ y = t /\ Queued(x) /\ WaitLevel[x] =< c
                               \/ x = t /\ Queued(y) /\ WaitLevel[y] > c
  <2>1. ASSUME Before(x, y) PROVE Before(x, y)'
    BY <1>5, <2>1 DEF Placed
  <2>2. /\ \A l, i : At(l, i, t)' <=> l = c /\ i = L + 1
        /\ \A u, l, i : u # t => (At(l, i, u)' <=> At(l, i, u))
        /\ \A l, i, u : At(l, i, u) => u # t
    BY <1>3, <1>5 DEF Placed
  <2>3. \A u, i : At(c, i, u) => i < L + 1
    BY <1>4 DEF At
  <2>4. c \in Nat
    BY NumLevelsAssumption DEF Levels
  <2>5. ASSUME y = t, Queued(x), WaitLevel[x] =< c PROVE Before(x, y)'
    <3>1. PICK l, i : At(l, i, x)
      BY <2>5 DEF Placed
    <3>2. At(l, i, x)' /\ At(c, L + 1, y)' /\ l =< c /\ l \in Nat
      BY <1>5, <2>5, <3>1 DEF Placed
    <3>3. l = c => i < L + 1
      BY <2>3, <3>1
    <3>4. l < c \/ (l = c /\ i < L + 1)
      BY <2>4, <3>2, <3>3
    <3> QED BY <3>2, <3>4, <1>8
  <2>6. ASSUME x = t, Queued(y), WaitLevel[y] > c PROVE Before(x, y)'
    <3>1. PICK l, i : At(l, i, y)
      BY <2>6 DEF Placed
    <3>2. At(l, i, y)' /\ At(c, L + 1, x)' /\ c < l
      BY <1>5, <2>4, <2>6, <3>1 DEF Placed
    <3> QED BY <3>2 DEF Placed
  <2>7. ASSUME Before(x, y)', x # t, y # t PROVE Before(x, y)
    <3>1. PICK l, m, i, j : At(l, i, x)' /\ At(m, j, y)' /\ (l < m \/ (l = m /\ i < j))
      BY <2>7, <1>8
    <3>2. At(l, i, x) /\ At(m, j, y)
      BY <2>2, <2>7, <3>1
    <3> QED BY <3>1, <3>2, <1>8
  <2>8. ASSUME Before(x, y)', y = t PROVE Queued(x) /\ WaitLevel[x] =< c
    <3>1. PICK l, m, i, j : At(l, i, x)' /\ At(m, j, t)' /\ (l < m \/ (l = m /\ i < j))
      BY <2>8, <1>8
    <3>2. m = c /\ j = L + 1 /\ At(l, i, x)
      BY <1>4, <1>5, <2>2, <3>1 DEF Placed
    <3> QED BY <2>4, <3>1, <3>2 DEF Placed
  <2>9. ASSUME Before(x, y)', x = t PROVE Queued(y) /\ WaitLevel[y] > c
    <3>1. PICK l, m, i, j : At(l, i, t)' /\ At(m, j, y)' /\ (l < m \/ (l = m /\ i < j))
      BY <2>9, <1>8
    <3>2. l = c /\ i = L + 1
      BY <2>2, <3>1
    <3>3. At(m, j, y)
      BY <1>4, <1>5, <2>4, <3>1, <3>2
    <3>4. m # c
      BY <1>4, <2>3, <3>1, <3>2, <3>3 DEF Placed
    <3> QED BY <2>4, <3>1, <3>2, <3>3, <3>4 DEF Placed
  <2> QED BY <2>1, <2>5, <2>6, <2>7, <2>8, <2>9
<1>12. Line' = Line \cup {<<u, t>> : u \in {v \in DOMAIN WaitLevel : WaitLevel[v] =< c}}
                    \cup {<<t, u>> : u \in {v \in DOMAIN WaitLevel : WaitLevel[v] > c}}
  BY <1>9, <1>11 DEF Line
<1> QED BY <1>3, <1>6, <1>9, <1>10, <1>12 DEF Abstract!Join, Abstract!Waiters

\* PickNext: the head of the first occupied queue is ahead of everybody.
LEMMA HandStep ==
  ASSUME WInv, Placed, Placed', LevelIs, LevelIs', HolderIs, HolderIs',
         NEW t \in Threads, PickNext(t)
  PROVE  \E n \in Abstract!Waiters : Abstract!HandOff(n)
<1>1. PICK c \in Levels :
      /\ FirstOccupied(c) /\ queues[c] # <<>>
      /\ pc[t] = "scan" /\ pc' = [pc EXCEPT ![t] = "unlockRelease"]
      /\ nextThread' = [nextThread EXCEPT ![t] = Head(queues[c])]
      /\ queues' = [queues EXCEPT ![c] = Tail(queues[c])]
      /\ UNCHANGED temp
  BY DEF PickNext, FirstOccupied, Occupied, Goto
<1>2. queues[c] \in Seq(Threads) /\ queues'[c] = Tail(queues[c]) /\ Head(queues[c]) = queues[c][1]
      /\ \A l \in Levels \ {c} : queues'[l] = queues[l]
  BY <1>1 DEF WInv, GInv, TypeOK
<1>3. /\ Len(queues[c]) \in Nat /\ Len(queues[c]) > 0
      /\ Len(Tail(queues[c])) = Len(queues[c]) - 1
      /\ \A j \in 1 .. Len(Tail(queues[c])) : Tail(queues[c])[j] = queues[c][j + 1]
  BY <1>1, <1>2, TailFacts, Zenon
<1>4. PICK n \in Threads : n = queues[c][1] /\ At(c, 1, n) /\ nextThread'[t] = n
  <2>1. queues[c][1] \in Threads /\ At(c, 1, queues[c][1])
    BY <1>2, <1>3 DEF At
  <2>2. nextThread'[t] = queues[c][1]
    BY <1>1, <1>2 DEF WInv, GInv, TypeOK
  <2> QED BY <2>1, <2>2
<1>5. \A l, i, x : At(l, i, x)' <=>
                      IF l = c THEN i \in Nat \ {0} /\ At(c, i + 1, x) ELSE At(l, i, x)
  <2> SUFFICES ASSUME NEW l, NEW i, NEW x
               PROVE  At(l, i, x)' <=>
                         IF l = c THEN i \in Nat \ {0} /\ At(c, i + 1, x) ELSE At(l, i, x)
    OBVIOUS
  <2>1. CASE l = c
    <3>1. Len(queues'[c]) = Len(queues[c]) - 1
      BY <1>2, <1>3
    <3>2. \A j \in 1 .. Len(queues'[c]) : queues'[c][j] = queues[c][j + 1]
      BY <1>2, <1>3
    <3>3. ASSUME At(c, i, x)' PROVE i \in Nat \ {0} /\ At(c, i + 1, x)
      BY <1>3, <3>1, <3>2, <3>3 DEF At
    <3>4. ASSUME i \in Nat \ {0}, At(c, i + 1, x) PROVE At(c, i, x)'
      <4>1. i \in 1 .. Len(queues'[c]) /\ queues[c][i + 1] = x
        BY <1>3, <3>1, <3>4 DEF At
      <4> QED BY <3>2, <4>1 DEF At
    <3> QED BY <2>1, <3>3, <3>4
  <2>2. CASE l # c
    BY <1>2, <2>2 DEF At
  <2> QED BY <2>1, <2>2
<1>6. Holder = t /\ Holder' = n /\ t # NoThread
  <2>1. Holds(t)
    BY <1>1 DEF Holds, StillOwner
  <2>2. t \in ChosenBy(n)'
    BY <1>1, <1>4 DEF ChosenBy, WInv, GInv, TypeOK
  <2>3. Holds(n)'
    BY <2>2 DEF Holds
  <2> QED BY <2>1, <2>3, NoThreadAssumption DEF HolderIs
<1>7. /\ \A x, y : Before(x, y)' <=>
            \E l, m, i, j : At(l, i, x)' /\ At(m, j, y)' /\ (l < m \/ (l = m /\ i < j))
      /\ \A x, y : Before(x, y) <=>
            \E l, m, i, j : At(l, i, x) /\ At(m, j, y) /\ (l < m \/ (l = m /\ i < j))
      /\ \A x : Queued(x) <=> \E l, i : At(l, i, x)
      /\ \A x : Queued(x)' <=> \E l, i : At(l, i, x)'
  BY DEF Placed
\* The successor stands nowhere any more, everybody else as far from the others.
<1>8. \A l, i, x : At(l, i, x)' => x # n
  BY <1>4, <1>5 DEF Placed
<1>9. \A l, i, x : At(l, i, x) /\ x # n =>
         IF l = c THEN i - 1 \in Nat /\ At(c, i - 1, x)' ELSE At(l, i, x)'
  <2> SUFFICES ASSUME NEW l, NEW i, NEW x, At(l, i, x), x # n
               PROVE  IF l = c THEN i - 1 \in Nat /\ At(c, i - 1, x)' ELSE At(l, i, x)'
    OBVIOUS
  <2>1. CASE l = c
    <3>1. i \in Nat /\ i # 1 /\ i # 0
      BY <1>4, <2>1 DEF At
    <3>2. i - 1 \in Nat \ {0} /\ (i - 1) + 1 = i
      BY <3>1
    <3> QED BY <1>5, <2>1, <3>2
  <2>2. CASE l # c
    BY <1>5, <2>2
  <2> QED BY <2>1, <2>2
<1>10. DOMAIN WaitLevel = {u \in Threads : Queued(u)}
  BY DEF WaitLevel
<1>11. ASSUME NEW x \in Threads
       PROVE  Queued(x)' <=> Queued(x) /\ x # n
  <2>1. ASSUME Queued(x), x # n PROVE Queued(x)'
    BY <1>7, <1>9, <2>1
  <2>2. ASSUME Queued(x)' PROVE Queued(x) /\ x # n
    BY <1>5, <1>7, <1>8, <2>2
  <2> QED BY <2>1, <2>2
<1>12. WaitLevel' = [u \in DOMAIN WaitLevel \ {n} |-> WaitLevel[u]]
  <2>1. \A u \in DOMAIN WaitLevel \ {n} : WaitLevel'[u] = WaitLevel[u]
    <3> SUFFICES ASSUME NEW u \in Threads, Queued(u), u # n PROVE WaitLevel'[u] = WaitLevel[u]
      BY <1>10
    <3>1. PICK l, i : At(l, i, u)
      BY <1>7
    <3>2. \E j : At(l, j, u)'
      BY <1>9, <3>1
    <3> QED BY <3>1, <3>2 DEF Placed
  <2>2. WaitLevel' = [u \in DOMAIN WaitLevel \ {n} |-> WaitLevel'[u]]
    BY <1>10, <1>11 DEF LevelIs
  <2> QED BY <2>1, <2>2
<1>13. ASSUME NEW x \in Threads, NEW y \in Threads
       PROVE  Before(x, y)' <=> Before(x, y) /\ x # n /\ y # n
  <2>1. ASSUME Before(x, y)' PROVE Before(x, y) /\ x # n /\ y # n
    <3>1. PICK l, m, i, j : At(l, i, x)' /\ At(m, j, y)' /\ (l < m \/ (l = m /\ i < j))
      BY <2>1, <1>7
    <3> DEFINE a == IF l = c THEN i + 1 ELSE i
               b == IF m = c THEN j + 1 ELSE j
    <3>2. At(l, a, x) /\ At(m, b, y) /\ i \in Nat /\ j \in Nat
      BY <1>5, <3>1 DEF Placed
    <3>3. l < m \/ (l = m /\ a < b)
      BY <3>1, <3>2
    <3> HIDE DEF a, b
    <3> QED BY <1>7, <1>8, <3>1, <3>2, <3>3
  <2>2. ASSUME Before(x, y), x # n, y # n PROVE Before(x, y)'
    <3>1. PICK l, m, i, j : At(l, i, x) /\ At(m, j, y) /\ (l < m \/ (l = m /\ i < j))
      BY <2>2, <1>7
    <3> DEFINE a == IF l = c THEN i - 1 ELSE i
               b == IF m = c THEN j - 1 ELSE j
    <3>2. At(l, a, x)' /\ At(m, b, y)' /\ i \in Nat /\ j \in Nat
      BY <1>9, <2>2, <3>1 DEF Placed
    <3>3. l < m \/ (l = m /\ a < b)
      BY <3>1, <3>2
    <3> HIDE DEF a, b
    <3> QED BY <1>7, <3>2, <3>3
  <2> QED BY <2>1, <2>2
<1>14. Line' = {p \in Line : p[1] # n /\ p[2] # n}
  BY <1>13 DEF Line
<1>15. ASSUME NEW u \in DOMAIN WaitLevel \ {n} PROVE <<n, u>> \in Line
  <2>1. PICK m, j : At(m, j, u)
    BY <1>7, <1>10
  <2>2. m \in Levels /\ queues[m] # <<>> /\ c =< m
    BY <1>1, <2>1 DEF At, FirstOccupied, Occupied
  <2>3. m = c => 1 < j
    BY <1>4, <2>1 DEF At, Placed
  <2>4. c < m \/ (c = m /\ 1 < j)
    BY <2>2, <2>3, NumLevelsAssumption DEF Levels
  <2>5. Before(n, u)
    BY <1>4, <1>7, <2>1, <2>4
  <2> QED BY <1>10, <2>5 DEF Line
<1>16. n \in DOMAIN WaitLevel
  BY <1>4, <1>7, <1>10
<1> QED BY <1>6, <1>12, <1>14, <1>15, <1>16 DEF Abstract!HandOff, Abstract!Waiters

\* Without print() and rehashes, the mutex implements the lock with one priority line,
\* for every number of threads, levels and rounds: every step is a step of PriorityLock
\* or leaves its state alone.
THEOREM LockRefines ==
  ASSUME Printers = {}, RehashAt = {}
  PROVE  Spec => ImplementsPriorityLock
<1>1. Init => Plain /\ Abstract!Init
  <2> SUFFICES ASSUME Init PROVE Plain /\ Abstract!Init
    OBVIOUS
  <2>1. Plain
    BY DEF Init, Plain
  <2>2. \A t \in Threads : ~ Queued(t) /\ ~ Holds(t)
    BY NoThreadAssumption DEF Init, Queued, Holds, StillOwner, ChosenBy, Granted, WaitSteps
  <2>3. Holder = NoThread /\ Line = {}
    BY <2>2 DEF Holder, Line, Before, Init
  <2>4. WaitLevel = [t \in {} |-> 0]
    BY <2>2 DEF WaitLevel
  <2> QED BY <2>1, <2>3, <2>4 DEF Abstract!Init
<1>2. WInv /\ Plain /\ [Next]_vars => Plain'
  BY PlainStep DEF WInv
<1>3. WInv => HolderIs /\ LevelIs /\ Placed
  BY OneHolder, LevelOfPlace, AtPlaces
<1>4. WInv' => HolderIs' /\ LevelIs' /\ Placed'
  BY <1>3, PTL
<1>5. WInv /\ WInv' /\ Plain /\ [Next]_vars => [Abstract!Next]_(Abstract!vars)
  <2> SUFFICES ASSUME WInv, WInv', Plain, [Next]_vars PROVE [Abstract!Next]_(Abstract!vars)
    OBVIOUS
  <2>1. HolderIs /\ LevelIs /\ Placed /\ HolderIs' /\ LevelIs' /\ Placed'
    BY <1>3, <1>4
  <2>2. CASE UNCHANGED vars
    BY <2>2
    DEF vars, garage, locals, Abstract!vars, Holder, Holds, StillOwner, ChosenBy, Granted,
        AwaitedFlag, WaitLevel,
        Line, Before, Queued
  <2>3. ASSUME NEW t \in Threads, Lock(t) PROVE [Abstract!Next]_(Abstract!vars)
    BY <2>1, <2>3, TakeStep, JoinStep, QuietHolds DEF Lock, Abstract!Next
  <2>4. ASSUME NEW t \in Threads, PrintQueues(t) PROVE FALSE
    BY <2>4 DEF PrintQueues, BeginPrint, Drain, Install, Goto, Plain
  <2>5. ASSUME NEW t \in Threads, Unlock(t) PROVE [Abstract!Next]_(Abstract!vars)
    <3>1. ~ UnparkMiss(t)
      <4> SUFFICES ASSUME UnparkMiss(t) PROVE FALSE
        OBVIOUS
      <4>1. PICK n \in Threads : nextThread[t] = n /\ flag[n] = <<>> /\ Chooses(t)
        BY DEF UnparkMiss, Goto, WInv, GInv, TypeOK, ChosenThere, Chooses, FlagRehashByOther, Plain
      <4> QED BY <4>1 DEF WInv, ChosenParked, GInv, EntriesThere, Parked, WaitSteps
    <3> QED BY <2>1, <2>5, <3>1, HandStep, NoneStep, QuietHolds, StoreHolds, NotifyHolds
            DEF Unlock, Abstract!Next
  <2> QED BY <2>2, <2>3, <2>4, <2>5 DEF Next, Worker
<1>6. WInv /\ [Next]_vars => WInv'
  BY WaitersStep DEF RehashesOnce
<1> QED BY <1>1, <1>2, <1>5, <1>6, InitWaiters, PTL
        DEF Spec, ImplementsPriorityLock, Abstract!Spec

=============================================================================
