------------------------- MODULE ProducerHashProofs -------------------------
(***************************************************************************)
(* ProducerHash for every number of threads, ids that collide or not, and  *)
(* every size of the first table.                                          *)
(***************************************************************************)
EXTENDS ProducerHash, FiniteSetTheorems, SequenceTheorems, TLAPS

Entry == [key : Keys, value : Nat]
SomeTable == UNION {[0 .. n - 1 -> Entry] : n \in Nat \ {0}}
Locals == [main : Nat, table : Nat, index : Nat, count : Nat, producer : Nat]
Sought == {"search", "copy"}
\* The steps of the insertion, before the thread is in a table.
Unlisted == {"count", "lock", "resize", "unlock", "room", "recycle", "giveUp", "subscribe"}
Inserting == {"count", "lock", "resize", "unlock", "room", "recycle", "subscribe", "insert"}
Working == Sought \cup Unlisted \cup {"insert", "enqueue", "uncount"}
Steps == {"absent", "idle"} \cup Working \cup ExitSteps
Uncounted == {"lock", "resize", "unlock", "room", "recycle", "subscribe", "insert", "uncount"}

TablesTyped ==
    /\ tables \in Seq(SomeTable) /\ tables # <<>>
    /\ \A k \in 1 .. Len(tables) : \A s \in DOMAIN tables[k] :
          tables[k][s].value \in 0 .. Len(inactive)
ListTyped ==
    /\ inactive \in Seq(BOOLEAN)
    /\ listening \in [Threads -> SUBSET (1 .. Len(inactive))]
    /\ destructor \in [at : {"none", "producer", "unsubscribe", "done"}, producer : 0 .. Len(inactive)]
    /\ destructor.at = "unsubscribe" => destructor.producer # 0
LocalTyped(t) ==
    /\ local[t].producer \in 0 .. Len(inactive)
    /\ pc[t] \in Sought \cup Inserting => local[t].main \in 1 .. Len(tables)
    /\ pc[t] \in {"search", "remove"} => local[t].table \in 1 .. Len(tables)
    /\ pc[t] \in Sought => local[t].table <= local[t].main
    /\ pc[t] \in {"subscribe", "remove", "inactive"} => local[t].producer # 0
ThreadsTyped ==
    /\ pc \in [Threads -> Steps]
    /\ local \in [Threads -> Locals]
    /\ \A t \in Threads : LocalTyped(t)
CountTyped ==
    /\ implicitProducerHashCount \in Nat
    /\ Cardinality({t \in Threads : pc[t] \in Uncounted}) <= implicitProducerHashCount
Typed == TablesTyped /\ ListTyped /\ ThreadsTyped /\ CountTyped

\* The tables, as a thread finds itself in them.
In(t, k) == \E s \in DOMAIN tables[k] : tables[k][s].key = t
Passed(t, k, i) == \A j \in HashOf[t] .. i - 1 : Key(k, j) # invalid_thread_id
Unseen(t, k, i) == \A j \in HashOf[t] .. i - 1 : Key(k, j) # t
Reachable(t) ==
    \A k \in 1 .. Len(tables) : \A s \in DOMAIN tables[k] :
        tables[k][s].key = t =>
            \E i \in Nat : HashOf[t] <= i /\ Slot(k, i) = s /\ Passed(t, k, i + 1)
Once(t) ==
    \A k \in 1 .. Len(tables) : \A r, s \in DOMAIN tables[k] :
        tables[k][r].key = t /\ tables[k][s].key = t => r = s
NotAbove(t, m) == \A k \in 1 .. Len(tables) : k > m => ~In(t, k)
Searching(t) ==
    /\ pc[t] \in {"search", "copy", "insert", "remove"} => HashOf[t] <= local[t].index
    /\ pc[t] \in {"search", "remove"} =>
          Passed(t, local[t].table, local[t].index) /\ Unseen(t, local[t].table, local[t].index)
    /\ pc[t] \in {"search", "copy", "remove"} => NotAbove(t, local[t].table)
    /\ pc[t] \in {"copy", "insert"} => Passed(t, local[t].main, local[t].index)
    /\ pc[t] = "copy" => local[t].table < local[t].main
    /\ pc[t] \in Unlisted \cup {"insert", "inactive"} => NotAbove(t, 0)
Places == \A t \in Threads : Reachable(t) /\ Once(t) /\ Searching(t)

\* The streams, and whose they are.
Own ==
    \A t \in Threads : \A k \in 1 .. Len(tables) : \A s \in DOMAIN tables[k] :
        destructor.at = "none" /\ tables[k][s].key = t => tables[k][s].value \in listening[t]
Listening ==
    \A t \in Threads :
        /\ \A p, q \in listening[t] : p = q
        /\ pc[t] \in Unlisted \cup {"next", "absent"} => listening[t] = {}
        /\ pc[t] \in {"insert", "copy", "enqueue", "uncount", "remove", "inactive"} =>
              local[t].producer \in listening[t]
        /\ pc[t] \in {"idle", "search", "copy", "enqueue", "uncount"} /\ destructor.at = "none"
              /\ listening[t] # {} => \E k \in 1 .. Len(tables) : In(t, k)
Apart ==
    /\ \A t, u \in Threads : \A p \in Streams(t) : p \in Streams(u) => t = u
    /\ \A p \in DOMAIN inactive \ Freed : inactive[p] <=> \A t \in Threads : p \notin Streams(t)
Ending ==
    /\ destructor.at # "none" => \A t \in Threads : pc[t] \in {"idle", "absent"} \cup ExitSteps
    /\ destructor.at = "done" => destructor.producer = 0
    /\ \A t \in Threads : listening[t] \cap Freed = {}
Owners == Own /\ Listening /\ Apart /\ Ending

HashInv == Typed /\ Places /\ Owners
-------------------------------------------------------------------------------
(* The tables: capacities, slots and what the steps do to them *)

LEMMA TableIs ==
    ASSUME TablesTyped, NEW k \in 1 .. Len(tables)
    PROVE  \E n \in Nat \ {0} :
              tables[k] \in [0 .. n - 1 -> Entry] /\ DOMAIN tables[k] = 0 .. n - 1 /\ Capacity(k) = n
<1>1. tables[k] \in SomeTable
  BY ElementOfSeq DEF TablesTyped
<1>2. PICK n \in Nat \ {0} : tables[k] \in [0 .. n - 1 -> Entry]
  BY <1>1 DEF SomeTable
<1>3. DOMAIN tables[k] = 0 .. n - 1
  BY <1>2
<1>4. Cardinality(0 .. n - 1) = n
  BY FS_Interval
<1> QED BY <1>2, <1>3, <1>4 DEF Capacity

LEMMA SlotIn ==
    ASSUME TablesTyped, NEW k \in 1 .. Len(tables), NEW i \in Nat
    PROVE  /\ Slot(k, i) \in DOMAIN tables[k]
           /\ Key(k, i) \in Keys /\ Value(k, i) \in Nat
<1>1. PICK n \in Nat \ {0} :
          tables[k] \in [0 .. n - 1 -> Entry] /\ DOMAIN tables[k] = 0 .. n - 1 /\ Capacity(k) = n
  BY TableIs
<1>2. i % n \in 0 .. n - 1
  OBVIOUS
<1>3. Slot(k, i) \in 0 .. n - 1
  BY <1>1, <1>2 DEF Slot
<1>4. tables[k][Slot(k, i)] \in Entry
  BY <1>1, <1>3
<1> QED BY <1>1, <1>3, <1>4 DEF Key, Value, Entry

LEMMA HashIn == \A t \in Threads : HashOf[t] \in Nat
BY IdsAssumption

LEMMA FirstTable ==
    ASSUME NEW n \in Nat \ {0}
    PROVE  /\ Table(n) \in SomeTable /\ DOMAIN Table(n) = 0 .. n - 1
           /\ \A s \in 0 .. n - 1 : Table(n)[s].key = invalid_thread_id /\ Table(n)[s].value = 0
<1>1. Table(n) \in [0 .. n - 1 -> Entry]
  BY DEF Table, Entry, Keys
<1> QED BY <1>1 DEF SomeTable, Table

\* A write of one slot.
Written(k, i, key, v) ==
    /\ Len(tables') = Len(tables)
    /\ \A m \in 1 .. Len(tables) :
          /\ DOMAIN tables'[m] = DOMAIN tables[m]
          /\ \A s \in DOMAIN tables[m] :
                tables'[m][s] = IF m = k /\ s = Slot(k, i) THEN [key |-> key, value |-> v]
                                ELSE tables[m][s]

LEMMA WriteIs ==
    ASSUME TablesTyped, NEW k \in 1 .. Len(tables), NEW i \in Nat, NEW key \in Keys, NEW v \in Nat,
           Write(k, i, key, v)
    PROVE  Written(k, i, key, v) /\ tables' \in Seq(SomeTable) /\ tables' # <<>>
<1>1. PICK n \in Nat \ {0} :
          tables[k] \in [0 .. n - 1 -> Entry] /\ DOMAIN tables[k] = 0 .. n - 1 /\ Capacity(k) = n
  BY TableIs
<1>2. PICK s \in 0 .. n - 1 : s = Slot(k, i)
  BY <1>1, SlotIn
<1>3. PICK e \in Entry : e = [key |-> key, value |-> v]
  BY DEF Entry
<1>4. PICK f \in [0 .. n - 1 -> Entry] : f = [tables[k] EXCEPT ![s] = e]
  BY <1>1
<1>5. tables' = [tables EXCEPT ![k] = f]
  BY <1>2, <1>3, <1>4 DEF Write
<1>6. f \in SomeTable /\ DOMAIN f = 0 .. n - 1
  BY <1>4 DEF SomeTable
<1>7. /\ tables' \in Seq(SomeTable) /\ Len(tables') = Len(tables)
      /\ \A m \in 1 .. Len(tables) : tables'[m] = IF m = k THEN f ELSE tables[m]
  BY <1>5, <1>6, ExceptSeq DEF TablesTyped
<1>8. \A r \in 0 .. n - 1 : f[r] = IF r = s THEN e ELSE tables[k][r]
  BY <1>1, <1>4
<1>9. Written(k, i, key, v)
  BY <1>1, <1>2, <1>3, <1>6, <1>7, <1>8 DEF Written
<1>10. tables' # <<>>
  BY <1>7 DEF TablesTyped
<1> QED BY <1>7, <1>9, <1>10

LEMMA AppendIs ==
    ASSUME TablesTyped, NEW n \in Nat \ {0}, tables' = Append(tables, Table(n))
    PROVE  /\ tables' \in Seq(SomeTable) /\ tables' # <<>> /\ Len(tables') = Len(tables) + 1
           /\ \A k \in 1 .. Len(tables) : tables'[k] = tables[k]
           /\ tables'[Len(tables) + 1] = Table(n)
<1>1. Table(n) \in SomeTable
  BY FirstTable
<1> QED BY <1>1, AppendProperties DEF TablesTyped

Writes(t) == Copy(t) \/ Insert(t) \/ Remove(t)

LEMMA TablesStep ==
    ASSUME [Next]_vars
    PROVE  UNCHANGED tables \/ \E t \in Threads : Resize(t) \/ Writes(t)
BY DEF Next, vars, hash, list, Keeps, Start, Enqueue, Exit, Enqueueing, Exiting,
       Destroying, Found, NotHere, Further, CopyFurther, Count, LockResize, NoResize,
       ResizeFails, GiveUp, Unlock, Room, AwaitTable, Recycle, RecycleNext, AddProducer,
       AddProducerFails, Subscribe, InsertFurther, Uncount, Put, Callback, Exited,
       RemoveFurther, MarkInactive, NextListener, NextOfFreed, Destroy, DestroyInactive,
       FindsActive, Unsubscribe, DestroyTables, DestroyRest, Writes

LEMMA ListSteps ==
    ASSUME [Next]_vars
    PROVE  UNCHANGED inactive
              \/ \E t \in Threads : AddProducer(t) \/ Recycle(t) \/ MarkInactive(t)
BY DEF Next, vars, hash, list, Keeps, Start, Enqueue, Exit, Enqueueing, Exiting,
       Destroying, Found, NotHere, Further, Copy, CopyFurther, Count, LockResize,
       NoResize, Resize, ResizeFails, GiveUp, Unlock, Room, AwaitTable, RecycleNext,
       AddProducerFails, Subscribe, Insert, InsertFurther, Uncount, Put, Callback,
       Exited, Remove, RemoveFurther, NextListener, NextOfFreed, Destroy,
       DestroyInactive, FindsActive, Unsubscribe, DestroyTables, DestroyRest

LEMMA ListGrows ==
    ASSUME Typed, [Next]_vars
    PROVE  inactive' \in Seq(BOOLEAN) /\ Len(inactive') \in Nat /\ Len(inactive) <= Len(inactive')
<1>1. CASE UNCHANGED inactive
  BY <1>1 DEF Typed, ListTyped
<1>2. ASSUME NEW t \in Threads, AddProducer(t)
      PROVE  Len(inactive') = Len(inactive) + 1 /\ inactive' \in Seq(BOOLEAN)
  BY <1>2, AppendProperties DEF AddProducer, Typed, ListTyped
<1>3. ASSUME NEW p \in 1 .. Len(inactive), NEW b \in BOOLEAN, inactive' = [inactive EXCEPT ![p] = b]
      PROVE  Len(inactive') = Len(inactive) /\ inactive' \in Seq(BOOLEAN)
  BY <1>3, ExceptSeq DEF Typed, ListTyped
<1>4. ASSUME NEW t \in Threads, Recycle(t) \/ MarkInactive(t)
      PROVE  Len(inactive') = Len(inactive) /\ inactive' \in Seq(BOOLEAN)
  <2>1. local[t].producer \in 1 .. Len(inactive)
    BY <1>4 DEF Recycle, MarkInactive, Goes, Loc, Typed, ThreadsTyped, LocalTyped, ListTyped
  <2> QED BY <1>3, <1>4, <2>1 DEF Recycle, MarkInactive, Loc
<1>5. Len(inactive) \in Nat
  BY DEF Typed, ListTyped
<1> QED BY <1>1, <1>2, <1>4, <1>5, ListSteps
LEMMA WritesAre ==
    ASSUME Typed, NEW t \in Threads, Writes(t)
    PROVE  \/ UNCHANGED tables
           \/ \E k \in 1 .. Len(tables) : \E i \in Nat : \E key \in {t, invalid_thread_id2} :
                 \E v \in 0 .. Len(inactive) :
                    /\ Key(k, i) \in {t, invalid_thread_id, invalid_thread_id2}
                    /\ Write(k, i, key, v)
<1>1. local[t] \in Locals /\ local[t].producer \in 0 .. Len(inactive)
  BY DEF Typed, ThreadsTyped, LocalTyped
<1>2. PICK i \in Nat : i = local[t].index
  BY <1>1 DEF Locals
<1>3. CASE Copy(t) \/ Insert(t)
  <2>1. PICK k \in 1 .. Len(tables) : k = local[t].main
    BY <1>3 DEF Copy, Insert, Goes, Typed, ThreadsTyped, LocalTyped, Sought, Inserting
  <2>2. Key(k, i) \in {invalid_thread_id, invalid_thread_id2} /\ Write(k, i, t, local[t].producer)
    BY <1>2, <1>3, <2>1 DEF Copy, Insert, Loc
  <2> QED BY <1>1, <2>2
<1>4. CASE Remove(t)
  <2>1. PICK k \in 1 .. Len(tables) : k = local[t].table
    BY <1>4 DEF Remove, Goes, Typed, ThreadsTyped, LocalTyped
  <2>2. Key(k, i) \in {t, invalid_thread_id}
        /\ (Write(k, i, invalid_thread_id2, Value(k, i)) \/ UNCHANGED tables)
    BY <1>2, <1>4, <2>1 DEF Remove, Loc, KeyRemoved
  <2>3. Value(k, i) \in 0 .. Len(inactive)
    BY SlotIn DEF Value, Typed, TablesTyped
  <2> QED BY <2>2, <2>3
<1> QED BY <1>3, <1>4 DEF Writes

LEMMA ResizeIs ==
    ASSUME Typed, NEW t \in Threads, Resize(t)
    PROVE  \/ UNCHANGED tables /\ local' = [local EXCEPT ![t] = [local[t] EXCEPT !.main = Len(tables)]]
           \/ /\ \E n \in Nat \ {0} : tables' = Append(tables, Table(n))
              /\ local' = [local EXCEPT ![t] = [local[t] EXCEPT !.main = Len(tables) + 1]]
<1>1. local[t].count \in Nat
  BY DEF Typed, ThreadsTyped, Locals
<1>2. \A n \in NewCapacities(t) : n \in Nat \ {0}
  BY <1>1 DEF NewCapacities, Loc
<1> QED BY <1>2 DEF Resize, Sets, Loc

LEMMA TablesTypedStep ==
    ASSUME Typed, [Next]_vars
    PROVE  TablesTyped' /\ Len(tables) <= Len(tables') /\ Len(tables') \in Nat
<1>1. /\ Len(inactive) \in Nat /\ Len(inactive') \in Nat /\ Len(inactive) <= Len(inactive')
      /\ Len(tables) \in Nat
  BY ListGrows DEF Typed, ListTyped, TablesTyped
<1>2. CASE UNCHANGED tables
  BY <1>1, <1>2 DEF Typed, TablesTyped
<1>3. ASSUME NEW n \in Nat \ {0}, tables' = Append(tables, Table(n))
      PROVE  TablesTyped' /\ Len(tables') = Len(tables) + 1
  <2>1. /\ tables' \in Seq(SomeTable) /\ tables' # <<>> /\ Len(tables') = Len(tables) + 1
        /\ \A k \in 1 .. Len(tables) : tables'[k] = tables[k]
        /\ tables'[Len(tables) + 1] = Table(n)
    BY <1>3, AppendIs DEF Typed
  <2>2. ASSUME NEW k \in 1 .. Len(tables'), NEW s \in DOMAIN tables'[k]
        PROVE  tables'[k][s].value \in 0 .. Len(inactive')
    <3>1. CASE k \in 1 .. Len(tables)
      BY <1>1, <2>1, <2>2, <3>1 DEF Typed, TablesTyped
    <3>2. CASE k = Len(tables) + 1
      <4>1. s \in 0 .. n - 1 /\ Table(n)[s].value = 0
        BY <2>1, <2>2, <3>2, FirstTable
      <4> QED BY <1>1, <2>1, <3>2, <4>1
    <3> QED BY <1>1, <2>1, <3>1, <3>2
  <2> QED BY <2>1, <2>2 DEF TablesTyped
<1>4. ASSUME NEW k \in 1 .. Len(tables), NEW i \in Nat, NEW key \in Keys,
             NEW v \in 0 .. Len(inactive), Write(k, i, key, v)
      PROVE  TablesTyped' /\ Len(tables') = Len(tables)
  <2>1. Written(k, i, key, v) /\ tables' \in Seq(SomeTable) /\ tables' # <<>>
    BY <1>4, WriteIs DEF Typed
  <2>2. ASSUME NEW m \in 1 .. Len(tables'), NEW s \in DOMAIN tables'[m]
        PROVE  tables'[m][s].value \in 0 .. Len(inactive')
    <3>1. /\ m \in 1 .. Len(tables) /\ s \in DOMAIN tables[m]
          /\ \/ tables'[m][s] = [key |-> key, value |-> v]
             \/ tables'[m][s] = tables[m][s]
      BY <2>1, <2>2 DEF Written
    <3>2. tables[m][s].value \in 0 .. Len(inactive)
      BY <3>1 DEF Typed, TablesTyped
    <3> QED BY <1>1, <3>1, <3>2
  <2> QED BY <2>1, <2>2 DEF TablesTyped, Written
<1>5. \A t \in Threads : \A key \in {t, invalid_thread_id2} : key \in Keys
  BY DEF Keys
<1>6. CASE \E t \in Threads : Writes(t)
  <2>1. CASE UNCHANGED tables
    BY <1>1, <1>2, <2>1
  <2>2. CASE ~UNCHANGED tables
    <3>1. PICK k \in 1 .. Len(tables) : \E i \in Nat : \E key \in Keys : \E v \in 0 .. Len(inactive) :
              Write(k, i, key, v)
      BY <1>5, <1>6, <2>2, WritesAre
    <3> QED BY <1>1, <1>4, <3>1
  <2> QED BY <2>1, <2>2
<1>7. CASE \E t \in Threads : Resize(t)
  BY <1>1, <1>2, <1>3, <1>7, ResizeIs
<1> QED BY <1>1, <1>2, <1>6, <1>7, TablesStep

\* What a step does for thread t when it is not one of those by which t adds itself to
\* a table: no slot gets its key, and none is emptied.  When it is not one by which t
\* removes itself either, the slots with its key stay as they are.
KeysFewer(t) ==
    /\ Len(tables) \in Nat /\ Len(tables') \in Nat /\ Len(tables) <= Len(tables')
    /\ \A k \in 1 .. Len(tables) :
          /\ DOMAIN tables'[k] = DOMAIN tables[k]
          /\ \A s \in DOMAIN tables[k] :
                /\ tables'[k][s].key = t => tables[k][s].key = t
                /\ tables[k][s].key # invalid_thread_id => tables'[k][s].key # invalid_thread_id
    /\ \A k \in 1 .. Len(tables') : k > Len(tables) =>
          \A s \in DOMAIN tables'[k] : tables'[k][s].key # t
KeysKept(t) ==
    /\ KeysFewer(t)
    /\ \A k \in 1 .. Len(tables) : \A s \in DOMAIN tables[k] :
          tables[k][s].key = t => tables'[k][s] = tables[k][s]

LEMMA OthersKeep ==
    ASSUME Typed, [Next]_vars, NEW t \in Threads, ~Writes(t)
    PROVE  KeysKept(t)
<1>1. Len(tables) \in Nat
  BY DEF Typed, TablesTyped
<1>2. CASE UNCHANGED tables
  BY <1>1, <1>2 DEF KeysKept, KeysFewer
<1>3. ASSUME NEW n \in Nat \ {0}, tables' = Append(tables, Table(n))
      PROVE  KeysKept(t)
  <2>1. /\ Len(tables') = Len(tables) + 1
        /\ \A k \in 1 .. Len(tables) : tables'[k] = tables[k]
        /\ tables'[Len(tables) + 1] = Table(n)
    BY <1>3, AppendIs DEF Typed
  <2>2. \A s \in DOMAIN Table(n) : Table(n)[s].key # t
    BY FirstTable, IdsAssumption
  <2>3. \A k \in 1 .. Len(tables') : k > Len(tables) => k = Len(tables) + 1
    BY <1>1, <2>1
  <2> QED BY <1>1, <2>1, <2>2, <2>3 DEF KeysKept, KeysFewer
<1>4. ASSUME NEW u \in Threads, Writes(u)
      PROVE  KeysKept(t)
  <2>1. CASE ~UNCHANGED tables
    <3>1. PICK k \in 1 .. Len(tables) : \E i \in Nat : \E key \in {u, invalid_thread_id2} :
              \E v \in 0 .. Len(inactive) :
                 /\ Key(k, i) \in {u, invalid_thread_id, invalid_thread_id2}
                 /\ Write(k, i, key, v)
      BY <1>4, <2>1, WritesAre
    <3>2. PICK i \in Nat, key \in {u, invalid_thread_id2}, v \in 0 .. Len(inactive) :
             /\ Key(k, i) \in {u, invalid_thread_id, invalid_thread_id2}
             /\ Write(k, i, key, v)
      BY <3>1
    <3>3. u # t /\ key # t /\ key # invalid_thread_id /\ Key(k, i) # t /\ key \in Keys /\ v \in Nat
      BY <1>4, <3>2, IdsAssumption DEF Keys
    <3>4. Written(k, i, key, v)
      BY <3>2, <3>3, WriteIs DEF Typed
    <3>5. ASSUME NEW m \in 1 .. Len(tables), NEW s \in DOMAIN tables[m]
          PROVE  /\ tables'[m][s].key = t => tables[m][s].key = t
                 /\ tables[m][s].key = t => tables'[m][s] = tables[m][s]
                 /\ tables[m][s].key # invalid_thread_id => tables'[m][s].key # invalid_thread_id
      <4>1. CASE m = k /\ s = Slot(k, i)
        <5>1. tables[m][s].key = Key(k, i) /\ tables'[m][s].key = key
          BY <3>4, <4>1 DEF Written, Key
        <5> QED BY <3>3, <5>1
      <4>2. CASE ~(m = k /\ s = Slot(k, i))
        <5>1. tables'[m][s] = tables[m][s]
          BY <3>4, <4>2 DEF Written
        <5> QED BY <5>1
      <4> QED BY <4>1, <4>2
    <3> QED BY <1>1, <3>4, <3>5 DEF KeysKept, KeysFewer, Written
  <2> QED BY <1>2, <2>1
<1> QED BY <1>2, <1>3, <1>4, TablesStep, ResizeIs
-------------------------------------------------------------------------------
(* The threads *)

Acts(t) == Start(t) \/ Enqueue(t) \/ Exit(t) \/ Enqueueing(t) \/ Exiting(t)

LEMMA GoesIs ==
    ASSUME Typed, NEW t \in Threads, NEW from, NEW to, Goes(t, from, to)
    PROVE  /\ pc[t] = from /\ pc'[t] = to
           /\ \A u \in Threads : u # t => pc'[u] = pc[u]
BY DEF Goes, Typed, ThreadsTyped

LEMMA SetsIs ==
    ASSUME Typed, NEW t \in Threads, NEW l, Sets(t, l)
    PROVE  /\ local'[t] = l
           /\ \A u \in Threads : u # t => local'[u] = local[u]
BY DEF Sets, Typed, ThreadsTyped

LEMMA OnlyActs ==
    ASSUME [Next]_vars
    PROVE  (UNCHANGED <<pc, local>> /\ \A t \in Threads : ~Acts(t)) \/ \E t \in Threads : Acts(t)
BY DEF Next, vars, Acts, Destroying, Destroy, DestroyInactive, FindsActive, Unsubscribe,
       DestroyTables, DestroyRest

LEMMA ActsAlone ==
    ASSUME Typed, NEW t \in Threads, Acts(t)
    PROVE  /\ pc' = [pc EXCEPT ![t] = pc'[t]] /\ local' = [local EXCEPT ![t] = local'[t]]
           /\ \A u \in Threads : u # t => pc'[u] = pc[u] /\ local'[u] = local[u]
<1>1. pc' = pc \/ \E x : pc' = [pc EXCEPT ![t] = x]
  BY DEF Acts, hash, list, Keeps, Start, Enqueue, Exit, Enqueueing, Exiting, Found,
         NotHere, Further, Copy, CopyFurther, Count, LockResize, NoResize, Resize,
         ResizeFails, GiveUp, Unlock, Room, AwaitTable, Recycle, RecycleNext,
         AddProducer, AddProducerFails, Subscribe, Insert, InsertFurther, Uncount, Put,
         Callback, Exited, Remove, RemoveFurther, MarkInactive, NextListener,
         NextOfFreed, Goes
<1>2. local' = local \/ \E x : local' = [local EXCEPT ![t] = x]
  BY DEF Acts, hash, list, Keeps, Start, Enqueue, Exit, Enqueueing, Exiting, Found,
         NotHere, Further, Copy, CopyFurther, Count, LockResize, NoResize, Resize,
         ResizeFails, GiveUp, Unlock, Room, AwaitTable, Recycle, RecycleNext,
         AddProducer, AddProducerFails, Subscribe, Insert, InsertFurther, Uncount, Put,
         Callback, Exited, Remove, RemoveFurther, MarkInactive, NextListener,
         NextOfFreed, Sets
<1>3. pc \in [Threads -> Steps] /\ local \in [Threads -> Locals]
  BY DEF Typed, ThreadsTyped
<1>4. pc' = [pc EXCEPT ![t] = pc'[t]]
  BY <1>1, <1>3
<1>5. local' = [local EXCEPT ![t] = local'[t]]
  BY <1>2, <1>3
<1> QED BY <1>3, <1>4, <1>5

\* What a thread sets of its locals.
Is(r, m, k, i, c, p) ==
    r \in Locals /\ r.main = m /\ r.table = k /\ r.index = i /\ r.count = c /\ r.producer = p
LEMMA LocalsSet ==
    ASSUME NEW l \in Locals, NEW r, NEW n \in Nat, NEW i \in Nat
    PROVE  /\ r = [l EXCEPT !.main = n] => Is(r, n, l.table, l.index, l.count, l.producer)
           /\ r = [l EXCEPT !.count = n] => Is(r, l.main, l.table, l.index, n, l.producer)
           /\ r = [l EXCEPT !.producer = n] => Is(r, l.main, l.table, l.index, l.count, n)
           /\ r = [l EXCEPT !.index = i] => Is(r, l.main, l.table, i, l.count, l.producer)
           /\ r = [l EXCEPT !.index = i, !.producer = n] => Is(r, l.main, l.table, i, l.count, n)
           /\ r = [l EXCEPT !.table = n, !.index = i] => Is(r, l.main, n, i, l.count, l.producer)
           /\ r = [l EXCEPT !.table = n, !.producer = i] => Is(r, l.main, n, l.index, l.count, i)
<1>1. r = [l EXCEPT !.main = n] => Is(r, n, l.table, l.index, l.count, l.producer)
  BY DEF Is, Locals
<1>2. r = [l EXCEPT !.count = n] => Is(r, l.main, l.table, l.index, n, l.producer)
  BY DEF Is, Locals
<1>3. r = [l EXCEPT !.producer = n] => Is(r, l.main, l.table, l.index, l.count, n)
  BY DEF Is, Locals
<1>4. r = [l EXCEPT !.index = i] => Is(r, l.main, l.table, i, l.count, l.producer)
  BY DEF Is, Locals
<1>5. r = [l EXCEPT !.index = i, !.producer = n] => Is(r, l.main, l.table, i, l.count, n)
  BY DEF Is, Locals
<1>6. r = [l EXCEPT !.table = n, !.index = i] => Is(r, l.main, n, i, l.count, l.producer)
  BY DEF Is, Locals
<1>7. r = [l EXCEPT !.table = n, !.producer = i] => Is(r, l.main, n, l.index, l.count, i)
  BY DEF Is, Locals
<1> QED BY <1>1, <1>2, <1>3, <1>4, <1>5, <1>6, <1>7

LEMMA NoLocalsSet ==
    ASSUME NEW r, NEW n \in Nat, NEW i \in Nat, NEW p \in Nat
    PROVE  /\ Is(NoLocals, 0, 0, 0, 0, 0)
           /\ r = [NoLocals EXCEPT !.main = n, !.table = n, !.index = i] => Is(r, n, n, i, 0, 0)
           /\ r = [NoLocals EXCEPT !.table = n, !.index = i, !.producer = p] => Is(r, 0, n, i, 0, p)
<1>1. Is(NoLocals, 0, 0, 0, 0, 0)
  BY DEF Is, NoLocals, Locals
<1>2. r = [NoLocals EXCEPT !.main = n, !.table = n, !.index = i] => Is(r, n, n, i, 0, 0)
  BY <1>1 DEF Is, Locals
<1>3. r = [NoLocals EXCEPT !.table = n, !.index = i, !.producer = p] => Is(r, 0, n, i, 0, p)
  BY <1>1 DEF Is, Locals
<1> QED BY <1>1, <1>2, <1>3

LEMMA HereIs ==
    ASSUME Typed, NEW t \in Threads
    PROVE  /\ pc[t] \in Steps /\ local[t] \in Locals /\ LocalTyped(t) /\ HashOf[t] \in Nat
           /\ Len(tables) \in Nat \ {0} /\ Len(inactive) \in Nat
           /\ Is(local[t], local[t].main, local[t].table, local[t].index, local[t].count,
                 local[t].producer)
           /\ local[t].main \in Nat /\ local[t].table \in Nat /\ local[t].index \in Nat
           /\ local[t].count \in Nat /\ local[t].producer \in Nat
<1>1. Len(tables) \in Nat \ {0}
  BY EmptySeq DEF Typed, TablesTyped
<1> QED BY <1>1, HashIn DEF Typed, ThreadsTyped, ListTyped, Is, Locals

\* What the steps of a thread set of its locals.
LEMMA EnqueueIs ==
    ASSUME Typed, NEW t \in Threads, Enqueue(t)
    PROVE  /\ pc[t] = "idle" /\ pc'[t] = "search" /\ destructor.at = "none"
           /\ Is(local'[t], Len(tables), Len(tables), HashOf[t], 0, 0)
<1>1. PICK n \in Nat, i \in Nat, p \in Nat : n = Len(tables) /\ i = HashOf[t] /\ p = 0
  BY HereIs
<1>2. local'[t] = [NoLocals EXCEPT !.main = n, !.table = n, !.index = i]
  BY <1>1, SetsIs DEF Enqueue
<1>3. Is(local'[t], n, n, i, 0, 0)
  BY <1>2, NoLocalsSet
<1> QED BY <1>1, <1>3, GoesIs DEF Enqueue

LEMMA FoundIs ==
    ASSUME Typed, NEW t \in Threads, Found(t)
    PROVE  \E k \in 1 .. Len(tables) : \E i \in Nat : \E p \in 0 .. Len(inactive) :
              /\ k = local[t].table /\ i = local[t].index /\ p = Value(k, i) /\ Key(k, i) = t
              /\ pc[t] = "search" /\ pc'[t] = IF k = local[t].main THEN "enqueue" ELSE "copy"
              /\ Is(local'[t], local[t].main, k, HashOf[t], local[t].count, p)
<1>1. pc[t] = "search"
  BY GoesIs DEF Found
<1>2. PICK k \in 1 .. Len(tables), i \in Nat : k = local[t].table /\ i = local[t].index
  BY <1>1, HereIs DEF LocalTyped
<1>3. Value(k, i) \in 0 .. Len(inactive)
  BY SlotIn DEF Value, Typed, TablesTyped
<1>4. PICK p \in 0 .. Len(inactive) : p = Value(k, i)
  BY <1>3
<1>5. p \in Nat
  BY <1>4, HereIs
<1>6. local'[t] = [local[t] EXCEPT !.index = HashOf[t], !.producer = p]
  BY <1>2, <1>4, SetsIs DEF Found, Loc
<1>7. Is(local'[t], local[t].main, local[t].table, HashOf[t], local[t].count, p)
  BY <1>5, <1>6, HereIs, LocalsSet
<1> QED BY <1>1, <1>2, <1>4, <1>7, GoesIs DEF Found, Loc

LEMMA NotHereIs ==
    ASSUME Typed, NEW t \in Threads, NotHere(t)
    PROVE  \E k \in 1 .. Len(tables) : \E i \in Nat : \E n \in Nat :
              /\ k = local[t].table /\ i = local[t].index /\ n = k - 1
              /\ Key(k, i) = invalid_thread_id
              /\ pc[t] = "search" /\ pc'[t] = IF k = 1 THEN "count" ELSE "search"
              /\ Is(local'[t], local[t].main, n, HashOf[t], local[t].count, local[t].producer)
<1>1. pc[t] = "search"
  BY GoesIs DEF NotHere
<1>2. PICK k \in 1 .. Len(tables), i \in Nat : k = local[t].table /\ i = local[t].index
  BY <1>1, HereIs DEF LocalTyped
<1>3. PICK n \in Nat : n = k - 1
  BY <1>2, HereIs
<1>4. local'[t] = [local[t] EXCEPT !.table = n, !.index = HashOf[t]]
  BY <1>2, <1>3, SetsIs DEF NotHere, Loc
<1>5. Is(local'[t], local[t].main, n, HashOf[t], local[t].count, local[t].producer)
  BY <1>4, HereIs, LocalsSet
<1> QED BY <1>1, <1>2, <1>3, <1>5, GoesIs DEF NotHere, Loc

FurtherSteps(t) == Further(t) \/ CopyFurther(t) \/ InsertFurther(t) \/ RemoveFurther(t)
LEMMA FurtherIs ==
    ASSUME Typed, NEW t \in Threads, FurtherSteps(t)
    PROVE  \E i \in Nat :
              /\ i = local[t].index /\ pc'[t] = pc[t]
              /\ Is(local'[t], local[t].main, local[t].table, i + 1, local[t].count,
                    local[t].producer)
<1>1. PICK i \in Nat, j \in Nat : i = local[t].index /\ j = i + 1
  BY HereIs
<1>2. local'[t] = [local[t] EXCEPT !.index = j]
  BY <1>1, SetsIs DEF FurtherSteps, Further, CopyFurther, InsertFurther, RemoveFurther, Loc
<1>3. Is(local'[t], local[t].main, local[t].table, j, local[t].count, local[t].producer)
  BY <1>2, HereIs, LocalsSet
<1>4. pc' = pc
  BY DEF FurtherSteps, Further, CopyFurther, InsertFurther, RemoveFurther
<1> QED BY <1>1, <1>3, <1>4

LEMMA CountIs ==
    ASSUME Typed, NEW t \in Threads, Count(t)
    PROVE  \E c \in Nat :
              /\ c = implicitProducerHashCount + 1 /\ implicitProducerHashCount' = c
              /\ pc[t] = "count" /\ pc'[t] = "lock"
              /\ Is(local'[t], local[t].main, local[t].table, local[t].index, c, local[t].producer)
<1>1. PICK c \in Nat : c = implicitProducerHashCount + 1
  BY DEF Typed, CountTyped
<1>2. local'[t] = [local[t] EXCEPT !.count = c]
  BY <1>1, SetsIs DEF Count, Loc
<1>3. Is(local'[t], local[t].main, local[t].table, local[t].index, c, local[t].producer)
  BY <1>2, HereIs, LocalsSet
<1> QED BY <1>1, <1>3, GoesIs DEF Count

NewMain(n) ==
    \/ n = Len(tables)
    \/ n = Len(tables) + 1 /\ \E m \in Nat \ {0} : tables' = Append(tables, Table(m))
LEMMA MainIs ==
    ASSUME Typed, NEW t \in Threads, Resize(t) \/ AwaitTable(t)
    PROVE  \E n \in Nat :
              /\ NewMain(n)
              /\ pc[t] \in {"resize", "room"} /\ pc'[t] \in {"unlock", "lock"}
              /\ Is(local'[t], n, local[t].table, local[t].index, local[t].count, local[t].producer)
<1>1. PICK n \in Nat, m \in Nat : n = Len(tables) /\ m = Len(tables) + 1
  BY HereIs
<1>2. CASE AwaitTable(t)
  <2>1. local'[t] = [local[t] EXCEPT !.main = n]
    BY <1>1, <1>2, SetsIs DEF AwaitTable, Loc
  <2>2. Is(local'[t], n, local[t].table, local[t].index, local[t].count, local[t].producer)
    BY <2>1, HereIs, LocalsSet
  <2> QED BY <1>1, <1>2, <2>2, GoesIs DEF AwaitTable, NewMain
<1>3. CASE Resize(t)
  <2>1. CASE local' = [local EXCEPT ![t] = [local[t] EXCEPT !.main = Len(tables)]]
    <3>1. local'[t] = [local[t] EXCEPT !.main = n]
      BY <1>1, <2>1 DEF Typed, ThreadsTyped
    <3>2. Is(local'[t], n, local[t].table, local[t].index, local[t].count, local[t].producer)
      BY <3>1, HereIs, LocalsSet
    <3> QED BY <1>1, <1>3, <3>2, GoesIs DEF Resize, NewMain
  <2>2. CASE /\ \E c \in Nat \ {0} : tables' = Append(tables, Table(c))
             /\ local' = [local EXCEPT ![t] = [local[t] EXCEPT !.main = Len(tables) + 1]]
    <3>1. local'[t] = [local[t] EXCEPT !.main = m]
      BY <1>1, <2>2 DEF Typed, ThreadsTyped
    <3>2. Is(local'[t], m, local[t].table, local[t].index, local[t].count, local[t].producer)
      BY <3>1, HereIs, LocalsSet
    <3>3. NewMain(m)
      BY <1>1, <2>2 DEF NewMain
    <3> QED BY <1>3, <3>2, <3>3, GoesIs DEF Resize
  <2> QED BY <1>3, <2>1, <2>2, ResizeIs
<1> QED BY <1>2, <1>3

ForgetSteps(t) == GiveUp(t) \/ AddProducerFails(t) \/ Put(t) \/ Exited(t) \/ NextListener(t)
LEMMA ForgetIs ==
    ASSUME Typed, NEW t \in Threads, ForgetSteps(t)
    PROVE  local'[t] = NoLocals /\ Is(local'[t], 0, 0, 0, 0, 0)
<1>1. local'[t] = NoLocals
  BY SetsIs DEF ForgetSteps, GiveUp, AddProducerFails, Put, Exited, NextListener
<1>2. PICK p \in Nat : p = 0
  OBVIOUS
<1> QED BY <1>1, <1>2, NoLocalsSet

Added == inactive' = Append(inactive, FALSE)
ProducerSteps(t) == Room(t) \/ RecycleNext(t) \/ AddProducer(t)
LEMMA ProducerIs ==
    ASSUME Typed, NEW t \in Threads, ProducerSteps(t)
    PROVE  \E k \in Nat : \E p \in Nat :
              /\ Is(local'[t], local[t].main, k, local[t].index, local[t].count, p)
              /\ \/ /\ pc[t] \in {"room", "recycle"} /\ pc'[t] = "recycle" /\ p <= Len(inactive)
                 \/ /\ pc[t] = "recycle" /\ pc'[t] = "subscribe"
                    /\ p = Len(inactive) + 1 /\ Added
<1>1. Len(inactive) \in Nat /\ local[t].producer \in 0 .. Len(inactive)
  BY HereIs DEF LocalTyped
<1>2. CASE Room(t)
  <2>1. PICK p \in Nat, k \in Nat : p = Len(inactive) /\ k = 0 /\ p <= Len(inactive)
    BY <1>1
  <2>2. local'[t] = [local[t] EXCEPT !.table = k, !.producer = p]
    BY <1>2, <2>1, SetsIs DEF Room, Loc
  <2>3. Is(local'[t], local[t].main, k, local[t].index, local[t].count, p)
    BY <2>1, <2>2, HereIs, LocalsSet
  <2> QED BY <1>2, <2>1, <2>3, GoesIs DEF Room
<1>3. CASE RecycleNext(t)
  <2>1. PICK p \in Nat : p = local[t].producer - 1 /\ p <= Len(inactive)
    BY <1>1, <1>3 DEF RecycleNext, Loc
  <2>2. local'[t] = [local[t] EXCEPT !.producer = p]
    BY <1>3, <2>1, SetsIs DEF RecycleNext, Loc
  <2>3. Is(local'[t], local[t].main, local[t].table, local[t].index, local[t].count, p)
    BY <2>1, <2>2, HereIs, LocalsSet
  <2>4. pc[t] = "recycle" /\ pc'[t] = "recycle" /\ local[t].table \in Nat
    BY <1>3, HereIs DEF RecycleNext
  <2> QED BY <2>1, <2>3, <2>4
<1>4. CASE AddProducer(t)
  <2>1. PICK p \in Nat : p = Len(inactive) + 1
    BY <1>1
  <2>2. local'[t] = [local[t] EXCEPT !.producer = p]
    BY <1>4, <2>1, SetsIs DEF AddProducer, Loc
  <2>3. Is(local'[t], local[t].main, local[t].table, local[t].index, local[t].count, p)
    BY <2>1, <2>2, HereIs, LocalsSet
  <2>4. pc[t] = "recycle" /\ pc'[t] = "subscribe" /\ local[t].table \in Nat
    BY <1>4, GoesIs, HereIs DEF AddProducer
  <2> QED BY <1>4, <2>1, <2>3, <2>4 DEF AddProducer, Added
<1> QED BY <1>2, <1>3, <1>4 DEF ProducerSteps

LEMMA SubscribeIs ==
    ASSUME Typed, NEW t \in Threads, Subscribe(t)
    PROVE  /\ pc[t] = "subscribe" /\ pc'[t] = "insert"
           /\ Is(local'[t], local[t].main, local[t].table, HashOf[t], local[t].count,
                 local[t].producer)
<1>1. local'[t] = [local[t] EXCEPT !.index = HashOf[t]]
  BY SetsIs DEF Subscribe, Loc
<1> QED BY <1>1, HereIs, LocalsSet, GoesIs DEF Subscribe

LEMMA CallbackIs ==
    ASSUME Typed, NEW t \in Threads, Callback(t)
    PROVE  \E p \in 1 .. Len(inactive) :
              /\ p \in listening[t] /\ pc[t] = "exit" /\ pc'[t] = "remove"
              /\ Is(local'[t], 0, Len(tables), HashOf[t], 0, p)
<1>1. PICK p \in listening[t] :
          Sets(t, [NoLocals EXCEPT !.table = Len(tables), !.index = HashOf[t], !.producer = p])
  BY DEF Callback
<1>2. p \in 1 .. Len(inactive) /\ p \in Nat
  BY <1>1, HereIs DEF Typed, ListTyped
<1>3. PICK n \in Nat, i \in Nat : n = Len(tables) /\ i = HashOf[t]
  BY HereIs
<1>4. local'[t] = [NoLocals EXCEPT !.table = n, !.index = i, !.producer = p]
  BY <1>1, <1>3, SetsIs
<1>5. Is(local'[t], 0, n, i, 0, p)
  BY <1>2, <1>4, NoLocalsSet
<1> QED BY <1>1, <1>2, <1>3, <1>5, GoesIs DEF Callback

LEMMA RemoveIs ==
    ASSUME Typed, NEW t \in Threads, Remove(t)
    PROVE  \E k \in 1 .. Len(tables) : \E i \in Nat : \E n \in Nat :
              /\ k = local[t].table /\ i = local[t].index /\ n = k - 1 /\ pc[t] = "remove"
              /\ \/ Key(k, i) = t /\ Write(k, i, invalid_thread_id2, Value(k, i))
                 \/ Key(k, i) = invalid_thread_id /\ UNCHANGED tables
              /\ \/ k = 1 /\ pc'[t] = "inactive" /\ local'[t] = local[t]
                 \/ /\ n \in 1 .. Len(tables) /\ pc'[t] = "remove"
                    /\ Is(local'[t], local[t].main, n, HashOf[t], local[t].count, local[t].producer)
<1>1. pc[t] = "remove"
  BY DEF Remove
<1>2. PICK k \in 1 .. Len(tables), i \in Nat : k = local[t].table /\ i = local[t].index
  BY <1>1, HereIs DEF LocalTyped
<1>3. PICK n \in Nat : n = k - 1 /\ (k # 1 => n \in 1 .. Len(tables))
  BY <1>2, HereIs
<1>4. \/ Key(k, i) = t /\ Write(k, i, invalid_thread_id2, Value(k, i))
      \/ Key(k, i) = invalid_thread_id /\ UNCHANGED tables
  BY <1>2, IdsAssumption DEF Remove, Loc, KeyRemoved
<1>5. CASE Oldest(t)
  BY <1>1, <1>2, <1>3, <1>4, <1>5, GoesIs DEF Remove, Oldest, Loc
<1>6. CASE ~Oldest(t)
  <2>1. local'[t] = [local[t] EXCEPT !.table = n, !.index = HashOf[t]] /\ pc' = pc /\ k # 1
    BY <1>2, <1>3, <1>6, SetsIs DEF Remove, Oldest, Loc
  <2>2. Is(local'[t], local[t].main, n, HashOf[t], local[t].count, local[t].producer)
    BY <2>1, HereIs, LocalsSet
  <2> QED BY <1>1, <1>2, <1>3, <1>4, <2>1, <2>2
<1> QED BY <1>5, <1>6

QuietSteps(t) ==
    \/ Start(t) \/ Copy(t) \/ LockResize(t) \/ NoResize(t) \/ ResizeFails(t) \/ Unlock(t)
    \/ Recycle(t) \/ Insert(t) \/ Uncount(t) \/ Exit(t) \/ MarkInactive(t) \/ NextOfFreed(t)
LEMMA QuietIs ==
    ASSUME Typed, NEW t \in Threads, QuietSteps(t)
    PROVE  /\ local' = local
           /\ \/ Start(t) /\ pc[t] = "absent" /\ pc'[t] = "idle"
              \/ Copy(t) /\ pc[t] = "copy" /\ pc'[t] = "enqueue"
              \/ LockResize(t) /\ pc[t] = "lock" /\ pc'[t] = "resize"
              \/ NoResize(t) /\ pc[t] = "lock" /\ pc'[t] = "room"
              \/ ResizeFails(t) /\ pc[t] = "resize" /\ pc'[t] = "giveUp"
              \/ Unlock(t) /\ pc[t] = "unlock" /\ pc'[t] = "room"
              \/ Recycle(t) /\ pc[t] = "recycle" /\ pc'[t] = "subscribe"
              \/ Insert(t) /\ pc[t] = "insert" /\ pc'[t] \in {"enqueue", "uncount"}
              \/ Uncount(t) /\ pc[t] = "uncount" /\ pc'[t] = "enqueue"
              \/ Exit(t) /\ pc[t] = "idle" /\ pc'[t] = "exit"
              \/ MarkInactive(t) /\ pc[t] = "inactive" /\ pc'[t] = "next"
              \/ NextOfFreed(t) /\ pc[t] = "next" /\ pc'[t] = "undefined"
<1>1. local' = local
  BY DEF QuietSteps, Start, Copy, LockResize, NoResize, ResizeFails, Unlock, Recycle, Insert,
         Uncount, Exit, MarkInactive, NextOfFreed
<1>2. Insert(t) => pc[t] = "insert" /\ pc'[t] \in {"enqueue", "uncount"}
  BY GoesIs DEF Insert
<1> QED
  BY <1>1, <1>2, GoesIs
  DEF QuietSteps, Start, Copy, LockResize, NoResize, ResizeFails, Unlock, Recycle,
      Uncount, Exit, MarkInactive, NextOfFreed

LEMMA ForgetGoes ==
    ASSUME Typed, NEW t \in Threads, ForgetSteps(t)
    PROVE  \/ GiveUp(t) /\ pc[t] = "giveUp" /\ pc'[t] = "idle"
           \/ AddProducerFails(t) /\ pc[t] = "recycle" /\ pc'[t] = "idle"
           \/ Put(t) /\ pc[t] = "enqueue" /\ pc'[t] = "idle"
           \/ Exited(t) /\ pc[t] = "exit" /\ pc'[t] = "absent"
           \/ NextListener(t) /\ pc[t] = "next" /\ pc'[t] = "exit"
BY GoesIs DEF ForgetSteps, GiveUp, AddProducerFails, Put, Exited, NextListener

LEMMA ActsAre ==
    ASSUME NEW t \in Threads, Acts(t)
    PROVE  \/ Enqueue(t) \/ Found(t) \/ NotHere(t) \/ FurtherSteps(t) \/ Count(t)
           \/ Resize(t) \/ AwaitTable(t) \/ ForgetSteps(t) \/ ProducerSteps(t)
           \/ Subscribe(t) \/ Callback(t) \/ Remove(t) \/ QuietSteps(t)
BY DEF Acts, Enqueueing, Exiting, FurtherSteps, ForgetSteps, ProducerSteps, QuietSteps

LEMMA ActsTyped ==
    ASSUME Typed, [Next]_vars, NEW t \in Threads, Acts(t)
    PROVE  pc'[t] \in Steps /\ local'[t] \in Locals /\ LocalTyped(t)'
<1> USE DEF Steps, Working, Sought, Inserting, Unlisted, ExitSteps
<1>1. /\ Len(inactive) \in Nat /\ Len(inactive') \in Nat /\ Len(inactive) <= Len(inactive')
      /\ Len(tables) \in Nat \ {0} /\ Len(tables') \in Nat /\ Len(tables) <= Len(tables')
  BY HereIs, ListGrows, TablesTypedStep
<1>2. local[t].producer \in 0 .. Len(inactive) /\ local[t].main \in Nat
  BY HereIs DEF LocalTyped
<1>3. CASE Enqueue(t)
  BY <1>1, <1>3, EnqueueIs DEF LocalTyped, Is
<1>4. CASE Found(t)
  <2>1. PICK k \in 1 .. Len(tables), p \in 0 .. Len(inactive) :
          /\ k = local[t].table
          /\ pc[t] = "search" /\ pc'[t] = IF k = local[t].main THEN "enqueue" ELSE "copy"
          /\ Is(local'[t], local[t].main, k, HashOf[t], local[t].count, p)
    BY <1>4, FoundIs
  <2>2. k <= local[t].main /\ local[t].main \in 1 .. Len(tables)
    BY <2>1, HereIs DEF LocalTyped
  <2> QED BY <1>1, <2>1, <2>2 DEF LocalTyped, Is
<1>5. CASE NotHere(t)
  <2>1. PICK k \in 1 .. Len(tables), n \in Nat :
          /\ k = local[t].table /\ n = k - 1
          /\ pc[t] = "search" /\ pc'[t] = IF k = 1 THEN "count" ELSE "search"
          /\ Is(local'[t], local[t].main, n, HashOf[t], local[t].count, local[t].producer)
    BY <1>5, NotHereIs
  <2>2. k <= local[t].main /\ local[t].main \in 1 .. Len(tables)
    BY <2>1, HereIs DEF LocalTyped
  <2> QED BY <1>1, <1>2, <2>1, <2>2 DEF LocalTyped, Is
<1>6. CASE FurtherSteps(t)
  <2>1. /\ pc'[t] = pc[t] /\ local'[t] \in Locals
        /\ local'[t].main = local[t].main /\ local'[t].table = local[t].table
        /\ local'[t].producer = local[t].producer
    BY <1>6, FurtherIs DEF Is
  <2> QED BY <1>1, <2>1, HereIs DEF LocalTyped
<1>7. CASE Count(t)
  <2>1. /\ pc[t] = "count" /\ pc'[t] = "lock" /\ local'[t] \in Locals
        /\ local'[t].main = local[t].main /\ local'[t].producer = local[t].producer
    BY <1>7, CountIs DEF Is
  <2> QED BY <1>1, <1>2, <2>1, HereIs DEF LocalTyped
<1>8. CASE Resize(t) \/ AwaitTable(t)
  <2>1. PICK n \in Nat :
          /\ NewMain(n)
          /\ pc'[t] \in {"unlock", "lock"}
          /\ Is(local'[t], n, local[t].table, local[t].index, local[t].count, local[t].producer)
    BY <1>8, MainIs
  <2>2. n \in 1 .. Len(tables')
    <3>1. \A m \in Nat \ {0} : tables' = Append(tables, Table(m)) => Len(tables') = Len(tables) + 1
      BY AppendIs DEF Typed
    <3> QED BY <1>1, <2>1, <3>1 DEF NewMain
  <2> QED BY <1>1, <1>2, <2>1, <2>2 DEF LocalTyped, Is
<1>9. CASE ForgetSteps(t)
  BY <1>1, <1>9, ForgetIs, ForgetGoes DEF LocalTyped, Is
<1>10. CASE ProducerSteps(t)
  <2>1. PICK k \in Nat, p \in Nat :
          /\ Is(local'[t], local[t].main, k, local[t].index, local[t].count, p)
          /\ \/ /\ pc[t] \in {"room", "recycle"} /\ pc'[t] = "recycle" /\ p <= Len(inactive)
             \/ /\ pc[t] = "recycle" /\ pc'[t] = "subscribe"
                /\ p = Len(inactive) + 1 /\ Added
    BY <1>10, ProducerIs
  <2>2. p \in 0 .. Len(inactive')
    <3>1. Added => Len(inactive') = Len(inactive) + 1
      BY AppendProperties DEF Typed, ListTyped, Added
    <3> QED BY <1>1, <2>1, <3>1
  <2>3. local[t].main \in 1 .. Len(tables)
    BY <2>1, HereIs DEF LocalTyped
  <2>4. /\ local'[t] \in Locals /\ local'[t].main = local[t].main /\ local'[t].producer = p
        /\ pc'[t] \in {"recycle", "subscribe"}
        /\ pc'[t] = "subscribe" => p # 0
    BY <1>1, <2>1 DEF Is
  <2> QED BY <1>1, <2>2, <2>3, <2>4 DEF LocalTyped
<1>11. CASE Subscribe(t)
  <2>1. local[t].main \in 1 .. Len(tables)
    BY <1>11, SubscribeIs, HereIs DEF LocalTyped
  <2> QED BY <1>1, <1>2, <1>11, <2>1, SubscribeIs DEF LocalTyped, Is
<1>12. CASE Callback(t)
  <2>1. PICK p \in 1 .. Len(inactive) :
            pc'[t] = "remove" /\ Is(local'[t], 0, Len(tables), HashOf[t], 0, p)
    BY <1>12, CallbackIs
  <2> QED BY <1>1, <2>1 DEF LocalTyped, Is
<1>13. CASE Remove(t)
  <2>1. /\ pc[t] = "remove" /\ local'[t] \in Locals /\ local'[t].producer = local[t].producer
        /\ pc'[t] \in {"remove", "inactive"}
        /\ pc'[t] = "remove" => local'[t].table \in 1 .. Len(tables)
    <3>1. PICK n \in Nat :
            /\ pc[t] = "remove"
            /\ \/ pc'[t] = "inactive" /\ local'[t] = local[t]
               \/ /\ n \in 1 .. Len(tables) /\ pc'[t] = "remove"
                  /\ Is(local'[t], local[t].main, n, HashOf[t], local[t].count, local[t].producer)
      BY <1>13, RemoveIs
    <3> QED BY <3>1, HereIs DEF Is
  <2>2. local[t].producer # 0
    BY <2>1, HereIs DEF LocalTyped
  <2> QED BY <1>1, <1>2, <2>1, <2>2 DEF LocalTyped
<1>14. CASE QuietSteps(t)
  <2>1. LocalTyped(t) /\ local[t] \in Locals
    BY HereIs
  <2>2. Recycle(t) => local[t].producer # 0
    BY DEF Recycle, Loc
  <2> QED BY <1>1, <1>14, <2>1, <2>2, QuietIs DEF LocalTyped
<1> QED BY <1>3, <1>4, <1>5, <1>6, <1>7, <1>8, <1>9, <1>10, <1>11, <1>12, <1>13, <1>14, ActsAre

LEMMA ThreadsTypedStep ==
    ASSUME Typed, [Next]_vars
    PROVE  ThreadsTyped'
<1>1. /\ Len(inactive) \in Nat /\ Len(inactive') \in Nat /\ Len(inactive) <= Len(inactive')
      /\ Len(tables) \in Nat \ {0} /\ Len(tables') \in Nat /\ Len(tables) <= Len(tables')
  <2>1. Len(tables) \in Nat \ {0}
    BY EmptySeq DEF Typed, TablesTyped
  <2> QED BY <2>1, ListGrows, TablesTypedStep DEF Typed, ListTyped
<1>2. pc \in [Threads -> Steps] /\ local \in [Threads -> Locals] /\ \A u \in Threads : LocalTyped(u)
  BY DEF Typed, ThreadsTyped
<1>3. ASSUME NEW u \in Threads, pc'[u] = pc[u], local'[u] = local[u]
      PROVE  LocalTyped(u)'
  BY <1>1, <1>2, <1>3 DEF LocalTyped
<1>4. CASE UNCHANGED <<pc, local>>
  BY <1>2, <1>3, <1>4 DEF ThreadsTyped
<1>5. ASSUME NEW t \in Threads, Acts(t)
      PROVE  ThreadsTyped'
  <2>1. pc'[t] \in Steps /\ local'[t] \in Locals /\ LocalTyped(t)'
    BY <1>5, ActsTyped
  <2>2. /\ pc' = [pc EXCEPT ![t] = pc'[t]] /\ local' = [local EXCEPT ![t] = local'[t]]
        /\ \A u \in Threads : u # t => pc'[u] = pc[u] /\ local'[u] = local[u]
    BY <1>5, ActsAlone
  <2>3. PICK x \in Steps, y \in Locals : x = pc'[t] /\ y = local'[t]
    BY <2>1
  <2>4. pc' = [pc EXCEPT ![t] = x] /\ local' = [local EXCEPT ![t] = y]
    BY <2>2, <2>3
  <2>5. pc' \in [Threads -> Steps] /\ local' \in [Threads -> Locals]
    BY <1>2, <2>3, <2>4
  <2> QED BY <1>3, <2>1, <2>2, <2>5 DEF ThreadsTyped
<1> QED BY <1>4, <1>5, OnlyActs

LEMMA ListeningSteps ==
    ASSUME [Next]_vars
    PROVE  UNCHANGED listening \/ Unsubscribe \/ \E t \in Threads : Subscribe(t) \/ MarkInactive(t)
BY DEF Next, vars, hash, list, Keeps, Start, Enqueue, Exit, Enqueueing, Exiting,
       Destroying, Found, NotHere, Further, Copy, CopyFurther, Count, LockResize,
       NoResize, Resize, ResizeFails, GiveUp, Unlock, Room, AwaitTable, Recycle,
       RecycleNext, AddProducer, AddProducerFails, Insert, InsertFurther, Uncount, Put,
       Callback, Exited, Remove, RemoveFurther, NextListener, NextOfFreed, Destroy,
       DestroyInactive, FindsActive, DestroyTables, DestroyRest

LEMMA DestroyerSteps ==
    ASSUME [Next]_vars
    PROVE  UNCHANGED destructor \/ Destroying
BY DEF Next, vars, hash, list, Keeps, Start, Enqueue, Exit, Enqueueing, Exiting, Found,
       NotHere, Further, Copy, CopyFurther, Count, LockResize, NoResize, Resize,
       ResizeFails, GiveUp, Unlock, Room, AwaitTable, Recycle, RecycleNext, AddProducer,
       AddProducerFails, Subscribe, Insert, InsertFurther, Uncount, Put, Callback,
       Exited, Remove, RemoveFurther, MarkInactive, NextListener, NextOfFreed

LEMMA ListTypedStep ==
    ASSUME Typed, [Next]_vars
    PROVE  ListTyped'
<1>1. /\ Len(inactive) \in Nat /\ Len(inactive') \in Nat /\ Len(inactive) <= Len(inactive')
      /\ inactive' \in Seq(BOOLEAN)
  BY ListGrows DEF Typed, ListTyped
<1>2. listening \in [Threads -> SUBSET (1 .. Len(inactive'))]
  <2>1. 1 .. Len(inactive) \subseteq 1 .. Len(inactive')
    BY <1>1
  <2> QED BY <2>1 DEF Typed, ListTyped
<1>3. listening' \in [Threads -> SUBSET (1 .. Len(inactive'))]
  <2>1. CASE UNCHANGED listening
    BY <1>2, <2>1
  <2>2. CASE Unsubscribe
    BY <1>2, <2>2 DEF Unsubscribe
  <2>3. ASSUME NEW t \in Threads, Subscribe(t)
        PROVE  listening' \in [Threads -> SUBSET (1 .. Len(inactive'))]
    <3>1. pc[t] = "subscribe" /\ LocalTyped(t)
      BY <2>3, SubscribeIs, HereIs
    <3>2. PICK p \in 1 .. Len(inactive') : p = local[t].producer
      BY <1>1, <3>1 DEF LocalTyped
    <3>3. listening' = [listening EXCEPT ![t] = @ \cup {p}]
      BY <2>3, <3>2 DEF Subscribe, Loc
    <3> QED BY <1>2, <3>2, <3>3
  <2>4. ASSUME NEW t \in Threads, MarkInactive(t)
        PROVE  listening' \in [Threads -> SUBSET (1 .. Len(inactive'))]
    BY <1>2, <2>4 DEF MarkInactive
  <2> QED BY <2>1, <2>2, <2>3, <2>4, ListeningSteps
<1>4. /\ destructor' \in
            [at : {"none", "producer", "unsubscribe", "done"}, producer : 0 .. Len(inactive')]
      /\ destructor'.at = "unsubscribe" => destructor'.producer # 0
  <2>1. /\ destructor \in [at : {"none", "producer", "unsubscribe", "done"}, producer : 0 .. Len(inactive)]
        /\ destructor.at = "unsubscribe" => destructor.producer # 0
        /\ destructor.producer \in 0 .. Len(inactive')
        /\ destructor.producer # 0 => destructor.producer - 1 \in 0 .. Len(inactive')
    BY <1>1 DEF Typed, ListTyped
  <2>2. CASE UNCHANGED destructor
    BY <2>1, <2>2
  <2>3. ASSUME NEW at \in {"none", "producer", "unsubscribe", "done"},
               NEW p \in 0 .. Len(inactive'), Reaches(at, p), at = "unsubscribe" => p # 0
        PROVE  /\ destructor' \in [at : {"none", "producer", "unsubscribe", "done"},
                                   producer : 0 .. Len(inactive')]
               /\ destructor'.at = "unsubscribe" => destructor'.producer # 0
    BY <2>3 DEF Reaches
  <2>4. CASE Destroying
    <3>1. CASE Destroy
      <4>1. Len(inactive) \in 0 .. Len(inactive')
        BY <1>1
      <4> QED BY <2>3, <3>1, <4>1 DEF Destroy
    <3>2. CASE DestroyInactive
      BY <2>1, <2>3, <3>2 DEF DestroyInactive
    <3>3. CASE FindsActive
      BY <2>1, <2>3, <3>3 DEF FindsActive
    <3>4. CASE Unsubscribe
      BY <2>1, <2>3, <3>4 DEF Unsubscribe
    <3>5. CASE DestroyTables
      <4>1. 0 \in 0 .. Len(inactive')
        BY <1>1
      <4> QED BY <2>3, <3>5, <4>1 DEF DestroyTables
    <3> QED BY <2>4, <3>1, <3>2, <3>3, <3>4, <3>5 DEF Destroying
  <2> QED BY <2>2, <2>4, DestroyerSteps
<1> QED BY <1>1, <1>3, <1>4 DEF ListTyped

LEMMA CountSteps ==
    ASSUME [Next]_vars
    PROVE  UNCHANGED implicitProducerHashCount
              \/ \E t \in Threads : Count(t) \/ ResizeFails(t) \/ AddProducerFails(t) \/ Uncount(t)
BY DEF Next, vars, hash, list, Keeps, Start, Enqueue, Exit, Enqueueing, Exiting,
       Destroying, Found, NotHere, Further, Copy, CopyFurther, LockResize, NoResize,
       Resize, GiveUp, Unlock, Room, AwaitTable, Recycle, RecycleNext, AddProducer,
       Subscribe, Insert, InsertFurther, Put, Callback, Exited, Remove, RemoveFurther,
       MarkInactive, NextListener, NextOfFreed, Destroy, DestroyInactive, FindsActive,
       Unsubscribe, DestroyTables, DestroyRest

LEMMA UncountedKept ==
    ASSUME Typed, NEW t \in Threads, Acts(t)
    PROVE  pc'[t] \in Uncounted => pc[t] \in Uncounted \/ Count(t)
<1> USE DEF Uncounted
<1>1. CASE Found(t) \/ NotHere(t) \/ FurtherSteps(t)
  BY <1>1, FoundIs, NotHereIs, FurtherIs
<1>2. CASE Resize(t) \/ AwaitTable(t)
  BY <1>2, MainIs
<1>3. CASE ForgetSteps(t)
  BY <1>3, ForgetGoes
<1>4. CASE ProducerSteps(t) \/ Subscribe(t)
  BY <1>4, ProducerIs, SubscribeIs
<1>5. CASE Enqueue(t) \/ Callback(t) \/ Remove(t)
  BY <1>5, EnqueueIs, CallbackIs, RemoveIs
<1>6. CASE QuietSteps(t)
  BY <1>6, QuietIs
<1> QED BY <1>1, <1>2, <1>3, <1>4, <1>5, <1>6, ActsAre

LEMMA CountTypedStep ==
    ASSUME Typed, [Next]_vars
    PROVE  CountTyped'
<1> DEFINE A == {t \in Threads : pc[t] \in Uncounted}
           B == {t \in Threads : pc'[t] \in Uncounted}
<1>1. /\ IsFiniteSet(A) /\ IsFiniteSet(B)
      /\ Cardinality(A) \in Nat /\ Cardinality(B) \in Nat
      /\ implicitProducerHashCount \in Nat /\ Cardinality(A) <= implicitProducerHashCount
  <2>1. IsFiniteSet(A) /\ IsFiniteSet(B)
    BY IdsAssumption, FS_Subset
  <2> QED BY <2>1, FS_CardinalityType DEF Typed, CountTyped
<1>2. SUFFICES implicitProducerHashCount' \in Nat /\ Cardinality(B) <= implicitProducerHashCount'
  BY DEF CountTyped
<1>3. CASE UNCHANGED pc
  <2>1. UNCHANGED implicitProducerHashCount
    <3>1. ASSUME NEW t \in Threads,
                 Count(t) \/ ResizeFails(t) \/ AddProducerFails(t) \/ Uncount(t)
          PROVE  pc'[t] # pc[t]
      BY <3>1, GoesIs DEF Count, ResizeFails, AddProducerFails, Uncount
    <3> QED BY <1>3, <3>1, CountSteps
  <2> QED BY <1>1, <1>3, <2>1
<1>4. ASSUME NEW t \in Threads, Acts(t)
      PROVE  implicitProducerHashCount' \in Nat /\ Cardinality(B) <= implicitProducerHashCount'
  <2>1. \A u \in Threads : u # t => pc'[u] = pc[u]
    BY <1>4, ActsAlone
  <2>2. CASE Count(t)
    <3>1. B \subseteq A \cup {t} /\ IsFiniteSet(A \cup {t})
          /\ Cardinality(A \cup {t}) <= Cardinality(A) + 1
      <4>1. /\ IsFiniteSet(A \cup {t})
            /\ Cardinality(A \cup {t}) = IF t \in A THEN Cardinality(A) ELSE Cardinality(A) + 1
        BY <1>1, FS_AddElement
      <4>2. B \subseteq A \cup {t}
        BY <2>1
      <4> QED BY <1>1, <4>1, <4>2
    <3>2. Cardinality(B) <= Cardinality(A \cup {t}) /\ Cardinality(A \cup {t}) \in Nat
      BY <3>1, FS_Subset, FS_CardinalityType
    <3>3. implicitProducerHashCount' = implicitProducerHashCount + 1
      BY <2>2 DEF Count
    <3> QED BY <1>1, <3>1, <3>2, <3>3
  <2>3. CASE ResizeFails(t) \/ AddProducerFails(t) \/ Uncount(t)
    <3>1. /\ pc[t] \in Uncounted /\ pc'[t] \notin Uncounted
          /\ implicitProducerHashCount' = implicitProducerHashCount - 1
      BY <2>3, GoesIs DEF ResizeFails, AddProducerFails, Uncount, Uncounted
    <3>2. t \in A /\ B = A \ {t}
      BY <2>1, <3>1
    <3>3. Cardinality(B) = Cardinality(A) - 1
      BY <1>1, <3>2, FS_RemoveElement
    <3> QED BY <1>1, <3>1, <3>3
  <2>4. CASE ~(Count(t) \/ ResizeFails(t) \/ AddProducerFails(t) \/ Uncount(t))
    <3>1. UNCHANGED implicitProducerHashCount
      <4>1. ASSUME NEW u \in Threads,
                   Count(u) \/ ResizeFails(u) \/ AddProducerFails(u) \/ Uncount(u)
            PROVE  pc'[u] # pc[u]
        BY <4>1, GoesIs DEF Count, ResizeFails, AddProducerFails, Uncount
      <4> QED BY <2>1, <2>4, <4>1, CountSteps
    <3>2. B \subseteq A
      BY <1>4, <2>1, <2>4, UncountedKept
    <3>3. Cardinality(B) <= Cardinality(A)
      BY <1>1, <3>2, FS_Subset
    <3> QED BY <1>1, <3>1, <3>3
  <2> QED BY <2>2, <2>3, <2>4
<1> QED BY <1>3, <1>4, OnlyActs

LEMMA TypedStep == Typed /\ [Next]_vars => Typed'
<1> SUFFICES ASSUME Typed, [Next]_vars
             PROVE  Typed'
  OBVIOUS
<1>1. TablesTyped'
  BY TablesTypedStep
<1>2. ListTyped' /\ ThreadsTyped' /\ CountTyped'
  BY ListTypedStep, ThreadsTypedStep, CountTypedStep
<1> QED BY <1>1, <1>2 DEF Typed
-------------------------------------------------------------------------------
(* Where the threads are in the tables *)

LEMMA SlotKept ==
    ASSUME Typed, NEW t \in Threads, KeysFewer(t), NEW k \in 1 .. Len(tables), NEW i \in Nat
    PROVE  /\ Slot(k, i)' = Slot(k, i)
           /\ Key(k, i)' = t => Key(k, i) = t
           /\ Key(k, i) # invalid_thread_id => Key(k, i)' # invalid_thread_id
<1>1. DOMAIN tables'[k] = DOMAIN tables[k]
  BY DEF KeysFewer
<1>2. Slot(k, i)' = Slot(k, i)
  BY <1>1 DEF Slot, Capacity
<1>3. PICK s \in DOMAIN tables[k] : s = Slot(k, i)
  BY SlotIn DEF Typed
<1>4. Key(k, i) = tables[k][s].key /\ Key(k, i)' = tables'[k][s].key
  BY <1>2, <1>3 DEF Key
<1> QED BY <1>2, <1>4 DEF KeysFewer

LEMMA PlacesKept ==
    ASSUME Typed, NEW t \in Threads, KeysFewer(t)
    PROVE  /\ \A k \in 1 .. Len(tables) : \A i \in Nat :
                 /\ Passed(t, k, i) => Passed(t, k, i)'
                 /\ Unseen(t, k, i) => Unseen(t, k, i)'
           /\ \A k \in 1 .. Len(tables') : In(t, k)' => k \in 1 .. Len(tables) /\ In(t, k)
           /\ \A m \in Nat : NotAbove(t, m) => NotAbove(t, m)'
           /\ Reachable(t) => Reachable(t)'
           /\ Once(t) => Once(t)'
<1>1. \A k \in 1 .. Len(tables) : \A i \in Nat :
         /\ Slot(k, i)' = Slot(k, i)
         /\ Key(k, i)' = t => Key(k, i) = t
         /\ Key(k, i) # invalid_thread_id => Key(k, i)' # invalid_thread_id
  BY SlotKept
<1>2. ASSUME NEW k \in 1 .. Len(tables), NEW i \in Nat
      PROVE  /\ Passed(t, k, i) => Passed(t, k, i)'
             /\ Unseen(t, k, i) => Unseen(t, k, i)'
  <2>1. \A j \in HashOf[t] .. i - 1 : j \in Nat
    BY HashIn
  <2>2. Passed(t, k, i) => Passed(t, k, i)'
    BY <1>1, <2>1 DEF Passed
  <2>3. Unseen(t, k, i) => Unseen(t, k, i)'
    BY <1>1, <2>1 DEF Unseen
  <2> QED BY <2>2, <2>3
<1>3. ASSUME NEW k \in 1 .. Len(tables'), NEW s \in DOMAIN tables'[k], tables'[k][s].key = t
      PROVE  k \in 1 .. Len(tables) /\ s \in DOMAIN tables[k] /\ tables[k][s].key = t
  <2>1. k \in 1 .. Len(tables)
    BY <1>3 DEF KeysFewer
  <2> QED BY <1>3, <2>1 DEF KeysFewer
<1>4. \A k \in 1 .. Len(tables') : In(t, k)' => k \in 1 .. Len(tables) /\ In(t, k)
  BY <1>3 DEF In
<1>5. \A m \in Nat : NotAbove(t, m) => NotAbove(t, m)'
  BY <1>4 DEF NotAbove
<1>6. ASSUME Reachable(t)
      PROVE  Reachable(t)'
  <2>1. SUFFICES ASSUME NEW k \in 1 .. Len(tables'), NEW s \in DOMAIN tables'[k], tables'[k][s].key = t
                 PROVE  \E i \in Nat :
                           HashOf[t] <= i /\ Slot(k, i)' = s /\ Passed(t, k, i + 1)'
    BY DEF Reachable
  <2>2. k \in 1 .. Len(tables) /\ s \in DOMAIN tables[k] /\ tables[k][s].key = t
    BY <1>3, <2>1
  <2>3. PICK i \in Nat : HashOf[t] <= i /\ Slot(k, i) = s /\ Passed(t, k, i + 1)
    BY <1>6, <2>2 DEF Reachable
  <2>4. Passed(t, k, i + 1)' /\ Slot(k, i)' = s
    BY <1>1, <1>2, <2>2, <2>3
  <2> QED BY <2>3, <2>4
<1>7. Once(t) => Once(t)'
  BY <1>3 DEF Once
<1> QED BY <1>2, <1>4, <1>5, <1>6, <1>7

\* A free slot ends the search: the thread is not in this table.
LEMMA NotInTable ==
    ASSUME Typed, NEW t \in Threads, Reachable(t), NEW k \in 1 .. Len(tables), NEW i \in Nat,
           HashOf[t] <= i, Passed(t, k, i), Unseen(t, k, i), Key(k, i) = invalid_thread_id
    PROVE  ~In(t, k)
<1>1. SUFFICES ASSUME NEW s \in DOMAIN tables[k], tables[k][s].key = t
               PROVE  FALSE
  BY DEF In
<1>2. PICK j \in Nat : HashOf[t] <= j /\ Slot(k, j) = s /\ Passed(t, k, j + 1)
  BY <1>1 DEF Reachable
<1>3. Key(k, j) = t
  BY <1>1, <1>2 DEF Key
<1>4. HashOf[t] \in Nat
  BY HashIn
<1>5. CASE i <= j
  <2>1. i \in HashOf[t] .. (j + 1) - 1
    BY <1>4, <1>5
  <2> QED BY <1>2, <2>1 DEF Passed
<1>6. CASE j < i
  <2>1. j \in HashOf[t] .. i - 1
    BY <1>2, <1>4, <1>6
  <2> QED BY <1>3, <2>1 DEF Unseen
<1> QED BY <1>5, <1>6

\* The search goes on over a slot that is not free.
LEMMA PassedFurther ==
    ASSUME NEW t \in Threads, NEW k, NEW i \in Nat
    PROVE  /\ Passed(t, k, HashOf[t]) /\ Unseen(t, k, HashOf[t])
           /\ Passed(t, k, i) /\ Key(k, i) # invalid_thread_id => Passed(t, k, i + 1)
           /\ Unseen(t, k, i) /\ Key(k, i) # t => Unseen(t, k, i + 1)
<1>1. HashOf[t] \in Nat
  BY HashIn
<1>2. \A j \in HashOf[t] .. (i + 1) - 1 : j = i \/ j \in HashOf[t] .. i - 1
  BY <1>1
<1>3. \A j \in HashOf[t] .. HashOf[t] - 1 : FALSE
  BY <1>1
<1> QED BY <1>2, <1>3 DEF Passed, Unseen

LEMMA SearchingNext ==
    ASSUME NEW t \in Threads, NEW m, NEW k, NEW i,
           local'[t].main = m, local'[t].table = k, local'[t].index = i,
           pc'[t] \in {"search", "copy", "insert", "remove"} => HashOf[t] <= i,
           pc'[t] \in {"search", "remove"} => Passed(t, k, i)' /\ Unseen(t, k, i)',
           pc'[t] \in {"search", "copy", "remove"} => NotAbove(t, k)',
           pc'[t] \in {"copy", "insert"} => Passed(t, m, i)',
           pc'[t] = "copy" => k < m,
           pc'[t] \in Unlisted \cup {"insert", "inactive"} => NotAbove(t, 0)'
    PROVE  Searching(t)'
BY DEF Searching, Passed, Unseen, NotAbove, Key, Slot, Capacity, In

\* A thread that does nothing, or one that does and writes nothing.
LEMMA SearchingKept ==
    ASSUME Typed, NEW t \in Threads, KeysFewer(t), Searching(t),
           pc'[t] = pc[t], local'[t] = local[t]
    PROVE  Searching(t)'
<1>1. PICK m \in Nat, k \in Nat, i \in Nat :
          m = local[t].main /\ k = local[t].table /\ i = local[t].index
  BY HereIs
<1>2. /\ pc[t] \in {"search", "remove"} => k \in 1 .. Len(tables)
      /\ pc[t] \in {"copy", "insert"} => m \in 1 .. Len(tables)
  BY <1>1, HereIs DEF LocalTyped, Sought, Inserting
<1>3. NotAbove(t, k) => NotAbove(t, k)'
  BY <1>1, PlacesKept
<1>4. NotAbove(t, 0) => NotAbove(t, 0)'
  BY PlacesKept
<1>5. k \in 1 .. Len(tables) =>
        (Passed(t, k, i) => Passed(t, k, i)') /\ (Unseen(t, k, i) => Unseen(t, k, i)')
  BY <1>1, PlacesKept
<1>6. m \in 1 .. Len(tables) => (Passed(t, m, i) => Passed(t, m, i)')
  BY <1>1, PlacesKept
<1> QED BY <1>1, <1>2, <1>3, <1>4, <1>5, <1>6, SearchingNext DEF Searching

LEMMA SearchingStep ==
    ASSUME Typed, [Next]_vars, NEW t \in Threads, KeysFewer(t), Acts(t), ~Writes(t),
           Reachable(t), Searching(t)
    PROVE  Searching(t)'
<1> USE DEF Unlisted
<1>1. PICK m \in Nat, k \in Nat, i \in Nat :
          m = local[t].main /\ k = local[t].table /\ i = local[t].index
  BY HereIs
<1>2. HashOf[t] \in Nat /\ Len(tables) \in Nat \ {0}
  BY HereIs
<1>3. \A n \in Nat : NotAbove(t, n) => NotAbove(t, n)'
  BY PlacesKept
<1>4. \A n \in 1 .. Len(tables) : \A j \in Nat :
         /\ Passed(t, n, j) => Passed(t, n, j)'
         /\ Unseen(t, n, j) => Unseen(t, n, j)'
  BY PlacesKept
<1>5. \A n \in 1 .. Len(tables) :
         Passed(t, n, HashOf[t])' /\ Unseen(t, n, HashOf[t])'
  BY <1>2, <1>4, PassedFurther
<1>6. \A n : n = Len(tables) => NotAbove(t, n)
  BY DEF NotAbove
<1>7. CASE Enqueue(t)
  <2>1. PICK n \in 1 .. Len(tables) : n = Len(tables)
    BY <1>2
  <2>2. /\ pc'[t] = "search" /\ local'[t].main = n /\ local'[t].table = n
        /\ local'[t].index = HashOf[t]
    BY <1>7, <2>1, EnqueueIs DEF Is
  <2>3. NotAbove(t, n)'
    BY <1>3, <1>6, <2>1
  <2> QED BY <1>2, <1>5, <2>2, <2>3, SearchingNext
<1>8. CASE Found(t)
  <2>1. /\ pc[t] = "search" /\ k \in 1 .. Len(tables)
        /\ pc'[t] = IF k = m THEN "enqueue" ELSE "copy"
        /\ local'[t].main = m /\ local'[t].table = k /\ local'[t].index = HashOf[t]
    BY <1>1, <1>8, FoundIs DEF Is
  <2>2. m \in 1 .. Len(tables) /\ k <= m
    BY <1>1, <2>1, HereIs DEF LocalTyped, Sought
  <2>3. NotAbove(t, k)'
    BY <1>1, <1>3, <2>1 DEF Searching
  <2>4. k # m => k < m
    BY <2>1, <2>2
  <2> QED BY <1>2, <1>5, <2>1, <2>2, <2>3, <2>4, SearchingNext
<1>9. CASE NotHere(t)
  <2>1. PICK n \in Nat :
          /\ n = k - 1 /\ pc[t] = "search" /\ k \in 1 .. Len(tables)
          /\ Key(k, i) = invalid_thread_id
          /\ pc'[t] = IF k = 1 THEN "count" ELSE "search"
          /\ local'[t].main = m /\ local'[t].table = n /\ local'[t].index = HashOf[t]
    BY <1>1, <1>9, NotHereIs DEF Is
  <2>2. ~In(t, k)
    BY <1>1, <2>1, NotInTable DEF Searching
  <2>3. NotAbove(t, k)
    BY <1>1, <2>1 DEF Searching
  <2>4. \A j \in 1 .. Len(tables) : j > n => j = k \/ j > k
    BY <2>1
  <2>5. NotAbove(t, n)'
    BY <1>3, <2>2, <2>3, <2>4 DEF NotAbove
  <2>6. k # 1 => n \in 1 .. Len(tables)
    BY <1>2, <2>1
  <2>7. k = 1 => n = 0
    BY <2>1
  <2> QED BY <1>2, <1>5, <2>1, <2>5, <2>6, <2>7, SearchingNext
<1>10. CASE FurtherSteps(t)
  <2>1. /\ pc'[t] = pc[t]
        /\ local'[t].main = m /\ local'[t].table = k /\ local'[t].index = i + 1
    BY <1>1, <1>10, FurtherIs DEF Is
  <2>2. \/ pc[t] \in {"search", "remove"} /\ Key(k, i) \notin {t, invalid_thread_id}
        \/ pc[t] \in {"copy", "insert"} /\ Key(m, i) \in Threads
    BY <1>1, <1>10 DEF FurtherSteps, Further, CopyFurther, InsertFurther, RemoveFurther, Loc
  <2>3. CASE pc[t] \in {"search", "remove"} /\ Key(k, i) \notin {t, invalid_thread_id}
    <3>1. k \in 1 .. Len(tables) /\ HashOf[t] <= i /\ Passed(t, k, i) /\ Unseen(t, k, i)
          /\ NotAbove(t, k)
      BY <1>1, <2>3, HereIs DEF LocalTyped, Searching
    <3>2. Passed(t, k, i + 1) /\ Unseen(t, k, i + 1)
      BY <2>3, <3>1, PassedFurther
    <3>3. Passed(t, k, i + 1)' /\ Unseen(t, k, i + 1)' /\ NotAbove(t, k)' /\ HashOf[t] <= i + 1
      BY <1>2, <1>3, <1>4, <3>1, <3>2
    <3> QED BY <2>1, <2>3, <3>3, SearchingNext
  <2>4. CASE pc[t] \in {"copy", "insert"} /\ Key(m, i) \in Threads
    <3>1. m \in 1 .. Len(tables) /\ HashOf[t] <= i /\ Passed(t, m, i)
      BY <1>1, <2>4, HereIs DEF LocalTyped, Sought, Inserting, Searching
    <3>2. Passed(t, m, i + 1)
      BY <2>4, <3>1, PassedFurther, IdsAssumption
    <3>3. Passed(t, m, i + 1)' /\ HashOf[t] <= i + 1
      BY <1>2, <1>4, <3>1, <3>2
    <3>4. /\ pc[t] = "copy" => k < m /\ NotAbove(t, k)'
          /\ pc[t] = "insert" => NotAbove(t, 0)'
      BY <1>1, <1>3 DEF Searching
    <3> QED BY <2>1, <2>4, <3>3, <3>4, SearchingNext
  <2> QED BY <2>2, <2>3, <2>4
<1>11. ASSUME pc[t] \in Unlisted, pc'[t] \in Unlisted \cup {"idle", "absent", "exit", "insert"},
              pc'[t] = "insert" => local'[t].index = HashOf[t] /\ local'[t].main \in 1 .. Len(tables)
       PROVE  Searching(t)'
  <2>1. NotAbove(t, 0)'
    BY <1>3, <1>11 DEF Searching
  <2> QED BY <1>2, <1>5, <1>11, <2>1, SearchingNext
<1>12. ASSUME pc'[t] \in {"idle", "absent", "exit", "enqueue", "uncount", "next", "undefined"}
       PROVE  Searching(t)'
  BY <1>12, SearchingNext
<1>13. CASE Count(t)
  BY <1>11, <1>13, CountIs
<1>14. CASE Resize(t) \/ AwaitTable(t)
  BY <1>11, <1>14, MainIs
<1>15. CASE ForgetSteps(t)
  BY <1>12, <1>15, ForgetGoes
<1>16. CASE ProducerSteps(t)
  BY <1>11, <1>16, ProducerIs
<1>17. CASE Subscribe(t)
  <2>1. local[t].main \in 1 .. Len(tables)
    BY <1>17, SubscribeIs, HereIs DEF LocalTyped, Inserting
  <2> QED BY <1>11, <1>17, <2>1, SubscribeIs DEF Is
<1>18. CASE Callback(t)
  <2>1. PICK n \in 1 .. Len(tables) : n = Len(tables)
    BY <1>2
  <2>2. pc'[t] = "remove" /\ local'[t].table = n /\ local'[t].index = HashOf[t]
    BY <1>18, <2>1, CallbackIs DEF Is
  <2>3. NotAbove(t, n)'
    BY <1>3, <1>6, <2>1
  <2> QED BY <1>2, <1>5, <2>2, <2>3, SearchingNext
<1>19. CASE QuietSteps(t)
  <2>1. \/ pc'[t] \in {"idle", "absent", "exit", "enqueue", "uncount", "next", "undefined"}
        \/ pc[t] \in Unlisted /\ pc'[t] \in Unlisted
    BY <1>19, QuietIs DEF Writes
  <2> QED BY <1>11, <1>12, <2>1
<1> QED BY <1>7, <1>8, <1>9, <1>10, <1>13, <1>14, <1>15, <1>16, <1>17, <1>18, <1>19, ActsAre
        DEF Writes

\* A thread adds itself to a table in which it is not, or removes itself.
LEMMA AddedToTable ==
    ASSUME Typed, NEW t \in Threads, Reachable(t), Once(t),
           NEW k \in 1 .. Len(tables), NEW i \in Nat, NEW v \in Nat,
           HashOf[t] <= i, Passed(t, k, i), ~In(t, k), Written(k, i, t, v)
    PROVE  Reachable(t)' /\ Once(t)'
<1>1. /\ HashOf[t] \in Nat /\ t # invalid_thread_id
      /\ Len(tables') = Len(tables) /\ \A n \in 1 .. Len(tables) : DOMAIN tables'[n] = DOMAIN tables[n]
  BY HashIn, IdsAssumption DEF Written
<1>2. ASSUME NEW n \in 1 .. Len(tables), NEW j \in Nat
      PROVE  /\ Slot(n, j)' = Slot(n, j)
             /\ Key(n, j)' = IF n = k /\ Slot(n, j) = Slot(k, i) THEN t ELSE Key(n, j)
  <2>1. Slot(n, j)' = Slot(n, j)
    BY <1>1 DEF Slot, Capacity
  <2>2. PICK s \in DOMAIN tables[n] : s = Slot(n, j)
    BY SlotIn DEF Typed
  <2>3. tables'[n][s] = IF n = k /\ s = Slot(k, i) THEN [key |-> t, value |-> v] ELSE tables[n][s]
    BY <2>2 DEF Written
  <2>4. Key(n, j) = tables[n][s].key /\ Key(n, j)' = tables'[n][s].key
    BY <2>1, <2>2 DEF Key
  <2>5. CASE n = k /\ s = Slot(k, i)
    BY <2>1, <2>2, <2>3, <2>4, <2>5
  <2>6. CASE ~(n = k /\ s = Slot(k, i))
    BY <2>1, <2>2, <2>3, <2>4, <2>6
  <2> QED BY <2>5, <2>6
<1>3. ASSUME NEW n \in 1 .. Len(tables), NEW j \in Nat, Passed(t, n, j)
      PROVE  Passed(t, n, j)'
  BY <1>1, <1>2, <1>3 DEF Passed
<1>4. Passed(t, k, i + 1)'
  <2>1. \A j \in HashOf[t] .. (i + 1) - 1 : j \in Nat /\ (j = i \/ j \in HashOf[t] .. i - 1)
    BY <1>1
  <2> QED BY <1>1, <1>2, <2>1 DEF Passed
<1>5. ASSUME NEW n \in 1 .. Len(tables), NEW s \in DOMAIN tables[n], tables'[n][s].key = t
      PROVE  (n = k /\ s = Slot(k, i)) \/ (n # k /\ tables[n][s].key = t)
  <2>1. tables'[n][s] = IF n = k /\ s = Slot(k, i) THEN [key |-> t, value |-> v] ELSE tables[n][s]
    BY DEF Written
  <2>2. CASE n = k /\ s # Slot(k, i)
    BY <1>5, <2>1, <2>2 DEF In
  <2>3. CASE n # k
    <3>1. tables'[n][s] = tables[n][s]
      BY <2>1, <2>3
    <3> QED BY <1>5, <2>3, <3>1
  <2> QED BY <2>2, <2>3
<1>6. Reachable(t)'
  <2>1. SUFFICES ASSUME NEW n \in 1 .. Len(tables'), NEW s \in DOMAIN tables'[n],
                        tables'[n][s].key = t
                 PROVE  \E j \in Nat :
                           HashOf[t] <= j /\ Slot(n, j)' = s /\ Passed(t, n, j + 1)'
    BY DEF Reachable
  <2>2. n \in 1 .. Len(tables) /\ s \in DOMAIN tables[n]
    BY <1>1
  <2>3. CASE n = k /\ s = Slot(k, i)
    BY <1>2, <1>4, <2>3
  <2>4. CASE tables[n][s].key = t
    <3>1. PICK j \in Nat : HashOf[t] <= j /\ Slot(n, j) = s /\ Passed(t, n, j + 1)
      BY <2>2, <2>4 DEF Reachable
    <3>2. Passed(t, n, j + 1)' /\ Slot(n, j)' = s
      BY <1>2, <1>3, <2>2, <3>1
    <3> QED BY <3>1, <3>2
  <2> QED BY <1>5, <2>1, <2>2, <2>3, <2>4
<1>7. Once(t)'
  BY <1>1, <1>5 DEF Once
<1> QED BY <1>6, <1>7

LEMMA RemovedFromTable ==
    ASSUME Typed, NEW t \in Threads, Once(t), NEW k \in 1 .. Len(tables), NEW i \in Nat,
           NEW v \in Nat, Key(k, i) = t, Written(k, i, invalid_thread_id2, v)
    PROVE  KeysFewer(t) /\ ~In(t, k)'
<1>1. /\ Len(tables') = Len(tables) /\ Len(tables) \in Nat
      /\ \A n \in 1 .. Len(tables) : DOMAIN tables'[n] = DOMAIN tables[n]
      /\ t # invalid_thread_id2 /\ invalid_thread_id # invalid_thread_id2
  BY HereIs, IdsAssumption DEF Written
<1>2. PICK r \in DOMAIN tables[k] : r = Slot(k, i)
  BY SlotIn DEF Typed
<1>3. tables[k][r].key = t
  BY <1>2 DEF Key
<1>4. ASSUME NEW n \in 1 .. Len(tables), NEW s \in DOMAIN tables[n]
      PROVE  \/ n = k /\ s = r /\ tables'[n][s].key = invalid_thread_id2
             \/ ~(n = k /\ s = r) /\ tables'[n][s] = tables[n][s]
  BY <1>2 DEF Written
<1>5. KeysFewer(t)
  BY <1>1, <1>4 DEF KeysFewer
<1>6. ASSUME NEW s \in DOMAIN tables[k], tables'[k][s].key = t
      PROVE  FALSE
  <2>1. s # r /\ tables[k][s].key = t
    BY <1>1, <1>4, <1>6
  <2> QED BY <1>3, <2>1 DEF Once
<1>7. ~In(t, k)'
  BY <1>1, <1>6 DEF In
<1> QED BY <1>5, <1>7

LEMMA RemoveStep ==
    ASSUME Typed, [Next]_vars, NEW t \in Threads, Remove(t), Reachable(t), Once(t), Searching(t)
    PROVE  Reachable(t)' /\ Once(t)' /\ Searching(t)'
<1>1. PICK k \in 1 .. Len(tables), i \in Nat, n \in Nat :
         /\ k = local[t].table /\ i = local[t].index /\ n = k - 1 /\ pc[t] = "remove"
         /\ \/ Key(k, i) = t /\ Write(k, i, invalid_thread_id2, Value(k, i))
            \/ Key(k, i) = invalid_thread_id /\ UNCHANGED tables
         /\ \/ k = 1 /\ pc'[t] = "inactive" /\ local'[t] = local[t]
            \/ /\ n \in 1 .. Len(tables) /\ pc'[t] = "remove"
               /\ Is(local'[t], local[t].main, n, HashOf[t], local[t].count, local[t].producer)
  BY RemoveIs
<1>2. HashOf[t] <= i /\ Passed(t, k, i) /\ Unseen(t, k, i) /\ NotAbove(t, k)
  BY <1>1 DEF Searching
<1>3. KeysFewer(t) /\ ~In(t, k)'
  <2>1. CASE Key(k, i) = t /\ Write(k, i, invalid_thread_id2, Value(k, i))
    <3>1. Value(k, i) \in Nat /\ invalid_thread_id2 \in Keys
      BY SlotIn DEF Typed, Keys
    <3>2. Written(k, i, invalid_thread_id2, Value(k, i))
      BY <2>1, <3>1, WriteIs DEF Typed
    <3>3. PICK v \in Nat : v = Value(k, i)
      BY <3>1
    <3> QED BY <2>1, <3>2, <3>3, RemovedFromTable
  <2>2. CASE Key(k, i) = invalid_thread_id /\ UNCHANGED tables
    <3>1. ~In(t, k)
      BY <1>2, <2>2, NotInTable
    <3>2. KeysFewer(t)
      BY <2>2, HereIs DEF KeysFewer
    <3> QED BY <2>2, <3>1, <3>2 DEF In
  <2> QED BY <1>1, <2>1, <2>2
<1>4. Reachable(t)' /\ Once(t)' /\ NotAbove(t, k)'
  BY <1>2, <1>3, PlacesKept
<1>5. NotAbove(t, n)'
  <2>1. Len(tables') \in Nat
    BY <1>3 DEF KeysFewer
  <2>2. \A j \in 1 .. Len(tables') : j > n => j = k \/ j > k
    BY <1>1, <2>1
  <2> QED BY <1>3, <1>4, <2>2 DEF NotAbove
<1>6. CASE k = 1 /\ pc'[t] = "inactive" /\ local'[t] = local[t]
  <2>1. n = 0
    BY <1>1, <1>6
  <2> QED BY <1>4, <1>5, <1>6, <2>1, SearchingNext DEF Unlisted
<1>7. CASE /\ n \in 1 .. Len(tables) /\ pc'[t] = "remove"
           /\ Is(local'[t], local[t].main, n, HashOf[t], local[t].count, local[t].producer)
  <2>1. /\ local'[t].main = local[t].main /\ local'[t].table = n /\ local'[t].index = HashOf[t]
        /\ HashOf[t] \in Nat
    BY <1>7, HashIn DEF Is
  <2>2. Passed(t, n, HashOf[t])' /\ Unseen(t, n, HashOf[t])'
    BY <1>3, <1>7, <2>1, PassedFurther, PlacesKept
  <2>3. HashOf[t] <= HashOf[t]
    BY <2>1
  <2> QED BY <1>4, <1>5, <1>7, <2>1, <2>2, <2>3, SearchingNext DEF Unlisted
<1> QED BY <1>1, <1>6, <1>7

LEMMA AddStep ==
    ASSUME Typed, [Next]_vars, NEW t \in Threads, Copy(t) \/ Insert(t),
           Reachable(t), Once(t), Searching(t)
    PROVE  Reachable(t)' /\ Once(t)' /\ Searching(t)'
<1>1. pc[t] \in {"copy", "insert"} /\ pc'[t] \in {"enqueue", "uncount"}
  <2>1. CASE Copy(t)
    BY <2>1, GoesIs DEF Copy
  <2>2. CASE Insert(t)
    BY <2>2, GoesIs DEF Insert
  <2> QED BY <2>1, <2>2
<1>2. PICK k \in 1 .. Len(tables), i \in Nat, v \in Nat :
          k = local[t].main /\ i = local[t].index /\ v = local[t].producer
  BY <1>1, HereIs DEF LocalTyped, Sought, Inserting
<1>3. Written(k, i, t, v)
  BY <1>2, WriteIs DEF Copy, Insert, Loc, Typed, Keys
<1>4. HashOf[t] <= i /\ Passed(t, k, i)
  BY <1>1, <1>2 DEF Searching
<1>5. ~In(t, k)
  <2>1. PICK j \in Nat : j = local[t].table
    BY HereIs
  <2>2. \/ j < k /\ NotAbove(t, j)
        \/ NotAbove(t, 0)
    BY <1>1, <1>2, <2>1 DEF Searching
  <2>3. k > 0 /\ (j < k => k > j)
    BY <2>1
  <2> QED BY <2>2, <2>3 DEF NotAbove
<1> QED BY <1>1, <1>3, <1>4, <1>5, AddedToTable, SearchingNext DEF Unlisted

LEMMA PlacesStep == Typed /\ Places /\ [Next]_vars => Places'
<1> SUFFICES ASSUME Typed, Places, [Next]_vars, NEW t \in Threads
             PROVE  Reachable(t)' /\ Once(t)' /\ Searching(t)'
  BY DEF Places
<1>1. Reachable(t) /\ Once(t) /\ Searching(t)
  BY DEF Places
<1>2. CASE Copy(t) \/ Insert(t)
  BY <1>1, <1>2, AddStep
<1>3. CASE Remove(t)
  BY <1>1, <1>3, RemoveStep
<1>4. CASE ~Writes(t)
  <2>1. KeysFewer(t)
    BY <1>4, OthersKeep DEF KeysKept
  <2>2. Reachable(t)' /\ Once(t)'
    BY <1>1, <2>1, PlacesKept
  <2>3. CASE Acts(t)
    BY <1>1, <1>4, <2>1, <2>2, <2>3, SearchingStep
  <2>4. CASE ~Acts(t)
    <3>1. pc'[t] = pc[t] /\ local'[t] = local[t]
      BY <2>4, OnlyActs, ActsAlone
    <3> QED BY <1>1, <2>1, <2>2, <3>1, SearchingKept
  <2> QED BY <2>3, <2>4
<1> QED BY <1>2, <1>3, <1>4 DEF Writes
-------------------------------------------------------------------------------
(* Whose the streams are *)

LEMMA ActsFrame ==
    ASSUME NEW t \in Threads, Acts(t)
    PROVE  /\ UNCHANGED destructor
           /\ UNCHANGED listening \/ Subscribe(t) \/ MarkInactive(t)
           /\ UNCHANGED inactive \/ AddProducer(t) \/ Recycle(t) \/ MarkInactive(t)
           /\ UNCHANGED tables \/ Resize(t) \/ Writes(t)
<1> USE DEF Acts, Enqueueing, Exiting, hash, list, Start, Enqueue, Exit, Found, NotHere, Further,
            Copy, CopyFurther, Count, LockResize, NoResize, Resize, ResizeFails, GiveUp, Unlock,
            Room, AwaitTable, Recycle, RecycleNext, AddProducer, AddProducerFails, Subscribe,
            Insert, InsertFurther, Uncount, Put, Callback, Exited, Remove, RemoveFurther,
            MarkInactive, NextListener, NextOfFreed
<1>1. UNCHANGED destructor
  OBVIOUS
<1>2. UNCHANGED listening \/ Subscribe(t) \/ MarkInactive(t)
  OBVIOUS
<1>3. UNCHANGED inactive \/ AddProducer(t) \/ Recycle(t) \/ MarkInactive(t)
  OBVIOUS
<1>4. UNCHANGED tables \/ Resize(t) \/ Writes(t)
  BY DEF Writes
<1> QED BY <1>1, <1>2, <1>3, <1>4

LEMMA StepIs ==
    ASSUME [Next]_vars
    PROVE  UNCHANGED vars \/ Destroying \/ \E t \in Threads : Acts(t)
BY DEF Next, Acts

LEMMA DestroyingFrame ==
    ASSUME Destroying
    PROVE  UNCHANGED <<tables, inactive, pc, local>> /\ destructor'.at # "none"
BY DEF Destroying, Destroy, DestroyInactive, FindsActive, Unsubscribe, DestroyTables, DestroyRest,
       Reaches, hash

LEMMA ListeningIs ==
    ASSUME Typed, NEW t \in Threads, Acts(t)
    PROVE  /\ \A u \in Threads : u # t => listening'[u] = listening[u]
           /\ ~Subscribe(t) /\ ~MarkInactive(t) => listening' = listening
           /\ Subscribe(t) => listening'[t] = listening[t] \cup {local[t].producer}
           /\ MarkInactive(t) => listening'[t] = listening[t] \ {local[t].producer}
<1>1. listening \in [Threads -> SUBSET (1 .. Len(inactive))]
  BY DEF Typed, ListTyped
<1>2. CASE Subscribe(t)
  <2>1. listening' = [listening EXCEPT ![t] = @ \cup {local[t].producer}] /\ pc[t] = "subscribe"
    BY <1>2, SubscribeIs DEF Subscribe, Loc
  <2> QED BY <1>1, <1>2, <2>1 DEF MarkInactive, Goes
<1>3. CASE MarkInactive(t)
  <2>1. listening' = [listening EXCEPT ![t] = @ \ {local[t].producer}] /\ pc[t] = "inactive"
    BY <1>3 DEF MarkInactive, Loc, Goes
  <2> QED BY <1>1, <1>3, <2>1 DEF Subscribe, Goes
<1> QED BY <1>2, <1>3, ActsFrame

LEMMA OwnStep == HashInv /\ [Next]_vars => Own'
<1> SUFFICES ASSUME HashInv, [Next]_vars, NEW t \in Threads,
                    NEW k \in 1 .. Len(tables'), NEW s \in DOMAIN tables'[k],
                    destructor'.at = "none", tables'[k][s].key = t
             PROVE  tables'[k][s].value \in listening'[t]
  BY DEF Own
<1>1. Typed /\ Searching(t) /\ Own /\ Listening
  BY DEF HashInv, Places, Owners
<1>2. CASE Destroying
  BY <1>2, DestroyingFrame
<1>3. ASSUME NEW m \in 1 .. Len(tables), NEW r \in DOMAIN tables[m], UNCHANGED destructor,
             tables[m][r].key = t
      PROVE  tables[m][r].value \in listening[t]
  BY <1>1, <1>3 DEF Own
<1>4. CASE UNCHANGED vars
  <2>1. UNCHANGED <<tables, destructor, listening>>
    BY <1>4 DEF vars, hash, list
  <2>2. k \in 1 .. Len(tables) /\ s \in DOMAIN tables[k] /\ tables[k][s].key = t
    BY <2>1
  <2> QED BY <1>3, <2>1, <2>2
<1>5. ASSUME NEW u \in Threads, Acts(u)
      PROVE  tables'[k][s].value \in listening'[t]
  <2>1. UNCHANGED destructor
    BY <1>5, ActsFrame
  <2>2. CASE ~Writes(t)
    <3>1. KeysKept(t)
      BY <1>1, <2>2, OthersKeep
    <3>2. /\ k \in 1 .. Len(tables) /\ s \in DOMAIN tables[k]
          /\ tables[k][s].key = t /\ tables'[k][s] = tables[k][s]
      BY <3>1 DEF KeysKept, KeysFewer
    <3>3. tables[k][s].value \in listening[t]
      BY <1>3, <2>1, <3>2
    <3>4. ~MarkInactive(t)
      <4>1. MarkInactive(t) => pc[t] = "inactive"
        BY DEF MarkInactive, Goes
      <4>2. pc[t] = "inactive" => ~In(t, k)
        BY <1>1, <3>2 DEF Searching, NotAbove
      <4> QED BY <3>2, <4>1, <4>2 DEF In
    <3>5. listening[t] \subseteq listening'[t]
      BY <1>1, <1>5, <3>4, ListeningIs
    <3> QED BY <3>2, <3>3, <3>5
  <2>3. CASE Writes(t)
    <3>1. listening' = listening
      BY <2>3 DEF Writes, Copy, Insert, Remove, list
    <3>2. CASE UNCHANGED tables
      <4>1. k \in 1 .. Len(tables) /\ s \in DOMAIN tables[k] /\ tables[k][s].key = t
        BY <3>2
      <4> QED BY <1>3, <2>1, <3>1, <3>2, <4>1
    <3>3. ASSUME NEW m \in 1 .. Len(tables), NEW i \in Nat, NEW key \in Keys, NEW v \in Nat,
                 Write(m, i, key, v), key = t => v \in listening[t]
          PROVE  tables'[k][s].value \in listening'[t]
      <4>1. Written(m, i, key, v)
        BY <1>1, <3>3, WriteIs DEF Typed
      <4>2. /\ k \in 1 .. Len(tables) /\ s \in DOMAIN tables[k]
            /\ \/ tables'[k][s] = [key |-> key, value |-> v]
               \/ tables'[k][s] = tables[k][s]
        BY <4>1 DEF Written
      <4>3. CASE tables'[k][s] = [key |-> key, value |-> v]
        <5>1. tables'[k][s].key = key /\ tables'[k][s].value = v
          BY <4>3
        <5> QED BY <3>1, <3>3, <5>1
      <4>4. CASE tables'[k][s] = tables[k][s]
        BY <1>3, <2>1, <3>1, <4>2, <4>4
      <4> QED BY <4>2, <4>3, <4>4
    <3>4. CASE Copy(t) \/ Insert(t)
      <4>1. pc[t] \in {"copy", "insert"}
        BY <3>4 DEF Copy, Insert, Goes
      <4>2. PICK m \in 1 .. Len(tables), i \in Nat, v \in Nat :
                m = local[t].main /\ i = local[t].index /\ v = local[t].producer
        BY <1>1, <4>1, HereIs DEF LocalTyped, Sought, Inserting
      <4>3. Write(m, i, t, v) /\ t \in Keys
        BY <3>4, <4>2 DEF Copy, Insert, Loc, Keys
      <4>4. v \in listening[t]
        BY <1>1, <4>1, <4>2 DEF Listening
      <4> QED BY <3>3, <4>3, <4>4
    <3>5. CASE Remove(t)
      <4>1. PICK m \in 1 .. Len(tables), i \in Nat :
                Write(m, i, invalid_thread_id2, Value(m, i)) \/ UNCHANGED tables
        BY <1>1, <3>5, RemoveIs
      <4>2. PICK v \in Nat : v = Value(m, i)
        BY <1>1, SlotIn DEF Typed
      <4>3. invalid_thread_id2 \in Keys /\ invalid_thread_id2 # t
        BY IdsAssumption DEF Keys
      <4> QED BY <3>2, <3>3, <4>1, <4>2, <4>3
    <3> QED BY <2>3, <3>4, <3>5 DEF Writes
  <2> QED BY <2>2, <2>3
<1> QED BY <1>2, <1>4, <1>5, StepIs

Listed(t) == \E k \in 1 .. Len(tables) : In(t, k)

LEMMA StillListed ==
    ASSUME Typed, [Next]_vars, NEW t \in Threads, ~Remove(t)
    PROVE  /\ Listed(t) => Listed(t)'
           /\ Copy(t) \/ Insert(t) => Listed(t)'
<1>1. CASE ~Writes(t)
  <2>1. KeysKept(t)
    BY <1>1, OthersKeep
  <2>2. ASSUME NEW k \in 1 .. Len(tables), In(t, k)
        PROVE  k \in 1 .. Len(tables') /\ In(t, k)'
    <3>1. k \in 1 .. Len(tables') /\ DOMAIN tables'[k] = DOMAIN tables[k]
      BY <2>1 DEF KeysKept, KeysFewer
    <3>2. PICK s \in DOMAIN tables[k] : tables[k][s].key = t
      BY <2>2 DEF In
    <3>3. tables'[k][s] = tables[k][s]
      BY <2>1, <3>2 DEF KeysKept
    <3> QED BY <3>1, <3>2, <3>3 DEF In
  <2> QED BY <1>1, <2>2 DEF Listed, Writes
<1>2. CASE Copy(t) \/ Insert(t)
  <2>1. pc[t] \in {"copy", "insert"}
    BY <1>2 DEF Copy, Insert, Goes
  <2>2. PICK m \in 1 .. Len(tables), i \in Nat, v \in Nat :
            m = local[t].main /\ i = local[t].index /\ v = local[t].producer
    BY <2>1, HereIs DEF LocalTyped, Sought, Inserting
  <2>3. Write(m, i, t, v) /\ t \in Keys
    BY <1>2, <2>2 DEF Copy, Insert, Loc, Keys
  <2>4. Written(m, i, t, v) /\ Slot(m, i) \in DOMAIN tables[m]
    BY <2>3, WriteIs, SlotIn DEF Typed
  <2>5. PICK s \in DOMAIN tables[m] : s = Slot(m, i)
    BY <2>4
  <2>6. /\ m \in 1 .. Len(tables') /\ s \in DOMAIN tables'[m]
        /\ tables'[m][s] = [key |-> t, value |-> v]
    BY <2>4, <2>5 DEF Written
  <2>7. tables'[m][s].key = t
    BY <2>6
  <2> QED BY <2>6, <2>7 DEF Listed, In
<1> QED BY <1>1, <1>2 DEF Writes

ListeningOf(t) ==
    /\ \A p, q \in listening[t] : p = q
    /\ pc[t] \in Unlisted \cup {"next", "absent"} => listening[t] = {}
    /\ pc[t] \in {"insert", "copy", "enqueue", "uncount", "remove", "inactive"} =>
          local[t].producer \in listening[t]
    /\ pc[t] \in {"idle", "search", "copy", "enqueue", "uncount"} /\ destructor.at = "none"
          /\ listening[t] # {} => Listed(t)

LEMMA ListeningActs ==
    ASSUME HashInv, [Next]_vars, NEW t \in Threads, Acts(t)
    PROVE  ListeningOf(t)'
<1> USE DEF Unlisted
<1>1. /\ Typed /\ Searching(t)' /\ ListeningOf(t) /\ Own
      /\ UNCHANGED destructor
      /\ pc[t] \notin {"idle", "absent"} \cup ExitSteps => destructor.at = "none"
  <2>1. Places'
    BY PlacesStep DEF HashInv
  <2>2. ListeningOf(t)
    BY DEF HashInv, Owners, Listening, ListeningOf, Listed
  <2> QED BY <2>1, <2>2, ActsFrame DEF HashInv, Places, Owners, Ending
<1>2. /\ \A p, q \in listening[t] : p = q
      /\ pc[t] \in Unlisted \cup {"next", "absent"} => listening[t] = {}
      /\ pc[t] \in {"insert", "copy", "enqueue", "uncount", "remove", "inactive"} =>
            local[t].producer \in listening[t]
      /\ pc[t] \in {"idle", "search", "copy", "enqueue", "uncount"} /\ destructor.at = "none"
            /\ listening[t] # {} => Listed(t)
  BY <1>1 DEF ListeningOf
<1>3. ASSUME listening' = listening, pc'[t] \in {"exit", "undefined"}
      PROVE  ListeningOf(t)'
  BY <1>2, <1>3 DEF ListeningOf
<1>4. ASSUME listening' = listening, pc[t] \in Unlisted \cup {"absent"},
             pc'[t] \in Unlisted \cup {"idle", "absent"}
      PROVE  ListeningOf(t)'
  BY <1>2, <1>4 DEF ListeningOf
<1>5. ASSUME listening' = listening, pc'[t] \in {"insert", "remove", "inactive"},
             local'[t].producer \in listening[t]
      PROVE  ListeningOf(t)'
  BY <1>2, <1>5 DEF ListeningOf
<1>6. ASSUME listening' = listening, pc'[t] \in {"idle", "search", "copy", "enqueue", "uncount"},
             pc'[t] \in {"copy", "enqueue", "uncount"} => local'[t].producer \in listening[t],
             destructor.at = "none" /\ listening[t] # {} => Listed(t)'
      PROVE  ListeningOf(t)'
  BY <1>1, <1>2, <1>6 DEF ListeningOf
<1>7. /\ ~Subscribe(t) /\ ~MarkInactive(t) => listening' = listening
      /\ Subscribe(t) => listening'[t] = listening[t] \cup {local[t].producer}
      /\ MarkInactive(t) => listening'[t] = listening[t] \ {local[t].producer}
      /\ Subscribe(t) => pc[t] = "subscribe" /\ pc'[t] = "insert"
      /\ MarkInactive(t) => pc[t] = "inactive" /\ pc'[t] = "next"
      /\ Remove(t) => pc[t] = "remove"
  BY <1>1, ListeningIs, GoesIs DEF Subscribe, MarkInactive, Remove
<1>8. ~Remove(t) => (Listed(t) => Listed(t)') /\ (Copy(t) \/ Insert(t) => Listed(t)')
  BY <1>1, StillListed
<1>9. CASE Enqueue(t)
  <2>1. pc[t] = "idle" /\ pc'[t] = "search"
    BY <1>1, <1>9, EnqueueIs
  <2> QED BY <1>2, <1>6, <1>7, <1>8, <2>1
<1>10. CASE Found(t)
  <2>1. PICK k \in 1 .. Len(tables), i \in Nat :
           /\ Key(k, i) = t /\ local'[t].producer = Value(k, i)
           /\ pc[t] = "search" /\ pc'[t] \in {"copy", "enqueue"}
    BY <1>1, <1>10, FoundIs DEF Is
  <2>2. PICK s \in DOMAIN tables[k] : s = Slot(k, i)
    BY <1>1, SlotIn DEF Typed
  <2>3. Value(k, i) \in listening[t]
    BY <1>1, <2>1, <2>2 DEF Own, Key, Value, ExitSteps
  <2> QED BY <1>2, <1>6, <1>7, <1>8, <2>1, <2>3
<1>11. CASE NotHere(t)
  <2>1. pc[t] = "search" /\ pc'[t] \in {"count", "search"}
    BY <1>1, <1>11, NotHereIs
  <2>2. CASE pc'[t] = "count"
    <3>1. ~Listed(t)'
      BY <1>1, <2>2 DEF Searching, NotAbove, Listed
    <3>2. listening[t] = {} /\ listening' = listening
      BY <1>1, <1>2, <1>7, <1>8, <2>1, <3>1 DEF ExitSteps
    <3> QED BY <2>2, <3>2 DEF ListeningOf
  <2>3. CASE pc'[t] = "search"
    BY <1>2, <1>6, <1>7, <1>8, <2>1, <2>3
  <2> QED BY <2>1, <2>2, <2>3
<1>12. CASE FurtherSteps(t)
  <2>1. /\ pc[t] \in {"search", "copy", "insert", "remove"} /\ pc'[t] = pc[t]
        /\ local'[t].producer = local[t].producer
    BY <1>1, <1>12, FurtherIs
    DEF Is, FurtherSteps, Further, CopyFurther, InsertFurther, RemoveFurther
  <2>2. ~Remove(t) \/ pc[t] = "remove"
    BY <1>7
  <2> QED BY <1>2, <1>5, <1>6, <1>7, <1>8, <2>1, <2>2
<1>13. CASE Count(t)
  BY <1>1, <1>4, <1>7, <1>13, CountIs
<1>14. CASE Resize(t) \/ AwaitTable(t)
  BY <1>1, <1>4, <1>7, <1>14, MainIs
<1>15. CASE ForgetSteps(t)
  <2>1. \/ pc[t] \in {"giveUp", "recycle"} /\ pc'[t] = "idle"
        \/ pc[t] = "enqueue" /\ pc'[t] = "idle"
        \/ Exited(t) /\ pc[t] = "exit" /\ pc'[t] = "absent"
        \/ pc[t] = "next" /\ pc'[t] = "exit"
    BY <1>1, <1>15, ForgetGoes
  <2>2. CASE Exited(t) /\ pc[t] = "exit" /\ pc'[t] = "absent"
    <3>1. listening[t] = {} /\ listening' = listening
      BY <1>7, <2>2 DEF Exited
    <3> QED BY <2>2, <3>1 DEF ListeningOf
  <2> QED BY <1>2, <1>3, <1>4, <1>6, <1>7, <1>8, <2>1, <2>2
<1>16. CASE ProducerSteps(t)
  BY <1>1, <1>4, <1>7, <1>16, ProducerIs
<1>17. CASE Subscribe(t)
  <2>1. /\ pc[t] = "subscribe" /\ pc'[t] = "insert" /\ local'[t].producer = local[t].producer
    BY <1>1, <1>17, SubscribeIs DEF Is
  <2>2. listening'[t] = {local[t].producer}
    BY <1>2, <1>7, <1>17, <2>1
  <2> QED BY <2>1, <2>2 DEF ListeningOf
<1>18. CASE Callback(t)
  <2>1. PICK p \in listening[t] : pc'[t] = "remove" /\ local'[t].producer = p /\ pc[t] = "exit"
    BY <1>1, <1>18, CallbackIs DEF Is
  <2> QED BY <1>5, <1>7, <2>1
<1>19. CASE Remove(t)
  <2>1. /\ pc[t] = "remove" /\ pc'[t] \in {"remove", "inactive"}
        /\ local'[t].producer = local[t].producer
    BY <1>1, <1>19, RemoveIs DEF Is
  <2> QED BY <1>2, <1>5, <1>7, <2>1
<1>20. CASE MarkInactive(t)
  <2>1. listening'[t] = {} /\ pc'[t] = "next"
    BY <1>2, <1>7, <1>20
  <2> QED BY <2>1 DEF ListeningOf
<1>21. CASE QuietSteps(t) /\ ~MarkInactive(t)
  <2>1. /\ local'[t] = local[t]
        /\ \/ pc[t] = "absent" /\ pc'[t] = "idle"
           \/ Copy(t) /\ pc[t] = "copy" /\ pc'[t] = "enqueue"
           \/ pc[t] \in Unlisted /\ pc'[t] \in Unlisted
           \/ Insert(t) /\ pc[t] = "insert" /\ pc'[t] \in {"enqueue", "uncount"}
           \/ pc[t] = "uncount" /\ pc'[t] = "enqueue"
           \/ pc'[t] \in {"exit", "undefined"} /\ pc[t] \in {"idle", "next"}
    BY <1>1, <1>21, QuietIs
  <2> QED BY <1>2, <1>3, <1>4, <1>6, <1>7, <1>8, <2>1
<1> QED BY <1>9, <1>10, <1>11, <1>12, <1>13, <1>14, <1>15, <1>16, <1>17, <1>18, <1>19, <1>20,
           <1>21,
           ActsAre

LEMMA ListeningStep == HashInv /\ [Next]_vars => Listening'
<1> SUFFICES ASSUME HashInv, [Next]_vars, NEW t \in Threads
             PROVE  ListeningOf(t)'
  BY DEF Listening, ListeningOf, Listed
<1>1. Typed /\ ListeningOf(t) /\ Ending
  BY DEF HashInv, Owners, Listening, ListeningOf, Listed
<1>2. CASE Acts(t)
  BY <1>2, ListeningActs
<1>3. CASE ~Acts(t)
  <2>1. pc'[t] = pc[t] /\ local'[t] = local[t]
    BY <1>1, <1>3, OnlyActs, ActsAlone
  <2>2. Listed(t) => Listed(t)'
    <3>1. ~Remove(t)
      BY <1>3 DEF Acts, Exiting
    <3> QED BY <1>1, <3>1, StillListed
  <2>3. CASE UNCHANGED destructor /\ listening'[t] = listening[t]
    BY <1>1, <2>1, <2>2, <2>3 DEF ListeningOf
  <2>4. CASE Destroying
    <3>1. CASE Unsubscribe
      <4>1. pc[t] \in {"idle", "absent"} /\ destructor'.at # "none"
        BY <1>1, <2>4, <3>1, DestroyingFrame DEF Unsubscribe, MutexFree, Ending
      <4>2. listening'[t] \subseteq listening[t]
        BY <3>1 DEF Unsubscribe
      <4> QED BY <1>1, <2>1, <4>1, <4>2 DEF ListeningOf, Unlisted
    <3>2. CASE ~Unsubscribe
      <4>1. listening' = listening /\ destructor'.at # "none"
        BY <2>4, <3>2, DestroyingFrame
        DEF Destroying, Destroy, DestroyInactive, FindsActive, DestroyTables
      <4> QED BY <1>1, <2>1, <4>1 DEF ListeningOf
    <3> QED BY <3>1, <3>2
  <2>5. CASE UNCHANGED vars
    BY <2>3, <2>5 DEF vars, list
  <2>6. ASSUME NEW u \in Threads, Acts(u)
        PROVE  UNCHANGED destructor /\ listening'[t] = listening[t]
    BY <1>1, <1>3, <2>6, ActsFrame, ListeningIs
  <2> QED BY <2>3, <2>4, <2>5, <2>6, StepIs
<1> QED BY <1>2, <1>3

LEMMA ExitGoes ==
    ASSUME Typed, NEW t \in Threads, Acts(t), destructor.at # "none",
           pc[t] \in {"idle", "absent"} \cup ExitSteps
    PROVE  pc'[t] \in {"idle", "absent"} \cup ExitSteps
<1> USE DEF ExitSteps
<1>1. CASE Enqueue(t) \/ Found(t) \/ NotHere(t)
  BY <1>1, EnqueueIs, FoundIs, NotHereIs
<1>2. CASE FurtherSteps(t) \/ Count(t) \/ Resize(t) \/ AwaitTable(t)
  BY <1>2, FurtherIs, CountIs, MainIs
<1>3. CASE ForgetSteps(t) \/ ProducerSteps(t) \/ Subscribe(t)
  BY <1>3, ForgetGoes, ProducerIs, SubscribeIs
<1>4. CASE Callback(t) \/ Remove(t)
  BY <1>4, CallbackIs, RemoveIs
<1>5. CASE QuietSteps(t)
  BY <1>5, QuietIs
<1> QED BY <1>1, <1>2, <1>3, <1>4, <1>5, ActsAre

LEMMA FreedIs ==
    ASSUME ListTyped
    PROVE  \A p \in 1 .. Len(inactive) :
              p \in Freed <=> destructor.at # "none" /\ p > destructor.producer
BY DEF ListTyped, Freed

LEMMA StreamsIn ==
    ASSUME Typed, NEW t \in Threads
    PROVE  Streams(t) \subseteq 1 .. Len(inactive)
<1>1. pc[t] = "subscribe" => local[t].producer \in 1 .. Len(inactive)
  BY HereIs DEF LocalTyped
<1>2. listening[t] \subseteq 1 .. Len(inactive)
  BY DEF Typed, ListTyped
<1> QED BY <1>1, <1>2 DEF Streams

LEMMA EndingStep == HashInv /\ [Next]_vars => Ending'
<1> SUFFICES ASSUME HashInv, [Next]_vars
             PROVE  Ending'
  OBVIOUS
<1>1. /\ Typed /\ Ending /\ Apart
      /\ \A t \in Threads : pc[t] \in Unlisted => listening[t] = {}
  BY DEF HashInv, Owners, Listening
<1>2. /\ destructor.producer \in Nat /\ Len(inactive) \in Nat /\ Len(inactive') \in Nat
      /\ Len(inactive) <= Len(inactive')
  BY <1>1, ListGrows DEF Typed, ListTyped
<1>3. \A p \in 1 .. Len(inactive) : p \in Freed <=> destructor.at # "none" /\ p > destructor.producer
  BY <1>1, FreedIs DEF Typed
<1>4. \A p \in 1 .. Len(inactive') : p \in Freed' <=> destructor'.at # "none" /\ p > destructor'.producer
  <2>1. ListTyped'
    BY <1>1, ListTypedStep
  <2> QED BY <2>1 DEF ListTyped, Freed
<1>5. ASSUME NEW t \in Threads
      PROVE  listening[t] \subseteq 1 .. Len(inactive) /\ listening[t] \subseteq Streams(t)
  BY <1>1 DEF Typed, ListTyped, Streams
<1>6. Freed' \subseteq 1 .. Len(inactive')
  BY <1>1, ListGrows DEF Freed
<1>7. ASSUME UNCHANGED destructor,
             \A t \in Threads : destructor.at # "none" =>
                pc'[t] \in {"idle", "absent"} \cup ExitSteps /\ listening'[t] \subseteq listening[t]
      PROVE  Ending'
  <2>1. ASSUME NEW t \in Threads, NEW p \in listening'[t] \cap Freed'
        PROVE  FALSE
    <3>1. destructor.at # "none" /\ p > destructor.producer
      BY <1>4, <1>6, <1>7, <2>1
    <3>2. p \in listening[t] /\ p \in 1 .. Len(inactive)
      BY <1>5, <1>7, <2>1, <3>1
    <3>3. p \in Freed
      BY <1>3, <3>1, <3>2
    <3> QED BY <1>1, <3>2, <3>3 DEF Ending
  <2>2. destructor'.at = "done" => destructor'.producer = 0
    BY <1>1, <1>7 DEF Ending
  <2> QED BY <1>7, <2>1, <2>2 DEF Ending
<1>8. CASE UNCHANGED vars
  <2>1. UNCHANGED <<destructor, listening, pc>>
    BY <1>8 DEF vars, list
  <2> QED BY <1>1, <1>7, <2>1 DEF Ending
<1>9. ASSUME NEW u \in Threads, Acts(u)
      PROVE  Ending'
  <2>1. UNCHANGED destructor
    BY <1>9, ActsFrame
  <2>2. ASSUME NEW t \in Threads, destructor.at # "none"
        PROVE  pc'[t] \in {"idle", "absent"} \cup ExitSteps /\ listening'[t] \subseteq listening[t]
    <3>1. pc[t] \in {"idle", "absent"} \cup ExitSteps
      BY <1>1, <2>2 DEF Ending
    <3>2. pc'[t] \in {"idle", "absent"} \cup ExitSteps
      <4>1. CASE t = u
        BY <1>1, <1>9, <2>2, <3>1, <4>1, ExitGoes
      <4>2. CASE t # u
        BY <1>1, <1>9, <3>1, <4>2, ActsAlone
      <4> QED BY <4>1, <4>2
    <3>3. ~Subscribe(t)
      BY <3>1 DEF Subscribe, Goes, ExitSteps
    <3>4. listening'[t] \subseteq listening[t]
      <4>1. CASE t = u
        BY <1>1, <1>9, <3>3, <4>1, ListeningIs
      <4>2. CASE t # u
        BY <1>1, <1>9, <4>2, ListeningIs
      <4> QED BY <4>1, <4>2
    <3> QED BY <3>2, <3>4
  <2> QED BY <1>7, <2>1, <2>2
<1>10. CASE Destroying
  <2>1. pc' = pc /\ inactive' = inactive
    BY <1>10, DestroyingFrame
  <2>2. /\ \A t \in Threads : pc'[t] \in {"idle", "absent"} \cup ExitSteps
        /\ destructor'.at = "done" => destructor'.producer = 0
    BY <1>1, <1>10, <2>1
   
    DEF Ending, Destroying, Destroy, DestroyInactive, FindsActive, Unsubscribe, DestroyTables,
        Reaches
  <2>3. ASSUME NEW t \in Threads, NEW p \in listening'[t]
        PROVE  p <= destructor'.producer /\ p \in 1 .. Len(inactive)
    <3>1. CASE Destroy
      <4>1. listening' = listening /\ destructor'.producer = Len(inactive)
        BY <3>1 DEF Destroy, Reaches
      <4> QED BY <1>2, <1>5, <2>3, <4>1
    <3>2. p \in listening[t] /\ p \in 1 .. Len(inactive)
      BY <1>5, <1>10, <2>3
      DEF Destroying, Destroy, DestroyInactive, FindsActive, Unsubscribe, DestroyTables
    <3>3. CASE destructor.at # "none"
      <4>1. p <= destructor.producer
        BY <1>1, <1>2, <1>3, <3>2, <3>3 DEF Ending
      <4>2. CASE DestroyInactive
        <5>1. PICK q \in 1 .. Len(inactive) : q = destructor.producer
          BY <1>1, <1>2, <4>2 DEF DestroyInactive, Typed, ListTyped
        <5>2. q \notin Freed /\ q \in DOMAIN inactive
          BY <1>1, <1>3, <5>1 DEF Typed, ListTyped
        <5>3. inactive[q]
          BY <4>2, <5>1 DEF DestroyInactive
        <5>4. q \notin listening[t]
          BY <1>1, <1>5, <5>2, <5>3 DEF Apart
        <5>5. destructor'.producer = q - 1
          BY <4>2, <5>1 DEF DestroyInactive, Reaches
        <5> QED BY <1>2, <3>2, <4>1, <5>1, <5>4, <5>5
      <4>3. CASE Unsubscribe
        <5>1. p # destructor.producer /\ destructor'.producer = destructor.producer - 1
          BY <2>3, <4>3 DEF Unsubscribe, Reaches
        <5> QED BY <1>2, <3>2, <4>1, <5>1
      <4>4. CASE FindsActive \/ DestroyTables
        <5>1. destructor'.producer = destructor.producer
          BY <4>4 DEF FindsActive, DestroyTables, Reaches
        <5> QED BY <3>2, <4>1, <5>1
      <4> QED BY <1>10, <3>1, <4>2, <4>3, <4>4 DEF Destroying
    <3> QED BY <1>10, <3>1, <3>3
        DEF Destroying, DestroyInactive, FindsActive, Unsubscribe, DestroyTables
  <2>4. ASSUME NEW t \in Threads
        PROVE  listening'[t] \cap Freed' = {}
    <3>1. destructor'.producer \in Nat
      <4>1. ListTyped'
        BY <1>1, ListTypedStep
      <4> QED BY <4>1, <1>2 DEF ListTyped
    <3>2. \A p \in listening'[t] : p \notin Freed'
      BY <1>4, <2>1, <2>3, <3>1
    <3> QED BY <3>2
  <2> QED BY <2>2, <2>4 DEF Ending
<1> QED BY <1>8, <1>9, <1>10, StepIs

Unused(p) == \A t \in Threads : p \notin Streams(t)

\* The steps of a thread that give it a stream or take the one it has.
LEMMA StreamsActs ==
    ASSUME HashInv, NEW t \in Threads, Acts(t)
    PROVE  /\ \A u \in Threads : u # t => Streams(u)' = Streams(u)
           /\ Recycle(t) \/ AddProducer(t) =>
                 Streams(t) = {} /\ Streams(t)' = {local'[t].producer} /\ destructor.at = "none"
           /\ MarkInactive(t) => Streams(t) = {local[t].producer} /\ Streams(t)' = {}
           /\ ~Recycle(t) /\ ~AddProducer(t) /\ ~MarkInactive(t) => Streams(t)' = Streams(t)
<1>1. /\ Typed /\ Ending
      /\ \A p, q \in listening[t] : p = q
      /\ pc[t] \in {"recycle", "subscribe"} => listening[t] = {}
      /\ pc[t] = "inactive" => local[t].producer \in listening[t]
  BY DEF HashInv, Owners, Listening, Unlisted
<1>2. ASSUME NEW u \in Threads, u # t
      PROVE  Streams(u)' = Streams(u)
  BY <1>1, <1>2, ActsAlone, ListeningIs DEF Streams
<1>3. CASE Recycle(t) \/ AddProducer(t)
  <2>1. pc[t] = "recycle" /\ pc'[t] = "subscribe"
    BY <1>1, <1>3, GoesIs DEF Recycle, AddProducer
  <2>2. listening' = listening /\ ~MarkInactive(t)
    BY <1>3, <2>1 DEF Recycle, AddProducer, MarkInactive, Goes
  <2> QED BY <1>1, <1>2, <1>3, <2>1, <2>2 DEF Streams, Ending, ExitSteps
<1>4. CASE MarkInactive(t)
  <2>1. pc[t] = "inactive" /\ pc'[t] = "next" /\ listening'[t] = listening[t] \ {local[t].producer}
    BY <1>1, <1>4, GoesIs, ListeningIs DEF MarkInactive
  <2>2. ~Recycle(t) /\ ~AddProducer(t)
    BY <2>1 DEF Recycle, AddProducer, Goes
  <2> QED BY <1>1, <1>2, <1>4, <2>1, <2>2 DEF Streams
<1>5. CASE Subscribe(t)
  <2>1. pc[t] = "subscribe" /\ pc'[t] = "insert" /\ listening'[t] = listening[t] \cup {local[t].producer}
    BY <1>1, <1>5, SubscribeIs, ListeningIs
  <2>2. ~Recycle(t) /\ ~AddProducer(t) /\ ~MarkInactive(t)
    BY <2>1 DEF Recycle, AddProducer, MarkInactive, Goes
  <2> QED BY <1>2, <2>1, <2>2 DEF Streams
<1>6. CASE ~(Recycle(t) \/ AddProducer(t) \/ MarkInactive(t) \/ Subscribe(t))
  <2>1. listening' = listening
    BY <1>6, ActsFrame
  <2>2. pc[t] # "subscribe" /\ pc'[t] # "subscribe"
    <3>1. CASE Enqueue(t) \/ Found(t) \/ NotHere(t)
      BY <1>1, <3>1, EnqueueIs, FoundIs, NotHereIs
    <3>2. CASE FurtherSteps(t) \/ Count(t) \/ Resize(t) \/ AwaitTable(t)
      <4>1. (pc'[t] = pc[t] /\ pc[t] # "subscribe") \/ ~FurtherSteps(t)
        BY DEF FurtherSteps, Further, CopyFurther, InsertFurther, RemoveFurther
      <4> QED BY <1>1, <3>2, <4>1, CountIs, MainIs
    <3>3. CASE ForgetSteps(t) \/ Callback(t) \/ Remove(t)
      BY <1>1, <3>3, ForgetGoes, CallbackIs, RemoveIs
    <3>4. CASE ProducerSteps(t)
      BY <1>1, <1>6, <3>4, GoesIs DEF ProducerSteps, Room, RecycleNext
    <3>5. CASE QuietSteps(t)
      BY <1>1, <1>6, <3>5, QuietIs
    <3> QED BY <1>6, <3>1, <3>2, <3>3, <3>4, <3>5, ActsAre
  <2> QED BY <1>2, <1>6, <2>1, <2>2 DEF Streams
<1> QED BY <1>3, <1>4, <1>5, <1>6

\* A step that leaves the streams as they are, or frees some of them.
LEMMA ApartKept ==
    ASSUME Apart, UNCHANGED inactive, Freed \subseteq Freed',
           \A t \in Threads : Streams(t)' \subseteq Streams(t),
           \A t \in Threads : \A p \in Streams(t) : p \in Streams(t)' \/ p \in Freed'
    PROVE  Apart'
<1>1. ASSUME NEW t \in Threads, NEW u \in Threads, NEW p \in Streams(t)', p \in Streams(u)'
      PROVE  t = u
  BY <1>1 DEF Apart
<1>2. ASSUME NEW p \in DOMAIN inactive, p \notin Freed'
      PROVE  inactive'[p] <=> \A t \in Threads : p \notin Streams(t)'
  <2>1. inactive[p] <=> \A t \in Threads : p \notin Streams(t)
    BY <1>2 DEF Apart
  <2>2. \A t \in Threads : p \in Streams(t) <=> p \in Streams(t)'
    BY <1>2
  <2>3. inactive'[p] <=> inactive[p]
    OBVIOUS
  <2> QED BY <2>1, <2>2, <2>3
<1> QED BY <1>1, <1>2 DEF Apart

\* A step by which thread t takes a stream that nobody has.
LEMMA ApartTaken ==
    ASSUME Apart, NEW t \in Threads, NEW p, \A u \in Threads : p \notin Streams(u),
           Streams(t) = {}, Streams(t)' = {p},
           \A u \in Threads : u # t => Streams(u)' = Streams(u),
           Freed = {}, ~inactive'[p],
           \A q \in DOMAIN inactive' : q # p => q \in DOMAIN inactive /\ (inactive'[q] <=> inactive[q])
    PROVE  Apart'
<1>1. ASSUME NEW u \in Threads, NEW v \in Threads, NEW q \in Streams(u)', q \in Streams(v)'
      PROVE  u = v
  <2>1. CASE q = p
    BY <1>1, <2>1
  <2>2. CASE q # p
    <3>1. u # t /\ v # t
      BY <1>1, <2>2
    <3> QED BY <1>1, <3>1 DEF Apart
  <2> QED BY <2>1, <2>2
<1>2. ASSUME NEW q \in DOMAIN inactive'
      PROVE  inactive'[q] <=> \A u \in Threads : q \notin Streams(u)'
  <2>1. CASE q = p
    BY <2>1
  <2>2. CASE q # p
    <3>1. q \in DOMAIN inactive /\ (inactive'[q] <=> inactive[q])
      BY <2>2
    <3>2. inactive[q] <=> \A u \in Threads : q \notin Streams(u)
      BY <3>1 DEF Apart
    <3>3. \A u \in Threads : q \in Streams(u) <=> q \in Streams(u)'
      BY <2>2
    <3> QED BY <3>1, <3>2, <3>3
  <2> QED BY <2>1, <2>2
<1> QED BY <1>1, <1>2 DEF Apart

LEMMA ApartActs ==
    ASSUME HashInv, NEW t \in Threads, Acts(t)
    PROVE  Apart'
<1>1. /\ Typed /\ Ending /\ Apart /\ UNCHANGED destructor /\ LocalTyped(t)
      /\ inactive \in Seq(BOOLEAN) /\ Len(inactive) \in Nat /\ DOMAIN inactive = 1 .. Len(inactive)
      /\ local[t].producer \in 0 .. Len(inactive)
      /\ pc[t] = "inactive" => local[t].producer # 0
  BY HereIs, ActsFrame DEF HashInv, Owners, Typed, ListTyped, LocalTyped
<1>2. /\ \A u \in Threads : u # t => Streams(u)' = Streams(u)
      /\ Recycle(t) \/ AddProducer(t) =>
            Streams(t) = {} /\ Streams(t)' = {local'[t].producer} /\ destructor.at = "none"
      /\ MarkInactive(t) => Streams(t) = {local[t].producer} /\ Streams(t)' = {}
      /\ ~Recycle(t) /\ ~AddProducer(t) /\ ~MarkInactive(t) => Streams(t)' = Streams(t)
  BY StreamsActs
<1>3. /\ destructor.at = "none" => Freed = {}
      /\ DOMAIN inactive' = DOMAIN inactive => Freed' = Freed
  BY <1>1 DEF Freed
<1>4. ASSUME NEW p \in 1 .. Len(inactive), NEW b \in BOOLEAN, inactive' = [inactive EXCEPT ![p] = b]
      PROVE  /\ DOMAIN inactive' = DOMAIN inactive /\ (inactive'[p] <=> b)
             /\ \A q \in DOMAIN inactive : q # p => (inactive'[q] <=> inactive[q])
  <2>1. DOMAIN inactive' = DOMAIN inactive
    BY <1>4
  <2>2. inactive'[p] = b
    BY <1>1, <1>4
  <2>3. \A q \in DOMAIN inactive : q # p => inactive'[q] = inactive[q]
    BY <1>1, <1>4
  <2> QED BY <2>1, <2>2, <2>3
<1>5. CASE Recycle(t)
  <2>1. PICK p \in 1 .. Len(inactive) : p = local[t].producer
    BY <1>1, <1>5 DEF Recycle, Loc
  <2>2. inactive[p] /\ inactive' = [inactive EXCEPT ![p] = FALSE] /\ local' = local
    BY <1>5, <2>1 DEF Recycle, Loc
  <2>3. /\ DOMAIN inactive' = DOMAIN inactive /\ ~inactive'[p]
        /\ \A q \in DOMAIN inactive : q # p => (inactive'[q] <=> inactive[q])
    BY <1>4, <2>2
  <2>4. \A u \in Threads : p \notin Streams(u)
    BY <1>1, <1>2, <1>3, <1>5, <2>2 DEF Apart
  <2>5. Streams(t) = {} /\ Streams(t)' = {p} /\ Freed = {}
    BY <1>2, <1>3, <1>5, <2>1, <2>2
  <2> QED BY <1>1, <1>2, <2>3, <2>4, <2>5, ApartTaken
<1>6. CASE AddProducer(t)
  <2>1. PICK p \in Nat : p = Len(inactive) + 1
    BY <1>1
  <2>2. /\ DOMAIN inactive' = 1 .. Len(inactive) + 1 /\ inactive'[Len(inactive) + 1] = FALSE
        /\ \A q \in 1 .. Len(inactive) : inactive'[q] = inactive[q]
    <3>1. inactive' = Append(inactive, FALSE)
      BY <1>6 DEF AddProducer
    <3> QED BY <1>1, <3>1, AppendProperties
  <2>3. local'[t].producer = p
    <3>1. local'[t] = [local[t] EXCEPT !.producer = p]
      BY <1>1, <1>6, <2>1, SetsIs DEF AddProducer, Loc
    <3>2. Is(local'[t], local[t].main, local[t].table, local[t].index, local[t].count, p)
      BY <1>1, <2>1, <3>1, HereIs, LocalsSet
    <3> QED BY <3>2 DEF Is
  <2>4. \A q \in DOMAIN inactive' : q # p => q \in DOMAIN inactive /\ (inactive'[q] <=> inactive[q])
    <3>1. \A q \in DOMAIN inactive' : q # p => q \in 1 .. Len(inactive)
      BY <1>1, <2>1, <2>2
    <3>2. \A q \in 1 .. Len(inactive) : inactive'[q] <=> inactive[q]
      BY <2>2
    <3> QED BY <1>1, <3>1, <3>2
  <2>5. \A u \in Threads : p \notin Streams(u)
    <3>1. p \notin 1 .. Len(inactive)
      BY <1>1, <2>1
    <3> QED BY <1>1, <3>1, StreamsIn
  <2>6. Streams(t) = {} /\ Streams(t)' = {p} /\ Freed = {} /\ ~inactive'[p]
    BY <1>2, <1>3, <1>6, <2>1, <2>2, <2>3
  <2> QED BY <1>1, <1>2, <2>4, <2>5, <2>6, ApartTaken
<1>7. CASE MarkInactive(t)
  <2>1. PICK p \in 1 .. Len(inactive) : p = local[t].producer
    BY <1>1, <1>7 DEF MarkInactive, Goes
  <2>2. inactive' = [inactive EXCEPT ![p] = TRUE]
    BY <1>7, <2>1 DEF MarkInactive, Loc
  <2>3. /\ DOMAIN inactive' = DOMAIN inactive /\ inactive'[p] /\ Freed' = Freed
        /\ \A q \in DOMAIN inactive : q # p => (inactive'[q] <=> inactive[q])
    BY <1>3, <1>4, <2>2
  <2>4. Streams(t) = {p} /\ Streams(t)' = {}
    BY <1>2, <1>7, <2>1
  <2>5. ASSUME NEW u \in Threads, NEW v \in Threads, NEW q \in Streams(u)', q \in Streams(v)'
        PROVE  u = v
    <3>1. u # t /\ v # t
      BY <2>4, <2>5
    <3> QED BY <1>1, <1>2, <2>5, <3>1 DEF Apart
  <2>6. ASSUME NEW q \in DOMAIN inactive', q \notin Freed'
        PROVE  inactive'[q] <=> \A u \in Threads : q \notin Streams(u)'
    <3>1. CASE q = p
      <4>1. \A u \in Threads : u # t => p \notin Streams(u)
        BY <1>1, <2>4 DEF Apart
      <4>2. \A u \in Threads : p \notin Streams(u)'
        BY <1>2, <2>4, <4>1
      <4> QED BY <2>3, <3>1, <4>2
    <3>2. CASE q # p
      <4>1. inactive'[q] <=> inactive[q]
        BY <2>3, <2>6, <3>2
      <4>2. inactive[q] <=> \A u \in Threads : q \notin Streams(u)
        BY <1>1, <2>3, <2>6 DEF Apart
      <4>3. \A u \in Threads : q \in Streams(u) <=> q \in Streams(u)'
        BY <1>2, <2>4, <3>2
      <4> QED BY <4>1, <4>2, <4>3
    <3> QED BY <3>1, <3>2
  <2> QED BY <2>5, <2>6 DEF Apart
<1>8. CASE ~(Recycle(t) \/ AddProducer(t) \/ MarkInactive(t))
  <2>1. inactive' = inactive
    BY <1>8, ActsFrame
  <2>2. Freed' = Freed
    BY <1>3, <2>1
  <2>3. \A u \in Threads : Streams(u)' = Streams(u)
    BY <1>2, <1>8
  <2> QED BY <1>1, <2>1, <2>2, <2>3, ApartKept
<1> QED BY <1>5, <1>6, <1>7, <1>8

LEMMA ApartStep == HashInv /\ [Next]_vars => Apart'
<1> SUFFICES ASSUME HashInv, [Next]_vars
             PROVE  Apart'
  OBVIOUS
<1>1. Typed /\ Ending /\ Apart
  BY DEF HashInv, Owners
<1>2. CASE UNCHANGED vars
  <2>1. UNCHANGED <<inactive, listening, destructor, pc, local>>
    BY <1>2 DEF vars, list
  <2>2. Freed' = Freed /\ \A t \in Threads : Streams(t)' = Streams(t)
    BY <2>1 DEF Freed, Streams
  <2> QED BY <1>1, <2>1, <2>2, ApartKept
<1>3. CASE \E t \in Threads : Acts(t)
  BY <1>3, ApartActs
<1>4. CASE Destroying
  <2>1. /\ UNCHANGED <<inactive, pc, local>> /\ destructor'.at # "none"
        /\ DOMAIN inactive = 1 .. Len(inactive) /\ Len(inactive) \in Nat
        /\ destructor.producer \in 0 .. Len(inactive)
    BY <1>1, <1>4, DestroyingFrame DEF Typed, ListTyped
  <2>2. /\ \A p \in 1 .. Len(inactive) :
              p \in Freed <=> destructor.at # "none" /\ p > destructor.producer
        /\ \A p \in 1 .. Len(inactive) : p \in Freed' <=> p > destructor'.producer
        /\ Freed \subseteq 1 .. Len(inactive)
    BY <2>1 DEF Freed
  <2>3. CASE Unsubscribe
    <3>1. PICK q \in 1 .. Len(inactive) : q = destructor.producer
      BY <1>1, <2>1, <2>3 DEF Unsubscribe, Typed, ListTyped
    <3>2. /\ listening' = [t \in Threads |-> listening[t] \ {q}]
          /\ destructor.at # "none" /\ destructor'.producer = q - 1
      BY <2>3, <3>1 DEF Unsubscribe, Reaches
    <3>3. q \in Freed' /\ Freed \subseteq Freed'
      BY <2>1, <2>2, <3>1, <3>2
    <3>4. \A t \in Threads : pc[t] # "subscribe"
      BY <1>1, <3>2 DEF Ending, ExitSteps
    <3>5. \A t \in Threads : Streams(t) = listening[t] /\ Streams(t)' = listening[t] \ {q}
      BY <2>1, <3>2, <3>4 DEF Streams
    <3> QED BY <1>1, <2>1, <3>3, <3>5, ApartKept
  <2>4. CASE ~Unsubscribe
    <3>1. listening' = listening
      BY <1>4, <2>4 DEF Destroying, Destroy, DestroyInactive, FindsActive, DestroyTables
    <3>2. destructor.at = "none" \/ destructor'.producer <= destructor.producer
      BY <1>4, <2>1, <2>4
      DEF Destroying, Destroy, DestroyInactive, FindsActive, DestroyTables, Reaches
    <3>3. destructor'.producer \in Nat
      <4>1. ListTyped'
        BY <1>1, ListTypedStep
      <4> QED BY <2>1, <4>1 DEF ListTyped
    <3>4. Freed \subseteq Freed'
      BY <2>1, <2>2, <3>2, <3>3
    <3>5. \A t \in Threads : Streams(t)' = Streams(t)
      BY <2>1, <3>1 DEF Streams
    <3> QED BY <1>1, <2>1, <3>4, <3>5, ApartKept
  <2> QED BY <2>3, <2>4
<1> QED BY <1>2, <1>3, <1>4, StepIs
-------------------------------------------------------------------------------
(* The invariant *)

LEMMA HashInit == Init => HashInv
<1> SUFFICES ASSUME Init
             PROVE  HashInv
  OBVIOUS
<1>1. PICK n \in Nat \ {0} : n = INITIAL_IMPLICIT_PRODUCER_HASH_SIZE
  BY SizeAssumption
<1>2. PICK f \in SomeTable : f = Table(n)
  BY FirstTable
<1>3. /\ DOMAIN f = 0 .. n - 1
      /\ \A s \in 0 .. n - 1 : f[s].key = invalid_thread_id /\ f[s].value = 0
  BY <1>2, FirstTable
<1>4. tables = <<f>> /\ tables \in Seq(SomeTable) /\ Len(tables) = 1 /\ tables[1] = f /\ tables # <<>>
  BY <1>1, <1>2 DEF Init
<1>5. inactive = <<>> /\ inactive \in Seq(BOOLEAN) /\ Len(inactive) = 0 /\ DOMAIN inactive = {}
  BY DEF Init
<1>6. \A k \in 1 .. Len(tables) : k = 1
  BY <1>4
<1>7. /\ pc = [t \in Threads |-> "absent"] /\ local = [t \in Threads |-> NoLocals]
      /\ listening = [t \in Threads |-> {}] /\ destructor = [at |-> "none", producer |-> 0]
      /\ implicitProducerHashCount = 0
  BY DEF Init
<1>8. \A t \in Threads : t # invalid_thread_id
  BY IdsAssumption
<1>9. TablesTyped
  BY <1>3, <1>4, <1>5, <1>6 DEF TablesTyped
<1>10. ListTyped
  BY <1>5, <1>7 DEF ListTyped
<1>11. ThreadsTyped
  <2>1. NoLocals \in Locals /\ NoLocals.producer = 0
    BY DEF NoLocals, Locals
  <2> QED BY <1>5, <1>7, <2>1
      DEF ThreadsTyped, LocalTyped, Steps, Sought, Inserting
<1>12. CountTyped
  <2>1. {t \in Threads : pc[t] \in Uncounted} = {}
    BY <1>7 DEF Uncounted
  <2> QED BY <1>7, <2>1, FS_EmptySet DEF CountTyped
<1>13. ASSUME NEW t \in Threads
       PROVE  Reachable(t) /\ Once(t) /\ Searching(t)
  <2>1. \A k \in 1 .. Len(tables) : \A s \in DOMAIN tables[k] : tables[k][s].key # t
    BY <1>3, <1>4, <1>6, <1>8
  <2>2. Searching(t)
    BY <1>7 DEF Searching, Unlisted
  <2> QED BY <2>1, <2>2 DEF Reachable, Once
<1>14. Own
  BY <1>3, <1>4, <1>6, <1>8 DEF Own
<1>15. Listening
  BY <1>7 DEF Listening
<1>16. Apart
  <2>1. \A t \in Threads : Streams(t) = {}
    BY <1>7 DEF Streams
  <2> QED BY <1>5, <2>1 DEF Apart
<1>17. Ending
  BY <1>7 DEF Ending
<1> QED BY <1>9, <1>10, <1>11, <1>12, <1>13, <1>14, <1>15, <1>16, <1>17
    DEF HashInv, Typed, Places, Owners

LEMMA HashStep == HashInv /\ [Next]_vars => HashInv'
<1> SUFFICES ASSUME HashInv, [Next]_vars
             PROVE  HashInv'
  OBVIOUS
<1>1. Typed' /\ Places'
  BY TypedStep, PlacesStep DEF HashInv
<1>2. Owners'
  BY OwnStep, ListeningStep, ApartStep, EndingStep DEF Owners
<1> QED BY <1>1, <1>2 DEF HashInv

LEMMA HashAlways == Spec => []HashInv
BY HashInit, HashStep, PTL DEF Spec

\* A thread is in a table once, however often the id it has was used and removed,
\* and whatever slots it found to use again on its way.
THEOREM InTableOnceCorrect == Spec => []InTableOnce
<1>1. HashInv => InTableOnce
  <2> SUFFICES ASSUME HashInv
               PROVE  InTableOnce
    OBVIOUS
  <2>1. DOMAIN tables = 1 .. Len(tables)
    BY DEF HashInv, Typed, TablesTyped
  <2> QED BY <2>1 DEF HashInv, Places, Once, InTableOnce
<1> QED BY <1>1, HashAlways, PTL

\* However many threads enqueue, exit and are started again with the ids of others,
\* however the ids hash and whatever tables are made meanwhile: no stream has two
\* threads, no thread two streams, a stream without a thread can be found again, a
\* thread enqueues to its own stream, and a thread that is gone has no entry left.
THEOREM OneStreamEachCorrect == Spec => []OneStreamEach
<1>1. HashInv => OneStreamEach
  <2> SUFFICES ASSUME HashInv
               PROVE  OneStreamEach
    OBVIOUS
  <2>1. /\ Typed /\ Own /\ Listening /\ Apart /\ Ending
        /\ DOMAIN tables = 1 .. Len(tables)
    BY DEF HashInv, Owners, Typed, TablesTyped
  <2>2. TypeOK
    <3>1. ASSUME NEW k \in DOMAIN tables, NEW s \in DOMAIN tables[k]
          PROVE  tables[k][s].key \in Keys /\ tables[k][s].value \in 0 .. Len(inactive)
      <4>1. PICK n \in Nat \ {0} : tables[k] \in [0 .. n - 1 -> Entry]
        BY <2>1, TableIs DEF Typed
      <4>2. tables[k][s] \in Entry
        BY <4>1
      <4>3. tables[k][s].key \in Keys
        BY <4>2 DEF Entry
      <4> QED BY <2>1, <4>3 DEF Typed, TablesTyped
    <3>2. implicitProducerHashCount \in Nat /\ inactive \in Seq(BOOLEAN)
          /\ listening \in [Threads -> SUBSET (1 .. Len(inactive))]
          /\ destructor.producer \in 0 .. Len(inactive)
      BY <2>1 DEF Typed, CountTyped, ListTyped
    <3>3. \A t \in Threads : local[t].producer \in 0 .. Len(inactive)
      BY <2>1, HereIs DEF LocalTyped
    <3> QED BY <3>1, <3>2, <3>3 DEF TypeOK
  <2>3. StreamsApart
    <3>1. ASSUME NEW t \in Threads
          PROVE  Cardinality(Streams(t)) <= 1
      <4>1. \A p, q \in Streams(t) : p = q
        BY <2>1 DEF Listening, Streams, Unlisted
      <4>2. CASE Streams(t) = {}
        BY <4>2, FS_EmptySet
      <4>3. CASE Streams(t) # {}
        <5>1. PICK p : p \in Streams(t)
          BY <4>3
        <5>2. Streams(t) = {p}
          BY <4>1, <5>1
        <5>3. Cardinality({p}) = 1
          BY FS_Singleton
        <5> QED BY <5>2, <5>3
      <4> QED BY <4>2, <4>3
    <3> QED BY <2>1, <3>1 DEF StreamsApart, Apart
  <2>4. FoundIsOwn
    BY <2>1 DEF FoundIsOwn, Listening, Own
  <2> QED BY <2>2, <2>3, <2>4 DEF OneStreamEach
<1> QED BY <1>1, HashAlways, PTL

\* Whatever threads exit while the queue is destroyed: none has a listener of a
\* producer that is freed, removes its entries from a table that is, or marks such a
\* producer inactive.
THEOREM FreedUnusedCorrect == Spec => []FreedUnused
<1>1. HashInv => FreedUnused
  <2> SUFFICES ASSUME HashInv, NEW t \in Threads
               PROVE  /\ listening[t] \cap Freed = {}
                      /\ pc[t] \in {"remove", "inactive"} =>
                            local[t].producer \notin Freed /\ destructor.at # "done"
    BY DEF FreedUnused
  <2>1. Typed /\ Listening /\ Ending
    BY DEF HashInv, Owners
  <2>2. listening[t] \cap Freed = {}
    BY <2>1 DEF Ending
  <2>3. ASSUME pc[t] \in {"remove", "inactive"}
        PROVE  local[t].producer \notin Freed /\ destructor.at # "done"
    <3>1. local[t].producer \in listening[t]
      BY <2>1, <2>3 DEF Listening
    <3>2. PICK p \in 1 .. Len(inactive) : p = local[t].producer
      BY <2>1, <3>1 DEF Typed, ListTyped
    <3>3. p \notin Freed
      BY <2>2, <3>1, <3>2
    <3>4. destructor.at = "done" => p \in Freed
      BY <2>1, FreedIs DEF Typed, Ending
    <3> QED BY <3>2, <3>3, <3>4
  <2> QED BY <2>2, <2>3
<1> QED BY <1>1, HashAlways, PTL
===============================================================================
