---------------------------- MODULE ProducerHash ----------------------------
(***************************************************************************)
(* The producers of a ConcurrentQueue (PA2/concurrentqueue.h): the hash    *)
(* tables in which a thread finds the stream it enqueues to, the list of   *)
(* streams, and the listener that gives the stream of a thread that exits  *)
(* to another one; and the destructor of the queue, which may meet such a  *)
(* thread.  A stream is a FIFO queue for one enqueuer, as ImplicitProducer *)
(* shows: here it is only a place in the list.                             *)
(*                                                                         *)
(* One action is one access to memory that threads share.                  *)
(***************************************************************************)
EXTENDS Integers, Sequences, FiniteSets

CONSTANTS
    Threads,       \* thread ids: the id of a thread that has exited is used again
    HashOf,        \* hash_thread_id()
    INITIAL_IMPLICIT_PRODUCER_HASH_SIZE,     \* a power of two, 32 in the code
    invalid_thread_id, invalid_thread_id2,   \* an empty slot, a slot to use again
    MallocFails,   \* whether an allocation may return null
    MaxThreads,    \* bound: threads that start
    MaxEnqueues    \* bound: calls of enqueue()

ASSUME IdsAssumption ==
    /\ IsFiniteSet(Threads)
    /\ invalid_thread_id # invalid_thread_id2
    /\ {invalid_thread_id, invalid_thread_id2} \cap Threads = {}
    /\ HashOf \in [Threads -> Nat]
ASSUME SizeAssumption == INITIAL_IMPLICIT_PRODUCER_HASH_SIZE \in Nat \ {0}
ASSUME BoundsAssumption == MaxThreads \in Nat /\ MaxEnqueues \in Nat
ASSUME MallocAssumption == MallocFails \in BOOLEAN

VARIABLES
    tables,       \* the hash tables: implicitProducerHash is the last, prev the one before
    implicitProducerHashCount,
    implicitProducerHashResizeInProgress,
    inactive,     \* the producers, by whether they are; producerListTail is the last,
                  \* next the one before
    listening,    \* per thread: the producers whose listener it has (threadExitListener)
    destructor,   \* its next step, and the producer it has reached
    pc, local,    \* per thread
    started,      \* threads started
    enqueues      \* calls of enqueue()

hash == <<tables, implicitProducerHashCount, implicitProducerHashResizeInProgress>>
list == <<inactive, listening, destructor>>
vars == <<hash, list, pc, local, started, enqueues>>

Table(capacity) ==
    [s \in 0 .. capacity - 1 |-> [key |-> invalid_thread_id, value |-> 0]]
Capacity(k) == Cardinality(DOMAIN tables[k])
\* A slot of table k, and the key and the value of one.
Slot(k, index) == index % Capacity(k)
Key(k, index) == tables[k][Slot(k, index)].key
Value(k, index) == tables[k][Slot(k, index)].value
Write(k, index, key, value) ==
    tables' = [tables EXCEPT ![k][Slot(k, index)] = [key |-> key, value |-> value]]

NoLocals == [main |-> 0, table |-> 0, index |-> 0, count |-> 0, producer |-> 0]

Init ==
    /\ tables = <<Table(INITIAL_IMPLICIT_PRODUCER_HASH_SIZE)>>
    /\ implicitProducerHashCount = 0
    /\ implicitProducerHashResizeInProgress = FALSE
    /\ inactive = <<>>
    /\ listening = [t \in Threads |-> {}]
    /\ destructor = [at |-> "none", producer |-> 0]
    /\ pc = [t \in Threads |-> "absent"]
    /\ local = [t \in Threads |-> NoLocals]
    /\ started = 0
    /\ enqueues = 0

Goes(t, from, to) == pc[t] = from /\ pc' = [pc EXCEPT ![t] = to]
Keeps == UNCHANGED <<started, enqueues>>
Loc(t) == local[t]
Sets(t, l) == local' = [local EXCEPT ![t] = l]

Start(t) ==
    /\ Goes(t, "absent", "idle")
    /\ started < MaxThreads
    /\ started' = started + 1
    /\ UNCHANGED <<hash, list, local, enqueues>>

-------------------------------------------------------------------------------
(* get_or_add_implicit_producer(): the search in the tables, newest first. *)

Enqueue(t) ==
    /\ Goes(t, "idle", "search")
    /\ enqueues < MaxEnqueues /\ destructor.at = "none"
    /\ enqueues' = enqueues + 1
    /\ Sets(t, [NoLocals EXCEPT !.main = Len(tables), !.table = Len(tables), !.index = HashOf[t]])
    /\ UNCHANGED <<hash, list, started>>

Found(t) ==
    /\ Goes(t, "search", IF Loc(t).table = Loc(t).main THEN "enqueue" ELSE "copy")
    /\ Key(Loc(t).table, Loc(t).index) = t
    /\ Sets(t, [Loc(t) EXCEPT !.index = HashOf[t],
                              !.producer = Value(Loc(t).table, Loc(t).index)])
    /\ UNCHANGED <<hash, list>> /\ Keeps

\* Mutant of NotHere: a slot to use again ends the search as an empty one does.
NotHereNorRemoved(t) ==
    /\ Goes(t, "search", IF Loc(t).table = 1 THEN "count" ELSE "search")
    /\ Key(Loc(t).table, Loc(t).index) \in {invalid_thread_id, invalid_thread_id2}
    /\ Sets(t, [Loc(t) EXCEPT !.table = @ - 1, !.index = HashOf[t]])
    /\ UNCHANGED <<hash, list>> /\ Keeps
NotHere(t) ==
    /\ Goes(t, "search", IF Loc(t).table = 1 THEN "count" ELSE "search")
    /\ Key(Loc(t).table, Loc(t).index) = invalid_thread_id
    /\ Sets(t, [Loc(t) EXCEPT !.table = @ - 1, !.index = HashOf[t]])
    /\ UNCHANGED <<hash, list>> /\ Keeps

Further(t) ==
    /\ pc[t] = "search"
    /\ Key(Loc(t).table, Loc(t).index) \notin {t, invalid_thread_id}
    /\ Sets(t, [Loc(t) EXCEPT !.index = @ + 1])
    /\ UNCHANGED <<hash, list, pc>> /\ Keeps

\* The entry of an older table is copied to the newest the thread knows.
Copy(t) ==
    /\ Goes(t, "copy", "enqueue")
    /\ Key(Loc(t).main, Loc(t).index) \in {invalid_thread_id, invalid_thread_id2}
    /\ Write(Loc(t).main, Loc(t).index, t, Loc(t).producer)
    /\ UNCHANGED <<implicitProducerHashCount, implicitProducerHashResizeInProgress, list, local>>
    /\ Keeps

CopyFurther(t) ==
    /\ pc[t] = "copy"
    /\ Key(Loc(t).main, Loc(t).index) \in Threads
    /\ Sets(t, [Loc(t) EXCEPT !.index = @ + 1])
    /\ UNCHANGED <<hash, list, pc>> /\ Keeps

-------------------------------------------------------------------------------
(* The insertion, after which the tables may have to grow.                 *)

Count(t) ==
    /\ Goes(t, "count", "lock")
    /\ implicitProducerHashCount' = implicitProducerHashCount + 1
    /\ Sets(t, [Loc(t) EXCEPT !.count = implicitProducerHashCount + 1])
    /\ UNCHANGED <<tables, implicitProducerHashResizeInProgress, list>> /\ Keeps

HalfFull(t, k) == Loc(t).count >= Capacity(k) \div 2

\* test_and_set(): the table is half full and nobody else is making another one.
LockResize(t) ==
    /\ Goes(t, "lock", "resize")
    /\ HalfFull(t, Loc(t).main) /\ ~implicitProducerHashResizeInProgress
    /\ implicitProducerHashResizeInProgress' = TRUE
    /\ UNCHANGED <<tables, implicitProducerHashCount, list, local>> /\ Keeps
NoResize(t) ==
    /\ Goes(t, "lock", "room")
    /\ ~HalfFull(t, Loc(t).main) \/ implicitProducerHashResizeInProgress
    /\ UNCHANGED <<hash, list, local>> /\ Keeps

\* The newest table may already be large enough.  The capacity of the new one is the
\* first doubling that the count fills less than half: there is one, which is at most
\* four times the count.
NewCapacities(t) ==
    {n \in 1 .. 4 * Loc(t).count :
        \E k \in 1 .. Loc(t).count :
            /\ n = Capacity(Len(tables)) * 2^k
            /\ Loc(t).count < n \div 2
            /\ k = 1 \/ Loc(t).count >= n \div 4}
Resize(t) ==
    /\ Goes(t, "resize", "unlock")
    /\ IF HalfFull(t, Len(tables))
       THEN /\ \E n \in NewCapacities(t) : tables' = Append(tables, Table(n))
            /\ Sets(t, [Loc(t) EXCEPT !.main = Len(tables) + 1])
       ELSE /\ Sets(t, [Loc(t) EXCEPT !.main = Len(tables)])
            /\ UNCHANGED tables
    /\ UNCHANGED <<implicitProducerHashCount, implicitProducerHashResizeInProgress, list>>
    /\ Keeps

\* No memory for it: the count is taken back, then the lock; nothing is enqueued.
ResizeFails(t) ==
    /\ Goes(t, "resize", "giveUp")
    /\ MallocFails /\ HalfFull(t, Len(tables))
    /\ implicitProducerHashCount' = implicitProducerHashCount - 1
    /\ UNCHANGED <<tables, implicitProducerHashResizeInProgress, list, local>> /\ Keeps
\* Mutant of GiveUp: the lock is kept.
GiveUpLocked(t) ==
    /\ Goes(t, "giveUp", "idle")
    /\ Sets(t, NoLocals)
    /\ UNCHANGED <<hash, list>> /\ Keeps
GiveUp(t) ==
    /\ Goes(t, "giveUp", "idle")
    /\ implicitProducerHashResizeInProgress' = FALSE
    /\ Sets(t, NoLocals)
    /\ UNCHANGED <<tables, implicitProducerHashCount, list>> /\ Keeps

Unlock(t) ==
    /\ Goes(t, "unlock", "room")
    /\ implicitProducerHashResizeInProgress' = FALSE
    /\ UNCHANGED <<tables, implicitProducerHashCount, list, local>> /\ Keeps

\* Less than three quarters full: the thread adds itself to the table it knows;
\* otherwise it waits for the table another thread makes.
HasRoom(t) ==
    Loc(t).count < (Capacity(Loc(t).main) \div 2) + (Capacity(Loc(t).main) \div 4)
Room(t) ==
    /\ Goes(t, "room", "recycle")
    /\ HasRoom(t)
    /\ Sets(t, [Loc(t) EXCEPT !.table = 0, !.producer = Len(inactive)])
    /\ UNCHANGED <<hash, list>> /\ Keeps
AwaitTable(t) ==
    /\ Goes(t, "room", "lock")
    /\ ~HasRoom(t)
    /\ Sets(t, [Loc(t) EXCEPT !.main = Len(tables)])
    /\ UNCHANGED <<hash, list>> /\ Keeps

-------------------------------------------------------------------------------
(* recycle_or_create_producer(): the stream of a thread that has exited, or *)
(* a new one at the head of the list; local producer is the one looked at.  *)

\* Mutant of Recycle: the stream is taken whoever uses it.
RecycleAny(t) ==
    /\ Goes(t, "recycle", "subscribe")
    /\ Loc(t).producer # 0
    /\ UNCHANGED <<hash, list, local>> /\ Keeps
Recycle(t) ==
    /\ Goes(t, "recycle", "subscribe")
    /\ Loc(t).producer # 0 /\ inactive[Loc(t).producer]
    /\ inactive' = [inactive EXCEPT ![Loc(t).producer] = FALSE]
    /\ UNCHANGED <<hash, listening, destructor, local>> /\ Keeps

RecycleNext(t) ==
    /\ pc[t] = "recycle"
    /\ Loc(t).producer # 0 /\ ~inactive[Loc(t).producer]
    /\ Sets(t, [Loc(t) EXCEPT !.producer = @ - 1])
    /\ UNCHANGED <<hash, list, pc>> /\ Keeps

AddProducer(t) ==
    /\ Goes(t, "recycle", "subscribe")
    /\ Loc(t).producer = 0
    /\ inactive' = Append(inactive, FALSE)
    /\ Sets(t, [Loc(t) EXCEPT !.producer = Len(inactive) + 1])
    /\ UNCHANGED <<hash, listening, destructor>> /\ Keeps

AddProducerFails(t) ==
    /\ Goes(t, "recycle", "idle")
    /\ MallocFails /\ Loc(t).producer = 0
    /\ implicitProducerHashCount' = implicitProducerHashCount - 1
    /\ Sets(t, NoLocals)
    /\ UNCHANGED <<tables, implicitProducerHashResizeInProgress, list>> /\ Keeps

\* ThreadExitNotifier: one mutex for all, held while a thread that exits calls its
\* listeners.
ExitSteps == {"exit", "remove", "inactive", "next", "undefined"}
MutexFree == \A t \in Threads : pc[t] \notin ExitSteps

Subscribe(t) ==
    /\ Goes(t, "subscribe", "insert")
    /\ MutexFree
    /\ listening' = [listening EXCEPT ![t] = @ \cup {Loc(t).producer}]
    /\ Sets(t, [Loc(t) EXCEPT !.index = HashOf[t]])
    /\ UNCHANGED <<hash, inactive, destructor>> /\ Keeps

\* A slot to use again is counted already.
Insert(t) ==
    /\ pc[t] = "insert"
    /\ Key(Loc(t).main, Loc(t).index) \in {invalid_thread_id, invalid_thread_id2}
    /\ Goes(t, "insert", IF Key(Loc(t).main, Loc(t).index) = invalid_thread_id
                         THEN "enqueue" ELSE "uncount")
    /\ Write(Loc(t).main, Loc(t).index, t, Loc(t).producer)
    /\ UNCHANGED <<implicitProducerHashCount, implicitProducerHashResizeInProgress, list, local>>
    /\ Keeps

InsertFurther(t) ==
    /\ pc[t] = "insert"
    /\ Key(Loc(t).main, Loc(t).index) \in Threads
    /\ Sets(t, [Loc(t) EXCEPT !.index = @ + 1])
    /\ UNCHANGED <<hash, list, pc>> /\ Keeps

Uncount(t) ==
    /\ Goes(t, "uncount", "enqueue")
    /\ implicitProducerHashCount' = implicitProducerHashCount - 1
    /\ UNCHANGED <<tables, implicitProducerHashResizeInProgress, list, local>> /\ Keeps

\* ImplicitProducer::enqueue(), on the stream found or added.
Put(t) ==
    /\ Goes(t, "enqueue", "idle")
    /\ Sets(t, NoLocals)
    /\ UNCHANGED <<hash, list>> /\ Keeps

-------------------------------------------------------------------------------
(* A thread exits: ~ThreadExitNotifier() calls the listener of each of its *)
(* streams, implicit_producer_thread_exited().                             *)

Exit(t) ==
    /\ Goes(t, "idle", "exit")
    /\ MutexFree
    /\ UNCHANGED <<hash, list, local>> /\ Keeps

Callback(t) ==
    /\ Goes(t, "exit", "remove")
    /\ \E p \in listening[t] :
          Sets(t, [NoLocals EXCEPT !.table = Len(tables), !.index = HashOf[t], !.producer = p])
    /\ UNCHANGED <<hash, list>> /\ Keeps

Exited(t) ==
    /\ Goes(t, "exit", "absent")
    /\ listening[t] = {}
    /\ Sets(t, NoLocals)
    /\ UNCHANGED <<hash, list>> /\ Keeps

\* The slot of the thread in each table, or the free slot that ends the search.
\* The key it gets does not end the searches of others.
KeyRemoved == invalid_thread_id2
OldestOrNewest(t) == TRUE              \* mutant of Oldest: the older tables are left as they are
Oldest(t) == Loc(t).table = 1

Remove(t) ==
    LET key == Key(Loc(t).table, Loc(t).index) IN
    /\ pc[t] = "remove" /\ key \in {t, invalid_thread_id}
    /\ IF Oldest(t)
       THEN Goes(t, "remove", "inactive") /\ UNCHANGED local
       ELSE /\ UNCHANGED pc
            /\ Sets(t, [Loc(t) EXCEPT !.table = @ - 1, !.index = HashOf[t]])
    /\ IF key = t THEN Write(Loc(t).table, Loc(t).index, KeyRemoved, Value(Loc(t).table, Loc(t).index))
                  ELSE UNCHANGED tables
    /\ UNCHANGED <<implicitProducerHashCount, implicitProducerHashResizeInProgress, list>> /\ Keeps

RemoveFurther(t) ==
    /\ pc[t] = "remove"
    /\ Key(Loc(t).table, Loc(t).index) \notin {t, invalid_thread_id}
    /\ Sets(t, [Loc(t) EXCEPT !.index = @ + 1])
    /\ UNCHANGED <<hash, list, pc>> /\ Keeps

MarkInactive(t) ==
    /\ Goes(t, "inactive", "next")
    /\ inactive' = [inactive EXCEPT ![Loc(t).producer] = TRUE]
    /\ listening' = [listening EXCEPT ![t] = @ \ {Loc(t).producer}]
    /\ UNCHANGED <<hash, destructor, local>> /\ Keeps

\* The loop of ~ThreadExitNotifier() goes on to the listener after this one, which
\* is a field of the producer: of one that has been freed it reads anything.
Freed == {p \in DOMAIN inactive : destructor.at # "none" /\ p > destructor.producer}
NextListener(t) ==
    /\ Goes(t, "next", "exit")
    /\ Loc(t).producer \notin Freed
    /\ Sets(t, NoLocals)
    /\ UNCHANGED <<hash, list>> /\ Keeps
NextOfFreed(t) ==
    /\ Goes(t, "next", "undefined")
    /\ Loc(t).producer \in Freed
    /\ UNCHANGED <<hash, list, local>> /\ Keeps

-------------------------------------------------------------------------------
(* ~ConcurrentQueue(), when nobody enqueues or will; threads may exit.  It *)
(* destroys the producers from the head of the list on, then the tables.   *)

Reaches(at, p) == destructor' = [at |-> at, producer |-> p]
DestroyRest == UNCHANGED <<hash, inactive, pc, local>> /\ Keeps

Destroy ==
    /\ destructor.at = "none"
    /\ \A t \in Threads : pc[t] \in {"idle", "absent"} \cup ExitSteps
    /\ Reaches("producer", Len(inactive))
    /\ UNCHANGED listening /\ DestroyRest

\* ~ImplicitProducer() unsubscribes the listener, unless the producer is inactive.
DestroyInactive ==
    /\ destructor.at = "producer" /\ destructor.producer # 0
    /\ inactive[destructor.producer]
    /\ Reaches("producer", destructor.producer - 1)
    /\ UNCHANGED listening /\ DestroyRest
FindsActive ==
    /\ destructor.at = "producer" /\ destructor.producer # 0
    /\ ~inactive[destructor.producer]
    /\ Reaches("unsubscribe", destructor.producer)
    /\ UNCHANGED listening /\ DestroyRest

\* Under the mutex; the thread that had the listener may be gone by now.
\* Mutant of Unsubscribe: without the mutex.
UnsubscribeUnlocked ==
    /\ destructor.at = "unsubscribe"
    /\ listening' = [t \in Threads |-> listening[t] \ {destructor.producer}]
    /\ Reaches("producer", destructor.producer - 1)
    /\ DestroyRest
Unsubscribe ==
    /\ destructor.at = "unsubscribe"
    /\ MutexFree
    /\ listening' = [t \in Threads |-> listening[t] \ {destructor.producer}]
    /\ Reaches("producer", destructor.producer - 1)
    /\ DestroyRest

DestroyTables ==
    /\ destructor.at = "producer" /\ destructor.producer = 0
    /\ Reaches("done", 0)
    /\ UNCHANGED listening /\ DestroyRest

-------------------------------------------------------------------------------
Enqueueing(t) ==
    \/ Found(t) \/ NotHere(t) \/ Further(t) \/ Copy(t) \/ CopyFurther(t)
    \/ Count(t) \/ LockResize(t) \/ NoResize(t) \/ Resize(t) \/ ResizeFails(t) \/ GiveUp(t)
    \/ Unlock(t) \/ Room(t) \/ AwaitTable(t) \/ Recycle(t) \/ RecycleNext(t) \/ AddProducer(t)
    \/ AddProducerFails(t) \/ Subscribe(t) \/ Insert(t) \/ InsertFurther(t) \/ Uncount(t) \/ Put(t)
Exiting(t) ==
    \/ Callback(t) \/ Exited(t) \/ Remove(t) \/ RemoveFurther(t) \/ MarkInactive(t)
    \/ NextListener(t) \/ NextOfFreed(t)
Destroying ==
    \/ Destroy \/ DestroyInactive \/ FindsActive \/ Unsubscribe \/ DestroyTables

Next ==
    \/ \E t \in Threads : Start(t) \/ Enqueue(t) \/ Exit(t) \/ Enqueueing(t) \/ Exiting(t)
    \/ Destroying
Spec == Init /\ [][Next]_vars

(* A call that has begun, and the exit of a thread, go on.                   *)
FairSpec == Spec /\ \A t \in Threads : WF_vars(Enqueueing(t) \/ Exiting(t))

-------------------------------------------------------------------------------
(* Properties *)

Keys == Threads \cup {invalid_thread_id, invalid_thread_id2}
TypeOK ==
    /\ \A k \in DOMAIN tables : \A s \in DOMAIN tables[k] :
          tables[k][s].key \in Keys /\ tables[k][s].value \in 0 .. Len(inactive)
    /\ implicitProducerHashCount \in Nat
    /\ inactive \in Seq(BOOLEAN)
    /\ listening \in [Threads -> SUBSET (1 .. Len(inactive))]
    /\ \A t \in Threads : local[t].producer \in 0 .. Len(inactive)
    /\ destructor.producer \in 0 .. Len(inactive)

\* No two threads have the same stream, and no thread has two: the enqueue of a
\* stream is written for one thread.  A stream without a thread is inactive, so
\* that it is found again.
Streams(t) ==
    listening[t] \cup (IF pc[t] = "subscribe" THEN {local[t].producer} ELSE {})
StreamsApart ==
    /\ \A t, u \in Threads : t # u => Streams(t) \cap Streams(u) = {}
    /\ \A t \in Threads : Cardinality(Streams(t)) <= 1
    /\ \A p \in DOMAIN inactive \ Freed : inactive[p] <=> \A t \in Threads : p \notin Streams(t)

\* Whatever tables were added since, and whatever the thread found on its way, the
\* stream it enqueues to is its own; a thread that is gone has left no entry that
\* another thread with its id could find.
FoundIsOwn ==
    \A t \in Threads :
        /\ pc[t] \in {"copy", "enqueue"} => local[t].producer \in listening[t]
        /\ pc[t] = "absent" /\ destructor.at = "none" =>
              \A k \in DOMAIN tables : \A s \in DOMAIN tables[k] : tables[k][s].key # t

\* The tables lead each thread to a stream that is its own alone.
OneStreamEach == TypeOK /\ StreamsApart /\ FoundIsOwn

\* A thread is in a table once, whatever slots it found on its way there and whether
\* it was copied or inserted.
InTableOnce ==
    \A t \in Threads : \A k \in DOMAIN tables :
        \A r, s \in DOMAIN tables[k] : tables[k][r].key = t /\ tables[k][s].key = t => r = s

\* "race with ~ThreadExitNotifier" (line 589): a thread that exits while the queue is
\* destroyed uses no producer and no table that has been freed, and no listener is
\* left that would; but for the step to the next listener, which it takes after it
\* has marked the producer inactive and which the destructor does not wait for
\* (NextOfFreed).
FreedUnused ==
    \A t \in Threads :
        /\ listening[t] \cap Freed = {}
        /\ pc[t] \in {"remove", "inactive"} =>
              local[t].producer \notin Freed /\ destructor.at # "done"

\* A call of enqueue() returns once there are no new ones: the searches end, and a
\* thread does not wait for a table that nobody makes.  (Others that call again and
\* again, with no memory to be had, may keep it waiting: each holds the lock when the
\* thread looks.)
EnqueueReturns == \A t \in Threads : pc[t] = "search" ~> pc[t] = "idle"
===============================================================================
