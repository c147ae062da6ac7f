# Verification of the CS307 programming assignments

Four independent programs: a tree of processes joined by pipes (PA1), a multi-level
feedback queue mutex with its queue and its park/unpark garage (PA2), a sports court
built from semaphores (PA3) and a small virtual machine with an operating-system
layer (PA4). They share no code and no state, so each has modules of its own.

Line numbers below are those of the files under `src/`.

## Inventory

### PA2: MLFQMutex, Garage, Queue

| component | state | operations | who calls it |
|---|---|---|---|
| `MLFQMutex` (`MLFQmutex.h`) | atomic `locked`, one `queues[l]` per level, map `threadLevels`, guard `mtx`, a timer | `lock`, `unlock`, `print` | the workers of the samples |
| `Garage` (`park.h`) | `flag_map`: atomic flags of the threads, in an `unordered_map` without a lock | `setPark`, `park`, `unpark` | `MLFQMutex` |
| `Queue` on a ring (`queue.h`) | unsigned tickets `head_`, `tail_`; a state and an element per slot | `enqueue` (push), `dequeue` (try_pop), `isEmpty`, `print` | `MLFQMutex`, `sampleQueue.cpp` |
| `Queue` on a list (`queue__.h`) | `head`, `tail`, a lock for each, heap nodes | `enqueue`, `dequeue`, `isEmpty`, `print` | nobody in the repository |
| `Queue` on moodycamel (`queue_.h`) | a `ConcurrentQueue` | `enqueue`, `dequeue` (try_dequeue), `isEmpty`, `print` | only `MLFQmutex_.h` |
| `ConcurrentQueue::FreeList` (`concurrentqueue.h` 1447-1552) | a head; per node a successor and a count of references with a flag | `add`, `try_get` | consumers that empty a block, producers that need one |
| `ImplicitProducer` (2420-2895, 2900-3020) | four counters, an index of blocks that grows, blocks with their count of emptied places | `enqueue`, `dequeue`, the destructor | the thread that owns the stream; any thread that dequeues |
| hash of producers (3290-3575), `ThreadExitNotifier` (560-632) | tables of (thread id, stream), their count and resize flag; the list of streams, active or not; listeners of each thread | `get_or_add_implicit_producer`, `recycle_or_create_producer`, a thread's exit, the destructor of the queue | every enqueue; the C++ runtime |
| `MLFQmutex_.h`, `queue_lockfree.h` | | | do not compile when used |

`lock()` tries to set `locked` with a compare-and-swap. If that fails the thread takes
`mtx`, appends itself to the queue of its level, clears its garage flag, releases
`mtx` and parks. `unlock()` stops the timer, lowers the thread's level by the quanta it
used, takes `mtx`, takes the first waiter of the best level, releases `mtx`, and then
unparks that waiter, who owns the mutex without touching `locked`, or, having found
nobody, clears `locked`. `print()` is called by the owner, without `mtx`.

Hard: the gap between the failed compare-and-swap and the enqueue; the gap between the
scan and the release; a garage flag left over from the previous round; the notify that
races with the wait; maps that are read without a lock while another thread inserts;
`Queue::print`, which empties the queue and then overwrites it; counters that wrap.
In `concurrentqueue.h`: nodes that come back while a thread still looks at them; an
add that is left to somebody else; consumers that claim items on counters they read
earlier and give claims back; an index that grows, wraps and is taken back under its
readers; threads whose id is used again, and which exit while others insert into, copy
between and enlarge the tables, or while the queue is destroyed.

Correct means: one owner at a time; a hand-off is neither lost nor doubled; waiters
are served by level and then by arrival; no waiter sleeps forever; the queue is FIFO
and each item is delivered once.

### PA3: Court

| component | state | operations | who calls it |
|---|---|---|---|
| `Court` (`Court.h`) | semaphores `court_lock` (1), `match_start` (0), `match_end` (never waited on); under `mutex`: `match_in_progress`, `current_players`, `waiting_players`, `referee_thread` | `enter`, `leave` (`play` is the caller's) | the threads of `court_test.cpp`, `court_test2.cpp` |

The last thread to complete the count starts a match and keeps the unit of
`court_lock`; the last to leave the match posts it. Hard: a thread that leaves before
there is a match, and what its place in the count does to later threads. Correct means:
nobody enters during a match; a match starts with enough players; it ends when the
court is empty, its referee announced once; every thread returns.

### PA1: the process tree

`treePipe.c` and `treePipenew.c` build a binary tree of processes; each process is
connected with its children and with a worker (`pl.c` adds, `pr.c` multiplies) by
pipes used in both directions. State: per process its descriptors, its stdio buffer
and locals; per pipe its bytes. Operations: fork/exec, dup2/close, printf/fflush/
dprintf, scanf, wait. Hard: two readers of one pipe, output flushed after `dup2` has
changed where it goes, a reader that holds the write end of its own pipe, `wait` for a
child that waits for input. Correct means: every process ends, and the root reports
the value of the tree.

### PA4: the virtual machine

| component | state | operations | who calls it |
|---|---|---|---|
| memory and registers (`vm.c` 20-75) | 65535 words, 14 registers | `mr`, `mw` with segments and bounds | instructions |
| allocator (207-290) | a list of free chunks in `mem`, meant to start at `mem[4096]` | `allocMem`, `freeMem` | `createProc`, `tbrk`, `thalt`, tests |
| processes (141-205, 293-358) | `mem[0..2]`: pid, count, status; a PCB of six words each | `initOS`, `createProc`, `loadProc`, `tbrk`, `tyld`, `thalt` | `main.c`, traps, tests |
| instructions (77-135) | | `run`, the table of opcodes, the table of traps | `main.c`, tests |

Hard: the head of the free list and the first PCB are the same word, the macro
`Proc_Count` is the number of a word and not its content, arithmetic wraps at 2^16,
`tyld` searches for a live process that may not exist. Correct means: processes do not
write over the kernel's words, a process that yields gets its context back, each live
process gets its turn in order, memory that is freed is what was allocated, the machine
runs the programs it is given and ends.

## Plan and state of the work

| step | modules | status |
|---|---|---|
| 1 | `PriorityLock` (abstract), `MLFQMutex`, `MLFQMutexLine` (refinement), `MLFQMutexProofs` | done |
| 2 | `Court`; proofs in `TreeAndCourtProofs` | done |
| 3 | `FifoQueue` (abstract), `AtomicQueue`, `AtomicQueueProofs`, `SlotMap`, `TwoLockQueue`, `TwoLockQueueProofs` | done |
| 4 | `TreePipe` (`TreeValue` says what the root should report); proofs in `TreeAndCourtProofs` | done |
| 5 | `VM` (with `main()` and the tests as drivers), `VMProofs` | done; one module, since the allocator and the kernel share their words |
| 6 | `FreeList`, `ImplicitProducer` (implements `FifoQueue`), `ProducerHash`, with `FreeListProofs`, `ImplicitProducerProofs`, `ProducerHashProofs` | done |
| 7 | the choice of a stream in `try_dequeue` over several `ImplicitProducer`s | left: see "Not modelled" |
| 8 | proofs of the refinements: `MLFQMutexLine` implements `PriorityLock`; `AtomicQueue`, `TwoLockQueue` and `ImplicitProducer` implement `FifoQueue` | done |
| 9 | proofs: `KernelIntact`, `TurnsInOrder` and the endless search of `VM`; the process tree | done |

`MLFQMutex` uses its queues as sequences; `AtomicQueue` and `TwoLockQueue` justify this
by implementing `FifoQueue`. The composition is by that refinement: the granularity of
`MLFQMutex` is a whole `enqueue` or `dequeue`, both made under `mtx`, except for the
draining and replacing of `print()`, which `MLFQMutex` models itself. The same holds of
`concurrentqueue.h`: `ImplicitProducer` has the free list as a set, which `FreeList`
justifies, and `ProducerHash` has a stream as a place in a list, which
`ImplicitProducer` justifies as long as no two threads enqueue to one, which
`ProducerHash` shows and `ProducerHashProofs` proves (`OneStreamEach`).

## Modules and code

**MLFQMutex** has one action for each access to something shared. `pc` names the step
a thread is at.

| steps | code |
|---|---|
| `ReadLevel`, `LockDirectly`, `LockBusy` | `MLFQmutex.h` 30-44: lookup of the level, compare-and-swap |
| `AcquireGuard`, `Enqueue`, `SetPark`, `ReleaseGuard` | 46-49, and `park.h` 20-24 |
| `ParkLookup`, `Wait` | `park.h` 26-31: `operator[]`, `flag.wait(false)`; "asleep" is being blocked in the wait |
| `StopTimer`, `SetLevel` | 54-63: a duration out of `HoldTimes`, in ticks, truncated to whole seconds |
| `PickNext`, `PickNone`, `UnlockRelease`, `Free` | 65-80 |
| `UnparkFind`, `UnparkMiss`, `UnparkStore`, `UnparkNotify` | `park.h` 33-40 |
| `BeginPrint`, `Drain`, `Install` | 83-88 and `queue.h` 699-713 |
| `BeginFlagRehash`, `BeginLevelRehash` | an insertion that makes the table of an `unordered_map` grow; while it lasts a concurrent lookup may miss. libstdc++ does this when it inserts into a table of 0, 13, 29, 59 entries, and so on; `RehashAt` scales this down |

`flag[t]` is the list of `t`'s entries in `flag_map`: a lookup of `park()` that misses during a
rehash inserts one more (`ParkLookup`), and `found[t]` is the one that lookups come to, which a
rehash may change. `park()` and `unpark()` keep a reference to the entry they have found (`entry`), so a
flag may be raised in one entry while the thread awaits the other. That `park()`'s own insertion rehashes
the table too, under the rehash it runs beside, is left out: its outcome is a corrupt table.

Locals are cleared after their last use, which removes states that differ in dead
values only. The loop of `unlock()` evaluates `isEmpty()` one past the last level when no
thread waits: memory there looks empty, or like a queue on which `dequeue` never
returns (`PastEnd`). A level's queue is a sequence.

`PriorityLock` has no queues: the level of each waiter, and one line, given as the pairs of a
waiter and one behind it (`ahead`). `MLFQMutexLine` maps to it: the line is the queues one after
the other, and the holder is who runs the critical section or has been chosen by `unlock()`.

**Court** has one action for each section under `mutex` and for each semaphore operation
outside one. `noMatch` and `refereeLeft` count two of the messages, so that properties
can speak of them.

**AtomicQueue** has one action for each atomic operation of `push` and `try_pop` (template
arguments: not spsc). Tickets are counted modulo `Width`, which stands for 2^32, and
slots are `ticket % Size`. `SlotMap` models what the code really computes as a slot and
as the size (bits changing places, rounding up to a power of two) at the real sizes, and
shows it to be one slot per ticket of a turn, which is all `AtomicQueue` needs.
`dequeue()` of an empty queue returns an uninitialised local, and no value is
recorded for it. `NoFullTurn` names the one thing its compare-and-swap on `tail_` leaves out: the counter is
compared, not the queue's content, so a claim made on an old look at `head_` is only right while the
counters have not gone round (2^32 tickets) in between.

**TwoLockQueue** has one action for each lock operation and each access to a shared node
or pointer; `malloc` may return any node that is not allocated, so freed nodes come back
at once. `print()` walks the list under `headLock`. `List` is the sequence of nodes from `head` along the
next pointers, and exists while the list is whole.

**TreePipe** has one action for each read or write of a pipe, each `scanf` of a number, each
fork with the exec that follows it, and each return of `wait`. A process is a record: the step
it is at, the pipes its descriptors 0 and 1 are connected to, the two stdio buffers and
its locals. `dup2` and `close` change nothing others can see and belong to the action
before them. A node writes with `printf` and a later flush (`Give`, `SendRight`, `Exit`), or at
once with `dprintf` (`SendNum1`, `SendNum2`). Numbers are separate items of a pipe: each is
followed by a newline or a blank, at which `scanf` stops.

**VM** has one action for each call, for each iteration of a loop that may not end (the
walks along the free list, the search of `tyld`), and for each instruction or trap
handler. Words are 16 bits; memory is sparse. The drivers are `main()` and "test": the
programs under `PA4/tests` include `vm.c` and call its functions, so a test may allocate
once, free, create, load, and execute single instructions, in any order: only `main()`
creates all its processes before it loads one (`MayCreate`). `intact` records
that no chunk was handed out or freed yet and no heap bound has moved; after that the
allocator may write anywhere and most properties promise nothing. `createProc` fills the PCB of
process 0 whatever the pid, also after that process has yielded or halted: its saved PC is
`PC_START` again, and it is no longer terminated. `saved` and `halted` follow both, so `TurnsInOrder` says that a
process that executed `HALT` gets the turn again in this case only. An index past the
arrays of the code ends the execution in the label "undefined".

**FreeList** has one action for each atomic operation of `add`, `try_get` and
`add_knowing_refcount_is_zero`. `place` says, for the properties, who answers for a node.

**ImplicitProducer** has one action for each access to memory that others use: of the
producer (`Enqueue` to `Publish`), of each consumer (`LoadTail` to `Release`), and the
destructor. `headers` are the indexes made so far, newest last (a consumer may hold an
old one); `entries` is what they point to. Positions are kept above zero by adding the
capacity, as the code's masking does. Blocks come from the initial pool, the free list or
`malloc`, which may fail.

**ProducerHash** has one action for each access to the tables, to their count and lock, to the
list of streams, and for each section under the mutex of `ThreadExitNotifier` that others can see into.
An id is used again once its thread is gone. The destructor of the queue runs when
nobody enqueues, as its comment asks, but threads may exit meanwhile (`Destroy` to
`DestroyTables`, and `NextOfFreed`).

## Runs

| run | instance | what it shows |
|---|---|---|
| `mlfq_safety` | 3 workers, 2 levels, 2 rounds, one prints, tables grow at the second insertion, any memory past the end | `MutualExclusion`, `OneToken`: none of these defects lets two threads in. `LostOnlyInRaces`: a waiter is lost only when `print()` puts an old queue back, when `unpark()` misses a flag in a growing table, when `park()` misses its own raised one, or when `unpark()` raises another entry than the one awaited |
| `mlfq_waiters` | 3 workers, 2 levels, 2 rounds, fair, no printing or growing | every waiter is in one place (`EveryWaiterAccountedFor`), at its own level (`QueuedAtOwnLevel`), the whole implements `PriorityLock`, a chosen waiter gets the mutex (`HandOffArrives`), and in the end it is free, with whoever is not finished asleep in a queue (`EndsFree`) |
| `mlfq_lost_wakeup` | 2 workers, 1 round, fair | refuted: `AllFinish`. The worker that enqueues after the scan sleeps forever |
| `court` | 5 threads, 2 visits, 2 players and a referee, fair | the unit of `court_lock`, the count, how matches end (`MatchEndsEmpty`), that a match which counted a thread that had left never ends (`ShortMatchNeverEnds`), and that nothing else makes a thread hang (`HangsOnlyInShortMatch`) |
| `atomic_queue` | 2 producers and 2 consumers, 3 calls each, 2 slots, tickets modulo 4, fair | `SlotExclusive`, `ImplementsFifo`, and each claimed ticket is delivered |
| `slot_map` | `SHUFFLE_BITS` 6, six requested sizes around 100, 4096 and 5000, every ticket of a turn | the size is the least power of two, and there is one slot per ticket |
| `two_lock_queue` | 2 producers and 2 consumers, 2 calls each, 4 nodes | `ListSound`: no freed node is used and the tail is on the list; it is a FIFO queue |
| `tree_pipe` | depths 0 to 3, `lr` 0 and 1, three inputs, fair | `PipesPrivate`: one reader per pipe at a time, and workers compute on the pair of their node; trees of depth 0 and 1 report their value once and end; deeper ones never report (`DeepTreesHang`) |
| `vm` | up to 5 programs in `main()`; tests with as many `createProc` calls, one allocation of four sizes, three pointers, two pids, six instruction sequences, three fetches, fair | `KernelIntact`: until the allocator hands out memory no process writes a word and every context is kept; `TurnsInOrder`; the search of `tyld` ends exactly while a live process is left (`SearchEndsIffLive`); `main()` runs no instruction (`MainRunsNothing`) and ends by a fault (`MainFaults`); `freeMem` records 42 for the size (`FreesMagicSize`) |
| `free_list` | 3 threads, 2 calls each, 2 nodes, fair | `References`: counted exactly, one adder, one taker; `ListIntact`: what is listed is reachable and no successor changes under a thread (no ABA); `LeftIsAdded` |
| `implicit_producer` | 1 producer with 4 items, 2 consumers, 2 items per block, 1 pool block and 1 other, an index of 1 entry, 6 claims, failing allocations, fair | `Counters`: claims balance and are never ahead of the items; `BlocksInPlace`: every consumer finds its block and none leaks; `ImplementsFifo`; `SolePollerDrains` |
| `producer_hash` | 2 ids that collide, 4 threads, 4 calls, tables from 2 slots, failing allocations, fair | `OneStreamEach`: no stream has two threads, a thread finds its own and no stale entry; `InTableOnce`: a thread is in each table once at most; `FreedUnused`: what a destructor frees is used in one place only; `EnqueueReturns` |

Why the bounds are enough. The MLFQ races need an owner, a waiter and a third thread that
arrives while the other two hand over; a second round is what leaves flags up and map
entries present; a second level is what makes order by level differ from order by
arrival. The court needs two matches after each other, and threads that give up before,
between and during: five threads with two visits make three matches possible. In the
ring two slots and three tickets per producer make tickets wrap modulo `Width` and every
slot be used three times, and two producers and consumers race on both compare-and-swaps.
In the list four nodes make a freed node come back while both locks are held.
The process tree blocks at the first inner node that is not the root, in its depth-2 left
child, so deeper trees only add nodes above the one that hangs; depth 3 confirms it. The
inputs tell addition from multiplication and num1 from the result.
In the machine the second created process is what turns the list head into a small
number that `allocMem` follows, and the fifth goes past the cells it reaches; three
instructions suffice to enter, yield and come back. For the free list an ABA takes one
thread between two steps and another that takes a node and adds it, with a third that
holds a reference; two calls each allow it. In the implicit producer four items of two per block fill
a block, grow the index, empty and reuse a block, and the claims exceed the items, so
that some are given back. In the hash each of four threads
forces a table: the first id comes back while the second is between two tables. The caps on calls,
claims, fetches and allocations are `MaxCalls`, `MaxEnqueues`, `MaxClaims`, `MaxSteps`, `MaxAllocs`,
`MaxProcs`, `MaxThreads`; two consumers that find nothing could give claims back for ever, hence `MaxClaims`.
Symmetry is used only in the runs without liveness.

`CHECK_DEADLOCK FALSE`: the callers make a bounded number of calls and then stop.

## Fairness

Weak fairness of each thread's own steps. The code runs on threads of an operating
system that schedules each of them, critical sections and plays end, and a slot or a
mutex that stays free is taken. Weak fairness is enough for the guard mutex and the
semaphore because calls are bounded: once the others have stopped competing it stays
available, so no fair queueing of lock waiters is assumed. In the process tree each process runs when it can. `AllFinish` is refuted under
the same fairness, in a behaviour that ends with a thread blocked: no further scheduling
would help it.

In the last four modules fairness is for calls that have begun: nothing makes a thread
call, so a property that needs calls says so (`SolePollerDrains`: a consumer that polls
again and again, once the others are idle). The lock-free loops need no more than that
while calls are bounded: a compare-and-swap fails because another succeeded. The
machine's own code runs on; input is always there.

## Proofs

All for any number of threads, levels, rounds, players, slots and callers; the
assumptions are the named ones of the modules (positive sizes, finite `Threads` for the court, finite `Consumers`,
special values that are not threads), all evaluated by the runs.

* `MLFQMutexProofs`: `TypeCorrect`, `TokenUnique`, `MutexCorrect`. `OneToken` says that at most one
  thread owns the mutex or has been granted it by its flag, and that `locked` is set while it
  does. A flag is only raised by the owner, who loses the token by
  that step, and `SetPark` lowers a thread's own flag before it can be a waiter. The proof needs
  nothing of the queues, so it covers printing workers and lost waiters, but it needs the flags: `GInv` says that
  references stay within the lists, that a second entry means that no rehash is to come any more, and that who has one is
  not about to look its flag up while one is under way. Hence the assumption
  `RehashesOnce` of `TokenUnique`, `MutexCorrect` and `LostOnlyInRacesCorrect`: `RehashAt` has at most one size above zero. Tables of up
  to 29 entries meet it; with a second rehash the theorems are false: see "What the checks found". Mutual exclusion is a consequence.
  `LostOnlyInRacesCorrect`: where the waiters stand. The invariant `WInv` adds that `mtx` is held where the code
  holds it, that no thread stands in two places, that who stands in a queue is inside `lock()` and has been granted nothing,
  and that a thread `unlock()` has chosen stands nowhere and sleeps on a lowered flag. It holds with printing and rehashes, and
  every step that takes a waiter away is one of the four `LosesOnlyBy` names; `StoresRight` says that while a waiter has not looked its
  flag up, `unpark()` has found the entry the lookup will come to, so that the third and the fourth race do not meet.
  `WaitersCorrect` and `LockRefines` assume no `print()` and no rehash (`Printers = {}`, `RehashAt = {}`), since both lose
  waiters; `LevelsCorrect` assumes no rehash only. `LockRefines` is the whole
  refinement of `PriorityLock`: `Enqueue` is `Join`, `PickNext` is `HandOff`, `PickNone` is `Release`, a successful
  compare-and-swap is `Take`, and the other steps leave holder, levels and line alone. Its argument is that the first of the
  first queue that is not empty is ahead of every other waiter, and that `PickNone` has looked at every queue under `mtx`.
* `TreeAndCourtProofs`, first part: `TreeTypesCorrect`, `PipesPrivateCorrect`, `FinalCorrect`, `DeepTreesHangCorrect`, for trees
  of every depth and every number entered. The inductive invariant `TreeInv` says, for each node, in eight
  parts: where it, its worker and its children can be (`Labels`: a node above the last two levels never gets past
  its left child, so `DeepTreesHang` is part of the induction), what the descriptors are at each step (`Ends`), and which numbers are
  in its pipes and in the buffers of those who read them (`WorkerFlow`, `LeafFlow`, `AloneFlow`, `LeftFlow`, `RightFlow`, `RootFlow`).
  A part speaks of a node, its worker, its children's own steps and what they have sent (`Output`), so a step of one
  node can only disturb its own parts and those of its parent (`OthersKept`); past its two numbers a node is `Quiet` to its parent until it exits.
  `PipesPrivate` follows because the step of a node names the one process that reads each of its pipes (`ReaderOf`).
  `FinalCorrect` needs the recursive function `TreeValue`; that such a function exists is `TreeValueExists`, by the least
  height for which it would not.
* `TreeAndCourtProofs`, second part, about `Court` (the two share no state; `TreePipe` calls its specification
  `TreeSpec`, so that one module can extend both): `CourtTypesCorrect`, `CourtLockCorrect`, `CountCorrect`, `EndsEmpty`, `ShortNeverEnds`. The
  inductive invariant `CourtInv` is `TypeOK /\ CourtLockToken /\ CountMatches /\ RefereeAnnouncesOnce`; the parts need
  each other: the count stays a natural number because it counts the
  leaver, only the last leaver sees 1 because of `CountMatches`, and no thread enters
  during a match because of the token.
* `AtomicQueueProofs`: `TypeCorrect`, `ExclusiveAccess`. The state of a slot is the lock of its element; the
  invariant adds that a producer inside a push has started between 1 and `Pushes` calls.
  It does not need the discipline of the callers, so it covers overrun rings.
  `FifoRefines`: with disciplined callers (`Disciplined`) the ring implements `FifoQueue`, as long as `NoFullTurn` holds.
  The invariant `DInv` says that the open tickets are among the last `Size` (`Window`), so that two of them never share a slot; that a push and
  a pop have a ticket each of their own; that the item of an unfinished push is in the queue or awaited by the pop that has its
  ticket; and what the state of a slot says about its ticket. `NoFullTurn` is a hypothesis because it is not a consequence: a consumer that
  sleeps between its look at `head_` and its compare-and-swap while others push and pop 2^32 items claims an
  item that is not there. `FifoRefinesShort` discharges it when fewer items than tickets are pushed in all, by counting the calls.
* `TwoLockQueueProofs`: `TypeCorrect`, `ListSoundCorrect`, `FifoRefines`, without hypotheses. The invariant `LInv`
  says that there is a sequence of distinct nodes from `head` to a node without a next one (`Whole`), that none of
  them is free or owned by a call in progress (the node an enqueue has not linked, the one a dequeue has taken off), that nodes are owned by
  one call, and that the tail is the last of the sequence except while an enqueue holding `tailLock` has linked a node it has not
  made the tail. Enqueue appends to the sequence and dequeue drops its first; `OneList` shows that there is only one, which makes `List` what
  the steps say.

* `VMProofs`: `MainNeverExecutes`: `main()` executes no instruction, whatever the image files contain and for
  every number of programs below 4096 (`ProcsAssumption`). The invariant says which words are not zero (0 to 2 and the
  first PCB), that the walk of `allocMem` passes only words smaller than what it asks for, so that it ends at 0 and
  every segment is refused, and that the bounds of the loaded process are 0, so that the first fetch faults.
  `FreeRecordsMagic`: any chunk `freeMem` inserts has size 42, 44 or 46, in every execution of every driver.
  `TypeCorrect`: registers and cells keep words, and no step writes outside the memory, whatever processes and allocator have
  overwritten (`TypeInv`; an index that would leave the arrays ends the execution).
  `KernelIntactCorrect` and `TurnsInOrderCorrect`: the kernel while the allocator has handed out nothing. `KernelInv` says why no
  instruction reaches memory: both bounds are 0 in the registers and in every PCB (`Bounds`), so each load and store faults;
  every yield saves the bounds 0 it has and every load brings them back. PCBs then change only by yields, halts and creations (at any time, also of a process that yielded or halted before), and two
  of them do not overlap (`PCBsDisjoint`), so a saved context stays (`ContextsSaved`), and the first field of a PCB is `DEAD` exactly when
  its process is in `halted` (`ListHead` for process 0, whose field is also the head of the free list, `Marks` for the others). `Passed`: the
  search of `tyld` has passed halted processes only; with remainders this gives the cyclic order. The hypothesis `PidsInMemory`
  is that the PCBs of the pids a test loads lie in the memory: `PCB()` is truncated to 16 bits, so the PCB of pid 10240 lies
  over the bookkeeping words, and the statements are false of it. The test of the repository loads pid 0 (`mw-mr-test.c:6`).
  `LastHaltSpinsCorrect`: without a live process the search never ends. It needs the types only, so it holds for every memory.
  The proof corrected the model: `SaveContext` tested the count of processes before the context was saved, which lost the mark of
  `HALT` for a process with no count (a test that executes `HALT` before any `createProc()`); the run has that program now.
* `FreeListProofs`: `ReferencesCorrect`, `NextStaysCorrect`, for every number of threads, nodes and calls, with fewer
  threads than the word counts (`RefsAssumption`). The invariant adds to `RefsExact` a part of its own for each
  danger: nobody refers to a node while its `next` and its references are written (`Unreferenced`), so the store of line
  1529 loses no reference; `try_get()` does not acquire a node that has the flag alone (`SeesOthers`); a node is added,
  or taken, by one thread (`AddedByOne`, `TakenByOne`); listed nodes are linked to listed nodes, each behind one place
  (`Links`). What a thread has read of a successor then stays true until its compare-and-swap (`Successors`): no ABA.

  `ListIntactCorrect` is the whole of `ListIntact`, with what it says of reachability: every set of nodes that
  has the head and is closed under successors has all listed nodes (`AllReached`).

* `ImplicitProducerProofs`: `TypedAlways`, `CountersCorrect`, `BlocksInPlaceCorrect`, `FifoRefines`, for every finite set of
  consumers, every size of a block and of the first index, any number of items, blocks, growths and failed allocations, without hypotheses.
  The invariant has three layers.
  *Counters* (`CountersInv`): what is claimed, by `headIndex` and by the threads about to move it, stays below `tailIndex`; what a
  consumer has read of the two optimistic counters is past but on the safe side; so `headIndex` never passes `tailIndex`.
  *Index* (`Nested`, `KeysInv`): the entries of an index sit in every newer one, moved by one distance modulo the capacity, and the tail
  of an old index is the place of an entry still; the keys lie in order backwards from the tail, one block apart, free places last. So
  the position a consumer computes from an index and a tail it read earlier is the place of its key, whatever was inserted, freed or
  grown meanwhile (`Lookup`), and the producer reuses an entry only when nobody wants its block.
  *Blocks and items* (`HeldOnce`, `StockInv`, `ElementsInv`): an item is claimed by one consumer; a block wanted by an item that is not
  yet taken is in the index; the slots counted empty and the claims under way add up to the claims made; one consumer
  sees the last count and clears the entry; each block is in one place; a slot holds an object exactly when its item is constructed and not
  taken. The destructor then returns every block, although it frees the last one by a rule of its own (`DestroyReturns`).
  `FifoRefines` goes action by action: `Publish` is the put, `Claim` the get, every other step leaves the queue alone, in particular `Construct`
  writes outside it, and `Take` reads what `Claim` promised.

* `ProducerHashProofs`: `OneStreamEachCorrect`, `FreedUnusedCorrect`, `InTableOnceCorrect`, for every finite set of ids, however
  they hash, every first size, any number of threads under the ids, of tables and of failed allocations. The invariant `HashInv` has
  three parts. *Places*: an entry of a thread is reached from its hash over slots that are not free (`Reachable`; no step frees
  a slot), it is the only one of the thread in its table (`Once`), and a thread on its search has passed no free slot and no
  entry of its own, nor is it in a table it has left behind (`Searching`). So a free slot ends a search rightly
  (`NotInTable`), and a thread inserts or copies itself only where it is not. The argument needs nothing of the capacities, so it covers any
  growth, and searches that go round a table.
  *Owners*: an entry leads to a stream whose listener the thread has (`Own`), of which it has one at most, and none before
  it is in a table or after it is gone (`Listening`); a stream is inactive exactly when nobody has it (`Apart`). That a new thread
  has none is where both parts meet: it has not found itself in any table, so it cannot have a listener.
  *Ending*: while the destructor runs nobody enqueues, and whoever has a listener has it of a producer not reached yet (`Ending`); an inactive
  producer has no listener, and the mutex of the others is not taken while a thread exits.
  What is not shown is that a table keeps a free slot (the comment at `concurrentqueue.h:3412`, on which the ends of the
  searches rest). `implicitProducerHashCount` does not bound the slots in use of the newest table: threads that know only an older table may use one removed slot
  there after the other, which is not counted, and each is copied to a slot of the newer table on its next call. To fill that
  table takes a thread for each of its slots, all begun before it was there; nothing in the code excludes it. In the run
  two ids never fill a table, so `EnqueueReturns` does not speak of this case.

The two least-element arguments (the first place where two sequences differ, in `OneList`, and `TreeValueExists`) rest on a lemma
`LeastNat`, proved from the library's theorem that finite sets are well-founded under inclusion: no induction over an operator is needed.

Model-checked only: liveness and what needs ENABLED; everything about `SlotMap` (which uses `Bitwise`); of `TreePipe` that shallow trees end
(`ShallowTreesEnd`);
of `ProducerHash` that each enqueue returns (`EnqueueReturns`), while tables have free slots;
of `ImplicitProducer` that a consumer left alone gets everything (`SolePollerDrains`); of `VM` that a search ends
while a process is left (half of `SearchEndsIffLive`) and that `main()` ends (`MainFaults`).

## What the checks found

* A worker can sleep forever on a free mutex (`MLFQmutex.h` 36-47 against 65-79).
* `print()` can drop a waiter (`queue.h:712`, called without `mtx`).
* A thread that leaves before a match stays in `current_players`; a later match starts
  one short, never ends, and keeps `court_lock`. The proof `ShortNeverEnds` shows this of every such match.
* In a process tree of depth 2 or more an inner node prints its value for its parent after
  its standard output became the pipe to its right child (`treePipe.c:213`, 228); the root never ends.
* `main()` of PA4 never runs a program: `allocMem` takes the first word of the first PCB for the head of
  its free list (`vm.c:262`, and line 156 writes it), so no process gets memory, and the first fetch faults. The results under
  `PA4/tests` (`initos-result.txt:3`, `mw-mr-result.txt:1`, `mem-result.txt:11`) expect otherwise.
* `freeMem` reads the magic number where `allocMem` puts the size, and frees 42 words (`vm.c:209`, 273).
* When the last process halts, `tyld` searches for ever (`vm.c:337`); `run()` never returns.
* A thread that exits while a `ConcurrentQueue` is destroyed may read a listener in a freed stream (`concurrentqueue.h:613`
  against 2440).

Seen while modelling, without a run of its own: the time held is truncated to whole
seconds before it is divided by the quantum (`MLFQmutex.h:59`), so a hold below a second
never lowers a level; the loop of `unlock()` (line 67) goes one level too far; `flag_map`
is read without a lock, so `unpark` (`park.h:34`) can miss its entry while a table grows, or raise a flag that is
not awaited any more, and lose a hand-off (`HandOffArrives` fails when `RehashAt` is not empty); `park()` can give a thread a
second flag, and after one more rehash one that is still up lets two threads in (`park.h:28`): `MutualExclusion` fails in a
few seconds with one level, three rounds, no printers and `RehashAt <- RehashTwice`, in the code from some thirty threads on;
`createProc` after the `HALT` of process 0 takes its mark away (`vm.c:159` against 353), and `tyld` gives it the turn again; `push` is FIFO only while at most `size_` tickets are open
(`ImplementsFifo` fails when `Disciplined` is FALSE): with 4096 slots and the few threads of the samples they are.

## Not modelled

* The text of messages, `match_end` and `print_mutex` of the court (nothing waits on them).
* The replacement of a ring's fields inside `Queue::print` (`queue.h:711`) field by
  field while another thread pushes: `Install` replaces the queue at once, which already loses waiters.
* Other template instances of `queue.h` (single producer, blocking `pop`, `RetryDecorator`); weak memory
  orderings: actions are sequentially consistent, as the acquire/release pairs on a slot's state make its element.
* `isEmpty` and `getSize`, which change nothing; that a queue is empty is read in `MLFQMutex` under `mtx`.
* `concurrentqueue.h`: the choice of a stream in `try_dequeue` (1125-1156: it looks at the sizes of up to three
  streams and falls back to all of them), whose product with two `ImplicitProducer`s is out of TLC's reach; explicit producers, tokens, bulk operations, moving and
  swapping, which `queue_.h` reaches only through `print()`, on a queue it says is not to be shared then; memory
  orders weaker than sequential consistency; the wrapping of 64-bit counters. `dequeue` may fail although there is an item (two consumers that race), which the
  comment at 1120-1123 allows.
* `MLFQmutex_.h` and `queue_lockfree.h`: neither compiles when used (a `Queue` that cannot be copied is
  copied, `park.h` has other signatures; `currentTail` is used out of its scope), so there is no behaviour to model.
* PA1: a fork, pipe or exec that fails; sums and products beyond an `int`; the abandoned
  variant `treePipenew.c`, whose parent never reads its worker's pipe, and `test.c`.
* PA4: what a write past the arrays of `vm.c` does to the host program (the label "undefined" ends the execution); the debug printers of `vm_dbg.c`; the
  generators of image files under `programs/`, whose instruction sequences the run `vm` takes.
