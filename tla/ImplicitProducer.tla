-------------------------- MODULE ImplicitProducer --------------------------
(***************************************************************************)
(* ImplicitProducer of PA2/concurrentqueue.h: the stream of items of one   *)
(* thread that enqueues, which any number of threads dequeue from.  The    *)
(* items are in blocks of BLOCK_SIZE; a circular index, which grows, finds *)
(* the block of an item from its number.  The module includes the pool the *)
(* blocks come from (requisition_block(), add_block_to_free_list()), with  *)
(* the free list as a set: FreeList shows that it behaves like one.        *)
(*                                                                         *)
(* One action is one access to memory that threads share.                  *)
(***************************************************************************)
EXTENDS Integers, Sequences, FiniteSets

CONSTANTS
    Consumers,
    BLOCK_SIZE,                   \* a power of two, 32 in the code
    IMPLICIT_INITIAL_INDEX_SIZE,  \* a power of two, 32 in the code
    InitialBlocks,                \* blocks of initialBlockPool
    OtherBlocks,                  \* addresses create<Block>() may return
    Null,
    MaxEnqueues,                  \* bound: calls of enqueue()
    MaxClaims,                    \* bound: optimistic claims of items
    MallocFails                   \* whether an allocation may return null

ASSUME ConsumersAssumption == IsFiniteSet(Consumers)
ASSUME SizesAssumption ==
    /\ BLOCK_SIZE \in Nat /\ BLOCK_SIZE > 1
    /\ IMPLICIT_INITIAL_INDEX_SIZE \in Nat \ {0}
ASSUME BlocksAssumption ==
    /\ Null \notin InitialBlocks \cup OtherBlocks
    /\ InitialBlocks \cap OtherBlocks = {}
ASSUME BoundsAssumption == MaxEnqueues \in Nat /\ MaxClaims \in Nat /\ MallocFails \in BOOLEAN

Blocks == InitialBlocks \cup OtherBlocks
INVALID_BLOCK_BASE == 1
NoItem == 0           \* memory that holds no object

VARIABLES
    tailIndex, headIndex,          \* items constructed, items claimed
    dequeueOptimisticCount, dequeueOvercommit,
    headers,      \* the block indexes made so far; blockIndex points to the last
    entries,      \* the entries the indexes point to: a key and a block
    elements, elementsCompletelyDequeued,  \* per block
    unused,       \* blocks of initialBlockPool from initialBlockPoolIndex on
    freeList,     \* blocks on the free list
    created,      \* blocks made by create<Block>() and not destroyed
    tailBlock,    \* the block of the last item
    step,         \* the producer's next step
    mine,         \* the producer's locals: its entry and its new block
    enqueues,     \* enqueue() calls made: the number of the item of the last
    pc, local,    \* per consumer: its next step and its locals
    got           \* per consumer: the items its calls returned

indexes == <<tailIndex, headIndex, dequeueOptimisticCount, dequeueOvercommit>>
blocks == <<elements, elementsCompletelyDequeued>>
pool == <<unused, freeList, created>>
producer == <<tailBlock, step, mine, enqueues>>
consumers == <<pc, local, got>>
vars == <<indexes, headers, entries, blocks, pool, producer, consumers>>

Last(s) == s[Len(s)]
blockIndex == Last(headers)
Base(i) == i - (i % BLOCK_SIZE)

\* An index of the capacity of index, a sequence of numbers of entries; the
\* position p of the code is the element p + 1 of the sequence.
Header(index, tail) == [index |-> index, tail |-> tail]
Capacity(h) == Len(h.index)
EntryAt(h, p) == h.index[(p % Capacity(h)) + 1]
NewEntries(n) == [i \in 1 .. n |-> [key |-> INVALID_BLOCK_BASE, value |-> Null]]
Upto(m, n) == [i \in 1 .. n - m |-> m + i]

NoneMine == [entry |-> 0, block |-> Null]
NoLocals == [tail |-> 0, overcommit |-> 0, count |-> 0, index |-> 0,
             header |-> 0, at |-> 0, entry |-> 0, block |-> Null]

Init ==
    /\ tailIndex = 0 /\ headIndex = 0
    /\ dequeueOptimisticCount = 0 /\ dequeueOvercommit = 0
    /\ headers = <<Header(Upto(0, IMPLICIT_INITIAL_INDEX_SIZE), IMPLICIT_INITIAL_INDEX_SIZE - 1)>>
    /\ entries = NewEntries(IMPLICIT_INITIAL_INDEX_SIZE)
    /\ elements = [b \in Blocks |-> [s \in 0 .. BLOCK_SIZE - 1 |-> NoItem]]
    /\ elementsCompletelyDequeued = [b \in Blocks |-> 0]
    /\ unused = InitialBlocks /\ freeList = {} /\ created = {}
    /\ tailBlock = Null /\ step = "idle" /\ mine = NoneMine /\ enqueues = 0
    /\ pc = [c \in Consumers |-> "idle"]
    /\ local = [c \in Consumers |-> NoLocals]
    /\ got = [c \in Consumers |-> <<>>]

-------------------------------------------------------------------------------
(* enqueue(), by the one thread of the stream. *)

ProducerGoes(from, to) == step = from /\ step' = to

\* The block under the tail has room, or a new one is needed.
Enqueue ==
    /\ enqueues < MaxEnqueues
    /\ ProducerGoes("idle", IF tailIndex % BLOCK_SIZE = 0 THEN "insert" ELSE "construct")
    /\ enqueues' = enqueues + 1
    /\ UNCHANGED <<indexes, headers, entries, blocks, pool, mine, tailBlock, consumers>>

\* insert_block_index_entry(): the entry after the last is free, or the index is
\* full (or was not made: then nothing is enqueued).
NextEntry(h) == EntryAt(h, h.tail + 1)
IsFree(e) == entries[e].key = INVALID_BLOCK_BASE \/ entries[e].value = Null
\* Mutant of FindEntry: the entry is taken whether or not a block is still in it.
FindAnyEntry ==
    /\ ProducerGoes("insert", "key")
    /\ mine' = [mine EXCEPT !.entry = NextEntry(blockIndex)]
    /\ UNCHANGED <<indexes, headers, entries, blocks, pool, enqueues, tailBlock, consumers>>
FindEntry ==
    /\ ProducerGoes("insert", IF IsFree(NextEntry(blockIndex)) THEN "key" ELSE "grow")
    /\ mine' = [mine EXCEPT !.entry = NextEntry(blockIndex)]
    /\ UNCHANGED <<indexes, headers, entries, blocks, pool, enqueues, tailBlock, consumers>>

\* new_block_index(): the entries of the old index, the oldest first, then as
\* many new ones; the tail is at the newest of the old.
Grown(h, n) ==
    Header([p \in 1 .. Capacity(h) |-> EntryAt(h, h.tail + p)] \o Upto(n, n + Capacity(h)),
           Capacity(h) - 1)
GrowIndex ==
    LET h == Grown(blockIndex, Len(entries))
    IN
    /\ ProducerGoes("grow", "key")
    /\ headers' = Append(headers, h)
    /\ entries' = entries \o NewEntries(Capacity(blockIndex))
    /\ mine' = [mine EXCEPT !.entry = NextEntry(h)]
    /\ UNCHANGED <<indexes, blocks, pool, enqueues, tailBlock, consumers>>

GrowFails ==
    /\ MallocFails
    /\ ProducerGoes("grow", "idle")
    /\ mine' = NoneMine
    /\ UNCHANGED <<indexes, headers, entries, blocks, pool, enqueues, tailBlock, consumers>>

StoreKey ==
    /\ ProducerGoes("key", "tail")
    /\ entries' = [entries EXCEPT ![mine.entry].key = tailIndex]
    /\ UNCHANGED <<indexes, headers, blocks, pool, mine, enqueues, tailBlock, consumers>>

SetTail(tail) == headers' = [headers EXCEPT ![Len(headers)].tail = tail % Capacity(blockIndex)]
StoreTail ==
    /\ ProducerGoes("tail", "requisition")
    /\ SetTail(blockIndex.tail + 1)
    /\ UNCHANGED <<indexes, entries, blocks, pool, mine, enqueues, tailBlock, consumers>>

\* requisition_block() and reset_empty(): the blocks of the initial pool first,
\* then those of the free list; try_get() may miss a block that is being added.
Obtain(b) ==
    /\ ProducerGoes("requisition", "value")
    /\ mine' = [mine EXCEPT !.block = b]
    /\ elementsCompletelyDequeued' = [elementsCompletelyDequeued EXCEPT ![b] = 0]
    /\ UNCHANGED <<indexes, headers, entries, elements, enqueues, tailBlock, consumers>>
FromInitialPool == \E b \in unused :
    Obtain(b) /\ unused' = unused \ {b} /\ UNCHANGED <<freeList, created>>
FromFreeList == unused = {} /\ \E b \in freeList :
    Obtain(b) /\ freeList' = freeList \ {b} /\ UNCHANGED <<unused, created>>
FromMalloc == unused = {} /\ \E b \in OtherBlocks \ created :
    Obtain(b) /\ created' = created \cup {b} /\ UNCHANGED <<unused, freeList>>

\* rewind_block_index_tail(): enqueue() returns false.
RequisitionFails ==
    /\ MallocFails /\ unused = {}
    /\ ProducerGoes("requisition", "idle")
    /\ SetTail(blockIndex.tail + Capacity(blockIndex) - 1)
    /\ entries' = [entries EXCEPT ![mine.entry].value = Null]
    /\ mine' = NoneMine
    /\ UNCHANGED <<indexes, blocks, pool, enqueues, tailBlock, consumers>>

StoreValue ==
    /\ ProducerGoes("value", "construct")
    /\ entries' = [entries EXCEPT ![mine.entry].value = mine.block]
    /\ tailBlock' = mine.block /\ mine' = NoneMine
    /\ UNCHANGED <<indexes, headers, blocks, pool, enqueues, consumers>>

Construct ==
    /\ ProducerGoes("construct", "publish")
    /\ elements' = [elements EXCEPT ![tailBlock][tailIndex % BLOCK_SIZE] = enqueues]
    /\ UNCHANGED <<indexes, headers, entries, elementsCompletelyDequeued, pool,
                   mine, enqueues, tailBlock, consumers>>

Publish ==
    /\ ProducerGoes("publish", "idle")
    /\ tailIndex' = tailIndex + 1
    /\ UNCHANGED <<headIndex, dequeueOptimisticCount, dequeueOvercommit, headers, entries, blocks,
                   pool, mine, enqueues, tailBlock, consumers>>

-------------------------------------------------------------------------------
(* dequeue(): first the claim of an item by the counters.                  *)

Goes(c, from, to) == pc[c] = from /\ pc' = [pc EXCEPT ![c] = to]
Sets(c, field, value) == local' = [local EXCEPT ![c][field] = value]
Forgets(c) == local' = [local EXCEPT ![c] = NoLocals]
rest == <<headers, entries, blocks, pool, producer, got>>

LoadTail(c) ==
    /\ Goes(c, "idle", "overcommit")
    /\ step # "destroyed"
    /\ Sets(c, "tail", tailIndex)
    /\ UNCHANGED <<indexes, rest>>

LoadOvercommit(c) ==
    /\ Goes(c, "overcommit", "optimistic")
    /\ Sets(c, "overcommit", dequeueOvercommit)
    /\ UNCHANGED <<indexes, rest>>

\* circular_less_than() of a count and a tail; the 64 bits never wrap.
Promising(c) == dequeueOptimisticCount - local[c].overcommit < local[c].tail
SeesItem(c) ==
    /\ Promising(c)
    /\ Goes(c, "optimistic", "commit")
    /\ UNCHANGED <<indexes, local, rest>>
SeesNone(c) ==
    /\ ~Promising(c)
    /\ Goes(c, "optimistic", "idle")
    /\ Forgets(c)
    /\ UNCHANGED <<indexes, rest>>

Commit(c) ==
    /\ dequeueOptimisticCount < MaxClaims
    /\ Goes(c, "commit", "recheck")
    /\ Sets(c, "count", dequeueOptimisticCount)
    /\ dequeueOptimisticCount' = dequeueOptimisticCount + 1
    /\ UNCHANGED <<tailIndex, headIndex, dequeueOvercommit, rest>>

\* Mutant of Recheck: the claim is not checked again.
RecheckSkipped(c) ==
    /\ Goes(c, "recheck", "claim")
    /\ Forgets(c)
    /\ UNCHANGED <<indexes, rest>>
Recheck(c) ==
    /\ Goes(c, "recheck", IF local[c].count - local[c].overcommit < tailIndex
                          THEN "claim" ELSE "giveBack")
    /\ Forgets(c)
    /\ UNCHANGED <<indexes, rest>>

\* Mutant of GiveBack: the claim is not given back.
GiveNothingBack(c) ==
    /\ Goes(c, "giveBack", "idle")
    /\ UNCHANGED <<indexes, local, rest>>
GiveBack(c) ==
    /\ Goes(c, "giveBack", "idle")
    /\ dequeueOvercommit' = dequeueOvercommit + 1
    /\ UNCHANGED <<tailIndex, headIndex, dequeueOptimisticCount, local, rest>>

Claim(c) ==
    /\ Goes(c, "claim", "header")
    /\ Sets(c, "index", headIndex)
    /\ headIndex' = headIndex + 1
    /\ UNCHANGED <<tailIndex, dequeueOptimisticCount, dequeueOvercommit, rest>>

-------------------------------------------------------------------------------
(* Then its block: get_block_index_entry_for_index().                      *)

LoadBlockIndex(c) ==
    /\ Goes(c, "header", "indexTail")
    /\ Sets(c, "header", Len(headers))
    /\ UNCHANGED <<indexes, rest>>

LoadIndexTail(c) ==
    /\ Goes(c, "indexTail", "entry")
    /\ Sets(c, "at", headers[local[c].header].tail)
    /\ UNCHANGED <<indexes, rest>>

\* The key at the tail, and from it the distance to the entry of the block: the
\* capacity is added to keep the position above zero.
Position(l, tailBase) ==
    l.at + Capacity(headers[l.header]) + (Base(l.index) - tailBase) \div BLOCK_SIZE
FindBlock(c) ==
    LET h == headers[local[c].header]
        tailBase == entries[EntryAt(h, local[c].at)].key
    IN
    /\ Goes(c, "entry", "block")
    /\ Sets(c, "entry", EntryAt(h, Position(local[c], tailBase)))
    /\ UNCHANGED <<indexes, rest>>

LoadBlock(c) ==
    /\ Goes(c, "block", "take")
    /\ Sets(c, "block", entries[local[c].entry].value)
    /\ UNCHANGED <<indexes, rest>>

\* The item is moved out and what is left destroyed.
Take(c) ==
    LET slot == local[c].index % BLOCK_SIZE
    IN
    /\ Goes(c, "take", "count")
    /\ got' = [got EXCEPT ![c] = Append(@, elements[local[c].block][slot])]
    /\ elements' = [elements EXCEPT ![local[c].block][slot] = NoItem]
    /\ UNCHANGED <<indexes, headers, entries, elementsCompletelyDequeued, pool, producer, local>>

\* Block::set_empty(): the last to count clears the entry and frees the block.
IsLast(c) == elementsCompletelyDequeued[local[c].block] = BLOCK_SIZE - 1
CountEmpty(c) ==
    /\ Goes(c, "count", IF IsLast(c) THEN "clear" ELSE "idle")
    /\ elementsCompletelyDequeued' = [elementsCompletelyDequeued EXCEPT ![local[c].block] = @ + 1]
    /\ IF IsLast(c) THEN UNCHANGED local ELSE Forgets(c)
    /\ UNCHANGED <<indexes, headers, entries, elements, pool, producer, got>>

ClearEntry(c) ==
    /\ Goes(c, "clear", "release")
    /\ entries' = [entries EXCEPT ![local[c].entry].value = Null]
    /\ UNCHANGED <<indexes, headers, blocks, pool, producer, local, got>>

\* add_block_to_free_list(): a block that was created is destroyed.
FreeBlocks(bs) ==
    /\ freeList' = freeList \cup (bs \cap InitialBlocks)
    /\ created' = created \ bs
    /\ UNCHANGED unused
Release(c) ==
    /\ Goes(c, "release", "idle")
    /\ Forgets(c)
    /\ FreeBlocks({local[c].block})
    /\ UNCHANGED <<indexes, headers, entries, blocks, producer, got>>

-------------------------------------------------------------------------------
(* The destructor, when no call is in progress: the blocks of the items    *)
(* left are freed as the next one is reached, the last one at the end.     *)

EntryOf(i) ==
    EntryAt(blockIndex,
            Position([at |-> blockIndex.tail, header |-> Len(headers), index |-> i],
                     entries[EntryAt(blockIndex, blockIndex.tail)].key))
BlockOf(i) == entries[EntryOf(i)].value
Left == headIndex .. tailIndex - 1
LastBlock ==
    IF Left # {} \/ tailIndex % BLOCK_SIZE # 0 THEN {tailBlock} \ {Null} ELSE {}
Destroy ==
    /\ \A c \in Consumers : pc[c] = "idle"
    /\ ProducerGoes("idle", "destroyed")
    /\ FreeBlocks({BlockOf(i) : i \in {j \in Left : Base(j) # Base(tailIndex - 1)}} \cup LastBlock)
    /\ elements' = [b \in Blocks |-> [s \in 0 .. BLOCK_SIZE - 1 |->
                        IF \E i \in Left : b = BlockOf(i) /\ s = i % BLOCK_SIZE
                        THEN NoItem ELSE elements[b][s]]]
    /\ UNCHANGED <<indexes, headers, entries, elementsCompletelyDequeued, tailBlock, mine, enqueues,
                   consumers>>

-------------------------------------------------------------------------------
Producer ==
    \/ Enqueue \/ FindEntry \/ GrowIndex \/ GrowFails \/ StoreKey \/ StoreTail
    \/ FromInitialPool \/ FromFreeList \/ FromMalloc \/ RequisitionFails
    \/ StoreValue \/ Construct \/ Publish
Dequeue(c) ==
    \/ LoadTail(c) \/ LoadOvercommit(c) \/ SeesItem(c) \/ SeesNone(c) \/ Commit(c) \/ Recheck(c)
    \/ GiveBack(c) \/ Claim(c) \/ LoadBlockIndex(c) \/ LoadIndexTail(c) \/ FindBlock(c)
    \/ LoadBlock(c) \/ Take(c) \/ CountEmpty(c) \/ ClearEntry(c) \/ Release(c)

Next == Producer \/ Destroy \/ \E c \in Consumers : Dequeue(c)
Spec == Init /\ [][Next]_vars

(* A call that has begun goes on; nothing makes the threads call.            *)
FairSpec ==
    /\ Spec
    /\ WF_vars(step # "idle" /\ Producer)
    /\ \A c \in Consumers : WF_vars(pc[c] # "idle" /\ Dequeue(c))

-------------------------------------------------------------------------------
(* Properties *)

Items == 1 .. MaxEnqueues
TypeOK ==
    /\ tailIndex \in Nat /\ headIndex \in Nat
    /\ dequeueOptimisticCount \in Nat /\ dequeueOvercommit \in Nat
    /\ \A k \in DOMAIN headers :
          /\ headers[k].tail \in 0 .. Capacity(headers[k]) - 1
          /\ headers[k].index \in Seq(DOMAIN entries)
    /\ entries \in Seq([key : Nat, value : Blocks \cup {Null}])
    /\ elements \in [Blocks -> [0 .. BLOCK_SIZE - 1 -> Items \cup {NoItem}]]
    /\ elementsCompletelyDequeued \in [Blocks -> 0 .. BLOCK_SIZE]
    /\ unused \subseteq InitialBlocks /\ freeList \subseteq InitialBlocks
    /\ created \subseteq OtherBlocks
    /\ tailBlock \in Blocks \cup {Null}
    /\ mine \in [entry : {0} \cup DOMAIN entries, block : Blocks \cup {Null}]
    /\ enqueues \in Nat
    /\ \A c \in Consumers : local[c].block \in Blocks \cup {Null} /\ got[c] \in Seq(Items)

\* Nobody claims an item that is not there (the assertion of line 2494), and the
\* counters that decide it balance: optimistic claims are items claimed, claims
\* given back, or claims of calls in progress.  A claim too few given back would
\* hide an item for ever, one too many would let two calls claim the same one.
Claiming == {c \in Consumers : pc[c] \in {"recheck", "claim", "giveBack"}}
ClaimsBalance ==
    dequeueOptimisticCount = headIndex + dequeueOvercommit + Cardinality(Claiming)
ClaimsPublished == headIndex + Cardinality({c \in Consumers : pc[c] = "claim"}) <= tailIndex

\* The assertions of lines 2957 and 2962: whatever index a consumer has loaded,
\* it leads to the entry of its item's block, and the block is still in it.
EntryIsRight ==
    \A c \in Consumers :
        /\ pc[c] = "entry" =>
              entries[EntryAt(headers[local[c].header], local[c].at)].key # INVALID_BLOCK_BASE
        /\ pc[c] = "block" => entries[local[c].entry].key = Base(local[c].index)
                              /\ entries[local[c].entry].value # Null

\* A consumer works on a block that nobody has freed, and the count of its empty
\* places does not overflow (the assertion of line 1608).
BlockIsMine ==
    \A c \in Consumers :
        pc[c] \in {"take", "count", "clear", "release"} =>
            /\ local[c].block \in (InitialBlocks \ (freeList \cup unused)) \cup created
            /\ pc[c] \in {"take", "count"} =>
                  elementsCompletelyDequeued[local[c].block] < BLOCK_SIZE

\* Every block is in the pool, in one entry of the index, or in the hands of the
\* one thread that puts it there or takes it away: none leaks, none is in two
\* places.
InUse ==
    ({entries[e].value : e \in DOMAIN entries} \cup {mine.block}
        \cup {local[c].block : c \in {d \in Consumers : pc[d] = "release"}}) \ {Null}
BlocksAccounted ==
    step # "destroyed" =>
        /\ InUse \cap (unused \cup freeList) = {}
        /\ InUse \cup unused \cup freeList = InitialBlocks \cup created
        /\ \A d, e \in DOMAIN entries :
              entries[d].value = entries[e].value => d = e \/ entries[d].value = Null

\* The destructor returns every block and destroys every item left, although it
\* frees the last block by a rule of its own (line 2467).
AllReturned ==
    step = "destroyed" =>
        /\ unused \cup freeList = InitialBlocks /\ created = {}
        /\ \A b \in Blocks, s \in 0 .. BLOCK_SIZE - 1 : elements[b][s] = NoItem

\* The counters, and the blocks and the index: their parts above.
Counters == ClaimsBalance /\ ClaimsPublished
BlocksInPlace == TypeOK /\ EntryIsRight /\ BlockIsMine /\ BlocksAccounted /\ AllReturned

\* The stream is a FIFO queue: an item is put by the store of tailIndex and taken
\* by the increment of headIndex.  Nothing is lost, doubled or reordered by the
\* growth of the index, the reuse of blocks or an allocation that fails.
ItemAt(i) == elements[BlockOf(i)][i % BLOCK_SIZE]
Fifo == INSTANCE FifoQueue WITH
    Values <- Items,
    items <- [k \in 1 .. tailIndex - headIndex |-> ItemAt(headIndex + k - 1)],
    got <- [c \in Consumers |->
              IF pc[c] \in {"header", "indexTail", "entry", "block", "take"}
              THEN Append(got[c], ItemAt(local[c].index)) ELSE got[c]]
ImplementsFifo == Fifo!Init /\ [][Fifo!Next \/ Destroy]_(Fifo!vars)

\* A consumer that calls again and again while the others have stopped gets every
\* item there is to get, whatever claims they made and gave back before.  (Two that
\* race may both find nothing, again and again, though there is an item.)
SolePollerDrains ==
    \A c \in Consumers :
        /\ []<>(pc[c] = "overcommit")
        /\ <>[](\A d \in Consumers \ {c} : pc[d] = "idle")
        => []<>(headIndex = tailIndex)
===============================================================================
