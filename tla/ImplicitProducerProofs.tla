----------------------- MODULE ImplicitProducerProofs -----------------------
(***************************************************************************)
(* ImplicitProducer for every number of consumers, blocks and calls.       *)
(*                                                                         *)
(* Typed is what the steps keep by themselves.  CountersInv says what each *)
(* thread in a dequeue has read of the four counters.  Nested and KeysInv  *)
(* say that an older index sits, moved, in every newer one, and that the   *)
(* keys lie in order from the tail backwards: a key is an index away from  *)
(* the tail's.  HeldOnce, StockInv and ElementsInv say that an item is     *)
(* claimed once, that a block stays until the last of its items is taken,  *)
(* is in one place and has counted its empty slots, and that its slots are *)
(* full exactly for the items constructed and not taken.  StreamInv adds   *)
(* what the queue holds, and the refinement is proved action by action.    *)
(***************************************************************************)
EXTENDS ImplicitProducer, SequenceTheorems, FiniteSetTheorems, TLAPS

-------------------------------------------------------------------------------
(* Division and remainders *)

LEMMA DivMod ==
    ASSUME NEW n \in Nat \ {0}, NEW a \in Int
    PROVE  /\ a \div n \in Int /\ a % n \in 0 .. n - 1
           /\ a = n * (a \div n) + (a % n)
OBVIOUS

LEMMA ModIs ==
    ASSUME NEW n \in Nat \ {0}, NEW x \in Int, NEW r \in 0 .. n - 1
    PROVE  (n * x + r) % n = r /\ (n * x + r) \div n = x
OBVIOUS

\* Congruence modulo n.
LEMMA SameMod ==
    ASSUME NEW n \in Nat \ {0}, NEW a \in Int, NEW b \in Int
    PROVE  a % n = b % n <=> \E z \in Int : a - b = n * z
<1>1. PICK x \in Int, r \in 0 .. n - 1 : a = n * x + r /\ a % n = r
  BY DivMod
<1>2. PICK y \in Int, q \in 0 .. n - 1 : b = n * y + q /\ b % n = q
  BY DivMod
<1>3. ASSUME r = q PROVE \E z \in Int : a - b = n * z
  <2>1. n * x - n * y = n * (x - y) /\ n * x \in Int /\ n * y \in Int /\ x - y \in Int
    OBVIOUS
  <2>2. a - b = n * x - n * y
    BY <1>1, <1>2, <1>3, <2>1
  <2>3. a - b = n * (x - y)
    BY <2>1, <2>2
  <2> QED BY <2>1, <2>3
<1>4. ASSUME NEW z \in Int, a - b = n * z PROVE r = q
  <2>1. n * y + n * z = n * (y + z)
    OBVIOUS
  <2>2. n * y \in Int /\ n * z \in Int /\ n * (y + z) \in Int
    OBVIOUS
  <2>3. a = n * (y + z) + q
    BY <1>2, <1>4, <2>1, <2>2
  <2>4. (n * (y + z) + q) % n = q
    BY ModIs
  <2> QED BY <1>1, <2>3, <2>4
<1> QED BY <1>1, <1>2, <1>3, <1>4

LEMMA ModShift ==
    ASSUME NEW n \in Nat \ {0}, NEW a \in Int, NEW b \in Int, NEW x \in Int, a % n = b % n
    PROVE  (a + x) % n = (b + x) % n
<1>1. PICK z \in Int : a - b = n * z
  BY SameMod
<1>2. (a + x) - (b + x) = n * z
  BY <1>1
<1>3. a + x \in Int /\ b + x \in Int
  OBVIOUS
<1> QED BY <1>2, <1>3, SameMod

LEMMA ModTwice ==
    ASSUME NEW n \in Nat \ {0}, NEW a \in Int
    PROVE  (a % n) % n = a % n
<1>1. a % n \in 0 .. n - 1
  BY DivMod
<1>2. \A r \in 0 .. n - 1 : (n * 0 + r) % n = r
  BY ModIs
<1> QED BY <1>1, <1>2

\* Numbers less than n apart and congruent are equal.
LEMMA ModClose ==
    ASSUME NEW n \in Nat \ {0}, NEW a \in Int, NEW b \in Int, a % n = b % n,
           a - b < n, b - a < n
    PROVE  a = b
<1>1. PICK z \in Int : a - b = n * z
  BY SameMod
<1>2. ASSUME z > 0 PROVE n * z >= n
  BY <1>2
<1>3. ASSUME z < 0 PROVE n * z <= -n
  BY <1>3
<1>4. z = 0
  BY <1>1, <1>2, <1>3
<1>5. n * z = 0
  BY <1>4
<1> QED BY <1>1, <1>5

\* Congruence modulo a multiple of n.
LEMMA ModFactor ==
    ASSUME NEW n \in Nat \ {0}, NEW d \in Nat \ {0}, NEW m \in Nat \ {0}, m = n * d,
           NEW a \in Int, NEW b \in Int, a % m = b % m
    PROVE  a % n = b % n
<1>1. PICK z \in Int : a - b = m * z
  BY SameMod
<1>2. (n * d) * z = n * (d * z) /\ d * z \in Int
  OBVIOUS
<1>3. \E y \in Int : a - b = n * y
  BY <1>1, <1>2
<1> QED BY <1>3, SameMod

LEMMA ModFactors ==
    ASSUME NEW n \in Nat \ {0}, NEW d \in Nat \ {0}
    PROVE  \A a, b \in Int : a % (n * d) = b % (n * d) => a % n = b % n
<1>1. PICK m \in Nat \ {0} : m = n * d
  OBVIOUS
<1>2. \A a, b \in Int : a % m = b % m => a % n = b % n
  BY <1>1, ModFactor
<1> QED BY Zenon, <1>1, <1>2
-------------------------------------------------------------------------------
(* Types: all that the steps keep by themselves *)

Entries == 1 .. Len(entries)
Entry == [key : Nat, value : Blocks \cup {Null}]
Locals == [tail : Nat, overcommit : Nat, count : Nat, index : Nat,
           header : Nat, at : Nat, entry : Nat, block : Blocks \cup {Null}]

ProducerSteps == {"idle", "insert", "grow", "key", "tail", "requisition", "value",
                  "construct", "publish", "destroyed"}
ConsumerSteps == {"idle", "overcommit", "optimistic", "commit", "recheck", "giveBack", "claim",
                  "header", "indexTail", "entry", "block", "take", "count", "clear", "release"}

CountersTyped ==
    /\ tailIndex \in Nat /\ headIndex \in Nat
    /\ dequeueOptimisticCount \in Nat /\ dequeueOvercommit \in Nat
IndexTyped ==
    /\ headers \in Seq([index : Seq(Nat), tail : Nat]) /\ Len(headers) > 0
    /\ entries \in Seq(Entry)
    /\ \A k \in 1 .. Len(headers) :
          /\ headers[k].index \in Seq(Entries) /\ Capacity(headers[k]) > 0
          /\ headers[k].tail \in 0 .. Capacity(headers[k]) - 1
BlocksTyped ==
    /\ elements \in [Blocks -> [0 .. BLOCK_SIZE - 1 -> Nat]]
    /\ elementsCompletelyDequeued \in [Blocks -> Nat]
    /\ unused \subseteq InitialBlocks /\ freeList \subseteq InitialBlocks
    /\ created \subseteq OtherBlocks
ProducerTyped ==
    /\ tailBlock \in Blocks \cup {Null} /\ step \in ProducerSteps /\ enqueues \in Nat
    /\ mine \in [entry : Nat, block : Blocks \cup {Null}]
    /\ step \in {"key", "tail", "requisition", "value"} => mine.entry \in Entries
ConsumersTyped ==
    /\ pc \in [Consumers -> ConsumerSteps]
    /\ local \in [Consumers -> Locals]
    /\ \A c \in Consumers :
          /\ pc[c] \in {"indexTail", "entry"} => local[c].header \in 1 .. Len(headers)
          /\ pc[c] \in {"block", "take", "count", "clear"} => local[c].entry \in Entries

Typed == CountersTyped /\ IndexTyped /\ BlocksTyped /\ ProducerTyped /\ ConsumersTyped

LEMMA SeqWider ==
    ASSUME NEW S, NEW T, \A x \in S : x \in T, NEW s \in Seq(S)
    PROVE  s \in Seq(T)
OBVIOUS

LEMMA EntryAtIn ==
    ASSUME NEW S, NEW h, h.index \in Seq(S), Capacity(h) > 0, NEW p \in Int
    PROVE  EntryAt(h, p) \in S
<1>1. Len(h.index) \in Nat \ {0}
  BY DEF Capacity
<1>2. p % Len(h.index) \in 0 .. Len(h.index) - 1
  BY <1>1, DivMod
<1>3. \A r \in 0 .. Len(h.index) - 1 : r + 1 \in 1 .. Len(h.index)
  BY <1>1
<1> QED BY <1>2, <1>3 DEF EntryAt, Capacity

LEMMA InitTyped == Init => Typed
<1> SUFFICES ASSUME Init PROVE Typed
  OBVIOUS
<1> DEFINE n == IMPLICIT_INITIAL_INDEX_SIZE
<1>1. n \in Nat \ {0} /\ BLOCK_SIZE \in Nat /\ BLOCK_SIZE > 1
  BY SizesAssumption
<1>2. entries \in Seq(Entry) /\ Len(entries) = n
  BY <1>1 DEF Init, NewEntries, Entry, INVALID_BLOCK_BASE
<1>3. Upto(0, n) \in Seq(1 .. n) /\ Len(Upto(0, n)) = n /\ Upto(0, n) \in Seq(Nat)
  BY <1>1 DEF Upto
<1>4. IndexTyped
  BY <1>1, <1>2, <1>3 DEF Init, Header, IndexTyped, Entries, Capacity
<1> QED BY <1>1, <1>4
        DEF Init, Typed, CountersTyped, BlocksTyped, ProducerTyped, ConsumersTyped,
            ProducerSteps, ConsumerSteps, Locals, NoLocals, NoneMine, NoItem

\* Each field of a consumer's locals keeps its type.
LEMMA LocalSet ==
    ASSUME ConsumersTyped, NEW c \in Consumers, NEW v,
           NEW f \in {"tail", "overcommit", "count", "index", "header", "at", "entry", "block"},
           IF f = "block" THEN v \in Blocks \cup {Null} ELSE v \in Nat
    PROVE  /\ [local EXCEPT ![c][f] = v] \in [Consumers -> Locals]
           /\ [local EXCEPT ![c][f] = v][c][f] = v
           /\ \A d \in Consumers : d # c => [local EXCEPT ![c][f] = v][d] = local[d]
BY DEF ConsumersTyped, Locals

LEMMA UptoIs ==
    ASSUME NEW m \in Nat, NEW n \in Nat
    PROVE  Upto(m, m + n) = [i \in 1 .. n |-> m + i]
<1>1. m + n - m = n
  OBVIOUS
<1>2. Upto(m, m + n) = [i \in 1 .. m + n - m |-> m + i]
  BY DEF Upto
<1> QED BY <1>1, <1>2

LEMMA IndexGrows ==
    ASSUME IndexTyped, GrowIndex
    PROVE  IndexTyped' /\ NextEntry(Grown(blockIndex, Len(entries))) \in Entries'
<1> DEFINE h == blockIndex
           n == Capacity(h)
           old == [p \in 1 .. n |-> EntryAt(h, h.tail + p)]
           new == Upto(Len(entries), Len(entries) + n)
           g == Header(old \o new, n - 1)
<1>1. Len(headers) \in 1 .. Len(headers) /\ Len(entries) \in Nat
  BY DEF IndexTyped
<1>2. h.index \in Seq(Entries) /\ n \in Nat \ {0} /\ h.tail \in Nat
  BY <1>1 DEF IndexTyped, blockIndex, Last, Capacity
<1>3. Len(entries') = Len(entries) + n /\ entries' \in Seq(Entry)
  <2>1. entries' = entries \o NewEntries(n)
    BY DEF GrowIndex
  <2> HIDE DEF n
  <2>2. NewEntries(n) \in Seq(Entry) /\ Len(NewEntries(n)) = n
    BY <1>2 DEF NewEntries, Entry, INVALID_BLOCK_BASE
  <2> QED BY <2>1, <2>2, ConcatProperties DEF IndexTyped
<1>4. \A e \in Entries : e \in Entries'
  BY <1>1, <1>2, <1>3 DEF Entries
<1>5. old \in Seq(Entries') /\ Len(old) = n
  <2>1. \A p \in 1 .. n : EntryAt(h, h.tail + p) \in Entries'
    <3>1. \A p \in 1 .. n : h.tail + p \in Int
      BY <1>2
    <3> HIDE DEF h
    <3> QED BY <1>2, <1>4, <3>1, EntryAtIn
  <2> HIDE DEF n, h
  <2> QED BY <1>2, <2>1
<1>6. new \in Seq(Entries') /\ Len(new) = n
  <2>1. \A i \in 1 .. n : Len(entries) + i \in Entries'
    BY <1>1, <1>2, <1>3 DEF Entries
  <2> HIDE DEF n
  <2>2. new = [i \in 1 .. n |-> Len(entries) + i]
    BY <1>1, <1>2, UptoIs
  <2> HIDE DEF new
  <2> QED BY <1>2, <2>1, <2>2
<1>7. old \o new \in Seq(Entries') /\ Len(old \o new) = n + n
  <2> HIDE DEF old, new
  <2> QED BY <1>5, <1>6, ConcatProperties
<1>8. g = Grown(h, Len(entries)) /\ Capacity(g) = n + n /\ g.tail = n - 1 /\ g.index = old \o new
  BY <1>7 DEF Grown, Capacity, Header
<1> HIDE DEF old, new, g, n, h
<1>9. headers' = Append(headers, g)
  BY <1>8 DEF GrowIndex, h
<1>10. old \o new \in Seq(Nat)
  <2>1. \A e \in Entries' : e \in Nat
    BY DEF Entries
  <2> QED BY <1>7, <2>1, SeqWider
<1>11. g \in [index : Seq(Nat), tail : Nat]
  BY <1>2, <1>8, <1>10 DEF g, Header
<1>12. /\ headers' \in Seq([index : Seq(Nat), tail : Nat]) /\ Len(headers') = Len(headers) + 1
       /\ \A k \in 1 .. Len(headers) : headers'[k] = headers[k]
       /\ headers'[Len(headers) + 1] = g
  BY <1>9, <1>11, AppendProperties DEF IndexTyped
<1>13. ASSUME NEW k \in 1 .. Len(headers')
       PROVE  /\ headers'[k].index \in Seq(Entries') /\ Capacity(headers'[k]) > 0
              /\ headers'[k].tail \in 0 .. Capacity(headers'[k]) - 1
  <2>1. CASE k \in 1 .. Len(headers)
    <3>1. headers[k].index \in Seq(Entries) /\ Entries \subseteq Entries'
      BY <1>4, <2>1 DEF IndexTyped
    <3>2. headers[k].index \in Seq(Entries')
      BY <3>1, SeqWider
    <3> QED BY <1>12, <2>1, <3>2 DEF IndexTyped
  <2>2. CASE k = Len(headers) + 1
    <3>1. g.index \in Seq(Entries')
      BY <1>7, <1>8
    <3>2. Capacity(g) > 0 /\ g.tail \in 0 .. Capacity(g) - 1
      BY <1>2, <1>8
    <3>3. headers'[k] = g
      BY <1>12, <2>2
    <3> QED BY ZenonT(30), <3>1, <3>2, <3>3
  <2> QED BY <1>1, <1>12, <2>1, <2>2
<1>14. IndexTyped'
  BY <1>1, <1>3, <1>12, <1>13 DEF IndexTyped
<1>15. NextEntry(g) \in Entries'
  <2>1. g.tail + 1 \in Int /\ g.index \in Seq(Entries') /\ Capacity(g) > 0
    BY <1>2, <1>7, <1>8
  <2> QED BY <2>1, EntryAtIn DEF NextEntry
<1> QED BY <1>8, <1>14, <1>15 DEF h

LEMMA TailSet ==
    ASSUME IndexTyped, NEW t \in Int, SetTail(t), Len(entries') = Len(entries), entries' \in Seq(Entry)
    PROVE  /\ IndexTyped'
           /\ headers' = [headers EXCEPT ![Len(headers)] =
                            [index |-> blockIndex.index, tail |-> t % Capacity(blockIndex)]]
<1> DEFINE h == blockIndex
           n == Capacity(h)
           g == [index |-> h.index, tail |-> t % n]
<1>1. Len(headers) \in 1 .. Len(headers) /\ h = headers[Len(headers)]
  BY DEF IndexTyped, blockIndex, Last
<1>2. h \in [index : Seq(Nat), tail : Nat] /\ n \in Nat \ {0}
  <2> HIDE DEF h, g, n
  <2>1. h \in [index : Seq(Nat), tail : Nat]
    BY <1>1, ElementOfSeq DEF IndexTyped
  <2>2. Len(h.index) \in Nat
    BY <2>1
  <2>3. Capacity(h) > 0
    BY <1>1 DEF IndexTyped
  <2> QED BY <2>1, <2>2, <2>3 DEF Capacity, n
<1>3. t % n \in 0 .. n - 1
  BY <1>2, DivMod
<1>4. headers' = [headers EXCEPT ![Len(headers)] = g]
  <2> HIDE DEF n
  <2>1. [h EXCEPT !.tail = t % n] = g
    BY <1>2
  <2>2. headers' = [headers EXCEPT ![Len(headers)] = [h EXCEPT !.tail = t % n]]
    BY <1>1 DEF SetTail, n
  <2> QED BY <2>1, <2>2
<1>5. /\ headers' \in Seq([index : Seq(Nat), tail : Nat]) /\ Len(headers') = Len(headers)
      /\ headers'[Len(headers)] = g
      /\ \A k \in 1 .. Len(headers) : k # Len(headers) => headers'[k] = headers[k]
  <2>1. g \in [index : Seq(Nat), tail : Nat]
    BY <1>2, <1>3
  <2> HIDE DEF g
  <2> QED BY <1>1, <1>4, <2>1, ExceptSeq DEF IndexTyped
<1>6. Entries' = Entries
  BY DEF Entries
<1>7. \A k \in 1 .. Len(headers') :
          /\ headers'[k].index \in Seq(Entries') /\ Capacity(headers'[k]) > 0
          /\ headers'[k].tail \in 0 .. Capacity(headers'[k]) - 1
  <2>1. g.index = h.index /\ g.tail = t % n /\ Capacity(g) = n
    BY DEF Capacity
  <2>2. h.index \in Seq(Entries) /\ n > 0
    BY <1>1 DEF IndexTyped
  <2> HIDE DEF g, n
  <2> QED BY <1>3, <1>5, <1>6, <2>1, <2>2 DEF IndexTyped
<1> QED BY <1>4, <1>5, <1>7 DEF IndexTyped

LEMMA EntrySet ==
    ASSUME IndexTyped, NEW e \in Entries, NEW x \in Entry, entries' = [entries EXCEPT ![e] = x]
    PROVE  /\ entries' \in Seq(Entry) /\ Len(entries') = Len(entries)
           /\ entries'[e] = x /\ \A d \in Entries : d # e => entries'[d] = entries[d]
BY ExceptSeq DEF IndexTyped, Entries

LEMMA EntryIs ==
    ASSUME IndexTyped, NEW e \in Entries
    PROVE  /\ entries[e] \in Entry
           /\ \A k \in Nat : [entries[e] EXCEPT !.key = k] \in Entry
           /\ \A b \in Blocks \cup {Null} : [entries[e] EXCEPT !.value = b] \in Entry
<1>1. entries[e] \in Entry
  BY ElementOfSeq DEF IndexTyped, Entries
<1> QED BY <1>1 DEF Entry

LEMMA IndexKeeps ==
    ASSUME IndexTyped, headers' = headers, entries' \in Seq(Entry), Len(entries') = Len(entries)
    PROVE  IndexTyped'
<1>1. Entries' = Entries
  BY DEF Entries
<1> QED BY <1>1 DEF IndexTyped, Capacity

LEMMA IndexTypedStep == Typed /\ [Next]_vars => IndexTyped' /\ Entries \subseteq Entries'
<1> SUFFICES ASSUME Typed, [Next]_vars PROVE IndexTyped' /\ Entries \subseteq Entries'
  OBVIOUS
<1> USE DEF Typed
<1>1. Len(entries) \in Nat
  BY DEF IndexTyped
<1>2. ASSUME Len(entries') = Len(entries) PROVE Entries' = Entries
  BY <1>2 DEF Entries
<1>3. CASE headers' = headers /\ entries' = entries
  BY <1>2, <1>3, IndexKeeps DEF IndexTyped
<1>4. CASE GrowIndex
  <2>1. blockIndex.index \in Seq(Entries) /\ Capacity(blockIndex) \in Nat
    BY DEF IndexTyped, blockIndex, Last, Capacity
  <2>2. entries' = entries \o NewEntries(Capacity(blockIndex))
    BY <1>4 DEF GrowIndex
  <2>3. \A n \in Nat : NewEntries(n) \in Seq(Entry) /\ Len(NewEntries(n)) = n
    BY DEF NewEntries, Entry, INVALID_BLOCK_BASE
  <2> DEFINE n == Capacity(blockIndex)
  <2> HIDE DEF n
  <2>4. n \in Nat /\ entries' = entries \o NewEntries(n)
    BY <2>1, <2>2 DEF n
  <2>5. Len(entries') = Len(entries) + n
    <3>1. entries \in Seq(Entry) /\ NewEntries(n) \in Seq(Entry) /\ Len(NewEntries(n)) = n
      BY <2>3, <2>4 DEF IndexTyped
    <3> QED BY <2>4, <3>1, ConcatProperties
  <2> QED BY <1>1, <1>4, <2>4, <2>5, IndexGrows DEF Entries
<1>5. CASE StoreKey
  <2>1. mine.entry \in Entries /\ tailIndex \in Nat
    BY <1>5 DEF StoreKey, ProducerGoes, ProducerTyped, CountersTyped
  <2>2. [entries[mine.entry] EXCEPT !.key = tailIndex] \in Entry
    BY <2>1, EntryIs
  <2>3. entries' = [entries EXCEPT ![mine.entry] = [entries[mine.entry] EXCEPT !.key = tailIndex]]
    BY <1>5, <2>1 DEF StoreKey
  <2>4. entries' \in Seq(Entry) /\ Len(entries') = Len(entries)
    BY <2>1, <2>2, <2>3, EntrySet
  <2> QED BY <1>2, <1>5, <2>4, IndexKeeps DEF StoreKey
<1>6. CASE StoreTail
  <2>1. blockIndex.tail + 1 \in Int
    <3>1. headers[Len(headers)].tail \in 0 .. Capacity(headers[Len(headers)]) - 1
      BY DEF IndexTyped
    <3> QED BY <3>1 DEF blockIndex, Last
  <2> QED BY <1>2, <1>6, <2>1, TailSet DEF StoreTail, IndexTyped
<1>7. CASE RequisitionFails
  <2>1. mine.entry \in Entries
    BY <1>7 DEF RequisitionFails, ProducerGoes, ProducerTyped
  <2>2. [entries[mine.entry] EXCEPT !.value = Null] \in Entry
    BY <2>1, EntryIs
  <2>3. entries' = [entries EXCEPT ![mine.entry] = [entries[mine.entry] EXCEPT !.value = Null]]
    BY <1>7, <2>1 DEF RequisitionFails
  <2>4. entries' \in Seq(Entry) /\ Len(entries') = Len(entries)
    BY <2>1, <2>2, <2>3, EntrySet
  <2>5. blockIndex.tail + Capacity(blockIndex) - 1 \in Int
    BY DEF IndexTyped, blockIndex, Last, Capacity
  <2> QED BY <1>2, <1>7, <2>4, <2>5, TailSet DEF RequisitionFails
<1>8. CASE StoreValue
  <2>1. mine.entry \in Entries /\ mine.block \in Blocks \cup {Null}
    BY <1>8 DEF StoreValue, ProducerGoes, ProducerTyped
  <2>2. [entries[mine.entry] EXCEPT !.value = mine.block] \in Entry
    BY <2>1, EntryIs
  <2>3. entries' = [entries EXCEPT ![mine.entry] = [entries[mine.entry] EXCEPT !.value = mine.block]]
    BY <1>8, <2>1 DEF StoreValue
  <2>4. entries' \in Seq(Entry) /\ Len(entries') = Len(entries)
    BY <2>1, <2>2, <2>3, EntrySet
  <2> QED BY <1>2, <1>8, <2>4, IndexKeeps DEF StoreValue
<1>9. ASSUME NEW c \in Consumers, ClearEntry(c) PROVE IndexTyped' /\ Entries \subseteq Entries'
  <2> DEFINE e == local[c].entry
  <2>1. e \in Entries
    BY <1>9 DEF ClearEntry, Goes, ConsumersTyped
  <2> HIDE DEF e
  <2>2. [entries[e] EXCEPT !.value = Null] \in Entry
    BY <2>1, EntryIs
  <2>3. entries' = [entries EXCEPT ![e] = [entries[e] EXCEPT !.value = Null]]
    BY <1>9, <2>1 DEF ClearEntry, e
  <2>4. entries' \in Seq(Entry) /\ Len(entries') = Len(entries)
    BY <2>1, <2>2, <2>3, EntrySet
  <2> QED BY <1>2, <1>9, <2>4, IndexKeeps DEF ClearEntry
<1>10. \/ headers' = headers /\ entries' = entries
       \/ GrowIndex \/ StoreKey \/ StoreTail \/ RequisitionFails \/ StoreValue
       \/ \E c \in Consumers : ClearEntry(c)
  BY DEF Next, vars, Producer, Dequeue, Enqueue, FindEntry, GrowFails, FromInitialPool,
         FromFreeList, FromMalloc, Obtain, Construct, Publish, LoadTail, LoadOvercommit,
         SeesItem, SeesNone, Commit, Recheck, GiveBack, Claim, LoadBlockIndex,
         LoadIndexTail, FindBlock, LoadBlock, Take, CountEmpty, Release, Destroy, rest
<1> QED BY <1>3, <1>4, <1>5, <1>6, <1>7, <1>8, <1>9, <1>10

LEMMA CountersTypedStep == Typed /\ [Next]_vars => CountersTyped'
<1> SUFFICES ASSUME CountersTyped, [Next]_vars PROVE CountersTyped'
  BY DEF Typed
<1> USE DEF CountersTyped, indexes, rest
<1>1. CASE UNCHANGED vars
  BY <1>1 DEF vars
<1>2. CASE Producer \/ Destroy
  BY <1>2
  DEF Producer, Destroy, Enqueue, FindEntry, GrowIndex, GrowFails, StoreKey, StoreTail,
      FromInitialPool, FromFreeList, FromMalloc, Obtain, RequisitionFails, StoreValue,
      Construct, Publish
<1>3. ASSUME NEW c \in Consumers, Dequeue(c) PROVE CountersTyped'
  BY <1>3
  DEF Dequeue, LoadTail, LoadOvercommit, SeesItem, SeesNone, Commit, Recheck, GiveBack,
      Claim, LoadBlockIndex, LoadIndexTail, FindBlock, LoadBlock, Take, CountEmpty,
      ClearEntry, Release
<1> QED BY <1>1, <1>2, <1>3 DEF Next

LEMMA BlocksTypedStep == Typed /\ [Next]_vars => BlocksTyped'
<1> SUFFICES ASSUME Typed, [Next]_vars PROVE BlocksTyped'
  OBVIOUS
<1> USE DEF Typed, BlocksTyped
<1>1. CASE UNCHANGED <<blocks, pool>>
  BY <1>1 DEF blocks, pool
<1>2. CASE FromInitialPool \/ FromFreeList \/ FromMalloc
  BY <1>2 DEF FromInitialPool, FromFreeList, FromMalloc, Obtain
<1>3. CASE Construct
  <2>1. tailIndex % BLOCK_SIZE \in 0 .. BLOCK_SIZE - 1 /\ enqueues \in Nat
    <3>1. BLOCK_SIZE \in Nat \ {0} /\ tailIndex \in Int
      BY SizesAssumption DEF CountersTyped
    <3> QED BY <3>1, DivMod DEF ProducerTyped
  <2>2. UNCHANGED pool /\ elementsCompletelyDequeued' = elementsCompletelyDequeued
    BY <1>3 DEF Construct, pool
  <2>3. elements' = [elements EXCEPT ![tailBlock][tailIndex % BLOCK_SIZE] = enqueues]
    BY <1>3 DEF Construct
  <2> DEFINE m == tailIndex % BLOCK_SIZE
  <2> HIDE DEF m
  <2>4. elements' \in [Blocks -> [0 .. BLOCK_SIZE - 1 -> Nat]]
    BY <2>1, <2>3 DEF m
  <2> QED BY <2>2, <2>4 DEF pool
<1>4. ASSUME NEW c \in Consumers, Take(c) PROVE BlocksTyped'
  <2> DEFINE m == local[c].index % BLOCK_SIZE
  <2>1. UNCHANGED pool /\ elementsCompletelyDequeued' = elementsCompletelyDequeued
    BY <1>4 DEF Take, pool
  <2>2. elements' = [elements EXCEPT ![local[c].block][m] = NoItem]
    BY <1>4 DEF Take
  <2> HIDE DEF m
  <2>3. elements' \in [Blocks -> [0 .. BLOCK_SIZE - 1 -> Nat]]
    BY <2>2 DEF NoItem
  <2> QED BY <2>1, <2>3 DEF pool
<1>5. ASSUME NEW c \in Consumers, CountEmpty(c) PROVE BlocksTyped'
  <2> DEFINE b == local[c].block
  <2>1. elementsCompletelyDequeued' = [elementsCompletelyDequeued EXCEPT
                                         ![b] = elementsCompletelyDequeued[b] + 1]
    BY <1>5 DEF CountEmpty
  <2>2. UNCHANGED <<elements, pool>>
    BY <1>5 DEF CountEmpty
  <2> HIDE DEF b
  <2>3. b \in Blocks => elementsCompletelyDequeued[b] + 1 \in Nat
    OBVIOUS
  <2>4. elementsCompletelyDequeued' \in [Blocks -> Nat]
    BY <2>1, <2>3
  <2> QED BY <2>2, <2>4 DEF pool
<1>6. ASSUME NEW c \in Consumers, Release(c) PROVE BlocksTyped'
  BY <1>6 DEF Release, FreeBlocks, blocks
<1>7. CASE Destroy
  <2>1. elements' \in [Blocks -> [0 .. BLOCK_SIZE - 1 -> Nat]]
    BY <1>7 DEF Destroy, NoItem
  <2> QED BY <1>7, <2>1 DEF Destroy, FreeBlocks
<1>8. \/ UNCHANGED <<blocks, pool>> \/ FromInitialPool \/ FromFreeList \/ FromMalloc
      \/ Construct \/ Destroy \/ \E c \in Consumers : Take(c) \/ CountEmpty(c) \/ Release(c)
  BY DEF Next, vars, Producer, Dequeue, Enqueue, FindEntry, GrowIndex, GrowFails,
         StoreKey, StoreTail, RequisitionFails, StoreValue, Publish, LoadTail,
         LoadOvercommit, SeesItem, SeesNone, Commit, Recheck, GiveBack, Claim,
         LoadBlockIndex, LoadIndexTail, FindBlock, LoadBlock, ClearEntry, rest
<1> QED BY <1>1, <1>2, <1>3, <1>4, <1>5, <1>6, <1>7, <1>8

LEMMA ProducerTypedStep == Typed /\ [Next]_vars => ProducerTyped'
<1> SUFFICES ASSUME Typed, [Next]_vars PROVE ProducerTyped'
  OBVIOUS
<1> USE DEF Typed, ProducerTyped, ProducerSteps, ProducerGoes
<1>1. IndexTyped' /\ Entries \subseteq Entries'
  BY IndexTypedStep
<1>2. \A e \in Entries : e \in Nat
  BY DEF Entries
<1>3. CASE UNCHANGED producer
  BY <1>1, <1>3 DEF producer
<1>4. CASE Enqueue
  BY <1>4 DEF Enqueue
<1>5. CASE FindEntry
  <2>1. NextEntry(blockIndex) \in Entries
    <3>1. blockIndex.tail + 1 \in Int /\ blockIndex.index \in Seq(Entries) /\ Capacity(blockIndex) > 0
      BY DEF IndexTyped, blockIndex, Last
    <3> QED BY <3>1, EntryAtIn DEF NextEntry
  <2> QED BY <1>1, <1>2, <1>5, <2>1 DEF FindEntry
<1>6. CASE GrowIndex
  <2>1. NextEntry(Grown(blockIndex, Len(entries))) \in Entries'
    BY <1>6, IndexGrows
  <2>2. \A e \in Entries' : e \in Nat
    BY <1>1 DEF Entries
  <2> QED BY <1>6, <2>1, <2>2 DEF GrowIndex
<1>7. CASE GrowFails
  BY <1>7 DEF GrowFails, NoneMine
<1>8. CASE StoreKey
  BY <1>1, <1>8 DEF StoreKey
<1>9. CASE StoreTail
  BY <1>1, <1>9 DEF StoreTail
<1>10. CASE FromInitialPool \/ FromFreeList \/ FromMalloc
  BY <1>1, <1>10 DEF FromInitialPool, FromFreeList, FromMalloc, Obtain, BlocksTyped, Blocks
<1>11. CASE RequisitionFails
  BY <1>11 DEF RequisitionFails, NoneMine
<1>12. CASE StoreValue
  BY <1>12 DEF StoreValue, NoneMine
<1>13. CASE Construct
  BY <1>13 DEF Construct
<1>14. CASE Publish
  BY <1>14 DEF Publish
<1>15. CASE Destroy
  BY <1>15 DEF Destroy
<1>16. ASSUME NEW c \in Consumers, Dequeue(c) PROVE UNCHANGED producer
  BY <1>16
  DEF Dequeue, LoadTail, LoadOvercommit, SeesItem, SeesNone, Commit, Recheck, GiveBack,
      Claim, LoadBlockIndex, LoadIndexTail, FindBlock, LoadBlock, Take, CountEmpty,
      ClearEntry, Release, rest
<1>17. CASE UNCHANGED vars
  BY <1>3, <1>17 DEF vars
<1> QED BY <1>3, <1>4, <1>5, <1>6, <1>7, <1>8, <1>9, <1>10, <1>11, <1>12, <1>13, <1>14, <1>15,
           <1>16, <1>17 DEF Next, Producer

LEMMA ConsumersKeep ==
    ASSUME ConsumersTyped, UNCHANGED <<pc, local>>, Entries \subseteq Entries',
           Len(headers) \in Nat, Len(headers') \in Nat, Len(headers) <= Len(headers')
    PROVE  ConsumersTyped'
BY DEF ConsumersTyped

LEMMA HeadersGrow == IndexTyped /\ [Next]_vars => Len(headers') \in Nat /\ Len(headers) <= Len(headers')
<1> SUFFICES ASSUME IndexTyped, [Next]_vars PROVE Len(headers') \in Nat /\ Len(headers) <= Len(headers')
  OBVIOUS
<1>1. CASE headers' = headers
  BY <1>1 DEF IndexTyped
<1>2. ASSUME NEW h, headers' = Append(headers, h) PROVE Len(headers') = Len(headers) + 1
  BY <1>2 DEF IndexTyped
<1>3. ASSUME NEW t, SetTail(t) PROVE Len(headers') = Len(headers)
  <2>1. headers' = [headers EXCEPT ![Len(headers)] =
                      [headers[Len(headers)] EXCEPT !.tail = t % Capacity(blockIndex)]]
    BY <1>3 DEF SetTail, IndexTyped
  <2>2. \A x : Len([headers EXCEPT ![Len(headers)] = x]) = Len(headers)
    BY DEF IndexTyped
  <2> QED BY <2>1, <2>2
<1>4. headers' = headers \/ (\E h : headers' = Append(headers, h)) \/ \E t : SetTail(t)
  BY DEF Next, vars, Producer, Dequeue, Enqueue, FindEntry, GrowIndex, GrowFails,
         StoreKey, StoreTail, FromInitialPool, FromFreeList, FromMalloc, Obtain,
         RequisitionFails, StoreValue, Construct, Publish, LoadTail, LoadOvercommit,
         SeesItem, SeesNone, Commit, Recheck, GiveBack, Claim, LoadBlockIndex,
         LoadIndexTail, FindBlock, LoadBlock, Take, CountEmpty, ClearEntry, Release,
         Destroy, rest
<1> QED BY <1>1, <1>2, <1>3, <1>4 DEF IndexTyped

\* A step of consumer c that sets its step to one where no local matters, and one
\* that sets a local as well.
LEMMA GoesTyped ==
    ASSUME ConsumersTyped, NEW c \in Consumers, NEW from, NEW to \in ConsumerSteps,
           Goes(c, from, to), UNCHANGED <<headers, entries>>,
           to \in {"indexTail", "entry"} => local[c].header \in 1 .. Len(headers),
           to \in {"block", "take", "count", "clear"} => local[c].entry \in Entries,
           \/ local' = local
           \/ /\ local' = [local EXCEPT ![c] = NoLocals]
              /\ to \notin {"indexTail", "entry", "block", "take", "count", "clear"}
    PROVE  ConsumersTyped'
<1>1. Entries' = Entries
  BY DEF Entries
<1>2. NoLocals \in Locals
  BY DEF NoLocals, Locals
<1> QED BY <1>1, <1>2 DEF ConsumersTyped, Goes

LEMMA GoesOnly ==
    ASSUME ConsumersTyped, NEW c \in Consumers, NEW from, NEW to \in ConsumerSteps,
           Goes(c, from, to), UNCHANGED <<headers, entries>>, local' = local,
           to \notin {"indexTail", "entry"}, local[c].entry \in Entries
    PROVE  ConsumersTyped'
<1>1. Entries' = Entries
  BY DEF Entries
<1> QED BY <1>1 DEF ConsumersTyped, Goes

LEMMA SetsTyped ==
    ASSUME ConsumersTyped, NEW c \in Consumers, NEW from, NEW to \in ConsumerSteps, NEW v,
           NEW f \in {"tail", "overcommit", "count", "index", "header", "at", "entry", "block"},
           Goes(c, from, to), Sets(c, f, v), UNCHANGED <<headers, entries>>,
           IF f = "block" THEN v \in Blocks \cup {Null} ELSE v \in Nat,
           to \in {"indexTail", "entry"} => (IF f = "header" THEN v ELSE local[c].header) \in 1 .. Len(headers),
           to \in {"block", "take", "count", "clear"} => (IF f = "entry" THEN v ELSE local[c].entry) \in Entries
    PROVE  ConsumersTyped'
<1>1. Entries' = Entries
  BY DEF Entries
<1>2. local' = [local EXCEPT ![c] = [local[c] EXCEPT ![f] = v]]
  BY DEF Sets, ConsumersTyped
<1>3. [local[c] EXCEPT ![f] = v] \in Locals
  BY DEF ConsumersTyped, Locals
<1>4. /\ [local[c] EXCEPT ![f] = v].header = IF f = "header" THEN v ELSE local[c].header
      /\ [local[c] EXCEPT ![f] = v].entry = IF f = "entry" THEN v ELSE local[c].entry
  BY DEF ConsumersTyped, Locals
<1> DEFINE l == [local[c] EXCEPT ![f] = v]
<1> HIDE DEF l
<1>5. local' = [local EXCEPT ![c] = l] /\ l \in Locals
  BY <1>2, <1>3 DEF l
<1>6. local' \in [Consumers -> Locals] /\ local'[c] = l
      /\ \A d \in Consumers : d # c => local'[d] = local[d]
  BY <1>5 DEF ConsumersTyped
<1>7. pc' \in [Consumers -> ConsumerSteps] /\ pc'[c] = to
      /\ \A d \in Consumers : d # c => pc'[d] = pc[d]
  BY DEF ConsumersTyped, Goes
<1>8. /\ to \in {"indexTail", "entry"} => l.header \in 1 .. Len(headers)
      /\ to \in {"block", "take", "count", "clear"} => l.entry \in Entries
  BY <1>4 DEF l
<1> QED BY <1>1, <1>6, <1>7, <1>8 DEF ConsumersTyped

LEMMA ConsumersTypedStep == Typed /\ [Next]_vars => ConsumersTyped'
<1> SUFFICES ASSUME Typed, [Next]_vars PROVE ConsumersTyped'
  OBVIOUS
<1> USE DEF Typed
<1>1. IndexTyped' /\ Entries \subseteq Entries' /\ Len(headers) \in Nat /\ Len(headers') \in Nat
      /\ Len(headers) <= Len(headers')
  BY IndexTypedStep, HeadersGrow DEF IndexTyped
<1>2. CASE UNCHANGED <<pc, local>>
  BY <1>1, <1>2, ConsumersKeep
<1>3. UNCHANGED vars \/ Producer \/ Destroy => UNCHANGED <<pc, local>>
  BY DEF vars, Producer, Enqueue, FindEntry, GrowIndex, GrowFails, StoreKey, StoreTail,
         FromInitialPool, FromFreeList, FromMalloc, Obtain, RequisitionFails,
         StoreValue, Construct, Publish, Destroy, consumers
<1>4. ASSUME NEW c \in Consumers, Dequeue(c) PROVE ConsumersTyped'
  <2> USE DEF ConsumerSteps, CountersTyped
  <2>1. CASE LoadTail(c)
    BY <2>1, SetsTyped DEF LoadTail, rest
  <2>2. CASE LoadOvercommit(c)
    BY <2>2, SetsTyped DEF LoadOvercommit, rest
  <2>3. CASE SeesItem(c)
    BY <2>3, GoesTyped DEF SeesItem, rest
  <2>4. CASE SeesNone(c)
    BY <2>4, GoesTyped DEF SeesNone, Forgets, rest
  <2>5. CASE Commit(c)
    BY <2>5, SetsTyped DEF Commit, rest
  <2>6. CASE Recheck(c)
    <3>1. PICK to \in {"claim", "giveBack"} : Goes(c, "recheck", to)
      BY <2>6 DEF Recheck
    <3> QED BY <2>6, <3>1, GoesTyped DEF Recheck, Forgets, rest
  <2>7. CASE GiveBack(c)
    BY <2>7, GoesTyped DEF GiveBack, rest
  <2>8. CASE Claim(c)
    BY <2>8, SetsTyped DEF Claim, rest
  <2>9. CASE LoadBlockIndex(c)
    <3>1. Len(headers) \in Nat /\ Len(headers) \in 1 .. Len(headers)
      BY DEF IndexTyped
    <3> QED BY <2>9, <3>1, SetsTyped DEF LoadBlockIndex, rest
  <2>10. CASE LoadIndexTail(c)
    <3>1. local[c].header \in 1 .. Len(headers)
      BY <2>10 DEF LoadIndexTail, Goes, ConsumersTyped
    <3>2. headers[local[c].header].tail \in Nat
      BY <3>1 DEF IndexTyped
    <3> QED BY <2>10, <3>1, <3>2, SetsTyped DEF LoadIndexTail, rest
  <2>11. CASE FindBlock(c)
    <3> DEFINE l == local[c]
               h == headers[l.header]
               d == Base(l.index) - entries[EntryAt(h, l.at)].key
               e == EntryAt(h, Position(l, entries[EntryAt(h, l.at)].key))
    <3>1. l \in Locals /\ l.header \in 1 .. Len(headers)
      BY <2>11 DEF FindBlock, Goes, ConsumersTyped
    <3>2. h.index \in Seq(Entries) /\ Capacity(h) > 0 /\ l.at \in Int /\ Capacity(h) \in Int
      <4>1. h.index \in Seq(Entries) /\ Capacity(h) > 0
        BY <3>1 DEF IndexTyped
      <4>2. l.at \in Int
        BY <3>1 DEF Locals
      <4>3. Capacity(h) \in Int
        <5> HIDE DEF h
        <5> QED BY <4>1 DEF Capacity
      <4> QED BY <4>1, <4>2, <4>3
    <3>3. BLOCK_SIZE \in Nat \ {0} /\ l.index \in Int
      BY <3>1, SizesAssumption DEF Locals
    <3>4. Base(l.index) \in Int
      BY <3>3, DivMod DEF Base
    <3>5. entries[EntryAt(h, l.at)].key \in Int
      <4>1. EntryAt(h, l.at) \in Entries
        <5> HIDE DEF h, l
        <5> QED BY <3>2, EntryAtIn
      <4> QED BY <4>1, EntryIs DEF Entry
    <3>6. d \in Int
      BY <3>4, <3>5
    <3>7. d \div BLOCK_SIZE \in Int
      <4> HIDE DEF d
      <4> QED BY <3>3, <3>6, DivMod
    <3>8. Position(l, entries[EntryAt(h, l.at)].key) = l.at + Capacity(h) + (d \div BLOCK_SIZE)
      BY DEF Position
    <3>9. Position(l, entries[EntryAt(h, l.at)].key) \in Int
      <4> HIDE DEF d, h, l
      <4> QED BY <3>2, <3>7, <3>8
    <3>10. e \in Entries
      <4> HIDE DEF h, l
      <4> QED BY <3>2, <3>9, EntryAtIn
    <3>11. e \in Nat
      BY <3>10 DEF Entries
    <3>12. Goes(c, "entry", "block") /\ Sets(c, "entry", e) /\ UNCHANGED <<headers, entries>>
      BY <2>11 DEF FindBlock, rest
    <3> HIDE DEF e
    <3> QED BY <3>10, <3>11, <3>12, SetsTyped
  <2>12. CASE LoadBlock(c)
    <3>1. local[c].entry \in Entries
      BY <2>12 DEF LoadBlock, Goes, ConsumersTyped
    <3>2. entries[local[c].entry].value \in Blocks \cup {Null}
      BY <3>1, EntryIs DEF Entry
    <3> QED BY <2>12, <3>1, <3>2, SetsTyped DEF LoadBlock, rest
  <2>13. CASE Take(c)
    <3>1. local[c].entry \in Entries
      BY <2>13 DEF Take, Goes, ConsumersTyped
    <3>2. Goes(c, "take", "count") /\ UNCHANGED <<headers, entries>> /\ local' = local
      BY <2>13 DEF Take
    <3>3. "count" \in ConsumerSteps /\ "count" \notin {"indexTail", "entry"}
      BY DEF ConsumerSteps
    <3> HIDE DEF ConsumerSteps
    <3> QED BY <3>1, <3>2, <3>3, GoesOnly
  <2>14. CASE CountEmpty(c)
    <3>1. local[c].entry \in Entries
      BY <2>14 DEF CountEmpty, Goes, ConsumersTyped
    <3>2. CASE IsLast(c)
      <4>1. Goes(c, "count", "clear") /\ UNCHANGED <<headers, entries>> /\ local' = local
        BY <2>14, <3>2 DEF CountEmpty
      <4>2. "clear" \in ConsumerSteps /\ "clear" \notin {"indexTail", "entry"}
        BY DEF ConsumerSteps
      <4> HIDE DEF ConsumerSteps
      <4> QED BY <3>1, <4>1, <4>2, GoesOnly
    <3>3. CASE ~IsLast(c)
      BY <2>14, <3>3, GoesTyped DEF CountEmpty, Forgets
    <3> QED BY <3>2, <3>3
  <2>15. CASE ClearEntry(c)
    <3>1. /\ pc' = [pc EXCEPT ![c] = "release"] /\ local' = local /\ headers' = headers
      BY <2>15 DEF ClearEntry, Goes
    <3> QED BY <1>1, <3>1 DEF ConsumersTyped
  <2>16. CASE Release(c)
    BY <2>16, GoesTyped DEF Release, Forgets
  <2> QED BY <1>4, <2>1, <2>2, <2>3, <2>4, <2>5, <2>6, <2>7, <2>8, <2>9, <2>10, <2>11, <2>12,
             <2>13, <2>14, <2>15, <2>16 DEF Dequeue
<1> QED BY <1>2, <1>3, <1>4 DEF Next

\* Whatever the consumers do, the producer's local state, the blocks, the entries of
\* the index and what a consumer has read of them are of their types, in every state.
THEOREM TypedAlways == Spec => []Typed
<1>1. Typed /\ [Next]_vars => Typed'
  BY CountersTypedStep, IndexTypedStep, BlocksTypedStep, ProducerTypedStep, ConsumersTypedStep
  DEF Typed
<1> QED BY <1>1, InitTyped, PTL DEF Spec

-------------------------------------------------------------------------------
(* The counters *)

At(at) == {c \in Consumers : pc[c] = at}
Rechecking == At("recheck")
UpTo(c) == {d \in Rechecking : local[d].count <= local[c].count}
Succeeded == headIndex + Cardinality(At("claim"))

\* What a consumer read of the counters is past.
ReadEarlier ==
    \A c \in Consumers :
        /\ pc[c] \in {"optimistic", "commit", "recheck"} => local[c].overcommit <= dequeueOvercommit
        /\ pc[c] = "recheck" => local[c].count < dequeueOptimisticCount
\* The claims that count no more than c's, c's own included, are of items published
\* already, or of no more than c may claim: its count, less what had been given back.
Covered(c) ==
    \/ Succeeded + Cardinality(UpTo(c)) <= tailIndex
    \/ Succeeded + Cardinality(UpTo(c)) <= local[c].count - local[c].overcommit + 1
ClaimsCovered == \A c \in Rechecking : Covered(c)
CountersInv == Counters /\ ReadEarlier /\ ClaimsCovered

LEMMA SubsetCard ==
    ASSUME NEW S \in SUBSET Consumers
    PROVE  IsFiniteSet(S) /\ Cardinality(S) \in Nat
BY ConsumersAssumption, FS_Subset, FS_CardinalityType

LEMMA AddCard ==
    ASSUME NEW S \in SUBSET Consumers, NEW c \in Consumers, c \notin S
    PROVE  Cardinality(S \cup {c}) = Cardinality(S) + 1
BY SubsetCard, FS_AddElement

LEMMA DropCard ==
    ASSUME NEW S \in SUBSET Consumers, NEW c \in S
    PROVE  Cardinality(S \ {c}) = Cardinality(S) - 1 /\ Cardinality(S) > 0
<1>1. S \ {c} \in SUBSET Consumers /\ c \in Consumers /\ c \notin S \ {c} /\ (S \ {c}) \cup {c} = S
  OBVIOUS
<1>2. Cardinality(S) = Cardinality(S \ {c}) + 1
  BY <1>1, AddCard
<1> QED BY <1>1, <1>2, SubsetCard

LEMMA LessCard ==
    ASSUME NEW S \in SUBSET Consumers, NEW R \in SUBSET S
    PROVE  Cardinality(R) <= Cardinality(S)
BY SubsetCard, FS_Subset

LEMMA SetsIn ==
    /\ \A at : At(at) \in SUBSET Consumers
    /\ Claiming \in SUBSET Consumers
    /\ \A c : UpTo(c) \in SUBSET Rechecking /\ UpTo(c) \in SUBSET Consumers
BY DEF At, Claiming, UpTo, Rechecking

LEMMA CountersQuiet ==
    ASSUME CountersInv, CountersTyped,
           UNCHANGED <<headIndex, dequeueOptimisticCount, dequeueOvercommit>>,
           tailIndex' \in Nat, tailIndex <= tailIndex',
           \A at \in {"recheck", "claim", "giveBack"} : \A c \in Consumers : pc'[c] = at <=> pc[c] = at,
           \A c \in Consumers :
              /\ pc'[c] \in {"optimistic", "commit"} => local'[c].overcommit <= dequeueOvercommit
              /\ pc[c] = "recheck" => local'[c] = local[c],
           local \in [Consumers -> Locals]
    PROVE  CountersInv'
<1>1. At("recheck")' = At("recheck") /\ At("claim")' = At("claim") /\ Claiming' = Claiming
  BY DEF At, Claiming
<1>2. Succeeded' = Succeeded /\ Rechecking' = Rechecking
  BY <1>1 DEF Succeeded, Rechecking
<1>3. ASSUME NEW c \in Rechecking PROVE local'[c] = local[c] /\ UpTo(c)' = UpTo(c)
  BY <1>2 DEF UpTo, Rechecking, At
<1>4. Counters'
  BY <1>1, SetsIn, SubsetCard
  DEF CountersInv, Counters, ClaimsBalance, ClaimsPublished, At, CountersTyped
<1>5. ReadEarlier'
  BY DEF CountersInv, ReadEarlier
<1>6. Succeeded \in Nat
  BY SetsIn, SubsetCard DEF Succeeded, CountersTyped
<1>7. ASSUME NEW c \in Rechecking PROVE Covered(c)'
  <2>1. Covered(c)
    BY <1>7 DEF CountersInv, ClaimsCovered
  <2>2. Cardinality(UpTo(c)) \in Nat
    BY SetsIn, SubsetCard
  <2> QED BY <1>2, <1>3, <1>6, <2>1, <2>2 DEF Covered, CountersTyped
<1>8. ClaimsCovered'
  BY <1>2, <1>7 DEF ClaimsCovered
<1> QED BY <1>4, <1>5, <1>8 DEF CountersInv

LEMMA CommitCounts ==
    ASSUME Typed, CountersInv, NEW c \in Consumers, Commit(c)
    PROVE  CountersInv'
<1> USE DEF Typed, CountersTyped
<1>1. /\ pc[c] = "commit" /\ pc'[c] = "recheck" /\ dequeueOptimisticCount' = dequeueOptimisticCount + 1
      /\ UNCHANGED <<tailIndex, headIndex, dequeueOvercommit>>
      /\ \A d \in Consumers : d # c => pc'[d] = pc[d] /\ local'[d] = local[d]
      /\ local'[c].count = dequeueOptimisticCount /\ local'[c].overcommit = local[c].overcommit
  BY DEF Commit, Goes, Sets, ConsumersTyped, Locals
<1>2. /\ At("claim")' = At("claim") /\ Rechecking' = Rechecking \cup {c} /\ c \notin Rechecking
      /\ Claiming' = Claiming \cup {c} /\ c \notin Claiming
  BY <1>1 DEF At, Rechecking, Claiming
<1>3. Counters'
  <2>1. Cardinality(Claiming') = Cardinality(Claiming) + 1
    BY <1>2, SetsIn, AddCard
  <2>2. Cardinality(At("claim")) \in Nat /\ Cardinality(Claiming) \in Nat
    BY SetsIn, SubsetCard
  <2>3. ClaimsBalance'
    BY <1>1, <2>1, <2>2 DEF CountersInv, Counters, ClaimsBalance
  <2>4. ClaimsPublished'
    BY <1>1, <1>2 DEF CountersInv, Counters, ClaimsPublished, At
  <2> QED BY <2>3, <2>4 DEF Counters
<1>4. ReadEarlier'
  <2>1. ASSUME NEW d \in Consumers PROVE local[d].count \in Nat /\ local[d].overcommit \in Nat
    BY DEF ConsumersTyped, Locals
  <2>2. ASSUME NEW d \in Consumers
        PROVE  /\ pc'[d] \in {"optimistic", "commit", "recheck"} => local'[d].overcommit <= dequeueOvercommit'
               /\ pc'[d] = "recheck" => local'[d].count < dequeueOptimisticCount'
    BY <1>1, <2>1 DEF CountersInv, ReadEarlier
  <2> QED BY <2>2 DEF ReadEarlier
<1>5. Succeeded' = Succeeded /\ Succeeded \in Nat
  BY <1>1, <1>2, SetsIn, SubsetCard DEF Succeeded
<1>6. ASSUME NEW d \in Rechecking PROVE Covered(d)'
  <2>1. d # c /\ d \in Consumers /\ pc[d] = "recheck"
    BY <1>6, <1>2 DEF Rechecking, At
  <2>2. local[d].count < dequeueOptimisticCount /\ local[d].count \in Nat
    BY <2>1 DEF CountersInv, ReadEarlier, ConsumersTyped, Locals
  <2>3. UpTo(d)' = UpTo(d)
    BY <1>1, <1>2, <2>1, <2>2 DEF UpTo, Rechecking, At
  <2>4. Covered(d)
    BY <1>6 DEF CountersInv, ClaimsCovered
  <2> QED BY <1>1, <1>5, <2>1, <2>3, <2>4 DEF Covered
<1>7. Covered(c)'
  <2>1. UpTo(c)' = Rechecking \cup {c}
    <3>1. \A d \in Rechecking : local'[d].count <= dequeueOptimisticCount
      <4>1. ASSUME NEW d \in Rechecking PROVE local'[d].count <= dequeueOptimisticCount
        <5>1. d # c /\ d \in Consumers /\ pc[d] = "recheck"
          BY <1>2 DEF Rechecking, At
        <5>2. local[d].count < dequeueOptimisticCount /\ local[d].count \in Nat
          BY <5>1 DEF CountersInv, ReadEarlier, ConsumersTyped, Locals
        <5> QED BY <1>1, <5>1, <5>2
      <4> QED BY <4>1
    <3> QED BY <1>1, <1>2, <3>1 DEF UpTo
  <2>2. Cardinality(UpTo(c)') = Cardinality(Rechecking) + 1
    BY <1>2, <2>1, SetsIn, AddCard DEF Rechecking
  <2>3. Cardinality(Rechecking) + Cardinality(At("claim")) <= Cardinality(Claiming)
    <3>1. /\ Rechecking \cap At("claim") = {} /\ Rechecking \cup At("claim") \in SUBSET Claiming
      BY DEF Rechecking, At, Claiming
    <3>2. IsFiniteSet(Rechecking) /\ IsFiniteSet(At("claim"))
      BY SetsIn, SubsetCard DEF Rechecking
    <3>3. Cardinality(Rechecking \cup At("claim")) = Cardinality(Rechecking) + Cardinality(At("claim"))
      <4>1. Cardinality(Rechecking \cap At("claim")) = 0
        BY <3>1, FS_EmptySet
      <4>2. Cardinality(Rechecking \cup At("claim"))
              = Cardinality(Rechecking) + Cardinality(At("claim")) - Cardinality(Rechecking \cap At("claim"))
        BY <3>2, FS_Union
      <4>3. Cardinality(Rechecking) \in Nat /\ Cardinality(At("claim")) \in Nat
        BY SetsIn, SubsetCard DEF Rechecking
      <4> QED BY <4>1, <4>2, <4>3
    <3> QED BY <3>1, <3>3, SetsIn, LessCard
  <2>4. local[c].overcommit <= dequeueOvercommit /\ local[c].overcommit \in Nat
    BY <1>1 DEF CountersInv, ReadEarlier, ConsumersTyped, Locals
  <2>5. dequeueOptimisticCount = headIndex + dequeueOvercommit + Cardinality(Claiming)
    BY DEF CountersInv, Counters, ClaimsBalance
  <2>6. Cardinality(Rechecking) \in Nat /\ Cardinality(At("claim")) \in Nat /\ Cardinality(Claiming) \in Nat
    BY SetsIn, SubsetCard DEF Rechecking
  <2>7. Succeeded + (Cardinality(Rechecking) + 1) <= dequeueOptimisticCount - local[c].overcommit + 1
    BY <2>3, <2>4, <2>5, <2>6 DEF Succeeded
  <2> QED BY <1>1, <1>5, <2>2, <2>7 DEF Covered
<1>8. ClaimsCovered'
  BY <1>2, <1>6, <1>7 DEF ClaimsCovered
<1> QED BY <1>3, <1>4, <1>8 DEF CountersInv

LEMMA RecheckCounts ==
    ASSUME Typed, CountersInv, NEW c \in Consumers, Recheck(c)
    PROVE  CountersInv'
<1> USE DEF Typed, CountersTyped
<1> DEFINE ok == local[c].count - local[c].overcommit < tailIndex
<1>1. /\ pc[c] = "recheck" /\ pc'[c] = IF ok THEN "claim" ELSE "giveBack"
      /\ UNCHANGED indexes
      /\ \A d \in Consumers : d # c => pc'[d] = pc[d] /\ local'[d] = local[d]
  BY DEF Recheck, Goes, Forgets, ConsumersTyped
<1>2. /\ At("claim")' = IF ok THEN At("claim") \cup {c} ELSE At("claim")
      /\ Rechecking' = Rechecking \ {c} /\ c \in Rechecking /\ c \notin At("claim")
      /\ Claiming' = Claiming
  BY <1>1 DEF At, Rechecking, Claiming
<1>3. Cardinality(At("claim")) \in Nat /\ Succeeded \in Nat
      /\ \A d : Cardinality(UpTo(d)) \in Nat /\ Cardinality(UpTo(d)') \in Nat
  <2>1. \A d : UpTo(d)' \in SUBSET Consumers
    BY DEF UpTo, Rechecking, At
  <2> QED BY <2>1, SetsIn, SubsetCard DEF Succeeded
<1>4. Succeeded' = IF ok THEN Succeeded + 1 ELSE Succeeded
  <2>1. Cardinality(At("claim")') = IF ok THEN Cardinality(At("claim")) + 1 ELSE Cardinality(At("claim"))
    BY <1>2, SetsIn, AddCard
  <2> QED BY <1>1, <1>3, <2>1 DEF Succeeded, indexes
<1>5. local[c].count \in Nat /\ local[c].overcommit \in Nat /\ Covered(c)
  BY <1>2 DEF ConsumersTyped, Locals, CountersInv, ClaimsCovered
<1>6. ok => Succeeded + Cardinality(UpTo(c)) <= tailIndex
  BY <1>3, <1>5 DEF Covered
<1>7. c \in UpTo(c) /\ Cardinality(UpTo(c)) > 0
  <2>1. c \in UpTo(c)
    BY <1>2, <1>5 DEF UpTo
  <2> QED BY <2>1, SetsIn, DropCard
<1>8. Counters'
  <2>1. Succeeded' <= tailIndex'
    BY <1>1, <1>3, <1>4, <1>6, <1>7
    DEF indexes, CountersInv, Counters, ClaimsPublished, Succeeded, At
  <2> QED BY <1>1, <1>2, <2>1 DEF indexes, CountersInv, Counters, ClaimsBalance, ClaimsPublished,
                                   Succeeded, At
<1>9. ReadEarlier'
  <2>1. ASSUME NEW d \in Consumers
        PROVE  /\ pc'[d] \in {"optimistic", "commit", "recheck"} => local'[d].overcommit <= dequeueOvercommit'
               /\ pc'[d] = "recheck" => local'[d].count < dequeueOptimisticCount'
    BY <1>1 DEF CountersInv, ReadEarlier, indexes
  <2> QED BY <2>1 DEF ReadEarlier
<1>10. ASSUME NEW d \in Rechecking, d # c PROVE Covered(d)'
  <2>1. d \in Consumers /\ local'[d] = local[d] /\ Covered(d) /\ local[d].count \in Nat
        /\ local[d].overcommit \in Nat
    BY <1>1, <1>10 DEF Rechecking, At, CountersInv, ClaimsCovered, ConsumersTyped, Locals
  <2>2. UpTo(d)' = UpTo(d) \ {c}
    BY <1>1, <1>2, <2>1 DEF UpTo, Rechecking, At
  <2>3. CASE c \in UpTo(d)
    <3>1. Cardinality(UpTo(d)') = Cardinality(UpTo(d)) - 1
      BY <2>2, <2>3, SetsIn, DropCard
    <3>2. Succeeded' + Cardinality(UpTo(d)') <= Succeeded + Cardinality(UpTo(d))
      BY <1>3, <1>4, <3>1
    <3>3. Succeeded' \in Nat
      BY <1>3, <1>4
    <3> QED BY <1>1, <1>3, <2>1, <3>2, <3>3 DEF Covered, indexes
  <2>4. CASE c \notin UpTo(d)
    <3>1. UpTo(d)' = UpTo(d)
      BY <2>2, <2>4
    <3>2. CASE ~ok
      BY <1>1, <1>4, <2>1, <3>1, <3>2 DEF Covered, indexes
    <3>3. CASE ok
      <4>1. UpTo(d) \in SUBSET (UpTo(c) \ {c})
        <5>1. local[c].count > local[d].count
          BY <1>2, <1>5, <2>1, <2>4 DEF UpTo
        <5>2. ASSUME NEW e \in UpTo(d) PROVE e \in UpTo(c) /\ e # c
          <6>1. e \in Rechecking /\ local[e].count <= local[d].count /\ local[e].count \in Nat
            BY DEF UpTo, Rechecking, At, ConsumersTyped, Locals
          <6> QED BY <1>5, <2>1, <5>1, <6>1 DEF UpTo
        <5> QED BY <5>2
      <4>2. Cardinality(UpTo(c) \ {c}) = Cardinality(UpTo(c)) - 1
        BY <1>7, SetsIn, DropCard
      <4>3. Cardinality(UpTo(d)) <= Cardinality(UpTo(c) \ {c})
        <5>1. UpTo(c) \ {c} \in SUBSET Consumers
          BY SetsIn
        <5> QED BY <4>1, <5>1, LessCard
      <4>4. Succeeded' + Cardinality(UpTo(d)') <= tailIndex'
        BY <1>1, <1>3, <1>4, <1>6, <3>1, <3>3, <4>2, <4>3 DEF indexes
      <4> QED BY <4>4 DEF Covered
    <3> QED BY <3>2, <3>3
  <2> QED BY <2>3, <2>4
<1>11. ClaimsCovered'
  BY <1>2, <1>10 DEF ClaimsCovered
<1> QED BY <1>8, <1>9, <1>11 DEF CountersInv

\* A claim given back, and an item claimed: the consumer's claim is counted elsewhere.
LEMMA ClaimEnds ==
    ASSUME Typed, CountersInv, NEW c \in Consumers, GiveBack(c) \/ Claim(c)
    PROVE  CountersInv'
<1> USE DEF Typed, CountersTyped
<1>1. /\ pc[c] \in {"giveBack", "claim"} /\ pc'[c] \in {"idle", "header"}
      /\ UNCHANGED <<tailIndex, dequeueOptimisticCount>>
      /\ \A d \in Consumers : d # c => pc'[d] = pc[d] /\ local'[d] = local[d]
  BY DEF GiveBack, Claim, Goes, Sets, ConsumersTyped
<1>2. \/ /\ pc[c] = "giveBack" /\ dequeueOvercommit' = dequeueOvercommit + 1 /\ headIndex' = headIndex
      \/ /\ pc[c] = "claim" /\ headIndex' = headIndex + 1 /\ dequeueOvercommit' = dequeueOvercommit
  BY DEF GiveBack, Claim, Goes
<1>3. /\ At("claim")' = At("claim") \ {c} /\ Rechecking' = Rechecking
      /\ Claiming' = Claiming \ {c} /\ c \in Claiming
      /\ c \notin Rechecking /\ (c \in At("claim") <=> pc[c] = "claim")
  BY <1>1 DEF At, Rechecking, Claiming
<1>4. Cardinality(Claiming') = Cardinality(Claiming) - 1
  BY <1>3, SetsIn, DropCard
<1>5. Cardinality(At("claim")') =
        IF pc[c] = "claim" THEN Cardinality(At("claim")) - 1 ELSE Cardinality(At("claim"))
  <2>1. CASE pc[c] = "claim"
    BY <1>3, <2>1, SetsIn, DropCard
  <2>2. CASE pc[c] # "claim"
    <3>1. At("claim")' = At("claim")
      BY <1>3, <2>2
    <3> QED BY <2>2, <3>1
  <2> QED BY <2>1, <2>2
<1>6. Cardinality(Claiming) \in Nat /\ Cardinality(At("claim")) \in Nat
  BY SetsIn, SubsetCard
<1>7. Succeeded' = Succeeded
  BY <1>2, <1>5, <1>6 DEF Succeeded
<1>8. Counters'
  BY <1>1, <1>2, <1>4, <1>6, <1>7
  DEF CountersInv, Counters, ClaimsBalance, ClaimsPublished, Succeeded, At
<1>9. ReadEarlier'
  <2>1. ASSUME NEW d \in Consumers
        PROVE  /\ pc'[d] \in {"optimistic", "commit", "recheck"} => local'[d].overcommit <= dequeueOvercommit'
               /\ pc'[d] = "recheck" => local'[d].count < dequeueOptimisticCount'
    <3>1. local[d].overcommit \in Nat
      BY DEF ConsumersTyped, Locals
    <3> QED BY <1>1, <1>2, <3>1 DEF CountersInv, ReadEarlier
  <2> QED BY <2>1 DEF ReadEarlier
<1>10. ASSUME NEW d \in Rechecking PROVE Covered(d)'
  <2>1. \A e \in Rechecking : local'[e] = local[e]
    BY <1>1, <1>3 DEF Rechecking, At
  <2>2. UpTo(d)' = UpTo(d) /\ local'[d] = local[d]
    BY <1>3, <2>1 DEF UpTo
  <2>3. Covered(d)
    BY DEF CountersInv, ClaimsCovered
  <2> QED BY <1>1, <1>7, <2>2, <2>3 DEF Covered
<1>11. ClaimsCovered'
  BY <1>3, <1>10 DEF ClaimsCovered
<1> QED BY <1>8, <1>9, <1>11 DEF CountersInv

LEMMA CountersStep == Typed /\ CountersInv /\ [Next]_vars => CountersInv'
<1> SUFFICES ASSUME Typed, CountersInv, [Next]_vars PROVE CountersInv'
  OBVIOUS
<1> USE DEF Typed
<1>1. CASE UNCHANGED <<indexes, pc, local>>
  BY <1>1, CountersQuiet DEF indexes, CountersInv, ReadEarlier, ConsumersTyped, CountersTyped
<1>2. CASE Publish
  <2>1. UNCHANGED <<headIndex, dequeueOptimisticCount, dequeueOvercommit, pc, local>>
        /\ tailIndex' = tailIndex + 1
    BY <1>2 DEF Publish, consumers
  <2>2. tailIndex' \in Nat /\ tailIndex <= tailIndex'
    BY <2>1 DEF CountersTyped
  <2> QED BY <2>1, <2>2, CountersQuiet DEF CountersInv, ReadEarlier, ConsumersTyped
<1>3. UNCHANGED vars \/ Producer \/ Destroy => UNCHANGED <<indexes, pc, local>> \/ Publish
  BY DEF vars, Producer, Enqueue, FindEntry, GrowIndex, GrowFails, StoreKey, StoreTail,
         FromInitialPool, FromFreeList, FromMalloc, Obtain, RequisitionFails,
         StoreValue, Construct, Destroy, consumers
<1>4. ASSUME NEW c \in Consumers, Dequeue(c) PROVE CountersInv'
  <2>1. CASE Commit(c)
    BY <2>1, CommitCounts
  <2>2. CASE Recheck(c)
    BY <2>2, RecheckCounts
  <2>3. CASE GiveBack(c) \/ Claim(c)
    BY <2>3, ClaimEnds
  <2>4. CASE LoadTail(c) \/ LoadOvercommit(c) \/ SeesItem(c) \/ SeesNone(c) \/ LoadBlockIndex(c)
             \/ LoadIndexTail(c) \/ FindBlock(c) \/ LoadBlock(c) \/ Take(c) \/ CountEmpty(c)
             \/ ClearEntry(c) \/ Release(c)
    <3>1. PICK from \in ConsumerSteps \ {"recheck", "claim", "giveBack"},
               to \in ConsumerSteps \ {"recheck", "claim", "giveBack"} : Goes(c, from, to)
      BY <2>4 DEF LoadTail, LoadOvercommit, SeesItem, SeesNone, LoadBlockIndex, LoadIndexTail,
                  FindBlock, LoadBlock, Take, CountEmpty, ClearEntry, Release, ConsumerSteps
    <3>2. UNCHANGED indexes /\ \A d \in Consumers : d # c => local'[d] = local[d]
      BY <2>4
      DEF LoadTail, LoadOvercommit, SeesItem, SeesNone, LoadBlockIndex, LoadIndexTail,
          FindBlock, LoadBlock, Take, CountEmpty, ClearEntry, Release, Sets, Forgets,
          ConsumersTyped
    <3>3. /\ pc[c] = from /\ pc'[c] = to /\ pc[c] # "recheck"
          /\ \A d \in Consumers : d # c => pc'[d] = pc[d]
      BY <3>1 DEF Goes, ConsumersTyped
    <3>4. pc'[c] \in {"optimistic", "commit"} => local'[c].overcommit <= dequeueOvercommit
      <4>1. CASE LoadOvercommit(c)
        <5>1. local'[c].overcommit = dequeueOvercommit
          BY <4>1 DEF LoadOvercommit, Sets, ConsumersTyped, Locals
        <5> QED BY <5>1 DEF CountersTyped
      <4>2. CASE SeesItem(c)
        BY <4>2 DEF SeesItem, CountersInv, ReadEarlier, Goes
      <4>3. CASE ~LoadOvercommit(c) /\ ~SeesItem(c)
        <5>1. pc'[c] \notin {"optimistic", "commit"}
          BY <2>4, <4>3
          DEF LoadTail, SeesNone, LoadBlockIndex, LoadIndexTail, FindBlock, LoadBlock,
              Take, CountEmpty, ClearEntry, Release, Goes, ConsumersTyped
        <5> QED BY <5>1
      <4> QED BY <4>1, <4>2, <4>3
    <3>5. \A d \in Consumers :
              /\ pc'[d] \in {"optimistic", "commit"} => local'[d].overcommit <= dequeueOvercommit
              /\ pc[d] = "recheck" => local'[d] = local[d]
      BY <3>2, <3>3, <3>4 DEF CountersInv, ReadEarlier
    <3>6. \A at \in {"recheck", "claim", "giveBack"} : \A d \in Consumers : pc'[d] = at <=> pc[d] = at
      BY <3>3
    <3>7. tailIndex' = tailIndex /\ tailIndex \in Nat
      BY <3>2 DEF indexes, CountersTyped
    <3> QED BY <3>2, <3>5, <3>6, <3>7, CountersQuiet DEF indexes, ConsumersTyped
  <2> QED BY <1>4, <2>1, <2>2, <2>3, <2>4 DEF Dequeue
<1> QED BY <1>1, <1>2, <1>3, <1>4 DEF Next

LEMMA CountersInit == Init => CountersInv
<1> SUFFICES ASSUME Init PROVE CountersInv
  OBVIOUS
<1>1. Claiming = {} /\ At("claim") = {} /\ Rechecking = {}
  BY DEF Init, Claiming, At, Rechecking
<1>2. Cardinality({}) = 0
  BY FS_EmptySet
<1>3. Counters
  <2>1. Cardinality(Claiming) = 0 /\ Cardinality({c \in Consumers : pc[c] = "claim"}) = 0
    BY <1>1, <1>2 DEF At
  <2> QED BY <2>1 DEF Init, Counters, ClaimsBalance, ClaimsPublished
<1>4. ReadEarlier
  BY DEF Init, ReadEarlier
<1>5. ClaimsCovered
  BY <1>1 DEF ClaimsCovered
<1> QED BY <1>3, <1>4, <1>5 DEF CountersInv

\* No more items are claimed than there are, and the counters balance.
THEOREM CountersCorrect == Spec => []Counters
<1>1. CountersInv => Counters
  BY DEF CountersInv
<1> QED BY <1>1, TypedAlways, CountersInit, CountersStep, PTL DEF Spec

-------------------------------------------------------------------------------
(* The indexes: each is a part of the next, moved *)

Size == Capacity(blockIndex)
EntryIn(h, p) == h.index[p + 1]
Places(h) == 0 .. Capacity(h) - 1

AllIndexed ==
    /\ Len(entries) = Size
    /\ \A e \in Entries : \E p \in Places(blockIndex) : EntryIn(blockIndex, p) = e
    /\ \A p, q \in Places(blockIndex) : EntryIn(blockIndex, p) = EntryIn(blockIndex, q) => p = q
Moved(h, s) ==
    \A p \in Places(h) : \E q \in Places(blockIndex) :
        EntryIn(blockIndex, q) = EntryIn(h, p) /\ q % Capacity(h) = (p + s) % Capacity(h)
PartOfLast(h) ==
    /\ \E d \in Nat \ {0} : Size = Capacity(h) * d
    /\ \E s \in Int : Moved(h, s)
Nested == AllIndexed /\ \A k \in 1 .. Len(headers) : PartOfLast(headers[k])

LEMMA WrapPlus ==
    ASSUME NEW n \in Nat \ {0}, NEW x \in 0 .. n + n - 1
    PROVE  x % n = IF x < n THEN x ELSE x - n
<1>1. x < n => (n * 0 + x) % n = x
  BY ModIs
<1>2. x >= n => (n * 1 + (x - n)) % n = x - n
  <2>1. x >= n => x - n \in 0 .. n - 1
    OBVIOUS
  <2> QED BY <2>1, ModIs
<1>3. n * 0 + x = x /\ n * 1 + (x - n) = x
  OBVIOUS
<1> QED BY <1>1, <1>2, <1>3

LEMMA WrapMinus ==
    ASSUME NEW n \in Nat \ {0}, NEW t \in 0 .. n - 1, NEW p \in 0 .. n - 1
    PROVE  (t - p) % n = IF p <= t THEN t - p ELSE t - p + n
<1>1. p <= t => (n * 0 + (t - p)) % n = t - p
  <2>1. p <= t => t - p \in 0 .. n - 1
    OBVIOUS
  <2> QED BY <2>1, ModIs
<1>2. p > t => (n * (-1) + (t - p + n)) % n = t - p + n
  <2>1. p > t => t - p + n \in 0 .. n - 1
    OBVIOUS
  <2> QED BY <2>1, ModIs
<1>3. n * 0 + (t - p) = t - p /\ n * (-1) + (t - p + n) = t - p
  OBVIOUS
<1> QED BY <1>1, <1>2, <1>3

LEMMA HeaderIs ==
    ASSUME IndexTyped, NEW k \in 1 .. Len(headers)
    PROVE  /\ Capacity(headers[k]) \in Nat \ {0} /\ headers[k].tail \in Places(headers[k])
           /\ headers[k].index \in Seq(Entries)
           /\ \A p \in Places(headers[k]) : EntryIn(headers[k], p) \in Entries
<1>1. /\ headers[k].index \in Seq(Entries) /\ Capacity(headers[k]) > 0
      /\ headers[k].tail \in 0 .. Capacity(headers[k]) - 1
  BY DEF IndexTyped
<1>2. Capacity(headers[k]) \in Nat
  BY <1>1 DEF Capacity
<1>3. \A p \in 0 .. Len(headers[k].index) - 1 : headers[k].index[p + 1] \in Entries
  <2>1. \A p \in 0 .. Len(headers[k].index) - 1 : p + 1 \in 1 .. Len(headers[k].index)
    BY <1>1
  <2> QED BY <1>1, <2>1, ElementOfSeq
<1> QED BY <1>1, <1>2, <1>3 DEF Places, EntryIn, Capacity

LEMMA LastIs ==
    ASSUME IndexTyped
    PROVE  /\ Len(headers) \in 1 .. Len(headers) /\ blockIndex = headers[Len(headers)]
           /\ Size \in Nat \ {0} /\ blockIndex.tail \in Places(blockIndex)
           /\ Places(blockIndex) = 0 .. Size - 1 /\ blockIndex.index \in Seq(Entries)
           /\ \A p \in Places(blockIndex) : EntryIn(blockIndex, p) \in Entries
<1>1. Len(headers) \in 1 .. Len(headers) /\ blockIndex = headers[Len(headers)]
  BY DEF IndexTyped, blockIndex, Last
<1> QED BY <1>1, HeaderIs DEF Size, Places

\* An entry at a position that may be beyond the end of the index.
LEMMA EntryAtPlace ==
    ASSUME NEW h, Capacity(h) \in Nat \ {0}, NEW p \in Int
    PROVE  p % Capacity(h) \in Places(h) /\ EntryAt(h, p) = EntryIn(h, p % Capacity(h))
BY DivMod DEF EntryAt, EntryIn, Places

LEMMA NestedInit == Init => Nested
<1> SUFFICES ASSUME Init PROVE Nested
  OBVIOUS
<1> DEFINE n == IMPLICIT_INITIAL_INDEX_SIZE
<1>1. n \in Nat \ {0}
  BY SizesAssumption
<1>2. Len(headers) = 1 /\ blockIndex = headers[1] /\ blockIndex.index = Upto(0, n) /\ Len(entries) = n
  BY <1>1 DEF Init, blockIndex, Last, Header, NewEntries
<1>3. Upto(0, n) = [i \in 1 .. n |-> i]
  BY <1>1 DEF Upto
<1>4. Size = n /\ Places(blockIndex) = 0 .. n - 1
  BY <1>1, <1>2, <1>3 DEF Size, Capacity, Places
<1>5. \A p \in 0 .. n - 1 : EntryIn(blockIndex, p) = p + 1
  BY <1>1, <1>2, <1>3 DEF EntryIn
<1>6. AllIndexed
  <2>1. \A e \in Entries : e - 1 \in 0 .. n - 1 /\ e = (e - 1) + 1
    BY <1>1, <1>2 DEF Entries
  <2>2. \A e \in Entries : EntryIn(blockIndex, e - 1) = e /\ e - 1 \in 0 .. n - 1
    BY <1>5, <2>1
  <2>3. \A p, q \in 0 .. n - 1 : p + 1 = q + 1 => p = q
    OBVIOUS
  <2> HIDE DEF n
  <2> QED BY <1>2, <1>4, <1>5, <2>2, <2>3 DEF AllIndexed
<1>7. PartOfLast(blockIndex)
  <2>1. Size = Size * 1 /\ 1 \in Nat \ {0}
    BY <1>1, <1>4
  <2>2. \A p \in Places(blockIndex) : p + 0 = p
    BY DEF Places
  <2>3. Moved(blockIndex, 0)
    BY <2>2 DEF Moved
  <2> QED BY <2>1, <2>3 DEF PartOfLast, Size
<1> QED BY <1>2, <1>6, <1>7 DEF Nested

\* The tails and the contents of the entries do not matter.
LEMMA NestedKeeps ==
    ASSUME IndexTyped, Nested, Len(entries') = Len(entries), Len(headers') = Len(headers),
           \A k \in 1 .. Len(headers) : headers'[k].index = headers[k].index
    PROVE  Nested'
<1>1. Len(headers) \in 1 .. Len(headers)
  BY LastIs
<1>2. blockIndex'.index = blockIndex.index
  BY <1>1 DEF blockIndex, Last
<1>3. Size' = Size /\ Entries' = Entries /\ Places(blockIndex)' = Places(blockIndex)
      /\ \A p : EntryIn(blockIndex, p)' = EntryIn(blockIndex, p)
  BY <1>2 DEF Size, Capacity, Entries, Places, EntryIn
<1>4. AllIndexed'
  BY <1>3 DEF Nested, AllIndexed
<1>5. ASSUME NEW k \in 1 .. Len(headers) PROVE PartOfLast(headers[k])'
  <2>1. Capacity(headers[k])' = Capacity(headers[k]) /\ Places(headers[k])' = Places(headers[k])
        /\ \A p : EntryIn(headers[k], p)' = EntryIn(headers[k], p)
    BY DEF Capacity, Places, EntryIn
  <2>2. PartOfLast(headers[k])
    BY DEF Nested
  <2> QED BY <1>3, <2>1, <2>2 DEF PartOfLast, Moved
<1> QED BY <1>4, <1>5 DEF Nested

\* Where the entries are once the index, h, of size n and with its tail at t, has grown.
Growth(n, t, h) ==
    /\ n = Size /\ t = blockIndex.tail /\ h = blockIndex
    /\ (Size = n + n)' /\ (blockIndex.tail = n - 1)'
    /\ Len(headers') = Len(headers) + 1
    /\ \A k \in 1 .. Len(headers) : headers'[k] = headers[k]
    /\ blockIndex' = headers'[Len(headers) + 1]
    /\ Len(entries') = n + n
    /\ \A e \in Entries : entries'[e] = entries[e]
    /\ \A e \in n + 1 .. n + n : entries'[e] = [key |-> INVALID_BLOCK_BASE, value |-> Null]
    /\ \A p \in 0 .. n - 1 : EntryIn(blockIndex, p)' = EntryIn(h, (t + p + 1) % n)
    /\ \A p \in n .. n + n - 1 : EntryIn(blockIndex, p)' = p + 1

LEMMA GrownIs ==
    ASSUME IndexTyped, AllIndexed, GrowIndex
    PROVE  \E n \in Nat \ {0} : \E t \in 0 .. n - 1 : \E h : Growth(n, t, h)
<1>1. PICK n \in Nat \ {0} : n = Size
  BY LastIs
<1>2. PICK t \in 0 .. n - 1 : t = blockIndex.tail
  BY <1>1, LastIs
<1>3. PICK h : h = blockIndex
  OBVIOUS
<1> DEFINE old == [p \in 1 .. n |-> EntryAt(h, t + p)]
           new == Upto(n, n + n)
           g == Header(old \o new, n - 1)
<1>4. Len(entries) = n /\ Capacity(h) = n
  BY <1>1, <1>2, <1>3 DEF AllIndexed, Size
<1>5. g = Grown(blockIndex, Len(entries))
  BY <1>1, <1>2, <1>3, <1>4 DEF Grown
<1>6. new = [i \in 1 .. n |-> n + i]
  BY UptoIs
<1>7. Len(old) = n /\ Len(new) = n
  BY <1>6
<1>8. IndexTyped' /\ headers' = Append(headers, g) /\ entries' = entries \o NewEntries(n)
  BY <1>1, <1>2, <1>3, <1>5, IndexGrows DEF GrowIndex, Size
<1>9. \A p \in 1 .. n : old[p] = EntryAt(h, t + p) /\ new[p] = n + p
  BY <1>6
<1>10. old \in Seq(Entries) /\ new \in Seq(Nat)
  <2>1. h.index \in Seq(Entries) /\ Capacity(h) > 0
    BY <1>1, <1>2, <1>3, <1>4, LastIs
  <2>2. \A p \in 1 .. n : EntryAt(h, t + p) \in Entries
    <3>1. \A p \in 1 .. n : t + p \in Int
      OBVIOUS
    <3> QED BY <2>1, <3>1, EntryAtIn
  <2>3. old \in Seq(Entries)
    BY <2>2
  <2> QED BY <1>6, <2>3
<1>11. Len(old \o new) = n + n /\ \A i \in 1 .. n + n :
           (old \o new)[i] = IF i <= n THEN old[i] ELSE new[i - n]
  <2> HIDE DEF old, new
  <2>1. \A e \in Entries : e \in Nat
    BY DEF Entries
  <2>2. old \in Seq(Nat) /\ new \in Seq(Nat)
    BY <1>10, <2>1, SeqWider
  <2>3. Len(old \o new) = Len(old) + Len(new)
        /\ \A i \in 1 .. Len(old) + Len(new) :
             (old \o new)[i] = IF i <= Len(old) THEN old[i] ELSE new[i - Len(old)]
    BY <2>2, ConcatProperties
  <2> QED BY <1>7, <2>3
<1>12. g.index = old \o new /\ g.tail = n - 1 /\ Capacity(g) = n + n
  BY <1>11 DEF Header, Capacity
<1> HIDE DEF g, old, new
<1>13. /\ Len(headers') = Len(headers) + 1 /\ headers'[Len(headers) + 1] = g
       /\ \A k \in 1 .. Len(headers) : headers'[k] = headers[k]
  <2>1. headers \in Seq([index : Seq(Nat), tail : Nat]) /\ Len(headers) \in Nat
    BY DEF IndexTyped
  <2>2. Len(headers') = Len(headers) + 1
    BY <1>8, <2>1
  <2> QED BY <1>8, <2>1, <2>2
<1>14. blockIndex' = g
  BY <1>13 DEF blockIndex, Last
<1>15. /\ Len(entries') = n + n
       /\ \A e \in Entries : entries'[e] = entries[e]
       /\ \A e \in n + 1 .. n + n : entries'[e] = [key |-> INVALID_BLOCK_BASE, value |-> Null]
  <2>1. NewEntries(n) = [i \in 1 .. n |-> [key |-> INVALID_BLOCK_BASE, value |-> Null]]
    BY DEF NewEntries
  <2>2. NewEntries(n) \in Seq(Entry) /\ Len(NewEntries(n)) = n
        /\ \A i \in 1 .. n : NewEntries(n)[i] = [key |-> INVALID_BLOCK_BASE, value |-> Null]
    BY <2>1 DEF Entry, INVALID_BLOCK_BASE
  <2>3. entries \in Seq(Entry)
    BY DEF IndexTyped
  <2> DEFINE added == NewEntries(n)
  <2> HIDE DEF added
  <2>4. Len(entries \o added) = n + n
        /\ \A i \in 1 .. n + n : (entries \o added)[i] = IF i <= n THEN entries[i] ELSE added[i - n]
    BY <1>4, <2>2, <2>3, ConcatProperties DEF added
  <2>5. \A e \in n + 1 .. n + n : e - n \in 1 .. n /\ e \in 1 .. n + n /\ ~(e <= n)
    OBVIOUS
  <2>6. \A e \in Entries : e \in 1 .. n + n /\ e <= n
    BY <1>4 DEF Entries
  <2> QED BY <1>8, <2>2, <2>4, <2>5, <2>6 DEF added
<1>16. ASSUME NEW p \in 0 .. n - 1 PROVE EntryIn(g, p) = EntryIn(h, (t + p + 1) % n)
  <2>1. p + 1 \in 1 .. n /\ p + 1 \in 1 .. n + n /\ p + 1 <= n
    OBVIOUS
  <2>2. EntryIn(g, p) = EntryAt(h, t + (p + 1))
    BY <1>9, <1>11, <1>12, <2>1 DEF EntryIn
  <2>3. t + (p + 1) = t + p + 1 /\ t + p + 1 \in Int
    OBVIOUS
  <2> QED BY <1>4, <2>2, <2>3, EntryAtPlace
<1>17. ASSUME NEW p \in n .. n + n - 1 PROVE EntryIn(g, p) = p + 1
  <2>1. p + 1 - n \in 1 .. n /\ p + 1 \in 1 .. n + n /\ ~(p + 1 <= n) /\ n + (p + 1 - n) = p + 1
    OBVIOUS
  <2> QED BY <1>9, <1>11, <1>12, <2>1 DEF EntryIn
<1>18. \A p \in 0 .. n - 1 : EntryIn(blockIndex, p)' = EntryIn(h, (t + p + 1) % n)
  BY <1>14, <1>16
<1>19. \A p \in n .. n + n - 1 : EntryIn(blockIndex, p)' = p + 1
  BY <1>14, <1>17
<1>20. (Size = n + n)' /\ (blockIndex.tail = n - 1)'
  BY <1>12, <1>14 DEF Size
<1>21. blockIndex' = headers'[Len(headers) + 1]
  BY <1>13, <1>14
<1> WITNESS n \in Nat \ {0}
<1> WITNESS t \in 0 .. n - 1
<1> WITNESS h
<1> QED BY <1>1, <1>2, <1>3, <1>13, <1>15, <1>18, <1>19, <1>20, <1>21 DEF Growth

LEMMA Unwrapped ==
    ASSUME NEW n \in Nat \ {0}, NEW t \in 0 .. n - 1, NEW q \in 0 .. n - 1
    PROVE  \E r \in 0 .. n - 1 : (t + r + 1) % n = q /\ r % n = (q - t - 1) % n
<1> DEFINE r == IF q > t THEN q - t - 1 ELSE q - t - 1 + n
<1>1. r \in 0 .. n - 1 /\ t + r + 1 \in 0 .. n + n - 1
  OBVIOUS
<1>2. t + r + 1 = IF q > t THEN q ELSE q + n
  OBVIOUS
<1>3. (t + r + 1) % n = q
  <2> HIDE DEF r
  <2>1. \A x \in 0 .. n + n - 1 : x % n = IF x < n THEN x ELSE x - n
    BY WrapPlus
  <2> QED BY <1>1, <1>2, <2>1
<1>4. r - (q - t - 1) = n * (IF q > t THEN 0 ELSE 1)
  OBVIOUS
<1>5. r % n = (q - t - 1) % n
  <2>1. r \in Int /\ q - t - 1 \in Int /\ (IF q > t THEN 0 ELSE 1) \in Int
    OBVIOUS
  <2> HIDE DEF r
  <2> QED BY <1>4, <2>1, SameMod
<1> QED BY <1>1, <1>3, <1>5

LEMMA NestedGrows ==
    ASSUME IndexTyped, Nested, GrowIndex
    PROVE  Nested'
<1>1. AllIndexed /\ \A k \in 1 .. Len(headers) : PartOfLast(headers[k])
  BY DEF Nested
<1>2. PICK n \in Nat \ {0} : \E t \in 0 .. n - 1 : \E h : Growth(n, t, h)
  BY <1>1, GrownIs
<1>3. PICK t \in 0 .. n - 1 : \E h : Growth(n, t, h)
  BY <1>2
<1>4. PICK h : Growth(n, t, h)
  BY <1>3
<1>5. /\ n = Size /\ t = blockIndex.tail /\ h = blockIndex
      /\ (Size = n + n)' /\ (blockIndex.tail = n - 1)'
      /\ Len(headers') = Len(headers) + 1
      /\ \A k \in 1 .. Len(headers) : headers'[k] = headers[k]
      /\ blockIndex' = headers'[Len(headers) + 1]
      /\ Len(entries') = n + n
      /\ \A e \in Entries : entries'[e] = entries[e]
      /\ \A e \in n + 1 .. n + n : entries'[e] = [key |-> INVALID_BLOCK_BASE, value |-> Null]
      /\ \A p \in 0 .. n - 1 : EntryIn(blockIndex, p)' = EntryIn(h, (t + p + 1) % n)
      /\ \A p \in n .. n + n - 1 : EntryIn(blockIndex, p)' = p + 1
  BY <1>4 DEF Growth
<1>6. /\ Places(blockIndex) = 0 .. n - 1 /\ Places(blockIndex)' = 0 .. n + n - 1
      /\ Entries = 1 .. n /\ Entries' = 1 .. n + n /\ Len(headers) \in Nat
  <2>1. Places(blockIndex)' = 0 .. n + n - 1
    BY <1>5 DEF Places, Size
  <2> QED BY <1>1, <1>5, <2>1, LastIs DEF Entries, AllIndexed
\* Every entry of the old index is in the new one, as far from the tail as it was.
<1>7. ASSUME NEW q \in 0 .. n - 1
      PROVE  \E r \in 0 .. n - 1 : EntryIn(blockIndex, r)' = EntryIn(h, q) /\ r % n = (q - t - 1) % n
  <2>1. PICK r \in 0 .. n - 1 : (t + r + 1) % n = q /\ r % n = (q - t - 1) % n
    BY Unwrapped
  <2>2. EntryIn(blockIndex, r)' = EntryIn(h, q)
    BY <1>5, <2>1
  <2> QED BY <2>1, <2>2
<1>8. \A r \in 0 .. n - 1 : r \in 0 .. n + n - 1
  OBVIOUS
<1>9. AllIndexed'
  <2>1. (Len(entries) = Size)'
    BY <1>5
  <2>2. ASSUME NEW e \in 1 .. n + n PROVE \E p \in 0 .. n + n - 1 : EntryIn(blockIndex, p)' = e
    <3>1. CASE e \in 1 .. n
      <4>1. PICK q \in 0 .. n - 1 : EntryIn(blockIndex, q) = e
        BY <1>1, <1>6, <3>1 DEF AllIndexed
      <4>2. PICK r \in 0 .. n - 1 : EntryIn(blockIndex, r)' = EntryIn(h, q)
        BY <1>7
      <4> QED BY <1>5, <1>8, <4>1, <4>2
    <3>2. CASE e \in n + 1 .. n + n
      <4>1. e - 1 \in n .. n + n - 1 /\ (e - 1) + 1 = e /\ e - 1 \in 0 .. n + n - 1
        BY <3>2
      <4>2. EntryIn(blockIndex, e - 1)' = (e - 1) + 1
        BY <1>5, <4>1
      <4> QED BY <4>1, <4>2
    <3> QED BY <3>1, <3>2
  <2>3. ASSUME NEW p \in 0 .. n + n - 1, NEW q \in 0 .. n + n - 1,
               EntryIn(blockIndex, p)' = EntryIn(blockIndex, q)'
        PROVE  p = q
    <3>1. ASSUME NEW x \in 0 .. n - 1
          PROVE  (t + x + 1) % n \in 0 .. n - 1 /\ EntryIn(blockIndex, x)' \in 1 .. n
      <4>1. t + x + 1 \in Int
        OBVIOUS
      <4>2. (t + x + 1) % n \in 0 .. n - 1
        BY <4>1, DivMod
      <4> QED BY <1>5, <1>6, <4>2, LastIs
    <3>2. CASE p \in 0 .. n - 1 /\ q \in 0 .. n - 1
      <4>1. EntryIn(h, (t + p + 1) % n) = EntryIn(h, (t + q + 1) % n)
        BY <1>5, <2>3, <3>2
      <4>2. (t + p + 1) % n = (t + q + 1) % n
        BY <1>1, <1>5, <1>6, <3>1, <3>2, <4>1 DEF AllIndexed
      <4>3. t + p + 1 \in Int /\ t + q + 1 \in Int
            /\ (t + p + 1) - (t + q + 1) < n /\ (t + q + 1) - (t + p + 1) < n
        BY <3>2
      <4>4. t + p + 1 = t + q + 1
        BY <4>2, <4>3, ModClose
      <4> QED BY <4>4
    <3>3. CASE p \in n .. n + n - 1 /\ q \in n .. n + n - 1
      <4>1. EntryIn(blockIndex, p)' = p + 1 /\ EntryIn(blockIndex, q)' = q + 1
        BY <1>5, <3>3
      <4>2. p + 1 = q + 1
        BY Zenon, <2>3, <4>1
      <4> QED BY <4>2
    <3>4. CASE p \in 0 .. n - 1 /\ q \in n .. n + n - 1
      <4>1. EntryIn(blockIndex, p)' \in 1 .. n /\ EntryIn(blockIndex, q)' = q + 1
        BY <1>5, <3>1, <3>4
      <4> QED BY <2>3, <3>4, <4>1
    <3>5. CASE q \in 0 .. n - 1 /\ p \in n .. n + n - 1
      <4>1. EntryIn(blockIndex, q)' \in 1 .. n /\ EntryIn(blockIndex, p)' = p + 1
        BY <1>5, <3>1, <3>5
      <4> QED BY <2>3, <3>5, <4>1
    <3> QED BY <3>2, <3>3, <3>4, <3>5
  <2> QED BY <1>6, <2>1, <2>2, <2>3 DEF AllIndexed
<1>10. ASSUME NEW k \in 1 .. Len(headers) PROVE PartOfLast(headers[k])'
  <2>1. PICK g : g = headers[k] /\ headers'[k] = g
    BY <1>5
  <2>2. PICK m \in Nat \ {0} : m = Capacity(g) /\ Places(g) = 0 .. m - 1
    BY <2>1, HeaderIs DEF Places
  <2>3. PICK d \in Nat \ {0}, z \in Int : n = m * d /\ Moved(g, z)
    BY <1>1, <1>5, <2>1, <2>2 DEF PartOfLast
  <2>4. n + n = m * (d + d) /\ d + d \in Nat \ {0}
    <3>1. m * (d + d) = m * d + m * d
      OBVIOUS
    <3> QED BY <2>3, <3>1
  <2>5. ASSUME NEW p \in 0 .. m - 1
        PROVE  \E r \in 0 .. n + n - 1 :
                  EntryIn(blockIndex, r)' = EntryIn(g, p) /\ r % m = (p + (z - t - 1)) % m
    <3>1. PICK q \in 0 .. n - 1 : EntryIn(h, q) = EntryIn(g, p) /\ q % m = (p + z) % m
      BY <1>5, <1>6, <2>2, <2>3 DEF Moved
    <3>2. PICK r \in 0 .. n - 1 : EntryIn(blockIndex, r)' = EntryIn(h, q) /\ r % n = (q - t - 1) % n
      BY <1>7
    <3>3. r % m = (q - t - 1) % m
      <4>1. r \in Int /\ q - t - 1 \in Int
        OBVIOUS
      <4>2. \A a, b \in Int : a % n = b % n => a % m = b % m
        <5>1. n = m * d
          BY <2>3
        <5>2. \A a, b \in Int : a % (m * d) = b % (m * d) => a % m = b % m
          BY Zenon, ModFactors
        <5> QED BY Zenon, <5>1, <5>2
      <4> QED BY <3>2, <4>1, <4>2
    <3>4. (q + (-t - 1)) % m = ((p + z) + (-t - 1)) % m
      <4>1. q \in Int /\ p + z \in Int /\ -t - 1 \in Int
        OBVIOUS
      <4> QED BY <3>1, <4>1, ModShift
    <3>5. q + (-t - 1) = q - t - 1 /\ (p + z) + (-t - 1) = p + (z - t - 1)
      OBVIOUS
    <3> QED BY <1>8, <3>1, <3>2, <3>3, <3>4, <3>5
  <2>6. z - t - 1 \in Int
    OBVIOUS
  <2>7. /\ Capacity(headers[k])' = m /\ Places(headers[k])' = 0 .. m - 1
        /\ \A p : EntryIn(headers[k], p)' = EntryIn(g, p)
    BY <2>1, <2>2 DEF Capacity, Places, EntryIn
  <2>8. Moved(headers[k], z - t - 1)'
    BY <1>6, <2>5, <2>7 DEF Moved
  <2> QED BY <1>5, <2>4, <2>6, <2>7, <2>8 DEF PartOfLast
<1>11. ASSUME NEW m \in Nat, m = Len(headers) + 1 PROVE PartOfLast(headers[m])'
  <2>1. blockIndex' = headers[m]'
    BY <1>5, <1>11
  <2>2. (Size = Capacity(headers[m]) * 1)' /\ 1 \in Nat \ {0}
    <3>1. Capacity(headers[m])' = n + n
      BY <1>5, <2>1 DEF Size, Capacity
    <3> QED BY <1>5, <3>1
  <2>3. Moved(headers[m], 0)'
    <3>1. \A p \in 0 .. n + n - 1 : p + 0 = p
      OBVIOUS
    <3>2. Places(headers[m])' = 0 .. n + n - 1 /\ \A p : EntryIn(blockIndex, p)' = EntryIn(headers[m], p)'
      BY <1>6, <2>1 DEF Places, Capacity, EntryIn
    <3> QED BY <1>6, <3>1, <3>2 DEF Moved
  <2> QED BY <2>2, <2>3 DEF PartOfLast
<1>12. ASSUME NEW k \in 1 .. Len(headers') PROVE PartOfLast(headers[k])'
  <2>1. Len(headers') = Len(headers) + 1 /\ Len(headers) \in Nat
    BY <1>5, <1>6
  <2>2. k \in Nat /\ (k \in 1 .. Len(headers) \/ k = Len(headers) + 1)
    BY <2>1
  <2> QED BY <1>10, <1>11, <2>2
<1> QED BY <1>9, <1>12 DEF Nested

LEMMA NestedStep == Typed /\ Nested /\ [Next]_vars => Nested'
<1> SUFFICES ASSUME Typed, Nested, [Next]_vars PROVE Nested'
  OBVIOUS
<1>1. IndexTyped
  BY DEF Typed
<1>2. ASSUME NEW e, NEW x, entries' = [entries EXCEPT ![e] = x] PROVE Len(entries') = Len(entries)
  BY <1>1, <1>2 DEF IndexTyped
<1>3. ASSUME NEW t, SetTail(t)
      PROVE  Len(headers') = Len(headers) /\ \A k \in 1 .. Len(headers) : headers'[k].index = headers[k].index
  <2> DEFINE m == t % Capacity(blockIndex)
  <2>1. headers' = [headers EXCEPT ![Len(headers)].tail = m]
    BY <1>3 DEF SetTail
  <2> HIDE DEF m
  <2>2. Len(headers) \in Nat /\ DOMAIN headers = 1 .. Len(headers)
    BY <1>1 DEF IndexTyped
  <2>3. \A k \in 1 .. Len(headers) : headers[k] \in [index : Seq(Nat), tail : Nat]
    BY <1>1, ElementOfSeq DEF IndexTyped
  <2> QED BY <1>1, <2>1, <2>2, <2>3 DEF IndexTyped
<1>4. CASE headers' = headers /\ Len(entries') = Len(entries)
  BY <1>1, <1>4, NestedKeeps
<1>5. CASE (\E t : SetTail(t)) /\ Len(entries') = Len(entries)
  BY <1>1, <1>3, <1>5, NestedKeeps
<1>6. CASE GrowIndex
  BY <1>1, <1>6, NestedGrows
<1>7. ASSUME NEW e, NEW x, entries' = [entries EXCEPT ![e].key = x] \/ entries' = [entries EXCEPT ![e].value = x]
      PROVE  Len(entries') = Len(entries)
  BY <1>1, <1>7 DEF IndexTyped
<1>8. \/ headers' = headers /\ entries' = entries
      \/ GrowIndex
      \/ headers' = headers /\ \E e, x : entries' = [entries EXCEPT ![e].key = x]
                                         \/ entries' = [entries EXCEPT ![e].value = x]
      \/ (\E t : SetTail(t)) /\ (entries' = entries \/ \E e, x : entries' = [entries EXCEPT ![e].value = x])
  <2>1. CASE UNCHANGED vars \/ Producer \/ Destroy
    BY <2>1
    DEF vars, Producer, Enqueue, FindEntry, GrowFails, StoreKey, StoreTail,
        FromInitialPool, FromFreeList, FromMalloc, Obtain, RequisitionFails, StoreValue,
        Construct, Publish, Destroy
  <2>2. ASSUME NEW c \in Consumers, Dequeue(c)
        PROVE  headers' = headers /\ (entries' = entries \/ \E e, x : entries' = [entries EXCEPT ![e].value = x])
    BY <2>2
    DEF Dequeue, LoadTail, LoadOvercommit, SeesItem, SeesNone, Commit, Recheck,
        GiveBack, Claim, LoadBlockIndex, LoadIndexTail, FindBlock, LoadBlock, Take,
        CountEmpty, ClearEntry, Release, rest
  <2> QED BY <2>1, <2>2 DEF Next
<1> QED BY <1>4, <1>5, <1>6, <1>7, <1>8

-------------------------------------------------------------------------------
(* The keys: where the entry of each block is in the newest index *)

\* Blocks are numbered in the order of their items.
Nr(i) == i \div BLOCK_SIZE
NewBlockSteps == {"requisition", "value"}
InsertSteps == {"insert", "grow", "key", "tail"} \cup NewBlockSteps

\* The number of blocks inserted in the index: up to the tail.
Inserted ==
    IF step \in NewBlockSteps \cup {"construct", "publish"} \/ tailIndex % BLOCK_SIZE # 0
    THEN Nr(tailIndex) + 1 ELSE Nr(tailIndex)

Here(p) == entries[EntryIn(blockIndex, p)]
Written(p) == Here(p).key # INVALID_BLOCK_BASE
NextPlace == (blockIndex.tail + 1) % Size
\* The number of the block that was put at position p last, one round back from the tail
\* at most, and an entry whose key is stored, but no block as yet.
Number(p) == Inserted - 1 - ((blockIndex.tail - p) % Size)
Prestored(p) ==
    /\ p = NextPlace /\ step \notin NewBlockSteps
    /\ Here(p).key = BLOCK_SIZE * Inserted /\ Here(p).value = Null

\* The positions are used in their order.
WrittenTo(f) ==
    /\ \A p \in Places(blockIndex) : Written(p) <=> p < f
    /\ \/ f = Size
       \/ f = NextPlace
       \/ f = NextPlace + 1 /\ Here(NextPlace).value = Null /\ step \notin NewBlockSteps
OlderWritten ==
    \A k \in 1 .. Len(headers) : k # Len(headers) =>
        \A p \in Places(headers[k]) : entries[EntryIn(headers[k], p)].key # INVALID_BLOCK_BASE
Placed ==
    \A p \in Places(blockIndex) :
        IF Written(p) THEN Here(p).key = BLOCK_SIZE * Number(p) \/ Prestored(p)
                      ELSE Here(p).value = Null
ProducerReady ==
    /\ step \in InsertSteps => tailIndex % BLOCK_SIZE = 0
    /\ step = "grow" =>
          \A p \in Places(blockIndex) : Written(p) /\ Here(p).key = BLOCK_SIZE * Number(p)
    /\ step \in {"key", "tail"} =>
          mine.entry = EntryIn(blockIndex, NextPlace) /\ Here(NextPlace).value = Null
    /\ step = "tail" => Here(NextPlace).key = tailIndex
    /\ step \in NewBlockSteps =>
          /\ mine.entry = EntryIn(blockIndex, blockIndex.tail)
          /\ Here(blockIndex.tail).key = tailIndex /\ Here(blockIndex.tail).value = Null
KeysInv == OlderWritten /\ Placed /\ ProducerReady /\ \E f \in 0 .. Size : WrittenTo(f)

LEMMA SizeOfBlock == BLOCK_SIZE \in Nat \ {0} /\ BLOCK_SIZE > 1
BY SizesAssumption

LEMMA NrIs ==
    ASSUME NEW i \in Nat
    PROVE  /\ Nr(i) \in Nat /\ i % BLOCK_SIZE \in 0 .. BLOCK_SIZE - 1
           /\ i = BLOCK_SIZE * Nr(i) + (i % BLOCK_SIZE) /\ Base(i) = BLOCK_SIZE * Nr(i)
<1>1. /\ i \div BLOCK_SIZE \in Int /\ i % BLOCK_SIZE \in 0 .. BLOCK_SIZE - 1
      /\ i = BLOCK_SIZE * (i \div BLOCK_SIZE) + (i % BLOCK_SIZE)
  BY SizeOfBlock, DivMod
<1>2. i \div BLOCK_SIZE \in Nat
  BY SizeOfBlock
<1>3. BLOCK_SIZE * (i \div BLOCK_SIZE) \in Int
  BY <1>1, SizeOfBlock
<1> QED BY <1>1, <1>2, <1>3 DEF Nr, Base

LEMMA NrOf ==
    ASSUME NEW n \in Nat, NEW r \in 0 .. BLOCK_SIZE - 1
    PROVE  Nr(BLOCK_SIZE * n + r) = n /\ (BLOCK_SIZE * n + r) % BLOCK_SIZE = r
BY ModIs, SizeOfBlock DEF Nr

LEMMA NrNext ==
    ASSUME NEW i \in Nat
    PROVE  IF (i + 1) % BLOCK_SIZE = 0 THEN Nr(i + 1) = Nr(i) + 1 ELSE Nr(i + 1) = Nr(i)
<1>1. PICK n \in Nat, r \in 0 .. BLOCK_SIZE - 1 : n = Nr(i) /\ i = BLOCK_SIZE * n + r
  BY NrIs
<1>2. CASE r = BLOCK_SIZE - 1
  <2>1. BLOCK_SIZE * (n + 1) = BLOCK_SIZE * n + BLOCK_SIZE /\ BLOCK_SIZE * n \in Int
    BY SizeOfBlock
  <2>2. i + 1 = BLOCK_SIZE * (n + 1) + 0
    BY <1>1, <1>2, <2>1, SizeOfBlock
  <2>3. Nr(i + 1) = n + 1 /\ (i + 1) % BLOCK_SIZE = 0
    <3>1. n + 1 \in Nat /\ 0 \in 0 .. BLOCK_SIZE - 1
      BY SizeOfBlock
    <3> QED BY <2>2, <3>1, NrOf
  <2> QED BY <1>1, <2>3
<1>3. CASE r # BLOCK_SIZE - 1
  <2>1. r + 1 \in 0 .. BLOCK_SIZE - 1 /\ r + 1 # 0
    BY <1>3, SizeOfBlock
  <2>2. i + 1 = BLOCK_SIZE * n + (r + 1)
    <3>1. BLOCK_SIZE * n \in Int
      BY SizeOfBlock
    <3> QED BY <1>1, <3>1
  <2>3. Nr(i + 1) = n /\ (i + 1) % BLOCK_SIZE = r + 1
    BY <2>1, <2>2, NrOf
  <2> QED BY <1>1, <2>1, <2>3
<1> QED BY <1>2, <1>3

LEMMA InsertedIs ==
    ASSUME Typed
    PROVE  /\ Inserted \in Nat /\ tailIndex \in Nat
           /\ step \in {"insert", "grow", "key", "tail"} /\ tailIndex % BLOCK_SIZE = 0 =>
                 Inserted = Nr(tailIndex) /\ tailIndex = BLOCK_SIZE * Inserted
           /\ step \in NewBlockSteps /\ tailIndex % BLOCK_SIZE = 0 =>
                 Inserted = Nr(tailIndex) + 1 /\ tailIndex = BLOCK_SIZE * (Inserted - 1)
<1>1. tailIndex \in Nat
  BY DEF Typed, CountersTyped
<1>2. Nr(tailIndex) \in Nat /\ tailIndex = BLOCK_SIZE * Nr(tailIndex) + (tailIndex % BLOCK_SIZE)
      /\ BLOCK_SIZE * Nr(tailIndex) \in Int
  BY <1>1, NrIs, SizeOfBlock
<1>3. tailIndex % BLOCK_SIZE = 0 => tailIndex = BLOCK_SIZE * Nr(tailIndex)
  BY <1>2
<1>4. (Nr(tailIndex) + 1) - 1 = Nr(tailIndex)
  BY <1>2
<1> QED BY <1>1, <1>2, <1>3, <1>4 DEF Inserted, NewBlockSteps

LEMMA MultipleIsValid == ASSUME NEW n \in Int PROVE BLOCK_SIZE * n # INVALID_BLOCK_BASE
<1>1. n >= 1 => BLOCK_SIZE * n >= BLOCK_SIZE
  BY SizeOfBlock
<1>2. n <= 0 => BLOCK_SIZE * n <= 0
  BY SizeOfBlock
<1>3. BLOCK_SIZE * n \in Int
  BY SizeOfBlock
<1> QED BY <1>1, <1>2, <1>3, SizeOfBlock DEF INVALID_BLOCK_BASE

LEMMA NextPlaceIs ==
    ASSUME IndexTyped
    PROVE  /\ NextPlace \in Places(blockIndex)
           /\ NextPlace = IF blockIndex.tail = Size - 1 THEN 0 ELSE blockIndex.tail + 1
           /\ NextEntry(blockIndex) = EntryIn(blockIndex, NextPlace)
<1>1. PICK n \in Nat \ {0} : n = Size /\ Places(blockIndex) = 0 .. n - 1
  BY LastIs
<1>2. PICK t \in 0 .. n - 1 : t = blockIndex.tail
  BY <1>1, LastIs
<1>3. t + 1 \in 0 .. n + n - 1
  OBVIOUS
<1>4. (t + 1) % n = IF t + 1 < n THEN t + 1 ELSE t + 1 - n
  <2>1. \A x \in 0 .. n + n - 1 : x % n = IF x < n THEN x ELSE x - n
    BY WrapPlus
  <2> QED BY <1>3, <2>1
<1>5. NextPlace = IF t = n - 1 THEN 0 ELSE t + 1
  BY <1>1, <1>2, <1>4 DEF NextPlace
<1>6. NextEntry(blockIndex) = EntryIn(blockIndex, NextPlace)
  <2>1. \A p \in Int : EntryAt(blockIndex, p) = EntryIn(blockIndex, p % Capacity(blockIndex))
    BY <1>1, EntryAtPlace DEF Size
  <2> QED BY <1>2, <2>1 DEF NextEntry, NextPlace, Size
<1> QED BY <1>1, <1>2, <1>5, <1>6

LEMMA OlderKeeps ==
    ASSUME IndexTyped, OlderWritten, Len(headers') = Len(headers),
           \A k \in 1 .. Len(headers) : headers'[k].index = headers[k].index,
           \A e \in Entries : entries[e].key # INVALID_BLOCK_BASE => entries'[e].key # INVALID_BLOCK_BASE
    PROVE  OlderWritten'
<1> SUFFICES ASSUME NEW k \in 1 .. Len(headers), k # Len(headers), NEW p \in Places(headers[k])'
             PROVE  (entries[EntryIn(headers[k], p)].key # INVALID_BLOCK_BASE)'
  BY DEF OlderWritten
<1>1. p \in Places(headers[k]) /\ EntryIn(headers[k], p)' = EntryIn(headers[k], p)
  BY DEF Places, Capacity, EntryIn
<1>2. EntryIn(headers[k], p) \in Entries
  BY <1>1, HeaderIs
<1> QED BY <1>1, <1>2 DEF OlderWritten

\* The index stays as it is, and its keys; blocks may be taken from it.
LEMMA KeysKeep ==
    ASSUME IndexTyped, KeysInv, headers' = headers, Inserted' = Inserted,
           step' \in NewBlockSteps <=> step \in NewBlockSteps,
           \A e \in Entries : entries'[e].key = entries[e].key
                              /\ (entries'[e].value = entries[e].value \/ entries'[e].value = Null),
           ProducerReady'
    PROVE  KeysInv'
<1>1. blockIndex' = blockIndex /\ Size' = Size /\ NextPlace' = NextPlace
      /\ Places(blockIndex)' = Places(blockIndex)
  BY DEF blockIndex, Size, NextPlace
<1>2. ASSUME NEW p \in Places(blockIndex)
      PROVE  /\ Here(p)'.key = Here(p).key /\ Here(p)'.value \in {Here(p).value, Null}
             /\ Written(p)' = Written(p) /\ Number(p)' = Number(p)
  BY <1>1, LastIs DEF Here, Written, Number
<1>3. OlderWritten'
  BY OlderKeeps DEF KeysInv
<1>4. Placed'
  <2>1. ASSUME NEW p \in Places(blockIndex)
        PROVE  (IF Written(p) THEN Here(p).key = BLOCK_SIZE * Number(p) \/ Prestored(p)
                              ELSE Here(p).value = Null)'
    <3>1. IF Written(p) THEN Here(p).key = BLOCK_SIZE * Number(p) \/ Prestored(p)
                        ELSE Here(p).value = Null
      BY DEF KeysInv, Placed
    <3>2. Prestored(p) => Prestored(p)'
      BY <1>1, <1>2 DEF Prestored
    <3> QED BY <1>2, <3>1, <3>2
  <2> QED BY <1>1, <2>1 DEF Placed
<1>5. (\E f \in 0 .. Size : WrittenTo(f))'
  <2>1. PICK f \in 0 .. Size : WrittenTo(f)
    BY DEF KeysInv
  <2>2. WrittenTo(f)'
    <3>1. NextPlace \in Places(blockIndex)
      BY NextPlaceIs
    <3> QED BY <1>1, <1>2, <2>1, <3>1 DEF WrittenTo
  <2> QED BY <1>1, <2>2
<1> QED BY <1>3, <1>4, <1>5 DEF KeysInv

\* One entry is written, and the tail may be moved.
LEMMA HereSet ==
    ASSUME IndexTyped, Nested, NEW q \in Places(blockIndex), NEW x \in Entry,
           entries' = [entries EXCEPT ![EntryIn(blockIndex, q)] = x],
           blockIndex'.index = blockIndex.index
    PROVE  /\ Size' = Size /\ Places(blockIndex)' = Places(blockIndex)
           /\ \A p : EntryIn(blockIndex, p)' = EntryIn(blockIndex, p)
           /\ \A p \in Places(blockIndex) : Here(p)' = IF p = q THEN x ELSE Here(p)
<1>1. Size' = Size /\ Places(blockIndex)' = Places(blockIndex)
      /\ \A p : EntryIn(blockIndex, p)' = EntryIn(blockIndex, p)
  BY DEF Size, Capacity, Places, EntryIn
<1>2. ASSUME NEW p \in Places(blockIndex) PROVE Here(p)' = IF p = q THEN x ELSE Here(p)
  <2>1. EntryIn(blockIndex, p) \in Entries /\ EntryIn(blockIndex, q) \in Entries
    BY LastIs
  <2>2. EntryIn(blockIndex, p) = EntryIn(blockIndex, q) => p = q
    BY DEF Nested, AllIndexed
  <2>3. PICK d \in Entries, e \in Entries : d = EntryIn(blockIndex, p) /\ e = EntryIn(blockIndex, q)
    BY <2>1
  <2>4. entries' = [entries EXCEPT ![e] = x]
    BY <2>3
  <2>5. entries'[e] = x /\ (d # e => entries'[d] = entries[d])
    BY <2>4, EntrySet
  <2>6. Here(p)' = entries'[d] /\ Here(p) = entries[d]
    BY <1>1, <2>3 DEF Here
  <2> QED BY <2>2, <2>3, <2>5, <2>6
<1> QED BY <1>1, <1>2

\* The tail alone is moved.
LEMMA HereKeeps ==
    ASSUME IndexTyped, entries' = entries, blockIndex'.index = blockIndex.index
    PROVE  /\ Size' = Size /\ Places(blockIndex)' = Places(blockIndex)
           /\ \A p : EntryIn(blockIndex, p)' = EntryIn(blockIndex, p)
           /\ \A p \in Places(blockIndex) : Here(p)' = Here(p)
BY DEF Size, Capacity, Places, EntryIn, Here

LEMMA KeysStoreKey ==
    ASSUME Typed, Nested, KeysInv, StoreKey
    PROVE  KeysInv'
<1>1. IndexTyped
  BY DEF Typed
<1>2. PICK i \in Nat, n \in Nat \ {0} : i = Inserted /\ n = Size /\ Places(blockIndex) = 0 .. n - 1
  BY <1>1, InsertedIs, LastIs
<1>3. PICK q \in 0 .. n - 1 : q = NextPlace
  BY <1>1, <1>2, NextPlaceIs
<1>4. /\ step = "key" /\ step' = "tail" /\ tailIndex' = tailIndex /\ headers' = headers
      /\ mine' = mine /\ mine.entry = EntryIn(blockIndex, q) /\ Here(q).value = Null
      /\ tailIndex % BLOCK_SIZE = 0
  BY <1>3 DEF StoreKey, ProducerGoes, indexes, KeysInv, ProducerReady, InsertSteps
<1>5. tailIndex = BLOCK_SIZE * i /\ tailIndex # INVALID_BLOCK_BASE /\ tailIndex \in Nat
  BY <1>2, <1>4, InsertedIs, MultipleIsValid
<1>6. Inserted' = i
  BY <1>2, <1>4 DEF Inserted, NewBlockSteps
<1> DEFINE x == [key |-> tailIndex, value |-> Null]
<1>7. x \in Entry /\ entries' = [entries EXCEPT ![EntryIn(blockIndex, q)] = x]
  <2>1. EntryIn(blockIndex, q) \in Entries
    BY <1>1, <1>2, LastIs
  <2>2. Here(q) \in Entry
    BY <1>1, <2>1, EntryIs DEF Here
  <2>3. [Here(q) EXCEPT !.key = tailIndex] = x
    BY <1>4, <2>2 DEF Entry
  <2>4. entries' = [entries EXCEPT ![EntryIn(blockIndex, q)] = [Here(q) EXCEPT !.key = tailIndex]]
    BY <1>4 DEF StoreKey, Here
  <2> QED BY <1>5, <2>3, <2>4 DEF Entry
<1>8. /\ Size' = n /\ Places(blockIndex)' = 0 .. n - 1 /\ NextPlace' = q
      /\ blockIndex' = blockIndex
      /\ \A p : EntryIn(blockIndex, p)' = EntryIn(blockIndex, p)
      /\ \A p \in 0 .. n - 1 : Here(p)' = IF p = q THEN x ELSE Here(p)
  <2>1. blockIndex' = blockIndex
    BY <1>4 DEF blockIndex
  <2> HIDE DEF x
  <2> QED BY <1>1, <1>2, <1>3, <1>7, <2>1, HereSet DEF NextPlace
<1>9. OlderWritten'
  <2>1. PICK e \in Entries : e = EntryIn(blockIndex, q)
    BY <1>1, <1>2, LastIs
  <2>2. entries' = [entries EXCEPT ![e] = x]
    BY <1>7, <2>1
  <2>3. x.key # INVALID_BLOCK_BASE
    BY <1>5
  <2> HIDE DEF x
  <2>4. \A d \in Entries : entries[d].key # INVALID_BLOCK_BASE => entries'[d].key # INVALID_BLOCK_BASE
    BY <1>1, <1>7, <2>1, <2>2, <2>3, EntrySet
  <2> QED BY <1>1, <1>4, <2>4, OlderKeeps DEF KeysInv
<1>10. \A p \in 0 .. n - 1 : Number(p)' = Number(p)
  BY <1>2, <1>6, <1>8 DEF Number
<1>11. Placed'
  <2>1. Prestored(q)'
    BY <1>3, <1>4, <1>5, <1>6, <1>8 DEF Prestored, NewBlockSteps
  <2>2. Written(q)'
    BY <1>5, <1>8 DEF Written
  <2>3. ASSUME NEW p \in 0 .. n - 1, p # q
        PROVE  (IF Written(p) THEN Here(p).key = BLOCK_SIZE * Number(p) \/ Prestored(p)
                              ELSE Here(p).value = Null)'
    <3>1. IF Written(p) THEN Here(p).key = BLOCK_SIZE * Number(p) \/ Prestored(p)
                        ELSE Here(p).value = Null
      BY <1>2 DEF KeysInv, Placed
    <3>2. Here(p)' = Here(p) /\ ~Prestored(p) /\ Written(p)' = Written(p)
      BY <1>3, <1>8, <2>3 DEF Prestored, Written
    <3> QED BY <1>10, <3>1, <3>2
  <2> QED BY <1>8, <2>1, <2>2, <2>3 DEF Placed
<1>12. ProducerReady'
  BY <1>3, <1>4, <1>8 DEF ProducerReady, InsertSteps, NewBlockSteps
<1>13. (\E f \in 0 .. Size : WrittenTo(f))'
  <2>1. PICK f \in 0 .. n : WrittenTo(f)
    BY <1>2 DEF KeysInv
  <2>2. Written(q)' /\ \A p \in 0 .. n - 1 : p # q => Written(p)' = Written(p)
    BY <1>5, <1>8 DEF Written
  <2>3. Here(q)'.value = Null /\ step' \notin NewBlockSteps
    BY <1>4, <1>8 DEF NewBlockSteps
  <2>4. /\ \A p \in 0 .. n - 1 : Written(p) <=> p < f
        /\ f = n \/ f = q \/ f = q + 1
    BY <1>2, <1>3, <2>1 DEF WrittenTo
  <2>5. CASE f = q
    <3>1. \A p \in 0 .. n - 1 : Written(p)' <=> p < q + 1
      BY <2>2, <2>4, <2>5
    <3>2. WrittenTo(q + 1)'
      BY <1>8, <2>3, <3>1 DEF WrittenTo
    <3> QED BY <1>8, <3>2
  <2>6. CASE f = n \/ f = q + 1
    <3>1. \A p \in 0 .. n - 1 : Written(p)' <=> p < f
      BY <2>2, <2>4, <2>6
    <3>2. WrittenTo(f)'
      BY <1>8, <2>3, <2>6, <3>1 DEF WrittenTo
    <3> QED BY <1>8, <3>2
  <2> QED BY <2>4, <2>5, <2>6
<1> QED BY <1>9, <1>11, <1>12, <1>13 DEF KeysInv

\* How far back from the tail a position is, when the tail moves on.
LEMMA TailMovesOn ==
    ASSUME NEW n \in Nat \ {0}, NEW t \in 0 .. n - 1, NEW u \in 0 .. n - 1,
           u = IF t = n - 1 THEN 0 ELSE t + 1
    PROVE  /\ (t + 1) % n = u /\ (t - t) % n = 0
           /\ \A p \in 0 .. n - 1 : (t - p) % n \in 0 .. n - 1
                /\ (u - p) % n = IF p = u THEN 0 ELSE ((t - p) % n) + 1
<1>1. \A x, p \in 0 .. n - 1 : (x - p) % n = IF p <= x THEN x - p ELSE x - p + n
  BY WrapMinus
<1>2. \A x \in 0 .. n + n - 1 : x % n = IF x < n THEN x ELSE x - n
  BY WrapPlus
<1>3. (t + 1) % n = u
  <2>1. t + 1 \in 0 .. n + n - 1
    OBVIOUS
  <2> QED BY <1>2, <2>1
<1>4. (t - t) % n = 0
  BY <1>1
<1>5. ASSUME NEW p \in 0 .. n - 1
      PROVE  (t - p) % n \in 0 .. n - 1 /\ (u - p) % n = IF p = u THEN 0 ELSE ((t - p) % n) + 1
  BY <1>1
<1> QED BY <1>3, <1>4, <1>5

LEMMA SetTailIs ==
    ASSUME IndexTyped, NEW m, SetTail(m)
    PROVE  /\ Len(headers') = Len(headers) /\ blockIndex'.index = blockIndex.index
           /\ blockIndex'.tail = m % Size
           /\ \A k \in 1 .. Len(headers) : headers'[k].index = headers[k].index
<1>1. Len(headers) \in Nat /\ Len(headers) \in 1 .. Len(headers) /\ DOMAIN headers = 1 .. Len(headers)
  BY DEF IndexTyped
<1>2. \A k \in 1 .. Len(headers) : headers[k] \in [index : Seq(Nat), tail : Nat]
  BY ElementOfSeq DEF IndexTyped
<1>3. PICK t : t = m % Size
  OBVIOUS
<1>4. headers' = [headers EXCEPT ![Len(headers)].tail = t]
  BY <1>3 DEF SetTail, Size
<1>5. Len(headers') = Len(headers)
  BY <1>1, <1>4 DEF IndexTyped
<1>6. \A k \in 1 .. Len(headers) : headers'[k].index = headers[k].index
  BY <1>1, <1>2, <1>4
<1>7. headers'[Len(headers)].tail = t
  BY <1>1, <1>2, <1>4
<1> QED BY <1>1, <1>3, <1>5, <1>6, <1>7 DEF blockIndex, Last

LEMMA KeysStoreTail ==
    ASSUME Typed, Nested, KeysInv, StoreTail
    PROVE  KeysInv'
<1>1. IndexTyped
  BY DEF Typed
<1>2. PICK i \in Nat, n \in Nat \ {0} : i = Inserted /\ n = Size /\ Places(blockIndex) = 0 .. n - 1
  BY <1>1, InsertedIs, LastIs
<1>3. PICK t \in 0 .. n - 1 : t = blockIndex.tail
  BY <1>1, <1>2, LastIs
<1>4. PICK q \in 0 .. n - 1 : q = NextPlace /\ q = IF t = n - 1 THEN 0 ELSE t + 1
  BY <1>1, <1>2, <1>3, NextPlaceIs
<1>5. /\ step = "tail" /\ step' = "requisition" /\ tailIndex' = tailIndex /\ entries' = entries
      /\ mine' = mine /\ mine.entry = EntryIn(blockIndex, q) /\ Here(q).value = Null
      /\ tailIndex % BLOCK_SIZE = 0 /\ Here(q).key = tailIndex
  BY <1>4 DEF StoreTail, ProducerGoes, indexes, KeysInv, ProducerReady, InsertSteps
<1>6. tailIndex = BLOCK_SIZE * i /\ tailIndex # INVALID_BLOCK_BASE /\ Nr(tailIndex) = i
  BY <1>2, <1>5, InsertedIs, MultipleIsValid
<1>7. Inserted' = i + 1
  BY <1>5, <1>6 DEF Inserted, NewBlockSteps, Nr
<1>8. /\ Len(headers') = Len(headers) /\ blockIndex'.index = blockIndex.index
      /\ blockIndex'.tail = q
      /\ \A k \in 1 .. Len(headers) : headers'[k].index = headers[k].index
  <2>1. SetTail(blockIndex.tail + 1)
    BY <1>5 DEF StoreTail
  <2> QED BY <1>1, <1>4, <2>1, SetTailIs DEF NextPlace
<1>9. /\ Size' = n /\ Places(blockIndex)' = 0 .. n - 1
      /\ \A p : EntryIn(blockIndex, p)' = EntryIn(blockIndex, p)
      /\ \A p \in 0 .. n - 1 : Here(p)' = Here(p) /\ Written(p)' = Written(p)
  BY <1>1, <1>2, <1>5, <1>8, HereKeeps DEF Written
<1>10. OlderWritten'
  BY <1>1, <1>5, <1>8, OlderKeeps DEF KeysInv
<1>11. ASSUME NEW p \in 0 .. n - 1 PROVE Number(p)' = IF p = q THEN i ELSE Number(p)
  <2>1. /\ (t - p) % n \in 0 .. n - 1
        /\ (q - p) % n = IF p = q THEN 0 ELSE ((t - p) % n) + 1
    <3>1. q = IF t = n - 1 THEN 0 ELSE t + 1
      BY <1>4
    <3>2. \A x \in 0 .. n - 1 : (t - x) % n \in 0 .. n - 1
            /\ (q - x) % n = IF x = q THEN 0 ELSE ((t - x) % n) + 1
      BY <3>1, TailMovesOn
    <3> QED BY <3>2
  <2>2. Number(p)' = i + 1 - 1 - ((q - p) % n)
    BY <1>7, <1>8, <1>9 DEF Number
  <2>3. Number(p) = i - 1 - ((t - p) % n)
    BY <1>2, <1>3 DEF Number
  <2> QED BY <2>1, <2>2, <2>3
<1>12. Placed'
  <2>1. ASSUME NEW p \in 0 .. n - 1
        PROVE  (IF Written(p) THEN Here(p).key = BLOCK_SIZE * Number(p) \/ Prestored(p)
                              ELSE Here(p).value = Null)'
    <3>1. IF Written(p) THEN Here(p).key = BLOCK_SIZE * Number(p) \/ Prestored(p)
                        ELSE Here(p).value = Null
      BY <1>2 DEF KeysInv, Placed
    <3>2. CASE p = q
      BY <1>5, <1>6, <1>9, <1>11, <3>1, <3>2
    <3>3. CASE p # q
      BY <1>4, <1>9, <1>11, <3>1, <3>3 DEF Prestored
    <3> QED BY <3>2, <3>3
  <2> QED BY <1>9, <2>1 DEF Placed
<1>13. ProducerReady'
  BY <1>5, <1>8, <1>9 DEF ProducerReady, InsertSteps, NewBlockSteps
<1>14. (\E f \in 0 .. Size : WrittenTo(f))'
  <2>1. PICK f \in 0 .. n : WrittenTo(f)
    BY <1>2 DEF KeysInv
  <2>2. /\ \A p \in 0 .. n - 1 : Written(p) <=> p < f
        /\ f = n \/ f = q \/ f = q + 1
    BY <1>2, <1>4, <2>1 DEF WrittenTo
  <2>3. Written(q)
    BY <1>5, <1>6 DEF Written
  <2>4. f = n \/ f = q + 1
    BY <2>2, <2>3
  <2>5. NextPlace' = IF q = n - 1 THEN 0 ELSE q + 1
    <3>1. NextPlace' = (q + 1) % n
      BY <1>8, <1>9 DEF NextPlace
    <3>2. \A u \in 0 .. n - 1 : u = (IF q = n - 1 THEN 0 ELSE q + 1) => (q + 1) % n = u
      BY TailMovesOn
    <3> QED BY <3>1, <3>2
  <2>6. f = n \/ f = NextPlace'
    BY <2>4, <2>5
  <2>7. \A p \in 0 .. n - 1 : Written(p)' <=> p < f
    BY <1>9, <2>2
  <2>8. WrittenTo(f)'
    BY <1>9, <2>6, <2>7 DEF WrittenTo
  <2> QED BY <1>9, <2>8
<1> QED BY <1>10, <1>12, <1>13, <1>14 DEF KeysInv

LEMMA KeysRequisitionFails ==
    ASSUME Typed, Nested, KeysInv, RequisitionFails
    PROVE  KeysInv'
<1>1. IndexTyped
  BY DEF Typed
<1>2. PICK i \in Nat, n \in Nat \ {0} : i = Nr(tailIndex) /\ n = Size /\ Places(blockIndex) = 0 .. n - 1
  BY <1>1, InsertedIs, NrIs, LastIs
<1>3. PICK t \in 0 .. n - 1 : t = blockIndex.tail
  BY <1>1, <1>2, LastIs
<1>4. /\ step = "requisition" /\ step' = "idle" /\ tailIndex' = tailIndex
      /\ mine.entry = EntryIn(blockIndex, t) /\ Here(t).value = Null
      /\ tailIndex % BLOCK_SIZE = 0 /\ Here(t).key = tailIndex
  BY <1>3
  DEF RequisitionFails, ProducerGoes, indexes, KeysInv, ProducerReady, InsertSteps, NewBlockSteps
<1>5. tailIndex = BLOCK_SIZE * i /\ tailIndex # INVALID_BLOCK_BASE /\ Inserted = i + 1
  <2>1. Inserted = i + 1 /\ tailIndex = BLOCK_SIZE * (Inserted - 1)
    BY <1>2, <1>4, InsertedIs DEF NewBlockSteps
  <2>2. tailIndex = BLOCK_SIZE * i
    BY <2>1
  <2> QED BY <2>1, <2>2, MultipleIsValid
<1>6. Inserted' = i
  BY <1>2, <1>4 DEF Inserted, NewBlockSteps, Nr
<1>7. PICK u \in 0 .. n - 1 :
         /\ u = IF t = 0 THEN n - 1 ELSE t - 1
         /\ t = IF u = n - 1 THEN 0 ELSE u + 1
         /\ (t + n - 1) % n = u
  <2>1. \A x \in 0 .. n + n - 1 : x % n = IF x < n THEN x ELSE x - n
    BY WrapPlus
  <2>2. t + n - 1 \in 0 .. n + n - 1
    OBVIOUS
  <2> QED BY <2>1, <2>2
<1>8. /\ Len(headers') = Len(headers) /\ blockIndex'.index = blockIndex.index
      /\ blockIndex'.tail = u
      /\ \A k \in 1 .. Len(headers) : headers'[k].index = headers[k].index
  <2>1. SetTail(blockIndex.tail + Capacity(blockIndex) - 1)
    BY <1>4 DEF RequisitionFails
  <2> QED BY <1>1, <1>2, <1>3, <1>7, <2>1, SetTailIs DEF Size
<1> DEFINE x == Here(t)
<1>9. x \in Entry /\ entries' = [entries EXCEPT ![EntryIn(blockIndex, t)] = x]
  <2>1. EntryIn(blockIndex, t) \in Entries
    BY <1>1, <1>2, LastIs
  <2>2. Here(t) \in Entry
    BY <1>1, <2>1, EntryIs DEF Here
  <2>3. [Here(t) EXCEPT !.value = Null] = x
    BY <1>4, <2>2 DEF Entry
  <2>4. entries' = [entries EXCEPT ![EntryIn(blockIndex, t)] = [Here(t) EXCEPT !.value = Null]]
    BY <1>4 DEF RequisitionFails, Here
  <2> QED BY <2>2, <2>3, <2>4
<1>10. /\ Size' = n /\ Places(blockIndex)' = 0 .. n - 1
       /\ \A p : EntryIn(blockIndex, p)' = EntryIn(blockIndex, p)
       /\ \A p \in 0 .. n - 1 : Here(p)' = Here(p) /\ Written(p)' = Written(p)
  <2> HIDE DEF x
  <2>1. /\ Size' = n /\ Places(blockIndex)' = 0 .. n - 1
        /\ \A p : EntryIn(blockIndex, p)' = EntryIn(blockIndex, p)
        /\ \A p \in 0 .. n - 1 : Here(p)' = IF p = t THEN x ELSE Here(p)
    BY <1>1, <1>2, <1>8, <1>9, HereSet
  <2> USE DEF x
  <2> QED BY <2>1 DEF Written
<1>11. OlderWritten'
  <2>1. PICK e \in Entries : e = EntryIn(blockIndex, t)
    BY <1>1, <1>2, LastIs
  <2>2. entries' = [entries EXCEPT ![e] = x]
    BY <1>9, <2>1
  <2>3. x.key # INVALID_BLOCK_BASE
    BY <1>4, <1>5
  <2> HIDE DEF x
  <2>4. \A d \in Entries : entries[d].key # INVALID_BLOCK_BASE => entries'[d].key # INVALID_BLOCK_BASE
    BY <1>1, <1>9, <2>1, <2>2, <2>3, EntrySet
  <2> QED BY <1>1, <1>8, <2>4, OlderKeeps DEF KeysInv
<1>12. ASSUME NEW p \in 0 .. n - 1, p # t PROVE Number(p)' = Number(p)
  <2>1. /\ (u - p) % n \in 0 .. n - 1
        /\ (t - p) % n = ((u - p) % n) + 1
    <3>1. t = IF u = n - 1 THEN 0 ELSE u + 1
      BY <1>7
    <3>2. \A y \in 0 .. n - 1 : (u - y) % n \in 0 .. n - 1
            /\ (t - y) % n = IF y = t THEN 0 ELSE ((u - y) % n) + 1
      BY <3>1, TailMovesOn
    <3> QED BY <1>12, <3>2
  <2>2. Number(p)' = i - 1 - ((u - p) % n)
    BY <1>6, <1>8, <1>10 DEF Number
  <2>3. Number(p) = i + 1 - 1 - ((t - p) % n)
    <3>1. Inserted = i + 1
      BY <1>5
    <3> QED BY <1>2, <1>3, <3>1 DEF Number
  <2> QED BY <2>1, <2>2, <2>3
<1>13. NextPlace' = t
  <2>1. NextPlace' = (u + 1) % n
    BY <1>8, <1>10 DEF NextPlace
  <2>2. t = IF u = n - 1 THEN 0 ELSE u + 1
    BY <1>7
  <2>3. (u + 1) % n = t
    BY <2>2, TailMovesOn
  <2> QED BY <2>1, <2>3
<1>14. Placed'
  <2>1. ASSUME NEW p \in 0 .. n - 1, p # t
        PROVE  (IF Written(p) THEN Here(p).key = BLOCK_SIZE * Number(p) \/ Prestored(p)
                              ELSE Here(p).value = Null)'
    <3>1. IF Written(p) THEN Here(p).key = BLOCK_SIZE * Number(p) \/ Prestored(p)
                        ELSE Here(p).value = Null
      BY <1>2 DEF KeysInv, Placed
    <3>2. ~Prestored(p)
      BY <1>4 DEF Prestored, NewBlockSteps
    <3> QED BY <1>10, <1>12, <2>1, <3>1, <3>2
  <2>2. Prestored(t)' /\ Written(t)'
    BY <1>4, <1>5, <1>6, <1>10, <1>13 DEF Prestored, Written, NewBlockSteps
  <2> QED BY <1>10, <2>1, <2>2 DEF Placed
<1>15. ProducerReady'
  BY <1>4 DEF ProducerReady, InsertSteps, NewBlockSteps
<1>16. (\E f \in 0 .. Size : WrittenTo(f))'
  <2>1. PICK f \in 0 .. n : WrittenTo(f)
    BY <1>2 DEF KeysInv
  <2>2. /\ \A p \in 0 .. n - 1 : Written(p) <=> p < f
        /\ f = n \/ f = NextPlace
    BY <1>2, <1>4, <2>1 DEF WrittenTo, NewBlockSteps
  <2>3. NextPlace = IF t = n - 1 THEN 0 ELSE t + 1
    BY <1>1, <1>2, <1>3, NextPlaceIs
  <2>4. Written(t)
    BY <1>4, <1>5 DEF Written
  <2>5. f = n \/ f = t + 1
    BY <2>2, <2>3, <2>4
  <2>6. \A p \in 0 .. n - 1 : Written(p)' <=> p < f
    BY <1>10, <2>2
  <2>7. Here(t)'.value = Null /\ step' \notin NewBlockSteps
    BY <1>4, <1>10 DEF NewBlockSteps
  <2>8. WrittenTo(f)'
    BY <1>10, <1>13, <2>5, <2>6, <2>7 DEF WrittenTo
  <2> QED BY <1>10, <2>8
<1> QED BY <1>11, <1>14, <1>15, <1>16 DEF KeysInv

LEMMA KeysStoreValue ==
    ASSUME Typed, Nested, KeysInv, StoreValue
    PROVE  KeysInv'
<1>1. IndexTyped
  BY DEF Typed
<1>2. PICK i \in Nat, n \in Nat \ {0} : i = Inserted /\ n = Size /\ Places(blockIndex) = 0 .. n - 1
  BY <1>1, InsertedIs, LastIs
<1>3. PICK t \in 0 .. n - 1 : t = blockIndex.tail
  BY <1>1, <1>2, LastIs
<1>4. /\ step = "value" /\ step' = "construct" /\ tailIndex' = tailIndex /\ headers' = headers
      /\ mine.entry = EntryIn(blockIndex, t) /\ Here(t).value = Null
      /\ tailIndex % BLOCK_SIZE = 0 /\ Here(t).key = tailIndex
  BY <1>3
  DEF StoreValue, ProducerGoes, indexes, KeysInv, ProducerReady, InsertSteps, NewBlockSteps
<1>5. tailIndex = BLOCK_SIZE * (i - 1) /\ tailIndex # INVALID_BLOCK_BASE
  <2>1. tailIndex = BLOCK_SIZE * (i - 1) /\ i - 1 \in Int
    BY <1>2, <1>4, InsertedIs DEF NewBlockSteps
  <2> QED BY <2>1, MultipleIsValid
<1>6. Inserted' = i
  BY <1>2, <1>4 DEF Inserted, NewBlockSteps, Nr
<1> DEFINE x == [key |-> tailIndex, value |-> mine.block]
<1>7. x \in Entry /\ entries' = [entries EXCEPT ![EntryIn(blockIndex, t)] = x]
  <2>1. EntryIn(blockIndex, t) \in Entries
    BY <1>1, <1>2, LastIs
  <2>2. Here(t) \in Entry /\ mine.block \in Blocks \cup {Null} /\ tailIndex \in Nat
    BY <1>1, <2>1, EntryIs DEF Here, Typed, ProducerTyped, CountersTyped
  <2>3. [Here(t) EXCEPT !.value = mine.block] = x
    BY <1>4, <2>2 DEF Entry
  <2>4. entries' = [entries EXCEPT ![EntryIn(blockIndex, t)] = [Here(t) EXCEPT !.value = mine.block]]
    BY <1>4 DEF StoreValue, Here
  <2> QED BY <2>2, <2>3, <2>4 DEF Entry
<1>8. /\ Size' = n /\ Places(blockIndex)' = 0 .. n - 1 /\ NextPlace' = NextPlace
      /\ blockIndex' = blockIndex
      /\ \A p : EntryIn(blockIndex, p)' = EntryIn(blockIndex, p)
      /\ \A p \in 0 .. n - 1 : Here(p)' = IF p = t THEN x ELSE Here(p)
  <2>1. blockIndex' = blockIndex
    BY <1>4 DEF blockIndex
  <2> HIDE DEF x
  <2> QED BY <1>1, <1>2, <1>7, <2>1, HereSet DEF NextPlace
<1>9. \A p \in 0 .. n - 1 : Written(p)' = Written(p) /\ Here(p)'.key = Here(p).key
  BY <1>4, <1>8 DEF Written
<1>10. OlderWritten'
  <2>1. PICK e \in Entries : e = EntryIn(blockIndex, t)
    BY <1>1, <1>2, LastIs
  <2>2. entries' = [entries EXCEPT ![e] = x]
    BY <1>7, <2>1
  <2>3. x.key # INVALID_BLOCK_BASE
    BY <1>5
  <2> HIDE DEF x
  <2>4. \A d \in Entries : entries[d].key # INVALID_BLOCK_BASE => entries'[d].key # INVALID_BLOCK_BASE
    BY <1>1, <1>7, <2>1, <2>2, <2>3, EntrySet
  <2> QED BY <1>1, <1>4, <2>4, OlderKeeps DEF KeysInv
<1>11. \A p \in 0 .. n - 1 : Number(p)' = Number(p)
  BY <1>2, <1>6, <1>8 DEF Number
<1>12. Placed'
  <2>1. ASSUME NEW p \in 0 .. n - 1
        PROVE  (IF Written(p) THEN Here(p).key = BLOCK_SIZE * Number(p) \/ Prestored(p)
                              ELSE Here(p).value = Null)'
    <3>1. IF Written(p) THEN Here(p).key = BLOCK_SIZE * Number(p) \/ Prestored(p)
                        ELSE Here(p).value = Null
      BY <1>2 DEF KeysInv, Placed
    <3>2. ~Prestored(p)
      BY <1>4 DEF Prestored, NewBlockSteps
    <3>3. Written(t)
      BY <1>4, <1>5 DEF Written
    <3>4. Here(p)' = Here(p) \/ p = t
      BY <1>8
    <3> QED BY <1>9, <1>11, <3>1, <3>2, <3>3, <3>4
  <2> QED BY <1>8, <2>1 DEF Placed
<1>13. ProducerReady'
  BY <1>4 DEF ProducerReady, InsertSteps, NewBlockSteps
<1>14. (\E f \in 0 .. Size : WrittenTo(f))'
  <2>1. PICK f \in 0 .. n : WrittenTo(f)
    BY <1>2 DEF KeysInv
  <2>2. f = n \/ f = NextPlace
    BY <1>2, <1>4, <2>1 DEF WrittenTo, NewBlockSteps
  <2>3. WrittenTo(f)'
    BY <1>2, <1>8, <1>9, <2>1, <2>2 DEF WrittenTo
  <2> QED BY <1>8, <2>3
<1> QED BY <1>10, <1>12, <1>13, <1>14 DEF KeysInv

LEMMA KeysGrow ==
    ASSUME Typed, Nested, KeysInv, GrowIndex
    PROVE  KeysInv'
<1>1. IndexTyped /\ AllIndexed
  BY DEF Typed, Nested
<1>2. PICK n \in Nat \ {0} : \E t \in 0 .. n - 1 : \E h : Growth(n, t, h)
  BY <1>1, GrownIs
<1>3. PICK t \in 0 .. n - 1 : \E h : Growth(n, t, h)
  BY <1>2
<1>4. PICK h : Growth(n, t, h)
  BY <1>3
<1>5. PICK i \in Nat : i = Inserted
  BY InsertedIs
<1>6. /\ n = Size /\ t = blockIndex.tail /\ h = blockIndex /\ Size' = n + n /\ blockIndex'.tail = n - 1
      /\ Len(headers') = Len(headers) + 1 /\ Len(headers) \in Nat
      /\ Places(blockIndex) = 0 .. n - 1 /\ Entries = 1 .. n
  BY <1>1, <1>4, LastIs DEF Growth, AllIndexed, Entries
<1>7. Places(blockIndex)' = 0 .. n + n - 1
  BY <1>6 DEF Places, Size
<1>8. /\ step = "grow" /\ step' = "key" /\ tailIndex' = tailIndex /\ tailIndex % BLOCK_SIZE = 0
      /\ mine' = [mine EXCEPT !.entry = NextEntry(Grown(blockIndex, Len(entries)))]
  BY DEF GrowIndex, ProducerGoes, indexes, KeysInv, ProducerReady, InsertSteps
<1>9. Inserted' = i
  BY <1>5, <1>8 DEF Inserted, NewBlockSteps, Nr
<1>10. \A p \in 0 .. n - 1 : Written(p) /\ Here(p).key = BLOCK_SIZE * Number(p)
  BY <1>6, <1>8 DEF KeysInv, ProducerReady
<1>11. \A p \in 0 .. n - 1 : (t + p + 1) % n \in 0 .. n - 1
  <2>1. \A p \in 0 .. n - 1 : t + p + 1 \in Int
    OBVIOUS
  <2> QED BY <2>1, DivMod
<1>12. \A p \in 0 .. n - 1 : Here(p)' = Here((t + p + 1) % n)
  <2>1. ASSUME NEW p \in 0 .. n - 1 PROVE Here(p)' = Here((t + p + 1) % n)
    <3>1. EntryIn(blockIndex, p)' = EntryIn(blockIndex, (t + p + 1) % n)
      BY <1>4, <1>6 DEF Growth
    <3>2. EntryIn(blockIndex, (t + p + 1) % n) \in Entries
      BY <1>1, <1>6, <1>11, LastIs
    <3> QED BY <1>4, <3>1, <3>2 DEF Here, Growth
  <2> QED BY <2>1
<1>13. \A p \in n .. n + n - 1 : Here(p)' = [key |-> INVALID_BLOCK_BASE, value |-> Null]
  <2>1. ASSUME NEW p \in n .. n + n - 1 PROVE Here(p)' = [key |-> INVALID_BLOCK_BASE, value |-> Null]
    <3>1. EntryIn(blockIndex, p)' = p + 1 /\ p + 1 \in n + 1 .. n + n
      <4>1. EntryIn(blockIndex, p)' = p + 1
        BY <1>4 DEF Growth
      <4>2. p + 1 \in n + 1 .. n + n
        OBVIOUS
      <4> QED BY <4>1, <4>2
    <3> QED BY <1>4, <3>1 DEF Here, Growth
  <2> QED BY <2>1
<1>14. \A p \in 0 .. n - 1 : Number(p)' = Number((t + p + 1) % n)
  <2>1. ASSUME NEW p \in 0 .. n - 1 PROVE Number(p)' = Number((t + p + 1) % n)
    <3>1. PICK q \in 0 .. n - 1 : q = (t + p + 1) % n
      BY <1>11
    <3>2. q = IF t + p + 1 < n THEN t + p + 1 ELSE t + p + 1 - n
      <4>1. \A x \in 0 .. n + n - 1 : x % n = IF x < n THEN x ELSE x - n
        BY WrapPlus
      <4>2. t + p + 1 \in 0 .. n + n - 1
        OBVIOUS
      <4> QED BY <3>1, <4>1, <4>2
    <3>3. (t - q) % n = IF q <= t THEN t - q ELSE t - q + n
      BY WrapMinus
    <3>4. ((n - 1) - p) % (n + n) = n - 1 - p
      <4>1. \A m \in Nat \ {0} : \A x, y \in 0 .. m - 1 : (x - y) % m = IF y <= x THEN x - y ELSE x - y + m
        BY WrapMinus
      <4>2. n + n \in Nat \ {0} /\ n - 1 \in 0 .. n + n - 1 /\ p \in 0 .. n + n - 1 /\ p <= n - 1
        OBVIOUS
      <4> QED BY <4>1, <4>2
    <3>5. (t - q) % n = n - 1 - p
      BY <3>2, <3>3
    <3>6. Number(p)' = i - 1 - (n - 1 - p)
      BY <1>6, <1>9, <3>4 DEF Number
    <3>7. Number(q) = i - 1 - (n - 1 - p)
      BY <1>5, <1>6, <3>5 DEF Number
    <3> QED BY <3>1, <3>6, <3>7
  <2> QED BY <2>1
<1>15. /\ \A p \in 0 .. n - 1 : Written(p)' /\ Here(p)'.key = BLOCK_SIZE * Number(p)'
       /\ \A p \in n .. n + n - 1 : ~Written(p)' /\ Here(p)'.value = Null
  BY <1>10, <1>11, <1>12, <1>13, <1>14 DEF Written
<1>16. NextPlace' = n
  <2>1. NextPlace' = (n - 1 + 1) % (n + n)
    BY <1>6 DEF NextPlace
  <2>2. \A m \in Nat \ {0} : \A x \in 0 .. m + m - 1 : x % m = IF x < m THEN x ELSE x - m
    BY WrapPlus
  <2>3. n + n \in Nat \ {0} /\ n \in 0 .. (n + n) + (n + n) - 1 /\ n < n + n /\ n - 1 + 1 = n
    OBVIOUS
  <2> QED BY <2>1, <2>2, <2>3
<1>17. Placed'
  <2>1. ASSUME NEW p \in 0 .. n + n - 1
        PROVE  (IF Written(p) THEN Here(p).key = BLOCK_SIZE * Number(p) \/ Prestored(p)
                              ELSE Here(p).value = Null)'
    <3>1. p \in 0 .. n - 1 \/ p \in n .. n + n - 1
      OBVIOUS
    <3> QED BY <1>15, <3>1
  <2> QED BY <1>7, <2>1 DEF Placed
<1>18. WrittenTo(n)'
  <2>1. \A p \in 0 .. n + n - 1 : Written(p)' <=> p < n
    BY <1>15
  <2> QED BY <1>7, <1>16, <2>1 DEF WrittenTo
<1>19. OlderWritten'
  <2>1. ASSUME NEW k \in 1 .. Len(headers'), k # Len(headers'), NEW p \in Places(headers[k])'
        PROVE  (entries[EntryIn(headers[k], p)].key # INVALID_BLOCK_BASE)'
    <3>1. k \in 1 .. Len(headers) /\ headers'[k] = headers[k]
      BY <1>4, <1>6, <2>1 DEF Growth
    <3>2. p \in Places(headers[k]) /\ EntryIn(headers[k], p)' = EntryIn(headers[k], p)
      BY <3>1 DEF Places, Capacity, EntryIn
    <3>3. EntryIn(headers[k], p) \in Entries
      BY <1>1, <3>1, <3>2, HeaderIs
    <3>4. entries'[EntryIn(headers[k], p)] = entries[EntryIn(headers[k], p)]
      BY <1>4, <3>3 DEF Growth
    <3>5. entries[EntryIn(headers[k], p)].key # INVALID_BLOCK_BASE
      <4>1. CASE k # Len(headers)
        BY <3>1, <3>2, <4>1 DEF KeysInv, OlderWritten
      <4>2. CASE k = Len(headers)
        <5>1. headers[k] = blockIndex
          BY <1>1, <4>2, LastIs
        <5> QED BY <1>6, <1>10, <3>2, <5>1 DEF Written, Here
      <4> QED BY <4>1, <4>2
    <3> QED BY <3>2, <3>4, <3>5
  <2> QED BY <2>1 DEF OlderWritten
<1>20. ProducerReady'
  <2>1. mine'.entry = NextEntry(Grown(blockIndex, Len(entries)))
    BY <1>8 DEF Typed, ProducerTyped
  <2>2. blockIndex' = Grown(blockIndex, Len(entries))
    <3>1. headers' = Append(headers, Grown(blockIndex, Len(entries)))
      BY DEF GrowIndex
    <3> QED BY <1>1, <3>1 DEF blockIndex, Last, IndexTyped
  <2>3. EntryAt(blockIndex', n - 1 + 1) = EntryIn(blockIndex', (n - 1 + 1) % Capacity(blockIndex'))
    BY DEF EntryAt, EntryIn
  <2>4. mine'.entry = EntryIn(blockIndex, NextPlace)'
    BY <1>6, <2>1, <2>2, <2>3 DEF NextEntry, NextPlace, Size
  <2>5. Here(NextPlace)'.value = Null
    <3>1. n \in n .. n + n - 1
      OBVIOUS
    <3> QED BY <1>15, <1>16, <3>1 DEF Here
  <2> QED BY <1>8, <2>4, <2>5 DEF ProducerReady, InsertSteps, NewBlockSteps
<1> QED BY <1>6, <1>17, <1>18, <1>19, <1>20 DEF KeysInv

LEMMA KeysInit == Init => KeysInv
<1> SUFFICES ASSUME Init PROVE KeysInv
  OBVIOUS
<1>1. IndexTyped /\ AllIndexed
  BY InitTyped, NestedInit DEF Typed, Nested
<1>2. PICK n \in Nat \ {0} : n = Size /\ Places(blockIndex) = 0 .. n - 1 /\ n = IMPLICIT_INITIAL_INDEX_SIZE
  <2>1. Size \in Nat \ {0} /\ Places(blockIndex) = 0 .. Size - 1 /\ Len(entries) = Size
    BY <1>1, LastIs DEF AllIndexed
  <2>2. Len(entries) = IMPLICIT_INITIAL_INDEX_SIZE
    BY SizesAssumption DEF Init, NewEntries
  <2> QED BY <2>1, <2>2
<1>3. Len(headers) = 1 /\ blockIndex.tail = n - 1
  BY <1>2 DEF Init, blockIndex, Last, Header
<1>4. NextPlace = 0
  BY <1>1, <1>2, <1>3, NextPlaceIs
<1>5. \A p \in 0 .. n - 1 : Here(p) = [key |-> INVALID_BLOCK_BASE, value |-> Null]
  <2>1. \A p \in 0 .. n - 1 : EntryIn(blockIndex, p) \in 1 .. n
    BY <1>1, <1>2, LastIs DEF AllIndexed, Entries
  <2> QED BY <1>2, <2>1 DEF Init, NewEntries, Here
<1>6. \A p \in 0 .. n - 1 : ~Written(p) /\ Here(p).value = Null
  BY <1>5 DEF Written
<1>7. WrittenTo(0)
  BY <1>2, <1>4, <1>6 DEF WrittenTo
<1>8. 0 \in 0 .. Size
  BY <1>2
<1>9. Placed
  BY <1>2, <1>6 DEF Placed
<1>10. OlderWritten
  BY <1>3 DEF OlderWritten
<1>11. ProducerReady
  BY DEF Init, ProducerReady, InsertSteps, NewBlockSteps
<1> QED BY <1>7, <1>8, <1>9, <1>10, <1>11 DEF KeysInv

\* Steps of the producer that leave the index as it is.
LEMMA ReadyKeeps ==
    ASSUME KeysInv, headers' = headers, entries' = entries, Inserted' = Inserted,
           tailIndex' = tailIndex, mine'.entry = mine.entry,
           step' = step \/ (step = "requisition" /\ step' = "value")
    PROVE  ProducerReady'
<1>1. /\ blockIndex' = blockIndex /\ Size' = Size /\ NextPlace' = NextPlace
      /\ Places(blockIndex)' = Places(blockIndex)
      /\ \A p : EntryIn(blockIndex, p)' = EntryIn(blockIndex, p) /\ Here(p)' = Here(p)
                /\ Written(p)' = Written(p) /\ Number(p)' = Number(p)
  BY DEF blockIndex, Size, NextPlace, Places, EntryIn, Here, Written, Number
<1>2. /\ Here(NextPlace)' = Here(NextPlace) /\ EntryIn(blockIndex, NextPlace)' = EntryIn(blockIndex, NextPlace)
      /\ Here(blockIndex.tail)' = Here(blockIndex.tail)
      /\ EntryIn(blockIndex, blockIndex.tail)' = EntryIn(blockIndex, blockIndex.tail)
  BY <1>1 DEF Here, EntryIn
<1> QED BY <1>1, <1>2 DEF KeysInv, ProducerReady, InsertSteps, NewBlockSteps

LEMMA KeysClear ==
    ASSUME Typed, Nested, KeysInv, NEW c \in Consumers, ClearEntry(c)
    PROVE  KeysInv'
<1>1. IndexTyped
  BY DEF Typed
<1>2. UNCHANGED <<headers, tailIndex, step, mine>>
  BY DEF ClearEntry, indexes, producer
<1>3. Inserted' = Inserted
  BY <1>2 DEF Inserted
<1>4. PICK e \in Entries : e = local[c].entry
  BY DEF ClearEntry, Goes, Typed, ConsumersTyped
<1>5. entries[e] \in Entry /\ [entries[e] EXCEPT !.value = Null] \in Entry
  BY <1>1, EntryIs
<1>6. PICK x \in Entry : x = [entries[e] EXCEPT !.value = Null] /\ x.key = entries[e].key /\ x.value = Null
  BY <1>5 DEF Entry
<1>7. entries' = [entries EXCEPT ![e] = x]
  BY <1>4, <1>6 DEF ClearEntry
<1>8. \A d \in Entries : entries'[d].key = entries[d].key
                         /\ (entries'[d].value = entries[d].value \/ entries'[d].value = Null)
  BY <1>1, <1>6, <1>7, EntrySet
<1>9. ProducerReady'
  <2>1. /\ blockIndex' = blockIndex /\ NextPlace' = NextPlace
        /\ Places(blockIndex)' = Places(blockIndex)
        /\ \A p : EntryIn(blockIndex, p)' = EntryIn(blockIndex, p)
    BY <1>2 DEF blockIndex, Size, NextPlace, Places, EntryIn
  <2>2. ASSUME NEW p \in Places(blockIndex)
        PROVE  /\ Here(p)'.key = Here(p).key /\ Here(p)'.value \in {Here(p).value, Null}
               /\ Written(p)' = Written(p) /\ Number(p)' = Number(p)
    BY <1>1, <1>2, <1>3, <1>8, LastIs DEF Here, Written, Number, blockIndex, Size
  <2>3. PICK q \in Places(blockIndex), t \in Places(blockIndex) : q = NextPlace /\ t = blockIndex.tail
    BY <1>1, LastIs, NextPlaceIs
  <2>4. /\ Here(q)'.key = Here(q).key /\ (Here(q).value = Null => Here(q)'.value = Null)
        /\ Here(t)'.key = Here(t).key /\ (Here(t).value = Null => Here(t)'.value = Null)
    BY <2>2
  <2>5. /\ NextPlace' = q /\ blockIndex'.tail = t
        /\ EntryIn(blockIndex', q) = EntryIn(blockIndex, q) /\ EntryIn(blockIndex', t) = EntryIn(blockIndex, t)
    BY <2>1, <2>3
  <2>6. ProducerReady
    BY DEF KeysInv
  <2>7. step \in InsertSteps => tailIndex % BLOCK_SIZE = 0
    BY <2>6 DEF ProducerReady
  <2>8. step = "grow" => \A p \in Places(blockIndex) : Written(p)' /\ Here(p)'.key = BLOCK_SIZE * Number(p)'
    BY <2>2, <2>6 DEF ProducerReady
  <2>9. step \in {"key", "tail"} => mine.entry = EntryIn(blockIndex, q) /\ Here(q)'.value = Null
    BY <2>3, <2>4, <2>6 DEF ProducerReady
  <2>10. step = "tail" => Here(q)'.key = tailIndex
    BY <2>3, <2>4, <2>6 DEF ProducerReady
  <2>11. step \in NewBlockSteps => /\ mine.entry = EntryIn(blockIndex, t)
                                   /\ Here(t)'.key = tailIndex /\ Here(t)'.value = Null
    BY <2>3, <2>4, <2>6 DEF ProducerReady
  <2>12. Here(NextPlace)' = Here(q)' /\ Here(blockIndex.tail)' = Here(t)'
    BY <2>5 DEF Here
  <2> QED BY <1>2, <2>1, <2>5, <2>7, <2>8, <2>9, <2>10, <2>11, <2>12 DEF ProducerReady
<1> QED BY <1>1, <1>2, <1>3, <1>8, <1>9, KeysKeep

LEMMA KeysFind ==
    ASSUME Typed, Nested, KeysInv, FindEntry
    PROVE  KeysInv'
<1>1. IndexTyped
  BY DEF Typed
<1>2. /\ UNCHANGED <<headers, entries, tailIndex>> /\ step = "insert"
      /\ step' = IF IsFree(NextEntry(blockIndex)) THEN "key" ELSE "grow"
      /\ mine' = [mine EXCEPT !.entry = NextEntry(blockIndex)]
  BY DEF FindEntry, ProducerGoes, indexes
<1>3. Inserted' = Inserted
  BY <1>2 DEF Inserted, NewBlockSteps
<1>4. /\ blockIndex' = blockIndex /\ Size' = Size /\ NextPlace' = NextPlace
      /\ Places(blockIndex)' = Places(blockIndex)
      /\ \A p : EntryIn(blockIndex, p)' = EntryIn(blockIndex, p) /\ Here(p)' = Here(p)
                /\ Written(p)' = Written(p) /\ Number(p)' = Number(p)
  BY <1>2, <1>3 DEF blockIndex, Size, NextPlace, Places, EntryIn, Here, Written, Number
<1>5. NextEntry(blockIndex) = EntryIn(blockIndex, NextPlace) /\ NextPlace \in Places(blockIndex)
  BY <1>1, NextPlaceIs
<1>6. mine'.entry = EntryIn(blockIndex, NextPlace)
  BY <1>2, <1>5 DEF Typed, ProducerTyped
<1>7. IF Written(NextPlace)
      THEN Here(NextPlace).key = BLOCK_SIZE * Number(NextPlace) \/ Prestored(NextPlace)
      ELSE Here(NextPlace).value = Null
  BY <1>5 DEF KeysInv, Placed
<1>8. IsFree(NextEntry(blockIndex)) <=> ~Written(NextPlace) \/ Here(NextPlace).value = Null
  BY <1>5 DEF IsFree, Written, Here
<1>9. tailIndex % BLOCK_SIZE = 0
  BY <1>2 DEF KeysInv, ProducerReady, InsertSteps
<1>10. ~IsFree(NextEntry(blockIndex)) =>
          \A p \in Places(blockIndex) : Written(p) /\ Here(p).key = BLOCK_SIZE * Number(p)
  <2> SUFFICES ASSUME ~IsFree(NextEntry(blockIndex)), NEW p \in Places(blockIndex)
               PROVE  Written(p) /\ Here(p).key = BLOCK_SIZE * Number(p)
    OBVIOUS
  <2>1. PICK n \in Nat \ {0} : n = Size /\ Places(blockIndex) = 0 .. n - 1
    BY <1>1, LastIs
  <2>2. PICK f \in 0 .. n : WrittenTo(f)
    BY <2>1 DEF KeysInv
  <2>3. Written(NextPlace) /\ Here(NextPlace).value # Null
    BY <1>8
  <2>4. PICK q \in 0 .. n - 1 : q = NextPlace
    BY <1>5, <2>1
  <2>5. f = n
    BY <2>1, <2>2, <2>3, <2>4 DEF WrittenTo
  <2>6. Written(p)
    BY <2>1, <2>2, <2>5 DEF WrittenTo
  <2>7. ~Prestored(p)
    BY <2>3 DEF Prestored
  <2> QED BY <2>6, <2>7 DEF KeysInv, Placed
<1>11. Here(NextPlace)' = Here(NextPlace) /\ EntryIn(blockIndex, NextPlace)' = EntryIn(blockIndex, NextPlace)
  BY <1>4 DEF Here, EntryIn
<1>12. ProducerReady'
  <2>1. CASE IsFree(NextEntry(blockIndex))
    BY <1>2, <1>6, <1>7, <1>8, <1>9, <1>11, <2>1 DEF ProducerReady, InsertSteps, NewBlockSteps
  <2>2. CASE ~IsFree(NextEntry(blockIndex))
    BY <1>2, <1>4, <1>9, <1>10, <2>2 DEF ProducerReady, InsertSteps, NewBlockSteps
  <2> QED BY <2>1, <2>2
<1>13. step' \in NewBlockSteps <=> step \in NewBlockSteps
  BY <1>2 DEF NewBlockSteps
<1> QED BY <1>1, <1>2, <1>3, <1>12, <1>13, KeysKeep

LEMMA KeysStep == Typed /\ Nested /\ KeysInv /\ [Next]_vars => KeysInv'
<1> SUFFICES ASSUME Typed, Nested, KeysInv, [Next]_vars PROVE KeysInv'
  OBVIOUS
<1>1. IndexTyped
  BY DEF Typed
<1>2. CASE UNCHANGED <<headers, entries, tailIndex, step, mine>>
  <2>1. Inserted' = Inserted
    BY <1>2 DEF Inserted
  <2>2. ProducerReady'
    BY <1>2, <2>1, ReadyKeeps
  <2> QED BY <1>1, <1>2, <2>1, <2>2, KeysKeep
<1>3. CASE FromInitialPool \/ FromFreeList \/ FromMalloc
  <2>1. /\ UNCHANGED <<headers, entries, tailIndex>> /\ step = "requisition" /\ step' = "value"
        /\ \E b : mine' = [mine EXCEPT !.block = b]
    BY <1>3 DEF FromInitialPool, FromFreeList, FromMalloc, Obtain, ProducerGoes, indexes
  <2>2. mine'.entry = mine.entry
    BY <2>1 DEF Typed, ProducerTyped
  <2>3. Inserted' = Inserted
    BY <2>1 DEF Inserted, NewBlockSteps
  <2>4. ProducerReady'
    BY <2>1, <2>2, <2>3, ReadyKeeps
  <2>5. step' \in NewBlockSteps <=> step \in NewBlockSteps
    BY <2>1 DEF NewBlockSteps
  <2> QED BY <1>1, <2>1, <2>3, <2>4, <2>5, KeysKeep
\* Steps to and from those where nothing is asked of the producer.
<1>4. CASE Enqueue \/ GrowFails \/ Construct \/ Publish \/ Destroy
  <2>1. /\ UNCHANGED <<headers, entries>> /\ step \notin NewBlockSteps /\ step' \notin NewBlockSteps
        /\ step' \in InsertSteps => step' = "insert" /\ tailIndex' % BLOCK_SIZE = 0
    <3>1. CASE Enqueue
      BY <3>1 DEF Enqueue, ProducerGoes, InsertSteps, NewBlockSteps, indexes
    <3>2. CASE GrowFails \/ Construct \/ Publish \/ Destroy
      BY <3>2 DEF GrowFails, Construct, Publish, Destroy, ProducerGoes, InsertSteps, NewBlockSteps
    <3> QED BY <1>4, <3>1, <3>2
  <2>2. Inserted' = Inserted
    <3>1. CASE Enqueue
      BY <3>1 DEF Enqueue, ProducerGoes, Inserted, NewBlockSteps, indexes, Nr
    <3>2. CASE GrowFails
      <4>1. tailIndex % BLOCK_SIZE = 0
        BY <3>2 DEF GrowFails, ProducerGoes, KeysInv, ProducerReady, InsertSteps
      <4> QED BY <3>2, <4>1 DEF GrowFails, ProducerGoes, Inserted, NewBlockSteps, indexes, Nr
    <3>3. CASE Construct
      BY <3>3 DEF Construct, ProducerGoes, Inserted, NewBlockSteps, indexes, Nr
    <3>4. CASE Publish
      <4>1. Inserted = Nr(tailIndex) + 1 /\ tailIndex' = tailIndex + 1 /\ step' = "idle"
        BY <3>4 DEF Publish, ProducerGoes, Inserted, NewBlockSteps
      <4>2. tailIndex \in Nat
        BY InsertedIs
      <4>3. IF (tailIndex + 1) % BLOCK_SIZE = 0 THEN Nr(tailIndex + 1) = Nr(tailIndex) + 1
                                                 ELSE Nr(tailIndex + 1) = Nr(tailIndex)
        BY <4>2, NrNext
      <4>4. Inserted' = IF (tailIndex + 1) % BLOCK_SIZE # 0 THEN Nr(tailIndex + 1) + 1
                                                            ELSE Nr(tailIndex + 1)
        BY <4>1 DEF Inserted, NewBlockSteps, Nr
      <4> QED BY <4>1, <4>3, <4>4
    <3>5. CASE Destroy
      BY <3>5 DEF Destroy, ProducerGoes, Inserted, NewBlockSteps, indexes, Nr
    <3> QED BY <1>4, <3>1, <3>2, <3>3, <3>4, <3>5
  <2>3. ProducerReady'
    BY <2>1 DEF ProducerReady, InsertSteps, NewBlockSteps
  <2> QED BY <1>1, <2>1, <2>2, <2>3, KeysKeep
<1>5. CASE FindEntry
  BY <1>5, KeysFind
<1>6. CASE GrowIndex
  BY <1>6, KeysGrow
<1>7. CASE StoreKey
  BY <1>7, KeysStoreKey
<1>8. CASE StoreTail
  BY <1>8, KeysStoreTail
<1>9. CASE RequisitionFails
  BY <1>9, KeysRequisitionFails
<1>10. CASE StoreValue
  BY <1>10, KeysStoreValue
<1>11. ASSUME NEW c \in Consumers, Dequeue(c) PROVE KeysInv'
  <2>1. CASE ClearEntry(c)
    BY <2>1, KeysClear
  <2>2. CASE ~ClearEntry(c)
    <3>1. UNCHANGED <<headers, entries, tailIndex, step, mine>>
      BY <1>11, <2>2
      DEF Dequeue, LoadTail, LoadOvercommit, SeesItem, SeesNone, Commit, Recheck,
          GiveBack, Claim, LoadBlockIndex, LoadIndexTail, FindBlock, LoadBlock, Take,
          CountEmpty, Release, rest, producer, indexes
    <3> QED BY <1>2, <3>1
  <2> QED BY <2>1, <2>2
<1>12. CASE UNCHANGED vars
  BY <1>2, <1>12 DEF vars, indexes, producer
<1> QED BY <1>3, <1>4, <1>5, <1>6, <1>7, <1>8, <1>9, <1>10, <1>11, <1>12 DEF Next, Producer

LEMMA IndexAlways == Spec => [](Nested /\ KeysInv)
<1>1. Typed /\ Nested /\ KeysInv /\ [Next]_vars => (Nested /\ KeysInv)'
  BY NestedStep, KeysStep
<1>2. Init => Nested /\ KeysInv
  BY NestedInit, KeysInit
<1> QED BY <1>1, <1>2, TypedAlways, PTL DEF Spec

-------------------------------------------------------------------------------
(* What the index is for: one entry for each block, and the way to it *)

\* The blocks inserted that have their block.
Stored == IF step \in NewBlockSteps THEN Inserted - 1 ELSE Inserted

Index == Typed /\ Nested /\ KeysInv

LEMMA IndexHas ==
    ASSUME Index
    PROVE  /\ IndexTyped /\ Typed /\ Nested /\ AllIndexed /\ KeysInv
           /\ \E n \in Nat \ {0} : \E t \in 0 .. n - 1 : \E i \in Nat :
                 n = Size /\ t = blockIndex.tail /\ i = Inserted /\ Places(blockIndex) = 0 .. n - 1
                 /\ Entries = 1 .. n
<1>1. IndexTyped /\ Typed /\ Nested /\ AllIndexed /\ KeysInv
  BY DEF Index, Typed, Nested
<1>2. PICK n \in Nat \ {0} : n = Size /\ Places(blockIndex) = 0 .. n - 1
  BY <1>1, LastIs
<1>3. PICK t \in 0 .. n - 1 : t = blockIndex.tail
  BY <1>1, <1>2, LastIs
<1>4. PICK i \in Nat : i = Inserted
  BY <1>1, InsertedIs
<1>5. Entries = 1 .. n
  BY <1>1, <1>2 DEF AllIndexed, Entries
<1> QED BY <1>1, <1>2, <1>3, <1>4, <1>5

LEMMA StoredIs ==
    ASSUME Index
    PROVE  /\ Stored \in Nat /\ tailIndex \in Nat
           /\ Stored = IF tailIndex % BLOCK_SIZE # 0 \/ step \in {"construct", "publish"}
                       THEN Nr(tailIndex) + 1 ELSE Nr(tailIndex)
           /\ \A i \in Nat : i < tailIndex => Nr(i) < Stored
           /\ \A n \in Nat : n < Stored => BLOCK_SIZE * n <= tailIndex
<1>1. tailIndex \in Nat /\ Nr(tailIndex) \in Nat
  BY InsertedIs, NrIs DEF Index
<1>2. step \in NewBlockSteps => tailIndex % BLOCK_SIZE = 0
  BY DEF Index, KeysInv, ProducerReady, InsertSteps
<1>3. Stored = IF tailIndex % BLOCK_SIZE # 0 \/ step \in {"construct", "publish"}
               THEN Nr(tailIndex) + 1 ELSE Nr(tailIndex)
  BY <1>1, <1>2 DEF Stored, Inserted, NewBlockSteps
<1>4. PICK m \in Nat, r \in 0 .. BLOCK_SIZE - 1 :
         m = Nr(tailIndex) /\ r = tailIndex % BLOCK_SIZE /\ tailIndex = BLOCK_SIZE * m + r
  BY <1>1, NrIs
<1>5. ASSUME NEW i \in Nat, i < tailIndex PROVE Nr(i) < Stored
  <2>1. PICK n \in Nat, q \in 0 .. BLOCK_SIZE - 1 : n = Nr(i) /\ i = BLOCK_SIZE * n + q
    BY NrIs
  <2>2. n > m => BLOCK_SIZE * n >= BLOCK_SIZE * m + BLOCK_SIZE
    <3>1. n > m => BLOCK_SIZE * (n - m) >= BLOCK_SIZE
      BY SizeOfBlock
    <3>2. BLOCK_SIZE * (n - m) = BLOCK_SIZE * n - BLOCK_SIZE * m
      BY SizeOfBlock
    <3>3. BLOCK_SIZE * n \in Int /\ BLOCK_SIZE * m \in Int
      BY SizeOfBlock
    <3> QED BY <3>1, <3>2, <3>3, SizeOfBlock
  <2>3. BLOCK_SIZE * n \in Int /\ BLOCK_SIZE * m \in Int
    BY SizeOfBlock
  <2>4. n <= m
    BY <1>4, <1>5, <2>1, <2>2, <2>3, SizeOfBlock
  <2>5. r = 0 => n # m
    BY <1>4, <1>5, <2>1, <2>3
  <2> QED BY <1>3, <1>4, <2>1, <2>4, <2>5
<1>6. ASSUME NEW n \in Nat, n < Stored PROVE BLOCK_SIZE * n <= tailIndex
  <2>1. n <= m
    BY <1>3, <1>4, <1>6
  <2>2. BLOCK_SIZE * (m - n) >= 0 /\ BLOCK_SIZE * (m - n) = BLOCK_SIZE * m - BLOCK_SIZE * n
    BY <2>1, SizeOfBlock
  <2>3. BLOCK_SIZE * n \in Int /\ BLOCK_SIZE * m \in Int
    BY SizeOfBlock
  <2> QED BY <1>4, <2>2, <2>3
<1> QED BY <1>1, <1>3, <1>5, <1>6

\* An entry with a block, and where it is.
LEMMA StockPlace ==
    ASSUME Index, NEW e \in Entries, entries[e].value # Null
    PROVE  \E p \in Places(blockIndex) :
              /\ EntryIn(blockIndex, p) = e /\ Here(p) = entries[e] /\ Written(p)
              /\ entries[e].key = BLOCK_SIZE * Number(p) /\ Number(p) \in Nat /\ Number(p) < Stored
<1>1. PICK n \in Nat \ {0} : \E t \in 0 .. n - 1 : \E i \in Nat :
                 n = Size /\ t = blockIndex.tail /\ i = Inserted /\ Places(blockIndex) = 0 .. n - 1
  BY IndexHas
<1>2. PICK t \in 0 .. n - 1 : \E i \in Nat :
                 n = Size /\ t = blockIndex.tail /\ i = Inserted /\ Places(blockIndex) = 0 .. n - 1
  BY <1>1
<1>3. PICK i \in Nat :
                 n = Size /\ t = blockIndex.tail /\ i = Inserted /\ Places(blockIndex) = 0 .. n - 1
  BY <1>2
<1>4. PICK p \in 0 .. n - 1 : EntryIn(blockIndex, p) = e
  BY <1>3, IndexHas DEF AllIndexed
<1>5. Here(p) = entries[e]
  BY <1>4 DEF Here
<1>6. Written(p) /\ entries[e].key = BLOCK_SIZE * Number(p)
  BY <1>3, <1>5 DEF Index, KeysInv, Placed, Prestored
<1>7. (t - p) % n \in 0 .. n - 1 /\ ((t - p) % n = 0 => p = t)
  <2>1. (t - p) % n = IF p <= t THEN t - p ELSE t - p + n
    BY WrapMinus
  <2> QED BY <2>1
<1>8. Number(p) = i - 1 - ((t - p) % n)
  BY <1>3 DEF Number
<1>9. Number(p) \in Int /\ Number(p) < i /\ (p # t => Number(p) < i - 1)
  BY <1>7, <1>8
<1>10. Number(p) >= 0
  <2>1. entries[e].key \in Nat
    BY IndexHas, EntryIs DEF Entry
  <2>2. PICK x \in Int : x = Number(p)
    BY <1>9
  <2>3. x < 0 => BLOCK_SIZE * x < 0
    BY SizeOfBlock
  <2> QED BY <1>6, <2>1, <2>2, <2>3
<1>11. Number(p) < Stored
  <2>1. CASE step \in NewBlockSteps
    <3>1. Here(t).value = Null
      BY <1>3, <2>1 DEF Index, KeysInv, ProducerReady
    <3>2. p # t
      BY <1>5, <3>1
    <3> QED BY <1>3, <1>9, <2>1, <3>2 DEF Stored
  <2>2. CASE step \notin NewBlockSteps
    BY <1>3, <1>9, <2>2 DEF Stored
  <2> QED BY <2>1, <2>2
<1> QED BY <1>3, <1>4, <1>5, <1>6, <1>9, <1>10, <1>11

LEMMA StockNumber ==
    ASSUME Index, NEW e \in Entries, entries[e].value # Null
    PROVE  /\ Nr(entries[e].key) \in Nat /\ Nr(entries[e].key) < Stored
           /\ entries[e].key = BLOCK_SIZE * Nr(entries[e].key)
<1>1. PICK n \in Nat : n < Stored /\ entries[e].key = BLOCK_SIZE * n
  BY StockPlace
<1>2. BLOCK_SIZE * n + 0 = BLOCK_SIZE * n /\ 0 \in 0 .. BLOCK_SIZE - 1
  BY SizeOfBlock
<1>3. Nr(entries[e].key) = n
  BY <1>1, <1>2, NrOf
<1> QED BY <1>1, <1>3

LEMMA NumbersDiffer ==
    ASSUME NEW m \in Int, NEW n \in Int, BLOCK_SIZE * m = BLOCK_SIZE * n
    PROVE  m = n
<1>1. PICK x \in Int : x = m - n
  OBVIOUS
<1>2. BLOCK_SIZE * x = BLOCK_SIZE * m - BLOCK_SIZE * n /\ BLOCK_SIZE * m \in Int
  BY <1>1, SizeOfBlock
<1>3. x > 0 => BLOCK_SIZE * x > 0
  BY SizeOfBlock
<1>4. x < 0 => BLOCK_SIZE * x < 0
  BY SizeOfBlock
<1> QED BY <1>1, <1>2, <1>3, <1>4

\* One entry at most has the block of a number.
LEMMA StockOnce ==
    ASSUME Index, NEW d \in Entries, NEW e \in Entries, entries[d].value # Null,
           entries[e].value # Null, entries[d].key = entries[e].key
    PROVE  d = e
<1>1. PICK p \in Places(blockIndex) :
              EntryIn(blockIndex, p) = d /\ entries[d].key = BLOCK_SIZE * Number(p) /\ Number(p) \in Nat
  BY StockPlace
<1>2. PICK q \in Places(blockIndex) :
              EntryIn(blockIndex, q) = e /\ entries[e].key = BLOCK_SIZE * Number(q) /\ Number(q) \in Nat
  BY StockPlace
<1>3. Number(p) = Number(q)
  <2>1. PICK x \in Nat : x = Number(p)
    BY <1>1
  <2>2. PICK y \in Nat : y = Number(q)
    BY <1>2
  <2>3. BLOCK_SIZE * x = BLOCK_SIZE * y
    BY <1>1, <1>2, <2>1, <2>2
  <2>4. x = y
    BY <2>3, NumbersDiffer
  <2> QED BY <2>1, <2>2, <2>4
<1>4. PICK n \in Nat \ {0} : \E t \in 0 .. n - 1 : \E i \in Nat :
                 n = Size /\ t = blockIndex.tail /\ i = Inserted /\ Places(blockIndex) = 0 .. n - 1
  BY IndexHas
<1>5. PICK t \in 0 .. n - 1 : \E i \in Nat :
                 n = Size /\ t = blockIndex.tail /\ i = Inserted /\ Places(blockIndex) = 0 .. n - 1
  BY <1>4
<1>6. PICK i \in Nat :
                 n = Size /\ t = blockIndex.tail /\ i = Inserted /\ Places(blockIndex) = 0 .. n - 1
  BY <1>5
<1>7. \A x \in 0 .. n - 1 : (t - x) % n = IF x <= t THEN t - x ELSE t - x + n
  BY WrapMinus
<1>8. \A x \in 0 .. n - 1 : Number(x) = i - 1 - ((t - x) % n)
  BY <1>6 DEF Number
<1>9. p = q
  <2>1. p \in 0 .. n - 1 /\ q \in 0 .. n - 1
    BY <1>6
  <2>2. (t - p) % n \in 0 .. n - 1 /\ (t - q) % n \in 0 .. n - 1
    <3>1. t - p \in Int /\ t - q \in Int
      BY <2>1
    <3> QED BY <3>1, DivMod
  <2>3. i - 1 - ((t - p) % n) = i - 1 - ((t - q) % n)
    BY <1>3, <1>8, <2>1
  <2>4. (t - p) % n = (t - q) % n
    BY <2>2, <2>3
  <2>5. (t - p) % n = IF p <= t THEN t - p ELSE t - p + n
    BY <1>7, <2>1
  <2>6. (t - q) % n = IF q <= t THEN t - q ELSE t - q + n
    BY <1>7, <2>1
  <2> QED BY <2>1, <2>4, <2>5, <2>6
<1> QED BY <1>1, <1>2, <1>9

-------------------------------------------------------------------------------
(* The way from a key to the entry of another *)

LEMMA SameModIs ==
    ASSUME NEW n \in Nat \ {0}, NEW a \in Int, NEW b \in Int, a % n = b % n
    PROVE  \E z \in Int : a - b = n * z
BY SameMod

LEMMA SameModIf ==
    ASSUME NEW n \in Nat \ {0}, NEW a \in Int, NEW b \in Int, NEW z \in Int, a - b = n * z
    PROVE  a % n = b % n
BY SameMod

LEMMA DivBlocks ==
    ASSUME NEW m \in Int, NEW n \in Int
    PROVE  (BLOCK_SIZE * n - BLOCK_SIZE * m) \div BLOCK_SIZE = n - m
<1>1. n - m \in Int /\ 0 \in 0 .. BLOCK_SIZE - 1
  BY SizeOfBlock
<1>2. (BLOCK_SIZE * (n - m) + 0) \div BLOCK_SIZE = n - m
  BY <1>1, SizeOfBlock, ModIs
<1>3. BLOCK_SIZE * (n - m) + 0 = BLOCK_SIZE * n - BLOCK_SIZE * m
  BY SizeOfBlock
<1> QED BY <1>2, <1>3

\* The number of an entry goes with its position.
LEMMA KeyPlace ==
    ASSUME Index, NEW p \in Places(blockIndex), Written(p)
    PROVE  \E m \in Int : Here(p).key = BLOCK_SIZE * m
                          /\ \E x \in Int : x = Inserted - 1 - blockIndex.tail /\ (m - p) % Size = x % Size
<1>1. PICK n \in Nat \ {0} : \E t \in 0 .. n - 1 : \E i \in Nat :
                 n = Size /\ t = blockIndex.tail /\ i = Inserted /\ Places(blockIndex) = 0 .. n - 1
  BY IndexHas
<1>2. PICK t \in 0 .. n - 1 : \E i \in Nat :
                 n = Size /\ t = blockIndex.tail /\ i = Inserted /\ Places(blockIndex) = 0 .. n - 1
  BY <1>1
<1>3. PICK i \in Nat :
                 n = Size /\ t = blockIndex.tail /\ i = Inserted /\ Places(blockIndex) = 0 .. n - 1
  BY <1>2
<1>4. PICK x \in Int : x = i - 1 - t
  OBVIOUS
<1>5. p \in 0 .. n - 1
  BY <1>3
<1>6. (t - p) % n = IF p <= t THEN t - p ELSE t - p + n
  BY <1>5, WrapMinus
<1>7. CASE Here(p).key = BLOCK_SIZE * Number(p)
  <2>1. PICK m \in Int : m = i - 1 - ((t - p) % n)
    BY <1>5, <1>6
  <2>2. Number(p) = m
    BY <1>3, <2>1 DEF Number
  <2>3. (m - p) - x = IF p <= t THEN 0 ELSE -n
    BY <1>4, <1>5, <1>6, <2>1
  <2>4. \E z \in Int : (m - p) - x = n * z
    <3>1. n * 0 = 0 /\ n * (-1) = -n
      OBVIOUS
    <3> QED BY <2>3, <3>1
  <2>5. m - p \in Int
    BY <1>5
  <2>6. (m - p) % n = x % n
    BY <2>4, <2>5, SameMod
  <2> QED BY <1>3, <1>4, <1>7, <2>2, <2>6
<1>8. CASE Prestored(p)
  <2>1. Here(p).key = BLOCK_SIZE * i
    BY <1>3, <1>8 DEF Prestored
  <2>2. p = IF t = n - 1 THEN 0 ELSE t + 1
    BY <1>3, <1>8, NextPlaceIs, IndexHas DEF Prestored
  <2>3. (i - p) - x = IF t = n - 1 THEN n ELSE 0
    BY <1>4, <2>2
  <2>4. \E z \in Int : (i - p) - x = n * z
    <3>1. n * 0 = 0 /\ n * 1 = n
      OBVIOUS
    <3> QED BY <2>3, <3>1
  <2>5. i - p \in Int
    BY <1>5
  <2>6. (i - p) % n = x % n
    BY <2>4, <2>5, SameMod
  <2> QED BY <1>3, <1>4, <2>1, <2>6
<1> QED BY <1>7, <1>8 DEF Index, KeysInv, Placed

\* From an entry to that of another number: FindBlock, and EntryOf.
LEMMA Lookup ==
    ASSUME Index, NEW k \in 1 .. Len(headers), NEW a \in Nat,
           entries[EntryAt(headers[k], a)].key # INVALID_BLOCK_BASE,
           NEW p \in Places(headers[k]), NEW n \in Nat,
           entries[EntryIn(headers[k], p)].key = BLOCK_SIZE * n
    PROVE  EntryAt(headers[k], a + Capacity(headers[k])
                        + ((BLOCK_SIZE * n - entries[EntryAt(headers[k], a)].key) \div BLOCK_SIZE))
             = EntryIn(headers[k], p)
<1>1. PICK h : h = headers[k]
  OBVIOUS
<1>2. PICK c \in Nat \ {0} : c = Capacity(h) /\ Places(h) = 0 .. c - 1
  BY <1>1, HeaderIs, IndexHas DEF Places
<1>3. PartOfLast(h)
  BY <1>1, IndexHas DEF Nested
<1>4. PICK d \in Nat \ {0} : Size = c * d
  BY <1>2, <1>3 DEF PartOfLast
<1>5. PICK s \in Int : Moved(h, s)
  BY <1>3 DEF PartOfLast
<1>6. PICK at \in 0 .. c - 1 : at = a % c
  BY DivMod
<1>7. EntryAt(h, a) = EntryIn(h, at)
  BY <1>2, <1>6 DEF EntryAt, EntryIn
<1>8. PICK q \in Places(blockIndex) : EntryIn(blockIndex, q) = EntryIn(h, at) /\ q % c = (at + s) % c
  BY <1>2, <1>5, <1>6 DEF Moved
<1>9. PICK to \in Places(blockIndex) : EntryIn(blockIndex, to) = EntryIn(h, p) /\ to % c = (p + s) % c
  BY <1>1, <1>2, <1>5 DEF Moved
<1>10. q \in Int /\ to \in Int /\ p \in Int /\ at \in Int
  BY <1>1, <1>2, IndexHas
<1>11. Written(q)
  BY <1>1, <1>7, <1>8 DEF Written, Here
<1>12. Written(to)
  BY <1>1, <1>9, MultipleIsValid DEF Written, Here
<1>13. PICK m \in Int : Here(q).key = BLOCK_SIZE * m
                 /\ \E x \in Int : x = Inserted - 1 - blockIndex.tail /\ (m - q) % Size = x % Size
  BY <1>11, KeyPlace
<1>14. PICK l \in Int : Here(to).key = BLOCK_SIZE * l
                 /\ \E x \in Int : x = Inserted - 1 - blockIndex.tail /\ (l - to) % Size = x % Size
  BY <1>12, KeyPlace
<1>15. l = n
  <2>1. BLOCK_SIZE * l = BLOCK_SIZE * n
    BY <1>1, <1>9, <1>14 DEF Here
  <2> QED BY <2>1, NumbersDiffer
<1>16. (m - q) % (c * d) = (l - to) % (c * d)
  BY <1>4, <1>13, <1>14
<1>17. (n - to) % c = (m - q) % c
  <2>1. m - q \in Int /\ n - to \in Int
    BY <1>10
  <2> QED BY <1>15, <1>16, <2>1, ModFactors
<1>18. (n - m) % c = (to - q) % c
  <2>1. n - to \in Int /\ m - q \in Int /\ to - m \in Int
    BY <1>10
  <2>2. ((n - to) + (to - m)) % c = ((m - q) + (to - m)) % c
    BY <1>17, <2>1, ModShift
  <2>3. (n - to) + (to - m) = n - m /\ (m - q) + (to - m) = to - q
    BY <1>10
  <2> QED BY <2>2, <2>3
<1>19. at % c = a % c
  <2>1. (a % c) % c = a % c
    <3>1. a \in Int
      OBVIOUS
    <3>2. \A x \in Int : (x % c) % c = x % c
      BY ModTwice
    <3> QED BY <3>1, <3>2
  <2> QED BY <1>6, <2>1
<1>20. (a + c + (n - m)) % c = p % c
  <2>1. q % c = (at + s) % c /\ to % c = (p + s) % c
    BY <1>8, <1>9
  <2>2. n \in Int /\ a \in Int /\ at + s \in Int /\ p + s \in Int /\ n - m \in Int /\ to - q \in Int
    BY <1>10
  <2>3. PICK w \in Int : at - a = c * w
    BY <1>10, <1>19, <2>2, SameModIs
  <2>4. PICK x \in Int : q - (at + s) = c * x
    BY <1>10, <2>1, <2>2, SameModIs
  <2>5. PICK y \in Int : to - (p + s) = c * y
    BY <1>10, <2>1, <2>2, SameModIs
  <2>6. PICK z \in Int : (n - m) - (to - q) = c * z
    BY <1>18, <2>2, SameModIs
  <2>7. PICK v \in Int : v = z + y - x - w + 1
    OBVIOUS
  <2>8. c * v = c * z + c * y - c * x - c * w + c
    BY <2>7
  <2>9. c * w \in Int /\ c * x \in Int /\ c * y \in Int /\ c * z \in Int
    OBVIOUS
  <2>10. PICK b \in Int : b = a + c + (n - m)
    BY <2>2
  <2>11. b - p = c * v
    BY <1>10, <2>2, <2>3, <2>4, <2>5, <2>6, <2>8, <2>9, <2>10
  <2>12. b % c = p % c
    BY <1>10, <2>7, <2>10, <2>11, SameModIf
  <2> QED BY <2>10, <2>12
<1>21. p % c = p
  <2>1. c * 0 + p = p /\ p \in 0 .. c - 1
    BY <1>1, <1>2
  <2>2. \A x \in Int : \A r \in 0 .. c - 1 : (c * x + r) % c = r
    BY ModIs
  <2>3. (c * 0 + p) % c = p
    BY <2>1, <2>2
  <2> QED BY <2>1, <2>3
<1>22. (BLOCK_SIZE * n - entries[EntryAt(h, a)].key) \div BLOCK_SIZE = n - m
  <2>1. entries[EntryAt(h, a)].key = BLOCK_SIZE * m
    BY <1>7, <1>8, <1>13 DEF Here
  <2> QED BY <2>1, DivBlocks
<1> QED BY <1>1, <1>2, <1>20, <1>21, <1>22 DEF EntryAt, EntryIn

-------------------------------------------------------------------------------
(* What a step does to the blocks in the index *)

IndexGrowsOnly ==
    /\ Entries \subseteq Entries'
    /\ \A k \in 1 .. Len(headers) : k \in 1 .. Len(headers') /\ headers'[k].index = headers[k].index
    /\ \A e \in Entries : entries[e].key # INVALID_BLOCK_BASE => entries'[e].key # INVALID_BLOCK_BASE
StockSame ==
    /\ \A e \in Entries : entries[e].value # Null => entries'[e] = entries[e]
    /\ \A e \in Entries' : entries'[e].value # Null => e \in Entries /\ entries[e].value # Null
    /\ Stored' = Stored

LEMMA StoredStays ==
    ASSUME Index, [Next]_vars, ~StoreValue
    PROVE  Stored' = Stored
<1>1. PICK i \in Nat : i = Nr(tailIndex) /\ tailIndex \in Nat
  BY InsertedIs, NrIs DEF Index
<1>2. Stored = IF tailIndex % BLOCK_SIZE # 0 \/ step \in {"construct", "publish"} THEN i + 1 ELSE i
  BY <1>1, StoredIs
<1>3. step \in InsertSteps => tailIndex % BLOCK_SIZE = 0
  BY DEF Index, KeysInv, ProducerReady
<1>4. tailIndex' = tailIndex =>
        Stored' = IF step' \in NewBlockSteps THEN i
                  ELSE IF tailIndex % BLOCK_SIZE # 0 \/ step' \in {"construct", "publish"} THEN i + 1 ELSE i
  BY <1>1 DEF Stored, Inserted, NewBlockSteps, Nr
<1>5. CASE Publish
  <2>1. step = "publish" /\ step' = "idle" /\ tailIndex' = tailIndex + 1
    BY <1>5 DEF Publish, ProducerGoes
  <2>2. Nr(tailIndex + 1) = IF (tailIndex + 1) % BLOCK_SIZE = 0 THEN i + 1 ELSE i
    BY <1>1, NrNext
  <2>3. Stored' = i + 1
    BY <1>1, <2>1, <2>2 DEF Stored, Inserted, NewBlockSteps, Nr
  <2> QED BY <1>2, <2>1, <2>3
<1>6. CASE ~Publish
  <2>1. tailIndex' = tailIndex
    BY <1>6
    DEF Next, vars, indexes, Producer, Dequeue, Enqueue, FindEntry, GrowIndex,
        GrowFails, StoreKey, StoreTail, FromInitialPool, FromFreeList, FromMalloc,
        Obtain, RequisitionFails, StoreValue, Construct, LoadTail, LoadOvercommit,
        SeesItem, SeesNone, Commit, Recheck, GiveBack, Claim, LoadBlockIndex,
        LoadIndexTail, FindBlock, LoadBlock, Take, CountEmpty, ClearEntry, Release,
        Destroy, rest
  <2>2. \/ step' = step
        \/ step = "idle" /\ step' = IF tailIndex % BLOCK_SIZE = 0 THEN "insert" ELSE "construct"
        \/ step \in InsertSteps /\ step' \in InsertSteps \cup {"idle"}
        \/ step = "construct" /\ step' = "publish"
        \/ step = "idle" /\ step' = "destroyed"
    <3>1. CASE Producer \/ Destroy \/ UNCHANGED vars
      BY <1>6, <3>1
      DEF Producer, Enqueue, FindEntry, GrowIndex, GrowFails, StoreKey, StoreTail,
          FromInitialPool, FromFreeList, FromMalloc, Obtain, RequisitionFails,
          StoreValue, Construct, Destroy, ProducerGoes, InsertSteps, NewBlockSteps,
          vars, producer
    <3>2. ASSUME NEW c \in Consumers, Dequeue(c) PROVE step' = step
      BY <3>2
      DEF Dequeue, LoadTail, LoadOvercommit, SeesItem, SeesNone, Commit, Recheck,
          GiveBack, Claim, LoadBlockIndex, LoadIndexTail, FindBlock, LoadBlock, Take,
          CountEmpty, ClearEntry, Release, rest, producer
    <3> QED BY <3>1, <3>2 DEF Next
  <2> QED BY <1>2, <1>3, <1>4, <2>1, <2>2 DEF InsertSteps, NewBlockSteps
<1> QED BY <1>5, <1>6

\* One entry is written, with the key of a block if it had one.
LEMMA OneWritten ==
    ASSUME Index, NEW e \in Entries, NEW x \in Entry, entries' = [entries EXCEPT ![e] = x],
           entries[e].key # INVALID_BLOCK_BASE => x.key # INVALID_BLOCK_BASE
    PROVE  /\ Entries' = Entries /\ Entries \subseteq Entries'
           /\ \A d \in Entries : entries[d].key # INVALID_BLOCK_BASE => entries'[d].key # INVALID_BLOCK_BASE
           /\ entries'[e] = x /\ \A d \in Entries : d # e => entries'[d] = entries[d]
           /\ entries[e].value = Null /\ x.value = Null =>
                 /\ \A d \in Entries : entries[d].value # Null => entries'[d] = entries[d]
                 /\ \A d \in Entries' : entries'[d].value # Null => d \in Entries /\ entries[d].value # Null
<1>1. entries'[e] = x /\ Len(entries') = Len(entries)
      /\ \A d \in Entries : d # e => entries'[d] = entries[d]
  BY IndexHas, EntrySet
<1>2. Entries' = Entries
  BY <1>1 DEF Entries
<1> QED BY <1>1, <1>2

\* The entry the producer writes.
LEMMA MineIs ==
    ASSUME Index, step \in {"key", "tail"} \cup NewBlockSteps
    PROVE  /\ mine.entry \in Entries /\ entries[mine.entry].value = Null
           /\ step \in NewBlockSteps => entries[mine.entry].key = tailIndex
<1>1. mine.entry \in Entries
  BY DEF Index, Typed, ProducerTyped, NewBlockSteps
<1>2. step \in {"key", "tail"} => entries[mine.entry].value = Null
  BY DEF Index, KeysInv, ProducerReady, Here
<1>3. step \in NewBlockSteps => entries[mine.entry].value = Null /\ entries[mine.entry].key = tailIndex
  BY DEF Index, KeysInv, ProducerReady, Here
<1> QED BY <1>1, <1>2, <1>3

LEMMA EntriesStep ==
    ASSUME Index, [Next]_vars
    PROVE  /\ Entries \subseteq Entries'
           /\ \A e \in Entries : entries[e].key # INVALID_BLOCK_BASE => entries'[e].key # INVALID_BLOCK_BASE
           /\ ~StoreValue /\ (\A c \in Consumers : ~ClearEntry(c)) =>
                 /\ \A d \in Entries : entries[d].value # Null => entries'[d] = entries[d]
                 /\ \A d \in Entries' : entries'[d].value # Null => d \in Entries /\ entries[d].value # Null
<1>1. CASE entries' = entries
  BY <1>1 DEF Entries
<1>2. CASE GrowIndex
  <2>1. PICK n \in Nat \ {0} : \E t \in 0 .. n - 1 : \E h : Growth(n, t, h)
    BY <1>2, GrownIs, IndexHas
  <2>2. /\ n = Len(entries) /\ Len(entries') = n + n
        /\ \A e \in Entries : entries'[e] = entries[e]
        /\ \A e \in n + 1 .. n + n : entries'[e] = [key |-> INVALID_BLOCK_BASE, value |-> Null]
    BY <2>1, IndexHas DEF Growth, AllIndexed
  <2>3. Entries = 1 .. n /\ Entries' = 1 .. n + n
    BY <2>2 DEF Entries
  <2>4. \A e \in Entries' : e \in Entries \/ entries'[e].value = Null
    BY <2>2, <2>3
  <2> QED BY <2>2, <2>3, <2>4
<1>3. CASE StoreKey
  <2>1. PICK e \in Entries : e = mine.entry /\ entries[e].value = Null
    BY <1>3, MineIs DEF StoreKey, ProducerGoes
  <2>2. tailIndex \in Nat /\ tailIndex # INVALID_BLOCK_BASE
    <3>1. step = "key" /\ tailIndex % BLOCK_SIZE = 0
      BY <1>3 DEF StoreKey, ProducerGoes, Index, KeysInv, ProducerReady, InsertSteps
    <3> QED BY <3>1, InsertedIs, MultipleIsValid DEF Index
  <2>3. PICK x \in Entry : x = [entries[e] EXCEPT !.key = tailIndex]
    BY <2>2, IndexHas, EntryIs
  <2>4. x.key = tailIndex /\ x.value = Null
    BY <2>1, <2>3, IndexHas, EntryIs DEF Entry
  <2>5. entries' = [entries EXCEPT ![e] = x]
    BY <1>3, <2>1, <2>3 DEF StoreKey
  <2> QED BY <2>1, <2>2, <2>4, <2>5, OneWritten
<1>4. CASE RequisitionFails
  <2>1. PICK e \in Entries : e = mine.entry /\ entries[e].value = Null
    BY <1>4, MineIs DEF RequisitionFails, ProducerGoes, NewBlockSteps
  <2>2. PICK x \in Entry : x = [entries[e] EXCEPT !.value = Null]
    BY IndexHas, EntryIs
  <2>3. x.key = entries[e].key /\ x.value = Null
    BY <2>2, IndexHas, EntryIs DEF Entry
  <2>4. entries' = [entries EXCEPT ![e] = x]
    BY <1>4, <2>1, <2>2 DEF RequisitionFails
  <2> QED BY <2>1, <2>3, <2>4, OneWritten
<1>5. CASE StoreValue
  <2>1. PICK e \in Entries : e = mine.entry
    BY <1>5, MineIs DEF StoreValue, ProducerGoes, NewBlockSteps
  <2>2. PICK x \in Entry : x = [entries[e] EXCEPT !.value = mine.block]
    <3>1. mine.block \in Blocks \cup {Null}
      BY DEF Index, Typed, ProducerTyped
    <3> QED BY <3>1, IndexHas, EntryIs
  <2>3. x.key = entries[e].key
    BY <2>2, IndexHas, EntryIs DEF Entry
  <2>4. entries' = [entries EXCEPT ![e] = x]
    BY <1>5, <2>1, <2>2 DEF StoreValue
  <2> QED BY <1>5, <2>3, <2>4, OneWritten
<1>6. ASSUME NEW c \in Consumers, ClearEntry(c) PROVE 
           /\ Entries \subseteq Entries'
           /\ \A e \in Entries : entries[e].key # INVALID_BLOCK_BASE => entries'[e].key # INVALID_BLOCK_BASE
  <2>1. PICK e \in Entries : e = local[c].entry
    BY <1>6 DEF ClearEntry, Goes, Index, Typed, ConsumersTyped
  <2>2. PICK x \in Entry : x = [entries[e] EXCEPT !.value = Null]
    BY IndexHas, EntryIs
  <2>3. x.key = entries[e].key
    BY <2>2, IndexHas, EntryIs DEF Entry
  <2>4. entries' = [entries EXCEPT ![e] = x]
    BY <1>6, <2>1, <2>2 DEF ClearEntry
  <2> QED BY <2>3, <2>4, OneWritten
<1>7. entries' = entries \/ GrowIndex \/ StoreKey \/ RequisitionFails \/ StoreValue
      \/ \E c \in Consumers : ClearEntry(c)
  BY DEF Next, vars, Producer, Dequeue, Enqueue, FindEntry, GrowFails, StoreTail,
         FromInitialPool, FromFreeList, FromMalloc, Obtain, Construct, Publish, Destroy,
         LoadTail, LoadOvercommit, SeesItem, SeesNone, Commit, Recheck, GiveBack, Claim,
         LoadBlockIndex, LoadIndexTail, FindBlock, LoadBlock, Take, CountEmpty, Release,
         rest
<1> QED BY <1>1, <1>2, <1>3, <1>4, <1>5, <1>6, <1>7

LEMMA HeadersStep ==
    ASSUME Index, [Next]_vars
    PROVE  \A k \in 1 .. Len(headers) : k \in 1 .. Len(headers') /\ headers'[k].index = headers[k].index
<1>1. CASE headers' = headers
  BY <1>1
<1>2. CASE GrowIndex
  <2>1. PICK n \in Nat \ {0} : \E t \in 0 .. n - 1 : \E h : Growth(n, t, h)
    BY <1>2, GrownIs, IndexHas
  <2>2. Len(headers') = Len(headers) + 1 /\ \A k \in 1 .. Len(headers) : headers'[k] = headers[k]
    BY <2>1 DEF Growth
  <2> QED BY <2>2, IndexHas DEF IndexTyped
<1>3. ASSUME NEW t, SetTail(t)
      PROVE  \A k \in 1 .. Len(headers) : k \in 1 .. Len(headers') /\ headers'[k].index = headers[k].index
  BY <1>3, SetTailIs, IndexHas
<1>4. headers' = headers \/ GrowIndex \/ \E t : SetTail(t)
  BY DEF Next, vars, Producer, Dequeue, Enqueue, FindEntry, GrowFails, StoreTail,
         StoreKey, StoreValue, FromInitialPool, FromFreeList, FromMalloc, Obtain,
         Construct, Publish, Destroy, RequisitionFails, LoadTail, LoadOvercommit,
         SeesItem, SeesNone, Commit, Recheck, GiveBack, Claim, ClearEntry,
         LoadBlockIndex, LoadIndexTail, FindBlock, LoadBlock, Take, CountEmpty, Release,
         rest
<1> QED BY <1>1, <1>2, <1>3, <1>4

LEMMA IndexGrowsOnlyStep ==
    ASSUME Index, [Next]_vars
    PROVE  /\ IndexGrowsOnly
           /\ ~StoreValue /\ (\A c \in Consumers : ~ClearEntry(c)) => StockSame
BY EntriesStep, HeadersStep, StoredStays DEF IndexGrowsOnly, StockSame

LEMMA StoreValueDoes ==
    ASSUME Index, StoreValue
    PROVE  \E e \in Entries : \E i \in Nat :
              /\ e = mine.entry /\ entries[e].value = Null /\ i = Stored /\ tailIndex = BLOCK_SIZE * i
              /\ Stored' = i + 1 /\ Entries' = Entries
              /\ entries'[e] = [key |-> BLOCK_SIZE * i, value |-> mine.block]
              /\ \A d \in Entries : d # e => entries'[d] = entries[d]
<1>1. step = "value" /\ step' = "construct" /\ tailIndex' = tailIndex
  BY DEF StoreValue, ProducerGoes, indexes
<1>2. PICK e \in Entries : e = mine.entry /\ entries[e].value = Null /\ entries[e].key = tailIndex
  BY <1>1, MineIs DEF NewBlockSteps
<1>3. PICK j \in Nat : j = Inserted /\ j = Nr(tailIndex) + 1 /\ tailIndex = BLOCK_SIZE * (j - 1)
  <2>1. tailIndex % BLOCK_SIZE = 0
    BY <1>1 DEF Index, KeysInv, ProducerReady, InsertSteps, NewBlockSteps
  <2> QED BY <1>1, <2>1, InsertedIs DEF NewBlockSteps, Index
<1>4. PICK i \in Nat : i = j - 1
  BY <1>3, InsertedIs, NrIs DEF Index
<1>5. Stored = i /\ Stored' = i + 1
  <2>1. i + 1 = j
    BY <1>4
  <2>2. Stored' = Nr(tailIndex) + 1
    BY <1>1 DEF Stored, Inserted, NewBlockSteps, Nr
  <2>3. Stored = Inserted - 1
    BY <1>1 DEF Stored, NewBlockSteps
  <2> QED BY <1>3, <1>4, <2>1, <2>2, <2>3
<1>6. PICK x \in Entry : x = [entries[e] EXCEPT !.value = mine.block]
  <2>1. mine.block \in Blocks \cup {Null}
    BY DEF Index, Typed, ProducerTyped
  <2> QED BY <2>1, IndexHas, EntryIs
<1>7. x = [key |-> tailIndex, value |-> mine.block]
  BY <1>2, <1>6, IndexHas, EntryIs DEF Entry
<1>8. entries' = [entries EXCEPT ![e] = x]
  BY <1>2, <1>6 DEF StoreValue
<1>9. entries'[e] = x /\ Len(entries') = Len(entries) /\ \A d \in Entries : d # e => entries'[d] = entries[d]
  BY <1>8, IndexHas, EntrySet
<1>10. tailIndex = BLOCK_SIZE * i
  BY <1>3, <1>4
<1> QED BY <1>2, <1>5, <1>7, <1>9, <1>10 DEF Entries

LEMMA ClearEntryDoes ==
    ASSUME Index, NEW c \in Consumers, ClearEntry(c)
    PROVE  \E e \in Entries :
              /\ e = local[c].entry /\ Stored' = Stored /\ Entries' = Entries
              /\ entries'[e].value = Null
              /\ \A d \in Entries : d # e => entries'[d] = entries[d]
<1>1. PICK e \in Entries : e = local[c].entry
  BY DEF ClearEntry, Goes, Index, Typed, ConsumersTyped
<1>2. PICK x \in Entry : x = [entries[e] EXCEPT !.value = Null]
  BY IndexHas, EntryIs
<1>3. x.value = Null
  BY <1>2, IndexHas, EntryIs DEF Entry
<1>4. entries' = [entries EXCEPT ![e] = x]
  BY <1>1, <1>2 DEF ClearEntry
<1>5. entries'[e] = x /\ Len(entries') = Len(entries) /\ \A d \in Entries : d # e => entries'[d] = entries[d]
  BY <1>4, IndexHas, EntrySet
<1>6. UNCHANGED <<tailIndex, step>>
  BY DEF ClearEntry, indexes, producer
<1>7. Stored' = Stored
  BY <1>6 DEF Stored, Inserted, Nr
<1> QED BY <1>1, <1>3, <1>5, <1>7 DEF Entries

-------------------------------------------------------------------------------
(* Who has claimed what *)

Seeking == {"header", "indexTail", "entry"}
Untaken == Seeking \cup {"block", "take"}
Holding == Untaken \cup {"count"}
Held(c) == local[c].index
Holders(n) == {c \in Consumers : pc[c] \in Holding /\ Nr(Held(c)) = n}

\* Every claim is of another item.
HeldOnce ==
    \A c \in Consumers : pc[c] \in Holding =>
        Held(c) < headIndex /\ \A d \in Consumers \ {c} : pc[d] \in Holding => Held(d) # Held(c)

LEMMA OthersWait ==
    ASSUME Typed, NEW c \in Consumers, Dequeue(c)
    PROVE  /\ UNCHANGED <<headers, unused, producer, tailIndex>>
           /\ \A d \in Consumers : d # c => pc'[d] = pc[d] /\ local'[d] = local[d]
<1>1. UNCHANGED <<headers, unused, producer, tailIndex>>
  BY DEF Dequeue, LoadTail, LoadOvercommit, SeesItem, SeesNone, Commit, Recheck,
         GiveBack, Claim, LoadBlockIndex, LoadIndexTail, FindBlock, LoadBlock, Take,
         CountEmpty, ClearEntry, Release, rest, pool, indexes, FreeBlocks
<1>2. ASSUME NEW d \in Consumers, d # c PROVE pc'[d] = pc[d] /\ local'[d] = local[d]
  BY <1>2
  DEF Dequeue, LoadTail, LoadOvercommit, SeesItem, SeesNone, Commit, Recheck, GiveBack,
      Claim, LoadBlockIndex, LoadIndexTail, FindBlock, LoadBlock, Take, CountEmpty,
      ClearEntry, Release, Goes, Sets, Forgets, Typed, ConsumersTyped
<1> QED BY <1>1, <1>2

LEMMA ProducerWaits ==
    ASSUME Producer \/ Destroy \/ UNCHANGED vars
    PROVE  UNCHANGED <<pc, local, got, headIndex>>
BY DEF Producer, Enqueue, FindEntry, GrowIndex, GrowFails, StoreKey, StoreTail,
       FromInitialPool, FromFreeList, FromMalloc, Obtain, RequisitionFails, StoreValue,
       Construct, Publish, Destroy, vars, consumers, indexes

\* What a consumer's step does with the claim.
LEMMA HolderStep ==
    ASSUME Typed, NEW c \in Consumers, Dequeue(c), ~Claim(c)
    PROVE  /\ headIndex' = headIndex
           /\ pc'[c] \in Holding => pc[c] \in Holding /\ Held(c)' = Held(c)
           /\ pc[c] \in Holding /\ ~CountEmpty(c) => pc'[c] \in Holding
<1>1. pc \in [Consumers -> ConsumerSteps] /\ local \in [Consumers -> Locals]
  BY DEF Typed, ConsumersTyped
<1>2. headIndex' = headIndex
  BY DEF Dequeue, LoadTail, LoadOvercommit, SeesItem, SeesNone, Commit, Recheck,
         GiveBack, Claim, LoadBlockIndex, LoadIndexTail, FindBlock, LoadBlock, Take,
         CountEmpty, ClearEntry, Release, indexes
<1>3. CASE LoadTail(c) \/ LoadOvercommit(c) \/ SeesItem(c) \/ SeesNone(c) \/ Commit(c) \/ Recheck(c)
           \/ GiveBack(c) \/ ClearEntry(c) \/ Release(c)
  BY <1>1, <1>2, <1>3 DEF LoadTail, LoadOvercommit, SeesItem, SeesNone, Commit, Recheck, GiveBack,
         ClearEntry, Release, Goes, Holding, Untaken, Seeking
<1>4. CASE LoadBlockIndex(c) \/ LoadIndexTail(c) \/ FindBlock(c) \/ LoadBlock(c)
  <2>1. \A f \in {"header", "at", "entry", "block"} : \A v :
           local' = [local EXCEPT ![c][f] = v] => Held(c)' = Held(c)
    BY <1>1 DEF Held, Locals
  <2>2. Held(c)' = Held(c)
    BY <1>4, <2>1 DEF LoadBlockIndex, LoadIndexTail, FindBlock, LoadBlock, Sets
  <2> QED BY <1>1, <1>2, <1>4, <2>2
          DEF LoadBlockIndex, LoadIndexTail, FindBlock, LoadBlock, Goes, Holding,
              Untaken, Seeking
<1>5. CASE Take(c)
  BY <1>1, <1>2, <1>5 DEF Take, Goes, Holding, Untaken, Held
<1>6. CASE CountEmpty(c)
  BY <1>1, <1>2, <1>6 DEF CountEmpty, Goes, Holding, Untaken, Seeking, Held
<1> QED BY <1>3, <1>4, <1>5, <1>6 DEF Dequeue

LEMMA ClaimIs ==
    ASSUME Typed, NEW c \in Consumers, Claim(c)
    PROVE  /\ pc[c] = "claim" /\ pc'[c] = "header" /\ pc[c] \notin Holding /\ pc'[c] \in Holding
           /\ headIndex' = headIndex + 1 /\ Held(c)' = headIndex /\ headIndex \in Nat
BY DEF Claim, Goes, Sets, Typed, ConsumersTyped, CountersTyped, Locals, Holding,
       Untaken, Seeking, Held

LEMMA HeldOnceStep == Typed /\ HeldOnce /\ [Next]_vars => HeldOnce'
<1> SUFFICES ASSUME Typed, HeldOnce, [Next]_vars PROVE HeldOnce'
  OBVIOUS
<1>1. CASE Producer \/ Destroy \/ UNCHANGED vars
  BY <1>1, ProducerWaits DEF HeldOnce, Held
<1>2. ASSUME NEW c \in Consumers, Dequeue(c) PROVE HeldOnce'
  <2>1. \A d \in Consumers : d # c => pc'[d] = pc[d] /\ Held(d)' = Held(d)
    BY <1>2, OthersWait DEF Held
  <2>2. \A d \in Consumers : local[d].index \in Nat
    BY DEF Typed, ConsumersTyped, Locals
  <2>3. CASE Claim(c)
    BY <2>1, <2>2, <2>3, ClaimIs DEF HeldOnce, Held
  <2>4. CASE ~Claim(c)
    BY <1>2, <2>1, <2>4, HolderStep DEF HeldOnce
  <2> QED BY <2>3, <2>4
<1> QED BY <1>1, <1>2 DEF Next

-------------------------------------------------------------------------------
(* The blocks of the items *)

\* The items claimed of block n; the entry e has block n.
Claimed(n) ==
    IF headIndex <= BLOCK_SIZE * n THEN 0
    ELSE IF headIndex >= BLOCK_SIZE * n + BLOCK_SIZE THEN BLOCK_SIZE
    ELSE headIndex - BLOCK_SIZE * n
Has(e, n) == entries[e].key = BLOCK_SIZE * n /\ entries[e].value # Null
EmptyIn(e) == elementsCompletelyDequeued[entries[e].value]
Wanted(n) == headIndex < BLOCK_SIZE * n + BLOCK_SIZE \/ Holders(n) # {}

\* A block stays until the last of its items is taken.
BlocksThere == \A n \in Nat : n < Stored /\ Wanted(n) => \E e \in Entries : Has(e, n)
\* The places counted empty, and those whose items are claimed and not counted.
Counted ==
    \A e \in Entries : entries[e].value # Null =>
        /\ EmptyIn(e) + Cardinality(Holders(Nr(entries[e].key))) = Claimed(Nr(entries[e].key))
        /\ EmptyIn(e) = BLOCK_SIZE => \E c \in Consumers : pc[c] = "clear" /\ local[c].entry = e
\* What a consumer knows of the way to its block.
Seeks(c) ==
    /\ pc[c] \in {"indexTail", "entry"} =>
          \E p \in Places(headers[local[c].header]) :
              Has(EntryIn(headers[local[c].header], p), Nr(Held(c)))
    /\ pc[c] = "entry" =>
          entries[EntryAt(headers[local[c].header], local[c].at)].key # INVALID_BLOCK_BASE
    /\ pc[c] \in {"block", "take", "count"} => Has(local[c].entry, Nr(Held(c)))
    /\ pc[c] \in {"take", "count", "clear"} =>
          local[c].block # Null /\ local[c].block = entries[local[c].entry].value
    /\ pc[c] = "clear" =>
          /\ EmptyIn(local[c].entry) = BLOCK_SIZE
          /\ \A d \in Consumers \ {c} : pc[d] = "clear" => local[d].entry # local[c].entry

Releasing == {c \in Consumers : pc[c] = "release"}
InIndex(b) == \E e \in Entries : entries[e].value = b
Used(b) == InIndex(b) \/ mine.block = b \/ \E c \in Releasing : local[c].block = b
OneEntry ==
    /\ \A d, e \in Entries : entries[d].value = entries[e].value /\ entries[d].value # Null => d = e
    /\ \A e \in Entries : Has(e, Stored - 1) => entries[e].value = tailBlock
OneOwner ==
    /\ mine.block # Null <=> step = "value"
    /\ mine.block # Null => ~InIndex(mine.block) /\ elementsCompletelyDequeued[mine.block] = 0
    /\ \A c \in Releasing :
          /\ local[c].block # Null /\ local[c].block # mine.block /\ ~InIndex(local[c].block)
          /\ \A d \in Releasing \ {c} : local[d].block # local[c].block
Pooled ==
    /\ unused \cap freeList = {}
    /\ \A b \in Blocks :
          /\ Used(b) => b \notin unused \cup freeList
          /\ Used(b) \/ b \in unused \cup freeList <=> b \in InitialBlocks \cup created
NoneOver == \A b \in Blocks : elementsCompletelyDequeued[b] <= BLOCK_SIZE
StockInv ==
    /\ BlocksThere /\ Counted /\ (\A c \in Consumers : Seeks(c))
    /\ OneEntry /\ OneOwner /\ Pooled /\ NoneOver

\* All that is known of a state, without the blocks.
Known == Index /\ CountersInv /\ HeldOnce

LEMMA HoldersIs ==
    ASSUME NEW n
    PROVE  /\ Holders(n) \in SUBSET Consumers /\ IsFiniteSet(Holders(n)) /\ Cardinality(Holders(n)) \in Nat
           /\ (Cardinality(Holders(n)) = 0 <=> Holders(n) = {})
<1>1. Holders(n) \in SUBSET Consumers
  BY DEF Holders
<1>2. IsFiniteSet(Holders(n))
  BY <1>1, ConsumersAssumption, FS_Subset
<1> QED BY <1>1, <1>2, FS_CardinalityType, FS_EmptySet

LEMMA ClaimedIs ==
    ASSUME NEW n \in Nat, NEW h \in Nat, h = headIndex
    PROVE  /\ Claimed(n) \in Nat /\ Claimed(n) <= BLOCK_SIZE
           /\ h < BLOCK_SIZE * n + BLOCK_SIZE <=> Claimed(n) < BLOCK_SIZE
<1>1. BLOCK_SIZE * n \in Nat /\ BLOCK_SIZE \in Nat /\ BLOCK_SIZE > 1
  BY SizeOfBlock
<1>2. PICK a \in Nat : a = BLOCK_SIZE * n
  BY <1>1
<1> QED BY <1>1, <1>2 DEF Claimed

LEMMA HasOnly ==
    ASSUME Index, NEW e \in Entries, NEW n \in Nat, Has(e, n)
    PROVE  /\ Nr(entries[e].key) = n /\ entries[e].value \in Blocks
           /\ \A d \in Entries : Has(d, n) => d = e
<1>1. BLOCK_SIZE * n + 0 = BLOCK_SIZE * n /\ 0 \in 0 .. BLOCK_SIZE - 1
  BY SizeOfBlock
<1>2. Nr(entries[e].key) = n
  BY <1>1, NrOf DEF Has
<1>3. entries[e].value \in Blocks
  BY IndexHas, EntryIs DEF Has, Entry
<1>4. \A d \in Entries : Has(d, n) => d = e
  BY StockOnce DEF Has
<1> QED BY <1>2, <1>3, <1>4

LEMMA StockHas ==
    ASSUME Index, NEW e \in Entries, entries[e].value # Null
    PROVE  /\ Nr(entries[e].key) \in Nat /\ Has(e, Nr(entries[e].key)) /\ Nr(entries[e].key) < Stored
           /\ entries[e].value \in Blocks
<1>1. entries[e].value \in Blocks
  BY IndexHas, EntryIs DEF Entry
<1> QED BY <1>1, StockNumber DEF Has

LEMMA HeadBelow == Known => headIndex \in Nat /\ tailIndex \in Nat /\ headIndex <= tailIndex
<1> SUFFICES ASSUME Known PROVE headIndex \in Nat /\ tailIndex \in Nat /\ headIndex <= tailIndex
  OBVIOUS
<1>1. headIndex \in Nat /\ tailIndex \in Nat
  BY DEF Known, Index, Typed, CountersTyped
<1>2. {c \in Consumers : pc[c] = "claim"} \in SUBSET Consumers
  OBVIOUS
<1>3. Cardinality({c \in Consumers : pc[c] = "claim"}) \in Nat
  BY <1>2, ConsumersAssumption, FS_Subset, FS_CardinalityType
<1> QED BY <1>1, <1>3 DEF Known, CountersInv, Counters, ClaimsPublished

LEMMA HeldIs ==
    ASSUME Known, NEW c \in Consumers, pc[c] \in Holding
    PROVE  /\ Held(c) \in Nat /\ Held(c) < headIndex /\ Held(c) < tailIndex
           /\ Nr(Held(c)) \in Nat /\ Nr(Held(c)) < Stored
<1>1. Held(c) \in Nat
  BY DEF Known, Index, Typed, ConsumersTyped, Locals, Held
<1>2. Held(c) < headIndex /\ Held(c) < tailIndex
  BY <1>1, HeadBelow DEF Known, HeldOnce
<1>3. Nr(Held(c)) \in Nat
  BY <1>1, NrIs
<1>4. Nr(Held(c)) < Stored
  BY <1>1, <1>2, StoredIs DEF Known
<1> QED BY <1>1, <1>2, <1>3, <1>4

\* The block of a claimed item is in the index.
LEMMA HeldHas ==
    ASSUME Known, BlocksThere, NEW c \in Consumers, pc[c] \in Holding
    PROVE  \E e \in Entries : Has(e, Nr(Held(c)))
<1>1. PICK n \in Nat : n = Nr(Held(c)) /\ n < Stored
  BY HeldIs
<1>2. c \in Holders(n)
  BY <1>1 DEF Holders
<1>3. Wanted(n)
  BY <1>2 DEF Wanted
<1> QED BY <1>1, <1>3 DEF BlocksThere

\* Nobody holds an item of a block that is counted empty.
LEMMA EmptyUnheld ==
    ASSUME Known, Counted, NEW e \in Entries, entries[e].value # Null, EmptyIn(e) = BLOCK_SIZE
    PROVE  ~Wanted(Nr(entries[e].key))
<1>1. PICK n \in Nat : n = Nr(entries[e].key)
  BY StockHas DEF Known
<1>2. PICK h \in Nat : h = headIndex
  BY HeadBelow
<1>3. EmptyIn(e) + Cardinality(Holders(n)) = Claimed(n)
  BY <1>1 DEF Counted
<1>4. Claimed(n) \in Nat /\ Claimed(n) <= BLOCK_SIZE
      /\ (h < BLOCK_SIZE * n + BLOCK_SIZE <=> Claimed(n) < BLOCK_SIZE)
  BY <1>2, ClaimedIs
<1>5. Cardinality(Holders(n)) = 0 /\ Claimed(n) = BLOCK_SIZE
  BY <1>3, <1>4, HoldersIs, SizeOfBlock
<1>6. Holders(n) = {}
  BY <1>5, HoldersIs
<1> QED BY <1>1, <1>2, <1>4, <1>5, <1>6, SizeOfBlock DEF Wanted

-------------------------------------------------------------------------------
(* A block stays until the last of its items is taken *)

LEMMA WantedShrinks ==
    ASSUME Known, [Next]_vars, NEW n \in Nat, Wanted(n)'
    PROVE  Wanted(n)
<1>1. headIndex \in Nat /\ BLOCK_SIZE * n \in Nat /\ BLOCK_SIZE \in Nat
  BY HeadBelow, SizeOfBlock
<1>2. CASE Producer \/ Destroy \/ UNCHANGED vars
  <2>1. Holders(n)' = Holders(n) /\ headIndex' = headIndex
    BY <1>2, ProducerWaits DEF Holders, Held
  <2> QED BY <2>1 DEF Wanted
<1>3. ASSUME NEW c \in Consumers, Dequeue(c), ~Claim(c) PROVE Wanted(n)
  <2>1. headIndex' = headIndex /\ (pc'[c] \in Holding => pc[c] \in Holding /\ Held(c)' = Held(c))
        /\ \A d \in Consumers : d # c => pc'[d] = pc[d] /\ Held(d)' = Held(d)
    BY <1>3, OthersWait, HolderStep DEF Held, Known, Index
  <2>2. Holders(n)' \subseteq Holders(n)
    BY <2>1 DEF Holders
  <2> QED BY <2>1, <2>2 DEF Wanted
<1>4. ASSUME NEW c \in Consumers, Claim(c) PROVE Wanted(n)
  <2>1. pc'[c] \in Holding /\ headIndex' = headIndex + 1 /\ Held(c)' = headIndex
        /\ \A d \in Consumers : d # c => pc'[d] = pc[d] /\ Held(d)' = Held(d)
    <3>1. Dequeue(c)
      BY <1>4 DEF Dequeue
    <3> QED BY <1>4, <3>1, OthersWait, ClaimIs DEF Held, Known, Index
  <2>2. CASE Nr(headIndex) = n
    <3>1. headIndex = BLOCK_SIZE * n + (headIndex % BLOCK_SIZE) /\ headIndex % BLOCK_SIZE \in 0 .. BLOCK_SIZE - 1
      BY <1>1, <2>2, NrIs
    <3> QED BY <1>1, <3>1 DEF Wanted
  <2>3. CASE Nr(headIndex) # n
    <3>1. Holders(n)' \subseteq Holders(n)
      BY <2>1, <2>3 DEF Holders
    <3> QED BY <1>1, <2>1, <3>1 DEF Wanted
  <2> QED BY <2>2, <2>3
<1> QED BY <1>2, <1>3, <1>4 DEF Next

LEMMA ClearIs ==
    ASSUME Known, StockInv, NEW c \in Consumers, pc[c] = "clear"
    PROVE  \E e \in Entries : e = local[c].entry /\ entries[e].value # Null /\ EmptyIn(e) = BLOCK_SIZE
                              /\ local[c].block = entries[e].value /\ ~Wanted(Nr(entries[e].key))
<1>1. PICK e \in Entries : e = local[c].entry
  BY DEF Known, Index, Typed, ConsumersTyped
<1>2. entries[e].value # Null /\ EmptyIn(e) = BLOCK_SIZE /\ local[c].block = entries[e].value
  BY <1>1 DEF StockInv, Seeks
<1>3. ~Wanted(Nr(entries[e].key))
  BY <1>2, EmptyUnheld DEF StockInv
<1> QED BY <1>1, <1>2, <1>3

\* A block goes out of the index by the step of the consumer that clears its entry.
LEMMA EntryKept ==
    ASSUME Index, [Next]_vars, NEW e \in Entries, entries[e].value # Null
    PROVE  \/ e \in Entries' /\ entries'[e] = entries[e]
           \/ \E c \in Consumers : ClearEntry(c) /\ local[c].entry = e
<1>1. CASE StoreValue
  BY <1>1, StoreValueDoes
<1>2. ASSUME NEW c \in Consumers, ClearEntry(c)
      PROVE  local[c].entry = e \/ (e \in Entries' /\ entries'[e] = entries[e])
  BY <1>2, ClearEntryDoes
<1>3. CASE ~StoreValue /\ \A c \in Consumers : ~ClearEntry(c)
  BY <1>3, IndexGrowsOnlyStep DEF StockSame, IndexGrowsOnly
<1> QED BY <1>1, <1>2, <1>3

\* No block that somebody wants does.
LEMMA WantedKept ==
    ASSUME Known, StockInv, [Next]_vars, NEW e \in Entries, NEW n \in Nat, Has(e, n), Wanted(n)
    PROVE  e \in Entries' /\ entries'[e] = entries[e]
<1>1. Nr(entries[e].key) = n /\ entries[e].value # Null
  BY HasOnly DEF Known, Has
<1>2. ASSUME NEW c \in Consumers, ClearEntry(c) PROVE local[c].entry # e
  <2>1. pc[c] = "clear"
    BY <1>2 DEF ClearEntry, Goes
  <2> QED BY <1>1, <2>1, ClearIs
<1> QED BY <1>1, <1>2, EntryKept DEF Known

LEMMA BlocksThereStep ==
    ASSUME Known, StockInv, [Next]_vars
    PROVE  BlocksThere'
<1> SUFFICES ASSUME NEW n \in Nat, n < Stored', Wanted(n)' PROVE (\E e \in Entries : Has(e, n))'
  BY DEF BlocksThere
<1>1. Wanted(n)
  BY WantedShrinks
<1>2. CASE n < Stored
  <2>1. PICK e \in Entries : Has(e, n)
    BY <1>1, <1>2 DEF StockInv, BlocksThere
  <2>2. e \in Entries' /\ entries'[e] = entries[e]
    BY <1>1, <2>1, WantedKept
  <2> QED BY <2>1, <2>2 DEF Has
<1>3. CASE ~(n < Stored)
  <2>1. StoreValue
    BY <1>3, StoredStays DEF Known
  <2>2. PICK e \in Entries : \E i \in Nat :
              /\ i = Stored /\ Stored' = i + 1 /\ Entries' = Entries
              /\ entries'[e] = [key |-> BLOCK_SIZE * i, value |-> mine.block]
    BY <2>1, StoreValueDoes DEF Known
  <2>3. PICK i \in Nat :
              /\ i = Stored /\ Stored' = i + 1 /\ Entries' = Entries
              /\ entries'[e] = [key |-> BLOCK_SIZE * i, value |-> mine.block]
    BY <2>2
  <2>4. n = i
    BY <1>3, <2>3
  <2>5. mine.block # Null
    BY <2>1 DEF StoreValue, ProducerGoes, StockInv, OneOwner
  <2> QED BY <2>3, <2>4, <2>5 DEF Has
<1> QED BY <1>2, <1>3

-------------------------------------------------------------------------------
(* The counts of the empty places *)

LEMMA CountEmptyDoes ==
    ASSUME Known, StockInv, NEW c \in Consumers, CountEmpty(c)
    PROVE  \E e \in Entries : \E n \in Nat : \E b \in Blocks : \E x \in Nat :
              /\ e = local[c].entry /\ n = Nr(Held(c)) /\ Has(e, n) /\ c \in Holders(n)
              /\ b = local[c].block /\ b = entries[e].value
              /\ x = elementsCompletelyDequeued[b] /\ x < BLOCK_SIZE
              /\ elementsCompletelyDequeued' = [elementsCompletelyDequeued EXCEPT ![b] = x + 1]
              /\ pc[c] = "count" /\ pc'[c] = IF x + 1 = BLOCK_SIZE THEN "clear" ELSE "idle"
              /\ x + 1 = BLOCK_SIZE => local' = local
              /\ UNCHANGED <<entries, headIndex>>
<1>1. pc[c] = "count" /\ UNCHANGED <<entries, headIndex>>
  BY DEF CountEmpty, Goes, indexes
<1>2. pc[c] \in Holding
  BY <1>1 DEF Holding
<1>3. PICK n \in Nat : n = Nr(Held(c))
  BY <1>2, HeldIs
<1>4. PICK e \in Entries : e = local[c].entry
  BY <1>1 DEF Known, Index, Typed, ConsumersTyped
<1>5. Has(e, n) /\ c \in Holders(n) /\ local[c].block = entries[e].value
  BY <1>1, <1>2, <1>3, <1>4 DEF StockInv, Seeks, Holders
<1>6. PICK b \in Blocks : b = entries[e].value
  BY <1>5, HasOnly DEF Known
<1>7. PICK x \in Nat : x = elementsCompletelyDequeued[b]
  BY DEF Known, Index, Typed, BlocksTyped
<1>8. x < BLOCK_SIZE
  <2>1. EmptyIn(e) = x /\ entries[e].value # Null /\ Nr(entries[e].key) = n
    BY <1>5, <1>6, <1>7, HasOnly DEF EmptyIn, Known, Has
  <2>2. x + Cardinality(Holders(n)) = Claimed(n)
    BY <2>1 DEF StockInv, Counted
  <2>3. Claimed(n) \in Nat /\ Claimed(n) <= BLOCK_SIZE
    <3>1. PICK h \in Nat : h = headIndex
      BY HeadBelow
    <3> QED BY <3>1, ClaimedIs
  <2>4. Cardinality(Holders(n)) \in Nat /\ Cardinality(Holders(n)) # 0
    BY <1>5, HoldersIs
  <2> QED BY <2>2, <2>3, <2>4, SizeOfBlock
<1>9. IsLast(c) <=> x + 1 = BLOCK_SIZE
  BY <1>5, <1>6, <1>7, SizeOfBlock DEF IsLast
<1>10. elementsCompletelyDequeued' = [elementsCompletelyDequeued EXCEPT ![b] = x + 1]
  BY <1>5, <1>6, <1>7 DEF CountEmpty
<1>11. pc'[c] = IF x + 1 = BLOCK_SIZE THEN "clear" ELSE "idle"
  BY <1>9 DEF CountEmpty, Goes, Known, Index, Typed, ConsumersTyped
<1>12. x + 1 = BLOCK_SIZE => local' = local
  BY <1>9 DEF CountEmpty
<1> QED BY <1>1, <1>3, <1>4, <1>5, <1>6, <1>7, <1>8, <1>10, <1>11, <1>12

\* Before a block is put in the index its count is set; there it grows by CountEmpty.
LEMMA ObtainsUnused ==
    ASSUME Known, StockInv, FromInitialPool \/ FromFreeList \/ FromMalloc
    PROVE  \E b \in Blocks :
              /\ ~Used(b) /\ b # Null /\ step = "requisition" /\ step' = "value"
              /\ mine' = [mine EXCEPT !.block = b]
              /\ elementsCompletelyDequeued' = [elementsCompletelyDequeued EXCEPT ![b] = 0]
              /\ UNCHANGED <<entries, headers, pc, local, headIndex, tailIndex, elements, tailBlock, enqueues>>
<1>1. Null \notin Blocks
  BY BlocksAssumption DEF Blocks
<1>2. ASSUME NEW b \in Blocks, Obtain(b)
      PROVE  /\ step = "requisition" /\ step' = "value" /\ mine' = [mine EXCEPT !.block = b]
             /\ elementsCompletelyDequeued' = [elementsCompletelyDequeued EXCEPT ![b] = 0]
             /\ UNCHANGED <<entries, headers, pc, local, headIndex, tailIndex, elements, tailBlock, enqueues>>
  BY <1>2 DEF Obtain, ProducerGoes, indexes, consumers
<1>3. ASSUME FromInitialPool PROVE \E b \in Blocks : Obtain(b) /\ ~Used(b)
  BY <1>3 DEF FromInitialPool, StockInv, Pooled, Known, Index, Typed, BlocksTyped, Blocks
<1>4. ASSUME FromFreeList PROVE \E b \in Blocks : Obtain(b) /\ ~Used(b)
  BY <1>4 DEF FromFreeList, StockInv, Pooled, Known, Index, Typed, BlocksTyped, Blocks
<1>5. ASSUME FromMalloc PROVE \E b \in Blocks : Obtain(b) /\ ~Used(b)
  BY <1>5, BlocksAssumption DEF FromMalloc, StockInv, Pooled, Blocks
<1>6. PICK b \in Blocks : Obtain(b) /\ ~Used(b)
  BY <1>3, <1>4, <1>5
<1> QED BY <1>1, <1>2, <1>6

LEMMA EmptyKept ==
    ASSUME Known, StockInv, [Next]_vars, \A c \in Consumers : ~CountEmpty(c),
           NEW b \in Blocks, InIndex(b)
    PROVE  elementsCompletelyDequeued'[b] = elementsCompletelyDequeued[b]
<1>1. CASE FromInitialPool \/ FromFreeList \/ FromMalloc
  <2>1. PICK x \in Blocks : ~Used(x) /\ elementsCompletelyDequeued' = [elementsCompletelyDequeued EXCEPT ![x] = 0]
    BY <1>1, ObtainsUnused
  <2>2. x # b
    BY <2>1 DEF Used
  <2> QED BY <2>1, <2>2 DEF Known, Index, Typed, BlocksTyped
<1>2. CASE ~(FromInitialPool \/ FromFreeList \/ FromMalloc)
  <2>1. elementsCompletelyDequeued' = elementsCompletelyDequeued
    BY <1>2
    DEF Next, vars, Producer, Dequeue, Enqueue, FindEntry, GrowIndex, GrowFails,
        StoreKey, StoreTail, RequisitionFails, StoreValue, Construct, Publish, Destroy,
        blocks, LoadTail, LoadOvercommit, SeesItem, SeesNone, Commit, Recheck, GiveBack,
        Claim, LoadBlockIndex, LoadIndexTail, FindBlock, LoadBlock, Take, ClearEntry,
        Release, rest
  <2> QED BY <2>1
<1> QED BY <1>1, <1>2

\* Where a block in the index comes from.
LEMMA StockFrom ==
    ASSUME Index, [Next]_vars, NEW e \in Entries', entries'[e].value # Null
    PROVE  \/ e \in Entries /\ entries[e].value # Null /\ entries'[e] = entries[e]
           \/ StoreValue /\ e = mine.entry
<1>1. CASE StoreValue
  BY <1>1, StoreValueDoes
<1>2. ASSUME NEW c \in Consumers, ClearEntry(c)
      PROVE  e \in Entries /\ entries[e].value # Null /\ entries'[e] = entries[e]
  BY <1>2, ClearEntryDoes
<1>3. CASE ~StoreValue /\ \A c \in Consumers : ~ClearEntry(c)
  BY <1>3, IndexGrowsOnlyStep DEF StockSame, IndexGrowsOnly
<1> QED BY <1>1, <1>2, <1>3

LEMMA ClaimedNext ==
    ASSUME Known, headIndex' = headIndex + 1, NEW n \in Nat
    PROVE  Claimed(n)' = IF Nr(headIndex) = n THEN Claimed(n) + 1 ELSE Claimed(n)
<1>1. PICK h \in Nat : h = headIndex
  BY HeadBelow
<1>2. PICK m \in Nat, r \in 0 .. BLOCK_SIZE - 1 : m = Nr(h) /\ h = BLOCK_SIZE * m + r
  BY NrIs
<1>3. BLOCK_SIZE \in Nat /\ BLOCK_SIZE > 1 /\ BLOCK_SIZE * n \in Nat /\ BLOCK_SIZE * m \in Nat
  BY SizeOfBlock
<1>4. m < n => BLOCK_SIZE * m + BLOCK_SIZE <= BLOCK_SIZE * n
  <2>1. m < n => BLOCK_SIZE * (n - m) >= BLOCK_SIZE
    BY SizeOfBlock
  <2>2. BLOCK_SIZE * (n - m) = BLOCK_SIZE * n - BLOCK_SIZE * m
    BY SizeOfBlock
  <2> QED BY <1>3, <2>1, <2>2
<1>5. m > n => BLOCK_SIZE * n + BLOCK_SIZE <= BLOCK_SIZE * m
  <2>1. m > n => BLOCK_SIZE * (m - n) >= BLOCK_SIZE
    BY SizeOfBlock
  <2>2. BLOCK_SIZE * (m - n) = BLOCK_SIZE * m - BLOCK_SIZE * n
    BY SizeOfBlock
  <2> QED BY <1>3, <2>1, <2>2
<1>6. PICK a \in Nat, z \in Nat : a = BLOCK_SIZE * n /\ z = BLOCK_SIZE * m
  BY <1>3
<1> QED BY <1>1, <1>2, <1>3, <1>4, <1>5, <1>6 DEF Claimed

LEMMA HoldersStep ==
    ASSUME Known, [Next]_vars, NEW n \in Nat
    PROVE  /\ (\A c \in Consumers : ~Claim(c) /\ ~CountEmpty(c)) => Holders(n)' = Holders(n) /\ headIndex' = headIndex
           /\ \A c \in Consumers : Claim(c) =>
                 Holders(n)' = (IF Nr(headIndex) = n THEN Holders(n) \cup {c} ELSE Holders(n)) /\ c \notin Holders(n)
           /\ \A c \in Consumers : CountEmpty(c) => Holders(n)' \subseteq Holders(n)
                 /\ \A d \in Holders(n) : d # c => d \in Holders(n)'
<1>1. CASE Producer \/ Destroy \/ UNCHANGED vars
  <2>1. Holders(n)' = Holders(n) /\ headIndex' = headIndex
    BY <1>1, ProducerWaits DEF Holders, Held
  <2>2. ASSUME NEW c \in Consumers PROVE ~Claim(c) /\ ~CountEmpty(c)
    <3>1. Claim(c) \/ CountEmpty(c) => pc'[c] # pc[c]
      BY DEF Claim, CountEmpty, Goes, Known, Index, Typed, ConsumersTyped
    <3> QED BY <1>1, <3>1, ProducerWaits
  <2> QED BY <2>1, <2>2
<1>2. ASSUME NEW c \in Consumers, Dequeue(c)
      PROVE  /\ \A d \in Consumers : d # c => ~Claim(d) /\ ~CountEmpty(d)
             /\ \A d \in Consumers : d # c => pc'[d] = pc[d] /\ Held(d)' = Held(d)
  <2>1. \A d \in Consumers : d # c => pc'[d] = pc[d] /\ Held(d)' = Held(d)
    BY <1>2, OthersWait DEF Held, Known, Index
  <2>2. \A d \in Consumers : Claim(d) \/ CountEmpty(d) => pc'[d] # pc[d]
    BY DEF Claim, CountEmpty, Goes, Known, Index, Typed, ConsumersTyped
  <2> QED BY <2>1, <2>2
<1>3. ASSUME NEW c \in Consumers, Dequeue(c), ~Claim(c), ~CountEmpty(c)
      PROVE  Holders(n)' = Holders(n) /\ headIndex' = headIndex /\ \A d \in Consumers : ~Claim(d) /\ ~CountEmpty(d)
  <2>1. /\ headIndex' = headIndex
        /\ pc'[c] \in Holding <=> pc[c] \in Holding
        /\ pc[c] \in Holding => Held(c)' = Held(c)
    BY <1>3, HolderStep DEF Known, Index
  <2>2. Holders(n)' = Holders(n)
    BY <1>2, <1>3, <2>1 DEF Holders
  <2> QED BY <1>2, <1>3, <2>1, <2>2
<1>4. ASSUME NEW c \in Consumers, Claim(c)
      PROVE  Holders(n)' = (IF Nr(headIndex) = n THEN Holders(n) \cup {c} ELSE Holders(n)) /\ c \notin Holders(n)
  <2>1. Dequeue(c)
    BY <1>4 DEF Dequeue
  <2>2. pc[c] \notin Holding /\ pc'[c] \in Holding /\ Held(c)' = headIndex
    BY <1>4, ClaimIs DEF Known, Index
  <2>3. c \notin Holders(n)
    BY <2>2 DEF Holders
  <2>4. Holders(n)' = {d \in Consumers : IF d = c THEN Nr(headIndex) = n ELSE pc[d] \in Holding /\ Nr(Held(d)) = n}
    BY <1>2, <2>1, <2>2 DEF Holders
  <2> QED BY <2>2, <2>3, <2>4 DEF Holders
<1>5. ASSUME NEW c \in Consumers, CountEmpty(c)
      PROVE  Holders(n)' \subseteq Holders(n) /\ \A d \in Holders(n) : d # c => d \in Holders(n)'
  <2>1. Dequeue(c) /\ ~Claim(c)
    BY <1>5 DEF Dequeue, CountEmpty, Claim, Goes
  <2>2. pc'[c] \in Holding => pc[c] \in Holding /\ Held(c)' = Held(c)
    BY <2>1, HolderStep DEF Known, Index
  <2>3. Holders(n)' \subseteq Holders(n)
    BY <1>2, <2>1, <2>2 DEF Holders
  <2>4. \A d \in Holders(n) : d # c => d \in Holders(n)'
    BY <1>2, <2>1 DEF Holders
  <2> QED BY <2>3, <2>4
<1> QED BY <1>1, <1>2, <1>3, <1>4, <1>5 DEF Next

\* The sum of one block, whose entry stays.
LEMMA SumKept ==
    ASSUME Known, StockInv, [Next]_vars, NEW e \in Entries, entries[e].value # Null,
           entries'[e] = entries[e]
    PROVE  /\ (EmptyIn(e) + Cardinality(Holders(Nr(entries[e].key))) = Claimed(Nr(entries[e].key)))'
           /\ EmptyIn(e)' = EmptyIn(e)
              \/ \E c \in Consumers : CountEmpty(c) /\ local[c].entry = e /\ EmptyIn(e)' \in Nat
                     /\ (EmptyIn(e)' = BLOCK_SIZE => pc'[c] = "clear" /\ local' = local)
<1>1. PICK n \in Nat, b \in Blocks : n = Nr(entries[e].key) /\ b = entries[e].value /\ Has(e, n)
  BY StockHas DEF Known
<1>2. Nr(entries[e].key)' = n /\ EmptyIn(e)' = elementsCompletelyDequeued'[b]
      /\ EmptyIn(e) = elementsCompletelyDequeued[b]
  BY <1>1 DEF EmptyIn, Nr
<1>3. PICK x \in Nat : x = elementsCompletelyDequeued[b]
  BY DEF Known, Index, Typed, BlocksTyped
<1>4. x + Cardinality(Holders(n)) = Claimed(n) /\ Cardinality(Holders(n)) \in Nat
  BY <1>1, <1>2, <1>3, HoldersIs DEF StockInv, Counted
<1>5. InIndex(b)
  BY <1>1 DEF InIndex
<1>6. CASE \A c \in Consumers : ~Claim(c) /\ ~CountEmpty(c)
  <2>1. elementsCompletelyDequeued'[b] = x /\ Holders(n)' = Holders(n) /\ headIndex' = headIndex
    BY <1>3, <1>5, <1>6, EmptyKept, HoldersStep
  <2>2. Claimed(n)' = Claimed(n)
    BY <2>1 DEF Claimed
  <2>3. (Cardinality(Holders(Nr(entries[e].key))))' = Cardinality(Holders(n))
    BY <1>2, <2>1 DEF Holders
  <2>4. Claimed(Nr(entries[e].key))' = Claimed(n)
    BY <1>2, <2>2 DEF Claimed
  <2> QED BY <1>2, <1>3, <1>4, <2>1, <2>3, <2>4
<1>7. ASSUME NEW c \in Consumers, Claim(c)
      PROVE  /\ (EmptyIn(e) + Cardinality(Holders(Nr(entries[e].key))) = Claimed(Nr(entries[e].key)))'
             /\ EmptyIn(e)' = EmptyIn(e)
  <2>1. elementsCompletelyDequeued' = elementsCompletelyDequeued /\ headIndex' = headIndex + 1
    BY <1>7 DEF Claim, rest, blocks
  <2>2. Holders(n)' = (IF Nr(headIndex) = n THEN Holders(n) \cup {c} ELSE Holders(n)) /\ c \notin Holders(n)
    BY <1>7, HoldersStep
  <2>3. Cardinality(Holders(n)') = IF Nr(headIndex) = n THEN Cardinality(Holders(n)) + 1 ELSE Cardinality(Holders(n))
    BY <2>2, HoldersIs, FS_AddElement
  <2>4. Claimed(n)' = IF Nr(headIndex) = n THEN Claimed(n) + 1 ELSE Claimed(n)
    BY <2>1, ClaimedNext
  <2>5. (Cardinality(Holders(Nr(entries[e].key))))' = Cardinality(Holders(n)')
    BY <1>2 DEF Holders
  <2>6. Claimed(Nr(entries[e].key))' = Claimed(n)'
    BY <1>2 DEF Claimed
  <2>7. Claimed(n) \in Nat
    BY <1>3, <1>4
  <2>8. x + Cardinality(Holders(n)') = Claimed(n)'
    BY <1>3, <1>4, <2>3, <2>4, <2>7
  <2> QED BY <1>2, <1>3, <2>1, <2>5, <2>6, <2>8
<1>8. ASSUME NEW c \in Consumers, CountEmpty(c)
      PROVE  /\ (EmptyIn(e) + Cardinality(Holders(Nr(entries[e].key))) = Claimed(Nr(entries[e].key)))'
             /\ EmptyIn(e)' = EmptyIn(e)
                \/ (local[c].entry = e /\ EmptyIn(e)' \in Nat
                     /\ (EmptyIn(e)' = BLOCK_SIZE => pc'[c] = "clear" /\ local' = local))
  <2>1. PICK f \in Entries : \E m \in Nat : \E a \in Blocks : \E y \in Nat :
              /\ f = local[c].entry /\ m = Nr(Held(c)) /\ Has(f, m) /\ c \in Holders(m)
              /\ a = local[c].block /\ a = entries[f].value
              /\ y = elementsCompletelyDequeued[a] /\ y < BLOCK_SIZE
              /\ elementsCompletelyDequeued' = [elementsCompletelyDequeued EXCEPT ![a] = y + 1]
              /\ pc[c] = "count" /\ pc'[c] = IF y + 1 = BLOCK_SIZE THEN "clear" ELSE "idle"
              /\ y + 1 = BLOCK_SIZE => local' = local
              /\ UNCHANGED <<entries, headIndex>>
    BY <1>8, CountEmptyDoes
  <2>2. PICK m \in Nat, a \in Blocks, y \in Nat :
              /\ f = local[c].entry /\ m = Nr(Held(c)) /\ Has(f, m) /\ c \in Holders(m)
              /\ a = entries[f].value
              /\ y = elementsCompletelyDequeued[a] /\ y < BLOCK_SIZE
              /\ elementsCompletelyDequeued' = [elementsCompletelyDequeued EXCEPT ![a] = y + 1]
              /\ pc'[c] = IF y + 1 = BLOCK_SIZE THEN "clear" ELSE "idle"
              /\ y + 1 = BLOCK_SIZE => local' = local
              /\ UNCHANGED <<entries, headIndex>>
    BY <2>1
  <2>3. Holders(n)' \subseteq Holders(n) /\ \A d \in Holders(n) : d # c => d \in Holders(n)'
    BY <1>8, HoldersStep
  <2>4. c \notin Holders(n)'
    BY <2>2 DEF Holders, Holding, Untaken, Seeking
  <2>5. Holders(n)' = Holders(n) \ {c}
    BY <2>3, <2>4
  <2>6. Claimed(n)' = Claimed(n)
    BY <2>2 DEF Claimed
  <2>7. (Cardinality(Holders(Nr(entries[e].key))))' = Cardinality(Holders(n)')
    BY <1>2 DEF Holders
  <2>8. Claimed(Nr(entries[e].key))' = Claimed(n)'
    BY <1>2 DEF Claimed
  <2>9. CASE e = f
    <3>1. n = m /\ a = b /\ x = y
      BY <1>1, <1>3, <2>2, <2>9, HasOnly DEF Known
    <3>2. Cardinality(Holders(n)') = Cardinality(Holders(n)) - 1
      <4>1. IsFiniteSet(Holders(n)) /\ c \in Holders(n)
        BY <2>2, <3>1, HoldersIs
      <4> QED BY <2>5, <4>1, FS_RemoveElement
    <3>3. elementsCompletelyDequeued'[b] = x + 1
      BY <2>2, <3>1 DEF Known, Index, Typed, BlocksTyped
    <3>4. (x + 1) + Cardinality(Holders(n)') = Claimed(n)
      BY <1>4, <3>2
    <3> QED BY <1>2, <2>2, <2>6, <2>7, <2>8, <2>9, <3>1, <3>3, <3>4
  <2>10. CASE e # f
    <3>1. n # m
      BY <1>1, <2>2, <2>10, HasOnly DEF Known
    <3>2. a # b
      BY <1>1, <2>2, <2>10 DEF StockInv, OneEntry
    <3>3. c \notin Holders(n)
      BY <2>2, <3>1 DEF Holders
    <3>4. elementsCompletelyDequeued'[b] = x
      BY <1>3, <2>2, <3>2 DEF Known, Index, Typed, BlocksTyped
    <3>5. Holders(n)' = Holders(n)
      BY <2>5, <3>3
    <3>6. Cardinality(Holders(n)') = Cardinality(Holders(n))
      BY <3>5
    <3> QED BY <1>2, <1>3, <1>4, <2>6, <2>7, <2>8, <3>4, <3>6
  <2> QED BY <2>9, <2>10
<1> QED BY <1>6, <1>7, <1>8

\* The consumer that counted the last place has yet to clear the entry.
LEMMA ClearsKept ==
    ASSUME Known, StockInv, [Next]_vars, NEW d \in Consumers, pc[d] = "clear",
           \/ local[d].entry \in Entries /\ entries'[local[d].entry] = entries[local[d].entry]
           \/ ~ClearEntry(d)
    PROVE  pc'[d] = "clear" /\ local'[d] = local[d]
<1>1. ~ClearEntry(d)
  <2>1. PICK e \in Entries : e = local[d].entry /\ entries[e].value # Null
    BY ClearIs
  <2>2. ClearEntry(d) => entries'[e] # entries[e]
    <3>1. ASSUME ClearEntry(d) PROVE entries'[e].value = Null
      BY <2>1, <3>1, ClearEntryDoes DEF Known
    <3> QED BY <2>1, <3>1
  <2> QED BY <2>1, <2>2
<1>2. CASE Producer \/ Destroy \/ UNCHANGED vars
  BY <1>2, ProducerWaits
<1>3. ASSUME NEW c \in Consumers, Dequeue(c) PROVE pc'[d] = "clear" /\ local'[d] = local[d]
  <2>1. c # d
    BY <1>1, <1>3
    DEF Dequeue, LoadTail, LoadOvercommit, SeesItem, SeesNone, Commit, Recheck,
        GiveBack, Claim, LoadBlockIndex, LoadIndexTail, FindBlock, LoadBlock, Take,
        CountEmpty, Release, Goes
  <2> QED BY <1>3, <2>1, OthersWait DEF Known, Index
<1> QED BY <1>2, <1>3 DEF Next

LEMMA StoreValueKeeps ==
    ASSUME Known, StockInv, StoreValue
    PROVE  /\ mine.block \in Blocks /\ elementsCompletelyDequeued[mine.block] = 0 /\ ~InIndex(mine.block)
           /\ UNCHANGED <<elementsCompletelyDequeued, headIndex, pc, local, headers, tailIndex>>
           /\ headIndex <= tailIndex /\ Holders(Stored) = {} /\ Claimed(Stored) = 0
<1>1. step = "value" /\ mine.block # Null
  BY DEF StoreValue, ProducerGoes, StockInv, OneOwner
<1>2. mine.block \in Blocks /\ elementsCompletelyDequeued[mine.block] = 0 /\ ~InIndex(mine.block)
  BY <1>1 DEF Known, Index, Typed, ProducerTyped, StockInv, OneOwner
<1>3. UNCHANGED <<elementsCompletelyDequeued, headIndex, pc, local, headers, tailIndex>>
  BY DEF StoreValue, blocks, indexes, consumers
<1>4. headIndex \in Nat /\ tailIndex \in Nat /\ headIndex <= tailIndex
  BY HeadBelow
<1>5. Holders(Stored) = {}
  <2>1. ASSUME NEW c \in Consumers, pc[c] \in Holding PROVE Nr(Held(c)) # Stored
    <3>1. Stored \in Nat
      BY StoredIs DEF Known
    <3> QED BY <2>1, <3>1, HeldIs
  <2> QED BY <2>1 DEF Holders
<1>6. PICK i \in Nat : i = Stored /\ tailIndex = BLOCK_SIZE * i
  BY StoreValueDoes DEF Known
<1>7. Claimed(i) = 0
  BY <1>4, <1>6 DEF Claimed
<1> QED BY <1>2, <1>3, <1>4, <1>5, <1>6, <1>7

LEMMA CountedStep ==
    ASSUME Known, StockInv, [Next]_vars
    PROVE  Counted'
<1> SUFFICES ASSUME NEW e \in Entries', entries'[e].value # Null
             PROVE  /\ (EmptyIn(e) + Cardinality(Holders(Nr(entries[e].key))) = Claimed(Nr(entries[e].key)))'
                    /\ EmptyIn(e)' = BLOCK_SIZE => \E c \in Consumers : pc'[c] = "clear" /\ local'[c].entry = e
  BY DEF Counted
<1>1. CASE e \in Entries /\ entries[e].value # Null /\ entries'[e] = entries[e]
  <2>1. (EmptyIn(e) + Cardinality(Holders(Nr(entries[e].key))) = Claimed(Nr(entries[e].key)))'
    BY <1>1, SumKept
  <2>2. ASSUME EmptyIn(e)' = BLOCK_SIZE PROVE \E c \in Consumers : pc'[c] = "clear" /\ local'[c].entry = e
    <3>1. CASE EmptyIn(e)' = EmptyIn(e)
      <4>1. PICK d \in Consumers : pc[d] = "clear" /\ local[d].entry = e
        BY <1>1, <2>2, <3>1 DEF StockInv, Counted
      <4> QED BY <1>1, <4>1, ClearsKept
    <3>2. CASE \E c \in Consumers : CountEmpty(c) /\ local[c].entry = e /\ EmptyIn(e)' \in Nat
                     /\ (EmptyIn(e)' = BLOCK_SIZE => pc'[c] = "clear" /\ local' = local)
      BY <2>2, <3>2
    <3> QED BY <1>1, <3>1, <3>2, SumKept
  <2> QED BY <2>1, <2>2
<1>2. CASE StoreValue /\ e = mine.entry
  <2>1. PICK i \in Nat : i = Stored /\ entries'[e] = [key |-> BLOCK_SIZE * i, value |-> mine.block]
    BY <1>2, StoreValueDoes DEF Known
  <2>2. PICK b \in Blocks : b = mine.block /\ elementsCompletelyDequeued'[b] = 0
    BY <1>2, StoreValueKeeps
  <2>3. EmptyIn(e)' = 0
    BY <2>1, <2>2 DEF EmptyIn
  <2>4. BLOCK_SIZE * i + 0 = BLOCK_SIZE * i /\ 0 \in 0 .. BLOCK_SIZE - 1
    BY SizeOfBlock
  <2>5. Nr(BLOCK_SIZE * i) = i
    BY <2>4, NrOf
  <2>6. Nr(entries[e].key)' = i
    BY <2>1, <2>5 DEF Nr
  <2>7. Holders(i)' = {} /\ Claimed(i)' = 0
    BY <1>2, <2>1, StoreValueKeeps DEF Holders, Held, Claimed
  <2>8. Cardinality({}) = 0
    BY FS_EmptySet
  <2>9. (Holders(Nr(entries[e].key)))' = {} /\ Claimed(Nr(entries[e].key))' = 0
    BY <2>6, <2>7 DEF Holders, Claimed
  <2> QED BY <2>3, <2>8, <2>9, SizeOfBlock
<1> QED BY <1>1, <1>2, StockFrom DEF Known

-------------------------------------------------------------------------------
(* The way of a consumer to its block *)

LEMMA ClearFrom ==
    ASSUME Known, StockInv, [Next]_vars, NEW d \in Consumers, pc'[d] = "clear"
    PROVE  local'[d] = local[d] /\ (pc[d] = "clear" \/ (CountEmpty(d) /\ pc[d] = "count"))
<1>1. CASE Producer \/ Destroy \/ UNCHANGED vars
  BY <1>1, ProducerWaits
<1>2. ASSUME NEW c \in Consumers, Dequeue(c), c # d PROVE local'[d] = local[d] /\ pc[d] = "clear"
  BY <1>2, OthersWait DEF Known, Index
<1>3. CASE Dequeue(d)
  <2>1. CountEmpty(d)
    BY <1>3
    DEF Dequeue, LoadTail, LoadOvercommit, SeesItem, SeesNone, Commit, Recheck,
        GiveBack, Claim, LoadBlockIndex, LoadIndexTail, FindBlock, LoadBlock, Take,
        ClearEntry, Release, Goes, Known, Index, Typed, ConsumersTyped
  <2> QED BY <2>1, CountEmptyDoes DEF CountEmpty, Goes
<1> QED BY <1>1, <1>2, <1>3 DEF Next

\* An entry counted empty stays so until it is cleared.
LEMMA SeeksClear ==
    ASSUME Known, StockInv, [Next]_vars, NEW d \in Consumers, pc'[d] = pc[d], local'[d] = local[d],
           pc[d] = "clear"
    PROVE  /\ local[d].entry \in Entries /\ entries'[local[d].entry] = entries[local[d].entry]
           /\ EmptyIn(local[d].entry)' = BLOCK_SIZE
           /\ \A c \in Consumers \ {d} : pc'[c] = "clear" => local'[c].entry # local[d].entry
<1>1. PICK e \in Entries : e = local[d].entry /\ entries[e].value # Null /\ EmptyIn(e) = BLOCK_SIZE
  BY ClearIs
<1>2. \A c \in Consumers \ {d} : pc[c] = "clear" => local[c].entry # e
  BY <1>1 DEF StockInv, Seeks
<1>3. entries'[e] = entries[e]
  <2>1. \A c \in Consumers : ClearEntry(c) => pc[c] = "clear" /\ pc'[c] = "release"
    BY DEF ClearEntry, Goes, Known, Index, Typed, ConsumersTyped
  <2> QED BY <1>1, <1>2, <2>1, EntryKept DEF Known
<1>4. ASSUME NEW c \in Consumers, CountEmpty(c) PROVE local[c].entry # e
  <2>1. PICK f \in Entries : \E n \in Nat : \E b \in Blocks : \E x \in Nat :
           f = local[c].entry /\ b = entries[f].value /\ x = elementsCompletelyDequeued[b] /\ x < BLOCK_SIZE
    BY <1>4, CountEmptyDoes
  <2>2. EmptyIn(f) # BLOCK_SIZE
    BY <2>1, SizeOfBlock DEF EmptyIn
  <2> QED BY <1>1, <2>1, <2>2
<1>5. EmptyIn(e)' = BLOCK_SIZE
  BY <1>1, <1>3, <1>4, SumKept
<1>6. ASSUME NEW c \in Consumers \ {d}, pc'[c] = "clear" PROVE local'[c].entry # e
  BY <1>2, <1>4, <1>6, ClearFrom
<1>7. EmptyIn(local[d].entry)' = EmptyIn(e)'
  BY <1>1 DEF EmptyIn
<1> QED BY <1>1, <1>3, <1>5, <1>6

LEMMA SeeksKeep ==
    ASSUME Known, StockInv, [Next]_vars, NEW d \in Consumers, pc'[d] = pc[d], local'[d] = local[d]
    PROVE  Seeks(d)'
<1>1. IndexGrowsOnly
  BY IndexGrowsOnlyStep DEF Known
<1>2. pc[d] \in Holding => Wanted(Nr(Held(d))) /\ Nr(Held(d)) \in Nat
  BY HeldIs DEF Wanted, Holders
<1>3. Held(d)' = Held(d) /\ Nr(Held(d))' = Nr(Held(d))
  BY DEF Held, Nr
<1>4. ASSUME pc[d] \in {"indexTail", "entry"}
      PROVE  /\ \E p \in Places(headers'[local[d].header]) :
                   Has(EntryIn(headers[local[d].header], p), Nr(Held(d)))'
             /\ pc[d] = "entry" =>
                  entries'[EntryAt(headers'[local[d].header], local[d].at)].key # INVALID_BLOCK_BASE
  <2>1. PICK k \in 1 .. Len(headers) : k = local[d].header
    BY <1>4 DEF Known, Index, Typed, ConsumersTyped
  <2>2. headers'[k].index = headers[k].index
    BY <1>1 DEF IndexGrowsOnly
  <2>3. PICK p \in Places(headers[k]) : Has(EntryIn(headers[k], p), Nr(Held(d)))
    BY <1>4, <2>1 DEF StockInv, Seeks
  <2>4. PICK e \in Entries : e = EntryIn(headers[k], p)
    BY HeaderIs, IndexHas DEF Known
  <2>5. entries'[e] = entries[e]
    BY <1>2, <1>4, <2>3, <2>4, WantedKept DEF Holding, Untaken, Seeking
  <2>6. p \in Places(headers'[k]) /\ EntryIn(headers'[k], p) = e
    BY <2>2, <2>3, <2>4 DEF Places, Capacity, EntryIn
  <2>7. Has(EntryIn(headers[k], p), Nr(Held(d)))'
    BY <1>3, <2>3, <2>4, <2>5, <2>6 DEF Has
  <2>8. EntryAt(headers[k], local[d].at) \in Entries
    <3>1. local[d].at \in Int
      BY DEF Known, Index, Typed, ConsumersTyped, Locals
    <3>2. headers[k].index \in Seq(Entries) /\ Capacity(headers[k]) > 0 /\ Capacity(headers[k]) \in Nat
      BY HeaderIs, IndexHas DEF Known
    <3> QED BY <3>1, <3>2, EntryAtIn
  <2>9. EntryAt(headers'[k], local[d].at) = EntryAt(headers[k], local[d].at)
    BY <2>2 DEF EntryAt, Capacity
  <2>10. pc[d] = "entry" => entries[EntryAt(headers[k], local[d].at)].key # INVALID_BLOCK_BASE
    BY <2>1 DEF StockInv, Seeks
  <2>11. pc[d] = "entry" => entries'[EntryAt(headers'[k], local[d].at)].key # INVALID_BLOCK_BASE
    BY <1>1, <2>8, <2>9, <2>10 DEF IndexGrowsOnly
  <2> QED BY <2>1, <2>6, <2>7, <2>11
<1>5. ASSUME pc[d] \in {"block", "take", "count"}
      PROVE  Has(local[d].entry, Nr(Held(d)))' /\ entries'[local[d].entry] = entries[local[d].entry]
  <2>1. PICK e \in Entries : e = local[d].entry
    BY <1>5 DEF Known, Index, Typed, ConsumersTyped
  <2>2. Has(e, Nr(Held(d)))
    BY <1>5, <2>1 DEF StockInv, Seeks
  <2>3. entries'[e] = entries[e]
    BY <1>2, <1>5, <2>2, WantedKept DEF Holding, Untaken
  <2> QED BY <1>3, <2>1, <2>2, <2>3 DEF Has
<1>6. pc[d] \in {"take", "count", "clear"} =>
          local[d].block # Null /\ local[d].block = entries'[local[d].entry].value
  BY <1>5, SeeksClear DEF StockInv, Seeks
<1>7. pc[d] = "clear" =>
          /\ EmptyIn(local[d].entry)' = BLOCK_SIZE
          /\ \A c \in Consumers \ {d} : pc'[c] = "clear" => local'[c].entry # local[d].entry
  BY SeeksClear
<1> QED BY <1>4, <1>5, <1>6, <1>7 DEF Seeks

\* The tail of the newest index has a key, when a block is in the index.
LEMMA TailWritten ==
    ASSUME Index, NEW k \in 1 .. Len(headers), NEW p \in Places(headers[k]),
           entries[EntryIn(headers[k], p)].value # Null,
           entries[EntryIn(headers[k], p)].key # INVALID_BLOCK_BASE
    PROVE  entries[EntryAt(headers[k], headers[k].tail)].key # INVALID_BLOCK_BASE
<1>1. EntryAt(headers[k], headers[k].tail) = EntryIn(headers[k], headers[k].tail)
      /\ headers[k].tail \in Places(headers[k])
  <2>1. PICK c \in Nat \ {0} : c = Capacity(headers[k]) /\ Places(headers[k]) = 0 .. c - 1
    BY HeaderIs, IndexHas DEF Places
  <2>2. PICK t \in 0 .. c - 1 : t = headers[k].tail
    BY <2>1, HeaderIs, IndexHas
  <2>3. c * 0 + t = t
    OBVIOUS
  <2>4. (c * 0 + t) % c = t
    BY ModIs
  <2> QED BY <2>1, <2>2, <2>3, <2>4 DEF EntryAt, EntryIn
<1>2. CASE k # Len(headers)
  BY <1>1, <1>2 DEF Index, KeysInv, OlderWritten
<1>3. CASE k = Len(headers)
  <2>1. PICK n \in Nat \ {0} : \E t \in 0 .. n - 1 : \E i \in Nat :
                 n = Size /\ t = blockIndex.tail /\ i = Inserted /\ Places(blockIndex) = 0 .. n - 1
    BY IndexHas
  <2>2. PICK t \in 0 .. n - 1 : t = blockIndex.tail /\ n = Size /\ Places(blockIndex) = 0 .. n - 1
    BY <2>1
  <2>3. blockIndex = headers[k]
    BY <1>3 DEF blockIndex, Last
  <2>4. p \in 0 .. n - 1 /\ Written(p) /\ Here(p).value # Null
    BY <2>2, <2>3 DEF Written, Here
  <2>5. PICK f \in 0 .. n : WrittenTo(f)
    BY <2>2 DEF Index, KeysInv
  <2>6. NextPlace = IF t = n - 1 THEN 0 ELSE t + 1
    BY <2>2, IndexHas, NextPlaceIs
  <2>7. \A x \in 0 .. n - 1 : Written(x) <=> x < f
    BY <2>2, <2>5 DEF WrittenTo
  <2>8. f = n \/ f = NextPlace \/ (f = NextPlace + 1 /\ Here(NextPlace).value = Null)
    BY <2>2, <2>5 DEF WrittenTo
  <2>9. t < f
    <3>1. CASE f = n
      BY <3>1
    <3>2. CASE f = NextPlace
      BY <2>4, <2>6, <2>7, <3>2
    <3>3. CASE f = NextPlace + 1 /\ Here(NextPlace).value = Null
      <4>1. CASE t # n - 1
        BY <2>6, <3>3, <4>1
      <4>2. CASE t = n - 1
        <5>1. f = 1 /\ Here(0).value = Null
          BY <2>6, <3>3, <4>2
        <5>2. p = 0
          BY <2>4, <2>7, <5>1
        <5> QED BY <2>4, <5>1, <5>2
      <4> QED BY <4>1, <4>2
    <3> QED BY <2>8, <3>1, <3>2, <3>3
  <2>10. Written(t)
    BY <2>7, <2>9
  <2> QED BY <1>1, <2>2, <2>3, <2>10 DEF Written, Here
<1> QED BY <1>2, <1>3

LEMMA SeeksLoadBlockIndex ==
    ASSUME Known, StockInv, NEW c \in Consumers, LoadBlockIndex(c)
    PROVE  Seeks(c)'
<1>1. PICK k \in 1 .. Len(headers) : k = Len(headers) /\ blockIndex = headers[k]
  BY LastIs, IndexHas DEF Known
<1>2. /\ pc[c] = "header" /\ pc'[c] = "indexTail" /\ UNCHANGED <<headers, entries>>
      /\ local'[c].header = k /\ Held(c)' = Held(c)
  <2>1. local'[c].header = k
    BY <1>1 DEF LoadBlockIndex, Sets, Known, Index, Typed, ConsumersTyped, Locals
  <2>2. Held(c)' = Held(c)
    BY DEF LoadBlockIndex, Sets, Known, Index, Typed, ConsumersTyped, Locals, Held
  <2> QED BY <2>1, <2>2 DEF LoadBlockIndex, Goes, rest, Known, Index, Typed, ConsumersTyped
<1>3. PICK e \in Entries : Has(e, Nr(Held(c)))
  BY <1>2, HeldHas DEF Holding, Untaken, Seeking, StockInv
<1>4. PICK p \in Places(headers[k]) : EntryIn(headers[k], p) = e
  BY <1>1, IndexHas DEF AllIndexed, Known
<1>5. Has(e, Nr(Held(c)))'
  BY <1>2, <1>3 DEF Has, Nr
<1>6. Places(headers[local[c].header])' = Places(headers[k]) /\ EntryIn(headers[local[c].header], p)' = e
  BY <1>2, <1>4 DEF Places, Capacity, EntryIn
<1>7. Has(EntryIn(headers[local[c].header], p), Nr(Held(c)))'
  BY <1>5, <1>6 DEF Has
<1> QED BY <1>2, <1>6, <1>7 DEF Seeks

LEMMA SeeksLoadIndexTail ==
    ASSUME Known, StockInv, NEW c \in Consumers, LoadIndexTail(c)
    PROVE  Seeks(c)'
<1>1. pc[c] = "indexTail" /\ pc'[c] = "entry" /\ UNCHANGED <<headers, entries>>
  BY DEF LoadIndexTail, Goes, rest, Known, Index, Typed, ConsumersTyped
<1>2. PICK k \in 1 .. Len(headers) : k = local[c].header
  BY <1>1 DEF Known, Index, Typed, ConsumersTyped
<1>3. local'[c].header = k /\ Held(c)' = Held(c) /\ local'[c].at = headers[k].tail
  <2>1. local'[c].at = headers[k].tail
    BY <1>2 DEF LoadIndexTail, Sets, Known, Index, Typed, ConsumersTyped, Locals
  <2>2. Held(c)' = Held(c) /\ local'[c].header = local[c].header
    BY DEF LoadIndexTail, Sets, Known, Index, Typed, ConsumersTyped, Locals, Held
  <2> QED BY <1>2, <2>1, <2>2
<1>4. PICK p \in Places(headers[k]) : Has(EntryIn(headers[k], p), Nr(Held(c)))
  BY <1>1, <1>2 DEF StockInv, Seeks
<1>5. entries[EntryIn(headers[k], p)].key # INVALID_BLOCK_BASE
  <2>1. Nr(Held(c)) \in Int
    BY <1>1, HeldIs DEF Holding, Untaken, Seeking
  <2> QED BY <1>4, <2>1, MultipleIsValid DEF Has
<1>6. entries[EntryAt(headers[k], headers[k].tail)].key # INVALID_BLOCK_BASE
  BY <1>4, <1>5, TailWritten DEF Has, Known
<1>7. entries'[EntryAt(headers[local[c].header], local[c].at)'].key # INVALID_BLOCK_BASE
  BY <1>1, <1>3, <1>6 DEF EntryAt, Capacity
<1>8. Places(headers[local[c].header])' = Places(headers[k])
      /\ Has(EntryIn(headers[local[c].header], p), Nr(Held(c)))'
  BY <1>1, <1>3, <1>4 DEF Places, Capacity, EntryIn, Has, Nr
<1> QED BY <1>1, <1>7, <1>8 DEF Seeks

LEMMA SeeksFindBlock ==
    ASSUME Known, StockInv, NEW c \in Consumers, FindBlock(c)
    PROVE  Seeks(c)'
<1>1. pc[c] = "entry" /\ pc'[c] = "block" /\ UNCHANGED <<headers, entries>>
  BY DEF FindBlock, Goes, rest, Known, Index, Typed, ConsumersTyped
<1>2. PICK k \in 1 .. Len(headers) : k = local[c].header
  BY <1>1 DEF Known, Index, Typed, ConsumersTyped
<1>3. PICK a \in Nat : a = local[c].at
  BY DEF Known, Index, Typed, ConsumersTyped, Locals
<1>4. PICK n \in Nat : n = Nr(Held(c)) /\ Base(Held(c)) = BLOCK_SIZE * n
  BY <1>1, HeldIs, NrIs DEF Holding, Untaken, Seeking
<1>5. PICK p \in Places(headers[k]) : Has(EntryIn(headers[k], p), n)
  BY <1>1, <1>2, <1>4 DEF StockInv, Seeks
<1>6. entries[EntryAt(headers[k], a)].key # INVALID_BLOCK_BASE
  BY <1>1, <1>2, <1>3 DEF StockInv, Seeks
<1>7. PICK e \in Entries : e = EntryIn(headers[k], p)
  BY HeaderIs, IndexHas DEF Known
<1>8. EntryAt(headers[k], a + Capacity(headers[k])
                        + ((BLOCK_SIZE * n - entries[EntryAt(headers[k], a)].key) \div BLOCK_SIZE)) = e
  BY <1>5, <1>6, <1>7, Lookup DEF Has, Known
<1>9. EntryAt(headers[k], Position(local[c], entries[EntryAt(headers[k], a)].key)) = e
  BY <1>2, <1>3, <1>4, <1>8 DEF Position, Held
<1>10. local'[c].entry = e
  <2>1. local' = [local EXCEPT ![c].entry = e]
    BY <1>2, <1>3, <1>9 DEF FindBlock, Sets
  <2> QED BY <2>1 DEF Known, Index, Typed, ConsumersTyped, Locals
<1>11. Held(c)' = Held(c)
  <2>1. \A v : [local EXCEPT ![c]["entry"] = v][c].index = local[c].index
    BY DEF Known, Index, Typed, ConsumersTyped, Locals
  <2>2. PICK v : local' = [local EXCEPT ![c]["entry"] = v]
    BY DEF FindBlock, Sets
  <2> QED BY <2>1, <2>2 DEF Held
<1>12. Has(local[c].entry, Nr(Held(c)))'
  BY <1>1, <1>4, <1>5, <1>7, <1>10, <1>11 DEF Has, Nr
<1> QED BY <1>1, <1>12 DEF Seeks

LEMMA SeeksLoadBlock ==
    ASSUME Known, StockInv, NEW c \in Consumers, LoadBlock(c)
    PROVE  Seeks(c)'
<1>1. pc[c] = "block" /\ pc'[c] = "take" /\ UNCHANGED <<headers, entries>>
  BY DEF LoadBlock, Goes, rest, Known, Index, Typed, ConsumersTyped
<1>2. Has(local[c].entry, Nr(Held(c)))
  BY <1>1 DEF StockInv, Seeks
<1>3. local'[c].block = entries[local[c].entry].value
  BY DEF LoadBlock, Sets, Known, Index, Typed, ConsumersTyped, Locals
<1>4. Held(c)' = Held(c) /\ local'[c].entry = local[c].entry
  BY DEF LoadBlock, Sets, Known, Index, Typed, ConsumersTyped, Locals, Held
<1>5. Has(local[c].entry, Nr(Held(c)))'
  BY <1>1, <1>2, <1>4 DEF Has, Nr
<1> QED BY <1>1, <1>2, <1>3, <1>4, <1>5 DEF Seeks, Has

LEMMA SeeksTake ==
    ASSUME Known, StockInv, NEW c \in Consumers, Take(c)
    PROVE  Seeks(c)'
<1>1. pc[c] = "take" /\ pc'[c] = "count" /\ UNCHANGED <<headers, entries, local>>
  BY DEF Take, Goes, rest, Known, Index, Typed, ConsumersTyped
<1>2. Has(local[c].entry, Nr(Held(c))) /\ local[c].block # Null /\ local[c].block = entries[local[c].entry].value
  BY <1>1 DEF StockInv, Seeks
<1>3. Has(local[c].entry, Nr(Held(c)))'
  BY <1>1, <1>2 DEF Has, Nr, Held
<1> QED BY <1>1, <1>2, <1>3 DEF Seeks

LEMMA SeeksCountEmpty ==
    ASSUME Known, StockInv, NEW c \in Consumers, CountEmpty(c)
    PROVE  Seeks(c)'
<1>1. PICK e \in Entries : \E n \in Nat : \E b \in Blocks : \E x \in Nat :
              /\ e = local[c].entry /\ n = Nr(Held(c)) /\ Has(e, n) /\ c \in Holders(n)
              /\ b = local[c].block /\ b = entries[e].value
              /\ x = elementsCompletelyDequeued[b] /\ x < BLOCK_SIZE
              /\ elementsCompletelyDequeued' = [elementsCompletelyDequeued EXCEPT ![b] = x + 1]
              /\ pc[c] = "count" /\ pc'[c] = IF x + 1 = BLOCK_SIZE THEN "clear" ELSE "idle"
              /\ x + 1 = BLOCK_SIZE => local' = local
              /\ UNCHANGED <<entries, headIndex>>
  BY CountEmptyDoes
<1>2. PICK b \in Blocks, x \in Nat :
              /\ e = local[c].entry /\ entries[e].value # Null
              /\ b = local[c].block /\ b = entries[e].value
              /\ x = elementsCompletelyDequeued[b] /\ x < BLOCK_SIZE
              /\ elementsCompletelyDequeued' = [elementsCompletelyDequeued EXCEPT ![b] = x + 1]
              /\ pc[c] = "count" /\ pc'[c] = IF x + 1 = BLOCK_SIZE THEN "clear" ELSE "idle"
              /\ x + 1 = BLOCK_SIZE => local' = local
              /\ UNCHANGED <<entries, headIndex>>
  BY <1>1 DEF Has
<1>3. CASE x + 1 # BLOCK_SIZE
  BY <1>2, <1>3 DEF Seeks
<1>4. CASE x + 1 = BLOCK_SIZE
  <2>1. pc'[c] = "clear" /\ local' = local /\ entries' = entries
    BY <1>2, <1>4
  <2>2. elementsCompletelyDequeued'[b] = BLOCK_SIZE
    BY <1>2, <1>4 DEF Known, Index, Typed, BlocksTyped
  <2>3. EmptyIn(local[c].entry)' = BLOCK_SIZE
    BY <1>2, <2>1, <2>2 DEF EmptyIn
  <2>4. ASSUME NEW d \in Consumers \ {c}, pc'[d] = "clear" PROVE local[d].entry # e
    <3>1. pc[d] = "clear"
      <4>1. Dequeue(c)
        BY DEF Dequeue
      <4> QED BY <2>4, <4>1, OthersWait DEF Known, Index
    <3>2. EmptyIn(e) # BLOCK_SIZE
      BY <1>2, SizeOfBlock DEF EmptyIn
    <3> QED BY <3>1, <3>2, ClearIs
  <2>5. local'[c].block # Null /\ local'[c].block = entries'[local'[c].entry].value
    BY <1>2, <2>1, BlocksAssumption DEF Blocks
  <2> QED BY <1>2, <2>1, <2>3, <2>4, <2>5 DEF Seeks
<1> QED BY <1>3, <1>4

LEMMA SeeksStep ==
    ASSUME Known, StockInv, [Next]_vars, NEW d \in Consumers
    PROVE  Seeks(d)'
<1>1. CASE Producer \/ Destroy \/ UNCHANGED vars
  BY <1>1, ProducerWaits, SeeksKeep
<1>2. ASSUME NEW c \in Consumers, Dequeue(c), c # d PROVE Seeks(d)'
  BY <1>2, OthersWait, SeeksKeep DEF Known, Index
<1>3. CASE Dequeue(d)
  <2>1. CASE LoadTail(d) \/ LoadOvercommit(d) \/ SeesItem(d) \/ SeesNone(d) \/ Commit(d) \/ Recheck(d)
             \/ GiveBack(d) \/ Claim(d) \/ ClearEntry(d) \/ Release(d)
    <3>1. pc'[d] \in {"overcommit", "optimistic", "commit", "idle", "recheck", "claim", "giveBack",
                      "header", "release"}
      BY <2>1
      DEF LoadTail, LoadOvercommit, SeesItem, SeesNone, Commit, Recheck, GiveBack,
          Claim, ClearEntry, Release, Goes, Known, Index, Typed, ConsumersTyped
    <3> QED BY <3>1 DEF Seeks
  <2> QED BY <1>3, <2>1, SeeksLoadBlockIndex, SeeksLoadIndexTail, SeeksFindBlock,
             SeeksLoadBlock, SeeksTake, SeeksCountEmpty DEF Dequeue
<1> QED BY <1>1, <1>2, <1>3 DEF Next

-------------------------------------------------------------------------------
(* Each block has one owner *)

Obtains == FromInitialPool \/ FromFreeList \/ FromMalloc

LEMMA StoreValueEntry ==
    ASSUME Known, StoreValue
    PROVE  mine.entry \in Entries /\ entries'[mine.entry].value = mine.block /\ Entries' = Entries
<1>1. PICK e \in Entries : \E i \in Nat :
              /\ e = mine.entry /\ Entries' = Entries
              /\ entries'[e] = [key |-> BLOCK_SIZE * i, value |-> mine.block]
  BY StoreValueDoes DEF Known
<1>2. entries'[e].value = mine.block
  BY <1>1
<1> QED BY <1>1, <1>2

LEMMA OneEntryStep ==
    ASSUME Known, StockInv, [Next]_vars
    PROVE  OneEntry'
<1>1. ASSUME NEW d \in Entries', NEW e \in Entries', entries'[d].value = entries'[e].value,
             entries'[d].value # Null
      PROVE  d = e
  <2>1. \A f \in Entries' : entries'[f].value # Null =>
            \/ f \in Entries /\ entries[f].value # Null /\ entries'[f] = entries[f]
            \/ StoreValue /\ f = mine.entry
    BY StockFrom DEF Known
  <2>2. CASE ~StoreValue
    BY <1>1, <2>1, <2>2 DEF StockInv, OneEntry
  <2>3. CASE StoreValue
    <3>1. ~InIndex(mine.block) /\ entries'[mine.entry].value = mine.block
      BY <2>3, StoreValueKeeps, StoreValueEntry
    <3> QED BY <1>1, <2>1, <3>1 DEF InIndex, StockInv, OneEntry
  <2> QED BY <2>2, <2>3
<1>2. ASSUME NEW e \in Entries', Has(e, Stored - 1)'
      PROVE  entries'[e].value = tailBlock'
  <2>1. entries'[e].value # Null
    BY <1>2 DEF Has
  <2>2. CASE StoreValue
    <3>1. PICK i \in Nat : i = Stored /\ Stored' = i + 1
                /\ entries'[mine.entry] = [key |-> BLOCK_SIZE * i, value |-> mine.block]
      BY <2>2, StoreValueDoes DEF Known
    <3>2. tailBlock' = mine.block
      BY <2>2 DEF StoreValue
    <3>3. CASE e = mine.entry
      BY <3>1, <3>2, <3>3
    <3>4. CASE e # mine.entry
      <4>1. e \in Entries /\ entries[e].value # Null /\ entries'[e] = entries[e]
        BY <2>1, <3>4, StockFrom DEF Known
      <4>2. entries[e].key = BLOCK_SIZE * i
        <5>1. Stored' - 1 = i
          BY <3>1
        <5> QED BY <1>2, <4>1, <5>1 DEF Has
      <4>3. Has(e, i)
        BY <4>1, <4>2 DEF Has
      <4>4. Nr(entries[e].key) = i
        BY <4>1, <4>3, HasOnly DEF Known
      <4> QED BY <3>1, <4>1, <4>4, StockHas DEF Known
    <3> QED BY <3>3, <3>4
  <2>3. CASE ~StoreValue
    <3>1. e \in Entries /\ entries'[e] = entries[e]
      BY <2>1, <2>3, StockFrom DEF Known
    <3>2. Stored' = Stored
      BY <2>3, StoredStays DEF Known
    <3>3. tailBlock' = tailBlock
      BY <2>3, OthersWait
      DEF Next, vars, Producer, Enqueue, FindEntry, GrowIndex, GrowFails, StoreKey,
          StoreTail, FromInitialPool, FromFreeList, FromMalloc, Obtain,
          RequisitionFails, Construct, Publish, Destroy, producer, Known, Index
    <3>4. Has(e, Stored - 1)
      BY <1>2, <3>1, <3>2 DEF Has
    <3> QED BY <3>1, <3>3, <3>4 DEF StockInv, OneEntry
  <2> QED BY <2>2, <2>3
<1> QED BY <1>1, <1>2 DEF OneEntry

LEMMA InIndexStep ==
    ASSUME Known, StockInv, [Next]_vars, NEW b \in Blocks
    PROVE  /\ InIndex(b)' => InIndex(b) \/ (StoreValue /\ b = mine.block)
           /\ InIndex(b) => InIndex(b)' \/ \E c \in Consumers : ClearEntry(c) /\ local[c].block = b
           /\ StoreValue /\ b = mine.block => InIndex(b)'
           /\ \A c \in Consumers : ClearEntry(c) => InIndex(local[c].block) /\ ~InIndex(local[c].block)'
<1> b # Null
  BY BlocksAssumption DEF Blocks
<1>1. ASSUME InIndex(b)' PROVE InIndex(b) \/ (StoreValue /\ b = mine.block)
  <2>1. PICK e \in Entries' : entries'[e].value = b
    BY <1>1 DEF InIndex
  <2>2. StoreValue => entries'[mine.entry].value = mine.block
    BY StoreValueEntry
  <2> QED BY <2>1, <2>2, StockFrom DEF InIndex, Known
<1>2. ASSUME InIndex(b) PROVE InIndex(b)' \/ \E c \in Consumers : ClearEntry(c) /\ local[c].block = b
  <2>1. PICK e \in Entries : entries[e].value = b
    BY <1>2 DEF InIndex
  <2>2. \A c \in Consumers : ClearEntry(c) /\ local[c].entry = e => local[c].block = b
    <3>1. \A c \in Consumers : ClearEntry(c) => pc[c] = "clear"
      BY DEF ClearEntry, Goes
    <3> QED BY <2>1, <3>1, ClearIs
  <2>3. e \in Entries' /\ entries'[e] = entries[e] => InIndex(b)'
    BY <2>1 DEF InIndex
  <2> QED BY <2>1, <2>2, <2>3, EntryKept DEF Known
<1>3. ASSUME StoreValue, b = mine.block PROVE InIndex(b)'
  BY <1>3, StoreValueEntry DEF InIndex
<1>4. ASSUME NEW c \in Consumers, ClearEntry(c)
      PROVE  InIndex(local[c].block) /\ ~InIndex(local[c].block)'
  <2>1. PICK e \in Entries : e = local[c].entry /\ entries[e].value # Null /\ local[c].block = entries[e].value
    <3>1. pc[c] = "clear"
      BY <1>4 DEF ClearEntry, Goes
    <3> QED BY <3>1, ClearIs
  <2>2. Entries' = Entries /\ entries'[e].value = Null /\ \A d \in Entries : d # e => entries'[d] = entries[d]
    BY <1>4, <2>1, ClearEntryDoes DEF Known
  <2>3. \A d \in Entries : entries'[d].value # local[c].block
    BY <2>1, <2>2 DEF StockInv, OneEntry
  <2>4. local' = local
    BY <1>4 DEF ClearEntry
  <2> QED BY <2>1, <2>2, <2>3, <2>4 DEF InIndex
<1> QED BY <1>1, <1>2, <1>3, <1>4

LEMMA MineStep ==
    ASSUME Known, StockInv, [Next]_vars
    PROVE  /\ ~StoreValue /\ ~Obtains => mine'.block = mine.block /\ (step' = "value" <=> step = "value")
           /\ StoreValue => mine.block # Null /\ mine'.block = Null /\ step' # "value"
<1>1. mine \in [entry : Nat, block : Blocks \cup {Null}] /\ (mine.block # Null <=> step = "value")
  BY DEF Known, Index, Typed, ProducerTyped, StockInv, OneOwner
<1>2. CASE Producer \/ Destroy \/ UNCHANGED vars
  BY <1>1, <1>2
  DEF Obtains, Producer, Enqueue, FindEntry, GrowIndex, GrowFails, StoreKey, StoreTail,
      RequisitionFails, StoreValue, Construct, Publish, Destroy, vars, producer,
      ProducerGoes, NoneMine
<1>3. ASSUME NEW c \in Consumers, Dequeue(c) PROVE mine' = mine /\ step' = step
  BY <1>3, OthersWait DEF producer, Known, Index
<1>4. StoreValue => mine.block # Null /\ mine'.block = Null /\ step' # "value"
  BY <1>1 DEF StoreValue, ProducerGoes, NoneMine
<1> QED BY <1>2, <1>3, <1>4 DEF Next

LEMMA ReleasingStep ==
    ASSUME Known, StockInv, [Next]_vars, NEW c \in Consumers
    PROVE  /\ pc'[c] = "release" => local'[c] = local[c] /\ (pc[c] = "release" \/ ClearEntry(c))
           /\ pc[c] = "release" => Release(c) \/ (pc'[c] = "release" /\ local'[c] = local[c])
           /\ ClearEntry(c) => pc'[c] = "release" /\ pc[c] = "clear"
           /\ Release(c) => pc'[c] = "idle" /\ pc[c] = "release"
<1>1. CASE Producer \/ Destroy \/ UNCHANGED vars
  <2>1. ~ClearEntry(c) /\ ~Release(c)
    <3>1. ClearEntry(c) \/ Release(c) => pc'[c] # pc[c]
      BY DEF ClearEntry, Release, Goes, Known, Index, Typed, ConsumersTyped
    <3> QED BY <1>1, <3>1, ProducerWaits
  <2> QED BY <1>1, <2>1, ProducerWaits
<1>2. ASSUME NEW d \in Consumers, Dequeue(d), c # d
      PROVE  pc'[c] = pc[c] /\ local'[c] = local[c]
  BY <1>2, OthersWait DEF Known, Index
<1>3. ClearEntry(c) => pc'[c] = "release" /\ pc[c] = "clear" /\ local' = local
  BY DEF ClearEntry, Goes, Known, Index, Typed, ConsumersTyped
<1>4. Release(c) => pc'[c] = "idle" /\ pc[c] = "release"
  BY DEF Release, Goes, Known, Index, Typed, ConsumersTyped
<1>5. ASSUME Dequeue(c), ~ClearEntry(c), ~Release(c) PROVE pc[c] # "release" /\ pc'[c] # "release"
  BY <1>5
  DEF Dequeue, LoadTail, LoadOvercommit, SeesItem, SeesNone, Commit, Recheck, GiveBack,
      Claim, LoadBlockIndex, LoadIndexTail, FindBlock, LoadBlock, Take, CountEmpty,
      Goes, Known, Index, Typed, ConsumersTyped
<1> QED BY <1>1, <1>2, <1>3, <1>4, <1>5 DEF Next

LEMMA OneOwnerStep ==
    ASSUME Known, StockInv, [Next]_vars
    PROVE  OneOwner'
<1>1. mine.block \in Blocks \cup {Null} /\ (mine.block # Null <=> step = "value")
      /\ elementsCompletelyDequeued \in [Blocks -> Nat] /\ Null \notin Blocks
  BY BlocksAssumption
  DEF Known, Index, Typed, ProducerTyped, BlocksTyped, StockInv, OneOwner, Blocks
<1>2. ASSUME Obtains
      PROVE  \E b \in Blocks :
                 /\ ~Used(b) /\ mine'.block = b /\ step' = "value" /\ UNCHANGED <<entries, pc, local>>
                 /\ elementsCompletelyDequeued' = [elementsCompletelyDequeued EXCEPT ![b] = 0]
  BY <1>2, ObtainsUnused DEF Obtains, Known, Index, Typed, ProducerTyped
<1>3. (mine.block # Null <=> step = "value")'
  BY <1>1, <1>2, MineStep
<1>4. (mine.block # Null => ~InIndex(mine.block) /\ elementsCompletelyDequeued[mine.block] = 0)'
  <2>1. CASE Obtains
    BY <1>1, <1>2, <2>1 DEF Used, InIndex, Entries
  <2>2. CASE ~StoreValue /\ ~Obtains /\ mine.block # Null
    <3>1. PICK b \in Blocks : b = mine.block /\ mine'.block = b
      BY <1>1, <2>2, MineStep
    <3>2. ~InIndex(b) /\ elementsCompletelyDequeued[b] = 0
      BY <2>2, <3>1 DEF StockInv, OneOwner
    <3>3. ~InIndex(b)'
      BY <2>2, <3>2, InIndexStep
    <3>4. elementsCompletelyDequeued'[b] = 0
      <4>1. ASSUME NEW c \in Consumers, CountEmpty(c) PROVE elementsCompletelyDequeued'[b] = 0
        <5>1. PICK e \in Entries : \E n \in Nat : \E a \in Blocks : \E x \in Nat :
                 a = entries[e].value
                 /\ elementsCompletelyDequeued' = [elementsCompletelyDequeued EXCEPT ![a] = x + 1]
          BY <4>1, CountEmptyDoes
        <5> QED BY <1>1, <3>2, <5>1 DEF InIndex
      <4>2. CASE \A c \in Consumers : ~CountEmpty(c)
        <5>1. elementsCompletelyDequeued' = elementsCompletelyDequeued
          BY <2>2, <4>2
          DEF Obtains, Next, vars, Producer, Dequeue, Enqueue, FindEntry, GrowIndex,
              GrowFails, StoreKey, StoreTail, RequisitionFails, StoreValue, Construct,
              Publish, Destroy, blocks, LoadTail, LoadOvercommit, SeesItem, SeesNone,
              Commit, Recheck, GiveBack, Claim, LoadBlockIndex, LoadIndexTail,
              FindBlock, LoadBlock, Take, ClearEntry, Release, rest
        <5> QED BY <3>2, <5>1
      <4> QED BY <4>1, <4>2
    <3>5. InIndex(mine.block)' = InIndex(b)'
      BY <3>1 DEF InIndex
    <3> QED BY <3>1, <3>3, <3>4, <3>5
  <2>3. CASE (StoreValue \/ mine.block = Null) /\ ~Obtains
    BY <2>3, MineStep
  <2> QED BY <2>1, <2>2, <2>3
<1>5. ASSUME NEW c \in Consumers, pc'[c] = "release"
      PROVE  /\ local'[c].block # Null /\ local'[c].block # mine'.block /\ ~InIndex(local[c].block)'
             /\ \A d \in Consumers \ {c} : pc'[d] = "release" => local'[d].block # local'[c].block
  <2>1. local'[c] = local[c] /\ (pc[c] = "release" \/ ClearEntry(c))
    BY <1>5, ReleasingStep
  <2>2. \A d \in Consumers : ClearEntry(d) => InIndex(local[d].block) /\ local[d].block # Null
           /\ local[d].block \in Blocks /\ ~InIndex(local[d].block)'
    <3>1. ASSUME NEW d \in Consumers, ClearEntry(d) PROVE local[d].block # Null /\ local[d].block \in Blocks
      <4>1. pc[d] = "clear"
        BY <3>1 DEF ClearEntry, Goes
      <4>2. local[d].block \in Blocks \cup {Null}
        BY DEF Known, Index, Typed, ConsumersTyped, Locals
      <4> QED BY <4>1, <4>2 DEF StockInv, Seeks
    <3>2. ASSUME NEW d \in Consumers, ClearEntry(d) PROVE InIndex(local[d].block) /\ ~InIndex(local[d].block)'
      BY <3>1, <3>2, InIndexStep
    <3> QED BY <3>1, <3>2
  <2>3. local[c].block \in Blocks \cup {Null}
    BY DEF Known, Index, Typed, ConsumersTyped, Locals
  <2>4. pc[c] = "release" => /\ local[c].block # Null /\ local[c].block # mine.block /\ ~InIndex(local[c].block)
                             /\ \A d \in Consumers \ {c} : pc[d] = "release" => local[d].block # local[c].block
    BY DEF StockInv, OneOwner, Releasing
  <2>5. PICK b \in Blocks : b = local[c].block
    BY <2>1, <2>2, <2>3, <2>4
  <2>6. local'[c].block = b /\ b # Null
    BY <1>1, <2>1, <2>5
  <2>7. b # mine.block
    BY <1>1, <2>1, <2>2, <2>4, <2>5 DEF StockInv, OneOwner
  <2>8. b # mine'.block
    <3>1. CASE Obtains
      <4>1. Used(b)
        <5>1. pc[c] = "release" => c \in Releasing
          BY DEF Releasing
        <5> QED BY <2>1, <2>2, <2>5, <5>1 DEF Used
      <4> QED BY <1>2, <3>1, <4>1
    <3>2. CASE ~Obtains
      BY <2>6, <2>7, <3>2, MineStep
    <3> QED BY <3>1, <3>2
  <2>9. ~InIndex(b)'
    BY <2>1, <2>2, <2>4, <2>5, <2>7, InIndexStep DEF InIndex
  <2>10. InIndex(local[c].block)' = InIndex(b)'
    BY <2>6 DEF InIndex
  <2>11. ASSUME NEW d \in Consumers \ {c}, pc'[d] = "release" PROVE local'[d].block # b
    <3>1. local'[d] = local[d] /\ (pc[d] = "release" \/ ClearEntry(d))
      BY <2>11, ReleasingStep
    <3>2. ~(ClearEntry(c) /\ ClearEntry(d))
      <4>1. ClearEntry(c) => pc'[c] # pc[c]
        BY DEF ClearEntry, Goes, Known, Index, Typed, ConsumersTyped
      <4>2. ClearEntry(d) => pc'[c] = pc[c]
        BY OthersWait DEF Dequeue, Known, Index
      <4> QED BY <4>1, <4>2
    <3>3. pc[d] = "release" => ~InIndex(local[d].block)
      BY DEF StockInv, OneOwner, Releasing
    <3> QED BY <2>1, <2>2, <2>4, <2>5, <3>1, <3>2, <3>3
  <2> QED BY <2>6, <2>8, <2>9, <2>10, <2>11
<1> QED BY <1>3, <1>4, <1>5 DEF OneOwner, Releasing

LEMMA UsedStays ==
    ASSUME Known, StockInv, [Next]_vars, ~Obtains, \A c \in Consumers : ~Release(c), NEW b \in Blocks
    PROVE  Used(b)' <=> Used(b)
<1>1. b # Null
  BY BlocksAssumption DEF Blocks
<1>2. ASSUME Used(b)' PROVE Used(b)
  <2>1. CASE InIndex(b)'
    BY <2>1, InIndexStep DEF Used
  <2>2. CASE mine'.block = b
    BY <1>1, <2>2, MineStep DEF Used
  <2>3. ASSUME NEW c \in Consumers, pc'[c] = "release", local'[c].block = b PROVE Used(b)
    <3>1. local'[c] = local[c] /\ (pc[c] = "release" \/ ClearEntry(c))
      BY <2>3, ReleasingStep
    <3>2. ClearEntry(c) => InIndex(local[c].block)
      BY InIndexStep
    <3> QED BY <2>3, <3>1, <3>2 DEF Used, Releasing
  <2> QED BY <1>2, <2>1, <2>2, <2>3 DEF Used, Releasing
<1>3. ASSUME Used(b) PROVE Used(b)'
  <2>1. ASSUME NEW c \in Consumers, ClearEntry(c), local[c].block = b PROVE Used(b)'
    <3>1. pc'[c] = "release" /\ local'[c].block = b
      BY <2>1, ReleasingStep
    <3> QED BY <3>1 DEF Used, Releasing
  <2>2. CASE InIndex(b)
    BY <2>1, <2>2, InIndexStep DEF Used
  <2>3. CASE mine.block = b
    BY <2>3, MineStep, InIndexStep DEF Used
  <2>4. ASSUME NEW c \in Consumers, pc[c] = "release", local[c].block = b PROVE Used(b)'
    <3>1. pc'[c] = "release" /\ local'[c].block = b
      BY <2>4, ReleasingStep
    <3> QED BY <3>1 DEF Used, Releasing
  <2> QED BY <1>3, <2>2, <2>3, <2>4 DEF Used, Releasing
<1> QED BY <1>2, <1>3

LEMMA UsedObtains ==
    ASSUME Known, StockInv, NEW x \in Blocks, Obtain(x), NEW b \in Blocks
    PROVE  Used(b)' <=> Used(b) \/ b = x
<1>1. b # Null /\ mine.block = Null /\ mine'.block = x /\ UNCHANGED <<entries, pc, local>>
  <2>1. step = "requisition" /\ mine' = [mine EXCEPT !.block = x] /\ UNCHANGED <<entries, pc, local>>
    BY DEF Obtain, ProducerGoes, consumers
  <2>2. mine.block = Null
    BY <2>1 DEF StockInv, OneOwner
  <2>3. mine'.block = x
    BY <2>1 DEF Known, Index, Typed, ProducerTyped
  <2> QED BY <2>1, <2>2, <2>3, BlocksAssumption DEF Blocks
<1>2. InIndex(b)' <=> InIndex(b)
  BY <1>1 DEF InIndex, Entries
<1>3. Releasing' = Releasing
  BY <1>1 DEF Releasing
<1> QED BY <1>1, <1>2, <1>3 DEF Used

LEMMA UsedReleases ==
    ASSUME Known, StockInv, NEW c \in Consumers, Release(c), NEW b \in Blocks
    PROVE  /\ Used(b)' <=> Used(b) /\ b # local[c].block
           /\ local[c].block \in Blocks /\ Used(local[c].block)
<1>1. pc[c] = "release" /\ pc'[c] = "idle" /\ UNCHANGED <<entries, mine>>
      /\ \A d \in Consumers : d # c => pc'[d] = pc[d] /\ local'[d] = local[d]
  BY DEF Release, Goes, Forgets, producer, Known, Index, Typed, ConsumersTyped
<1>2. PICK x \in Blocks : x = local[c].block
  BY <1>1 DEF StockInv, OneOwner, Releasing, Known, Index, Typed, ConsumersTyped, Locals
<1>3. c \in Releasing /\ Used(x)
  BY <1>1, <1>2 DEF Releasing, Used
<1>4. /\ x # mine.block /\ ~InIndex(x)
      /\ \A d \in Consumers \ {c} : pc[d] = "release" => local[d].block # x
  BY <1>1, <1>2 DEF StockInv, OneOwner, Releasing
<1>5. InIndex(b)' <=> InIndex(b)
  BY <1>1 DEF InIndex, Entries
<1>6. (\E d \in Releasing : local[d].block = b)' <=> \E d \in Releasing : local[d].block = b /\ d # c
  BY <1>1 DEF Releasing
<1>7. (\E d \in Releasing : local[d].block = b /\ d # c) => b # x
  BY <1>4 DEF Releasing
<1>8. (\E d \in Releasing : local[d].block = b) /\ b # x => \E d \in Releasing : local[d].block = b /\ d # c
  BY <1>2
<1> QED BY <1>1, <1>2, <1>3, <1>4, <1>5, <1>6, <1>7, <1>8 DEF Used

LEMMA PooledStep ==
    ASSUME Known, StockInv, [Next]_vars, ~Destroy
    PROVE  Pooled'
<1> SUFFICES ASSUME TRUE PROVE
        /\ unused' \cap freeList' = {}
        /\ \A b \in Blocks :
              /\ Used(b)' => b \notin unused' \cup freeList'
              /\ Used(b)' \/ b \in unused' \cup freeList' <=> b \in InitialBlocks \cup created'
  BY DEF Pooled
<1>1. /\ unused \cap freeList = {} /\ unused \subseteq InitialBlocks /\ freeList \subseteq InitialBlocks
      /\ created \subseteq OtherBlocks /\ InitialBlocks \cap OtherBlocks = {}
  BY BlocksAssumption DEF StockInv, Pooled, Known, Index, Typed, BlocksTyped
<1>2. \A b \in Blocks : /\ Used(b) => b \notin unused \cup freeList
                        /\ Used(b) \/ b \in unused \cup freeList <=> b \in InitialBlocks \cup created
  BY DEF StockInv, Pooled
<1>3. CASE FromInitialPool
  <2>1. PICK x \in Blocks : Obtain(x) /\ x \in unused /\ unused' = unused \ {x} /\ UNCHANGED <<freeList, created>>
    BY <1>1, <1>3 DEF FromInitialPool, Blocks
  <2> QED BY <1>1, <1>2, <2>1, UsedObtains
<1>4. CASE FromFreeList
  <2>1. PICK x \in Blocks : Obtain(x) /\ x \in freeList /\ freeList' = freeList \ {x} /\ UNCHANGED <<unused, created>>
    BY <1>1, <1>4 DEF FromFreeList, Blocks
  <2> QED BY <1>1, <1>2, <2>1, UsedObtains
<1>5. CASE FromMalloc
  <2>1. PICK x \in Blocks : Obtain(x) /\ x \in OtherBlocks /\ x \notin created /\ created' = created \cup {x}
                            /\ UNCHANGED <<unused, freeList>>
    BY <1>5 DEF FromMalloc, Blocks
  <2> QED BY <1>1, <1>2, <2>1, UsedObtains
<1>6. ASSUME NEW c \in Consumers, Release(c)
      PROVE  /\ unused' \cap freeList' = {}
             /\ \A b \in Blocks :
                   /\ Used(b)' => b \notin unused' \cup freeList'
                   /\ Used(b)' \/ b \in unused' \cup freeList' <=> b \in InitialBlocks \cup created'
  <2>1. PICK x \in Blocks : x = local[c].block /\ Used(x)
    <3>1. \E b \in Blocks : TRUE
      BY <1>6
      DEF Release, Goes, StockInv, OneOwner, Releasing, Known, Index, Typed,
          ConsumersTyped, Locals
    <3> QED BY <1>6, <3>1, UsedReleases
  <2>2. /\ freeList' = freeList \cup ({x} \cap InitialBlocks) /\ created' = created \ {x} /\ unused' = unused
    BY <1>6, <2>1 DEF Release, FreeBlocks
  <2>3. \A b \in Blocks : Used(b)' <=> Used(b) /\ b # x
    BY <1>6, <2>1, UsedReleases
  <2> QED BY <1>1, <1>2, <2>1, <2>2, <2>3 DEF Blocks
<1>7. CASE ~Obtains /\ \A c \in Consumers : ~Release(c)
  <2>1. UNCHANGED <<unused, freeList, created>>
    BY <1>7
    DEF Obtains, Next, vars, Producer, Dequeue, Enqueue, FindEntry, GrowIndex,
        GrowFails, StoreKey, StoreTail, RequisitionFails, StoreValue, Construct,
        Publish, pool, LoadTail, LoadOvercommit, SeesItem, SeesNone, Commit, Recheck,
        GiveBack, Claim, LoadBlockIndex, LoadIndexTail, FindBlock, LoadBlock, Take,
        CountEmpty, ClearEntry, rest
  <2> QED BY <1>1, <1>2, <1>7, <2>1, UsedStays
<1> QED BY <1>3, <1>4, <1>5, <1>6, <1>7 DEF Obtains

LEMMA NoneOverStep ==
    ASSUME Known, StockInv, [Next]_vars
    PROVE  NoneOver'
<1>1. elementsCompletelyDequeued \in [Blocks -> Nat]
      /\ \A b \in Blocks : elementsCompletelyDequeued[b] <= BLOCK_SIZE
  BY DEF StockInv, NoneOver, Known, Index, Typed, BlocksTyped
<1>2. CASE Obtains
  <2>1. PICK x \in Blocks : elementsCompletelyDequeued' = [elementsCompletelyDequeued EXCEPT ![x] = 0]
    BY <1>2, ObtainsUnused DEF Obtains
  <2> QED BY <1>1, <2>1, SizeOfBlock DEF NoneOver
<1>3. ASSUME NEW c \in Consumers, CountEmpty(c) PROVE NoneOver'
  <2>1. PICK e \in Entries : \E n \in Nat : \E b \in Blocks : \E x \in Nat : x < BLOCK_SIZE
              /\ elementsCompletelyDequeued' = [elementsCompletelyDequeued EXCEPT ![b] = x + 1]
    BY <1>3, CountEmptyDoes
  <2>2. PICK b \in Blocks, x \in Nat : x < BLOCK_SIZE
              /\ elementsCompletelyDequeued' = [elementsCompletelyDequeued EXCEPT ![b] = x + 1]
    BY <2>1
  <2> QED BY <1>1, <2>2, SizeOfBlock DEF NoneOver
<1>4. CASE ~Obtains /\ \A c \in Consumers : ~CountEmpty(c)
  <2>1. elementsCompletelyDequeued' = elementsCompletelyDequeued
    BY <1>4
    DEF Obtains, Next, vars, Producer, Dequeue, Enqueue, FindEntry, GrowIndex,
        GrowFails, StoreKey, StoreTail, RequisitionFails, StoreValue, Construct,
        Publish, Destroy, blocks, LoadTail, LoadOvercommit, SeesItem, SeesNone, Commit,
        Recheck, GiveBack, Claim, LoadBlockIndex, LoadIndexTail, FindBlock, LoadBlock,
        Take, ClearEntry, Release, rest
  <2> QED BY <1>1, <2>1 DEF NoneOver
<1> QED BY <1>2, <1>3, <1>4

LEMMA StockStep ==
    ASSUME Known, StockInv, [Next]_vars, ~Destroy
    PROVE  StockInv'
BY BlocksThereStep, CountedStep, SeeksStep, OneEntryStep, OneOwnerStep, PooledStep, NoneOverStep
DEF StockInv

-------------------------------------------------------------------------------
(* The items in the blocks *)

Slots == 0 .. BLOCK_SIZE - 1
\* Item i is constructed, and nobody has taken it.
Full(i) ==
    \/ headIndex <= i /\ (i < tailIndex \/ (i = tailIndex /\ step = "publish"))
    \/ \E c \in Consumers : pc[c] \in Untaken /\ Held(c) = i
OnlyFull ==
    \A b \in Blocks : \A s \in Slots : elements[b][s] # NoItem =>
        \E e \in Entries : entries[e].value = b /\ Full(entries[e].key + s)
FullThere ==
    \A e \in Entries : \A s \in Slots :
        entries[e].value # Null /\ Full(entries[e].key + s) => elements[entries[e].value][s] \in Items
ElementsInv == OnlyFull /\ FullThere

\* The rest of the types.
ItemsTyped ==
    /\ enqueues <= MaxEnqueues /\ (step \notin {"idle", "destroyed"} => enqueues > 0)
    /\ got \in [Consumers -> Seq(Items)]
    /\ mine.entry \in {0} \cup Entries

LEMMA SlotIs ==
    ASSUME Index, NEW e \in Entries, entries[e].value # Null, NEW s \in Slots
    PROVE  /\ entries[e].key + s \in Nat /\ Nr(entries[e].key + s) = Nr(entries[e].key)
           /\ (entries[e].key + s) % BLOCK_SIZE = s /\ entries[e].key + s < entries[e].key + BLOCK_SIZE
           /\ entries[e].key = BLOCK_SIZE * Nr(entries[e].key)
<1>1. PICK n \in Nat : n = Nr(entries[e].key) /\ entries[e].key = BLOCK_SIZE * n
  BY StockHas DEF Has
<1>2. s \in 0 .. BLOCK_SIZE - 1
  BY DEF Slots
<1>3. Nr(BLOCK_SIZE * n + s) = n /\ (BLOCK_SIZE * n + s) % BLOCK_SIZE = s
  BY <1>2, NrOf
<1>4. BLOCK_SIZE * n \in Nat
  BY SizeOfBlock
<1> QED BY <1>1, <1>2, <1>3, <1>4, SizeOfBlock

LEMMA SlotOf ==
    ASSUME NEW i \in Nat
    PROVE  i % BLOCK_SIZE \in Slots /\ i = BLOCK_SIZE * Nr(i) + (i % BLOCK_SIZE) /\ Nr(i) \in Nat
BY NrIs DEF Slots

\* Two slots of one number are one.
LEMMA SlotOnce ==
    ASSUME Index, NEW e \in Entries, entries[e].value # Null, NEW s \in Slots,
           NEW i \in Nat, entries[e].key + s = i
    PROVE  Has(e, Nr(i)) /\ s = i % BLOCK_SIZE
BY SlotIs, StockHas

LEMMA FullWanted ==
    ASSUME Known, NEW e \in Entries, entries[e].value # Null, NEW s \in Slots,
           Full(entries[e].key + s)
    PROVE  Wanted(Nr(entries[e].key))
<1>1. PICK i \in Nat : i = entries[e].key + s /\ Nr(i) = Nr(entries[e].key)
                       /\ i < BLOCK_SIZE * Nr(entries[e].key) + BLOCK_SIZE
  BY SlotIs DEF Known
<1>2. CASE headIndex <= i
  <2>1. PICK a \in Nat : a = BLOCK_SIZE * Nr(entries[e].key)
    BY StockHas, SizeOfBlock DEF Known
  <2> QED BY <1>1, <1>2, <2>1, HeadBelow, SizeOfBlock DEF Wanted
<1>3. ASSUME NEW c \in Consumers, pc[c] \in Untaken, Held(c) = i PROVE Wanted(Nr(entries[e].key))
  <2>1. c \in Holders(Nr(entries[e].key))
    BY <1>1, <1>3 DEF Holders, Holding
  <2> QED BY <2>1 DEF Wanted
<1> QED BY <1>1, <1>2, <1>3 DEF Full

LEMMA ClaimBelow ==
    ASSUME Known, NEW c \in Consumers, Claim(c)
    PROVE  headIndex < tailIndex
<1>1. {d \in Consumers : pc[d] = "claim"} \in SUBSET Consumers
  OBVIOUS
<1>2. c \in {d \in Consumers : pc[d] = "claim"}
  BY DEF Claim, Goes
<1>3. Cardinality({d \in Consumers : pc[d] = "claim"}) \in Nat /\ Cardinality({d \in Consumers : pc[d] = "claim"}) # 0
  BY <1>1, <1>2, ConsumersAssumption, FS_Subset, FS_CardinalityType, FS_EmptySet
<1> QED BY <1>3, HeadBelow DEF Known, CountersInv, Counters, ClaimsPublished

\* An item is constructed by Construct and taken by Take; the other steps move it on.
LEMMA FullStays ==
    ASSUME Known, [Next]_vars, ~Construct, \A c \in Consumers : ~Take(c), NEW i \in Nat
    PROVE  Full(i)' <=> Full(i)
<1>1. headIndex \in Nat /\ tailIndex \in Nat /\ headIndex <= tailIndex
  BY HeadBelow
<1>2. CASE Publish
  <2>1. step = "publish" /\ step' = "idle" /\ tailIndex' = tailIndex + 1 /\ UNCHANGED <<pc, local, headIndex>>
    BY <1>2 DEF Publish, ProducerGoes, consumers
  <2> QED BY <1>1, <2>1 DEF Full, Held
<1>3. CASE (Producer \/ Destroy \/ UNCHANGED vars) /\ ~Publish
  <2>1. (step' = "publish" <=> step = "publish") /\ tailIndex' = tailIndex /\ UNCHANGED <<pc, local, headIndex>>
    BY <1>3
    DEF Producer, Enqueue, FindEntry, GrowIndex, GrowFails, StoreKey, StoreTail,
        FromInitialPool, FromFreeList, FromMalloc, Obtain, RequisitionFails, StoreValue,
        ProducerGoes, Destroy, vars, indexes, producer, consumers
  <2> QED BY <2>1 DEF Full, Held
<1>4. ASSUME NEW c \in Consumers, Dequeue(c), ~Claim(c), ~CountEmpty(c) PROVE Full(i)' <=> Full(i)
  <2>1. /\ UNCHANGED <<tailIndex, step, headIndex>>
        /\ pc'[c] \in Holding => pc[c] \in Holding /\ Held(c)' = Held(c)
        /\ pc[c] \in Holding => pc'[c] \in Holding
        /\ \A d \in Consumers : d # c => pc'[d] = pc[d] /\ Held(d)' = Held(d)
    BY <1>4, OthersWait, HolderStep DEF Held, Known, Index, producer
  <2>2. pc[c] # "count" /\ pc'[c] # "count"
    BY <1>4
    DEF Dequeue, LoadTail, LoadOvercommit, SeesItem, SeesNone, Commit, Recheck,
        GiveBack, Claim, LoadBlockIndex, LoadIndexTail, FindBlock, LoadBlock,
        ClearEntry, Release, Goes, Known, Index, Typed, ConsumersTyped
  <2> QED BY <2>1, <2>2 DEF Full, Holding
<1>5. ASSUME NEW c \in Consumers, CountEmpty(c) PROVE Full(i)' <=> Full(i)
  <2>1. /\ UNCHANGED <<tailIndex, step, headIndex>>
        /\ \A d \in Consumers : d # c => pc'[d] = pc[d] /\ Held(d)' = Held(d)
    <3>1. Dequeue(c)
      BY <1>5 DEF Dequeue
    <3> QED BY <1>5, <3>1, OthersWait DEF Held, Known, Index, producer, CountEmpty, indexes
  <2>2. pc[c] = "count" /\ pc'[c] \in {"clear", "idle"}
    BY <1>5 DEF CountEmpty, Goes, Known, Index, Typed, ConsumersTyped
  <2> QED BY <2>1, <2>2 DEF Full, Untaken, Seeking
<1>6. ASSUME NEW c \in Consumers, Claim(c) PROVE Full(i)' <=> Full(i)
  <2>1. /\ UNCHANGED <<tailIndex, step>>
        /\ pc[c] = "claim" /\ pc'[c] = "header"
        /\ headIndex' = headIndex + 1 /\ Held(c)' = headIndex
        /\ \A d \in Consumers : d # c => pc'[d] = pc[d] /\ Held(d)' = Held(d)
    <3>1. Dequeue(c)
      BY <1>6 DEF Dequeue
    <3> QED BY <1>6, <3>1, OthersWait, ClaimIs DEF Held, Known, Index, producer
  <2>2. headIndex < tailIndex
    BY <1>6, ClaimBelow
  <2>3. (\E d \in Consumers : pc[d] \in Untaken /\ Held(d) = i)' <=>
           i = headIndex \/ \E d \in Consumers : pc[d] \in Untaken /\ Held(d) = i
    BY <2>1 DEF Untaken, Seeking
  <2> QED BY <1>1, <2>1, <2>2, <2>3 DEF Full
<1> QED BY <1>2, <1>3, <1>4, <1>5, <1>6 DEF Next, Dequeue

LEMMA FullConstruct ==
    ASSUME Known, Construct, NEW i \in Nat
    PROVE  Full(i)' <=> Full(i) \/ i = tailIndex
<1>1. headIndex \in Nat /\ tailIndex \in Nat /\ headIndex <= tailIndex
  BY HeadBelow
<1>2. step = "construct" /\ step' = "publish" /\ UNCHANGED <<tailIndex, pc, local, headIndex>>
  BY DEF Construct, ProducerGoes, indexes, consumers
<1> QED BY <1>1, <1>2 DEF Full, Held

LEMMA FullTake ==
    ASSUME Known, NEW c \in Consumers, Take(c), NEW i \in Nat
    PROVE  /\ Full(i)' <=> Full(i) /\ i # Held(c)
           /\ Full(Held(c)) /\ Held(c) \in Nat
<1>1. pc[c] = "take" /\ pc'[c] = "count" /\ UNCHANGED <<tailIndex, headIndex, step, local>>
      /\ \A d \in Consumers : d # c => pc'[d] = pc[d]
  BY DEF Take, Goes, indexes, producer, Known, Index, Typed, ConsumersTyped
<1>2. pc[c] \in Untaken /\ pc[c] \in Holding /\ pc'[c] \notin Untaken
  BY <1>1 DEF Untaken, Holding, Seeking
<1>3. Held(c) \in Nat /\ Held(c) < headIndex /\ headIndex \in Nat
  BY <1>2, HeldIs, HeadBelow
<1>4. \A d \in Consumers : d # c /\ pc[d] \in Untaken => Held(d) # Held(c)
  BY <1>2 DEF Known, HeldOnce, Holding
<1>5. (\E d \in Consumers : pc[d] \in Untaken /\ Held(d) = i)' <=>
        (\E d \in Consumers : pc[d] \in Untaken /\ Held(d) = i) /\ i # Held(c)
  BY <1>1, <1>2, <1>4 DEF Held
<1> QED BY <1>1, <1>2, <1>3, <1>5 DEF Full

LEMMA ElementsQuiet ==
    ASSUME Known, StockInv, ElementsInv, [Next]_vars, ~Destroy, ~Construct, \A c \in Consumers : ~Take(c)
    PROVE  ElementsInv'
<1>1. elements' = elements
  BY DEF Next, vars, Producer, Dequeue, Enqueue, FindEntry, GrowIndex, GrowFails,
         StoreKey, StoreTail, FromInitialPool, FromFreeList, FromMalloc, Obtain,
         RequisitionFails, StoreValue, Publish, blocks, LoadTail, LoadOvercommit,
         SeesItem, SeesNone, Commit, Recheck, GiveBack, Claim, LoadBlockIndex,
         LoadIndexTail, FindBlock, LoadBlock, CountEmpty, ClearEntry, Release, rest
<1>2. OnlyFull'
  <2> SUFFICES ASSUME NEW b \in Blocks, NEW s \in Slots, elements[b][s] # NoItem
               PROVE  (\E e \in Entries : entries[e].value = b /\ Full(entries[e].key + s))'
    BY <1>1 DEF OnlyFull
  <2>1. PICK e \in Entries : entries[e].value = b /\ Full(entries[e].key + s)
    BY DEF ElementsInv, OnlyFull
  <2>2. entries[e].value # Null
    BY <2>1, BlocksAssumption DEF Blocks
  <2>3. PICK i \in Nat : i = entries[e].key + s
    BY <2>2, SlotIs DEF Known
  <2>4. PICK n \in Nat : n = Nr(entries[e].key) /\ Has(e, n)
    BY <2>2, StockHas DEF Known
  <2>5. Wanted(n)
    BY <2>1, <2>2, <2>4, FullWanted
  <2>6. e \in Entries' /\ entries'[e] = entries[e]
    BY <2>4, <2>5, WantedKept
  <2>7. Full(i)'
    BY <2>1, <2>3, FullStays
  <2>8. entries'[e].value = b /\ i = entries'[e].key + s
    BY <2>1, <2>3, <2>6
  <2> QED BY <2>6, <2>7, <2>8
<1>3. FullThere'
  <2> SUFFICES ASSUME NEW e \in Entries', NEW s \in Slots, entries'[e].value # Null,
                      Full(entries[e].key + s)'
               PROVE  elements[entries'[e].value][s] \in Items
    BY <1>1 DEF FullThere
  <2>1. CASE e \in Entries /\ entries[e].value # Null /\ entries'[e] = entries[e]
    <3>1. PICK i \in Nat : i = entries[e].key + s
      BY <2>1, SlotIs DEF Known
    <3>2. i = entries'[e].key + s
      BY <2>1, <3>1
    <3>3. Full(i)'
      BY <3>2
    <3>4. Full(i)
      BY <3>3, FullStays
    <3> QED BY <2>1, <3>1, <3>4 DEF ElementsInv, FullThere
  <2>2. CASE StoreValue /\ e = mine.entry
    <3>1. PICK t \in Nat : t = tailIndex /\ entries'[e].key = t
      <4>1. PICK i \in Nat : tailIndex = BLOCK_SIZE * i
                 /\ entries'[mine.entry] = [key |-> BLOCK_SIZE * i, value |-> mine.block]
        BY <2>2, StoreValueDoes DEF Known
      <4> QED BY <2>2, <4>1, HeadBelow
    <3>2. PICK i \in Nat : i = entries'[e].key + s /\ i >= t
      BY <3>1, SizeOfBlock DEF Slots
    <3>3. Full(i)'
      BY <3>2
    <3>4. Full(i)
      BY <3>3, FullStays
    <3>5. step = "value"
      BY <2>2 DEF StoreValue, ProducerGoes
    <3>6. \A c \in Consumers : pc[c] \in Untaken => Held(c) \in Nat /\ Held(c) < tailIndex
      BY HeldIs DEF Holding
    <3> QED BY <3>1, <3>2, <3>4, <3>5, <3>6 DEF Full
  <2> QED BY <2>1, <2>2, StockFrom DEF Known
<1> QED BY <1>2, <1>3 DEF ElementsInv

\* The block of the item at the tail is the one the producer has.
LEMMA TailIs ==
    ASSUME Known, StockInv, Construct
    PROVE  \E e \in Entries : \E n \in Nat :
              /\ n = Nr(tailIndex) /\ Has(e, n) /\ entries[e].value = tailBlock /\ tailBlock \in Blocks
              /\ entries[e].key + (tailIndex % BLOCK_SIZE) = tailIndex
<1>1. PICK t \in Nat : t = tailIndex
  BY HeadBelow
<1>2. PICK n \in Nat : n = Nr(t)
  BY SlotOf
<1>3. t = BLOCK_SIZE * n + (t % BLOCK_SIZE) /\ t % BLOCK_SIZE \in Slots
  BY <1>2, SlotOf
<1>4. step = "construct"
  BY DEF Construct, ProducerGoes
<1>5. Stored = n + 1
  BY <1>1, <1>2, <1>4, StoredIs DEF Known
<1>6. Wanted(n)
  <2>1. PICK a \in Nat : a = BLOCK_SIZE * n
    BY SizeOfBlock
  <2> QED BY <1>1, <1>3, <2>1, HeadBelow, SizeOfBlock DEF Wanted, Slots
<1>7. PICK e \in Entries : Has(e, n)
  BY <1>5, <1>6 DEF StockInv, BlocksThere
<1>8. entries[e].value = tailBlock
  <2>1. Stored - 1 = n
    BY <1>5
  <2> QED BY <1>7, <2>1 DEF StockInv, OneEntry
<1>9. entries[e].value \in Blocks
  BY <1>7, HasOnly DEF Known
<1>10. entries[e].key + (t % BLOCK_SIZE) = t
  BY <1>3, <1>7 DEF Has
<1> QED BY <1>1, <1>2, <1>7, <1>8, <1>9, <1>10

LEMMA ElementsConstruct ==
    ASSUME Known, StockInv, ElementsInv, ItemsTyped, Construct
    PROVE  ElementsInv'
<1>1. PICK e \in Entries : \E n \in Nat :
              /\ n = Nr(tailIndex) /\ Has(e, n) /\ entries[e].value = tailBlock /\ tailBlock \in Blocks
              /\ entries[e].key + (tailIndex % BLOCK_SIZE) = tailIndex
  BY TailIs
<1>2. PICK n \in Nat :
              /\ n = Nr(tailIndex) /\ Has(e, n) /\ entries[e].value = tailBlock /\ tailBlock \in Blocks
              /\ entries[e].key + (tailIndex % BLOCK_SIZE) = tailIndex
  BY <1>1
<1>3. PICK t \in Nat : t = tailIndex
  BY HeadBelow
<1>4. PICK r \in Slots : r = t % BLOCK_SIZE
  BY SlotOf
<1>5. PICK d \in Blocks : d = tailBlock
  BY <1>2
<1>6. entries' = entries /\ elements' = [elements EXCEPT ![d][r] = enqueues]
  BY <1>3, <1>4, <1>5 DEF Construct
<1>7. Entries' = Entries
  BY <1>6 DEF Entries
<1>8. enqueues \in Items
  BY DEF Construct, ProducerGoes, ItemsTyped, Items, Known, Index, Typed, ProducerTyped
<1>9. /\ elements'[d][r] = enqueues
      /\ \A b \in Blocks : \A s \in Slots : b # d \/ s # r => elements'[b][s] = elements[b][s]
  <2>1. PICK x : x = enqueues
    OBVIOUS
  <2>2. elements' = [elements EXCEPT ![d][r] = x]
    BY <1>6, <2>1
  <2>3. elements \in [Blocks -> [Slots -> Nat]]
    BY DEF Known, Index, Typed, BlocksTyped, Slots
  <2> QED BY <2>1, <2>2, <2>3
<1>10. OnlyFull'
  <2> SUFFICES ASSUME NEW b \in Blocks, NEW s \in Slots, elements'[b][s] # NoItem
               PROVE  (\E f \in Entries : entries[f].value = b /\ Full(entries[f].key + s))'
    BY DEF OnlyFull
  <2>1. CASE b = d /\ s = r
    <3>1. Full(t)'
      BY <1>3, FullConstruct
    <3>2. t = entries'[e].key + s /\ entries'[e].value = b
      BY <1>2, <1>3, <1>4, <1>5, <1>6, <2>1
    <3> QED BY <1>7, <3>1, <3>2
  <2>2. CASE b # d \/ s # r
    <3>1. PICK f \in Entries : entries[f].value = b /\ Full(entries[f].key + s)
      BY <1>9, <2>2 DEF ElementsInv, OnlyFull
    <3>2. entries[f].value # Null
      BY <3>1, BlocksAssumption DEF Blocks
    <3>3. PICK i \in Nat : i = entries[f].key + s
      BY <3>2, SlotIs DEF Known
    <3>4. Full(i)'
      BY <3>1, <3>3, FullConstruct
    <3>5. i = entries'[f].key + s /\ entries'[f].value = b
      BY <1>6, <3>1, <3>3
    <3> QED BY <1>7, <3>4, <3>5
  <2> QED BY <2>1, <2>2
<1>11. FullThere'
  <2> SUFFICES ASSUME NEW f \in Entries, NEW s \in Slots, entries[f].value # Null,
                      Full(entries[f].key + s)'
               PROVE  elements'[entries[f].value][s] \in Items
    BY <1>6, <1>7 DEF FullThere
  <2>1. PICK i \in Nat : i = entries[f].key + s
    BY SlotIs DEF Known
  <2>2. i = entries'[f].key + s
    BY <1>6, <2>1
  <2>3. Full(i)'
    BY <2>2
  <2>4. PICK b \in Blocks : b = entries[f].value
    BY StockHas DEF Known
  <2>5. CASE b = d /\ s = r
    BY <1>8, <1>9, <2>4, <2>5
  <2>6. CASE ~(b = d /\ s = r)
    <3>1. i # t
      <4> SUFFICES ASSUME i = t PROVE FALSE
        OBVIOUS
      <4>1. Has(f, Nr(i)) /\ s = i % BLOCK_SIZE
        BY <2>1, SlotOnce DEF Known
      <4>2. Has(f, n) /\ s = r
        BY <1>2, <1>3, <1>4, <4>1
      <4>3. f = e
        BY <1>2, <4>2, HasOnly DEF Known
      <4> QED BY <1>2, <1>5, <2>4, <2>6, <4>2, <4>3
    <3>2. Full(i)
      BY <1>3, <2>3, <3>1, FullConstruct
    <3>3. elements[b][s] \in Items
      BY <2>1, <2>4, <3>2 DEF ElementsInv, FullThere
    <3> QED BY <1>9, <2>4, <2>6, <3>3
  <2> QED BY <2>5, <2>6
<1> QED BY <1>10, <1>11 DEF ElementsInv

LEMMA TakeIs ==
    ASSUME Known, StockInv, NEW c \in Consumers, Take(c)
    PROVE  \E e \in Entries : \E i \in Nat : \E d \in Blocks :
              /\ i = Held(c) /\ Has(e, Nr(i)) /\ entries[e].value = d /\ local[c].block = d
              /\ entries[e].key + (i % BLOCK_SIZE) = i
<1>1. pc[c] = "take"
  BY DEF Take, Goes
<1>2. PICK i \in Nat : i = Held(c)
  BY <1>1, HeldIs DEF Holding, Untaken
<1>3. PICK e \in Entries : e = local[c].entry
  BY <1>1 DEF Known, Index, Typed, ConsumersTyped
<1>4. Has(e, Nr(i)) /\ local[c].block = entries[e].value
  BY <1>1, <1>2, <1>3 DEF StockInv, Seeks
<1>5. Nr(i) \in Nat /\ i = BLOCK_SIZE * Nr(i) + (i % BLOCK_SIZE)
  BY SlotOf
<1>6. entries[e].value \in Blocks
  BY <1>4, <1>5, HasOnly DEF Known
<1>7. entries[e].key + (i % BLOCK_SIZE) = i
  BY <1>4, <1>5 DEF Has
<1> QED BY <1>2, <1>4, <1>6, <1>7

LEMMA ElementsTake ==
    ASSUME Known, StockInv, ElementsInv, ItemsTyped, NEW c \in Consumers, Take(c)
    PROVE  ElementsInv' /\ got'[c] = Append(got[c], elements[local[c].block][Held(c) % BLOCK_SIZE])
           /\ elements[local[c].block][Held(c) % BLOCK_SIZE] \in Items
<1>1. PICK e \in Entries : \E i \in Nat : \E d \in Blocks :
              /\ i = Held(c) /\ Has(e, Nr(i)) /\ entries[e].value = d /\ local[c].block = d
              /\ entries[e].key + (i % BLOCK_SIZE) = i
  BY TakeIs
<1>2. PICK h \in Nat, d \in Blocks :
              /\ h = Held(c) /\ Has(e, Nr(h)) /\ entries[e].value = d /\ local[c].block = d
              /\ entries[e].key + (h % BLOCK_SIZE) = h
  BY <1>1
<1>3. PICK r \in Slots : r = h % BLOCK_SIZE
  BY SlotOf
<1>4. PICK n \in Nat : n = Nr(h)
  BY SlotOf
<1>5. entries' = entries /\ elements' = [elements EXCEPT ![d][r] = NoItem]
  BY <1>2, <1>3 DEF Take, Held
<1>6. Entries' = Entries
  BY <1>5 DEF Entries
<1>7. elements \in [Blocks -> [Slots -> Nat]]
  BY DEF Known, Index, Typed, BlocksTyped, Slots
<1>8. /\ elements'[d][r] = NoItem
      /\ \A b \in Blocks : \A s \in Slots : b # d \/ s # r => elements'[b][s] = elements[b][s]
  BY <1>5, <1>7
<1>9. OnlyFull'
  <2> SUFFICES ASSUME NEW b \in Blocks, NEW s \in Slots, elements'[b][s] # NoItem
               PROVE  (\E f \in Entries : entries[f].value = b /\ Full(entries[f].key + s))'
    BY DEF OnlyFull
  <2>1. b # d \/ s # r
    BY <1>8
  <2>2. PICK f \in Entries : entries[f].value = b /\ Full(entries[f].key + s)
    BY <1>8, <2>1 DEF ElementsInv, OnlyFull
  <2>3. entries[f].value # Null
    BY <2>2, BlocksAssumption DEF Blocks
  <2>4. PICK i \in Nat : i = entries[f].key + s
    BY <2>3, SlotIs DEF Known
  <2>5. i # h
    <3> SUFFICES ASSUME i = h PROVE FALSE
      OBVIOUS
    <3>1. Has(f, Nr(i)) /\ s = i % BLOCK_SIZE
      BY <2>3, <2>4, SlotOnce DEF Known
    <3>2. Has(f, n) /\ Has(e, n) /\ s = r
      BY <1>2, <1>3, <1>4, <3>1
    <3>3. f = e
      BY <3>2, HasOnly DEF Known
    <3> QED BY <1>2, <2>1, <2>2, <3>2, <3>3
  <2>6. Full(i)'
    BY <1>2, <2>2, <2>4, <2>5, FullTake
  <2>7. i = entries'[f].key + s /\ entries'[f].value = b
    BY <1>5, <2>2, <2>4
  <2> QED BY <1>6, <2>6, <2>7
<1>10. FullThere'
  <2> SUFFICES ASSUME NEW f \in Entries, NEW s \in Slots, entries[f].value # Null,
                      Full(entries[f].key + s)'
               PROVE  elements'[entries[f].value][s] \in Items
    BY <1>5, <1>6 DEF FullThere
  <2>1. PICK i \in Nat : i = entries[f].key + s
    BY SlotIs DEF Known
  <2>2. i = entries'[f].key + s
    BY <1>5, <2>1
  <2>3. Full(i)'
    BY <2>2
  <2>4. Full(i) /\ i # h
    BY <1>2, <2>3, FullTake
  <2>5. PICK b \in Blocks : b = entries[f].value
    BY StockHas DEF Known
  <2>6. elements[b][s] \in Items
    BY <2>1, <2>4, <2>5 DEF ElementsInv, FullThere
  <2>7. b # d \/ s # r
    <3> SUFFICES ASSUME b = d, s = r PROVE FALSE
      OBVIOUS
    <3>1. f = e
      BY <1>2, <2>5 DEF StockInv, OneEntry
    <3> QED BY <1>2, <1>3, <2>1, <2>4, <3>1
  <2> QED BY <1>8, <2>5, <2>6, <2>7
<1>11. elements[d][r] \in Items
  <2>1. Full(h) /\ entries[e].key + r = h /\ entries[e].value # Null
    BY <1>2, <1>3, FullTake DEF Has
  <2> QED BY <1>2, <2>1 DEF ElementsInv, FullThere
<1>12. got'[c] = Append(got[c], elements[d][r])
  BY <1>2, <1>3 DEF Take, Held, ItemsTyped
<1> QED BY <1>2, <1>3, <1>9, <1>10, <1>11, <1>12 DEF ElementsInv

LEMMA ElementsStep ==
    ASSUME Known, StockInv, ElementsInv, ItemsTyped, [Next]_vars, ~Destroy
    PROVE  ElementsInv'
BY ElementsQuiet, ElementsConstruct, ElementsTake

-------------------------------------------------------------------------------
(* The rest of the types *)

LEMMA GotKept ==
    ASSUME [Next]_vars, \A c \in Consumers : ~Take(c)
    PROVE  got' = got
BY DEF Next, vars, Producer, Dequeue, Enqueue, FindEntry, GrowIndex, GrowFails,
       StoreKey, StoreTail, FromInitialPool, FromFreeList, FromMalloc, Obtain,
       RequisitionFails, StoreValue, Construct, Publish, Destroy, consumers, LoadTail,
       LoadOvercommit, SeesItem, SeesNone, Commit, Recheck, GiveBack, Claim,
       LoadBlockIndex, LoadIndexTail, FindBlock, LoadBlock, CountEmpty, ClearEntry,
       Release, rest

LEMMA NextEntryIn ==
    ASSUME IndexTyped
    PROVE  NextEntry(blockIndex) \in Entries
<1>1. blockIndex.tail + 1 \in Int /\ Capacity(blockIndex) \in Nat \ {0}
  BY LastIs DEF Places, Size
<1>2. EntryAt(blockIndex, blockIndex.tail + 1) = EntryIn(blockIndex, (blockIndex.tail + 1) % Capacity(blockIndex))
      /\ (blockIndex.tail + 1) % Capacity(blockIndex) \in Places(blockIndex)
  BY <1>1, EntryAtPlace
<1> QED BY <1>2, LastIs DEF NextEntry

LEMMA ItemsTypedStep ==
    ASSUME Known, ItemsTyped, [Next]_vars,
           \A c \in Consumers : Take(c) =>
               /\ got'[c] = Append(got[c], elements[local[c].block][Held(c) % BLOCK_SIZE])
               /\ elements[local[c].block][Held(c) % BLOCK_SIZE] \in Items
    PROVE  ItemsTyped'
<1>1. enqueues \in Nat /\ mine \in [entry : Nat, block : Blocks \cup {Null}] /\ step \in ProducerSteps
  BY DEF Known, Index, Typed, ProducerTyped
<1>2. enqueues' <= MaxEnqueues /\ (step' \notin {"idle", "destroyed"} => enqueues' > 0)
  <2>1. CASE Producer \/ Destroy \/ UNCHANGED vars
    BY <1>1, <2>1, BoundsAssumption
    DEF ItemsTyped, Producer, Enqueue, FindEntry, GrowIndex, GrowFails, StoreKey,
        StoreTail, FromInitialPool, FromFreeList, FromMalloc, Obtain, RequisitionFails,
        StoreValue, Construct, Publish, Destroy, ProducerGoes, vars, producer
  <2>2. ASSUME NEW c \in Consumers, Dequeue(c) PROVE UNCHANGED <<enqueues, step>>
    BY <2>2, OthersWait DEF producer, Known, Index
  <2> QED BY <2>1, <2>2 DEF ItemsTyped, Next
<1>3. got' \in [Consumers -> Seq(Items)]
  <2>1. ASSUME NEW c \in Consumers, Take(c) PROVE got' \in [Consumers -> Seq(Items)]
    <3>1. PICK x \in Items : got' = [got EXCEPT ![c] = Append(@, x)]
      BY <2>1 DEF Take, Held
    <3> QED BY <3>1 DEF ItemsTyped
  <2> QED BY <2>1, GotKept DEF ItemsTyped
<1>4. Entries \subseteq Entries'
  BY IndexTypedStep DEF Known, Index
<1>5. mine'.entry \in {0} \cup Entries'
  <2>1. CASE FindEntry
    <3>1. NextEntry(blockIndex) \in Entries
      BY NextEntryIn DEF Known, Index, Typed
    <3> QED BY <1>1, <1>4, <2>1, <3>1 DEF FindEntry
  <2>2. CASE GrowIndex
    BY <1>1, <2>2, IndexGrows DEF GrowIndex, Known, Index, Typed
  <2>3. CASE (Producer \/ Destroy \/ UNCHANGED vars) /\ ~FindEntry /\ ~GrowIndex
    <3>1. mine'.entry = mine.entry \/ mine'.entry = 0
      BY <1>1, <2>3
      DEF Producer, Enqueue, GrowFails, NoneMine, StoreKey, StoreTail, FromInitialPool,
          FromFreeList, FromMalloc, Obtain, RequisitionFails, StoreValue, Construct,
          Publish, Destroy, vars, producer
    <3> QED BY <1>4, <3>1 DEF ItemsTyped
  <2>4. ASSUME NEW c \in Consumers, Dequeue(c) PROVE mine' = mine
    BY <2>4, OthersWait DEF producer, Known, Index
  <2> QED BY <1>4, <2>1, <2>2, <2>3, <2>4 DEF Next, ItemsTyped
<1> QED BY <1>2, <1>3, <1>5 DEF ItemsTyped

-------------------------------------------------------------------------------
(* The destructor *)

AllIdle == \A c \in Consumers : pc[c] = "idle"

LEMMA BlockOfIs ==
    ASSUME Index, NEW i \in Nat, NEW e \in Entries, Has(e, Nr(i))
    PROVE  EntryOf(i) = e /\ BlockOf(i) = entries[e].value
<1>1. PICK k \in 1 .. Len(headers) : k = Len(headers) /\ headers[k] = blockIndex
  BY IndexHas, LastIs
<1>2. PICK p \in Places(blockIndex) : EntryIn(blockIndex, p) = e
  BY IndexHas DEF AllIndexed
<1>3. PICK a \in Nat : a = blockIndex.tail
  BY IndexHas
<1>4. PICK n \in Nat : n = Nr(i) /\ Base(i) = BLOCK_SIZE * n
  BY NrIs
<1>5. entries[EntryAt(headers[k], a)].key # INVALID_BLOCK_BASE
  <2>1. entries[EntryIn(headers[k], p)].value # Null
    BY <1>1, <1>2 DEF Has
  <2>2. entries[EntryIn(headers[k], p)].key # INVALID_BLOCK_BASE
    BY <1>1, <1>2, <1>4, MultipleIsValid DEF Has
  <2>3. p \in Places(headers[k])
    BY <1>1
  <2> QED BY <1>1, <1>3, <2>1, <2>2, <2>3, TailWritten
<1>6. entries[EntryIn(headers[k], p)].key = BLOCK_SIZE * n
  BY <1>1, <1>2, <1>4 DEF Has
<1>7. EntryAt(headers[k], a + Capacity(headers[k])
                        + ((BLOCK_SIZE * n - entries[EntryAt(headers[k], a)].key) \div BLOCK_SIZE)) = e
  BY <1>1, <1>2, <1>4, <1>5, <1>6, Lookup
<1>8. EntryOf(i) = e
  BY <1>1, <1>3, <1>4, <1>7 DEF EntryOf, Position
<1> QED BY <1>8 DEF BlockOf

LEMMA NoHolders ==
    ASSUME AllIdle, NEW n
    PROVE  Holders(n) = {}
BY DEF AllIdle, Holders, Holding, Untaken, Seeking

\* The items left are in blocks in the index.
LEMMA LeftHas ==
    ASSUME Known, StockInv, NEW i \in Left
    PROVE  \E e \in Entries : \E b \in Blocks :
              i \in Nat /\ Has(e, Nr(i)) /\ entries[e].value = b /\ BlockOf(i) = b
<1>1. PICK h \in Nat, t \in Nat : h = headIndex /\ t = tailIndex
  BY HeadBelow
<1>2. PICK j \in Nat : j = i /\ h <= j /\ j < t
  BY <1>1 DEF Left
<1>3. PICK n \in Nat : n = Nr(j)
  BY SlotOf
<1>4. n < Stored
  BY <1>1, <1>2, <1>3, StoredIs DEF Known
<1>5. Wanted(n)
  <2>1. j = BLOCK_SIZE * n + (j % BLOCK_SIZE) /\ j % BLOCK_SIZE \in Slots
    BY <1>3, SlotOf
  <2>2. PICK a \in Nat : a = BLOCK_SIZE * n
    BY SizeOfBlock
  <2> QED BY <1>1, <1>2, <2>1, <2>2, SizeOfBlock DEF Wanted, Slots
<1>6. PICK e \in Entries : Has(e, n)
  BY <1>4, <1>5 DEF StockInv, BlocksThere
<1>7. BlockOf(j) = entries[e].value
  BY <1>3, <1>6, BlockOfIs DEF Known
<1>8. entries[e].value \in Blocks
  BY <1>6, HasOnly DEF Known
<1> QED BY <1>2, <1>3, <1>6, <1>7, <1>8

\* The number of the block under the tail, of the last item if the tail is at a boundary.
LEMMA LastStored ==
    ASSUME Index, step = "idle"
    PROVE  \E t \in Nat : \E m \in Nat : \E r \in Slots :
              /\ t = tailIndex /\ m = Nr(t) /\ r = t % BLOCK_SIZE /\ t = BLOCK_SIZE * m + r
              /\ Stored = IF r # 0 THEN m + 1 ELSE m
<1>1. PICK t \in Nat : t = tailIndex
  BY StoredIs
<1>2. PICK m \in Nat, r \in Slots : m = Nr(t) /\ r = t % BLOCK_SIZE /\ t = BLOCK_SIZE * m + r
  BY SlotOf
<1>3. Stored = IF r # 0 THEN m + 1 ELSE m
  BY <1>1, <1>2, StoredIs
<1> QED BY <1>1, <1>2, <1>3

LEMMA NextBlock ==
    ASSUME NEW n \in Int, NEW m \in Int, n < m
    PROVE  BLOCK_SIZE * n + BLOCK_SIZE <= BLOCK_SIZE * m
<1>1. PICK d \in Nat : m = n + 1 + d
  <2>1. m - n - 1 \in Nat /\ m = n + 1 + (m - n - 1)
    OBVIOUS
  <2> QED BY <2>1
<1>2. BLOCK_SIZE * m = BLOCK_SIZE * n + BLOCK_SIZE + BLOCK_SIZE * d
  BY <1>1, SizeOfBlock
<1>3. BLOCK_SIZE * d \in Nat /\ BLOCK_SIZE * n \in Int /\ BLOCK_SIZE * m \in Int
  BY SizeOfBlock
<1> QED BY <1>2, <1>3, SizeOfBlock

\* The block under the tail is in the index if the destructor frees it.
LEMMA LastIn ==
    ASSUME Known, StockInv, step = "idle", NEW b \in LastBlock
    PROVE  InIndex(b)
<1>1. PICK t \in Nat, m \in Nat, r \in Slots :
              /\ t = tailIndex /\ m = Nr(t) /\ r = t % BLOCK_SIZE /\ t = BLOCK_SIZE * m + r
              /\ Stored = IF r # 0 THEN m + 1 ELSE m
  BY LastStored DEF Known
<1>2. PICK h \in Nat : h = headIndex /\ h <= t
  BY <1>1, HeadBelow
<1>3. b = tailBlock /\ (h < t \/ r # 0)
  BY <1>1, <1>2 DEF LastBlock, Left
<1>4. t \in Nat /\ m \in Nat /\ r \in Nat /\ Stored = IF r # 0 THEN m + 1 ELSE m
  <2>1. t \in Nat /\ m \in Nat /\ r \in Slots /\ Stored = IF r # 0 THEN m + 1 ELSE m
    BY <1>1
  <2> QED BY <2>1 DEF Slots
<1>5. PICK n \in Nat : n + 1 = Stored
  <2>1. m = 0 => BLOCK_SIZE * m = 0
    BY SizeOfBlock
  <2>2. m = 0 => t = r
    <3>1. t = BLOCK_SIZE * m + r
      BY <1>1
    <3> QED BY <1>4, <2>1, <3>1
  <2>3. r # 0 \/ m # 0
    BY <1>2, <1>3, <1>4, <2>2
  <2>4. r = 0 => m - 1 \in Nat /\ (m - 1) + 1 = m
    BY <1>4, <2>3
  <2> QED BY <1>4, <2>3, <2>4
<1>6. h < BLOCK_SIZE * n + BLOCK_SIZE
  <2>1. CASE r # 0
    <3>1. n = m
      BY <1>4, <1>5, <2>1
    <3>2. BLOCK_SIZE * m \in Int
      BY SizeOfBlock
    <3> QED BY <1>1, <1>2, <3>1, <3>2, SizeOfBlock DEF Slots
  <2>2. CASE r = 0
    <3>1. n + 1 = m
      BY <1>4, <1>5, <2>2
    <3>2. BLOCK_SIZE * m = BLOCK_SIZE * n + BLOCK_SIZE /\ BLOCK_SIZE * m \in Int
      BY <3>1, SizeOfBlock
    <3> QED BY <1>1, <1>2, <1>3, <2>2, <3>2
  <2> QED BY <2>1, <2>2
<1>7. PICK e \in Entries : Has(e, n)
  BY <1>2, <1>5, <1>6 DEF StockInv, BlocksThere, Wanted
<1>8. entries[e].value = tailBlock
  <2>1. Stored - 1 = n
    BY <1>5
  <2> QED BY <1>7, <2>1 DEF StockInv, OneEntry
<1> QED BY <1>3, <1>7, <1>8 DEF InIndex

\* The blocks the destructor frees.
Freed == {BlockOf(i) : i \in {j \in Left : Base(j) # Base(tailIndex - 1)}} \cup LastBlock

\* A block in the index has an item left or room for the next.
LEMMA StillWanted ==
    ASSUME Known, StockInv, AllIdle, NEW e \in Entries, entries[e].value # Null
    PROVE  headIndex < BLOCK_SIZE * Nr(entries[e].key) + BLOCK_SIZE
<1>1. PICK n \in Nat : n = Nr(entries[e].key)
  BY StockHas DEF Known
<1>2. PICK h \in Nat : h = headIndex
  BY HeadBelow
<1>3. Holders(n) = {} /\ Cardinality(Holders(n)) = 0
  BY NoHolders, HoldersIs
<1>4. EmptyIn(e) = Claimed(n) /\ EmptyIn(e) # BLOCK_SIZE
  <2>1. EmptyIn(e) \in Nat
    BY StockHas DEF EmptyIn, Known, Index, Typed, BlocksTyped
  <2> QED BY <1>1, <1>3, <2>1 DEF StockInv, Counted, AllIdle
<1>5. Claimed(n) \in Nat /\ Claimed(n) <= BLOCK_SIZE
      /\ (h < BLOCK_SIZE * n + BLOCK_SIZE <=> Claimed(n) < BLOCK_SIZE)
  BY <1>2, ClaimedIs
<1>6. h < BLOCK_SIZE * n + BLOCK_SIZE
  BY <1>4, <1>5, SizeOfBlock
<1> QED BY <1>1, <1>2, <1>6

LEMMA FreedIs ==
    ASSUME Known, StockInv, AllIdle, step = "idle", NEW b \in Blocks
    PROVE  InIndex(b) <=> b \in Freed
<1>1. ASSUME b \in Freed PROVE InIndex(b)
  <2>1. \A i \in Left : InIndex(BlockOf(i))
    <3> SUFFICES ASSUME NEW i \in Left PROVE InIndex(BlockOf(i))
      OBVIOUS
    <3> QED BY LeftHas DEF InIndex
  <2> QED BY <1>1, <2>1, LastIn DEF Freed
<1>2. ASSUME InIndex(b) PROVE b \in Freed
  <2>1. PICK e \in Entries : entries[e].value = b /\ entries[e].value # Null
    BY <1>2, BlocksAssumption DEF InIndex, Blocks
  <2>2. PICK n \in Nat : n = Nr(entries[e].key) /\ Has(e, n) /\ n < Stored
    BY <2>1, StockHas DEF Known
  <2>3. PICK t \in Nat, m \in Nat, r \in Slots :
              /\ t = tailIndex /\ m = Nr(t) /\ r = t % BLOCK_SIZE /\ t = BLOCK_SIZE * m + r
              /\ Stored = IF r # 0 THEN m + 1 ELSE m
    BY LastStored DEF Known
  <2>4. PICK h \in Nat : h = headIndex /\ h <= t
    BY <2>3, HeadBelow
  <2>5. t \in Nat /\ m \in Nat /\ r \in Nat /\ Stored = IF r # 0 THEN m + 1 ELSE m
    <3>1. t \in Nat /\ m \in Nat /\ r \in Slots /\ Stored = IF r # 0 THEN m + 1 ELSE m
      BY <2>3
    <3> QED BY <3>1 DEF Slots
  <2>6. n \in Nat /\ n < Stored
    BY <2>2
  <2>7. PICK a \in Nat : a = BLOCK_SIZE * n
    BY SizeOfBlock
  <2>8. h < a + BLOCK_SIZE
    BY <2>1, <2>2, <2>4, <2>7, StillWanted
  <2>9. PICK w \in Nat : w = BLOCK_SIZE * m
    BY SizeOfBlock
  <2>10. n < m => a + BLOCK_SIZE <= w
    BY <2>7, <2>9, <2>5, <2>6, NextBlock
  <2>11. t = w + r
    BY <2>3, <2>9
  <2>12. CASE n = Stored - 1
    <3>1. b = tailBlock
      BY <2>1, <2>2, <2>12 DEF StockInv, OneEntry
    <3>2. h < t \/ r # 0
      <4>1. r = 0 => n < m
        BY <2>12, <2>5, <2>6
      <4> QED BY <2>4, <2>7, <2>8, <2>9, <2>10, <2>5, <2>11, <4>1, SizeOfBlock
    <3>3. b \in LastBlock
      <4>1. h < t => h \in Left
        BY <2>3, <2>4, <2>5 DEF Left
      <4>2. r = tailIndex % BLOCK_SIZE
        BY <2>3
      <4> QED BY <2>1, <3>1, <3>2, <4>1, <4>2 DEF LastBlock
    <3> QED BY <3>3 DEF Freed
  <2>13. CASE n # Stored - 1
    <3>1. n < m /\ (r = 0 => n # m - 1)
      BY <2>13, <2>5, <2>6
    <3>2. a + BLOCK_SIZE <= w /\ w + r = t /\ r \in Nat
      BY <2>9, <2>10, <2>5, <2>11, <3>1
    <3>3. PICK i \in Nat : i = a + (BLOCK_SIZE - 1) /\ h <= i /\ i <= t - 1
      BY <2>4, <2>8, <3>2, SizeOfBlock
    <3>4. Nr(i) = n
      <4>1. BLOCK_SIZE - 1 \in 0 .. BLOCK_SIZE - 1
        BY SizeOfBlock
      <4> QED BY <2>7, <3>3, <4>1, NrOf
    <3>5. i \in Left
      BY <2>3, <2>4, <3>3 DEF Left
    <3>6. Base(i) # Base(t - 1)
      <4>1. PICK q \in Nat : q = t - 1
        BY <3>3
      <4>2. PICK x \in Nat : x = Nr(q) /\ q = BLOCK_SIZE * x + (q % BLOCK_SIZE) /\ q % BLOCK_SIZE \in Slots
                             /\ Base(q) = BLOCK_SIZE * x
        BY SlotOf, NrIs
      <4>3. Base(i) = a
        BY <2>7, <3>4, NrIs
      <4>4. a = BLOCK_SIZE * x => t - 1 < a + BLOCK_SIZE
        BY <4>1, <4>2, SizeOfBlock DEF Slots
      <4>5. r = 0 => a + BLOCK_SIZE + BLOCK_SIZE <= w
        <5>1. r = 0 => n + 1 < m
          BY <3>1
        <5>2. BLOCK_SIZE * (n + 1) = a + BLOCK_SIZE
          BY <2>7, SizeOfBlock
        <5> QED BY <2>9, <5>1, <5>2, NextBlock
      <4> QED BY <3>2, <4>1, <4>2, <4>3, <4>4, <4>5, SizeOfBlock
    <3>7. BlockOf(i) = b
      BY <2>1, <2>2, <3>4, BlockOfIs DEF Known
    <3> QED BY <2>3, <3>5, <3>6, <3>7 DEF Freed
  <2> QED BY <2>12, <2>13
<1> QED BY <1>1, <1>2

LEMMA DestroyReturns ==
    ASSUME Known, StockInv, ElementsInv, Destroy
    PROVE  AllReturned' /\ AllIdle' /\ NoneOver' /\ step' = "destroyed"
<1>1. AllIdle /\ step = "idle" /\ step' = "destroyed"
      /\ UNCHANGED <<pc, elementsCompletelyDequeued>>
  BY DEF Destroy, ProducerGoes, AllIdle, consumers
<1>2. AllIdle' /\ NoneOver'
  BY <1>1 DEF AllIdle, NoneOver, StockInv
<1>3. /\ unused' = unused /\ freeList' = freeList \cup (Freed \cap InitialBlocks)
      /\ created' = created \ Freed
  BY DEF Destroy, FreeBlocks, Freed
<1>4. \A b \in Blocks : InIndex(b) <=> b \in Freed
  BY <1>1, FreedIs
<1>5. \A b \in Blocks : Used(b) <=> InIndex(b)
  <2>1. mine.block = Null /\ Releasing = {}
    BY <1>1 DEF StockInv, OneOwner, AllIdle, Releasing
  <2> QED BY <2>1, BlocksAssumption DEF Used, Blocks
<1>6. /\ unused \subseteq InitialBlocks /\ freeList \subseteq InitialBlocks
      /\ created \subseteq OtherBlocks /\ InitialBlocks \cap OtherBlocks = {}
  BY BlocksAssumption DEF Known, Index, Typed, BlocksTyped
<1>7. \A b \in Blocks : Used(b) \/ b \in unused \cup freeList <=> b \in InitialBlocks \cup created
  BY DEF StockInv, Pooled
<1>8. unused' \cup freeList' = InitialBlocks /\ created' = {}
  BY <1>3, <1>4, <1>5, <1>6, <1>7 DEF Blocks
<1>9. ASSUME NEW b \in Blocks, NEW s \in Slots, elements[b][s] # NoItem
      PROVE  \E i \in Left : b = BlockOf(i) /\ s = i % BLOCK_SIZE
  <2>1. PICK e \in Entries : entries[e].value = b /\ Full(entries[e].key + s)
    BY <1>9 DEF ElementsInv, OnlyFull
  <2>2. entries[e].value # Null
    BY <2>1, BlocksAssumption DEF Blocks
  <2>3. PICK i \in Nat : i = entries[e].key + s
    BY <2>2, SlotIs DEF Known
  <2>4. headIndex <= i /\ i < tailIndex
    BY <1>1, <2>1, <2>3 DEF Full, AllIdle, Untaken, Seeking
  <2>5. Has(e, Nr(i)) /\ s = i % BLOCK_SIZE
    BY <2>2, <2>3, SlotOnce DEF Known
  <2>6. BlockOf(i) = b
    BY <2>1, <2>5, BlockOfIs DEF Known
  <2>7. i \in Left
    BY <2>4, HeadBelow DEF Left
  <2> QED BY <2>5, <2>6, <2>7
<1>10. \A b \in Blocks, s \in 0 .. BLOCK_SIZE - 1 : elements'[b][s] = NoItem
  BY <1>9 DEF Destroy, Slots
<1> QED BY <1>1, <1>2, <1>8, <1>10 DEF AllReturned

-------------------------------------------------------------------------------
(* The invariant *)

BlocksInv ==
    /\ HeldOnce /\ ItemsTyped /\ NoneOver
    /\ step = "destroyed" => AllReturned /\ AllIdle
    /\ step # "destroyed" => StockInv /\ ElementsInv

LEMMA DestroyedEnds ==
    ASSUME Index, step = "destroyed", AllIdle, [Next]_vars
    PROVE  UNCHANGED vars
BY DEF AllIdle, Next, Producer, Dequeue, Enqueue, FindEntry, GrowIndex, GrowFails,
       StoreKey, StoreTail, FromInitialPool, FromFreeList, FromMalloc, Obtain,
       RequisitionFails, StoreValue, Construct, Publish, ProducerGoes, Destroy,
       LoadTail, LoadOvercommit, SeesItem, SeesNone, Commit, Recheck, GiveBack, Claim,
       LoadBlockIndex, LoadIndexTail, FindBlock, LoadBlock, Take, CountEmpty,
       ClearEntry, Release, Goes

LEMMA DestroyedBy ==
    ASSUME Index, [Next]_vars, step # "destroyed", ~Destroy
    PROVE  step' # "destroyed"
<1>1. CASE Producer \/ UNCHANGED vars
  BY <1>1
  DEF Producer, Enqueue, FindEntry, GrowIndex, GrowFails, StoreKey, StoreTail,
      FromInitialPool, FromFreeList, FromMalloc, Obtain, RequisitionFails, StoreValue,
      Construct, Publish, ProducerGoes, vars, producer
<1>2. ASSUME NEW c \in Consumers, Dequeue(c) PROVE step' = step
  BY <1>2, OthersWait DEF producer, Index
<1> QED BY <1>1, <1>2 DEF Next

LEMMA BlocksStep ==
    ASSUME Index, CountersInv, BlocksInv, [Next]_vars
    PROVE  BlocksInv'
<1>1. Known
  BY DEF Known, BlocksInv
<1>2. HeldOnce'
  BY HeldOnceStep DEF BlocksInv, Index
<1>3. CASE step = "destroyed"
  <2>1. UNCHANGED vars
    BY <1>3, DestroyedEnds DEF BlocksInv
  <2>2. UNCHANGED <<tailIndex, headIndex, entries, headers, elements, elementsCompletelyDequeued, unused, freeList,
                    created, tailBlock, step, mine, enqueues, pc, local, got>>
    BY <2>1 DEF vars, indexes, blocks, pool, producer, consumers
  <2>3. ItemsTyped' /\ NoneOver'
    BY <2>2 DEF BlocksInv, ItemsTyped, NoneOver, Entries
  <2>4. AllReturned' /\ AllIdle'
    BY <1>3, <2>2 DEF BlocksInv, AllReturned, AllIdle
  <2> QED BY <1>2, <1>3, <2>2, <2>3, <2>4 DEF BlocksInv
<1>4. CASE step # "destroyed" /\ Destroy
  <2>1. StockInv /\ ElementsInv /\ ItemsTyped
    BY <1>4 DEF BlocksInv
  <2>2. AllReturned' /\ AllIdle' /\ NoneOver' /\ step' = "destroyed"
    BY <1>1, <1>4, <2>1, DestroyReturns
  <2>3. \A c \in Consumers : ~Take(c)
    BY <1>4 DEF Destroy, Take, Goes
  <2>4. ItemsTyped'
    BY <1>1, <2>1, <2>3, ItemsTypedStep
  <2> QED BY <1>2, <2>2, <2>4 DEF BlocksInv
<1>5. CASE step # "destroyed" /\ ~Destroy
  <2>1. StockInv /\ ElementsInv /\ ItemsTyped
    BY <1>5 DEF BlocksInv
  <2>2. StockInv' /\ ElementsInv'
    BY <1>1, <1>5, <2>1, StockStep, ElementsStep
  <2>3. NoneOver'
    BY <2>2 DEF StockInv
  <2>4. ItemsTyped'
    BY <1>1, <2>1, ElementsTake, ItemsTypedStep
  <2>5. step' # "destroyed"
    BY <1>5, DestroyedBy
  <2> QED BY <1>2, <2>2, <2>3, <2>4, <2>5 DEF BlocksInv
<1> QED BY <1>3, <1>4, <1>5

LEMMA BlocksInit == Init => BlocksInv
<1> SUFFICES ASSUME Init PROVE BlocksInv
  OBVIOUS
<1>1. Index
  BY InitTyped, NestedInit, KeysInit DEF Index
<1>2. AllIdle /\ step = "idle" /\ tailIndex = 0 /\ headIndex = 0
  BY DEF Init, AllIdle
<1>3. \A e \in Entries : entries[e].value = Null
  BY SizesAssumption DEF Init, NewEntries, Entries
<1>4. Stored = 0
  <2>1. Nr(0) = 0 /\ 0 % BLOCK_SIZE = 0
    BY SizeOfBlock DEF Nr
  <2> QED BY <1>2, <2>1 DEF Stored, Inserted, NewBlockSteps
<1>5. HeldOnce /\ \A c \in Consumers : pc[c] \notin Holding
  BY <1>2 DEF HeldOnce, AllIdle, Holding, Untaken, Seeking
<1>6. ItemsTyped
  BY <1>2, BoundsAssumption DEF Init, ItemsTyped, NoneMine
<1>7. NoneOver
  BY SizeOfBlock DEF Init, NoneOver
<1>8. BlocksThere
  BY <1>4 DEF BlocksThere
<1>9. Counted
  BY <1>3 DEF Counted
<1>10. \A c \in Consumers : Seeks(c)
  BY <1>2 DEF AllIdle, Seeks
<1>11. OneEntry
  BY <1>3 DEF OneEntry, Has
<1>12. Releasing = {} /\ mine.block = Null
  BY <1>2 DEF Init, NoneMine, Releasing, AllIdle
<1>13. OneOwner
  BY <1>2, <1>12 DEF OneOwner
<1>14. \A b \in Blocks : ~Used(b)
  BY <1>3, <1>12, BlocksAssumption DEF Used, InIndex, Blocks
<1>15. Pooled
  BY <1>14 DEF Pooled, Init
<1>16. OnlyFull
  BY DEF Init, OnlyFull, Slots
<1>17. FullThere
  BY <1>3 DEF FullThere
<1> QED BY <1>2, <1>5, <1>6, <1>7, <1>8, <1>9, <1>10, <1>11, <1>13, <1>15, <1>16, <1>17
        DEF BlocksInv, StockInv, ElementsInv

LEMMA ElementsTyped ==
    ASSUME Index, BlocksInv
    PROVE  elements \in [Blocks -> [Slots -> Items \cup {NoItem}]]
<1>1. elements \in [Blocks -> [Slots -> Nat]]
  BY DEF Index, Typed, BlocksTyped, Slots
<1>2. ASSUME NEW b \in Blocks, NEW s \in Slots, elements[b][s] # NoItem
      PROVE  elements[b][s] \in Items
  <2>1. step # "destroyed"
    BY <1>2 DEF BlocksInv, AllReturned, Slots
  <2>2. PICK e \in Entries : entries[e].value = b /\ Full(entries[e].key + s)
    BY <1>2, <2>1 DEF BlocksInv, ElementsInv, OnlyFull
  <2>3. entries[e].value # Null
    BY <2>2, BlocksAssumption DEF Blocks
  <2> QED BY <2>1, <2>2, <2>3 DEF BlocksInv, ElementsInv, FullThere
<1>3. \A b \in Blocks : \A s \in Slots : elements[b][s] \in Items \cup {NoItem}
  BY <1>2
<1> QED BY <1>1, <1>3

LEMMA TypeIs ==
    ASSUME Index, BlocksInv
    PROVE  TypeOK
<1>1. DOMAIN entries = Entries
  BY DEF Entries, Index, Typed, IndexTyped
<1>2. /\ tailIndex \in Nat /\ headIndex \in Nat
      /\ dequeueOptimisticCount \in Nat /\ dequeueOvercommit \in Nat
  BY DEF Index, Typed, CountersTyped
<1>3. \A k \in DOMAIN headers :
          /\ headers[k].tail \in 0 .. Capacity(headers[k]) - 1
          /\ headers[k].index \in Seq(DOMAIN entries)
  BY <1>1 DEF Index, Typed, IndexTyped
<1>4. entries \in Seq([key : Nat, value : Blocks \cup {Null}])
  BY DEF Index, Typed, IndexTyped, Entry
<1>5. elements \in [Blocks -> [0 .. BLOCK_SIZE - 1 -> Items \cup {NoItem}]]
  BY ElementsTyped DEF Slots
<1>6. elementsCompletelyDequeued \in [Blocks -> 0 .. BLOCK_SIZE]
  BY SizeOfBlock DEF BlocksInv, NoneOver, Index, Typed, BlocksTyped
<1>7. unused \subseteq InitialBlocks /\ freeList \subseteq InitialBlocks /\ created \subseteq OtherBlocks
  BY DEF Index, Typed, BlocksTyped
<1>8. tailBlock \in Blocks \cup {Null} /\ enqueues \in Nat
  BY DEF Index, Typed, ProducerTyped
<1>9. mine \in [entry : {0} \cup DOMAIN entries, block : Blocks \cup {Null}]
  BY <1>1 DEF BlocksInv, ItemsTyped, Index, Typed, ProducerTyped
<1>10. \A c \in Consumers : local[c].block \in Blocks \cup {Null} /\ got[c] \in Seq(Items)
  BY DEF BlocksInv, ItemsTyped, Index, Typed, ConsumersTyped, Locals
<1> QED BY <1>2, <1>3, <1>4, <1>5, <1>6, <1>7, <1>8, <1>9, <1>10 DEF TypeOK

LEMMA EntryFound ==
    ASSUME Index, BlocksInv
    PROVE  EntryIsRight
<1> SUFFICES ASSUME NEW c \in Consumers
    PROVE  /\ pc[c] = "entry" =>
              entries[EntryAt(headers[local[c].header], local[c].at)].key # INVALID_BLOCK_BASE
           /\ pc[c] = "block" => entries[local[c].entry].key = Base(local[c].index)
                              /\ entries[local[c].entry].value # Null
  BY DEF EntryIsRight
<1>1. pc[c] \in {"entry", "block"} => Seeks(c)
  BY DEF BlocksInv, AllIdle, StockInv
<1>2. Base(local[c].index) = BLOCK_SIZE * Nr(local[c].index)
  BY NrIs DEF Index, Typed, ConsumersTyped, Locals
<1> QED BY <1>1, <1>2 DEF Seeks, Has, Held

LEMMA UsedIs ==
    ASSUME Index, BlocksInv, step # "destroyed", NEW b \in Blocks, Used(b)
    PROVE  b \notin unused \cup freeList /\ b \in (InitialBlocks \ (freeList \cup unused)) \cup created
BY DEF BlocksInv, StockInv, Pooled

LEMMA BlockFound ==
    ASSUME Index, CountersInv, BlocksInv
    PROVE  BlockIsMine
<1>1. ASSUME NEW c \in Consumers, pc[c] \in {"take", "count", "clear", "release"}
      PROVE  local[c].block \in (InitialBlocks \ (freeList \cup unused)) \cup created
  <2>1. step # "destroyed" /\ StockInv
    BY <1>1 DEF BlocksInv, AllIdle
  <2>2. local[c].block \in Blocks /\ Used(local[c].block)
    <3>1. local[c].block \in Blocks \cup {Null}
      BY DEF Index, Typed, ConsumersTyped, Locals
    <3>2. CASE pc[c] = "release"
      BY <2>1, <3>1, <3>2 DEF StockInv, OneOwner, Releasing, Used
    <3>3. CASE pc[c] # "release"
      <4>1. local[c].block # Null /\ local[c].block = entries[local[c].entry].value
        BY <1>1, <2>1, <3>3 DEF StockInv, Seeks
      <4>2. local[c].entry \in Entries
        BY <1>1, <3>3 DEF Index, Typed, ConsumersTyped
      <4> QED BY <3>1, <4>1, <4>2 DEF Used, InIndex
    <3> QED BY <3>2, <3>3
  <2> QED BY <2>1, <2>2, UsedIs
<1>2. ASSUME NEW c \in Consumers, pc[c] \in {"take", "count"}
      PROVE  elementsCompletelyDequeued[local[c].block] < BLOCK_SIZE
  <2>1. step # "destroyed" /\ StockInv /\ Known
    BY <1>2 DEF BlocksInv, AllIdle, Known
  <2>2. pc[c] \in Holding
    BY <1>2 DEF Holding, Untaken
  <2>3. PICK n \in Nat : n = Nr(Held(c))
    BY <2>1, <2>2, HeldIs
  <2>4. PICK e \in Entries : e = local[c].entry
    BY <1>2 DEF Index, Typed, ConsumersTyped
  <2>5. Has(e, n) /\ local[c].block = entries[e].value
    BY <1>2, <2>1, <2>3, <2>4 DEF StockInv, Seeks
  <2>6. Nr(entries[e].key) = n /\ entries[e].value \in Blocks
    BY <2>5, HasOnly
  <2>7. EmptyIn(e) + Cardinality(Holders(n)) = Claimed(n)
    BY <2>1, <2>5, <2>6 DEF StockInv, Counted, Has
  <2>8. Cardinality(Holders(n)) \in Nat /\ Cardinality(Holders(n)) # 0
    <3>1. c \in Holders(n)
      BY <2>2, <2>3 DEF Holders
    <3> QED BY <3>1, HoldersIs
  <2>9. Claimed(n) \in Nat /\ Claimed(n) <= BLOCK_SIZE
    BY <2>1, HeadBelow, ClaimedIs
  <2>10. EmptyIn(e) \in Nat
    BY <2>6 DEF EmptyIn, Index, Typed, BlocksTyped
  <2>11. EmptyIn(e) < BLOCK_SIZE
    BY <2>7, <2>8, <2>9, <2>10, SizeOfBlock
  <2> QED BY <2>5, <2>11 DEF EmptyIn
<1> QED BY <1>1, <1>2 DEF BlockIsMine

LEMMA BlocksCounted ==
    ASSUME Index, BlocksInv
    PROVE  BlocksAccounted
<1> SUFFICES ASSUME step # "destroyed"
             PROVE  /\ InUse \cap (unused \cup freeList) = {}
                    /\ InUse \cup unused \cup freeList = InitialBlocks \cup created
                    /\ \A d, e \in DOMAIN entries :
                          entries[d].value = entries[e].value => d = e \/ entries[d].value = Null
  BY DEF BlocksAccounted
<1>1. DOMAIN entries = Entries
  BY DEF Entries, Index, Typed, IndexTyped
<1>2. \A e \in Entries : entries[e].value \in Blocks \cup {Null}
  BY EntryIs DEF Index, Typed, Entry
<1>3. mine.block \in Blocks \cup {Null} /\ \A c \in Consumers : local[c].block \in Blocks \cup {Null}
  BY DEF Index, Typed, ProducerTyped, ConsumersTyped, Locals
<1>4. \A b : b \in InUse <=> b # Null /\ Used(b)
  BY <1>1 DEF InUse, Used, InIndex, Releasing
<1>5. \A b \in InUse : b \in Blocks
  BY <1>1, <1>2, <1>3 DEF InUse
<1>6. /\ unused \subseteq InitialBlocks /\ freeList \subseteq InitialBlocks /\ created \subseteq OtherBlocks
      /\ Null \notin Blocks
  BY BlocksAssumption DEF Index, Typed, BlocksTyped, Blocks
<1>7. \A b \in Blocks : /\ Used(b) => b \notin unused \cup freeList
                        /\ Used(b) \/ b \in unused \cup freeList <=> b \in InitialBlocks \cup created
  BY DEF BlocksInv, StockInv, Pooled
<1>8. InUse \cap (unused \cup freeList) = {}
  BY <1>4, <1>5, <1>7
<1>9. InUse \cup unused \cup freeList = InitialBlocks \cup created
  BY <1>4, <1>5, <1>6, <1>7 DEF Blocks
<1>10. \A d, e \in DOMAIN entries :
           entries[d].value = entries[e].value => d = e \/ entries[d].value = Null
  BY <1>1 DEF BlocksInv, StockInv, OneEntry
<1> QED BY <1>8, <1>9, <1>10

\* Whatever index a consumer looks in, it finds the block of its item, and the block
\* is still there and nobody else's; every block is in one place; and the
\* destructor leaves none behind.
THEOREM BlocksInPlaceCorrect == Spec => []BlocksInPlace
<1>1. Typed /\ Nested /\ KeysInv /\ CountersInv /\ BlocksInv /\ [Next]_vars => (CountersInv /\ BlocksInv)'
  BY CountersStep, BlocksStep DEF Index
<1>2. Init => CountersInv /\ BlocksInv
  BY CountersInit, BlocksInit
<1>3. Typed /\ Nested /\ KeysInv /\ CountersInv /\ BlocksInv => BlocksInPlace
  <2> SUFFICES ASSUME Typed, Nested, KeysInv, CountersInv, BlocksInv PROVE BlocksInPlace
    OBVIOUS
  <2>1. Index
    BY DEF Index
  <2> QED BY <2>1, TypeIs, EntryFound, BlockFound, BlocksCounted
          DEF BlocksInPlace, BlocksInv, AllReturned
<1> QED BY <1>1, <1>2, <1>3, TypedAlways, IndexAlways, PTL DEF Spec

-------------------------------------------------------------------------------
(* The stream is a FIFO queue *)

BlockOfRight ==
    \A i \in Nat : \A e \in Entries : Has(e, Nr(i)) => BlockOf(i) = entries[e].value

LEMMA BlockOfAlways == Index => BlockOfRight
BY BlockOfIs DEF BlockOfRight

LEMMA BlockOfNext == Index' => BlockOfRight'
BY BlockOfAlways, PTL

LEMMA FullHas ==
    ASSUME Known, StockInv, NEW i \in Nat, Full(i)
    PROVE  \E e \in Entries : \E n \in Nat : \E b \in Blocks : \E r \in Slots :
              /\ n = Nr(i) /\ Has(e, n) /\ Wanted(n) /\ entries[e].value = b
              /\ r = i % BLOCK_SIZE /\ entries[e].key + r = i
<1>1. PICK n \in Nat, r \in Slots : n = Nr(i) /\ r = i % BLOCK_SIZE /\ i = BLOCK_SIZE * n + r
  BY SlotOf
<1>2. n < Stored
  <2>1. CASE i < tailIndex
    BY <1>1, <2>1, StoredIs DEF Known
  <2>2. CASE i = tailIndex /\ step = "publish"
    <3>1. PICK m \in Nat : m = Nr(tailIndex)
      BY HeadBelow, SlotOf
    <3>2. Stored = m + 1
      BY <2>2, <3>1, StoredIs DEF Known
    <3>3. n = m
      BY <1>1, <2>2, <3>1
    <3> QED BY <3>1, <3>2, <3>3
  <2>3. CASE \E c \in Consumers : pc[c] \in Untaken /\ Held(c) = i
    BY <1>1, <2>3, HeldIs DEF Holding
  <2> QED BY <2>1, <2>2, <2>3 DEF Full
<1>3. Wanted(n)
  <2>1. CASE headIndex <= i
    <3>1. PICK a \in Nat : a = BLOCK_SIZE * n
      BY SizeOfBlock
    <3> QED BY <1>1, <2>1, <3>1, HeadBelow, SizeOfBlock DEF Wanted, Slots
  <2>2. CASE \E c \in Consumers : pc[c] \in Untaken /\ Held(c) = i
    BY <1>1, <2>2 DEF Wanted, Holders, Holding
  <2> QED BY <2>1, <2>2 DEF Full
<1>4. PICK e \in Entries : Has(e, n)
  BY <1>2, <1>3 DEF StockInv, BlocksThere
<1>5. entries[e].value \in Blocks
  BY <1>4, HasOnly DEF Known
<1>6. entries[e].key + r = i
  BY <1>1, <1>4 DEF Has
<1> QED BY <1>1, <1>3, <1>4, <1>5, <1>6

\* An item stays where it is until it is taken.
LEMMA ItemKept ==
    ASSUME Known, StockInv, [Next]_vars, ~Destroy, BlockOfRight, BlockOfRight',
           NEW i \in Nat, Full(i), Full(i)'
    PROVE  ItemAt(i)' = ItemAt(i)
<1>1. PICK e \in Entries, n \in Nat, b \in Blocks, r \in Slots :
              /\ n = Nr(i) /\ Has(e, n) /\ Wanted(n) /\ entries[e].value = b
              /\ r = i % BLOCK_SIZE /\ entries[e].key + r = i
  BY FullHas
<1>2. e \in Entries' /\ entries'[e] = entries[e]
  BY <1>1, WantedKept
<1>3. Has(e, n)' /\ entries'[e].value = b
  BY <1>1, <1>2 DEF Has
<1>4. BlockOf(i) = b
  BY <1>1 DEF BlockOfRight
<1>5. BlockOf(i)' = b
  <2>1. Has(e, Nr(i))'
    BY <1>1, <1>3 DEF Nr
  <2> QED BY <1>2, <1>3, <2>1 DEF BlockOfRight
<1>6. elements'[b][r] = elements[b][r]
  <2>1. elements \in [Blocks -> [Slots -> Nat]]
    BY DEF Known, Index, Typed, BlocksTyped, Slots
  <2>2. CASE Construct
    <3>1. PICK f \in Entries : entries[f].value = tailBlock /\ tailBlock \in Blocks
                               /\ entries[f].key + (tailIndex % BLOCK_SIZE) = tailIndex
      BY <2>2, TailIs
    <3>2. PICK d \in Blocks, q \in Slots : d = tailBlock /\ q = tailIndex % BLOCK_SIZE
      BY <3>1, HeadBelow, SlotOf
    <3>3. elements' = [elements EXCEPT ![d][q] = enqueues]
      BY <2>2, <3>2 DEF Construct
    <3>4. i # tailIndex
      <4>1. step = "construct" /\ \A c \in Consumers : pc[c] \in Untaken => Held(c) \in Nat /\ Held(c) < tailIndex
        BY <2>2, HeldIs DEF Construct, ProducerGoes, Holding
      <4> QED BY <4>1, HeadBelow DEF Full
    <3>5. b # d \/ r # q
      <4> SUFFICES ASSUME b = d, r = q PROVE FALSE
        OBVIOUS
      <4>1. f = e
        BY <1>1, <3>1, <3>2, BlocksAssumption DEF StockInv, OneEntry, Blocks
      <4> QED BY <1>1, <3>1, <3>2, <3>4, <4>1
    <3> QED BY <2>1, <3>3, <3>5
  <2>3. ASSUME NEW c \in Consumers, Take(c) PROVE elements'[b][r] = elements[b][r]
    <3>1. PICK f \in Entries : \E j \in Nat : \E x \in Blocks :
              /\ j = Held(c) /\ Has(f, Nr(j)) /\ entries[f].value = x /\ local[c].block = x
              /\ entries[f].key + (j % BLOCK_SIZE) = j
      BY <2>3, TakeIs
    <3>2. PICK j \in Nat, d \in Blocks :
              /\ j = Held(c) /\ entries[f].value = d /\ local[c].block = d
              /\ entries[f].key + (j % BLOCK_SIZE) = j
      BY <3>1
    <3>3. PICK q \in Slots : q = j % BLOCK_SIZE
      BY SlotOf
    <3>4. elements' = [elements EXCEPT ![d][q] = NoItem]
      BY <2>3, <3>2, <3>3 DEF Take, Held
    <3>5. i # j
      BY <2>3, <3>2, FullTake
    <3>6. b # d \/ r # q
      <4> SUFFICES ASSUME b = d, r = q PROVE FALSE
        OBVIOUS
      <4>1. f = e
        BY <1>1, <3>2, BlocksAssumption DEF StockInv, OneEntry, Blocks
      <4> QED BY <1>1, <3>2, <3>3, <3>5, <4>1
    <3> QED BY <2>1, <3>4, <3>6
  <2>4. CASE ~Construct /\ \A c \in Consumers : ~Take(c)
    <3>1. elements' = elements
      BY <2>4
      DEF Next, vars, Producer, Dequeue, Enqueue, FindEntry, GrowIndex, GrowFails,
          StoreKey, StoreTail, FromInitialPool, FromFreeList, FromMalloc, Obtain,
          RequisitionFails, StoreValue, Publish, blocks, LoadTail, LoadOvercommit,
          SeesItem, SeesNone, Commit, Recheck, GiveBack, Claim, LoadBlockIndex,
          LoadIndexTail, FindBlock, LoadBlock, CountEmpty, ClearEntry, Release, rest
    <3> QED BY <3>1
  <2> QED BY <2>2, <2>3, <2>4
<1> QED BY <1>1, <1>4, <1>5, <1>6 DEF ItemAt

LEMMA ItemIn ==
    ASSUME Known, StockInv, ElementsInv, BlockOfRight, NEW i \in Nat, Full(i)
    PROVE  ItemAt(i) \in Items
<1>1. PICK e \in Entries, n \in Nat, b \in Blocks, r \in Slots :
              /\ n = Nr(i) /\ Has(e, n) /\ Wanted(n) /\ entries[e].value = b
              /\ r = i % BLOCK_SIZE /\ entries[e].key + r = i
  BY FullHas
<1>2. BlockOf(i) = b
  BY <1>1 DEF BlockOfRight
<1>3. elements[b][r] \in Items
  BY <1>1 DEF ElementsInv, FullThere, Has
<1> QED BY <1>1, <1>2, <1>3 DEF ItemAt

ItemsRight == \A i \in Nat : Full(i) => ItemAt(i) \in Items

LEMMA ItemsAlways == Known /\ StockInv /\ ElementsInv => ItemsRight
BY BlockOfAlways, ItemIn DEF ItemsRight, Known

LEMMA ItemsNext == Known' /\ StockInv' /\ ElementsInv' => ItemsRight'
BY ItemsAlways, PTL

LEMMA AppendIs ==
    ASSUME NEW S, NEW q \in Seq(S), NEW r \in Seq(S), NEW x \in S, Len(r) = Len(q) + 1,
           \A k \in 1 .. Len(q) : r[k] = q[k], r[Len(q) + 1] = x
    PROVE  r = Append(q, x)
<1>1. /\ Append(q, x) \in Seq(S) /\ Len(Append(q, x)) = Len(q) + 1
      /\ \A k \in 1 .. Len(q) : Append(q, x)[k] = q[k]
      /\ Append(q, x)[Len(q) + 1] = x
  BY AppendProperties
<1>2. \A k \in 1 .. Len(q) + 1 : k \in 1 .. Len(q) \/ k = Len(q) + 1
  OBVIOUS
<1>3. \A k \in 1 .. Len(r) : r[k] = Append(q, x)[k]
  BY <1>1, <1>2
<1> QED BY <1>1, <1>3, SeqEqual

LEMMA RestIs ==
    ASSUME NEW S, NEW q \in Seq(S), NEW r \in Seq(S), Len(q) = Len(r) + 1,
           \A k \in 1 .. Len(r) : r[k] = q[k + 1]
    PROVE  q # <<>> /\ r = Tail(q) /\ Head(q) = q[1]
<1>1. q # <<>>
  OBVIOUS
<1>2. Tail(q) \in Seq(S) /\ Len(Tail(q)) = Len(q) - 1 /\ \A k \in 1 .. Len(q) - 1 : Tail(q)[k] = q[k + 1]
      /\ Head(q) = q[1]
  BY <1>1, HeadTailProperties
<1>3. Len(q) - 1 = Len(r)
  OBVIOUS
<1>4. \A k \in 1 .. Len(r) : r[k] = Tail(q)[k]
  BY <1>2, <1>3
<1> QED BY <1>1, <1>2, <1>3, <1>4, SeqEqual

\* The queue of the refinement, and what the calls have been given.
Queued == [k \in 1 .. tailIndex - headIndex |-> ItemAt(headIndex + k - 1)]
Given == [c \in Consumers |->
            IF pc[c] \in {"header", "indexTail", "entry", "block", "take"}
            THEN Append(got[c], ItemAt(local[c].index)) ELSE got[c]]

QueuedShape ==
    /\ Queued \in Seq(Items) /\ Len(Queued) = tailIndex - headIndex
    /\ \A k \in 1 .. tailIndex - headIndex : Queued[k] = ItemAt(headIndex + k - 1)

LEMMA QueuedAlways == Known /\ ItemsRight => QueuedShape
<1> SUFFICES ASSUME Known, ItemsRight PROVE QueuedShape
  OBVIOUS
<1>1. PICK h \in Nat, t \in Nat : h = headIndex /\ t = tailIndex /\ h <= t
  BY HeadBelow
<1>2. PICK n \in Nat : n = t - h
  BY <1>1
<1>3. ASSUME NEW k \in 1 .. n PROVE ItemAt(h + k - 1) \in Items
  <2>1. PICK i \in Nat : i = h + k - 1 /\ h <= i /\ i < t
    BY <1>1, <1>2
  <2>2. Full(i)
    BY <1>1, <2>1 DEF Full
  <2> QED BY <2>1, <2>2 DEF ItemsRight
<1>4. Queued \in [1 .. n -> Items] /\ \A k \in 1 .. n : Queued[k] = ItemAt(h + k - 1)
  BY <1>1, <1>2, <1>3 DEF Queued
<1>5. Queued \in Seq(Items) /\ Len(Queued) = n
  <2>1. Queued \in Seq(Items)
    BY <1>4, SeqDef
  <2> QED BY <1>4, <2>1, LenProperties
<1> QED BY <1>1, <1>2, <1>4, <1>5 DEF QueuedShape

LEMMA QueuedNext == Known' /\ ItemsRight' => QueuedShape'
BY QueuedAlways, PTL

LEMMA CountersStay ==
    ASSUME Known, [Next]_vars
    PROVE  /\ ~Publish => tailIndex' = tailIndex
           /\ (\A c \in Consumers : ~Claim(c)) => headIndex' = headIndex
<1>1. CASE Producer \/ Destroy \/ UNCHANGED vars
  BY <1>1
  DEF Producer, Enqueue, FindEntry, GrowIndex, GrowFails, StoreKey, StoreTail,
      FromInitialPool, FromFreeList, FromMalloc, Obtain, RequisitionFails, StoreValue,
      Construct, Publish, Destroy, vars, indexes
<1>2. ASSUME NEW c \in Consumers, Dequeue(c) PROVE tailIndex' = tailIndex /\ (~Claim(c) => headIndex' = headIndex)
  BY <1>2, OthersWait, HolderStep DEF Known, Index
<1> QED BY <1>1, <1>2 DEF Next

LEMMA UntakenStays ==
    ASSUME Known, ItemsTyped, [Next]_vars, NEW d \in Consumers, ~Claim(d), ~Take(d)
    PROVE  /\ pc'[d] \in Untaken <=> pc[d] \in Untaken
           /\ pc[d] \in Untaken => Held(d)' = Held(d)
           /\ got'[d] = got[d]
<1>1. CASE Producer \/ Destroy \/ UNCHANGED vars
  BY <1>1, ProducerWaits DEF Held
<1>2. ASSUME NEW c \in Consumers, Dequeue(c), c # d
      PROVE  pc'[d] = pc[d] /\ Held(d)' = Held(d) /\ got'[d] = got[d]
  <2>1. pc'[d] = pc[d] /\ Held(d)' = Held(d)
    BY <1>2, OthersWait DEF Held, Known, Index
  <2>2. got'[d] = got[d]
    BY <1>2
    DEF ItemsTyped, Dequeue, LoadTail, LoadOvercommit, SeesItem, SeesNone, Commit,
        Recheck, GiveBack, Claim, LoadBlockIndex, LoadIndexTail, FindBlock, LoadBlock,
        Take, CountEmpty, ClearEntry, Release, rest
  <2> QED BY <2>1, <2>2
<1>3. CASE Dequeue(d)
  <2>1. got' = got
    BY <1>3
    DEF Dequeue, LoadTail, LoadOvercommit, SeesItem, SeesNone, Commit, Recheck,
        GiveBack, LoadBlockIndex, LoadIndexTail, FindBlock, LoadBlock, CountEmpty,
        ClearEntry, Release, rest
  <2>2. CASE CountEmpty(d)
    <3>1. pc[d] = "count" /\ pc'[d] \in {"clear", "idle"}
      BY <2>2 DEF CountEmpty, Goes, Known, Index, Typed, ConsumersTyped
    <3> QED BY <2>1, <3>1 DEF Untaken, Seeking
  <2>3. CASE ~CountEmpty(d)
    <3>1. /\ pc'[d] \in Holding => pc[d] \in Holding /\ Held(d)' = Held(d)
          /\ pc[d] \in Holding => pc'[d] \in Holding
      BY <1>3, <2>3, HolderStep DEF Known, Index
    <3>2. pc[d] # "count" /\ pc'[d] # "count"
      BY <1>3, <2>3
      DEF Dequeue, LoadTail, LoadOvercommit, SeesItem, SeesNone, Commit, Recheck,
          GiveBack, Claim, LoadBlockIndex, LoadIndexTail, FindBlock, LoadBlock,
          ClearEntry, Release, Goes, Known, Index, Typed, ConsumersTyped
    <3> QED BY <2>1, <3>1, <3>2 DEF Holding
  <2> QED BY <2>2, <2>3
<1> QED BY <1>1, <1>2, <1>3 DEF Next

\* A step that is not of the destructor, and what holds before it and after it.
Ready == Known /\ StockInv /\ ElementsInv /\ ItemsTyped /\ BlockOfRight /\ ItemsRight /\ QueuedShape
Between == Ready /\ Ready' /\ [Next]_vars /\ ~Destroy

LEMMA GivenSame ==
    ASSUME Between, NEW d \in Consumers, ~Claim(d), ~Take(d)
    PROVE  Given'[d] = Given[d]
<1>1. /\ pc'[d] \in Untaken <=> pc[d] \in Untaken
      /\ pc[d] \in Untaken => Held(d)' = Held(d)
      /\ got'[d] = got[d]
  BY UntakenStays DEF Between, Ready
<1>2. CASE pc[d] \in Untaken
  <2>1. PICK i \in Nat : i = Held(d)
    BY <1>2, HeldIs DEF Between, Ready, Holding
  <2>2. i = Held(d)'
    BY <1>1, <1>2, <2>1
  <2>3. Full(i) /\ Full(i)'
    BY <1>1, <1>2, <2>1, <2>2 DEF Full
  <2>4. ItemAt(i)' = ItemAt(i)
    BY <2>3, ItemKept DEF Between, Ready
  <2>5. ItemAt(local[d].index)' = ItemAt(i)'
    BY <2>2 DEF Held
  <2>6. Given[d] = Append(got[d], ItemAt(i)) /\ Given'[d] = Append(got'[d], ItemAt(i)')
    BY <1>1, <1>2, <2>1, <2>5 DEF Given, Held, Untaken, Seeking
  <2> QED BY <1>1, <2>4, <2>6
<1>3. CASE pc[d] \notin Untaken
  BY <1>1, <1>3 DEF Given, Untaken, Seeking
<1> QED BY <1>2, <1>3

\* The items of the queue that stay in it.
LEMMA QueuedSame ==
    ASSUME Between, NEW i \in Nat, headIndex <= i, i < tailIndex, headIndex' <= i
    PROVE  ItemAt(i)' = ItemAt(i)
<1>1. headIndex \in Nat /\ tailIndex \in Nat /\ i < tailIndex'
  <2>1. tailIndex' = tailIndex \/ (Publish /\ tailIndex' = tailIndex + 1)
    BY CountersStay DEF Between, Ready, Publish
  <2> QED BY <2>1, HeadBelow DEF Between, Ready
<1>2. Full(i) /\ Full(i)'
  BY <1>1 DEF Full
<1> QED BY <1>2, ItemKept DEF Between, Ready

LEMMA QueuedKeeps ==
    ASSUME Between, headIndex' = headIndex, tailIndex' = tailIndex
    PROVE  Queued' = Queued
<1>1. PICK h \in Nat, t \in Nat : h = headIndex /\ t = tailIndex /\ h <= t
  BY HeadBelow DEF Between, Ready
<1>2. /\ Queued \in Seq(Items) /\ Len(Queued) = t - h
      /\ \A k \in 1 .. t - h : Queued[k] = ItemAt(headIndex + k - 1)
  BY <1>1 DEF Between, Ready, QueuedShape
<1>3. /\ Queued' \in Seq(Items) /\ Len(Queued') = t - h
      /\ \A k \in 1 .. t - h : Queued'[k] = ItemAt(headIndex + k - 1)'
  BY <1>1 DEF Between, Ready, QueuedShape, Items
<1>4. ASSUME NEW k \in 1 .. t - h PROVE Queued'[k] = Queued[k]
  <2>1. PICK i \in Nat : i = h + k - 1 /\ h <= i /\ i < t
    BY <1>1
  <2>2. ItemAt(i)' = ItemAt(i)
    BY <1>1, <2>1, QueuedSame
  <2>3. i = headIndex + k - 1 /\ i = headIndex' + k - 1
    BY <1>1, <2>1
  <2>4. ItemAt(headIndex + k - 1)' = ItemAt(i)'
    BY <2>3
  <2> QED BY <1>2, <1>3, <2>2, <2>3, <2>4
<1> QED BY <1>2, <1>3, <1>4, SeqEqual

LEMMA GivenKeeps ==
    ASSUME Between, \A d \in Consumers : Given'[d] = Given[d]
    PROVE  Given' = Given
BY DEF Given

LEMMA PublishPuts ==
    ASSUME Between, Publish
    PROVE  Given' = Given /\ \E v \in Items : Queued' = Append(Queued, v)
<1>1. PICK h \in Nat, t \in Nat : h = headIndex /\ t = tailIndex /\ h <= t
  BY HeadBelow DEF Between, Ready
<1>2. headIndex' = h /\ tailIndex' = t + 1 /\ pc' = pc
  BY <1>1 DEF Publish, consumers
<1>3. \A d \in Consumers : ~Claim(d) /\ ~Take(d)
  BY <1>2 DEF Claim, Take, Goes, Between, Ready, Known, Index, Typed, ConsumersTyped
<1>4. Given' = Given
  BY <1>3, GivenSame, GivenKeeps
<1>5. PICK v \in Items : v = ItemAt(t)'
  <2>1. Full(t)'
    BY <1>1, <1>2 DEF Full
  <2> QED BY <2>1 DEF Between, Ready, ItemsRight, Items
<1>6. /\ Queued \in Seq(Items) /\ Len(Queued) = t - h
      /\ \A k \in 1 .. t - h : Queued[k] = ItemAt(headIndex + k - 1)
  BY <1>1 DEF Between, Ready, QueuedShape
<1>7. /\ Queued' \in Seq(Items) /\ Len(Queued') = t + 1 - h
      /\ \A k \in 1 .. t + 1 - h : Queued'[k] = ItemAt(headIndex + k - 1)'
  BY <1>1, <1>2 DEF Between, Ready, QueuedShape, Items
<1>8. ASSUME NEW k \in 1 .. t - h PROVE Queued'[k] = Queued[k]
  <2>1. PICK i \in Nat : i = h + k - 1 /\ h <= i /\ i < t /\ k \in 1 .. t + 1 - h
    BY <1>1
  <2>2. ItemAt(i)' = ItemAt(i)
    BY <1>1, <1>2, <2>1, QueuedSame
  <2>3. i = headIndex + k - 1 /\ i = headIndex' + k - 1
    BY <1>1, <1>2, <2>1
  <2>4. ItemAt(headIndex + k - 1)' = ItemAt(i)'
    BY <2>3
  <2> QED BY <1>6, <1>7, <2>1, <2>2, <2>3, <2>4
<1>9. Queued'[t - h + 1] = v
  <2>1. PICK k \in 1 .. t + 1 - h : k = t - h + 1
    BY <1>1
  <2>2. t = headIndex' + k - 1
    BY <1>1, <1>2, <2>1
  <2>3. ItemAt(headIndex + k - 1)' = ItemAt(t)'
    BY <2>2
  <2> QED BY <1>5, <1>7, <2>1, <2>3
<1>10. Queued' = Append(Queued, v)
  <2>1. Len(Queued') = Len(Queued) + 1
    BY <1>1, <1>6, <1>7
  <2>2. \A k \in 1 .. Len(Queued) : Queued'[k] = Queued[k]
    BY <1>6, <1>8
  <2>3. Queued'[Len(Queued) + 1] = v
    BY <1>6, <1>9
  <2>4. Queued \in Seq(Items) /\ Queued' \in Seq(Items)
    BY <1>6, <1>7
  <2> QED BY <2>1, <2>2, <2>3, <2>4, AppendIs
<1> QED BY <1>4, <1>10

LEMMA ClaimGets ==
    ASSUME Between, NEW c \in Consumers, Claim(c)
    PROVE  /\ Queued # <<>> /\ Queued' = Tail(Queued)
           /\ Given' = [Given EXCEPT ![c] = Append(@, Head(Queued))]
<1>1. PICK h \in Nat, t \in Nat : h = headIndex /\ t = tailIndex /\ h < t
  BY HeadBelow, ClaimBelow DEF Between, Ready
<1>2. /\ headIndex' = h + 1 /\ tailIndex' = t /\ pc[c] = "claim" /\ pc'[c] = "header" /\ Held(c)' = h
      /\ got' = got /\ \A d \in Consumers : d # c => pc'[d] = pc[d]
  <2>1. Dequeue(c)
    BY DEF Dequeue
  <2>2. Typed
    BY DEF Between, Ready, Known, Index
  <2> QED BY <1>1, <2>1, <2>2, ClaimIs, OthersWait DEF Claim, rest
<1>3. /\ Queued \in Seq(Items) /\ Len(Queued) = t - h
      /\ \A k \in 1 .. t - h : Queued[k] = ItemAt(headIndex + k - 1)
  BY <1>1 DEF Between, Ready, QueuedShape
<1>4. /\ Queued' \in Seq(Items) /\ Len(Queued') = t - (h + 1)
      /\ \A k \in 1 .. t - (h + 1) : Queued'[k] = ItemAt(headIndex + k - 1)'
  BY <1>1, <1>2 DEF Between, Ready, QueuedShape, Items
<1>5. ASSUME NEW k \in 1 .. t - (h + 1) PROVE Queued'[k] = Queued[k + 1]
  <2>1. PICK i \in Nat : i = h + k /\ h + 1 <= i /\ i < t /\ k + 1 \in 1 .. t - h
    BY <1>1
  <2>2. ItemAt(i)' = ItemAt(i)
    BY <1>1, <1>2, <2>1, QueuedSame
  <2>3. i = headIndex + (k + 1) - 1 /\ i = headIndex' + k - 1
    BY <1>1, <1>2, <2>1
  <2>4. ItemAt(headIndex + k - 1)' = ItemAt(i)'
    BY <2>3
  <2>5. Queued[k + 1] = ItemAt(i)
    BY <1>3, <2>1, <2>3
  <2> QED BY <1>4, <2>2, <2>4, <2>5
<1>6. Queued # <<>> /\ Queued' = Tail(Queued) /\ Head(Queued) = Queued[1]
  <2>1. Len(Queued) = Len(Queued') + 1 /\ Len(Queued') = t - (h + 1)
    BY <1>1, <1>3, <1>4
  <2> QED BY <1>3, <1>4, <1>5, <2>1, RestIs
<1>7. Given'[c] = Append(Given[c], Head(Queued))
  <2>1. Full(h) /\ Full(h)'
    BY <1>1, <1>2 DEF Full, Untaken, Seeking
  <2>2. ItemAt(h)' = ItemAt(h)
    BY <2>1, ItemKept DEF Between, Ready
  <2>3. Queued[1] = ItemAt(h)
    <3>1. PICK k \in 1 .. t - h : k = 1
      BY <1>1
    <3>2. headIndex + k - 1 = h
      BY <1>1, <3>1
    <3> QED BY <1>3, <3>1, <3>2
  <2>4. ItemAt(local[c].index)' = ItemAt(h)'
    BY <1>2 DEF Held
  <2>5. Given[c] = got[c] /\ Given'[c] = Append(got'[c], ItemAt(local[c].index)')
    BY <1>2 DEF Given, Untaken, Seeking
  <2> QED BY <1>2, <1>6, <2>2, <2>3, <2>4, <2>5
<1>8. ASSUME NEW d \in Consumers, d # c PROVE Given'[d] = Given[d]
  <2>1. ~Claim(d) /\ ~Take(d)
    BY <1>2, <1>8 DEF Claim, Take, Goes, Between, Ready, Known, Index, Typed, ConsumersTyped
  <2> QED BY <2>1, GivenSame
<1>9. Given' = [Given EXCEPT ![c] = Append(@, Head(Queued))]
  BY <1>7, <1>8 DEF Given
<1> QED BY <1>6, <1>9

LEMMA TakeGives ==
    ASSUME Between, NEW c \in Consumers, Take(c)
    PROVE  Given' = Given /\ Queued' = Queued
<1>1. pc[c] = "take" /\ pc'[c] = "count" /\ UNCHANGED <<headIndex, tailIndex>>
      /\ \A d \in Consumers : d # c => pc'[d] = pc[d]
  BY DEF Take, Goes, indexes, Between, Ready, Known, Index, Typed, ConsumersTyped
<1>2. Queued' = Queued
  BY <1>1, QueuedKeeps
<1>3. PICK e \in Entries, h \in Nat, b \in Blocks :
              h = Held(c) /\ Has(e, Nr(h)) /\ entries[e].value = b /\ local[c].block = b
  BY TakeIs DEF Between, Ready
<1>4. ItemAt(h) = elements[b][h % BLOCK_SIZE]
  BY <1>3 DEF ItemAt, Between, Ready, BlockOfRight
<1>5. got'[c] = Append(got[c], elements[b][h % BLOCK_SIZE])
  BY <1>3, ElementsTake DEF Between, Ready
<1>6. Given[c] = Append(got[c], ItemAt(h)) /\ Given'[c] = got'[c]
  BY <1>1, <1>3 DEF Given, Untaken, Seeking, Held
<1>7. ASSUME NEW d \in Consumers, d # c PROVE Given'[d] = Given[d]
  <2>1. ~Claim(d) /\ ~Take(d)
    BY <1>1, <1>7 DEF Claim, Take, Goes, Between, Ready, Known, Index, Typed, ConsumersTyped
  <2> QED BY <2>1, GivenSame
<1>8. Given' = Given
  BY <1>4, <1>5, <1>6, <1>7, GivenKeeps
<1> QED BY <1>2, <1>8

LEMMA FifoIs == Fifo!vars = <<Queued, Given>> /\ (Fifo!Init <=> Queued = <<>> /\ Given = [c \in Consumers |-> <<>>])
BY DEF Fifo!vars, Fifo!Init, Queued, Given

LEMMA FifoStep ==
    ASSUME \/ Queued' = Queued /\ Given' = Given
           \/ \E v \in Items : Queued' = Append(Queued, v) /\ Given' = Given
           \/ \E c \in Consumers : /\ Queued # <<>> /\ Queued' = Tail(Queued)
                                   /\ Given' = [Given EXCEPT ![c] = Append(@, Head(Queued))]
    PROVE  [Fifo!Next]_(Fifo!vars)
<1>1. CASE Queued' = Queued /\ Given' = Given
  BY <1>1 DEF Fifo!vars, Queued, Given
<1>2. ASSUME NEW v \in Items, Queued' = Append(Queued, v), Given' = Given PROVE Fifo!Put(v)
  BY <1>2 DEF Fifo!Put, Queued, Given
<1>3. ASSUME NEW c \in Consumers, Queued # <<>>, Queued' = Tail(Queued),
             Given' = [Given EXCEPT ![c] = Append(@, Head(Queued))]
      PROVE  Fifo!Get(c)
  BY <1>3 DEF Fifo!Get, Queued, Given
<1> QED BY <1>1, <1>2, <1>3 DEF Fifo!Next

LEMMA BetweenRefines ==
    ASSUME Between
    PROVE  [Fifo!Next]_(Fifo!vars)
<1>1. CASE Publish
  BY <1>1, PublishPuts, FifoStep
<1>2. ASSUME NEW c \in Consumers, Claim(c) PROVE [Fifo!Next]_(Fifo!vars)
  <2>1. /\ Queued # <<>> /\ Queued' = Tail(Queued)
        /\ Given' = [Given EXCEPT ![c] = Append(@, Head(Queued))]
    BY <1>2, ClaimGets
  <2> QED BY <2>1, FifoStep
<1>3. ASSUME NEW c \in Consumers, Take(c) PROVE [Fifo!Next]_(Fifo!vars)
  <2>1. Given' = Given /\ Queued' = Queued
    BY <1>3, TakeGives
  <2> QED BY <2>1, FifoStep
<1>4. CASE ~Publish /\ \A c \in Consumers : ~Claim(c) /\ ~Take(c)
  <2>1. Given' = Given
    BY <1>4, GivenSame, GivenKeeps
  <2>2. headIndex' = headIndex /\ tailIndex' = tailIndex
    BY <1>4, CountersStay DEF Between, Ready
  <2>3. Queued' = Queued
    BY <2>2, QueuedKeeps
  <2> QED BY <2>1, <2>3, FifoStep
<1> QED BY <1>1, <1>2, <1>3, <1>4

LEMMA StutterRefines ==
    ASSUME UNCHANGED vars
    PROVE  UNCHANGED Fifo!vars
<1>1. UNCHANGED <<tailIndex, headIndex, headers, entries, elements, pc, local, got>>
  BY DEF vars, indexes, blocks, consumers
<1>2. \A i : ItemAt(i)' = ItemAt(i)
  BY <1>1 DEF ItemAt, BlockOf, EntryOf, blockIndex, Last, EntryAt, Position, Capacity
<1>3. Queued' = Queued
  BY <1>1, <1>2 DEF Queued
<1>4. Given' = Given
  BY <1>1, <1>2 DEF Given
<1> QED BY <1>3, <1>4, FifoIs DEF Fifo!vars, Queued, Given

StreamInv == Index /\ CountersInv /\ BlocksInv

Running == StreamInv /\ step # "destroyed"

LEMMA ReadyAlways == Running => Ready
<1> SUFFICES ASSUME Running PROVE Ready
  OBVIOUS
<1>1. Known /\ StockInv /\ ElementsInv /\ ItemsTyped
  BY DEF Running, StreamInv, Known, BlocksInv
<1>2. BlockOfRight /\ ItemsRight
  BY <1>1, BlockOfAlways, ItemsAlways DEF Known
<1>3. QueuedShape
  BY <1>1, <1>2, QueuedAlways
<1> QED BY <1>1, <1>2, <1>3 DEF Ready

LEMMA ReadyNext == Running' => Ready'
BY ReadyAlways, PTL

LEMMA StepRefines ==
    ASSUME StreamInv, StreamInv', [Next]_vars
    PROVE  [Fifo!Next \/ Destroy]_(Fifo!vars)
<1>1. CASE step = "destroyed"
  <2>1. UNCHANGED vars
    BY <1>1, DestroyedEnds DEF StreamInv, BlocksInv
  <2> QED BY <2>1, StutterRefines
<1>2. CASE step # "destroyed" /\ ~Destroy
  <2>1. step' # "destroyed"
    BY <1>2, DestroyedBy DEF StreamInv
  <2>2. Between
    BY <1>2, <2>1, ReadyAlways, ReadyNext DEF Between, Running
  <2> QED BY <2>2, BetweenRefines
<1> QED BY <1>1, <1>2

LEMMA InitRefines == Init => Fifo!Init
<1> SUFFICES ASSUME Init PROVE Fifo!Init
  OBVIOUS
<1>1. Queued = <<>>
  BY DEF Init, Queued
<1>2. Given = [c \in Consumers |-> <<>>]
  BY DEF Init, Given
<1> QED BY <1>1, <1>2, FifoIs

LEMMA StreamAlways == Spec => []StreamInv
<1>1. Typed /\ Nested /\ KeysInv /\ CountersInv /\ BlocksInv /\ [Next]_vars => (CountersInv /\ BlocksInv)'
  BY CountersStep, BlocksStep DEF Index
<1>2. Init => CountersInv /\ BlocksInv
  BY CountersInit, BlocksInit
<1>3. Typed /\ Nested /\ KeysInv /\ CountersInv /\ BlocksInv => StreamInv
  BY DEF StreamInv, Index
<1> QED BY <1>1, <1>2, <1>3, TypedAlways, IndexAlways, PTL DEF Spec

\* The stream is a FIFO queue for every number of consumers, items and blocks, and
\* every size of a block and of the first index: an enqueue takes effect when
\* tailIndex moves, a dequeue when headIndex does.
THEOREM FifoRefines == Spec => ImplementsFifo
<1>1. StreamInv /\ StreamInv' /\ [Next]_vars => [Fifo!Next \/ Destroy]_(Fifo!vars)
  BY StepRefines
<1> QED BY <1>1, InitRefines, StreamAlways, PTL DEF Spec, ImplementsFifo

===============================================================================
