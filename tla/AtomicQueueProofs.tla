------------------------- MODULE AtomicQueueProofs -------------------------
(***************************************************************************)
(* AtomicQueue for every number of callers, slots and ticket widths: types *)
(* and the exclusive access to the plain elements of the ring, with and    *)
(* without discipline of the callers; the FIFO queue, with it.             *)
(***************************************************************************)
EXTENDS AtomicQueue, SequenceTheorems, FiniteSetTheorems, TLAPS

LEMMA SlotTyped == \A k \in Tickets : Slot(k) \in Slots
<1>1. ASSUME NEW a \in Nat, NEW b \in Nat \ {0} PROVE a % b \in 0 .. b - 1
  OBVIOUS
<1> QED BY <1>1, SizeAssumption, WidthAssumption DEF Slot, Slots, Tickets

LEMMA SuccessorTyped == \A k \in Tickets : Successor(k) \in Tickets
<1>1. ASSUME NEW a \in Nat, NEW b \in Nat \ {0} PROVE a % b \in 0 .. b - 1
  OBVIOUS
<1> QED BY <1>1, SizeAssumption, WidthAssumption DEF Successor, Tickets

\* A producer in a push has started a call, and starts no more than Pushes.
CallsBounded ==
  \A p \in Producers : /\ calls[p] =< Pushes
                       /\ pc[p] \in {"push", "storing"} => calls[p] >= 1

Items == (Producers \X (1 .. Pushes)) \cup {NoItem}
PCs == {"idle", "push", "storing", "check", "claim", "pop", "loading"}

IInv == TypeOK /\ CallsBounded /\ SlotExclusive

LEMMA InitIInv == Init => IInv
<1> SUFFICES ASSUME Init PROVE IInv
  OBVIOUS
<1>1. 0 \in Tickets
  BY SizeAssumption, WidthAssumption DEF Tickets
<1>2. got \in [Consumers -> Seq(Items)]
  BY DEF Init, Items
<1>3. TypeOK
  BY <1>1, <1>2 DEF Init, TypeOK, Items
<1>4. CallsBounded /\ SlotExclusive
  BY CallsAssumption DEF Init, CallsBounded, SlotExclusive, Callers
<1> QED BY <1>3, <1>4 DEF IInv

LEMMA PushStep ==
  ASSUME IInv, NEW p \in Producers, Push(p)
  PROVE  IInv'
<1> p \in Callers /\ p \notin Consumers
  BY CallersAssumption DEF Callers
<1> USE CallsAssumption, SlotTyped, SuccessorTyped DEF IInv, TypeOK, CallsBounded, Goto, Callers
<1>1. CASE TakeTicket(p)
  <2>1. TypeOK' /\ CallsBounded'
    BY <1>1 DEF TakeTicket
  <2>2. SlotExclusive'
    BY <1>1 DEF TakeTicket, SlotExclusive
  <2> QED BY <2>1, <2>2
<1>2. CASE BeginStore(p)
  <2>1. TypeOK' /\ CallsBounded'
    BY <1>2 DEF BeginStore
  <2>2. SlotExclusive'
    BY <1>2 DEF BeginStore, SlotExclusive
  <2> QED BY <2>1, <2>2
<1>3. CASE EndStore(p)
  <2>1. TypeOK' /\ CallsBounded'
    <3>1. Item(p, calls[p]) \in Producers \X (1 .. Pushes)
      BY <1>3 DEF EndStore, Item
    <3> QED BY <1>3, <3>1 DEF EndStore
  <2>2. SlotExclusive'
    BY <1>3 DEF EndStore, SlotExclusive
  <2> QED BY <2>1, <2>2
<1> QED BY <1>1, <1>2, <1>3 DEF Push

LEMMA TryPopStep ==
  ASSUME IInv, NEW c \in Consumers, TryPop(c)
  PROVE  IInv'
<1> c \in Callers /\ c \notin Producers
  BY CallersAssumption DEF Callers
<1> USE SlotTyped, SuccessorTyped DEF IInv, TypeOK, CallsBounded, Goto, Callers
<1>1. CASE LoadTail(c)
  BY <1>1 DEF LoadTail, SlotExclusive
<1>2. CASE CheckHead(c)
  BY <1>2 DEF CheckHead, SlotExclusive
<1>3. CASE ClaimTicket(c)
  BY <1>3 DEF ClaimTicket, SlotExclusive
<1>4. CASE ClaimFails(c)
  BY <1>4 DEF ClaimFails, SlotExclusive
<1>5. CASE BeginLoad(c)
  <2>1. TypeOK' /\ CallsBounded'
    BY <1>5 DEF BeginLoad
  <2>2. SlotExclusive'
    BY <1>5 DEF BeginLoad, SlotExclusive
  <2> QED BY <2>1, <2>2
<1>6. CASE EndLoad(c)
  <2>1. TypeOK' /\ CallsBounded'
    <3>1. Append(got[c], element[Slot(ticket[c])]) \in Seq(Items)
      BY DEF Items
    <3> QED BY <1>6, <3>1 DEF EndLoad, Items
  <2>2. SlotExclusive'
    BY <1>6 DEF EndLoad, SlotExclusive
  <2> QED BY <2>1, <2>2
<1> QED BY <1>1, <1>2, <1>3, <1>4, <1>5, <1>6 DEF TryPop

LEMMA Inductive == Spec => []IInv
<1>1. ASSUME IInv, UNCHANGED vars PROVE IInv'
  BY <1>1 DEF vars, IInv, TypeOK, CallsBounded, SlotExclusive
<1>2. IInv /\ [Next]_vars => IInv'
  BY <1>1, PushStep, TryPopStep DEF Next
<1> QED BY <1>2, InitIInv, PTL DEF Spec

\* Every variable keeps its type; tickets stay within their width.
THEOREM TypeCorrect == Spec => []TypeOK
<1>1. IInv => TypeOK
  BY DEF IInv
<1> QED BY <1>1, Inductive, PTL

\* No two callers ever access the element of a slot together.
THEOREM ExclusiveAccess == Spec => []SlotExclusive
<1>1. IInv => SlotExclusive
  BY DEF IInv
<1> QED BY <1>1, Inductive, PTL

-----------------------------------------------------------------------------
(* Arithmetic modulo Width and Size *)

LEMMA ModSame ==
  ASSUME NEW n \in Nat \ {0}, NEW a \in Nat, NEW b \in Nat, a % n = b % n, a < b
  PROVE  b - a >= n
<1>1. /\ a = n * (a \div n) + (a % n) /\ b = n * (b \div n) + (b % n)
      /\ a \div n \in Int /\ b \div n \in Int
      /\ a % n \in 0 .. n - 1 /\ b % n \in 0 .. n - 1
  OBVIOUS
<1>2. n * (a \div n) < n * (b \div n)
  BY <1>1
<1>3. a \div n < b \div n
  BY <1>1, <1>2
<1>4. b \div n >= (a \div n) + 1
  BY <1>1, <1>3
<1>5. n * (b \div n) >= n * ((a \div n) + 1)
  BY <1>1, <1>4
<1>6. n * ((a \div n) + 1) = n * (a \div n) + n
  BY <1>1
<1> QED BY <1>1, <1>5, <1>6

LEMMA ModIs ==
  ASSUME NEW n \in Nat \ {0}, NEW x \in Int, NEW r \in 0 .. n - 1
  PROVE  (n * x + r) % n = r
OBVIOUS

LEMMA ModTurn ==
  ASSUME NEW n \in Nat \ {0}, NEW w \in Nat, w % n = 0, NEW a \in Nat
  PROVE  (w + a) % n = a % n
<1>1. PICK x \in Int : w = n * x
  <2>1. w = n * (w \div n) /\ w \div n \in Int
    OBVIOUS
  <2> QED BY <2>1
<1>2. PICK y \in Int, r \in 0 .. n - 1 : a = n * y + r
  <2>1. a = n * (a \div n) + (a % n) /\ a \div n \in Int /\ a % n \in 0 .. n - 1
    OBVIOUS
  <2> QED BY <2>1
<1>3. n * x + n * y = n * (x + y)
  OBVIOUS
<1>4. w + a = n * (x + y) + r
  BY <1>1, <1>2, <1>3
<1>5. (n * (x + y) + r) % n = r /\ (n * y + r) % n = r
  BY ModIs
<1> QED BY <1>2, <1>4, <1>5

\* How far ticket j is ahead of ticket k.
LEMMA Distance ==
  ASSUME NEW j \in Tickets, NEW k \in Tickets
  PROVE  (j - k) % Width = IF j >= k THEN j - k ELSE j - k + Width
<1>1. \A n \in Nat \ {0} : \A a \in 0 .. n - 1 : a % n = a
  OBVIOUS
<1>2. \A n \in Nat \ {0} : \A a \in -n .. -1 : a % n = a + n
  OBVIOUS
<1>3. Width \in Nat \ {0}
  BY SizeAssumption, WidthAssumption
<1>4. CASE j >= k
  <2>1. j - k \in 0 .. Width - 1
    BY <1>3, <1>4 DEF Tickets
  <2>2. (j - k) % Width = j - k
    BY <1>1, <1>3, <2>1, Zenon
  <2> QED BY <1>4, <2>2
<1>5. CASE ~ (j >= k)
  <2>1. j - k \in -Width .. -1
    BY <1>3, <1>5 DEF Tickets
  <2>2. (j - k) % Width = j - k + Width
    BY <1>2, <1>3, <2>1, Zenon
  <2> QED BY <1>5, <2>2
<1> QED BY <1>4, <1>5

LEMMA SuccessorIs ==
  ASSUME NEW k \in Tickets
  PROVE  Successor(k) = IF k = Width - 1 THEN 0 ELSE k + 1
<1>1. \A n \in Nat \ {0} : \A a \in 0 .. n : a % n = IF a = n THEN 0 ELSE a
  OBVIOUS
<1>2. Width \in Nat \ {0} /\ k + 1 \in 0 .. Width
  BY SizeAssumption, WidthAssumption DEF Tickets
<1>3. (k + 1) % Width = IF k + 1 = Width THEN 0 ELSE k + 1
  BY <1>1, <1>2, Zenon
<1>4. k + 1 = Width <=> k = Width - 1
  BY <1>2 DEF Tickets
<1> QED BY <1>3, <1>4 DEF Successor

\* Two tickets among the last Size ones have different slots.
LEMMA OneSlot ==
  ASSUME NEW h \in Tickets, NEW j \in Tickets, NEW k \in Tickets,
         (h - j) % Width \in 1 .. Size, (h - k) % Width \in 1 .. Size, Slot(j) = Slot(k)
  PROVE  j = k
<1>1. ASSUME NEW a \in Tickets, NEW b \in Tickets, Slot(a) = Slot(b), a < b
      PROVE  b - a >= Size /\ (Width + a) - b >= Size
  <2>1. /\ Size \in Nat \ {0} /\ Width \in Nat /\ Width % Size = 0
        /\ a \in Nat /\ b \in Nat /\ a % Size = b % Size /\ Width + a \in Nat /\ b < Width + a
    BY <1>1, SizeAssumption, WidthAssumption DEF Tickets, Slot
  <2>2. b - a >= Size
    BY <1>1, <2>1, ModSame
  <2>3. b % Size = (Width + a) % Size
    BY <2>1, ModTurn
  <2>4. (Width + a) - b >= Size
    BY <2>1, <2>3, ModSame, Zenon
  <2> QED BY <2>2, <2>4
<1>2. ~ (j < k)
  BY <1>1, Distance, SizeAssumption, WidthAssumption DEF Tickets
<1>3. ~ (k < j)
  BY <1>1, Distance, SizeAssumption, WidthAssumption DEF Tickets
<1> QED BY <1>2, <1>3 DEF Tickets

-----------------------------------------------------------------------------
(* The invariant of the disciplined queue *)

Pushing(p) == pc[p] \in {"push", "storing"}
Popping(c) == pc[c] \in {"pop", "loading"}

QueueLength == (head - tail) % Width
Unclaimed(k) == (k - tail) % Width < QueueLength
Age(k) == (head - k) % Width

Roles ==
  /\ \A p \in Producers : pc[p] \in {"idle", "push", "storing"}
  /\ \A c \in Consumers : pc[c] \in {"idle", "check", "claim", "pop", "loading"}

\* The open tickets are among the last Size ones.
Window == \A k \in OpenTickets : Age(k) \in 1 .. Size

\* No two calls work on a ticket, except the push and the pop of its item.
OwnTickets ==
  /\ \A p, q \in Producers : Pushing(p) /\ Pushing(q) /\ ticket[p] = ticket[q] => p = q
  /\ \A c, d \in Consumers : Popping(c) /\ Popping(d) /\ ticket[c] = ticket[d] => c = d
  /\ \A c \in Consumers : Popping(c) => ~ Unclaimed(ticket[c])

\* The item of a push waits in the queue, or for the pop that has claimed it.
Awaited ==
  \A p \in Producers : Pushing(p) =>
    Unclaimed(ticket[p]) \/ \E c \in Consumers : Popping(c) /\ ticket[c] = ticket[p]

\* The slot of a ticket follows its push and its pop; other slots are empty.
SlotPhases ==
  /\ \A p \in Producers : pc[p] = "push" => state[Slot(ticket[p])] = "EMPTY"
  /\ \A k \in OpenTickets :
       (\A p \in Producers : Pushing(p) => ticket[p] # k)
         => state[Slot(k)] \in {"STORED", "LOADING"}
  /\ \A s \in Slots : (\A k \in OpenTickets : Slot(k) # s) => state[s] = "EMPTY"

DInv == IInv /\ Roles /\ Window /\ OwnTickets /\ Awaited /\ SlotPhases

Open(k) ==
  \/ Unclaimed(k)
  \/ \E p \in Producers : Pushing(p) /\ ticket[p] = k
  \/ \E c \in Consumers : Popping(c) /\ ticket[c] = k

LEMMA OpenIs ==
  ASSUME TypeOK, Roles
  PROVE  OpenTickets = {k \in Tickets : Open(k)}
<1>1. ASSUME NEW a \in Callers, pc[a] \in {"push", "storing", "pop", "loading"}
      PROVE  ticket[a] \in Tickets /\ Open(ticket[a])
  BY <1>1 DEF TypeOK, Roles, Callers, Open, Pushing, Popping
<1>2. ASSUME NEW k \in Tickets, Unclaimed(k) PROVE k \in OpenTickets /\ Open(k)
  BY <1>2 DEF OpenTickets, Unclaimed, QueueLength, Open
<1>3. ASSUME NEW p \in Producers, Pushing(p) PROVE ticket[p] \in OpenTickets
  BY <1>3 DEF OpenTickets, Callers, Pushing
<1>4. ASSUME NEW c \in Consumers, Popping(c) PROVE ticket[c] \in OpenTickets
  BY <1>4 DEF OpenTickets, Callers, Popping
<1>5. ASSUME NEW k \in OpenTickets PROVE k \in Tickets /\ Open(k)
  BY <1>1, <1>2, <1>5 DEF OpenTickets, Unclaimed, QueueLength
<1>6. ASSUME NEW k \in Tickets, Open(k) PROVE k \in OpenTickets
  BY <1>2, <1>3, <1>4, <1>6 DEF Open
<1> QED BY <1>5, <1>6

Opens == OpenTickets = {k \in Tickets : Open(k)}

LEMMA OpenAfter == (TypeOK /\ Roles => Opens)'
<1>1. TypeOK /\ Roles => Opens
  BY OpenIs DEF Opens
<1> QED BY <1>1, PTL

\* The distance from ticket k to ticket j, of w tickets in a circle.
Ahead(w, j, k) == IF j >= k THEN j - k ELSE j - k + w

LEMMA HeadTurns ==
  ASSUME NEW w \in Nat \ {0}, NEW h \in 0 .. w - 1, NEW k \in 0 .. w - 1, NEW g,
         g = IF h = w - 1 THEN 0 ELSE h + 1
  PROVE  Ahead(w, g, k) = IF Ahead(w, h, k) = w - 1 THEN 0 ELSE Ahead(w, h, k) + 1
BY DEF Ahead

LEMMA TailTurns ==
  ASSUME NEW w \in Nat \ {0}, NEW h \in 0 .. w - 1, NEW t \in 0 .. w - 1, NEW g,
         g = IF t = w - 1 THEN 0 ELSE t + 1, h # t
  PROVE  Ahead(w, h, g) = Ahead(w, h, t) - 1
BY DEF Ahead

LEMMA AgeIs ==
  ASSUME NEW j \in Tickets, NEW k \in Tickets
  PROVE  (j - k) % Width = Ahead(Width, j, k)
BY Distance DEF Ahead

\* Each unclaimed ticket has an age between 1 and the length of the queue.
Ages ==
  /\ QueueLength \in 0 .. Width - 1
  /\ QueueLength = 0 <=> head = tail
  /\ \A k \in Tickets :
       /\ Age(k) \in 0 .. Width - 1
       /\ Age(k) = 0 <=> k = head
       /\ Unclaimed(k) <=> Age(k) \in 1 .. QueueLength
       /\ Age(k) = QueueLength <=> k = tail

LEMMA AgesHold == ASSUME TypeOK PROVE Ages
<1>1. Width \in Nat \ {0} /\ head \in 0 .. Width - 1 /\ tail \in 0 .. Width - 1
  BY SizeAssumption, WidthAssumption DEF TypeOK, Tickets
<1>2. QueueLength = Ahead(Width, head, tail)
  BY AgeIs DEF QueueLength, TypeOK
<1>3. \A k \in Tickets : Age(k) = Ahead(Width, head, k)
  BY AgeIs DEF Age, TypeOK
<1>4. \A k \in Tickets : Unclaimed(k) <=> Ahead(Width, k, tail) < QueueLength
  BY AgeIs DEF Unclaimed, TypeOK
<1>5. QueueLength \in 0 .. Width - 1 /\ (QueueLength = 0 <=> head = tail)
  BY <1>1, <1>2 DEF Ahead
<1>6. ASSUME NEW k \in Tickets
      PROVE  /\ Age(k) \in 0 .. Width - 1 /\ (Age(k) = 0 <=> k = head)
             /\ Unclaimed(k) <=> Age(k) \in 1 .. QueueLength
             /\ Age(k) = QueueLength <=> k = tail
  <2>1. /\ Ahead(Width, head, k) \in 0 .. Width - 1
        /\ Ahead(Width, head, k) = 0 <=> head = k
        /\ Ahead(Width, k, tail) < Ahead(Width, head, tail)
             <=> Ahead(Width, head, k) \in 1 .. Ahead(Width, head, tail)
        /\ Ahead(Width, head, k) = Ahead(Width, head, tail) <=> k = tail
    BY <1>1 DEF Tickets, Ahead
  <2>2. Age(k) = Ahead(Width, head, k)
    BY <1>3
  <2>3. Unclaimed(k) <=> Ahead(Width, k, tail) < QueueLength
    BY <1>4
  <2>4. Unclaimed(k) <=> Age(k) \in 1 .. QueueLength
    BY <1>2, <2>1, <2>2, <2>3, Zenon
  <2> QED BY <1>2, <2>1, <2>2, <2>4
<1> QED BY <1>5, <1>6, Zenon DEF Ages

LEMMA AgesAfter == (TypeOK => Ages)'
<1>1. TypeOK => Ages
  BY AgesHold
<1> QED BY <1>1, PTL

\* A new ticket makes the others older by one.
LEMMA TakeAges ==
  ASSUME TypeOK, head' = Successor(head), tail' = tail
  PROVE  /\ \A k \in Tickets : Age(k)' = IF Age(k) = Width - 1 THEN 0 ELSE Age(k) + 1
         /\ QueueLength' = IF QueueLength = Width - 1 THEN 0 ELSE QueueLength + 1
<1>1. /\ Width \in Nat \ {0} /\ head \in 0 .. Width - 1 /\ tail \in 0 .. Width - 1
      /\ head' \in Tickets
  BY SuccessorTyped, SizeAssumption, WidthAssumption DEF TypeOK, Tickets
<1>2. head' = IF head = Width - 1 THEN 0 ELSE head + 1
  BY SuccessorIs DEF TypeOK
<1>3. \A k \in Tickets : Ahead(Width, head', k)
                           = IF Ahead(Width, head, k) = Width - 1 THEN 0 ELSE Ahead(Width, head, k) + 1
  BY <1>1, <1>2, HeadTurns DEF Tickets
<1>4. \A k \in Tickets : Age(k) = Ahead(Width, head, k) /\ Age(k)' = Ahead(Width, head', k)
  BY <1>1, AgeIs DEF Age, TypeOK
<1>5. QueueLength = Ahead(Width, head, tail) /\ QueueLength' = Ahead(Width, head', tail)
  BY <1>1, AgeIs DEF QueueLength, TypeOK
<1> QED BY <1>3, <1>4, <1>5 DEF TypeOK

\* A claim takes the oldest ticket of the queue.
LEMMA ClaimAges ==
  ASSUME TypeOK, head' = head, tail' = Successor(tail), head # tail
  PROVE  /\ \A k \in Tickets : Age(k)' = Age(k)
         /\ QueueLength' = QueueLength - 1
<1>1. /\ Width \in Nat \ {0} /\ head \in 0 .. Width - 1 /\ tail \in 0 .. Width - 1
      /\ tail' \in Tickets
  BY SuccessorTyped, SizeAssumption, WidthAssumption DEF TypeOK, Tickets
<1>2. tail' = IF tail = Width - 1 THEN 0 ELSE tail + 1
  BY SuccessorIs DEF TypeOK
<1>3. Ahead(Width, head, tail') = Ahead(Width, head, tail) - 1
  BY <1>1, <1>2, TailTurns
<1>4. QueueLength = Ahead(Width, head, tail) /\ QueueLength' = Ahead(Width, head, tail')
  BY <1>1, AgeIs DEF QueueLength, TypeOK
<1> QED BY <1>3, <1>4 DEF Age

-----------------------------------------------------------------------------
(* The steps of the disciplined queue *)

LEMMA TakeOpens ==
  ASSUME DInv, Disciplined, NEW p \in Producers, TakeTicket(p), TypeOK', Roles'
  PROVE  /\ OpenTickets' = OpenTickets \cup {head} /\ head \notin OpenTickets
         /\ \A k \in Tickets : Unclaimed(k)' <=> Unclaimed(k) \/ k = head
         /\ QueueLength' = QueueLength + 1
         /\ \A k \in OpenTickets : Slot(k) # Slot(head)
         /\ Window'
<1> DEFINE h == head
<1>1. TypeOK /\ Roles /\ Window /\ Ages /\ Ages' /\ head \in Tickets /\ tail \in Tickets
  BY AgesHold, AgesAfter DEF DInv, IInv, TypeOK
<1>2. OpenTickets = {k \in Tickets : Open(k)} /\ OpenTickets' = {k \in Tickets : Open(k)'}
  BY <1>1, OpenIs, OpenAfter DEF Opens, Tickets
<1>3. \A k \in OpenTickets : Age(k) \in 1 .. Size - 1
  BY <1>1, SizeAssumption DEF TakeTicket, MayPush, Window, Age
<1>4. QueueLength < Size
  <2>1. Age(tail) = QueueLength /\ (Unclaimed(tail) <=> Age(tail) \in 1 .. QueueLength)
    BY <1>1 DEF Ages
  <2>2. QueueLength \in Nat
    BY <1>1, SizeAssumption, WidthAssumption DEF Ages
  <2>3. CASE QueueLength = 0
    BY <2>3, SizeAssumption
  <2>4. CASE QueueLength # 0
    <3>1. Unclaimed(tail)
      BY <2>1, <2>2, <2>4
    <3>2. tail \in OpenTickets
      BY <1>1, <1>2, <3>1 DEF Open
    <3> QED BY <1>3, <2>1, <3>2, SizeAssumption
  <2> QED BY <2>3, <2>4
<1>5. Size < Width - 1 \/ (Size = 1 /\ Width = 2)
  BY SizeAssumption, WidthAssumption
<1>6. /\ \A k \in Tickets : Age(k)' = IF Age(k) = Width - 1 THEN 0 ELSE Age(k) + 1
      /\ QueueLength' = QueueLength + 1
  BY <1>1, <1>4, <1>5, TakeAges, SizeAssumption, WidthAssumption DEF Ages, TakeTicket
<1>7. ASSUME NEW k \in Tickets PROVE Unclaimed(k)' <=> Unclaimed(k) \/ k = head
  <2>1. /\ Age(k) \in 0 .. Width - 1 /\ (Age(k) = 0 <=> k = head)
        /\ Unclaimed(k) <=> Age(k) \in 1 .. QueueLength
        /\ Unclaimed(k)' <=> Age(k)' \in 1 .. QueueLength'
        /\ QueueLength \in 0 .. Width - 1
        /\ Age(k)' = IF Age(k) = Width - 1 THEN 0 ELSE Age(k) + 1
    BY <1>1, <1>6 DEF Ages
  <2>2. Age(k)' \in 1 .. QueueLength + 1 <=> Age(k) \in 1 .. QueueLength \/ Age(k) = 0
    BY <1>4, <1>5, <2>1, SizeAssumption, WidthAssumption
  <2> QED BY <1>6, <2>1, <2>2, Zenon
<1>8. head \notin OpenTickets
  BY <1>1, <1>3 DEF Ages
<1>9. ASSUME NEW k \in Tickets PROVE Open(k)' <=> Open(k) \/ k = head
  <2>1. /\ \A q \in Producers : Pushing(q)' /\ ticket'[q] = k
                                  <=> (Pushing(q) /\ ticket[q] = k) \/ (q = p /\ k = head)
        /\ \A c \in Consumers : (Popping(c)' <=> Popping(c)) /\ ticket'[c] = ticket[c]
    BY <1>1, CallersAssumption DEF TakeTicket, Goto, TypeOK, Callers, Pushing, Popping
  <2> QED BY <1>7, <2>1, Zenon DEF Open
<1>10. OpenTickets' = OpenTickets \cup {head}
  BY <1>1, <1>2, <1>9
<1>11. Window'
  <2> SUFFICES ASSUME NEW k \in OpenTickets' PROVE Age(k)' \in 1 .. Size
    BY DEF Window
  <2>1. k \in Tickets /\ (k \in OpenTickets \/ k = head)
    BY <1>2, <1>10
  <2>2. Age(k) \in 0 .. Size - 1
    BY <1>1, <1>3, <2>1, SizeAssumption DEF Ages
  <2> QED BY <1>5, <1>6, <2>1, <2>2, SizeAssumption, WidthAssumption
<1>12. ASSUME NEW k \in OpenTickets PROVE Slot(k) # Slot(head)
  <2>1. k \in Tickets /\ k # head /\ head' \in Tickets /\ head \in Tickets
    BY <1>1, <1>2, <1>8 DEF TypeOK
  <2>2. PICK g \in Tickets : g = head'
    BY <2>1
  <2>3. PICK j \in Tickets : j = head
    BY <2>1
  <2>4. (g - k) % Width \in 1 .. Size
    BY <1>10, <1>11, <2>2 DEF Window, Age
  <2>5. (g - j) % Width \in 1 .. Size
    <3>1. \A i \in OpenTickets' : (head' - i) % Width \in 1 .. Size
      BY <1>11 DEF Window, Age
    <3> QED BY <1>10, <2>2, <2>3, <3>1
  <2> QED BY <2>1, <2>3, <2>4, <2>5, OneSlot
<1> QED BY <1>6, <1>7, <1>8, <1>10, <1>11, <1>12

LEMMA TakeStep ==
  ASSUME DInv, Disciplined, NEW p \in Producers, TakeTicket(p)
  PROVE  DInv'
<1>1. IInv' /\ TypeOK /\ TypeOK' /\ head \in Tickets /\ p \in Callers /\ p \notin Consumers
  BY PushStep, CallersAssumption DEF DInv, Push, IInv, TypeOK, Callers
<1>2. Roles'
  BY <1>1 DEF DInv, Roles, TakeTicket, Goto, TypeOK, Callers
<1>3. /\ OpenTickets' = OpenTickets \cup {head} /\ head \notin OpenTickets
      /\ \A k \in Tickets : Unclaimed(k)' <=> Unclaimed(k) \/ k = head
      /\ \A k \in OpenTickets : Slot(k) # Slot(head)
      /\ Window'
  BY <1>1, <1>2, TakeOpens
<1>4. OpenTickets = {k \in Tickets : Open(k)}
  BY <1>1, OpenIs DEF DInv
<1>5. \A a \in Callers : a # p => pc'[a] = pc[a] /\ ticket'[a] = ticket[a]
  BY <1>1 DEF TakeTicket, Goto, TypeOK
<1>6. pc[p] = "idle" /\ pc'[p] = "push" /\ ticket'[p] = head /\ state' = state
  BY <1>1 DEF TakeTicket, Goto, TypeOK
<1>7. \A a \in Callers : ticket[a] \in Tickets
  BY <1>1 DEF TypeOK
<1>8. \A q \in Producers : Pushing(q) => ticket[q] # head
  BY <1>3, <1>4, <1>7, CallersAssumption DEF Open, Callers
<1>9. \A c \in Consumers : Popping(c) => ticket[c] # head
  BY <1>3, <1>4, <1>7, CallersAssumption DEF Open, Callers
<1>10. OwnTickets'
  <2>1. \A q, r \in Producers :
          Pushing(q)' /\ Pushing(r)' /\ ticket'[q] = ticket'[r] => q = r
    BY <1>5, <1>6, <1>8 DEF DInv, OwnTickets, Pushing, Callers
  <2>2. \A c \in Consumers : (Popping(c)' <=> Popping(c)) /\ ticket'[c] = ticket[c]
    BY <1>1, <1>5 DEF Popping, Callers
  <2>3. \A c, d \in Consumers :
          Popping(c)' /\ Popping(d)' /\ ticket'[c] = ticket'[d] => c = d
    BY <2>2, Zenon DEF DInv, OwnTickets
  <2>4. ASSUME NEW c \in Consumers, Popping(c)' PROVE ~ Unclaimed(ticket[c])'
    <3>1. Popping(c) /\ ticket[c] \in Tickets /\ ticket[c] # head /\ ~ Unclaimed(ticket[c])
      BY <1>7, <1>9, <2>2, <2>4 DEF DInv, OwnTickets, Callers
    <3>2. PICK k \in Tickets : k = ticket[c]
      BY <3>1
    <3>3. ~ Unclaimed(k)'
      BY <1>3, <3>1, <3>2
    <3> QED BY <2>2, <3>2, <3>3 DEF Unclaimed
  <2> QED BY <2>1, <2>2, <2>3, <2>4 DEF OwnTickets, Unclaimed
<1>11. SlotPhases'
  <2>1. state[Slot(head)] = "EMPTY"
    BY <1>1, <1>3, SlotTyped DEF DInv, SlotPhases
  <2>2. \A q \in Producers : pc'[q] = "push" => state'[Slot(ticket'[q])] = "EMPTY"
    BY <1>5, <1>6, <2>1 DEF DInv, SlotPhases, Callers
  <2>3. ASSUME NEW k \in OpenTickets', \A q \in Producers : Pushing(q)' => ticket'[q] # k
        PROVE  state'[Slot(k)] \in {"STORED", "LOADING"}
    <3>1. k \in OpenTickets
      BY <1>3, <1>6, <2>3 DEF Pushing
    <3>2. \A q \in Producers : Pushing(q) => ticket[q] # k
      BY <1>5, <1>6, <2>3 DEF Pushing, Callers
    <3> QED BY <1>6, <3>1, <3>2 DEF DInv, SlotPhases
  <2>4. \A s \in Slots : (\A k \in OpenTickets' : Slot(k) # s) => state'[s] = "EMPTY"
    BY <1>3, <1>6 DEF DInv, SlotPhases
  <2> QED BY <2>2, <2>3, <2>4 DEF SlotPhases
<1>12. Awaited'
  <2>1. \A k \in Tickets : Unclaimed(k) \/ k = head => Unclaimed(k)'
    BY <1>3
  <2>2. \A c \in Consumers : (Popping(c)' <=> Popping(c)) /\ ticket'[c] = ticket[c]
    BY <1>1, <1>5 DEF Popping, Callers
  <2>3. ASSUME NEW q \in Producers, Pushing(q)'
        PROVE  Unclaimed(ticket[q])' \/ \E c \in Consumers : Popping(c)' /\ ticket'[c] = ticket'[q]
    <3>1. CASE q = p
      <4>1. PICK k \in Tickets : k = ticket'[q]
        BY <1>1, <1>6, <3>1
      <4>2. Unclaimed(k)'
        BY <1>6, <2>1, <3>1, <4>1
      <4> QED BY <4>1, <4>2 DEF Unclaimed
    <3>2. CASE q # p
      <4>1. PICK k \in Tickets : k = ticket[q]
        BY <1>7 DEF Callers
      <4>2. ticket'[q] = k /\ Pushing(q)
        BY <1>5, <2>3, <3>2, <4>1 DEF Callers, Pushing
      <4>3. Unclaimed(k) \/ \E c \in Consumers : Popping(c) /\ ticket[c] = k
        BY <4>1, <4>2 DEF DInv, Awaited
      <4>4. Unclaimed(k)' \/ \E c \in Consumers : Popping(c)' /\ ticket'[c] = k
        BY <2>1, <2>2, <4>3
      <4> QED BY <4>2, <4>4 DEF Unclaimed
    <3> QED BY <3>1, <3>2
  <2> QED BY <2>3 DEF Awaited
<1> QED BY <1>1, <1>2, <1>3, <1>10, <1>11, <1>12 DEF DInv

\* Steps that leave the counters alone and open no ticket.
LEMMA SameTickets ==
  ASSUME TypeOK, Roles, TypeOK', Roles', UNCHANGED <<head, tail>>,
         \A p \in Producers : (Pushing(p)' => Pushing(p)) /\ ticket'[p] = ticket[p],
         \A c \in Consumers : Popping(c)' => Popping(c) /\ ticket'[c] = ticket[c]
  PROVE  /\ OpenTickets' \subseteq OpenTickets
         /\ \A k : Unclaimed(k)' <=> Unclaimed(k)
         /\ Window => Window'
         /\ OwnTickets => OwnTickets'
<1>1. OpenTickets = {k \in Tickets : Open(k)} /\ OpenTickets' = {k \in Tickets : Open(k)'}
  BY OpenIs, OpenAfter DEF Opens, Tickets
<1>2. \A k : Unclaimed(k)' <=> Unclaimed(k)
  BY DEF Unclaimed, QueueLength
<1>3. \A k : Open(k)' => Open(k)
  <2> SUFFICES ASSUME NEW k, Open(k)' PROVE Open(k)
    OBVIOUS
  <2>1. CASE Unclaimed(k)'
    BY <1>2, <2>1 DEF Open
  <2>2. CASE \E p \in Producers : Pushing(p)' /\ ticket'[p] = k
    BY <2>2 DEF Open
  <2>3. CASE \E c \in Consumers : Popping(c)' /\ ticket'[c] = k
    BY <2>3 DEF Open
  <2> QED BY <2>1, <2>2, <2>3 DEF Open
<1>4. OpenTickets' \subseteq OpenTickets
  BY <1>1, <1>3
<1>5. Window => Window'
  BY <1>4 DEF Window, Age
<1>6. OwnTickets => OwnTickets'
  BY DEF OwnTickets, Unclaimed, QueueLength
<1> QED BY <1>2, <1>4, <1>5, <1>6

\* Steps that leave every ticket in use as well.
LEMMA SameOpen ==
  ASSUME TypeOK, Roles, TypeOK', Roles', Window, OwnTickets, Awaited, UNCHANGED <<head, tail>>,
         \A p \in Producers : (Pushing(p)' => Pushing(p)) /\ ticket'[p] = ticket[p],
         \A c \in Consumers :
           (Popping(c)' <=> Popping(c)) /\ (Popping(c) => ticket'[c] = ticket[c])
  PROVE  OpenTickets' = OpenTickets /\ Window' /\ OwnTickets' /\ Awaited'
<1>1. OpenTickets = {k \in Tickets : Open(k)} /\ OpenTickets' = {k \in Tickets : Open(k)'}
  BY OpenIs, OpenAfter DEF Opens, Tickets
<1>2. \A k : Unclaimed(k)' <=> Unclaimed(k)
  BY DEF Unclaimed, QueueLength
<1>3. \A k : (\E c \in Consumers : Popping(c) /\ ticket[c] = k)
               => (\E c \in Consumers : Popping(c)' /\ ticket'[c] = k)
  OBVIOUS
<1>4. \A k : Open(k) => Unclaimed(k) \/ \E c \in Consumers : Popping(c) /\ ticket[c] = k
  BY DEF Open, Awaited
<1>5. \A k : Open(k) => Open(k)'
  BY <1>2, <1>3, <1>4 DEF Open
<1>6. OpenTickets' \subseteq OpenTickets /\ Window' /\ OwnTickets'
  BY SameTickets
<1>7. OpenTickets' = OpenTickets
  BY <1>1, <1>5, <1>6
<1>8. Awaited'
  <2> SUFFICES ASSUME NEW p \in Producers, Pushing(p)'
               PROVE  \/ Unclaimed(ticket[p])'
                      \/ \E c \in Consumers : Popping(c)' /\ ticket'[c] = ticket'[p]
    BY DEF Awaited
  <2>1. Unclaimed(ticket[p]) \/ \E c \in Consumers : Popping(c) /\ ticket[c] = ticket[p]
    BY DEF Awaited
  <2>2. ticket'[p] = ticket[p]
    OBVIOUS
  <2>3. Unclaimed(ticket[p]) => Unclaimed(ticket[p])'
    BY <2>2 DEF Unclaimed, QueueLength
  <2> QED BY <1>3, <2>1, <2>2, <2>3
<1> QED BY <1>6, <1>7, <1>8

\* The slot an open ticket works on is that of no other open ticket.
LEMMA OwnSlot ==
  ASSUME TypeOK, Roles, Window, NEW j \in OpenTickets, NEW k \in OpenTickets, Slot(j) = Slot(k)
  PROVE  j = k
<1>1. head \in Tickets /\ j \in Tickets /\ k \in Tickets
  BY OpenIs DEF TypeOK
<1> QED BY <1>1, OneSlot DEF Window, Age

LEMMA InUse ==
  ASSUME TypeOK, Roles
  PROVE  /\ \A p \in Producers : Pushing(p) => ticket[p] \in OpenTickets
         /\ \A c \in Consumers : Popping(c) => ticket[c] \in OpenTickets
         /\ OpenTickets \subseteq Tickets
BY OpenIs DEF Open, TypeOK, Callers

LEMMA BeginStoreStep ==
  ASSUME DInv, NEW p \in Producers, BeginStore(p)
  PROVE  DInv'
<1>1. IInv' /\ TypeOK /\ TypeOK' /\ p \in Callers /\ p \notin Consumers
  BY PushStep, CallersAssumption DEF DInv, Push, IInv, TypeOK, Callers
<1>2. /\ pc[p] = "push" /\ pc' = [pc EXCEPT ![p] = "storing"] /\ ticket' = ticket
      /\ state' = [state EXCEPT ![Slot(ticket[p])] = "STORING"]
      /\ UNCHANGED <<head, tail>>
  BY DEF BeginStore, Goto
<1>3. Roles'
  BY <1>1, <1>2 DEF DInv, Roles, TypeOK, Callers
<1>4. /\ \A q \in Producers : Pushing(q)' <=> Pushing(q)
      /\ \A c \in Consumers : Popping(c)' <=> Popping(c)
  BY <1>1, <1>2 DEF Pushing, Popping, TypeOK, Callers
<1>5. OpenTickets' = OpenTickets /\ Window' /\ OwnTickets' /\ Awaited'
  BY <1>1, <1>2, <1>3, <1>4, SameOpen DEF DInv
<1>6. /\ \A q \in Producers : Pushing(q) => ticket[q] \in OpenTickets
      /\ OpenTickets \subseteq Tickets
  BY <1>1, InUse DEF DInv
<1>7. \A k \in OpenTickets : Slot(k) = Slot(ticket[p]) => k = ticket[p]
  BY <1>1, <1>2, <1>6, OwnSlot DEF DInv, Pushing
<1>8. \A k \in OpenTickets : k # ticket[p] => state'[Slot(k)] = state[Slot(k)]
  BY <1>1, <1>2, <1>6, <1>7, SlotTyped DEF TypeOK
<1>9. SlotPhases'
  <2>1. ASSUME NEW q \in Producers, pc'[q] = "push" PROVE state'[Slot(ticket'[q])] = "EMPTY"
    <3>1. q # p /\ pc[q] = "push"
      BY <1>1, <1>2, <2>1 DEF TypeOK, Callers
    <3>2. ticket[q] # ticket[p] /\ ticket[q] \in OpenTickets
      BY <1>2, <1>6, <3>1 DEF DInv, OwnTickets, Pushing
    <3> QED BY <1>2, <1>8, <3>1, <3>2 DEF DInv, SlotPhases
  <2>2. ASSUME NEW k \in OpenTickets', \A q \in Producers : Pushing(q)' => ticket'[q] # k
        PROVE  state'[Slot(k)] \in {"STORED", "LOADING"}
    <3>1. k \in OpenTickets /\ k # ticket[p] /\ \A q \in Producers : Pushing(q) => ticket[q] # k
      BY <1>2, <1>4, <1>5, <2>2 DEF Pushing
    <3> QED BY <1>8, <3>1 DEF DInv, SlotPhases
  <2>3. ASSUME NEW s \in Slots, \A k \in OpenTickets' : Slot(k) # s PROVE state'[s] = "EMPTY"
    <3>1. s # Slot(ticket[p])
      BY <1>2, <1>5, <1>6, <2>3 DEF Pushing
    <3> QED BY <1>1, <1>2, <1>5, <2>3, <3>1 DEF DInv, SlotPhases, TypeOK
  <2> QED BY <2>1, <2>2, <2>3 DEF SlotPhases
<1> QED BY <1>1, <1>3, <1>5, <1>9 DEF DInv

LEMMA EndStoreStep ==
  ASSUME DInv, NEW p \in Producers, EndStore(p)
  PROVE  DInv'
<1>1. IInv' /\ TypeOK /\ TypeOK' /\ p \in Callers /\ p \notin Consumers
  BY PushStep, CallersAssumption DEF DInv, Push, IInv, TypeOK, Callers
<1>2. /\ pc[p] = "storing" /\ pc' = [pc EXCEPT ![p] = "idle"] /\ ticket' = ticket
      /\ state' = [state EXCEPT ![Slot(ticket[p])] = "STORED"]
      /\ UNCHANGED <<head, tail>>
  BY DEF EndStore, Goto
<1>3. Roles'
  BY <1>1, <1>2 DEF DInv, Roles, TypeOK, Callers
<1>4. /\ \A q \in Producers : Pushing(q)' <=> Pushing(q) /\ q # p
      /\ \A c \in Consumers : Popping(c)' <=> Popping(c)
  BY <1>1, <1>2 DEF Pushing, Popping, TypeOK, Callers
<1>5. OpenTickets' = OpenTickets /\ Window' /\ OwnTickets' /\ Awaited'
  BY <1>1, <1>2, <1>3, <1>4, SameOpen DEF DInv
<1>6. /\ \A q \in Producers : Pushing(q) => ticket[q] \in OpenTickets
      /\ OpenTickets \subseteq Tickets
  BY <1>1, InUse DEF DInv
<1>7. \A k \in OpenTickets : Slot(k) = Slot(ticket[p]) => k = ticket[p]
  BY <1>1, <1>2, <1>6, OwnSlot DEF DInv, Pushing
<1>8. \A k \in OpenTickets : state'[Slot(k)] = IF k = ticket[p] THEN "STORED" ELSE state[Slot(k)]
  BY <1>1, <1>2, <1>6, <1>7, SlotTyped DEF TypeOK
<1>9. SlotPhases'
  <2>1. ASSUME NEW q \in Producers, pc'[q] = "push" PROVE state'[Slot(ticket'[q])] = "EMPTY"
    <3>1. q # p /\ pc[q] = "push"
      BY <1>1, <1>2, <2>1 DEF TypeOK, Callers
    <3>2. ticket[q] # ticket[p] /\ ticket[q] \in OpenTickets
      BY <1>2, <1>6, <3>1 DEF DInv, OwnTickets, Pushing
    <3> QED BY <1>2, <1>8, <3>1, <3>2 DEF DInv, SlotPhases
  <2>2. ASSUME NEW k \in OpenTickets', \A q \in Producers : Pushing(q)' => ticket'[q] # k
        PROVE  state'[Slot(k)] \in {"STORED", "LOADING"}
    <3>1. CASE k = ticket[p]
      BY <1>5, <1>8, <3>1
    <3>2. CASE k # ticket[p]
      <4>1. k \in OpenTickets /\ \A q \in Producers : Pushing(q) => ticket[q] # k
        BY <1>2, <1>4, <1>5, <2>2, <3>2
      <4> QED BY <1>8, <3>2, <4>1 DEF DInv, SlotPhases
    <3> QED BY <3>1, <3>2
  <2>3. ASSUME NEW s \in Slots, \A k \in OpenTickets' : Slot(k) # s PROVE state'[s] = "EMPTY"
    <3>1. s # Slot(ticket[p])
      BY <1>2, <1>5, <1>6, <2>3 DEF Pushing
    <3> QED BY <1>1, <1>2, <1>5, <2>3, <3>1 DEF DInv, SlotPhases, TypeOK
  <2> QED BY <2>1, <2>2, <2>3 DEF SlotPhases
<1> QED BY <1>1, <1>3, <1>5, <1>9 DEF DInv

\* Steps of a consumer that has no ticket.
LEMMA LookStep ==
  ASSUME DInv, NEW c \in Consumers, LoadTail(c) \/ CheckHead(c) \/ ClaimFails(c)
  PROVE  DInv'
<1>1. IInv' /\ TypeOK /\ TypeOK' /\ c \in Callers /\ c \notin Producers
  BY TryPopStep, CallersAssumption DEF DInv, TryPop, IInv, TypeOK, Callers
<1>2. /\ pc[c] \in {"idle", "check", "claim"}
      /\ \E s \in {"idle", "check", "claim"} : pc' = [pc EXCEPT ![c] = s]
      /\ \A a \in Callers : a # c => ticket'[a] = ticket[a]
      /\ UNCHANGED <<head, tail, state>>
  BY <1>1 DEF LoadTail, CheckHead, ClaimFails, Goto, TypeOK
<1>3. Roles'
  BY <1>1, <1>2 DEF DInv, Roles, TypeOK, Callers
<1>4. /\ \A q \in Producers : (Pushing(q)' <=> Pushing(q)) /\ ticket'[q] = ticket[q]
      /\ \A d \in Consumers :
           (Popping(d)' <=> Popping(d)) /\ (Popping(d) => ticket'[d] = ticket[d])
      /\ \A q \in Producers : pc'[q] = pc[q]
  BY <1>1, <1>2 DEF Pushing, Popping, TypeOK, Callers
<1>5. OpenTickets' = OpenTickets /\ Window' /\ OwnTickets' /\ Awaited'
  BY <1>1, <1>2, <1>3, <1>4, SameOpen DEF DInv
<1>6. SlotPhases'
  BY <1>2, <1>4, <1>5 DEF DInv, SlotPhases
<1> QED BY <1>1, <1>3, <1>5, <1>6 DEF DInv

\* The claimed ticket leaves the queue and stays open.
LEMMA ClaimStep ==
  ASSUME DInv, NoFullTurn, NEW c \in Consumers, ClaimTicket(c)
  PROVE  /\ DInv' /\ ~ Popping(c) /\ Unclaimed(tail)
         /\ \A k \in Tickets : Unclaimed(k)' <=> Unclaimed(k) /\ k # tail
<1>1. /\ IInv' /\ TypeOK /\ TypeOK' /\ c \in Callers /\ c \notin Producers
      /\ Roles /\ tail \in Tickets /\ Ages /\ Ages'
  BY TryPopStep, CallersAssumption, AgesHold, AgesAfter
  DEF DInv, TryPop, IInv, TypeOK, Callers
<1>2. /\ pc[c] = "claim" /\ pc' = [pc EXCEPT ![c] = "pop"] /\ ticket[c] = tail /\ head # tail
      /\ tail' = Successor(tail) /\ UNCHANGED <<head, state, ticket>>
  BY DEF ClaimTicket, Goto, NoFullTurn
<1>3. Roles'
  BY <1>1, <1>2 DEF Roles, TypeOK, Callers
<1>4. /\ \A k \in Tickets : Age(k)' = Age(k)
      /\ QueueLength' = QueueLength - 1
  BY <1>1, <1>2, ClaimAges
<1>5. \A k \in Tickets : Unclaimed(k)' <=> Unclaimed(k) /\ k # tail
  <2> SUFFICES ASSUME NEW k \in Tickets PROVE Unclaimed(k)' <=> Unclaimed(k) /\ k # tail
    OBVIOUS
  <2>1. /\ Age(k) \in 0 .. Width - 1 /\ (Age(k) = QueueLength <=> k = tail)
        /\ Unclaimed(k) <=> Age(k) \in 1 .. QueueLength
        /\ Unclaimed(k)' <=> Age(k)' \in 1 .. QueueLength'
        /\ QueueLength \in 0 .. Width - 1
    BY <1>1 DEF Ages
  <2>2. Age(k)' \in 1 .. QueueLength' <=> Age(k) \in 1 .. QueueLength /\ Age(k) # QueueLength
    BY <1>4, <2>1, SizeAssumption, WidthAssumption
  <2> QED BY <2>1, <2>2, Zenon
<1>6. Unclaimed(tail)
  <2>1. /\ Age(tail) = QueueLength /\ QueueLength # 0 /\ QueueLength \in 0 .. Width - 1
        /\ Unclaimed(tail) <=> Age(tail) \in 1 .. QueueLength
    BY <1>1, <1>2 DEF Ages
  <2>2. Age(tail) \in 1 .. QueueLength
    BY <2>1, SizeAssumption, WidthAssumption
  <2> QED BY <2>1, <2>2
<1>7. /\ \A q \in Producers : (Pushing(q)' <=> Pushing(q)) /\ pc'[q] = pc[q]
      /\ \A d \in Consumers : Popping(d)' <=> Popping(d) \/ d = c
      /\ ~ Popping(c)
  BY <1>1, <1>2 DEF Pushing, Popping, TypeOK, Callers
<1>8. OpenTickets = {k \in Tickets : Open(k)} /\ OpenTickets' = {k \in Tickets : Open(k)'}
  BY <1>1, <1>3, OpenIs, OpenAfter DEF Opens, Tickets
<1>9. \A k \in Tickets : Open(k)' <=> Open(k)
  <2> SUFFICES ASSUME NEW k \in Tickets PROVE Open(k)' <=> Open(k)
    OBVIOUS
  <2>1. Unclaimed(k)' <=> Unclaimed(k) /\ k # tail
    BY <1>5
  <2>2. (\E q \in Producers : Pushing(q)' /\ ticket'[q] = k)
          <=> \E q \in Producers : Pushing(q) /\ ticket[q] = k
    BY <1>2, <1>7
  <2>3. (\E d \in Consumers : Popping(d)' /\ ticket'[d] = k)
          <=> (\E d \in Consumers : Popping(d) /\ ticket[d] = k) \/ k = tail
    BY <1>2, <1>7
  <2>4. k = tail => Unclaimed(k)
    BY <1>6
  <2> QED BY <2>1, <2>2, <2>3, <2>4, Zenon DEF Open
<1>10. OpenTickets' = OpenTickets /\ Window'
  <2>1. OpenTickets' = OpenTickets
    BY <1>8, <1>9
  <2> QED BY <1>2, <2>1 DEF DInv, Window, Age
<1>11. \A a \in Callers : ticket[a] \in Tickets
  BY <1>1 DEF TypeOK
<1>12. OwnTickets'
  <2>1. \A q, r \in Producers :
          Pushing(q)' /\ Pushing(r)' /\ ticket'[q] = ticket'[r] => q = r
    BY <1>2, <1>7, Zenon DEF DInv, OwnTickets
  <2>2. \A d \in Consumers : Popping(d) => ticket[d] # tail
    BY <1>6 DEF DInv, OwnTickets
  <2>3. \A d, e \in Consumers :
          Popping(d)' /\ Popping(e)' /\ ticket'[d] = ticket'[e] => d = e
    <3>1. \A d, e \in Consumers : Popping(d) /\ Popping(e) /\ ticket[d] = ticket[e] => d = e
      BY DEF DInv, OwnTickets
    <3> QED BY <1>2, <1>7, <2>2, <3>1
  <2>4. ASSUME NEW d \in Consumers, Popping(d)' PROVE ~ Unclaimed(ticket[d])'
    <3>1. PICK k \in Tickets : k = ticket[d]
      BY <1>11 DEF Callers
    <3>2. Unclaimed(k) => k = tail
      BY <1>2, <1>7, <2>4, <3>1 DEF DInv, OwnTickets
    <3>3. ~ Unclaimed(k)'
      BY <1>5, <3>2
    <3>4. k = ticket'[d]
      BY <1>2, <3>1
    <3> QED BY <3>3, <3>4 DEF Unclaimed
  <2> QED BY <2>1, <2>3, <2>4 DEF OwnTickets, Unclaimed
<1>13. Awaited'
  <2> SUFFICES ASSUME NEW q \in Producers, Pushing(q)'
               PROVE  \/ Unclaimed(ticket[q])'
                      \/ \E d \in Consumers : Popping(d)' /\ ticket'[d] = ticket'[q]
    BY DEF Awaited
  <2>1. PICK k \in Tickets : k = ticket[q]
    BY <1>11 DEF Callers
  <2>2. Unclaimed(k) \/ \E d \in Consumers : Popping(d) /\ ticket[d] = k
    BY <1>7, <2>1 DEF DInv, Awaited
  <2>3. Unclaimed(k)' \/ \E d \in Consumers : Popping(d)' /\ ticket'[d] = k
    BY <1>2, <1>5, <1>7, <2>2
  <2>4. k = ticket'[q]
    BY <1>2, <2>1
  <2> QED BY <2>3, <2>4 DEF Unclaimed
<1>14. SlotPhases'
  BY <1>2, <1>7, <1>10 DEF DInv, SlotPhases
<1> QED BY <1>1, <1>3, <1>5, <1>6, <1>7, <1>10, <1>12, <1>13, <1>14 DEF DInv

LEMMA BeginLoadStep ==
  ASSUME DInv, NEW c \in Consumers, BeginLoad(c)
  PROVE  DInv'
<1>1. IInv' /\ TypeOK /\ TypeOK' /\ c \in Callers /\ c \notin Producers
  BY TryPopStep, CallersAssumption DEF DInv, TryPop, IInv, TypeOK, Callers
<1>2. /\ pc[c] = "pop" /\ pc' = [pc EXCEPT ![c] = "loading"] /\ ticket' = ticket
      /\ state[Slot(ticket[c])] = "STORED"
      /\ state' = [state EXCEPT ![Slot(ticket[c])] = "LOADING"]
      /\ UNCHANGED <<head, tail>>
  BY DEF BeginLoad, Goto
<1>3. Roles'
  BY <1>1, <1>2 DEF DInv, Roles, TypeOK, Callers
<1>4. /\ \A q \in Producers : (Pushing(q)' <=> Pushing(q)) /\ pc'[q] = pc[q]
      /\ \A d \in Consumers : Popping(d)' <=> Popping(d)
  BY <1>1, <1>2 DEF Pushing, Popping, TypeOK, Callers
<1>5. OpenTickets' = OpenTickets /\ Window' /\ OwnTickets' /\ Awaited'
  BY <1>1, <1>2, <1>3, <1>4, SameOpen DEF DInv
<1>6. Slot(ticket[c]) \in Slots /\ ticket[c] \in OpenTickets
  BY <1>1, <1>2, InUse, SlotTyped DEF DInv, Popping
<1>7. SlotPhases'
  <2>1. \A q \in Producers : pc'[q] = "push" => state'[Slot(ticket'[q])] = "EMPTY"
    BY <1>1, <1>2, <1>4 DEF DInv, SlotPhases, TypeOK
  <2>2. ASSUME NEW k \in OpenTickets', \A q \in Producers : Pushing(q)' => ticket'[q] # k
        PROVE  state'[Slot(k)] \in {"STORED", "LOADING"}
    <3>1. state[Slot(k)] \in {"STORED", "LOADING"}
      BY <1>2, <1>4, <1>5, <2>2 DEF DInv, SlotPhases
    <3> QED BY <1>1, <1>2, <3>1 DEF TypeOK
  <2>3. \A s \in Slots : (\A k \in OpenTickets' : Slot(k) # s) => state'[s] = "EMPTY"
    BY <1>1, <1>2, <1>5, <1>6 DEF DInv, SlotPhases, TypeOK
  <2> QED BY <2>1, <2>2, <2>3 DEF SlotPhases
<1> QED BY <1>1, <1>3, <1>5, <1>7 DEF DInv

\* The end of a pop closes its ticket: nobody else has it, not even its push.
LEMMA EndLoadStep ==
  ASSUME DInv, NEW c \in Consumers, EndLoad(c)
  PROVE  DInv' /\ \A q \in Producers : Pushing(q) => ticket[q] # ticket[c]
<1>1. IInv' /\ TypeOK /\ TypeOK' /\ c \in Callers /\ c \notin Producers /\ Roles
  BY TryPopStep, CallersAssumption DEF DInv, TryPop, IInv, TypeOK, Callers
<1>2. /\ pc[c] = "loading" /\ pc' = [pc EXCEPT ![c] = "idle"] /\ ticket' = ticket
      /\ state' = [state EXCEPT ![Slot(ticket[c])] = "EMPTY"]
      /\ UNCHANGED <<head, tail>>
  BY DEF EndLoad, Goto
<1>3. Roles'
  BY <1>1, <1>2 DEF Roles, TypeOK, Callers
<1>4. /\ \A q \in Producers : (Pushing(q)' <=> Pushing(q)) /\ pc'[q] = pc[q]
      /\ \A d \in Consumers : Popping(d)' <=> Popping(d) /\ d # c
      /\ Popping(c)
  BY <1>1, <1>2 DEF Pushing, Popping, TypeOK, Callers
<1>5. OpenTickets' \subseteq OpenTickets /\ Window' /\ OwnTickets'
  BY <1>1, <1>2, <1>3, <1>4, SameTickets DEF DInv
<1>6. /\ \A q \in Producers : Pushing(q) => ticket[q] \in OpenTickets
      /\ ticket[c] \in OpenTickets /\ OpenTickets \subseteq Tickets
  BY <1>1, <1>4, InUse DEF DInv
<1>7. state[Slot(ticket[c])] = "LOADING"
  BY <1>1, <1>2 DEF DInv, IInv, SlotExclusive
<1>8. \A q \in Producers : Pushing(q) => ticket[q] # ticket[c]
  <2>1. \A q \in Producers : pc[q] = "storing" => state[Slot(ticket[q])] = "STORING"
    BY DEF DInv, IInv, SlotExclusive, Callers
  <2>2. \A q \in Producers : pc[q] = "push" => state[Slot(ticket[q])] = "EMPTY"
    BY DEF DInv, SlotPhases
  <2> QED BY <1>7, <2>1, <2>2 DEF Pushing
<1>9. \A k \in OpenTickets : Slot(k) = Slot(ticket[c]) => k = ticket[c]
  BY <1>1, <1>6, OwnSlot DEF DInv
<1>10. OpenTickets' = OpenTickets \ {ticket[c]}
  <2>1. OpenTickets = {k \in Tickets : Open(k)} /\ OpenTickets' = {k \in Tickets : Open(k)'}
    BY <1>1, <1>3, OpenIs, OpenAfter DEF Opens, Tickets
  <2>2. \A k : Unclaimed(k)' <=> Unclaimed(k)
    BY <1>2 DEF Unclaimed, QueueLength
  <2>3. ~ Open(ticket[c])'
    <3>1. PICK k \in Tickets : k = ticket[c]
      BY <1>6
    <3>2. ~ Unclaimed(k)'
      BY <1>4, <2>2, <3>1 DEF DInv, OwnTickets
    <3>3. \A q \in Producers : Pushing(q)' => ticket'[q] # k
      BY <1>2, <1>4, <1>8, <3>1
    <3>4. \A d \in Consumers : Popping(d)' => ticket'[d] # k
      BY <1>2, <1>4, <3>1 DEF DInv, OwnTickets
    <3>5. ~ Open(k)'
      BY <3>2, <3>3, <3>4 DEF Open
    <3>6. k = ticket'[c]
      BY <1>2, <3>1
    <3> QED BY <3>5, <3>6 DEF Open, Unclaimed
  <2>4. \A k \in Tickets : Open(k) /\ k # ticket[c] => Open(k)'
    BY <1>2, <1>4, <2>2 DEF Open
  <2>5. ticket[c] \notin OpenTickets'
    <3>1. PICK k \in Tickets : k = ticket[c]
      BY <1>6
    <3>2. k = ticket'[c]
      BY <1>2, <3>1
    <3>3. ~ Open(k)'
      BY <2>3, <3>2 DEF Open, Unclaimed
    <3> QED BY <2>1, <3>1, <3>3
  <2> QED BY <1>5, <2>1, <2>4, <2>5
<1>11. Awaited'
  <2> SUFFICES ASSUME NEW q \in Producers, Pushing(q)'
               PROVE  \/ Unclaimed(ticket[q])'
                      \/ \E d \in Consumers : Popping(d)' /\ ticket'[d] = ticket'[q]
    BY DEF Awaited
  <2>1. PICK k \in Tickets : k = ticket[q]
    BY <1>4, <1>6
  <2>2. k # ticket[c] /\ k = ticket'[q]
    BY <1>2, <1>4, <1>8, <2>1
  <2>3. Unclaimed(k) \/ \E d \in Consumers : Popping(d) /\ ticket[d] = k
    BY <1>4, <2>1 DEF DInv, Awaited
  <2>4. Unclaimed(k)' \/ \E d \in Consumers : Popping(d)' /\ ticket'[d] = k
    <3>1. Unclaimed(k)' <=> Unclaimed(k)
      BY <1>2 DEF Unclaimed, QueueLength
    <3> QED BY <1>2, <1>4, <2>2, <2>3, <3>1
  <2> QED BY <2>2, <2>4 DEF Unclaimed
<1>12. SlotPhases'
  <2>1. \A k \in OpenTickets' : k \in OpenTickets /\ state'[Slot(k)] = state[Slot(k)]
    BY <1>1, <1>2, <1>6, <1>9, <1>10, SlotTyped DEF TypeOK
  <2>2. \A q \in Producers : pc'[q] = "push" => state'[Slot(ticket'[q])] = "EMPTY"
    BY <1>1, <1>2, <1>4 DEF DInv, SlotPhases, TypeOK
  <2>3. ASSUME NEW k \in OpenTickets', \A q \in Producers : Pushing(q)' => ticket'[q] # k
        PROVE  state'[Slot(k)] \in {"STORED", "LOADING"}
    BY <1>2, <1>4, <2>1, <2>3 DEF DInv, SlotPhases
  <2>4. ASSUME NEW s \in Slots, \A k \in OpenTickets' : Slot(k) # s PROVE state'[s] = "EMPTY"
    <3>1. CASE s = Slot(ticket[c])
      BY <1>1, <1>2, <2>4, <3>1 DEF TypeOK
    <3>2. CASE s # Slot(ticket[c])
      <4>1. \A k \in OpenTickets : Slot(k) # s
        BY <1>10, <2>4, <3>2
      <4> QED BY <1>1, <1>2, <2>4, <3>2, <4>1 DEF DInv, SlotPhases, TypeOK
    <3> QED BY <3>1, <3>2
  <2> QED BY <2>2, <2>3, <2>4 DEF SlotPhases
<1> QED BY <1>1, <1>3, <1>5, <1>8, <1>11, <1>12 DEF DInv

-----------------------------------------------------------------------------
(* The FIFO queue *)

LEMMA FunctionIsSequence ==
  ASSUME NEW S, NEW n \in Nat, NEW f \in [1 .. n -> S]
  PROVE  f \in Seq(S) /\ Len(f) = n
<1>1. f \in Seq(S)
  BY SeqDef
<1> QED BY <1>1, LenProperties

LEMMA ItemOfPush ==
  ASSUME DInv
  PROVE  /\ \A p \in Producers : Pushing(p) => ItemOf(ticket[p]) = Item(p, calls[p])
         /\ \A k \in Tickets : (\A p \in Producers : Pushing(p) => ticket[p] # k)
                                  => ItemOf(k) = element[Slot(k)]
         /\ \A k \in Tickets : ItemOf(k) \in Items
<1>1. ASSUME NEW p \in Producers, Pushing(p) PROVE ItemOf(ticket[p]) = Item(p, calls[p])
  <2>1. PushedBy(ticket[p]) = {p}
    BY <1>1 DEF PushedBy, Pushing, DInv, OwnTickets
  <2> QED BY <2>1 DEF ItemOf
<1>2. ASSUME NEW k \in Tickets, \A p \in Producers : Pushing(p) => ticket[p] # k
      PROVE  ItemOf(k) = element[Slot(k)]
  <2>1. PushedBy(k) = {}
    BY <1>2 DEF PushedBy, Pushing
  <2> QED BY <2>1 DEF ItemOf
<1>3. ASSUME NEW k \in Tickets PROVE ItemOf(k) \in Items
  <2>1. CASE \E p \in Producers : Pushing(p) /\ ticket[p] = k
    <3>1. PICK p \in Producers : Pushing(p) /\ ticket[p] = k
      BY <2>1
    <3>2. calls[p] \in 1 .. Pushes
      BY <3>1, CallsAssumption DEF DInv, IInv, TypeOK, CallsBounded, Callers, Pushing
    <3> QED BY <1>1, <3>1, <3>2 DEF Item, Items
  <2>2. CASE ~ \E p \in Producers : Pushing(p) /\ ticket[p] = k
    BY <1>2, <2>2, SlotTyped DEF DInv, IInv, TypeOK, Items
  <2> QED BY <2>1, <2>2
<1> QED BY <1>1, <1>2, <1>3

\* The ticket of the i-th place of the queue.
Place(i) == (tail + i - 1) % Width

LEMMA PlaceIs ==
  ASSUME TypeOK, NEW i \in 1 .. Width
  PROVE  Place(i) = IF tail + i - 1 < Width THEN tail + i - 1 ELSE tail + i - 1 - Width
<1>1. \A n \in Nat \ {0} : \A a \in 0 .. n - 1 : a % n = a
  OBVIOUS
<1>2. \A n \in Nat \ {0} : \A a \in n .. 2 * n - 1 : a % n = a - n
  OBVIOUS
<1>3. Width \in Nat \ {0} /\ tail \in 0 .. Width - 1
  BY SizeAssumption, WidthAssumption DEF TypeOK, Tickets
<1>4. CASE tail + i - 1 < Width
  <2>1. tail + i - 1 \in 0 .. Width - 1
    BY <1>3, <1>4
  <2>2. (tail + i - 1) % Width = tail + i - 1
    BY <1>1, <1>3, <2>1, Zenon
  <2> QED BY <1>4, <2>2 DEF Place
<1>5. CASE ~ (tail + i - 1 < Width)
  <2>1. tail + i - 1 \in Width .. 2 * Width - 1
    BY <1>3, <1>5
  <2>2. PICK a \in Width .. 2 * Width - 1 : a = tail + i - 1
    BY <2>1
  <2>3. a % Width = a - Width
    BY <1>2, <1>3
  <2>4. Place(i) = a % Width
    BY <2>2 DEF Place
  <2> QED BY <1>3, <1>5, <2>2, <2>3, <2>4
<1> QED BY <1>4, <1>5

\* The places of the queue hold its unclaimed tickets; the next one is for head.
Places ==
  /\ \A i \in 1 .. QueueLength : Place(i) \in Tickets /\ Unclaimed(Place(i))
  /\ Place(QueueLength + 1) = head
  /\ Place(1) = tail

LEMMA PlacesHold == ASSUME TypeOK PROVE Places
<1>1. Width \in Nat \ {0} /\ tail \in 0 .. Width - 1 /\ head \in 0 .. Width - 1
  BY SizeAssumption, WidthAssumption DEF TypeOK, Tickets
<1>2. QueueLength = IF head >= tail THEN head - tail ELSE head - tail + Width
  BY Distance DEF QueueLength, TypeOK
<1>3. QueueLength + 1 \in 1 .. Width /\ 1 \in 1 .. Width
  BY <1>1, <1>2
<1>4. /\ Place(QueueLength + 1) = IF tail + (QueueLength + 1) - 1 < Width
                                  THEN tail + (QueueLength + 1) - 1
                                  ELSE tail + (QueueLength + 1) - 1 - Width
      /\ Place(1) = IF tail + 1 - 1 < Width THEN tail + 1 - 1 ELSE tail + 1 - 1 - Width
  BY <1>3, PlaceIs
<1>5. Place(QueueLength + 1) = head /\ Place(1) = tail
  BY <1>1, <1>2, <1>4
<1>6. ASSUME NEW i \in 1 .. QueueLength PROVE Place(i) \in Tickets /\ Unclaimed(Place(i))
  <2>1. i \in 1 .. Width
    BY <1>3, <1>1, <1>2
  <2>2. Place(i) = IF tail + i - 1 < Width THEN tail + i - 1 ELSE tail + i - 1 - Width
    BY <2>1, PlaceIs
  <2>3. Place(i) \in 0 .. Width - 1
    BY <1>1, <2>1, <2>2
  <2>4. (Place(i) - tail) % Width = IF Place(i) >= tail THEN Place(i) - tail ELSE Place(i) - tail + Width
    BY <2>3, Distance DEF Tickets, TypeOK
  <2>5. (Place(i) - tail) % Width = i - 1
    BY <1>1, <2>1, <2>2, <2>4
  <2>6. i - 1 < QueueLength
    BY <1>1, <1>2
  <2> QED BY <2>3, <2>5, <2>6 DEF Tickets, Unclaimed
<1> QED BY <1>5, <1>6 DEF Places

LEMMA PlacesAfter == (TypeOK => Places)'
<1>1. TypeOK => Places
  BY PlacesHold
<1> QED BY <1>1, PTL

PlaceShape ==
  \A i \in 1 .. Width :
    Place(i) = IF tail + i - 1 < Width THEN tail + i - 1 ELSE tail + i - 1 - Width

LEMMA PlaceAfter == (TypeOK => PlaceShape)'
<1>1. TypeOK => PlaceShape
  BY PlaceIs DEF PlaceShape
<1> QED BY <1>1, PTL

LEMMA WaitingIs ==
  ASSUME DInv
  PROVE  /\ Waiting \in Seq(Items) /\ Len(Waiting) = QueueLength /\ QueueLength \in Nat
         /\ \A i \in 1 .. QueueLength : Waiting[i] = ItemOf(Place(i))
<1>1. QueueLength \in Nat
  BY AgesHold, SizeAssumption, WidthAssumption DEF DInv, IInv, Ages
<1>2. Waiting = [i \in 1 .. QueueLength |-> ItemOf(Place(i))]
  BY DEF Waiting, QueueLength, Place
<1>3. \A i \in 1 .. QueueLength : ItemOf(Place(i)) \in Items
  BY PlacesHold, ItemOfPush DEF DInv, IInv, Places
<1>4. Waiting \in [1 .. QueueLength -> Items]
  BY <1>2, <1>3
<1> QED BY <1>1, <1>2, <1>4, FunctionIsSequence

WaitingShape ==
  /\ Waiting \in Seq(Items) /\ Len(Waiting) = QueueLength /\ QueueLength \in Nat
  /\ \A i \in 1 .. QueueLength : Waiting[i] = ItemOf(Place(i))

LEMMA WaitingAfter == (DInv => WaitingShape)'
<1>1. DInv => WaitingShape
  BY WaitingIs DEF WaitingShape
<1> QED BY <1>1, PTL

LEMMA ItemsAfter ==
  (DInv => /\ \A p \in Producers : Pushing(p) => ItemOf(ticket[p]) = Item(p, calls[p])
           /\ \A k \in Tickets : (\A p \in Producers : Pushing(p) => ticket[p] # k)
                                    => ItemOf(k) = element[Slot(k)])'
<1>1. DInv => /\ \A p \in Producers : Pushing(p) => ItemOf(ticket[p]) = Item(p, calls[p])
              /\ \A k \in Tickets : (\A p \in Producers : Pushing(p) => ticket[p] # k)
                                       => ItemOf(k) = element[Slot(k)]
  BY ItemOfPush
<1> QED BY <1>1, PTL

\* A step that keeps the counters, the items of the open tickets and what the consumers
\* have leaves the queue alone.
LEMMA SameQueue ==
  ASSUME DInv, DInv', UNCHANGED <<head, tail, got>>,
         \A k \in OpenTickets : ItemOf(k)' = ItemOf(k),
         \A c \in Consumers :
           (Popping(c)' <=> Popping(c)) /\ (Popping(c) => ticket'[c] = ticket[c])
  PROVE  Waiting' = Waiting /\ Received' = Received
<1>1. TypeOK /\ Roles
  BY DEF DInv, IInv
<1>2. \A k \in Tickets : Unclaimed(k) => ItemOf(k)' = ItemOf(k)
  BY <1>1, OpenIs DEF Open
<1>3. QueueLength' = QueueLength /\ \A i : Place(i)' = Place(i)
  BY DEF QueueLength, Place
<1>4. Waiting' = Waiting
  <2>1. WaitingShape /\ WaitingShape' /\ Places
    BY <1>1, WaitingIs, WaitingAfter, PlacesHold DEF WaitingShape
  <2>2. ASSUME NEW i \in 1 .. QueueLength PROVE Waiting'[i] = Waiting[i]
    <3>1. PICK k \in Tickets : k = Place(i)
      BY <2>1 DEF Places
    <3>2. k = Place(i)'
      BY <1>3, <3>1
    <3>3. Unclaimed(k)
      BY <2>1, <3>1 DEF Places
    <3>4. Waiting'[i] = ItemOf(k)'
      <4>1. Waiting'[i] = ItemOf(Place(i))'
        BY <1>3, <2>1 DEF WaitingShape
      <4>2. ItemOf(Place(i))' = ItemOf(k)'
        BY <3>2 DEF ItemOf, PushedBy
      <4> QED BY <4>1, <4>2
    <3> QED BY <1>2, <2>1, <3>1, <3>3, <3>4 DEF WaitingShape
  <2> QED BY <1>3, <2>1, <2>2, SeqEqual DEF WaitingShape, Items
<1>5. Received' = Received
  <2>1. ASSUME NEW c \in Consumers, Popping(c) PROVE ItemOf(ticket[c])' = ItemOf(ticket[c])
    <3>1. PICK k \in OpenTickets : k = ticket[c]
      BY <1>1, <2>1, InUse
    <3>2. k = ticket'[c]
      BY <2>1, <3>1
    <3> QED BY <3>1, <3>2 DEF ItemOf, PushedBy
  <2>2. ASSUME NEW c \in Consumers PROVE Received'[c] = Received[c]
    BY <2>1 DEF Received, Popping
  <2> QED BY <2>2 DEF Received
<1> QED BY <1>4, <1>5

LEMMA PushFifo ==
  ASSUME DInv, DInv', Disciplined, NEW p \in Producers, Push(p)
  PROVE  \/ \E v \in Producers \X (1 .. Pushes) : Abstract!Put(v)
         \/ Waiting' = Waiting /\ Received' = Received
<1>1. /\ TypeOK /\ TypeOK' /\ Roles /\ Roles' /\ p \in Callers /\ p \notin Consumers
      /\ OpenTickets \subseteq Tickets /\ head \in Tickets
      /\ \A q \in Producers : Pushing(q) => ticket[q] \in OpenTickets
      /\ \A c \in Consumers : Popping(c) => ticket[c] \in OpenTickets
      /\ \A q \in Producers : calls[q] \in Nat
  BY CallersAssumption, InUse DEF DInv, IInv, TypeOK, Callers
<1>2. CASE TakeTicket(p)
  <2>1. /\ OpenTickets' = OpenTickets \cup {head} /\ head \notin OpenTickets
        /\ QueueLength' = QueueLength + 1
    BY <1>1, <1>2, TakeOpens
  <2>2. /\ pc[p] = "idle" /\ pc' = [pc EXCEPT ![p] = "push"] /\ ticket' = [ticket EXCEPT ![p] = head]
        /\ calls[p] < Pushes /\ calls' = [calls EXCEPT ![p] = @ + 1]
        /\ UNCHANGED <<tail, element, got>>
    BY <1>2 DEF TakeTicket, Goto
  <2> DEFINE v == Item(p, calls[p] + 1)
  <2>3. v \in Producers \X (1 .. Pushes) /\ v \in Items
    BY <1>1, <2>2, CallsAssumption DEF Item, Items
  <2>4. ASSUME NEW k \in OpenTickets PROVE ItemOf(k)' = ItemOf(k)
    <3>1. k # head
      BY <2>1
    <3>2. {q \in Producers : pc'[q] \in {"push", "storing"} /\ ticket'[q] = k}
            = {q \in Producers : pc[q] \in {"push", "storing"} /\ ticket[q] = k}
      BY <1>1, <2>2, <3>1 DEF TypeOK, Callers
    <3>3. k \in Tickets /\ element'[Slot(k)] = element[Slot(k)]
      BY <1>1, <2>2
    <3>4. CASE \E q \in Producers : Pushing(q) /\ ticket[q] = k
      <4>1. PICK q \in Producers : Pushing(q) /\ ticket[q] = k
        BY <3>4
      <4>2. q # p /\ Pushing(q)' /\ ticket'[q] = k /\ calls'[q] = calls[q]
        BY <1>1, <2>2, <4>1 DEF Pushing, TypeOK, Callers
      <4>3. ItemOf(k) = Item(q, calls[q])
        BY <4>1, ItemOfPush
      <4>4. ItemOf(ticket[q])' = Item(q, calls'[q])
        BY <4>2, ItemsAfter DEF Item
      <4>5. ItemOf(k)' = ItemOf(ticket[q])'
        BY <4>2 DEF ItemOf, PushedBy
      <4> QED BY <4>2, <4>3, <4>4, <4>5
    <3>5. CASE ~ \E q \in Producers : Pushing(q) /\ ticket[q] = k
      <4>1. PushedBy(k) = {} /\ PushedBy(k)' = {}
        BY <3>2, <3>5 DEF PushedBy, Pushing
      <4> QED BY <3>3, <4>1 DEF ItemOf
    <3> QED BY <3>4, <3>5
  <2>6. PICK h \in Tickets : h = head
    BY <1>1
  <2>7. ItemOf(h)' = v
    <3>1. ticket'[p] = h /\ Pushing(p)' /\ calls'[p] = calls[p] + 1
      BY <1>1, <2>2, <2>6 DEF Pushing, TypeOK, Callers
    <3>2. ItemOf(ticket[p])' = Item(p, calls'[p])
      BY <3>1, ItemsAfter DEF Item
    <3>3. ItemOf(h)' = ItemOf(ticket[p])'
      BY <3>1 DEF ItemOf, PushedBy
    <3> QED BY <3>1, <3>2, <3>3
  <2>8. WaitingShape /\ WaitingShape' /\ Places
    BY <1>1, WaitingIs, WaitingAfter, PlacesHold DEF WaitingShape
  <2>9. Waiting' = Append(Waiting, v)
    <3>1. /\ Append(Waiting, v) \in Seq(Items) /\ Len(Append(Waiting, v)) = QueueLength + 1
          /\ \A i \in 1 .. QueueLength : Append(Waiting, v)[i] = Waiting[i]
          /\ Append(Waiting, v)[QueueLength + 1] = v
      BY <2>3, <2>8, AppendProperties DEF WaitingShape
    <3>2. \A i : Place(i)' = Place(i)
      BY <2>2 DEF Place
    <3>3. ASSUME NEW i \in 1 .. QueueLength + 1 PROVE Waiting'[i] = Append(Waiting, v)[i]
      <4>1. CASE i = QueueLength + 1
        <5>1. Place(i)' = h
          BY <2>6, <2>8, <3>2, <4>1 DEF Places
        <5>2. Waiting'[i] = ItemOf(Place(i))'
          BY <2>1, <2>8 DEF WaitingShape
        <5>3. ItemOf(Place(i))' = ItemOf(h)'
          BY <5>1 DEF ItemOf, PushedBy
        <5> QED BY <2>7, <3>1, <4>1, <5>2, <5>3
      <4>2. CASE i # QueueLength + 1
        <5>1. i \in 1 .. QueueLength
          BY <2>8, <4>2 DEF WaitingShape
        <5>2. PICK k \in OpenTickets : k = Place(i)
          BY <1>1, <2>8, <5>1, OpenIs DEF Places, Open
        <5>3. Place(i)' = k
          BY <3>2, <5>2
        <5>4. Waiting'[i] = ItemOf(Place(i))'
          BY <2>1, <2>8 DEF WaitingShape
        <5>5. ItemOf(Place(i))' = ItemOf(k)'
          BY <5>3 DEF ItemOf, PushedBy
        <5> QED BY <2>4, <2>8, <3>1, <5>1, <5>2, <5>4, <5>5 DEF WaitingShape
      <4> QED BY <4>1, <4>2
    <3> QED BY <2>1, <2>8, <3>1, <3>3, SeqEqual DEF WaitingShape, Items
  <2>10. Received' = Received
    <3>1. ASSUME NEW c \in Consumers
          PROVE  (Popping(c)' <=> Popping(c)) /\ ticket'[c] = ticket[c]
      BY <1>1, <2>2 DEF Popping, TypeOK, Callers
    <3>2. ASSUME NEW c \in Consumers, Popping(c) PROVE ItemOf(ticket[c])' = ItemOf(ticket[c])
      <4>1. PICK k \in OpenTickets : k = ticket[c]
        BY <1>1, <3>2
      <4>2. k = ticket'[c]
        BY <3>1, <4>1
      <4> QED BY <2>4, <4>1, <4>2 DEF ItemOf, PushedBy
    <3>3. ASSUME NEW c \in Consumers PROVE Received'[c] = Received[c]
      BY <2>2, <3>1, <3>2 DEF Received, Popping
    <3> QED BY <3>3 DEF Received
  <2> QED BY <2>3, <2>9, <2>10 DEF Abstract!Put
<1>3. CASE BeginStore(p) \/ EndStore(p)
  <2>1. /\ pc[p] \in {"push", "storing"} /\ ticket' = ticket /\ calls' = calls
        /\ UNCHANGED <<head, tail, got>>
        /\ \A a \in Callers : a # p => pc'[a] = pc[a]
    BY <1>1, <1>3 DEF BeginStore, EndStore, Goto, TypeOK
  <2>2. \A c \in Consumers : (Popping(c)' <=> Popping(c)) /\ ticket'[c] = ticket[c]
    BY <1>1, <2>1 DEF Popping, Callers
  <2>3. \A q \in Producers : q # p => (Pushing(q)' <=> Pushing(q))
    BY <2>1 DEF Pushing, Callers
  <2>4. ASSUME NEW k \in OpenTickets PROVE ItemOf(k)' = ItemOf(k)
    <3>1. CASE BeginStore(p)
      <4>1. \A q \in Producers : pc'[q] \in {"push", "storing"} <=> pc[q] \in {"push", "storing"}
        BY <1>1, <3>1 DEF BeginStore, Goto, TypeOK, Callers
      <4>2. PushedBy(k)' = PushedBy(k)
        BY <2>1, <4>1 DEF PushedBy
      <4> QED BY <2>1, <3>1, <4>2 DEF ItemOf, Item, BeginStore
    <3>2. CASE EndStore(p) /\ k # ticket[p]
      <4>1. \A q \in Producers : ticket[q] = k =>
              (pc'[q] \in {"push", "storing"} <=> pc[q] \in {"push", "storing"})
        BY <1>1, <3>2 DEF EndStore, Goto, TypeOK, Callers
      <4>2. PushedBy(k)' = PushedBy(k)
        BY <2>1, <4>1 DEF PushedBy
      <4>3. Slot(k) # Slot(ticket[p])
        BY <1>1, <2>1, <3>2, OwnSlot DEF DInv, Pushing
      <4>4. element'[Slot(k)] = element[Slot(k)]
        BY <1>1, <3>2, <4>3, SlotTyped DEF EndStore, TypeOK
      <4> QED BY <2>1, <4>2, <4>4 DEF ItemOf, Item
    <3>3. CASE EndStore(p) /\ k = ticket[p]
      <4>1. ItemOf(k) = Item(p, calls[p])
        BY <2>1, <3>3, ItemOfPush DEF Pushing
      <4>2. \A q \in Producers : Pushing(q)' => ticket'[q] # k
        <5>1. ~ Pushing(p)'
          BY <1>1, <3>3 DEF EndStore, Goto, TypeOK, Pushing
        <5>2. \A q \in Producers : q # p /\ Pushing(q) => ticket[q] # k
          BY <2>1, <3>3 DEF DInv, OwnTickets, Pushing
        <5> QED BY <2>1, <2>3, <5>1, <5>2
      <4>3. ItemOf(k)' = element'[Slot(k)]
        BY <1>1, <4>2, ItemsAfter DEF Slot, Tickets
      <4>4. element'[Slot(k)] = Item(p, calls[p])
        BY <1>1, <3>3, SlotTyped DEF EndStore, TypeOK
      <4> QED BY <4>1, <4>3, <4>4
    <3> QED BY <1>3, <3>1, <3>2, <3>3
  <2> QED BY <2>1, <2>2, <2>4, SameQueue
<1> QED BY <1>2, <1>3 DEF Push

LEMMA TryPopFifo ==
  ASSUME DInv, DInv', NoFullTurn, NEW c \in Consumers, TryPop(c)
  PROVE  Abstract!Get(c) \/ (Waiting' = Waiting /\ Received' = Received)
<1>1. /\ TypeOK /\ TypeOK' /\ Roles /\ Roles' /\ c \in Callers /\ c \notin Producers
      /\ OpenTickets \subseteq Tickets /\ tail \in Tickets
      /\ \A q \in Producers : Pushing(q) => ticket[q] \in OpenTickets
      /\ \A d \in Consumers : Popping(d) => ticket[d] \in OpenTickets
  BY CallersAssumption, InUse DEF DInv, IInv, TypeOK, Callers
<1>2. /\ \A q \in Producers : pc'[q] = pc[q] /\ ticket'[q] = ticket[q]
      /\ calls'[c] \in Nat /\ \A q \in Producers : calls'[q] = calls[q]
      /\ element' = element
  BY <1>1
  DEF TryPop, LoadTail, CheckHead, ClaimTicket, ClaimFails, BeginLoad, EndLoad, Goto, TypeOK, Callers
<1>3. \A k : ItemOf(k)' = ItemOf(k)
  <2> SUFFICES ASSUME NEW k PROVE ItemOf(k)' = ItemOf(k)
    OBVIOUS
  <2>1. PushedBy(k)' = PushedBy(k)
    BY <1>2 DEF PushedBy
  <2>2. CASE PushedBy(k) = {}
    BY <1>2, <2>1, <2>2 DEF ItemOf
  <2>3. CASE PushedBy(k) # {}
    <3>1. PICK q : q = CHOOSE r \in PushedBy(k) : TRUE
      OBVIOUS
    <3>2. q \in PushedBy(k)
      BY <2>3, <3>1, Zenon
    <3>3. calls'[q] = calls[q]
      BY <1>2, <3>2 DEF PushedBy
    <3>4. q = CHOOSE r \in PushedBy(k)' : TRUE
      BY <2>1, <3>1
    <3>5. ItemOf(k) = Item(q, calls[q])
      BY <2>3, <3>1, Zenon DEF ItemOf
    <3>6. ItemOf(k)' = Item(q, calls'[q])
      BY <2>1, <2>3, <3>4, Zenon DEF ItemOf, Item
    <3> QED BY <3>3, <3>5, <3>6
  <2> QED BY <2>2, <2>3
<1>4. CASE LoadTail(c) \/ CheckHead(c) \/ ClaimFails(c) \/ BeginLoad(c)
  <2>1. /\ UNCHANGED <<head, tail, got>>
        /\ \A d \in Consumers :
             (Popping(d)' <=> Popping(d)) /\ (Popping(d) => ticket'[d] = ticket[d])
    BY <1>1, <1>4
    DEF LoadTail, CheckHead, ClaimFails, BeginLoad, Goto, Popping, TypeOK, Callers
  <2> QED BY <1>3, <2>1, SameQueue
<1>5. CASE EndLoad(c)
  <2>1. /\ pc[c] = "loading" /\ pc' = [pc EXCEPT ![c] = "idle"] /\ UNCHANGED <<head, tail, ticket>>
        /\ got' = [got EXCEPT ![c] = Append(@, element[Slot(ticket[c])])]
    BY <1>5 DEF EndLoad, Goto
  <2>2. ItemOf(ticket[c]) = element[Slot(ticket[c])]
    BY <1>1, <1>5, <2>1, EndLoadStep, ItemOfPush DEF Popping
  <2>3. Waiting' = Waiting
    BY <1>3, <2>1 DEF Waiting
  <2>4. ASSUME NEW d \in Consumers PROVE Received'[d] = Received[d]
    <3>1. CASE d = c
      BY <1>1, <2>1, <2>2, <3>1 DEF Received, TypeOK, Callers
    <3>2. CASE d # c
      <4>1. pc'[d] = pc[d] /\ ticket'[d] = ticket[d] /\ got'[d] = got[d]
        BY <1>1, <2>1, <3>2 DEF TypeOK, Callers
      <4>2. ItemOf(ticket[d])' = ItemOf(ticket[d])
        <5>1. PICK k : k = ticket[d]
          OBVIOUS
        <5>2. k = ticket'[d]
          BY <2>1, <5>1
        <5>3. ItemOf(ticket[d])' = ItemOf(k)'
          BY <5>2 DEF ItemOf, PushedBy
        <5> QED BY <1>3, <5>1, <5>3
      <4> QED BY <4>1, <4>2 DEF Received
    <3> QED BY <3>1, <3>2
  <2>5. Received' = Received
    BY <2>4 DEF Received
  <2> QED BY <2>3, <2>5
<1>6. CASE ClaimTicket(c)
  <2>1. /\ pc[c] = "claim" /\ pc' = [pc EXCEPT ![c] = "pop"] /\ ticket[c] = tail /\ head # tail
        /\ tail' = Successor(tail) /\ UNCHANGED <<head, ticket, got>>
    BY <1>6 DEF ClaimTicket, Goto, NoFullTurn
  <2>2. QueueLength' = QueueLength - 1
    BY <1>1, <2>1, ClaimAges
  <2>3. WaitingShape /\ WaitingShape' /\ Places /\ Ages
    BY <1>1, WaitingIs, WaitingAfter, PlacesHold, AgesHold DEF WaitingShape
  <2>4. QueueLength >= 1 /\ Waiting # <<>>
    <3>1. QueueLength \in Nat /\ QueueLength # 0 /\ Len(Waiting) = QueueLength
      BY <2>1, <2>3 DEF WaitingShape, Ages
    <3> QED BY <3>1
  <2>5. Head(Waiting) = ItemOf(tail)
    <3>1. Waiting[1] = ItemOf(Place(1)) /\ Head(Waiting) = Waiting[1]
      BY <2>3, <2>4 DEF WaitingShape
    <3> QED BY <2>3, <3>1 DEF Places
  <2>6. \A i \in 1 .. QueueLength - 1 : Place(i)' = Place(i + 1)
    <3> SUFFICES ASSUME NEW i \in 1 .. QueueLength - 1 PROVE Place(i)' = Place(i + 1)
      OBVIOUS
    <3>1. /\ Width \in Nat \ {0} /\ tail \in 0 .. Width - 1 /\ tail' \in 0 .. Width - 1
          /\ QueueLength \in 0 .. Width - 1
      BY <1>1, <2>3, SizeAssumption, WidthAssumption DEF Ages, TypeOK, Tickets
    <3>2. tail' = IF tail = Width - 1 THEN 0 ELSE tail + 1
      BY <1>1, <2>1, SuccessorIs
    <3>3. Place(i + 1) = IF tail + (i + 1) - 1 < Width
                         THEN tail + (i + 1) - 1 ELSE tail + (i + 1) - 1 - Width
      <4>1. i + 1 \in 1 .. Width
        BY <3>1
      <4> QED BY <1>1, <4>1, PlaceIs
    <3>4. Place(i)' = IF tail' + i - 1 < Width THEN tail' + i - 1 ELSE tail' + i - 1 - Width
      <4>1. i \in 1 .. Width
        BY <3>1
      <4> QED BY <1>1, <4>1, PlaceAfter DEF PlaceShape
    <3> QED BY <3>1, <3>2, <3>3, <3>4
  <2>7. Waiting' = Tail(Waiting)
    <3>1. /\ Tail(Waiting) \in Seq(Items) /\ Len(Tail(Waiting)) = QueueLength - 1
          /\ \A i \in 1 .. QueueLength - 1 : Tail(Waiting)[i] = Waiting[i + 1]
      BY <2>3, <2>4, HeadTailProperties DEF WaitingShape
    <3>2. ASSUME NEW i \in 1 .. QueueLength - 1 PROVE Waiting'[i] = Tail(Waiting)[i]
      <4>1. Place(i)' = Place(i + 1) /\ i + 1 \in 1 .. QueueLength
        BY <2>3, <2>6 DEF WaitingShape
      <4>2. Waiting'[i] = ItemOf(Place(i))'
        BY <2>2, <2>3 DEF WaitingShape
      <4>3. PICK k : k = Place(i + 1)
        OBVIOUS
      <4>4. ItemOf(Place(i))' = ItemOf(k)'
        BY <4>1, <4>3 DEF ItemOf, PushedBy
      <4>5. Waiting[i + 1] = ItemOf(k)
        BY <2>3, <4>1, <4>3 DEF WaitingShape
      <4> QED BY <1>3, <3>1, <4>2, <4>4, <4>5
    <3> QED BY <2>2, <2>3, <3>1, <3>2, SeqEqual DEF WaitingShape, Items
  <2>8. Received' = [Received EXCEPT ![c] = Append(@, Head(Waiting))]
    <3>1. ~ Popping(c) /\ pc'[c] = "pop"
      BY <1>1, <2>1 DEF Popping, TypeOK
    <3>2. ItemOf(ticket[c])' = ItemOf(tail)
      <4>1. PICK k : k = tail
        OBVIOUS
      <4>2. k = ticket'[c]
        BY <2>1, <4>1
      <4>3. ItemOf(ticket[c])' = ItemOf(k)'
        BY <4>2 DEF ItemOf, PushedBy
      <4> QED BY <1>3, <4>1, <4>3
    <3>3. Received'[c] = Append(Received[c], Head(Waiting))
      BY <2>1, <2>5, <3>1, <3>2 DEF Received, Popping
    <3>4. ASSUME NEW d \in Consumers, d # c PROVE Received'[d] = Received[d]
      <4>1. pc'[d] = pc[d] /\ ticket'[d] = ticket[d] /\ got'[d] = got[d]
        BY <1>1, <2>1, <3>4 DEF TypeOK, Callers
      <4>2. ItemOf(ticket[d])' = ItemOf(ticket[d])
        <5>1. PICK k : k = ticket[d]
          OBVIOUS
        <5>2. k = ticket'[d]
          BY <2>1, <5>1
        <5>3. ItemOf(ticket[d])' = ItemOf(k)'
          BY <5>2 DEF ItemOf, PushedBy
        <5> QED BY <1>3, <5>1, <5>3
      <4> QED BY <4>1, <4>2 DEF Received
    <3> QED BY <3>3, <3>4 DEF Received
  <2> QED BY <2>4, <2>7, <2>8 DEF Abstract!Get
<1> QED BY <1>4, <1>5, <1>6 DEF TryPop

LEMMA InitFifo == Init => DInv /\ Abstract!Init
<1> SUFFICES ASSUME Init PROVE DInv /\ Abstract!Init
  OBVIOUS
<1>1. IInv /\ TypeOK
  BY InitIInv DEF IInv
<1>2. Roles
  BY DEF Init, Roles, Callers
<1>3. /\ \A p \in Producers : ~ Pushing(p)
      /\ \A c \in Consumers : ~ Popping(c)
  BY DEF Init, Pushing, Popping, Callers
<1>4. QueueLength = 0
  BY <1>1, AgesHold DEF Ages, Init
<1>5. \A k \in Tickets : ~ Unclaimed(k)
  <2>1. Ages
    BY <1>1, AgesHold
  <2> QED BY <1>4, <2>1 DEF Ages
<1>6. OpenTickets = {}
  BY <1>1, <1>2, <1>3, <1>5, OpenIs DEF Open
<1>7. Window /\ OwnTickets /\ Awaited /\ SlotPhases
  BY <1>3, <1>6 DEF Window, OwnTickets, Awaited, SlotPhases, Init, Pushing
<1>8. DInv
  BY <1>1, <1>2, <1>7 DEF DInv
<1>9. Waiting = <<>>
  BY <1>4, <1>8, WaitingIs, EmptySeq
<1>10. Received = [c \in Consumers |-> <<>>]
  BY <1>3 DEF Received, Popping, Init
<1> QED BY <1>8, <1>9, <1>10 DEF Abstract!Init

LEMMA FifoStep ==
  ASSUME DInv, NoFullTurn, Disciplined, [Next]_vars
  PROVE  DInv' /\ [Abstract!Next]_(Abstract!vars)
<1>1. ASSUME NEW p \in Producers, Push(p) PROVE DInv' /\ [Abstract!Next]_(Abstract!vars)
  <2>1. DInv'
    BY <1>1, TakeStep, BeginStoreStep, EndStoreStep DEF Push
  <2> QED BY <1>1, <2>1, PushFifo DEF Abstract!Next, Abstract!vars
<1>2. ASSUME NEW c \in Consumers, TryPop(c) PROVE DInv' /\ [Abstract!Next]_(Abstract!vars)
  <2>1. DInv'
    BY <1>2, LookStep, ClaimStep, BeginLoadStep, EndLoadStep DEF TryPop
  <2> QED BY <1>2, <2>1, TryPopFifo DEF Abstract!Next, Abstract!vars
<1>3. ASSUME UNCHANGED vars PROVE DInv' /\ [Abstract!Next]_(Abstract!vars)
  <2>1. DInv'
    BY <1>3
    DEF vars, DInv, IInv, TypeOK, CallsBounded, SlotExclusive, Roles, Window, OwnTickets, Awaited,
        SlotPhases, OpenTickets, Unclaimed, QueueLength, Age, Pushing, Popping
  <2>2. Waiting' = Waiting /\ Received' = Received
    BY <1>3 DEF vars, Waiting, Received, ItemOf, PushedBy, Item
  <2> QED BY <2>1, <2>2 DEF Abstract!vars
<1> QED BY <1>1, <1>2, <1>3 DEF Next

\* With callers that keep the open tickets within the ring, and as long as the counters do
\* not go round once while a consumer is between its two looks at tail_, every step is a
\* step of a FIFO queue or leaves it alone: nothing is lost, doubled or reordered.
THEOREM FifoRefines ==
  ASSUME Disciplined
  PROVE  Spec /\ []NoFullTurn => ImplementsFifo
<1>1. DInv /\ NoFullTurn /\ [Next]_vars => DInv' /\ [Abstract!Next]_(Abstract!vars)
  BY FifoStep
<1> QED BY <1>1, InitFifo, PTL DEF Spec, ImplementsFifo, Abstract!Spec

-----------------------------------------------------------------------------
(* Fewer pushes than tickets *)

AllPushes == Producers \X (1 .. Pushes)
Begun == {b \in AllPushes : b[2] =< calls[b[1]]}

\* The counters have not gone round: head counts the pushes.
NotRound ==
  /\ Cardinality(Begun) = head
  /\ tail =< head
  /\ \A c \in Consumers : /\ pc[c] = "check" => ticket[c] =< head
                          /\ pc[c] = "claim" => ticket[c] < head

FewPushes == IsFiniteSet(AllPushes) /\ Cardinality(AllPushes) < Width

LEMMA NotRoundInit == FewPushes /\ Init => NotRound
<1> SUFFICES ASSUME FewPushes, Init PROVE NotRound
  OBVIOUS
<1>1. Begun = {}
  BY CallsAssumption DEF Init, Begun, AllPushes, Callers
<1> QED BY <1>1, FS_EmptySet DEF Init, NotRound, Callers

LEMMA NotRoundStep ==
  ASSUME FewPushes, IInv, Roles, NotRound, [Next]_vars
  PROVE  NotRound'
<1> USE SizeAssumption, WidthAssumption
<1>1. IsFiniteSet(Begun) /\ head \in Tickets /\ tail \in Tickets
  BY FS_Subset DEF Begun, FewPushes, IInv, TypeOK
<1>2. ASSUME NEW p \in Producers, TakeTicket(p) PROVE NotRound'
  <2>1. /\ pc[p] = "idle" /\ pc' = [pc EXCEPT ![p] = "push"] /\ ticket' = [ticket EXCEPT ![p] = head]
        /\ calls[p] < Pushes /\ calls' = [calls EXCEPT ![p] = @ + 1]
        /\ tail' = tail /\ head' = Successor(head) /\ p \in Callers /\ p \notin Consumers
    BY <1>2, CallersAssumption DEF TakeTicket, Goto, Callers
  <2>2. calls \in [Callers -> Nat] /\ pc \in [Callers -> PCs] /\ ticket \in [Callers -> Tickets]
    BY DEF IInv, TypeOK, PCs
  <2> DEFINE new == <<p, calls[p] + 1>>
  <2>3. new \in AllPushes /\ new \notin Begun
    BY <2>1, <2>2, CallsAssumption DEF AllPushes, Begun
  <2>4. Begun' = Begun \cup {new}
    <3>1. \A b \in AllPushes : b[2] =< calls'[b[1]] <=> b[2] =< calls[b[1]] \/ b = new
      BY <2>1, <2>2, CallsAssumption DEF AllPushes, Callers
    <3> QED BY <2>3, <3>1 DEF Begun, AllPushes
  <2>5. Cardinality(Begun') = Cardinality(Begun) + 1 /\ Begun' \subseteq AllPushes
    <3>1. Cardinality(Begun \cup {new}) = Cardinality(Begun) + 1
      BY <1>1, <2>3, FS_AddElement
    <3>2. Begun \subseteq AllPushes
      BY DEF Begun
    <3> QED BY <2>3, <2>4, <3>1, <3>2
  <2>6. Cardinality(Begun') =< Cardinality(AllPushes) /\ Cardinality(AllPushes) \in Nat
    BY <2>5, FS_Subset, FS_CardinalityType DEF FewPushes
  <2>7. head' = head + 1
    BY <1>1, <2>1, <2>5, <2>6, SuccessorIs DEF NotRound, FewPushes, Tickets
  <2>8. \A c \in Consumers : pc'[c] = pc[c] /\ ticket'[c] = ticket[c] /\ ticket[c] \in Tickets
    BY <2>1, <2>2 DEF Callers
  <2> QED BY <1>1, <2>1, <2>5, <2>7, <2>8 DEF NotRound, Tickets
<1>3. ASSUME NEW p \in Producers, BeginStore(p) \/ EndStore(p) PROVE NotRound'
  <2>1. /\ \A c \in Consumers : pc'[c] = pc[c]
        /\ UNCHANGED <<head, tail, calls, ticket>>
    BY <1>3, CallersAssumption DEF BeginStore, EndStore, Goto, IInv, TypeOK, Callers
  <2> QED BY <2>1 DEF NotRound, Begun
<1>4. ASSUME NEW c \in Consumers, TryPop(c) PROVE NotRound'
  <2>1. c \in Callers /\ c \notin Producers
    BY CallersAssumption DEF Callers
  <2>2. /\ head' = head
        /\ \A p \in Producers : calls'[p] = calls[p]
        /\ \A d \in Consumers : d # c => pc'[d] = pc[d] /\ ticket'[d] = ticket[d]
    BY <1>4, <2>1
    DEF TryPop, LoadTail, CheckHead, ClaimTicket, ClaimFails, BeginLoad, EndLoad, Goto, IInv, TypeOK,
        Callers
  <2>3. Begun' = Begun
    <3>1. \A b \in AllPushes : calls'[b[1]] = calls[b[1]]
      BY <2>2 DEF AllPushes
    <3> QED BY <3>1 DEF Begun, AllPushes
  <2>4. /\ tail' =< head
        /\ pc'[c] = "check" => ticket'[c] =< head
        /\ pc'[c] = "claim" => ticket'[c] < head
    <3>1. CASE LoadTail(c)
      BY <2>1, <3>1 DEF LoadTail, Goto, NotRound, IInv, TypeOK
    <3>2. CASE CheckHead(c)
      <4>1. CASE SeesItem(c)
        <5>1. pc[c] = "check" /\ ticket[c] =< head /\ ticket[c] \in Tickets
          BY <2>1, <3>2 DEF CheckHead, Goto, NotRound, IInv, TypeOK
        <5>2. ticket[c] # head
          <6> SUFFICES ASSUME ticket[c] = head PROVE FALSE
            OBVIOUS
          <6>1. (head - head) % Width = 0
            BY <1>1, Distance DEF Tickets
          <6>2. ~ (Signed(head - head) > 0)
            BY <6>1 DEF Signed
          <6> QED BY <4>1, <6>2 DEF SeesItem
        <5>3. ticket[c] < head
          BY <1>1, <5>1, <5>2 DEF Tickets
        <5> QED BY <2>1, <3>2, <5>1, <5>3 DEF CheckHead, Goto, NotRound, IInv, TypeOK
      <4>2. CASE ~ SeesItem(c)
        BY <2>1, <3>2, <4>2 DEF CheckHead, Goto, NotRound, IInv, TypeOK
      <4> QED BY <4>1, <4>2
    <3>3. CASE ClaimTicket(c)
      <4>1. tail < head /\ tail' = Successor(tail) /\ pc'[c] = "pop"
        BY <2>1, <3>3 DEF ClaimTicket, Goto, NotRound, IInv, TypeOK
      <4>2. tail' = tail + 1
        BY <1>1, <4>1, SuccessorIs DEF Tickets
      <4> QED BY <1>1, <4>1, <4>2 DEF Tickets
    <3>4. CASE ClaimFails(c)
      BY <2>1, <3>4 DEF ClaimFails, Goto, NotRound, IInv, TypeOK
    <3>5. CASE BeginLoad(c) \/ EndLoad(c)
      BY <2>1, <3>5 DEF BeginLoad, EndLoad, Goto, NotRound, IInv, TypeOK
    <3> QED BY <1>4, <3>1, <3>2, <3>3, <3>4, <3>5 DEF TryPop
  <2>5. \A d \in Consumers : /\ pc'[d] = "check" => ticket'[d] =< head'
                             /\ pc'[d] = "claim" => ticket'[d] < head'
    BY <2>2, <2>4 DEF NotRound
  <2> QED BY <2>2, <2>3, <2>4, <2>5 DEF NotRound
<1>5. ASSUME UNCHANGED vars PROVE NotRound'
  BY <1>5 DEF vars, NotRound, Begun
<1> QED BY <1>2, <1>3, <1>4, <1>5 DEF Next, Push

LEMMA NoTurn == ASSUME NotRound, IInv PROVE NoFullTurn
BY DEF NotRound, NoFullTurn, IInv, TypeOK, Tickets, Callers

\* With such callers and fewer pushes in all than there are tickets, 2^32, the ring
\* implements the FIFO queue.
THEOREM FifoRefinesShort ==
  ASSUME Disciplined, IsFiniteSet(Producers \X (1 .. Pushes)),
         Cardinality(Producers \X (1 .. Pushes)) < Width
  PROVE  Spec => ImplementsFifo
<1>1. FewPushes
  BY DEF FewPushes, AllPushes
<1>2. DInv /\ NotRound /\ [Next]_vars => DInv' /\ NotRound' /\ [Abstract!Next]_(Abstract!vars)
  <2> SUFFICES ASSUME DInv, NotRound, [Next]_vars
               PROVE  DInv' /\ NotRound' /\ [Abstract!Next]_(Abstract!vars)
    OBVIOUS
  <2>1. IInv /\ Roles
    BY DEF DInv
  <2> QED BY <1>1, <2>1, NoTurn, NotRoundStep, FifoStep
<1>3. Init => DInv /\ NotRound /\ Abstract!Init
  BY <1>1, InitFifo, NotRoundInit
<1> QED BY <1>2, <1>3, PTL DEF Spec, ImplementsFifo, Abstract!Spec

=============================================================================
