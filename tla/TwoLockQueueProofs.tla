------------------------- MODULE TwoLockQueueProofs -------------------------
(***************************************************************************)
(* TwoLockQueue for every number of callers, calls and nodes: the list     *)
(* stays whole, no freed node is used, and the queue is FIFO.              *)
(***************************************************************************)
EXTENDS TwoLockQueue, SequenceTheorems, FiniteSetTheorems, TLAPS

-----------------------------------------------------------------------------
(* There is one way from the head to the end *)

LEMMA LeastNat ==
  ASSUME NEW A \in SUBSET Nat, A # {}
  PROVE  \E n \in A : \A m \in A : n =< m
<1> DEFINE T == {1 .. n : n \in A}
           R == StrictSubsetOrdering(Nat)
<1>1. T \subseteq FiniteSubsetsOf(Nat)
  BY FS_Interval DEF FiniteSubsetsOf
<1>2. T # {}
  OBVIOUS
<1>3. IsWellFoundedOn(R, FiniteSubsetsOf(Nat))
  BY FS_StrictSubsetOrderingWellFounded
<1>4. PICK x \in T : \A y \in T : ~ (<<y, x>> \in R)
  <2> HIDE DEF T, R
  <2> QED BY <1>1, <1>2, <1>3, WFMin
<1>5. PICK n \in A : x = 1 .. n
  OBVIOUS
<1>6. ASSUME NEW m \in A, m < n PROVE FALSE
  <2>1. 1 .. m \subseteq 1 .. n /\ 1 .. m # 1 .. n
    <3>1. m \in Nat /\ n \in Nat
      OBVIOUS
    <3>2. n \in 1 .. n /\ n \notin 1 .. m
      BY <3>1, <1>6
    <3> QED BY <1>6, <3>1, <3>2
  <2>2. 1 .. m \in SUBSET Nat /\ 1 .. n \in SUBSET Nat
    OBVIOUS
  <2>3. <<1 .. m, x>> \in R
    BY <2>1, <2>2, <1>5 DEF StrictSubsetOrdering
  <2> QED BY <2>3, <1>4
<1> QED BY <1>6

LEMMA PathTyped ==
  ASSUME NEW s \in Paths
  PROVE  /\ s \in Seq(Nodes) /\ Len(s) \in Nat \ {0} /\ DOMAIN s = 1 .. Len(s)
         /\ \A i \in 1 .. Len(s) : s[i] \in Nodes
         /\ \A i, j \in 1 .. Len(s) : s[i] = s[j] => i = j
<1>1. Cardinality(Nodes) \in Nat
  BY NodesAssumption, FS_CardinalityType
<1>2. PICK n \in 1 .. Cardinality(Nodes) : s \in Injection(1 .. n, Nodes)
  BY DEF Paths
<1>3. n \in Nat \ {0} /\ s \in [1 .. n -> Nodes] /\ IsInjective(s)
  BY <1>1, <1>2 DEF Injection
<1>4. s \in Seq(Nodes)
  BY <1>3, SeqDef
<1>5. Len(s) = n
  BY <1>3, <1>4, LenProperties
<1> QED BY <1>3, <1>4, <1>5 DEF IsInjective

LEMMA PathShape ==
  ASSUME NEW s \in Seq(Nodes), s # <<>>, \A i, j \in 1 .. Len(s) : s[i] = s[j] => i = j
  PROVE  s \in Paths
<1>1. Len(s) \in Nat \ {0} /\ s \in [1 .. Len(s) -> Nodes] /\ DOMAIN s = 1 .. Len(s)
  BY LenProperties, EmptySeq
<1>2. s \in Injection(1 .. Len(s), Nodes)
  BY <1>1 DEF Injection, IsInjective
<1>3. Len(s) =< Cardinality(Nodes)
  <2>1. Cardinality(1 .. Len(s)) =< Cardinality(Nodes)
    BY <1>2, NodesAssumption, FS_Injection
  <2>2. Cardinality(1 .. Len(s)) = Len(s)
    BY <1>1, FS_Interval
  <2> QED BY <2>1, <2>2
<1>4. Cardinality(Nodes) \in Nat
  BY NodesAssumption, FS_CardinalityType
<1>5. Len(s) \in 1 .. Cardinality(Nodes)
  BY <1>1, <1>3, <1>4
<1> QED BY <1>2, <1>5 DEF Paths

LEMMA OneList ==
  ASSUME NEW s \in Paths, NEW t \in Paths, IsList(s), IsList(t)
  PROVE  s = t
<1> USE PathTyped
<1>1. \A i \in 1 .. Len(s) : i =< Len(t) => s[i] = t[i]
  <2> DEFINE A == {i \in 1 .. Len(s) : i =< Len(t) /\ s[i] # t[i]}
  <2> SUFFICES ASSUME A # {} PROVE FALSE
    OBVIOUS
  <2>1. A \in SUBSET Nat
    OBVIOUS
  <2>2. PICK n \in A : \A m \in A : n =< m
    BY <2>1, LeastNat
  <2>3. n # 1 /\ n \in 1 .. Len(s) /\ n =< Len(t) /\ s[n] # t[n]
    BY DEF IsList
  <2>4. n - 1 \in 1 .. Len(s) - 1 /\ n - 1 \in 1 .. Len(t) - 1 /\ n - 1 \notin A
    BY <2>2, <2>3
  <2>5. s[n - 1] = t[n - 1]
    BY <2>4
  <2>6. next[s[n - 1]] = s[n] /\ next[t[n - 1]] = t[n]
    BY <2>3, <2>4 DEF IsList
  <2> QED BY <2>3, <2>5, <2>6
<1>2. ASSUME NEW a \in Paths, NEW b \in Paths, IsList(a), IsList(b), Len(a) < Len(b),
             a[Len(a)] = b[Len(a)]
      PROVE  FALSE
  <2>1. Len(a) \in 1 .. Len(b) - 1 /\ Len(a) + 1 \in 1 .. Len(b)
    BY <1>2
  <2>2. next[b[Len(a)]] = b[Len(a) + 1] /\ b[Len(a) + 1] \in Nodes
    BY <1>2, <2>1 DEF IsList
  <2>3. next[a[Len(a)]] = Null
    BY <1>2 DEF IsList
  <2> QED BY <1>2, <2>2, <2>3, NodesAssumption
<1>3. Len(s) = Len(t)
  <2>1. CASE Len(s) < Len(t)
    BY <1>1, <1>2, <2>1
  <2>2. CASE Len(t) < Len(s)
    BY <1>1, <1>2, <2>2
  <2> QED BY <2>1, <2>2
<1> QED BY <1>1, <1>3, SeqEqual

LEMMA ListIs ==
  ASSUME NEW s \in Paths, IsList(s)
  PROVE  List = s
<1>1. \E t \in Paths : IsList(t)
  OBVIOUS
<1>2. List \in Paths /\ IsList(List)
  BY <1>1, Zenon DEF List
<1> QED BY <1>2, OneList

ListUnique == \A s \in Paths : IsList(s) => List = s

LEMMA ListIsAfter == ListUnique /\ ListUnique'
<1>1. ListUnique
  BY ListIs DEF ListUnique
<1> QED BY <1>1, PTL

-----------------------------------------------------------------------------
(* The invariant *)

Roles ==
  /\ \A p \in Producers : pc[p] \in {"idle", "lockTail", "link", "advance", "unlockTail"}
  /\ \A c \in Consumers :
       pc[c] \in {"idle", "look", "remove", "unlockEmpty", "unlockHead", "free", "walk"}

LockOwners ==
  /\ \A p \in Producers : pc[p] \in {"link", "advance", "unlockTail"} => tailLock = p
  /\ \A c \in Consumers :
       pc[c] \in {"look", "remove", "unlockEmpty", "unlockHead", "walk"} => headLock = c

\* A call owns the node it has allocated and not linked, or taken off and not freed.
Owning(a) == pc[a] \in {"lockTail", "link", "unlockHead", "free"}

OwnNodes ==
  /\ \A a \in Callers : Owning(a) => node[a] \in Nodes \ free
  /\ \A a, b \in Callers : Owning(a) /\ Owning(b) /\ node[a] = node[b] => a = b
  /\ \A p \in Producers :
       pc[p] \in {"lockTail", "link"} => next[node[p]] = Null /\ value[node[p]] \in Items

\* The list, the nodes around it, and what the calls in progress know of it.
Whole(s) ==
  /\ IsList(s)
  /\ \A i \in 1 .. Len(s) : s[i] \notin free
  /\ \A a \in Callers : Owning(a) => \A i \in 1 .. Len(s) : s[i] # node[a]
  /\ \A p \in Producers : pc[p] = "advance" => node[p] = s[Len(s)]
  /\ (\A p \in Producers : pc[p] # "advance") => tail = s[Len(s)]
  /\ \A c \in Consumers : pc[c] = "walk" => \E i \in 1 .. Len(s) : node[c] = s[i]
  /\ \A c \in Consumers :
       pc[c] = "remove" => Len(s) > 1 /\ node[c] = s[1] /\ newHead[c] = s[2]

ListWhole == \E s \in Paths : Whole(s)

LInv == TypeOK /\ Roles /\ LockOwners /\ OwnNodes /\ ListWhole

LEMMA InitLInv == Init => LInv /\ Len(List) = 1
<1> SUFFICES ASSUME Init PROVE LInv /\ Len(List) = 1
  OBVIOUS
<1>1. PICK dummy \in Nodes : head = dummy /\ tail = dummy /\ free = Nodes \ {dummy}
  BY DEF Init
<1>2. TypeOK
  BY <1>1, NodesAssumption DEF Init, TypeOK
<1>3. Roles /\ LockOwners /\ OwnNodes
  BY DEF Init, Roles, LockOwners, OwnNodes, Owning, Callers
<1> DEFINE s == <<dummy>>
<1>4. /\ s \in Seq(Nodes) /\ Len(s) = 1 /\ s[1] = dummy /\ s # <<>>
      /\ \A i, j \in 1 .. Len(s) : s[i] = s[j] => i = j
  OBVIOUS
<1>5. s \in Paths
  BY <1>4, PathShape
<1>6. Whole(s)
  BY <1>1, <1>4 DEF Init, Whole, IsList, Callers, Owning
<1>7. List = s
  BY <1>5, <1>6, ListIs DEF Whole
<1> QED BY <1>2, <1>3, <1>4, <1>5, <1>6, <1>7 DEF LInv, ListWhole

-----------------------------------------------------------------------------
(* Enqueue *)

LEMMA AllocateStep ==
  ASSUME LInv, NEW p \in Producers, Allocate(p), NEW s \in Paths, Whole(s)
  PROVE  LInv' /\ Whole(s)'
<1> USE PathTyped
<1>1. PICK n \in free :
        /\ calls[p] < Puts /\ pc[p] = "idle" /\ pc' = [pc EXCEPT ![p] = "lockTail"]
        /\ calls' = [calls EXCEPT ![p] = @ + 1] /\ free' = free \ {n}
        /\ node' = [node EXCEPT ![p] = n]
        /\ value' = [value EXCEPT ![n] = Item(p, calls[p] + 1)]
        /\ next' = [next EXCEPT ![n] = Null]
        /\ UNCHANGED <<head, tail, headLock, tailLock, newHead, got>>
  BY DEF Allocate, Goto
<1>2. p \in Callers /\ p \notin Consumers /\ n \in Nodes /\ calls[p] \in Nat
  BY CallersAssumption DEF Callers, LInv, TypeOK
<1>3. Item(p, calls[p] + 1) \in Items
  BY <1>1, <1>2, CallsAssumption DEF Item, Items
<1>4. TypeOK'
  BY <1>1, <1>2, <1>3, CallsAssumption DEF LInv, TypeOK
<1>5. Roles' /\ LockOwners'
  BY <1>1, <1>2 DEF LInv, TypeOK, Roles, LockOwners, Callers
<1>6. \A a \in Callers : a # p => (Owning(a)' <=> Owning(a)) /\ node'[a] = node[a] /\ pc'[a] = pc[a]
  BY <1>1 DEF LInv, TypeOK, Owning
<1>7. Owning(p)' /\ node'[p] = n /\ pc'[p] = "lockTail"
  BY <1>1, <1>2 DEF LInv, TypeOK, Owning
<1>8. OwnNodes'
  <2>1. \A a \in Callers : Owning(a)' => node'[a] \in Nodes \ free'
    BY <1>1, <1>2, <1>6, <1>7 DEF LInv, OwnNodes
  <2>2. \A a, b \in Callers : Owning(a)' /\ Owning(b)' /\ node'[a] = node'[b] => a = b
    BY <1>1, <1>2, <1>6, <1>7 DEF LInv, OwnNodes
  <2>3. ASSUME NEW q \in Producers, pc'[q] \in {"lockTail", "link"}
        PROVE  next'[node'[q]] = Null /\ value'[node'[q]] \in Items
    <3>1. CASE q = p
      BY <1>1, <1>2, <1>3, <1>7, <3>1 DEF LInv, TypeOK
    <3>2. CASE q # p
      <4>1. /\ q \in Callers /\ Owning(q) /\ node'[q] = node[q] /\ pc[q] \in {"lockTail", "link"}
        BY <1>6, <2>3, <3>2 DEF Callers, Owning
      <4>2. node[q] \in Nodes /\ node[q] # n
        BY <4>1 DEF LInv, OwnNodes
      <4> QED BY <1>1, <1>2, <4>1, <4>2 DEF LInv, OwnNodes, TypeOK
    <3> QED BY <3>1, <3>2
  <2> QED BY <2>1, <2>2, <2>3 DEF OwnNodes
<1>9. Whole(s)'
  <2>1. \A i \in 1 .. Len(s) : s[i] # n /\ s[i] \in Nodes
    BY <1>1 DEF Whole
  <2>2. IsList(s)'
    BY <1>1, <1>2, <2>1 DEF Whole, IsList, LInv, TypeOK
  <2>3. \A a \in Callers : Owning(a)' => \A i \in 1 .. Len(s) : s[i] # node'[a]
    BY <1>6, <1>7, <2>1 DEF Whole
  <2>4. \A q \in Producers : pc'[q] = "advance" <=> pc[q] = "advance"
    BY <1>1, <1>6, <1>7 DEF Callers
  <2>5. \A q \in Producers : pc'[q] = "advance" => node'[q] = s[Len(s)]
    BY <1>6, <1>7, <2>4 DEF Whole, Callers
  <2>6. \A c \in Consumers : pc'[c] = pc[c] /\ node'[c] = node[c] /\ newHead'[c] = newHead[c]
    BY <1>1, <1>2, <1>6 DEF Callers
  <2>7. \A i \in 1 .. Len(s) : s[i] \notin free'
    BY <1>1 DEF Whole
  <2>8. (\A q \in Producers : pc'[q] # "advance") => tail' = s[Len(s)]
    BY <1>1, <2>4 DEF Whole
  <2>9. /\ \A c \in Consumers : pc'[c] = "walk" => \E i \in 1 .. Len(s) : node'[c] = s[i]
        /\ \A c \in Consumers :
             pc'[c] = "remove" => Len(s) > 1 /\ node'[c] = s[1] /\ newHead'[c] = s[2]
    BY <2>6 DEF Whole
  <2> QED BY <2>2, <2>3, <2>5, <2>7, <2>8, <2>9 DEF Whole
<1> QED BY <1>4, <1>5, <1>8, <1>9 DEF LInv, ListWhole

\* The steps that change neither the nodes nor what a call owns.
LEMMA LocksStep ==
  ASSUME LInv, NEW p \in Producers, LockTail(p) \/ AdvanceTail(p) \/ UnlockTail(p),
         NEW s \in Paths, Whole(s)
  PROVE  LInv' /\ Whole(s)'
<1> USE PathTyped
<1>1. /\ p \in Callers /\ p \notin Consumers
      /\ UNCHANGED <<head, headLock, value, next, free, calls, locals, got>>
  BY CallersAssumption DEF Callers, LockTail, AdvanceTail, UnlockTail
<1>2. UNCHANGED <<node, newHead>>
  BY <1>1 DEF locals
<1>3. \/ /\ pc[p] = "lockTail" /\ pc' = [pc EXCEPT ![p] = "link"] /\ tail' = tail
         /\ tailLock = NoCaller /\ tailLock' = p
      \/ /\ pc[p] = "advance" /\ pc' = [pc EXCEPT ![p] = "unlockTail"] /\ tail' = node[p]
         /\ tailLock' = tailLock
      \/ /\ pc[p] = "unlockTail" /\ pc' = [pc EXCEPT ![p] = "idle"] /\ tail' = tail
         /\ tailLock' = NoCaller
  <2>1. CASE LockTail(p)
    BY <2>1 DEF LockTail, Goto
  <2>2. CASE AdvanceTail(p)
    BY <2>2 DEF AdvanceTail, Goto
  <2>3. CASE UnlockTail(p)
    BY <2>3 DEF UnlockTail, Goto
  <2> QED BY <2>1, <2>2, <2>3
<1>4. /\ \A a \in Callers : a # p => pc'[a] = pc[a]
      /\ \/ pc[p] = "lockTail" /\ pc'[p] = "link"
         \/ pc[p] = "advance" /\ pc'[p] = "unlockTail"
         \/ pc[p] = "unlockTail" /\ pc'[p] = "idle"
  BY <1>1, <1>3 DEF LInv, TypeOK
<1>5. TypeOK'
  <2>1. tail' \in Nodes
    BY <1>3 DEF LInv, TypeOK, Whole
  <2>2. pc' \in [Callers -> {"idle", "lockTail", "link", "advance", "unlockTail",
                             "look", "remove", "unlockEmpty", "unlockHead", "free", "walk"}]
    <3>1. PICK x \in {"link", "unlockTail", "idle"} : pc' = [pc EXCEPT ![p] = x]
      BY <1>3
    <3> QED BY <3>1 DEF LInv, TypeOK
  <2>3. tailLock' \in Callers \cup {NoCaller}
    BY <1>1, <1>3 DEF LInv, TypeOK
  <2> QED BY <1>1, <1>2, <2>3, <2>1, <2>2 DEF LInv, TypeOK
<1>6. Roles' /\ LockOwners'
  BY <1>1, <1>3, <1>4, CallersAssumption DEF LInv, Roles, LockOwners, Callers
<1>7. \A a \in Callers : Owning(a)' <=> Owning(a)
  BY <1>4 DEF Owning
<1>8. OwnNodes'
  BY <1>1, <1>2, <1>3, <1>4, <1>7 DEF LInv, OwnNodes, Callers
<1>9. Whole(s)'
  <2>1. IsList(s)'
    BY <1>1 DEF Whole, IsList
  <2>2. \A q \in Producers : pc'[q] = "advance" => pc[q] = "advance"
    BY <1>4 DEF Callers
  <2>3. (\A q \in Producers : pc'[q] # "advance") => tail' = s[Len(s)]
    <3> SUFFICES ASSUME \A q \in Producers : pc'[q] # "advance" PROVE tail' = s[Len(s)]
      OBVIOUS
    <3>1. CASE pc[p] = "advance"
      BY <1>3, <3>1 DEF Whole
    <3>2. CASE pc[p] # "advance"
      BY <1>3, <1>4, <3>2 DEF Whole, Callers
    <3> QED BY <3>1, <3>2
  <2>4. \A c \in Consumers : pc'[c] = pc[c]
    BY <1>1, <1>4 DEF Callers
  <2> QED BY <1>1, <1>2, <1>7, <2>1, <2>2, <2>3, <2>4 DEF Whole
<1> QED BY <1>5, <1>6, <1>8, <1>9 DEF LInv, ListWhole

\* The list grows at its end, the tail.
LEMMA LinkStep ==
  ASSUME LInv, NEW p \in Producers, Link(p), NEW s \in Paths, Whole(s)
  PROVE  LInv' /\ \E n \in Nodes : /\ n = node[p] /\ value[n] \in Items
                                /\ Append(s, n) \in Paths /\ Whole(Append(s, n))'
<1> USE PathTyped
<1>1. /\ pc[p] = "link" /\ pc' = [pc EXCEPT ![p] = "advance"]
      /\ next' = [next EXCEPT ![tail] = node[p]]
      /\ UNCHANGED <<head, tail, headLock, tailLock, value, free, calls, node, newHead, got>>
  BY DEF Link, Goto, locals
<1>2. p \in Callers /\ p \notin Consumers /\ Owning(p) /\ NoCaller \notin Callers
  BY <1>1, CallersAssumption DEF Callers, Owning
<1>3. PICK n \in Nodes : n = node[p]
  BY <1>2 DEF LInv, OwnNodes
<1>4. n \notin free /\ next[n] = Null /\ value[n] \in Items /\ \A i \in 1 .. Len(s) : s[i] # n
  BY <1>1, <1>2, <1>3 DEF LInv, OwnNodes, Whole
<1>5. \A q \in Producers : q # p => pc[q] \notin {"link", "advance", "unlockTail"}
  BY <1>1 DEF LInv, LockOwners
<1>6. tail = s[Len(s)]
  BY <1>1, <1>5 DEF Whole
<1>7. TypeOK'
  BY <1>1, <1>2, <1>3 DEF LInv, TypeOK
<1>8. Roles' /\ LockOwners'
  BY <1>1, <1>2 DEF LInv, TypeOK, Roles, LockOwners, Callers
<1>9. /\ \A a \in Callers : a # p => pc'[a] = pc[a]
      /\ pc'[p] = "advance"
      /\ \A a \in Callers : Owning(a)' <=> Owning(a) /\ a # p
  BY <1>1, <1>2 DEF LInv, TypeOK, Owning
<1>10. OwnNodes'
  <2>1. \A a \in Callers : Owning(a)' => node'[a] \in Nodes \ free'
    BY <1>1, <1>9 DEF LInv, OwnNodes
  <2>2. \A a, b \in Callers : Owning(a)' /\ Owning(b)' /\ node'[a] = node'[b] => a = b
    BY <1>1, <1>9 DEF LInv, OwnNodes
  <2>3. ASSUME NEW q \in Producers, pc'[q] \in {"lockTail", "link"}
        PROVE  next'[node'[q]] = Null /\ value'[node'[q]] \in Items
    <3>1. q # p /\ q \in Callers /\ pc[q] = pc'[q] /\ Owning(q)
      BY <1>9, <2>3 DEF Callers, Owning
    <3>2. node[q] \in Nodes /\ node[q] # tail /\ next[node[q]] = Null /\ value[node[q]] \in Items
      BY <1>6, <2>3, <3>1 DEF LInv, OwnNodes, Whole
    <3> QED BY <1>1, <3>2 DEF LInv, TypeOK
  <2> QED BY <2>1, <2>2, <2>3 DEF OwnNodes
<1> DEFINE t == Append(s, n)
<1>11. /\ t \in Seq(Nodes) /\ t # <<>> /\ Len(t) = Len(s) + 1
       /\ \A i \in 1 .. Len(s) : t[i] = s[i]
       /\ t[Len(s) + 1] = n
  BY AppendProperties
<1> HIDE DEF t
<1>12. t \in Paths
  <2>1. ASSUME NEW i \in 1 .. Len(t), NEW j \in 1 .. Len(t), t[i] = t[j] PROVE i = j
    <3>1. (i \in 1 .. Len(s) \/ i = Len(s) + 1) /\ (j \in 1 .. Len(s) \/ j = Len(s) + 1)
      BY <1>11
    <3> QED BY <1>4, <1>11, <2>1, <3>1
  <2> QED BY <1>11, <2>1, PathShape
<1>13. IsList(t)'
  <2>1. t[1] = head'
    BY <1>1, <1>11 DEF Whole, IsList
  <2>2. ASSUME NEW i \in 1 .. Len(t) - 1 PROVE next'[t[i]] = t[i + 1]
    <3>1. i \in 1 .. Len(s) /\ t[i] = s[i]
      BY <1>11
    <3>2. CASE i = Len(s)
      BY <1>1, <1>3, <1>6, <1>11, <3>1, <3>2 DEF LInv, TypeOK
    <3>3. CASE i # Len(s)
      <4>1. i \in 1 .. Len(s) - 1 /\ i + 1 \in 1 .. Len(s)
        BY <3>1, <3>3
      <4>2. s[i] # tail /\ s[i] \in Nodes
        BY <1>6, <3>1, <3>3
      <4>3. next[s[i]] = s[i + 1]
        BY <4>1 DEF Whole, IsList
      <4>4. t[i + 1] = s[i + 1]
        BY <1>11, <4>1
      <4> QED BY <1>1, <3>1, <4>2, <4>3, <4>4 DEF LInv, TypeOK
    <3> QED BY <3>2, <3>3
  <2>3. next'[t[Len(t)]] = Null
    <3>1. t[Len(t)] = n /\ n # tail
      BY <1>4, <1>6, <1>11
    <3> QED BY <1>1, <1>4, <3>1 DEF LInv, TypeOK
  <2> QED BY <2>1, <2>2, <2>3 DEF IsList
<1>14. Whole(t)'
  <2>1. \A i \in 1 .. Len(t) : (i \in 1 .. Len(s) /\ t[i] = s[i]) \/ t[i] = n
    <3>1. \A i \in 1 .. Len(t) : i \in 1 .. Len(s) \/ i = Len(s) + 1
      BY <1>11
    <3> QED BY <1>11, <3>1
  <2>2. \A i \in 1 .. Len(t) : t[i] \notin free'
    BY <1>1, <1>4, <2>1 DEF Whole
  <2>3. ASSUME NEW a \in Callers, Owning(a)' PROVE \A i \in 1 .. Len(t) : t[i] # node'[a]
    <3>1. Owning(a) /\ a # p /\ node'[a] = node[a]
      BY <1>1, <1>9, <2>3
    <3>2. node[a] # n /\ \A i \in 1 .. Len(s) : s[i] # node[a]
      BY <1>2, <1>3, <3>1 DEF LInv, OwnNodes, Whole
    <3> QED BY <2>1, <3>1, <3>2
  <2>4. \A q \in Producers : pc'[q] = "advance" => node'[q] = t[Len(t)]
    <3>1. \A q \in Producers : pc'[q] = "advance" => q = p
      BY <1>5, <1>9 DEF Callers
    <3> QED BY <1>1, <1>3, <1>11, <3>1
  <2>5. \A c \in Consumers : pc'[c] = pc[c]
    BY <1>2, <1>9 DEF Callers
  <2>6. \A c \in Consumers : pc'[c] = "walk" => \E i \in 1 .. Len(t) : node'[c] = t[i]
    <3> SUFFICES ASSUME NEW c \in Consumers, pc'[c] = "walk"
                 PROVE  \E i \in 1 .. Len(t) : node'[c] = t[i]
      OBVIOUS
    <3>1. PICK i \in 1 .. Len(s) : node[c] = s[i]
      BY <2>5 DEF Whole
    <3>2. i \in 1 .. Len(t) /\ t[i] = s[i]
      BY <1>11
    <3> QED BY <1>1, <3>1, <3>2
  <2>7. \A c \in Consumers :
          pc'[c] = "remove" => Len(t) > 1 /\ node'[c] = t[1] /\ newHead'[c] = t[2]
    <3> SUFFICES ASSUME NEW c \in Consumers, pc'[c] = "remove"
                 PROVE  Len(t) > 1 /\ node'[c] = t[1] /\ newHead'[c] = t[2]
      OBVIOUS
    <3>1. Len(s) > 1 /\ node[c] = s[1] /\ newHead[c] = s[2]
      BY <2>5 DEF Whole
    <3>2. 1 \in 1 .. Len(s) /\ 2 \in 1 .. Len(s)
      BY <3>1
    <3> QED BY <1>1, <1>11, <3>1, <3>2
  <2>8. pc'[p] = "advance"
    BY <1>9
  <2> QED BY <1>13, <2>2, <2>3, <2>4, <2>6, <2>7, <2>8 DEF Whole
<1>15. LInv'
  BY <1>7, <1>8, <1>10, <1>12, <1>14 DEF LInv, ListWhole
<1> QED BY <1>3, <1>4, <1>12, <1>14, <1>15 DEF t
-----------------------------------------------------------------------------
(* Dequeue and print *)

\* The steps that leave the list as it is: the head is locked, looked at, walked from
\* and unlocked.
LEMMA HeadStep ==
  ASSUME LInv, NEW c \in Consumers,
         LockHead(c) \/ LockToPrint(c) \/ Look(c) \/ Walk(c) \/ UnlockHead(c),
         NEW s \in Paths, Whole(s)
  PROVE  LInv' /\ Whole(s)'
<1> USE PathTyped
<1>1. /\ c \in Callers /\ c \notin Producers /\ NoCaller \notin Callers
      /\ UNCHANGED <<head, tail, tailLock, value, next, free, got>>
  BY CallersAssumption DEF Callers, LockHead, LockToPrint, Look, Walk, UnlockHead, locals
<1>2. \E x \in {"look", "walk", "remove", "unlockEmpty", "free", "idle"} :
        pc' = [pc EXCEPT ![c] = x]
  <2>1. CASE LockHead(c)
    BY <2>1 DEF LockHead, Goto
  <2>2. CASE LockToPrint(c)
    BY <2>2 DEF LockToPrint, Goto
  <2>3. CASE Look(c)
    BY <2>3 DEF Look, Goto
  <2>4. CASE Walk(c)
    BY <2>4 DEF Walk, Goto
  <2>5. CASE UnlockHead(c)
    BY <2>5 DEF UnlockHead, Goto
  <2> QED BY <2>1, <2>2, <2>3, <2>4, <2>5
<1>3. /\ pc' = [pc EXCEPT ![c] = pc'[c]] /\ pc'[c] # "advance"
      /\ pc'[c] \in {"look", "walk", "remove", "unlockEmpty", "free", "idle"}
  BY <1>1, <1>2 DEF LInv, TypeOK
<1>4. \A a \in Callers : a # c => pc'[a] = pc[a]
  BY <1>1, <1>2 DEF LInv, TypeOK
<1>5. \A a \in Callers : a # c => node'[a] = node[a] /\ newHead'[a] = newHead[a]
  BY <1>1 DEF LInv, TypeOK, LockHead, LockToPrint, Look, Walk, UnlockHead, locals
<1>6. /\ headLock' \in Callers \cup {NoCaller} /\ calls' \in [Callers -> Nat]
      /\ node' \in [Callers -> Nodes \cup {Null}] /\ newHead' \in [Callers -> Nodes \cup {Null}]
  <2>1. CASE LockHead(c)
    BY <1>1, <2>1 DEF LockHead, LInv, TypeOK, locals
  <2>2. CASE LockToPrint(c)
    BY <1>1, <2>2 DEF LockToPrint, LInv, TypeOK
  <2>3. CASE Look(c)
    BY <1>1, <2>3 DEF Look, LInv, TypeOK
  <2>4. CASE Walk(c)
    <3>1. node[c] \in Nodes
      BY <2>4 DEF Walk, Goto, Whole
    <3> QED BY <1>1, <2>4, <3>1 DEF Walk, LInv, TypeOK
  <2>5. CASE UnlockHead(c)
    BY <1>1, <2>5 DEF UnlockHead, LInv, TypeOK, locals
  <2> QED BY <2>1, <2>2, <2>3, <2>4, <2>5
<1>7. TypeOK'
  <2>1. pc' \in [Callers -> {"idle", "lockTail", "link", "advance", "unlockTail",
                             "look", "remove", "unlockEmpty", "unlockHead", "free", "walk"}]
    BY <1>1, <1>2 DEF LInv, TypeOK
  <2> QED BY <1>1, <1>6, <2>1 DEF LInv, TypeOK
<1>8. /\ pc'[c] \in {"look", "remove", "unlockEmpty", "unlockHead", "walk"} => headLock' = c
      /\ \A d \in Consumers :
           d # c /\ pc[d] \in {"look", "remove", "unlockEmpty", "unlockHead", "walk"}
             => headLock' = d
  <2>1. CASE LockHead(c) \/ LockToPrint(c)
    <3>1. headLock = NoCaller /\ headLock' = c
      BY <2>1 DEF LockHead, LockToPrint
    <3> QED BY <1>1, <3>1 DEF LInv, LockOwners, Callers
  <2>2. CASE Look(c) \/ Walk(c)
    <3>1. headLock' = headLock /\ pc[c] \in {"look", "walk"}
      BY <2>2 DEF Look, Walk, Goto
    <3> QED BY <3>1 DEF LInv, LockOwners
  <2>3. CASE UnlockHead(c)
    <3>1. pc[c] \in {"unlockHead", "unlockEmpty"} /\ pc'[c] \in {"free", "idle"}
      BY <1>1, <2>3 DEF UnlockHead, Goto, LInv, TypeOK
    <3> QED BY <3>1 DEF LInv, LockOwners
  <2> QED BY <2>1, <2>2, <2>3
<1>9. Roles' /\ LockOwners'
  BY <1>1, <1>3, <1>4, <1>8 DEF LInv, Roles, LockOwners, Callers
<1>10. Owning(c)' => Owning(c) /\ node'[c] = node[c]
  <2>1. CASE UnlockHead(c)
    BY <1>1, <2>1 DEF UnlockHead, Goto, LInv, TypeOK, Owning, locals
  <2>2. CASE ~ UnlockHead(c)
    <3>1. CASE LockHead(c) \/ LockToPrint(c)
      BY <1>1, <3>1 DEF LockHead, LockToPrint, Goto, LInv, TypeOK, Owning
    <3>2. CASE Look(c)
      BY <1>1, <3>2 DEF Look, Goto, LInv, TypeOK, Owning
    <3>3. CASE Walk(c)
      BY <1>1, <3>3 DEF Walk, Goto, LInv, TypeOK, Owning
    <3> QED BY <2>2, <3>1, <3>2, <3>3
  <2> QED BY <2>1, <2>2
<1>11. \A a \in Callers : Owning(a)' => Owning(a) /\ node'[a] = node[a]
  BY <1>4, <1>5, <1>10 DEF Owning
<1>12. \A p \in Producers : pc'[p] = pc[p] /\ node'[p] = node[p]
  BY <1>1, <1>4, <1>5 DEF Callers
<1>13. OwnNodes'
  BY <1>1, <1>11, <1>12 DEF LInv, OwnNodes
<1>14. /\ pc'[c] = "walk" => \E i \in 1 .. Len(s) : node'[c] = s[i]
       /\ pc'[c] = "remove" => Len(s) > 1 /\ node'[c] = s[1] /\ newHead'[c] = s[2]
  <2>1. CASE LockHead(c) \/ UnlockHead(c)
    <3>1. pc'[c] \in {"look", "free", "idle"}
      BY <1>1, <2>1 DEF LockHead, UnlockHead, Goto, LInv, TypeOK
    <3> QED BY <3>1
  <2>2. CASE LockToPrint(c)
    <3>1. pc'[c] = "walk" /\ node'[c] = head
      BY <1>1, <2>2 DEF LockToPrint, Goto, LInv, TypeOK
    <3>2. s[1] = head /\ 1 \in 1 .. Len(s)
      BY DEF Whole, IsList
    <3> QED BY <3>1, <3>2
  <2>3. CASE Look(c)
    <3>1. /\ pc'[c] = (IF next[head] = Null THEN "unlockEmpty" ELSE "remove")
          /\ node'[c] = head /\ newHead'[c] = next[head]
      BY <1>1, <2>3 DEF Look, Goto, LInv, TypeOK
    <3>2. /\ s[1] = head /\ next[s[Len(s)]] = Null
          /\ \A i \in 1 .. Len(s) - 1 : next[s[i]] = s[i + 1]
      BY DEF Whole, IsList
    <3>3. ASSUME pc'[c] = "remove" PROVE Len(s) > 1 /\ newHead'[c] = s[2]
      <4>1. next[s[1]] # Null
        BY <3>1, <3>2, <3>3
      <4>2. Len(s) # 1
        BY <3>2, <4>1
      <4>3. Len(s) \in Nat \ {0}
        OBVIOUS
      <4>4. \A m \in Nat \ {0} : m # 1 => m > 1 /\ 1 \in 1 .. m - 1
        OBVIOUS
      <4>5. Len(s) > 1 /\ 1 \in 1 .. Len(s) - 1
        BY <4>2, <4>3, <4>4, Zenon
      <4> QED BY <3>1, <3>2, <4>5
    <3> QED BY <3>1, <3>2, <3>3
  <2>4. CASE Walk(c)
    <3>1. /\ pc[c] = "walk"
          /\ pc'[c] = (IF next[node[c]] = Null THEN "unlockEmpty" ELSE "walk")
          /\ node'[c] = IF next[node[c]] = Null THEN node[c] ELSE next[node[c]]
      BY <1>1, <2>4 DEF Walk, Goto, LInv, TypeOK
    <3>2. PICK i \in 1 .. Len(s) : node[c] = s[i]
      BY <3>1 DEF Whole
    <3>3. CASE i = Len(s)
      <4>1. next[node[c]] = Null
        BY <3>2, <3>3 DEF Whole, IsList
      <4> QED BY <3>1, <4>1
    <3>4. CASE i # Len(s)
      <4>1. i \in 1 .. Len(s) - 1 /\ i + 1 \in 1 .. Len(s)
        BY <3>4
      <4>2. next[node[c]] = s[i + 1] /\ s[i + 1] # Null
        BY <3>2, <4>1, NodesAssumption DEF Whole, IsList
      <4> QED BY <3>1, <4>1, <4>2
    <3> QED BY <3>3, <3>4
  <2> QED BY <2>1, <2>2, <2>3, <2>4
<1>15. \A d \in Consumers :
         d # c => pc'[d] = pc[d] /\ node'[d] = node[d] /\ newHead'[d] = newHead[d]
  BY <1>4, <1>5 DEF Callers
<1>16. Whole(s)'
  <2>1. IsList(s)'
    BY <1>1 DEF Whole, IsList
  <2> QED BY <1>1, <1>11, <1>12, <1>14, <1>15, <2>1 DEF Whole
<1> QED BY <1>7, <1>9, <1>13, <1>16 DEF LInv, ListWhole

\* The list loses its first node, which the dequeue now owns.
LEMMA RemoveStep ==
  ASSUME LInv, NEW c \in Consumers, Remove(c), NEW s \in Paths, Whole(s)
  PROVE  /\ LInv' /\ Len(s) > 1 /\ newHead[c] = s[2]
         /\ Tail(s) \in Paths /\ Whole(Tail(s))'
<1> USE PathTyped
<1>1. /\ pc[c] = "remove" /\ pc' = [pc EXCEPT ![c] = "unlockHead"] /\ head' = newHead[c]
      /\ got' = [got EXCEPT ![c] = Append(@, value[newHead[c]])]
      /\ UNCHANGED <<tail, headLock, tailLock, value, next, free, calls, node, newHead>>
  BY DEF Remove, Goto, locals
<1>2. c \in Callers /\ c \notin Producers
  BY CallersAssumption DEF Callers
<1>3. Len(s) > 1 /\ node[c] = s[1] /\ newHead[c] = s[2]
  BY <1>1 DEF Whole
<1>4. Len(s) \in Nat /\ 1 \in 1 .. Len(s) /\ 2 \in 1 .. Len(s) /\ s \in Seq(Nodes) /\ s # <<>>
  BY <1>3, EmptySeq
<1>5. s[1] \in Nodes /\ s[2] \in Nodes /\ s[1] \notin free
  BY <1>4 DEF Whole
<1>6. /\ \A a \in Callers : a # c => pc'[a] = pc[a]
      /\ pc'[c] = "unlockHead"
      /\ \A a \in Callers : Owning(a)' <=> Owning(a) \/ a = c
  BY <1>1, <1>2 DEF LInv, TypeOK, Owning
<1>7. TypeOK'
  <2>1. value[newHead[c]] \in Items \cup {NoItem}
    BY <1>3, <1>5 DEF LInv, TypeOK
  <2>2. got' \in [Consumers -> Seq(Items \cup {NoItem})]
    <3>1. got[c] \in Seq(Items \cup {NoItem})
      BY DEF LInv, TypeOK
    <3>2. Append(got[c], value[newHead[c]]) \in Seq(Items \cup {NoItem})
      BY <2>1, <3>1, AppendProperties
    <3> QED BY <1>1, <3>2 DEF LInv, TypeOK
  <2> QED BY <1>1, <1>2, <1>3, <1>5, <2>2 DEF LInv, TypeOK
<1>8. Roles' /\ LockOwners'
  BY <1>1, <1>2, <1>6 DEF LInv, Roles, LockOwners, Callers
<1>9. OwnNodes'
  <2>1. \A a \in Callers : Owning(a)' => node'[a] \in Nodes \ free'
    BY <1>1, <1>3, <1>5, <1>6 DEF LInv, OwnNodes
  <2>2. \A a \in Callers : Owning(a) => node[a] # s[1]
    BY <1>4 DEF Whole
  <2>3. \A a, b \in Callers : Owning(a)' /\ Owning(b)' /\ node'[a] = node'[b] => a = b
    BY <1>1, <1>3, <1>6, <2>2 DEF LInv, OwnNodes
  <2>4. \A p \in Producers : pc'[p] = pc[p]
    BY <1>2, <1>6 DEF Callers
  <2> QED BY <1>1, <2>1, <2>3, <2>4 DEF LInv, OwnNodes
<1> DEFINE t == Tail(s)
<1>10. t \in Seq(Nodes) /\ Len(t) = Len(s) - 1 /\ \A i \in 1 .. Len(s) - 1 : t[i] = s[i + 1]
  BY <1>4, HeadTailProperties
<1> HIDE DEF t
<1>11. t # <<>> /\ \A i \in 1 .. Len(t) : i + 1 \in 1 .. Len(s) /\ t[i] = s[i + 1] /\ i + 1 # 1
  BY <1>3, <1>4, <1>10, EmptySeq
<1>12. t \in Paths
  <2>1. ASSUME NEW i \in 1 .. Len(t), NEW j \in 1 .. Len(t), t[i] = t[j] PROVE i = j
    <3>1. i + 1 = j + 1
      BY <1>11, <2>1
    <3> QED BY <3>1
  <2> QED BY <1>10, <1>11, <2>1, PathShape
<1>13. t[Len(t)] = s[Len(s)]
  BY <1>3, <1>4, <1>10
<1>14. IsList(t)'
  <2>1. t[1] = head'
    BY <1>1, <1>3, <1>4, <1>10
  <2>2. ASSUME NEW i \in 1 .. Len(t) - 1 PROVE next'[t[i]] = t[i + 1]
    <3>1. i + 1 \in 1 .. Len(s) - 1 /\ t[i] = s[i + 1] /\ t[i + 1] = s[i + 1 + 1]
      BY <1>3, <1>4, <1>10
    <3> QED BY <1>1, <3>1 DEF Whole, IsList
  <2> QED BY <1>1, <1>13, <2>1, <2>2 DEF Whole, IsList
<1>15. Whole(t)'
  <2>1. ASSUME NEW i \in 1 .. Len(t) PROVE t[i] \notin free' /\ t[i] # s[1]
    <3>1. i + 1 \in 1 .. Len(s) /\ t[i] = s[i + 1] /\ i + 1 # 1
      BY <1>11
    <3>2. s[i + 1] \notin free /\ s[i + 1] # s[1]
      BY <1>4, <3>1 DEF Whole
    <3> QED BY <1>1, <3>1, <3>2
  <2>2. \A a \in Callers : Owning(a)' => \A i \in 1 .. Len(t) : t[i] # node'[a]
    BY <1>1, <1>3, <1>6, <1>11, <2>1 DEF Whole
  <2>3. \A p \in Producers : pc'[p] = pc[p]
    BY <1>2, <1>6 DEF Callers
  <2>4. \A d \in Consumers : pc'[d] \notin {"walk", "remove"}
    <3>1. \A d \in Consumers : d # c => pc[d] \notin {"walk", "remove"}
      BY <1>1 DEF LInv, LockOwners
    <3> QED BY <1>6, <3>1 DEF Callers
  <2> QED BY <1>1, <1>13, <1>14, <2>1, <2>2, <2>3, <2>4 DEF Whole
<1>16. LInv'
  BY <1>7, <1>8, <1>9, <1>12, <1>15 DEF LInv, ListWhole
<1> QED BY <1>3, <1>12, <1>15, <1>16 DEF t

LEMMA FreeStep ==
  ASSUME LInv, NEW c \in Consumers, Free(c), NEW s \in Paths, Whole(s)
  PROVE  LInv' /\ Whole(s)'
<1> USE PathTyped
<1>1. /\ pc[c] = "free" /\ pc' = [pc EXCEPT ![c] = "idle"] /\ free' = free \cup {node[c]}
      /\ UNCHANGED <<head, tail, headLock, tailLock, value, next, calls, node, newHead, got>>
  BY DEF Free, Goto, LeftBehind, locals
<1>2. c \in Callers /\ c \notin Producers /\ Owning(c)
  BY <1>1, CallersAssumption DEF Callers, Owning
<1>3. node[c] \in Nodes /\ \A i \in 1 .. Len(s) : s[i] # node[c]
  BY <1>2 DEF LInv, OwnNodes, Whole
<1>4. /\ \A a \in Callers : a # c => pc'[a] = pc[a]
      /\ pc'[c] = "idle"
      /\ \A a \in Callers : Owning(a)' <=> Owning(a) /\ a # c
  BY <1>1, <1>2 DEF LInv, TypeOK, Owning
<1>5. TypeOK'
  BY <1>1, <1>2, <1>3 DEF LInv, TypeOK
<1>6. Roles' /\ LockOwners'
  BY <1>1, <1>2, <1>4 DEF LInv, Roles, LockOwners, Callers
<1>7. OwnNodes'
  <2>1. \A a \in Callers : Owning(a)' => node'[a] \in Nodes \ free'
    BY <1>1, <1>2, <1>4 DEF LInv, OwnNodes
  <2>2. \A a, b \in Callers : Owning(a)' /\ Owning(b)' /\ node'[a] = node'[b] => a = b
    BY <1>1, <1>4 DEF LInv, OwnNodes
  <2>3. \A p \in Producers : pc'[p] = pc[p]
    BY <1>2, <1>4 DEF Callers
  <2> QED BY <1>1, <2>1, <2>2, <2>3 DEF LInv, OwnNodes
<1>8. Whole(s)'
  <2>1. IsList(s)'
    BY <1>1 DEF Whole, IsList
  <2>2. \A i \in 1 .. Len(s) : s[i] \notin free'
    BY <1>1, <1>3 DEF Whole
  <2>3. \A a \in Callers : Owning(a)' => \A i \in 1 .. Len(s) : s[i] # node'[a]
    BY <1>1, <1>4 DEF Whole
  <2>4. \A p \in Producers : pc'[p] = pc[p]
    BY <1>2, <1>4 DEF Callers
  <2>5. \A d \in Consumers : pc'[d] \in {"walk", "remove"} => pc[d] = pc'[d]
    BY <1>2, <1>4 DEF Callers
  <2> QED BY <1>1, <2>1, <2>2, <2>3, <2>4, <2>5 DEF Whole
<1> QED BY <1>5, <1>6, <1>7, <1>8 DEF LInv, ListWhole

LEMMA StutterLInv ==
  ASSUME LInv, UNCHANGED vars
  PROVE  LInv'
<1>1. TypeOK' /\ Roles' /\ LockOwners' /\ OwnNodes'
  BY DEF vars, locals, LInv, TypeOK, Roles, LockOwners, OwnNodes, Owning
<1>2. PICK s \in Paths : Whole(s)
  BY DEF LInv, ListWhole
<1>3. Whole(s)'
  BY <1>2 DEF vars, locals, Whole, IsList, Owning
<1> QED BY <1>1, <1>2, <1>3 DEF LInv, ListWhole

LEMMA Inductive == LInv /\ [Next]_vars => LInv'
<1> SUFFICES ASSUME LInv, [Next]_vars PROVE LInv'
  OBVIOUS
<1> PICK s \in Paths : Whole(s)
  BY DEF LInv, ListWhole
<1>1. CASE UNCHANGED vars
  BY <1>1, StutterLInv
<1>2. ASSUME NEW p \in Producers, Enqueue(p) PROVE LInv'
  BY <1>2, AllocateStep, LocksStep, LinkStep DEF Enqueue
<1>3. ASSUME NEW c \in Consumers, Dequeue(c) \/ PrintList(c) PROVE LInv'
  BY <1>3, HeadStep, RemoveStep, FreeStep DEF Dequeue, PrintList
<1> QED BY <1>1, <1>2, <1>3 DEF Next

LEMMA Invariance == Spec => []LInv
<1> QED BY InitLInv, Inductive, PTL DEF Spec

-----------------------------------------------------------------------------
(* What follows from the invariant *)

\* The type invariant: the pointers point to nodes, the calls are where their code can
\* be, whatever the interleaving of enqueues, dequeues and prints.
THEOREM TypeCorrect == Spec => []TypeOK
<1>1. LInv => TypeOK
  BY DEF LInv
<1> QED BY <1>1, Invariance, PTL

\* No step reads or writes freed memory and the list stays whole under its two locks
\* (Queue_Enqueue, Queue_Dequeue and Queue::print), for every number of callers and nodes.
THEOREM ListSoundCorrect == Spec => []ListSound
<1>1. LInv => ListSound
  <2> SUFFICES ASSUME LInv PROVE ListSound
    OBVIOUS
  <2> USE PathTyped
  <2> PICK s \in Paths : Whole(s)
    BY DEF LInv, ListWhole
  <2>1. List = s
    BY ListIs DEF Whole
  <2>2. (\A p \in Producers : pc[p] # "advance") => tail \notin free
    BY DEF Whole
  <2>3. \A a \in Callers :
          /\ pc[a] \in {"lockTail", "link", "advance", "remove", "unlockHead", "free", "walk"}
               => node[a] \notin free
          /\ pc[a] = "remove" => newHead[a] \notin free
    <3> SUFFICES ASSUME NEW a \in Callers
                 PROVE  /\ pc[a] \in {"lockTail", "link", "advance", "remove",
                                       "unlockHead", "free", "walk"} => node[a] \notin free
                        /\ pc[a] = "remove" => newHead[a] \notin free
      OBVIOUS
    <3>1. Owning(a) => node[a] \notin free
      BY DEF LInv, OwnNodes
    <3>2. pc[a] = "advance" => node[a] \notin free
      BY DEF LInv, Roles, Callers, Whole
    <3>3. pc[a] = "walk" => node[a] \notin free
      BY DEF LInv, Roles, Callers, Whole
    <3>4. ASSUME pc[a] = "remove" PROVE node[a] \notin free /\ newHead[a] \notin free
      <4>1. Len(s) > 1 /\ node[a] = s[1] /\ newHead[a] = s[2]
        BY <3>4 DEF LInv, Roles, Callers, Whole
      <4>2. 1 \in 1 .. Len(s) /\ 2 \in 1 .. Len(s)
        BY <4>1
      <4> QED BY <4>1, <4>2 DEF Whole
    <3> QED BY <3>1, <3>2, <3>3, <3>4 DEF Owning
  <2>4. NoUseAfterFree
    BY <2>2, <2>3 DEF NoUseAfterFree, Whole
  <2>5. TailOnList
    <3>1. CASE \E p \in Producers : pc[p] = "advance"
      BY <2>1, <3>1 DEF TailOnList, Whole
    <3>2. CASE \A p \in Producers : pc[p] # "advance"
      BY <2>1, <3>2 DEF TailOnList, Whole
    <3> QED BY <3>1, <3>2
  <2> QED BY <2>4, <2>5 DEF ListSound, LInv
<1> QED BY <1>1, Invariance, PTL

-----------------------------------------------------------------------------
(* The list implements a FIFO queue *)

ValuesOf(s) == [i \in 1 .. Len(s) - 1 |-> value[s[i + 1]]]

WaitingRead == \A s \in Paths : IsList(s) => Waiting = ValuesOf(s)

LEMMA WaitingReadAfter == WaitingRead /\ WaitingRead'
<1>1. WaitingRead
  BY ListIs DEF WaitingRead, Waiting, ValuesOf
<1> QED BY <1>1, PTL

\* A step that keeps the list and the values in it.
LEMMA QuietStep ==
  ASSUME NEW s \in Paths, Whole(s), Whole(s)', \A i \in 1 .. Len(s) : value'[s[i]] = value[s[i]],
         UNCHANGED got
  PROVE  UNCHANGED Abstract!vars
<1>1. Waiting = ValuesOf(s) /\ Waiting' = ValuesOf(s)'
  BY WaitingReadAfter DEF WaitingRead, Whole
<1>2. \A i \in 1 .. Len(s) - 1 : i + 1 \in 1 .. Len(s)
  BY PathTyped
<1>3. ValuesOf(s)' = ValuesOf(s)
  BY <1>2 DEF ValuesOf
<1> QED BY <1>1, <1>3 DEF Abstract!vars

LEMMA PutStep ==
  ASSUME LInv, NEW p \in Producers, Link(p), NEW s \in Paths, Whole(s)
  PROVE  Abstract!Next
<1>1. PICK n \in Nodes : n = node[p] /\ value[n] \in Items /\ Append(s, n) \in Paths
                       /\ Whole(Append(s, n))'
  BY LinkStep
<1>2. UNCHANGED <<value, got>>
  BY DEF Link
<1> DEFINE v == ValuesOf(s)
           t == Append(s, n)
           w == [i \in 1 .. Len(t) - 1 |-> value[t[i + 1]]]
<1>3. s \in Seq(Nodes) /\ Len(s) \in Nat \ {0} /\ \A i \in 1 .. Len(s) : s[i] \in Nodes
  BY PathTyped
<1>4. Len(t) = Len(s) + 1 /\ t[Len(s) + 1] = n /\ \A i \in 1 .. Len(s) : t[i] = s[i]
  BY <1>3, AppendProperties
<1>5. v \in Seq(Items \cup {NoItem}) /\ Len(v) = Len(s) - 1
  <2>1. Len(s) - 1 \in Nat /\ \A i \in 1 .. Len(s) - 1 : i + 1 \in 1 .. Len(s)
    BY <1>3
  <2>2. v \in [1 .. Len(s) - 1 -> Items \cup {NoItem}]
    BY <1>3, <2>1 DEF LInv, TypeOK, ValuesOf
  <2>3. v \in Seq(Items \cup {NoItem})
    BY <2>1, <2>2, SeqDef
  <2> QED BY <2>1, <2>2, <2>3, LenProperties
<1>6. /\ Append(v, value[n]) \in Seq(Items \cup {NoItem}) /\ Len(Append(v, value[n])) = Len(s)
      /\ Append(v, value[n])[Len(s)] = value[n]
      /\ \A i \in 1 .. Len(s) - 1 : Append(v, value[n])[i] = v[i]
  <2> HIDE DEF v
  <2>1. value[n] \in Items \cup {NoItem}
    BY <1>1
  <2>2. Len(v) + 1 = Len(s)
    BY <1>3, <1>5
  <2> QED BY <1>5, <2>1, <2>2, AppendProperties
<1>7. /\ w \in Seq(Items \cup {NoItem}) /\ Len(w) = Len(s)
      /\ \A i \in 1 .. Len(s) : w[i] = value[t[i + 1]]
  <2> HIDE DEF t
  <2>1. Len(t) - 1 = Len(s)
    BY <1>3, <1>4
  <2>2. \A i \in 1 .. Len(s) : t[i + 1] \in Nodes
    <3>1. \A i \in 1 .. Len(s) : i = Len(s) \/ i + 1 \in 1 .. Len(s)
      BY <1>3
    <3> QED BY <1>3, <1>4, <3>1
  <2>3. w \in [1 .. Len(s) -> Items \cup {NoItem}]
    BY <2>1, <2>2 DEF LInv, TypeOK
  <2>4. w \in Seq(Items \cup {NoItem})
    <3>1. Len(s) \in Nat
      BY <1>3
    <3> HIDE DEF w
    <3> QED BY <2>3, <3>1, SeqDef
  <2> QED BY <1>3, <2>1, <2>3, <2>4, LenProperties
<1>8. Append(v, value[n]) = w
  <2>1. ASSUME NEW i \in 1 .. Len(s) PROVE Append(v, value[n])[i] = w[i]
    <3>1. CASE i = Len(s)
      BY <1>4, <1>6, <1>7, <3>1
    <3>2. CASE i # Len(s)
      <4>1. i \in 1 .. Len(s) - 1 /\ i + 1 \in 1 .. Len(s)
        BY <1>3, <3>2
      <4>2. v[i] = value[s[i + 1]]
        BY <4>1 DEF ValuesOf
      <4> QED BY <1>4, <1>6, <1>7, <4>1, <4>2
    <3> QED BY <3>1, <3>2
  <2> HIDE DEF v, w
  <2> QED BY <1>6, <1>7, <2>1, SeqEqual
<1>9. Waiting = v /\ Waiting' = ValuesOf(t)'
  <2>1. IsList(s) /\ IsList(t)'
    BY <1>1 DEF Whole
  <2> QED BY <1>1, <2>1, WaitingReadAfter DEF WaitingRead
<1>10. ValuesOf(t)' = w
  BY <1>2 DEF ValuesOf
<1>11. Abstract!Put(value[n])
  BY <1>2, <1>8, <1>9, <1>10 DEF Abstract!Put
<1> QED BY <1>1, <1>11 DEF Abstract!Next

LEMMA GetStep ==
  ASSUME LInv, NEW c \in Consumers, Remove(c), NEW s \in Paths, Whole(s)
  PROVE  Abstract!Next
<1>1. Len(s) > 1 /\ newHead[c] = s[2] /\ Tail(s) \in Paths /\ Whole(Tail(s))'
  BY RemoveStep
<1>2. value' = value /\ got' = [got EXCEPT ![c] = Append(@, value[newHead[c]])]
  BY DEF Remove
<1> DEFINE v == ValuesOf(s)
           t == Tail(s)
           w == [i \in 1 .. Len(t) - 1 |-> value[t[i + 1]]]
<1>3. s \in Seq(Nodes) /\ Len(s) \in Nat \ {0} /\ \A i \in 1 .. Len(s) : s[i] \in Nodes
  BY PathTyped
<1>4. Len(t) = Len(s) - 1 /\ \A i \in 1 .. Len(s) - 1 : t[i] = s[i + 1]
  BY <1>1, <1>3, HeadTailProperties, EmptySeq
<1>5. /\ v \in Seq(Items \cup {NoItem}) /\ Len(v) = Len(s) - 1 /\ v # <<>>
      /\ v[1] = value[newHead[c]]
  <2>1. /\ Len(s) - 1 \in Nat \ {0} /\ 1 \in 1 .. Len(s) - 1
        /\ \A i \in 1 .. Len(s) - 1 : i + 1 \in 1 .. Len(s)
    BY <1>1, <1>3
  <2>2. v \in [1 .. Len(s) - 1 -> Items \cup {NoItem}]
    BY <1>3, <2>1 DEF LInv, TypeOK, ValuesOf
  <2>3. v \in Seq(Items \cup {NoItem})
    BY <2>1, <2>2, SeqDef
  <2>4. Len(v) = Len(s) - 1
    BY <2>1, <2>2, <2>3, LenProperties
  <2>5. v[1] = value[s[1 + 1]]
    BY <2>1 DEF ValuesOf
  <2> QED BY <1>1, <2>1, <2>3, <2>4, <2>5, EmptySeq
<1>6. /\ Tail(v) \in Seq(Items \cup {NoItem}) /\ Len(Tail(v)) = Len(s) - 2
      /\ \A i \in 1 .. Len(s) - 2 : Tail(v)[i] = v[i + 1]
      /\ Head(v) = v[1]
  <2> HIDE DEF v
  <2>1. Len(v) - 1 = Len(s) - 2
    BY <1>3, <1>5
  <2> QED BY <1>5, <2>1, HeadTailProperties
<1>7. /\ w \in Seq(Items \cup {NoItem}) /\ Len(w) = Len(s) - 2
      /\ \A i \in 1 .. Len(s) - 2 : w[i] = value[t[i + 1]]
  <2> HIDE DEF t
  <2>1. Len(t) - 1 = Len(s) - 2 /\ Len(s) - 2 \in Nat
    BY <1>1, <1>3, <1>4
  <2>2. \A i \in 1 .. Len(s) - 2 : t[i + 1] \in Nodes
    <3>1. \A i \in 1 .. Len(s) - 2 : i + 1 \in 1 .. Len(s) - 1 /\ i + 1 + 1 \in 1 .. Len(s)
      BY <1>3
    <3> QED BY <1>3, <1>4, <3>1
  <2>3. w \in [1 .. Len(s) - 2 -> Items \cup {NoItem}]
    BY <2>1, <2>2 DEF LInv, TypeOK
  <2>4. w \in Seq(Items \cup {NoItem})
    BY <2>1, <2>3, SeqDef
  <2> QED BY <2>1, <2>3, <2>4, LenProperties
<1>8. Tail(v) = w
  <2>1. ASSUME NEW i \in 1 .. Len(s) - 2 PROVE Tail(v)[i] = w[i]
    <3>1. i + 1 \in 1 .. Len(s) - 1
      BY <1>3
    <3>2. v[i + 1] = value[s[i + 1 + 1]]
      BY <3>1 DEF ValuesOf
    <3> QED BY <1>4, <1>6, <1>7, <3>1, <3>2
  <2> HIDE DEF v, w
  <2> QED BY <1>6, <1>7, <2>1, SeqEqual
<1>9. Waiting = v /\ Waiting' = ValuesOf(t)'
  <2>1. IsList(s) /\ IsList(t)'
    BY <1>1 DEF Whole
  <2> QED BY <1>1, <2>1, WaitingReadAfter DEF WaitingRead
<1>10. ValuesOf(t)' = w
  BY <1>2 DEF ValuesOf
<1>11. Abstract!Get(c)
  BY <1>2, <1>5, <1>6, <1>8, <1>9, <1>10 DEF Abstract!Get
<1> QED BY <1>11 DEF Abstract!Next

LEMMA StepRefines == LInv /\ [Next]_vars => [Abstract!Next]_(Abstract!vars)
<1> SUFFICES ASSUME LInv, [Next]_vars PROVE [Abstract!Next]_(Abstract!vars)
  OBVIOUS
<1> PICK s \in Paths : Whole(s)
  BY DEF LInv, ListWhole
<1>1. CASE UNCHANGED vars
  <2>1. Whole(s)'
    BY <1>1 DEF vars, locals, Whole, IsList, Owning
  <2> QED BY <1>1, <2>1, QuietStep DEF vars
<1>2. ASSUME NEW p \in Producers, Enqueue(p) PROVE [Abstract!Next]_(Abstract!vars)
  <2>1. CASE Allocate(p)
    <3>1. Whole(s)'
      BY <2>1, AllocateStep
    <3>2. \A i \in 1 .. Len(s) : value'[s[i]] = value[s[i]]
      <4>1. PICK n \in free : value' = [value EXCEPT ![n] = Item(p, calls[p] + 1)]
        BY <2>1 DEF Allocate
      <4> QED BY <4>1, PathTyped DEF Whole, LInv, TypeOK
    <3> QED BY <2>1, <3>1, <3>2, QuietStep DEF Allocate
  <2>2. CASE LockTail(p) \/ AdvanceTail(p) \/ UnlockTail(p)
    BY <2>2, LocksStep, QuietStep DEF LockTail, AdvanceTail, UnlockTail
  <2>3. CASE Link(p)
    BY <2>3, PutStep
  <2> QED BY <1>2, <2>1, <2>2, <2>3 DEF Enqueue
<1>3. ASSUME NEW c \in Consumers, Dequeue(c) \/ PrintList(c) PROVE [Abstract!Next]_(Abstract!vars)
  <2>1. CASE LockHead(c) \/ LockToPrint(c) \/ Look(c) \/ Walk(c) \/ UnlockHead(c)
    BY <2>1, HeadStep, QuietStep DEF LockHead, LockToPrint, Look, Walk, UnlockHead
  <2>2. CASE Free(c)
    BY <2>2, FreeStep, QuietStep DEF Free
  <2>3. CASE Remove(c)
    BY <2>3, GetStep
  <2> QED BY <1>3, <2>1, <2>2, <2>3 DEF Dequeue, PrintList
<1> QED BY <1>1, <1>2, <1>3 DEF Next

\* The list is a FIFO queue for every number of callers, calls and nodes: an enqueue
\* takes effect when its node is linked, a dequeue when head moves (PA2/queue__.h).
THEOREM FifoRefines == Spec => ImplementsFifo
<1>1. Init => Abstract!Init
  <2> SUFFICES ASSUME Init PROVE Abstract!Init
    OBVIOUS
  <2>1. Len(List) = 1
    BY InitLInv
  <2>2. Waiting = [i \in 1 .. Len(List) - 1 |-> value[List[i + 1]]]
    BY DEF Waiting
  <2>3. Waiting = <<>>
    BY <2>1, <2>2
  <2> QED BY <2>3 DEF Init, Abstract!Init
<1> QED BY <1>1, Invariance, StepRefines, PTL DEF Spec, ImplementsFifo, Abstract!Spec

=============================================================================
