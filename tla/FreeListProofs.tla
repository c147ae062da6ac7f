--------------------------- MODULE FreeListProofs ---------------------------
(***************************************************************************)
(* FreeList for every number of threads, nodes and calls: the references   *)
(* of every node are counted exactly, each node is added by one thread and *)
(* taken by one thread at a time, and no successor changes under a thread  *)
(* that is about to make it the head (no ABA).                             *)
(***************************************************************************)
EXTENDS FreeList, FiniteSetTheorems, TLAPS

\* A thread inside a call works on a node.
AtNode == \A t \in Threads : pc[t] # "idle" => node[t] \in Nodes

\* A thread takes no reference to a node that is to be added and has none.
SeesOthers == \A t \in Threads : pc[t] = "acquire" => seen[t] # SHOULD_BE_ON_FREELIST

\* While the next pointer and the references of a node are written, nobody has a
\* reference to it.
Private == {"load", "link", "count"}
RefSteps == {"next", "pop", "take", "drop"}
Unreferenced ==
    \A t, u \in Threads : pc[t] \in Private /\ pc[u] \in RefSteps => node[t] # node[u]

\* A node is being added, or taken, by exactly one thread.
AddedByOne ==
    /\ \A t \in Threads : pc[t] \in AddingSteps => place[node[t]] = "adding"
    /\ \A t, u \in Threads :
          pc[t] \in AddingSteps /\ pc[u] \in AddingSteps /\ node[t] = node[u] => t = u
    /\ \A n \in Nodes : place[n] = "adding" =>
          \E t \in Threads : pc[t] \in AddingSteps /\ node[t] = n
TakenByOne ==
    /\ \A t \in Threads : pc[t] = "take" => place[node[t]] = "taken"
    /\ \A t, u \in Threads : pc[t] = "take" /\ pc[u] = "take" /\ node[t] = node[u] => t = u
    /\ \A n \in Nodes : place[n] = "taken" => \E t \in Threads : pc[t] = "take" /\ node[t] = n

\* The head and the successors of listed nodes are listed, and each listed node
\* comes after one place at most.
Links ==
    /\ freeListHead \in Nodes => place[freeListHead] = "listed"
    /\ \A n \in Nodes : place[n] = "listed" /\ freeListNext[n] \in Nodes =>
          place[freeListNext[n]] = "listed" /\ freeListNext[n] # freeListHead
    /\ \A m, n \in Nodes :
          /\ place[m] = "listed" /\ place[n] = "listed"
          /\ freeListNext[m] = freeListNext[n] /\ freeListNext[n] \in Nodes
          => m = n

\* What a thread has read of, or written to, the successor is still there.
Successors ==
    /\ \A t \in Threads : pc[t] = "pop" => next[t] = freeListNext[node[t]]
    /\ \A t \in Threads : pc[t] \in {"count", "push"} => freeListNext[node[t]] = next[t]

Structure ==
    /\ AtNode /\ SeesOthers /\ Unreferenced /\ AddedByOne /\ TakenByOne
    /\ Links /\ Successors
IInv == TypeOK /\ RefsExact /\ Structure

\* RefsExact, node by node.
RefsAt(n) ==
    freeListRefs[n] = Cardinality(Referring(n)) + (IF Published(n) THEN 1 ELSE 0)
                        + (IF ToBeAdded(n) THEN SHOULD_BE_ON_FREELIST ELSE 0)

-----------------------------------------------------------------------------
(* The references of a node, as a number and as a set. *)

LEMMA CountNat ==
  ASSUME NEW n
  PROVE  /\ IsFiniteSet(Referring(n)) /\ Cardinality(Referring(n)) \in Nat
         /\ Cardinality(Referring(n)) <= Cardinality(Threads)
         /\ IsFiniteSet(Referring(n)') /\ Cardinality(Referring(n)') \in Nat
         /\ Cardinality(Referring(n)') <= Cardinality(Threads)
<1>1. Referring(n) \in SUBSET Threads /\ Referring(n)' \in SUBSET Threads
  BY DEF Referring
<1> QED BY <1>1, ThreadsAssumption, FS_Subset, FS_CardinalityType

LEMMA ThreadsNat == Cardinality(Threads) \in Nat
BY ThreadsAssumption, FS_CardinalityType

LEMMA CountGrows ==
  ASSUME NEW n, NEW t, t \notin Referring(n), Referring(n)' = Referring(n) \cup {t}
  PROVE  Cardinality(Referring(n)') = Cardinality(Referring(n)) + 1
BY CountNat, FS_AddElement

LEMMA CountShrinks ==
  ASSUME NEW n, NEW t, t \in Referring(n), Referring(n)' = Referring(n) \ {t}
  PROVE  Cardinality(Referring(n)') = Cardinality(Referring(n)) - 1
BY CountNat, FS_RemoveElement

\* No references but the list's: nobody refers to the node.
LEMMA NoneLeft ==
  ASSUME IInv, NEW n \in Nodes,
         freeListRefs[n] = 0 \/ (freeListRefs[n] = 1 /\ Published(n))
  PROVE  Referring(n) = {}
<1>1. RefsAt(n)
  BY DEF IInv, RefsExact, RefsAt
<1>2. Cardinality(Referring(n)) = 0
  BY <1>1, CountNat, RefsAssumption DEF RefsAt
<1> QED BY <1>2, CountNat, FS_EmptySet

\* The last reference to a node that waits.
LEMMA LastLeft ==
  ASSUME IInv, NEW n \in Nodes, NEW t \in Referring(n),
         freeListRefs[n] = SHOULD_BE_ON_FREELIST + 1
  PROVE  Referring(n) = {t} /\ place[n] = "waiting"
<1>1. RefsAt(n)
  BY DEF IInv, RefsExact, RefsAt
<1>2. Cardinality(Referring(n)) # 0
  BY CountNat, FS_EmptySet
<1>3. Cardinality(Referring(n)) = 1 /\ ToBeAdded(n)
  BY <1>1, <1>2, CountNat, ThreadsNat, RefsAssumption DEF RefsAt
<1>4. Referring(n) = {t}
  BY <1>3, CountNat, FS_Singleton
<1>5. ~ \E u \in Adders(n) : pc[u] \in Private
  BY DEF IInv, Structure, Unreferenced, Adders, Referring, RefSteps, Private
<1> QED BY <1>3, <1>4, <1>5 DEF ToBeAdded, Private

\* A node that one thread prepares has the flag and no references.
LEMMA OnlyFlag ==
  ASSUME IInv, NEW t \in Threads, pc[t] \in Private
  PROVE  /\ node[t] \in Nodes /\ Referring(node[t]) = {}
         /\ freeListRefs[node[t]] = SHOULD_BE_ON_FREELIST
<1> DEFINE n == node[t]
<1>1. n \in Nodes
  BY DEF IInv, Structure, AtNode, Private
<1>2. Referring(n) = {}
  BY DEF IInv, Structure, Unreferenced, Referring, RefSteps
<1>3. place[n] = "adding" /\ t \in Adders(n)
  BY DEF IInv, Structure, AddedByOne, AddingSteps, Private, Adders
<1>4. \A u \in Adders(n) : u = t
  BY <1>3 DEF IInv, Structure, AddedByOne, Adders
<1>5. ~ Published(n) /\ ToBeAdded(n)
  BY <1>3, <1>4 DEF Published, ToBeAdded, Private
<1>6. Cardinality(Referring(n)) = 0
  BY <1>2, FS_EmptySet
<1>7. RefsAt(n)
  BY <1>1 DEF IInv, RefsExact, RefsAt
<1> QED BY <1>1, <1>2, <1>5, <1>6, <1>7, RefsAssumption DEF RefsAt

-----------------------------------------------------------------------------
(* What a step of one thread leaves of the count of a node. *)

OthersStay(t) == \A u \in Threads \ {t} : pc'[u] = pc[u] /\ node'[u] = node[u]

\* The part t plays in the count of n.
Refers(t, n) == node[t] = n /\ pc[t] \in RefSteps
Prepares(t, n) == node[t] = n /\ pc[t] \in Private
Publishes(t, n) == node[t] = n /\ pc[t] \in {"push", "defer"}
Adds(t, n) == node[t] = n /\ pc[t] \in AddingSteps

LEMMA RefersDef ==
  ASSUME NEW n
  PROVE  /\ Referring(n) = {u \in Threads : Refers(u, n)}
         /\ Referring(n)' = {u \in Threads : Refers(u, n)'}
         /\ Published(n) <=> \/ place[n] \in {"listed", "taken"}
                             \/ \E u \in Threads : Publishes(u, n)
         /\ Published(n)' <=> \/ place'[n] \in {"listed", "taken"}
                              \/ \E u \in Threads : Publishes(u, n)'
         /\ ToBeAdded(n) <=> place[n] = "waiting" \/ \E u \in Threads : Prepares(u, n)
         /\ ToBeAdded(n)' <=> place'[n] = "waiting" \/ \E u \in Threads : Prepares(u, n)'
BY DEF Referring, Refers, Published, Publishes, ToBeAdded, Prepares, Adders, AddingSteps,
       RefSteps, Private

LEMMA OthersPart ==
  ASSUME NEW t \in Threads, NEW u \in Threads \ {t}, NEW n, OthersStay(t)
  PROVE  /\ Refers(u, n)' <=> Refers(u, n)
         /\ Prepares(u, n)' <=> Prepares(u, n)
         /\ Publishes(u, n)' <=> Publishes(u, n)
         /\ Adds(u, n)' <=> Adds(u, n)
BY DEF OthersStay, Refers, Prepares, Publishes, Adds

\* One reference more, one less.
LEMMA OneMore ==
  ASSUME NEW t \in Threads, NEW n, OthersStay(t), ~ Refers(t, n), Refers(t, n)'
  PROVE  Cardinality(Referring(n)') = Cardinality(Referring(n)) + 1
<1>1. \A u \in Threads \ {t} : Refers(u, n)' <=> Refers(u, n)
  BY OthersPart
<1>2. Referring(n) = {u \in Threads : Refers(u, n)} /\ Referring(n)' = {u \in Threads : Refers(u, n)'}
  BY RefersDef
<1>3. t \notin Referring(n)
  BY <1>2
<1>4. Referring(n)' = Referring(n) \cup {t}
  <2> SUFFICES ASSUME NEW u PROVE u \in Referring(n)' <=> u \in Referring(n) \cup {t}
    OBVIOUS
  <2>1. CASE u = t
    BY <1>2, <2>1
  <2>2. CASE u # t
    BY <1>1, <1>2, <2>2
  <2> QED BY <2>1, <2>2
<1> QED BY <1>3, <1>4, CountGrows

LEMMA OneLess ==
  ASSUME NEW t \in Threads, NEW n, OthersStay(t), Refers(t, n), ~ Refers(t, n)'
  PROVE  Cardinality(Referring(n)') = Cardinality(Referring(n)) - 1
<1>1. \A u \in Threads \ {t} : Refers(u, n)' <=> Refers(u, n)
  BY OthersPart
<1>2. Referring(n) = {u \in Threads : Refers(u, n)} /\ Referring(n)' = {u \in Threads : Refers(u, n)'}
  BY RefersDef
<1>3. t \in Referring(n)
  BY <1>2
<1>4. Referring(n)' = Referring(n) \ {t}
  <2> SUFFICES ASSUME NEW u PROVE u \in Referring(n)' <=> u \in Referring(n) \ {t}
    OBVIOUS
  <2>1. CASE u = t
    BY <1>2, <2>1
  <2>2. CASE u # t
    BY <1>1, <1>2, <2>2
  <2> QED BY <2>1, <2>2
<1> QED BY <1>3, <1>4, CountShrinks

LEMMA AsMany ==
  ASSUME NEW t \in Threads, NEW n, OthersStay(t), Refers(t, n)' <=> Refers(t, n)
  PROVE  Referring(n)' = Referring(n)
<1>1. \A u \in Threads : Refers(u, n)' <=> Refers(u, n)
  BY OthersPart
<1>2. Referring(n) = {u \in Threads : Refers(u, n)} /\ Referring(n)' = {u \in Threads : Refers(u, n)'}
  BY RefersDef
<1> QED BY <1>1, <1>2, Zenon

\* The step changes nothing that the count of n is about.
LEMMA SameCount ==
  ASSUME NEW t \in Threads, NEW n \in Nodes, RefsAt(n), OthersStay(t),
         freeListRefs'[n] = freeListRefs[n],
         place'[n] \in {"listed", "taken"} \/ Publishes(t, n)'
            <=> place[n] \in {"listed", "taken"} \/ Publishes(t, n),
         place'[n] = "waiting" \/ Prepares(t, n)' <=> place[n] = "waiting" \/ Prepares(t, n),
         Refers(t, n)' <=> Refers(t, n)
  PROVE  RefsAt(n)'
<1>1. Referring(n)' = Referring(n)
  BY AsMany
<1>2. Published(n)' <=> Published(n)
  BY RefersDef, OthersPart
<1>3. ToBeAdded(n)' <=> ToBeAdded(n)
  BY RefersDef, OthersPart
<1> QED BY <1>1, <1>2, <1>3 DEF RefsAt

\* A node the thread works on neither before nor after the step.
LEMMA Elsewhere ==
  ASSUME NEW t \in Threads, NEW n \in Nodes, RefsAt(n), OthersStay(t),
         freeListRefs'[n] = freeListRefs[n], place'[n] = place[n],
         node[t] = n => pc[t] \notin RefSteps \cup AddingSteps,
         node'[t] = n => pc'[t] \notin RefSteps \cup AddingSteps
  PROVE  RefsAt(n)'
<1>1. /\ ~ Refers(t, n) /\ ~ Refers(t, n)'
      /\ ~ Publishes(t, n) /\ ~ Publishes(t, n)'
      /\ ~ Prepares(t, n) /\ ~ Prepares(t, n)'
  BY DEF Refers, Publishes, Prepares, RefSteps, AddingSteps, Private
<1> QED BY <1>1, SameCount

\* Exact references fit into the word.
LEMMA RefsFit ==
  ASSUME DOMAIN freeListRefs' = Nodes, freeListRefs' = [n \in Nodes |-> freeListRefs'[n]],
         \A n \in Nodes : RefsAt(n)'
  PROVE  RefsExact' /\ freeListRefs' \in [Nodes -> Refs]
<1>1. RefsExact'
  BY DEF RefsExact, RefsAt
<1>2. ASSUME NEW n \in Nodes PROVE freeListRefs'[n] \in Refs
  <2>1. RefsAt(n)' /\ Cardinality(Referring(n)') \in Nat
        /\ Cardinality(Referring(n)') <= Cardinality(Threads)
    BY CountNat
  <2> DEFINE c == Cardinality(Referring(n)')
  <2>2. freeListRefs'[n] = c + (IF Published(n)' THEN 1 ELSE 0)
                             + (IF ToBeAdded(n)' THEN SHOULD_BE_ON_FREELIST ELSE 0)
    BY <2>1 DEF RefsAt
  <2> QED BY <2>1, <2>2, ThreadsNat, RefsAssumption DEF Refs
<1> QED BY <1>1, <1>2

\* A node that some thread adds is being added, and by no other thread.
LEMMA AddedAlone ==
  ASSUME IInv, NEW n \in Nodes, NEW t \in Threads, NEW u \in Threads, Adds(u, n)
  PROVE  /\ place[n] = "adding"
         /\ Adds(t, n) => u = t
BY DEF IInv, Structure, AddedByOne, Adds

LEMMA NoAdder ==
  ASSUME IInv, NEW n \in Nodes, place[n] # "adding", NEW u \in Threads
  PROVE  ~ Adds(u, n) /\ ~ Publishes(u, n) /\ ~ Prepares(u, n)
BY AddedAlone DEF Adds, Publishes, Prepares, AddingSteps, Private

-----------------------------------------------------------------------------
\* The references of a node that has the flag alone are zero to try_get().
LEMMA ModSelf ==
  ASSUME NEW S \in Nat \ {0}
  PROVE  S % S = 0
OBVIOUS

\* Initially every node is held, and no thread is in a call.
LEMMA InitIInv == Init => IInv
<1> SUFFICES ASSUME Init PROVE IInv
  OBVIOUS
<1>1. TypeOK
  BY NullAssumption, RefsAssumption, ThreadsNat DEF Init, TypeOK, Refs, Places
<1>2. RefsExact
  <2> SUFFICES ASSUME NEW n \in Nodes PROVE RefsAt(n)
    BY DEF RefsExact, RefsAt
  <2>1. Referring(n) = {} /\ ~ Published(n) /\ ~ ToBeAdded(n)
    BY DEF Init, Referring, Published, ToBeAdded, Adders, AddingSteps
  <2> QED BY <2>1, FS_EmptySet DEF RefsAt, Init
<1>3. Structure
  BY NullAssumption DEF Init, Structure, AtNode, SeesOthers, Unreferenced, AddedByOne, TakenByOne,
     Links, Successors, RefSteps, Private, AddingSteps
<1> QED BY <1>1, <1>2, <1>3 DEF IInv

-----------------------------------------------------------------------------
(* The steps that write none of the shared variables. *)

\* A step of t that leaves the part t plays in every node as it was.
LEMMA QuietStep ==
  ASSUME IInv, TypeOK', NEW t \in Threads, OthersStay(t),
         UNCHANGED <<freeListHead, freeListRefs, freeListNext, place>>,
         \A u \in Threads \ {t} : next'[u] = next[u] /\ seen'[u] = seen[u],
         pc'[t] # "idle" => node'[t] \in Nodes,
         \A n \in Nodes : /\ Refers(t, n)' <=> Refers(t, n)
                          /\ Prepares(t, n)' <=> Prepares(t, n)
                          /\ Publishes(t, n)' <=> Publishes(t, n),
         pc'[t] = "take" <=> pc[t] = "take",
         pc'[t] = "acquire" => seen'[t] # SHOULD_BE_ON_FREELIST,
         pc'[t] = "pop" => next'[t] = freeListNext[node'[t]],
         pc'[t] \in {"count", "push"} => freeListNext[node'[t]] = next'[t]
  PROVE  IInv'
<1>1. AtNode'
  BY DEF IInv, Structure, AtNode, OthersStay
<1>2. RefsExact'
  <2>1. ASSUME NEW n \in Nodes PROVE RefsAt(n)'
    BY SameCount DEF IInv, RefsExact, RefsAt
  <2> QED BY <2>1 DEF RefsExact, RefsAt
<1>3. SeesOthers'
  BY DEF IInv, Structure, SeesOthers, OthersStay
<1>4. \A u \in Threads : /\ \A n \in Nodes : /\ Refers(u, n)' <=> Refers(u, n)
                                             /\ Prepares(u, n)' <=> Prepares(u, n)
                                             /\ Adds(u, n)' <=> Adds(u, n)
                         /\ pc'[u] = "take" <=> pc[u] = "take"
  <2>1. \A n \in Nodes : Adds(t, n)' <=> Adds(t, n)
    BY DEF Adds, Prepares, Publishes, AddingSteps, Private
  <2> QED BY <2>1, OthersPart DEF OthersStay
<1>5. Unreferenced'
  BY <1>1, <1>4 DEF IInv, Structure, Unreferenced, AtNode, Refers, Prepares, RefSteps, Private
<1>6. AddedByOne'
  BY <1>1, <1>4 DEF IInv, Structure, AddedByOne, AtNode, Adds, AddingSteps
<1>7. TakenByOne'
  BY <1>1, <1>4 DEF IInv, Structure, TakenByOne, AtNode, Refers, RefSteps
<1>8. Links'
  BY DEF IInv, Structure, Links
<1>9. Successors'
  BY DEF IInv, Structure, Successors, OthersStay
<1> QED BY <1>1, <1>2, <1>3, <1>5, <1>6, <1>7, <1>8, <1>9 DEF IInv, Structure

LEMMA TryGetStep ==
  ASSUME IInv, NEW t \in Threads, TryGet(t)
  PROVE  IInv'
<1>1. TypeOK'
  BY DEF IInv, TypeOK, TryGet, Loop, Call, Goto, Forget
<1>2. OthersStay(t) /\ pc[t] = "idle" /\ pc'[t] \in {"idle", "refs"}
  BY DEF IInv, TypeOK, TryGet, Loop, Goto, OthersStay
<1>3. pc'[t] # "idle" => node'[t] \in Nodes
  BY DEF IInv, TypeOK, TryGet, Loop, Goto
<1> QED BY <1>1, <1>2, <1>3, QuietStep
     DEF TryGet, Refers, Prepares, Publishes, RefSteps, Private

LEMMA LoadRefsStep ==
  ASSUME IInv, NEW t \in Threads, LoadRefs(t)
  PROVE  IInv'
<1>1. node[t] \in Nodes /\ freeListRefs[node[t]] \in Refs
  BY DEF IInv, Structure, AtNode, LoadRefs, TypeOK
<1>2. TypeOK'
  BY <1>1 DEF IInv, TypeOK, LoadRefs, Goto
<1>3. OthersStay(t) /\ node' = node /\ pc[t] = "refs" /\ pc'[t] \in {"reload", "acquire"}
  BY DEF IInv, TypeOK, LoadRefs, Goto, OthersStay
<1>4. pc'[t] = "acquire" => seen'[t] # SHOULD_BE_ON_FREELIST
  <2> SUFFICES ASSUME freeListRefs[node[t]] = SHOULD_BE_ON_FREELIST PROVE pc'[t] = "reload"
    BY <1>3 DEF IInv, TypeOK, LoadRefs
  <2>1. SHOULD_BE_ON_FREELIST % SHOULD_BE_ON_FREELIST = 0
    BY ModSelf, RefsAssumption, ThreadsNat
  <2> QED BY <2>1 DEF IInv, TypeOK, LoadRefs, Goto
<1>5. \A u \in Threads \ {t} : next'[u] = next[u] /\ seen'[u] = seen[u]
  BY DEF IInv, TypeOK, LoadRefs
<1> QED BY <1>1, <1>2, <1>3, <1>4, <1>5, QuietStep
     DEF LoadRefs, Refers, Prepares, Publishes, RefSteps, Private

LEMMA AcquireFailsStep ==
  ASSUME IInv, NEW t \in Threads, AcquireFails(t)
  PROVE  IInv'
<1>1. node[t] \in Nodes
  BY DEF IInv, Structure, AtNode, AcquireFails
<1>2. TypeOK'
  BY RefsAssumption, ThreadsNat DEF IInv, TypeOK, AcquireFails, Goto, Refs
<1>3. OthersStay(t) /\ node' = node /\ pc[t] = "acquire" /\ pc'[t] = "reload"
  BY DEF IInv, TypeOK, AcquireFails, Goto, OthersStay
<1>4. \A u \in Threads \ {t} : next'[u] = next[u] /\ seen'[u] = seen[u]
  BY DEF IInv, TypeOK, AcquireFails
<1> QED BY <1>1, <1>2, <1>3, <1>4, QuietStep
     DEF AcquireFails, Refers, Prepares, Publishes, RefSteps, Private

LEMMA ReloadStep ==
  ASSUME IInv, NEW t \in Threads, Reload(t)
  PROVE  IInv'
<1>1. TypeOK'
  BY DEF IInv, TypeOK, Reload, Loop, Goto, Forget
<1>2. OthersStay(t) /\ pc[t] = "reload" /\ pc'[t] \in {"idle", "refs"}
  BY DEF IInv, TypeOK, Reload, Loop, Goto, OthersStay
<1>3. pc'[t] # "idle" => node'[t] \in Nodes
  BY DEF IInv, TypeOK, Reload, Loop, Goto
<1> QED BY <1>1, <1>2, <1>3, QuietStep
     DEF Reload, Refers, Prepares, Publishes, RefSteps, Private

LEMMA LoadNextStep ==
  ASSUME IInv, NEW t \in Threads, LoadNext(t)
  PROVE  IInv'
<1>1. node[t] \in Nodes
  BY DEF IInv, Structure, AtNode, LoadNext
<1>2. TypeOK'
  BY <1>1 DEF IInv, TypeOK, LoadNext, Goto
<1>3. OthersStay(t) /\ node' = node /\ pc[t] = "next" /\ pc'[t] = "pop"
  BY DEF IInv, TypeOK, LoadNext, Goto, OthersStay
<1>4. /\ next'[t] = freeListNext[node'[t]]
      /\ \A u \in Threads \ {t} : next'[u] = next[u] /\ seen'[u] = seen[u]
  BY DEF IInv, TypeOK, LoadNext
<1> QED BY <1>1, <1>2, <1>3, <1>4, QuietStep
     DEF LoadNext, Refers, Prepares, Publishes, RefSteps, Private

LEMMA PopFailsStep ==
  ASSUME IInv, NEW t \in Threads, PopFails(t)
  PROVE  IInv'
<1>1. node[t] \in Nodes
  BY DEF IInv, Structure, AtNode, PopFails
<1>2. TypeOK'
  BY DEF IInv, TypeOK, PopFails, Goto, Forget
<1>3. OthersStay(t) /\ node' = node /\ pc[t] = "pop" /\ pc'[t] = "drop"
  BY DEF IInv, TypeOK, PopFails, Goto, OthersStay
<1>4. \A u \in Threads \ {t} : next'[u] = next[u] /\ seen'[u] = seen[u]
  BY DEF IInv, TypeOK, PopFails, Forget
<1> QED BY <1>1, <1>2, <1>3, <1>4, QuietStep
     DEF PopFails, Refers, Prepares, Publishes, RefSteps, Private

LEMMA LoadHeadStep ==
  ASSUME IInv, NEW t \in Threads, LoadHead(t)
  PROVE  IInv'
<1>1. node[t] \in Nodes
  BY DEF IInv, Structure, AtNode, LoadHead
<1>2. TypeOK'
  BY DEF IInv, TypeOK, LoadHead, Goto
<1>3. OthersStay(t) /\ node' = node /\ pc[t] = "load" /\ pc'[t] = "link"
  BY DEF IInv, TypeOK, LoadHead, Goto, OthersStay
<1>4. \A u \in Threads \ {t} : next'[u] = next[u] /\ seen'[u] = seen[u]
  BY DEF IInv, TypeOK, LoadHead
<1> QED BY <1>1, <1>2, <1>3, <1>4, QuietStep
     DEF LoadHead, Refers, Prepares, Publishes, RefSteps, Private

LEMMA PushFailsStep ==
  ASSUME IInv, NEW t \in Threads, PushFails(t)
  PROVE  IInv'
<1>1. node[t] \in Nodes
  BY DEF IInv, Structure, AtNode, PushFails
<1>2. TypeOK'
  BY DEF IInv, TypeOK, PushFails, Goto
<1>3. OthersStay(t) /\ node' = node /\ pc[t] = "push" /\ pc'[t] = "defer"
  BY DEF IInv, TypeOK, PushFails, Goto, OthersStay
<1>4. \A u \in Threads \ {t} : next'[u] = next[u] /\ seen'[u] = seen[u]
  BY DEF IInv, TypeOK, PushFails
<1> QED BY <1>1, <1>2, <1>3, <1>4, QuietStep
     DEF PushFails, Refers, Prepares, Publishes, RefSteps, Private

-----------------------------------------------------------------------------
(* The other steps of try_get(). *)

\* A new reference: nobody is preparing the node, which has references other
\* than the flag.
LEMMA AcquireStep ==
  ASSUME IInv, NEW t \in Threads, Acquire(t)
  PROVE  IInv'
<1>0. PICK n \in Nodes : n = node[t]
  BY DEF IInv, Structure, AtNode, Acquire
<1>1. /\ n = node[t] /\ OthersStay(t) /\ node' = node /\ pc[t] = "acquire" /\ pc'[t] = "next"
      /\ DOMAIN freeListRefs' = Nodes /\ freeListRefs' = [m \in Nodes |-> freeListRefs'[m]]
  BY <1>0 DEF IInv, Structure, AtNode, TypeOK, Acquire, Goto, AddRefs, OthersStay
<1>2. /\ freeListRefs'[n] = freeListRefs[n] + 1
      /\ \A m \in Nodes \ {n} : freeListRefs'[m] = freeListRefs[m]
  BY <1>1 DEF IInv, TypeOK, Acquire, AddRefs
<1>3. \A u \in Threads : ~ Prepares(u, n)
  <2> SUFFICES ASSUME NEW u \in Threads, Prepares(u, n) PROVE FALSE
    OBVIOUS
  <2>1. freeListRefs[n] = SHOULD_BE_ON_FREELIST
    BY OnlyFlag DEF Prepares
  <2> QED BY <1>0, <2>1 DEF IInv, Structure, SeesOthers, Acquire
<1>4. \A m \in Nodes : RefsAt(m)'
  <2>1. ASSUME NEW m \in Nodes \ {n} PROVE RefsAt(m)'
    BY <1>1, <1>2, <2>1, Elsewhere DEF IInv, RefsExact, RefsAt, Acquire
  <2>2. RefsAt(n)'
    <3>1. ~ Refers(t, n) /\ Refers(t, n)'
      BY <1>1 DEF Refers, RefSteps
    <3>2. Cardinality(Referring(n)') = Cardinality(Referring(n)) + 1
      BY <1>1, <3>1, OneMore
    <3>3. /\ ~ Publishes(t, n) /\ ~ Publishes(t, n)'
          /\ ~ Prepares(t, n) /\ ~ Prepares(t, n)'
      BY <1>1 DEF Publishes, Prepares, Private
    <3>4. (Published(n)' <=> Published(n)) /\ (ToBeAdded(n)' <=> ToBeAdded(n))
      BY <1>1, <3>3, RefersDef, OthersPart DEF Acquire
    <3>5. RefsAt(n)
      BY <1>1 DEF IInv, RefsExact, RefsAt
    <3> QED BY <1>2, <3>2, <3>4, <3>5, CountNat, RefsAssumption DEF RefsAt
  <2> QED BY <2>1, <2>2
<1>5. RefsExact' /\ freeListRefs' \in [Nodes -> Refs]
  BY <1>1, <1>4, RefsFit
<1>6. TypeOK'
  BY <1>5, RefsAssumption, ThreadsNat DEF IInv, TypeOK, Acquire, Goto, Refs
<1>7. AtNode' /\ SeesOthers'
  BY <1>1 DEF IInv, Structure, AtNode, SeesOthers, Acquire, OthersStay, TypeOK
<1>8. Unreferenced'
  BY <1>1, <1>3 DEF IInv, Structure, Unreferenced, Prepares, Private, RefSteps, OthersStay
<1>9. AddedByOne' /\ TakenByOne'
  BY <1>1 DEF IInv, Structure, AddedByOne, TakenByOne, AddingSteps, OthersStay, Acquire
<1>10. Links' /\ Successors'
  BY <1>1 DEF IInv, Structure, Links, Successors, OthersStay, Acquire
<1> QED BY <1>5, <1>6, <1>7, <1>8, <1>9, <1>10 DEF IInv, Structure

\* The head is taken off: what the thread has read is still its successor.
LEMMA PopStep ==
  ASSUME IInv, NEW t \in Threads, Pop(t)
  PROVE  IInv'
<1>0. PICK n \in Nodes : n = node[t]
  BY DEF IInv, Structure, AtNode, Pop
<1>1. /\ n = node[t] /\ OthersStay(t) /\ node' = node /\ pc[t] = "pop" /\ pc'[t] = "take"
      /\ place[n] = "listed" /\ place'[n] = "taken"
      /\ \A m \in Nodes \ {n} : place'[m] = place[m]
      /\ freeListHead = n /\ freeListHead' = freeListNext[n] /\ freeListHead' \in Nodes \cup {Null}
  BY <1>0 DEF IInv, Structure, AtNode, TypeOK, Pop, Goto, Move, OthersStay, Links, Successors
<1>2. TypeOK'
  BY <1>1 DEF IInv, TypeOK, Pop, Goto, Move, Forget, Places
<1>3. RefsExact'
  <2>1. ASSUME NEW m \in Nodes \ {n} PROVE RefsAt(m)'
    BY <1>1, <2>1, Elsewhere DEF IInv, RefsExact, RefsAt, Pop
  <2>2. RefsAt(n)'
    <3>1. /\ Refers(t, n) /\ Refers(t, n)'
          /\ ~ Prepares(t, n) /\ ~ Prepares(t, n)'
      BY <1>1 DEF Refers, RefSteps, Prepares, Private
    <3> QED BY <1>1, <3>1, SameCount DEF IInv, RefsExact, RefsAt, Pop
  <2> QED BY <2>1, <2>2 DEF RefsExact, RefsAt
<1>4. AtNode' /\ SeesOthers'
  BY <1>1 DEF IInv, Structure, AtNode, SeesOthers, Pop, OthersStay
<1>5. Unreferenced'
  BY <1>1 DEF IInv, Structure, Unreferenced, Private, RefSteps, OthersStay
<1>6. AddedByOne'
  BY <1>1 DEF IInv, Structure, AddedByOne, AtNode, AddingSteps, OthersStay
<1>7. TakenByOne'
  BY <1>1 DEF IInv, Structure, TakenByOne, AtNode, OthersStay
<1>8. Links'
  BY <1>1, NullAssumption DEF IInv, Structure, Links, TypeOK, Pop
<1>9. Successors'
  BY <1>1 DEF IInv, Structure, Successors, OthersStay, Pop, TypeOK, Forget
<1> QED BY <1>2, <1>3, <1>4, <1>5, <1>6, <1>7, <1>8, <1>9 DEF IInv, Structure

\* A taken node loses the list's reference and the thread's.
LEMMA TakeStep ==
  ASSUME IInv, NEW t \in Threads, Take(t)
  PROVE  IInv'
<1>0. PICK n \in Nodes : n = node[t]
  BY DEF IInv, Structure, AtNode, Take
<1>1. /\ n = node[t] /\ OthersStay(t) /\ pc[t] = "take" /\ pc'[t] = "idle"
      /\ place[n] = "taken" /\ place'[n] = "held"
      /\ \A m \in Nodes \ {n} : place'[m] = place[m]
      /\ DOMAIN freeListRefs' = Nodes /\ freeListRefs' = [m \in Nodes |-> freeListRefs'[m]]
  BY <1>0 DEF IInv, Structure, AtNode, TypeOK, Take, Goto, Move, Forget, AddRefs, OthersStay, TakenByOne
<1>2. /\ freeListRefs'[n] = freeListRefs[n] - 2
      /\ \A m \in Nodes \ {n} : freeListRefs'[m] = freeListRefs[m]
  BY <1>1 DEF IInv, TypeOK, Take, AddRefs, Refs
<1>3. \A m \in Nodes : RefsAt(m)'
  <2>1. ASSUME NEW m \in Nodes \ {n} PROVE RefsAt(m)'
    BY <1>1, <1>2, <2>1, Elsewhere DEF IInv, RefsExact, RefsAt, RefSteps, AddingSteps
  <2>2. RefsAt(n)'
    <3>1. Refers(t, n) /\ ~ Refers(t, n)' /\ ~ Publishes(t, n)' /\ ~ Prepares(t, n)'
      BY <1>1 DEF Refers, RefSteps, Publishes, Prepares, Private
    <3>2. Cardinality(Referring(n)') = Cardinality(Referring(n)) - 1
      BY <1>1, <3>1, OneLess
    <3>3. \A u \in Threads : ~ Publishes(u, n) /\ ~ Prepares(u, n)
      BY <1>1, NoAdder
    <3>4. Published(n) /\ ~ ToBeAdded(n) /\ ~ Published(n)' /\ ~ ToBeAdded(n)'
      BY <1>1, <3>1, <3>3, RefersDef, OthersPart
    <3>5. RefsAt(n)
      BY <1>1 DEF IInv, RefsExact, RefsAt
    <3> QED BY <1>2, <3>2, <3>4, <3>5, CountNat, RefsAssumption DEF RefsAt
  <2> QED BY <2>1, <2>2
<1>4. RefsExact' /\ freeListRefs' \in [Nodes -> Refs]
  BY <1>1, <1>3, RefsFit
<1>5. TypeOK'
  BY <1>1, <1>4 DEF IInv, TypeOK, Take, Goto, Move, Forget, Places
<1>6. AtNode' /\ SeesOthers'
  BY <1>1 DEF IInv, Structure, AtNode, SeesOthers, Take, OthersStay
<1>7. Unreferenced'
  BY <1>1 DEF IInv, Structure, Unreferenced, Private, RefSteps, OthersStay
<1>8. AddedByOne'
  BY <1>1 DEF IInv, Structure, AddedByOne, AtNode, AddingSteps, OthersStay
<1>9. TakenByOne'
  BY <1>1 DEF IInv, Structure, TakenByOne, AtNode, OthersStay
<1>10. Links'
  BY <1>1 DEF IInv, Structure, Links, TypeOK, Take
<1>11. Successors'
  BY <1>1 DEF IInv, Structure, Successors, OthersStay, Take
<1> QED BY <1>4, <1>5, <1>6, <1>7, <1>8, <1>9, <1>10, <1>11 DEF IInv, Structure

\* The last reference to a node that waits makes the thread its adder; any other
\* only goes.
LEMMA DropStep ==
  ASSUME IInv, NEW t \in Threads, Drop(t)
  PROVE  IInv'
<1>0. PICK n \in Nodes : n = node[t]
  BY DEF IInv, Structure, AtNode, Drop
<1>1. /\ n = node[t] /\ OthersStay(t) /\ pc[t] = "drop"
      /\ \A m \in Nodes \ {n} : place'[m] = place[m]
      /\ DOMAIN freeListRefs' = Nodes /\ freeListRefs' = [m \in Nodes |-> freeListRefs'[m]]
  BY <1>0 DEF IInv, TypeOK, Drop, Loop, Goto, Move, AddRefs, OthersStay
<1>2. /\ freeListRefs'[n] = freeListRefs[n] - 1
      /\ \A m \in Nodes \ {n} : freeListRefs'[m] = freeListRefs[m]
  BY <1>1 DEF IInv, TypeOK, Drop, AddRefs, Refs
<1>3. \/ /\ pc'[t] = "load" /\ node' = node /\ place[n] = "waiting" /\ place'[n] = "adding"
         /\ Referring(n) = {t}
      \/ pc'[t] \in {"idle", "refs"} /\ place' = place
  <2>1. t \in Referring(n)
    BY <1>1 DEF Referring
  <2>2. CASE freeListRefs[n] = SHOULD_BE_ON_FREELIST + 1
    BY <1>1, <2>1, <2>2, LastLeft DEF IInv, TypeOK, Drop, Goto, Move
  <2>3. CASE freeListRefs[n] # SHOULD_BE_ON_FREELIST + 1
    BY <1>1, <2>3 DEF IInv, TypeOK, Drop, Loop, Goto
  <2> QED BY <2>2, <2>3
<1>4. \A m \in Nodes : RefsAt(m)'
  <2>1. ASSUME NEW m \in Nodes \ {n} PROVE RefsAt(m)'
    BY <1>1, <1>2, <1>3, <2>1, Elsewhere DEF IInv, RefsExact, RefsAt, RefSteps, AddingSteps
  <2>2. RefsAt(n)'
    <3>1. Refers(t, n) /\ ~ Refers(t, n)' /\ ~ Publishes(t, n) /\ ~ Publishes(t, n)' /\ ~ Prepares(t, n)
      BY <1>1, <1>3 DEF Refers, RefSteps, Publishes, Prepares, Private
    <3>2. Cardinality(Referring(n)') = Cardinality(Referring(n)) - 1
      BY <1>1, <3>1, OneLess
    <3>3. Published(n)' <=> Published(n)
      BY <1>1, <1>3, <3>1, RefersDef, OthersPart
    <3>4. ToBeAdded(n)' <=> ToBeAdded(n)
      <4>1. CASE pc'[t] = "load" /\ node' = node /\ place[n] = "waiting"
        BY <1>1, <4>1, RefersDef DEF Prepares, Private
      <4>2. CASE pc'[t] \in {"idle", "refs"} /\ place' = place
        <5>1. ~ Prepares(t, n)'
          BY <4>2 DEF Prepares, Private
        <5> QED BY <1>1, <3>1, <4>2, <5>1, RefersDef, OthersPart
      <4> QED BY <1>3, <4>1, <4>2
    <3>5. RefsAt(n)
      BY DEF IInv, RefsExact, RefsAt
    <3> QED BY <1>2, <3>2, <3>3, <3>4, <3>5, CountNat, RefsAssumption DEF RefsAt
  <2> QED BY <2>1, <2>2
<1>5. RefsExact' /\ freeListRefs' \in [Nodes -> Refs]
  BY <1>1, <1>4, RefsFit
<1>6. TypeOK'
  BY <1>0, <1>5 DEF IInv, TypeOK, Drop, Loop, Goto, Move, Forget, Places
<1>7. AtNode'
  BY <1>1, <1>3 DEF IInv, Structure, AtNode, Drop, Loop, Goto, OthersStay, TypeOK
<1>8. SeesOthers'
  BY <1>1, <1>3 DEF IInv, Structure, SeesOthers, Drop, OthersStay
<1>9. Unreferenced'
  <2>1. CASE pc'[t] = "load" /\ node' = node /\ Referring(n) = {t}
    BY <1>1, <2>1 DEF IInv, Structure, Unreferenced, Private, RefSteps, OthersStay, Referring
  <2>2. CASE pc'[t] \in {"idle", "refs"}
    BY <1>1, <2>2 DEF IInv, Structure, Unreferenced, Private, RefSteps, OthersStay
  <2> QED BY <1>3, <2>1, <2>2
<1>10. AddedByOne'
  BY <1>1, <1>3 DEF IInv, Structure, AddedByOne, AtNode, AddingSteps, OthersStay
<1>11. TakenByOne'
  BY <1>1, <1>3 DEF IInv, Structure, TakenByOne, AtNode, OthersStay
<1>12. Links'
  BY <1>1, <1>3 DEF IInv, Structure, Links, TypeOK, Drop
<1>13. Successors'
  BY <1>1, <1>3 DEF IInv, Structure, Successors, OthersStay, Drop
<1> QED BY <1>5, <1>6, <1>7, <1>8, <1>9, <1>10, <1>11, <1>12, <1>13 DEF IInv, Structure

-----------------------------------------------------------------------------
(* The steps of add() and add_knowing_refcount_is_zero(). *)

\* A node with no references is added by the caller, another waits.
LEMMA AddStep ==
  ASSUME IInv, NEW t \in Threads, NEW n \in Nodes, Add(t, n)
  PROVE  IInv'
<1>1. /\ OthersStay(t) /\ pc[t] = "idle" /\ place[n] = "held"
      /\ \A m \in Nodes \ {n} : place'[m] = place[m]
      /\ DOMAIN freeListRefs' = Nodes /\ freeListRefs' = [m \in Nodes |-> freeListRefs'[m]]
  BY DEF IInv, TypeOK, Add, Goto, Move, AddRefs, OthersStay
<1>2. /\ freeListRefs'[n] = freeListRefs[n] + SHOULD_BE_ON_FREELIST
      /\ \A m \in Nodes \ {n} : freeListRefs'[m] = freeListRefs[m]
  BY <1>1 DEF IInv, TypeOK, Add, AddRefs
<1>3. \/ pc'[t] = "load" /\ node'[t] = n /\ place'[n] = "adding" /\ Referring(n) = {}
      \/ pc' = pc /\ node' = node /\ place'[n] = "waiting"
  <2>1. CASE freeListRefs[n] = 0
    BY <2>1, NoneLeft DEF IInv, TypeOK, Add, Goto, Move
  <2>2. CASE freeListRefs[n] # 0
    BY <2>2 DEF IInv, TypeOK, Add, Move
  <2> QED BY <2>1, <2>2
<1>4. \A m \in Nodes : RefsAt(m)'
  <2>1. ASSUME NEW m \in Nodes \ {n} PROVE RefsAt(m)'
    BY <1>1, <1>2, <1>3, <2>1, Elsewhere DEF IInv, RefsExact, RefsAt, RefSteps, AddingSteps
  <2>2. RefsAt(n)'
    <3>1. ~ Refers(t, n) /\ ~ Refers(t, n)' /\ ~ Publishes(t, n)'
      BY <1>1, <1>3 DEF Refers, RefSteps, Publishes
    <3>2. Referring(n)' = Referring(n)
      BY <1>1, <3>1, AsMany
    <3>3. \A u \in Threads : ~ Publishes(u, n) /\ ~ Prepares(u, n)
      BY <1>1, NoAdder
    <3>4. ~ Published(n) /\ ~ ToBeAdded(n) /\ ~ Published(n)'
      BY <1>1, <1>3, <3>1, <3>3, RefersDef, OthersPart
    <3>5. ToBeAdded(n)'
      BY <1>3, RefersDef DEF Prepares, Private
    <3>6. RefsAt(n)
      BY DEF IInv, RefsExact, RefsAt
    <3> QED BY <1>2, <3>2, <3>4, <3>5, <3>6, CountNat, RefsAssumption DEF RefsAt
  <2> QED BY <2>1, <2>2
<1>5. RefsExact' /\ freeListRefs' \in [Nodes -> Refs]
  BY <1>1, <1>4, RefsFit
<1>6. TypeOK'
  BY <1>5 DEF IInv, TypeOK, Add, Call, Goto, Move, Places
<1>7. AtNode'
  BY <1>1, <1>3 DEF IInv, Structure, AtNode, OthersStay
<1>8. SeesOthers'
  BY <1>1, <1>3 DEF IInv, Structure, SeesOthers, Add, OthersStay
<1>9. Unreferenced'
  BY <1>1, <1>3 DEF IInv, Structure, Unreferenced, Private, RefSteps, OthersStay, Referring
<1>10. AddedByOne'
  BY <1>1, <1>3 DEF IInv, Structure, AddedByOne, AtNode, AddingSteps, OthersStay
<1>11. TakenByOne'
  BY <1>1, <1>3 DEF IInv, Structure, TakenByOne, AtNode, OthersStay
<1>12. Links'
  BY <1>1, <1>3 DEF IInv, Structure, Links, TypeOK, Add
<1>13. Successors'
  BY <1>1, <1>3 DEF IInv, Structure, Successors, OthersStay, Add
<1> QED BY <1>5, <1>6, <1>7, <1>8, <1>9, <1>10, <1>11, <1>12, <1>13 DEF IInv, Structure

\* The successor is written while nobody else looks at the node.
LEMMA StoreNextStep ==
  ASSUME IInv, NEW t \in Threads, StoreNext(t)
  PROVE  IInv'
<1>0. PICK n \in Nodes : n = node[t]
  BY DEF IInv, Structure, AtNode, StoreNext
<1>1. /\ n = node[t] /\ OthersStay(t) /\ node' = node /\ pc[t] = "link" /\ pc'[t] = "count"
      /\ freeListNext'[n] = next[t] /\ place[n] = "adding"
      /\ \A m \in Nodes \ {n} : freeListNext'[m] = freeListNext[m]
  BY <1>0 DEF IInv, Structure, TypeOK, StoreNext, Goto, OthersStay, AddedByOne, AddingSteps
<1>2. TypeOK'
  BY DEF IInv, TypeOK, StoreNext, Goto
<1>3. RefsExact'
  <2> SUFFICES ASSUME NEW m \in Nodes PROVE RefsAt(m)'
    BY DEF RefsExact, RefsAt
  <2>1. /\ ~ Refers(t, m) /\ ~ Refers(t, m)'
        /\ ~ Publishes(t, m) /\ ~ Publishes(t, m)'
        /\ Prepares(t, m)' <=> Prepares(t, m)
    BY <1>1 DEF Refers, RefSteps, Publishes, Prepares, Private
  <2> QED BY <1>1, <2>1, SameCount DEF IInv, RefsExact, RefsAt, StoreNext
<1>4. AtNode' /\ SeesOthers' /\ Unreferenced'
  BY <1>1 DEF IInv, Structure, AtNode, SeesOthers, Unreferenced, Private, RefSteps, OthersStay, StoreNext
<1>5. AddedByOne' /\ TakenByOne'
  BY <1>1 DEF IInv, Structure, AddedByOne, TakenByOne, AddingSteps, OthersStay, StoreNext
<1>6. Links'
  BY <1>1 DEF IInv, Structure, Links, TypeOK, StoreNext
<1>7. Successors'
  BY <1>1 DEF IInv, Structure, Successors, AtNode, Unreferenced, AddedByOne, Private, RefSteps,
     AddingSteps, OthersStay, StoreNext
<1> QED BY <1>2, <1>3, <1>4, <1>5, <1>6, <1>7 DEF IInv, Structure

\* The references are written when they are the flag alone: no reference is lost.
LEMMA StoreRefsStep ==
  ASSUME IInv, NEW t \in Threads, StoreRefs(t)
  PROVE  IInv'
<1>0. PICK n \in Nodes : n = node[t]
  BY DEF IInv, Structure, AtNode, StoreRefs
<1>1. /\ n = node[t] /\ OthersStay(t) /\ node' = node /\ pc[t] = "count" /\ pc'[t] = "push"
      /\ place[n] = "adding"
      /\ DOMAIN freeListRefs' = Nodes /\ freeListRefs' = [m \in Nodes |-> freeListRefs'[m]]
  BY <1>0 DEF IInv, Structure, TypeOK, StoreRefs, Goto, OthersStay, AddedByOne, AddingSteps
<1>2. /\ freeListRefs'[n] = 1
      /\ \A m \in Nodes \ {n} : freeListRefs'[m] = freeListRefs[m]
  BY <1>1 DEF IInv, TypeOK, StoreRefs
<1>3. \A m \in Nodes : RefsAt(m)'
  <2>1. ASSUME NEW m \in Nodes \ {n} PROVE RefsAt(m)'
    BY <1>1, <1>2, <2>1, Elsewhere DEF IInv, RefsExact, RefsAt, StoreRefs
  <2>2. RefsAt(n)'
    <3>1. ~ Refers(t, n) /\ ~ Refers(t, n)' /\ Publishes(t, n)' /\ ~ Prepares(t, n)'
      BY <1>1 DEF Refers, RefSteps, Publishes, Prepares, Private
    <3>2. Referring(n)' = {}
      BY <1>1, <3>1, AsMany, OnlyFlag DEF Private
    <3>3. Published(n)'
      BY <3>1, RefersDef
    <3>4. \A u \in Threads \ {t} : ~ Prepares(u, n)
      <4>1. Adds(t, n)
        BY <1>1 DEF Adds, AddingSteps
      <4> QED BY <4>1, AddedAlone DEF Prepares, Adds, Private, AddingSteps
    <3>5. ~ ToBeAdded(n)'
      BY <1>1, <3>1, <3>4, RefersDef, OthersPart DEF StoreRefs
    <3>6. Cardinality(Referring(n)') = 0
      BY <3>2, FS_EmptySet
    <3> QED BY <1>2, <3>3, <3>5, <3>6 DEF RefsAt
  <2> QED BY <2>1, <2>2
<1>4. RefsExact' /\ freeListRefs' \in [Nodes -> Refs]
  BY <1>1, <1>3, RefsFit
<1>5. TypeOK'
  BY <1>4 DEF IInv, TypeOK, StoreRefs, Goto
<1>6. AtNode' /\ SeesOthers' /\ Unreferenced'
  BY <1>1 DEF IInv, Structure, AtNode, SeesOthers, Unreferenced, Private, RefSteps, OthersStay, StoreRefs
<1>7. AddedByOne' /\ TakenByOne'
  BY <1>1 DEF IInv, Structure, AddedByOne, TakenByOne, AddingSteps, OthersStay, StoreRefs
<1>8. Links' /\ Successors'
  BY <1>1 DEF IInv, Structure, Links, Successors, OthersStay, StoreRefs
<1> QED BY <1>4, <1>5, <1>6, <1>7, <1>8 DEF IInv, Structure

\* The node becomes the head, the old head its successor.
LEMMA PushStep ==
  ASSUME IInv, NEW t \in Threads, Push(t)
  PROVE  IInv'
<1>0. PICK n \in Nodes : n = node[t]
  BY DEF IInv, Structure, AtNode, Push
<1>1. /\ n = node[t] /\ OthersStay(t) /\ pc[t] = "push" /\ pc'[t] \in {"idle", "refs"}
      /\ place[n] = "adding" /\ place'[n] = "listed"
      /\ \A m \in Nodes \ {n} : place'[m] = place[m]
      /\ freeListHead' = n /\ freeListNext[n] = freeListHead
  BY <1>0 DEF IInv, Structure, TypeOK, Push, Loop, Goto, Move, OthersStay, AddedByOne, AddingSteps,
     Successors
<1>2. TypeOK'
  BY <1>0 DEF IInv, TypeOK, Push, Loop, Goto, Move, Forget, Places
<1>3. RefsExact'
  <2>1. ASSUME NEW m \in Nodes \ {n} PROVE RefsAt(m)'
    BY <1>1, <2>1, Elsewhere DEF IInv, RefsExact, RefsAt, Push, RefSteps, AddingSteps
  <2>2. RefsAt(n)'
    <3>1. /\ ~ Refers(t, n) /\ ~ Refers(t, n)' /\ Publishes(t, n)
          /\ ~ Prepares(t, n) /\ ~ Prepares(t, n)'
      BY <1>1 DEF Refers, RefSteps, Publishes, Prepares, Private
    <3> QED BY <1>1, <3>1, SameCount DEF IInv, RefsExact, RefsAt, Push
  <2> QED BY <2>1, <2>2 DEF RefsExact, RefsAt
<1>4. AtNode'
  BY <1>1 DEF IInv, Structure, AtNode, Push, Loop, Goto, OthersStay, TypeOK
<1>5. SeesOthers' /\ Unreferenced'
  BY <1>1 DEF IInv, Structure, SeesOthers, Unreferenced, Private, RefSteps, OthersStay, Push
<1>6. AddedByOne'
  BY <1>1 DEF IInv, Structure, AddedByOne, AtNode, AddingSteps, OthersStay
<1>7. TakenByOne'
  BY <1>1 DEF IInv, Structure, TakenByOne, AtNode, OthersStay
<1>8. Links'
  BY <1>1 DEF IInv, Structure, Links, TypeOK, Push
<1>9. Successors'
  BY <1>1 DEF IInv, Structure, Successors, OthersStay, Push, TypeOK, Forget
<1> QED BY <1>2, <1>3, <1>4, <1>5, <1>6, <1>7, <1>8, <1>9 DEF IInv, Structure

\* The list's reference becomes the flag again; without other references the
\* same thread goes on.
LEMMA DeferStep ==
  ASSUME IInv, NEW t \in Threads, Defer(t)
  PROVE  IInv'
<1>0. PICK n \in Nodes : n = node[t]
  BY DEF IInv, Structure, AtNode, Defer
<1>1. /\ n = node[t] /\ OthersStay(t) /\ pc[t] = "defer" /\ place[n] = "adding"
      /\ \A m \in Nodes \ {n} : place'[m] = place[m]
  BY <1>0 DEF IInv, Structure, TypeOK, Defer, Loop, Goto, Move, OthersStay, AddedByOne, AddingSteps
<1>2. /\ DOMAIN freeListRefs' = Nodes /\ freeListRefs' = [m \in Nodes |-> freeListRefs'[m]]
      /\ freeListRefs'[n] = freeListRefs[n] + SHOULD_BE_ON_FREELIST - 1
      /\ \A m \in Nodes \ {n} : freeListRefs'[m] = freeListRefs[m]
  BY <1>1, RefsAssumption DEF IInv, TypeOK, Defer, AddRefs, Refs
<1>3. \A u \in Threads : Adds(u, n) => u = t
  BY <1>1, AddedAlone DEF Adds, AddingSteps
<1>4. Publishes(t, n) /\ Published(n) /\ ~ ToBeAdded(n)
  <2>1. Publishes(t, n) /\ \A u \in Threads : ~ Prepares(u, n)
    BY <1>1, <1>3 DEF Publishes, Prepares, Adds, Private, AddingSteps
  <2> QED BY <1>1, <2>1, RefersDef
<1>5. \/ pc'[t] = "link" /\ node' = node /\ place' = place /\ Referring(n) = {}
      \/ pc'[t] \in {"idle", "refs"} /\ place'[n] = "waiting"
  <2>1. CASE freeListRefs[n] = 1
    BY <1>1, <1>4, <2>1, NoneLeft DEF IInv, TypeOK, Defer, Goto
  <2>2. CASE freeListRefs[n] # 1
    BY <1>1, <2>2 DEF IInv, TypeOK, Defer, Loop, Goto, Move
  <2> QED BY <2>1, <2>2
<1>6. \A m \in Nodes : RefsAt(m)'
  <2>1. ASSUME NEW m \in Nodes \ {n} PROVE RefsAt(m)'
    BY <1>1, <1>2, <1>5, <2>1, Elsewhere DEF IInv, RefsExact, RefsAt, RefSteps, AddingSteps
  <2>2. RefsAt(n)'
    <3>1. ~ Refers(t, n) /\ ~ Refers(t, n)' /\ ~ Publishes(t, n)'
      BY <1>1, <1>5 DEF Refers, RefSteps, Publishes
    <3>2. Referring(n)' = Referring(n)
      BY <1>1, <3>1, AsMany
    <3>3. \A u \in Threads \ {t} : ~ Publishes(u, n)
      BY <1>3 DEF Publishes, Adds, AddingSteps
    <3>4. ~ Published(n)'
      BY <1>1, <1>5, <3>1, <3>3, RefersDef, OthersPart
    <3>5. ToBeAdded(n)'
      BY <1>1, <1>5, RefersDef DEF Prepares, Private
    <3>6. RefsAt(n)
      BY DEF IInv, RefsExact, RefsAt
    <3> QED BY <1>2, <1>4, <3>2, <3>4, <3>5, <3>6, CountNat, RefsAssumption DEF RefsAt
  <2> QED BY <2>1, <2>2
<1>7. RefsExact' /\ freeListRefs' \in [Nodes -> Refs]
  BY <1>2, <1>6, RefsFit
<1>8. TypeOK'
  BY <1>0, <1>7 DEF IInv, TypeOK, Defer, Loop, Goto, Move, Forget, Places
<1>9. AtNode'
  BY <1>1, <1>5 DEF IInv, Structure, AtNode, Defer, Loop, Goto, OthersStay, TypeOK
<1>10. SeesOthers'
  BY <1>1, <1>5 DEF IInv, Structure, SeesOthers, Defer, OthersStay
<1>11. Unreferenced'
  BY <1>1, <1>5 DEF IInv, Structure, Unreferenced, Private, RefSteps, OthersStay, Referring
<1>12. AddedByOne'
  BY <1>1, <1>5 DEF IInv, Structure, AddedByOne, AtNode, AddingSteps, OthersStay
<1>13. TakenByOne'
  BY <1>1, <1>5 DEF IInv, Structure, TakenByOne, AtNode, OthersStay
<1>14. Links'
  BY <1>1, <1>5 DEF IInv, Structure, Links, TypeOK, Defer
<1>15. Successors'
  BY <1>1, <1>5 DEF IInv, Structure, Successors, OthersStay, Defer, TypeOK, Forget
<1> QED BY <1>7, <1>8, <1>9, <1>10, <1>11, <1>12, <1>13, <1>14, <1>15 DEF IInv, Structure

-----------------------------------------------------------------------------
(* The theorems. *)

LEMMA Stutter ==
  ASSUME IInv, UNCHANGED vars
  PROVE  IInv'
<1> USE DEF vars
<1>1. TypeOK' /\ RefsExact'
  BY DEF IInv, TypeOK, RefsExact, Referring, Published, ToBeAdded, Adders
<1>2. AtNode' /\ SeesOthers' /\ Unreferenced'
  BY DEF IInv, Structure, AtNode, SeesOthers, Unreferenced
<1>3. AddedByOne' /\ TakenByOne'
  BY DEF IInv, Structure, AddedByOne, TakenByOne
<1>4. Links' /\ Successors'
  BY DEF IInv, Structure, Links, Successors
<1> QED BY <1>1, <1>2, <1>3, <1>4 DEF IInv, Structure

LEMMA Inductive == IInv /\ [Next]_vars => IInv'
<1> SUFFICES ASSUME IInv, [Next]_vars PROVE IInv'
  OBVIOUS
<1>1. ASSUME NEW t \in Threads, Getting(t) PROVE IInv'
  BY <1>1, TryGetStep, LoadRefsStep, AcquireStep, AcquireFailsStep, ReloadStep, LoadNextStep,
     PopStep, PopFailsStep, TakeStep, DropStep DEF Getting
<1>2. ASSUME NEW t \in Threads, Adding(t) PROVE IInv'
  BY <1>2, LoadHeadStep, StoreNextStep, StoreRefsStep, PushStep, PushFailsStep, DeferStep DEF Adding
<1>3. ASSUME NEW t \in Threads, NEW n \in Nodes, Add(t, n) PROVE IInv'
  BY <1>3, AddStep
<1>4. ASSUME UNCHANGED vars PROVE IInv'
  BY <1>4, Stutter
<1> QED BY <1>1, <1>2, <1>3, <1>4 DEF Next

LEMMA AlwaysIInv == Spec => []IInv
BY InitIInv, Inductive, PTL DEF Spec

-----------------------------------------------------------------------------
(* The list. *)

Listed == {n \in Nodes : place[n] = "listed"}

\* Who follows the list from its head meets every listed node.
AllReached == \A S \in SUBSET Nodes : Closed(S) => Listed \subseteq S

\* Steps that leave the head, the successors and the listed nodes alone.
LEMMA ListKept ==
  ASSUME AllReached, freeListHead' = freeListHead, freeListNext' = freeListNext,
         \A n \in Nodes : place'[n] = "listed" <=> place[n] = "listed"
  PROVE  AllReached'
BY DEF AllReached, Listed, Closed

\* A set closed after the push was closed before, and has the new head.
LEMMA PushReached ==
  ASSUME IInv, AllReached, NEW t \in Threads, Push(t)
  PROVE  AllReached'
<1>1. PICK n \in Nodes : n = node[t]
  BY DEF IInv, Structure, AtNode, Push
<1>2. /\ freeListHead' = n /\ freeListNext[n] = freeListHead /\ freeListNext' = freeListNext
      /\ \A m \in Nodes \ {n} : place'[m] = place[m]
  BY <1>1 DEF IInv, Structure, TypeOK, Push, Move, Successors
<1> SUFFICES ASSUME NEW S \in SUBSET Nodes, Closed(S)' PROVE Listed' \subseteq S
  BY DEF AllReached
<1>3. n \in S
  BY <1>2, NullAssumption DEF Closed
<1>4. Closed(S)
  BY <1>2, <1>3 DEF Closed
<1> QED BY <1>2, <1>3, <1>4 DEF AllReached, Listed

\* A set closed after the pop was closed before together with the old head, which
\* is listed no more.
LEMMA PopReached ==
  ASSUME IInv, AllReached, NEW t \in Threads, Pop(t)
  PROVE  AllReached'
<1>1. PICK h \in Nodes : h = node[t]
  BY DEF IInv, Structure, AtNode, Pop
<1>2. /\ freeListHead = h /\ freeListHead' = freeListNext[h] /\ freeListNext' = freeListNext
      /\ place'[h] = "taken" /\ \A m \in Nodes \ {h} : place'[m] = place[m]
  BY <1>1 DEF IInv, Structure, TypeOK, Pop, Move, Successors
<1> SUFFICES ASSUME NEW S \in SUBSET Nodes, Closed(S)' PROVE Listed' \subseteq S
  BY DEF AllReached
<1>3. Closed(S \cup {h})
  BY <1>2 DEF Closed
<1>4. Listed \subseteq S \cup {h}
  BY <1>3 DEF AllReached
<1> QED BY <1>2, <1>4 DEF Listed

\* The node whose successor is written is not listed: the listed nodes of a set
\* closed after the store were a closed set before.
LEMMA StoreNextReached ==
  ASSUME IInv, AllReached, NEW t \in Threads, StoreNext(t)
  PROVE  AllReached'
<1>1. PICK n \in Nodes : n = node[t]
  BY DEF IInv, Structure, AtNode, StoreNext
<1>2. /\ freeListHead' = freeListHead /\ place' = place /\ place[n] = "adding"
      /\ \A m \in Nodes \ {n} : freeListNext'[m] = freeListNext[m]
  BY <1>1 DEF IInv, Structure, TypeOK, StoreNext, AddedByOne, AddingSteps
<1> SUFFICES ASSUME NEW S \in SUBSET Nodes, Closed(S)' PROVE Listed' \subseteq S
  BY DEF AllReached
<1>3. freeListHead \in (S \cap Listed) \cup {Null}
  BY <1>2 DEF Closed, Listed, IInv, TypeOK, Structure, Links
<1>4. ASSUME NEW m \in S \cap Listed PROVE freeListNext[m] \in (S \cap Listed) \cup {Null}
  <2>1. m \in Nodes \ {n} /\ place[m] = "listed"
    BY <1>2 DEF Listed
  <2>2. freeListNext[m] \in S \cup {Null}
    BY <1>2, <2>1 DEF Closed
  <2> QED BY <2>1, <2>2 DEF Listed, IInv, Structure, Links
<1>5. Closed(S \cap Listed)
  BY <1>3, <1>4 DEF Closed
<1>6. Listed \subseteq S \cap Listed
  BY <1>5 DEF AllReached
<1> QED BY <1>2, <1>6 DEF Listed

LEMMA StepReached ==
  ASSUME IInv, AllReached, [Next]_vars
  PROVE  AllReached'
<1>1. ASSUME NEW t \in Threads, Getting(t) PROVE AllReached'
  <2>1. CASE Pop(t)
    BY <2>1, PopReached
  <2>2. CASE Take(t)
    BY <2>2, ListKept DEF Take, Move, IInv, TypeOK, Structure, TakenByOne
  <2>3. CASE Drop(t)
    <3>1. CASE freeListRefs[node[t]] = SHOULD_BE_ON_FREELIST + 1
      <4>1. PICK n \in Nodes : n = node[t]
        BY <2>3 DEF IInv, Structure, AtNode, Drop
      <4>2. t \in Referring(n)
        BY <2>3, <4>1 DEF Referring, Drop
      <4>3. place[n] = "waiting"
        BY <3>1, <4>1, <4>2, LastLeft
      <4>4. place' = [place EXCEPT ![n] = "adding"]
        BY <2>3, <3>1, <4>1 DEF Drop, Move
      <4> QED BY <2>3, <4>3, <4>4, ListKept DEF Drop, IInv, TypeOK
    <3>2. CASE freeListRefs[node[t]] # SHOULD_BE_ON_FREELIST + 1
      BY <2>3, <3>2, ListKept DEF Drop
    <3> QED BY <3>1, <3>2
  <2>4. CASE \/ TryGet(t) \/ LoadRefs(t) \/ Acquire(t) \/ AcquireFails(t) \/ Reload(t)
             \/ LoadNext(t) \/ PopFails(t)
    BY <2>4, ListKept DEF TryGet, LoadRefs, Acquire, AcquireFails, Reload, LoadNext, PopFails
  <2> QED BY <1>1, <2>1, <2>2, <2>3, <2>4 DEF Getting
<1>2. ASSUME NEW t \in Threads, Adding(t) PROVE AllReached'
  <2>1. CASE Push(t)
    BY <2>1, PushReached
  <2>2. CASE StoreNext(t)
    BY <2>2, StoreNextReached
  <2>3. CASE Defer(t)
    <3>1. place[node[t]] = "adding"
      BY <2>3 DEF Defer, IInv, Structure, AddedByOne, AddingSteps
    <3>2. \/ place' = place
          \/ place' = [place EXCEPT ![node[t]] = "waiting"]
      BY <2>3 DEF Defer, Move
    <3> QED BY <2>3, <3>1, <3>2, ListKept DEF Defer, IInv, TypeOK
  <2>4. CASE LoadHead(t) \/ StoreRefs(t) \/ PushFails(t)
    BY <2>4, ListKept DEF LoadHead, StoreRefs, PushFails
  <2> QED BY <1>2, <2>1, <2>2, <2>3, <2>4 DEF Adding
<1>3. ASSUME NEW t \in Threads, NEW n \in Nodes, Add(t, n) PROVE AllReached'
  <2>1. \/ place' = [place EXCEPT ![n] = "adding"]
        \/ place' = [place EXCEPT ![n] = "waiting"]
    BY <1>3 DEF Add, Move
  <2> QED BY <1>3, <2>1, ListKept DEF Add, IInv, TypeOK
<1>4. ASSUME UNCHANGED vars PROVE AllReached'
  BY <1>4, ListKept DEF vars
<1> QED BY <1>1, <1>2, <1>3, <1>4 DEF Next

\* The listed nodes are closed themselves, so nothing else is reachable.
LEMMA ReachListed ==
  ASSUME IInv, AllReached
  PROVE  ListHasListed
<1>1. Closed(Listed) /\ Listed \in SUBSET Nodes
  BY DEF IInv, TypeOK, Structure, Links, Closed, Listed
<1>2. Reach = Listed
  BY <1>1 DEF AllReached, Reach, Listed
<1> QED BY <1>2 DEF ListHasListed, Listed

-----------------------------------------------------------------------------
(* The references. *)

\* One thread adds a node that is being added, one has taken a node that is taken,
\* and none adds or takes another.
LEMMA ByOne ==
  ASSUME IInv
  PROVE  OneAdder
<1> SUFFICES ASSUME NEW n \in Nodes
             PROVE  /\ Cardinality(Adders(n)) = IF place[n] = "adding" THEN 1 ELSE 0
                    /\ Cardinality({t \in Referring(n) : pc[t] = "take"})
                           = IF place[n] = "taken" THEN 1 ELSE 0
  BY DEF OneAdder
<1> DEFINE Takers == {t \in Referring(n) : pc[t] = "take"}
<1>1. CASE place[n] = "adding"
  <2>1. PICK t \in Threads : Adders(n) = {t}
    BY <1>1 DEF IInv, Structure, AddedByOne, Adders
  <2>2. Takers = {}
    BY <1>1 DEF IInv, Structure, TakenByOne, Referring
  <2> QED BY <1>1, <2>1, <2>2, FS_Singleton, FS_EmptySet
<1>2. CASE place[n] = "taken"
  <2>1. PICK t \in Threads : Takers = {t}
    BY <1>2 DEF IInv, Structure, TakenByOne, Referring
  <2>2. Adders(n) = {}
    BY <1>2 DEF IInv, Structure, AddedByOne, Adders
  <2> QED BY <1>2, <2>1, <2>2, FS_Singleton, FS_EmptySet
<1>3. CASE place[n] \notin {"adding", "taken"}
  <2>1. Adders(n) = {} /\ Takers = {}
    BY <1>3 DEF IInv, Structure, AddedByOne, TakenByOne, Adders, Referring
  <2> QED BY <1>3, <2>1, FS_EmptySet
<1> QED BY <1>1, <1>2, <1>3

\* A taken node is not to be added: it has fewer references than the flag.
LEMMA OffWhenTaken ==
  ASSUME IInv
  PROVE  TakenIsOff
<1> SUFFICES ASSUME NEW t \in Threads, pc[t] = "take"
             PROVE  freeListRefs[node[t]] < SHOULD_BE_ON_FREELIST
  BY DEF TakenIsOff
<1> DEFINE n == node[t]
<1>1. n \in Nodes /\ place[n] = "taken"
  BY DEF IInv, Structure, AtNode, TakenByOne
<1>2. \A u \in Threads : ~ Prepares(u, n)
  BY <1>1, NoAdder
<1>3. ~ ToBeAdded(n)
  BY <1>1, <1>2, RefersDef
<1>4. RefsAt(n)
  BY <1>1 DEF IInv, RefsExact, RefsAt
<1> QED BY <1>3, <1>4, CountNat, ThreadsNat, RefsAssumption DEF RefsAt

\* For every number of threads, nodes and calls of the free list, the references
\* of every node are counted exactly, the 32 bits never wrap, a node just taken
\* off the list is not to be on it (line 1493) and one thread at a time adds or
\* takes a node (line 1519).
THEOREM ReferencesCorrect == Spec => []References
<1>1. IInv => References
  BY ByOne, OffWhenTaken DEF References, IInv
<1> QED BY <1>1, AlwaysIInv, PTL

\* No ABA (line 1488): the successor a thread has read is the head's successor
\* whenever its compare-and-swap can succeed.
THEOREM NextStaysCorrect == Spec => []NextStays
<1>1. IInv => NextStays
  BY DEF IInv, Structure, Successors, NextStays
<1> QED BY <1>1, AlwaysIInv, PTL

\* For every number of threads, nodes and calls, whatever operations overtake each
\* other (lines 1490-1498 and 1528-1536), the nodes met from freeListHead are the
\* listed ones: no node is lost and none is on the list while the queue has it.
THEOREM ListIntactCorrect == Spec => []ListIntact
<1>1. Init => AllReached
  BY DEF Init, AllReached, Listed
<1>2. IInv /\ AllReached /\ [Next]_vars => AllReached'
  BY StepReached
<1>3. IInv /\ AllReached => ListIntact
  BY ReachListed DEF ListIntact, IInv, Structure, Successors, NextStays
<1> QED BY <1>1, <1>2, <1>3, AlwaysIInv, PTL DEF Spec

=============================================================================
