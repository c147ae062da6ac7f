-------------------------- MODULE MCTwoLockQueue --------------------------
(***************************************************************************)
(* Instances of TwoLockQueue for TLC.                                      *)
(***************************************************************************)
EXTENDS TwoLockQueue, TLC

CONSTANTS p1, p2, c1, c2, n1, n2, n3, n4

TwoProducers == {p1, p2}
TwoConsumers == {c1, c2}
FourNodes == {n1, n2, n3, n4}

NodeSymmetry == Permutations(Nodes)
=============================================================================
