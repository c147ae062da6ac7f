------------------------------ MODULE MCCourt ------------------------------
(***************************************************************************)
(* Instances of Court for TLC.                                             *)
(***************************************************************************)
EXTENDS Court, TLC

CONSTANTS p1, p2, p3, p4, p5

FiveThreads == {p1, p2, p3, p4, p5}
=============================================================================
