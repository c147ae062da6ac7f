----------------------------- MODULE MCTreePipe -----------------------------
(***************************************************************************)
(* Instances of TreePipe for TLC.                                          *)
(***************************************************************************)
EXTENDS TreePipe

AnyDepth == 0 .. 3
SomeInputs == {2, 3, 5}
=============================================================================
