----------------------------- MODULE MCSlotMap -----------------------------
(***************************************************************************)
(* Instances of SlotMap for TLC: the code's ShuffleBits, and sizes at, and *)
(* on both sides of, powers of two.                                        *)
(***************************************************************************)
EXTENDS SlotMap

SomeRequests == {1, 100, 4095, 4096, 4097, 5000}
=============================================================================
