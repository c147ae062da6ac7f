------------------------- MODULE MCImplicitProducer -------------------------
(* Blocks of two items and an index of one entry: four items fill two        *)
(* blocks, the index grows, and the one block of the pool is reused or       *)
(* another is allocated.                                                     *)
EXTENDS ImplicitProducer, TLC
CONSTANTS c1, c2, b1, b2
ConsumersDef == {c1, c2}
InitialBlocksDef == {b1}
OtherBlocksDef == {b2}
===============================================================================
