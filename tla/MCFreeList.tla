----------------------------- MODULE MCFreeList -----------------------------
(* Three threads on two blocks: while one thread is at a step of an          *)
(* operation, the others can take, release and take a block again.           *)
EXTENDS FreeList, TLC
CONSTANTS t1, t2, t3, n1, n2
ThreadsDef == {t1, t2, t3}
NodesDef == {n1, n2}
===============================================================================
