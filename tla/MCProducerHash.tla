--------------------------- MODULE MCProducerHash ---------------------------
(* Two ids that collide in every table, used again by later threads.  The    *)
(* first table is as small as it can be, so that each new thread makes a     *)
(* larger one.                                                               *)
EXTENDS ProducerHash, TLC
CONSTANTS t1, t2
ThreadsDef == {t1, t2}
HashDef == t1 :> 0 @@ t2 :> 0
===============================================================================
