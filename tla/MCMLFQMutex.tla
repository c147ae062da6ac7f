---------------------------- MODULE MCMLFQMutex ----------------------------
(***************************************************************************)
(* Instances of MLFQMutex for TLC.                                         *)
(***************************************************************************)
EXTENDS MLFQMutexLine, TLC

CONSTANTS t1, t2, t3

TwoThreads == {t1, t2}
ThreeThreads == {t1, t2, t3}
OnePrinter == {t1}
None == {}

OthersSymmetry == Permutations({t2, t3})   \* t1 prints

\* In ticks of a quarter of a second.
UnderASecond == {3}
NothingOrASecond == {0, 4}
ASecond == {4}

LooksEmpty == {"empty"}
AnyMemory == {"empty", "garbage"}
NeverRehash == {}
RehashAtOne == {1}
RehashTwice == {1, 3}   \* breaks the mutex, see README.md
=============================================================================
