--------------------------- MODULE MCBlockingQueue ---------------------------
(***************************************************************************)
(* Small instances of BlockingQueue for TLC.                               *)
(***************************************************************************)
EXTENDS BlockingQueue, TLC

CONSTANTS t1, t2, t3, t4, a, b

ThreeThreads == {t1, t2, t3}
FourThreads == {t1, t2, t3, t4}
TwoItems == {a, b}
OneItem == {a}

EveryOp == PushOps \cup PopOps
UntimedOps == {"Push", "Pop"}

\* Threads and values are interchangeable; used by safety runs only.
Symmetry == Permutations(Threads) \cup Permutations(Items)
=============================================================================
