---------------------------- MODULE MCMemoryPool ----------------------------
(***************************************************************************)
(* Small instances of MemoryPool for TLC.                                  *)
(***************************************************************************)
EXTENDS MemoryPool

CONSTANTS t1, t2

TwoThreads == {t1, t2}
OneThread == {t1}

Symmetry == Permutations(Threads)
=============================================================================
