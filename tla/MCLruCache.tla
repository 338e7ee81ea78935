----------------------------- MODULE MCLruCache -----------------------------
(***************************************************************************)
(* Small instances of LruCache for TLC.                                    *)
(***************************************************************************)
EXTENDS LruCache

CONSTANTS k1, k2, k3

ThreeKeys == {k1, k2, k3}
Symmetry == Permutations(Keys)
=============================================================================
