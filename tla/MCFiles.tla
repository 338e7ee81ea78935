------------------------------- MODULE MCFiles -------------------------------
(* A small tree for TLC: d holds a file and a directory with a file in it,  *)
(* or is not there yet; g is a file of two buffers.                         *)
EXTENDS Files

CONSTANTS t1, t2

TwoThreads == {t1, t2}
Symmetry == Permutations(TwoThreads)
d == <<"d">>
de == <<"d", "e">>
g == <<"g">>
df == <<"d", "f">>

FiveNames == {"d", "e", "f", "g", "h"}
FiveInodes == 1 .. 5
Buffers == {"a", "b", "c"}
Contents == [i \in FiveInodes |-> CASE i = 1 -> <<"a", "b">> [] i = 2 -> <<"c">> [] OTHER -> <<>>]
Bare == [fs |-> (g :> Regular(1)), data |-> Contents]
Full ==
    [fs |-> (g :> Regular(1)) @@ (d :> Dir(TRUE)) @@ (de :> Dir(TRUE)) @@ (df :> Regular(2))
            @@ (<<"d", "e", "f">> :> Regular(3)),
     data |-> Contents]
BareAndFull == {Bare, Full}

Directories == {d, de, g}
DirectoryMoves == {<<de, <<"h">>>>}
CopyPairs == {<<g, df>>, <<df, g>>, <<d, g>>, <<g, g>>}
FileNames == {df}
=============================================================================
