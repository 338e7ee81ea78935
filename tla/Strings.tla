------------------------------- MODULE Strings -------------------------------
(***************************************************************************)
(* TrimLeft and TrimRight (strutil.cpp), and what the code uses of         *)
(* std::string.  A string is a sequence of characters; a run of letters no *)
(* test tells apart is one character.                                      *)
(***************************************************************************)
EXTENDS Integers, SequencesExt

\* "é" stands for the bytes from 0x80 on: negative as char, so not above ' '.
NonAscii == {"é"}
Blanks == {" "} \cup NonAscii
Above(c) == c \notin Blanks

\* Positions start at 1, and 0 is npos.
find(s, set) == SelectInSeq(s, LAMBDA c : c \in set)

TrimLeft(value) ==
    LET first == SelectInSeq(value, Above) IN
    IF first = 0 THEN <<>> ELSE SubSeq(value, first, Len(value))

TrimRight(value) == SubSeq(value, 1, SelectLastInSeq(value, Above))
=============================================================================
