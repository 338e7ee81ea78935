------------------------------- MODULE Coding -------------------------------
(***************************************************************************)
(* The encodings of include/xfutil/coding.h and src/coding.cpp.            *)
(*                                                                         *)
(* A word of w bits is the set of the positions of its ones, so that 64    *)
(* bits keep their width.  Memory is a sequence of cells: a cell is one    *)
(* byte, or the characters of a string as one piece of "len" bytes.        *)
(***************************************************************************)
EXTENDS Totals, SequencesExt

Words(w) == SUBSET (0 .. w - 1)
NoStr == "none"

ByteCell(bits) == [len |-> 1, bits |-> bits, str |-> NoStr]
BodyCell(str, len) == [len |-> len, bits |-> {}, str |-> str]
ByteLen(s) == Total([i \in DOMAIN s |-> s[i].len])

\* What the decoders return: success, the bits, the string and how many
\* cells "buf" has moved over.
Decoded(ok, bits, str, len, used) ==
    [ok |-> ok, bits |-> bits, str |-> str, len |-> len, used |-> used]
-----------------------------------------------------------------------------
\* EncodeFixed: w / 8 bytes, the lowest one first.  A float or a double is
\* the word with its bits.
EncodeFixed(v, w) ==
    [k \in 1 .. w \div 8 |-> ByteCell({b \in 0 .. 7 : 8 * (k - 1) + b \in v})]

DecodeFixed(s, w) ==
    IF Len(s) >= w \div 8
    THEN Decoded(TRUE, {i \in 0 .. w - 1 : i % 8 \in s[i \div 8 + 1].bits}, NoStr, 0, w \div 8)
    ELSE Decoded(FALSE, {}, NoStr, 0, 0)

\* (value << 1) ^ (value >> (w - 1)), the sign shifted in from above.
EncodeZigZag(v, w) ==
    {i \in 0 .. w - 1 : (i > 0 /\ i - 1 \in v) # (w - 1 \in v)}

\* (value >> 1) ^ -(value & 1)
DecodeZigZag(v, w) ==
    {i \in 0 .. w - 1 : (i + 1 < w /\ i + 1 \in v) # (0 \in v)}

\* The loop of EncodeVarint writes seven bits at a time while more than seven
\* are left.
VarintLen(v) == IF v = {} THEN 1 ELSE Max(v) \div 7 + 1

EncodeVarint(v) ==
    [k \in 1 .. VarintLen(v) |->
        ByteCell({b \in 0 .. 6 : 7 * (k - 1) + b \in v}
                    \cup (IF k < VarintLen(v) THEN {7} ELSE {}))]

\* DecodeVarint looks at ten bytes (shift < 64) at most, up to "end", for one
\* without the high bit.  Bits above the word are lost.
DecodeVarint(s, w) ==
    LET last == Min({10, Len(s)})
        stops == {k \in 1 .. last : 7 \notin s[k].bits}
        used == IF stops = {} THEN last ELSE Min(stops) IN
    Decoded(stops # {},
            {i \in 0 .. w - 1 : i \div 7 < used /\ i % 7 \in s[i \div 7 + 1].bits},
            NoStr, 0, used)

\* The length of a string as a word, and back.
LenWord(n) == {b \in 0 .. 30 : (n \div 2^b) % 2 = 1}
WordLen(v) == FoldSet(LAMBDA b, sum : 2^b + sum, 0, v)

EncodeString(str, len) ==
    EncodeVarint(LenWord(len)) \o (IF len = 0 THEN <<>> ELSE <<BodyCell(str, len)>>)

DecodeString(s) ==
    LET n == DecodeVarint(s, 64)
        len == WordLen(n.bits)
        rest == SubSeq(s, n.used + 1, Len(s)) IN
    IF ~n.ok \/ len > ByteLen(rest) THEN Decoded(FALSE, {}, NoStr, 0, n.used)
    ELSE IF len = 0 THEN Decoded(TRUE, {}, NoStr, 0, n.used)
    ELSE Decoded(TRUE, {}, rest[1].str, len, n.used + 1)
=============================================================================
