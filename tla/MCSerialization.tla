-------------------------- MODULE MCSerialization --------------------------
(***************************************************************************)
(* Small instances of Serialization for TLC.                               *)
(***************************************************************************)
EXTENDS Serialization

Number(kind, w, bits) == [kind |-> kind, w |-> w, bits |-> bits, str |-> NoStr, len |-> 0]
String(str, len) == [kind |-> "string", w |-> 64, bits |-> {}, str |-> str, len |-> len]

\* The longest varint, and a string that leaves nine bytes of a block of 4096
\* for it; the least negative number; a string just above a block; an empty
\* one.
BoundaryFields ==
    {Number("varint", 64, 0 .. 63), Number("zigzag", 16, {15}), Number("fixed", 32, {0, 31}),
     String("nine", 4085), String("large", 4094), String(NoStr, 0)}
=============================================================================
