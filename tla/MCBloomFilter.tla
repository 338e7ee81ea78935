--------------------------- MODULE MCBloomFilter ---------------------------
(***************************************************************************)
(* A small instance of BloomFilter for TLC.                                *)
(***************************************************************************)
EXTENDS BloomFilter

\* Five bits per key: ten bits for two keys, aligned to sixteen.
FiveAndTwelve == [f \in Filters |-> IF f = "five" THEN 5 ELSE 12]
=============================================================================
