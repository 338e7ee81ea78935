----------------------------- MODULE BloomFilter -----------------------------
(***************************************************************************)
(* xfutil::BloomFilter (src/bloom_filter.cpp).  Create sets the bits of    *)
(* its hashes in m_data; Attach takes over the data of another filter,     *)
(* which may have been made for another number of bits per key; Check      *)
(* tests the bits of one hash.                                             *)
(***************************************************************************)
EXTENDS Integers, SequencesExt

CONSTANTS Filters,      \* the filters
          BitNum,       \* bitnum_perkey of each filter
          HashBits,     \* the width of a hash, 32 in the code
          Hashes,       \* the hashes Create and Check are called with
          MaxCount      \* bound: hashes in one Create

ASSUME BloomFilterAssumption ==
    /\ BitNum \in [Filters -> Nat \ {0}]
    /\ HashBits \in Nat \ {0} /\ Hashes \subseteq 0 .. 2^HashBits - 1
    /\ MaxCount \in Nat

VARIABLES m_data,  \* each filter's bytes: their number and the ones in them
          keys,    \* history: the hashes of the Create behind the data
          probes   \* history: how many bits that Create set for each hash

bloomVars == <<m_data, keys, probes>>

BloomInit ==
    /\ m_data = [f \in Filters |-> [bytes |-> 0, ones |-> {}]]
    /\ keys = [f \in Filters |-> {}]
    /\ probes = [f \in Filters |-> 0]
-----------------------------------------------------------------------------
\* bitnum_perkey * 0.69314, at least 1 and at most 30.
m_k_num(f) == Max({1, Min({30, (BitNum[f] * 69314) \div 100000})})

\* (hc >> 1) | (hc << 31), j times.
Rotated(hc, j) ==
    LET r == j % HashBits IN (hc \div 2^r) + (hc % 2^r) * 2^(HashBits - r)

\* The bits of a hash among total_bits.
Bits(hc, k, total_bits) == {Rotated(hc, j) % total_bits : j \in 0 .. k - 1}

\* Mistake: the bits are spread before their number is aligned to bytes.
CreateUnaligned(f, hashs) ==
    LET total_bits == Len(hashs) * BitNum[f]
        bytes == (total_bits + 7) \div 8 IN
    /\ m_data' = [m_data EXCEPT ![f] =
         [bytes |-> bytes,
          ones |-> (@.ones \cap (0 .. bytes * 8 - 1))
                      \cup UNION {Bits(h, m_k_num(f), total_bits) : h \in ToSet(hashs)}]]
    /\ keys' = [keys EXCEPT ![f] = ToSet(hashs)]
    /\ probes' = [probes EXCEPT ![f] = m_k_num(f)]

\* Both forms of Create.  resize keeps the bytes that are there; nothing
\* clears them.
Create(f, hashs) ==
    LET bytes == (Len(hashs) * BitNum[f] + 7) \div 8
        total_bits == bytes * 8 IN
    /\ m_data' = [m_data EXCEPT ![f] =
         [bytes |-> bytes,
          ones |-> (@.ones \cap (0 .. total_bits - 1))
                      \cup UNION {Bits(h, m_k_num(f), total_bits) : h \in ToSet(hashs)}]]
    /\ keys' = [keys EXCEPT ![f] = ToSet(hashs)]
    /\ probes' = [probes EXCEPT ![f] = m_k_num(f)]

\* Attach the Data() of filter g.
Attach(f, g) ==
    /\ m_data' = [m_data EXCEPT ![f] = m_data[g]]
    /\ keys' = [keys EXCEPT ![f] = keys[g]]
    /\ probes' = [probes EXCEPT ![f] = probes[g]]

Check(f, hc) ==
    m_data[f].bytes # 0 =>
        \A j \in 0 .. m_k_num(f) - 1 : Rotated(hc, j) % (m_data[f].bytes * 8) \in m_data[f].ones

BloomNext ==
    \/ \E f \in Filters, hashs \in SeqOf(Hashes, MaxCount) \ {<<>>} : Create(f, hashs)
    \/ \E f, g \in Filters : f # g /\ Attach(f, g)

BloomSpec == BloomInit /\ [][BloomNext]_bloomVars
-----------------------------------------------------------------------------
\* No false negative: a filter admits every hash of the Create that made its
\* data, whatever it held before and through Attach; unless the data was made
\* with fewer bits per key, so that Check looks for bits nobody set.
NoFalseNegative ==
    \A f \in Filters : m_k_num(f) <= probes[f] => \A h \in keys[f] : Check(f, h)
=============================================================================
