------------------------ MODULE SerializationProofs ------------------------
(***************************************************************************)
(* Proofs about WriteBuffer, BlockBuffer and Packer on one BlockPool:      *)
(* every block is in one place, Pack stays inside its block, Write hands   *)
(* out allocated space, and the same space once.                           *)
(***************************************************************************)
EXTENDS Serialization, BlockPoolProofs
-----------------------------------------------------------------------------
(***************************************************************************)
(* Sequences.                                                              *)
(***************************************************************************)
(***************************************************************************)
(* What is encoded, and how long it is.                                    *)
(***************************************************************************)
Cells == [len : Nat, bits : SUBSET (0 .. 7), str : {NoStr} \cup {f.str : f \in Fields}]
Lens(s) == [i \in DOMAIN s |-> s[i].len]

\* The longest strings whose length fits into the three bytes kept for it.
ShortStrings == \A f \in Fields : f.kind = "string" => LenWord(f.len) \subseteq 0 .. 20

\* The byte length of two pieces is the sum of theirs.
LEMMA ByteLenConcat ==
    ASSUME NEW s \in Seq(Cells), NEW t \in Seq(Cells)
    PROVE  ByteLen(s) \in Nat /\ ByteLen(s \o t) = ByteLen(s) + ByteLen(t)
  <1>1. \A c \in Cells : c.len \in Nat
    BY DEF Cells
  <1>2. ASSUME NEW r \in Seq(Cells)
        PROVE  Lens(r) \in Seq(Nat) /\ Len(Lens(r)) = Len(r)
    <2>1. Len(r) \in Nat /\ DOMAIN r = 1 .. Len(r) /\ \A i \in 1 .. Len(r) : r[i] \in Cells
      OBVIOUS
    <2>2. Lens(r) \in [1 .. Len(r) -> Nat]
      BY <1>1, <2>1 DEF Lens
    <2> QED
      BY <2>1, <2>2
  <1>3. Lens(s \o t) = Lens(s) \o Lens(t)
    <2> DEFINE m == Len(s)
               n == Len(t)
    <2>1. /\ m \in Nat /\ n \in Nat /\ s \o t \in Seq(Cells) /\ Len(s \o t) = m + n
          /\ DOMAIN s = 1 .. m /\ DOMAIN t = 1 .. n /\ DOMAIN (s \o t) = 1 .. m + n
          /\ \A i \in 1 .. m + n : (s \o t)[i] = IF i <= m THEN s[i] ELSE t[i - m]
      BY ConcatPlaces
    <2>2. /\ Lens(s) \in Seq(Nat) /\ Lens(t) \in Seq(Nat) /\ Lens(s \o t) \in Seq(Nat)
          /\ Len(Lens(s)) = m /\ Len(Lens(t)) = n /\ Len(Lens(s \o t)) = m + n
      BY <1>2, <2>1
    <2>3. \A i \in 1 .. m + n : Lens(s \o t)[i] = IF i <= m THEN Lens(s)[i] ELSE Lens(t)[i - m]
      <3> HIDE DEF m, n
      <3>1. SUFFICES ASSUME NEW i \in 1 .. m + n
                     PROVE  Lens(s \o t)[i] = IF i <= m THEN Lens(s)[i] ELSE Lens(t)[i - m]
        OBVIOUS
      <3>2. Lens(s \o t)[i] = (s \o t)[i].len
        BY <2>1 DEF Lens
      <3>3. CASE i <= m
        <4>1. i \in 1 .. m /\ Lens(s)[i] = s[i].len
          BY <2>1, <3>3 DEF Lens
        <4> QED
          BY <2>1, <3>2, <3>3, <4>1
      <3>4. CASE ~ (i <= m)
        <4>1. i - m \in 1 .. n /\ Lens(t)[i - m] = t[i - m].len
          BY <2>1, <3>4 DEF Lens
        <4> QED
          BY <2>1, <3>2, <3>4, <4>1
      <3> QED
        BY <3>3, <3>4
    <2>4. /\ Lens(s) \o Lens(t) \in Seq(Nat) /\ Len(Lens(s) \o Lens(t)) = m + n
          /\ \A i \in 1 .. m + n :
               (Lens(s) \o Lens(t))[i] = IF i <= m THEN Lens(s)[i] ELSE Lens(t)[i - m]
      <3> DEFINE a == Lens(s)
                 b == Lens(t)
      <3>1. a \in Seq(Nat) /\ b \in Seq(Nat) /\ Len(a) = m /\ Len(b) = n
        BY <2>2
      <3> HIDE DEF a, b, m, n
      <3>2. /\ a \o b \in Seq(Nat) /\ Len(a \o b) = m + n
            /\ \A i \in 1 .. m + n : (a \o b)[i] = IF i <= m THEN a[i] ELSE b[i - m]
        <4>1. /\ a \o b \in Seq(Nat) /\ Len(a \o b) = Len(a) + Len(b)
              /\ \A i \in 1 .. Len(a) + Len(b) :
                   (a \o b)[i] = IF i <= Len(a) THEN a[i] ELSE b[i - Len(a)]
          BY <3>1, ConcatPlaces
        <4> QED
          BY <3>1, <4>1
      <3> QED
        BY <3>2 DEF a, b
    <2> HIDE DEF m, n
    <2>5. \A i \in 1 .. m + n : Lens(s \o t)[i] = (Lens(s) \o Lens(t))[i]
      BY <2>3, <2>4
    <2> QED
      BY <2>2, <2>4, <2>5, SeqsEqual
  <1>4. Lens(s) \in Seq(Nat) /\ Lens(t) \in Seq(Nat)
    BY <1>2
  <1>5. \A r : ByteLen(r) = Total(Lens(r))
    BY DEF ByteLen, Lens
  <1> QED
    BY <1>3, <1>4, <1>5, TotalConcat

\* Bytes one by one are as many as their length.
LEMMA ByteLenBytes ==
    ASSUME NEW s \in Seq(Cells), \A i \in 1 .. Len(s) : s[i].len = 1
    PROVE  ByteLen(s) = Len(s)
  <1>1. Len(s) \in Nat /\ DOMAIN s = 1 .. Len(s)
    OBVIOUS
  <1>2. Lens(s) \in [1 .. Len(s) -> Nat] /\ \A i \in 1 .. Len(s) : Lens(s)[i] = 1
    BY <1>1 DEF Lens
  <1>3. Lens(s) \in Seq(Nat) /\ Len(Lens(s)) = Len(s)
    BY <1>1, <1>2
  <1>4. ByteLen(s) = Total(Lens(s))
    BY DEF ByteLen, Lens
  <1> QED
    BY <1>2, <1>3, <1>4, TotalOnes

\* EncodeFixed writes w / 8 bytes.
LEMMA FixedLen ==
    ASSUME NEW v, NEW w \in {8, 16, 32, 64}
    PROVE  EncodeFixed(v, w) \in Seq(Cells) /\ ByteLen(EncodeFixed(v, w)) = w \div 8
  <1>1. w \div 8 \in Nat
    OBVIOUS
  <1>2. \A k \in 1 .. w \div 8 :
          ByteCell({b \in 0 .. 7 : 8 * (k - 1) + b \in v}) \in Cells
    BY DEF ByteCell, Cells
  <1>3. EncodeFixed(v, w) \in [1 .. w \div 8 -> Cells]
    BY <1>2 DEF EncodeFixed
  <1>4. EncodeFixed(v, w) \in Seq(Cells) /\ Len(EncodeFixed(v, w)) = w \div 8
    BY <1>1, <1>3
  <1>5. \A i \in 1 .. w \div 8 : EncodeFixed(v, w)[i].len = 1
    BY DEF EncodeFixed, ByteCell
  <1> QED
    BY <1>4, <1>5, ByteLenBytes

\* The highest one of a word.
LEMMA MaxOfWord ==
    ASSUME NEW w \in Nat, NEW v \in Words(w), v # {}
    PROVE  Max(v) \in v
  <1> DEFINE below == {w - x : x \in v}
  <1>1. \A x \in v : x \in Nat /\ x <= w - 1
    BY DEF Words
  <1>2. below \in SUBSET Nat /\ below # {}
    BY <1>1
  <1>3. PICK n \in below : \A m \in below : n <= m
    <2> HIDE DEF below
    <2> QED
      BY <1>2, LeastNat
  <1>4. PICK x \in v : n = w - x
    BY <1>3
  <1>5. \A y \in v : w - x <= w - y
    BY <1>3, <1>4
  <1>6. \A y \in v : x >= y
    BY <1>1, <1>5
  <1>7. \E y \in v : \A z \in v : y >= z
    BY <1>6
  <1> QED
    BY <1>7, Zenon DEF Max

\* EncodeVarint writes a byte for each seven bits.
LEMMA VarintBytes ==
    ASSUME NEW w \in Nat, NEW v \in Words(w)
    PROVE  /\ EncodeVarint(v) \in Seq(Cells) /\ VarintLen(v) \in Nat
           /\ ByteLen(EncodeVarint(v)) = VarintLen(v)
           /\ w # 0 => VarintLen(v) <= (w - 1) \div 7 + 1
  <1>1. VarintLen(v) \in Nat /\ (w # 0 => VarintLen(v) <= (w - 1) \div 7 + 1)
    <2>1. CASE v = {}
      BY <2>1 DEF VarintLen
    <2>2. CASE v # {}
      <3>1. Max(v) \in 0 .. w - 1
        BY <2>2, MaxOfWord DEF Words
      <3>2. VarintLen(v) = Max(v) \div 7 + 1
        BY <2>2 DEF VarintLen
      <3> QED
        BY <3>1, <3>2
    <2> QED
      BY <2>1, <2>2
  <1>2. \A k \in 1 .. VarintLen(v) :
          ByteCell({b \in 0 .. 6 : 7 * (k - 1) + b \in v}
                     \cup (IF k < VarintLen(v) THEN {7} ELSE {})) \in Cells
    BY DEF ByteCell, Cells
  <1>3. EncodeVarint(v) \in [1 .. VarintLen(v) -> Cells]
    BY <1>2 DEF EncodeVarint
  <1>4. EncodeVarint(v) \in Seq(Cells) /\ Len(EncodeVarint(v)) = VarintLen(v)
    BY <1>1, <1>3
  <1>5. \A i \in 1 .. VarintLen(v) : EncodeVarint(v)[i].len = 1
    BY DEF EncodeVarint, ByteCell
  <1> QED
    BY <1>1, <1>4, <1>5, ByteLenBytes

\* Pack asks room for at least what it encodes, unless a string is too long.
LEMMA NeedEnough ==
    ASSUME NEW f \in Fields
    PROVE  /\ Encode(f) \in Seq(Cells) /\ ByteLen(Encode(f)) \in Nat
           /\ Need(f) \in Nat \ {0}
           /\ ShortStrings => ByteLen(Encode(f)) <= Need(f)
  <1>0. /\ f.kind \in Kinds /\ f.w \in {8, 16, 32, 64}
        /\ f.bits \in Words(f.w) /\ f.len \in Nat
        /\ f.kind \in {"varint", "zigzag"} => f.w # 8
    BY PackingAssumption
  <1>1. CASE f.kind = "fixed"
    <2>1. Encode(f) = EncodeFixed(f.bits, f.w) /\ Need(f) = f.w \div 8
      BY <1>1 DEF Encode, Need
    <2> QED
      BY <1>0, <2>1, FixedLen
  <1>2. ASSUME NEW v \in Words(f.w), f.w # 8
        PROVE  /\ EncodeVarint(v) \in Seq(Cells) /\ ByteLen(EncodeVarint(v)) \in Nat
               /\ MaxVarintSize(f.w) \in Nat \ {0}
               /\ ByteLen(EncodeVarint(v)) <= MaxVarintSize(f.w)
    <2>1. CASE f.w = 16
      BY <1>2, <2>1, VarintBytes DEF MaxVarintSize, MAX_V16_SIZE
    <2>2. CASE f.w = 32
      BY <1>2, <2>2, VarintBytes DEF MaxVarintSize
    <2>3. CASE f.w = 64
      BY <1>2, <2>3, VarintBytes DEF MaxVarintSize
    <2> QED
      BY <1>0, <1>2, <2>1, <2>2, <2>3
  <1>3. CASE f.kind = "varint"
    <2>1. Encode(f) = EncodeVarint(f.bits) /\ Need(f) = MaxVarintSize(f.w)
      BY <1>3 DEF Encode, Need
    <2> QED
      BY <1>0, <1>2, <1>3, <2>1
  <1>4. CASE f.kind = "zigzag"
    <2>1. /\ Encode(f) = EncodeVarint(EncodeZigZag(f.bits, f.w)) /\ Need(f) = MaxVarintSize(f.w)
          /\ EncodeZigZag(f.bits, f.w) \in Words(f.w)
      BY <1>4 DEF Encode, Need, EncodeZigZag, Words
    <2> QED
      BY <1>0, <1>2, <1>4, <2>1
  <1>5. CASE f.kind = "string"
    <2> DEFINE length == EncodeVarint(LenWord(f.len))
               body == IF f.len = 0 THEN <<>> ELSE <<BodyCell(f.str, f.len)>>
    <2>1. Encode(f) = length \o body /\ Need(f) = 3 + f.len
      BY <1>5 DEF Encode, Need, EncodeString, MAX_V16_SIZE
    <2>2. LenWord(f.len) \in Words(31)
      BY DEF LenWord, Words
    <2>3. length \in Seq(Cells) /\ ByteLen(length) \in Nat
      BY <2>2, VarintBytes
    <2>4. ShortStrings => ByteLen(length) <= 3
      <3>1. ShortStrings => LenWord(f.len) \in Words(21)
        BY <1>5 DEF ShortStrings, Words
      <3> QED
        BY <3>1, VarintBytes
    <2>5. body \in Seq(Cells) /\ ByteLen(body) = f.len
      <3>1. CASE f.len = 0
        BY <3>1, TotalConcat DEF ByteLen
      <3>2. CASE f.len # 0
        <4>1. BodyCell(f.str, f.len) \in Cells /\ BodyCell(f.str, f.len).len = f.len
          BY <1>0 DEF BodyCell, Cells
        <4>2. body = <<BodyCell(f.str, f.len)>>
          BY <3>2
        <4>3. Lens(body) = <<f.len>> /\ body \in Seq(Cells)
          BY <4>1, <4>2 DEF Lens
        <4>4. ByteLen(body) = Total(Lens(body))
          BY DEF ByteLen, Lens
        <4> QED
          BY <1>0, <4>3, <4>4, TotalConcat
      <3> QED
        BY <3>1, <3>2
    <2> HIDE DEF length, body
    <2> QED
      BY <1>0, <2>1, <2>3, <2>4, <2>5, ByteLenConcat
  <1> QED
    BY <1>0, <1>1, <1>3, <1>4, <1>5 DEF Kinds
-----------------------------------------------------------------------------
(***************************************************************************)
(* A sequence of blocks of which the first k have been given back.         *)
(***************************************************************************)
Held(s, k) == {s[i] : i \in k + 1 .. Len(s)}
Once(s, k) == \A i, j \in k + 1 .. Len(s) : s[i] = s[j] => i = j

\* A block that is not held is added.
LEMMA HeldAppend ==
    ASSUME NEW S, NEW s \in Seq(S), NEW e \in S, NEW k \in Nat, k <= Len(s), Once(s, k), e \notin Held(s, k)
    PROVE  /\ Append(s, e) \in Seq(S) /\ Len(Append(s, e)) = Len(s) + 1
           /\ Held(Append(s, e), k) = Held(s, k) \cup {e} /\ Once(Append(s, e), k)
  <1>1. PICK t : t = Append(s, e)
    OBVIOUS
  <1>2. /\ Len(s) \in Nat /\ Len(t) = Len(s) + 1 /\ t[Len(s) + 1] = e /\ t \in Seq(S)
        /\ \A i \in 1 .. Len(s) : t[i] = s[i]
    BY <1>1
  <1>3. \A i \in k + 1 .. Len(t) : i = Len(s) + 1 \/ (i \in k + 1 .. Len(s) /\ t[i] = s[i])
    BY <1>2
  <1>4. \A i \in k + 1 .. Len(s) : s[i] \in Held(s, k) /\ i \in k + 1 .. Len(t) /\ t[i] = s[i]
    BY <1>2 DEF Held
  <1>5. Len(s) + 1 \in k + 1 .. Len(t)
    BY <1>2
  <1>6. Held(t, k) \subseteq Held(s, k) \cup {e}
    BY <1>2, <1>3, <1>4 DEF Held
  <1>7. Held(s, k) \cup {e} \subseteq Held(t, k)
    BY <1>2, <1>4, <1>5 DEF Held
  <1>8. Once(t, k)
    <2> SUFFICES ASSUME NEW i \in k + 1 .. Len(t), NEW j \in k + 1 .. Len(t), t[i] = t[j]
                 PROVE  i = j
      BY DEF Once
    <2> QED
      BY <1>2, <1>3, <1>4 DEF Once
  <1> QED
    BY <1>1, <1>2, <1>6, <1>7, <1>8

\* The next one is given back.
LEMMA HeldNext ==
    ASSUME NEW S, NEW s \in Seq(S), NEW k \in Nat, k < Len(s), Once(s, k)
    PROVE  /\ s[k + 1] \in S /\ s[k + 1] \in Held(s, k)
           /\ Held(s, k + 1) = Held(s, k) \ {s[k + 1]} /\ Once(s, k + 1)
           /\ k + 1 = Len(s) => Held(s, k + 1) = {}
  <1>1. Len(s) \in Nat /\ k + 1 \in k + 1 .. Len(s) /\ k + 1 \in 1 .. Len(s)
    OBVIOUS
  <1>2. \A i \in (k + 1) + 1 .. Len(s) : i \in k + 1 .. Len(s) /\ i # k + 1
    BY <1>1
  <1>3. \A i \in k + 1 .. Len(s) : i # k + 1 => i \in (k + 1) + 1 .. Len(s)
    BY <1>1
  <1>4. k + 1 = Len(s) => Held(s, k + 1) = {}
    BY <1>1 DEF Held
  <1>5. s[k + 1] \in S /\ s[k + 1] \in Held(s, k)
    BY <1>1 DEF Held
  <1>6. Held(s, k + 1) \subseteq Held(s, k) \ {s[k + 1]}
    BY <1>1, <1>2 DEF Held, Once
  <1>7. Held(s, k) \ {s[k + 1]} \subseteq Held(s, k + 1)
    BY <1>1, <1>3 DEF Held
  <1>8. Once(s, k + 1)
    BY <1>2 DEF Once
  <1> QED
    BY <1>4, <1>5, <1>6, <1>7, <1>8

\* The rest of a sequence.
LEMMA HeldRest ==
    ASSUME NEW S, NEW s \in Seq(S), NEW k \in Nat, k <= Len(s), Once(s, k)
    PROVE  LET r == SubSeq(s, k + 1, Len(s)) IN
           r \in Seq(S) /\ IsInjective(r) /\ ToSet(r) = Held(s, k)
  <1>1. PICK r : r = SubSeq(s, k + 1, Len(s))
    OBVIOUS
  <1>2. /\ Len(s) \in Nat /\ r \in Seq(S) /\ DOMAIN r = 1 .. Len(s) - k
        /\ \A i \in 1 .. Len(s) - k : r[i] = s[k + i]
    BY <1>1
  <1>3. \A i \in 1 .. Len(s) - k : k + i \in k + 1 .. Len(s)
    BY <1>2
  <1>4. \A i \in k + 1 .. Len(s) : i - k \in 1 .. Len(s) - k /\ k + (i - k) = i
    BY <1>2
  <1>5. IsInjective(r)
    <2> SUFFICES ASSUME NEW i \in DOMAIN r, NEW j \in DOMAIN r, r[i] = r[j]
                 PROVE  i = j
      BY DEF IsInjective
    <2>1. k + i = k + j
      BY <1>2, <1>3 DEF Once
    <2> QED
      BY <1>2, <2>1
  <1>6. ToSet(r) \subseteq Held(s, k)
    BY <1>2, <1>3 DEF ToSet, Held
  <1>7. Held(s, k) \subseteq ToSet(r)
    <2> SUFFICES ASSUME NEW i \in k + 1 .. Len(s)
                 PROVE  s[i] \in ToSet(r)
      BY DEF Held
    <2>1. i - k \in DOMAIN r /\ r[i - k] = s[i]
      BY <1>2, <1>4
    <2> QED
      BY <2>1 DEF ToSet
  <1> QED
    BY <1>1, <1>2, <1>5, <1>6, <1>7

\* One injective sequence behind another with nothing in common.
LEMMA InjectiveConcat ==
    ASSUME NEW S, NEW a \in Seq(S), NEW b \in Seq(S), IsInjective(a), IsInjective(b),
           ToSet(a) \cap ToSet(b) = {}
    PROVE  a \o b \in Seq(S) /\ IsInjective(a \o b) /\ ToSet(a \o b) = ToSet(a) \cup ToSet(b)
  <1>1. PICK c : c = a \o b
    OBVIOUS
  <1>2. /\ Len(a) \in Nat /\ Len(b) \in Nat /\ c \in Seq(S)
        /\ DOMAIN a = 1 .. Len(a) /\ DOMAIN b = 1 .. Len(b) /\ DOMAIN c = 1 .. Len(a) + Len(b)
        /\ \A i \in 1 .. Len(a) + Len(b) : c[i] = IF i <= Len(a) THEN a[i] ELSE b[i - Len(a)]
    BY <1>1, ConcatPlaces
  <1>3. \A i \in DOMAIN c : \/ i \in DOMAIN a /\ c[i] = a[i] /\ c[i] \in ToSet(a)
                            \/ i - Len(a) \in DOMAIN b /\ c[i] = b[i - Len(a)] /\ c[i] \in ToSet(b)
    BY <1>2 DEF ToSet
  <1>4. \A i \in DOMAIN a : i \in DOMAIN c /\ c[i] = a[i]
    BY <1>2
  <1>5. \A i \in DOMAIN b : Len(a) + i \in DOMAIN c /\ c[Len(a) + i] = b[i]
    BY <1>2
  <1>6. IsInjective(c)
    <2> SUFFICES ASSUME NEW i \in DOMAIN c, NEW j \in DOMAIN c, c[i] = c[j]
                 PROVE  i = j
      BY DEF IsInjective
    <2>1. CASE i \in DOMAIN a /\ c[i] = a[i] /\ c[i] \in ToSet(a)
      <3>1. j \in DOMAIN a /\ c[j] = a[j]
        BY <1>3, <2>1
      <3> QED
        BY <2>1, <3>1 DEF IsInjective
    <2>2. CASE i - Len(a) \in DOMAIN b /\ c[i] = b[i - Len(a)] /\ c[i] \in ToSet(b)
      <3>1. j - Len(a) \in DOMAIN b /\ c[j] = b[j - Len(a)]
        BY <1>3, <2>2
      <3>2. i - Len(a) = j - Len(a)
        BY <2>2, <3>1 DEF IsInjective
      <3> QED
        BY <1>2, <3>2
    <2> QED
      BY <1>3, <2>1, <2>2
  <1>7. ToSet(c) \subseteq ToSet(a) \cup ToSet(b)
    BY <1>3 DEF ToSet
  <1>8. ToSet(a) \cup ToSet(b) \subseteq ToSet(c)
    BY <1>4, <1>5 DEF ToSet
  <1> QED
    BY <1>1, <1>2, <1>6, <1>7, <1>8
-----------------------------------------------------------------------------
(***************************************************************************)
(* The invariant.                                                          *)
(***************************************************************************)
PackedBlocks == [buf : Blocks \cup LargeAddrs, capacity : Nat, size : Nat, data : Seq(Cells)]
Bufs == [i \in DOMAIN m_blocks |-> m_blocks[i].buf]

\* The blocks that Clear and that Free still have to give back.
WriterBlocks == Held(wbuf.m_blocks, cleared)
PackerBlocks == Held(Bufs, freed)

WriterTypes ==
    /\ wbuf \in [m_ptr : Nat, m_size : Nat, m_usage : Nat, m_blocks : Seq(Blocks), m_bufs : Seq(Extents)]
    /\ cleared \in Nat /\ cleared <= Len(wbuf.m_blocks)
    /\ cleared # 0 => cleared < Len(wbuf.m_blocks)
    /\ regions \in Seq(Extents)

\* A block of the pool has the capacity of one, a larger one has more.
PackerTypes ==
    /\ m_blocks \in Seq(PackedBlocks)
    /\ freed \in Nat /\ freed <= Len(m_blocks)
    /\ freed # 0 => freed < Len(m_blocks) /\ m_block = 0
    /\ m_block \in 0 .. Len(m_blocks)
    /\ \A i \in 1 .. Len(m_blocks) : (m_blocks[i].capacity = BlockSize) <=> (m_blocks[i].buf \in Blocks)

\* Every block is held once, and what the pool has lent is held.
Holding ==
    /\ PoolSound(CachedBlocks)
    /\ Once(wbuf.m_blocks, cleared) /\ Once(Bufs, freed)
    /\ WriterBlocks \cap PackerBlocks = {}
    /\ Lent(CachedBlocks) = WriterBlocks \cup (PackerBlocks \ LargeAddrs)

Sharing == WriterTypes /\ PackerTypes /\ Holding

\* The addresses of the Blocks are a sequence too.
LEMMA BufsPlaces ==
    ASSUME PackerTypes
    PROVE  /\ Bufs \in Seq(Blocks \cup LargeAddrs) /\ Len(Bufs) = Len(m_blocks) /\ Len(m_blocks) \in Nat
           /\ DOMAIN m_blocks = 1 .. Len(m_blocks)
           /\ \A i \in 1 .. Len(m_blocks) : m_blocks[i] \in PackedBlocks /\ Bufs[i] = m_blocks[i].buf
  <1>1. /\ Len(m_blocks) \in Nat /\ DOMAIN m_blocks = 1 .. Len(m_blocks)
        /\ \A i \in 1 .. Len(m_blocks) : m_blocks[i] \in PackedBlocks
    BY DEF PackerTypes
  <1>2. Bufs \in [1 .. Len(m_blocks) -> Blocks \cup LargeAddrs]
    BY <1>1 DEF Bufs, PackedBlocks
  <1>3. \A i \in 1 .. Len(m_blocks) : Bufs[i] = m_blocks[i].buf
    BY <1>1 DEF Bufs
  <1> QED
    BY <1>1, <1>2, <1>3

\* BlocksShared says it of the sequences themselves.
LEMMA SharingShared == Sharing => BlocksShared
  <1> SUFFICES ASSUME Sharing PROVE BlocksShared
    OBVIOUS
  <1> USE DEF Sharing
  <1> DEFINE addresses == Blocks \cup LargeAddrs
             w == SubSeq(wbuf.m_blocks, cleared + 1, Len(wbuf.m_blocks))
             p == SubSeq(Bufs, freed + 1, Len(Bufs))
  <1>1. m_free_blocks \in Seq(addresses) /\ IsInjective(m_free_blocks)
    <2>1. m_free_blocks \in Seq(CachedBlocks) /\ CachedBlocks \subseteq addresses
      BY DEF Holding, PoolSound, Blocks
    <2> HIDE DEF addresses
    <2>2. m_free_blocks \in Seq(addresses)
      BY <2>1
    <2> QED
      BY <2>2 DEF Holding, PoolSound
  <1>2. w \in Seq(addresses) /\ IsInjective(w) /\ ToSet(w) = WriterBlocks
    <2>1. PICK s : s = wbuf.m_blocks
      OBVIOUS
    <2>2. s \in Seq(Blocks) /\ cleared \in Nat /\ cleared <= Len(s) /\ Once(s, cleared)
      BY <2>1 DEF WriterTypes, Holding
    <2>3. s \in Seq(addresses)
      <3>1. Blocks \subseteq addresses
        OBVIOUS
      <3> HIDE DEF addresses
      <3> QED
        BY <2>2, <3>1
    <2> HIDE DEF addresses
    <2> QED
      BY <2>1, <2>2, <2>3, HeldRest DEF WriterBlocks
  <1>3. p \in Seq(addresses) /\ IsInjective(p) /\ ToSet(p) = PackerBlocks
    <2>1. PICK s : s = Bufs
      OBVIOUS
    <2>2. s \in Seq(addresses) /\ freed \in Nat /\ freed <= Len(s) /\ Once(s, freed)
      BY <2>1, BufsPlaces DEF PackerTypes, Holding
    <2> HIDE DEF addresses
    <2> QED
      BY <2>1, <2>2, HeldRest DEF PackerBlocks
  <1> HIDE DEF addresses, w, p
  <1>4. ToSet(m_free_blocks) \subseteq CachedBlocks
    BY DEF Holding, PoolSound, ToSet
  <1>5. /\ CachedBlocks \cap LargeAddrs = {} /\ heap \cap LargeAddrs = {}
        /\ heap \cap CachedBlocks = {} /\ heap \subseteq Blocks /\ CachedBlocks \subseteq Blocks
    BY PackingAssumption, BlockAddresses DEF Holding, PoolSound, Blocks
  <1>6. Lent(CachedBlocks) \cap ToSet(m_free_blocks) = {}
    BY DEF Lent
  <1>7. ToSet(m_free_blocks) \cap WriterBlocks = {}
    BY <1>6 DEF Holding
  <1>8. (ToSet(m_free_blocks) \cup WriterBlocks) \cap PackerBlocks = {}
    BY <1>4, <1>5, <1>6 DEF Holding
  <1>9. PICK a : a = m_free_blocks \o w
    OBVIOUS
  <1>10. a \in Seq(addresses) /\ IsInjective(a) /\ ToSet(a) = ToSet(m_free_blocks) \cup WriterBlocks
    BY <1>1, <1>2, <1>7, <1>9, InjectiveConcat
  <1>11. /\ IsInjective(a \o p)
         /\ ToSet(a \o p) = ToSet(m_free_blocks) \cup WriterBlocks \cup PackerBlocks
    BY <1>3, <1>8, <1>10, InjectiveConcat
  <1>12. WriterBlocks \cap LargeAddrs = {}
    BY <1>5 DEF Holding, Lent
  <1>13. (ToSet(m_free_blocks) \cup WriterBlocks \cup PackerBlocks) \ LargeAddrs = CachedBlocks \cup heap
    BY <1>4, <1>5, <1>12 DEF Holding, Lent
  <1>14. Bufs = [i \in DOMAIN m_blocks |-> m_blocks[i].buf]
    BY DEF Bufs
  <1>15. BlocksShared = (IsInjective(m_free_blocks \o w \o p)
                           /\ ToSet(m_free_blocks \o w \o p) \ LargeAddrs = CachedBlocks \cup heap)
    BY DEF BlocksShared, w, p, Bufs
  <1> QED
    BY <1>9, <1>11, <1>13, <1>15
-----------------------------------------------------------------------------
(***************************************************************************)
(* The steps of the writer: what they do to the blocks.                    *)
(***************************************************************************)
\* Steps that leave the blocks of the writer and those of the packer alone.
LEMMA HoldingSame ==
    ASSUME Holding, UNCHANGED blockPoolVars,
           wbuf'.m_blocks = wbuf.m_blocks, cleared' = cleared, Bufs' = Bufs, freed' = freed
    PROVE  Holding'
  <1>1. m_free_blocks' = m_free_blocks /\ heap' = heap
    BY DEF blockPoolVars
  <1>2. WriterBlocks' = WriterBlocks /\ Once(wbuf'.m_blocks, cleared')
    BY DEF WriterBlocks, Held, Holding
  <1>3. PackerBlocks' = PackerBlocks /\ Once(Bufs', freed')
    BY DEF PackerBlocks, Held, Holding
  <1>4. PoolSound(CachedBlocks)' /\ Lent(CachedBlocks)' = Lent(CachedBlocks)
    BY <1>1 DEF PoolSound, Lent, Holding
  <1> QED
    BY <1>2, <1>3, <1>4 DEF Holding

\* No block is at an address of the heap's large blocks.
LEMMA LargeApart == Blocks \cap LargeAddrs = {} /\ BlockSize \in Nat \ {0} /\ BlockSize % 4096 = 0 /\ BlockSize >= 4096
  BY PackingAssumption, BlockPoolAssumption

\* AllocBlock lends a block nobody holds.
LEMMA AllocBlockLends ==
    ASSUME Holding, NEW b, AllocBlock(b)
    PROVE  /\ PoolSound(CachedBlocks)' /\ b \in Blocks /\ b # 0 /\ b \notin LargeAddrs
           /\ b \notin WriterBlocks /\ b \notin PackerBlocks
           /\ Lent(CachedBlocks)' = Lent(CachedBlocks) \cup {b}
  <1>1. /\ PoolSound(CachedBlocks)' /\ b \in Blocks /\ b # 0
        /\ b \notin Lent(CachedBlocks) /\ Lent(CachedBlocks)' = Lent(CachedBlocks) \cup {b}
    BY AllocLends DEF Holding, AllocBlock
  <1> QED
    BY <1>1, LargeApart DEF Holding

\* What the writer holds are blocks of the pool.
LEMMA WriterHoldsBlocks ==
    ASSUME WriterTypes
    PROVE  WriterBlocks \subseteq Blocks /\ WriterBlocks \cap LargeAddrs = {}
  <1>1. WriterBlocks \subseteq Blocks
    BY DEF WriterTypes, WriterBlocks, Held
  <1> QED
    BY <1>1, LargeApart

\* Write in the current block or in a buffer of its own.
LEMMA WriteKeepsBlocks ==
    ASSUME Sharing, NEW size \in WriteSizes,
           WriteHere(size) \/ WriteLarge(size) \/ WriteNewBuf(size), UNCHANGED packVars
    PROVE  Sharing'
  <1>0. size \in Nat /\ size > 0
    BY WriteBufferAssumption
  <1>1. /\ wbuf \in [m_ptr : Nat, m_size : Nat, m_usage : Nat, m_blocks : Seq(Blocks), m_bufs : Seq(Extents)]
        /\ regions \in Seq(Extents) /\ cleared \in Nat /\ BlockSize \in Nat /\ BufAddrs \subseteq Nat
    BY LargeApart, WriteBufferAssumption DEF Sharing, WriterTypes
  <1>2. /\ UNCHANGED blockPoolVars /\ cleared' = cleared /\ wbuf'.m_blocks = wbuf.m_blocks
        /\ wbuf' \in [m_ptr : Nat, m_size : Nat, m_usage : Nat, m_blocks : Seq(Blocks), m_bufs : Seq(Extents)]
        /\ regions' \in Seq(Extents)
    <2>1. CASE WriteHere(size)
      <3>1. wbuf.m_size >= size /\ regions' = Append(regions, [at |-> wbuf.m_ptr, size |-> size])
        BY <2>1 DEF WriteHere, Hand
      <3>2. wbuf' = [wbuf EXCEPT !.m_ptr = @ + size, !.m_size = @ - size]
        BY <2>1 DEF WriteHere
      <3>3. [at |-> wbuf.m_ptr, size |-> size] \in Extents
        BY <1>0, <1>1 DEF Extents
      <3>4. regions' \in Seq(Extents)
        BY <1>1, <3>1, <3>3
      <3>5. /\ wbuf'.m_blocks = wbuf.m_blocks
            /\ wbuf' \in [m_ptr : Nat, m_size : Nat, m_usage : Nat, m_blocks : Seq(Blocks), m_bufs : Seq(Extents)]
        <4>1. PICK p, q : p = wbuf.m_ptr + size /\ q = wbuf.m_size - size
          OBVIOUS
        <4>2. p \in Nat /\ q \in Nat
          <5>1. wbuf.m_ptr \in Nat /\ wbuf.m_size \in Nat
            BY <1>1
          <5> QED
            BY <1>0, <3>1, <4>1, <5>1
        <4>3. wbuf' = [wbuf EXCEPT !.m_ptr = p, !.m_size = q]
          BY <3>2, <4>1
        <4> QED
          BY <1>1, <4>2, <4>3
      <3>6. UNCHANGED blockPoolVars /\ cleared' = cleared
        BY <2>1 DEF WriteHere, Hand
      <3> QED
        BY <3>4, <3>5, <3>6
    <2>2. CASE WriteLarge(size)
      <3>1. PICK a \in FreshBufs : /\ Hand(a, size)
                                  /\ wbuf' = [wbuf EXCEPT !.m_bufs = Append(@, [at |-> a, size |-> size]),
                                                          !.m_usage = @ + size]
        BY <2>2 DEF WriteLarge
      <3>2. [at |-> a, size |-> size] \in Extents
        BY <1>0, <1>1 DEF Extents, FreshBufs
      <3>3. Append(wbuf.m_bufs, [at |-> a, size |-> size]) \in Seq(Extents)
        BY <1>1, <3>2
      <3>4. PICK bufs : bufs = Append(wbuf.m_bufs, [at |-> a, size |-> size])
        OBVIOUS
      <3>5. wbuf' = [wbuf EXCEPT !.m_bufs = bufs, !.m_usage = @ + size] /\ bufs \in Seq(Extents)
        BY <3>1, <3>3, <3>4
      <3>6. regions' = Append(regions, [at |-> a, size |-> size]) /\ cleared' = cleared
        BY <3>1 DEF Hand
      <3>7. regions' \in Seq(Extents)
        BY <1>1, <3>2, <3>6
      <3>8. /\ wbuf'.m_blocks = wbuf.m_blocks
            /\ wbuf' \in [m_ptr : Nat, m_size : Nat, m_usage : Nat, m_blocks : Seq(Blocks), m_bufs : Seq(Extents)]
        <4>1. PICK u : u = wbuf.m_usage + size
          OBVIOUS
        <4>2. u \in Nat
          <5>1. wbuf.m_usage \in Nat
            BY <1>1
          <5> QED
            BY <1>0, <4>1, <5>1
        <4>3. wbuf' = [wbuf EXCEPT !.m_bufs = bufs, !.m_usage = u]
          BY <3>5, <4>1
        <4> QED
          BY <1>1, <3>5, <4>2, <4>3
      <3>9. UNCHANGED blockPoolVars
        BY <2>2 DEF WriteLarge
      <3> QED
        BY <3>6, <3>7, <3>8, <3>9
    <2>3. CASE WriteNewBuf(size)
      <3>1. PICK a \in FreshBufs :
               StartBlock(a, size, wbuf.m_blocks, Append(wbuf.m_bufs, [at |-> a, size |-> size]))
        BY <2>3 DEF WriteNewBuf
      <3>2. [at |-> a, size |-> size] \in Extents /\ a \in Nat
        BY <1>0, <1>1 DEF Extents, FreshBufs
      <3>3. Append(wbuf.m_bufs, [at |-> a, size |-> size]) \in Seq(Extents)
        BY <1>1, <3>2
      <3>4. size <= BlockSize \div 2
        BY <2>3 DEF WriteNewBuf, m_block_size
      <3>5. BlockSize - size \in Nat
        BY <1>0, <1>1, <3>4
      <3>6. regions' = Append(regions, [at |-> a, size |-> size]) /\ cleared' = cleared
        BY <3>1 DEF StartBlock, Hand
      <3>7. regions' \in Seq(Extents)
        BY <1>1, <3>2, <3>6
      <3>8. PICK bufs : bufs = Append(wbuf.m_bufs, [at |-> a, size |-> size])
        OBVIOUS
      <3>9. wbuf' = [m_ptr |-> a + size, m_size |-> BlockSize - size, m_usage |-> wbuf.m_usage + BlockSize,
                     m_blocks |-> wbuf.m_blocks, m_bufs |-> bufs] /\ bufs \in Seq(Extents)
        BY <3>1, <3>3, <3>8 DEF StartBlock, m_block_size
      <3>10. /\ wbuf'.m_blocks = wbuf.m_blocks
             /\ wbuf' \in [m_ptr : Nat, m_size : Nat, m_usage : Nat, m_blocks : Seq(Blocks), m_bufs : Seq(Extents)]
        <4>1. a + size \in Nat /\ wbuf.m_usage + BlockSize \in Nat
          <5>1. wbuf.m_usage \in Nat
            BY <1>1
          <5> QED
            BY <1>0, <1>1, <3>2, <5>1
        <4>2. wbuf.m_blocks \in Seq(Blocks)
          BY <1>1
        <4> QED
          BY <3>5, <3>9, <4>1, <4>2
      <3>11. UNCHANGED blockPoolVars
        BY <2>3 DEF WriteNewBuf
      <3> QED
        BY <3>6, <3>7, <3>10, <3>11
    <2> QED
      BY <2>1, <2>2, <2>3
  <1>3. WriterTypes'
    BY <1>2 DEF Sharing, WriterTypes
  <1>4. PackerTypes' /\ Bufs' = Bufs /\ freed' = freed
    BY DEF Sharing, PackerTypes, packVars, Bufs
  <1>5. Holding'
    BY <1>2, <1>4, HoldingSame DEF Sharing
  <1> QED
    BY <1>3, <1>4, <1>5 DEF Sharing

\* Write in a new block of the pool.
LEMMA WriteTakesBlock ==
    ASSUME Sharing, NEW size \in WriteSizes, WriteNewBlock(size), UNCHANGED packVars
    PROVE  Sharing'
  <1>0. size \in Nat /\ size > 0 /\ BlockSize \in Nat
    BY WriteBufferAssumption, LargeApart
  <1>1. PICK b \in Blocks : AllocBlock(b) /\ StartBlock(b, size, Append(wbuf.m_blocks, b), wbuf.m_bufs)
    BY DEF WriteNewBlock
  <1>2. /\ wbuf.m_blocks \in Seq(Blocks) /\ wbuf.m_bufs \in Seq(Extents) /\ wbuf.m_usage \in Nat
        /\ regions \in Seq(Extents) /\ cleared = 0 /\ cleared' = 0 /\ b \in Nat
    BY <1>1, BlockAddresses DEF Sharing, WriterTypes, StartBlock, Hand, Blocks
  <1>3. BlockSize - size \in Nat
    <2>1. size <= BlockSize \div 2
      BY DEF WriteNewBlock, m_block_size
    <2> QED
      BY <1>0, <2>1
  <1>4. /\ wbuf' = [m_ptr |-> b + size, m_size |-> BlockSize - size, m_usage |-> wbuf.m_usage + BlockSize,
                    m_blocks |-> Append(wbuf.m_blocks, b), m_bufs |-> wbuf.m_bufs]
        /\ regions' = Append(regions, [at |-> b, size |-> size])
    BY <1>1 DEF StartBlock, Hand, m_block_size
  <1>5. /\ PoolSound(CachedBlocks)' /\ b \notin LargeAddrs /\ b \notin WriterBlocks /\ b \notin PackerBlocks
        /\ Lent(CachedBlocks)' = Lent(CachedBlocks) \cup {b}
    BY <1>1, AllocBlockLends DEF Sharing
  <1>6. PICK s : s = wbuf.m_blocks
    OBVIOUS
  <1>7. /\ s \in Seq(Blocks) /\ b \in Blocks /\ 0 \in Nat /\ 0 <= Len(s) /\ Once(s, 0) /\ b \notin Held(s, 0)
        /\ WriterBlocks = Held(s, 0)
    BY <1>1, <1>2, <1>5, <1>6 DEF WriterBlocks, Sharing, Holding
  <1>8. /\ Append(s, b) \in Seq(Blocks) /\ Len(Append(s, b)) = Len(s) + 1
        /\ Held(Append(s, b), 0) = Held(s, 0) \cup {b} /\ Once(Append(s, b), 0)
    BY <1>7, HeldAppend
  <1>9. wbuf'.m_blocks = Append(s, b)
    BY <1>4, <1>6
  <1>10. WriterTypes'
    <2>1. [at |-> b, size |-> size] \in Extents
      BY <1>0, <1>2 DEF Extents
    <2>2. regions' \in Seq(Extents)
      BY <1>2, <1>4, <2>1
    <2>3. wbuf' \in [m_ptr : Nat, m_size : Nat, m_usage : Nat, m_blocks : Seq(Blocks), m_bufs : Seq(Extents)]
      <3>1. b + size \in Nat /\ wbuf.m_usage + BlockSize \in Nat
        BY <1>0, <1>2
      <3>2. Append(wbuf.m_blocks, b) \in Seq(Blocks)
        BY <1>6, <1>8
      <3> QED
        BY <1>2, <1>3, <1>4, <3>1, <3>2
    <2> QED
      BY <1>2, <2>2, <2>3, <1>9, <1>8 DEF WriterTypes
  <1>11. PackerTypes' /\ Bufs' = Bufs /\ freed' = freed
    BY DEF Sharing, PackerTypes, packVars, Bufs
  <1>12. WriterBlocks' = WriterBlocks \cup {b} /\ Once(wbuf'.m_blocks, cleared')
    BY <1>2, <1>7, <1>8, <1>9 DEF WriterBlocks
  <1>13. PackerBlocks' = PackerBlocks /\ Once(Bufs', freed')
    BY <1>11 DEF PackerBlocks, Sharing, Holding
  <1>14. Holding'
    BY <1>5, <1>12, <1>13 DEF Sharing, Holding
  <1> QED
    BY <1>10, <1>11, <1>14 DEF Sharing

\* A round of Clear, and its end.
LEMMA ClearGivesBack ==
    ASSUME Sharing, Clear, UNCHANGED packVars
    PROVE  Sharing'
  <1>1. PackerTypes' /\ PackerBlocks' = PackerBlocks /\ Once(Bufs', freed')
    <2>1. PackerTypes' /\ Bufs' = Bufs /\ freed' = freed
      BY DEF Sharing, PackerTypes, packVars, Bufs
    <2> QED
      BY <2>1 DEF PackerBlocks, Sharing, Holding
  <1>2. PICK s : s = wbuf.m_blocks
    OBVIOUS
  <1>3. /\ s \in Seq(Blocks) /\ Len(s) \in Nat /\ cleared \in Nat /\ cleared <= Len(s) /\ Once(s, cleared)
        /\ wbuf \in [m_ptr : Nat, m_size : Nat, m_usage : Nat, m_blocks : Seq(Blocks), m_bufs : Seq(Extents)]
        /\ WriterBlocks = Held(s, cleared)
        /\ cleared # 0 => cleared < Len(s)
    BY <1>2 DEF Sharing, WriterTypes, Holding, WriterBlocks
  <1>4. regions' = <<>> /\ regions' \in Seq(Extents)
    BY DEF Clear
  <1>5. CASE s = <<>>
    <2>1. /\ UNCHANGED blockPoolVars /\ cleared = 0 /\ cleared' = 0 /\ wbuf' = Empty
      BY <1>2, <1>3, <1>5 DEF Clear, FreeNextBlock
    <2>2. wbuf'.m_blocks = wbuf.m_blocks /\ Bufs' = Bufs /\ freed' = freed
      BY <1>2, <1>5, <2>1 DEF Empty, Bufs, packVars
    <2>3. Holding'
      BY <2>1, <2>2, HoldingSame DEF Sharing
    <2>4. WriterTypes'
      BY <1>4, <2>1 DEF WriterTypes, Empty
    <2> QED
      BY <1>1, <2>3, <2>4 DEF Sharing
  <1>6. CASE s # <<>>
    <2>1. cleared < Len(s)
      BY <1>3, <1>6
    <2>2. PICK b : b = s[cleared + 1]
      OBVIOUS
    <2>3. /\ b \in Held(s, cleared) /\ Held(s, cleared + 1) = Held(s, cleared) \ {b} /\ Once(s, cleared + 1)
          /\ cleared + 1 = Len(s) => Held(s, cleared + 1) = {}
      BY <1>3, <2>1, <2>2, HeldNext
    <2>4. FreeBlock(b)
      BY <1>2, <1>6, <2>2 DEF Clear, FreeNextBlock
    <2>5. b \in Lent(CachedBlocks)
      BY <1>3, <2>3 DEF Sharing, Holding
    <2>6. PoolSound(CachedBlocks)' /\ Lent(CachedBlocks)' = Lent(CachedBlocks) \ {b}
      BY <2>4, <2>5, FreeTakesBack DEF Sharing, Holding
    <2>7. b \notin PackerBlocks
      BY <1>3, <2>3 DEF Sharing, Holding
    <2>8. WriterTypes' /\ WriterBlocks' = WriterBlocks \ {b} /\ Once(wbuf'.m_blocks, cleared')
      <3>1. CASE cleared + 1 < Len(s)
        <4>1. cleared' = cleared + 1 /\ wbuf' = [wbuf EXCEPT !.m_ptr = 0, !.m_size = 0]
          BY <1>2, <3>1 DEF Clear
        <4>2. /\ wbuf'.m_blocks = s
              /\ wbuf' \in [m_ptr : Nat, m_size : Nat, m_usage : Nat, m_blocks : Seq(Blocks), m_bufs : Seq(Extents)]
          BY <1>2, <1>3, <4>1
        <4>3. WriterTypes'
          BY <1>3, <1>4, <3>1, <4>1, <4>2 DEF WriterTypes
        <4> QED
          BY <1>3, <2>3, <4>1, <4>2, <4>3 DEF WriterBlocks
      <3>2. CASE ~ (cleared + 1 < Len(s))
        <4>1. cleared + 1 = Len(s)
          BY <1>3, <2>1, <3>2
        <4>2. cleared' = 0 /\ wbuf' = Empty /\ wbuf'.m_blocks = <<>>
          BY <1>2, <3>2 DEF Clear, Empty
        <4>3. WriterTypes'
          BY <1>4, <4>2 DEF WriterTypes, Empty
        <4>4. WriterBlocks' = {} /\ Once(wbuf'.m_blocks, cleared')
          BY <4>2 DEF WriterBlocks, Held, Once
        <4> QED
          BY <1>3, <2>3, <4>1, <4>3, <4>4
      <3> QED
        BY <3>1, <3>2
    <2>9. Lent(CachedBlocks)' = WriterBlocks' \cup (PackerBlocks' \ LargeAddrs)
      BY <1>1, <2>6, <2>7, <2>8 DEF Sharing, Holding
    <2>10. Holding'
      BY <1>1, <2>6, <2>8, <2>9 DEF Sharing, Holding
    <2> QED
      BY <1>1, <2>8, <2>10 DEF Sharing
  <1> QED
    BY <1>5, <1>6
-----------------------------------------------------------------------------
(***************************************************************************)
(* The steps of the packer and of the unpacker.                            *)
(***************************************************************************)
\* Steps that leave the writer alone.
LEMMA WriterSame ==
    ASSUME Sharing, UNCHANGED writeVars
    PROVE  /\ wbuf' = wbuf /\ cleared' = cleared /\ WriterTypes' /\ WriterBlocks' = WriterBlocks
           /\ Once(wbuf'.m_blocks, cleared')
  <1>1. wbuf' = wbuf /\ cleared' = cleared /\ regions' = regions
    BY DEF writeVars
  <1> QED
    BY <1>1 DEF Sharing, WriterTypes, WriterBlocks, Held, Holding

\* The capacity of a new block tells where it came from.
LEMMA CapacityTells ==
    ASSUME NEW size \in Nat \ {0}
    PROVE  /\ CapacityFor(size) \in Nat /\ CapacityFor(size) >= size
           /\ (CapacityFor(size) = BlockSize) <=> (size <= BlockSize)
  <1>1. AlignUp4096(size) \in Nat /\ AlignUp4096(size) >= size
    BY DEF AlignUp4096
  <1> QED
    BY <1>1, LargeApart DEF CapacityFor

\* A block is added for "size" bytes.
LEMMA BlockAdded ==
    ASSUME Sharing, NEW x \in PackedBlocks, NEW size \in Nat \ {0}, AllocFor(size, x.buf),
           x.capacity = CapacityFor(size), m_blocks' = Append(m_blocks, x),
           m_block' = Len(m_blocks) + 1, freed = 0, freed' = freed, UNCHANGED writeVars
    PROVE  Sharing'
  <1>1. PICK s : s = Bufs
    OBVIOUS
  <1>2. PICK b : b = x.buf
    OBVIOUS
  <1>3. PICK t : t = Append(m_blocks, x)
    OBVIOUS
  <1>4. /\ m_blocks \in Seq(PackedBlocks) /\ s \in Seq(Blocks \cup LargeAddrs) /\ Len(s) = Len(m_blocks)
        /\ Len(m_blocks) \in Nat /\ \A i \in 1 .. Len(m_blocks) : s[i] = m_blocks[i].buf
        /\ b \in Blocks \cup LargeAddrs
    BY <1>1, <1>2, BufsPlaces DEF Sharing, PackerTypes, PackedBlocks
  <1>5. /\ t \in Seq(PackedBlocks) /\ Len(t) = Len(m_blocks) + 1 /\ t[Len(m_blocks) + 1] = x
        /\ DOMAIN t = 1 .. Len(m_blocks) + 1 /\ \A i \in 1 .. Len(m_blocks) : t[i] = m_blocks[i]
    BY <1>3, <1>4
  <1>6. m_blocks' = t /\ freed' = 0
    BY <1>3
  <1>7. Bufs' = Append(s, b)
    <2>1. PICK u : u = Append(s, b)
      OBVIOUS
    <2>2. /\ u \in Seq(Blocks \cup LargeAddrs) /\ Len(u) = Len(m_blocks) + 1 /\ u[Len(m_blocks) + 1] = b
          /\ \A i \in 1 .. Len(m_blocks) : u[i] = s[i]
      <3> DEFINE S == Blocks \cup LargeAddrs
      <3>1. s \in Seq(S) /\ b \in S
        BY <1>4
      <3> HIDE DEF S
      <3>2. /\ u \in Seq(S) /\ Len(u) = Len(s) + 1 /\ u[Len(s) + 1] = b
            /\ \A i \in 1 .. Len(s) : u[i] = s[i]
        BY <2>1, <3>1
      <3> QED
        BY <1>4, <3>2 DEF S
    <2>3. Bufs' = [i \in 1 .. Len(m_blocks) + 1 |-> t[i].buf]
      BY <1>5, <1>6 DEF Bufs
    <2>4. \A i \in 1 .. Len(m_blocks) + 1 : t[i].buf = u[i]
      <3>1. \A i \in 1 .. Len(m_blocks) + 1 : i \in 1 .. Len(m_blocks) \/ i = Len(m_blocks) + 1
        BY <1>4
      <3> QED
        BY <1>2, <1>4, <1>5, <2>2, <3>1
    <2>5. u = [i \in 1 .. Len(m_blocks) + 1 |-> u[i]]
      BY <2>2
    <2>6. [i \in 1 .. Len(m_blocks) + 1 |-> t[i].buf] = [i \in 1 .. Len(m_blocks) + 1 |-> u[i]]
      BY <2>4
    <2> QED
      BY <2>1, <2>3, <2>5, <2>6
  <1>8. /\ PoolSound(CachedBlocks)' /\ b \notin WriterBlocks /\ b \notin PackerBlocks
        /\ Lent(CachedBlocks)' = Lent(CachedBlocks) \cup ({b} \ LargeAddrs)
        /\ (x.capacity = BlockSize) <=> (b \in Blocks)
    <2>1. CASE size <= BlockSize
      <3>1. AllocBlock(b)
        BY <1>2, <2>1 DEF AllocFor
      <3>2. /\ PoolSound(CachedBlocks)' /\ b \in Blocks /\ b \notin LargeAddrs
            /\ b \notin WriterBlocks /\ b \notin PackerBlocks
            /\ Lent(CachedBlocks)' = Lent(CachedBlocks) \cup {b}
        BY <3>1, AllocBlockLends DEF Sharing
      <3>3. x.capacity = BlockSize
        BY <2>1, CapacityTells
      <3> QED
        BY <3>2, <3>3
    <2>2. CASE ~ (size <= BlockSize)
      <3>1. b \in LargeAddrs /\ b \notin {y.buf : y \in ToSet(m_blocks)} /\ UNCHANGED blockPoolVars
        BY <1>2, <2>2 DEF AllocFor
      <3>2. b \notin PackerBlocks
        <4>1. \A i \in 1 .. Len(m_blocks) : m_blocks[i] \in ToSet(m_blocks)
          BY <1>4 DEF ToSet
        <4>2. \A i \in 1 .. Len(m_blocks) : s[i] # b
          BY <1>4, <3>1, <4>1
        <4> QED
          BY <1>1, <1>4, <4>2 DEF PackerBlocks, Held
      <3>3. b \notin WriterBlocks
        BY <3>1, WriterHoldsBlocks DEF Sharing
      <3>4. PoolSound(CachedBlocks)' /\ Lent(CachedBlocks)' = Lent(CachedBlocks)
        <4>1. m_free_blocks' = m_free_blocks /\ heap' = heap
          BY <3>1 DEF blockPoolVars
        <4> QED
          BY <4>1 DEF PoolSound, Lent, Sharing, Holding
      <3>5. x.capacity # BlockSize /\ b \notin Blocks
        BY <2>2, <3>1, CapacityTells, LargeApart
      <3> QED
        BY <3>1, <3>2, <3>3, <3>4, <3>5
    <2> QED
      BY <2>1, <2>2
  <1>9. /\ Held(Append(s, b), 0) = Held(s, 0) \cup {b} /\ Once(Append(s, b), 0)
    <2> DEFINE S == Blocks \cup LargeAddrs
    <2>1. s \in Seq(S) /\ b \in S /\ 0 \in Nat /\ 0 <= Len(s)
      BY <1>4
    <2>2. Once(s, 0) /\ b \notin Held(s, 0)
      BY <1>1, <1>8 DEF PackerBlocks, Sharing, Holding
    <2> HIDE DEF S
    <2> QED
      BY <2>1, <2>2, HeldAppend
  <1>10. PackerBlocks' = PackerBlocks \cup {b} /\ Once(Bufs', freed')
    BY <1>1, <1>6, <1>7, <1>9 DEF PackerBlocks
  <1>11. PackerTypes'
    <2>1. \A i \in 1 .. Len(t) : (t[i].capacity = BlockSize) <=> (t[i].buf \in Blocks)
      <3>1. \A i \in 1 .. Len(t) : i \in 1 .. Len(m_blocks) \/ i = Len(m_blocks) + 1
        BY <1>4, <1>5
      <3>2. \A i \in 1 .. Len(m_blocks) : (m_blocks[i].capacity = BlockSize) <=> (m_blocks[i].buf \in Blocks)
        BY DEF Sharing, PackerTypes
      <3> QED
        BY <1>2, <1>5, <1>8, <3>1, <3>2
    <2> HIDE DEF PackedBlocks
    <2> QED
      BY <1>4, <1>5, <1>6, <2>1 DEF PackerTypes
  <1>12. /\ WriterTypes' /\ WriterBlocks' = WriterBlocks /\ Once(wbuf'.m_blocks, cleared')
    BY WriterSame
  <1>13. Holding'
    BY <1>8, <1>10, <1>12 DEF Sharing, Holding
  <1> QED
    BY <1>11, <1>12, <1>13 DEF Sharing

\* A new Packer.
LEMMA NewPackerShares ==
    ASSUME Sharing, NEW b \in Blocks, NewPacker(b), UNCHANGED writeVars
    PROVE  Sharing'
  <1>1. PICK x : x = [buf |-> b, capacity |-> CapacityFor(1), size |-> 0, data |-> <<>>]
    OBVIOUS
  <1>2. 1 \in Nat \ {0} /\ AllocFor(1, x.buf) /\ x.capacity = CapacityFor(1) /\ x \in PackedBlocks
    BY <1>1, CapacityTells DEF PackedBlocks, NewPacker
  <1>3. m_blocks' = Append(m_blocks, x) /\ m_block' = Len(m_blocks) + 1 /\ freed = 0 /\ freed' = freed
    BY <1>1 DEF NewPacker
  <1> QED
    BY <1>2, <1>3, BlockAdded

\* Pack goes on in a new block.
LEMMA PackTakesBlock ==
    ASSUME Sharing, NEW f \in Fields, NEW b \in Blocks \cup LargeAddrs, PackInNewBlock(f, b), UNCHANGED writeVars
    PROVE  Sharing'
  <1>1. PICK x : x = [buf |-> b, capacity |-> CapacityFor(Need(f)),
                      size |-> ByteLen(Encode(f)), data |-> Encode(f)]
    OBVIOUS
  <1>2. /\ Need(f) \in Nat \ {0} /\ Encode(f) \in Seq(Cells) /\ ByteLen(Encode(f)) \in Nat
    BY NeedEnough
  <1>3. AllocFor(Need(f), x.buf) /\ x.capacity = CapacityFor(Need(f))
    BY <1>1 DEF PackInNewBlock
  <1>4. x \in PackedBlocks
    BY <1>1, <1>2, CapacityTells DEF PackedBlocks
  <1>5. m_blocks' = Append(m_blocks, x) /\ m_block' = Len(m_blocks) + 1 /\ freed' = freed /\ m_block # 0
    BY <1>1 DEF PackInNewBlock, Room
  <1>6. freed = 0
    BY <1>5 DEF Sharing, PackerTypes
  <1> QED
    BY <1>2, <1>3, <1>4, <1>5, <1>6, BlockAdded

\* Pack in the current block changes what is in it and nothing else.
LEMMA PackHereBlocks ==
    ASSUME PackerTypes, NEW f \in Fields, PackHere(f)
    PROVE  /\ m_block \in 1 .. Len(m_blocks) /\ HasRoom(f) /\ freed' = freed /\ m_block' = m_block
           /\ m_blocks' \in Seq(PackedBlocks) /\ Len(m_blocks') = Len(m_blocks)
           /\ \A i \in 1 .. Len(m_blocks) :
                /\ m_blocks'[i].buf = m_blocks[i].buf /\ m_blocks'[i].capacity = m_blocks[i].capacity
                /\ i # m_block => m_blocks'[i] = m_blocks[i]
           /\ m_blocks'[m_block].size = m_blocks[m_block].size + ByteLen(Encode(f))
           /\ m_blocks'[m_block].data = m_blocks[m_block].data \o Encode(f)
  <1>1. /\ Len(m_blocks) \in Nat /\ DOMAIN m_blocks = 1 .. Len(m_blocks)
        /\ \A i \in 1 .. Len(m_blocks) : m_blocks[i] \in PackedBlocks
    BY DEF PackerTypes
  <1>2. m_block \in 1 .. Len(m_blocks) /\ HasRoom(f) /\ freed' = freed /\ m_block' = m_block
    BY DEF PackerTypes, PackHere, Room
  <1>3. Encode(f) \in Seq(Cells) /\ ByteLen(Encode(f)) \in Nat
    BY NeedEnough
  <1>4. PICK e, n : e = Encode(f) /\ n = ByteLen(Encode(f))
    OBVIOUS
  <1>5. PICK x : x = m_blocks[m_block]
    OBVIOUS
  <1>6. x \in PackedBlocks /\ e \in Seq(Cells) /\ n \in Nat
    BY <1>1, <1>2, <1>3, <1>4, <1>5
  <1>7. PICK y : y = [x EXCEPT !.data = x.data \o e, !.size = x.size + n]
    OBVIOUS
  <1>8. x.data \o e \in Seq(Cells) /\ x.size + n \in Nat
    BY <1>6 DEF PackedBlocks
  <1>9. PICK d, z : d = x.data \o e /\ z = x.size + n
    OBVIOUS
  <1>10. /\ y \in PackedBlocks /\ y.buf = x.buf /\ y.capacity = x.capacity
         /\ y.size = z /\ y.data = d
    <2>1. y = [x EXCEPT !.data = d, !.size = z] /\ d \in Seq(Cells) /\ z \in Nat
      BY <1>7, <1>8, <1>9
    <2> QED
      BY <1>6, <2>1 DEF PackedBlocks
  <1>11. m_blocks' = [m_blocks EXCEPT ![m_block] = y]
    <2>1. m_blocks' = [m_blocks EXCEPT ![m_block].data = @ \o e, ![m_block].size = @ + n]
      BY <1>4 DEF PackHere
    <2>2. [m_blocks EXCEPT ![m_block].data = @ \o e, ![m_block].size = @ + n] = [m_blocks EXCEPT ![m_block] = y]
      BY <1>1, <1>2, <1>5, <1>7
    <2> QED
      BY <2>1, <2>2
  <1>12. PICK t : t = m_blocks'
    OBVIOUS
  <1>13. /\ t \in [1 .. Len(m_blocks) -> PackedBlocks] /\ t[m_block] = y
         /\ \A i \in 1 .. Len(m_blocks) : i # m_block => t[i] = m_blocks[i]
    <2>1. m_blocks \in [1 .. Len(m_blocks) -> PackedBlocks]
      BY <1>1 DEF PackerTypes
    <2> QED
      BY <1>2, <1>10, <1>11, <1>12, <2>1
  <1>14. t \in Seq(PackedBlocks) /\ Len(t) = Len(m_blocks)
    BY <1>1, <1>13
  <1> QED
    BY <1>2, <1>4, <1>5, <1>9, <1>10, <1>12, <1>13, <1>14

\* Pack in the current block.
LEMMA PackHereShares ==
    ASSUME Sharing, NEW f \in Fields, PackHere(f), UNCHANGED writeVars
    PROVE  Sharing'
  <1>1. PICK t : t = m_blocks'
    OBVIOUS
  <1>2. /\ freed' = freed /\ m_block' = m_block /\ t \in Seq(PackedBlocks) /\ Len(t) = Len(m_blocks)
        /\ \A i \in 1 .. Len(m_blocks) : t[i].buf = m_blocks[i].buf /\ t[i].capacity = m_blocks[i].capacity
    BY <1>1, PackHereBlocks DEF Sharing
  <1>3. Bufs' = Bufs
    <2>1. DOMAIN t = 1 .. Len(m_blocks) /\ DOMAIN m_blocks = 1 .. Len(m_blocks)
      BY <1>2 DEF Sharing, PackerTypes
    <2> QED
      BY <1>1, <1>2, <2>1 DEF Bufs
  <1>4. PackerTypes'
    <2> HIDE DEF PackedBlocks
    <2>1. \A i \in 1 .. Len(m_blocks) : (m_blocks[i].capacity = BlockSize) <=> (m_blocks[i].buf \in Blocks)
      BY DEF Sharing, PackerTypes
    <2>2. \A i \in 1 .. Len(t) : (t[i].capacity = BlockSize) <=> (t[i].buf \in Blocks)
      BY <1>2, <2>1
    <2> QED
      BY <1>1, <1>2, <2>2 DEF Sharing, PackerTypes
  <1>5. wbuf' = wbuf /\ cleared' = cleared /\ WriterTypes'
    BY WriterSame
  <1>6. UNCHANGED blockPoolVars
    BY DEF PackHere
  <1>7. Holding'
    BY <1>2, <1>3, <1>5, <1>6, HoldingSame DEF Sharing
  <1> QED
    BY <1>4, <1>5, <1>7 DEF Sharing

\* A round of Free, and its end.
LEMMA FreeGivesBack ==
    ASSUME Sharing, Free, UNCHANGED writeVars
    PROVE  Sharing'
  <1>1. PICK s : s = Bufs
    OBVIOUS
  <1>2. /\ s \in Seq(Blocks \cup LargeAddrs) /\ Len(s) = Len(m_blocks) /\ Len(m_blocks) \in Nat
        /\ \A i \in 1 .. Len(m_blocks) : m_blocks[i] \in PackedBlocks /\ s[i] = m_blocks[i].buf
    BY <1>1, BufsPlaces DEF Sharing
  <1>3. freed \in Nat /\ freed < Len(m_blocks) /\ freed + 1 \in 1 .. Len(m_blocks)
    <2>1. freed \in Nat /\ Len(m_blocks) # 0 /\ (freed # 0 => freed < Len(m_blocks))
      BY DEF Sharing, PackerTypes, Free
    <2> QED
      BY <1>2, <2>1
  <1>4. PICK b : b = s[freed + 1]
    OBVIOUS
  <1>5. /\ b \in Held(s, freed) /\ Held(s, freed + 1) = Held(s, freed) \ {b} /\ Once(s, freed + 1)
        /\ freed + 1 = Len(s) => Held(s, freed + 1) = {}
    <2> DEFINE S == Blocks \cup LargeAddrs
    <2>1. s \in Seq(S) /\ freed \in Nat /\ freed < Len(s) /\ Once(s, freed)
      BY <1>1, <1>2, <1>3 DEF Sharing, Holding
    <2> HIDE DEF S
    <2> QED
      BY <1>4, <2>1, HeldNext
  <1>6. /\ b = m_blocks[freed + 1].buf
        /\ (m_blocks[freed + 1].capacity = BlockSize) <=> (b \in Blocks)
        /\ b \in Blocks \cup LargeAddrs
    BY <1>2, <1>3, <1>4 DEF Sharing, PackerTypes, PackedBlocks
  <1>7. IF m_blocks[freed + 1].capacity = BlockSize THEN FreeBlock(b) ELSE UNCHANGED blockPoolVars
    BY <1>6 DEF Free
  <1>8. PackerBlocks = Held(s, freed)
    BY <1>1 DEF PackerBlocks
  <1>9. /\ PoolSound(CachedBlocks)' /\ Lent(CachedBlocks)' = Lent(CachedBlocks) \ ({b} \ LargeAddrs)
        /\ b \notin WriterBlocks
    <2>1. CASE b \in Blocks
      <3>1. FreeBlock(b)
        BY <1>6, <1>7, <2>1
      <3>2. b \notin LargeAddrs
        BY <2>1, LargeApart
      <3>3. b \in Lent(CachedBlocks) /\ b \notin WriterBlocks
        BY <1>5, <1>8, <3>2 DEF Sharing, Holding
      <3>4. PoolSound(CachedBlocks)' /\ Lent(CachedBlocks)' = Lent(CachedBlocks) \ {b}
        BY <3>1, <3>3, FreeTakesBack DEF Sharing, Holding
      <3> QED
        BY <3>2, <3>3, <3>4
    <2>2. CASE b \notin Blocks
      <3>1. UNCHANGED blockPoolVars /\ b \in LargeAddrs
        BY <1>6, <1>7, <2>2
      <3>2. m_free_blocks' = m_free_blocks /\ heap' = heap
        BY <3>1 DEF blockPoolVars
      <3>3. PoolSound(CachedBlocks)' /\ Lent(CachedBlocks)' = Lent(CachedBlocks)
        BY <3>2 DEF PoolSound, Lent, Sharing, Holding
      <3>4. b \notin WriterBlocks
        BY <3>1, WriterHoldsBlocks DEF Sharing
      <3> QED
        BY <3>1, <3>3, <3>4
    <2> QED
      BY <2>1, <2>2
  <1>10. PackerTypes' /\ PackerBlocks' = PackerBlocks \ {b} /\ Once(Bufs', freed')
    <2>1. CASE freed + 1 < Len(m_blocks)
      <3>1. freed' = freed + 1 /\ m_blocks' = m_blocks /\ m_block' = 0
        BY <2>1 DEF Free
      <3>2. Bufs' = s
        BY <1>1, <3>1 DEF Bufs
      <3>3. PackerTypes'
        BY <1>2, <1>3, <2>1, <3>1 DEF Sharing, PackerTypes
      <3> QED
        BY <1>5, <1>8, <3>1, <3>2, <3>3 DEF PackerBlocks
    <2>2. CASE ~ (freed + 1 < Len(m_blocks))
      <3>1. freed + 1 = Len(s)
        BY <1>2, <1>3, <2>2
      <3>2. freed' = 0 /\ m_blocks' = <<>> /\ m_block' = 0
        BY <2>2 DEF Free
      <3>3. Bufs' = <<>>
        BY <3>2 DEF Bufs
      <3>4. PackerTypes'
        BY <3>2 DEF PackerTypes
      <3>5. PackerBlocks' = {} /\ Once(Bufs', freed')
        BY <3>2, <3>3 DEF PackerBlocks, Held, Once
      <3> QED
        BY <1>5, <1>8, <3>1, <3>4, <3>5
    <2> QED
      BY <2>1, <2>2
  <1>11. /\ WriterTypes' /\ WriterBlocks' = WriterBlocks /\ Once(wbuf'.m_blocks, cleared')
    BY WriterSame
  <1>12. Holding'
    BY <1>9, <1>10, <1>11 DEF Sharing, Holding
  <1> QED
    BY <1>10, <1>11, <1>12 DEF Sharing

\* The Unpacker moves no block.
LEMMA UnpackerShares ==
    ASSUME Sharing, NewUnpacker \/ \E type \in {TypeOf(f) : f \in Fields} : Unpack(type),
           UNCHANGED writeVars
    PROVE  Sharing'
  <1>1. /\ UNCHANGED blockPoolVars /\ m_blocks' = m_blocks /\ freed' = freed
        /\ m_block' = 0 \/ m_block' = m_block
    BY DEF NewUnpacker, Unpack
  <1>2. PackerTypes' /\ Bufs' = Bufs
    BY <1>1 DEF Sharing, PackerTypes, Bufs
  <1>3. wbuf' = wbuf /\ cleared' = cleared /\ WriterTypes'
    BY WriterSame
  <1>4. Holding'
    BY <1>1, <1>2, <1>3, HoldingSame DEF Sharing
  <1> QED
    BY <1>2, <1>3, <1>4 DEF Sharing

\* The first state.
LEMMA SharingInit == Init => Sharing
  <1> SUFFICES ASSUME Init PROVE Sharing
    OBVIOUS
  <1>1. /\ wbuf = Empty /\ cleared = 0 /\ regions = <<>> /\ m_blocks = <<>> /\ freed = 0 /\ m_block = 0
        /\ m_free_blocks = CacheBlocks /\ heap = {}
    BY DEF Init, BlockPoolInit, WriteBufferInit, PackingInit
  <1>2. WriterTypes
    BY <1>1 DEF WriterTypes, Empty
  <1>3. PackerTypes
    BY <1>1 DEF PackerTypes
  <1>4. Bufs = <<>> /\ wbuf.m_blocks = <<>>
    BY <1>1 DEF Bufs, Empty
  <1>5. WriterBlocks = {} /\ PackerBlocks = {} /\ Once(wbuf.m_blocks, cleared) /\ Once(Bufs, freed)
    BY <1>1, <1>4 DEF WriterBlocks, PackerBlocks, Held, Once
  <1>6. PoolSound(CachedBlocks) /\ Lent(CachedBlocks) = {}
    BY <1>1, CacheBlocksSound DEF PoolSound, Lent
  <1> QED
    BY <1>2, <1>3, <1>5, <1>6 DEF Sharing, Holding

\* Every step keeps it.
LEMMA SharingNext == Sharing /\ [Next]_vars => Sharing'
  <1> SUFFICES ASSUME Sharing, [Next]_vars PROVE Sharing'
    OBVIOUS
  <1>1. CASE WriteBufferNext /\ UNCHANGED packVars
    <2>1. CASE Clear
      BY <1>1, <2>1, ClearGivesBack
    <2>2. ASSUME NEW size \in WriteSizes, Write(size)
          PROVE  Sharing'
      BY <1>1, <2>2, WriteKeepsBlocks, WriteTakesBlock DEF Write
    <2> QED
      BY <1>1, <2>1, <2>2 DEF WriteBufferNext
  <1>2. CASE PackingNext /\ UNCHANGED writeVars
    <2>1. ASSUME NEW b \in Blocks, NewPacker(b)
          PROVE  Sharing'
      BY <1>2, <2>1, NewPackerShares
    <2>2. ASSUME NEW f \in Fields, PackHere(f)
          PROVE  Sharing'
      BY <1>2, <2>2, PackHereShares
    <2>3. ASSUME NEW f \in Fields, NEW b \in Blocks \cup LargeAddrs, PackInNewBlock(f, b)
          PROVE  Sharing'
      BY <1>2, <2>3, PackTakesBlock
    <2>4. CASE Free
      BY <1>2, <2>4, FreeGivesBack
    <2>5. CASE NewUnpacker \/ \E type \in {TypeOf(f) : f \in Fields} : Unpack(type)
      BY <1>2, <2>5, UnpackerShares
    <2> QED
      BY <1>2, <2>1, <2>2, <2>3, <2>4, <2>5 DEF PackingNext
  <1>3. CASE UNCHANGED vars
    <2>1. UNCHANGED blockPoolVars /\ UNCHANGED writeVars /\ UNCHANGED packVars
      BY <1>3 DEF vars
    <2>2. m_blocks' = m_blocks /\ freed' = freed /\ m_block' = m_block
      BY <2>1 DEF packVars
    <2>3. PackerTypes' /\ Bufs' = Bufs
      BY <2>2 DEF Sharing, PackerTypes, Bufs
    <2>4. wbuf' = wbuf /\ cleared' = cleared /\ WriterTypes'
      BY <2>1, WriterSame
    <2>5. Holding'
      BY <2>1, <2>2, <2>3, <2>4, HoldingSame DEF Sharing
    <2> QED
      BY <2>3, <2>4, <2>5 DEF Sharing
  <1> QED
    BY <1>1, <1>2, <1>3 DEF Next

\* Every block of the pool is in one place at any time: free, in the
\* WriteBuffer or in the BlockBuffer, and the loops of Clear and of Free give
\* each one back once, whatever thread the other runs in.
THEOREM BlocksSharedHolds == Spec => []BlocksShared
  <1>1. Spec => []Sharing
    BY SharingInit, SharingNext, PTL DEF Spec
  <1> QED
    BY <1>1, SharingShared, PTL
-----------------------------------------------------------------------------
(***************************************************************************)
(* What is packed stays inside its block.                                  *)
(***************************************************************************)
\* What is in a block has the size recorded for it and fits.
Fits(x) == x.size = ByteLen(x.data) /\ x.size <= x.capacity
AllFit == \A i \in 1 .. Len(m_blocks) : Fits(m_blocks[i])

\* A new block with what is packed into it.
LEMMA BlockAddedFits ==
    ASSUME Sharing, AllFit, NEW x \in PackedBlocks, Fits(x), m_blocks' = Append(m_blocks, x)
    PROVE  AllFit'
  <1>1. PICK t : t = Append(m_blocks, x)
    OBVIOUS
  <1>2. /\ Len(m_blocks) \in Nat /\ Len(t) = Len(m_blocks) + 1 /\ t[Len(m_blocks) + 1] = x
        /\ \A i \in 1 .. Len(m_blocks) : t[i] = m_blocks[i]
    <2> HIDE DEF PackedBlocks
    <2>1. m_blocks \in Seq(PackedBlocks)
      BY DEF Sharing, PackerTypes
    <2> QED
      BY <1>1, <2>1
  <1>3. \A i \in 1 .. Len(t) : i \in 1 .. Len(m_blocks) \/ i = Len(m_blocks) + 1
    BY <1>2
  <1>4. \A i \in 1 .. Len(t) : Fits(t[i])
    BY <1>2, <1>3 DEF AllFit
  <1>5. m_blocks' = t
    BY <1>1
  <1> QED
    BY <1>4, <1>5 DEF AllFit, Fits

\* Every step of the packer keeps to the blocks.
LEMMA AllFitNext ==
    ASSUME ShortStrings, Sharing, AllFit, [Next]_vars
    PROVE  AllFit'
  <1>1. CASE m_blocks' = m_blocks
    BY <1>1 DEF AllFit, Fits
  <1>2. ASSUME NEW b \in Blocks, NewPacker(b)
        PROVE  AllFit'
    <2>1. PICK x : x = [buf |-> b, capacity |-> CapacityFor(1), size |-> 0, data |-> <<>>]
      OBVIOUS
    <2>2. x \in PackedBlocks /\ CapacityFor(1) \in Nat
      BY <2>1, CapacityTells DEF PackedBlocks
    <2>3. ByteLen(<<>>) = 0
      <3>1. PICK none \in Seq(Cells) : none = <<>> /\ Len(none) = 0
        <4>1. <<>> \in Seq(Cells) /\ Len(<<>>) = 0
          OBVIOUS
        <4> QED
          BY <4>1
      <3>2. \A i \in 1 .. Len(none) : none[i].len = 1
        BY <3>1
      <3>3. ByteLen(none) = Len(none)
        BY <3>2, ByteLenBytes
      <3> QED
        BY <3>1, <3>3
    <2>4. Fits(x)
      BY <2>1, <2>2, <2>3 DEF Fits
    <2>5. m_blocks' = Append(m_blocks, x)
      BY <1>2, <2>1 DEF NewPacker
    <2> QED
      BY <2>2, <2>4, <2>5, BlockAddedFits
  <1>3. ASSUME NEW f \in Fields, PackHere(f)
        PROVE  AllFit'
    <2>1. PICK t : t = m_blocks'
      OBVIOUS
    <2>2. /\ Encode(f) \in Seq(Cells) /\ ByteLen(Encode(f)) \in Nat /\ Need(f) \in Nat
          /\ ByteLen(Encode(f)) <= Need(f)
      BY NeedEnough
    <2>3. /\ m_block \in 1 .. Len(m_blocks) /\ HasRoom(f) /\ Len(t) = Len(m_blocks)
          /\ \A i \in 1 .. Len(m_blocks) :
               t[i].capacity = m_blocks[i].capacity /\ (i # m_block => t[i] = m_blocks[i])
          /\ t[m_block].size = m_blocks[m_block].size + ByteLen(Encode(f))
          /\ t[m_block].data = m_blocks[m_block].data \o Encode(f)
      BY <1>3, <2>1, PackHereBlocks DEF Sharing
    <2>4. m_blocks[m_block] \in PackedBlocks
      BY <2>3, BufsPlaces DEF Sharing
    <2>5. PICK x : x = m_blocks[m_block]
      OBVIOUS
    <2>6. /\ x.data \in Seq(Cells) /\ x.size \in Nat /\ x.capacity \in Nat
          /\ x.size = ByteLen(x.data) /\ x.size + Need(f) <= x.capacity
      BY <2>3, <2>4, <2>5 DEF PackedBlocks, AllFit, Fits, HasRoom
    <2>7. ByteLen(x.data \o Encode(f)) = ByteLen(x.data) + ByteLen(Encode(f))
      BY <2>2, <2>6, ByteLenConcat
    <2>8. Fits(t[m_block])
      <3>1. /\ t[m_block].data = x.data \o Encode(f) /\ t[m_block].size = x.size + ByteLen(Encode(f))
            /\ t[m_block].capacity = x.capacity
        BY <2>3, <2>5
      <3>2. x.size + ByteLen(Encode(f)) <= x.capacity
        BY <2>2, <2>6
      <3> QED
        BY <2>6, <2>7, <3>1, <3>2 DEF Fits
    <2>9. \A i \in 1 .. Len(t) : Fits(t[i])
      BY <2>3, <2>8 DEF AllFit
    <2> QED
      BY <2>1, <2>9 DEF AllFit, Fits
  <1>4. ASSUME NEW f \in Fields, NEW b \in Blocks \cup LargeAddrs, PackInNewBlock(f, b)
        PROVE  AllFit'
    <2>1. PICK x : x = [buf |-> b, capacity |-> CapacityFor(Need(f)),
                        size |-> ByteLen(Encode(f)), data |-> Encode(f)]
      OBVIOUS
    <2>2. /\ Need(f) \in Nat \ {0} /\ Encode(f) \in Seq(Cells) /\ ByteLen(Encode(f)) \in Nat
          /\ ByteLen(Encode(f)) <= Need(f)
      BY NeedEnough
    <2>3. CapacityFor(Need(f)) \in Nat /\ CapacityFor(Need(f)) >= Need(f)
      BY <2>2, CapacityTells
    <2>4. x \in PackedBlocks
      BY <2>1, <2>2, <2>3 DEF PackedBlocks
    <2>5. Fits(x)
      <3>1. ByteLen(Encode(f)) <= CapacityFor(Need(f))
        BY <2>2, <2>3
      <3> QED
        BY <2>1, <3>1 DEF Fits
    <2>6. m_blocks' = Append(m_blocks, x)
      BY <1>4, <2>1 DEF PackInNewBlock
    <2> QED
      BY <2>4, <2>5, <2>6, BlockAddedFits
  <1>5. CASE Free
    <2>1. m_blocks' = m_blocks \/ m_blocks' = <<>>
      BY <1>5 DEF Free
    <2>2. CASE m_blocks' = <<>>
      BY <2>2 DEF AllFit
    <2> QED
      BY <1>1, <2>1, <2>2
  <1>6. CASE NewUnpacker \/ \E type \in {TypeOf(f) : f \in Fields} : Unpack(type)
    <2>1. m_blocks' = m_blocks
      BY <1>6 DEF NewUnpacker, Unpack
    <2> QED
      BY <1>1, <2>1
  <1>7. CASE UNCHANGED packVars \/ UNCHANGED vars
    BY <1>1, <1>7 DEF vars, packVars
  <1> QED
    BY <1>2, <1>3, <1>4, <1>5, <1>6, <1>7 DEF Next, PackingNext

\* Pack never writes behind the end of its block: the room it makes is enough
\* for what it encodes, if no string is longer than the three bytes kept for
\* its length can say.
THEOREM PackedInBoundsHolds == ASSUME ShortStrings PROVE Spec => []PackedInBounds
  <1>1. Init => Sharing /\ AllFit
    <2>1. Init => m_blocks = <<>>
      BY DEF Init, PackingInit
    <2> QED
      BY <2>1, SharingInit DEF AllFit
  <1>2. Sharing /\ AllFit /\ [Next]_vars => (Sharing /\ AllFit)'
    BY SharingNext, AllFitNext
  <1>3. Sharing /\ AllFit => PackedInBounds
    <2>1. Sharing => DOMAIN m_blocks = 1 .. Len(m_blocks)
      BY BufsPlaces DEF Sharing
    <2> QED
      BY <2>1 DEF AllFit, Fits, PackedInBounds
  <1> QED
    BY <1>1, <1>2, <1>3, PTL DEF Spec
-----------------------------------------------------------------------------
(***************************************************************************)
(* What Write hands out.                                                   *)
(***************************************************************************)
\* What is left of the current block, and the space of a block.
Rest == [at |-> wbuf.m_ptr, size |-> wbuf.m_size]
Space(b) == [at |-> b, size |-> m_block_size]

BufsKnown == \A x \in ToSet(wbuf.m_bufs) : x \in Extents /\ x.at \in BufAddrs /\ x.size \in WriteSizes

\* What is left of the current block lies in a block of the writer, apart from
\* what was handed out; nothing is handed out while Clear runs.
Handing ==
    /\ BufsKnown
    /\ wbuf.m_size > 0 => /\ \E b \in ToSet(wbuf.m_blocks) : Within(Rest, Space(b))
                          /\ \A i \in DOMAIN regions : Apart(regions[i], Rest)
    /\ cleared # 0 => regions = <<>> /\ wbuf.m_size = 0
    /\ SpaceGiven

WriterSafe == has_pool => Handing

\* Pieces of what is apart are apart.
LEMMA PiecesApart ==
    ASSUME NEW r \in Extents, NEW s \in Extents, NEW x \in Extents, NEW y \in Extents,
           Within(r, x), Within(s, y), Apart(x, y)
    PROVE  Apart(r, s) /\ Apart(s, r)
  BY DEF Extents, Within, Apart

\* What the pool and the heap give does not overlap.
LEMMA SpacesApart ==
    /\ \A b \in Blocks : Space(b) \in Extents
    /\ \A b, c \in Blocks : b # c => Apart(Space(b), Space(c))
    /\ \A a \in BufAddrs, n \in WriteSizes :
         /\ [at |-> a, size |-> n] \in Extents /\ n > 0
         /\ \A b \in Blocks : Apart([at |-> a, size |-> n], Space(b)) /\ Apart(Space(b), [at |-> a, size |-> n])
    /\ \A x, y \in Extents : x.at \in BufAddrs /\ y.at \in BufAddrs /\ x.at # y.at
                               /\ x.size \in WriteSizes /\ y.size \in WriteSizes => Apart(x, y)
  <1>1. Blocks \subseteq Nat /\ BufAddrs \subseteq Nat /\ WriteSizes \subseteq Nat \ {0} /\ BlockSize \in Nat
    BY BlockAddresses, WriteBufferAssumption, LargeApart DEF Blocks
  <1>2. \A b \in Blocks : Space(b) \in Extents
    BY <1>1 DEF Space, Extents, m_block_size
  <1>3. \A b, c \in Blocks : b # c => Apart(Space(b), Space(c))
    <2> SUFFICES ASSUME NEW b \in Blocks, NEW c \in Blocks, b # c
                 PROVE  Apart(Space(b), Space(c))
      OBVIOUS
    <2>1. b < c \/ c < b
      BY <1>1
    <2>2. b + BlockSize <= c \/ c + BlockSize <= b
      BY <2>1, BlocksApart
    <2> QED
      BY <2>2 DEF Apart, Space, m_block_size
  <1>4. \A a \in BufAddrs, n \in WriteSizes : [at |-> a, size |-> n] \in Extents /\ n > 0
    BY <1>1 DEF Extents
  <1>5. \A a \in BufAddrs, n \in WriteSizes, b \in Blocks :
          Apart([at |-> a, size |-> n], Space(b)) /\ Apart(Space(b), [at |-> a, size |-> n])
    BY WriteBufferAssumption DEF Apart, Space, m_block_size
  <1>6. \A x, y \in Extents : x.at \in BufAddrs /\ y.at \in BufAddrs /\ x.at # y.at
                               /\ x.size \in WriteSizes /\ y.size \in WriteSizes => Apart(x, y)
    <2> SUFFICES ASSUME NEW x \in Extents, NEW y \in Extents, x.at \in BufAddrs, y.at \in BufAddrs,
                        x.at # y.at, x.size \in WriteSizes, y.size \in WriteSizes
                 PROVE  Apart(x, y)
      OBVIOUS
    <2>1. \A a \in BufAddrs, n \in WriteSizes, b \in BufAddrs : a < b => a + n <= b
      BY WriteBufferAssumption
    <2>2. x.at + x.size <= y.at \/ y.at + y.size <= x.at
      <3>1. PICK a, b, n, m : a = x.at /\ b = y.at /\ n = x.size /\ m = y.size
        OBVIOUS
      <3>2. a \in BufAddrs /\ b \in BufAddrs /\ n \in WriteSizes /\ m \in WriteSizes /\ a # b
        BY <3>1
      <3>3. a < b \/ b < a
        BY <1>1, <3>2
      <3>4. a + n <= b \/ b + m <= a
        BY <2>1, <3>2, <3>3
      <3> QED
        BY <3>1, <3>4
    <2> QED
      BY <2>2 DEF Apart
  <1> QED
    BY <1>2, <1>3, <1>4, <1>5, <1>6

\* An element added to a sequence.
LEMMA AppendSet ==
    ASSUME NEW S, NEW s \in Seq(S), NEW e \in S
    PROVE  ToSet(Append(s, e)) = ToSet(s) \cup {e}
  <1>1. PICK t : t = Append(s, e)
    OBVIOUS
  <1>2. /\ Len(s) \in Nat /\ DOMAIN s = 1 .. Len(s) /\ DOMAIN t = 1 .. Len(s) + 1 /\ t[Len(s) + 1] = e
        /\ \A i \in 1 .. Len(s) : t[i] = s[i]
    BY <1>1
  <1>3. \A i \in DOMAIN t : i \in DOMAIN s \/ i = Len(s) + 1
    BY <1>2
  <1>4. \A i \in DOMAIN s : i \in DOMAIN t /\ t[i] = s[i]
    BY <1>2
  <1>5. Len(s) + 1 \in DOMAIN t
    BY <1>2
  <1>6. ToSet(t) \subseteq ToSet(s) \cup {e}
    BY <1>2, <1>3, <1>4 DEF ToSet
  <1>7. ToSet(s) \cup {e} \subseteq ToSet(t)
    BY <1>2, <1>4, <1>5 DEF ToSet
  <1> QED
    BY <1>1, <1>6, <1>7

\* One more piece, inside what is allocated and apart from the others.
LEMMA PieceGiven ==
    ASSUME regions \in Seq(Extents), NEW r \in Extents, SpaceGiven, Allocated \subseteq Allocated',
           regions' = Append(regions, r), \E x \in Allocated' : Within(r, x),
           \A i \in DOMAIN regions : Apart(regions[i], r)
    PROVE  SpaceGiven'
  <1>1. PICK t : t = Append(regions, r)
    OBVIOUS
  <1>2. /\ Len(regions) \in Nat /\ DOMAIN regions = 1 .. Len(regions) /\ DOMAIN t = 1 .. Len(regions) + 1
        /\ t[Len(regions) + 1] = r /\ \A i \in 1 .. Len(regions) : t[i] = regions[i]
    BY <1>1
  <1>3. \A i \in DOMAIN t : (i \in DOMAIN regions /\ t[i] = regions[i]) \/ (i = Len(regions) + 1 /\ t[i] = r)
    BY <1>2
  <1>4. \A i \in DOMAIN t : \E x \in Allocated' : Within(t[i], x)
    BY <1>3 DEF SpaceGiven
  <1>5. \A i, j \in DOMAIN t : i # j => Apart(t[i], t[j])
    <2>1. \A i \in DOMAIN regions : Apart(r, regions[i])
      BY DEF Apart
    <2> QED
      BY <1>3, <2>1 DEF SpaceGiven
  <1>6. regions' = t
    BY <1>1
  <1> QED
    BY <1>4, <1>5, <1>6 DEF SpaceGiven, Within, Apart

\* What was handed out is apart from a block or a buffer that is not allocated yet.
LEMMA NewSpaceApart ==
    ASSUME Sharing, Handing, NEW x \in Extents, \A y \in Allocated : Apart(y, x),
           Allocated \subseteq Extents
    PROVE  \A i \in DOMAIN regions : Apart(regions[i], x)
  <1> SUFFICES ASSUME NEW i \in DOMAIN regions PROVE Apart(regions[i], x)
    OBVIOUS
  <1>1. PICK y \in Allocated : Within(regions[i], y)
    BY DEF Handing, SpaceGiven
  <1>2. regions[i] \in Extents
    BY DEF Sharing, WriterTypes
  <1>3. Within(x, x)
    BY DEF Within, Extents
  <1> QED
    BY <1>1, <1>2, <1>3, PiecesApart

\* What is allocated.
LEMMA AllocatedSpaces ==
    ASSUME WriterTypes, BufsKnown
    PROVE  /\ Allocated = {Space(b) : b \in ToSet(wbuf.m_blocks)} \cup ToSet(wbuf.m_bufs)
           /\ ToSet(wbuf.m_blocks) \subseteq Blocks /\ Allocated \subseteq Extents
  <1>1. ToSet(wbuf.m_blocks) \subseteq Blocks
    BY DEF WriterTypes, ToSet
  <1>2. Allocated = {Space(b) : b \in ToSet(wbuf.m_blocks)} \cup ToSet(wbuf.m_bufs)
    BY DEF Allocated, Space
  <1>3. ToSet(wbuf.m_bufs) \subseteq Extents
    BY DEF BufsKnown
  <1>4. {Space(b) : b \in ToSet(wbuf.m_blocks)} \subseteq Extents
    BY <1>1, SpacesApart, Zenon
  <1> QED
    BY <1>1, <1>2, <1>3, <1>4

\* A piece of the current block.
LEMMA HereSafe ==
    ASSUME Sharing, Handing, NEW size \in WriteSizes, WriteHere(size)
    PROVE  Handing'
  <1>0. size \in Nat /\ size > 0
    BY WriteBufferAssumption
  <1>1. /\ wbuf \in [m_ptr : Nat, m_size : Nat, m_usage : Nat, m_blocks : Seq(Blocks), m_bufs : Seq(Extents)]
        /\ regions \in Seq(Extents)
    BY DEF Sharing, WriterTypes
  <1>2. PICK p, q : p = wbuf.m_ptr /\ q = wbuf.m_size
    OBVIOUS
  <1>3. p \in Nat /\ q \in Nat /\ q >= size
    BY <1>1, <1>2 DEF WriteHere
  <1>4. PICK p2, q2 : p2 = p + size /\ q2 = q - size
    OBVIOUS
  <1>5. p2 \in Nat /\ q2 \in Nat
    BY <1>0, <1>3, <1>4
  <1>6. wbuf' = [wbuf EXCEPT !.m_ptr = p2, !.m_size = q2]
    BY <1>2, <1>4 DEF WriteHere
  <1>7. wbuf'.m_blocks = wbuf.m_blocks /\ wbuf'.m_bufs = wbuf.m_bufs /\ wbuf'.m_ptr = p2 /\ wbuf'.m_size = q2
    BY <1>1, <1>6
  <1>8. PICK r : r = [at |-> p, size |-> size]
    OBVIOUS
  <1>9. r \in Extents /\ regions' = Append(regions, r) /\ cleared' = cleared /\ cleared = 0
    BY <1>0, <1>2, <1>3, <1>8 DEF WriteHere, Hand, Extents
  <1>10. Allocated' = Allocated /\ BufsKnown'
    BY <1>7 DEF Allocated, BufsKnown, Handing
  <1>11. Rest = [at |-> p, size |-> q] /\ Rest' = [at |-> p2, size |-> q2] /\ Rest \in Extents /\ Rest' \in Extents
    BY <1>2, <1>3, <1>5, <1>7 DEF Rest, Extents
  <1>12. Within(r, Rest) /\ Within(Rest', Rest) /\ Apart(r, Rest')
    BY <1>0, <1>3, <1>4, <1>8, <1>11 DEF Within, Apart
  <1>13. q > 0
    BY <1>0, <1>3
  <1>14. PICK b \in ToSet(wbuf.m_blocks) : Within(Rest, Space(b))
    BY <1>2, <1>13 DEF Handing
  <1>15. b \in Blocks /\ Space(b) \in Extents /\ Space(b) \in Allocated
    BY AllocatedSpaces, SpacesApart DEF Sharing, Handing
  <1>16. Within(r, Space(b)) /\ Within(Rest', Space(b))
    BY <1>9, <1>11, <1>12, <1>14, <1>15 DEF Within, Extents
  <1>17. \A i \in DOMAIN regions : regions[i] \in Extents /\ Apart(regions[i], Rest)
    BY <1>1, <1>2, <1>13 DEF Handing
  <1>18. \A i \in DOMAIN regions : Apart(regions[i], r) /\ Apart(regions[i], Rest')
    <2>1. ASSUME NEW x \in Extents
          PROVE  Within(x, x)
      BY DEF Within, Extents
    <2> QED
      BY <1>9, <1>11, <1>12, <1>17, <2>1, PiecesApart
  <1>19. SpaceGiven'
    BY <1>1, <1>9, <1>10, <1>15, <1>16, <1>18, PieceGiven DEF Handing
  <1>20. \A i \in DOMAIN regions' : Apart(regions'[i], Rest')
    <2>1. PICK t : t = Append(regions, r)
      OBVIOUS
    <2>2. \A i \in DOMAIN t : t[i] = r \/ (i \in DOMAIN regions /\ t[i] = regions[i])
      BY <1>1, <1>9, <2>1
    <2>3. regions' = t
      BY <1>9, <2>1
    <2> QED
      BY <1>12, <1>18, <2>2, <2>3
  <1>21. \E c \in ToSet(wbuf'.m_blocks) : Within(Rest', Space(c)')
    BY <1>7, <1>16 DEF Space, m_block_size
  <1> QED
    BY <1>9, <1>10, <1>19, <1>20, <1>21 DEF Handing, Within, Apart

\* A piece of its own: the current block stays.
LEMMA LargeSafe ==
    ASSUME Sharing, Handing, NEW size \in WriteSizes, WriteLarge(size)
    PROVE  Handing'
  <1>1. /\ wbuf \in [m_ptr : Nat, m_size : Nat, m_usage : Nat, m_blocks : Seq(Blocks), m_bufs : Seq(Extents)]
        /\ regions \in Seq(Extents)
    BY DEF Sharing, WriterTypes
  <1>2. PICK a \in FreshBufs : /\ Hand(a, size)
                              /\ wbuf' = [wbuf EXCEPT !.m_bufs = Append(@, [at |-> a, size |-> size]),
                                                      !.m_usage = @ + size]
    BY DEF WriteLarge
  <1>3. PICK x, u, bufs : /\ x = [at |-> a, size |-> size] /\ u = wbuf.m_usage + size
                          /\ bufs = Append(wbuf.m_bufs, x)
    OBVIOUS
  <1>4. a \in BufAddrs /\ x \in Extents /\ x.at = a /\ x.size = size
    BY <1>3, SpacesApart DEF FreshBufs
  <1>5. wbuf' = [wbuf EXCEPT !.m_bufs = bufs, !.m_usage = u]
    BY <1>2, <1>3
  <1>6. /\ wbuf'.m_blocks = wbuf.m_blocks /\ wbuf'.m_bufs = bufs
        /\ wbuf'.m_ptr = wbuf.m_ptr /\ wbuf'.m_size = wbuf.m_size
    BY <1>1, <1>5
  <1>7. regions' = Append(regions, x) /\ cleared' = cleared /\ cleared = 0
    BY <1>2, <1>3 DEF Hand
  <1>8. ToSet(bufs) = ToSet(wbuf.m_bufs) \cup {x}
    BY <1>1, <1>3, <1>4, AppendSet
  <1>9. Allocated' = Allocated \cup {x} /\ BufsKnown' /\ Rest' = Rest
    BY <1>4, <1>6, <1>8 DEF Allocated, BufsKnown, Handing, Rest, m_block_size
  <1>10. \A y \in Allocated : Apart(y, x)
    <2>1. \A y \in ToSet(wbuf.m_bufs) : Apart(y, x)
      <3>1. \A y \in ToSet(wbuf.m_bufs) : y.at # a
        BY DEF FreshBufs
      <3> QED
        BY <1>4, <3>1, SpacesApart DEF Handing, BufsKnown
    <2>2. \A b \in ToSet(wbuf.m_blocks) : Apart(Space(b), x)
      BY <1>3, <1>4, AllocatedSpaces, SpacesApart DEF Sharing, Handing
    <2> QED
      BY <2>1, <2>2, AllocatedSpaces DEF Sharing, Handing
  <1>11. \A i \in DOMAIN regions : Apart(regions[i], x)
    BY <1>4, <1>10, NewSpaceApart, AllocatedSpaces DEF Sharing, Handing
  <1>12. Within(x, x)
    BY <1>4 DEF Within, Extents
  <1>13. SpaceGiven'
    BY <1>1, <1>4, <1>7, <1>9, <1>11, <1>12, PieceGiven DEF Handing
  <1>14. ASSUME wbuf.m_size > 0
         PROVE  /\ \E b \in ToSet(wbuf'.m_blocks) : Within(Rest', Space(b)')
                /\ \A i \in DOMAIN regions' : Apart(regions'[i], Rest')
    <2>1. PICK b \in ToSet(wbuf.m_blocks) : Within(Rest, Space(b))
      BY <1>14 DEF Handing
    <2>2. b \in Blocks /\ Space(b) \in Extents /\ Apart(x, Space(b))
      BY <1>3, <1>4, AllocatedSpaces, SpacesApart DEF Sharing, Handing
    <2>3. Rest \in Extents
      BY <1>1 DEF Rest, Extents
    <2>4. Apart(x, Rest)
      BY <1>4, <1>12, <2>1, <2>2, <2>3, PiecesApart
    <2>5. PICK t : t = Append(regions, x)
      OBVIOUS
    <2>6. \A i \in DOMAIN t : t[i] = x \/ (i \in DOMAIN regions /\ t[i] = regions[i])
      BY <1>1, <1>4, <2>5
    <2>7. regions' = t
      BY <1>7, <2>5
    <2>8. \A i \in DOMAIN regions : Apart(regions[i], Rest)
      BY <1>14 DEF Handing
    <2> QED
      BY <1>6, <1>9, <2>1, <2>4, <2>6, <2>7, <2>8 DEF Space, m_block_size
  <1> QED
    BY <1>6, <1>7, <1>9, <1>13, <1>14 DEF Handing, Within, Apart

\* The first piece of a new block, which nothing handed out lies in.
LEMMA NewBlockSafe ==
    ASSUME Sharing, Handing, NEW size \in WriteSizes, WriteNewBlock(size)
    PROVE  Handing'
  <1>0. size \in Nat /\ size > 0 /\ BlockSize \in Nat
    BY WriteBufferAssumption, LargeApart
  <1>1. /\ wbuf \in [m_ptr : Nat, m_size : Nat, m_usage : Nat, m_blocks : Seq(Blocks), m_bufs : Seq(Extents)]
        /\ regions \in Seq(Extents)
    BY DEF Sharing, WriterTypes
  <1>2. PICK b \in Blocks : AllocBlock(b) /\ StartBlock(b, size, Append(wbuf.m_blocks, b), wbuf.m_bufs)
    BY DEF WriteNewBlock
  <1>3. size <= BlockSize \div 2
    BY DEF WriteNewBlock, m_block_size
  <1>4. PICK r, blocks : r = [at |-> b, size |-> size] /\ blocks = Append(wbuf.m_blocks, b)
    OBVIOUS
  <1>5. /\ wbuf'.m_ptr = b + size /\ wbuf'.m_size = BlockSize - size
        /\ wbuf'.m_blocks = blocks /\ wbuf'.m_bufs = wbuf.m_bufs
        /\ regions' = Append(regions, r) /\ cleared = 0 /\ cleared' = 0
    BY <1>2, <1>4 DEF StartBlock, Hand, m_block_size
  <1>6. b \in Nat /\ BlockSize - size \in Nat
    BY <1>0, <1>3, BlockAddresses DEF Blocks
  <1>7. Rest' = [at |-> b + size, size |-> BlockSize - size] /\ Rest' \in Extents /\ r \in Extents
    BY <1>0, <1>4, <1>5, <1>6 DEF Rest, Extents
  <1>8. Space(b) \in Extents /\ Within(r, Space(b)) /\ Within(Rest', Space(b)) /\ Apart(r, Rest')
    BY <1>0, <1>4, <1>6, <1>7, SpacesApart DEF Within, Apart, Space, m_block_size
  <1>9. b \notin ToSet(wbuf.m_blocks)
    <2>1. b \notin WriterBlocks
      BY <1>2, AllocBlockLends DEF Sharing
    <2>2. \A i \in DOMAIN wbuf.m_blocks : wbuf.m_blocks[i] \in WriterBlocks
      BY <1>1, <1>5 DEF WriterBlocks, Held
    <2> QED
      BY <2>1, <2>2 DEF ToSet
  <1>10. ToSet(blocks) = ToSet(wbuf.m_blocks) \cup {b}
    BY <1>1, <1>4, AppendSet
  <1>11. Allocated' = Allocated \cup {Space(b)} /\ BufsKnown'
    BY <1>5, <1>10 DEF Allocated, BufsKnown, Handing, Space, m_block_size
  <1>12. \A y \in Allocated : Apart(y, Space(b))
    <2>1. \A y \in ToSet(wbuf.m_bufs) : Apart(y, Space(b))
      <3> SUFFICES ASSUME NEW y \in ToSet(wbuf.m_bufs) PROVE Apart(y, Space(b))
        OBVIOUS
      <3>1. y \in Extents /\ y.at \in BufAddrs /\ y.size \in WriteSizes
        BY DEF Handing, BufsKnown
      <3>2. y = [at |-> y.at, size |-> y.size]
        BY <3>1 DEF Extents
      <3> QED
        BY <3>1, <3>2, SpacesApart
    <2>2. \A c \in ToSet(wbuf.m_blocks) : Apart(Space(c), Space(b))
      BY <1>9, AllocatedSpaces, SpacesApart DEF Sharing, Handing
    <2> QED
      BY <2>1, <2>2, AllocatedSpaces DEF Sharing, Handing
  <1>13. \A i \in DOMAIN regions : Apart(regions[i], Space(b)) /\ regions[i] \in Extents
    BY <1>1, <1>8, <1>12, NewSpaceApart, AllocatedSpaces DEF Sharing, Handing
  <1>14. \A i \in DOMAIN regions : Apart(regions[i], r) /\ Apart(regions[i], Rest')
    <2>1. ASSUME NEW x \in Extents
          PROVE  Within(x, x)
      BY DEF Within, Extents
    <2> QED
      BY <1>7, <1>8, <1>13, <2>1, PiecesApart
  <1>15. SpaceGiven'
    BY <1>1, <1>5, <1>7, <1>8, <1>11, <1>14, PieceGiven DEF Handing
  <1>16. \A i \in DOMAIN regions' : Apart(regions'[i], Rest')
    <2>1. PICK t : t = Append(regions, r)
      OBVIOUS
    <2>2. \A i \in DOMAIN t : t[i] = r \/ (i \in DOMAIN regions /\ t[i] = regions[i])
      BY <1>1, <1>7, <2>1
    <2>3. regions' = t
      BY <1>5, <2>1
    <2> QED
      BY <1>8, <1>14, <2>2, <2>3
  <1>17. \E c \in ToSet(wbuf'.m_blocks) : Within(Rest', Space(c)')
    BY <1>5, <1>8, <1>10 DEF Space, m_block_size
  <1> QED
    BY <1>5, <1>11, <1>15, <1>16, <1>17 DEF Handing, Within, Apart

\* While Clear runs nothing is handed out any more.
LEMMA ClearSafe ==
    ASSUME Sharing, Handing, Clear
    PROVE  Handing'
  <1>1. wbuf \in [m_ptr : Nat, m_size : Nat, m_usage : Nat, m_blocks : Seq(Blocks), m_bufs : Seq(Extents)]
    BY DEF Sharing, WriterTypes
  <1>2. regions' = <<>>
    BY DEF Clear
  <1>3. wbuf'.m_size = 0 /\ (wbuf'.m_bufs = wbuf.m_bufs \/ wbuf'.m_bufs = <<>>)
    <2>1. CASE cleared + 1 < Len(wbuf.m_blocks)
      <3>1. wbuf' = [wbuf EXCEPT !.m_ptr = 0, !.m_size = 0]
        BY <2>1 DEF Clear
      <3> QED
        BY <1>1, <3>1
    <2>2. CASE ~ (cleared + 1 < Len(wbuf.m_blocks))
      <3>1. wbuf' = Empty
        BY <2>2 DEF Clear
      <3> QED
        BY <3>1 DEF Empty
    <2> QED
      BY <2>1, <2>2
  <1>4. BufsKnown'
    <2>1. ToSet(wbuf'.m_bufs) \subseteq ToSet(wbuf.m_bufs)
      BY <1>3 DEF ToSet
    <2> QED
      BY <2>1 DEF BufsKnown, Handing
  <1>5. SpaceGiven'
    BY <1>2 DEF SpaceGiven
  <1> QED
    BY <1>2, <1>3, <1>4, <1>5 DEF Handing

\* Every step keeps what Write handed out in the allocated space.
LEMMA WriterSafeNext ==
    ASSUME Sharing, WriterSafe, [Next]_vars
    PROVE  WriterSafe'
  <1>1. CASE UNCHANGED writeVars
    <2>1. /\ wbuf' = wbuf /\ cleared' = cleared /\ regions' = regions /\ has_pool' = has_pool
      BY <1>1 DEF writeVars
    <2>2. Allocated' = Allocated /\ Rest' = Rest /\ BufsKnown' = BufsKnown
      BY <2>1 DEF Allocated, Rest, BufsKnown, m_block_size
    <2>3. SpaceGiven' = SpaceGiven
      BY <2>1, <2>2 DEF SpaceGiven, Within, Apart
    <2> QED
      BY <2>1, <2>2, <2>3 DEF WriterSafe, Handing, Within, Apart, Space, m_block_size
  <1>2. CASE Clear
    BY <1>2, ClearSafe DEF WriterSafe, Clear
  <1>3. ASSUME NEW size \in WriteSizes, Write(size)
        PROVE  WriterSafe'
    <2>1. CASE ~has_pool
      <3>1. has_pool' = has_pool
        BY <1>3 DEF Write, WriteHere, WriteLarge, WriteNewBlock, WriteNewBuf, StartBlock, Hand
      <3> QED
        BY <2>1, <3>1 DEF WriterSafe
    <2>2. CASE has_pool
      <3>1. ~WriteNewBuf(size)
        BY <2>2 DEF WriteNewBuf
      <3>2. Handing'
        BY <1>3, <2>2, <3>1, HereSafe, LargeSafe, NewBlockSafe DEF Write, WriterSafe
      <3> QED
        BY <3>2 DEF WriterSafe
    <2> QED
      BY <2>1, <2>2
  <1>4. CASE UNCHANGED vars
    BY <1>1, <1>4 DEF vars
  <1> QED
    BY <1>1, <1>2, <1>3, <1>4 DEF Next, WriteBufferNext

\* A WriteBuffer with a pool hands out space that is allocated, and the same
\* space once, whatever is written and whoever else takes blocks from the pool.
THEOREM RegionsSafeHolds == Spec => []RegionsSafe
  <1>1. Init => Sharing /\ WriterSafe
    <2>1. Init => wbuf = Empty /\ regions = <<>> /\ cleared = 0
      BY DEF Init, WriteBufferInit
    <2>2. Init => Handing
      <3> SUFFICES ASSUME Init PROVE Handing
        OBVIOUS
      <3>1. wbuf.m_bufs = <<>> /\ wbuf.m_size = 0
        BY <2>1 DEF Empty
      <3>2. BufsKnown
        BY <3>1 DEF BufsKnown, ToSet
      <3>3. SpaceGiven
        BY <2>1 DEF SpaceGiven
      <3> QED
        BY <2>1, <3>1, <3>2, <3>3 DEF Handing
    <2> QED
      BY <2>2, SharingInit DEF WriterSafe
  <1>2. Sharing /\ WriterSafe /\ [Next]_vars => (Sharing /\ WriterSafe)'
    BY SharingNext, WriterSafeNext
  <1>3. WriterSafe => RegionsSafe
    BY DEF WriterSafe, Handing, RegionsSafe
  <1> QED
    BY <1>1, <1>2, <1>3, PTL DEF Spec
=============================================================================
