---------------------------- MODULE LookupProofs ----------------------------
(***************************************************************************)
(* For any keys, sizes and limits, the lists and the maps of an LruCache   *)
(* match, its cold size is exact, its hot list is in the order of the      *)
(* latest Get, Get loses no key and Add makes room; for any filters,       *)
(* widths, hashes and numbers of bits per key, a BloomFilter has no false  *)
(* negatives.  BlockPoolProofs has the lemmas on sequences and sums, and   *)
(* the induction.                                                          *)
(***************************************************************************)
EXTENDS LruCache, BloomFilter, BlockPoolProofs, FiniteSetTheorems
-----------------------------------------------------------------------------
(***************************************************************************)
(* The total of a sequence that is computed from another one.              *)
(***************************************************************************)
\* A sequence with a function applied to each element.
Mapped(f, s) == [i \in DOMAIN s |-> f[s[i]]]

\* It has as many elements.
LEMMA MappedPlaces ==
    ASSUME NEW S, NEW f \in [S -> Nat], NEW s \in Seq(S)
    PROVE  /\ Len(s) \in Nat /\ Mapped(f, s) \in Seq(Nat) /\ Len(Mapped(f, s)) = Len(s)
           /\ \A i \in 1 .. Len(s) : Mapped(f, s)[i] = f[s[i]]
  <1>1. Len(s) \in Nat /\ DOMAIN s = 1 .. Len(s) /\ \A i \in 1 .. Len(s) : s[i] \in S
    OBVIOUS
  <1>2. Mapped(f, s) \in [1 .. Len(s) -> Nat] /\ \A i \in 1 .. Len(s) : Mapped(f, s)[i] = f[s[i]]
    BY <1>1 DEF Mapped
  <1> QED
    BY <1>1, <1>2

\* What two sequences add up to, one behind the other.
LEMMA TotalMapped ==
    ASSUME NEW S, NEW f \in [S -> Nat], NEW s \in Seq(S), NEW t \in Seq(S)
    PROVE  /\ Total(Mapped(f, s)) \in Nat
           /\ Total(Mapped(f, s \o t)) = Total(Mapped(f, s)) + Total(Mapped(f, t))
  <1>1. PICK a, b, c, e : a = Mapped(f, s) /\ b = Mapped(f, t) /\ e = s \o t /\ c = Mapped(f, e)
    OBVIOUS
  <1>2. /\ Len(s) \in Nat /\ Len(t) \in Nat /\ e \in Seq(S) /\ Len(e) = Len(s) + Len(t)
        /\ \A i \in 1 .. Len(s) + Len(t) : e[i] = IF i <= Len(s) THEN s[i] ELSE t[i - Len(s)]
    BY <1>1, ConcatPlaces
  <1>3. a \in Seq(Nat) /\ Len(a) = Len(s) /\ \A i \in 1 .. Len(s) : a[i] = f[s[i]]
    <2>1. Mapped(f, s) \in Seq(Nat) /\ Len(Mapped(f, s)) = Len(s)
      BY MappedPlaces
    <2>2. \A i \in 1 .. Len(s) : Mapped(f, s)[i] = f[s[i]]
      BY MappedPlaces
    <2> QED
      BY <1>1, <2>1, <2>2
  <1>4. b \in Seq(Nat) /\ Len(b) = Len(t) /\ \A i \in 1 .. Len(t) : b[i] = f[t[i]]
    <2>1. Mapped(f, t) \in Seq(Nat) /\ Len(Mapped(f, t)) = Len(t)
      BY MappedPlaces
    <2>2. \A i \in 1 .. Len(t) : Mapped(f, t)[i] = f[t[i]]
      BY MappedPlaces
    <2> QED
      BY <1>1, <2>1, <2>2
  <1>5. c \in Seq(Nat) /\ Len(c) = Len(e) /\ \A i \in 1 .. Len(e) : c[i] = f[e[i]]
    <2>0. e \in Seq(S)
      BY <1>2
    <2>1. Mapped(f, e) \in Seq(Nat) /\ Len(Mapped(f, e)) = Len(e)
      BY <2>0, MappedPlaces
    <2>2. \A i \in 1 .. Len(e) : Mapped(f, e)[i] = f[e[i]]
      BY <2>0, MappedPlaces
    <2> QED
      BY <1>1, <2>1, <2>2
  <1>6. PICK d : d = a \o b
    OBVIOUS
  <1>7. /\ d \in Seq(Nat) /\ Len(d) = Len(a) + Len(b)
        /\ \A i \in 1 .. Len(a) + Len(b) : d[i] = IF i <= Len(a) THEN a[i] ELSE b[i - Len(a)]
    BY <1>3, <1>4, <1>6, ConcatPlaces
  <1>8. Len(c) = Len(d)
    BY <1>2, <1>3, <1>4, <1>5, <1>7
  <1>9. \A i \in 1 .. Len(c) : c[i] = d[i]
    <2> SUFFICES ASSUME NEW i \in 1 .. Len(c) PROVE c[i] = d[i]
      OBVIOUS
    <2>1. i \in 1 .. Len(s) + Len(t) /\ c[i] = f[e[i]]
      BY <1>2, <1>5
    <2>2. CASE i <= Len(s)
      <3>1. i \in 1 .. Len(s) /\ e[i] = s[i]
        BY <1>2, <2>1, <2>2
      <3>2. d[i] = a[i] /\ a[i] = f[s[i]]
        BY <1>3, <1>4, <1>7, <2>1, <2>2, <3>1
      <3> QED
        BY <2>1, <3>1, <3>2
    <2>3. CASE ~ (i <= Len(s))
      <3>1. i - Len(s) \in 1 .. Len(t) /\ e[i] = t[i - Len(s)]
        <4>1. i - Len(s) \in 1 .. Len(t)
          BY <1>2, <2>1, <2>3
        <4>2. e[i] = t[i - Len(s)]
          BY <1>2, <2>1, <2>3
        <4> QED
          BY <4>1, <4>2
      <3>2. d[i] = b[i - Len(s)] /\ b[i - Len(s)] = f[t[i - Len(s)]]
        BY <1>3, <1>4, <1>7, <2>1, <2>3, <3>1
      <3> QED
        BY <2>1, <3>1, <3>2
    <2> QED
      BY <2>2, <2>3
  <1>10. c = d
    BY <1>5, <1>7, <1>8, <1>9, SeqsEqual
  <1>11. Total(a) \in Nat /\ Total(a \o b) = Total(a) + Total(b)
    BY <1>3, <1>4, TotalConcat
  <1> QED
    BY <1>1, <1>6, <1>10, <1>11

\* Once more.
LEMMA TimesNext == \A n, k \in Int : (n - 1) * k + k = n * k
  OBVIOUS

\* At most the largest element as often as there are elements.
LEMMA TotalBound ==
    ASSUME NEW s \in Seq(Nat), NEW top \in Nat, \A i \in 1 .. Len(s) : s[i] <= top
    PROVE  Total(s) <= Len(s) * top
  <1>1. Len(s) \in Nat
    OBVIOUS
  <1>2. PICK u \in [0 .. Len(s) -> Nat] : Sums(u, s)
    BY SumsExist
  <1>3. Total(s) = u[Len(s)]
    BY <1>2, TotalIsSum
  <1> DEFINE Bad == {m \in 0 .. Len(s) : ~ (u[m] <= m * top)}
  <1>4. Bad = {}
    <2> SUFFICES ASSUME Bad # {} PROVE FALSE
      OBVIOUS
    <2>1. PICK n \in Bad : \A m \in Bad : n <= m
      <3>1. Bad \in SUBSET Nat
        BY <1>1
      <3> HIDE DEF Bad
      <3> QED
        BY <3>1, LeastNat
    <2>2. n \in 0 .. Len(s) /\ ~ (u[n] <= n * top)
      OBVIOUS
    <2>3. n # 0
      BY <1>2, <2>2 DEF Sums
    <2>4. n - 1 \in 0 .. Len(s) /\ n - 1 \notin Bad /\ n \in 1 .. Len(s)
      BY <1>1, <2>1, <2>2, <2>3
    <2>5. u[n - 1] <= (n - 1) * top
      BY <2>4
    <2>6. u[n] = u[n - 1] + s[n] /\ s[n] <= top /\ u[n - 1] \in Nat /\ s[n] \in Nat
      <3>1. u[n - 1] \in Nat
        BY <2>4
      <3>2. s[n] \in Nat /\ s[n] <= top
        BY <2>4
      <3>3. u[n] = u[n - 1] + s[n]
        BY <1>2, <2>4 DEF Sums
      <3> QED
        BY <3>1, <3>2, <3>3
    <2>7. (n - 1) * top + top = n * top
      <3>1. n \in Int /\ top \in Int
        BY <1>1, <2>2
      <3> QED
        BY <3>1, TimesNext
    <2>8. u[n - 1] + s[n] <= (n - 1) * top + top
      <3>1. PICK z : z = (n - 1) * top
        OBVIOUS
      <3>2. z \in Int
        BY <2>2, <3>1
      <3> QED
        <4>1. PICK y, v, w : y = u[n - 1] /\ v = s[n] /\ w = (n - 1) * top
          OBVIOUS
        <4>2. y \in Nat /\ v \in Nat /\ w \in Int /\ y <= w /\ v <= top /\ top \in Int
          BY <2>5, <2>6, <3>1, <3>2, <4>1
        <4>3. y + v <= w + top
          BY <4>2
        <4> QED
          BY <4>1, <4>3
    <2> QED
      BY <2>2, <2>6, <2>7, <2>8
  <1> QED
    BY <1>1, <1>3, <1>4
-----------------------------------------------------------------------------
(***************************************************************************)
(* Pieces of a sequence.                                                   *)
(***************************************************************************)
\* Its first n elements, and the others.
LEMMA SplitPlaces ==
    ASSUME NEW S, NEW s \in Seq(S), NEW n \in 0 .. Len(s)
    PROVE  /\ SubSeq(s, 1, n) \in Seq(S) /\ Len(SubSeq(s, 1, n)) = n
           /\ \A i \in 1 .. n : SubSeq(s, 1, n)[i] = s[i]
           /\ SubSeq(s, n + 1, Len(s)) \in Seq(S) /\ Len(SubSeq(s, n + 1, Len(s))) = Len(s) - n
           /\ \A i \in 1 .. Len(s) - n : SubSeq(s, n + 1, Len(s))[i] = s[n + i]
           /\ SubSeq(s, 1, n) \o SubSeq(s, n + 1, Len(s)) = s
  <1>1. Len(s) \in Nat /\ n \in Nat /\ n <= Len(s)
    OBVIOUS
  <1>2. PICK a, b : a = SubSeq(s, 1, n) /\ b = SubSeq(s, n + 1, Len(s))
    OBVIOUS
  <1>3. a \in Seq(S) /\ Len(a) = n /\ \A i \in 1 .. n : a[i] = s[i]
    BY <1>1, <1>2
  <1>4. b \in Seq(S) /\ Len(b) = Len(s) - n /\ \A i \in 1 .. Len(s) - n : b[i] = s[n + i]
    BY <1>1, <1>2
  <1>5. /\ a \o b \in Seq(S) /\ Len(a \o b) = Len(s)
        /\ \A i \in 1 .. Len(s) : (a \o b)[i] = s[i]
    <2>1. /\ a \o b \in Seq(S) /\ Len(a \o b) = Len(a) + Len(b)
          /\ \A i \in 1 .. Len(a) + Len(b) : (a \o b)[i] = IF i <= Len(a) THEN a[i] ELSE b[i - Len(a)]
      BY <1>3, <1>4, ConcatPlaces
    <2>2. Len(a) + Len(b) = Len(s)
      BY <1>1, <1>3, <1>4
    <2>3. ASSUME NEW i \in 1 .. Len(s)
          PROVE  (a \o b)[i] = s[i]
      <3>1. CASE i <= n
        <4>1. i \in 1 .. n
          BY <1>1, <3>1
        <4> QED
          BY <1>3, <2>1, <2>2, <3>1, <4>1
      <3>2. CASE ~ (i <= n)
        <4>1. i - n \in 1 .. Len(s) - n /\ n + (i - n) = i
          BY <1>1, <3>2
        <4>2. (a \o b)[i] = b[i - n]
          BY <1>3, <2>1, <2>2, <3>2
        <4> QED
          BY <1>4, <4>1, <4>2
      <3> QED
        BY <3>1, <3>2
    <2> QED
      BY <2>1, <2>2, <2>3
  <1>6. a \o b = s
    BY <1>5, SeqsEqual
  <1> QED
    BY <1>2, <1>3, <1>4, <1>6

\* One element is erased.
LEMMA RemovePlaces ==
    ASSUME NEW S, NEW s \in Seq(S), NEW p \in 1 .. Len(s)
    PROVE  /\ Len(s) \in Nat /\ RemoveAt(s, p) \in Seq(S) /\ Len(RemoveAt(s, p)) = Len(s) - 1
           /\ \A i \in 1 .. Len(s) - 1 : RemoveAt(s, p)[i] = IF i < p THEN s[i] ELSE s[i + 1]
  <1>1. Len(s) \in Nat /\ p \in Nat /\ p >= 1 /\ p <= Len(s) /\ p - 1 \in 0 .. Len(s) /\ p \in 0 .. Len(s)
    OBVIOUS
  <1>2. PICK a, b : a = SubSeq(s, 1, p - 1) /\ b = SubSeq(s, p + 1, Len(s))
    OBVIOUS
  <1>3. a \in Seq(S) /\ Len(a) = p - 1 /\ \A i \in 1 .. p - 1 : a[i] = s[i]
    BY <1>1, <1>2, SplitPlaces
  <1>4. b \in Seq(S) /\ Len(b) = Len(s) - p /\ \A i \in 1 .. Len(s) - p : b[i] = s[p + i]
    BY <1>1, <1>2, SplitPlaces
  <1>5. /\ a \o b \in Seq(S) /\ Len(a \o b) = Len(a) + Len(b)
        /\ \A i \in 1 .. Len(a) + Len(b) : (a \o b)[i] = IF i <= Len(a) THEN a[i] ELSE b[i - Len(a)]
    BY <1>3, <1>4, ConcatPlaces
  <1>6. RemoveAt(s, p) = a \o b
    BY <1>2 DEF RemoveAt
  <1>7. \A i \in 1 .. Len(s) - 1 : (a \o b)[i] = IF i < p THEN s[i] ELSE s[i + 1]
    <2> SUFFICES ASSUME NEW i \in 1 .. Len(s) - 1
                 PROVE  (a \o b)[i] = IF i < p THEN s[i] ELSE s[i + 1]
      OBVIOUS
    <2>1. i \in 1 .. Len(a) + Len(b)
      BY <1>1, <1>3, <1>4
    <2>2. CASE i < p
      <3>1. i \in 1 .. p - 1 /\ i <= Len(a)
        BY <1>1, <1>3, <2>2
      <3> QED
        BY <1>3, <1>5, <2>1, <2>2, <3>1
    <2>3. CASE ~ (i < p)
      <3>1. i - (p - 1) \in 1 .. Len(s) - p /\ ~ (i <= Len(a)) /\ p + (i - (p - 1)) = i + 1
        BY <1>1, <1>3, <2>3
      <3>2. (a \o b)[i] = b[i - (p - 1)]
        BY <1>3, <1>5, <2>1, <3>1
      <3> QED
        BY <1>4, <2>3, <3>1, <3>2
    <2> QED
      BY <2>2, <2>3
  <1>8. Len(a) + Len(b) = Len(s) - 1
    BY <1>1, <1>3, <1>4
  <1> QED
    BY <1>1, <1>5, <1>6, <1>7, <1>8

\* One element is put in front.
LEMMA FrontLen ==
    ASSUME NEW S, NEW s \in Seq(S), NEW e \in S
    PROVE  /\ <<e>> \o s \in Seq(S) /\ Len(<<e>> \o s) = Len(s) + 1 /\ (<<e>> \o s)[1] = e
           /\ \A i \in 2 .. Len(s) + 1 : (<<e>> \o s)[i] = s[i - 1]
  OBVIOUS

\* A sequence from which an element is erased, with the element between.
LEMMA RemovedBetween ==
    ASSUME NEW S, NEW s \in Seq(S), NEW p \in 1 .. Len(s)
    PROVE  /\ SubSeq(s, 1, p - 1) \in Seq(S) /\ SubSeq(s, p + 1, Len(s)) \in Seq(S)
           /\ (SubSeq(s, 1, p - 1) \o <<s[p]>>) \o SubSeq(s, p + 1, Len(s)) = s
  <1>1. /\ Len(s) \in Nat /\ p \in Nat /\ p >= 1 /\ p <= Len(s) /\ p - 1 \in 0 .. Len(s) /\ p \in 0 .. Len(s)
        /\ s[p] \in S
    OBVIOUS
  <1>2. PICK a, b, c : a = SubSeq(s, 1, p - 1) /\ b = SubSeq(s, p + 1, Len(s)) /\ c = SubSeq(s, 1, p)
    OBVIOUS
  <1>3. a \in Seq(S) /\ Len(a) = p - 1 /\ \A i \in 1 .. p - 1 : a[i] = s[i]
    BY <1>1, <1>2, SplitPlaces
  <1>4. b \in Seq(S)
    BY <1>1, <1>2, SplitPlaces
  <1>5. c \in Seq(S) /\ Len(c) = p /\ \A i \in 1 .. p : c[i] = s[i]
    BY <1>1, <1>2, SplitPlaces
  <1>6. c \o b = s
    BY <1>1, <1>2, SplitPlaces
  <1>7. c = a \o <<s[p]>>
    <2>1. PICK e, d : e = s[p] /\ d = a \o <<e>>
      OBVIOUS
    <2>2. d \in Seq(S) /\ Len(d) = p /\ d[p] = e /\ \A i \in 1 .. p - 1 : d[i] = a[i]
      <3>1. d \in Seq(S) /\ Len(d) = Len(a) + 1 /\ d[Len(a) + 1] = e /\ \A i \in 1 .. Len(a) : d[i] = a[i]
        BY <1>1, <1>3, <2>1
      <3> QED
        BY <1>1, <1>3, <3>1
    <2>3. \A i \in 1 .. p : c[i] = d[i]
      <3>1. \A i \in 1 .. p : i = p \/ i \in 1 .. p - 1
        BY <1>1
      <3>2. p \in 1 .. p
        BY <1>1
      <3>3. \A i \in 1 .. p - 1 : i \in 1 .. p
        BY <1>1
      <3> QED
        BY <1>3, <1>5, <2>1, <2>2, <3>1, <3>2, <3>3
    <2>4. c = d
      BY <1>5, <2>2, <2>3, SeqsEqual
    <2> QED
      BY <2>1, <2>4
  <1> QED
    BY <1>2, <1>3, <1>4, <1>6, <1>7
-----------------------------------------------------------------------------
(***************************************************************************)
(* The sizes of the nodes of a list.                                       *)
(***************************************************************************)
\* The values of the sizes.
LEMMA NodeTypes ==
    /\ \A n \in Nodes : n.value_size \in Nat /\ n.value_size \in ValueSizes /\ n.key \in Keys /\ n.id \in Ids
    /\ SizeMod \in Nat \ {0} /\ MaxSize \in Nat /\ MaxSize < SizeMod
  BY ConstantsAssumption DEF Nodes

\* They add up over two lists.
LEMMA SizesConcat ==
    ASSUME NEW a \in Seq(Nodes), NEW b \in Seq(Nodes)
    PROVE  Sizes(a) \in Nat /\ Sizes(a \o b) = Sizes(a) + Sizes(b)
  <1>1. PICK f \in [Nodes -> Nat] : \A n \in Nodes : f[n] = n.value_size
    <2>1. [n \in Nodes |-> n.value_size] \in [Nodes -> Nat]
      BY NodeTypes
    <2> QED
      BY <2>1
  <1>2. ASSUME NEW list \in Seq(Nodes)
        PROVE  Sizes(list) = Total(Mapped(f, list))
    <2> HIDE DEF Nodes
    <2>1. \A i \in DOMAIN list : list[i] \in Nodes
      OBVIOUS
    <2>2. \A i \in DOMAIN list : list[i].value_size = f[list[i]]
      BY <1>1, <2>1
    <2>3. [i \in DOMAIN list |-> list[i].value_size] = Mapped(f, list)
      BY <2>2 DEF Mapped
    <2> QED
      BY <2>3 DEF Sizes
  <1>3. a \o b \in Seq(Nodes)
    OBVIOUS
  <1>4. Total(Mapped(f, a)) \in Nat /\ Total(Mapped(f, a \o b)) = Total(Mapped(f, a)) + Total(Mapped(f, b))
    BY TotalMapped
  <1> QED
    BY <1>2, <1>3, <1>4

\* No node, one node.
LEMMA SizesSmall ==
    Sizes(<<>>) = 0 /\ \A n \in Nodes : Sizes(<<n>>) = n.value_size
  <1>1. Sizes(<<>>) = 0
    <2>1. [i \in DOMAIN <<>> |-> <<>>[i].value_size] = <<>>
      OBVIOUS
    <2> QED
      BY <2>1, TotalConcat DEF Sizes
  <1>2. ASSUME NEW n \in Nodes
        PROVE  Sizes(<<n>>) = n.value_size
    <2>1. PICK s, v : s = <<n>> /\ v = n.value_size
      OBVIOUS
    <2>2. v \in Nat
      BY <2>1, NodeTypes
    <2>3. [i \in DOMAIN s |-> s[i].value_size] = <<v>>
      <3>1. DOMAIN s = 1 .. 1 /\ s[1] = n
        BY <2>1
      <3>2. [i \in DOMAIN s |-> s[i].value_size] \in [1 .. 1 -> Nat]
        BY <2>1, <2>2, <3>1
      <3> QED
        BY <2>1, <3>1, <3>2
    <2>4. Sizes(s) = Total(<<v>>)
      BY <2>3 DEF Sizes
    <2> QED
      BY <2>1, <2>2, <2>4, TotalConcat
  <1> QED
    BY <1>1, <1>2

\* One more in front.
LEMMA SizesFront ==
    ASSUME NEW list \in Seq(Nodes), NEW n \in Nodes
    PROVE  Sizes(<<n>> \o list) = n.value_size + Sizes(list)
  <1>1. <<n>> \in Seq(Nodes)
    OBVIOUS
  <1> QED
    BY <1>1, SizesConcat, SizesSmall

\* One less.
LEMMA SizesRemove ==
    ASSUME NEW list \in Seq(Nodes), NEW p \in 1 .. Len(list)
    PROVE  Sizes(list) = Sizes(RemoveAt(list, p)) + list[p].value_size
  <1> HIDE DEF Nodes
  <1>1. PICK a, b : a = SubSeq(list, 1, p - 1) /\ b = SubSeq(list, p + 1, Len(list))
    OBVIOUS
  <1>2. a \in Seq(Nodes) /\ b \in Seq(Nodes) /\ RemoveAt(list, p) = a \o b
    BY <1>1, RemovedBetween DEF RemoveAt
  <1>3. list[p] \in Nodes
    OBVIOUS
  <1>4. PICK n, c : n = list[p] /\ c = <<n>>
    OBVIOUS
  <1>5. c \in Seq(Nodes) /\ Sizes(c) = n.value_size /\ n.value_size \in Nat
    BY <1>3, <1>4, SizesSmall, NodeTypes
  <1>6. PICK d : d = a \o c
    OBVIOUS
  <1>7. d \in Seq(Nodes) /\ Sizes(d) = Sizes(a) + Sizes(c)
    <2>1. a \o c \in Seq(Nodes)
      BY <1>2, <1>5
    <2>2. Sizes(a \o c) = Sizes(a) + Sizes(c)
      BY <1>2, <1>5, SizesConcat
    <2> QED
      BY <1>6, <2>1, <2>2
  <1>8. Sizes(a \o b) = Sizes(a) + Sizes(b) /\ Sizes(a) \in Nat /\ Sizes(b) \in Nat
    BY <1>2, SizesConcat
  <1>9. Sizes(d \o b) = Sizes(d) + Sizes(b)
    BY <1>2, <1>7, SizesConcat
  <1>10. d \o b = list
    <2>1. (SubSeq(list, 1, p - 1) \o <<list[p]>>) \o SubSeq(list, p + 1, Len(list)) = list
      BY RemovedBetween
    <2> QED
      BY <1>1, <1>4, <1>6, <2>1
  <1> QED
    BY <1>2, <1>4, <1>5, <1>7, <1>8, <1>9, <1>10
-----------------------------------------------------------------------------
(***************************************************************************)
(* One list with its map.                                                  *)
(***************************************************************************)
\* The map has an iterator per node, and every key is on the list once.
Sound(list, map) ==
    /\ list \in Seq(Nodes)
    /\ \A i \in 1 .. Len(list) : list[i].id[1] = list[i].key
    /\ map = {Entry(list[i]) : i \in 1 .. Len(list)}
    /\ \A i, j \in 1 .. Len(list) : list[i].key = list[j].key => i = j

\* What a key's entry leads to.
LEMMA Found ==
    ASSUME NEW list, NEW map, Sound(list, map), NEW p \in 1 .. Len(list)
    PROVE  /\ InMap(map, list[p].key) /\ Find(map, list[p].key) = list[p].id
           /\ Place(list, list[p].id) = p
           /\ NodeAt(list, list[p].id) = list[p] /\ Erase(list, list[p].id) = RemoveAt(list, p)
           /\ list[p] \in Nodes
  <1>1. /\ list \in Seq(Nodes) /\ map = {Entry(list[i]) : i \in 1 .. Len(list)}
        /\ \A i \in 1 .. Len(list) : list[i].id[1] = list[i].key
        /\ \A i, j \in 1 .. Len(list) : list[i].key = list[j].key => i = j
    BY DEF Sound
  <1>2. DOMAIN list = 1 .. Len(list) /\ list[p] \in Nodes
    BY <1>1
  <1>3. \A x : Entry(x).key = x.key /\ Entry(x).id = x.id
    BY DEF Entry
  <1>4. Entry(list[p]) \in map
    BY <1>1
  <1>5. \A e \in map : e.key = list[p].key => e = Entry(list[p])
    <2> SUFFICES ASSUME NEW e \in map, e.key = list[p].key
                 PROVE  e = Entry(list[p])
      OBVIOUS
    <2>1. PICK i \in 1 .. Len(list) : e = Entry(list[i])
      BY <1>1
    <2> QED
      BY <1>1, <1>3, <2>1
  <1>6. InMap(map, list[p].key)
    BY <1>3, <1>4 DEF InMap
  <1>7. Find(map, list[p].key) = list[p].id
    <2>1. PICK c : c = CHOOSE i \in map : i.key = list[p].key
      OBVIOUS
    <2>2. c \in map /\ c.key = list[p].key
      BY <1>3, <1>4, <2>1, Zenon
    <2>3. c = Entry(list[p])
      BY <1>5, <2>2
    <2> QED
      BY <1>3, <2>1, <2>3 DEF Find
  <1>8. Place(list, list[p].id) = p
    <2>1. PICK c : c = CHOOSE i \in DOMAIN list : list[i].id = list[p].id
      OBVIOUS
    <2>2. c \in DOMAIN list /\ list[c].id = list[p].id
      BY <1>2, <2>1, Zenon
    <2>3. list[c].key = list[p].key
      <3>1. list[c].id[1] = list[c].key /\ list[p].id[1] = list[p].key
        BY <1>1, <1>2, <2>2
      <3> QED
        BY <2>2, <3>1
    <2>4. c = p
      BY <1>1, <1>2, <2>2, <2>3
    <2> QED
      BY <2>1, <2>4 DEF Place
  <1> QED
    BY <1>2, <1>6, <1>7, <1>8 DEF NodeAt, Erase

\* A key with an entry is on the list.
LEMMA OnList ==
    ASSUME NEW list, NEW map, Sound(list, map), NEW k, InMap(map, k)
    PROVE  \E p \in 1 .. Len(list) : list[p].key = k
  <1>1. map = {Entry(list[i]) : i \in 1 .. Len(list)}
    BY DEF Sound
  <1>2. \A x : Entry(x).key = x.key
    BY DEF Entry
  <1> QED
    BY <1>1, <1>2 DEF InMap

\* The same, with everything that is found by it.
LEMMA Lookup ==
    ASSUME NEW list, NEW map, Sound(list, map), NEW k, InMap(map, k)
    PROVE  \E p \in 1 .. Len(list) :
              /\ list[p].key = k /\ list[p] \in Nodes /\ Find(map, k) = list[p].id
              /\ NodeAt(list, Find(map, k)) = list[p] /\ Erase(list, Find(map, k)) = RemoveAt(list, p)
  <1>1. PICK p \in 1 .. Len(list) : list[p].key = k
    BY OnList
  <1>2. /\ Find(map, list[p].key) = list[p].id /\ list[p] \in Nodes
        /\ NodeAt(list, list[p].id) = list[p] /\ Erase(list, list[p].id) = RemoveAt(list, p)
    BY Found
  <1> QED
    BY <1>1, <1>2

\* A node and its entry are erased.
LEMMA SoundRemove ==
    ASSUME NEW list, NEW map, Sound(list, map), NEW p \in 1 .. Len(list)
    PROVE  /\ Sound(RemoveAt(list, p), EraseKeys(map, {list[p].key}))
           /\ \A i \in 1 .. Len(RemoveAt(list, p)) :
                /\ RemoveAt(list, p)[i].key # list[p].key
                /\ \E j \in 1 .. Len(list) : RemoveAt(list, p)[i] = list[j]
           /\ \A j \in 1 .. Len(list) :
                j # p => \E i \in 1 .. Len(RemoveAt(list, p)) : RemoveAt(list, p)[i] = list[j]
  <1>1. /\ list \in Seq(Nodes) /\ map = {Entry(list[i]) : i \in 1 .. Len(list)}
        /\ \A i \in 1 .. Len(list) : list[i].id[1] = list[i].key
        /\ \A i, j \in 1 .. Len(list) : list[i].key = list[j].key => i = j
    BY DEF Sound
  <1>2. PICK r : r = RemoveAt(list, p)
    OBVIOUS
  <1>3. /\ Len(list) \in Nat /\ r \in Seq(Nodes) /\ Len(r) = Len(list) - 1
        /\ \A i \in 1 .. Len(list) - 1 : r[i] = IF i < p THEN list[i] ELSE list[i + 1]
    BY <1>1, <1>2, RemovePlaces
  <1>4. \A i \in 1 .. Len(r) : \E j \in 1 .. Len(list) :
           r[i] = list[j] /\ j # p /\ j = IF i < p THEN i ELSE i + 1
    <2> SUFFICES ASSUME NEW i \in 1 .. Len(r)
                 PROVE  \E j \in 1 .. Len(list) :
                           r[i] = list[j] /\ j # p /\ j = IF i < p THEN i ELSE i + 1
      OBVIOUS
    <2>1. i \in 1 .. Len(list) - 1 /\ i \in 1 .. Len(list) /\ i + 1 \in 1 .. Len(list) /\ i \in Nat /\ p \in Nat
      BY <1>3
    <2>2. CASE i < p
      BY <1>3, <2>1, <2>2
    <2>3. CASE ~ (i < p)
      BY <1>3, <2>1, <2>3
    <2> QED
      BY <2>2, <2>3
  <1>5. \A j \in 1 .. Len(list) : j # p => \E i \in 1 .. Len(r) : r[i] = list[j]
    <2> SUFFICES ASSUME NEW j \in 1 .. Len(list), j # p
                 PROVE  \E i \in 1 .. Len(r) : r[i] = list[j]
      OBVIOUS
    <2>1. CASE j < p
      <3>1. j \in 1 .. Len(list) - 1
        BY <1>3, <2>1
      <3> QED
        BY <1>3, <2>1, <3>1
    <2>2. CASE j > p
      <3>1. j - 1 \in 1 .. Len(list) - 1 /\ ~ (j - 1 < p) /\ (j - 1) + 1 = j
        BY <1>3, <2>2
      <3>2. r[j - 1] = list[j]
        BY <1>3, <3>1
      <3> QED
        BY <1>3, <3>1, <3>2
    <2>3. j \in Nat /\ p \in Nat
      BY <1>3
    <2> QED
      BY <2>1, <2>2, <2>3
  <1>6. \A i \in 1 .. Len(r) : r[i].key # list[p].key /\ r[i].id[1] = r[i].key
    BY <1>1, <1>4
  <1>7. \A i, j \in 1 .. Len(r) : r[i].key = r[j].key => i = j
    <2> SUFFICES ASSUME NEW i \in 1 .. Len(r), NEW j \in 1 .. Len(r), r[i].key = r[j].key
                 PROVE  i = j
      OBVIOUS
    <2>1. PICK a \in 1 .. Len(list) : r[i] = list[a] /\ a # p /\ a = IF i < p THEN i ELSE i + 1
      BY <1>4
    <2>2. PICK b \in 1 .. Len(list) : r[j] = list[b] /\ b # p /\ b = IF j < p THEN j ELSE j + 1
      BY <1>4
    <2>3. a = b
      BY <1>1, <2>1, <2>2
    <2> QED
      BY <1>3, <2>1, <2>2, <2>3
  <1>8. EraseKeys(map, {list[p].key}) = {Entry(r[i]) : i \in 1 .. Len(r)}
    <2>0. \A x : Entry(x).key = x.key
      BY DEF Entry
    <2>1. ASSUME NEW e, e \in EraseKeys(map, {list[p].key})
          PROVE  e \in {Entry(r[i]) : i \in 1 .. Len(r)}
      <3>1. e \in map /\ e.key # list[p].key
        BY <2>1 DEF EraseKeys
      <3>2. PICK j \in 1 .. Len(list) : e = Entry(list[j])
        BY <1>1, <3>1
      <3>3. j # p
        BY <2>0, <3>1, <3>2
      <3>4. PICK i \in 1 .. Len(r) : r[i] = list[j]
        BY <1>5, <3>3
      <3> QED
        BY <3>2, <3>4
    <2>2. ASSUME NEW e, e \in {Entry(r[i]) : i \in 1 .. Len(r)}
          PROVE  e \in EraseKeys(map, {list[p].key})
      <3>1. PICK i \in 1 .. Len(r) : e = Entry(r[i])
        BY <2>2
      <3>2. PICK j \in 1 .. Len(list) : r[i] = list[j]
        BY <1>4
      <3>3. e \in map
        BY <1>1, <3>1, <3>2
      <3>4. e.key # list[p].key
        BY <1>6, <2>0, <3>1
      <3> QED
        BY <3>3, <3>4 DEF EraseKeys
    <2> QED
      BY <2>1, <2>2
  <1>9. Sound(r, EraseKeys(map, {list[p].key}))
    BY <1>3, <1>6, <1>7, <1>8 DEF Sound
  <1>10. \A i \in 1 .. Len(r) : \E j \in 1 .. Len(list) : r[i] = list[j]
    BY <1>4
  <1> QED
    BY <1>2, <1>5, <1>6, <1>9, <1>10

\* A node is put in front, and its entry into the map.
LEMMA SoundFront ==
    ASSUME NEW list, NEW map, Sound(list, map), NEW n \in Nodes, n.id[1] = n.key,
           \A i \in 1 .. Len(list) : list[i].key # n.key
    PROVE  Sound(<<n>> \o list, map \cup {Entry(n)})
  <1>1. /\ list \in Seq(Nodes) /\ map = {Entry(list[i]) : i \in 1 .. Len(list)}
        /\ \A i \in 1 .. Len(list) : list[i].id[1] = list[i].key
        /\ \A i, j \in 1 .. Len(list) : list[i].key = list[j].key => i = j
    BY DEF Sound
  <1>2. PICK r : r = <<n>> \o list
    OBVIOUS
  <1>3. /\ Len(list) \in Nat /\ r \in Seq(Nodes) /\ Len(r) = Len(list) + 1 /\ r[1] = n
        /\ \A i \in 2 .. Len(list) + 1 : r[i] = list[i - 1]
    <2>1. Len(list) \in Nat
      BY <1>1
    <2> QED
      BY <1>1, <1>2, <2>1, FrontLen
  <1>4. \A i \in 1 .. Len(r) : i = 1 \/ (i - 1 \in 1 .. Len(list) /\ r[i] = list[i - 1] /\ i \in Nat)
    BY <1>3
  <1>5. \A i \in 1 .. Len(list) : i + 1 \in 1 .. Len(r) /\ r[i + 1] = list[i]
    <2> SUFFICES ASSUME NEW i \in 1 .. Len(list)
                 PROVE  i + 1 \in 1 .. Len(r) /\ r[i + 1] = list[i]
      OBVIOUS
    <2>1. i + 1 \in 2 .. Len(list) + 1 /\ (i + 1) - 1 = i
      BY <1>3
    <2> QED
      BY <1>3, <2>1
  <1>6. \A i \in 1 .. Len(r) : r[i].id[1] = r[i].key
    <2> SUFFICES ASSUME NEW i \in 1 .. Len(r) PROVE r[i].id[1] = r[i].key
      OBVIOUS
    <2>1. CASE i = 1
      BY <1>3, <2>1
    <2>2. CASE i - 1 \in 1 .. Len(list) /\ r[i] = list[i - 1]
      BY <1>1, <2>2
    <2> QED
      BY <1>4, <2>1, <2>2
  <1>7. \A i, j \in 1 .. Len(r) : r[i].key = r[j].key => i = j
    <2> SUFFICES ASSUME NEW i \in 1 .. Len(r), NEW j \in 1 .. Len(r), r[i].key = r[j].key
                 PROVE  i = j
      OBVIOUS
    <2>1. CASE i = 1
      BY <1>3, <1>4, <2>1
    <2>2. CASE j = 1
      BY <1>3, <1>4, <2>2
    <2>3. CASE i # 1 /\ j # 1
      <3>1. i - 1 \in 1 .. Len(list) /\ r[i] = list[i - 1] /\ i \in Nat
        BY <1>4, <2>3
      <3>2. j - 1 \in 1 .. Len(list) /\ r[j] = list[j - 1] /\ j \in Nat
        BY <1>4, <2>3
      <3>3. i - 1 = j - 1
        BY <1>1, <3>1, <3>2
      <3> QED
        BY <3>1, <3>2, <3>3
    <2> QED
      BY <2>1, <2>2, <2>3
  <1>8. map \cup {Entry(n)} = {Entry(r[i]) : i \in 1 .. Len(r)}
    <2>1. ASSUME NEW e, e \in map \cup {Entry(n)}
          PROVE  e \in {Entry(r[i]) : i \in 1 .. Len(r)}
      <3>1. CASE e = Entry(n)
        <4>1. 1 \in 1 .. Len(r)
          BY <1>3
        <4> QED
          BY <1>3, <3>1, <4>1
      <3>2. CASE e \in map
        <4>1. PICK i \in 1 .. Len(list) : e = Entry(list[i])
          BY <1>1, <3>2
        <4> QED
          BY <1>5, <4>1
      <3> QED
        BY <2>1, <3>1, <3>2
    <2>2. ASSUME NEW e, e \in {Entry(r[i]) : i \in 1 .. Len(r)}
          PROVE  e \in map \cup {Entry(n)}
      <3>1. PICK i \in 1 .. Len(r) : e = Entry(r[i])
        BY <2>2
      <3>2. CASE i = 1
        BY <1>3, <3>1, <3>2
      <3>3. CASE i # 1
        BY <1>1, <1>4, <3>1, <3>3
      <3> QED
        BY <3>2, <3>3
    <2> QED
      BY <2>1, <2>2
  <1>9. Sound(r, map \cup {Entry(n)})
    BY <1>3, <1>6, <1>7, <1>8 DEF Sound
  <1> QED
    BY <1>2, <1>9

\* The last nodes are dropped, and their entries erased.
LEMMA SoundPrefix ==
    ASSUME NEW list, NEW map, Sound(list, map), NEW n \in 0 .. Len(list)
    PROVE  Sound(SubSeq(list, 1, n), EraseKeys(map, KeysOf(SubSeq(list, n + 1, Len(list)))))
  <1>1. /\ list \in Seq(Nodes) /\ map = {Entry(list[i]) : i \in 1 .. Len(list)}
        /\ \A i \in 1 .. Len(list) : list[i].id[1] = list[i].key
        /\ \A i, j \in 1 .. Len(list) : list[i].key = list[j].key => i = j
    BY DEF Sound
  <1>2. Len(list) \in Nat /\ n \in Nat /\ n <= Len(list)
    BY <1>1
  <1>3. PICK a, b : a = SubSeq(list, 1, n) /\ b = SubSeq(list, n + 1, Len(list))
    OBVIOUS
  <1>4. a \in Seq(Nodes) /\ Len(a) = n /\ \A i \in 1 .. n : a[i] = list[i]
    BY <1>1, <1>3, SplitPlaces
  <1>5. b \in Seq(Nodes) /\ Len(b) = Len(list) - n /\ \A i \in 1 .. Len(list) - n : b[i] = list[n + i]
    BY <1>1, <1>3, SplitPlaces
  <1>6. /\ \A i \in 1 .. n : i \in 1 .. Len(list)
        /\ \A i \in 1 .. Len(list) - n : n + i \in 1 .. Len(list) /\ n + i \notin 1 .. n
        /\ \A i \in 1 .. Len(list) : i \in 1 .. n \/ (i - n \in 1 .. Len(list) - n /\ n + (i - n) = i)
    BY <1>2
  <1>7. KeysOf(b) = {list[n + i].key : i \in 1 .. Len(list) - n}
    <2>1. DOMAIN b = 1 .. Len(list) - n
      BY <1>5
    <2>2. KeysOf(b) = {x.key : x \in {b[i] : i \in 1 .. Len(list) - n}}
      BY <2>1 DEF KeysOf, ToSet
    <2> QED
      BY <1>5, <2>2
  <1>8. \A i \in 1 .. Len(list) : list[i].key \in KeysOf(b) <=> i \notin 1 .. n
    <2> SUFFICES ASSUME NEW i \in 1 .. Len(list)
                 PROVE  list[i].key \in KeysOf(b) <=> i \notin 1 .. n
      OBVIOUS
    <2>1. ASSUME list[i].key \in KeysOf(b) PROVE i \notin 1 .. n
      <3>1. PICK j \in 1 .. Len(list) - n : list[i].key = list[n + j].key
        BY <1>7, <2>1
      <3>2. i = n + j
        BY <1>1, <1>6, <3>1
      <3> QED
        BY <1>6, <3>2
    <2>2. ASSUME i \notin 1 .. n PROVE list[i].key \in KeysOf(b)
      <3>1. i - n \in 1 .. Len(list) - n /\ n + (i - n) = i
        BY <1>6, <2>2
      <3> QED
        BY <1>7, <3>1
    <2> QED
      BY <2>1, <2>2
  <1>9. EraseKeys(map, KeysOf(b)) = {Entry(a[i]) : i \in 1 .. Len(a)}
    <2>0. \A x : Entry(x).key = x.key
      BY DEF Entry
    <2>1. ASSUME NEW e, e \in EraseKeys(map, KeysOf(b))
          PROVE  e \in {Entry(a[i]) : i \in 1 .. Len(a)}
      <3>1. e \in map /\ e.key \notin KeysOf(b)
        BY <2>1 DEF EraseKeys
      <3>2. PICK i \in 1 .. Len(list) : e = Entry(list[i])
        BY <1>1, <3>1
      <3>3. i \in 1 .. n
        BY <1>8, <2>0, <3>1, <3>2
      <3> QED
        BY <1>4, <3>2, <3>3
    <2>2. ASSUME NEW e, e \in {Entry(a[i]) : i \in 1 .. Len(a)}
          PROVE  e \in EraseKeys(map, KeysOf(b))
      <3>1. PICK i \in 1 .. n : e = Entry(a[i])
        BY <1>4, <2>2
      <3>2. e = Entry(list[i]) /\ i \in 1 .. Len(list)
        BY <1>4, <1>6, <3>1
      <3>3. e \in map /\ e.key \notin KeysOf(b)
        BY <1>1, <1>8, <2>0, <3>1, <3>2
      <3> QED
        BY <3>3 DEF EraseKeys
    <2> QED
      BY <2>1, <2>2
  <1>10. \A i \in 1 .. Len(a) : a[i].id[1] = a[i].key
    BY <1>1, <1>4, <1>6
  <1>11. \A i, j \in 1 .. Len(a) : a[i].key = a[j].key => i = j
    BY <1>1, <1>4, <1>6
  <1>12. Sound(a, EraseKeys(map, KeysOf(b)))
    BY <1>4, <1>9, <1>10, <1>11 DEF Sound
  <1> QED
    BY <1>3, <1>12

\* The last nodes alone are a list of nodes with different keys, too.
LEMMA SoundSuffix ==
    ASSUME NEW list, NEW map, Sound(list, map), NEW n \in 0 .. Len(list),
           NEW d, d = SubSeq(list, n + 1, Len(list)),
           NEW rest, rest = {Entry(d[i]) : i \in 1 .. Len(d)}
    PROVE  Sound(d, rest)
  <1>1. /\ list \in Seq(Nodes)
        /\ \A i \in 1 .. Len(list) : list[i].id[1] = list[i].key
        /\ \A i, j \in 1 .. Len(list) : list[i].key = list[j].key => i = j
    BY DEF Sound
  <1>2. Len(list) \in Nat /\ n \in Nat /\ n <= Len(list)
    BY <1>1
  <1>3. d \in Seq(Nodes) /\ Len(d) = Len(list) - n /\ \A i \in 1 .. Len(list) - n : d[i] = list[n + i]
    BY <1>1, SplitPlaces
  <1>4. \A i \in 1 .. Len(d) : n + i \in 1 .. Len(list) /\ d[i] = list[n + i] /\ i \in Nat
    BY <1>2, <1>3
  <1>5. \A i \in 1 .. Len(d) : d[i].id[1] = d[i].key
    BY <1>1, <1>4
  <1>6. \A i, j \in 1 .. Len(d) : d[i].key = d[j].key => i = j
    <2> SUFFICES ASSUME NEW i \in 1 .. Len(d), NEW j \in 1 .. Len(d), d[i].key = d[j].key
                 PROVE  i = j
      OBVIOUS
    <2>1. n + i = n + j
      <3>1. n + i \in 1 .. Len(list) /\ n + j \in 1 .. Len(list)
        BY <1>4
      <3>2. list[n + i].key = list[n + j].key
        BY <1>4
      <3> QED
        BY <1>1, <3>1, <3>2
    <2> QED
      BY <1>2, <1>4, <2>1
  <1> QED
    BY <1>3, <1>5, <1>6 DEF Sound

\* No nodes, no entries.
LEMMA SoundEmpty == Sound(<<>>, {})
  BY DEF Sound

\* The keys of a list.
LEMMA KeysOn ==
    ASSUME NEW list \in Seq(Nodes)
    PROVE  /\ KeysOf(list) \subseteq Keys
           /\ \A k : k \in KeysOf(list) <=> \E i \in 1 .. Len(list) : list[i].key = k
  <1>1. DOMAIN list = 1 .. Len(list) /\ \A i \in 1 .. Len(list) : list[i] \in Nodes
    OBVIOUS
  <1>2. KeysOf(list) = {x.key : x \in {list[i] : i \in 1 .. Len(list)}}
    BY <1>1 DEF KeysOf, ToSet
  <1>3. \A k : k \in KeysOf(list) <=> \E i \in 1 .. Len(list) : list[i].key = k
    BY <1>2
  <1> QED
    BY <1>1, <1>3, NodeTypes
-----------------------------------------------------------------------------
(***************************************************************************)
(* The sizes fit.                                                          *)
(***************************************************************************)
\* A set of numbers up to a bound has a greatest one.
LEMMA GreatestNat ==
    ASSUME NEW b \in Nat, NEW S \in SUBSET (0 .. b), S # {}
    PROVE  \E n \in S : \A m \in S : n >= m
  <1> DEFINE T == {k \in 0 .. b : b - k \in S}
  <1>1. T \in SUBSET Nat
    OBVIOUS
  <1>2. T # {}
    <2>1. PICK n \in S : TRUE
      OBVIOUS
    <2>2. b - n \in 0 .. b /\ b - (b - n) = n
      OBVIOUS
    <2>3. b - n \in T
      BY <2>2
    <2> QED
      BY <2>3
  <1>3. PICK k \in T : \A m \in T : k <= m
    <2> HIDE DEF T
    <2> QED
      BY <1>1, <1>2, LeastNat
  <1>4. \A m \in S : b - k >= m
    <2> SUFFICES ASSUME NEW m \in S PROVE b - k >= m
      OBVIOUS
    <2>1. b - m \in T
      <3>1. b - m \in 0 .. b /\ b - (b - m) = m
        OBVIOUS
      <3> QED
        BY <3>1
    <2>2. k <= b - m /\ k \in 0 .. b /\ m \in 0 .. b
      BY <1>3, <2>1
    <2> QED
      BY <2>2
  <1> QED
    BY <1>4

\* There are no more nodes on a list than keys.
LEMMA ListBounded ==
    ASSUME NEW list, NEW map, Sound(list, map)
    PROVE  Len(list) \in Nat /\ Cardinality(Keys) \in Nat /\ Len(list) <= Cardinality(Keys)
  <1>1. /\ list \in Seq(Nodes) /\ \A i, j \in 1 .. Len(list) : list[i].key = list[j].key => i = j
    BY DEF Sound
  <1>2. Len(list) \in Nat /\ \A i \in 1 .. Len(list) : list[i] \in Nodes
    BY <1>1
  <1>3. IsFiniteSet(Keys) /\ Cardinality(Keys) \in Nat
    BY ConstantsAssumption, FS_CardinalityType
  <1>4. PICK f : f = [i \in 1 .. Len(list) |-> list[i].key]
    OBVIOUS
  <1>5. f \in [1 .. Len(list) -> Keys]
    BY <1>2, <1>4, NodeTypes
  <1>6. \A i, j \in 1 .. Len(list) : f[i] = f[j] => i = j
    BY <1>1, <1>4
  <1>7. f \in Injection(1 .. Len(list), Keys)
    BY <1>5, <1>6 DEF Injection, IsInjective
  <1>8. Cardinality(1 .. Len(list)) <= Cardinality(Keys)
    BY <1>3, <1>7, FS_Injection
  <1>9. Cardinality(1 .. Len(list)) = Len(list)
    <2>1. Len(list) \in Int /\ 1 \in Int
      BY <1>2
    <2>2. Cardinality(1 .. Len(list)) = IF 1 > Len(list) THEN 0 ELSE Len(list) - 1 + 1
      BY <2>1, FS_Interval
    <2> QED
      BY <1>2, <2>2
  <1> QED
    BY <1>2, <1>3, <1>8, <1>9

\* The sizes on a list, and one more, are below SizeMod.
LEMMA SizesFit ==
    ASSUME NEW list, NEW map, Sound(list, map)
    PROVE  /\ Sizes(list) \in 0 .. SizeMod - 1
           /\ \A v \in ValueSizes : Sizes(list) + v \in 0 .. SizeMod - 1
  <1>1. list \in Seq(Nodes)
    BY DEF Sound
  <1>2. Len(list) \in Nat /\ Cardinality(Keys) \in Nat /\ Len(list) <= Cardinality(Keys)
    BY ListBounded
  <1>3. PICK s : s = [i \in DOMAIN list |-> list[i].value_size]
    OBVIOUS
  <1>4. \A i \in 1 .. Len(list) : list[i].value_size \in Nat /\ list[i].value_size \in ValueSizes
    BY <1>1, NodeTypes
  <1>5. s \in Seq(Nat) /\ Len(s) = Len(list) /\ \A i \in 1 .. Len(s) : s[i] = list[i].value_size
    <2>1. DOMAIN list = 1 .. Len(list)
      BY <1>1
    <2>2. s \in [1 .. Len(list) -> Nat] /\ \A i \in 1 .. Len(list) : s[i] = list[i].value_size
      BY <1>3, <1>4, <2>1
    <2> QED
      BY <1>2, <2>2
  <1>6. Sizes(list) = Total(s)
    BY <1>3 DEF Sizes
  <1>7. ASSUME NEW v \in ValueSizes
        PROVE  Sizes(list) + v \in 0 .. SizeMod - 1
    <2>1. \A n \in ValueSizes : n \in 0 .. SizeMod - 1
      <3> SUFFICES ASSUME NEW n \in ValueSizes PROVE n \in 0 .. SizeMod - 1
        OBVIOUS
      <3>1. n \in Nat /\ (Cardinality(Keys) + 1) * n < SizeMod /\ SizeMod \in Nat
        BY ConstantsAssumption
      <3>2. Cardinality(Keys) * n \in Nat
        BY <1>2, <3>1
      <3>3. (Cardinality(Keys) + 1) * n = Cardinality(Keys) * n + n
        BY <1>2, <3>1
      <3> QED
        BY <3>1, <3>2, <3>3
    <2>2. SizeMod - 1 \in Nat /\ ValueSizes # {}
      BY NodeTypes
    <2>3. PICK top \in ValueSizes : \A n \in ValueSizes : top >= n
      BY <2>1, <2>2, GreatestNat
    <2>4. top \in Nat /\ v \in Nat /\ SizeMod \in Nat /\ v <= top /\ (Cardinality(Keys) + 1) * top < SizeMod
      BY <2>3, ConstantsAssumption
    <2>5. Total(s) <= Len(s) * top
      BY <1>4, <1>5, <2>3, <2>4, TotalBound
    <2>6. Total(s) \in Nat
      BY <1>5, TotalConcat
    <2>7. Len(list) * top <= Cardinality(Keys) * top
      <3>1. PICK d \in Nat : Cardinality(Keys) = Len(list) + d
        <4>1. Cardinality(Keys) - Len(list) \in Nat
          BY <1>2
        <4>2. Cardinality(Keys) = Len(list) + (Cardinality(Keys) - Len(list))
          BY <1>2
        <4> QED
          BY <4>1, <4>2
      <3>2. (Len(list) + d) * top = Len(list) * top + d * top /\ d * top \in Nat /\ Len(list) * top \in Nat
        BY <1>2, <2>4
      <3> QED
        BY <3>1, <3>2
    <2>8. (Cardinality(Keys) + 1) * top = Cardinality(Keys) * top + top
      BY <1>2, <2>4
    <2>9. Cardinality(Keys) * top \in Nat /\ Len(list) * top \in Nat
      BY <1>2, <2>4
    <2>10. PICK x, y : x = Len(list) * top /\ y = Cardinality(Keys) * top
      OBVIOUS
    <2> QED
      BY <1>5, <1>6, <2>4, <2>5, <2>6, <2>7, <2>8, <2>9, <2>10
  <1>8. Sizes(list) \in 0 .. SizeMod - 1
    <2>1. CASE Len(list) = 0
      <3>1. list = <<>>
        BY <1>1, <2>1
      <3> QED
        BY <3>1, SizesSmall, NodeTypes
    <2>2. CASE Len(list) # 0
      <3>1. PICK v \in ValueSizes : TRUE
        BY <1>2, <1>4, <2>2
      <3>2. v \in Nat /\ SizeMod \in Nat
        BY ConstantsAssumption
      <3>3. Sizes(list) \in Nat
        BY <1>5, <1>6, TotalConcat
      <3>4. Sizes(list) + v \in 0 .. SizeMod - 1
        BY <1>7
      <3> QED
        BY <3>2, <3>3, <3>4
    <2> QED
      BY <2>1, <2>2
  <1> QED
    BY <1>7, <1>8

\* A number below SizeMod is its own remainder, and any remainder is below SizeMod.
LEMMA Remainder ==
    /\ \A x \in 0 .. SizeMod - 1 : x % SizeMod = x
    /\ \A x \in Int : x % SizeMod \in 0 .. SizeMod - 1
  <1>1. SizeMod \in Nat \ {0}
    BY NodeTypes
  <1> QED
    BY <1>1
-----------------------------------------------------------------------------
(***************************************************************************)
(* What the reservations leave.                                            *)
(***************************************************************************)
\* The size that is left is the size of the first n nodes.
LEMMA FirstSizes ==
    ASSUME NEW list, NEW map, Sound(list, map), NEW n \in 0 .. Len(list)
    PROVE  SizeOfFirst(list, Sizes(list), n) = Sizes(SubSeq(list, 1, n))
  <1>1. list \in Seq(Nodes)
    BY DEF Sound
  <1>2. PICK a, b : a = SubSeq(list, 1, n) /\ b = SubSeq(list, n + 1, Len(list))
    OBVIOUS
  <1>3. a \in Seq(Nodes) /\ b \in Seq(Nodes) /\ a \o b = list
    BY <1>1, <1>2, SplitPlaces
  <1>4. Sizes(list) = Sizes(a) + Sizes(b) /\ Sizes(a) \in Nat /\ Sizes(b) \in Nat
    <2>1. Sizes(a \o b) = Sizes(a) + Sizes(b) /\ Sizes(a) \in Nat
      BY <1>3, SizesConcat
    <2>2. Sizes(b) \in Nat
      BY <1>3, SizesConcat
    <2> QED
      BY <1>3, <2>1, <2>2
  <1>5. Sound(a, EraseKeys(map, KeysOf(b)))
    BY <1>2, SoundPrefix
  <1>6. Sizes(a) % SizeMod = Sizes(a)
    BY <1>5, SizesFit, Remainder
  <1>7. SizeOfFirst(list, Sizes(list), n) = (Sizes(list) - Sizes(b)) % SizeMod
    BY <1>2 DEF SizeOfFirst
  <1>8. Sizes(list) - Sizes(b) = Sizes(a)
    BY <1>4
  <1> QED
    BY <1>2, <1>6, <1>7, <1>8

\* A Reserve leaves the first nodes, and they leave room or are none.
LEMMA KeptNodes ==
    ASSUME NEW list \in Seq(Nodes), NEW size, NEW max, NEW v, NEW n, n = Kept(list, size, max, v)
    PROVE  /\ n \in 0 .. Len(list)
           /\ n = 0 \/ (SizeOfFirst(list, size, n) + v) % SizeMod <= max
  <1> DEFINE Fits(m) == m = 0 \/ (SizeOfFirst(list, size, m) + v) % SizeMod <= max
  <1>1. PICK S : S = {m \in 0 .. Len(list) : Fits(m)}
    OBVIOUS
  <1>2. Len(list) \in Nat
    OBVIOUS
  <1>3. S \in SUBSET (0 .. Len(list)) /\ 0 \in S
    BY <1>1, <1>2
  <1>4. \E m \in S : \A k \in S : m >= k
    BY <1>2, <1>3, GreatestNat
  <1>5. n = CHOOSE m \in S : \A k \in S : m >= k
    BY <1>1 DEF Kept, Max
  <1>6. n \in S
    BY <1>4, <1>5, Zenon
  <1> QED
    BY <1>1, <1>6
-----------------------------------------------------------------------------
(***************************************************************************)
(* The identity of a new node.                                             *)
(***************************************************************************)
\* No list has two identities of one key.
LEMMA OneIdPerKey ==
    ASSUME NEW list, NEW map, Sound(list, map), NEW k,
           NEW a, NEW b,
           \E i \in 1 .. Len(list) : list[i].id = <<k, a>>,
           \E i \in 1 .. Len(list) : list[i].id = <<k, b>>
    PROVE  a = b
  <1>1. /\ \A i \in 1 .. Len(list) : list[i].id[1] = list[i].key
        /\ \A i, j \in 1 .. Len(list) : list[i].key = list[j].key => i = j
    BY DEF Sound
  <1>2. PICK i \in 1 .. Len(list) : list[i].id = <<k, a>>
    OBVIOUS
  <1>3. PICK j \in 1 .. Len(list) : list[j].id = <<k, b>>
    OBVIOUS
  <1>4. list[i].key = k /\ list[j].key = k
    BY <1>1, <1>2, <1>3
  <1>5. <<k, a>> = <<k, b>>
    BY <1>1, <1>2, <1>3, <1>4
  <1> QED
    BY <1>5

\* A new node's identity belongs to its key and is not in use.
LEMMA NewIdFresh ==
    ASSUME Sound(m_hot_list, m_hot_map), Sound(m_cold_list, m_cold_map), NEW k \in Keys
    PROVE  /\ NewId(k) \in Ids /\ NewId(k)[1] = k
           /\ \A i \in 1 .. Len(m_hot_list) : m_hot_list[i].id # NewId(k)
           /\ \A i \in 1 .. Len(m_cold_list) : m_cold_list[i].id # NewId(k)
  <1>1. PICK used : used = {n.id : n \in ToSet(m_hot_list) \cup ToSet(m_cold_list)}
    OBVIOUS
  <1>2. m_hot_list \in Seq(Nodes) /\ m_cold_list \in Seq(Nodes)
    BY DEF Sound
  <1>3. DOMAIN m_hot_list = 1 .. Len(m_hot_list) /\ DOMAIN m_cold_list = 1 .. Len(m_cold_list)
    BY <1>2
  <1>4. \A y : y \in used <=> \/ \E i \in 1 .. Len(m_hot_list) : m_hot_list[i].id = y
                              \/ \E i \in 1 .. Len(m_cold_list) : m_cold_list[i].id = y
    BY <1>1, <1>3 DEF ToSet
  <1>5. ASSUME NEW i, NEW j, \E h \in 1 .. Len(m_hot_list) : m_hot_list[h].id = <<k, i>>,
                \E h \in 1 .. Len(m_hot_list) : m_hot_list[h].id = <<k, j>>
         PROVE  i = j
    BY <1>5, OneIdPerKey
  <1>6. ASSUME NEW i, NEW j, \E h \in 1 .. Len(m_cold_list) : m_cold_list[h].id = <<k, i>>,
                \E h \in 1 .. Len(m_cold_list) : m_cold_list[h].id = <<k, j>>
         PROVE  i = j
    BY <1>6, OneIdPerKey
  <1>7. \A i : <<k, i>>[1] = k /\ <<k, i>>[2] = i
    OBVIOUS
  <1>9. \E i \in 0 .. 2 : <<k, i>> \notin used
    <2> SUFFICES ASSUME \A i \in 0 .. 2 : <<k, i>> \in used PROVE FALSE
      OBVIOUS
    <2>1. <<k, 0>> \in used /\ <<k, 1>> \in used /\ <<k, 2>> \in used
      OBVIOUS
    <2>2. 0 # 1 /\ 0 # 2 /\ 1 # 2
      OBVIOUS
    <2>3. \A i \in {0, 1, 2} : \/ \E h \in 1 .. Len(m_hot_list) : m_hot_list[h].id = <<k, i>>
                               \/ \E h \in 1 .. Len(m_cold_list) : m_cold_list[h].id = <<k, i>>
      BY <1>4, <2>1
    <2> QED
      BY <1>5, <1>6, <2>2, <2>3
  <1>10. PICK c : c = CHOOSE i \in 0 .. 2 : <<k, i>> \notin used
    OBVIOUS
  <1>11. c \in 0 .. 2 /\ <<k, c>> \notin used
    BY <1>9, <1>10, Zenon
  <1>12. NewId(k) = <<k, c>>
    BY <1>1, <1>10 DEF NewId
  <1>13. c \in Nat
    BY <1>11
  <1> QED
    BY <1>4, <1>7, <1>11, <1>12, <1>13 DEF Ids

\* The node that Add makes.
LEMMA NodeMade ==
    ASSUME NEW id \in Ids, NEW k \in Keys, NEW v \in ValueSizes,
           NEW n, n = [id |-> id, key |-> k, value_size |-> v]
    PROVE  n \in Nodes /\ n.id = id /\ n.key = k /\ n.value_size = v
  BY DEF Nodes

\* The node that Get of a hot key makes.
LEMMA NodeRenamed ==
    ASSUME NEW id \in Ids, NEW m \in Nodes, NEW n, n = [m EXCEPT !.id = id]
    PROVE  n \in Nodes /\ n.id = id /\ n.key = m.key /\ n.value_size = m.value_size
  BY DEF Nodes
-----------------------------------------------------------------------------
(***************************************************************************)
(* The loop of ReserveHotList.                                             *)
(***************************************************************************)
\* The cold list in a round: the map matches and the size is exact.
ColdSound(c) ==
    /\ c = [list |-> c.list, map |-> c.map, size |-> c.size]
    /\ Sound(c.list, c.map) /\ c.size = Sizes(c.list)

\* d is the cold list c after it took the node n.
Joined(c, n, d) ==
    /\ ToSet(d.list) \subseteq ToSet(c.list) \cup {n}
    /\ KeysOf(d.list) = KeysOf(c.list) \cup {n.key}

\* One round keeps that; the node's key is on the list, and no other key is lost or new.
LEMMA DemoteRound ==
    ASSUME NEW c, ColdSound(c), NEW n \in Nodes, n.id[1] = n.key,
           NEW d, d = DemoteNode(c, n)
    PROVE  ColdSound(d) /\ Joined(c, n, d)
  <1>1. Sound(c.list, c.map) /\ c.size = Sizes(c.list) /\ c.list \in Seq(Nodes)
    BY DEF ColdSound, Sound
  <1>2. PICK e, m, o :
           /\ e = IF InMap(c.map, n.key) THEN Erase(c.list, Find(c.map, n.key)) ELSE c.list
           /\ m = EraseKeys(c.map, {n.key})
           /\ o = IF InMap(c.map, n.key) THEN NodeAt(c.list, Find(c.map, n.key)).value_size ELSE 0
    OBVIOUS
  <1>3. d = [list |-> <<n>> \o e, map |-> m \cup {Entry(n)}, size |-> (c.size + n.value_size - o) % SizeMod]
    BY <1>2 DEF DemoteNode
  <1>4. /\ Sound(e, m) /\ Sizes(c.list) = Sizes(e) + o /\ o \in Nat
        /\ \A i \in 1 .. Len(e) : e[i].key # n.key /\ \E j \in 1 .. Len(c.list) : e[i] = c.list[j]
        /\ \A j \in 1 .. Len(c.list) :
             c.list[j].key = n.key \/ \E i \in 1 .. Len(e) : e[i] = c.list[j]
    <2>1. CASE InMap(c.map, n.key)
      <3>1. PICK p \in 1 .. Len(c.list) :
               /\ c.list[p].key = n.key /\ c.list[p] \in Nodes
               /\ NodeAt(c.list, Find(c.map, n.key)) = c.list[p]
               /\ Erase(c.list, Find(c.map, n.key)) = RemoveAt(c.list, p)
        BY <1>1, <2>1, Lookup
      <3>2. e = RemoveAt(c.list, p) /\ o = c.list[p].value_size
        BY <1>2, <2>1, <3>1
      <3>3. Sound(RemoveAt(c.list, p), EraseKeys(c.map, {c.list[p].key}))
        BY <1>1, SoundRemove
      <3>4. \A i \in 1 .. Len(RemoveAt(c.list, p)) :
              /\ RemoveAt(c.list, p)[i].key # c.list[p].key
              /\ \E j \in 1 .. Len(c.list) : RemoveAt(c.list, p)[i] = c.list[j]
        BY <1>1, SoundRemove
      <3>5. \A j \in 1 .. Len(c.list) :
              j # p => \E i \in 1 .. Len(RemoveAt(c.list, p)) : RemoveAt(c.list, p)[i] = c.list[j]
        BY <1>1, SoundRemove
      <3>6. Sizes(c.list) = Sizes(RemoveAt(c.list, p)) + c.list[p].value_size
        BY <1>1, SizesRemove
      <3>7. o \in Nat
        BY <3>1, <3>2, NodeTypes
      <3> QED
        BY <1>2, <3>1, <3>2, <3>3, <3>4, <3>5, <3>6, <3>7
    <2>2. CASE ~ InMap(c.map, n.key)
      <3>1. e = c.list /\ o = 0
        BY <1>2, <2>2
      <3>2. \A i \in 1 .. Len(c.list) : c.list[i].key # n.key
        BY <1>1, <2>2, Found
      <3>3. m = c.map
        <4>1. \A x \in c.map : x.key # n.key
          BY <2>2 DEF InMap
        <4> QED
          BY <1>2, <4>1 DEF EraseKeys
      <3>4. Sizes(c.list) \in Nat
        BY <1>1, SizesFit
      <3> QED
        BY <1>1, <3>1, <3>2, <3>3, <3>4
    <2> QED
      BY <2>1, <2>2
  <1>5. e \in Seq(Nodes)
    BY <1>4 DEF Sound
  <1>6. PICK r : r = <<n>> \o e
    OBVIOUS
  <1>7. Sound(r, m \cup {Entry(n)})
    BY <1>4, <1>6, SoundFront
  <1>8. Sizes(r) = n.value_size + Sizes(e)
    BY <1>5, <1>6, SizesFront
  <1>9. Sizes(r) \in 0 .. SizeMod - 1
    BY <1>7, SizesFit
  <1>10. c.size + n.value_size - o = Sizes(r)
    <2>1. Sizes(e) \in Nat /\ n.value_size \in Nat
      BY <1>4, SizesFit, NodeTypes
    <2> QED
      BY <1>1, <1>4, <1>8, <2>1
  <1>11. d.list = r /\ d.map = m \cup {Entry(n)} /\ d.size = Sizes(r) /\ d = [list |-> d.list, map |-> d.map, size |-> d.size]
    <2>1. Sizes(r) % SizeMod = Sizes(r)
      BY <1>9, Remainder
    <2> QED
      BY <1>3, <1>6, <1>10, <2>1
  <1>12. ColdSound(d)
    BY <1>7, <1>11 DEF ColdSound
  <1>13. /\ r \in Seq(Nodes) /\ Len(e) \in Nat /\ Len(r) = Len(e) + 1 /\ r[1] = n
         /\ \A i \in 2 .. Len(e) + 1 : r[i] = e[i - 1]
    <2>1. Len(e) \in Nat
      BY <1>5
    <2> QED
      BY <1>5, <1>6, <2>1, FrontLen
  <1>14. \A i \in 1 .. Len(r) : r[i] = n \/ \E j \in 1 .. Len(e) : r[i] = e[j]
    <2>1. \A i \in 1 .. Len(r) : i = 1 \/ (i \in 2 .. Len(e) + 1 /\ i - 1 \in 1 .. Len(e))
      BY <1>13
    <2> QED
      BY <1>13, <2>1
  <1>15. \A j \in 1 .. Len(e) : \E i \in 1 .. Len(r) : r[i] = e[j]
    <2>1. \A j \in 1 .. Len(e) : j + 1 \in 2 .. Len(e) + 1 /\ (j + 1) - 1 = j /\ j + 1 \in 1 .. Len(r)
      BY <1>13
    <2> QED
      BY <1>13, <2>1
  <1>16. 1 \in 1 .. Len(r)
    BY <1>13
  <1>17. KeysOf(r) = KeysOf(c.list) \cup {n.key}
    <2>1. \A k : k \in KeysOf(r) <=> \E i \in 1 .. Len(r) : r[i].key = k
      BY <1>13, KeysOn
    <2>2. \A k : k \in KeysOf(c.list) <=> \E i \in 1 .. Len(c.list) : c.list[i].key = k
      BY <1>1, KeysOn
    <2>3. ASSUME NEW k, k \in KeysOf(r) PROVE k \in KeysOf(c.list) \cup {n.key}
      <3>1. PICK i \in 1 .. Len(r) : r[i].key = k
        BY <2>1, <2>3
      <3>2. CASE r[i] = n
        BY <3>1, <3>2
      <3>3. CASE \E j \in 1 .. Len(e) : r[i] = e[j]
        <4>1. PICK j \in 1 .. Len(e) : r[i] = e[j]
          BY <3>3
        <4>2. e[j].key = k
          BY <3>1, <4>1
        <4>3. k \in KeysOf(c.list)
          BY <1>4, <2>2, <4>2
        <4> QED
          BY <4>3
      <3> QED
        BY <1>14, <3>1, <3>2, <3>3
    <2>4. ASSUME NEW k, k \in KeysOf(c.list) PROVE k \in KeysOf(r)
      <3>1. PICK j \in 1 .. Len(c.list) : c.list[j].key = k
        BY <2>2, <2>4
      <3>2. CASE c.list[j].key = n.key
        BY <1>13, <1>16, <2>1, <3>1, <3>2
      <3>3. CASE c.list[j].key # n.key
        <4>1. PICK i \in 1 .. Len(e) : e[i] = c.list[j]
          BY <1>4, <3>3
        <4>2. PICK h \in 1 .. Len(r) : r[h] = e[i]
          BY <1>15
        <4> QED
          BY <2>1, <3>1, <4>1, <4>2
      <3> QED
        BY <3>2, <3>3
    <2>5. n.key \in KeysOf(r)
      BY <1>13, <1>16, <2>1
    <2> QED
      BY <2>3, <2>4, <2>5
  <1>18. \A i \in 1 .. Len(r) : r[i] = n \/ \E j \in 1 .. Len(c.list) : r[i] = c.list[j]
    BY <1>4, <1>14
  <1>19. ToSet(r) \subseteq ToSet(c.list) \cup {n}
    <2>1. DOMAIN r = 1 .. Len(r) /\ DOMAIN c.list = 1 .. Len(c.list)
      BY <1>1, <1>13
    <2> QED
      BY <1>18, <2>1 DEF ToSet
  <1>20. Joined(c, n, d)
    BY <1>11, <1>17, <1>19 DEF Joined
  <1> QED
    BY <1>12, <1>20

\* The iterators of a map that matches a list.
LEMMA SoundMap ==
    ASSUME NEW list, NEW map, Sound(list, map)
    PROVE  map \subseteq Iterators
  <1>1. list \in Seq(Nodes) /\ map = {Entry(list[i]) : i \in 1 .. Len(list)}
    BY DEF Sound
  <1>2. \A i \in 1 .. Len(list) : list[i].key \in Keys /\ list[i].id \in Ids
    BY <1>1, NodeTypes
  <1> QED
    BY <1>1, <1>2 DEF Entry, Iterators

\* The cold lists that a round can leave.
ColdLists == {c \in [list : Seq(Nodes), map : SUBSET Iterators, size : 0 .. SizeMod - 1] : ColdSound(c)}

\* They are all that are sound.
LEMMA ColdListsAll == \A c : ColdSound(c) <=> c \in ColdLists
  <1> HIDE DEF Nodes, Iterators
  <1> SUFFICES ASSUME NEW c, ColdSound(c) PROVE c \in ColdLists
    BY DEF ColdLists
  <1>1. /\ c = [list |-> c.list, map |-> c.map, size |-> c.size]
        /\ Sound(c.list, c.map) /\ c.size = Sizes(c.list)
    BY DEF ColdSound
  <1>2. c.list \in Seq(Nodes)
    BY <1>1 DEF Sound
  <1>3. c.map \subseteq Iterators
    BY <1>1, SoundMap
  <1>4. c.size \in 0 .. SizeMod - 1
    BY <1>1, SizesFit
  <1>5. c \in [list : Seq(Nodes), map : SUBSET Iterators, size : 0 .. SizeMod - 1]
    BY <1>1, <1>2, <1>3, <1>4
  <1> QED
    BY <1>5 DEF ColdLists

\* The loop's rounds over the nodes d, from the cold list base on.
Rounds(f, d, base) ==
    f[0] = base /\ \A k \in 1 .. Len(d) : f[k] = DemoteNode(f[k - 1], d[Len(d) + 1 - k])

\* The loop's rounds, as the function that Demote defines.
LEMMA DemoteSteps ==
    ASSUME NEW d \in Seq(Nodes), \A i \in 1 .. Len(d) : d[i].id[1] = d[i].key,
           NEW list, NEW map, NEW size,
           NEW base, base = [list |-> list, map |-> map, size |-> size], ColdSound(base)
    PROVE  \E f : Demote(d, list, map, size) = f[Len(d)] /\ Rounds(f, d, base)
  <1> HIDE DEF Nodes
  <1>1. PICK n : n = Len(d)
    OBVIOUS
  <1>2. n \in Nat /\ \A i \in 1 .. n : n + 1 - i \in 1 .. n /\ i - 1 \in 0 .. n
    BY <1>1
  <1>3. \A i \in 1 .. n : d[i] \in Nodes
    BY <1>1
  <1> DEFINE step == [p \in (1 .. n) \X ColdLists |-> DemoteNode(p[2], d[n + 1 - p[1]])]
  <1>4. \A i \in 1 .. n, c \in ColdLists : DemoteNode(c, d[n + 1 - i]) \in ColdLists
    <2> SUFFICES ASSUME NEW i \in 1 .. n, NEW c \in ColdLists
                 PROVE  DemoteNode(c, d[n + 1 - i]) \in ColdLists
      OBVIOUS
    <2>1. PICK x : x = d[n + 1 - i]
      OBVIOUS
    <2>2. x \in Nodes /\ x.id[1] = x.key
      BY <1>1, <1>2, <1>3, <2>1
    <2>3. ColdSound(c)
      BY ColdListsAll
    <2>4. ColdSound(DemoteNode(c, x))
      BY <2>2, <2>3, DemoteRound
    <2> QED
      BY <2>1, <2>4, ColdListsAll
  <1>5. step \in [(1 .. n) \X ColdLists -> ColdLists]
    <2>1. \A p \in (1 .. n) \X ColdLists : p[1] \in 1 .. n /\ p[2] \in ColdLists
      OBVIOUS
    <2> QED
      BY <1>4, <2>1
  <1>6. \A i \in 1 .. n, c \in ColdLists : step[<<i, c>>] = DemoteNode(c, d[n + 1 - i])
    OBVIOUS
  <1>7. base \in ColdLists
    BY ColdListsAll
  <1> HIDE DEF step
  <1>8. PICK g \in [0 .. n -> ColdLists] : Steps(g, base, step, n)
    BY <1>2, <1>5, <1>7, StepsExist
  <1>9. g[0] = base /\ \A k \in 1 .. n : g[k] = DemoteNode(g[k - 1], d[n + 1 - k])
    <2>1. \A k \in 1 .. n : g[k - 1] \in ColdLists
      BY <1>2
    <2>2. g[0] = base /\ \A k \in 1 .. n : g[k] = step[<<k, g[k - 1]>>]
      BY <1>8 DEF Steps
    <2> QED
      BY <1>6, <2>1, <2>2
  <1> DEFINE Round(f) == [k \in 0 .. n |-> IF k = 0 THEN base ELSE DemoteNode(f[k - 1], d[n + 1 - k])]
             after == CHOOSE f : f = Round(f)
  <1>10. g = Round(g)
    <2>1. \A k \in 0 .. n : k = 0 \/ k \in 1 .. n
      BY <1>2
    <2>2. \A k \in 0 .. n : g[k] = IF k = 0 THEN base ELSE DemoteNode(g[k - 1], d[n + 1 - k])
      BY <1>9, <2>1
    <2> QED
      BY <2>2
  <1>11. after = Round(after)
    <2> HIDE DEF Round
    <2> QED
      BY <1>10, Zenon
  <1>12. Demote(d, list, map, size) = after[n]
    BY <1>1, Zenon DEF Demote
  <1> HIDE DEF after
  <1>13. after[0] = base /\ \A k \in 1 .. n : after[k] = DemoteNode(after[k - 1], d[n + 1 - k])
    <2>1. 0 \in 0 .. n /\ \A k \in 1 .. n : k # 0 /\ k \in 0 .. n
      BY <1>2
    <2>2. \A k \in 0 .. n : after[k] = IF k = 0 THEN base ELSE DemoteNode(after[k - 1], d[n + 1 - k])
      BY <1>11
    <2> QED
      BY <2>1, <2>2
  <1>14. Rounds(after, d, base)
    BY <1>1, <1>13 DEF Rounds
  <1> QED
    BY <1>1, <1>12, <1>14

\* c has what the list had and the nodes of d.
JoinedAll(c, list, d) ==
    /\ ToSet(c.list) \subseteq ToSet(list) \cup ToSet(d)
    /\ KeysOf(c.list) = KeysOf(list) \cup KeysOf(d)

\* The loop leaves a sound cold list: what it had and what was demoted.
LEMMA DemoteLoop ==
    ASSUME NEW d \in Seq(Nodes), \A i \in 1 .. Len(d) : d[i].id[1] = d[i].key,
           NEW list, NEW map, NEW size,
           NEW base, base = [list |-> list, map |-> map, size |-> size], ColdSound(base),
           NEW c, c = Demote(d, list, map, size)
    PROVE  ColdSound(c) /\ JoinedAll(c, list, d)
  <1> HIDE DEF Nodes
  <1>0. PICK f : Demote(d, list, map, size) = f[Len(d)] /\ Rounds(f, d, base)
    BY DemoteSteps
  <1>1. /\ Demote(d, list, map, size) = f[Len(d)] /\ f[0] = base
        /\ \A k \in 1 .. Len(d) : f[k] = DemoteNode(f[k - 1], d[Len(d) + 1 - k])
    BY <1>0 DEF Rounds
  <1>2. PICK n : n = Len(d)
    OBVIOUS
  <1>3. n \in Nat /\ \A i \in 1 .. n : n + 1 - i \in 1 .. n /\ i - 1 \in 0 .. n
    BY <1>2
  <1> DEFINE Elements(m) == ToSet(f[m].list) \subseteq ToSet(list) \cup ToSet(d)
             Cold(m) == KeysOf(f[m].list) = KeysOf(list) \cup {d[j].key : j \in n + 1 - m .. n}
             Fine(m) == ColdSound(f[m]) /\ Elements(m) /\ Cold(m)
             Bad == {m \in 0 .. n : ~Fine(m)}
  <1>4. f[0].list = list
    BY <1>1
  <1>5. Fine(0)
    <2>1. ColdSound(f[0])
      BY <1>1
    <2>2. Elements(0)
      BY <1>4
    <2>3. n + 1 - 0 .. n = {}
      BY <1>3
    <2>4. Cold(0)
      BY <1>4, <2>3
    <2> QED
      BY <2>1, <2>2, <2>4
  <1>6. ASSUME NEW m \in 1 .. n, Fine(m - 1)
        PROVE  Fine(m)
    <2>1. PICK x : x = d[n + 1 - m]
      OBVIOUS
    <2>2. n + 1 - m \in 1 .. n /\ x \in Nodes /\ x.id[1] = x.key
      BY <1>2, <1>3, <2>1
    <2>3. f[m] = DemoteNode(f[m - 1], x)
      BY <1>1, <1>2, <2>1
    <2>4. ColdSound(f[m - 1]) /\ Elements(m - 1) /\ Cold(m - 1)
      BY <1>6
    <2> HIDE DEF Elements, Cold
    <2>5. PICK p, q : p = f[m - 1] /\ q = f[m]
      OBVIOUS
    <2>6. ColdSound(p) /\ q = DemoteNode(p, x)
      BY <2>3, <2>4, <2>5
    <2>7. ColdSound(q)
      BY <2>2, <2>6, DemoteRound
    <2>8. Joined(p, x, q)
      BY <2>2, <2>6, DemoteRound
    <2>9. ToSet(q.list) \subseteq ToSet(p.list) \cup {x} /\ KeysOf(q.list) = KeysOf(p.list) \cup {x.key}
      BY <2>8 DEF Joined
    <2>10. Elements(m)
      <3>1. ToSet(p.list) \subseteq ToSet(list) \cup ToSet(d)
        BY <2>4, <2>5 DEF Elements
      <3>2. DOMAIN d = 1 .. n
        BY <1>2
      <3>3. x \in ToSet(d)
        BY <2>1, <2>2, <3>2 DEF ToSet
      <3> QED
        BY <2>5, <2>9, <3>1, <3>3 DEF Elements
    <2>11. Cold(m)
      <3>1. \A j : j \in n + 1 - m .. n <=> j = n + 1 - m \/ j \in n + 1 - (m - 1) .. n
        BY <1>3
      <3>2. {d[j].key : j \in n + 1 - m .. n} = {d[j].key : j \in n + 1 - (m - 1) .. n} \cup {x.key}
        BY <2>1, <3>1
      <3>3. KeysOf(p.list) = KeysOf(list) \cup {d[j].key : j \in n + 1 - (m - 1) .. n}
        BY <2>4, <2>5 DEF Cold
      <3>4. KeysOf(q.list) = KeysOf(list) \cup {d[j].key : j \in n + 1 - m .. n}
        BY <2>9, <3>2, <3>3
      <3> QED
        BY <2>5, <3>4 DEF Cold
    <2>12. ColdSound(f[m])
      BY <2>5, <2>7
    <2> QED
      BY <2>10, <2>11, <2>12
  <1> HIDE DEF Fine
  <1>7. Bad = {}
    <2> SUFFICES ASSUME Bad # {} PROVE FALSE
      OBVIOUS
    <2>1. PICK m \in Bad : \A k \in Bad : m <= k
      <3>1. Bad \in SUBSET Nat
        BY <1>3
      <3> HIDE DEF Bad
      <3> QED
        BY <3>1, LeastNat
    <2>2. m \in 0 .. n /\ ~Fine(m)
      OBVIOUS
    <2>3. m # 0
      BY <1>5, <2>2
    <2>4. m \in 1 .. n /\ m - 1 \in 0 .. n /\ ~ (m <= m - 1)
      BY <1>3, <2>2, <2>3
    <2>5. m - 1 \notin Bad
      BY <2>1, <2>4
    <2>6. Fine(m - 1)
      BY <2>4, <2>5
    <2> QED
      BY <1>6, <2>2, <2>4, <2>6
  <1>8. Fine(n)
    BY <1>3, <1>7
  <1>9. f[n] = c
    BY <1>1, <1>2
  <1>10. ColdSound(f[n]) /\ Elements(n) /\ Cold(n)
    BY <1>8 DEF Fine
  <1>11. KeysOf(d) = {d[j].key : j \in n + 1 - n .. n}
    <2>1. n + 1 - n .. n = 1 .. n
      BY <1>3
    <2>2. \A k : k \in KeysOf(d) <=> \E j \in 1 .. n : d[j].key = k
      BY <1>2, KeysOn
    <2> QED
      BY <2>1, <2>2
  <1> HIDE DEF Elements, Cold
  <1>12. ColdSound(c)
    BY <1>9, <1>10
  <1>13. ToSet(c.list) \subseteq ToSet(list) \cup ToSet(d)
    BY <1>9, <1>10 DEF Elements
  <1>14. KeysOf(c.list) = KeysOf(list) \cup KeysOf(d)
    BY <1>9, <1>10, <1>11 DEF Cold
  <1> QED
    BY <1>12, <1>13, <1>14 DEF JoinedAll
-----------------------------------------------------------------------------
(***************************************************************************)
(* The nodes and the keys that an operation leaves on a list.              *)
(***************************************************************************)
\* The nodes and keys of a list.
LEMMA Listed ==
    ASSUME NEW list, NEW map, Sound(list, map)
    PROVE  /\ list \in Seq(Nodes) /\ KeysOf(list) = {x.key : x \in ToSet(list)}
           /\ \A x \in ToSet(list) : x \in Nodes /\ x.id[1] = x.key /\ x.key \in KeysOf(list)
           /\ \A x, y \in ToSet(list) : x.key = y.key => x = y
           /\ \A k : InMap(map, k) <=> k \in KeysOf(list)
           /\ map = {Entry(x) : x \in ToSet(list)}
  <1>1. /\ list \in Seq(Nodes) /\ map = {Entry(list[i]) : i \in 1 .. Len(list)}
        /\ \A i \in 1 .. Len(list) : list[i].id[1] = list[i].key
        /\ \A i, j \in 1 .. Len(list) : list[i].key = list[j].key => i = j
    BY DEF Sound
  <1>2. DOMAIN list = 1 .. Len(list)
    BY <1>1
  <1>3. ToSet(list) = {list[i] : i \in 1 .. Len(list)}
    BY <1>2 DEF ToSet
  <1>4. \A i \in 1 .. Len(list) : list[i] \in Nodes
    BY <1>1
  <1>5. KeysOf(list) = {x.key : x \in ToSet(list)}
    BY DEF KeysOf
  <1>6. \A x \in ToSet(list) : x \in Nodes /\ x.id[1] = x.key /\ x.key \in KeysOf(list)
    BY <1>1, <1>3, <1>4, <1>5
  <1>7. \A x, y \in ToSet(list) : x.key = y.key => x = y
    BY <1>1, <1>3
  <1>8. map = {Entry(x) : x \in ToSet(list)}
    BY <1>1, <1>3
  <1>9. \A x : Entry(x).key = x.key
    BY DEF Entry
  <1>10. \A k : InMap(map, k) <=> k \in KeysOf(list)
    <2>1. ASSUME NEW k, InMap(map, k) PROVE k \in KeysOf(list)
      <3>1. PICK e \in map : e.key = k
        BY <2>1 DEF InMap
      <3> QED
        BY <1>5, <1>8, <1>9, <3>1
    <2>2. ASSUME NEW k, k \in KeysOf(list) PROVE InMap(map, k)
      <3>1. PICK x \in ToSet(list) : x.key = k
        BY <1>5, <2>2
      <3>2. Entry(x) \in map /\ Entry(x).key = k
        BY <1>8, <1>9, <3>1
      <3> QED
        BY <3>2 DEF InMap
    <2> QED
      BY <2>1, <2>2
  <1> QED
    BY <1>1, <1>5, <1>6, <1>7, <1>8, <1>10

\* One node is erased.
LEMMA RemovedNodes ==
    ASSUME NEW list, NEW map, Sound(list, map), NEW p \in 1 .. Len(list)
    PROVE  /\ list[p] \in ToSet(list) /\ ToSet(RemoveAt(list, p)) \subseteq ToSet(list)
           /\ KeysOf(RemoveAt(list, p)) = KeysOf(list) \ {list[p].key}
           /\ list[p].key \in KeysOf(list)
  <1>1. list \in Seq(Nodes)
    BY DEF Sound
  <1>2. PICK r : r = RemoveAt(list, p)
    OBVIOUS
  <1>3. r \in Seq(Nodes)
    BY <1>1, <1>2, RemovePlaces
  <1>4. DOMAIN list = 1 .. Len(list) /\ DOMAIN r = 1 .. Len(r)
    BY <1>1, <1>3
  <1>5. \A i \in 1 .. Len(r) : r[i].key # list[p].key /\ \E j \in 1 .. Len(list) : r[i] = list[j]
    <2>1. \A i \in 1 .. Len(RemoveAt(list, p)) :
            /\ RemoveAt(list, p)[i].key # list[p].key
            /\ \E j \in 1 .. Len(list) : RemoveAt(list, p)[i] = list[j]
      BY SoundRemove
    <2> QED
      BY <1>2, <2>1
  <1>6. \A j \in 1 .. Len(list) : j # p => \E i \in 1 .. Len(r) : r[i] = list[j]
    <2>1. \A j \in 1 .. Len(list) :
            j # p => \E i \in 1 .. Len(RemoveAt(list, p)) : RemoveAt(list, p)[i] = list[j]
      BY SoundRemove
    <2> QED
      BY <1>2, <2>1
  <1>7. list[p] \in ToSet(list) /\ ToSet(r) \subseteq ToSet(list)
    BY <1>4, <1>5 DEF ToSet
  <1>8. \A k : k \in KeysOf(list) <=> \E i \in 1 .. Len(list) : list[i].key = k
    BY <1>1, KeysOn
  <1>9. \A k : k \in KeysOf(r) <=> \E i \in 1 .. Len(r) : r[i].key = k
    BY <1>3, KeysOn
  <1>10. KeysOf(r) = KeysOf(list) \ {list[p].key}
    <2>1. ASSUME NEW k, k \in KeysOf(r) PROVE k \in KeysOf(list) /\ k # list[p].key
      <3>1. PICK i \in 1 .. Len(r) : r[i].key = k
        BY <1>9, <2>1
      <3> QED
        BY <1>5, <1>8, <3>1
    <2>2. ASSUME NEW k, k \in KeysOf(list), k # list[p].key PROVE k \in KeysOf(r)
      <3>1. PICK j \in 1 .. Len(list) : list[j].key = k
        BY <1>8, <2>2
      <3>2. PICK i \in 1 .. Len(r) : r[i] = list[j]
        BY <1>6, <2>2, <3>1
      <3> QED
        BY <1>9, <3>1, <3>2
    <2> QED
      BY <2>1, <2>2
  <1>11. list[p].key \in KeysOf(list)
    BY <1>8
  <1> QED
    BY <1>2, <1>7, <1>10, <1>11

\* One node is put in front.
LEMMA FrontNodes ==
    ASSUME NEW list \in Seq(Nodes), NEW n \in Nodes
    PROVE  /\ ToSet(<<n>> \o list) = ToSet(list) \cup {n}
           /\ KeysOf(<<n>> \o list) = KeysOf(list) \cup {n.key}
  <1> HIDE DEF Nodes
  <1>1. PICK r : r = <<n>> \o list
    OBVIOUS
  <1>2. /\ Len(list) \in Nat /\ r \in Seq(Nodes) /\ Len(r) = Len(list) + 1 /\ r[1] = n
        /\ \A i \in 2 .. Len(list) + 1 : r[i] = list[i - 1]
    BY <1>1, FrontLen
  <1>3. DOMAIN list = 1 .. Len(list) /\ DOMAIN r = 1 .. Len(r)
    BY <1>2
  <1>4. \A i \in 1 .. Len(r) : i = 1 \/ (i \in 2 .. Len(list) + 1 /\ i - 1 \in 1 .. Len(list))
    BY <1>2
  <1>5. \A i \in 1 .. Len(list) : i + 1 \in 1 .. Len(r) /\ r[i + 1] = list[i]
    <2>1. \A i \in 1 .. Len(list) : i + 1 \in 2 .. Len(list) + 1 /\ (i + 1) - 1 = i /\ i + 1 \in 1 .. Len(r)
      BY <1>2
    <2> QED
      BY <1>2, <2>1
  <1>6. 1 \in 1 .. Len(r)
    BY <1>2
  <1>7. \A i \in 1 .. Len(r) : r[i] = n \/ r[i] \in ToSet(list)
    BY <1>2, <1>3, <1>4 DEF ToSet
  <1>8. ToSet(r) = ToSet(list) \cup {n}
    <2>1. ToSet(r) \subseteq ToSet(list) \cup {n}
      BY <1>3, <1>7 DEF ToSet
    <2>2. ToSet(list) \subseteq ToSet(r)
      BY <1>3, <1>5 DEF ToSet
    <2>3. n \in ToSet(r)
      BY <1>2, <1>3, <1>6 DEF ToSet
    <2> QED
      BY <2>1, <2>2, <2>3
  <1>9. KeysOf(r) = KeysOf(list) \cup {n.key}
    BY <1>8 DEF KeysOf
  <1> QED
    BY <1>1, <1>8, <1>9

\* No two nodes of the lists a and b have the same identity.
Apart(a, b) == \A x \in ToSet(a), y \in ToSet(b) : x.id # y.id

\* a and b are the two parts of the list.
Cut(list, a, b) ==
    /\ ToSet(a) \subseteq ToSet(list) /\ ToSet(b) \subseteq ToSet(list)
    /\ KeysOf(a) \cup KeysOf(b) = KeysOf(list)
    /\ Apart(a, b)

\* The first n nodes and the others.
LEMMA SplitNodes ==
    ASSUME NEW list, NEW map, Sound(list, map), NEW n \in 0 .. Len(list),
           NEW a, NEW b, a = SubSeq(list, 1, n), b = SubSeq(list, n + 1, Len(list))
    PROVE  Cut(list, a, b)
  <1>1. /\ list \in Seq(Nodes)
        /\ \A i \in 1 .. Len(list) : list[i].id[1] = list[i].key
        /\ \A i, j \in 1 .. Len(list) : list[i].key = list[j].key => i = j
    BY DEF Sound
  <1>2. Len(list) \in Nat /\ n \in Nat /\ n <= Len(list) /\ DOMAIN list = 1 .. Len(list)
    BY <1>1
  <1>4. a \in Seq(Nodes) /\ Len(a) = n /\ \A i \in 1 .. n : a[i] = list[i]
    BY <1>1, SplitPlaces
  <1>5. b \in Seq(Nodes) /\ Len(b) = Len(list) - n /\ \A i \in 1 .. Len(list) - n : b[i] = list[n + i]
    BY <1>1, SplitPlaces
  <1>6. /\ \A i \in 1 .. n : i \in 1 .. Len(list)
        /\ \A i \in 1 .. Len(list) - n : n + i \in 1 .. Len(list) /\ n + i \notin 1 .. n
        /\ \A i \in 1 .. Len(list) : i \in 1 .. n \/ (i - n \in 1 .. Len(list) - n /\ n + (i - n) = i)
    BY <1>2
  <1>7. DOMAIN a = 1 .. n /\ DOMAIN b = 1 .. Len(list) - n
    BY <1>4, <1>5
  <1>8. ToSet(a) = {list[i] : i \in 1 .. n}
    BY <1>4, <1>7 DEF ToSet
  <1>9. ToSet(b) = {list[n + i] : i \in 1 .. Len(list) - n}
    BY <1>5, <1>7 DEF ToSet
  <1>10. ToSet(list) = {list[i] : i \in 1 .. Len(list)}
    BY <1>2 DEF ToSet
  <1>11. ToSet(a) \subseteq ToSet(list) /\ ToSet(b) \subseteq ToSet(list)
    BY <1>6, <1>8, <1>9, <1>10
  <1>12. ToSet(list) \subseteq ToSet(a) \cup ToSet(b)
    <2> SUFFICES ASSUME NEW i \in 1 .. Len(list) PROVE list[i] \in ToSet(a) \cup ToSet(b)
      BY <1>10
    <2> QED
      BY <1>6, <1>8, <1>9
  <1>13. KeysOf(a) \cup KeysOf(b) = KeysOf(list)
    BY <1>11, <1>12 DEF KeysOf
  <1>14. Apart(a, b)
    <2> SUFFICES ASSUME NEW x \in ToSet(a), NEW y \in ToSet(b), x.id = y.id PROVE FALSE
      BY DEF Apart
    <2>1. PICK i \in 1 .. n : x = list[i]
      BY <1>8
    <2>2. PICK j \in 1 .. Len(list) - n : y = list[n + j]
      BY <1>9
    <2>3. list[i].key = list[n + j].key
      BY <1>1, <1>6, <2>1, <2>2
    <2> QED
      BY <1>1, <1>6, <2>3
  <1> QED
    BY <1>11, <1>13, <1>14 DEF Cut

\* SoundFront for a key that is not among those of the list.
LEMMA SoundFrontKey ==
    ASSUME NEW list, NEW map, Sound(list, map), NEW n \in Nodes, n.id[1] = n.key, n.key \notin KeysOf(list)
    PROVE  Sound(<<n>> \o list, map \cup {Entry(n)})
  <1>1. list \in Seq(Nodes)
    BY DEF Sound
  <1>2. \A i \in 1 .. Len(list) : list[i].key # n.key
    BY <1>1, KeysOn
  <1> QED
    BY <1>2, SoundFront
-----------------------------------------------------------------------------
(***************************************************************************)
(* The order of the keys.                                                  *)
(***************************************************************************)
\* Every key once.
Once(s) == \A i, j \in 1 .. Len(s) : s[i] = s[j] => i = j

\* The keys of the list are in the order of s.
Ordered(list, s) ==
    /\ KeysOf(list) \subseteq ToSet(s)
    /\ \A i, j \in 1 .. Len(list), p, q \in 1 .. Len(s) :
         s[p] = list[i].key /\ s[q] = list[j].key /\ i < j => p < q

\* Erasing a node keeps the order.
LEMMA OrderedRemove ==
    ASSUME NEW list \in Seq(Nodes), NEW s \in Seq(Keys), Ordered(list, s), NEW p \in 1 .. Len(list),
           KeysOf(RemoveAt(list, p)) \subseteq KeysOf(list)
    PROVE  Ordered(RemoveAt(list, p), s)
  <1> HIDE DEF Nodes
  <1>1. PICK r : r = RemoveAt(list, p)
    OBVIOUS
  <1>2. /\ Len(list) \in Nat /\ r \in Seq(Nodes) /\ Len(r) = Len(list) - 1
        /\ \A i \in 1 .. Len(list) - 1 : r[i] = IF i < p THEN list[i] ELSE list[i + 1]
    BY <1>1, RemovePlaces
  <1>3. KeysOf(r) \subseteq ToSet(s)
    BY <1>1 DEF Ordered
  <1>4. ASSUME NEW i \in 1 .. Len(r), NEW j \in 1 .. Len(r), NEW a \in 1 .. Len(s), NEW b \in 1 .. Len(s),
               s[a] = r[i].key, s[b] = r[j].key, i < j
        PROVE  a < b
    <2>1. PICK f, g : f = (IF i < p THEN i ELSE i + 1) /\ g = (IF j < p THEN j ELSE j + 1)
      OBVIOUS
    <2>2. p \in Nat /\ i \in Nat /\ j \in Nat /\ i \in 1 .. Len(list) - 1 /\ j \in 1 .. Len(list) - 1
      BY <1>2
    <2>3. f \in 1 .. Len(list) /\ g \in 1 .. Len(list) /\ f < g
      BY <1>2, <1>4, <2>1, <2>2
    <2>4. r[i] = list[f] /\ r[j] = list[g]
      BY <1>2, <2>1, <2>2
    <2> QED
      BY <1>4, <2>3, <2>4 DEF Ordered
  <1> QED
    BY <1>1, <1>3, <1>4 DEF Ordered

\* So does dropping the last nodes.
LEMMA OrderedPrefix ==
    ASSUME NEW list \in Seq(Nodes), NEW s \in Seq(Keys), Ordered(list, s), NEW n \in 0 .. Len(list),
           NEW a, a = SubSeq(list, 1, n), KeysOf(a) \subseteq KeysOf(list)
    PROVE  Ordered(a, s)
  <1> HIDE DEF Nodes
  <1>1. a \in Seq(Nodes) /\ Len(a) = n /\ \A i \in 1 .. n : a[i] = list[i]
    BY SplitPlaces
  <1>2. \A i \in 1 .. n : i \in 1 .. Len(list)
    OBVIOUS
  <1> QED
    BY <1>1, <1>2 DEF Ordered

\* t has, from its second place on, elements of s but e in their order.
Behind(t, s, e) ==
    /\ \A i \in 2 .. Len(t) : t[i] # e
    /\ \A i, j \in 2 .. Len(t) : \E a, b \in 1 .. Len(s) :
         t[i] = s[a] /\ t[j] = s[b] /\ (i < j <=> a < b) /\ (i = j <=> a = b)

\* The element e comes to the front of s.
LEMMA ToFront ==
    ASSUME NEW S, NEW s \in Seq(S), Once(s), NEW e \in S, NEW t, t = <<e>> \o RemoveFirst(s, e)
    PROVE  /\ t \in Seq(S) /\ Len(t) \in Nat /\ Len(t) >= 1 /\ t[1] = e
           /\ ToSet(t) = ToSet(s) \cup {e}
           /\ Behind(t, s, e)
  <1>0. Len(s) \in Nat
    OBVIOUS
  <1>1. PICK r : r = RemoveFirst(s, e)
    OBVIOUS
  <1> DEFINE Back(h) ==
               /\ r \in Seq(S) /\ Len(r) \in Nat /\ h \in [1 .. Len(r) -> 1 .. Len(s)]
               /\ \A i \in 1 .. Len(r) : r[i] = s[h[i]] /\ r[i] # e
               /\ \A i, j \in 1 .. Len(r) : i < j => h[i] < h[j]
               /\ \A a \in 1 .. Len(s) : s[a] = e \/ \E i \in 1 .. Len(r) : r[i] = s[a]
  <1>2. \E h : Back(h)
    <2>1. CASE \E i \in 1 .. Len(s) : s[i] = e
      <3>1. PICK I : I = {i \in 1 .. Len(s) : s[i] = e}
        OBVIOUS
      <3>2. PICK p : p = Min(I)
        OBVIOUS
      <3>3. I # {} /\ I \in SUBSET Nat
        BY <2>1, <3>1
      <3>4. p \in I
        <4>1. \E x \in I : \A y \in I : x <= y
          BY <3>3, LeastNat
        <4>2. p = CHOOSE x \in I : \A y \in I : x <= y
          BY <3>2 DEF Min
        <4> QED
          BY <4>1, <4>2, Zenon
      <3>5. p \in 1 .. Len(s) /\ s[p] = e
        BY <3>1, <3>4
      <3>6. r = RemoveAt(s, p)
        BY <1>1, <2>1, <3>1, <3>2, <3>3 DEF RemoveFirst, SelectInSeq
      <3>7. /\ r \in Seq(S) /\ Len(r) = Len(s) - 1
            /\ \A i \in 1 .. Len(s) - 1 : r[i] = IF i < p THEN s[i] ELSE s[i + 1]
        BY <3>5, <3>6, RemovePlaces
      <3>8. PICK h : h = [i \in 1 .. Len(r) |-> IF i < p THEN i ELSE i + 1]
        OBVIOUS
      <3>9. h \in [1 .. Len(r) -> 1 .. Len(s)] /\ Len(r) \in Nat /\ p \in Nat
        BY <1>0, <3>5, <3>7, <3>8
      <3>10. \A i \in 1 .. Len(r) : h[i] = (IF i < p THEN i ELSE i + 1) /\ h[i] # p
        BY <3>8, <3>9
      <3>11. \A i \in 1 .. Len(r) : r[i] = s[h[i]]
        BY <3>7, <3>10
      <3>12. \A i \in 1 .. Len(r) : r[i] # e
        BY <3>5, <3>9, <3>10, <3>11 DEF Once
      <3>13. \A i, j \in 1 .. Len(r) : i < j => h[i] < h[j]
        BY <3>9, <3>10
      <3>14. \A a \in 1 .. Len(s) : s[a] = e \/ \E i \in 1 .. Len(r) : r[i] = s[a]
        <4> SUFFICES ASSUME NEW a \in 1 .. Len(s), s[a] # e
                     PROVE  \E i \in 1 .. Len(r) : r[i] = s[a]
          OBVIOUS
        <4>1. a \in Nat /\ a # p
          BY <3>5
        <4>2. CASE a < p
          <5>1. a \in 1 .. Len(s) - 1
            BY <1>0, <3>5, <4>1, <4>2
          <5> QED
            BY <3>7, <4>2, <5>1
        <4>3. CASE a > p
          <5>1. a - 1 \in 1 .. Len(s) - 1 /\ ~ (a - 1 < p) /\ (a - 1) + 1 = a
            BY <1>0, <3>5, <4>1, <4>3
          <5>2. r[a - 1] = s[a]
            BY <3>7, <5>1
          <5> QED
            BY <3>7, <5>1, <5>2
        <4> QED
          BY <3>9, <4>1, <4>2, <4>3
      <3>15. Back(h)
        BY <3>7, <3>9, <3>11, <3>12, <3>13, <3>14
      <3> HIDE DEF Back
      <3> QED
        BY <3>15
    <2>2. CASE ~ \E i \in 1 .. Len(s) : s[i] = e
      <3>1. r = s
        BY <1>1, <2>2 DEF RemoveFirst
      <3>2. PICK h : h = [i \in 1 .. Len(s) |-> i]
        OBVIOUS
      <3>3. Back(h)
        BY <1>0, <2>2, <3>1, <3>2
      <3> HIDE DEF Back
      <3> QED
        BY <3>3
    <2> QED
      BY <2>1, <2>2
  <1>3. PICK h : Back(h)
    <2> HIDE DEF Back
    <2> QED
      BY <1>2
  <1>4. /\ t \in Seq(S) /\ Len(t) = Len(r) + 1 /\ t[1] = e
        /\ \A i \in 2 .. Len(r) + 1 : t[i] = r[i - 1]
    BY <1>1, <1>3, FrontLen
  <1>5. \A i \in 2 .. Len(t) : i - 1 \in 1 .. Len(r) /\ t[i] = r[i - 1] /\ i \in Nat
    BY <1>3, <1>4
  <1>6. \A i \in 2 .. Len(t) : t[i] # e
    BY <1>3, <1>5
  <1>7. ASSUME NEW i \in 2 .. Len(t), NEW j \in 2 .. Len(t)
        PROVE  \E a, b \in 1 .. Len(s) :
                 t[i] = s[a] /\ t[j] = s[b] /\ (i < j <=> a < b) /\ (i = j <=> a = b)
    <2>1. i - 1 \in 1 .. Len(r) /\ j - 1 \in 1 .. Len(r) /\ i \in Nat /\ j \in Nat
      BY <1>5
    <2>2. PICK a, b : a = h[i - 1] /\ b = h[j - 1]
      OBVIOUS
    <2>3. a \in 1 .. Len(s) /\ b \in 1 .. Len(s) /\ a \in Nat /\ b \in Nat
      <3>1. h \in [1 .. Len(r) -> 1 .. Len(s)]
        BY <1>3
      <3>2. a \in 1 .. Len(s) /\ b \in 1 .. Len(s)
        BY <2>1, <2>2, <3>1
      <3> QED
        BY <3>2
    <2>4. t[i] = s[a] /\ t[j] = s[b]
      BY <1>3, <1>5, <2>1, <2>2
    <2>5. i < j => a < b
      <3>1. i < j => i - 1 < j - 1
        BY <2>1
      <3> QED
        BY <1>3, <2>1, <2>2, <3>1
    <2>6. j < i => b < a
      <3>1. j < i => j - 1 < i - 1
        BY <2>1
      <3> QED
        BY <1>3, <2>1, <2>2, <3>1
    <2>7. i = j <=> a = b
      BY <2>1, <2>2, <2>3, <2>5, <2>6
    <2>8. i < j <=> a < b
      BY <2>1, <2>3, <2>5, <2>6, <2>7
    <2> QED
      BY <2>3, <2>4, <2>7, <2>8
  <1>8. ToSet(t) = ToSet(s) \cup {e}
    <2>1. DOMAIN t = 1 .. Len(t) /\ DOMAIN s = 1 .. Len(s)
      BY <1>4
    <2>2. \A i \in 1 .. Len(t) : i = 1 \/ i \in 2 .. Len(t)
      BY <1>3, <1>4
    <2>3. ToSet(t) \subseteq ToSet(s) \cup {e}
      <3>1. ASSUME NEW i \in 2 .. Len(t)
            PROVE  \E a \in 1 .. Len(s) : t[i] = s[a]
        <4>1. PICK a, b \in 1 .. Len(s) :
                 t[i] = s[a] /\ t[i] = s[b] /\ (i < i <=> a < b) /\ (i = i <=> a = b)
          BY <1>7
        <4> QED
          BY <4>1
      <3>2. ASSUME NEW i \in 1 .. Len(t) PROVE t[i] \in ToSet(s) \cup {e}
        <4>1. CASE i = 1
          BY <1>4, <4>1
        <4>2. CASE i \in 2 .. Len(t)
          <5>1. PICK a \in 1 .. Len(s) : t[i] = s[a]
            BY <3>1, <4>2
          <5> QED
            BY <2>1, <5>1 DEF ToSet
        <4> QED
          BY <2>2, <4>1, <4>2
      <3> QED
        BY <2>1, <3>2 DEF ToSet
    <2>4. \A i \in 1 .. Len(r) : i + 1 \in 1 .. Len(t) /\ t[i + 1] = r[i]
      <3>1. \A i \in 1 .. Len(r) : i + 1 \in 2 .. Len(r) + 1 /\ i + 1 \in 1 .. Len(t) /\ (i + 1) - 1 = i
        BY <1>3, <1>4
      <3> QED
        BY <1>4, <3>1
    <2>5. 1 \in 1 .. Len(t)
      BY <1>3, <1>4
    <2>6. e \in ToSet(t)
      BY <1>4, <2>1, <2>5 DEF ToSet
    <2>7. \A a \in 1 .. Len(s) : s[a] \in ToSet(t)
      <3> SUFFICES ASSUME NEW a \in 1 .. Len(s), s[a] # e PROVE s[a] \in ToSet(t)
        BY <2>6
      <3>1. PICK i \in 1 .. Len(r) : r[i] = s[a]
        BY <1>3
      <3> QED
        BY <2>1, <2>4, <3>1 DEF ToSet
    <2>8. ToSet(s) \subseteq ToSet(t)
      BY <2>1, <2>7 DEF ToSet
    <2> QED
      BY <2>3, <2>6, <2>8
  <1>9. Len(t) \in Nat /\ Len(t) >= 1
    BY <1>3, <1>4
  <1>10. Behind(t, s, e)
    BY <1>6, <1>7 DEF Behind
  <1> QED
    BY <1>4, <1>8, <1>9, <1>10
\* Every key is still in once, and a node with the key e goes in front of the list.
LEMMA OrderedFront ==
    ASSUME NEW list \in Seq(Nodes), NEW s \in Seq(Keys), Ordered(list, s), Once(s),
           NEW n \in Nodes, n.key \notin KeysOf(list),
           NEW t, t = <<n.key>> \o RemoveFirst(s, n.key)
    PROVE  t \in Seq(Keys) /\ Once(t) /\ Ordered(<<n>> \o list, t)
  <1>0. n.key \in Keys
    BY NodeTypes
  <1> HIDE DEF Nodes
  <1>1. PICK e : e = n.key
    OBVIOUS
  <1>2. /\ t \in Seq(Keys) /\ Len(t) \in Nat /\ Len(t) >= 1 /\ t[1] = e
        /\ ToSet(t) = ToSet(s) \cup {e} /\ Behind(t, s, e)
    <2>1. e \in Keys /\ t = <<e>> \o RemoveFirst(s, e)
      BY <1>0, <1>1
    <2> QED
      BY <2>1, ToFront
  <1>3. \A i \in 2 .. Len(t) : t[i] # e
    BY <1>2 DEF Behind
  <1>4. \A i \in 1 .. Len(t) : i = 1 \/ i \in 2 .. Len(t)
    BY <1>2
  <1>5. Once(t)
    <2> SUFFICES ASSUME NEW i \in 1 .. Len(t), NEW j \in 1 .. Len(t), t[i] = t[j]
                 PROVE  i = j
      BY DEF Once
    <2>1. CASE i = 1 \/ j = 1
      BY <1>2, <1>3, <1>4, <2>1
    <2>2. CASE i # 1 /\ j # 1
      <3>1. i \in 2 .. Len(t) /\ j \in 2 .. Len(t)
        BY <1>4, <2>2
      <3>2. PICK a, b \in 1 .. Len(s) :
               t[i] = s[a] /\ t[j] = s[b] /\ (i < j <=> a < b) /\ (i = j <=> a = b)
        BY <1>2, <3>1 DEF Behind
      <3>3. a = b
        BY <3>2 DEF Once
      <3> QED
        BY <3>2, <3>3
    <2> QED
      BY <2>1, <2>2
  <1>6. PICK r : r = <<n>> \o list
    OBVIOUS
  <1>7. /\ Len(list) \in Nat /\ r \in Seq(Nodes) /\ Len(r) = Len(list) + 1 /\ r[1] = n
        /\ \A i \in 2 .. Len(list) + 1 : r[i] = list[i - 1]
    BY <1>6, FrontLen
  <1>8. KeysOf(r) = KeysOf(list) \cup {e}
    BY <1>1, <1>6, FrontNodes
  <1>9. KeysOf(r) \subseteq ToSet(t)
    BY <1>2, <1>8 DEF Ordered
  <1>10. ASSUME NEW i \in 1 .. Len(r), NEW j \in 1 .. Len(r), NEW p \in 1 .. Len(t), NEW q \in 1 .. Len(t),
                t[p] = r[i].key, t[q] = r[j].key, i < j
         PROVE  p < q
    <2>1. j \in 2 .. Len(list) + 1 /\ j - 1 \in 1 .. Len(list) /\ j \in Nat /\ i \in Nat
      BY <1>7, <1>10
    <2>2. r[j] = list[j - 1]
      BY <1>7, <2>1
    <2>3. r[j].key # e
      <3>1. list[j - 1].key \in KeysOf(list)
        BY <2>1, KeysOn
      <3> QED
        BY <1>1, <2>2, <3>1
    <2>4. q \in 2 .. Len(t)
      BY <1>2, <1>4, <1>10, <2>3
    <2>5. CASE i = 1
      <3>1. p = 1
        BY <1>1, <1>3, <1>4, <1>7, <1>10, <2>5
      <3> QED
        BY <1>2, <2>4, <3>1
    <2>6. CASE i # 1
      <3>1. i \in 2 .. Len(list) + 1 /\ i - 1 \in 1 .. Len(list) /\ i - 1 < j - 1
        BY <1>7, <1>10, <2>1, <2>6
      <3>2. r[i] = list[i - 1]
        BY <1>7, <3>1
      <3>3. list[i - 1].key \in KeysOf(list)
        BY <3>1, KeysOn
      <3>4. p \in 2 .. Len(t)
        BY <1>1, <1>2, <1>4, <1>10, <3>2, <3>3
      <3>5. PICK a, b \in 1 .. Len(s) :
               t[p] = s[a] /\ t[q] = s[b] /\ (p < q <=> a < b) /\ (p = q <=> a = b)
        BY <1>2, <2>4, <3>4 DEF Behind
      <3>8. a < b
        BY <1>10, <2>1, <2>2, <3>1, <3>2, <3>5 DEF Ordered
      <3> QED
        BY <3>5, <3>8
    <2> QED
      BY <2>5, <2>6
  <1>11. Ordered(r, t)
    BY <1>9, <1>10 DEF Ordered
  <1> QED
    BY <1>2, <1>5, <1>6, <1>11
-----------------------------------------------------------------------------
(***************************************************************************)
(* The invariant of the cache.                                             *)
(***************************************************************************)
\* Each map matches its list, no identity is on both, the cold size is exact.
LruInv ==
    /\ Sound(m_hot_list, m_hot_map) /\ Sound(m_cold_list, m_cold_map)
    /\ Apart(m_hot_list, m_cold_list)
    /\ m_cold_size = Sizes(m_cold_list)
    /\ m_hot_size \in 0 .. SizeMod - 1

\* The history has every key once, and the hot list is in its order.
RecencyInv ==
    /\ recency \in Seq(Keys) /\ Once(recency)
    /\ Ordered(m_hot_list, recency)

\* A new node's identity is on neither list.
LEMMA NewNodeApart ==
    ASSUME LruInv, NEW k \in Keys
    PROVE  /\ NewId(k) \in Ids /\ NewId(k)[1] = k
           /\ \A x \in ToSet(m_hot_list) : x.id # NewId(k)
           /\ \A x \in ToSet(m_cold_list) : x.id # NewId(k)
  <1>1. Sound(m_hot_list, m_hot_map) /\ Sound(m_cold_list, m_cold_map)
    BY DEF LruInv
  <1>2. m_hot_list \in Seq(Nodes) /\ m_cold_list \in Seq(Nodes)
    BY <1>1 DEF Sound
  <1>3. DOMAIN m_hot_list = 1 .. Len(m_hot_list) /\ DOMAIN m_cold_list = 1 .. Len(m_cold_list)
    BY <1>2
  <1>4. /\ NewId(k) \in Ids /\ NewId(k)[1] = k
        /\ \A i \in 1 .. Len(m_hot_list) : m_hot_list[i].id # NewId(k)
        /\ \A i \in 1 .. Len(m_cold_list) : m_cold_list[i].id # NewId(k)
    BY <1>1, NewIdFresh
  <1> QED
    BY <1>3, <1>4 DEF ToSet

\* The constructor leaves two empty lists.
LEMMA LruInit == Init => LruInv /\ RecencyInv
  <1> SUFFICES ASSUME Init PROVE LruInv /\ RecencyInv
    OBVIOUS
  <1>1. /\ m_hot_list = <<>> /\ m_cold_list = <<>> /\ m_hot_map = {} /\ m_cold_map = {}
        /\ m_hot_size = 0 /\ m_cold_size = 0 /\ recency = <<>>
    BY DEF Init
  <1>2. Sound(m_hot_list, m_hot_map) /\ Sound(m_cold_list, m_cold_map)
    BY <1>1, SoundEmpty
  <1>3. ToSet(<<>>) = {}
    BY DEF ToSet
  <1>4. KeysOf(<<>>) = {}
    BY <1>3 DEF KeysOf
  <1>5. m_cold_size = Sizes(m_cold_list)
    BY <1>1, SizesSmall
  <1>6. m_hot_size \in 0 .. SizeMod - 1
    BY <1>1, NodeTypes
  <1>7. Apart(m_hot_list, m_cold_list)
    BY <1>1, <1>3 DEF Apart
  <1>8. Ordered(m_hot_list, recency)
    BY <1>1, <1>4 DEF Ordered
  <1>9. recency \in Seq(Keys) /\ Once(recency)
    BY <1>1 DEF Once
  <1> QED
    BY <1>2, <1>5, <1>6, <1>7, <1>8, <1>9 DEF LruInv, RecencyInv

\* Add evicts from the cold list what leaves no room, and puts a new key in front.
LEMMA AddStep ==
    ASSUME LruInv, NEW k \in Keys, NEW v \in ValueSizes, Add(k, v)
    PROVE  /\ LruInv'
           /\ m_cold_size' <= m_max_cold_size \/ KeysOf(m_cold_list') = {k}
  <1> HIDE DEF Nodes
  <1>1. /\ Sound(m_hot_list, m_hot_map) /\ Sound(m_cold_list, m_cold_map)
        /\ Apart(m_hot_list, m_cold_list) /\ m_cold_size = Sizes(m_cold_list)
        /\ m_hot_size \in 0 .. SizeMod - 1 /\ m_cold_list \in Seq(Nodes)
    BY DEF LruInv, Sound
  <1>2. PICK n, a, b, size, map, node :
           /\ n = Kept(m_cold_list, m_cold_size, m_max_cold_size, v)
           /\ a = SubSeq(m_cold_list, 1, n) /\ b = SubSeq(m_cold_list, n + 1, Len(m_cold_list))
           /\ size = SizeOfFirst(m_cold_list, m_cold_size, n)
           /\ map = EraseKeys(m_cold_map, KeysOf(b))
           /\ node = [id |-> NewId(k), key |-> k, value_size |-> v]
    OBVIOUS
  <1>3. /\ IF InMap(map, k)
           THEN m_cold_list' = a /\ m_cold_map' = map /\ m_cold_size' = size
           ELSE /\ m_cold_list' = <<node>> \o a
                /\ m_cold_map' = map \cup {Entry(node)}
                /\ m_cold_size' = (size + v) % SizeMod
        /\ m_hot_list' = m_hot_list /\ m_hot_map' = m_hot_map /\ m_hot_size' = m_hot_size
    BY <1>2 DEF Add, hot
  <1>4. n \in 0 .. Len(m_cold_list) /\ (n = 0 \/ (size + v) % SizeMod <= m_max_cold_size)
    BY <1>1, <1>2, KeptNodes
  <1>5. Sound(a, map)
    BY <1>1, <1>2, <1>4, SoundPrefix
  <1>6. size = Sizes(a)
    BY <1>1, <1>2, <1>4, FirstSizes
  <1>7. ToSet(a) \subseteq ToSet(m_cold_list)
    <2>1. Cut(m_cold_list, a, b)
      BY <1>1, <1>2, <1>4, SplitNodes
    <2> QED
      BY <2>1 DEF Cut
  <1>8. Apart(m_hot_list, a)
    BY <1>1, <1>7 DEF Apart
  <1>9. Sizes(a) \in 0 .. SizeMod - 1 /\ Sizes(a) + v \in 0 .. SizeMod - 1
    BY <1>5, SizesFit
  <1>10. (size + v) % SizeMod = Sizes(a) + v
    BY <1>6, <1>9, Remainder
  <1>11. a \in Seq(Nodes)
    BY <1>5 DEF Sound
  <1>12. v \in Nat /\ MaxSize \in Nat /\ m_max_cold_size \in Int
    <2>1. MaxSize \in Nat /\ v \in Nat
      BY ConstantsAssumption
    <2> QED
      BY <2>1 DEF m_max_cold_size, m_max_hot_size
  <1>13. CASE InMap(map, k)
    <2>1. m_cold_list' = a /\ m_cold_map' = map /\ m_cold_size' = size
      BY <1>3, <1>13
    <2>2. LruInv'
      BY <1>1, <1>3, <1>5, <1>6, <1>8, <2>1 DEF LruInv
    <2>3. n # 0
      <3> SUFFICES ASSUME n = 0 PROVE FALSE
        OBVIOUS
      <3>1. a = <<>>
        BY <1>2
      <3>2. KeysOf(a) = {}
        BY <3>1 DEF KeysOf, ToSet
      <3> QED
        BY <1>5, <1>13, <3>2, Listed
    <2>4. m_cold_size' <= m_max_cold_size
      BY <1>4, <1>6, <1>9, <1>10, <1>12, <2>1, <2>3
    <2> QED
      BY <2>2, <2>4
  <1>14. CASE ~InMap(map, k)
    <2>1. /\ m_cold_list' = <<node>> \o a /\ m_cold_map' = map \cup {Entry(node)}
          /\ m_cold_size' = Sizes(a) + v
      BY <1>3, <1>10, <1>14
    <2>2. NewId(k) \in Ids /\ NewId(k)[1] = k /\ \A x \in ToSet(m_hot_list) : x.id # NewId(k)
      BY NewNodeApart
    <2>3. node \in Nodes /\ node.id = NewId(k) /\ node.key = k /\ node.value_size = v
      BY <1>2, <2>2, NodeMade
    <2>4. k \notin KeysOf(a)
      BY <1>5, <1>14, Listed
    <2>5. Sound(<<node>> \o a, map \cup {Entry(node)})
      BY <1>5, <2>2, <2>3, <2>4, SoundFrontKey
    <2>6. Sizes(<<node>> \o a) = v + Sizes(a)
      BY <1>11, <2>3, SizesFront
    <2>7. ToSet(<<node>> \o a) = ToSet(a) \cup {node} /\ KeysOf(<<node>> \o a) = KeysOf(a) \cup {k}
      BY <1>11, <2>3, FrontNodes
    <2>8. Apart(m_hot_list, <<node>> \o a)
      BY <1>8, <2>2, <2>3, <2>7 DEF Apart
    <2>9. m_cold_size' = Sizes(<<node>> \o a)
      BY <1>9, <1>12, <2>1, <2>6
    <2>10. LruInv'
      <3>1. Sound(m_cold_list, m_cold_map)'
        BY <2>1, <2>5
      <3>2. Sound(m_hot_list, m_hot_map)' /\ (m_hot_size \in 0 .. SizeMod - 1)'
        BY <1>1, <1>3
      <3>3. Apart(m_hot_list, m_cold_list)'
        BY <1>3, <2>1, <2>8
      <3>4. (m_cold_size = Sizes(m_cold_list))'
        BY <2>1, <2>9
      <3> QED
        BY <3>1, <3>2, <3>3, <3>4 DEF LruInv
    <2>11. m_cold_size' <= m_max_cold_size \/ KeysOf(m_cold_list') = {k}
      <3>1. CASE n = 0
        <4>1. a = <<>>
          BY <1>2, <3>1
        <4>2. KeysOf(a) = {}
          BY <4>1 DEF KeysOf, ToSet
        <4> QED
          BY <2>1, <2>7, <4>2
      <3>2. CASE n # 0
        BY <1>4, <1>10, <2>1, <3>2
      <3> QED
        BY <3>1, <3>2
    <2> QED
      BY <2>10, <2>11
  <1> QED
    BY <1>13, <1>14

\* Get of a hot key: the node comes to the front with a new identity.
LEMMA GetHotStep ==
    ASSUME LruInv, NEW k \in Keys, GetHot(k)
    PROVE  /\ LruInv' /\ Cached' = Cached
           /\ RecencyInv => RecencyInv'
  <1> HIDE DEF Nodes
  <1>1. /\ Sound(m_hot_list, m_hot_map) /\ Sound(m_cold_list, m_cold_map)
        /\ Apart(m_hot_list, m_cold_list) /\ m_cold_size = Sizes(m_cold_list)
        /\ m_hot_size \in 0 .. SizeMod - 1 /\ m_hot_list \in Seq(Nodes)
    BY DEF LruInv, Sound
  <1>2. InMap(m_hot_map, k)
    BY DEF GetHot
  <1>3. PICK p \in 1 .. Len(m_hot_list) :
           /\ m_hot_list[p].key = k /\ m_hot_list[p] \in Nodes
           /\ NodeAt(m_hot_list, Find(m_hot_map, k)) = m_hot_list[p]
           /\ Erase(m_hot_list, Find(m_hot_map, k)) = RemoveAt(m_hot_list, p)
    BY <1>1, <1>2, Lookup
  <1>4. PICK r, map, node :
           /\ r = RemoveAt(m_hot_list, p) /\ map = EraseKeys(m_hot_map, {k})
           /\ node = [m_hot_list[p] EXCEPT !.id = NewId(k)]
    OBVIOUS
  <1>5. /\ m_hot_list' = <<node>> \o r /\ m_hot_map' = map \cup {Entry(node)}
        /\ m_hot_size' = m_hot_size
        /\ m_cold_list' = m_cold_list /\ m_cold_map' = m_cold_map /\ m_cold_size' = m_cold_size
        /\ recency' = <<k>> \o RemoveFirst(recency, k)
    BY <1>3, <1>4 DEF GetHot, cold, Touch
  <1>6. NewId(k) \in Ids /\ NewId(k)[1] = k /\ \A x \in ToSet(m_cold_list) : x.id # NewId(k)
    BY NewNodeApart
  <1>7. node \in Nodes /\ node.id = NewId(k) /\ node.key = k
    BY <1>3, <1>4, <1>6, NodeRenamed
  <1>8. Sound(r, map)
    BY <1>1, <1>3, <1>4, SoundRemove
  <1>9. /\ ToSet(r) \subseteq ToSet(m_hot_list) /\ KeysOf(r) = KeysOf(m_hot_list) \ {k}
        /\ k \in KeysOf(m_hot_list)
    BY <1>1, <1>3, <1>4, RemovedNodes
  <1>10. Sound(<<node>> \o r, map \cup {Entry(node)})
    <2>1. node.key \notin KeysOf(r) /\ node.id[1] = node.key
      BY <1>6, <1>7, <1>9
    <2> QED
      BY <1>7, <1>8, <2>1, SoundFrontKey
  <1>11. r \in Seq(Nodes)
    BY <1>8 DEF Sound
  <1>12. ToSet(<<node>> \o r) = ToSet(r) \cup {node} /\ KeysOf(<<node>> \o r) = KeysOf(r) \cup {k}
    BY <1>7, <1>11, FrontNodes
  <1>13. Apart(<<node>> \o r, m_cold_list)
    BY <1>1, <1>6, <1>7, <1>9, <1>12 DEF Apart
  <1>14. LruInv'
    <2>1. Sound(m_hot_list, m_hot_map)'
      BY <1>5, <1>10
    <2>2. Sound(m_cold_list, m_cold_map)' /\ (m_cold_size = Sizes(m_cold_list))' /\ (m_hot_size \in 0 .. SizeMod - 1)'
      BY <1>1, <1>5
    <2>3. Apart(m_hot_list, m_cold_list)'
      BY <1>5, <1>13
    <2> QED
      BY <2>1, <2>2, <2>3 DEF LruInv
  <1>15. Cached' = Cached
    <2>1. KeysOf(m_hot_list') = KeysOf(m_hot_list) /\ KeysOf(m_cold_list') = KeysOf(m_cold_list)
      BY <1>5, <1>9, <1>12
    <2> QED
      BY <2>1 DEF Cached
  <1>16. ASSUME RecencyInv PROVE RecencyInv'
    <2>1. recency \in Seq(Keys) /\ Once(recency) /\ Ordered(m_hot_list, recency)
      BY <1>16 DEF RecencyInv
    <2>2. Ordered(r, recency)
      <3>1. KeysOf(RemoveAt(m_hot_list, p)) \subseteq KeysOf(m_hot_list)
        BY <1>4, <1>9
      <3>2. Ordered(RemoveAt(m_hot_list, p), recency)
        BY <1>1, <2>1, <3>1, OrderedRemove
      <3> QED
        BY <1>4, <3>2
    <2>3. PICK t : t = <<k>> \o RemoveFirst(recency, k)
      OBVIOUS
    <2>4. t = <<node.key>> \o RemoveFirst(recency, node.key) /\ node.key \notin KeysOf(r)
      BY <1>7, <1>9, <2>3
    <2>5. t \in Seq(Keys) /\ Once(t) /\ Ordered(<<node>> \o r, t)
      BY <1>7, <1>11, <2>1, <2>2, <2>4, OrderedFront
    <2> QED
      BY <1>5, <2>3, <2>5 DEF RecencyInv
  <1> QED
    BY <1>14, <1>15, <1>16

\* Get of a cold key: it moves to the front of the hot list, and what the hot
\* list drops is demoted to the cold list.
LEMMA GetColdStep ==
    ASSUME LruInv, NEW k \in Keys, GetCold(k)
    PROVE  /\ LruInv' /\ Cached' = Cached
           /\ RecencyInv => RecencyInv'
  <1> HIDE DEF Nodes
  <1>1. /\ Sound(m_hot_list, m_hot_map) /\ Sound(m_cold_list, m_cold_map)
        /\ Apart(m_hot_list, m_cold_list) /\ m_cold_size = Sizes(m_cold_list)
        /\ m_hot_size \in 0 .. SizeMod - 1
        /\ m_hot_list \in Seq(Nodes) /\ m_cold_list \in Seq(Nodes)
    BY DEF LruInv, Sound
  <1>2. ~InMap(m_hot_map, k) /\ InMap(m_cold_map, k)
    BY DEF GetCold
  <1>3. PICK p \in 1 .. Len(m_cold_list) :
           /\ m_cold_list[p].key = k /\ m_cold_list[p] \in Nodes /\ Find(m_cold_map, k) = m_cold_list[p].id
           /\ NodeAt(m_cold_list, Find(m_cold_map, k)) = m_cold_list[p]
           /\ Erase(m_cold_list, Find(m_cold_map, k)) = RemoveAt(m_cold_list, p)
    BY <1>1, <1>2, Lookup
  <1>4. PICK node, n, a, b, e, map, size, c :
           /\ node = m_cold_list[p]
           /\ n = Kept(m_hot_list, m_hot_size, m_max_hot_size, node.value_size)
           /\ a = SubSeq(m_hot_list, 1, n) /\ b = SubSeq(m_hot_list, n + 1, Len(m_hot_list))
           /\ e = RemoveAt(m_cold_list, p) /\ map = EraseKeys(m_cold_map, {k})
           /\ size = (m_cold_size - node.value_size) % SizeMod
           /\ c = Demote(b, e, map, size)
    OBVIOUS
  <1>5. node = NodeAt(m_cold_list, Find(m_cold_map, k)) /\ e = Erase(m_cold_list, node.id)
    BY <1>3, <1>4
  <1>6. /\ m_hot_list' = <<node>> \o a
        /\ m_hot_map' = EraseKeys(m_hot_map, KeysOf(b)) \cup {Entry(node)}
        /\ m_hot_size' = SizeOfFirst(m_hot_list, m_hot_size, n)
        /\ m_cold_list' = c.list /\ m_cold_map' = c.map /\ m_cold_size' = c.size
        /\ recency' = <<k>> \o RemoveFirst(recency, k)
    BY <1>4, <1>5 DEF GetCold, Touch
  <1>7. n \in 0 .. Len(m_hot_list)
    BY <1>1, <1>4, KeptNodes
  <1>8. Sound(a, EraseKeys(m_hot_map, KeysOf(b)))
    BY <1>1, <1>4, <1>7, SoundPrefix
  <1>9. /\ ToSet(a) \subseteq ToSet(m_hot_list) /\ ToSet(b) \subseteq ToSet(m_hot_list)
        /\ KeysOf(a) \cup KeysOf(b) = KeysOf(m_hot_list) /\ Apart(a, b)
    <2>1. a = SubSeq(m_hot_list, 1, n) /\ b = SubSeq(m_hot_list, n + 1, Len(m_hot_list))
      BY <1>4
    <2>2. Sound(m_hot_list, m_hot_map)
      BY <1>1
    <2>3. Cut(m_hot_list, a, b)
      BY <1>7, <2>1, <2>2, SplitNodes
    <2> QED
      BY <2>3 DEF Cut
  <1>10. k \notin KeysOf(m_hot_list)
    BY <1>1, <1>2, Listed
  <1>11. PICK rest : Sound(b, rest)
    <2>1. b = SubSeq(m_hot_list, n + 1, Len(m_hot_list))
      BY <1>4
    <2>2. Sound(m_hot_list, m_hot_map)
      BY <1>1
    <2>3. PICK m : m = {Entry(b[i]) : i \in 1 .. Len(b)}
      OBVIOUS
    <2>4. Sound(b, m)
      BY <1>7, <2>1, <2>2, <2>3, SoundSuffix
    <2> QED
      BY <2>4
  <1>12. b \in Seq(Nodes) /\ \A i \in 1 .. Len(b) : b[i].id[1] = b[i].key
    BY <1>11 DEF Sound
  <1>13. Sound(e, map)
    BY <1>1, <1>3, <1>4, SoundRemove
  <1>14. /\ node \in ToSet(m_cold_list) /\ ToSet(e) \subseteq ToSet(m_cold_list)
         /\ KeysOf(e) = KeysOf(m_cold_list) \ {k} /\ k \in KeysOf(m_cold_list)
    BY <1>1, <1>3, <1>4, RemovedNodes
  <1>15. node \in Nodes /\ node.key = k /\ node.id[1] = k
    <2>1. node.id[1] = node.key
      BY <1>1, <1>14, Listed
    <2> QED
      BY <1>3, <1>4, <2>1
  <1>16. size = Sizes(e)
    <2>1. Sizes(m_cold_list) = Sizes(e) + node.value_size
      BY <1>1, <1>4, SizesRemove
    <2>2. Sizes(e) \in 0 .. SizeMod - 1
      BY <1>13, SizesFit
    <2>3. node.value_size \in Nat
      BY <1>15, NodeTypes
    <2>4. m_cold_size - node.value_size = Sizes(e)
      BY <1>1, <2>1, <2>2, <2>3
    <2> QED
      BY <1>4, <2>2, <2>4, Remainder
  <1>17. PICK base : base = [list |-> e, map |-> map, size |-> size]
    OBVIOUS
  <1>18. ColdSound(base)
    <2>1. base.list = e /\ base.map = map /\ base.size = size
      BY <1>17
    <2> QED
      BY <1>13, <1>16, <1>17, <2>1 DEF ColdSound
  <1>19. /\ ColdSound(c) /\ ToSet(c.list) \subseteq ToSet(e) \cup ToSet(b)
         /\ KeysOf(c.list) = KeysOf(e) \cup KeysOf(b)
    <2>1. c = Demote(b, e, map, size)
      BY <1>4
    <2>2. ColdSound(c) /\ JoinedAll(c, e, b)
      BY <1>12, <1>17, <1>18, <2>1, DemoteLoop
    <2> QED
      BY <2>2 DEF JoinedAll
  <1>20. Sound(c.list, c.map) /\ c.size = Sizes(c.list)
    BY <1>19 DEF ColdSound
  <1>21. k \notin KeysOf(a)
    BY <1>9, <1>10
  <1>22. Sound(<<node>> \o a, EraseKeys(m_hot_map, KeysOf(b)) \cup {Entry(node)})
    BY <1>8, <1>15, <1>21, SoundFrontKey
  <1>23. a \in Seq(Nodes)
    BY <1>8 DEF Sound
  <1>24. ToSet(<<node>> \o a) = ToSet(a) \cup {node} /\ KeysOf(<<node>> \o a) = KeysOf(a) \cup {k}
    BY <1>15, <1>23, FrontNodes
  <1>25. Apart(<<node>> \o a, c.list)
    <2> SUFFICES ASSUME NEW x \in ToSet(a) \cup {node}, NEW y \in ToSet(e) \cup ToSet(b)
                 PROVE  x.id # y.id
      BY <1>19, <1>24 DEF Apart
    <2>1. CASE x \in ToSet(a) /\ y \in ToSet(b)
      BY <1>9, <2>1 DEF Apart
    <2>2. CASE x \in ToSet(a) /\ y \in ToSet(e)
      BY <1>1, <1>9, <1>14, <2>2 DEF Apart
    <2>3. CASE x = node /\ y \in ToSet(e)
      <3>1. y.id[1] = y.key /\ y.key \in KeysOf(e)
        BY <1>13, <2>3, Listed
      <3> QED
        BY <1>14, <1>15, <2>3, <3>1
    <2>4. CASE x = node /\ y \in ToSet(b)
      <3>1. y.id[1] = y.key /\ y.key \in KeysOf(m_hot_list)
        BY <1>1, <1>9, <2>4, Listed
      <3> QED
        BY <1>10, <1>15, <2>4, <3>1
    <2> QED
      BY <2>1, <2>2, <2>3, <2>4
  <1>26. m_hot_size' \in 0 .. SizeMod - 1
    <2>1. PICK s : s = Sizes(b)
      OBVIOUS
    <2>2. s \in Nat
      BY <1>11, <2>1, SizesFit
    <2>3. m_hot_size' = (m_hot_size - s) % SizeMod
      BY <1>4, <1>6, <2>1 DEF SizeOfFirst
    <2>4. m_hot_size - s \in Int
      BY <1>1, <2>2
    <2> QED
      BY <2>3, <2>4, Remainder
  <1>27. LruInv'
    <2>1. Sound(m_hot_list, m_hot_map)'
      BY <1>6, <1>22
    <2>2. Sound(m_cold_list, m_cold_map)' /\ (m_cold_size = Sizes(m_cold_list))'
      BY <1>6, <1>20
    <2>3. Apart(m_hot_list, m_cold_list)'
      BY <1>6, <1>25
    <2> QED
      BY <1>26, <2>1, <2>2, <2>3 DEF LruInv
  <1>28. Cached' = Cached
    <2>1. /\ KeysOf(m_hot_list') = KeysOf(a) \cup {k}
          /\ KeysOf(m_cold_list') = (KeysOf(m_cold_list) \ {k}) \cup KeysOf(b)
      BY <1>6, <1>14, <1>19, <1>24
    <2>2. Cached' = KeysOf(m_hot_list') \cup KeysOf(m_cold_list')
      BY DEF Cached
    <2>3. Cached = KeysOf(a) \cup KeysOf(b) \cup KeysOf(m_cold_list)
      BY <1>9 DEF Cached
    <2> QED
      BY <1>14, <2>1, <2>2, <2>3
  <1>29. ASSUME RecencyInv PROVE RecencyInv'
    <2>1. recency \in Seq(Keys) /\ Once(recency) /\ Ordered(m_hot_list, recency)
      BY <1>29 DEF RecencyInv
    <2>2. Ordered(a, recency)
      BY <1>1, <1>4, <1>7, <1>9, <2>1, OrderedPrefix
    <2>3. PICK t : t = <<k>> \o RemoveFirst(recency, k)
      OBVIOUS
    <2>4. t = <<node.key>> \o RemoveFirst(recency, node.key) /\ node.key \notin KeysOf(a)
      BY <1>15, <1>21, <2>3
    <2>5. t \in Seq(Keys) /\ Once(t) /\ Ordered(<<node>> \o a, t)
      BY <1>15, <1>23, <2>1, <2>2, <2>4, OrderedFront
    <2> QED
      BY <1>6, <2>3, <2>5 DEF RecencyInv
  <1> QED
    BY <1>27, <1>28, <1>29

\* Delete of a hot key.
LEMMA DeleteHotStep ==
    ASSUME LruInv, NEW k \in Keys, DeleteHot(k)
    PROVE  /\ LruInv'
           /\ RecencyInv => RecencyInv'
  <1> HIDE DEF Nodes
  <1>1. /\ Sound(m_hot_list, m_hot_map) /\ Sound(m_cold_list, m_cold_map)
        /\ Apart(m_hot_list, m_cold_list) /\ m_cold_size = Sizes(m_cold_list)
        /\ m_hot_size \in 0 .. SizeMod - 1 /\ m_hot_list \in Seq(Nodes)
    BY DEF LruInv, Sound
  <1>2. InMap(m_hot_map, k)
    BY DEF DeleteHot
  <1>3. PICK p \in 1 .. Len(m_hot_list) :
           /\ m_hot_list[p].key = k /\ m_hot_list[p] \in Nodes /\ Find(m_hot_map, k) = m_hot_list[p].id
           /\ NodeAt(m_hot_list, Find(m_hot_map, k)) = m_hot_list[p]
           /\ Erase(m_hot_list, Find(m_hot_map, k)) = RemoveAt(m_hot_list, p)
    BY <1>1, <1>2, Lookup
  <1>4. PICK r, map, v :
           /\ r = RemoveAt(m_hot_list, p) /\ map = EraseKeys(m_hot_map, {k})
           /\ v = m_hot_list[p].value_size
    OBVIOUS
  <1>5. /\ m_hot_list' = r /\ m_hot_map' = map /\ m_hot_size' = (m_hot_size - v) % SizeMod
        /\ m_cold_list' = m_cold_list /\ m_cold_map' = m_cold_map /\ m_cold_size' = m_cold_size
        /\ recency' = recency
    BY <1>3, <1>4 DEF DeleteHot, cold
  <1>6. Sound(r, map)
    BY <1>1, <1>3, <1>4, SoundRemove
  <1>7. ToSet(r) \subseteq ToSet(m_hot_list) /\ KeysOf(r) = KeysOf(m_hot_list) \ {k}
    BY <1>1, <1>3, <1>4, RemovedNodes
  <1>8. LruInv'
    <2>1. Sound(m_hot_list, m_hot_map)'
      BY <1>5, <1>6
    <2>2. Sound(m_cold_list, m_cold_map)' /\ (m_cold_size = Sizes(m_cold_list))'
      BY <1>1, <1>5
    <2>3. Apart(r, m_cold_list)
      BY <1>1, <1>7 DEF Apart
    <2>4. Apart(m_hot_list, m_cold_list)'
      BY <1>5, <2>3
    <2>5. v \in Nat
      BY <1>3, <1>4, NodeTypes
    <2>6. m_hot_size - v \in Int
      BY <1>1, <2>5
    <2>7. m_hot_size' \in 0 .. SizeMod - 1
      BY <1>5, <2>6, Remainder
    <2> QED
      BY <2>1, <2>2, <2>4, <2>7 DEF LruInv
  <1>9. ASSUME RecencyInv PROVE RecencyInv'
    <2>1. recency \in Seq(Keys) /\ Once(recency) /\ Ordered(m_hot_list, recency)
      BY <1>9 DEF RecencyInv
    <2>2. KeysOf(RemoveAt(m_hot_list, p)) \subseteq KeysOf(m_hot_list)
      BY <1>4, <1>7
    <2>3. Ordered(RemoveAt(m_hot_list, p), recency)
      BY <1>1, <2>1, <2>2, OrderedRemove
    <2> QED
      BY <1>4, <1>5, <2>1, <2>3 DEF RecencyInv
  <1> QED
    BY <1>8, <1>9

\* Delete of a cold key.
LEMMA DeleteColdStep ==
    ASSUME LruInv, NEW k \in Keys, DeleteCold(k)
    PROVE  LruInv'
  <1> HIDE DEF Nodes
  <1>1. /\ Sound(m_hot_list, m_hot_map) /\ Sound(m_cold_list, m_cold_map)
        /\ Apart(m_hot_list, m_cold_list) /\ m_cold_size = Sizes(m_cold_list)
        /\ m_hot_size \in 0 .. SizeMod - 1 /\ m_cold_list \in Seq(Nodes)
    BY DEF LruInv, Sound
  <1>2. InMap(m_cold_map, k)
    BY DEF DeleteCold
  <1>3. PICK p \in 1 .. Len(m_cold_list) :
           /\ m_cold_list[p].key = k /\ m_cold_list[p] \in Nodes /\ Find(m_cold_map, k) = m_cold_list[p].id
           /\ NodeAt(m_cold_list, Find(m_cold_map, k)) = m_cold_list[p]
           /\ Erase(m_cold_list, Find(m_cold_map, k)) = RemoveAt(m_cold_list, p)
    BY <1>1, <1>2, Lookup
  <1>4. PICK r, map, v :
           /\ r = RemoveAt(m_cold_list, p) /\ map = EraseKeys(m_cold_map, {k})
           /\ v = m_cold_list[p].value_size
    OBVIOUS
  <1>5. /\ m_cold_list' = r /\ m_cold_map' = map /\ m_cold_size' = (m_cold_size - v) % SizeMod
        /\ m_hot_list' = m_hot_list /\ m_hot_map' = m_hot_map /\ m_hot_size' = m_hot_size
    BY <1>3, <1>4 DEF DeleteCold, hot
  <1>6. Sound(r, map)
    BY <1>1, <1>3, <1>4, SoundRemove
  <1>7. ToSet(r) \subseteq ToSet(m_cold_list)
    BY <1>1, <1>3, <1>4, RemovedNodes
  <1>8. m_cold_size' = Sizes(r)
    <2>1. Sizes(m_cold_list) = Sizes(r) + v
      BY <1>1, <1>4, SizesRemove
    <2>2. Sizes(r) \in 0 .. SizeMod - 1
      BY <1>6, SizesFit
    <2>3. v \in Nat
      BY <1>3, <1>4, NodeTypes
    <2>4. m_cold_size - v = Sizes(r)
      BY <1>1, <2>1, <2>2, <2>3
    <2> QED
      BY <1>5, <2>2, <2>4, Remainder
  <1>9. Apart(m_hot_list, r)
    BY <1>1, <1>7 DEF Apart
  <1>10. Sound(m_hot_list, m_hot_map)' /\ (m_hot_size \in 0 .. SizeMod - 1)'
    BY <1>1, <1>5
  <1>11. Sound(m_cold_list, m_cold_map)' /\ Apart(m_hot_list, m_cold_list)' /\ (m_cold_size = Sizes(m_cold_list))'
    BY <1>5, <1>6, <1>8, <1>9
  <1> QED
    BY <1>10, <1>11 DEF LruInv

\* Every step keeps the invariant.
LEMMA LruNext == LruInv /\ RecencyInv /\ [Next]_vars => (LruInv /\ RecencyInv)'
  <1> SUFFICES ASSUME LruInv, RecencyInv, [Next]_vars PROVE LruInv' /\ RecencyInv'
    OBVIOUS
  <1>1. ASSUME NEW k \in Keys, Get(k) PROVE LruInv' /\ RecencyInv'
    BY <1>1, GetHotStep, GetColdStep DEF Get
  <1>2. ASSUME NEW k \in Keys, DeleteHot(k) PROVE LruInv' /\ RecencyInv'
    BY <1>2, DeleteHotStep
  <1>3. ASSUME m_hot_list' = m_hot_list, recency' = recency PROVE RecencyInv'
    BY <1>3 DEF RecencyInv
  <1>4. ASSUME NEW k \in Keys, DeleteCold(k) PROVE LruInv' /\ RecencyInv'
    <2>1. m_hot_list' = m_hot_list /\ recency' = recency
      BY <1>4 DEF DeleteCold, hot
    <2> QED
      BY <1>3, <1>4, <2>1, DeleteColdStep
  <1>5. ASSUME NEW k \in Keys, NEW v \in ValueSizes, Add(k, v) PROVE LruInv' /\ RecencyInv'
    <2>1. m_hot_list' = m_hot_list /\ recency' = recency
      BY <1>5 DEF Add, hot
    <2> QED
      BY <1>3, <1>5, <2>1, AddStep
  <1>6. CASE UNCHANGED vars
    <2>1. /\ m_hot_list' = m_hot_list /\ m_hot_map' = m_hot_map /\ m_hot_size' = m_hot_size
          /\ m_cold_list' = m_cold_list /\ m_cold_map' = m_cold_map /\ m_cold_size' = m_cold_size
          /\ recency' = recency
      BY <1>6 DEF vars, hot, cold
    <2>2. LruInv'
      BY <2>1 DEF LruInv
    <2> QED
      BY <1>3, <2>1, <2>2
  <1>7. CASE Next
    BY <1>1, <1>2, <1>4, <1>5, <1>7 DEF Next, Delete
  <1> QED
    BY <1>6, <1>7

\* The invariant of the cache, for any keys, sizes and limits.
LEMMA LruInvHolds == Spec => [](LruInv /\ RecencyInv)
  BY LruInit, LruNext, PTL DEF Spec

\* Of the lists and maps that the methods leave.
THEOREM MapsMatchListsHolds == Spec => []MapsMatchLists
  <1>1. ASSUME NEW list, NEW map, Sound(list, map) PROVE Indexes(map, list)
    <2>1. list \in Seq(Nodes) /\ \A i, j \in 1 .. Len(list) : list[i].key = list[j].key => i = j
      BY <1>1 DEF Sound
    <2>2. DOMAIN list = 1 .. Len(list)
      BY <2>1
    <2>3. map = {Entry(n) : n \in ToSet(list)}
      BY <1>1, Listed
    <2> QED
      BY <2>1, <2>2, <2>3 DEF Indexes
  <1>2. LruInv => MapsMatchLists
    <2> SUFFICES ASSUME LruInv PROVE MapsMatchLists
      OBVIOUS
    <2>1. Indexes(m_hot_map, m_hot_list) /\ Indexes(m_cold_map, m_cold_list)
      BY <1>1 DEF LruInv
    <2>2. {n.id : n \in ToSet(m_hot_list)} \cap {n.id : n \in ToSet(m_cold_list)} = {}
      BY DEF LruInv, Apart
    <2> QED
      BY <2>1, <2>2 DEF MapsMatchLists
  <1> QED
    BY <1>2, LruInvHolds, PTL

\* The variables of the cache have their types; no size_t is out of range.
THEOREM LruTypeOKHolds == Spec => []TypeOK
  <1>1. LruInv /\ RecencyInv => TypeOK
    <2> SUFFICES ASSUME LruInv, RecencyInv PROVE TypeOK
      OBVIOUS
    <2> HIDE DEF Nodes
    <2>1. m_hot_list \in Seq(Nodes) /\ m_cold_list \in Seq(Nodes)
      BY DEF LruInv, Sound
    <2>2. m_hot_map \subseteq Iterators /\ m_cold_map \subseteq Iterators
      BY SoundMap DEF LruInv
    <2>3. m_cold_size \in 0 .. SizeMod - 1
      BY SizesFit DEF LruInv
    <2> QED
      BY <2>1, <2>2, <2>3 DEF LruInv, RecencyInv, TypeOK
  <1> QED
    BY <1>1, LruInvHolds, PTL

\* m_cold_size is what is on the cold list.
THEOREM ColdSizeExactHolds == Spec => []ColdSizeExact
  <1>1. LruInv => ColdSizeExact
    <2> SUFFICES ASSUME LruInv PROVE ColdSizeExact
      OBVIOUS
    <2>1. Sizes(m_cold_list) % SizeMod = Sizes(m_cold_list)
      BY SizesFit, Remainder DEF LruInv
    <2> QED
      BY <2>1 DEF LruInv, ColdSizeExact
  <1> QED
    BY <1>1, LruInvHolds, PTL

\* The hot list is in the order of the latest Get of its keys.
THEOREM HotByRecencyHolds == Spec => []HotByRecency
  <1>1. LruInv /\ RecencyInv => HotByRecency
    <2> SUFFICES ASSUME LruInv, RecencyInv PROVE HotByRecency
      OBVIOUS
    <2>1. m_hot_list \in Seq(Nodes) /\ recency \in Seq(Keys) /\ Ordered(m_hot_list, recency)
      BY DEF LruInv, Sound, RecencyInv
    <2> HIDE DEF Nodes
    <2>2. DOMAIN m_hot_list = 1 .. Len(m_hot_list) /\ DOMAIN recency = 1 .. Len(recency)
      BY <2>1
    <2> QED
      BY <2>1, <2>2 DEF HotByRecency, Ordered
  <1> QED
    BY <1>1, LruInvHolds, PTL

\* Get loses no key.
THEOREM GetLosesNothingHolds == Spec => GetLosesNothing
  <1>1. LruInv /\ [Next]_vars => [(\E k \in Keys : Get(k)) => Cached' = Cached]_vars
    <2> SUFFICES ASSUME LruInv, NEW k \in Keys, Get(k) PROVE Cached' = Cached
      OBVIOUS
    <2> QED
      BY GetHotStep, GetColdStep DEF Get
  <1> QED
    BY <1>1, LruInvHolds, PTL DEF Spec, GetLosesNothing

\* Add makes room before it inserts.
THEOREM AddMakesRoomHolds == Spec => AddMakesRoom
  <1>1. LruInv /\ [Next]_vars =>
          [\A k \in Keys, n \in ValueSizes : Add(k, n) =>
             (m_cold_size' <= m_max_cold_size \/ KeysOf(m_cold_list') = {k})]_vars
    <2> SUFFICES ASSUME LruInv, NEW k \in Keys, NEW n \in ValueSizes, Add(k, n)
                 PROVE  m_cold_size' <= m_max_cold_size \/ KeysOf(m_cold_list') = {k}
      OBVIOUS
    <2> QED
      BY AddStep
  <1> QED
    BY <1>1, LruInvHolds, PTL DEF Spec, AddMakesRoom
-----------------------------------------------------------------------------
(***************************************************************************)
(* The Bloom filter.                                                       *)
(***************************************************************************)
BloomTypeOK ==
    /\ DOMAIN m_data = Filters
    /\ keys \in [Filters -> SUBSET Hashes]
    /\ probes \in [Filters -> Nat]

\* NoFalseNegative says nothing about data with too few probes, and so does
\* not survive an Attach.  This does: the bits of every key are there, as
\* many as were probed when the data was made.
Covered ==
    \A f \in Filters : \A h \in keys[f] :
        Bits(h, probes[f], m_data[f].bytes * 8) \subseteq m_data[f].ones

BloomInv == BloomTypeOK /\ Covered

\* The smaller and the larger of two numbers, as the constructor takes them
\* of 30, 1 and bitnum_perkey * 0.69314.
LEMMA MinOfTwo == ASSUME NEW a \in Int, NEW b \in Int PROVE Min({a, b}) \in Int
<1>1. \E x \in {a, b} : \A y \in {a, b} : x <= y
  BY SMT
<1>2. Min({a, b}) \in {a, b}
  BY <1>1 DEF Min
<1> QED
  BY <1>2

\* Max of two numbers is one of them, and above both.
LEMMA MaxOfTwo == ASSUME NEW a \in Int, NEW b \in Int
                  PROVE Max({a, b}) \in Int /\ Max({a, b}) >= a
<1>1. \E x \in {a, b} : \A y \in {a, b} : x >= y
  BY SMT
<1>2. Max({a, b}) \in {a, b} /\ \A y \in {a, b} : Max({a, b}) >= y
  BY <1>1 DEF Max
<1> QED
  BY <1>2

\* The constructor's number of probes is a positive integer.
LEMMA ProbesPositive == ASSUME NEW f \in Filters PROVE m_k_num(f) \in Nat \ {0}
<1> DEFINE share == (BitNum[f] * 69314) \div 100000
           atMost == Min({30, share})
<1>1. share \in Int
  BY BloomFilterAssumption
<1>2. atMost \in Int
  <2> HIDE DEF share
  <2> QED BY <1>1, MinOfTwo
<1>3. Max({1, atMost}) \in Int /\ Max({1, atMost}) >= 1
  <2> HIDE DEF atMost
  <2> QED BY <1>2, MaxOfTwo
<1>4. m_k_num(f) = Max({1, atMost})
  BY DEF m_k_num
<1> HIDE DEF atMost
<1> QED
  BY <1>3, <1>4

\* What is covered is found: Check tests no more bits than were set.
LEMMA CoveredIsFound == BloomInv => NoFalseNegative
<1> SUFFICES ASSUME BloomInv, NEW f \in Filters, m_k_num(f) <= probes[f],
                    NEW h \in keys[f], NEW j \in 0 .. m_k_num(f) - 1
             PROVE Rotated(h, j) % (m_data[f].bytes * 8) \in m_data[f].ones
  BY DEF NoFalseNegative, Check
<1>1. m_k_num(f) \in Nat /\ probes[f] \in Nat
  BY ProbesPositive DEF BloomInv, BloomTypeOK
<1>2. j \in 0 .. probes[f] - 1
  BY <1>1
<1>3. Rotated(h, j) % (m_data[f].bytes * 8) \in Bits(h, probes[f], m_data[f].bytes * 8)
  BY <1>2 DEF Bits
<1> QED
  BY <1>3 DEF BloomInv, Covered

\* Create covers its own hashes, whatever m_data held, and changes no other
\* filter.
LEMMA CreateCovers ==
    ASSUME BloomInv, NEW f \in Filters, NEW hashs \in Seq(Hashes), Create(f, hashs)
    PROVE BloomInv'
<1> DEFINE bytes == (Len(hashs) * BitNum[f] + 7) \div 8
           ones == (m_data[f].ones \cap (0 .. bytes * 8 - 1))
                      \cup UNION {Bits(h, m_k_num(f), bytes * 8) : h \in ToSet(hashs)}
<1>1. ToSet(hashs) \subseteq Hashes
  BY DEF ToSet
<1>2. m_data' = [m_data EXCEPT ![f] = [bytes |-> bytes, ones |-> ones]]
  BY DEF Create
<1>3. keys' = [keys EXCEPT ![f] = ToSet(hashs)] /\ probes' = [probes EXCEPT ![f] = m_k_num(f)]
  BY DEF Create
<1>4. \A h \in ToSet(hashs) : Bits(h, m_k_num(f), bytes * 8) \subseteq ones
  <2> HIDE DEF bytes
  <2> QED OBVIOUS
<1> HIDE DEF bytes, ones
<1>5. BloomTypeOK'
  BY <1>1, <1>2, <1>3, ProbesPositive DEF BloomInv, BloomTypeOK
<1>6. ASSUME NEW g \in Filters, NEW h \in keys'[g]
      PROVE Bits(h, probes'[g], m_data'[g].bytes * 8) \subseteq m_data'[g].ones
  <2>1. CASE g = f
    <3>1. keys'[g] = ToSet(hashs) /\ probes'[g] = m_k_num(f)
      BY <1>3, <2>1 DEF BloomInv, BloomTypeOK
    <3>2. m_data'[g].bytes = bytes /\ m_data'[g].ones = ones
      BY <1>2, <2>1 DEF BloomInv, BloomTypeOK
    <3> QED
      BY <1>4, <1>6, <3>1, <3>2
  <2>2. CASE g # f
    <3>1. keys'[g] = keys[g] /\ probes'[g] = probes[g] /\ m_data'[g] = m_data[g]
      BY <1>2, <1>3, <2>2 DEF BloomInv, BloomTypeOK
    <3> QED
      BY <1>6, <3>1 DEF BloomInv, Covered
  <2> QED
    BY <2>1, <2>2
<1>7. Covered'
  BY <1>6 DEF Covered, Bits, Rotated
<1> QED
  BY <1>5, <1>7 DEF BloomInv

\* Attach takes over the data together with what it covers.
LEMMA AttachCovers ==
    ASSUME BloomInv, NEW f \in Filters, NEW g \in Filters, Attach(f, g)
    PROVE BloomInv'
<1>1. BloomTypeOK'
  BY DEF Attach, BloomInv, BloomTypeOK
<1>2. ASSUME NEW e \in Filters
      PROVE \E d \in Filters : keys'[e] = keys[d] /\ probes'[e] = probes[d] /\ m_data'[e] = m_data[d]
  BY DEF Attach, BloomInv, BloomTypeOK
<1>3. Covered'
  BY <1>2 DEF Covered, Bits, Rotated, BloomInv
<1> QED
  BY <1>1, <1>3 DEF BloomInv

\* A step of any filter keeps every key covered.
LEMMA NextCovers == BloomInv /\ [BloomNext]_bloomVars => BloomInv'
<1> SUFFICES ASSUME BloomInv, [BloomNext]_bloomVars PROVE BloomInv'
  OBVIOUS
<1>1. ASSUME NEW f \in Filters, NEW hashs \in SeqOf(Hashes, MaxCount), Create(f, hashs)
      PROVE BloomInv'
  <2>1. hashs \in Seq(Hashes)
    BY BloomFilterAssumption DEF SeqOf
  <2> QED
    BY <1>1, <2>1, CreateCovers
<1>2. ASSUME NEW f \in Filters, NEW g \in Filters, Attach(f, g) PROVE BloomInv'
  BY <1>2, AttachCovers
<1>3. CASE UNCHANGED bloomVars
  BY <1>3 DEF bloomVars, BloomInv, BloomTypeOK, Covered, Bits, Rotated
<1> QED
  BY <1>1, <1>2, <1>3 DEF BloomNext

\* No false negative, for any number of filters, bits per key, hashes and
\* keys (Create, Attach and Check of bloom_filter.cpp).
THEOREM NoFalseNegativeHolds == BloomSpec => []NoFalseNegative
<1>1. BloomInit => BloomInv
  BY DEF BloomInit, BloomInv, BloomTypeOK, Covered
<1>2. BloomInv /\ [BloomNext]_bloomVars => BloomInv'
  BY NextCovers
<1> QED
  BY <1>1, <1>2, CoveredIsFound, PTL DEF BloomSpec
=============================================================================
