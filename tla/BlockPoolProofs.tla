--------------------------- MODULE BlockPoolProofs ---------------------------
(***************************************************************************)
(* What the users of a BlockPool rely on, for any block size, any cache    *)
(* and any heap.  "Lent" are the blocks that are out of the pool.  Alloc   *)
(* lends a block that was not lent; Free of a lent block takes back that   *)
(* block and no other one.  Before it, what the proofs of these users need *)
(* to know of sequences.                                                   *)
(***************************************************************************)
EXTENDS BlockPool, Totals, TLAPS, WellFoundedInduction

-----------------------------------------------------------------------------
(***************************************************************************)
(* The places of a sequence after an element was taken or put at an end.   *)
(***************************************************************************)
\* Pop of a queue or deque, from the front.
LEMMA TailPlaces ==
    ASSUME NEW S, NEW s \in Seq(S), s # <<>>
    PROVE  /\ Tail(s) \in Seq(S) /\ Len(s) \in Nat /\ Len(s) > 0 /\ Len(Tail(s)) = Len(s) - 1
           /\ 1 \in DOMAIN s /\ Head(s) = s[1] /\ Head(s) \in S
           /\ \A k \in DOMAIN Tail(s) :
                k \in Nat /\ k > 0 /\ k + 1 \in DOMAIN s /\ Tail(s)[k] = s[k + 1]
           /\ \A k \in DOMAIN s : k # 1 => k - 1 \in DOMAIN Tail(s) /\ Tail(s)[k - 1] = s[k]
  OBVIOUS

\* Push to the back.
LEMMA AppendPlaces ==
    ASSUME NEW S, NEW s \in Seq(S), NEW e \in S
    PROVE  /\ Append(s, e) \in Seq(S) /\ Len(s) \in Nat /\ Len(Append(s, e)) = Len(s) + 1
           /\ Len(s) + 1 \in DOMAIN Append(s, e) /\ Append(s, e)[Len(s) + 1] = e
           /\ \A k \in DOMAIN s : k \in DOMAIN Append(s, e) /\ k # Len(s) + 1 /\ Append(s, e)[k] = s[k]
           /\ \A k \in DOMAIN Append(s, e) :
                /\ k \in Nat /\ k > 0 /\ k <= Len(s) + 1
                /\ k # Len(s) + 1 => k \in DOMAIN s /\ Append(s, e)[k] = s[k]
  OBVIOUS

\* Push to the front.
LEMMA FrontPlaces ==
    ASSUME NEW S, NEW s \in Seq(S), NEW e \in S
    PROVE  /\ <<e>> \o s \in Seq(S)
           /\ 1 \in DOMAIN (<<e>> \o s) /\ (<<e>> \o s)[1] = e
           /\ \A k \in DOMAIN s : k + 1 \in DOMAIN (<<e>> \o s) /\ (<<e>> \o s)[k + 1] = s[k]
           /\ \A k \in DOMAIN (<<e>> \o s) :
                /\ k \in Nat /\ k > 0
                /\ k # 1 => k - 1 \in DOMAIN s /\ (<<e>> \o s)[k] = s[k - 1]
  <1>1. <<e>> \in Seq(S) /\ Len(<<e>>) = 1 /\ <<e>>[1] = e
    OBVIOUS
  <1>2. Len(s) \in Nat /\ DOMAIN s = 1 .. Len(s)
    OBVIOUS
  <1>3. <<e>> \o s \in Seq(S) /\ Len(<<e>> \o s) = 1 + Len(s)
    BY <1>1
  <1>4. DOMAIN (<<e>> \o s) = 1 .. Len(s) + 1
    BY <1>2, <1>3
  <1>5. (<<e>> \o s)[1] = e
    BY <1>1, <1>2
  <1>6. \A k \in 2 .. Len(s) + 1 : (<<e>> \o s)[k] = s[k - 1]
    BY <1>1, <1>2
  <1> QED
    BY <1>2, <1>3, <1>4, <1>5, <1>6

\* The places of two sequences, one behind the other.
LEMMA ConcatPlaces ==
    ASSUME NEW S, NEW a \in Seq(S), NEW b \in Seq(S)
    PROVE  /\ Len(a) \in Nat /\ Len(b) \in Nat
           /\ a \o b \in Seq(S) /\ Len(a \o b) = Len(a) + Len(b)
           /\ DOMAIN a = 1 .. Len(a) /\ DOMAIN b = 1 .. Len(b)
           /\ DOMAIN (a \o b) = 1 .. Len(a) + Len(b)
           /\ \A i \in 1 .. Len(a) + Len(b) : (a \o b)[i] = IF i <= Len(a) THEN a[i] ELSE b[i - Len(a)]
  OBVIOUS

\* Sequences of the same length with the same elements.
LEMMA SeqsEqual ==
    ASSUME NEW S, NEW a \in Seq(S), NEW b \in Seq(S), Len(a) = Len(b),
           \A i \in 1 .. Len(a) : a[i] = b[i]
    PROVE  a = b
  OBVIOUS

-----------------------------------------------------------------------------
(***************************************************************************)
(* Induction over a sequence, as the least index where a fact fails.       *)
(***************************************************************************)
NatOrder == {p \in Nat \X Nat : p[1] < p[2]}

\* A set of natural numbers with an element has a least one.
LEMMA LeastNat ==
    ASSUME NEW S \in SUBSET Nat, S # {}
    PROVE  \E n \in S : \A m \in S : n <= m
  <1>1. IsWellFoundedOn(NatOrder, Nat)
    BY NatLessThanWellFounded, Zenon DEF OpToRel, NatOrder
  <1>2. PICK x \in S : \A y \in S : ~ (<<y, x>> \in NatOrder)
    <2>1. \E x \in S : \A y \in S : ~ (<<y, x>> \in NatOrder)
      BY <1>1, WFMin
    <2> QED
      BY <2>1
  <1>3. \A y \in S : <<y, x>> \in Nat \X Nat /\ <<y, x>>[1] = y /\ <<y, x>>[2] = x
    OBVIOUS
  <1>4. \A y \in S : ~ (y < x)
    BY <1>2, <1>3 DEF NatOrder
  <1> QED
    BY <1>4

\* f starts at base and goes on by step, up to n.
Steps(f, base, step, n) == f[0] = base /\ \A i \in 1 .. n : f[i] = step[<<i, f[i - 1]>>]

\* Every recursion over 0 .. n has a solution.
LEMMA StepsExist ==
    ASSUME NEW V, NEW base \in V, NEW n \in Nat, NEW step \in [(1 .. n) \X V -> V]
    PROVE  \E f \in [0 .. n -> V] : Steps(f, base, step, n)
  <1> DEFINE Good(m) == \E f \in [0 .. m -> V] : Steps(f, base, step, m)
             Bad == {m \in 0 .. n : ~Good(m)}
  <1> SUFFICES ASSUME Bad # {} PROVE FALSE
    <2>1. n \in 0 .. n
      OBVIOUS
    <2> HIDE DEF Good
    <2>2. n \notin Bad => Good(n)
      BY <2>1
    <2>3. Good(n) => \E f \in [0 .. n -> V] : Steps(f, base, step, n)
      BY DEF Good
    <2> QED
      BY <2>2, <2>3
  <1>1. PICK m \in Bad : \A k \in Bad : m <= k
    <2>1. Bad \in SUBSET Nat
      OBVIOUS
    <2> HIDE DEF Bad
    <2> QED
      BY <2>1, LeastNat
  <1>2. m # 0
    <2>1. /\ [i \in 0 .. 0 |-> base] \in [0 .. 0 -> V]
          /\ Steps([i \in 0 .. 0 |-> base], base, step, 0)
      BY DEF Steps
    <2>2. Good(0)
      BY <2>1
    <2> QED
      BY <2>2
  <1>3. m \in 1 .. n /\ m - 1 \in 0 .. n /\ m - 1 \notin Bad
    BY <1>1, <1>2
  <1>4. PICK f \in [0 .. m - 1 -> V] : Steps(f, base, step, m - 1)
    BY <1>3
  <1> DEFINE g == [i \in 0 .. m |-> IF i = m THEN step[<<m, f[m - 1]>>] ELSE f[i]]
  <1>5. f[m - 1] \in V /\ step[<<m, f[m - 1]>>] \in V
    BY <1>3, <1>4
  <1>6. g \in [0 .. m -> V]
    BY <1>3, <1>5
  <1>7. Steps(g, base, step, m)
    <2>1. g[0] = base
      BY <1>3, <1>4 DEF Steps
    <2>2. g[m] = step[<<m, g[m - 1]>>]
      <3>1. m \in 0 .. m /\ m - 1 \in 0 .. m /\ m - 1 # m
        BY <1>3
      <3>2. g[m] = step[<<m, f[m - 1]>>] /\ g[m - 1] = f[m - 1]
        BY <3>1
      <3> HIDE DEF g
      <3> QED
        BY <3>2
    <2>3. \A i \in 1 .. m - 1 : g[i] = step[<<i, g[i - 1]>>]
      BY <1>3, <1>4 DEF Steps
    <2>4. \A i \in 1 .. m : i = m \/ i \in 1 .. m - 1
      BY <1>3
    <2> HIDE DEF g
    <2> QED
      BY <2>1, <2>2, <2>3, <2>4 DEF Steps
  <1>8. Good(m)
    <2> HIDE DEF g
    <2> QED
      BY <1>6, <1>7
  <1> QED
    BY <1>8

-----------------------------------------------------------------------------
(***************************************************************************)
(* The sum of a sequence of numbers.                                       *)
(***************************************************************************)
\* The partial sums u of s.
Sums(u, s) == u[0] = 0 /\ \A i \in 1 .. Len(s) : u[i] = u[i - 1] + s[i]

\* Partial sums exist.
LEMMA SumsExist ==
    ASSUME NEW s \in Seq(Nat)
    PROVE  \E u \in [0 .. Len(s) -> Nat] : Sums(u, s)
  <1> DEFINE step == [p \in (1 .. Len(s)) \X Nat |-> p[2] + s[p[1]]]
  <1>1. Len(s) \in Nat /\ step \in [(1 .. Len(s)) \X Nat -> Nat]
    OBVIOUS
  <1>2. \A i \in 1 .. Len(s), v \in Nat : step[<<i, v>>] = v + s[i]
    OBVIOUS
  <1> HIDE DEF step
  <1>3. PICK u \in [0 .. Len(s) -> Nat] : Steps(u, 0, step, Len(s))
    <2>1. 0 \in Nat
      OBVIOUS
    <2>2. \E u \in [0 .. Len(s) -> Nat] : Steps(u, 0, step, Len(s))
      BY <1>1, <2>1, StepsExist
    <2> QED
      BY <2>2
  <1>4. \A i \in 1 .. Len(s) : i - 1 \in 0 .. Len(s) /\ u[i - 1] \in Nat
    <2>1. \A i \in 1 .. Len(s) : i - 1 \in 0 .. Len(s)
      BY <1>1
    <2>2. \A i \in 0 .. Len(s) : u[i] \in Nat
      OBVIOUS
    <2> QED
      BY <2>1, <2>2
  <1>5. \A i \in 1 .. Len(s) : u[i] = u[i - 1] + s[i]
    BY <1>2, <1>3, <1>4 DEF Steps
  <1>6. u[0] = 0
    BY <1>3 DEF Steps
  <1> QED
    BY <1>5, <1>6 DEF Sums

\* Two functions that add up the same numbers are equal.
LEMMA SumsUnique ==
    ASSUME NEW s \in Seq(Nat), NEW u, NEW v, Sums(u, s), Sums(v, s)
    PROVE  \A i \in 0 .. Len(s) : u[i] = v[i]
  <1> DEFINE Bad == {i \in 0 .. Len(s) : u[i] # v[i]}
  <1> SUFFICES ASSUME Bad # {} PROVE FALSE
    OBVIOUS
  <1>1. PICK i \in Bad : \A j \in Bad : i <= j
    <2>1. Bad \in SUBSET Nat
      OBVIOUS
    <2> HIDE DEF Bad
    <2> QED
      BY <2>1, LeastNat
  <1>2. i # 0
    BY DEF Sums
  <1>3. i \in 1 .. Len(s) /\ i - 1 \in 0 .. Len(s) /\ i - 1 \notin Bad
    BY <1>1, <1>2
  <1> QED
    BY <1>1, <1>3 DEF Sums

\* Total is the last partial sum, whichever way the partial sums are found.
LEMMA TotalIsSum ==
    ASSUME NEW s \in Seq(Nat), NEW u, Sums(u, s)
    PROVE  Total(s) = u[Len(s)] /\ Total(s) \in Nat
  <1> DEFINE U == CHOOSE f : f = [i \in 0 .. Len(s) |-> IF i = 0 THEN 0 ELSE f[i - 1] + s[i]]
  <1>1. Total(s) = U[Len(s)]
    BY DEF Total
  <1>2. PICK w \in [0 .. Len(s) -> Nat] : Sums(w, s)
    BY SumsExist
  <1>3. w = [i \in 0 .. Len(s) |-> IF i = 0 THEN 0 ELSE w[i - 1] + s[i]]
    BY <1>2 DEF Sums
  <1>4. U = [i \in 0 .. Len(s) |-> IF i = 0 THEN 0 ELSE U[i - 1] + s[i]]
    BY <1>3, Zenon
  <1> HIDE DEF U
  <1>5. Len(s) \in Nat /\ Len(s) \in 0 .. Len(s)
    OBVIOUS
  <1>6. Sums(U, s)
    BY <1>4, <1>5 DEF Sums
  <1>7. U[Len(s)] = w[Len(s)] /\ u[Len(s)] = w[Len(s)]
    BY <1>2, <1>5, <1>6, SumsUnique
  <1> QED
    BY <1>1, <1>2, <1>5, <1>7

\* The total of nothing, of one number and of two sequences.
LEMMA TotalConcat ==
    /\ Total(<<>>) = 0
    /\ \A x \in Nat : Total(<<x>>) = x
    /\ \A s, t \in Seq(Nat) : Total(s) \in Nat /\ Total(s \o t) = Total(s) + Total(t)
  <1>1. Total(<<>>) = 0
    <2>1. <<>> \in Seq(Nat) /\ Len(<<>>) = 0 /\ Sums([i \in 0 .. 0 |-> 0], <<>>)
      BY DEF Sums
    <2>2. Total(<<>>) = [i \in 0 .. 0 |-> 0][0]
      BY <2>1, TotalIsSum
    <2> QED
      BY <2>2
  <1>2. ASSUME NEW x \in Nat
        PROVE  Total(<<x>>) = x
    <2> DEFINE u == [i \in 0 .. 1 |-> IF i = 0 THEN 0 ELSE x]
    <2>1. <<x>> \in Seq(Nat) /\ Len(<<x>>) = 1 /\ Sums(u, <<x>>) /\ u[1] = x
      BY DEF Sums
    <2> HIDE DEF u
    <2> QED
      BY <2>1, TotalIsSum
  <1>3. ASSUME NEW s \in Seq(Nat), NEW t \in Seq(Nat)
        PROVE  Total(s) \in Nat /\ Total(s \o t) = Total(s) + Total(t)
    <2>1. PICK u \in [0 .. Len(s) -> Nat] : Sums(u, s)
      BY SumsExist
    <2>2. PICK v \in [0 .. Len(t) -> Nat] : Sums(v, t)
      BY SumsExist
    <2> DEFINE m == Len(s)
               n == Len(t)
               w == [i \in 0 .. m + n |-> IF i <= m THEN u[i] ELSE u[m] + v[i - m]]
    <2>3. m \in Nat /\ n \in Nat /\ s \o t \in Seq(Nat) /\ Len(s \o t) = m + n
      OBVIOUS
    <2>4. \A i \in 1 .. m + n : (s \o t)[i] = IF i <= m THEN s[i] ELSE t[i - m]
      OBVIOUS
    <2>5. /\ \A i \in 1 .. m : s[i] \in Nat
          /\ \A i \in 1 .. n : t[i] \in Nat
          /\ \A i \in 0 .. m : u[i] \in Nat
          /\ \A i \in 0 .. n : v[i] \in Nat
      <3>1. /\ \A i \in 1 .. Len(s) : s[i] \in Nat
            /\ \A i \in 1 .. Len(t) : t[i] \in Nat
        OBVIOUS
      <3>2. \A i \in 0 .. Len(s) : u[i] \in Nat
        OBVIOUS
      <3>3. \A i \in 0 .. Len(t) : v[i] \in Nat
        OBVIOUS
      <3> QED
        BY <3>1, <3>2, <3>3
    <2>6. /\ u[0] = 0 /\ \A i \in 1 .. m : u[i] = u[i - 1] + s[i]
          /\ v[0] = 0 /\ \A i \in 1 .. n : v[i] = v[i - 1] + t[i]
      BY <2>1, <2>2 DEF Sums
    <2> HIDE DEF m, n
    <2>7. ASSUME NEW i \in 1 .. m + n
          PROVE  w[i] = w[i - 1] + (s \o t)[i]
      <3>1. CASE i <= m
        BY <2>3, <2>4, <2>6, <3>1
      <3>2. CASE i > m
        <4>1. i - m \in 1 .. n /\ i - m - 1 \in 0 .. n /\ (i - 1) - m = (i - m) - 1 /\ m \in 0 .. m
          BY <2>3, <3>2
        <4>2. w[i] = u[m] + v[i - m] /\ (s \o t)[i] = t[i - m]
          BY <2>3, <2>4, <3>2
        <4>3. w[i - 1] = u[m] + v[i - m - 1]
          <5>1. CASE i - 1 = m
            BY <2>3, <2>5, <2>6, <5>1
          <5>2. CASE i - 1 > m
            BY <2>3, <5>2
          <5> QED
            BY <2>3, <3>2, <5>1, <5>2
        <4>4. v[i - m] = v[i - m - 1] + t[i - m]
          BY <2>6, <4>1
        <4> HIDE DEF w
        <4>5. u[m] \in Nat /\ v[i - m - 1] \in Nat /\ t[i - m] \in Nat
          BY <2>5, <4>1
        <4>6. u[m] + (v[i - m - 1] + t[i - m]) = (u[m] + v[i - m - 1]) + t[i - m]
          BY <4>5
        <4> QED
          BY <4>2, <4>3, <4>4, <4>6
      <3> QED
        BY <2>3, <3>1, <3>2
    <2>8. w[0] = 0 /\ w[m + n] = u[m] + v[n]
      <3>1. CASE n = 0
        BY <2>3, <2>5, <2>6, <3>1
      <3>2. CASE n > 0
        <4>1. (m + n) - m = n
          BY <2>3
        <4> QED
          BY <2>3, <2>6, <3>2, <4>1
      <3> QED
        BY <2>3, <3>1, <3>2
    <2> HIDE DEF w
    <2>9. Sums(w, s \o t)
      BY <2>3, <2>7, <2>8 DEF Sums
    <2>10. Total(s \o t) = w[m + n] /\ Total(s) = u[m] /\ Total(t) = v[n] /\ Total(s) \in Nat
      BY <2>1, <2>2, <2>3, <2>9, TotalIsSum DEF m, n
    <2> QED
      BY <2>8, <2>10
  <1> QED
    BY <1>1, <1>2, <1>3

\* The total of ones is their number.
LEMMA TotalOnes ==
    ASSUME NEW s \in Seq(Nat), \A i \in 1 .. Len(s) : s[i] = 1
    PROVE  Total(s) = Len(s)
  <1> DEFINE u == [i \in 0 .. Len(s) |-> i]
  <1>1. Len(s) \in Nat /\ Sums(u, s) /\ u[Len(s)] = Len(s)
    BY DEF Sums
  <1> HIDE DEF u
  <1> QED
    BY <1>1, TotalIsSum

-----------------------------------------------------------------------------
(***************************************************************************)
(* Addresses.                                                              *)
(***************************************************************************)
\* The address of each cached block.
CachedAt(i) == CacheStart + i * BlockSize

\* The cached blocks are those addresses.
LEMMA CachedIndex ==
    /\ \A b \in CachedBlocks : \E i \in 0 .. BlockCacheNum - 1 : b = CachedAt(i)
    /\ \A i \in 0 .. BlockCacheNum - 1 : CachedAt(i) \in CachedBlocks
  BY Zenon DEF CachedBlocks, CachedAt

\* The cached blocks lie side by side.
LEMMA CachedOrder ==
    /\ \A i \in 0 .. BlockCacheNum - 1 :
         /\ CachedAt(i) \in Nat /\ CachedAt(i) >= CacheStart
         /\ CachedAt(i) + BlockSize <= CacheEnd
    /\ \A i, j \in 0 .. BlockCacheNum - 1 : i < j => CachedAt(i) + BlockSize <= CachedAt(j)
  <1> USE BlockPoolAssumption
  <1>1. ASSUME NEW i \in Nat, NEW j \in Nat, i < j
        PROVE  i * BlockSize \in Nat /\ i * BlockSize + BlockSize <= j * BlockSize
    <2>1. j - (i + 1) \in Nat /\ i * BlockSize \in Nat
      BY <1>1
    <2>2. (j - (i + 1)) * BlockSize \in Nat
      BY <2>1
    <2>3. (j - (i + 1)) * BlockSize = j * BlockSize - (i * BlockSize + BlockSize)
      OBVIOUS
    <2> QED
      BY <2>1, <2>2, <2>3
  <1>2. ASSUME NEW i \in 0 .. BlockCacheNum - 1
        PROVE  /\ CachedAt(i) \in Nat /\ CachedAt(i) >= CacheStart
               /\ CachedAt(i) + BlockSize <= CacheEnd
    <2>1. i \in Nat /\ i < BlockCacheNum
      OBVIOUS
    <2>2. i * BlockSize \in Nat /\ i * BlockSize + BlockSize <= BlockCacheNum * BlockSize
      BY <1>1, <2>1
    <2>3. BlockCacheNum * BlockSize = BlockSize * BlockCacheNum
      OBVIOUS
    <2> QED
      BY <2>2, <2>3 DEF CachedAt, CacheEnd
  <1>3. ASSUME NEW i \in 0 .. BlockCacheNum - 1, NEW j \in 0 .. BlockCacheNum - 1, i < j
        PROVE  CachedAt(i) + BlockSize <= CachedAt(j)
    <2>1. i * BlockSize \in Nat /\ i * BlockSize + BlockSize <= j * BlockSize
      BY <1>1, <1>3
    <2>2. j * BlockSize \in Int
      OBVIOUS
    <2> QED
      BY <2>1, <2>2 DEF CachedAt
  <1> QED
    BY <1>2, <1>3

\* The cached blocks lie in the cache and nowhere else, and no block is at the null address.
LEMMA BlockAddresses ==
    /\ CachedBlocks \subseteq Nat \ {0} /\ HeapBlocks \subseteq Nat \ {0}
    /\ \A b \in CachedBlocks : b >= CacheStart /\ b + BlockSize <= CacheEnd
    /\ \A b \in CachedBlocks : FromCache(b)
    /\ \A b \in HeapBlocks : ~FromCache(b)
    /\ CachedBlocks \cap HeapBlocks = {}
  <1>0. /\ BlockSize \in Nat /\ BlockSize > 0 /\ CacheStart \in Nat \ {0} /\ BlockCacheNum \in Nat
        /\ HeapBlocks \subseteq Nat \ {0}
        /\ \A b \in HeapBlocks : b + BlockSize <= CacheStart \/ b >= CacheEnd
    BY BlockPoolAssumption
  <1>1. CacheEnd \in Nat
    BY <1>0 DEF CacheEnd
  <1>2. ASSUME NEW b \in CachedBlocks
        PROVE  b \in Nat \ {0} /\ b >= CacheStart /\ b + BlockSize <= CacheEnd
    BY <1>0, CachedIndex, CachedOrder
  <1>3. \A b \in CachedBlocks : FromCache(b)
    BY <1>0, <1>1, <1>2 DEF FromCache
  <1>4. \A b \in HeapBlocks : ~FromCache(b)
    BY <1>0, <1>1 DEF FromCache
  <1> QED
    BY <1>0, <1>2, <1>3, <1>4

\* Two blocks do not overlap.
LEMMA BlocksApart ==
    ASSUME NEW b \in Blocks, NEW c \in Blocks, b < c
    PROVE  b + BlockSize <= c
  <1>0. /\ BlockSize \in Nat /\ BlockSize > 0 /\ CacheStart \in Nat
        /\ \A x \in HeapBlocks : x + BlockSize <= CacheStart \/ x >= CacheEnd
        /\ \A x, y \in HeapBlocks : x < y => x + BlockSize <= y
    BY BlockPoolAssumption
  <1>z. CacheEnd \in Nat
    BY BlockPoolAssumption DEF CacheEnd
  <1>1. CASE b \in CachedBlocks /\ c \in CachedBlocks
    <2>1. PICK i \in 0 .. BlockCacheNum - 1 : b = CachedAt(i)
      BY <1>1, CachedIndex
    <2>2. PICK j \in 0 .. BlockCacheNum - 1 : c = CachedAt(j)
      BY <1>1, CachedIndex
    <2>3. i < j
      BY <1>0, <2>1, <2>2, CachedOrder, BlockPoolAssumption
    <2> QED
      BY <2>1, <2>2, <2>3, CachedOrder
  <1>2. CASE b \in HeapBlocks /\ c \in HeapBlocks
    BY <1>0, <1>2
  <1>3. CASE b \in CachedBlocks /\ c \in HeapBlocks
    BY <1>0, <1>z, <1>3, BlockAddresses
  <1>4. CASE b \in HeapBlocks /\ c \in CachedBlocks
    BY <1>0, <1>z, <1>4, BlockAddresses
  <1> QED
    BY <1>1, <1>2, <1>3, <1>4 DEF Blocks

-----------------------------------------------------------------------------
(***************************************************************************)
(* The pool and its users.  "cached" are the blocks that Init has made:    *)
(* all of CachedBlocks, or none before Init.                               *)
(***************************************************************************)
PoolSound(cached) ==
    /\ m_free_blocks \in Seq(cached) /\ IsInjective(m_free_blocks)
    /\ heap \subseteq HeapBlocks
Lent(cached) == (cached \cup heap) \ ToSet(m_free_blocks)

\* The loop of Init makes each cached block once.
LEMMA CacheBlocksSound ==
    CacheBlocks \in Seq(CachedBlocks) /\ IsInjective(CacheBlocks) /\ ToSet(CacheBlocks) = CachedBlocks
  <1>0. BlockCacheNum \in Nat /\ BlockSize \in Nat /\ BlockSize > 0
    BY BlockPoolAssumption
  <1>1. CacheBlocks = [i \in 1 .. BlockCacheNum |-> CachedAt(i - 1)]
    BY Zenon DEF CacheBlocks, CachedAt
  <1>2. \A i \in 1 .. BlockCacheNum : i - 1 \in 0 .. BlockCacheNum - 1
    BY <1>0
  <1>3. \A i \in 0 .. BlockCacheNum - 1 : i + 1 \in 1 .. BlockCacheNum /\ (i + 1) - 1 = i
    BY <1>0
  <1>4. CacheBlocks \in [1 .. BlockCacheNum -> CachedBlocks]
    BY <1>1, <1>2, CachedIndex
  <1>5. CacheBlocks \in Seq(CachedBlocks) /\ DOMAIN CacheBlocks = 1 .. BlockCacheNum
    BY <1>0, <1>4
  <1>6. \A i, j \in 1 .. BlockCacheNum : CacheBlocks[i] = CacheBlocks[j] => i = j
    <2> SUFFICES ASSUME NEW i \in 1 .. BlockCacheNum, NEW j \in 1 .. BlockCacheNum, i < j
                 PROVE  CacheBlocks[i] # CacheBlocks[j]
      BY <1>0
    <2>1. CachedAt(i - 1) + BlockSize <= CachedAt(j - 1) /\ CachedAt(i - 1) \in Nat
      BY <1>0, <1>2, CachedOrder
    <2> QED
      BY <1>0, <1>1, <2>1
  <1>7. CachedBlocks \subseteq ToSet(CacheBlocks)
    BY <1>1, <1>3, <1>5, CachedIndex DEF ToSet
  <1>8. ToSet(CacheBlocks) \subseteq CachedBlocks
    BY <1>4, <1>5 DEF ToSet
  <1> QED
    BY <1>5, <1>6, <1>7, <1>8 DEF IsInjective

\* Alloc: a block that nobody has.
LEMMA AllocLends ==
    ASSUME NEW cached \in {{}, CachedBlocks}, PoolSound(cached), NEW b,
           AllocCached(b) \/ AllocHeap(b)
    PROVE  /\ PoolSound(cached)' /\ b \in Blocks /\ b # 0
           /\ b \notin Lent(cached) /\ Lent(cached)' = Lent(cached) \cup {b}
  <1> USE BlockAddresses DEF PoolSound
  <1>1. CASE AllocCached(b)
    <2>1. m_free_blocks # <<>> /\ b = m_free_blocks[1] /\ m_free_blocks' = Tail(m_free_blocks) /\ heap' = heap
      BY <1>1, TailPlaces DEF AllocCached
    <2>2. b \in cached /\ b \in ToSet(m_free_blocks)
      BY <2>1, TailPlaces DEF ToSet
    <2>3. m_free_blocks' \in Seq(cached) /\ IsInjective(m_free_blocks')
      BY <2>1, TailPlaces DEF IsInjective
    <2>4. ToSet(m_free_blocks') = ToSet(m_free_blocks) \ {b}
      <3>1. ToSet(m_free_blocks') \subseteq ToSet(m_free_blocks) \ {b}
        <4> SUFFICES ASSUME NEW k \in DOMAIN m_free_blocks'
                     PROVE  m_free_blocks'[k] \in ToSet(m_free_blocks) \ {b}
          BY DEF ToSet
        <4>1. k \in Nat /\ k > 0 /\ k + 1 \in DOMAIN m_free_blocks /\ m_free_blocks'[k] = m_free_blocks[k + 1]
          BY <2>1, TailPlaces
        <4>2. m_free_blocks[k + 1] # m_free_blocks[1]
          BY <2>1, <4>1, TailPlaces DEF IsInjective
        <4> QED
          BY <2>1, <4>1, <4>2 DEF ToSet
      <3>2. ToSet(m_free_blocks) \ {b} \subseteq ToSet(m_free_blocks')
        <4> SUFFICES ASSUME NEW k \in DOMAIN m_free_blocks, m_free_blocks[k] # b
                     PROVE  m_free_blocks[k] \in ToSet(m_free_blocks')
          BY DEF ToSet
        <4>1. k # 1
          BY <2>1
        <4>2. k - 1 \in DOMAIN m_free_blocks' /\ m_free_blocks'[k - 1] = m_free_blocks[k]
          BY <2>1, <4>1, TailPlaces
        <4> QED
          BY <4>2 DEF ToSet
      <3> QED
        BY <3>1, <3>2
    <2> QED
      BY <2>1, <2>2, <2>3, <2>4 DEF Lent, Blocks
  <1>2. CASE AllocHeap(b)
    <2>1. b \in HeapBlocks \ heap /\ heap' = heap \cup {b} /\ m_free_blocks' = m_free_blocks
      BY <1>2 DEF AllocHeap
    <2>2. ToSet(m_free_blocks) \subseteq cached
      BY DEF ToSet
    <2> QED
      BY <2>1, <2>2 DEF Lent, Blocks
  <1> QED
    BY <1>1, <1>2

\* Free: a lent block comes back, to the deque or to the heap, wherever it came from.
LEMMA FreeTakesBack ==
    ASSUME NEW cached \in {{}, CachedBlocks}, PoolSound(cached), NEW b \in Lent(cached), FreeBlock(b)
    PROVE  PoolSound(cached)' /\ Lent(cached)' = Lent(cached) \ {b}
  <1> USE BlockAddresses DEF PoolSound
  <1>0. b \notin ToSet(m_free_blocks) /\ ToSet(m_free_blocks) \subseteq cached
    BY DEF Lent, ToSet
  <1>1. CASE FromCache(b)
    <2>1. b \in cached /\ b \notin heap
      BY <1>1 DEF Lent
    <2>2. m_free_blocks' = <<b>> \o m_free_blocks /\ heap' = heap
      BY <1>1 DEF FreeBlock
    <2>3. m_free_blocks' \in Seq(cached)
      BY <2>1, <2>2, FrontPlaces
    <2>4. \A k \in DOMAIN m_free_blocks : m_free_blocks[k] # b
      BY <1>0 DEF ToSet
    <2>5. IsInjective(m_free_blocks')
      BY <2>1, <2>2, <2>4, FrontPlaces DEF IsInjective
    <2>6. ToSet(m_free_blocks') = ToSet(m_free_blocks) \cup {b}
      <3>1. ToSet(m_free_blocks') \subseteq ToSet(m_free_blocks) \cup {b}
        BY <2>1, <2>2, FrontPlaces DEF ToSet
      <3>2. b \in ToSet(m_free_blocks')
        BY <2>1, <2>2, FrontPlaces DEF ToSet
      <3>3. ASSUME NEW k \in DOMAIN m_free_blocks PROVE m_free_blocks[k] \in ToSet(m_free_blocks')
        <4>1. k + 1 \in DOMAIN m_free_blocks' /\ m_free_blocks'[k + 1] = m_free_blocks[k]
          BY <2>1, <2>2, FrontPlaces
        <4> QED
          BY <4>1 DEF ToSet
      <3>4. ToSet(m_free_blocks) \subseteq ToSet(m_free_blocks')
        BY <3>3 DEF ToSet
      <3> QED
        BY <3>1, <3>2, <3>4
    <2> QED
      BY <2>1, <2>2, <2>3, <2>5, <2>6 DEF Lent
  <1>2. CASE ~FromCache(b)
    <2>1. heap' = heap \ {b} /\ m_free_blocks' = m_free_blocks /\ b \notin CachedBlocks
      BY <1>2 DEF FreeBlock
    <2> QED
      BY <2>1 DEF Lent
  <1> QED
    BY <1>1, <1>2
=============================================================================
