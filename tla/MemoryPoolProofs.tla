-------------------------- MODULE MemoryPoolProofs --------------------------
(***************************************************************************)
(* The memory pool for any threads, blocks, element size and cache:        *)
(* every block is in one place (BlocksConserved), an element in use is one *)
(* that nobody else gets and whose block Free finds (LiveElementsSafe),    *)
(* the counters are exact (CountsExact), no empty block stays              *)
(* (EmptyBlocksReturned), and each block of the pool is on one of the two  *)
(* lists, once (ListsExact).                                               *)
(*                                                                         *)
(* These need one another: Free returns a block when its counter says that *)
(* it is empty, and a block that was returned too early takes its elements *)
(* with it.  The inductive invariant has four layers: where the blocks are *)
(* (Places, on top of what BlockPool promises); what each block has        *)
(* carved, freed and counted (Elements); the two lists, as a set of nodes  *)
(* that is closed under their pointers and leaves out only full blocks     *)
(* (Links); and the counters (Counted), which are exact if a block of the  *)
(* BlockPool has room for an element (Roomy): without room, Alloc adds a   *)
(* block, counts an element and returns nullptr.                           *)
(*                                                                         *)
(* On top of it, Chained says that there is no ring of blocks besides the  *)
(* two lists: any nodes that are closed under the forward pointers include *)
(* the start of a list.  A walk along the nodes of a list then comes back  *)
(* to its start before it meets a node twice, because there are finitely   *)
(* many and no two have the same successor; and the nodes that neither     *)
(* walk meets would be closed without a start, so there are none.          *)
(***************************************************************************)
EXTENDS MemoryPool, BlockPoolProofs, FiniteSetTheorems

-----------------------------------------------------------------------------
(***************************************************************************)
(* One block.                                                              *)
(***************************************************************************)
\* The size of k elements; elements are counted from the end of their block.
Span(k) == k * m_element_size
OnGrid(x) == \E k \in Nat : x = Span(k)

SizeOf(b) == IF b = PoolStart THEN total_size ELSE BlockSize
MaxOf(b) == ((SizeOf(b) - HeadSize) \div m_element_size) % U16
In(b, e) == b <= e /\ e < b + SizeOf(b)

HeadState ==
    [block_size : Nat, max_element_num : Nat, element_used_cnt : Nat,
     next_element_offset : Nat, free : Seq(Nat)]

\* e is an element that block b has carved.
Carved(b, h, e) ==
    /\ e \in Nat /\ b + HeadSize <= e /\ e < b + h.next_element_offset
    /\ OnGrid(b + SizeOf(b) - e)

\* n elements are not carved yet; the others are in use or on the chain.
Uncarved(b, h, n) ==
    /\ h.next_element_offset = SizeOf(b) - Span(n)
    /\ h.element_used_cnt + Len(h.free) + n = MaxOf(b)

\* Block b with the header h, when the elements of S are in use.
BlockOK(b, h, S) ==
    /\ h \in HeadState
    /\ h.block_size = SizeOf(b) /\ h.max_element_num = MaxOf(b)
    /\ \E n \in Nat : Uncarved(b, h, n)
    /\ IsInjective(h.free)
    /\ \A i \in DOMAIN h.free : Carved(b, h, h.free[i]) /\ h.free[i] \notin S
    /\ \A e \in S : Carved(b, h, e)
    /\ IsFiniteSet(S) /\ h.element_used_cnt = Cardinality(S)

-----------------------------------------------------------------------------
(***************************************************************************)
(* The invariant.                                                          *)
(***************************************************************************)
Adding == {t \in Threads : pc[t] = "add"}
Carrying == {t \in Threads : pc[t] \in {"add", "release"}}
Carried == {local[t].block : t \in Carrying}
Added == {local[t].block : t \in Adding}

Types ==
    /\ pc \in [Threads -> {"idle", "take", "heap", "add", "release", "crashed"}]
    /\ local \in [Threads -> [block : Blocks \cup {NullPtr}, ptr : Nat]]
    /\ live \subseteq Nat \ {NullPtr} /\ IsFiniteSet(live)
    /\ m_blocks \subseteq {b + BlockSize : b \in Blocks}
    /\ others \subseteq Blocks
    /\ m_used_cnt \in Int

CarriedOnce == \A t, u \in Carrying : local[t].block = local[u].block => t = u

\* The blocks out of the BlockPool are in the pool, carried by one thread or
\* with others; the prepared ones are in the pool or about to be added.
Places ==
    /\ PoolSound(CachedBlocks)
    /\ Lent(CachedBlocks) = PoolBlocks \cup Carried \cup others
    /\ PoolBlocks \cap Carried = {} /\ PoolBlocks \cap others = {} /\ Carried \cap others = {}
    /\ CarriedOnce
    /\ DOMAIN head = PoolBlocks \cup {PoolStart} \cup Added

\* Elements in use, those of an Alloc in progress included.
Pending == {local[t].ptr : t \in Adding} \ {NullPtr}
Owned == live \cup Pending
Taken(b) == {e \in Owned : In(b, e)}

Elements ==
    /\ \A b \in DOMAIN head : BlockOK(b, head[b], Taken(b))
    /\ \A e \in live : \E b \in PoolBlocks \cup {PoolStart} : In(b, e)
    /\ \A t \in Adding : local[t].ptr # NullPtr => In(local[t].block, local[t].ptr)

\* The nodes of the set F form the free list, the others the full one.
Grouped(lk, D, F) == \A n \in D : n \in F <=> lk[n].next \in F
Joined(lk, D) ==
    \A n \in D :
        /\ lk[n] \in [next : D, prev : D]
        /\ lk[lk[n].next].prev = n /\ lk[lk[n].prev].next = n
IsMap(lk, D) == lk = [n \in D |-> lk[n]]
Full(h) == h.free = <<>> /\ h.next_element_offset = h.block_size

Links ==
    /\ IsMap(link, {m_free_list, m_full_list} \cup PoolBlocks)
    /\ Joined(link, {m_free_list, m_full_list} \cup PoolBlocks)
    /\ \E F \in SUBSET ({m_free_list} \cup PoolBlocks) :
        /\ m_free_list \in F
        /\ Grouped(link, {m_free_list, m_full_list} \cup PoolBlocks, F)
        /\ \A b \in PoolBlocks \ F : Full(head[b])

\* A block of the BlockPool has room for an element.
Roomy == ((BlockSize - HeadSize) \div m_element_size) % U16 > 0

-----------------------------------------------------------------------------
(***************************************************************************)
(* Arithmetic.                                                             *)
(***************************************************************************)
\* The sizes that Init computes.
LEMMA Sizes ==
    /\ m_element_size \in Nat /\ m_element_size > 0
    /\ total_size \in Nat /\ total_size >= HeadSize /\ BlockSize \in Nat /\ BlockSize > HeadSize
    /\ PoolStart \in Nat /\ PoolStart > 0 /\ m_cache_block_end = PoolStart + total_size
  <1>0. ElementSize \in Nat /\ ElementSize > 0 /\ CacheNum \in Nat /\ PoolStart \in Nat /\ PoolStart > 0
    BY MemoryPoolAssumption
  <1>1. m_element_size \in Nat /\ m_element_size > 0
    BY <1>0 DEF m_element_size, AlignUp
  <1>2. PICK c \in Nat : c = CacheNum * m_element_size
    BY <1>0, <1>1
  <1>3. total_size \in Nat /\ total_size >= HeadSize
    BY <1>2 DEF total_size, HeadSize
  <1>4. BlockSize \in Nat /\ BlockSize > HeadSize
    BY BlockPoolAssumption DEF HeadSize
  <1> QED
    BY <1>0, <1>1, <1>3, <1>4 DEF m_cache_block_end

\* Spans are apart by whole elements.
LEMMA Spans ==
    /\ Span(0) = 0
    /\ \A k \in Nat : Span(k) \in Nat
    /\ \A k, l \in Nat : k < l => Span(k) + m_element_size <= Span(l)
    /\ \A k \in Nat : Span(k) % m_element_size = 0
  <1>0. m_element_size \in Nat /\ m_element_size > 0
    BY Sizes
  <1>1. PICK m \in Nat : m = m_element_size /\ m > 0
    BY <1>0
  <1>2. \A k \in Nat : k * m \in Nat
    BY <1>1
  <1>3. \A k, l \in Nat : k < l => k * m + m <= l * m
    <2> SUFFICES ASSUME NEW k \in Nat, NEW l \in Nat, k < l PROVE k * m + m <= l * m
      OBVIOUS
    <2>1. PICK d \in Nat : l = k + 1 + d
      <3>1. l - k - 1 \in Nat /\ l = k + 1 + (l - k - 1)
        OBVIOUS
      <3> QED
        BY <3>1
    <2>2. d * m \in Nat /\ l * m = k * m + m + d * m
      BY <1>1, <2>1
    <2>3. k * m \in Nat
      BY <1>1
    <2> QED
      BY <2>2, <2>3
  <1>4. \A k \in Nat : (k * m) % m = 0
    BY <1>1
  <1>5. 0 * m = 0
    BY <1>1
  <1> QED
    BY <1>1, <1>2, <1>3, <1>4, <1>5 DEF Span

\* One element more.
LEMMA SpanNext == ASSUME NEW k \in Nat PROVE Span(k + 1) = Span(k) + m_element_size
  BY Sizes DEF Span

\* Two different places on the grid are apart by at least one element.
LEMMA Grid ==
    /\ OnGrid(0)
    /\ \A x, y : OnGrid(x) /\ OnGrid(y) => x \in Nat /\ (x < y => x + m_element_size <= y)
    /\ \A x : OnGrid(x) => x % m_element_size = 0
    /\ \A k \in Nat : OnGrid(Span(k))
  <1>1. ASSUME NEW x, NEW y, OnGrid(x), OnGrid(y) PROVE x \in Nat /\ (x < y => x + m_element_size <= y)
    <2>1. PICK k \in Nat : x = Span(k)
      BY <1>1 DEF OnGrid
    <2>2. PICK l \in Nat : y = Span(l)
      BY <1>1 DEF OnGrid
    <2>3. x \in Nat /\ y \in Nat /\ m_element_size \in Nat
      BY <2>1, <2>2, Spans, Sizes
    <2>4. CASE k < l
      BY <2>1, <2>2, <2>3, <2>4, Spans
    <2>5. CASE l < k
      <3>1. y + m_element_size <= x
        BY <2>1, <2>2, <2>5, Spans
      <3> QED
        BY <2>3, <3>1
    <2>6. CASE k = l
      BY <2>1, <2>2, <2>3, <2>6
    <2> QED
      BY <2>4, <2>5, <2>6
  <1>2. \A x : OnGrid(x) => x % m_element_size = 0
    BY Spans DEF OnGrid
  <1>3. OnGrid(0) /\ \A k \in Nat : OnGrid(Span(k))
    BY Spans DEF OnGrid
  <1> QED
    BY <1>1, <1>2, <1>3

\* The elements of a block fit behind its header.
LEMMA Capacity ==
    ASSUME NEW b
    PROVE  /\ SizeOf(b) \in Nat /\ SizeOf(b) >= HeadSize /\ SizeOf(b) > 0 /\ MaxOf(b) \in Nat
           /\ \A n \in 0 .. MaxOf(b) : Span(n) \in Nat /\ SizeOf(b) - Span(n) >= HeadSize
  <1>1. SizeOf(b) \in Nat /\ SizeOf(b) >= HeadSize
    BY Sizes DEF SizeOf, HeadSize
  <1>2. PICK m \in Nat : m = m_element_size /\ m > 0
    BY Sizes
  <1>3. PICK s \in Nat : s = SizeOf(b) - HeadSize
    BY <1>1 DEF HeadSize
  <1>4. PICK d \in Nat : d = s \div m /\ d * m <= s
    <2>1. s \div m \in Nat /\ (s \div m) * m <= s
      BY <1>2
    <2> QED
      BY <2>1
  <1>5. MaxOf(b) \in Nat /\ MaxOf(b) <= d
    <2>1. MaxOf(b) = d % U16
      BY <1>2, <1>3, <1>4 DEF MaxOf
    <2> QED
      BY <2>1 DEF U16
  <1>6. ASSUME NEW n \in 0 .. MaxOf(b) PROVE Span(n) \in Nat /\ SizeOf(b) - Span(n) >= HeadSize
    <2>1. n \in Nat /\ n <= d
      BY <1>5
    <2>2. Span(n) \in Nat /\ Span(d) \in Nat /\ Span(n) <= Span(d)
      <3>1. CASE n = d
        BY <1>4, <3>1, Spans
      <3>2. CASE n < d
        <4>1. Span(n) \in Nat /\ Span(d) \in Nat /\ Span(n) + m <= Span(d)
          BY <1>2, <1>4, <2>1, <3>2, Spans
        <4> QED
          BY <1>2, <4>1
      <3> QED
        BY <1>4, <2>1, <3>1, <3>2
    <2>3. Span(d) <= s
      BY <1>2, <1>4 DEF Span
    <2>4. SizeOf(b) = s + HeadSize
      BY <1>1, <1>3 DEF HeadSize
    <2> QED
      BY <2>2, <2>3, <2>4 DEF HeadSize
  <1> QED
    BY <1>1, <1>5, <1>6 DEF HeadSize

-----------------------------------------------------------------------------
(***************************************************************************)
(* MemoryBlockInit, MemoryAlloc and MemoryFree.                            *)
(***************************************************************************)
\* A block that is prepared has carved nothing.
LEMMA InitOK ==
    ASSUME NEW b \in Nat
    PROVE  BlockOK(b, MemoryBlockInit(SizeOf(b)), {})
  <1> DEFINE h == MemoryBlockInit(SizeOf(b))
  <1>1. /\ SizeOf(b) \in Nat /\ MaxOf(b) \in Nat
        /\ Span(MaxOf(b)) \in Nat /\ SizeOf(b) - Span(MaxOf(b)) >= HeadSize
    BY Capacity
  <1>2. h = [block_size |-> SizeOf(b), max_element_num |-> MaxOf(b), element_used_cnt |-> 0,
             next_element_offset |-> SizeOf(b) - Span(MaxOf(b)), free |-> <<>>]
    BY DEF MemoryBlockInit, MaxOf, Span
  <1> HIDE DEF h
  <1>3. SizeOf(b) - Span(MaxOf(b)) \in Nat
    BY <1>1 DEF HeadSize
  <1>4. h \in HeadState
    BY <1>1, <1>2, <1>3 DEF HeadState
  <1>5. Uncarved(b, h, MaxOf(b))
    BY <1>1, <1>2 DEF Uncarved
  <1>6. IsFiniteSet({}) /\ Cardinality({}) = 0
    BY FS_EmptySet
  <1>7. h.free = <<>> /\ h.element_used_cnt = 0 /\ h.block_size = SizeOf(b) /\ h.max_element_num = MaxOf(b)
    BY <1>2
  <1>8. BlockOK(b, h, {})
    BY <1>1, <1>4, <1>5, <1>6, <1>7 DEF BlockOK, IsInjective
  <1> QED
    BY <1>8 DEF h

\* The offset of the next element to be carved.
LEMMA NextOffset ==
    ASSUME NEW b \in Nat, NEW h, NEW S, BlockOK(b, h, S)
    PROVE  /\ h.next_element_offset \in Nat /\ h.block_size = SizeOf(b)
           /\ HeadSize <= h.next_element_offset /\ h.next_element_offset <= SizeOf(b)
           /\ OnGrid(SizeOf(b) - h.next_element_offset)
           /\ h.element_used_cnt \in 0 .. MaxOf(b)
           /\ Full(h) => h.element_used_cnt = MaxOf(b)
           /\ h.next_element_offset < SizeOf(b) =>
                /\ h.next_element_offset + m_element_size <= SizeOf(b)
                /\ \E n \in Nat : Uncarved(b, h, n + 1)
  <1>1. h \in HeadState /\ h.block_size = SizeOf(b) /\ SizeOf(b) \in Nat /\ MaxOf(b) \in Nat
    BY Capacity DEF BlockOK
  <1>2. h.next_element_offset \in Nat /\ h.element_used_cnt \in Nat /\ Len(h.free) \in Nat
    BY <1>1 DEF HeadState
  <1>3. PICK n \in Nat : Uncarved(b, h, n)
    BY DEF BlockOK
  <1>4. n \in 0 .. MaxOf(b) /\ h.next_element_offset = SizeOf(b) - Span(n)
        /\ h.element_used_cnt + Len(h.free) + n = MaxOf(b)
    BY <1>1, <1>2, <1>3 DEF Uncarved
  <1>5. Span(n) \in Nat /\ SizeOf(b) - Span(n) >= HeadSize
    BY <1>4, Capacity
  <1>6. SizeOf(b) - h.next_element_offset = Span(n)
    BY <1>1, <1>4, <1>5
  <1>7. OnGrid(Span(n)) /\ OnGrid(0)
    BY Grid
  <1>8. ASSUME h.next_element_offset < SizeOf(b)
        PROVE  /\ h.next_element_offset + m_element_size <= SizeOf(b)
               /\ \E k \in Nat : Uncarved(b, h, k + 1)
    <2>1. 0 < Span(n)
      BY <1>1, <1>2, <1>5, <1>6, <1>8
    <2>2. 0 + m_element_size <= Span(n)
      BY <1>7, <2>1, Grid
    <2>3. n # 0
      BY <2>1, Spans
    <2>4. n - 1 \in Nat /\ (n - 1) + 1 = n
      BY <2>3
    <2>5. \E k \in Nat : Uncarved(b, h, k + 1)
      BY <1>3, <2>4
    <2>6. h.next_element_offset + m_element_size <= SizeOf(b)
      BY <1>1, <1>4, <1>5, <2>2, Sizes
    <2> QED
      BY <2>5, <2>6
  <1>9. ASSUME Full(h) PROVE h.element_used_cnt = MaxOf(b)
    <2>1. Span(n) = 0 /\ Len(h.free) = 0
      BY <1>1, <1>4, <1>5, <1>9 DEF Full
    <2>2. n = 0
      <3>1. CASE 0 < n
        <4>1. Span(0) + m_element_size <= Span(n)
          BY <3>1, Spans
        <4> QED
          BY <2>1, <4>1, Spans, Sizes
      <3> QED
        BY <3>1
    <2> QED
      BY <1>2, <1>4, <2>1, <2>2
  <1>10. h.element_used_cnt \in 0 .. MaxOf(b)
    BY <1>1, <1>2, <1>4
  <1>11. HeadSize <= h.next_element_offset /\ h.next_element_offset <= SizeOf(b)
    BY <1>1, <1>4, <1>5 DEF HeadSize
  <1> QED
    BY <1>1, <1>2, <1>6, <1>7, <1>8, <1>9, <1>10, <1>11

\* MemoryAlloc gives an element of the block that is not in use, unless the block is full.
LEMMA AllocOK ==
    ASSUME NEW b \in Nat, NEW h, NEW S, BlockOK(b, h, S), b > 0
    PROVE  /\ AllocPtr(b, h) = NullPtr <=> Full(h)
           /\ Full(h) => AfterAlloc(h) = h
           /\ ~Full(h) => /\ In(b, AllocPtr(b, h)) /\ AllocPtr(b, h) \in Nat /\ AllocPtr(b, h) \notin S
                          /\ BlockOK(b, AfterAlloc(h), S \cup {AllocPtr(b, h)})
  <1> PICK p : p = AllocPtr(b, h)
    OBVIOUS
  <1> PICK g : g = AfterAlloc(h)
    OBVIOUS
  <1>0. /\ h \in HeadState /\ h.block_size = SizeOf(b) /\ h.max_element_num = MaxOf(b) /\ IsInjective(h.free)
        /\ \A i \in DOMAIN h.free : Carved(b, h, h.free[i]) /\ h.free[i] \notin S
        /\ \A e \in S : Carved(b, h, e)
        /\ IsFiniteSet(S) /\ h.element_used_cnt = Cardinality(S)
    BY DEF BlockOK
  <1>1. /\ h.next_element_offset \in Nat /\ h.element_used_cnt \in Nat /\ h.free \in Seq(Nat) /\ SizeOf(b) \in Nat
        /\ HeadSize <= h.next_element_offset /\ h.next_element_offset <= SizeOf(b) /\ SizeOf(b) > 0
        /\ OnGrid(SizeOf(b) - h.next_element_offset) /\ m_element_size \in Nat /\ m_element_size > 0
    BY <1>0, NextOffset, Capacity, Sizes DEF HeadState
  <1>h. h \in HeadState /\ h.block_size = SizeOf(b) /\ h.max_element_num = MaxOf(b)
    BY <1>0
  <1>f. \A q : q \notin S => IsFiniteSet(S \cup {q}) /\ Cardinality(S \cup {q}) = h.element_used_cnt + 1
    BY <1>0, FS_AddElement
  <1>2. CASE h.free # <<>>
    <2>1. 1 \in DOMAIN h.free /\ Head(h.free) = h.free[1]
      BY <1>1, <1>2, TailPlaces
    <2>2. p = h.free[1] /\ Carved(b, h, p) /\ p \notin S
      BY <1>0, <1>2, <2>1 DEF AllocPtr
    <2>3. p \in Nat /\ p # NullPtr /\ In(b, p) /\ ~Full(h)
      <3>1. p \in Nat /\ b + HeadSize <= p /\ p < b + h.next_element_offset
        BY <2>2 DEF Carved
      <3>2. p # NullPtr /\ In(b, p)
        BY <1>1, <3>1 DEF In, NullPtr, HeadSize
      <3> QED
        BY <1>2, <3>1, <3>2 DEF Full
    <2>4. g = [h EXCEPT !.free = Tail(h.free), !.element_used_cnt = h.element_used_cnt + 1]
      BY <1>2 DEF AfterAlloc
    <2>5. /\ g \in HeadState /\ g.block_size = SizeOf(b) /\ g.max_element_num = MaxOf(b)
          /\ g.next_element_offset = h.next_element_offset
          /\ g.element_used_cnt = h.element_used_cnt + 1 /\ g.free = Tail(h.free)
      <3>1. Tail(h.free) \in Seq(Nat)
        BY <1>1, <1>2, TailPlaces
      <3>2. h.element_used_cnt + 1 \in Nat
        BY <1>1
      <3> QED
        BY <1>h, <2>4, <3>1, <3>2 DEF HeadState
    <2>6. \E n \in Nat : Uncarved(b, g, n)
      <3>1. PICK n \in Nat : Uncarved(b, h, n)
        BY DEF BlockOK
      <3>2. Len(g.free) = Len(h.free) - 1 /\ Len(h.free) \in Nat
        BY <1>1, <1>2, <2>5, TailPlaces
      <3>3. Uncarved(b, g, n)
        BY <1>1, <2>5, <3>1, <3>2 DEF Uncarved
      <3> QED
        BY <3>3
    <2>7. \A i \in DOMAIN g.free : i + 1 \in DOMAIN h.free /\ g.free[i] = h.free[i + 1] /\ i \in Nat /\ i > 0
      <3>1. h.free \in Seq(Nat) /\ h.free # <<>> /\ g.free = Tail(h.free)
        BY <1>1, <1>2, <2>5
      <3> QED
        BY <3>1, TailPlaces
    <2>8. IsInjective(g.free)
      BY <1>0, <2>7 DEF IsInjective
    <2>9. \A e : Carved(b, g, e) <=> Carved(b, h, e)
      BY <2>5 DEF Carved
    <2>10. \A i \in DOMAIN g.free : Carved(b, g, g.free[i]) /\ g.free[i] \notin S \cup {p}
      BY <1>0, <2>1, <2>2, <2>7, <2>9 DEF IsInjective
    <2>11. BlockOK(b, g, S \cup {p})
      BY <1>0, <1>f, <2>2, <2>5, <2>6, <2>8, <2>9, <2>10 DEF BlockOK
    <2> QED
      BY <2>2, <2>3, <2>11
  <1>3. CASE h.free = <<>> /\ h.next_element_offset < h.block_size
    <2>1. p = b + h.next_element_offset
      BY <1>3 DEF AllocPtr
    <2>2. p \in Nat /\ p # NullPtr /\ In(b, p) /\ ~Full(h)
      BY <1>0, <1>1, <1>3, <2>1 DEF In, NullPtr, Full, HeadSize
    <2>3. p \notin S
      BY <1>0, <1>1, <2>1 DEF Carved
    <2>4. g = [h EXCEPT !.next_element_offset = h.next_element_offset + m_element_size,
                        !.element_used_cnt = h.element_used_cnt + 1]
      BY <1>3 DEF AfterAlloc
    <2>5. /\ g \in HeadState /\ g.block_size = SizeOf(b) /\ g.max_element_num = MaxOf(b)
          /\ g.next_element_offset = h.next_element_offset + m_element_size
          /\ g.element_used_cnt = h.element_used_cnt + 1 /\ g.free = h.free
      <3>1. h.element_used_cnt + 1 \in Nat /\ h.next_element_offset + m_element_size \in Nat
        BY <1>1
      <3> QED
        BY <1>h, <2>4, <3>1 DEF HeadState
    <2>6. \E n \in Nat : Uncarved(b, g, n)
      <3>1. PICK n \in Nat : Uncarved(b, h, n + 1)
        BY <1>h, <1>3, NextOffset
      <3>2. Span(n + 1) = Span(n) + m_element_size /\ Span(n) \in Nat /\ Len(h.free) \in Nat
        <4>1. Len(h.free) \in Nat
          BY <1>1
        <4> QED
          BY <4>1, Spans, SpanNext
      <3>3. /\ h.next_element_offset = SizeOf(b) - (Span(n) + m_element_size)
            /\ h.element_used_cnt + Len(h.free) + (n + 1) = MaxOf(b)
        BY <3>1, <3>2 DEF Uncarved
      <3>4. Uncarved(b, g, n)
        <4>1. h.next_element_offset + m_element_size = SizeOf(b) - Span(n)
          BY <1>1, <3>2, <3>3
        <4>2. h.element_used_cnt + 1 + Len(h.free) + n = MaxOf(b)
          <5>1. PICK u \in Nat, l \in Nat : u = h.element_used_cnt /\ l = Len(h.free)
            BY <1>1, <3>2
          <5>2. u + 1 + l + n = u + l + (n + 1)
            OBVIOUS
          <5> QED
            BY <3>3, <5>1, <5>2
        <4> QED
          BY <2>5, <4>1, <4>2 DEF Uncarved
      <3> QED
        BY <3>4
    <2>7. \A e : Carved(b, h, e) => Carved(b, g, e)
      BY <1>1, <2>5 DEF Carved
    <2>8. Carved(b, g, p)
      <3>1. b + SizeOf(b) - p = SizeOf(b) - h.next_element_offset
        BY <1>1, <2>1
      <3>2. b + HeadSize <= p /\ p < b + g.next_element_offset
        BY <1>1, <2>1, <2>5, SMTT(30) DEF HeadSize
      <3>3. OnGrid(b + SizeOf(b) - p)
        BY <1>1, <3>1
      <3> QED
        BY <2>2, <3>2, <3>3 DEF Carved
    <2>9. g.free = <<>> /\ IsInjective(g.free)
      BY <1>0, <1>3, <2>5
    <2>10. \A e \in S \cup {p} : Carved(b, g, e)
      BY <1>0, <2>7, <2>8
    <2>11. BlockOK(b, g, S \cup {p})
      <3>1. /\ g \in HeadState /\ g.block_size = SizeOf(b) /\ g.max_element_num = MaxOf(b)
            /\ g.element_used_cnt = Cardinality(S \cup {p}) /\ IsFiniteSet(S \cup {p})
        BY <1>f, <2>3, <2>5
      <3>2. \A i \in DOMAIN g.free : Carved(b, g, g.free[i]) /\ g.free[i] \notin S \cup {p}
        <4>1. DOMAIN g.free = {}
          BY <2>9
        <4> QED
          BY <4>1
      <3> QED
        BY <2>6, <2>9, <2>10, <3>1, <3>2 DEF BlockOK
    <2> QED
      BY <2>2, <2>3, <2>11
  <1>4. CASE h.free = <<>> /\ ~(h.next_element_offset < h.block_size)
    <2>1. h.next_element_offset = h.block_size
      BY <1>0, <1>1, <1>4
    <2> QED
      BY <1>4, <2>1 DEF AllocPtr, AfterAlloc, Full
  <1> QED
    BY <1>2, <1>3, <1>4

\* MemoryFree puts an element in use on the chain.
LEMMA FreeOK ==
    ASSUME NEW b \in Nat, NEW h, NEW S, BlockOK(b, h, S), NEW e \in S
    PROVE  BlockOK(b, AfterFree(h, e), S \ {e})
  <1> PICK g : g = AfterFree(h, e)
    OBVIOUS
  <1>0. /\ h \in HeadState /\ h.block_size = SizeOf(b) /\ h.max_element_num = MaxOf(b) /\ IsInjective(h.free)
        /\ \A i \in DOMAIN h.free : Carved(b, h, h.free[i]) /\ h.free[i] \notin S
        /\ \A x \in S : Carved(b, h, x)
        /\ IsFiniteSet(S) /\ h.element_used_cnt = Cardinality(S)
    BY DEF BlockOK
  <1>1. h.next_element_offset \in Nat /\ h.element_used_cnt \in Nat /\ h.free \in Seq(Nat) /\ e \in Nat
    BY <1>0 DEF HeadState, Carved
  <1>2. IsFiniteSet(S \ {e}) /\ Cardinality(S \ {e}) = h.element_used_cnt - 1
    BY <1>0, FS_RemoveElement
  <1>3. h.element_used_cnt - 1 \in Nat
    BY <1>2, FS_CardinalityType
  <1>4. g = [h EXCEPT !.free = <<e>> \o h.free, !.element_used_cnt = h.element_used_cnt - 1]
    BY DEF AfterFree
  <1>5. /\ g \in HeadState /\ g.block_size = SizeOf(b) /\ g.max_element_num = MaxOf(b)
        /\ g.next_element_offset = h.next_element_offset
        /\ g.element_used_cnt = h.element_used_cnt - 1 /\ g.free = <<e>> \o h.free
    <2>1. <<e>> \o h.free \in Seq(Nat)
      BY <1>1, FrontPlaces
    <2> QED
      BY <1>0, <1>1, <1>3, <1>4, <2>1 DEF HeadState
  <1>6. \E n \in Nat : Uncarved(b, g, n)
    <2>1. PICK n \in Nat : Uncarved(b, h, n)
      BY DEF BlockOK
    <2>2. Len(g.free) = Len(h.free) + 1 /\ Len(h.free) \in Nat
      BY <1>1, <1>5
    <2>a. g.element_used_cnt + Len(g.free) + n = h.element_used_cnt + Len(h.free) + n
      <3>1. PICK u \in Nat, l \in Nat : u = h.element_used_cnt /\ l = Len(h.free)
        BY <1>1, <2>2
      <3>2. g.element_used_cnt = u - 1 /\ Len(g.free) = l + 1
        BY <1>5, <2>2, <3>1
      <3>3. (u - 1) + (l + 1) + n = u + l + n
        OBVIOUS
      <3> QED
        BY <3>1, <3>2, <3>3
    <2>3. Uncarved(b, g, n)
      BY <1>5, <2>1, <2>a DEF Uncarved
    <2> QED
      BY <2>3
  <1>7. \A i \in DOMAIN g.free : \/ i = 1 /\ g.free[i] = e
                                 \/ i # 1 /\ i \in Nat /\ i - 1 \in DOMAIN h.free /\ g.free[i] = h.free[i - 1]
    BY <1>1, <1>5, FrontPlaces, SMTT(30)
  <1>8. IsInjective(g.free)
    BY <1>0, <1>7 DEF IsInjective
  <1>9. \A x : Carved(b, g, x) <=> Carved(b, h, x)
    BY <1>5 DEF Carved
  <1>10. \A i \in DOMAIN g.free : Carved(b, g, g.free[i]) /\ g.free[i] \notin S \ {e}
    BY <1>0, <1>7, <1>9
  <1>11. BlockOK(b, g, S \ {e})
    BY <1>0, <1>2, <1>5, <1>6, <1>8, <1>9, <1>10 DEF BlockOK
  <1> QED
    BY <1>11

-----------------------------------------------------------------------------
(***************************************************************************)
(* ListDelete and the two insertions.                                      *)
(***************************************************************************)
\* The neighbours of a node that leaves point at each other; its list keeps
\* its other nodes.
LEMMA DeleteJoined ==
    ASSUME NEW D, NEW lk, IsMap(lk, D), Joined(lk, D), NEW b \in D, NEW F, Grouped(lk, D, F),
           NEW g, g = ListDelete(lk, b)
    PROVE  IsMap(g, D) /\ Joined(g, D \ {b}) /\ Grouped(g, D \ {b}, F \ {b})
  <1>1. PICK p, x : p = lk[b].prev /\ x = lk[b].next
    OBVIOUS
  <1>2. /\ p \in D /\ x \in D
        /\ \A n \in D : lk[n] \in [next : D, prev : D] /\ lk[lk[n].next].prev = n /\ lk[lk[n].prev].next = n
        /\ lk[p].next = b /\ lk[x].prev = b
    BY <1>1 DEF Joined
  <1>3. g = [lk EXCEPT ![x].prev = p, ![p].next = x]
    BY <1>1 DEF ListDelete, ListDelete_
  <1>4. DOMAIN lk = D
    BY DEF IsMap
  <1>5. IsMap(g, D)
    BY <1>3, <1>4 DEF IsMap
  <1>6. \A n \in D : /\ g[n] \in [next : D, prev : D]
                     /\ g[n].next = IF n = p THEN x ELSE lk[n].next
                     /\ g[n].prev = IF n = x THEN p ELSE lk[n].prev
    <2>1. ASSUME NEW n \in D
          PROVE  /\ g[n] \in [next : D, prev : D]
                 /\ g[n].next = IF n = p THEN x ELSE lk[n].next
                 /\ g[n].prev = IF n = x THEN p ELSE lk[n].prev
      <3>1. lk[n] \in [next : D, prev : D]
        BY <1>2
      <3>2. CASE n = x /\ n = p
        <4>1. g[n] = [[lk[n] EXCEPT !.prev = p] EXCEPT !.next = x]
          BY <1>2, <1>3, <1>4, <3>2
        <4> QED
          BY <1>2, <3>1, <3>2, <4>1
      <3>3. CASE n = x /\ n # p
        <4>1. g[n] = [lk[n] EXCEPT !.prev = p]
          BY <1>2, <1>3, <1>4, <3>3
        <4> QED
          BY <1>2, <3>1, <3>3, <4>1
      <3>4. CASE n # x /\ n = p
        <4>1. g[n] = [lk[n] EXCEPT !.next = x]
          BY <1>2, <1>3, <1>4, <3>4
        <4> QED
          BY <1>2, <3>1, <3>4, <4>1
      <3>5. CASE n # x /\ n # p
        <4>1. g[n] = lk[n]
          BY <1>2, <1>3, <1>4, <3>5
        <4> QED
          BY <3>1, <3>5, <4>1
      <3> QED
        BY <3>2, <3>3, <3>4, <3>5
    <2> QED
      BY <2>1
  <1>7. \A n \in D \ {b} : g[n].next \in D \ {b} /\ g[n].prev \in D \ {b}
    <2>1. CASE x = b
      BY <1>1, <1>2, <1>6, <2>1
    <2>2. CASE x # b
      BY <1>1, <1>2, <1>6, <2>2
    <2> QED
      BY <2>1, <2>2
  <1>8. Joined(g, D \ {b})
    <2>1. ASSUME NEW n \in D \ {b}
          PROVE  g[n] \in [next : D \ {b}, prev : D \ {b}] /\ g[g[n].next].prev = n /\ g[g[n].prev].next = n
      <3>1. g[n] \in [next : D \ {b}, prev : D \ {b}]
        BY <1>6, <1>7
      <3>2. g[g[n].next].prev = n
        BY <1>1, <1>2, <1>6, <1>7
      <3>3. g[g[n].prev].next = n
        BY <1>1, <1>2, <1>6, <1>7
      <3> QED
        BY <3>1, <3>2, <3>3
    <2> QED
      BY <2>1 DEF Joined
  <1>9. Grouped(g, D \ {b}, F \ {b})
    BY <1>1, <1>2, <1>6, <1>7 DEF Grouped
  <1> QED
    BY <1>1, <1>5, <1>8, <1>9

\* g is the memory lk of the nodes D after b was inserted behind pv.
Inserted(g, lk, D, b, pv) ==
    /\ b \notin D /\ DOMAIN lk \in {D, D \cup {b}} /\ pv \in D
    /\ g = ListInsert_(lk, b, pv, lk[pv].next)

\* A node goes in behind pv, and belongs to the same list.
LEMMA InsertJoined ==
    ASSUME NEW D, NEW lk, Joined(lk, D), NEW F, Grouped(lk, D, F),
           NEW b, b \notin F, NEW pv, NEW g, Inserted(g, lk, D, b, pv)
    PROVE  /\ IsMap(g, D \cup {b}) /\ Joined(g, D \cup {b})
           /\ pv \in F => Grouped(g, D \cup {b}, F \cup {b})
           /\ pv \notin F => Grouped(g, D \cup {b}, F)
  <1>0. b \notin D /\ pv \in D
    BY DEF Inserted
  <1>1. PICK f, nx : f = g /\ nx = lk[pv].next /\ f = ListInsert_(lk, b, pv, nx)
    BY DEF Inserted
  <1>2. /\ nx \in D /\ pv # b /\ nx # b /\ lk[nx].prev = pv
        /\ \A n \in D : lk[n] \in [next : D, prev : D] /\ lk[lk[n].next].prev = n /\ lk[lk[n].prev].next = n
    BY <1>0, <1>1 DEF Joined
  <1>3. PICK m : m = [n \in D \cup {b} |-> IF n = b THEN [next |-> nx, prev |-> pv] ELSE lk[n]]
    OBVIOUS
  <1>4. f = [m EXCEPT ![nx].prev = b, ![pv].next = b]
    <2>1. DOMAIN lk \cup {b} = D \cup {b}
      BY DEF Inserted
    <2> QED
      BY <1>1, <1>3, <2>1, Zenon DEF ListInsert_
  <1>5. /\ DOMAIN m = D \cup {b} /\ m[b] = [next |-> nx, prev |-> pv]
        /\ \A n \in D : m[n] = lk[n]
    BY <1>0, <1>3
  <1>6. IsMap(f, D \cup {b})
    BY <1>3, <1>4 DEF IsMap
  <1>7. f[b] = [next |-> nx, prev |-> pv]
    BY <1>0, <1>2, <1>4, <1>5
  <1>8. \A n \in D : /\ f[n] \in [next : D \cup {b}, prev : D \cup {b}]
                     /\ f[n].next = IF n = pv THEN b ELSE lk[n].next
                     /\ f[n].prev = IF n = nx THEN b ELSE lk[n].prev
    <2>1. ASSUME NEW n \in D
          PROVE  /\ f[n] \in [next : D \cup {b}, prev : D \cup {b}]
                 /\ f[n].next = IF n = pv THEN b ELSE lk[n].next
                 /\ f[n].prev = IF n = nx THEN b ELSE lk[n].prev
      <3>1. lk[n] \in [next : D, prev : D] /\ m[n] = lk[n] /\ n \in DOMAIN m
        BY <1>0, <1>2, <1>5
      <3>2. CASE n = nx /\ n = pv
        <4>1. f[n] = [[lk[n] EXCEPT !.prev = b] EXCEPT !.next = b]
          BY <1>4, <3>1, <3>2
        <4> QED
          BY <3>1, <3>2, <4>1
      <3>3. CASE n = nx /\ n # pv
        <4>1. f[n] = [lk[n] EXCEPT !.prev = b]
          BY <1>4, <3>1, <3>3
        <4> QED
          BY <3>1, <3>3, <4>1
      <3>4. CASE n # nx /\ n = pv
        <4>1. f[n] = [lk[n] EXCEPT !.next = b]
          BY <1>4, <3>1, <3>4
        <4> QED
          BY <3>1, <3>4, <4>1
      <3>5. CASE n # nx /\ n # pv
        <4>1. f[n] = lk[n]
          BY <1>4, <3>1, <3>5
        <4> QED
          BY <3>1, <3>5, <4>1
      <3> QED
        BY <3>2, <3>3, <3>4, <3>5
    <2> QED
      BY <2>1
  <1>9. Joined(f, D \cup {b})
    <2>1. f[b] \in [next : D \cup {b}, prev : D \cup {b}] /\ f[f[b].next].prev = b /\ f[f[b].prev].next = b
      BY <1>0, <1>2, <1>7, <1>8
    <2>2. ASSUME NEW n \in D
          PROVE  f[n] \in [next : D \cup {b}, prev : D \cup {b}] /\ f[f[n].next].prev = n /\ f[f[n].prev].next = n
      <3>1. lk[n].next \in D /\ lk[n].prev \in D
        BY <1>2
      <3>2. f[f[n].next].prev = n
        BY <1>0, <1>2, <1>7, <1>8, <3>1
      <3>3. f[f[n].prev].next = n
        BY <1>0, <1>2, <1>7, <1>8, <3>1
      <3> QED
        BY <1>8, <3>2, <3>3
    <2> QED
      BY <2>1, <2>2 DEF Joined
  <1>10. /\ pv \in F => Grouped(f, D \cup {b}, F \cup {b})
         /\ pv \notin F => Grouped(f, D \cup {b}, F)
    <2>1. pv \in F <=> nx \in F
      BY <1>0, <1>1 DEF Grouped
    <2>2. \A n \in D : n \in F <=> lk[n].next \in F
      BY DEF Grouped
    <2>3. \A n \in D : lk[n].next # b
      BY <1>0, <1>2
    <2>4. f[b].next = nx /\ \A n \in D : f[n].next = IF n = pv THEN b ELSE lk[n].next
      BY <1>7, <1>8
    <2>5. ASSUME pv \in F, NEW n \in D \cup {b} PROVE n \in F \cup {b} <=> f[n].next \in F \cup {b}
      BY <1>0, <2>1, <2>2, <2>3, <2>4, <2>5
    <2>6. ASSUME pv \notin F, NEW n \in D \cup {b} PROVE n \in F <=> f[n].next \in F
      BY <1>0, <2>1, <2>2, <2>3, <2>4, <2>6
    <2> QED
      BY <2>5, <2>6 DEF Grouped
  <1> QED
    BY <1>1, <1>6, <1>9, <1>10

\* Both ends of a list are places to insert.
LEMMA AddEnds ==
    ASSUME NEW D, NEW lk, Joined(lk, D), NEW b, NEW list \in D, NEW F, Grouped(lk, D, F)
    PROVE  \E pv \in D : /\ list \in F <=> pv \in F
                         /\ ListAddTail(lk, b, list) = ListInsert_(lk, b, pv, lk[pv].next)
  <1>1. lk[list].prev \in D /\ lk[lk[list].prev].next = list
    BY DEF Joined
  <1>2. list \in F <=> lk[list].prev \in F
    BY <1>1 DEF Grouped
  <1> QED
    BY <1>1, <1>2 DEF ListAddTail

-----------------------------------------------------------------------------
(***************************************************************************)
(* Blocks and addresses.                                                   *)
(***************************************************************************)
\* Blocks by their ends.
LEMMA ByEnds ==
    ASSUME NEW ends, ends \subseteq {b + BlockSize : b \in Blocks},
           NEW blocks, blocks = {x - BlockSize : x \in ends}
    PROVE  /\ blocks \subseteq Blocks
           /\ \A b \in Blocks : b \in blocks <=> b + BlockSize \in ends
           /\ \A x \in ends : x - BlockSize \in blocks /\ x = (x - BlockSize) + BlockSize
  <1>1. BlockSize \in Nat /\ Blocks \subseteq Nat
    BY BlockAddresses, BlockPoolAssumption DEF Blocks
  <1>2. \A x \in ends : \E b \in Blocks : x = b + BlockSize
    OBVIOUS
  <1>3. \A b \in Blocks : b + BlockSize \in Int /\ (b + BlockSize) - BlockSize = b
    BY <1>1
  <1>4. \A x \in ends : x - BlockSize \in Blocks /\ x = (x - BlockSize) + BlockSize
    BY <1>2, <1>3
  <1>5. \A b : b \in blocks <=> \E x \in ends : b = x - BlockSize
    OBVIOUS
  <1> QED
    BY <1>3, <1>4, <1>5

\* The pool has the blocks whose ends are in m_blocks.
LEMMA PoolHas ==
    ASSUME m_blocks \subseteq {b + BlockSize : b \in Blocks}
    PROVE  /\ PoolBlocks \subseteq Blocks
           /\ \A b \in Blocks : b \in PoolBlocks <=> b + BlockSize \in m_blocks
           /\ \A x \in m_blocks : x - BlockSize \in PoolBlocks /\ x = (x - BlockSize) + BlockSize
  <1>1. PICK ends : ends = m_blocks
    OBVIOUS
  <1> QED
    BY <1>1, ByEnds DEF PoolBlocks

\* A block is added to the pool or removed from it.
LEMMA PoolChanges ==
    ASSUME m_blocks \subseteq {c + BlockSize : c \in Blocks}, NEW b \in Blocks
    PROVE  /\ m_blocks' = m_blocks \ {b + BlockSize} => PoolBlocks' = PoolBlocks \ {b}
           /\ m_blocks' = m_blocks \cup {b + BlockSize} => PoolBlocks' = PoolBlocks \cup {b}
  <1>1. PICK ends, blocks : ends = m_blocks' /\ blocks = {x - BlockSize : x \in ends} /\ PoolBlocks' = blocks
    BY DEF PoolBlocks
  <1>2. PoolBlocks \subseteq Blocks /\ \A c \in Blocks : c \in PoolBlocks <=> c + BlockSize \in m_blocks
    BY PoolHas
  <1>3. \A c \in Blocks : c + BlockSize = b + BlockSize => c = b
    BY BlockAddresses, BlockPoolAssumption DEF Blocks
  <1>4. ASSUME ends = m_blocks \ {b + BlockSize} PROVE blocks = PoolBlocks \ {b}
    <2>1. blocks \subseteq Blocks /\ \A c \in Blocks : c \in blocks <=> c + BlockSize \in ends
      <3>1. ends \subseteq {c + BlockSize : c \in Blocks}
        BY <1>4
      <3> QED
        BY <1>1, <3>1, ByEnds
    <2>2. \A c \in Blocks : c \in blocks <=> c \in PoolBlocks \ {b}
      BY <1>2, <1>3, <1>4, <2>1
    <2> QED
      BY <1>2, <2>1, <2>2
  <1>5. ASSUME ends = m_blocks \cup {b + BlockSize} PROVE blocks = PoolBlocks \cup {b}
    <2>1. ends \subseteq {c + BlockSize : c \in Blocks}
      BY <1>5
    <2>2. blocks \subseteq Blocks /\ \A c \in Blocks : c \in blocks <=> c + BlockSize \in ends
      BY <1>1, <2>1, ByEnds
    <2> QED
      BY <1>2, <1>3, <1>5, <2>2
  <1> QED
    BY <1>1, <1>4, <1>5

\* An address lies in at most one block, and the pool's own one is no other's.
LEMMA OneBlock ==
    /\ Blocks \subseteq Nat \ {NullPtr} /\ PoolStart \notin Blocks /\ PoolStart \in Nat \ {NullPtr}
    /\ \A b \in Blocks \cup {PoolStart} : In(b, b)
    /\ \A b, c \in Blocks \cup {PoolStart}, e \in Nat : In(b, e) /\ In(c, e) => b = c
    /\ \A e \in Nat : InCache(e) <=> In(PoolStart, e)
  <1>1. Blocks \subseteq Nat \ {NullPtr}
    BY BlockAddresses DEF Blocks, NullPtr
  <1>2. /\ PoolStart \in Nat /\ PoolStart > 0 /\ total_size \in Nat /\ total_size > 0
        /\ m_cache_block_end = PoolStart + total_size
        /\ BlockSize \in Nat /\ BlockSize > 0
    BY Sizes DEF HeadSize
  <1>3. \A b \in Blocks : b + BlockSize <= PoolStart \/ b >= PoolStart + total_size
    BY <1>2, MemoryPoolAssumption
  <1>4. PoolStart \notin Blocks
    BY <1>2, <1>3
  <1>5. SizeOf(PoolStart) = total_size /\ \A b \in Blocks : SizeOf(b) = BlockSize
    BY <1>4 DEF SizeOf
  <1>6. \A b \in Blocks \cup {PoolStart} : In(b, b)
    BY <1>1, <1>2, <1>5 DEF In
  <1>7. ASSUME NEW b \in Blocks, NEW c \in Blocks, NEW e \in Nat, In(b, e), In(c, e) PROVE b = c
    <2>1. ~(b < c) /\ ~(c < b)
      BY <1>1, <1>2, <1>5, <1>7, BlocksApart DEF In
    <2> QED
      BY <1>1, <2>1
  <1>8. ASSUME NEW b \in Blocks, NEW e \in Nat, In(b, e) PROVE ~In(PoolStart, e)
    BY <1>1, <1>2, <1>3, <1>5, <1>8 DEF In
  <1>9. \A e \in Nat : InCache(e) <=> In(PoolStart, e)
    BY <1>2, <1>5 DEF InCache, In
  <1> QED
    BY <1>1, <1>2, <1>4, <1>6, <1>7, <1>8, <1>9 DEF NullPtr

\* FindMemoryBlock: the end of e's block is the least one above e.
LEMMA FindsBlock ==
    ASSUME m_blocks \subseteq {b + BlockSize : b \in Blocks}, NEW b \in PoolBlocks, NEW e \in Nat, In(b, e)
    PROVE  FindMemoryBlock(e) = b
  <1>1. /\ b \in Blocks /\ Blocks \subseteq Nat /\ BlockSize \in Nat /\ BlockSize > 0 /\ SizeOf(b) = BlockSize
    BY OneBlock, PoolHas, Sizes DEF SizeOf, HeadSize
  <1>2. b <= e /\ e < b + BlockSize /\ b + BlockSize \in m_blocks
    BY <1>1, PoolHas DEF In
  <1>3. ASSUME NEW x \in m_blocks, x > e PROVE b + BlockSize <= x
    <2>1. PICK c \in Blocks : x = c + BlockSize
      OBVIOUS
    <2>2. ~(c < b)
      <3>1. c < b => c + BlockSize <= b
        BY <1>1, BlocksApart
      <3> QED
        BY <1>1, <1>2, <1>3, <2>1, <3>1
    <2> QED
      BY <1>1, <2>1, <2>2
  <1>4. m_blocks \subseteq Nat
    BY <1>1
  <1>5. \A x \in m_blocks : (x > e /\ \A y \in m_blocks : y > e => x <= y) <=> x = b + BlockSize
    BY <1>1, <1>2, <1>3, <1>4
  <1>6. (CHOOSE x \in m_blocks : x > e /\ \A y \in m_blocks : y > e => x <= y) = b + BlockSize
    BY <1>2, <1>5
  <1>7. FindMemoryBlock(e) = (b + BlockSize) - BlockSize
    BY <1>6, Zenon DEF FindMemoryBlock
  <1> QED
    BY <1>1, <1>7

-----------------------------------------------------------------------------
(***************************************************************************)
(* What the threads carry.                                                 *)
(***************************************************************************)
\* The carried blocks, by the threads that carry them.
LEMMA CarriedBlocks ==
    /\ \A b : b \in Carried <=> \E t \in Carrying : local[t].block = b
    /\ \A b : b \in Added <=> \E t \in Adding : local[t].block = b
    /\ \A e : e \in Pending <=> e # NullPtr /\ \E t \in Adding : local[t].ptr = e
    /\ Adding \subseteq Carrying /\ Added \subseteq Carried
    /\ HeldBlocks({"add", "release"}) = Carried
  BY DEF Carried, Added, Pending, Adding, Carrying, HeldBlocks

\* Only thread t moves.
Others(t) == \A u \in Threads \ {t} : pc'[u] = pc[u] /\ local'[u] = local[u]
IsCarrying(p) == p \in {"add", "release"}

\* A thread takes a block up, puts it down, or neither.
LEMMA Carries ==
    ASSUME CarriedOnce, NEW t \in Threads, Others(t)
    PROVE  /\ ~IsCarrying(pc[t]) /\ IsCarrying(pc'[t]) =>
                Carried' = Carried \cup {local'[t].block} /\ (local'[t].block \notin Carried => CarriedOnce')
           /\ IsCarrying(pc[t]) /\ ~IsCarrying(pc'[t]) => Carried' = Carried \ {local[t].block} /\ CarriedOnce'
           /\ ~IsCarrying(pc[t]) /\ ~IsCarrying(pc'[t]) => Carried' = Carried /\ CarriedOnce'
           /\ pc[t] # "add" /\ pc'[t] # "add" => Added' = Added /\ Pending' = Pending
           /\ pc[t] # "add" /\ pc'[t] = "add" =>
                /\ Added' = Added \cup {local'[t].block}
                /\ Pending' = Pending \cup ({local'[t].ptr} \ {NullPtr})
           /\ pc[t] = "add" /\ pc'[t] # "add" =>
                /\ Added' = Added \ {local[t].block}
                /\ Pending \subseteq Pending' \cup ({local[t].ptr} \ {NullPtr}) /\ Pending' \subseteq Pending
  <1>0. \A u \in Threads : u # t => pc'[u] = pc[u] /\ local'[u] = local[u]
    BY DEF Others
  <1>1. /\ \A b : b \in Carried <=> \E u \in Threads : IsCarrying(pc[u]) /\ local[u].block = b
        /\ \A b : b \in Added <=> \E u \in Threads : pc[u] = "add" /\ local[u].block = b
        /\ \A e : e \in Pending <=> e # NullPtr /\ \E u \in Threads : pc[u] = "add" /\ local[u].ptr = e
    BY DEF Carried, Added, Pending, Adding, Carrying, IsCarrying
  <1>2. /\ \A b : b \in Carried' <=> \E u \in Threads : IsCarrying(pc'[u]) /\ local'[u].block = b
        /\ \A b : b \in Added' <=> \E u \in Threads : pc'[u] = "add" /\ local'[u].block = b
        /\ \A e : e \in Pending' <=> e # NullPtr /\ \E u \in Threads : pc'[u] = "add" /\ local'[u].ptr = e
    BY DEF Carried, Added, Pending, Adding, Carrying, IsCarrying
  <1>3. /\ \A u, v \in Threads : IsCarrying(pc[u]) /\ IsCarrying(pc[v]) /\ local[u].block = local[v].block => u = v
        /\ CarriedOnce' <=>
             \A u, v \in Threads : IsCarrying(pc'[u]) /\ IsCarrying(pc'[v]) /\ local'[u].block = local'[v].block => u = v
    BY DEF CarriedOnce, Carrying, IsCarrying
  <1>4. pc[t] = "add" => IsCarrying(pc[t])
    BY DEF IsCarrying
  <1>5. ASSUME ~IsCarrying(pc[t]), IsCarrying(pc'[t])
        PROVE  Carried' = Carried \cup {local'[t].block} /\ (local'[t].block \notin Carried => CarriedOnce')
    <2>1. Carried' = Carried \cup {local'[t].block}
      BY <1>0, <1>1, <1>2, <1>5
    <2>2. ASSUME local'[t].block \notin Carried PROVE CarriedOnce'
      BY <1>0, <1>1, <1>3, <1>5, <2>2
    <2> QED
      BY <2>1, <2>2
  <1>6. ASSUME IsCarrying(pc[t]), ~IsCarrying(pc'[t]) PROVE Carried' = Carried \ {local[t].block} /\ CarriedOnce'
    <2>1. Carried' = Carried \ {local[t].block}
      BY <1>0, <1>1, <1>2, <1>3, <1>6
    <2> QED
      BY <1>0, <1>3, <1>6, <2>1
  <1>7. ASSUME ~IsCarrying(pc[t]), ~IsCarrying(pc'[t]) PROVE Carried' = Carried /\ CarriedOnce'
    <2>0. \A b : b \in Carried' <=> b \in Carried
      BY <1>0, <1>1, <1>2, <1>7
    <2>1. Carried' = Carried
      BY <2>0
    <2> QED
      BY <1>0, <1>3, <1>7, <2>1
  <1>8. ASSUME pc[t] # "add", pc'[t] # "add" PROVE Added' = Added /\ Pending' = Pending
    <2>0. \A b : b \in Added' <=> b \in Added
      BY <1>0, <1>1, <1>2, <1>8
    <2>1. Added' = Added
      BY <2>0
    <2>3. \A e : e \in Pending' <=> e \in Pending
      BY <1>0, <1>1, <1>2, <1>8
    <2>2. Pending' = Pending
      BY <2>3
    <2> QED
      BY <2>1, <2>2
  <1>9. ASSUME pc[t] # "add", pc'[t] = "add"
        PROVE  Added' = Added \cup {local'[t].block} /\ Pending' = Pending \cup ({local'[t].ptr} \ {NullPtr})
    <2>1. Added' = Added \cup {local'[t].block}
      BY <1>0, <1>1, <1>2, <1>9
    <2>2. Pending' = Pending \cup ({local'[t].ptr} \ {NullPtr})
      BY <1>0, <1>1, <1>2, <1>9
    <2> QED
      BY <2>1, <2>2
  <1>10. ASSUME pc[t] = "add", pc'[t] # "add"
         PROVE  /\ Added' = Added \ {local[t].block}
                /\ Pending \subseteq Pending' \cup ({local[t].ptr} \ {NullPtr}) /\ Pending' \subseteq Pending
    <2>1. \A u \in Threads : pc[u] = "add" => IsCarrying(pc[u])
      BY DEF IsCarrying
    <2>2. Added' = Added \ {local[t].block}
      BY <1>0, <1>1, <1>2, <1>3, <1>10, <2>1
    <2>3. Pending \subseteq Pending' \cup ({local[t].ptr} \ {NullPtr}) /\ Pending' \subseteq Pending
      BY <1>0, <1>1, <1>2, <1>10
    <2> QED
      BY <2>2, <2>3
  <1> QED
    BY <1>5, <1>6, <1>7, <1>8, <1>9, <1>10

-----------------------------------------------------------------------------
(***************************************************************************)
(* Elements and their blocks.                                              *)
(***************************************************************************)
PoolAndCache == PoolBlocks \cup {PoolStart}

\* The counters: exact, if a block has room for an element.
Counted ==
    Roomy =>
        /\ m_used_cnt = Cardinality(live)
        /\ \A t \in Adding : local[t].ptr # NullPtr
        /\ \A b \in PoolBlocks : Taken(b) # {}

Invariant == Types /\ Places /\ Elements /\ Links /\ Counted

\* The blocks by their addresses.
LEMMA KnownBlocks ==
    ASSUME Types, Places
    PROVE  /\ PoolBlocks \subseteq Blocks /\ Carried \subseteq Blocks /\ Added \subseteq Carried
           /\ DOMAIN head = PoolAndCache \cup Added
           /\ DOMAIN head \subseteq Blocks \cup {PoolStart} /\ DOMAIN head \subseteq Nat \ {NullPtr}
           /\ PoolAndCache \cap Carried = {} /\ PoolStart \notin PoolBlocks
  <1>1. PoolBlocks \subseteq Blocks
    BY PoolHas DEF Types
  <1>2. Carried \subseteq Blocks
    BY DEF Places, Lent, PoolSound, Blocks
  <1>3. Added \subseteq Carried /\ PoolBlocks \cap Carried = {} /\ DOMAIN head = PoolBlocks \cup {PoolStart} \cup Added
    BY CarriedBlocks DEF Places
  <1>4. Blocks \subseteq Nat \ {NullPtr} /\ PoolStart \notin Blocks /\ PoolStart \in Nat \ {NullPtr}
    BY OneBlock
  <1> QED
    BY <1>1, <1>2, <1>3, <1>4 DEF PoolAndCache

\* Every element in use lies in one prepared block; those that callers have
\* lie in a block of the pool, those of an Alloc in progress in one to be added.
LEMMA OwnedPlaces ==
    ASSUME Types, Places, Elements
    PROVE  /\ Owned \subseteq Nat \ {NullPtr}
           /\ \A e \in Owned : \E c \in DOMAIN head : In(c, e)
           /\ \A e \in live : \E c \in PoolAndCache : In(c, e)
           /\ \A e \in Pending : \E c \in Added : In(c, e)
           /\ live \cap Pending = {}
           /\ \A b \in PoolAndCache : Taken(b) = {e \in live : In(b, e)}
  <1>0. DOMAIN head = PoolAndCache \cup Added /\ DOMAIN head \subseteq Blocks \cup {PoolStart}
        /\ PoolAndCache \cap Added = {}
    BY KnownBlocks
  <1>1. live \subseteq Nat \ {NullPtr} /\ \A e \in live : \E c \in PoolAndCache : In(c, e)
    BY DEF Types, Elements, PoolAndCache
  <1>2. ASSUME NEW e \in Pending PROVE e \in Nat \ {NullPtr} /\ \E c \in Added : In(c, e)
    <2>1. PICK t \in Adding : local[t].ptr = e /\ e # NullPtr
      BY CarriedBlocks
    <2>2. t \in Threads /\ local[t].ptr \in Nat
      BY DEF Types, Adding
    <2>3. local[t].block \in Added /\ In(local[t].block, e)
      BY <2>1, CarriedBlocks DEF Elements
    <2> QED
      BY <2>1, <2>2, <2>3
  <1>3. \A e \in Nat, b, c \in DOMAIN head : In(b, e) /\ In(c, e) => b = c
    BY <1>0, OneBlock
  <1>4. live \cap Pending = {}
    BY <1>0, <1>1, <1>2, <1>3
  <1>5. ASSUME NEW b \in PoolAndCache PROVE Taken(b) = {e \in live : In(b, e)}
    <2>1. \A e \in Pending : ~In(b, e)
      BY <1>0, <1>2, <1>3
    <2> QED
      BY <2>1 DEF Taken, Owned
  <1> QED
    BY <1>0, <1>1, <1>2, <1>4, <1>5 DEF Owned

\* An element comes into use, or goes out of it, in one block only.
LEMMA TakenMoves ==
    ASSUME Types, Places, Elements, NEW b \in Blocks \cup {PoolStart}, NEW p \in Nat, In(b, p)
    PROVE  /\ Owned' = Owned \cup {p} =>
                /\ Taken(b)' = Taken(b) \cup {p}
                /\ \A c \in Blocks \cup {PoolStart} : c # b => Taken(c)' = Taken(c)
           /\ Owned' = Owned \ {p} =>
                /\ Taken(b)' = Taken(b) \ {p}
                /\ \A c \in Blocks \cup {PoolStart} : c # b => Taken(c)' = Taken(c)
  <1>1. \A c \in Blocks \cup {PoolStart} : c # b => ~In(c, p)
    BY OneBlock
  <1>2. \A c, e : e \in Taken(c) <=> e \in Owned /\ In(c, e)
    BY DEF Taken
  <1>3. \A c, e : e \in Taken(c)' <=> e \in Owned' /\ In(c, e)
    BY DEF Taken, In
  <1>4. ASSUME Owned' = Owned \cup {p}
        PROVE  /\ Taken(b)' = Taken(b) \cup {p}
               /\ \A c \in Blocks \cup {PoolStart} : c # b => Taken(c)' = Taken(c)
    <2>1. Taken(b)' = Taken(b) \cup {p}
      BY <1>2, <1>3, <1>4
    <2>2. ASSUME NEW c \in Blocks \cup {PoolStart}, c # b PROVE Taken(c)' = Taken(c)
      <3>1. \A e : e \in Taken(c)' <=> e \in Taken(c)
        BY <1>1, <1>2, <1>3, <1>4, <2>2
      <3> QED
        BY <3>1
    <2> QED
      BY <2>1, <2>2
  <1>5. ASSUME Owned' = Owned \ {p}
        PROVE  /\ Taken(b)' = Taken(b) \ {p}
               /\ \A c \in Blocks \cup {PoolStart} : c # b => Taken(c)' = Taken(c)
    <2>1. Taken(b)' = Taken(b) \ {p}
      BY <1>2, <1>3, <1>5
    <2>2. ASSUME NEW c \in Blocks \cup {PoolStart}, c # b PROVE Taken(c)' = Taken(c)
      <3>1. \A e : e \in Taken(c)' <=> e \in Taken(c)
        BY <1>1, <1>2, <1>3, <1>5, <2>2
      <3> QED
        BY <3>1
    <2> QED
      BY <2>1, <2>2
  <1> QED
    BY <1>4, <1>5

\* The first block of the free list, if there is one, is a block of the pool.
LEMMA FirstIsBlock ==
    ASSUME Types, Places, Links, ~ListEmtpy(link, m_free_list)
    PROVE  FirstFree \in PoolBlocks
  <1> DEFINE D == {m_free_list, m_full_list} \cup PoolBlocks
  <1>1. PICK F \in SUBSET ({m_free_list} \cup PoolBlocks) : m_free_list \in F /\ Grouped(link, D, F)
    BY DEF Links
  <1>2. Joined(link, D) /\ m_free_list \in D
    BY DEF Links
  <1>3. FirstFree = link[m_free_list].next /\ FirstFree # m_free_list
    BY DEF FirstFree, ListHead, ListEmtpy
  <1>4. FirstFree \in F
    BY <1>1, <1>2, <1>3 DEF Grouped
  <1> QED
    BY <1>1, <1>3, <1>4

-----------------------------------------------------------------------------
(***************************************************************************)
(* Alloc from a block that the pool has.                                   *)
(***************************************************************************)
HandsOut(b) ==
    /\ b \in PoolAndCache /\ ~Full(head[b])
    /\ head' = [head EXCEPT ![b] = AfterAlloc(head[b])]
    /\ live' = live \cup {AllocPtr(b, head[b])} /\ m_used_cnt' = m_used_cnt + 1
    /\ UNCHANGED <<m_free_blocks, heap, link, m_blocks, pc, local, others>>

\* The first critical section of Alloc takes an element that nobody has.
LEMMA AllocMoves ==
    ASSUME Invariant, NEW t \in Threads, AllocFromCache(t) \/ AllocFromFirst(t)
    PROVE  \E b \in PoolAndCache : HandsOut(b)
  <1> USE DEF Invariant
  <1>0. \A b \in PoolAndCache : b \in Nat /\ b > 0 /\ BlockOK(b, head[b], Taken(b))
    BY KnownBlocks DEF Elements, NullPtr
  <1>1. \A b \in PoolAndCache : AllocPtr(b, head[b]) = NullPtr <=> Full(head[b])
    BY <1>0, AllocOK
  <1>2. CASE AllocFromCache(t)
    <2>1. PoolStart \in PoolAndCache /\ ~Full(head[PoolStart])
      BY <1>1, <1>2 DEF AllocFromCache, CachePtr, PoolAndCache
    <2>2. HandsOut(PoolStart)
      BY <1>2, <2>1 DEF AllocFromCache, HandOut, CachePtr, HandsOut, blockPoolVars
    <2> QED
      BY <2>1, <2>2
  <1>3. CASE AllocFromFirst(t)
    <2>1. FirstFree \in PoolAndCache
      BY <1>3, FirstIsBlock DEF AllocFromFirst, PoolAndCache
    <2>2. ~Full(head[FirstFree])
      BY <1>1, <1>3, <2>1 DEF AllocFromFirst, FirstPtr
    <2>3. HandsOut(FirstFree)
      BY <1>3, <2>1, <2>2 DEF AllocFromFirst, HandOut, FirstPtr, HandsOut, blockPoolVars
    <2> QED
      BY <2>1, <2>3
  <1> QED
    BY <1>2, <1>3

\* Alloc from a block of the pool keeps the invariant.
LEMMA AllocKeeps ==
    ASSUME Invariant, NEW b \in PoolAndCache, HandsOut(b)
    PROVE  Invariant'
  <1> USE DEF Invariant
  <1>0. PICK p : p = AllocPtr(b, head[b])
    OBVIOUS
  <1>1. /\ UNCHANGED <<m_free_blocks, heap, link, m_blocks, pc, local, others>>
        /\ head' = [head EXCEPT ![b] = AfterAlloc(head[b])] /\ live' = live \cup {p}
        /\ m_used_cnt' = m_used_cnt + 1 /\ ~Full(head[b])
    BY <1>0 DEF HandsOut
  <1>2. /\ b \in DOMAIN head /\ b \in Blocks \cup {PoolStart} /\ b \in Nat /\ b > 0
        /\ DOMAIN head \subseteq Blocks \cup {PoolStart}
    BY KnownBlocks DEF NullPtr
  <1>3. BlockOK(b, head[b], Taken(b))
    BY <1>2 DEF Elements
  <1>4. In(b, p) /\ p \in Nat /\ p # NullPtr /\ p \notin Taken(b) /\ BlockOK(b, AfterAlloc(head[b]), Taken(b) \cup {p})
    BY <1>0, <1>1, <1>2, <1>3, AllocOK
  <1>5. /\ Pending' = Pending /\ Added' = Added /\ Carried' = Carried /\ Adding' = Adding /\ CarriedOnce'
        /\ PoolBlocks' = PoolBlocks /\ DOMAIN head' = DOMAIN head
    <2>1. Adding' = Adding /\ Carrying' = Carrying
      BY <1>1 DEF Adding, Carrying
    <2> QED
      BY <1>1, <2>1 DEF Pending, Added, Carried, PoolBlocks, CarriedOnce, Places
  <1>6. Owned' = Owned \cup {p}
    BY <1>1, <1>5 DEF Owned
  <1>7. Taken(b)' = Taken(b) \cup {p} /\ \A c \in Blocks \cup {PoolStart} : c # b => Taken(c)' = Taken(c)
    BY <1>2, <1>4, <1>6, TakenMoves
  <1>8. p \notin live /\ IsFiniteSet(live') /\ Cardinality(live') = Cardinality(live) + 1
    <2>1. p \notin live
      BY <1>4 DEF Taken, Owned
    <2> QED
      BY <1>1, <2>1, FS_AddElement DEF Types
  <1>9. Types'
    BY <1>1, <1>4, <1>8 DEF Types
  <1>10. Places'
    BY <1>1, <1>5 DEF Places, PoolSound, Lent
  <1>11. \A c \in DOMAIN head : head'[c] = IF c = b THEN AfterAlloc(head[b]) ELSE head[c]
    BY <1>1
  <1>12. Elements'
    <2>1. ASSUME NEW c \in DOMAIN head' PROVE BlockOK(c, head'[c], Taken(c)')
      <3>1. CASE c = b
        BY <1>2, <1>4, <1>7, <1>11, <3>1
      <3>2. CASE c # b
        BY <1>2, <1>5, <1>7, <1>11, <3>2 DEF Elements
      <3> QED
        BY <3>1, <3>2
    <2>2. \A e \in live' : \E c \in PoolBlocks' \cup {PoolStart} : In(c, e)
      BY <1>1, <1>4, <1>5 DEF Elements, PoolAndCache
    <2>3. \A t \in Adding' : local'[t].ptr # NullPtr => In(local'[t].block, local'[t].ptr)
      BY <1>1, <1>5 DEF Elements
    <2> QED
      BY <2>1, <2>2, <2>3 DEF Elements, BlockOK, In
  <1>13. Links'
    <2>1. PICK F \in SUBSET ({m_free_list} \cup PoolBlocks) :
             /\ m_free_list \in F
             /\ Grouped(link, {m_free_list, m_full_list} \cup PoolBlocks, F)
             /\ \A c \in PoolBlocks \ F : Full(head[c])
      BY DEF Links
    <2>2. \A c \in PoolBlocks \ F : Full(head'[c])
      BY <1>1, <1>11, <2>1, KnownBlocks DEF PoolAndCache
    <2> QED
      BY <1>1, <1>5, <2>1, <2>2 DEF Links
  <1>14. Counted'
    <2>1. ASSUME Roomy PROVE m_used_cnt' = Cardinality(live')
      BY <1>1, <1>8, <2>1 DEF Counted
    <2>2. ASSUME Roomy, NEW c \in PoolBlocks PROVE Taken(c)' # {}
      <3>1. Taken(c) # {} /\ c \in Blocks
        BY <2>2, KnownBlocks DEF Counted
      <3> QED
        BY <1>7, <3>1
    <2> QED
      BY <1>1, <1>5, <2>1, <2>2 DEF Counted
  <1> QED
    BY <1>9, <1>10, <1>12, <1>13, <1>14

-----------------------------------------------------------------------------
(***************************************************************************)
(* Free.                                                                   *)
(***************************************************************************)
\* The element goes on the chain of its block,
FreeStays(b, e) ==
    /\ b \in PoolAndCache /\ In(b, e) /\ e \in live
    /\ head' = [head EXCEPT ![b] = AfterFree(head[b], e)]
    /\ live' = live \ {e} /\ m_used_cnt' = m_used_cnt - 1
    /\ UNCHANGED <<m_free_blocks, heap, m_blocks, pc, local, others>>
    /\ \/ b = PoolStart /\ link' = link
       \/ /\ b \in PoolBlocks /\ AfterFree(head[b], e).element_used_cnt # 0
          /\ \/ /\ link' = link
                /\ AfterFree(head[b], e).element_used_cnt # AfterFree(head[b], e).max_element_num - 1
             \/ link' = ListAddTail(ListDelete(link, b), b, m_free_list)

\* or its empty block leaves the pool.
FreeEmpties(t, b, e) ==
    /\ b \in PoolBlocks /\ In(b, e) /\ e \in live /\ pc[t] = "idle"
    /\ AfterFree(head[b], e).element_used_cnt = 0
    /\ head' = Without(head, b) /\ link' = Without(ListDelete(link, b), b)
    /\ m_blocks' = m_blocks \ {b + BlockSize}
    /\ live' = live \ {e} /\ m_used_cnt' = m_used_cnt - 1
    /\ pc' = [pc EXCEPT ![t] = "release"] /\ local' = [local EXCEPT ![t].block = b]
    /\ UNCHANGED <<m_free_blocks, heap, others>>

\* Free finds the block of its element.
LEMMA FreeMoves ==
    ASSUME Invariant, NEW t \in Threads, NEW e \in live, FreeToCache(t, e) \/ FreeToBlock(t, e)
    PROVE  \E b \in PoolAndCache : FreeStays(b, e) \/ FreeEmpties(t, b, e)
  <1> USE DEF Invariant
  <1>0. e \in Nat /\ (InCache(e) <=> In(PoolStart, e))
    BY OneBlock DEF Types
  <1>1. CASE FreeToCache(t, e)
    <2>1. In(PoolStart, e)
      BY <1>0, <1>1 DEF FreeToCache
    <2>2. FreeStays(PoolStart, e)
      BY <1>1, <2>1 DEF FreeToCache, FreeStays, PoolAndCache, blockPoolVars
    <2> QED
      BY <2>2 DEF PoolAndCache
  <1>2. CASE FreeToBlock(t, e)
    <2>1. ~InCache(e)
      BY <1>2 DEF FreeToBlock
    <2>2. PICK b \in PoolBlocks : In(b, e)
      BY <1>0, <2>1 DEF Elements
    <2>3. FindMemoryBlock(e) = b
      BY <1>0, <2>2, FindsBlock DEF Types
    <2>4. PICK g : g = AfterFree(head[b], e)
      OBVIOUS
    <2>5. FreeResult(g) = -1 => g.element_used_cnt # 0 /\ g.element_used_cnt # g.max_element_num - 1
      BY DEF FreeResult
    <2>6. FreeResult(g) = 0 => g.element_used_cnt # 0
      BY DEF FreeResult
    <2>7. FreeResult(g) = 1 => g.element_used_cnt = 0
      BY DEF FreeResult
    <2>8. /\ pc[t] = "idle" /\ m_used_cnt' = m_used_cnt - 1 /\ live' = live \ {e}
          /\ UNCHANGED <<m_free_blocks, heap, others>>
          /\ \/ /\ FreeResult(g) = -1
                /\ head' = [head EXCEPT ![b] = g]
                /\ UNCHANGED <<link, m_blocks, pc, local>>
             \/ /\ FreeResult(g) = 0
                /\ head' = [head EXCEPT ![b] = g]
                /\ link' = ListAddTail(ListDelete(link, b), b, m_free_list)
                /\ UNCHANGED <<m_blocks, pc, local>>
             \/ /\ FreeResult(g) = 1
                /\ head' = Without(head, b)
                /\ link' = Without(ListDelete(link, b), b)
                /\ m_blocks' = m_blocks \ {b + BlockSize}
                /\ pc' = [pc EXCEPT ![t] = "release"]
                /\ local' = [local EXCEPT ![t].block = b]
      BY <1>2, <2>3, <2>4 DEF FreeToBlock, blockPoolVars
    <2>9. CASE FreeResult(g) = -1 \/ FreeResult(g) = 0
      BY <2>2, <2>4, <2>5, <2>6, <2>8, <2>9 DEF FreeStays, PoolAndCache
    <2>10. CASE FreeResult(g) = 1
      <3>1. FreeEmpties(t, b, e)
        BY <2>2, <2>4, <2>7, <2>8, <2>10 DEF FreeEmpties
      <3> QED
        BY <3>1 DEF PoolAndCache
    <2> QED
      BY <2>8, <2>9, <2>10
  <1> QED
    BY <1>1, <1>2

\* A block moves to the end of the list "list".
LEMMA MoveJoined ==
    ASSUME NEW D, NEW lk, IsMap(lk, D), Joined(lk, D), NEW b \in D, NEW F, Grouped(lk, D, F),
           NEW list \in D, list # b, NEW g, g = ListAddTail(ListDelete(lk, b), b, list)
    PROVE  /\ IsMap(g, D) /\ Joined(g, D)
           /\ list \in F => Grouped(g, D, F \cup {b})
           /\ list \notin F => Grouped(g, D, F \ {b})
  <1>1. PICK l, E, G : l = ListDelete(lk, b) /\ E = D \ {b} /\ G = F \ {b}
    OBVIOUS
  <1>2. IsMap(l, D) /\ Joined(l, E) /\ Grouped(l, E, G)
    BY <1>1, DeleteJoined
  <1>3. b \notin E /\ E \cup {b} = D /\ DOMAIN l \in {E, E \cup {b}} /\ b \notin G /\ list \in E
    BY <1>1, <1>2 DEF IsMap
  <1>4. PICK pv \in E : (list \in G <=> pv \in G) /\ g = ListInsert_(l, b, pv, l[pv].next)
    BY <1>1, <1>2, <1>3, AddEnds
  <1>5. PICK f : f = g /\ Inserted(f, l, E, b, pv)
    BY <1>3, <1>4 DEF Inserted
  <1>6. /\ IsMap(f, E \cup {b}) /\ Joined(f, E \cup {b})
        /\ pv \in G => Grouped(f, E \cup {b}, G \cup {b})
        /\ pv \notin G => Grouped(f, E \cup {b}, G)
    BY <1>2, <1>3, <1>5, InsertJoined
  <1>7. list \in F <=> pv \in G
    BY <1>1, <1>4
  <1>8. list \in F => G \cup {b} = F \cup {b}
    BY <1>1
  <1> QED
    BY <1>1, <1>3, <1>5, <1>6, <1>7, <1>8

\* Free to a block that stays.
LEMMA FreeStaysKeeps ==
    ASSUME Invariant, NEW b \in PoolAndCache, NEW e \in live, FreeStays(b, e)
    PROVE  Invariant'
  <1> USE DEF Invariant
  <1>1. /\ UNCHANGED <<m_free_blocks, heap, m_blocks, pc, local, others>>
        /\ head' = [head EXCEPT ![b] = AfterFree(head[b], e)] /\ live' = live \ {e}
        /\ m_used_cnt' = m_used_cnt - 1 /\ In(b, e)
    BY DEF FreeStays
  <1>2. /\ b \in DOMAIN head /\ b \in Blocks \cup {PoolStart} /\ b \in Nat /\ b > 0 /\ e \in Nat
        /\ DOMAIN head \subseteq Blocks \cup {PoolStart}
    BY KnownBlocks DEF NullPtr, Types
  <1>3. BlockOK(b, head[b], Taken(b)) /\ e \in Taken(b)
    BY <1>1, <1>2 DEF Elements, Taken, Owned
  <1>4. BlockOK(b, AfterFree(head[b], e), Taken(b) \ {e})
    BY <1>2, <1>3, FreeOK
  <1>5. /\ Pending' = Pending /\ Added' = Added /\ Carried' = Carried /\ Adding' = Adding /\ CarriedOnce'
        /\ PoolBlocks' = PoolBlocks /\ DOMAIN head' = DOMAIN head
    <2>1. Adding' = Adding /\ Carrying' = Carrying
      BY <1>1 DEF Adding, Carrying
    <2> QED
      BY <1>1, <2>1 DEF Pending, Added, Carried, PoolBlocks, CarriedOnce, Places
  <1>6. Owned' = Owned \ {e}
    BY <1>1, <1>5, OwnedPlaces DEF Owned
  <1>7. Taken(b)' = Taken(b) \ {e} /\ \A c \in Blocks \cup {PoolStart} : c # b => Taken(c)' = Taken(c)
    BY <1>1, <1>2, <1>6, TakenMoves
  <1>8. IsFiniteSet(live') /\ Cardinality(live') = Cardinality(live) - 1 /\ Cardinality(live) \in Nat
    BY <1>1, FS_RemoveElement, FS_CardinalityType DEF Types
  <1>9. Types'
    BY <1>1, <1>8 DEF Types
  <1>10. Places'
    BY <1>1, <1>5 DEF Places, PoolSound, Lent
  <1>11. \A c \in DOMAIN head : head'[c] = IF c = b THEN AfterFree(head[b], e) ELSE head[c]
    BY <1>1
  <1>12. Elements'
    <2>1. ASSUME NEW c \in DOMAIN head' PROVE BlockOK(c, head'[c], Taken(c)')
      <3>1. CASE c = b
        BY <1>2, <1>4, <1>7, <1>11, <3>1
      <3>2. CASE c # b
        BY <1>2, <1>5, <1>7, <1>11, <3>2 DEF Elements
      <3> QED
        BY <3>1, <3>2
    <2>2. \A x \in live' : \E c \in PoolBlocks' \cup {PoolStart} : In(c, x)
      BY <1>1, <1>5 DEF Elements
    <2>3. \A t \in Adding' : local'[t].ptr # NullPtr => In(local'[t].block, local'[t].ptr)
      BY <1>1, <1>5 DEF Elements
    <2> QED
      BY <2>1, <2>2, <2>3 DEF Elements, BlockOK, In
  <1>13. Links'
    <2>0. PICK D : D = {m_free_list, m_full_list} \cup PoolBlocks
      OBVIOUS
    <2>1. PICK F \in SUBSET ({m_free_list} \cup PoolBlocks) :
             /\ m_free_list \in F /\ Grouped(link, D, F)
             /\ \A c \in PoolBlocks \ F : Full(head[c])
      BY <2>0 DEF Links
    <2>2. IsMap(link, D) /\ Joined(link, D)
      BY <2>0 DEF Links
    <2>3. \A c \in PoolBlocks \ (F \cup {b}) : Full(head'[c])
      BY <1>11, <2>1, KnownBlocks DEF PoolAndCache
    <2>4. CASE b = PoolStart
      <3>1. \A c \in PoolBlocks \ F : Full(head'[c])
        BY <2>3, <2>4, KnownBlocks
      <3>2. link' = link
        BY <2>4, KnownBlocks DEF FreeStays
      <3> QED
        BY <1>5, <2>0, <2>1, <2>2, <3>1, <3>2 DEF Links, IsMap
    <2>5. CASE b \in PoolBlocks /\ link' = link
                /\ AfterFree(head[b], e).element_used_cnt # AfterFree(head[b], e).max_element_num - 1
      <3>1. b \in F
        <4> SUFFICES ASSUME Full(head[b]) PROVE FALSE
          BY <2>1, <2>5
        <4>1. head[b].element_used_cnt = MaxOf(b)
          BY <1>2, <1>3, NextOffset
        <4>2. head[b] \in HeadState /\ head[b].max_element_num = MaxOf(b)
          BY <1>3 DEF BlockOK
        <4>3. /\ AfterFree(head[b], e).element_used_cnt = head[b].element_used_cnt - 1
              /\ AfterFree(head[b], e).max_element_num = head[b].max_element_num
          BY <4>2 DEF AfterFree, HeadState
        <4> QED
          BY <2>5, <4>1, <4>2, <4>3
      <3>2. \A c \in PoolBlocks \ F : Full(head'[c])
        BY <2>3, <3>1
      <3> QED
        BY <1>5, <2>0, <2>1, <2>2, <2>5, <3>2 DEF Links, IsMap
    <2>6. CASE b \in PoolBlocks /\ link' = ListAddTail(ListDelete(link, b), b, m_free_list)
      <3>1. m_free_list \in D /\ b \in D /\ m_free_list # b
        BY <2>0, <2>6, KnownBlocks, MemoryPoolAssumption
      <3>2. IsMap(link', D) /\ Joined(link', D) /\ Grouped(link', D, F \cup {b})
        BY <2>1, <2>2, <2>6, <3>1, MoveJoined
      <3>3. F \cup {b} \in SUBSET ({m_free_list} \cup PoolBlocks) /\ m_free_list \in F \cup {b}
        BY <2>1, <2>6
      <3> QED
        BY <1>5, <2>0, <2>3, <3>2, <3>3 DEF Links
    <2> QED
      BY <2>4, <2>5, <2>6 DEF FreeStays
  <1>14. Counted'
    <2>1. ASSUME Roomy PROVE m_used_cnt' = Cardinality(live')
      BY <1>1, <1>8, <2>1 DEF Counted
    <2>2. ASSUME Roomy, NEW c \in PoolBlocks PROVE Taken(c)' # {}
      <3>1. Taken(c) # {} /\ c \in Blocks
        BY <2>2, KnownBlocks DEF Counted
      <3>2. CASE c = b
        <4>1. AfterFree(head[b], e).element_used_cnt # 0
          BY <2>2, <3>2, KnownBlocks DEF FreeStays
        <4>2. AfterFree(head[b], e).element_used_cnt = Cardinality(Taken(b) \ {e})
          BY <1>4 DEF BlockOK
        <4>3. Taken(b) \ {e} # {}
          BY <4>1, <4>2, FS_EmptySet
        <4> QED
          BY <1>7, <3>2, <4>3
      <3>3. CASE c # b
        BY <1>7, <3>1, <3>3
      <3> QED
        BY <3>2, <3>3
    <2> QED
      BY <1>1, <1>5, <2>1, <2>2 DEF Counted
  <1> QED
    BY <1>9, <1>10, <1>12, <1>13, <1>14

\* A node leaves its list and its memory is given away.
LEMMA RemoveJoined ==
    ASSUME NEW D, NEW lk, IsMap(lk, D), Joined(lk, D), NEW b \in D, NEW F, Grouped(lk, D, F),
           NEW g, g = Without(ListDelete(lk, b), b)
    PROVE  IsMap(g, D \ {b}) /\ Joined(g, D \ {b}) /\ Grouped(g, D \ {b}, F \ {b})
  <1>1. PICK l, E, G, f : l = ListDelete(lk, b) /\ E = D \ {b} /\ G = F \ {b} /\ f = g
    OBVIOUS
  <1>2. IsMap(l, D) /\ Joined(l, E) /\ Grouped(l, E, G)
    BY <1>1, DeleteJoined
  <1>3. f = [n \in E |-> l[n]]
    BY <1>1, <1>2 DEF Without, IsMap
  <1>4. IsMap(f, E) /\ \A n \in E : f[n] = l[n]
    BY <1>3 DEF IsMap
  <1>5. Joined(f, E)
    BY <1>2, <1>4 DEF Joined
  <1>6. Grouped(f, E, G)
    BY <1>2, <1>4 DEF Grouped
  <1> QED
    BY <1>1, <1>4, <1>5, <1>6

\* Free of the last element of a block: no other element in use lies there.
LEMMA FreeEmptiesKeeps ==
    ASSUME Invariant, NEW t \in Threads, NEW b \in PoolBlocks, NEW e \in live, FreeEmpties(t, b, e)
    PROVE  Invariant'
  <1> USE DEF Invariant
  <1>1. /\ In(b, e) /\ pc[t] = "idle" /\ head' = Without(head, b) /\ link' = Without(ListDelete(link, b), b)
        /\ m_blocks' = m_blocks \ {b + BlockSize} /\ live' = live \ {e} /\ m_used_cnt' = m_used_cnt - 1
        /\ pc' = [pc EXCEPT ![t] = "release"] /\ local' = [local EXCEPT ![t].block = b]
        /\ UNCHANGED <<m_free_blocks, heap, others>>
    BY DEF FreeEmpties
  <1>2. /\ b \in DOMAIN head /\ b \in Blocks /\ b \in Nat /\ e \in Nat
        /\ DOMAIN head \subseteq Blocks \cup {PoolStart} /\ b \notin Carried /\ b \notin Added /\ b # PoolStart
    BY KnownBlocks, OneBlock DEF Types, PoolAndCache
  <1>3. BlockOK(b, head[b], Taken(b)) /\ e \in Taken(b)
    BY <1>1, <1>2 DEF Elements, Taken, Owned
  <1>4. Taken(b) \ {e} = {}
    <2>1. BlockOK(b, AfterFree(head[b], e), Taken(b) \ {e})
      BY <1>2, <1>3, FreeOK
    <2>2. IsFiniteSet(Taken(b) \ {e}) /\ Cardinality(Taken(b) \ {e}) = 0
      BY <2>1 DEF BlockOK, FreeEmpties
    <2> QED
      BY <2>2, FS_EmptySet
  <1>5. /\ pc'[t] = "release" /\ local'[t].block = b /\ Others(t)
        /\ pc' \in [Threads -> {"idle", "take", "heap", "add", "release", "crashed"}]
        /\ local' \in [Threads -> [block : Blocks \cup {NullPtr}, ptr : Nat]]
    BY <1>1, <1>2 DEF Types, Others
  <1>6. Carried' = Carried \cup {b} /\ CarriedOnce' /\ Added' = Added /\ Pending' = Pending
    BY <1>1, <1>2, <1>5, Carries DEF Places, IsCarrying
  <1>7. Adding' = Adding /\ \A u \in Adding : local'[u] = local[u]
    BY <1>1, <1>5 DEF Adding, Others
  <1>8. PoolBlocks' = PoolBlocks \ {b}
    BY <1>1, <1>2, PoolChanges DEF Types
  <1>9. DOMAIN head' = DOMAIN head \ {b} /\ \A c \in DOMAIN head' : head'[c] = head[c]
    BY <1>1 DEF Without
  <1>10. Owned' = Owned \ {e}
    BY <1>1, <1>6, OwnedPlaces DEF Owned
  <1>11. \A c \in Blocks \cup {PoolStart} : c # b => Taken(c)' = Taken(c)
    BY <1>1, <1>2, <1>10, TakenMoves
  <1>12. IsFiniteSet(live') /\ Cardinality(live') = Cardinality(live) - 1 /\ Cardinality(live) \in Nat
    BY <1>1, FS_RemoveElement, FS_CardinalityType DEF Types
  <1>13. Types'
    BY <1>1, <1>5, <1>12 DEF Types
  <1>14. Places'
    BY <1>1, <1>2, <1>6, <1>8, <1>9 DEF Places, PoolSound, Lent
  <1>15. Elements'
    <2>1. ASSUME NEW c \in DOMAIN head' PROVE BlockOK(c, head'[c], Taken(c)')
      BY <1>2, <1>9, <1>11 DEF Elements
    <2>2. \A x \in live' : \E c \in PoolBlocks' \cup {PoolStart} : In(c, x)
      <3>1. \A x \in live' : ~In(b, x)
        BY <1>1, <1>4 DEF Taken, Owned
      <3> QED
        BY <1>1, <1>8, <3>1 DEF Elements
    <2>3. \A u \in Adding' : local'[u].ptr # NullPtr => In(local'[u].block, local'[u].ptr)
      BY <1>7 DEF Elements
    <2> QED
      BY <2>1, <2>2, <2>3 DEF Elements, BlockOK, In
  <1>16. Links'
    <2>0. PICK D, E : D = {m_free_list, m_full_list} \cup PoolBlocks /\ E = D \ {b}
      OBVIOUS
    <2>1. PICK F \in SUBSET ({m_free_list} \cup PoolBlocks) :
             /\ m_free_list \in F /\ Grouped(link, D, F)
             /\ \A c \in PoolBlocks \ F : Full(head[c])
      BY <2>0 DEF Links
    <2>2. IsMap(link, D) /\ Joined(link, D) /\ b \in D
      BY <2>0 DEF Links
    <2>3. IsMap(link', E) /\ Joined(link', E) /\ Grouped(link', E, F \ {b})
      BY <1>1, <2>0, <2>1, <2>2, RemoveJoined
    <2>4. b # m_free_list /\ b # m_full_list
      BY <1>2, MemoryPoolAssumption
    <2>5. E = {m_free_list, m_full_list} \cup PoolBlocks'
      BY <1>8, <2>0, <2>4
    <2>6. F \ {b} \in SUBSET ({m_free_list} \cup PoolBlocks') /\ m_free_list \in F \ {b}
      BY <1>8, <2>1, <2>4
    <2>7. \A c \in PoolBlocks' \ (F \ {b}) : Full(head'[c])
      BY <1>8, <1>9, <2>1, KnownBlocks DEF PoolAndCache
    <2> QED
      BY <2>3, <2>5, <2>6, <2>7 DEF Links
  <1>17. Counted'
    <2>1. ASSUME Roomy PROVE m_used_cnt' = Cardinality(live')
      BY <1>1, <1>12, <2>1 DEF Counted
    <2>2. ASSUME Roomy, NEW c \in PoolBlocks' PROVE Taken(c)' # {}
      <3>1. Taken(c) # {} /\ c \in Blocks /\ c # b
        BY <1>8, <2>2, KnownBlocks DEF Counted
      <3> QED
        BY <1>11, <3>1
    <2>3. ASSUME Roomy, NEW u \in Adding' PROVE local'[u].ptr # NullPtr
      BY <1>7, <2>3 DEF Counted
    <2> QED
      BY <2>1, <2>2, <2>3 DEF Counted, Roomy
  <1> QED
    BY <1>13, <1>14, <1>15, <1>16, <1>17

-----------------------------------------------------------------------------
(***************************************************************************)
(* Alloc when the known blocks are full.                                   *)
(***************************************************************************)
\* Steps that touch no element, no block of the pool and no Alloc that is
\* about to add one.
Elsewhere ==
    /\ UNCHANGED <<m_used_cnt, m_blocks, head, live>>
    /\ Adding' = Adding /\ \A u \in Adding : local'[u] = local[u]

\* Such a step leaves the elements and their counters as they are.
LEMMA ElementsStay ==
    ASSUME Invariant, Elsewhere
    PROVE  PoolBlocks' = PoolBlocks /\ Elements' /\ Counted' /\ (link' = link => Links')
  <1> USE DEF Invariant
  <1>1. UNCHANGED <<m_used_cnt, m_blocks, head, live>> /\ Adding' = Adding /\ \A u \in Adding : local'[u] = local[u]
    BY DEF Elsewhere
  <1>2. PoolBlocks' = PoolBlocks
    BY <1>1 DEF PoolBlocks
  <1>3. Pending' = Pending
    <2>1. \A e : e \in Pending <=> e # NullPtr /\ \E u \in Adding : local[u].ptr = e
      BY CarriedBlocks
    <2>2. \A e : e \in Pending' <=> e # NullPtr /\ \E u \in Adding' : local'[u].ptr = e
      BY DEF Pending
    <2>3. \A e : e \in Pending' <=> e \in Pending
      BY <1>1, <2>1, <2>2
    <2> QED
      BY <2>3
  <1>4. Owned' = Owned
    BY <1>1, <1>3 DEF Owned
  <1>5. \A c : Taken(c)' = Taken(c)
    BY <1>4 DEF Taken, In
  <1>6. Elements'
    <2>1. ASSUME NEW c \in DOMAIN head' PROVE BlockOK(c, head'[c], Taken(c)')
      BY <1>1, <1>5 DEF Elements
    <2>2. \A e \in live' : \E c \in PoolBlocks' \cup {PoolStart} : In(c, e)
      BY <1>1, <1>2 DEF Elements
    <2>3. \A u \in Adding' : local'[u].ptr # NullPtr => In(local'[u].block, local'[u].ptr)
      BY <1>1 DEF Elements
    <2> QED
      BY <2>1, <2>2, <2>3 DEF Elements, BlockOK, In
  <1>7. Counted'
    BY <1>1, <1>2, <1>5 DEF Counted, Roomy
  <1>8. link' = link => Links'
    BY <1>1, <1>2 DEF Links
  <1> QED
    BY <1>2, <1>6, <1>7, <1>8

\* Thread t goes from one place to another where it holds no block.
Waits(t) ==
    /\ ~IsCarrying(pc[t]) /\ \E p \in {"take", "heap", "crashed"} : pc' = [pc EXCEPT ![t] = p]
    /\ UNCHANGED <<m_free_blocks, heap, m_used_cnt, m_blocks, head, local, live, others>>

\* The blocks and elements stay where they are.
LEMMA WaitKeeps ==
    ASSUME Invariant, NEW t \in Threads, Waits(t), Links'
    PROVE  Invariant'
  <1> USE DEF Invariant
  <1>1. /\ ~IsCarrying(pc[t])
        /\ UNCHANGED <<m_free_blocks, heap, m_used_cnt, m_blocks, head, local, live, others>>
    BY DEF Waits
  <1>2. PICK p \in {"take", "heap", "crashed"} : pc' = [pc EXCEPT ![t] = p]
    BY DEF Waits
  <1>3. /\ pc'[t] = p /\ ~IsCarrying(pc'[t]) /\ pc[t] # "add" /\ Others(t)
        /\ pc' \in [Threads -> {"idle", "take", "heap", "add", "release", "crashed"}]
    BY <1>1, <1>2 DEF Types, IsCarrying, Others
  <1>4. Carried' = Carried /\ CarriedOnce' /\ Added' = Added
    BY <1>1, <1>2, <1>3, Carries DEF Places
  <1>5. Elsewhere
    BY <1>1, <1>2, <1>3 DEF Elsewhere, Adding, Others
  <1>6. PoolBlocks' = PoolBlocks /\ Elements' /\ Counted'
    BY <1>5, ElementsStay
  <1>7. Types'
    BY <1>1, <1>3 DEF Types
  <1>8. Places'
    BY <1>1, <1>4, <1>6 DEF Places, PoolSound, Lent
  <1> QED
    BY <1>6, <1>7, <1>8

\* The first block of the free list is full: it goes to the other list.
LEMMA MissKeeps ==
    ASSUME Invariant, NEW t \in Threads, AllocMiss(t)
    PROVE  Invariant'
  <1> USE DEF Invariant
  <1>1. Waits(t) /\ head' = head /\ m_blocks' = m_blocks
    BY DEF AllocMiss, Waits, IsCarrying, blockPoolVars
  <1>2. CASE link' = link
    <2>1. Links'
      BY <1>1, <1>2 DEF Links, PoolBlocks
    <2> QED
      BY <1>1, <2>1, WaitKeeps
  <1>3. CASE /\ ~ListEmtpy(link, m_free_list) /\ FirstPtr = NullPtr
             /\ link' = ListAddTail(ListDelete(link, FirstFree), FirstFree, m_full_list)
    <2>1. PICK b : b = FirstFree /\ b \in PoolBlocks
      BY <1>3, FirstIsBlock
    <2>2. b \in Nat /\ b > 0 /\ b \in Blocks /\ b \in DOMAIN head
      BY <2>1, KnownBlocks DEF NullPtr, PoolAndCache
    <2>3. Full(head[b])
      <3>1. BlockOK(b, head[b], Taken(b)) /\ AllocPtr(b, head[b]) = NullPtr
        BY <1>3, <2>1, <2>2 DEF Elements, FirstPtr
      <3> QED
        BY <2>2, <3>1, AllocOK
    <2>4. PICK D : D = {m_free_list, m_full_list} \cup PoolBlocks
      OBVIOUS
    <2>5. PICK F \in SUBSET ({m_free_list} \cup PoolBlocks) :
             /\ m_free_list \in F /\ Grouped(link, D, F)
             /\ \A c \in PoolBlocks \ F : Full(head[c])
      BY <2>4 DEF Links
    <2>6. /\ IsMap(link, D) /\ Joined(link, D) /\ b \in D /\ m_full_list \in D
          /\ link' = ListAddTail(ListDelete(link, b), b, m_full_list)
      BY <1>3, <2>1, <2>4 DEF Links
    <2>7. b # m_free_list /\ b # m_full_list /\ m_full_list \notin F
      <3>1. PoolBlocks \subseteq Blocks /\ {m_free_list, m_full_list} \cap Blocks = {}
        BY KnownBlocks, MemoryPoolAssumption
      <3>2. m_free_list # m_full_list
        BY DEF m_free_list, m_full_list
      <3> QED
        BY <2>2, <2>5, <3>1, <3>2
    <2>8. IsMap(link', D) /\ Joined(link', D) /\ Grouped(link', D, F \ {b})
      BY <2>5, <2>6, <2>7, MoveJoined
    <2>9. F \ {b} \in SUBSET ({m_free_list} \cup PoolBlocks) /\ m_free_list \in F \ {b}
      BY <2>5, <2>7
    <2>10. \A c \in PoolBlocks \ (F \ {b}) : Full(head[c])
      BY <2>3, <2>5
    <2>11. PoolBlocks' = PoolBlocks
      BY <1>1 DEF PoolBlocks
    <2>12. Links'
      BY <1>1, <2>4, <2>8, <2>9, <2>10, <2>11 DEF Links
    <2> QED
      BY <1>1, <2>12, WaitKeeps
  <1> QED
    BY <1>2, <1>3 DEF AllocMiss

\* The BlockPool has no cached block, or the heap fails.
LEMMA TakeMissKeeps ==
    ASSUME Invariant, NEW t \in Threads, TakeMiss(t) \/ TakeFails(t)
    PROVE  Invariant'
  <1>1. Waits(t) /\ head' = head /\ m_blocks' = m_blocks /\ link' = link
    BY DEF TakeMiss, TakeFails, Waits, IsCarrying, blockPoolVars, poolVars
  <1>2. Links'
    BY <1>1 DEF Invariant, Links, PoolBlocks
  <1> QED
    BY <1>1, <1>2, WaitKeeps

\* Thread t has got block b from the BlockPool and prepared it.
Prepares(t, b) ==
    /\ pc[t] \in {"take", "heap"} /\ (AllocCached(b) \/ AllocHeap(b)) /\ Prepare(t, b)
    /\ UNCHANGED <<m_used_cnt, link, m_blocks, live, others>>

\* The new block is nobody else's, and its first element is the only one in use.
LEMMA PrepareKeeps ==
    ASSUME Invariant, NEW t \in Threads, NEW b, Prepares(t, b)
    PROVE  Invariant'
  <1> USE DEF Invariant
  <1>0. PICK h, p : h = MemoryBlockInit(BlockSize) /\ p = AllocPtr(b, h)
    OBVIOUS
  <1>1. /\ pc[t] \in {"take", "heap"} /\ UNCHANGED <<m_used_cnt, link, m_blocks, live, others>>
        /\ head' = [c \in DOMAIN head \cup {b} |-> IF c = b THEN AfterAlloc(h) ELSE head[c]]
        /\ local' = [local EXCEPT ![t] = [block |-> b, ptr |-> p]] /\ pc' = [pc EXCEPT ![t] = "add"]
    BY <1>0 DEF Prepares, Prepare
  <1>2. /\ PoolSound(CachedBlocks)' /\ b \in Blocks /\ b \notin Lent(CachedBlocks)
        /\ Lent(CachedBlocks)' = Lent(CachedBlocks) \cup {b}
    BY AllocLends DEF Prepares, Places
  <1>3. b \notin PoolBlocks /\ b \notin Carried /\ b \notin others /\ b \notin DOMAIN head
        /\ b \in Nat /\ b > 0 /\ b # PoolStart /\ SizeOf(b) = BlockSize
    <2>1. b \notin PoolBlocks /\ b \notin Carried /\ b \notin others
      BY <1>2 DEF Places
    <2>2. b \in Nat /\ b > 0 /\ b # PoolStart
      BY <1>2, OneBlock DEF NullPtr
    <2> QED
      BY <2>1, <2>2, KnownBlocks DEF PoolAndCache, SizeOf
  <1>4. BlockOK(b, h, {}) /\ h.element_used_cnt = 0
    <2>1. BlockOK(b, h, {})
      BY <1>0, <1>3, InitOK
    <2> QED
      BY <2>1, FS_EmptySet DEF BlockOK
  <1>5. DOMAIN head \subseteq Blocks \cup {PoolStart}
    BY KnownBlocks
  <1>6. Taken(b) = {}
    <2>1. Owned \subseteq Nat /\ \A e \in Owned : \E c \in DOMAIN head : In(c, e)
      BY OwnedPlaces
    <2>2. \A e \in Nat, c \in DOMAIN head : ~(In(c, e) /\ In(b, e))
      BY <1>2, <1>3, <1>5, OneBlock
    <2> QED
      BY <2>1, <2>2 DEF Taken
  <1>7. p \in Nat /\ (p = NullPtr => ~Roomy /\ BlockOK(b, AfterAlloc(h), {}))
        /\ (p # NullPtr => In(b, p) /\ BlockOK(b, AfterAlloc(h), {p}))
    <2>1. CASE Full(h)
      <3>1. p = NullPtr /\ AfterAlloc(h) = h
        BY <1>0, <1>3, <1>4, <2>1, AllocOK
      <3>2. MaxOf(b) = 0
        BY <1>3, <1>4, <2>1, NextOffset
      <3>3. ~Roomy
        BY <1>3, <3>2 DEF Roomy, MaxOf
      <3> QED
        BY <1>4, <3>1, <3>3 DEF NullPtr
    <2>2. CASE ~Full(h)
      <3>1. p # NullPtr /\ In(b, p) /\ p \in Nat /\ BlockOK(b, AfterAlloc(h), {} \cup {p})
        BY <1>0, <1>3, <1>4, <2>2, AllocOK
      <3>2. {} \cup {p} = {p}
        OBVIOUS
      <3> QED
        BY <3>1, <3>2
    <2> QED
      BY <2>1, <2>2
  <1>8. /\ pc'[t] = "add" /\ local'[t].block = b /\ local'[t].ptr = p /\ Others(t)
        /\ pc' \in [Threads -> {"idle", "take", "heap", "add", "release", "crashed"}]
        /\ local' \in [Threads -> [block : Blocks \cup {NullPtr}, ptr : Nat]]
    BY <1>1, <1>2, <1>7 DEF Types, Others
  <1>9. /\ Carried' = Carried \cup {b} /\ CarriedOnce' /\ Added' = Added \cup {b}
        /\ Pending' = Pending \cup ({p} \ {NullPtr})
    BY <1>1, <1>3, <1>8, Carries DEF Places, IsCarrying
  <1>10. \A u \in Adding' : u = t \/ (u \in Adding /\ local'[u] = local[u])
    BY <1>8 DEF Adding, Others
  <1>11. PoolBlocks' = PoolBlocks /\ DOMAIN head' = DOMAIN head \cup {b}
    BY <1>1 DEF PoolBlocks
  <1>12. head'[b] = AfterAlloc(h) /\ \A c \in DOMAIN head : head'[c] = head[c]
    BY <1>1, <1>3
  <1>13. BlockOK(b, AfterAlloc(h), Taken(b)') /\ \A c \in Blocks \cup {PoolStart} : c # b => Taken(c)' = Taken(c)
    <2>1. CASE p = NullPtr
      <3>1. Owned' = Owned
        BY <1>1, <1>9, <2>1 DEF Owned
      <3>2. \A c : Taken(c)' = Taken(c)
        BY <3>1 DEF Taken, In
      <3> QED
        BY <1>6, <1>7, <2>1, <3>2
    <2>2. CASE p # NullPtr
      <3>1. Owned' = Owned \cup {p}
        BY <1>1, <1>9, <2>2 DEF Owned
      <3>2. Taken(b)' = Taken(b) \cup {p} /\ \A c \in Blocks \cup {PoolStart} : c # b => Taken(c)' = Taken(c)
        BY <1>2, <1>7, <2>2, <3>1, TakenMoves
      <3>3. Taken(b)' = {p}
        BY <1>6, <3>2
      <3> QED
        BY <1>7, <2>2, <3>2, <3>3
    <2> QED
      BY <2>1, <2>2
  <1>14. Types'
    BY <1>1, <1>8 DEF Types
  <1>15. Places'
    BY <1>1, <1>2, <1>3, <1>9, <1>11 DEF Places
  <1>16. Elements'
    <2>1. ASSUME NEW c \in DOMAIN head' PROVE BlockOK(c, head'[c], Taken(c)')
      <3>1. CASE c = b
        BY <1>12, <1>13, <3>1
      <3>2. CASE c # b
        BY <1>5, <1>11, <1>12, <1>13, <3>2 DEF Elements
      <3> QED
        BY <3>1, <3>2
    <2>2. \A e \in live' : \E c \in PoolBlocks' \cup {PoolStart} : In(c, e)
      BY <1>1, <1>11 DEF Elements
    <2>3. \A u \in Adding' : local'[u].ptr # NullPtr => In(local'[u].block, local'[u].ptr)
      BY <1>7, <1>8, <1>10 DEF Elements
    <2> QED
      BY <2>1, <2>2, <2>3 DEF Elements, BlockOK, In
  <1>17. Links'
    <2>1. \A c \in PoolBlocks : head'[c] = head[c]
      BY <1>12, KnownBlocks DEF PoolAndCache
    <2> QED
      BY <1>1, <1>11, <2>1 DEF Links
  <1>18. Counted'
    <2>1. ASSUME Roomy, NEW c \in PoolBlocks PROVE Taken(c)' # {}
      <3>1. Taken(c) # {} /\ c \in Blocks /\ c # b
        BY <1>3, <2>1, KnownBlocks DEF Counted
      <3> QED
        BY <1>13, <3>1
    <2>2. ASSUME Roomy, NEW u \in Adding' PROVE local'[u].ptr # NullPtr
      BY <1>7, <1>8, <1>10, <2>2 DEF Counted
    <2> QED
      BY <1>1, <1>11, <2>1, <2>2 DEF Counted, Roomy
  <1> QED
    BY <1>14, <1>15, <1>16, <1>17, <1>18

\* The second critical section: the block and its first element change hands.
LEMMA AddKeeps ==
    ASSUME Invariant, NEW t \in Threads, AddBlock(t)
    PROVE  Invariant'
  <1> USE DEF Invariant
  <1>0. PICK b, p : b = local[t].block /\ p = local[t].ptr
    OBVIOUS
  <1>1. /\ pc[t] = "add" /\ m_blocks' = m_blocks \cup {b + BlockSize} /\ link' = ListAddHead(link, b, m_free_list)
        /\ m_used_cnt' = m_used_cnt + 1 /\ live' = live \cup ({p} \ {NullPtr})
        /\ pc' = [pc EXCEPT ![t] = "idle"] /\ local' = [local EXCEPT ![t] = NoLocal]
        /\ UNCHANGED <<m_free_blocks, heap, head, others>>
    BY <1>0 DEF AddBlock, blockPoolVars
  <1>2. t \in Adding /\ t \in Carrying /\ b \in Added /\ b \in Carried /\ p \in Nat
        /\ (p # NullPtr => p \in Pending /\ In(b, p))
    <2>1. t \in Adding /\ t \in Carrying
      BY <1>1 DEF Adding, Carrying
    <2>2. p \in Nat
      BY <1>0 DEF Types
    <2> QED
      BY <1>0, <2>1, <2>2, CarriedBlocks DEF Elements
  <1>3. b \in Blocks /\ b \notin PoolBlocks /\ b \in DOMAIN head /\ DOMAIN head \subseteq Blocks \cup {PoolStart}
    BY <1>2, KnownBlocks DEF PoolAndCache
  <1>4. /\ pc'[t] = "idle" /\ Others(t)
        /\ pc' \in [Threads -> {"idle", "take", "heap", "add", "release", "crashed"}]
        /\ local' \in [Threads -> [block : Blocks \cup {NullPtr}, ptr : Nat]]
    BY <1>1 DEF Types, Others, NoLocal, NullPtr
  <1>5. /\ Carried' = Carried \ {b} /\ CarriedOnce' /\ Added' = Added \ {b}
        /\ Pending \subseteq Pending' \cup ({p} \ {NullPtr}) /\ Pending' \subseteq Pending
    BY <1>0, <1>1, <1>4, Carries DEF Places, IsCarrying
  <1>6. PoolBlocks' = PoolBlocks \cup {b}
    BY <1>1, <1>3, PoolChanges DEF Types
  <1>7. Owned' = Owned
    BY <1>1, <1>2, <1>5 DEF Owned
  <1>8. \A c : Taken(c)' = Taken(c)
    BY <1>7 DEF Taken, In
  <1>9. \A u \in Adding' : u \in Adding /\ local'[u] = local[u]
    BY <1>4 DEF Adding, Others
  <1>10. IsFiniteSet(live') /\ (p # NullPtr => Cardinality(live') = Cardinality(live) + 1)
    <2>1. CASE p = NullPtr
      BY <1>1, <2>1 DEF Types
    <2>2. CASE p # NullPtr
      <3>1. p \notin live /\ live' = live \cup {p}
        BY <1>1, <1>2, <2>2, OwnedPlaces
      <3> QED
        BY <3>1, FS_AddElement DEF Types
    <2> QED
      BY <2>1, <2>2
  <1>11. Types'
    <2>0. live \subseteq Nat \ {NullPtr} /\ m_used_cnt \in Int /\ others \subseteq Blocks
      BY DEF Types
    <2>1. live' \subseteq Nat \ {NullPtr}
      BY <1>1, <1>2, <2>0
    <2>2. PICK ends : ends = {c + BlockSize : c \in Blocks} /\ b + BlockSize \in ends
      BY <1>3
    <2>3. m_blocks' \subseteq ends
      BY <1>1, <2>2 DEF Types
    <2> QED
      BY <1>1, <1>4, <1>10, <2>0, <2>1, <2>2, <2>3 DEF Types
  <1>12. Places'
    BY <1>1, <1>2, <1>3, <1>5, <1>6 DEF Places, PoolSound, Lent
  <1>13. Elements'
    <2>1. ASSUME NEW c \in DOMAIN head' PROVE BlockOK(c, head'[c], Taken(c)')
      BY <1>1, <1>8 DEF Elements
    <2>2. \A e \in live' : \E c \in PoolBlocks' \cup {PoolStart} : In(c, e)
      BY <1>1, <1>2, <1>6 DEF Elements
    <2>3. \A u \in Adding' : local'[u].ptr # NullPtr => In(local'[u].block, local'[u].ptr)
      BY <1>9 DEF Elements
    <2> QED
      BY <2>1, <2>2, <2>3 DEF Elements, BlockOK, In
  <1>14. Links'
    <2>0. PICK D : D = {m_free_list, m_full_list} \cup PoolBlocks
      OBVIOUS
    <2>1. PICK F \in SUBSET ({m_free_list} \cup PoolBlocks) :
             /\ m_free_list \in F /\ Grouped(link, D, F)
             /\ \A c \in PoolBlocks \ F : Full(head[c])
      BY <2>0 DEF Links
    <2>2. IsMap(link, D) /\ Joined(link, D)
      BY <2>0 DEF Links
    <2>3. b \notin D /\ b \notin F
      BY <1>3, <2>0, <2>1, MemoryPoolAssumption
    <2>4. Inserted(link', link, D, b, m_free_list)
      <3>1. DOMAIN link = D
        BY <2>2 DEF IsMap
      <3> QED
        BY <1>1, <2>0, <2>3, <3>1 DEF Inserted, ListAddHead
    <2>5. PICK g : g = link' /\ Inserted(g, link, D, b, m_free_list)
      BY <2>4
    <2>6. IsMap(g, D \cup {b}) /\ Joined(g, D \cup {b}) /\ Grouped(g, D \cup {b}, F \cup {b})
      BY <2>1, <2>2, <2>3, <2>5, InsertJoined
    <2>7. D \cup {b} = {m_free_list, m_full_list} \cup PoolBlocks'
      BY <1>6, <2>0
    <2>8. F \cup {b} \in SUBSET ({m_free_list} \cup PoolBlocks') /\ m_free_list \in F \cup {b}
      BY <1>6, <2>1
    <2>9. \A c \in PoolBlocks' \ (F \cup {b}) : Full(head'[c])
      BY <1>1, <1>6, <2>1
    <2> QED
      BY <2>5, <2>6, <2>7, <2>8, <2>9 DEF Links
  <1>15. Counted'
    <2>1. ASSUME Roomy PROVE p # NullPtr /\ m_used_cnt' = Cardinality(live')
      BY <1>0, <1>1, <1>2, <1>10, <2>1 DEF Counted
    <2>2. ASSUME Roomy, NEW c \in PoolBlocks' PROVE Taken(c)' # {}
      <3>1. p \in Taken(b)
        BY <1>2, <2>1, <2>2 DEF Taken, Owned
      <3> QED
        BY <1>6, <1>8, <2>2, <3>1 DEF Counted
    <2>3. ASSUME Roomy, NEW u \in Adding' PROVE local'[u].ptr # NullPtr
      BY <1>9, <2>3 DEF Counted
    <2> QED
      BY <2>1, <2>2, <2>3 DEF Counted, Roomy
  <1> QED
    BY <1>11, <1>12, <1>13, <1>14, <1>15

-----------------------------------------------------------------------------
(***************************************************************************)
(* Blocks that go back, and the BlockPool's other users.                   *)
(***************************************************************************)
\* The empty block that left the pool goes back to the BlockPool.
LEMMA ReleaseKeeps ==
    ASSUME Invariant, NEW t \in Threads, ReleaseBlock(t)
    PROVE  Invariant'
  <1> USE DEF Invariant
  <1>0. PICK b : b = local[t].block
    OBVIOUS
  <1>1. /\ pc[t] = "release" /\ FreeBlock(b) /\ pc' = [pc EXCEPT ![t] = "idle"]
        /\ local' = [local EXCEPT ![t] = NoLocal]
        /\ UNCHANGED <<m_used_cnt, link, m_blocks, head, live, others>>
    BY <1>0 DEF ReleaseBlock, poolVars
  <1>2. b \in Carried /\ b \notin PoolBlocks /\ b \notin others /\ b \in Lent(CachedBlocks)
    <2>1. t \in Carrying
      BY <1>1 DEF Carrying
    <2>2. b \in Carried
      BY <1>0, <2>1, CarriedBlocks
    <2> QED
      BY <2>2 DEF Places
  <1>3. PoolSound(CachedBlocks)' /\ Lent(CachedBlocks)' = Lent(CachedBlocks) \ {b}
    BY <1>1, <1>2, FreeTakesBack DEF Places
  <1>4. /\ pc'[t] = "idle" /\ Others(t)
        /\ pc' \in [Threads -> {"idle", "take", "heap", "add", "release", "crashed"}]
        /\ local' \in [Threads -> [block : Blocks \cup {NullPtr}, ptr : Nat]]
    BY <1>1 DEF Types, Others, NoLocal, NullPtr
  <1>5. Carried' = Carried \ {b} /\ CarriedOnce' /\ Added' = Added
    BY <1>0, <1>1, <1>4, Carries DEF Places, IsCarrying
  <1>6. Elsewhere
    BY <1>1, <1>4 DEF Elsewhere, Adding, Others
  <1>7. PoolBlocks' = PoolBlocks /\ Elements' /\ Counted' /\ Links'
    BY <1>1, <1>6, ElementsStay
  <1>8. Types'
    BY <1>1, <1>4 DEF Types
  <1>9. Places'
    BY <1>1, <1>2, <1>3, <1>5, <1>7 DEF Places
  <1> QED
    BY <1>7, <1>8, <1>9

\* Another user takes a block that nobody has, or returns one of its own.
LEMMA OthersKeep ==
    ASSUME Invariant, NEW b, OthersTake(b) \/ (b \in others /\ OthersReturn(b))
    PROVE  Invariant'
  <1> USE DEF Invariant
  <1>1. UNCHANGED <<m_used_cnt, link, m_blocks, head, pc, local, live>>
    BY DEF OthersTake, OthersReturn, poolVars, threadVars
  <1>2. Adding' = Adding /\ Carrying' = Carrying
    BY <1>1 DEF Adding, Carrying
  <1>3. Carried' = Carried /\ Added' = Added /\ CarriedOnce'
    BY <1>1, <1>2 DEF Carried, Added, CarriedOnce, Places
  <1>4. Elsewhere
    BY <1>1, <1>2 DEF Elsewhere
  <1>5. PoolBlocks' = PoolBlocks /\ Elements' /\ Counted' /\ Links'
    BY <1>1, <1>4, ElementsStay
  <1>6. CASE OthersTake(b)
    <2>1. (AllocCached(b) \/ AllocHeap(b)) /\ others' = others \cup {b}
      BY <1>6 DEF OthersTake, AllocBlock
    <2>2. /\ PoolSound(CachedBlocks)' /\ b \in Blocks /\ b \notin Lent(CachedBlocks)
          /\ Lent(CachedBlocks)' = Lent(CachedBlocks) \cup {b}
      BY <2>1, AllocLends DEF Places
    <2>3. Types'
      BY <1>1, <2>1, <2>2 DEF Types
    <2>4. Places'
      BY <1>1, <1>3, <1>5, <2>1, <2>2 DEF Places
    <2> QED
      BY <1>5, <2>3, <2>4
  <1>7. CASE b \in others /\ OthersReturn(b)
    <2>1. FreeBlock(b) /\ others' = others \ {b} /\ b \in Lent(CachedBlocks)
      BY <1>7 DEF OthersReturn, Places
    <2>2. PoolSound(CachedBlocks)' /\ Lent(CachedBlocks)' = Lent(CachedBlocks) \ {b}
      BY <2>1, FreeTakesBack DEF Places
    <2>3. Types'
      BY <1>1, <2>1 DEF Types
    <2>4. Places'
      BY <1>1, <1>3, <1>5, <1>7, <2>1, <2>2 DEF Places
    <2> QED
      BY <1>5, <2>3, <2>4
  <1> QED
    BY <1>6, <1>7

-----------------------------------------------------------------------------
(***************************************************************************)
(* The invariant holds.                                                    *)
(***************************************************************************)
\* After Init the pool has its own block, and the BlockPool all others.
LEMMA InvariantInit == Init => Invariant
  <1> SUFFICES ASSUME Init PROVE Invariant
    OBVIOUS
  <1>1. /\ m_free_blocks = CacheBlocks /\ heap = {} /\ m_used_cnt = 0 /\ m_blocks = {} /\ live = {} /\ others = {}
        /\ link = [l \in {m_free_list, m_full_list} |-> NewList(l)]
        /\ head = [b \in {PoolStart} |-> MemoryBlockInit(total_size)]
        /\ pc = [t \in Threads |-> "idle"] /\ local = [t \in Threads |-> NoLocal]
    BY DEF Init, BlockPoolInit
  <1>2. PoolBlocks = {} /\ Adding = {} /\ Carrying = {}
    BY <1>1 DEF PoolBlocks, Adding, Carrying
  <1>3. Carried = {} /\ Added = {} /\ Pending = {} /\ CarriedOnce
    BY <1>2 DEF Carried, Added, Pending, CarriedOnce
  <1>4. Owned = {} /\ \A b : Taken(b) = {}
    BY <1>1, <1>3 DEF Owned, Taken
  <1>5. Types
    BY <1>1, FS_EmptySet DEF Types, NoLocal, NullPtr
  <1>6. Places
    BY <1>1, <1>2, <1>3, CacheBlocksSound DEF Places, PoolSound, Lent
  <1>7. Elements
    <2>1. PoolStart \in Nat /\ SizeOf(PoolStart) = total_size
      BY Sizes DEF SizeOf
    <2>2. BlockOK(PoolStart, MemoryBlockInit(total_size), {})
      BY <2>1, InitOK
    <2>3. DOMAIN head = {PoolStart} /\ head[PoolStart] = MemoryBlockInit(total_size)
      BY <1>1
    <2> QED
      BY <1>1, <1>2, <1>4, <2>2, <2>3 DEF Elements
  <1>8. Links
    <2>1. PICK D : D = {m_free_list, m_full_list} /\ D = {m_free_list, m_full_list} \cup PoolBlocks
      BY <1>2
    <2>2. IsMap(link, D)
      BY <1>1, <2>1 DEF IsMap
    <2>3. \A n \in D : link[n] \in [next : D, prev : D] /\ link[n].next = n /\ link[n].prev = n
      BY <1>1, <2>1 DEF NewList
    <2>4. Joined(link, D)
      BY <2>3 DEF Joined
    <2>5. Grouped(link, D, {m_free_list})
      BY <2>3 DEF Grouped
    <2> QED
      BY <1>2, <2>1, <2>2, <2>4, <2>5 DEF Links
  <1>9. Counted
    BY <1>1, <1>2, FS_EmptySet DEF Counted
  <1> QED
    BY <1>5, <1>6, <1>7, <1>8, <1>9 DEF Invariant

\* Each step keeps it.
LEMMA InvariantNext == Invariant /\ [Next]_vars => Invariant'
  <1> SUFFICES ASSUME Invariant, [Next]_vars PROVE Invariant'
    OBVIOUS
  <1>1. ASSUME NEW t \in Threads, Step(t) PROVE Invariant'
    <2>1. CASE AllocFromCache(t) \/ AllocFromFirst(t)
      BY <2>1, AllocMoves, AllocKeeps
    <2>2. CASE AllocMiss(t)
      BY <2>2, MissKeeps
    <2>3. CASE TakeCached(t) \/ TakeHeap(t)
      <3>1. \E b : Prepares(t, b)
        BY <2>3 DEF TakeCached, TakeHeap, Prepares
      <3> QED
        BY <3>1, PrepareKeeps
    <2>4. CASE TakeMiss(t) \/ TakeFails(t)
      BY <2>4, TakeMissKeeps
    <2>5. CASE AddBlock(t)
      BY <2>5, AddKeeps
    <2>6. CASE \E e \in live : FreeToCache(t, e) \/ FreeToBlock(t, e)
      <3>1. PICK e \in live : FreeToCache(t, e) \/ FreeToBlock(t, e)
        BY <2>6
      <3>2. PICK b \in PoolAndCache : FreeStays(b, e) \/ FreeEmpties(t, b, e)
        BY <3>1, FreeMoves
      <3>3. CASE FreeStays(b, e)
        BY <3>3, FreeStaysKeeps
      <3>4. CASE FreeEmpties(t, b, e)
        <4>1. b \in PoolBlocks
          BY <3>4 DEF FreeEmpties
        <4> QED
          BY <3>4, <4>1, FreeEmptiesKeeps
      <3> QED
        BY <3>2, <3>3, <3>4
    <2>7. CASE ReleaseBlock(t)
      BY <2>7, ReleaseKeeps
    <2> QED
      BY <1>1, <2>1, <2>2, <2>3, <2>4, <2>5, <2>6, <2>7 DEF Step
  <1>2. ASSUME NEW b, OthersTake(b) \/ (b \in others /\ OthersReturn(b)) PROVE Invariant'
    BY <1>2, OthersKeep
  <1>3. CASE UNCHANGED vars
    <2>1. /\ UNCHANGED <<m_free_blocks, heap, m_used_cnt, link, m_blocks, head, pc, local, live, others>>
          /\ Adding' = Adding /\ Carrying' = Carrying
      BY <1>3 DEF vars, blockPoolVars, poolVars, threadVars, Adding, Carrying
    <2>2. Elsewhere
      BY <2>1 DEF Elsewhere
    <2>3. Carried' = Carried /\ Added' = Added /\ CarriedOnce'
      BY <2>1 DEF Carried, Added, CarriedOnce, Invariant, Places
    <2>4. PoolBlocks' = PoolBlocks /\ Elements' /\ Counted' /\ Links'
      BY <2>1, <2>2, ElementsStay
    <2>5. Types'
      BY <2>1 DEF Invariant, Types
    <2>6. Places'
      BY <2>1, <2>3, <2>4 DEF Invariant, Places, PoolSound, Lent
    <2> QED
      BY <2>4, <2>5, <2>6 DEF Invariant
  <1> QED
    BY <1>1, <1>2, <1>3 DEF Next

\* The invariant holds in every reachable state.
THEOREM MemoryPoolInvariant == Spec => []Invariant
  BY InvariantInit, InvariantNext, PTL DEF Spec

-----------------------------------------------------------------------------
(***************************************************************************)
(* What it gives.                                                          *)
(***************************************************************************)
\* The blocks out of the BlockPool, split three ways, are the blocks of BlocksConserved.
LEMMA Conserved == Invariant => BlocksConserved
  <1> SUFFICES ASSUME Invariant PROVE BlocksConserved
    OBVIOUS
  <1>1. PICK A, B, C, D : /\ A = ToSet(m_free_blocks) /\ B = PoolBlocks /\ C = HeldBlocks({"add", "release"})
                          /\ D = others
    OBVIOUS
  <1>2. PICK places : places = <<A, B, C, D>>
    OBVIOUS
  <1>3. /\ C = Carried
        /\ (CachedBlocks \cup heap) \ A = B \cup C \cup D
        /\ B \cap C = {} /\ B \cap D = {} /\ C \cap D = {}
    BY <1>1, CarriedBlocks DEF Invariant, Places, Lent
  <1>4. A \subseteq CachedBlocks /\ IsInjective(m_free_blocks)
    BY <1>1 DEF Invariant, Places, PoolSound, ToSet
  <1>5. places[1] = A /\ places[2] = B /\ places[3] = C /\ places[4] = D
    BY <1>2
  <1>6. A \cap B = {} /\ A \cap C = {} /\ A \cap D = {} /\ A \cup B \cup C \cup D = CachedBlocks \cup heap
    BY <1>3, <1>4
  <1>7. \A i \in 1 .. 4 : i = 1 \/ i = 2 \/ i = 3 \/ i = 4
    OBVIOUS
  <1>8. \A i, j \in 1 .. 4 : i # j => places[i] \cap places[j] = {}
    BY <1>3, <1>5, <1>6, <1>7
  <1>9. UNION {places[i] : i \in 1 .. 4} = CachedBlocks \cup heap
    <2>1. \A x : x \in UNION {places[i] : i \in 1 .. 4} <=> \E i \in 1 .. 4 : x \in places[i]
      OBVIOUS
    <2>2. \A x : (\E i \in 1 .. 4 : x \in places[i]) <=> x \in A \cup B \cup C \cup D
      BY <1>5, <1>7
    <2> QED
      BY <1>6, <2>1, <2>2
  <1>10. \A t, u \in Threads :
           (t # u /\ {pc[t], pc[u]} \subseteq {"add", "release"}) => local[t].block # local[u].block
    BY DEF Invariant, Places, CarriedOnce, Carrying
  <1> QED
    BY <1>1, <1>2, <1>4, <1>8, <1>9, <1>10, Zenon DEF BlocksConserved

\* For any number of threads and blocks, at every moment of the steps that
\* Alloc and Free make outside m_mutex, no block is in two places and none is lost.
THEOREM BlocksConservedHolds == Spec => []BlocksConserved
  BY MemoryPoolInvariant, Conserved, PTL

\* An element in use is a carved one of the block that Free finds, and is not on its chain.
LEMMA Safe == Invariant => LiveElementsSafe
  <1> SUFFICES ASSUME Invariant, NEW e \in live
               PROVE  \E b : /\ b = IF InCache(e) THEN PoolStart ELSE FindMemoryBlock(e)
                             /\ b \in PoolBlocks \cup {PoolStart}
                             /\ b + HeadSize <= e /\ e + m_element_size <= b + head[b].block_size
                             /\ e < b + head[b].next_element_offset
                             /\ (b + head[b].block_size - e) % m_element_size = 0
                             /\ e \notin ToSet(head[b].free)
    BY DEF LiveElementsSafe
  <1> USE DEF Invariant
  <1>1. PICK b \in PoolBlocks \cup {PoolStart} : In(b, e)
    BY DEF Elements
  <1>2. e \in Nat /\ b \in DOMAIN head /\ b \in Nat /\ b \in Blocks \cup {PoolStart}
    BY KnownBlocks DEF Types, PoolAndCache
  <1>3. b = IF InCache(e) THEN PoolStart ELSE FindMemoryBlock(e)
    <2>1. InCache(e) <=> b = PoolStart
      BY <1>1, <1>2, OneBlock
    <2>2. b # PoolStart => FindMemoryBlock(e) = b
      BY <1>1, <1>2, FindsBlock DEF Types
    <2> QED
      BY <2>1, <2>2
  <1>4. BlockOK(b, head[b], Taken(b)) /\ e \in Taken(b)
    BY <1>1, <1>2 DEF Elements, Taken, Owned
  <1>5. Carved(b, head[b], e) /\ head[b].block_size = SizeOf(b) /\ e \notin ToSet(head[b].free)
    BY <1>4 DEF BlockOK, ToSet
  <1>6. /\ head[b].next_element_offset \in Nat /\ head[b].next_element_offset <= SizeOf(b)
        /\ SizeOf(b) \in Nat /\ m_element_size \in Nat
    BY <1>2, <1>4, NextOffset, Capacity, Sizes
  <1>7. b + HeadSize <= e /\ e < b + head[b].next_element_offset /\ OnGrid(b + SizeOf(b) - e)
    BY <1>5 DEF Carved
  <1>8. (b + SizeOf(b) - e) % m_element_size = 0
    BY <1>7, Grid
  <1>9. e + m_element_size <= b + SizeOf(b)
    <2>1. 0 < b + SizeOf(b) - e
      BY <1>2, <1>6, <1>7
    <2>2. 0 + m_element_size <= b + SizeOf(b) - e
      BY <1>7, <2>1, Grid
    <2> QED
      BY <1>2, <1>6, <2>2
  <1> QED
    BY <1>3, <1>5, <1>7, <1>8, <1>9

\* For any element size and any sizes of the blocks: what a caller holds is
\* never handed out again, and Free returns it to its own block.
THEOREM LiveElementsSafeHolds == Spec => []LiveElementsSafe
  BY MemoryPoolInvariant, Safe, PTL

\* The counters of a block count the elements in it.
LEMMA InBlock ==
    ASSUME Invariant, NEW b \in PoolBlocks \cup {PoolStart}
    PROVE  /\ b \in DOMAIN head /\ b \in Nat /\ BlockOK(b, head[b], Taken(b))
           /\ ElementsOf(b) = Taken(b) /\ head[b].element_used_cnt = Cardinality(ElementsOf(b))
  <1> USE DEF Invariant
  <1>1. b \in DOMAIN head /\ b \in Nat
    BY KnownBlocks DEF PoolAndCache
  <1>2. BlockOK(b, head[b], Taken(b))
    BY <1>1 DEF Elements
  <1>3. head[b].block_size = SizeOf(b) /\ head[b].element_used_cnt = Cardinality(Taken(b))
    BY <1>2 DEF BlockOK
  <1>4. Taken(b) = {e \in live : In(b, e)}
    BY OwnedPlaces DEF PoolAndCache
  <1>5. ElementsOf(b) = Taken(b)
    BY <1>3, <1>4 DEF ElementsOf, In
  <1> QED
    BY <1>1, <1>2, <1>3, <1>5

\* The types, of which the ranges of counters and offsets are not obvious.
LEMMA Typed == Invariant /\ Roomy => TypeOK
  <1> SUFFICES ASSUME Invariant, Roomy PROVE TypeOK
    OBVIOUS
  <1> USE DEF Invariant
  <1>1. BlockPoolTypeOK
    BY DEF Places, PoolSound, BlockPoolTypeOK
  <1>2. m_used_cnt \in Nat
    BY FS_CardinalityType DEF Counted, Types
  <1>3. PICK D : D = {m_free_list, m_full_list} \cup PoolBlocks
    OBVIOUS
  <1>4. DOMAIN link = D /\ \A n \in D : link[n] \in [next : D, prev : D]
    BY <1>3 DEF Links, IsMap, Joined
  <1>5. PoolBlocks \subseteq Blocks /\ DOMAIN head \subseteq Blocks \cup {PoolStart} /\ DOMAIN head \subseteq Nat
    BY KnownBlocks
  <1>6. ASSUME NEW b \in DOMAIN head
        PROVE  /\ head[b].element_used_cnt \in 0 .. head[b].max_element_num
               /\ head[b].next_element_offset \in HeadSize .. head[b].block_size
               /\ head[b].free \in Seq(b .. b + head[b].block_size - 1)
    <2>0. b \in Nat /\ BlockOK(b, head[b], Taken(b))
      BY <1>5 DEF Elements
    <2>1. /\ head[b] \in HeadState /\ head[b].max_element_num = MaxOf(b) /\ head[b].block_size = SizeOf(b)
          /\ \A i \in DOMAIN head[b].free : Carved(b, head[b], head[b].free[i])
      BY <2>0 DEF BlockOK
    <2>2. /\ head[b].next_element_offset \in Nat /\ head[b].next_element_offset <= SizeOf(b)
          /\ HeadSize <= head[b].next_element_offset /\ head[b].element_used_cnt \in 0 .. MaxOf(b)
      BY <2>0, NextOffset
    <2>3. SizeOf(b) \in Nat
      BY Capacity
    <2>4. PICK f : f = head[b].free /\ f \in Seq(Nat)
      BY <2>1 DEF HeadState
    <2>5. ASSUME NEW i \in DOMAIN f PROVE f[i] \in b .. b + SizeOf(b) - 1
      <3>1. f[i] \in Nat /\ b + HeadSize <= f[i] /\ f[i] < b + head[b].next_element_offset
        BY <2>1, <2>4 DEF Carved
      <3> QED
        BY <2>0, <2>2, <2>3, <3>1 DEF HeadSize
    <2>6. f \in Seq(b .. b + SizeOf(b) - 1)
      <3>1. PICK S : S = b .. b + SizeOf(b) - 1 /\ \A i \in DOMAIN f : f[i] \in S
        BY <2>5
      <3>2. PICK n \in Nat : n = Len(f) /\ f \in [1 .. n -> Nat]
        BY <2>4
      <3>3. f \in [1 .. n -> S]
        BY <3>1, <3>2
      <3>4. f \in Seq(S)
        BY <3>3
      <3> QED
        BY <3>1, <3>4
    <2> QED
      BY <2>1, <2>2, <2>3, <2>4, <2>6 DEF HeadSize
  <1> QED
    BY <1>1, <1>2, <1>3, <1>4, <1>5, <1>6 DEF TypeOK, Types

\* If a block of the BlockPool has room for an element, the counters are exact:
\* element_used_cnt does not wrap, and a block is empty when it says so.
THEOREM CountsExactHolds == ASSUME Roomy PROVE Spec => []CountsExact
  <1>1. Invariant => CountsExact
    BY InBlock, Typed DEF CountsExact, Invariant, Counted
  <1> QED
    BY <1>1, MemoryPoolInvariant, PTL

\* Under the same condition no block stays in the pool without an element in use.
THEOREM EmptyBlocksReturnedHolds == ASSUME Roomy PROVE Spec => []EmptyBlocksReturned
  <1>1. Invariant => EmptyBlocksReturned
    BY InBlock DEF EmptyBlocksReturned, Invariant, Counted
  <1> QED
    BY <1>1, MemoryPoolInvariant, PTL

-----------------------------------------------------------------------------
(***************************************************************************)
(* A walk along a list.                                                    *)
(***************************************************************************)
\* u goes n nodes on from list,
Walk(u, lk, list, n) == u[0] = list /\ \A i \in 1 .. n : u[i] = lk[u[i - 1]].next

\* which is possible for any n,
LEMMA WalkExists ==
    ASSUME NEW D, NEW lk, Joined(lk, D), NEW list \in D, NEW n \in Nat
    PROVE  \E u \in [0 .. n -> D] : Walk(u, lk, list, n)
  <1> DEFINE step == [p \in (1 .. n) \X D |-> lk[p[2]].next]
  <1>1. \A c \in D : lk[c].next \in D
    BY DEF Joined
  <1>2. step \in [(1 .. n) \X D -> D] /\ \A i \in 1 .. n, c \in D : step[<<i, c>>] = lk[c].next
    BY <1>1
  <1> HIDE DEF step
  <1>3. PICK u \in [0 .. n -> D] : Steps(u, list, step, n)
    BY <1>2, StepsExist
  <1>4. \A i \in 1 .. n : u[i - 1] \in D
    <2>1. \A i \in 1 .. n : i - 1 \in 0 .. n
      OBVIOUS
    <2> QED
      BY <2>1
  <1>5. u[0] = list /\ \A i \in 1 .. n : u[i] = step[<<i, u[i - 1]>>]
    BY <1>3 DEF Steps
  <1>6. \A i \in 1 .. n : u[i] = lk[u[i - 1]].next
    BY <1>2, <1>4, <1>5
  <1> QED
    BY <1>5, <1>6 DEF Walk

\* and never forks backwards.
LEMMA NextInjective ==
    ASSUME NEW D, NEW lk, Joined(lk, D), NEW m \in D, NEW n \in D, lk[m].next = lk[n].next
    PROVE  m = n
  BY DEF Joined

\* A node that it meets again after d nodes shows that the list is met after d nodes.
LEMMA WalkBack ==
    ASSUME NEW D, NEW lk, Joined(lk, D), NEW list, NEW n \in Nat, NEW u \in [0 .. n -> D],
           Walk(u, lk, list, n), NEW i \in 0 .. n, NEW d \in 0 .. n, NEW j \in 0 .. n, j = i + d, u[i] = u[j]
    PROVE  u[d] = list
  <1> DEFINE Same == {k \in 0 .. i : u[k] = u[k + d]}
  <1>1. i \in Same /\ Same \in SUBSET Nat
    <2>1. i \in 0 .. i /\ i + d = j
      OBVIOUS
    <2> QED
      BY <2>1
  <1>2. PICK k \in Same : \A m \in Same : k <= m
    <2> HIDE DEF Same
    <2> QED
      BY <1>1, LeastNat
  <1>3. k \in 0 .. i /\ u[k] = u[k + d]
    OBVIOUS
  <1>4. k = 0
    <2> SUFFICES ASSUME k # 0 PROVE FALSE
      OBVIOUS
    <2>1. /\ k \in 1 .. n /\ k + d \in 1 .. n /\ k - 1 \in 0 .. i /\ (k - 1) + d = (k + d) - 1
          /\ k - 1 \in 0 .. n /\ (k + d) - 1 \in 0 .. n
      BY <1>3
    <2>2. PICK a, b : a = u[k - 1] /\ b = u[(k - 1) + d]
      OBVIOUS
    <2>3. u[k] = lk[a].next /\ u[k + d] = lk[b].next
      BY <2>1, <2>2 DEF Walk
    <2>4. a \in D /\ b \in D
      BY <2>1, <2>2
    <2>5. a = b
      BY <1>3, <2>3, <2>4, NextInjective
    <2>6. u[k - 1] = u[(k - 1) + d]
      BY <2>2, <2>5
    <2>7. k - 1 \in Same
      BY <2>1, <2>6
    <2>8. ~ (k <= k - 1)
      BY <2>1
    <2> HIDE DEF Same
    <2> QED
      BY <1>2, <2>7, <2>8
  <1> QED
    BY <1>3, <1>4 DEF Walk

\* Of more places than nodes, two have the same node.
Meets(u, S) == \E x, y \in S : x # y /\ u[x] = u[y]

\* That is the pigeonhole principle.
LEMMA WalkMeets ==
    ASSUME NEW S, NEW D, IsFiniteSet(S), IsFiniteSet(D), Cardinality(D) < Cardinality(S), NEW u \in [S -> D]
    PROVE  Meets(u, S)
  <1>1. \E x, y \in S : x # y /\ u[x] = u[y]
    BY FS_PigeonHole, Zenon
  <1> QED
    BY <1>1 DEF Meets

\* Within as many nodes as there are, it comes back to the list.
LEMMA WalkCloses ==
    ASSUME NEW D, NEW lk, Joined(lk, D), IsFiniteSet(D), NEW list, NEW n, n = Cardinality(D),
           NEW u \in [0 .. n -> D], Walk(u, lk, list, n)
    PROVE  n \in Nat /\ \E k \in 0 .. n - 1 : lk[u[k]].next = list
  <1>1. n \in Nat
    BY FS_CardinalityType
  <1>2. IsFiniteSet(0 .. n) /\ Cardinality(0 .. n) = n + 1
    BY <1>1, FS_Interval
  <1>3. PICK x \in 0 .. n, y \in 0 .. n : x # y /\ u[x] = u[y]
    <2>1. PICK S : S = 0 .. n
      OBVIOUS
    <2>2. IsFiniteSet(S) /\ u \in [S -> D]
      BY <1>2, <2>1
    <2>3. Cardinality(D) < Cardinality(S)
      BY <1>1, <1>2, <2>1
    <2>4. Meets(u, S)
      BY <2>2, <2>3, WalkMeets
    <2> QED
      BY <2>1, <2>4 DEF Meets
  <1>4. PICK i \in 0 .. n, j \in 0 .. n : i < j /\ u[i] = u[j]
    BY <1>1, <1>3
  <1>5. PICK d : d = j - i
    OBVIOUS
  <1>6. d \in 0 .. n /\ i + d = j /\ d - 1 \in 0 .. n - 1 /\ d \in 1 .. n
    BY <1>1, <1>4, <1>5
  <1>7. u[d] = list
    <2>1. d \in 0 .. n /\ j = i + d /\ u[i] = u[j]
      BY <1>4, <1>6
    <2> QED
      BY <1>1, <2>1, WalkBack
  <1>8. lk[u[d - 1]].next = list
    BY <1>6, <1>7 DEF Walk
  <1> QED
    BY <1>1, <1>6, <1>8

\* The walk once around: the last node is the first whose successor is the list.
Round(u, lk, list, k) ==
    /\ Walk(u, lk, list, k) /\ lk[u[k]].next = list
    /\ \A j \in 0 .. k - 1 : lk[u[j]].next # list

\* Nodes walks once around.
Around(lk, D, list) ==
    \E k \in Nat : \E u \in [0 .. k -> D] :
        Round(u, lk, list, k) /\ Nodes(lk, list) = [i \in 1 .. k |-> u[i]]

\* The recursion of Nodes is such a walk.
LEMMA NodesAround ==
    ASSUME NEW D, NEW lk, DOMAIN lk = D, Joined(lk, D), IsFiniteSet(D), NEW list \in D
    PROVE  Around(lk, D, list)
  <1>1. PICK n : n = Cardinality(D)
    OBVIOUS
  <1>2. n \in Nat
    BY <1>1, FS_CardinalityType
  <1>3. PICK u \in [0 .. n -> D] : Walk(u, lk, list, n)
    BY <1>2, WalkExists
  <1>4. PICK q \in 0 .. n - 1 : lk[u[q]].next = list
    BY <1>1, <1>3, WalkCloses
  <1> DEFINE at == CHOOSE f : f = [i \in 0 .. Cardinality(DOMAIN lk) |-> IF i = 0 THEN list ELSE lk[f[i - 1]].next]
             last == CHOOSE i \in DOMAIN at :
                        /\ lk[at[i]].next = list
                        /\ \A j \in 0 .. i - 1 : lk[at[j]].next # list
  <1>5. Nodes(lk, list) = [i \in 1 .. last |-> at[i]]
    BY DEF Nodes
  <1>6. u[0] = list /\ \A i \in 1 .. n : u[i] = lk[u[i - 1]].next
    BY <1>3 DEF Walk
  <1>7. u = [i \in 0 .. Cardinality(DOMAIN lk) |-> IF i = 0 THEN list ELSE lk[u[i - 1]].next]
    <2>1. \A i \in 0 .. n : u[i] = IF i = 0 THEN list ELSE lk[u[i - 1]].next
      <3> SUFFICES ASSUME NEW i \in 0 .. n PROVE u[i] = IF i = 0 THEN list ELSE lk[u[i - 1]].next
        OBVIOUS
      <3>1. i # 0 => i \in 1 .. n
        BY <1>2
      <3> QED
        BY <1>6, <3>1
    <2>2. u = [i \in 0 .. n |-> u[i]]
      OBVIOUS
    <2> QED
      BY <1>1, <2>1, <2>2
  <1>8. at = [i \in 0 .. Cardinality(DOMAIN lk) |-> IF i = 0 THEN list ELSE lk[at[i - 1]].next]
    BY <1>7, Zenon
  <1> HIDE DEF at
  <1>9. DOMAIN at = 0 .. n /\ \A i \in 0 .. n : at[i] = IF i = 0 THEN list ELSE lk[at[i - 1]].next
    BY <1>1, <1>8
  <1> DEFINE Bad == {i \in 0 .. n : at[i] # u[i]}
  <1>10. Bad = {}
    <2> SUFFICES ASSUME Bad # {} PROVE FALSE
      OBVIOUS
    <2>1. PICK i \in Bad : \A j \in Bad : i <= j
      <3>1. Bad \in SUBSET Nat
        BY <1>2
      <3> HIDE DEF Bad
      <3> QED
        BY <3>1, LeastNat
    <2>2. i \in 0 .. n /\ at[i] # u[i]
      OBVIOUS
    <2>3. i # 0
      BY <1>6, <1>9, <2>2
    <2>4. i \in 1 .. n /\ i - 1 \in 0 .. n /\ ~ (i <= i - 1)
      BY <1>2, <2>2, <2>3
    <2>5. i - 1 \notin Bad
      <3> HIDE DEF Bad
      <3> QED
        BY <2>1, <2>4
    <2>6. at[i - 1] = u[i - 1]
      BY <2>4, <2>5
    <2> QED
      BY <1>6, <1>9, <2>2, <2>3, <2>4, <2>6
  <1>11. \A i \in 0 .. n : at[i] = u[i]
    BY <1>10
  <1> HIDE DEF Bad
  <1> DEFINE Ends == {k \in 0 .. n : lk[u[k]].next = list}
  <1>12. PICK k \in Ends : \A j \in Ends : k <= j
    <2>1. Ends \in SUBSET Nat /\ q \in Ends
      BY <1>2, <1>4
    <2> HIDE DEF Ends
    <2> QED
      BY <2>1, LeastNat
  <1>13. k \in 0 .. n /\ lk[u[k]].next = list
    OBVIOUS
  <1>14. \A j \in 0 .. k - 1 : lk[u[j]].next # list
    <2> SUFFICES ASSUME NEW j \in 0 .. k - 1, lk[u[j]].next = list PROVE FALSE
      OBVIOUS
    <2>1. j \in 0 .. n /\ ~ (k <= j)
      BY <1>2, <1>13
    <2>2. j \in Ends
      BY <2>1
    <2> HIDE DEF Ends
    <2> QED
      BY <1>12, <2>1, <2>2
  <1> HIDE DEF Ends
  <1>15. \A i \in DOMAIN at : (lk[at[i]].next = list /\ \A j \in 0 .. i - 1 : lk[at[j]].next # list) <=> i = k
    <2> SUFFICES ASSUME NEW i \in 0 .. n
                 PROVE  (lk[at[i]].next = list /\ \A j \in 0 .. i - 1 : lk[at[j]].next # list) <=> i = k
      BY <1>9
    <2>1. \A j \in 0 .. i - 1 : at[j] = u[j]
      <3>1. \A j \in 0 .. i - 1 : j \in 0 .. n
        BY <1>2
      <3> QED
        BY <1>11, <3>1
    <2>2. at[i] = u[i]
      BY <1>11
    <2>3. CASE i = k
      BY <1>13, <1>14, <2>1, <2>2, <2>3
    <2>4. CASE i < k
      <3>1. i \in 0 .. k - 1
        BY <1>2, <1>13, <2>4
      <3> QED
        BY <1>14, <2>2, <2>4, <3>1
    <2>5. CASE k < i
      <3>1. k \in 0 .. i - 1
        BY <1>2, <1>13, <2>5
      <3> QED
        BY <1>13, <2>1, <2>5, <3>1
    <2>6. i = k \/ i < k \/ k < i
      BY <1>2, <1>13
    <2> QED
      BY <2>3, <2>4, <2>5, <2>6
  <1>16. last = k
    BY <1>9, <1>13, <1>15, Zenon
  <1> HIDE DEF last
  <1>17. PICK v : v = [i \in 0 .. k |-> u[i]]
    OBVIOUS
  <1>18. k \in Nat /\ \A i \in 0 .. k : i \in 0 .. n
    BY <1>2, <1>13
  <1>19. v \in [0 .. k -> D] /\ \A i \in 0 .. k : v[i] = u[i]
    BY <1>17, <1>18
  <1>20. \A i \in 1 .. k : i \in 0 .. k /\ i - 1 \in 0 .. k /\ i \in 1 .. n
    BY <1>2, <1>13
  <1>21. Walk(v, lk, list, k)
    <2>1. v[0] = list
      BY <1>6, <1>18, <1>19
    <2>2. \A i \in 1 .. k : v[i] = lk[v[i - 1]].next
      BY <1>6, <1>19, <1>20
    <2> QED
      BY <2>1, <2>2 DEF Walk
  <1>22. lk[v[k]].next = list /\ \A j \in 0 .. k - 1 : lk[v[j]].next # list
    <2>1. k \in 0 .. k /\ \A j \in 0 .. k - 1 : j \in 0 .. k
      BY <1>18
    <2> QED
      BY <1>13, <1>14, <1>19, <2>1
  <1>23. Nodes(lk, list) = [i \in 1 .. k |-> v[i]]
    <2>1. \A i \in 1 .. k : at[i] = v[i]
      BY <1>11, <1>18, <1>19, <1>20
    <2> QED
      BY <1>5, <1>16, <2>1
  <1>24. Round(v, lk, list, k)
    BY <1>21, <1>22 DEF Round
  <1> QED
    BY <1>18, <1>19, <1>23, <1>24 DEF Around

-----------------------------------------------------------------------------
(***************************************************************************)
(* There is no ring of nodes besides the lists.                            *)
(***************************************************************************)
\* Nodes that are closed under the forward pointers include the start of a
\* list; H are the starts of the lists.
Anchored(lk, D, H) == \A S \in SUBSET D : S # {} /\ (\A n \in S : lk[n].next \in S) => S \cap H # {}

\* The forward pointers after ListDelete.
LEMMA DeleteNexts ==
    ASSUME NEW D, NEW lk, IsMap(lk, D), Joined(lk, D), NEW b \in D, NEW n \in D
    PROVE  ListDelete(lk, b)[n].next = IF n = lk[b].prev THEN lk[b].next ELSE lk[n].next
  <1>1. PICK p, x : p = lk[b].prev /\ x = lk[b].next
    OBVIOUS
  <1>2. p \in D /\ x \in D /\ DOMAIN lk = D /\ lk[n] \in [next : D, prev : D]
    BY <1>1 DEF Joined, IsMap
  <1>3. PICK g : g = ListDelete(lk, b) /\ g = [lk EXCEPT ![x].prev = p, ![p].next = x]
    BY <1>1 DEF ListDelete, ListDelete_
  <1>4. PICK m : m = [lk EXCEPT ![x].prev = p]
    OBVIOUS
  <1>5. DOMAIN m = D /\ m[n].next = lk[n].next /\ m[n] \in [next : D, prev : D]
    BY <1>2, <1>4
  <1>6. g = [m EXCEPT ![p].next = x]
    BY <1>3, <1>4
  <1>7. g[n].next = IF n = p THEN x ELSE lk[n].next
    BY <1>2, <1>5, <1>6
  <1> QED
    BY <1>1, <1>3, <1>7

\* A node leaves: with it, nodes that are closed without it are closed again.
LEMMA DeleteAnchored ==
    ASSUME NEW D, NEW lk, IsMap(lk, D), Joined(lk, D), NEW b \in D, NEW H, b \notin H, Anchored(lk, D, H),
           NEW g, \A n \in D \ {b} : g[n].next = ListDelete(lk, b)[n].next
    PROVE  Anchored(g, D \ {b}, H)
  <1> SUFFICES ASSUME NEW S \in SUBSET (D \ {b}), S # {}, \A n \in S : g[n].next \in S
               PROVE  S \cap H # {}
    BY DEF Anchored
  <1>1. PICK p, x : p = lk[b].prev /\ x = lk[b].next
    OBVIOUS
  <1>2. p \in D /\ lk[p].next = b
    BY <1>1 DEF Joined
  <1>3. \A n \in S : (IF n = p THEN x ELSE lk[n].next) \in S
    <2>1. \A n \in S : n \in D /\ g[n].next = ListDelete(lk, b)[n].next
      OBVIOUS
    <2> QED
      BY <1>1, <2>1, DeleteNexts
  <1>4. CASE p \in S
    <2>1. PICK T : T = S \cup {b}
      OBVIOUS
    <2>2. \A n \in T : lk[n].next \in T
      BY <1>1, <1>2, <1>3, <1>4, <2>1
    <2>3. T \cap H # {}
      BY <2>1, <2>2 DEF Anchored
    <2> QED
      BY <2>1, <2>3
  <1>5. CASE p \notin S
    BY <1>3, <1>5 DEF Anchored
  <1> QED
    BY <1>4, <1>5

\* A node goes in behind pv: without it, the others were closed before.
LEMMA InsertAnchored ==
    ASSUME NEW D, NEW lk, Joined(lk, D), NEW H, Anchored(lk, D, H), NEW b, NEW pv, NEW g, Inserted(g, lk, D, b, pv)
    PROVE  Anchored(g, D \cup {b}, H)
  <1>1. PICK nx : nx = lk[pv].next
    OBVIOUS
  <1>2. /\ b \notin D /\ pv \in D /\ nx \in D /\ nx # b /\ pv # b /\ DOMAIN lk \in {D, D \cup {b}}
        /\ \A n \in D : lk[n] \in [next : D, prev : D]
    BY <1>1 DEF Inserted, Joined
  <1>3. PICK m : m = [n \in D \cup {b} |-> IF n = b THEN [next |-> nx, prev |-> pv] ELSE lk[n]]
    OBVIOUS
  <1>4. PICK w : w = [m EXCEPT ![nx].prev = b]
    OBVIOUS
  <1>5. g = [w EXCEPT ![pv].next = b]
    <2>1. DOMAIN lk \cup {b} = D \cup {b}
      BY <1>2
    <2>2. g = ListInsert_(lk, b, pv, nx)
      BY <1>1 DEF Inserted
    <2>3. g = [m EXCEPT ![nx].prev = b, ![pv].next = b]
      BY <1>3, <2>1, <2>2, Zenon DEF ListInsert_
    <2> QED
      BY <1>4, <2>3
  <1>6. DOMAIN m = D \cup {b} /\ m[b] = [next |-> nx, prev |-> pv] /\ \A n \in D : m[n] = lk[n]
    BY <1>2, <1>3
  <1>7. DOMAIN w = D \cup {b} /\ w[b] = [next |-> nx, prev |-> pv]
    BY <1>2, <1>4, <1>6
  <1>8. \A n \in D : w[n].next = lk[n].next /\ w[n] \in [next : D \cup {b}, prev : D \cup {b}]
    <2> SUFFICES ASSUME NEW n \in D
                 PROVE  w[n].next = lk[n].next /\ w[n] \in [next : D \cup {b}, prev : D \cup {b}]
      OBVIOUS
    <2>1. m[n] = lk[n] /\ lk[n] \in [next : D, prev : D] /\ n \in DOMAIN m
      BY <1>2, <1>6
    <2>2. CASE n = nx
      <3>1. w[n] = [lk[n] EXCEPT !.prev = b]
        BY <1>4, <2>1, <2>2
      <3> QED
        BY <2>1, <3>1
    <2>3. CASE n # nx
      <3>1. w[n] = lk[n]
        BY <1>4, <2>1, <2>3
      <3> QED
        BY <2>1, <3>1
    <2> QED
      BY <2>2, <2>3
  <1>9. g[b].next = nx /\ g[pv].next = b /\ \A n \in D : n # pv => g[n].next = lk[n].next
    <2>1. g[b] = w[b]
      BY <1>2, <1>5, <1>7
    <2>2. g[pv].next = b
      <3>1. w[pv] \in [next : D \cup {b}, prev : D \cup {b}] /\ pv \in DOMAIN w
        BY <1>2, <1>7, <1>8
      <3>2. g[pv] = [w[pv] EXCEPT !.next = b]
        BY <1>5, <3>1
      <3> QED
        BY <3>1, <3>2
    <2>3. ASSUME NEW n \in D, n # pv PROVE g[n].next = lk[n].next
      <3>1. g[n] = w[n]
        BY <1>5, <1>7, <2>3
      <3> QED
        BY <1>8, <3>1
    <2> QED
      BY <1>7, <2>1, <2>2, <2>3
  <1>10. ASSUME NEW S \in SUBSET (D \cup {b}), S # {}, \A n \in S : g[n].next \in S
         PROVE  S \cap H # {}
    <2>1. PICK T : T = S \ {b}
      OBVIOUS
    <2>2. T \in SUBSET D /\ T # {}
      <3>1. b \in S => nx \in S
        BY <1>9, <1>10
      <3>2. T \in SUBSET D
        BY <2>1
      <3>3. CASE b \in S
        <4>1. nx \in T
          BY <1>2, <2>1, <3>1, <3>3
        <4> QED
          BY <3>2, <4>1
      <3>4. CASE b \notin S
        <4>1. T = S
          BY <2>1, <3>4
        <4> QED
          BY <1>10, <3>2, <4>1
      <3> QED
        BY <3>3, <3>4
    <2>3. \A n \in T : lk[n].next \in T
      <3> SUFFICES ASSUME NEW n \in T PROVE lk[n].next \in T
        OBVIOUS
      <3>1. n \in S /\ n \in D /\ lk[n].next \in D
        BY <1>2, <2>1, <2>2
      <3>2. CASE n = pv
        <4>1. b \in S
          BY <1>9, <1>10, <3>1, <3>2
        <4>2. nx \in S
          BY <1>9, <1>10, <4>1
        <4> QED
          BY <1>1, <1>2, <2>1, <3>2, <4>2
      <3>3. CASE n # pv
        <4>1. lk[n].next \in S
          BY <1>9, <1>10, <3>1, <3>3
        <4> QED
          BY <1>2, <2>1, <3>1, <4>1
      <3> QED
        BY <3>2, <3>3
    <2>4. T \cap H # {}
      BY <2>2, <2>3 DEF Anchored
    <2> QED
      BY <2>1, <2>4
  <1> QED
    BY <1>10 DEF Anchored

\* A block moves to the end of the list "list".
LEMMA MoveAnchored ==
    ASSUME NEW D, NEW lk, IsMap(lk, D), Joined(lk, D), NEW b \in D, NEW F, Grouped(lk, D, F),
           NEW H, b \notin H, Anchored(lk, D, H),
           NEW list \in D, list # b, NEW g, g = ListAddTail(ListDelete(lk, b), b, list)
    PROVE  Anchored(g, D, H)
  <1>1. PICK l, E, G : l = ListDelete(lk, b) /\ E = D \ {b} /\ G = F \ {b}
    OBVIOUS
  <1>2. IsMap(l, D) /\ Joined(l, E) /\ Grouped(l, E, G)
    BY <1>1, DeleteJoined
  <1>3. b \notin E /\ E \cup {b} = D /\ DOMAIN l \in {E, E \cup {b}} /\ list \in E
    BY <1>1, <1>2 DEF IsMap
  <1>4. PICK pv \in E : g = ListInsert_(l, b, pv, l[pv].next)
    BY <1>1, <1>2, <1>3, AddEnds
  <1>5. Anchored(l, E, H)
    <2>1. \A n \in D \ {b} : l[n].next = ListDelete(lk, b)[n].next
      BY <1>1
    <2> QED
      BY <1>1, <2>1, DeleteAnchored
  <1>6. Inserted(g, l, E, b, pv)
    BY <1>3, <1>4 DEF Inserted
  <1>7. Anchored(g, E \cup {b}, H)
    BY <1>2, <1>5, <1>6, InsertAnchored
  <1> QED
    BY <1>3, <1>7

\* A node leaves its list and its memory is given away.
LEMMA RemoveAnchored ==
    ASSUME NEW D, NEW lk, IsMap(lk, D), Joined(lk, D), NEW b \in D, NEW F, Grouped(lk, D, F),
           NEW H, b \notin H, Anchored(lk, D, H), NEW g, g = Without(ListDelete(lk, b), b)
    PROVE  Anchored(g, D \ {b}, H)
  <1>1. PICK l : l = ListDelete(lk, b)
    OBVIOUS
  <1>2. DOMAIN l = D
    <2>1. IsMap(l, D)
      BY <1>1, DeleteJoined
    <2> QED
      BY <2>1 DEF IsMap
  <1>3. g = [n \in D \ {b} |-> l[n]]
    BY <1>1, <1>2 DEF Without
  <1>4. \A n \in D \ {b} : g[n].next = ListDelete(lk, b)[n].next
    BY <1>1, <1>3
  <1> QED
    BY <1>4, DeleteAnchored

-----------------------------------------------------------------------------
(***************************************************************************)
(* The two lists have all nodes.                                           *)
(***************************************************************************)
Lists == {m_free_list, m_full_list}
ListNodes == Lists \cup PoolBlocks
Chained == IsFiniteSet(PoolBlocks) /\ Anchored(link, ListNodes, Lists)

\* What a step does to the lists: nothing, or a block comes, changes lists or goes.
Rests == link' = link /\ PoolBlocks' = PoolBlocks
Comes(b) ==
    /\ b \in Blocks \ PoolBlocks
    /\ link' = ListAddHead(link, b, m_free_list) /\ PoolBlocks' = PoolBlocks \cup {b}
Switches(b) ==
    /\ b \in PoolBlocks /\ PoolBlocks' = PoolBlocks
    /\ \E list \in Lists : link' = ListAddTail(ListDelete(link, b), b, list)
Goes(b) ==
    /\ b \in PoolBlocks
    /\ link' = Without(ListDelete(link, b), b) /\ PoolBlocks' = PoolBlocks \ {b}

ListStep == Rests \/ \E b : Comes(b) \/ Switches(b) \/ Goes(b)

\* Every step is one of these.
LEMMA ListSteps == ASSUME Invariant, [Next]_vars PROVE ListStep
  <1> USE DEF Invariant
  <1>0. link' = link /\ m_blocks' = m_blocks => ListStep
    BY DEF PoolBlocks, Rests, ListStep
  <1>1. ASSUME NEW t \in Threads, Step(t) PROVE ListStep
    <2>1. CASE AllocFromCache(t) \/ AllocFromFirst(t)
      BY <1>0, <2>1 DEF AllocFromCache, AllocFromFirst
    <2>2. CASE AllocMiss(t)
      <3>1. m_blocks' = m_blocks
        BY <2>2 DEF AllocMiss
      <3>2. CASE link' = link
        BY <1>0, <3>1, <3>2
      <3>3. CASE /\ ~ListEmtpy(link, m_free_list)
                 /\ link' = ListAddTail(ListDelete(link, FirstFree), FirstFree, m_full_list)
        <4>1. FirstFree \in PoolBlocks /\ PoolBlocks' = PoolBlocks
          BY <3>1, <3>3, FirstIsBlock DEF PoolBlocks
        <4>2. Switches(FirstFree)
          BY <3>3, <4>1 DEF Switches, Lists
        <4> QED
          BY <4>2 DEF ListStep
      <3> QED
        BY <2>2, <3>2, <3>3 DEF AllocMiss
    <2>3. CASE TakeCached(t) \/ TakeMiss(t) \/ TakeHeap(t) \/ TakeFails(t) \/ ReleaseBlock(t)
      <3>1. link' = link /\ m_blocks' = m_blocks
        BY <2>3 DEF TakeCached, TakeMiss, TakeHeap, TakeFails, ReleaseBlock, poolVars
      <3> QED
        BY <1>0, <3>1
    <2>4. CASE AddBlock(t)
      <3>1. PICK b : b = local[t].block
        OBVIOUS
      <3>2. pc[t] = "add" /\ m_blocks' = m_blocks \cup {b + BlockSize} /\ link' = ListAddHead(link, b, m_free_list)
        BY <2>4, <3>1 DEF AddBlock
      <3>3. b \in Added /\ b \in Carried
        BY <3>1, <3>2, CarriedBlocks DEF Adding
      <3>4. b \in Blocks \ PoolBlocks
        BY <3>3, KnownBlocks DEF PoolAndCache
      <3>5. PoolBlocks' = PoolBlocks \cup {b}
        BY <3>2, <3>4, PoolChanges DEF Types
      <3>6. Comes(b)
        BY <3>2, <3>4, <3>5 DEF Comes
      <3> QED
        BY <3>6 DEF ListStep
    <2>5. CASE \E e \in live : FreeToCache(t, e) \/ FreeToBlock(t, e)
      <3>1. PICK e \in live : FreeToCache(t, e) \/ FreeToBlock(t, e)
        BY <2>5
      <3>2. PICK b \in PoolAndCache : FreeStays(b, e) \/ FreeEmpties(t, b, e)
        BY <3>1, FreeMoves
      <3>3. CASE FreeStays(b, e)
        <4>1. m_blocks' = m_blocks /\ (link' = link \/ (b \in PoolBlocks /\ link' = ListAddTail(ListDelete(link, b), b, m_free_list)))
          BY <3>3 DEF FreeStays
        <4>2. CASE link' = link
          BY <1>0, <4>1, <4>2
        <4>3. CASE b \in PoolBlocks /\ link' = ListAddTail(ListDelete(link, b), b, m_free_list)
          <5>1. PoolBlocks' = PoolBlocks
            BY <4>1 DEF PoolBlocks
          <5>2. Switches(b)
            BY <4>3, <5>1 DEF Switches, Lists
          <5> QED
            BY <5>2 DEF ListStep
        <4> QED
          BY <4>1, <4>2, <4>3
      <3>4. CASE FreeEmpties(t, b, e)
        <4>1. b \in PoolBlocks /\ link' = Without(ListDelete(link, b), b) /\ m_blocks' = m_blocks \ {b + BlockSize}
          BY <3>4 DEF FreeEmpties
        <4>2. b \in Blocks
          BY <4>1, KnownBlocks
        <4>3. PoolBlocks' = PoolBlocks \ {b}
          BY <4>1, <4>2, PoolChanges DEF Types
        <4>4. Goes(b)
          BY <4>1, <4>3 DEF Goes
        <4> QED
          BY <4>4 DEF ListStep
      <3> QED
        BY <3>2, <3>3, <3>4
    <2> QED
      BY <1>1, <2>1, <2>2, <2>3, <2>4, <2>5 DEF Step
  <1>2. ASSUME NEW b, OthersTake(b) \/ OthersReturn(b) PROVE ListStep
    BY <1>0, <1>2 DEF OthersTake, OthersReturn, poolVars
  <1>3. CASE UNCHANGED vars
    BY <1>0, <1>3 DEF vars, poolVars
  <1> QED
    BY <1>1, <1>2, <1>3 DEF Next

\* After Init the two lists are empty.
LEMMA ChainedInit == ASSUME Init PROVE Chained
  <1>1. m_blocks = {} /\ link = [l \in Lists |-> NewList(l)]
    BY DEF Init, Lists
  <1>2. PoolBlocks = {} /\ ListNodes = Lists
    BY <1>1 DEF PoolBlocks, ListNodes
  <1>3. \A S \in SUBSET Lists : S # {} => S \cap Lists # {}
    OBVIOUS
  <1> QED
    BY <1>2, <1>3, FS_EmptySet DEF Chained, Anchored

\* A step keeps that the lists have all nodes.
LEMMA ChainedNext == ASSUME Invariant, Chained, ListStep PROVE Chained'
  <1> USE DEF Invariant
  <1>1. PICK D, H : D = ListNodes /\ H = Lists
    OBVIOUS
  <1>2. IsMap(link, D) /\ Joined(link, D) /\ \E F : Grouped(link, D, F)
    BY <1>1 DEF Links, ListNodes, Lists
  <1>3. IsFiniteSet(PoolBlocks) /\ Anchored(link, D, H)
    BY <1>1 DEF Chained
  <1>4. PoolBlocks \subseteq Blocks /\ H \cap Blocks = {} /\ H \subseteq D /\ D = H \cup PoolBlocks /\ m_free_list \in H
    BY <1>1, KnownBlocks, MemoryPoolAssumption DEF Lists, ListNodes
  <1>5. Chained' <=> IsFiniteSet(PoolBlocks') /\ Anchored(link', H \cup PoolBlocks', H)
    BY <1>1 DEF Chained, ListNodes, Lists, Anchored
  <1>6. CASE Rests
    <2>1. link' = link /\ PoolBlocks' = PoolBlocks
      BY <1>6 DEF Rests
    <2> QED
      BY <1>3, <1>4, <1>5, <2>1
  <1>7. ASSUME NEW b, Comes(b) PROVE Chained'
    <2>1. b \in Blocks /\ b \notin PoolBlocks /\ link' = ListAddHead(link, b, m_free_list) /\ PoolBlocks' = PoolBlocks \cup {b}
      BY <1>7 DEF Comes
    <2>2. b \notin D /\ m_free_list \in D /\ DOMAIN link = D
      BY <1>2, <1>4, <2>1 DEF IsMap
    <2>3. PICK g : g = link'
      OBVIOUS
    <2>4. Inserted(g, link, D, b, m_free_list)
      BY <2>1, <2>2, <2>3 DEF Inserted, ListAddHead
    <2>5. Anchored(g, D \cup {b}, H)
      BY <1>2, <1>3, <2>4, InsertAnchored
    <2>6. IsFiniteSet(PoolBlocks \cup {b})
      BY <1>3, FS_AddElement
    <2>7. D \cup {b} = H \cup PoolBlocks'
      BY <1>4, <2>1
    <2> QED
      BY <1>5, <2>1, <2>3, <2>5, <2>6, <2>7
  <1>8. ASSUME NEW b, Switches(b) PROVE Chained'
    <2>1. b \in PoolBlocks /\ PoolBlocks' = PoolBlocks
      BY <1>8 DEF Switches
    <2>2. PICK list \in H : link' = ListAddTail(ListDelete(link, b), b, list)
      BY <1>1, <1>8 DEF Switches
    <2>3. PICK F : Grouped(link, D, F)
      BY <1>2
    <2>4. b \in D /\ b \notin H /\ list \in D /\ list # b
      BY <1>4, <2>1
    <2>5. PICK g : g = link' /\ g = ListAddTail(ListDelete(link, b), b, list)
      BY <2>2
    <2>6. Anchored(g, D, H)
      BY <1>2, <1>3, <2>3, <2>4, <2>5, MoveAnchored
    <2> QED
      BY <1>3, <1>4, <1>5, <2>1, <2>5, <2>6
  <1>9. ASSUME NEW b, Goes(b) PROVE Chained'
    <2>1. b \in PoolBlocks /\ link' = Without(ListDelete(link, b), b) /\ PoolBlocks' = PoolBlocks \ {b}
      BY <1>9 DEF Goes
    <2>2. PICK F : Grouped(link, D, F)
      BY <1>2
    <2>3. b \in D /\ b \notin H
      BY <1>4, <2>1
    <2>4. PICK g : g = link' /\ g = Without(ListDelete(link, b), b)
      BY <2>1
    <2>5. Anchored(g, D \ {b}, H)
      BY <1>2, <1>3, <2>2, <2>3, <2>4, RemoveAnchored
    <2>6. IsFiniteSet(PoolBlocks \ {b})
      BY <1>3, FS_RemoveElement
    <2>7. D \ {b} = H \cup PoolBlocks'
      BY <1>4, <2>1, <2>3
    <2> QED
      BY <1>5, <2>1, <2>4, <2>5, <2>6, <2>7
  <1> QED
    BY <1>6, <1>7, <1>8, <1>9 DEF ListStep

\* No block of the pool is off its lists.
THEOREM ChainedHolds == Spec => []Chained
  <1>1. Init => Chained
    BY ChainedInit
  <1>2. Invariant /\ Chained /\ [Next]_vars => Chained'
    BY ListSteps, ChainedNext
  <1> QED
    BY <1>1, <1>2, MemoryPoolInvariant, PTL DEF Spec

-----------------------------------------------------------------------------
(***************************************************************************)
(* What the walks along the two lists meet.                                *)
(***************************************************************************)
\* The nodes s of one list, whose group is F or the others.
OneList(lk, D, list, F, s) ==
    /\ s \in Seq(D) /\ IsInjective(s) /\ list \notin ToSet(s)
    /\ \A n \in D : n \in {list} \cup ToSet(s) <=> lk[n].next \in {list} \cup ToSet(s)
    /\ \A n \in ToSet(s) : n \in F <=> list \in F

\* A walk stays in its group.
LEMMA WalkGrouped ==
    ASSUME NEW D, NEW lk, NEW F, Grouped(lk, D, F), NEW list, NEW k \in Nat, NEW u \in [0 .. k -> D],
           Walk(u, lk, list, k), NEW i \in 0 .. k
    PROVE  u[i] \in F <=> list \in F
  <1> DEFINE Bad == {j \in 0 .. k : ~(u[j] \in F <=> list \in F)}
  <1>1. Bad = {}
    <2> SUFFICES ASSUME Bad # {} PROVE FALSE
      OBVIOUS
    <2>1. PICK j \in Bad : \A m \in Bad : j <= m
      <3>1. Bad \in SUBSET Nat
        OBVIOUS
      <3> HIDE DEF Bad
      <3> QED
        BY <3>1, LeastNat
    <2>2. j \in 0 .. k /\ ~(u[j] \in F <=> list \in F)
      OBVIOUS
    <2>3. j # 0
      BY <2>2 DEF Walk
    <2>4. j \in 1 .. k /\ j - 1 \in 0 .. k /\ ~(j <= j - 1)
      BY <2>2, <2>3
    <2>5. j - 1 \notin Bad
      <3> HIDE DEF Bad
      <3> QED
        BY <2>1, <2>4
    <2>6. u[j - 1] \in F <=> list \in F
      BY <2>4, <2>5
    <2>7. u[j] = lk[u[j - 1]].next /\ u[j - 1] \in D
      BY <2>4 DEF Walk
    <2> QED
      BY <2>2, <2>6, <2>7 DEF Grouped
  <1> QED
    BY <1>1

\* Each node of a list is met once, and the list has every node that points into it.
LEMMA NodesOnce ==
    ASSUME NEW D, NEW lk, DOMAIN lk = D, Joined(lk, D), IsFiniteSet(D), NEW list \in D, NEW F, Grouped(lk, D, F)
    PROVE  OneList(lk, D, list, F, Nodes(lk, list))
  <1>1. PICK k \in Nat : \E u \in [0 .. k -> D] :
          Round(u, lk, list, k) /\ Nodes(lk, list) = [i \in 1 .. k |-> u[i]]
    <2>1. Around(lk, D, list)
      BY NodesAround
    <2> QED
      BY <2>1 DEF Around
  <1>2. PICK u \in [0 .. k -> D] : Round(u, lk, list, k) /\ Nodes(lk, list) = [i \in 1 .. k |-> u[i]]
    BY <1>1
  <1>3. Walk(u, lk, list, k) /\ lk[u[k]].next = list /\ \A j \in 0 .. k - 1 : lk[u[j]].next # list
    BY <1>2 DEF Round
  <1>4. u[0] = list /\ \A i \in 1 .. k : i \in 0 .. k /\ i - 1 \in 0 .. k - 1 /\ i - 1 \in 0 .. k /\ u[i] = lk[u[i - 1]].next
    BY <1>3 DEF Walk
  <1>5. \A i \in 1 .. k : u[i] # list
    BY <1>3, <1>4
  <1>6. ASSUME NEW i \in 0 .. k, NEW j \in 0 .. k, i < j PROVE u[i] # u[j]
    <2> SUFFICES ASSUME u[i] = u[j] PROVE FALSE
      OBVIOUS
    <2>1. PICK d \in 1 .. k : d \in 0 .. k /\ j = i + d
      <3>1. j - i \in 1 .. k /\ j - i \in 0 .. k /\ j = i + (j - i)
        BY <1>6
      <3> QED
        BY <3>1
    <2>2. u[d] = list
      BY <1>3, <2>1, WalkBack
    <2> QED
      BY <1>5, <2>2
  <1>7. PICK s : s = Nodes(lk, list)
    OBVIOUS
  <1>8. s = [i \in 1 .. k |-> u[i]]
    BY <1>2, <1>7
  <1>9. s \in Seq(D) /\ DOMAIN s = 1 .. k /\ \A i \in 1 .. k : s[i] = u[i]
    <2>1. \A i \in 1 .. k : u[i] \in D
      BY <1>4
    <2>2. s \in [1 .. k -> D]
      BY <1>8, <2>1
    <2> QED
      BY <1>8, <2>2
  <1>10. IsInjective(s)
    <2> SUFFICES ASSUME NEW i \in 1 .. k, NEW j \in 1 .. k, s[i] = s[j] PROVE i = j
      BY <1>9 DEF IsInjective
    <2>1. i \in 0 .. k /\ j \in 0 .. k /\ u[i] = u[j]
      BY <1>4, <1>9
    <2>2. ~(i < j) /\ ~(j < i)
      BY <1>6, <2>1
    <2> QED
      BY <2>2
  <1>11. \A n : n \in ToSet(s) <=> \E i \in 1 .. k : n = u[i]
    BY <1>9 DEF ToSet
  <1>12. list \notin ToSet(s)
    BY <1>5, <1>11
  <1>13. \A n : n \in {list} \cup ToSet(s) <=> \E i \in 0 .. k : n = u[i]
    <2>1. \A i \in 0 .. k : i = 0 \/ i \in 1 .. k
      OBVIOUS
    <2>2. 0 \in 0 .. k
      OBVIOUS
    <2> QED
      BY <1>4, <1>11, <2>1, <2>2
  <1>14. ASSUME NEW n \in D, n \in {list} \cup ToSet(s) PROVE lk[n].next \in {list} \cup ToSet(s)
    <2>1. PICK i \in 0 .. k : n = u[i]
      BY <1>13, <1>14
    <2>2. CASE i = k
      BY <1>3, <2>1, <2>2
    <2>3. CASE i # k
      <3>1. i + 1 \in 1 .. k /\ i + 1 \in 0 .. k /\ (i + 1) - 1 = i
        BY <2>3
      <3>2. u[i + 1] = lk[n].next
        BY <1>4, <2>1, <3>1
      <3> QED
        BY <1>13, <3>1, <3>2
    <2> QED
      BY <2>2, <2>3
  <1>15. ASSUME NEW n \in D, lk[n].next \in {list} \cup ToSet(s) PROVE n \in {list} \cup ToSet(s)
    <2>1. PICK i \in 0 .. k : lk[n].next = u[i]
      BY <1>13, <1>15
    <2>2. PICK j \in 0 .. k : lk[n].next = lk[u[j]].next
      <3>1. CASE i = 0
        <4>1. k \in 0 .. k
          OBVIOUS
        <4> QED
          BY <1>3, <1>4, <2>1, <3>1, <4>1
      <3>2. CASE i \in 1 .. k
        BY <1>4, <2>1, <3>2
      <3>3. i = 0 \/ i \in 1 .. k
        OBVIOUS
      <3> QED
        BY <3>1, <3>2, <3>3
    <2>3. u[j] \in D
      OBVIOUS
    <2>4. n = u[j]
      BY <2>2, <2>3, NextInjective
    <2> QED
      BY <1>13, <2>4
  <1>16. \A n \in ToSet(s) : n \in F <=> list \in F
    <2> SUFFICES ASSUME NEW n \in ToSet(s) PROVE n \in F <=> list \in F
      OBVIOUS
    <2>1. PICK i \in 0 .. k : n = u[i]
      BY <1>4, <1>11
    <2>2. u[i] \in F <=> list \in F
      BY <1>3, WalkGrouped
    <2> QED
      BY <2>1, <2>2
  <1>17. OneList(lk, D, list, F, s)
    BY <1>9, <1>10, <1>12, <1>14, <1>15, <1>16 DEF OneList
  <1> QED
    BY <1>7, <1>17

\* Two lists without common nodes, and no ring besides: together they have every node once.
LEMMA TwoLists ==
    ASSUME NEW D, NEW lk, NEW F, NEW a \in D, NEW z \in D, a \in F, z \notin F, Anchored(lk, D, {a, z}),
           Joined(lk, D), NEW s, NEW r, OneList(lk, D, a, F, s), OneList(lk, D, z, F, r)
    PROVE  /\ IsInjective(s \o r) /\ ToSet(s \o r) = D \ {a, z}
           /\ \A n \in ToSet(r) : n \in D \ {a, z} /\ n \notin F
  <1>1. /\ s \in Seq(D) /\ IsInjective(s) /\ a \notin ToSet(s)
        /\ \A n \in D : n \in {a} \cup ToSet(s) <=> lk[n].next \in {a} \cup ToSet(s)
        /\ \A n \in ToSet(s) : n \in F
    BY DEF OneList
  <1>2. /\ r \in Seq(D) /\ IsInjective(r) /\ z \notin ToSet(r)
        /\ \A n \in D : n \in {z} \cup ToSet(r) <=> lk[n].next \in {z} \cup ToSet(r)
        /\ \A n \in ToSet(r) : n \notin F
    BY DEF OneList
  <1>3. PICK q : q = s \o r
    OBVIOUS
  <1>4. /\ Len(s) \in Nat /\ Len(r) \in Nat /\ DOMAIN s = 1 .. Len(s) /\ DOMAIN r = 1 .. Len(r)
        /\ DOMAIN q = 1 .. Len(s) + Len(r)
        /\ \A i \in 1 .. Len(s) + Len(r) : q[i] = IF i <= Len(s) THEN s[i] ELSE r[i - Len(s)]
    BY <1>1, <1>2, <1>3, ConcatPlaces
  <1>5. PICK l \in Nat, m \in Nat : l = Len(s) /\ m = Len(r)
    BY <1>4
  <1>6. \A i \in 1 .. l + m : \/ i \in 1 .. l /\ q[i] = s[i]
                              \/ i - l \in 1 .. m /\ q[i] = r[i - l]
    <2> SUFFICES ASSUME NEW i \in 1 .. l + m
                 PROVE  \/ i \in 1 .. l /\ q[i] = s[i]
                        \/ i - l \in 1 .. m /\ q[i] = r[i - l]
      OBVIOUS
    <2>1. CASE i <= l
      BY <1>4, <1>5, <2>1
    <2>2. CASE l < i
      <3>1. i - l \in 1 .. m /\ ~(i <= l)
        BY <2>2
      <3> QED
        BY <1>4, <1>5, <3>1
    <2>3. i <= l \/ l < i
      OBVIOUS
    <2> QED
      BY <2>1, <2>2, <2>3
  <1>7. /\ \A i \in 1 .. l : i \in DOMAIN s /\ s[i] \in ToSet(s) /\ s[i] \in F
        /\ \A i \in 1 .. m : i \in DOMAIN r /\ r[i] \in ToSet(r) /\ r[i] \notin F
    <2>1. \A i \in DOMAIN s : s[i] \in ToSet(s)
      BY DEF ToSet
    <2>2. \A i \in DOMAIN r : r[i] \in ToSet(r)
      BY DEF ToSet
    <2>3. DOMAIN s = 1 .. l /\ DOMAIN r = 1 .. m
      BY <1>4, <1>5
    <2> QED
      BY <1>1, <1>2, <2>1, <2>2, <2>3
  <1>8. IsInjective(q)
    <2> SUFFICES ASSUME NEW i \in 1 .. l + m, NEW j \in 1 .. l + m, q[i] = q[j] PROVE i = j
      BY <1>4, <1>5 DEF IsInjective
    <2>1. CASE i \in 1 .. l /\ q[i] = s[i]
      <3>1. j \in 1 .. l /\ q[j] = s[j]
        BY <1>6, <1>7, <2>1
      <3>2. i \in DOMAIN s /\ j \in DOMAIN s
        BY <1>7, <2>1, <3>1
      <3> QED
        BY <1>1, <2>1, <3>1, <3>2 DEF IsInjective
    <2>2. CASE i - l \in 1 .. m /\ q[i] = r[i - l]
      <3>1. j - l \in 1 .. m /\ q[j] = r[j - l]
        BY <1>6, <1>7, <2>2
      <3>2. i - l \in DOMAIN r /\ j - l \in DOMAIN r
        BY <1>7, <2>2, <3>1
      <3>3. i - l = j - l
        BY <1>2, <2>2, <3>1, <3>2 DEF IsInjective
      <3> QED
        BY <3>3
    <2> QED
      BY <1>6, <2>1, <2>2
  <1>9. ToSet(q) \subseteq ToSet(s) \cup ToSet(r)
    <2>1. \A i \in 1 .. l + m : q[i] \in ToSet(s) \cup ToSet(r)
      BY <1>6, <1>7
    <2> QED
      BY <1>4, <1>5, <2>1 DEF ToSet
  <1>10. ToSet(s) \subseteq ToSet(q)
    <2>1. \A i \in 1 .. l : i \in DOMAIN q /\ q[i] = s[i]
      BY <1>4, <1>5
    <2> QED
      BY <1>4, <1>5, <2>1 DEF ToSet
  <1>11. ToSet(r) \subseteq ToSet(q)
    <2>1. \A i \in 1 .. m : i + l \in DOMAIN q /\ ~(i + l <= l) /\ (i + l) - l = i
      BY <1>4, <1>5
    <2>2. \A i \in 1 .. m : i + l \in DOMAIN q /\ q[i + l] = r[i]
      BY <1>4, <1>5, <2>1
    <2> QED
      BY <1>4, <1>5, <2>2 DEF ToSet
  <1>12. ToSet(s) \subseteq D \ {a, z} /\ ToSet(r) \subseteq D \ {a, z}
    <2>1. ToSet(s) \subseteq D /\ ToSet(r) \subseteq D
      <3>1. \A i \in DOMAIN s : s[i] \in D
        BY <1>1
      <3>2. \A i \in DOMAIN r : r[i] \in D
        BY <1>2
      <3> QED
        BY <3>1, <3>2 DEF ToSet
    <2> QED
      BY <1>1, <1>2, <2>1
  <1>13. D \ {a, z} \subseteq ToSet(s) \cup ToSet(r)
    <2>1. PICK T : T = D \ (({a} \cup ToSet(s)) \cup ({z} \cup ToSet(r)))
      OBVIOUS
    <2>2. \A n \in T : lk[n].next \in T
      <3> SUFFICES ASSUME NEW n \in T PROVE lk[n].next \in T
        OBVIOUS
      <3>1. n \in D /\ n \notin {a} \cup ToSet(s) /\ n \notin {z} \cup ToSet(r)
        BY <2>1
      <3>2. lk[n].next \notin {a} \cup ToSet(s) /\ lk[n].next \notin {z} \cup ToSet(r)
        BY <1>1, <1>2, <3>1
      <3>3. lk[n].next \in D
        BY <3>1 DEF Joined
      <3> QED
        BY <2>1, <3>2, <3>3
    <2>3. T \in SUBSET D /\ T \cap {a, z} = {}
      BY <2>1
    <2>4. T = {}
      BY <2>2, <2>3 DEF Anchored
    <2> QED
      BY <2>1, <2>4
  <1>14. ToSet(q) = D \ {a, z}
    BY <1>9, <1>10, <1>11, <1>12, <1>13
  <1> QED
    BY <1>2, <1>3, <1>8, <1>12, <1>14

\* The two lists of the pool.
LEMMA Listed == Invariant /\ Chained => ListsExact
  <1> SUFFICES ASSUME Invariant, Chained PROVE ListsExact
    OBVIOUS
  <1> USE DEF Invariant
  <1>1. PICK D, a, z : D = {m_free_list, m_full_list} \cup PoolBlocks /\ a = m_free_list /\ z = m_full_list
    OBVIOUS
  <1>2. PICK F \in SUBSET ({m_free_list} \cup PoolBlocks) :
          /\ m_free_list \in F
          /\ Grouped(link, D, F)
          /\ \A b \in PoolBlocks \ F : Full(head[b])
    BY <1>1 DEF Links
  <1>3. IsMap(link, D) /\ Joined(link, D) /\ Anchored(link, D, {a, z}) /\ IsFiniteSet(PoolBlocks)
    BY <1>1 DEF Links, Chained, ListNodes, Lists
  <1>4. DOMAIN link = D
    BY <1>3 DEF IsMap
  <1>5. IsFiniteSet(D)
    <2>1. IsFiniteSet({a} \cup ({z} \cup PoolBlocks))
      <3>1. IsFiniteSet({z} \cup PoolBlocks)
        BY <1>3, FS_AddElement
      <3> QED
        BY <3>1, FS_AddElement
    <2>2. D = {a} \cup ({z} \cup PoolBlocks)
      BY <1>1
    <2> QED
      BY <2>1, <2>2
  <1>6. a \in D /\ z \in D /\ a \in F /\ z \notin F /\ PoolBlocks = D \ {a, z}
    <2>1. PoolBlocks \subseteq Blocks /\ {m_free_list, m_full_list} \cap Blocks = {}
      BY KnownBlocks, MemoryPoolAssumption
    <2>2. m_free_list # m_full_list
      BY DEF m_free_list, m_full_list
    <2> QED
      BY <1>1, <1>2, <2>1, <2>2
  <1>7. PICK s, r : s = Nodes(link, a) /\ r = Nodes(link, z)
    OBVIOUS
  <1>8. OneList(link, D, a, F, s) /\ OneList(link, D, z, F, r)
    BY <1>2, <1>3, <1>4, <1>5, <1>6, <1>7, NodesOnce
  <1>9. IsInjective(s \o r) /\ ToSet(s \o r) = D \ {a, z} /\ \A n \in ToSet(r) : n \in D \ {a, z} /\ n \notin F
    BY <1>2, <1>3, <1>6, <1>8, TwoLists
  <1>10. \A b \in ToSet(r) : AllocPtr(b, head[b]) = NullPtr
    <2> SUFFICES ASSUME NEW b \in ToSet(r) PROVE AllocPtr(b, head[b]) = NullPtr
      OBVIOUS
    <2>1. b \in PoolBlocks \ F
      BY <1>6, <1>9
    <2>2. Full(head[b]) /\ b \in DOMAIN head /\ b \in Nat /\ b > 0
      BY <1>2, <2>1, KnownBlocks DEF PoolAndCache, NullPtr
    <2>3. BlockOK(b, head[b], Taken(b))
      BY <2>2 DEF Elements
    <2> QED
      BY <2>2, <2>3, AllocOK
  <1>11. Linked(link)
    BY <1>3, <1>4 DEF Linked, Joined
  <1> QED
    BY <1>1, <1>6, <1>7, <1>9, <1>10, <1>11 DEF ListsExact

\* For any blocks and threads: as Alloc and Free move blocks between the lists,
\* and blocks come and go, every block of the pool is on one list, once, the two
\* directions agree, and no block with room is out of Alloc's reach.
THEOREM ListsExactHolds == Spec => []ListsExact
  BY MemoryPoolInvariant, ChainedHolds, Listed, PTL
=============================================================================
