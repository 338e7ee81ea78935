----------------------------- MODULE WriteBuffer -----------------------------
(***************************************************************************)
(* xfutil::WriteBuffer (src/buffer.cpp): space handed out piece by piece   *)
(* from the current block; a piece above half a block gets memory of its   *)
(* own.  Clear gives back everything, one block after the other.  The      *)
(* blocks come from a BlockPool, or, without one, from the heap.           *)
(***************************************************************************)
EXTENDS BlockPool

CONSTANTS WriteSizes,   \* the arguments of Write
          BufAddrs,     \* where xmalloc puts buffers
          WithPool,     \* which constructors are used: with a pool or not
          MaxWrites     \* bound: calls of Write between two Clears

ASSUME WriteBufferAssumption ==
    /\ WriteSizes \subseteq Nat \ {0} /\ BufAddrs \subseteq Nat \ {0}
    /\ \A a \in BufAddrs, n \in WriteSizes :
         /\ \A b \in BufAddrs : a < b => a + n <= b
         /\ \A b \in Blocks : a + n <= b \/ b + BlockSize <= a
    /\ WithPool \subseteq BOOLEAN /\ WithPool # {}
    /\ MaxWrites \in Nat

VARIABLES has_pool,   \* m_block_pool is not nullptr
          wbuf,       \* the members of the WriteBuffer
          cleared,    \* the index of Clear's loop over m_blocks, else 0
          regions     \* history: what Write returned since the last Clear

writeVars == <<has_pool, wbuf, cleared, regions>>

\* m_block_size is that of the pool, or the constructor's argument.
m_block_size == BlockSize

Extents == [at : Nat, size : Nat]
Empty == [m_ptr |-> 0, m_size |-> 0, m_usage |-> 0, m_blocks |-> <<>>, m_bufs |-> <<>>]

WriteBufferTypeOK ==
    /\ has_pool \in WithPool
    /\ wbuf \in [m_ptr : Nat, m_size : 0 .. BlockSize, m_usage : Nat,
                 m_blocks : Seq(Blocks), m_bufs : Seq(Extents)]
    /\ cleared \in 0 .. Len(wbuf.m_blocks)
    /\ regions \in Seq(Extents)

WriteBufferInit ==
    /\ has_pool \in WithPool
    /\ wbuf = Empty
    /\ cleared = 0
    /\ regions = <<>>
-----------------------------------------------------------------------------
Hand(at, size) ==
    /\ cleared = 0
    /\ Len(regions) < MaxWrites
    /\ regions' = Append(regions, [at |-> at, size |-> size])
    /\ UNCHANGED <<has_pool, cleared>>

\* xmalloc puts a new buffer where none is.
FreshBufs == BufAddrs \ {x.at : x \in ToSet(wbuf.m_bufs)}

\* Write from the current block.
WriteHere(size) ==
    /\ wbuf.m_size >= size
    /\ Hand(wbuf.m_ptr, size)
    /\ wbuf' = [wbuf EXCEPT !.m_ptr = @ + size, !.m_size = @ - size]
    /\ UNCHANGED blockPoolVars

\* Mistake: a large piece becomes the current block.
WriteLargeCurrent(size) ==
    /\ wbuf.m_size < size /\ size > m_block_size \div 2
    /\ \E a \in FreshBufs :
         /\ Hand(a, size)
         /\ wbuf' = [wbuf EXCEPT !.m_bufs = Append(@, [at |-> a, size |-> size]),
                                 !.m_ptr = a + size,
                                 !.m_usage = @ + size]
    /\ UNCHANGED blockPoolVars

\* LargeWrite of more than half a block: the current block stays.
WriteLarge(size) ==
    /\ wbuf.m_size < size /\ size > m_block_size \div 2
    /\ \E a \in FreshBufs :
         /\ Hand(a, size)
         /\ wbuf' = [wbuf EXCEPT !.m_bufs = Append(@, [at |-> a, size |-> size]),
                                 !.m_usage = @ + size]
    /\ UNCHANGED blockPoolVars

\* The end of LargeWrite: "at" is the current block, of m_block_size bytes.
StartBlock(at, size, blocks, bufs) ==
    /\ Hand(at, size)
    /\ wbuf' = [m_ptr |-> at + size, m_size |-> m_block_size - size,
                m_usage |-> wbuf.m_usage + m_block_size,
                m_blocks |-> blocks, m_bufs |-> bufs]

WriteNewBlock(size) ==
    /\ wbuf.m_size < size /\ size <= m_block_size \div 2 /\ has_pool
    /\ \E b \in Blocks :
         /\ AllocBlock(b)
         /\ StartBlock(b, size, Append(wbuf.m_blocks, b), wbuf.m_bufs)

\* Without a pool only "size" bytes are allocated.
WriteNewBuf(size) ==
    /\ wbuf.m_size < size /\ size <= m_block_size \div 2 /\ ~has_pool
    /\ \E a \in FreshBufs :
         StartBlock(a, size, wbuf.m_blocks, Append(wbuf.m_bufs, [at |-> a, size |-> size]))
    /\ UNCHANGED blockPoolVars

\* A round of Clear's loop: a block to the pool, under the pool's lock.
FreeNextBlock ==
    IF wbuf.m_blocks # <<>> THEN FreeBlock(wbuf.m_blocks[cleared + 1]) ELSE UNCHANGED blockPoolVars

\* Mistake: Clear forgets to empty m_blocks.
ClearKeepsBlocks ==
    /\ wbuf # Empty
    /\ FreeNextBlock
    /\ IF cleared + 1 < Len(wbuf.m_blocks)
       THEN cleared' = cleared + 1 /\ wbuf' = [wbuf EXCEPT !.m_ptr = 0, !.m_size = 0]
       ELSE cleared' = 0 /\ wbuf' = [Empty EXCEPT !.m_blocks = wbuf.m_blocks]
    /\ regions' = <<>>
    /\ UNCHANGED has_pool

\* Clear, up to the end of a round; the last round with what follows it, all
\* of it out of the pool's sight.  What Write returned is not used any more.
Clear ==
    /\ wbuf # Empty
    /\ FreeNextBlock
    /\ IF cleared + 1 < Len(wbuf.m_blocks)
       THEN cleared' = cleared + 1 /\ wbuf' = [wbuf EXCEPT !.m_ptr = 0, !.m_size = 0]
       ELSE cleared' = 0 /\ wbuf' = Empty
    /\ regions' = <<>>
    /\ UNCHANGED has_pool

Write(size) == WriteHere(size) \/ WriteLarge(size) \/ WriteNewBlock(size) \/ WriteNewBuf(size)

WriteBufferNext == Clear \/ \E size \in WriteSizes : Write(size)
-----------------------------------------------------------------------------
Allocated ==
    {[at |-> b, size |-> m_block_size] : b \in ToSet(wbuf.m_blocks)} \cup ToSet(wbuf.m_bufs)
Within(r, x) == x.at <= r.at /\ r.at + r.size <= x.at + x.size
Apart(r, s) == r.at + r.size <= s.at \/ s.at + s.size <= r.at

\* Write hands out space that was allocated, and the same space once: the
\* pieces lie inside the blocks and buffers and do not overlap.
SpaceGiven ==
    /\ \A i \in DOMAIN regions : \E x \in Allocated : Within(regions[i], x)
    /\ \A i, j \in DOMAIN regions : i # j => Apart(regions[i], regions[j])

\* It does so when the blocks come from a pool, whatever the order of small,
\* large and half-block pieces.
RegionsSafe == has_pool => SpaceGiven

\* include/xfutil/buffer.h:37 says of Write, of every WriteBuffer, that it
\* allocates space and returns the pointer to it.
WriteAllocates == SpaceGiven
=============================================================================
