------------------------------ MODULE BlockPool ------------------------------
(***************************************************************************)
(* xfutil::BlockPool (src/block_pool.cpp): blocks of one size.  Init makes *)
(* cache_num of them in one piece of memory; further ones come from the    *)
(* heap.  A freed block goes back to where its address says it came from.  *)
(*                                                                         *)
(* Addresses are integers.  The cached blocks start at CacheStart; the     *)
(* heap hands out blocks of HeapBlocks, which lie outside the cache.       *)
(* The module has the state and the operations; its users (MemoryPool)     *)
(* put them into their own steps.                                          *)
(***************************************************************************)
EXTENDS Integers, FiniteSets, SequencesExt

CONSTANTS BlockSize,    \* Init's block_size
          CacheStart,   \* where xmalloc put the cache
          BlockCacheNum,\* Init's cache_num
          HeapBlocks    \* the block addresses the heap can return

CacheEnd == CacheStart + BlockSize * BlockCacheNum
CachedBlocks == {CacheStart + i * BlockSize : i \in 0 .. BlockCacheNum - 1}
Blocks == CachedBlocks \cup HeapBlocks

ASSUME BlockPoolAssumption ==
    /\ BlockSize \in Nat /\ BlockSize >= 4096 /\ BlockSize % 4096 = 0
    /\ CacheStart \in Nat \ {0} /\ BlockCacheNum \in Nat
    /\ HeapBlocks \subseteq Nat \ {0}
    /\ \A b \in HeapBlocks : b + BlockSize <= CacheStart \/ b >= CacheEnd
    /\ \A b, c \in HeapBlocks : b < c => b + BlockSize <= c

VARIABLES m_free_blocks,  \* the deque of free cached blocks
          heap            \* the heap blocks in use

blockPoolVars == <<m_free_blocks, heap>>

BlockPoolTypeOK ==
    /\ m_free_blocks \in Seq(CachedBlocks)
    /\ heap \subseteq HeapBlocks

\* The loop of Init: the cached blocks, lowest address first.
CacheBlocks == [i \in 1 .. BlockCacheNum |-> CacheStart + (i - 1) * BlockSize]

BlockPoolInit ==
    /\ m_free_blocks = CacheBlocks
    /\ heap = {}

\* Alloc under m_lock: the front of the deque.
AllocCached(b) ==
    /\ m_free_blocks # <<>>
    /\ b = Head(m_free_blocks)
    /\ m_free_blocks' = Tail(m_free_blocks)
    /\ UNCHANGED heap

\* Alloc after m_lock is released: xmalloc(m_block_size, BLOCK_ALGIN).
AllocHeap(b) ==
    /\ b \in HeapBlocks \ heap
    /\ heap' = heap \cup {b}
    /\ UNCHANGED m_free_blocks

\* The whole of Alloc, for users that nobody overtakes in it.
AllocBlock(b) == AllocCached(b) \/ (m_free_blocks = <<>> /\ AllocHeap(b))

\* Mistake: the range test leaves out the first block.
FromCacheAboveStart(b) == b > CacheStart /\ b < CacheEnd

FromCache(b) == b >= CacheStart /\ b < CacheEnd

\* Free: a block inside the cache goes back to the deque, another one to the heap.
FreeBlock(b) ==
    IF FromCache(b)
    THEN m_free_blocks' = <<b>> \o m_free_blocks /\ UNCHANGED heap
    ELSE heap' = heap \ {b} /\ UNCHANGED m_free_blocks
=============================================================================
