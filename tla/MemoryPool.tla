----------------------------- MODULE MemoryPool -----------------------------
(***************************************************************************)
(* xfutil::MemoryPool (src/memory_pool.cpp, src/memory_block.cpp): elements *)
(* of one size, carved from blocks.  The first block holds the cache_num   *)
(* elements of Init; further blocks come from a BlockPool, which others    *)
(* use too.                                                                *)
(*                                                                         *)
(* Alloc runs under m_mutex while a known block has room.  Otherwise it    *)
(* releases m_mutex, takes and prepares a block, and locks again to add    *)
(* it.  Free returns an empty block to the BlockPool after it has released *)
(* m_mutex.  Any thread may free what another one allocated.               *)
(***************************************************************************)
EXTENDS BlockPool, List, SequencesExt

CONSTANTS Threads,
          ElementSize,  \* Init's element_size
          CacheNum,     \* Init's cache_num
          PoolStart,    \* where xmalloc put the pool's own block
          HeapMayFail   \* whether xmalloc may return nullptr

HeadSize == 40          \* sizeof(MemoryBlockHead)
U16 == 65536            \* max_element_num and element_used_cnt are uint16_t
NullPtr == 0
m_free_list == 1        \* where the two lists of the MemoryPool object are
m_full_list == 2
AlignUp(n, a) == ((n + a - 1) \div a) * a

\* What MemoryPool::Init computes.
m_element_size == AlignUp(ElementSize, 8)
total_size == CacheNum * m_element_size + HeadSize
m_cache_block_end == PoolStart + total_size

ASSUME MemoryPoolAssumption ==
    /\ ElementSize \in Nat \ {0} /\ CacheNum \in Nat /\ PoolStart \in Nat \ {0}
    /\ \A b \in Blocks : b + BlockSize <= PoolStart \/ b >= m_cache_block_end
    /\ {m_free_list, m_full_list} \cap Blocks = {}
    /\ BlockSize \div U16 < U16 /\ total_size \div U16 < U16  \* uint32_t block_size
    /\ HeapMayFail \in BOOLEAN

VARIABLES m_used_cnt,
          link,                       \* the pointers of the two lists and of their blocks
          m_blocks,                   \* the ends of the blocks, an ordered set
          head,                       \* the MemoryBlockHead of every prepared block
          pc, local,                  \* each thread: where it is, its block and element
          live,                       \* elements handed out and not freed
          others                      \* blocks the BlockPool's other users hold

poolVars == <<m_used_cnt, link, m_blocks, head>>
threadVars == <<pc, local, live>>
vars == <<blockPoolVars, poolVars, threadVars, others>>
-----------------------------------------------------------------------------
(***************************************************************************)
(* One block (memory_block.cpp).  "free" is the chain of freed elements    *)
(* that starts at next_element_ptr.                                        *)
(***************************************************************************)
MemoryBlockInit(size) ==
    LET max == ((size - HeadSize) \div m_element_size) % U16 IN
    [block_size |-> size, max_element_num |-> max, element_used_cnt |-> 0,
     next_element_offset |-> size - max * m_element_size, free |-> <<>>]

\* MemoryAlloc: the element it returns, and the header after it.
AllocPtr(b, h) ==
    IF h.free # <<>> THEN Head(h.free)
    ELSE IF h.next_element_offset < h.block_size THEN b + h.next_element_offset
    ELSE NullPtr

\* Mistake: the element stays on the chain.
AfterAllocKeepChain(h) ==
    IF h.free # <<>>
    THEN [h EXCEPT !.element_used_cnt = @ + 1]
    ELSE [h EXCEPT !.next_element_offset = @ + m_element_size, !.element_used_cnt = @ + 1]

AfterAlloc(h) ==
    IF h.free # <<>>
    THEN [h EXCEPT !.free = Tail(@), !.element_used_cnt = @ + 1]
    ELSE IF h.next_element_offset < h.block_size
    THEN [h EXCEPT !.next_element_offset = @ + m_element_size, !.element_used_cnt = @ + 1]
    ELSE h

\* MemoryFree: the header after it, and its result: 1 when the block is
\* empty, 0 when it was full, -1 otherwise.
AfterFree(h, e) == [h EXCEPT !.free = <<e>> \o @, !.element_used_cnt = @ - 1]

\* Mistake: emptiness is not looked at.
FreeResultNeverEmpty(h) ==
    IF h.element_used_cnt = h.max_element_num - 1 THEN 0 ELSE -1

FreeResult(h) ==
    IF h.element_used_cnt = 0 THEN 1
    ELSE IF h.element_used_cnt = h.max_element_num - 1 THEN 0 ELSE -1
-----------------------------------------------------------------------------
TypeOK ==
    /\ BlockPoolTypeOK
    /\ m_used_cnt \in Nat
    /\ {m_free_list, m_full_list} \subseteq DOMAIN link
    /\ DOMAIN link \subseteq {m_free_list, m_full_list} \cup Blocks
    /\ \A n \in DOMAIN link : {link[n].next, link[n].prev} \subseteq DOMAIN link
    /\ m_blocks \subseteq {b + BlockSize : b \in Blocks}
    /\ DOMAIN head \subseteq Blocks \cup {PoolStart}
    /\ \A b \in DOMAIN head :
         /\ head[b].element_used_cnt \in 0 .. head[b].max_element_num
         /\ head[b].next_element_offset \in HeadSize .. head[b].block_size
         /\ head[b].free \in Seq(b .. b + head[b].block_size - 1)
    /\ pc \in [Threads -> {"idle", "take", "heap", "add", "release", "crashed"}]
    /\ local \in [Threads -> [block : Blocks \cup {NullPtr}, ptr : Nat]]
    /\ live \subseteq Nat \ {NullPtr}
    /\ others \subseteq Blocks

NoLocal == [block |-> NullPtr, ptr |-> NullPtr]

Init ==
    /\ BlockPoolInit
    /\ m_used_cnt = 0
    /\ link = [l \in {m_free_list, m_full_list} |-> NewList(l)]
    /\ m_blocks = {}
    /\ head = [b \in {PoolStart} |-> MemoryBlockInit(total_size)]
    /\ pc = [t \in Threads |-> "idle"]
    /\ local = [t \in Threads |-> NoLocal]
    /\ live = {} /\ others = {}
-----------------------------------------------------------------------------
(***************************************************************************)
(* Alloc.                                                                  *)
(***************************************************************************)
CachePtr == AllocPtr(PoolStart, head[PoolStart])

HandOut(b, ptr) ==
    /\ head' = [head EXCEPT ![b] = AfterAlloc(@)]
    /\ live' = live \cup {ptr}
    /\ m_used_cnt' = m_used_cnt + 1

\* First critical section: from the pool's own block,
AllocFromCache(t) ==
    /\ pc[t] = "idle" /\ CachePtr # NullPtr
    /\ HandOut(PoolStart, CachePtr)
    /\ UNCHANGED <<blockPoolVars, link, m_blocks, pc, local, others>>

\* GetFreeMemoryBlock.
FirstFree == ListHead(link, m_free_list)
FirstPtr == AllocPtr(FirstFree, head[FirstFree])

\* or from the first block of the free list,
AllocFromFirst(t) ==
    /\ pc[t] = "idle" /\ CachePtr = NullPtr
    /\ ~ListEmtpy(link, m_free_list) /\ FirstPtr # NullPtr
    /\ HandOut(FirstFree, FirstPtr)
    /\ UNCHANGED <<blockPoolVars, link, m_blocks, pc, local, others>>

\* or not at all; if the first block turned out full, it changes lists.
AllocMiss(t) ==
    /\ pc[t] = "idle" /\ CachePtr = NullPtr
    /\ \/ ListEmtpy(link, m_free_list) /\ UNCHANGED link
       \/ /\ ~ListEmtpy(link, m_free_list) /\ FirstPtr = NullPtr
          /\ link' = ListAddTail(ListDelete(link, FirstFree), FirstFree, m_full_list)
    /\ pc' = [pc EXCEPT ![t] = "take"]
    /\ UNCHANGED <<blockPoolVars, m_used_cnt, m_blocks, head, local, live, others>>

\* A new block b is prepared and its first element taken, without a lock.
Prepare(t, b) ==
    LET h == MemoryBlockInit(BlockSize) IN
    /\ head' = [c \in DOMAIN head \cup {b} |-> IF c = b THEN AfterAlloc(h) ELSE head[c]]
    /\ local' = [local EXCEPT ![t] = [block |-> b, ptr |-> AllocPtr(b, h)]]
    /\ pc' = [pc EXCEPT ![t] = "add"]

TakeCached(t) ==
    /\ pc[t] = "take"
    /\ \E b \in CachedBlocks : AllocCached(b) /\ Prepare(t, b)
    /\ UNCHANGED <<m_used_cnt, link, m_blocks, live, others>>

TakeMiss(t) ==
    /\ pc[t] = "take" /\ m_free_blocks = <<>>
    /\ pc' = [pc EXCEPT ![t] = "heap"]
    /\ UNCHANGED <<blockPoolVars, poolVars, local, live, others>>

TakeHeap(t) ==
    /\ pc[t] = "heap"
    /\ \E b \in HeapBlocks : AllocHeap(b) /\ Prepare(t, b)
    /\ UNCHANGED <<m_used_cnt, link, m_blocks, live, others>>

\* MemoryBlockInit is called with the nullptr of xmalloc.
TakeFails(t) ==
    /\ pc[t] = "heap" /\ HeapMayFail
    /\ pc' = [pc EXCEPT ![t] = "crashed"]
    /\ UNCHANGED <<blockPoolVars, poolVars, local, live, others>>

\* Second critical section: AddMemoryBlock, then Alloc returns.
AddBlock(t) ==
    LET b == local[t].block IN
    /\ pc[t] = "add"
    /\ m_blocks' = m_blocks \cup {b + BlockSize}
    /\ link' = ListAddHead(link, b, m_free_list)
    /\ m_used_cnt' = m_used_cnt + 1
    /\ live' = live \cup ({local[t].ptr} \ {NullPtr})
    /\ pc' = [pc EXCEPT ![t] = "idle"]
    /\ local' = [local EXCEPT ![t] = NoLocal]
    /\ UNCHANGED <<blockPoolVars, head, others>>
-----------------------------------------------------------------------------
(***************************************************************************)
(* Free.                                                                   *)
(***************************************************************************)
\* Mistake: begin() for upper_bound(ptr).
FindFirstBlock(e) == (CHOOSE x \in m_blocks : \A y \in m_blocks : x <= y) - BlockSize

\* FindMemoryBlock: the block whose end is the least one above e.
FindMemoryBlock(e) ==
    (CHOOSE x \in m_blocks : x > e /\ \A y \in m_blocks : y > e => x <= y) - BlockSize

InCache(e) == e >= PoolStart /\ e < m_cache_block_end

FreeToCache(t, e) ==
    /\ pc[t] = "idle" /\ InCache(e)
    /\ head' = [head EXCEPT ![PoolStart] = AfterFree(@, e)]
    /\ m_used_cnt' = m_used_cnt - 1
    /\ live' = live \ {e}
    /\ UNCHANGED <<blockPoolVars, link, m_blocks, pc, local, others>>

\* The memory of block b, its header and its ListNode, is given away.
Without(f, b) == [c \in DOMAIN f \ {b} |-> f[c]]

FreeToBlock(t, e) ==
    /\ pc[t] = "idle" /\ ~InCache(e)
    /\ LET b == FindMemoryBlock(e)
           h == AfterFree(head[b], e) IN
       /\ m_used_cnt' = m_used_cnt - 1
       /\ \/ /\ FreeResult(h) = -1
             /\ head' = [head EXCEPT ![b] = h]
             /\ UNCHANGED <<link, m_blocks, pc, local>>
          \/ /\ FreeResult(h) = 0
             /\ head' = [head EXCEPT ![b] = h]
             /\ link' = ListAddTail(ListDelete(link, b), b, m_free_list)
             /\ UNCHANGED <<m_blocks, pc, local>>
          \/ /\ FreeResult(h) = 1
             /\ head' = Without(head, b)
             /\ link' = Without(ListDelete(link, b), b)
             /\ m_blocks' = m_blocks \ {b + BlockSize}
             /\ pc' = [pc EXCEPT ![t] = "release"]
             /\ local' = [local EXCEPT ![t].block = b]
    /\ live' = live \ {e}
    /\ UNCHANGED <<blockPoolVars, others>>

\* The empty block goes back, after m_mutex is released.
ReleaseBlock(t) ==
    /\ pc[t] = "release"
    /\ FreeBlock(local[t].block)
    /\ pc' = [pc EXCEPT ![t] = "idle"]
    /\ local' = [local EXCEPT ![t] = NoLocal]
    /\ UNCHANGED <<poolVars, live, others>>
-----------------------------------------------------------------------------
\* Other users of the BlockPool.
OthersTake(b) ==
    /\ AllocBlock(b)
    /\ others' = others \cup {b}
    /\ UNCHANGED <<poolVars, threadVars>>

OthersReturn(b) ==
    /\ FreeBlock(b)
    /\ others' = others \ {b}
    /\ UNCHANGED <<poolVars, threadVars>>

Step(t) ==
    \/ AllocFromCache(t) \/ AllocFromFirst(t) \/ AllocMiss(t)
    \/ TakeCached(t) \/ TakeMiss(t) \/ TakeHeap(t) \/ TakeFails(t) \/ AddBlock(t)
    \/ \E e \in live : FreeToCache(t, e) \/ FreeToBlock(t, e)
    \/ ReleaseBlock(t)

\* Nothing runs after a null dereference.
Next ==
    /\ \A t \in Threads : pc[t] # "crashed"
    /\ \/ \E t \in Threads : Step(t)
       \/ \E b \in Blocks : OthersTake(b)
       \/ \E b \in others : OthersReturn(b)

Spec == Init /\ [][Next]_vars
-----------------------------------------------------------------------------
(***************************************************************************)
(* Properties.                                                             *)
(***************************************************************************)
PoolBlocks == {x - BlockSize : x \in m_blocks}
HeldBlocks(s) == {local[t].block : t \in {u \in Threads : pc[u] \in s}}
ElementsOf(b) == {e \in live : b <= e /\ e < b + head[b].block_size}

\* Every block is in one place: free in the BlockPool, in the pool, on its
\* way between them in one thread, or with another user; and the heap blocks
\* in use are those in one of these places.
BlocksConserved ==
    LET places == <<ToSet(m_free_blocks), PoolBlocks, HeldBlocks({"add", "release"}), others>> IN
    /\ \A i, j \in 1 .. 4 : i # j => places[i] \cap places[j] = {}
    /\ IsInjective(m_free_blocks)
    /\ \A t, u \in Threads :
         (t # u /\ {pc[t], pc[u]} \subseteq {"add", "release"}) => local[t].block # local[u].block
    /\ UNION {places[i] : i \in 1 .. 4} = CachedBlocks \cup heap

\* An element in use belongs to a block the pool still has, the one that
\* Free will find by its address, at a place that block has carved and that
\* is not on its free chain: it will be handed out to nobody else.
LiveElementsSafe ==
    \A e \in live :
        LET b == IF InCache(e) THEN PoolStart ELSE FindMemoryBlock(e) IN
        /\ b \in PoolBlocks \cup {PoolStart}
        /\ b + HeadSize <= e /\ e + m_element_size <= b + head[b].block_size
        /\ e < b + head[b].next_element_offset
        /\ (b + head[b].block_size - e) % m_element_size = 0
        /\ e \notin ToSet(head[b].free)

\* The counters agree with what callers hold: m_used_cnt for the pool,
\* element_used_cnt for each block, up to elements of an Alloc in progress; no
\* counter and no offset leaves its range.
CountsExact ==
    /\ TypeOK
    /\ m_used_cnt = Cardinality(live)
    /\ \A b \in PoolBlocks \cup {PoolStart} :
         head[b].element_used_cnt = Cardinality(ElementsOf(b))

\* The pointers make two lists, forwards and backwards the same, also when a
\* block leaves from the middle; each block of the pool is on one list, once;
\* a block on the full list has no room, so none with room is out of Alloc's
\* reach.
ListsExact ==
    LET free == Nodes(link, m_free_list)
        full == Nodes(link, m_full_list) IN
    /\ Linked(link)
    /\ IsInjective(free \o full)
    /\ ToSet(free \o full) = PoolBlocks
    /\ \A b \in ToSet(full) : AllocPtr(b, head[b]) = NullPtr

\* No block stays in the pool without an element in use: what is freed
\* entirely is returned.
EmptyBlocksReturned == \A b \in PoolBlocks : ElementsOf(b) # {}
=============================================================================
