--------------------------- MODULE Serialization ---------------------------
(***************************************************************************)
(* A WriteBuffer and a BlockBuffer with its Packers and Unpackers, which   *)
(* share one BlockPool and may each have a thread of its own.              *)
(***************************************************************************)
EXTENDS WriteBuffer, Packing

vars == <<blockPoolVars, writeVars, packVars>>

TypeOK == BlockPoolTypeOK /\ WriteBufferTypeOK /\ PackingTypeOK

Init == BlockPoolInit /\ WriteBufferInit /\ PackingInit

Next ==
    \/ WriteBufferNext /\ UNCHANGED packVars
    \/ PackingNext /\ UNCHANGED writeVars

Spec == Init /\ [][Next]_vars
-----------------------------------------------------------------------------
\* Every block of the pool is in one place: free, in the WriteBuffer or in
\* the BlockBuffer, and the heap blocks in use are those the two hold, also
\* between two rounds of Clear and of Free.
\* Clear and Free thus give back every block once, to where it came from,
\* although the BlockBuffer tells blocks of the pool from others only by
\* their capacity.
BlocksShared ==
    LET bufs == [i \in DOMAIN m_blocks |-> m_blocks[i].buf]
        all == m_free_blocks \o SubSeq(wbuf.m_blocks, cleared + 1, Len(wbuf.m_blocks))
                 \o SubSeq(bufs, freed + 1, Len(bufs)) IN
    /\ IsInjective(all)
    /\ ToSet(all) \ LargeAddrs = CachedBlocks \cup heap
=============================================================================
