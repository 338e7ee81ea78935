------------------------------ MODULE Packing ------------------------------
(***************************************************************************)
(* xfutil::BlockBuffer, Packer and Unpacker (src/buffer.cpp, src/pack.cpp, *)
(* src/unpack.cpp): values are encoded one behind the other into blocks; a *)
(* value never crosses from one block to the next.  One Packer at a time   *)
(* writes a BlockBuffer; it is read when it is written.                    *)
(***************************************************************************)
EXTENDS BlockPool, Coding

CONSTANTS Fields,      \* the values packed, each with its type
          LargeAddrs,  \* where xmalloc puts blocks above BlockSize
          MaxFields,   \* bound: values in a BlockBuffer
          MaxBlocks    \* bound: blocks in a BlockBuffer

Kinds == {"fixed", "varint", "zigzag", "string"}
TypeOf(f) == [kind |-> f.kind, w |-> f.w]

ASSUME PackingAssumption ==
    /\ \A f \in Fields :
         /\ f.kind \in Kinds /\ f.w \in {8, 16, 32, 64}
         /\ f.bits \in Words(f.w) /\ f.len \in Nat
         /\ f.kind \in {"varint", "zigzag"} => f.w # 8
         /\ f.kind # "string" => f.len = 0
         /\ f.len = 0 => f.str = NoStr
    /\ LargeAddrs \subseteq Nat \ {0} /\ LargeAddrs \cap Blocks = {}
    /\ MaxFields \in Nat /\ MaxBlocks \in Nat

VARIABLES m_blocks,   \* the Blocks: address, capacity, size, and what is there
          freed,      \* the index of Free's loop over m_blocks, else 0
          m_block,    \* the Packer's block, 0 without a Packer
          unpacker,   \* the Unpacker: block, cells before m_ptr and m_buf_end
          packed,     \* history: the values packed
          unpacked,   \* history: the values the current Unpacker returned
          refused     \* history: the current Unpacker returned false

packVars == <<m_blocks, freed, m_block, unpacker, packed, unpacked, refused>>

NoUnpacker == [idx |-> 0, pos |-> 0, end |-> 0]
NoUnpackerYet == unpacker = NoUnpacker

PackingTypeOK ==
    /\ \A i \in DOMAIN m_blocks :
         /\ m_blocks[i].buf \in Blocks \cup LargeAddrs
         /\ m_blocks[i].capacity \in Nat /\ m_blocks[i].size \in Nat
    /\ freed \in 0 .. Len(m_blocks) /\ m_block \in 0 .. Len(m_blocks)
    /\ unpacker \in [idx : Nat, pos : Nat, end : Nat] /\ unpacker.pos <= unpacker.end
    /\ packed \in Seq(Fields)
    /\ refused \in BOOLEAN

PackingInit ==
    /\ m_blocks = <<>> /\ freed = 0 /\ m_block = 0
    /\ unpacker = NoUnpacker
    /\ packed = <<>> /\ unpacked = <<>> /\ refused = FALSE
-----------------------------------------------------------------------------
(***************************************************************************)
(* Packer and BlockBuffer::Alloc.                                          *)
(***************************************************************************)
AlignUp4096(n) == ((n + 4095) \div 4096) * 4096

\* BlockBuffer::Alloc: b is the address of the new block.
CapacityFor(size) == IF size <= BlockSize THEN BlockSize ELSE AlignUp4096(size)

AllocFor(size, b) ==
    /\ Len(m_blocks) < MaxBlocks
    /\ IF size <= BlockSize
       THEN AllocBlock(b)
       ELSE /\ b \in LargeAddrs \ {x.buf : x \in ToSet(m_blocks)}
            /\ UNCHANGED blockPoolVars

MAX_V16_SIZE == 3
MaxVarintSize(w) == CASE w = 16 -> MAX_V16_SIZE [] w = 32 -> 5 [] w = 64 -> 10

\* Mistake: room for the type, not for its longest varint.
NeedSizeof(f) == IF f.kind = "string" THEN MAX_V16_SIZE + f.len ELSE f.w \div 8

\* What Pack asks room for.
Need(f) ==
    CASE f.kind = "fixed" -> f.w \div 8
      [] f.kind = "string" -> MAX_V16_SIZE + f.len
      [] OTHER -> MaxVarintSize(f.w)

Encode(f) ==
    CASE f.kind = "fixed" -> EncodeFixed(f.bits, f.w)
      [] f.kind = "varint" -> EncodeVarint(f.bits)
      [] f.kind = "zigzag" -> EncodeVarint(EncodeZigZag(f.bits, f.w))
      [] f.kind = "string" -> EncodeString(f.str, f.len)

\* The constructor: a new block, also if the BlockBuffer has some.
NewPacker(b) ==
    /\ NoUnpackerYet /\ freed = 0
    /\ AllocFor(1, b)
    /\ m_blocks' = Append(m_blocks, [buf |-> b, capacity |-> CapacityFor(1), size |-> 0, data |-> <<>>])
    /\ m_block' = Len(m_blocks) + 1
    /\ UNCHANGED <<freed, unpacker, packed, unpacked, refused>>

HasRoom(f) == m_blocks[m_block].size + Need(f) <= m_blocks[m_block].capacity
Room == m_block # 0 /\ NoUnpackerYet /\ Len(packed) < MaxFields

PackHere(f) ==
    /\ Room /\ HasRoom(f)
    /\ m_blocks' = [m_blocks EXCEPT ![m_block].data = @ \o Encode(f),
                                    ![m_block].size = @ + ByteLen(Encode(f))]
    /\ packed' = Append(packed, f)
    /\ UNCHANGED <<blockPoolVars, freed, m_block, unpacker, unpacked, refused>>

PackInNewBlock(f, b) ==
    /\ Room /\ ~HasRoom(f)
    /\ AllocFor(Need(f), b)
    /\ m_blocks' = Append(m_blocks, [buf |-> b, capacity |-> CapacityFor(Need(f)),
                                     size |-> ByteLen(Encode(f)), data |-> Encode(f)])
    /\ m_block' = Len(m_blocks) + 1
    /\ packed' = Append(packed, f)
    /\ UNCHANGED <<freed, unpacker, unpacked, refused>>

\* A round of the loop of BlockBuffer::Free, which tells blocks of the pool by
\* their capacity; m_blocks is emptied with the last.  What was made for this
\* BlockBuffer is not used any more.
Free ==
    /\ m_blocks # <<>>
    /\ LET block == m_blocks[freed + 1] IN
       IF block.capacity = BlockSize THEN FreeBlock(block.buf) ELSE UNCHANGED blockPoolVars
    /\ IF freed + 1 < Len(m_blocks)
       THEN freed' = freed + 1 /\ UNCHANGED m_blocks
       ELSE freed' = 0 /\ m_blocks' = <<>>
    /\ m_block' = 0 /\ unpacker' = NoUnpacker
    /\ packed' = <<>> /\ unpacked' = <<>> /\ refused' = FALSE
-----------------------------------------------------------------------------
(***************************************************************************)
(* Unpacker.                                                               *)
(***************************************************************************)
\* The cells in the first "size" bytes of a block.
CellsIn(x) == Max({k \in 0 .. Len(x.data) : ByteLen(SubSeq(x.data, 1, k)) <= x.size})

\* m_block_buffer_idx goes on behind the last block.
NextBlock(u) ==
    [idx |-> u.idx + 1, pos |-> 0,
     end |-> IF u.idx + 1 > Len(m_blocks) THEN 0 ELSE CellsIn(m_blocks[u.idx + 1])]

Decode(type, s) ==
    CASE type.kind = "fixed" -> DecodeFixed(s, type.w)
      [] type.kind = "varint" -> DecodeVarint(s, type.w)
      [] type.kind = "zigzag" ->
           LET d == DecodeVarint(s, type.w) IN [d EXCEPT !.bits = DecodeZigZag(@, type.w)]
      [] type.kind = "string" -> DecodeString(s)

\* A new Unpacker starts at the first block.
NewUnpacker ==
    /\ freed = 0
    /\ unpacked # <<>> \/ refused \/ NoUnpackerYet
    /\ unpacker' = NextBlock(NoUnpacker)
    /\ m_block' = 0
    /\ unpacked' = <<>> /\ refused' = FALSE
    /\ UNCHANGED <<blockPoolVars, m_blocks, freed, packed>>

\* Mistake: the end of a block is tested with > for >=.
EnteredLate == IF unpacker.pos > unpacker.end THEN NextBlock(unpacker) ELSE unpacker

\* Every Unpack first goes to the next block, once, when this one is read.
Entered == IF unpacker.pos >= unpacker.end THEN NextBlock(unpacker) ELSE unpacker

\* Bound: how far behind the last block Unpack is called.
LastIdx == Len(m_blocks) + 1

\* The types are those that were packed, in that order; then any.
Expected(type) ==
    LET n == Len(unpacked) + 1 IN
    IF n <= Len(packed) THEN type = TypeOf(packed[n]) ELSE type \in {TypeOf(f) : f \in Fields}

Unpack(type) ==
    LET u == Entered
        d == Decode(type, SubSeq(m_blocks[u.idx].data, u.pos + 1, u.end)) IN
    /\ ~NoUnpackerYet /\ Expected(type) /\ unpacker.idx <= LastIdx
    /\ IF u.idx > Len(m_blocks)
       THEN unpacker' = u /\ refused' = TRUE /\ UNCHANGED unpacked
       ELSE /\ unpacker' = [u EXCEPT !.pos = @ + d.used]
            /\ IF d.ok
               THEN /\ unpacked' = Append(unpacked, [kind |-> type.kind, w |-> type.w, bits |-> d.bits,
                                                     str |-> d.str, len |-> d.len])
                    /\ UNCHANGED refused
               ELSE refused' = TRUE /\ UNCHANGED unpacked
    /\ UNCHANGED <<blockPoolVars, m_blocks, freed, m_block, packed>>

PackingNext ==
    \/ \E b \in Blocks : NewPacker(b)
    \/ \E f \in Fields : PackHere(f) \/ \E b \in Blocks \cup LargeAddrs : PackInNewBlock(f, b)
    \/ Free
    \/ NewUnpacker
    \/ \E type \in {TypeOf(f) : f \in Fields} : Unpack(type)
-----------------------------------------------------------------------------
\* Pack keeps to its block: what was encoded has the size it recorded, and
\* that is within the capacity.
PackedInBounds ==
    \A i \in DOMAIN m_blocks :
        /\ m_blocks[i].size = ByteLen(m_blocks[i].data)
        /\ m_blocks[i].size <= m_blocks[i].capacity

\* An empty block behind the first one and before the last one: a Packer that
\* packed nothing was followed by another.
Gap == \E i \in 2 .. Len(m_blocks) - 1 : m_blocks[i].size = 0

\* Unpack returns what was packed, in order, over all blocks, and returns
\* false only behind the last value; but one Unpack passes over at most one
\* empty block.
RoundTrip ==
    /\ IsPrefix(unpacked, packed)
    /\ (refused /\ ~Gap) => Len(unpacked) = Len(packed)
=============================================================================
