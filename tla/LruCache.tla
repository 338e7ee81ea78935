------------------------------ MODULE LruCache ------------------------------
(***************************************************************************)
(* xfutil::LruCache (include/xfutil/lru_cache.h): two lists with a map of  *)
(* iterators each.  Add puts a key on the cold list; Get moves it to the   *)
(* front of the hot list; nodes pushed out of the hot list fall back to    *)
(* the front of the cold list, nodes pushed out of the cold list are gone. *)
(* Every method is one critical section of m_mutex.                        *)
(*                                                                         *)
(* A list node is a record with an identity: the maps hold iterators, that *)
(* is, identities.  Values are left out (a node carries the value of the   *)
(* Add that made it), and so are the hit and miss counts, which nothing    *)
(* reads.  Sizes are size_t: arithmetic is modulo SizeMod.                 *)
(***************************************************************************)
EXTENDS Integers, FiniteSets, SequencesExt, Totals

CONSTANTS Keys,
          ValueSizes,  \* the value_size arguments of Add
          MaxSize,     \* the constructor's max_size
          SizeMod      \* 2^64 in the code

ASSUME ConstantsAssumption ==
    /\ ValueSizes \subseteq Nat
    /\ MaxSize \in Nat
    /\ SizeMod \in Nat \ {0}
    /\ IsFiniteSet(Keys)
    \* What is cached at one time fits in memory.
    /\ \A n \in ValueSizes : (Cardinality(Keys) + 1) * n < SizeMod
    /\ MaxSize < SizeMod

m_max_hot_size == (MaxSize * 6) \div 10
m_max_cold_size == MaxSize - m_max_hot_size

VARIABLES m_hot_list, m_hot_map, m_hot_size,
          m_cold_list, m_cold_map, m_cold_size,
          recency      \* history: keys by their latest successful Get

hot == <<m_hot_list, m_hot_map, m_hot_size>>
cold == <<m_cold_list, m_cold_map, m_cold_size>>
vars == <<hot, cold, recency>>

Ids == Keys \X Nat
Nodes == [id : Ids, key : Keys, value_size : ValueSizes]
Iterators == [key : Keys, id : Ids]   \* one entry of a map

TypeOK ==
    /\ m_hot_list \in Seq(Nodes) /\ m_cold_list \in Seq(Nodes)
    /\ m_hot_map \subseteq Iterators /\ m_cold_map \subseteq Iterators
    /\ m_hot_size \in 0 .. SizeMod - 1 /\ m_cold_size \in 0 .. SizeMod - 1
    /\ recency \in Seq(Keys)

Init ==
    /\ m_hot_list = <<>> /\ m_cold_list = <<>>
    /\ m_hot_map = {} /\ m_cold_map = {}
    /\ m_hot_size = 0 /\ m_cold_size = 0
    /\ recency = <<>>
-----------------------------------------------------------------------------
Sizes(list) == Total([i \in DOMAIN list |-> list[i].value_size])
KeysOf(list) == {n.key : n \in ToSet(list)}
InMap(map, k) == \E i \in map : i.key = k
Find(map, k) == (CHOOSE i \in map : i.key = k).id
Place(list, id) == CHOOSE i \in DOMAIN list : list[i].id = id
NodeAt(list, id) == list[Place(list, id)]
Erase(list, id) == RemoveAt(list, Place(list, id))
EraseKeys(map, ks) == {i \in map : i.key \notin ks}

Entry(node) == [key |-> node.key, id |-> node.id]

\* The identity of a new list node: one that is not in use.  A key is on each
\* list once at most.
NewId(k) ==
    LET used == {n.id : n \in ToSet(m_hot_list) \cup ToSet(m_cold_list)} IN
    <<k, CHOOSE i \in 0 .. 2 : <<k, i>> \notin used>>

\* Mistake: a difference below zero.
SizeOfFirstSigned(list, size, n) == size - Sizes(SubSeq(list, n + 1, Len(list)))

\* "size" after the nodes behind the first n of "list" are gone.
SizeOfFirst(list, size, n) == (size - Sizes(SubSeq(list, n + 1, Len(list)))) % SizeMod

\* Mistake: the reservation forgets the value that comes in.
KeptWithout(list, size, max, value_size) ==
    Max({n \in 0 .. Len(list) : n = 0 \/ SizeOfFirst(list, size, n) <= max})

\* How many nodes the loop of a Reserve leaves: it drops the last one until
\* the list is empty or there is room for value_size.
Kept(list, size, max, value_size) ==
    Max({n \in 0 .. Len(list) :
            n = 0 \/ (SizeOfFirst(list, size, n) + value_size) % SizeMod <= max})

\* ReserveColdList, then the insertion of a key that is not on the cold list.
Add(k, value_size) ==
    LET n == Kept(m_cold_list, m_cold_size, m_max_cold_size, value_size)
        kept == SubSeq(m_cold_list, 1, n)
        size == SizeOfFirst(m_cold_list, m_cold_size, n)
        map == EraseKeys(m_cold_map, KeysOf(SubSeq(m_cold_list, n + 1, Len(m_cold_list))))
        node == [id |-> NewId(k), key |-> k, value_size |-> value_size] IN
    /\ IF InMap(map, k)
       THEN m_cold_list' = kept /\ m_cold_map' = map /\ m_cold_size' = size
       ELSE /\ m_cold_list' = <<node>> \o kept
            /\ m_cold_map' = map \cup {Entry(node)}
            /\ m_cold_size' = (size + value_size) % SizeMod
    /\ UNCHANGED <<hot, recency>>

Touch(k) == recency' = <<k>> \o RemoveFirst(recency, k)

\* Mistake: a hit leaves the node where it is.
GetHotInPlace(k) ==
    /\ InMap(m_hot_map, k)
    /\ Touch(k)
    /\ UNCHANGED <<hot, cold>>

\* Get of a hot key: the node is erased and pushed to the front as a new one.
GetHot(k) ==
    /\ InMap(m_hot_map, k)
    /\ LET node == [NodeAt(m_hot_list, Find(m_hot_map, k)) EXCEPT !.id = NewId(k)] IN
       /\ m_hot_list' = <<node>> \o Erase(m_hot_list, Find(m_hot_map, k))
       /\ m_hot_map' = EraseKeys(m_hot_map, {k}) \cup {Entry(node)}
    /\ Touch(k)
    /\ UNCHANGED <<m_hot_size, cold>>

\* Mistake: the older copy on the cold list stays.
DemoteNodeKeep(c, node) ==
    [list |-> <<node>> \o c.list,
     map |-> EraseKeys(c.map, {node.key}) \cup {Entry(node)},
     size |-> (c.size + node.value_size) % SizeMod]

\* Mistake: the older copy goes, its size stays.
DemoteNodeOldSize(c, node) ==
    [list |-> <<node>> \o (IF InMap(c.map, node.key) THEN Erase(c.list, Find(c.map, node.key)) ELSE c.list),
     map |-> EraseKeys(c.map, {node.key}) \cup {Entry(node)},
     size |-> (c.size + node.value_size) % SizeMod]

\* A round of ReserveHotList's loop: the node goes to the front of the cold
\* list, and an older copy there goes.
DemoteNode(c, node) ==
    LET older == InMap(c.map, node.key)
        id == Find(c.map, node.key) IN
    [list |-> <<node>> \o (IF older THEN Erase(c.list, id) ELSE c.list),
     map |-> EraseKeys(c.map, {node.key}) \cup {Entry(node)},
     size |-> (c.size + node.value_size
                  - (IF older THEN NodeAt(c.list, id).value_size ELSE 0)) % SizeMod]

\* The loop, over the nodes that the hot list drops, the last one first.
Demote(demoted, list, map, size) ==
    LET after[k \in 0 .. Len(demoted)] ==
            IF k = 0 THEN [list |-> list, map |-> map, size |-> size]
            ELSE DemoteNode(after[k - 1], demoted[Len(demoted) + 1 - k])
    IN after[Len(demoted)]

\* Mistake: the hot list drops its last nodes instead of demoting them.
GetColdDrop(k) ==
    /\ ~InMap(m_hot_map, k) /\ InMap(m_cold_map, k)
    /\ LET node == NodeAt(m_cold_list, Find(m_cold_map, k))
           n == Kept(m_hot_list, m_hot_size, m_max_hot_size, node.value_size)
           dropped == SubSeq(m_hot_list, n + 1, Len(m_hot_list)) IN
       /\ m_hot_list' = <<node>> \o SubSeq(m_hot_list, 1, n)
       /\ m_hot_map' = EraseKeys(m_hot_map, KeysOf(dropped)) \cup {Entry(node)}
       /\ m_hot_size' = SizeOfFirst(m_hot_list, m_hot_size, n)
       /\ m_cold_list' = Erase(m_cold_list, node.id)
       /\ m_cold_map' = EraseKeys(m_cold_map, {k})
       /\ m_cold_size' = (m_cold_size - node.value_size) % SizeMod
    /\ Touch(k)

\* Get of a cold key: it leaves the cold list, ReserveHotList makes room, and
\* it is pushed to the front of the hot list.  m_hot_size is not increased.
GetCold(k) ==
    /\ ~InMap(m_hot_map, k) /\ InMap(m_cold_map, k)
    /\ LET node == NodeAt(m_cold_list, Find(m_cold_map, k))
           n == Kept(m_hot_list, m_hot_size, m_max_hot_size, node.value_size)
           demoted == SubSeq(m_hot_list, n + 1, Len(m_hot_list))
           c == Demote(demoted, Erase(m_cold_list, node.id), EraseKeys(m_cold_map, {k}),
                       (m_cold_size - node.value_size) % SizeMod) IN
       /\ m_hot_list' = <<node>> \o SubSeq(m_hot_list, 1, n)
       /\ m_hot_map' = EraseKeys(m_hot_map, KeysOf(demoted)) \cup {Entry(node)}
       /\ m_hot_size' = SizeOfFirst(m_hot_list, m_hot_size, n)
       /\ m_cold_list' = c.list /\ m_cold_map' = c.map /\ m_cold_size' = c.size
    /\ Touch(k)

\* Delete looks at the cold list only when the key is not hot.
DeleteHot(k) ==
    /\ InMap(m_hot_map, k)
    /\ LET node == NodeAt(m_hot_list, Find(m_hot_map, k)) IN
       /\ m_hot_size' = (m_hot_size - node.value_size) % SizeMod
       /\ m_hot_list' = Erase(m_hot_list, node.id)
       /\ m_hot_map' = EraseKeys(m_hot_map, {k})
    /\ UNCHANGED <<cold, recency>>

DeleteCold(k) ==
    /\ ~InMap(m_hot_map, k) /\ InMap(m_cold_map, k)
    /\ LET node == NodeAt(m_cold_list, Find(m_cold_map, k)) IN
       /\ m_cold_size' = (m_cold_size - node.value_size) % SizeMod
       /\ m_cold_list' = Erase(m_cold_list, node.id)
       /\ m_cold_map' = EraseKeys(m_cold_map, {k})
    /\ UNCHANGED <<hot, recency>>

Get(k) == GetHot(k) \/ GetCold(k)
Delete(k) == DeleteHot(k) \/ DeleteCold(k)

Next == \E k \in Keys : Get(k) \/ Delete(k) \/ \E n \in ValueSizes : Add(k, n)

Spec == Init /\ [][Next]_vars
-----------------------------------------------------------------------------
(***************************************************************************)
(* Properties.                                                             *)
(***************************************************************************)
Indexes(map, list) ==
    /\ map = {Entry(n) : n \in ToSet(list)}
    /\ \A i, j \in DOMAIN list : i # j => list[i].key # list[j].key

\* Each map has exactly one iterator per node of its list, at that node: no
\* key is twice on a list, no node is lost, no iterator dangles.
MapsMatchLists ==
    /\ Indexes(m_hot_map, m_hot_list)
    /\ Indexes(m_cold_map, m_cold_list)
    /\ {n.id : n \in ToSet(m_hot_list)} \cap {n.id : n \in ToSet(m_cold_list)} = {}

\* m_cold_size is the sum of the sizes on the cold list, through evictions,
\* demotions that replace an older copy, and deletions.
ColdSizeExact == m_cold_size = Sizes(m_cold_list) % SizeMod

\* The hot list is in the order of the latest Get of its keys.
HotByRecency ==
    /\ KeysOf(m_hot_list) \subseteq ToSet(recency)
    /\ \A i, j \in DOMAIN m_hot_list, p, q \in DOMAIN recency :
         recency[p] = m_hot_list[i].key /\ recency[q] = m_hot_list[j].key /\ i < j => p < q

Cached == KeysOf(m_hot_list) \cup KeysOf(m_cold_list)

\* Get loses no key: whatever the hot list pushes out is still cold.
GetLosesNothing == [][(\E k \in Keys : Get(k)) => Cached' = Cached]_vars

\* Add makes room before it inserts: the cold list fits its limit, or holds
\* nothing but the new node.
AddMakesRoom ==
    [][\A k \in Keys, n \in ValueSizes : Add(k, n) =>
          (m_cold_size' <= m_max_cold_size \/ KeysOf(m_cold_list') = {k})]_vars
=============================================================================
