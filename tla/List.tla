-------------------------------- MODULE List --------------------------------
(***************************************************************************)
(* The intrusive circular list (include/xfutil/list.h).  "lk" maps the     *)
(* address of a ListNode to its two pointers; a List is a node too.  Every *)
(* operator returns the memory after it, with the assignments of the code  *)
(* in their order.                                                         *)
(***************************************************************************)
EXTENDS Integers, FiniteSets, Sequences

\* ListInit.
NewList(list) == [next |-> list, prev |-> list]

ListEmtpy(lk, list) == lk[list].next = list
ListHead(lk, list) == lk[list].next

\* new_node may be new memory.
ListInsert_(lk, new_node, prev, next) ==
    LET memory == [n \in DOMAIN lk \cup {new_node} |->
                      IF n = new_node THEN [next |-> next, prev |-> prev] ELSE lk[n]] IN
    [memory EXCEPT ![next].prev = new_node, ![prev].next = new_node]

ListAddHead(lk, new_node, list) == ListInsert_(lk, new_node, list, lk[list].next)
ListAddTail(lk, new_node, list) == ListInsert_(lk, new_node, lk[list].prev, list)

\* Mistake: only the forward pointer is mended.
ListDeleteForward_(lk, prev, next) == [lk EXCEPT ![prev].next = next]

ListDelete_(lk, prev, next) == [lk EXCEPT ![next].prev = prev, ![prev].next = next]
ListDelete(lk, node) == ListDelete_(lk, lk[node].prev, lk[node].next)

\* The nodes in the order of ListForeach.
Nodes(lk, list) ==
    LET at[i \in 0 .. Cardinality(DOMAIN lk)] ==
            IF i = 0 THEN list ELSE lk[at[i - 1]].next
        last == CHOOSE i \in DOMAIN at :
                    /\ lk[at[i]].next = list
                    /\ \A j \in 0 .. i - 1 : lk[at[j]].next # list
    IN [i \in 1 .. last |-> at[i]]

\* The two directions agree at every node.
Linked(lk) ==
    \A n \in DOMAIN lk :
        /\ lk[n].next \in DOMAIN lk /\ lk[lk[n].next].prev = n
        /\ lk[n].prev \in DOMAIN lk /\ lk[lk[n].prev].next = n
=============================================================================
