---------------------------- MODULE LinkedLists ----------------------------
(***************************************************************************)
(* The circular doubly linked lists of util.c, several of them in one      *)
(* heap.  A state of the heap is a record; each operation maps it to the   *)
(* next one, so that a function of the program that calls several of them  *)
(* is a composition of these.                                              *)
(***************************************************************************)
EXTENDS SequencesExt, Naturals

CONSTANTS
    Lists,      \* the variables that hold a head pointer
    MaxNodes,   \* bound: nodes of the heap
    Values,     \* what the nodes point at
    NULL

Nodes == 1 .. MaxNodes

ASSUME HeapAssumption == MaxNodes \in Nat /\ NULL \notin Nodes

EmptyHeap ==
    [head  |-> [l \in Lists |-> NULL],
     next  |-> [n \in Nodes |-> NULL],
     prev  |-> [n \in Nodes |-> NULL],
     value |-> [n \in Nodes |-> NULL]]

\* malloc: any node that is not in use; here the lowest.
Used(h) == {n \in Nodes : h.next[n] # NULL}
Malloc(h) == CHOOSE n \in Nodes \ Used(h) : \A m \in Nodes \ Used(h) : n <= m

\* ll_append_node.
AppendNode(h, l, v) ==
    LET n == Malloc(h)
        head == h.head[l]
        last == h.prev[head]
    IN  IF head = NULL
        THEN [h EXCEPT !.head[l] = n, !.prev[n] = n, !.next[n] = n, !.value[n] = v]
        ELSE [h EXCEPT !.prev[head] = n, !.next[last] = n,
                       !.next[n] = head, !.prev[n] = last, !.value[n] = v]

PopNodeKeepsPrev(h, l) ==  \* Mutant: the new head keeps pointing back at the node that left.
    LET head == h.head[l]
        last == h.prev[head]
        new  == h.next[head]
        Unlinked(g) == [g EXCEPT !.next[head] = NULL, !.prev[head] = NULL, !.value[head] = NULL]
    IN  IF head = NULL THEN h
        ELSE IF last = head THEN Unlinked([h EXCEPT !.head[l] = NULL])
        ELSE Unlinked([h EXCEPT !.head[l] = new, !.next[last] = new])

\* ll_pop_node; every caller frees the node it returns.
PopNode(h, l) ==
    LET head == h.head[l]
        last == h.prev[head]
        new  == h.next[head]
        Unlinked(g) == [g EXCEPT !.next[head] = NULL, !.prev[head] = NULL, !.value[head] = NULL]
    IN  IF head = NULL THEN h
        ELSE IF last = head THEN Unlinked([h EXCEPT !.head[l] = NULL])
        ELSE Unlinked([h EXCEPT !.head[l] = new, !.next[last] = new, !.prev[new] = last])

\* ll_peek_node.
PeekNode(h, l) == h.value[h.head[l]]

\* The nodes that MaxNodes steps along next lead to, from the head.
Along(h, l) ==
    LET at[k \in 1 .. MaxNodes + 1] == IF k = 1 THEN h.head[l] ELSE h.next[at[k - 1]]
    IN  [k \in 1 .. MaxNodes + 1 |-> at[k]]

\* The number ll_get_length counts.
Length(h, l) ==
    IF h.head[l] = NULL THEN 0
    ELSE LET at == Along(h, l)
         IN  CHOOSE k \in 1 .. MaxNodes : at[k + 1] = at[1] /\ \A m \in 2 .. k : at[m] # at[1]

\* The values in the order of the list.
Contents(h, l) == LET at == Along(h, l) IN [k \in 1 .. Length(h, l) |-> h.value[at[k]]]

-----------------------------------------------------------------------------

\* Both chains of every list of h run through the same nodes in opposite order,
\* close, and share no node with another list; no node in use is out of reach.
WellLinked(h) ==
    LET used == Used(h)
        heads == {l \in Lists : h.head[l] # NULL}
    IN  /\ \A n \in used :
              /\ h.next[n] \in used /\ h.prev[n] \in used
              /\ h.prev[h.next[n]] = n /\ h.next[h.prev[n]] = n
        /\ \A l \in heads : h.head[l] \in used
        /\ LET reach == [l \in heads |-> Range(Along(h, l))] IN
              /\ used = UNION {reach[l] : l \in heads}
              /\ \A l, m \in heads : l # m => reach[l] \cap reach[m] = {}
=============================================================================
