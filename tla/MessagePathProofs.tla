-------------------------- MODULE MessagePathProofs --------------------------
(***************************************************************************)
(* Three results, for every size of a byte, of a frame and of the heap,    *)
(* every text that may be typed and every number of inverted bytes.        *)
(*                                                                         *)
(* The lists of util.c.  A heap is good when there is, for each list, the  *)
(* sequence of its nodes: next and prev run through it in opposite order   *)
(* and close, no node is in two places, none in use is out of reach.       *)
(* ll_append_node and ll_pop_node keep it so, and are Append and Tail of   *)
(* the values; ll_get_length counts them.                                  *)
(*                                                                         *)
(* The checksum of util.c accepts what it was made for and detects an      *)
(* inverted byte.  The argument follows two sums bit by bit: that of the   *)
(* frame before it was changed in one byte p, and that of the frame after. *)
(* Their difference is empty before p, consists of the bits of the change  *)
(* that were taken in while p is read, and is the change itself when p has *)
(* been read: taken in alone, it never loses its top bit, so the generator *)
(* does not enter.  From then on both sums take in the same bits, and a    *)
(* difference that is not empty stays so, because the generator puts back  *)
(* a bit in place of the one shifted out.                                  *)
(*                                                                         *)
(* The path of a message.  The frames between handle_input_cmds and        *)
(* reassemble_message - received, in the window, buffered - carry the      *)
(* texts that were typed without a gap: each has its place, a message and  *)
(* an offset in it; the first is where the assembled bytes end, and behind *)
(* the last handle_input_cmds goes on.                                     *)
(***************************************************************************)
EXTENDS MessagePath, SequenceTheorems, FiniteSetTheorems, WellFoundedInduction, TLAPS

\* Heaps whose nodes hold members of Values.
Heaps == [head : [Lists -> Nodes \cup {NULL}], next : [Nodes -> Nodes \cup {NULL}],
             prev : [Nodes -> Nodes \cup {NULL}], value : [Nodes -> Values \cup {NULL}]]

\* The nodes of each list of h, in their order, are those of r.
Heads(h, r)    == \A l \in Lists : h.head[l] = IF r[l] = << >> THEN NULL ELSE r[l][1]
Nexts(h, r)    == \A l \in Lists : \A k \in 1 .. Len(r[l]) :
                    h.next[r[l][k]] = r[l][IF k = Len(r[l]) THEN 1 ELSE k + 1]
Prevs(h, r)    == \A l \in Lists : \A k \in 1 .. Len(r[l]) :
                    h.prev[r[l][k]] = r[l][IF k = 1 THEN Len(r[l]) ELSE k - 1]
Apart(r)       == \A l, m \in Lists : \A a \in 1 .. Len(r[l]), b \in 1 .. Len(r[m]) :
                    r[l][a] = r[m][b] => l = m /\ a = b
Reached(h, r)  == \A n \in Used(h) : \E l \in Lists : \E k \in 1 .. Len(r[l]) : n = r[l][k]
Chains(h, r)   == Heads(h, r) /\ Nexts(h, r) /\ Prevs(h, r) /\ Apart(r) /\ Reached(h, r)

\* One of several lists gets longer, or shorter.
Appended(r, l, n) == [r EXCEPT ![l] = Append(r[l], n)]
Popped(r, l)      == [r EXCEPT ![l] = Tail(r[l])]

\* They hold the values of c.
Holds(h, r, c) == \A l \in Lists : /\ Len(c[l]) = Len(r[l])
                                   /\ \A k \in 1 .. Len(r[l]) : c[l][k] = h.value[r[l][k]]

\* The lists of h are the sequences of c.
Shows(h, c) == \E r \in [Lists -> Seq(Nodes)] : Chains(h, r) /\ Holds(h, r, c)

-----------------------------------------------------------------------------

\* A set of numbers has a least one.
LEMMA LeastNumber ==
  ASSUME NEW T \in SUBSET Nat, T # {}
  PROVE  \E x \in T : \A y \in T : x <= y
<1>1. \E x \in T : \A y \in T : ~(y < x)
  <2> DEFINE R == OpToRel(<, Nat)
  <2>1. IsWellFoundedOn(R, Nat)
    BY NatLessThanWellFounded
  <2>2. PICK x \in T : \A y \in T : ~(<<y, x>> \in R)
    <3> HIDE DEF R
    <3> QED  BY <2>1, WFMin, Zenon
  <2> QED  BY <2>2 DEF OpToRel
<1> QED  BY <1>1

\* Induction, as a statement about a set.
LEMMA SetInduction ==
  ASSUME NEW T, 1 \in T, \A n \in Nat \ {0} : n \in T => n + 1 \in T
  PROVE  Nat \ {0} \subseteq T
<1> SUFFICES ASSUME (Nat \ {0}) \ T # {} PROVE FALSE
  OBVIOUS
<1>1. PICK x \in (Nat \ {0}) \ T : \A y \in (Nat \ {0}) \ T : x <= y
  <2>1. (Nat \ {0}) \ T \in SUBSET Nat  OBVIOUS
  <2> QED  BY <2>1, LeastNumber
<1>2. x # 1 /\ x - 1 \in Nat \ {0}  BY <1>1
<1>3. x - 1 \in T  BY <1>1, <1>2
<1>4. x - 1 + 1 \in T  BY <1>2, <1>3
<1> QED  BY <1>1, <1>2, <1>4

\* malloc finds a node that is not in use, if there is one.
LEMMA MallocFree ==
  ASSUME NEW h, Used(h) # Nodes
  PROVE  Malloc(h) \in Nodes /\ h.next[Malloc(h)] = NULL
<1>1. Nodes \ Used(h) \in SUBSET Nat /\ Nodes \ Used(h) # {}
  BY HeapAssumption DEF Nodes, Used
<1>2. \E n \in Nodes \ Used(h) : \A m \in Nodes \ Used(h) : n <= m
  BY <1>1, LeastNumber
<1>3. Malloc(h) \in Nodes \ Used(h)
  BY <1>2 DEF Malloc
<1> QED  BY <1>3 DEF Used

\* The nodes of a chain are in use.
LEMMA ChainFacts ==
  ASSUME NEW h \in Heaps, NEW r \in [Lists -> Seq(Nodes)], Chains(h, r),
         NEW l \in Lists
  PROVE  /\ Len(r[l]) \in Nat /\ DOMAIN r[l] = 1 .. Len(r[l])
         /\ (r[l] = << >> <=> Len(r[l]) = 0)
         /\ \A k \in 1 .. Len(r[l]) : /\ r[l][k] \in Nodes
                                      /\ h.next[r[l][k]] \in Nodes /\ h.next[r[l][k]] # NULL
                                      /\ h.prev[r[l][k]] \in Nodes
<1>1. r[l] \in Seq(Nodes)  OBVIOUS
<1>2. Len(r[l]) \in Nat /\ DOMAIN r[l] = 1 .. Len(r[l])  BY <1>1, LenProperties
<1>3. r[l] = << >> <=> Len(r[l]) = 0  BY <1>1, EmptySeq
<1>4. \A k \in 1 .. Len(r[l]) : r[l][k] \in Nodes  BY <1>1, ElementOfSeq
<1>5. ASSUME NEW k \in 1 .. Len(r[l])
      PROVE  h.next[r[l][k]] \in Nodes /\ h.prev[r[l][k]] \in Nodes
  <2> DEFINE L == Len(r[l])
  <2>2. L \in Nat /\ k \in 1 .. L  BY <1>2
  <2> HIDE DEF L
  <2>1. /\ (IF k = L THEN 1 ELSE k + 1) \in 1 .. L
        /\ (IF k = 1 THEN L ELSE k - 1) \in 1 .. L
    BY <2>2
  <2> QED  BY <1>4, <2>1 DEF Chains, Nexts, Prevs, L
<1> QED  BY <1>2, <1>3, <1>4, <1>5, HeapAssumption

\* What ll_append_node writes, field by field.
LEMMA AppendFields ==
  ASSUME NEW h \in Heaps, NEW l \in Lists, NEW v \in Values, NEW n \in Nodes,
         n = Malloc(h), h.head[l] # NULL => h.head[l] \in Nodes \ {n} /\ h.prev[h.head[l]] \in Nodes \ {n}
  PROVE  LET g    == AppendNode(h, l, v)
             head == h.head[l]
             last == h.prev[head]
         IN  /\ g \in Heaps
             /\ \A m \in Lists : g.head[m] = IF head = NULL /\ m = l THEN n ELSE h.head[m]
             /\ head = NULL =>
                  \A x \in Nodes :
                    /\ g.next[x] = IF x = n THEN n ELSE h.next[x]
                    /\ g.prev[x] = IF x = n THEN n ELSE h.prev[x]
             /\ head # NULL =>
                  \A x \in Nodes :
                    /\ g.next[x] = IF x = n THEN head ELSE IF x = last THEN n ELSE h.next[x]
                    /\ g.prev[x] = IF x = n THEN last ELSE IF x = head THEN n ELSE h.prev[x]
             /\ \A x \in Nodes : g.value[x] = IF x = n THEN v ELSE h.value[x]
<1>1. CASE h.head[l] = NULL
  BY <1>1 DEF AppendNode, Heaps
<1>2. CASE h.head[l] # NULL
  BY <1>2 DEF AppendNode, Heaps
<1> QED  BY <1>1, <1>2

\* What ll_pop_node writes.
LEMMA PopFields ==
  ASSUME NEW h \in Heaps, NEW l \in Lists, h.head[l] \in Nodes, h.head[l] # NULL,
         h.prev[h.head[l]] \in Nodes, h.next[h.head[l]] \in Nodes
  PROVE  LET g    == PopNode(h, l)
             head == h.head[l]
             last == h.prev[head]
             new  == h.next[head]
         IN  /\ g \in Heaps
             /\ last = head =>
                  /\ \A m \in Lists : g.head[m] = IF m = l THEN NULL ELSE h.head[m]
                  /\ \A x \in Nodes :
                       /\ g.next[x] = IF x = head THEN NULL ELSE h.next[x]
                       /\ g.prev[x] = IF x = head THEN NULL ELSE h.prev[x]
             /\ last # head =>
                  /\ \A m \in Lists : g.head[m] = IF m = l THEN new ELSE h.head[m]
                  /\ \A x \in Nodes :
                       /\ g.next[x] = IF x = head THEN NULL ELSE IF x = last THEN new ELSE h.next[x]
                       /\ g.prev[x] = IF x = head THEN NULL ELSE IF x = new THEN last ELSE h.prev[x]
             /\ \A x \in Nodes : g.value[x] = IF x = head THEN NULL ELSE h.value[x]
<1>1. CASE h.prev[h.head[l]] = h.head[l]
  BY <1>1 DEF PopNode, Heaps
<1>2. CASE h.prev[h.head[l]] # h.head[l]
  <2> DEFINE head == h.head[l]
             last == h.prev[head]
             new  == h.next[head]
             nexts == [[h.next EXCEPT ![last] = new] EXCEPT ![head] = NULL]
             prevs == [[h.prev EXCEPT ![new] = last] EXCEPT ![head] = NULL]
             mid == [h EXCEPT !.head[l] = new, !.next[last] = new, !.prev[new] = last]
             g == [head |-> [h.head EXCEPT ![l] = new], next |-> nexts, prev |-> prevs,
                   value |-> [h.value EXCEPT ![head] = NULL]]
  <2>1. PopNode(h, l) = [mid EXCEPT !.next[head] = NULL, !.prev[head] = NULL, !.value[head] = NULL]
    BY <1>2 DEF PopNode
  <2>2. /\ mid \in Heaps
        /\ mid.head = [h.head EXCEPT ![l] = new] /\ mid.next = [h.next EXCEPT ![last] = new]
        /\ mid.prev = [h.prev EXCEPT ![new] = last] /\ mid.value = h.value
    BY DEF Heaps
  <2>3. PopNode(h, l) = g
    <3> HIDE DEF mid
    <3>1. PopNode(h, l) = [head |-> mid.head, next |-> [mid.next EXCEPT ![head] = NULL],
                           prev |-> [mid.prev EXCEPT ![head] = NULL],
                           value |-> [mid.value EXCEPT ![head] = NULL]]
      BY <2>1, <2>2 DEF Heaps
    <3> QED  BY <2>2, <3>1
  <2>4. g \in Heaps
    BY DEF Heaps
  <2>5. /\ \A m \in Lists : g.head[m] = IF m = l THEN new ELSE h.head[m]
        /\ \A x \in Nodes :
             /\ g.next[x] = IF x = head THEN NULL ELSE IF x = last THEN new ELSE h.next[x]
             /\ g.prev[x] = IF x = head THEN NULL ELSE IF x = new THEN last ELSE h.prev[x]
             /\ g.value[x] = IF x = head THEN NULL ELSE h.value[x]
    BY DEF Heaps
  <2>6. last # head  BY <1>2
  <2> HIDE DEF g, head, last, new
  <2>7. /\ PopNode(h, l) \in Heaps
        /\ last = head =>
                  /\ \A m \in Lists : PopNode(h, l).head[m] = IF m = l THEN NULL ELSE h.head[m]
                  /\ \A x \in Nodes :
                       /\ PopNode(h, l).next[x] = IF x = head THEN NULL ELSE h.next[x]
                       /\ PopNode(h, l).prev[x] = IF x = head THEN NULL ELSE h.prev[x]
        /\ last # head =>
                  /\ \A m \in Lists : PopNode(h, l).head[m] = IF m = l THEN new ELSE h.head[m]
                  /\ \A x \in Nodes :
                       /\ PopNode(h, l).next[x] = IF x = head THEN NULL ELSE IF x = last THEN new ELSE h.next[x]
                       /\ PopNode(h, l).prev[x] = IF x = head THEN NULL ELSE IF x = new THEN last ELSE h.prev[x]
        /\ \A x \in Nodes : PopNode(h, l).value[x] = IF x = head THEN NULL ELSE h.value[x]
    BY <2>3, <2>4, <2>5, <2>6
  <2> QED  BY <2>7 DEF head, last, new
<1> QED  BY <1>1, <1>2

\* ll_append_node puts a new node at the end of one chain.
LEMMA AppendChains ==
  ASSUME NEW h \in Heaps, NEW r \in [Lists -> Seq(Nodes)], Chains(h, r),
         NEW l \in Lists, NEW v \in Values, Used(h) # Nodes
  PROVE  LET n == Malloc(h)
             g == AppendNode(h, l, v)
             R == Appended(r, l, n)
         IN  /\ g \in Heaps /\ Chains(g, R) /\ R \in [Lists -> Seq(Nodes)] /\ n \in Nodes
             /\ \A m \in Lists : \A k \in 1 .. Len(r[m]) : r[m][k] # n
             /\ \A x \in Nodes : g.value[x] = IF x = n THEN v ELSE h.value[x]
<1> DEFINE n    == Malloc(h)
           g    == AppendNode(h, l, v)
           R    == Appended(r, l, n)
           L    == Len(r[l])
           head == h.head[l]
           last == h.prev[head]
<1>1. n \in Nodes /\ h.next[n] = NULL
  BY MallocFree
<1>2. \A m \in Lists : /\ Len(r[m]) \in Nat /\ (r[m] = << >> <=> Len(r[m]) = 0)
                       /\ \A k \in 1 .. Len(r[m]) : r[m][k] \in Nodes /\ r[m][k] # n
  BY <1>1, ChainFacts
<1>3. /\ R \in [Lists -> Seq(Nodes)] /\ Len(R[l]) = L + 1 /\ R[l][L + 1] = n /\ R[l] # << >>
      /\ \A k \in 1 .. L : R[l][k] = r[l][k]
      /\ \A m \in Lists : m # l => R[m] = r[m]
  <2>1. R[l] = Append(r[l], n)  BY DEF Appended
  <2> QED  BY <1>1, <2>1, AppendProperties DEF Appended
<1>4. /\ head = NULL <=> L = 0
      /\ L # 0 => /\ head = r[l][1] /\ last = r[l][L]
                  /\ 1 \in 1 .. L /\ L \in 1 .. L
  <2>1. CASE L = 0
    BY <1>2, <2>1 DEF Chains, Heads
  <2>2. CASE L # 0
    <3>1. 1 \in 1 .. L /\ L \in 1 .. L  BY <1>2, <2>2
    <3>2. head = r[l][1] /\ head # NULL
      BY <1>2, <2>2, <3>1, HeapAssumption DEF Chains, Heads
    <3>3. last = r[l][L]  BY <3>1, <3>2 DEF Chains, Prevs
    <3> QED  BY <2>2, <3>1, <3>2, <3>3
  <2> QED  BY <2>1, <2>2
<1>5. head # NULL => head \in Nodes \ {n} /\ last \in Nodes \ {n}
  BY <1>2, <1>4
<1>6. /\ g \in Heaps
      /\ \A m \in Lists : g.head[m] = IF head = NULL /\ m = l THEN n ELSE h.head[m]
      /\ L = 0 => \A x \in Nodes : g.next[x] = IF x = n THEN n ELSE h.next[x]
      /\ L = 0 => \A x \in Nodes : g.prev[x] = IF x = n THEN n ELSE h.prev[x]
      /\ L # 0 => \A x \in Nodes :
           g.next[x] = IF x = n THEN head ELSE IF x = last THEN n ELSE h.next[x]
      /\ L # 0 => \A x \in Nodes :
           g.prev[x] = IF x = n THEN last ELSE IF x = head THEN n ELSE h.prev[x]
      /\ \A x \in Nodes : g.value[x] = IF x = n THEN v ELSE h.value[x]
  BY <1>1, <1>4, <1>5, AppendFields
<1>7. \A m \in Lists : \A k \in 1 .. Len(r[m]) :
        /\ h.next[r[m][k]] = r[m][IF k = Len(r[m]) THEN 1 ELSE k + 1]
        /\ h.prev[r[m][k]] = r[m][IF k = 1 THEN Len(r[m]) ELSE k - 1]
  BY DEF Chains, Nexts, Prevs
<1>8. \A m \in Lists : h.head[m] = IF r[m] = << >> THEN NULL ELSE r[m][1]
  BY DEF Chains, Heads
<1>9. \A a, b \in Lists : \A p \in 1 .. Len(r[a]), q \in 1 .. Len(r[b]) :
        r[a][p] = r[b][q] => a = b /\ p = q
  BY DEF Chains, Apart
<1>10. \A x \in Nodes : h.next[x] # NULL =>
         \E m \in Lists : \E k \in 1 .. Len(r[m]) : x = r[m][k]
  BY DEF Chains, Reached, Used
<1>11. L \in Nat  BY <1>2
<1> HIDE DEF n, g, R, head, last
<1>12. Heads(g, R)
  <2>1. ASSUME NEW m \in Lists PROVE g.head[m] = IF R[m] = << >> THEN NULL ELSE R[m][1]
    <3>1. CASE m # l
      BY <1>3, <1>6, <1>8, <3>1
    <3>2. CASE m = l /\ L = 0
      BY <1>3, <1>4, <1>6, <3>2
    <3>3. CASE m = l /\ L # 0
      BY <1>3, <1>4, <1>6, <3>3 DEF head
    <3> QED  BY <3>1, <3>2, <3>3
  <2> QED  BY <2>1 DEF Heads
<1>13. ASSUME NEW m \in Lists, NEW k \in 1 .. Len(R[m])
       PROVE  /\ g.next[R[m][k]] = R[m][IF k = Len(R[m]) THEN 1 ELSE k + 1]
              /\ g.prev[R[m][k]] = R[m][IF k = 1 THEN Len(R[m]) ELSE k - 1]
  <2>1. CASE m # l
    <3>1. R[m] = r[m] /\ k \in 1 .. Len(r[m])  BY <1>3, <1>13, <2>1
    <3>2. r[m][k] \in Nodes /\ r[m][k] # n  BY <1>2, <3>1
    <3>3. L # 0 => r[m][k] # last /\ r[m][k] # head  BY <1>4, <1>9, <2>1, <3>1
    <3>4. g.next[r[m][k]] = h.next[r[m][k]] /\ g.prev[r[m][k]] = h.prev[r[m][k]]
      BY <1>6, <3>2, <3>3
    <3> QED  BY <1>7, <3>1, <3>4
  <2>2. CASE m = l /\ k \in 1 .. L
    <3>1. L # 0  BY <1>11, <2>2
    <3>2. /\ R[l][k] = r[l][k] /\ r[l][k] \in Nodes /\ r[l][k] # n
          /\ (r[l][k] = last <=> k = L) /\ (r[l][k] = head <=> k = 1)
      BY <1>2, <1>3, <1>4, <1>9, <2>2, <3>1
    <3>3. /\ g.next[r[l][k]] = IF k = L THEN n ELSE r[l][k + 1]
          /\ g.prev[r[l][k]] = IF k = 1 THEN n ELSE r[l][k - 1]
      BY <1>6, <1>7, <2>2, <3>1, <3>2
    <3>4. k # L => k + 1 \in 1 .. L /\ R[l][k + 1] = r[l][k + 1]
      BY <1>3, <1>11, <2>2
    <3>5. k # 1 => k - 1 \in 1 .. L /\ R[l][k - 1] = r[l][k - 1]
      BY <1>3, <1>11, <2>2
    <3>6. k # L + 1  BY <1>11, <2>2
    <3> QED  BY <1>3, <2>2, <3>2, <3>3, <3>4, <3>5, <3>6
  <2>3. CASE m = l /\ k = L + 1
    <3>1. R[l][k] = n  BY <1>3, <2>3
    <3>2. CASE L = 0
      <4>1. g.next[n] = n /\ g.prev[n] = n  BY <1>1, <1>6, <3>2
      <4>2. L + 1 = 1  BY <3>2
      <4>3. k = 1 /\ Len(R[l]) = 1 /\ R[l][1] = n  BY <1>3, <2>3, <4>2
      <4> QED  BY <2>3, <4>1, <4>3
    <3>3. CASE L # 0
      <4>1. g.next[n] = head /\ g.prev[n] = last  BY <1>1, <1>6, <3>3
      <4>2. head = R[l][1] /\ last = R[l][L]  BY <1>3, <1>4, <3>3
      <4>3. k # 1 /\ k - 1 = L /\ k = Len(R[l])  BY <1>3, <1>11, <2>3, <3>3
      <4> QED  BY <2>3, <3>1, <4>1, <4>2, <4>3
    <3> QED  BY <3>2, <3>3
  <2>4. m = l => k \in 1 .. L \/ k = L + 1
    BY <1>3, <1>11, <1>13
  <2> QED  BY <2>1, <2>2, <2>3, <2>4
<1>14. ASSUME NEW a \in Lists, NEW b \in Lists, NEW p \in 1 .. Len(R[a]), NEW q \in 1 .. Len(R[b]),
              R[a][p] = R[b][q]
       PROVE  a = b /\ p = q
  <2>1. ASSUME NEW m \in Lists, NEW k \in 1 .. Len(R[m])
        PROVE  \/ m = l /\ k = L + 1 /\ R[m][k] = n
               \/ k \in 1 .. Len(r[m]) /\ R[m][k] = r[m][k] /\ R[m][k] # n
    <3>1. CASE m # l
      BY <1>2, <1>3, <2>1, <3>1
    <3>2. CASE m = l
      <4>1. k = L + 1 \/ k \in 1 .. L  BY <1>3, <1>11, <2>1, <3>2
      <4> QED  BY <1>2, <1>3, <3>2, <4>1
    <3> QED  BY <3>1, <3>2
  <2> QED  BY <1>9, <1>14, <2>1
<1>15. ASSUME NEW x \in Nodes, g.next[x] # NULL
       PROVE  \E m \in Lists : \E k \in 1 .. Len(R[m]) : x = R[m][k]
  <2>1. CASE x = n
    <3>1. L + 1 \in 1 .. Len(R[l])  BY <1>3, <1>11
    <3> QED  BY <1>3, <2>1, <3>1
  <2>2. CASE x # n
    <3>1. \E m \in Lists : \E k \in 1 .. Len(r[m]) : x = r[m][k]
      <4>1. CASE h.next[x] # NULL  BY <1>10, <4>1
      <4>2. CASE L # 0 /\ x = last  BY <1>4, <4>2
      <4> QED  BY <1>6, <1>15, <2>2, <4>1, <4>2
    <3>2. PICK m \in Lists : \E k \in 1 .. Len(r[m]) : x = r[m][k]  BY <3>1
    <3>4. PICK k \in 1 .. Len(r[m]) : x = r[m][k]  BY <3>2
    <3>3. k \in 1 .. Len(R[m]) /\ R[m][k] = r[m][k]
      <4>1. CASE m = l
        <5>1. k \in 1 .. L + 1  BY <1>11, <3>4, <4>1
        <5> QED  BY <1>3, <3>4, <4>1, <5>1
      <4>2. CASE m # l  BY <1>3, <3>4, <4>2
      <4> QED  BY <4>1, <4>2
    <3> QED  BY <3>3, <3>4
  <2> QED  BY <2>1, <2>2
<1>16. Nexts(g, R) /\ Prevs(g, R)  BY <1>13 DEF Nexts, Prevs
<1>17. Apart(R)  BY <1>14 DEF Apart
<1>18. Reached(g, R)  BY <1>15 DEF Reached, Used
<1>19. Chains(g, R)  BY <1>12, <1>16, <1>17, <1>18 DEF Chains
<1> QED  BY <1>1, <1>2, <1>3, <1>6, <1>19 DEF n, g, R

\* ll_pop_node takes the first node of a chain away.
LEMMA PopChains ==
  ASSUME NEW h \in Heaps, NEW r \in [Lists -> Seq(Nodes)], Chains(h, r),
         NEW l \in Lists, r[l] # << >>
  PROVE  LET g == PopNode(h, l)
             R == Popped(r, l)
         IN  /\ g \in Heaps /\ Chains(g, R) /\ R \in [Lists -> Seq(Nodes)]
             /\ h.head[l] = r[l][1] /\ r[l][1] \in Nodes
             /\ g.next[r[l][1]] = NULL
             /\ \A x \in Nodes : x # r[l][1] => g.value[x] = h.value[x]
<1> DEFINE g    == PopNode(h, l)
           R    == Popped(r, l)
           L    == Len(r[l])
           head == h.head[l]
           last == h.prev[head]
           new  == h.next[head]
<1>1. \A m \in Lists : /\ Len(r[m]) \in Nat /\ (r[m] = << >> <=> Len(r[m]) = 0)
                       /\ \A k \in 1 .. Len(r[m]) : r[m][k] \in Nodes
  BY ChainFacts
<1>2. L \in Nat /\ L # 0 /\ 1 \in 1 .. L /\ L \in 1 .. L
  BY <1>1
<1>3. /\ R \in [Lists -> Seq(Nodes)] /\ Len(R[l]) = L - 1 /\ (R[l] = << >> <=> L = 1)
      /\ \A k \in 1 .. L - 1 : R[l][k] = r[l][k + 1]
      /\ \A m \in Lists : m # l => R[m] = r[m]
  <2>1. R[l] = Tail(r[l])  BY DEF Popped
  <2>2. /\ Tail(r[l]) \in Seq(Nodes) /\ Len(Tail(r[l])) = L - 1
        /\ \A k \in 1 .. Len(Tail(r[l])) : Tail(r[l])[k] = r[l][k + 1]
    BY HeadTailProperties
  <2>3. Tail(r[l]) = << >> <=> Len(Tail(r[l])) = 0
    BY <2>2, EmptySeq
  <2>4. L - 1 = 0 <=> L = 1  BY <1>2
  <2> QED  BY <2>1, <2>2, <2>3, <2>4 DEF Popped
<1>4. \A m \in Lists : \A k \in 1 .. Len(r[m]) :
        /\ h.next[r[m][k]] = r[m][IF k = Len(r[m]) THEN 1 ELSE k + 1]
        /\ h.prev[r[m][k]] = r[m][IF k = 1 THEN Len(r[m]) ELSE k - 1]
  BY DEF Chains, Nexts, Prevs
<1>5. \A m \in Lists : h.head[m] = IF r[m] = << >> THEN NULL ELSE r[m][1]
  BY DEF Chains, Heads
<1>6. \A a, b \in Lists : \A p \in 1 .. Len(r[a]), q \in 1 .. Len(r[b]) :
        r[a][p] = r[b][q] => a = b /\ p = q
  BY DEF Chains, Apart
<1>7. \A x \in Nodes : h.next[x] # NULL =>
         \E m \in Lists : \E k \in 1 .. Len(r[m]) : x = r[m][k]
  BY DEF Chains, Reached, Used
<1>8. /\ head = r[l][1] /\ last = r[l][L] /\ (last = head <=> L = 1)
      /\ L # 1 => new = r[l][2] /\ 2 \in 1 .. L
      /\ head \in Nodes /\ head # NULL /\ last \in Nodes /\ new \in Nodes
  <2>1. head = r[l][1]  BY <1>5
  <2>2. last = r[l][L]  BY <1>2, <1>4, <2>1
  <2>3. last = head <=> L = 1
    <3>1. r[l][L] = r[l][1] => L = 1  BY <1>2, <1>6
    <3> QED  BY <2>1, <2>2, <3>1
  <2>4. L # 1 => 2 \in 1 .. L /\ 1 # L
    <3> HIDE DEF L
    <3> QED  BY <1>2
  <2>5. h.next[r[l][1]] = r[l][IF 1 = L THEN 1 ELSE 1 + 1]  BY <1>2, <1>4
  <2>6. L # 1 => new = r[l][2]  BY <2>1, <2>4, <2>5
  <2>7. L = 1 => new = r[l][1]  BY <2>1, <2>5
  <2> QED  BY <1>1, <1>2, <2>1, <2>2, <2>3, <2>4, <2>6, <2>7, HeapAssumption
<1>9. /\ g \in Heaps
      /\ \A m \in Lists : g.head[m] = IF m = l THEN IF L = 1 THEN NULL ELSE new ELSE h.head[m]
      /\ L = 1 => \A x \in Nodes : g.next[x] = IF x = head THEN NULL ELSE h.next[x]
      /\ L = 1 => \A x \in Nodes : g.prev[x] = IF x = head THEN NULL ELSE h.prev[x]
      /\ L # 1 => \A x \in Nodes :
           g.next[x] = IF x = head THEN NULL ELSE IF x = last THEN new ELSE h.next[x]
      /\ L # 1 => \A x \in Nodes :
           g.prev[x] = IF x = head THEN NULL ELSE IF x = new THEN last ELSE h.prev[x]
      /\ \A x \in Nodes : g.value[x] = IF x = head THEN NULL ELSE h.value[x]
  BY <1>8, PopFields
<1> HIDE DEF g, R, head, last, new
<1>10. Heads(g, R)
  <2>1. ASSUME NEW m \in Lists PROVE g.head[m] = IF R[m] = << >> THEN NULL ELSE R[m][1]
    <3>1. CASE m # l
      BY <1>3, <1>5, <1>9, <3>1
    <3>2. CASE m = l /\ L = 1
      BY <1>3, <1>9, <3>2
    <3>3. CASE m = l /\ L # 1
      <4>1. 1 \in 1 .. L - 1
        <5> HIDE DEF L
        <5> QED  BY <1>2, <3>3
      <4> QED  BY <1>3, <1>8, <1>9, <3>3, <4>1
    <3> QED  BY <3>1, <3>2, <3>3
  <2> QED  BY <2>1 DEF Heads
<1>11. ASSUME NEW m \in Lists, NEW k \in 1 .. Len(R[m])
       PROVE  /\ g.next[R[m][k]] = R[m][IF k = Len(R[m]) THEN 1 ELSE k + 1]
              /\ g.prev[R[m][k]] = R[m][IF k = 1 THEN Len(R[m]) ELSE k - 1]
  <2>1. CASE m # l
    <3>1. R[m] = r[m] /\ k \in 1 .. Len(r[m])  BY <1>3, <1>11, <2>1
    <3>2. r[m][k] \in Nodes  BY <1>1, <3>1
    <3>3. r[m][k] # head /\ r[m][k] # last /\ (L # 1 => r[m][k] # new)
      BY <1>2, <1>6, <1>8, <2>1, <3>1
    <3>4. g.next[r[m][k]] = h.next[r[m][k]] /\ g.prev[r[m][k]] = h.prev[r[m][k]]
      BY <1>9, <3>2, <3>3
    <3> QED  BY <1>4, <3>1, <3>4
  <2>2. CASE m = l
    <3>1. k \in 1 .. L - 1 /\ Len(R[l]) = L - 1  BY <1>3, <1>11, <2>2
    <3>2. L # 1 /\ k + 1 \in 1 .. L /\ k + 1 # 1 /\ (k + 1 = L <=> k = L - 1)
          /\ (k + 1 = 2 <=> k = 1) /\ k \in Nat /\ 1 \in 1 .. L - 1 /\ L - 1 \in 1 .. L - 1
      <4> HIDE DEF L
      <4> QED  BY <1>2, <3>1
    <3>3. /\ R[l][k] = r[l][k + 1] /\ r[l][k + 1] \in Nodes /\ r[l][k + 1] # head
          /\ (r[l][k + 1] = last <=> k = L - 1) /\ (r[l][k + 1] = new <=> k = 1)
      BY <1>1, <1>2, <1>3, <1>6, <1>8, <3>1, <3>2
    <3>4. /\ h.next[r[l][k + 1]] = r[l][IF k + 1 = L THEN 1 ELSE k + 1 + 1]
          /\ h.prev[r[l][k + 1]] = r[l][IF k + 1 = 1 THEN L ELSE k + 1 - 1]
      BY <1>4, <3>2
    <3>5. g.next[r[l][k + 1]] = R[l][IF k = L - 1 THEN 1 ELSE k + 1]
      <4>1. CASE k = L - 1
        <5>1. R[l][1] = r[l][1 + 1]  BY <1>3, <3>2
        <5> QED  BY <1>8, <1>9, <3>2, <3>3, <4>1, <5>1
      <4>2. CASE k # L - 1
        <5>1. k + 1 \in 1 .. L - 1  BY <1>2, <3>1, <4>2
        <5>2. R[l][k + 1] = r[l][k + 1 + 1]  BY <1>3, <5>1
        <5> QED  BY <1>9, <3>2, <3>3, <3>4, <4>2, <5>2
      <4> QED  BY <4>1, <4>2
    <3>6. g.prev[r[l][k + 1]] = R[l][IF k = 1 THEN L - 1 ELSE k - 1]
      <4>1. CASE k = 1
        <5>1. R[l][L - 1] = r[l][L - 1 + 1] /\ L - 1 + 1 = L  BY <1>2, <1>3, <3>2
        <5> QED  BY <1>8, <1>9, <3>2, <3>3, <4>1, <5>1
      <4>2. CASE k # 1
        <5>1. k - 1 \in 1 .. L - 1 /\ k - 1 + 1 = k /\ k + 1 - 1 = k
          BY <1>2, <3>1, <4>2
        <5>2. R[l][k - 1] = r[l][k]  BY <1>3, <5>1
        <5> QED  BY <1>9, <3>2, <3>3, <3>4, <4>2, <5>1, <5>2
      <4> QED  BY <4>1, <4>2
    <3> QED  BY <2>2, <3>1, <3>3, <3>5, <3>6
  <2> QED  BY <2>1, <2>2
<1>12. ASSUME NEW m \in Lists, NEW k \in 1 .. Len(R[m])
       PROVE  \E p \in 1 .. Len(r[m]) : /\ R[m][k] = r[m][p] /\ R[m][k] # head
                                        /\ p = IF m = l THEN k + 1 ELSE k
  <2>1. CASE m # l
    <3>1. R[m] = r[m] /\ k \in 1 .. Len(r[m])  BY <1>3, <1>12, <2>1
    <3>2. r[m][k] # head  BY <1>2, <1>6, <1>8, <2>1, <3>1
    <3> QED  BY <2>1, <3>1, <3>2
  <2>2. CASE m = l
    <3>1. k \in 1 .. L - 1  BY <1>3, <1>12, <2>2
    <3>2. k + 1 \in 1 .. L /\ k + 1 # 1  BY <1>2, <3>1
    <3>3. r[l][k + 1] # head  BY <1>2, <1>6, <1>8, <3>2
    <3> QED  BY <1>3, <2>2, <3>1, <3>2, <3>3
  <2> QED  BY <2>1, <2>2
<1>13. ASSUME NEW a \in Lists, NEW b \in Lists, NEW p \in 1 .. Len(R[a]), NEW q \in 1 .. Len(R[b]),
              R[a][p] = R[b][q]
       PROVE  a = b /\ p = q
  <2>1. PICK x \in 1 .. Len(r[a]) : R[a][p] = r[a][x] /\ x = IF a = l THEN p + 1 ELSE p
    BY <1>12
  <2>2. PICK y \in 1 .. Len(r[b]) : R[b][q] = r[b][y] /\ y = IF b = l THEN q + 1 ELSE q
    BY <1>12
  <2>3. a = b /\ x = y
    <3>1. r[a][x] = r[b][y]  BY <1>13, <2>1, <2>2
    <3>2. x \in 1 .. Len(r[a]) /\ y \in 1 .. Len(r[b])  BY <2>1, <2>2
    <3> QED  BY <1>6, <3>1, <3>2
  <2>4. p \in Nat /\ q \in Nat  OBVIOUS
  <2> QED  BY <2>1, <2>2, <2>3, <2>4
<1>14. ASSUME NEW x \in Nodes, g.next[x] # NULL
       PROVE  \E m \in Lists : \E k \in 1 .. Len(R[m]) : x = R[m][k]
  <2>1. x # head
    BY <1>8, <1>9, <1>14
  <2>2. \E m \in Lists : \E k \in 1 .. Len(r[m]) : x = r[m][k]
    <3>1. CASE h.next[x] # NULL  BY <1>7, <3>1
    <3>2. CASE x = last  BY <1>2, <1>8, <3>2
    <3> QED  BY <1>9, <1>14, <2>1, <3>1, <3>2
  <2>3. PICK m \in Lists : \E k \in 1 .. Len(r[m]) : x = r[m][k]  BY <2>2
  <2>4. PICK k \in 1 .. Len(r[m]) : x = r[m][k]  BY <2>3
  <2>5. CASE m # l  BY <1>3, <2>4, <2>5
  <2>6. CASE m = l
    <3>1. k # 1 /\ k \in 1 .. L  BY <1>8, <2>1, <2>4, <2>6
    <3>2. k - 1 \in 1 .. L - 1 /\ k - 1 + 1 = k  BY <1>2, <3>1
    <3>3. R[l][k - 1] = x  BY <1>3, <2>4, <2>6, <3>2
    <3> QED  BY <1>3, <2>6, <3>2, <3>3
  <2> QED  BY <2>5, <2>6
<1>15. Nexts(g, R) /\ Prevs(g, R)  BY <1>11 DEF Nexts, Prevs
<1>16. Apart(R)  BY <1>13 DEF Apart
<1>17. Reached(g, R)  BY <1>14 DEF Reached, Used
<1>18. Chains(g, R)  BY <1>10, <1>15, <1>16, <1>17 DEF Chains
<1>19. g.next[r[l][1]] = NULL  BY <1>8, <1>9
<1> QED  BY <1>3, <1>8, <1>9, <1>18, <1>19 DEF g, R, head

\* What a chain shows.
LEMMA ChainShows ==
  ASSUME NEW h \in Heaps, NEW r \in [Lists -> Seq(Nodes)], Chains(h, r),
         NEW c \in [Lists -> Seq(Values)], Holds(h, r, c), NEW l \in Lists
  PROVE  /\ Len(c[l]) = Len(r[l]) /\ Len(c[l]) \in Nat /\ DOMAIN c[l] = 1 .. Len(c[l])
         /\ (c[l] = << >> <=> r[l] = << >>) /\ (c[l] = << >> <=> Len(c[l]) = 0)
         /\ (h.head[l] = NULL <=> c[l] = << >>)
         /\ c[l] # << >> => h.head[l] = r[l][1] /\ 1 \in 1 .. Len(r[l])
         /\ \A k \in 1 .. Len(r[l]) : c[l][k] = h.value[r[l][k]]
<1>1. c[l] \in Seq(Values) /\ Len(c[l]) = Len(r[l])  BY DEF Holds
<1>2. Len(c[l]) \in Nat /\ DOMAIN c[l] = 1 .. Len(c[l])  BY <1>1, LenProperties
<1>3. c[l] = << >> <=> Len(c[l]) = 0  BY <1>1, EmptySeq
<1>4. /\ (r[l] = << >> <=> Len(r[l]) = 0)
      /\ \A k \in 1 .. Len(r[l]) : r[l][k] \in Nodes
  BY ChainFacts
<1>5. Len(r[l]) # 0 => 1 \in 1 .. Len(r[l])  BY <1>1, <1>2
<1>6. h.head[l] = IF r[l] = << >> THEN NULL ELSE r[l][1]  BY DEF Chains, Heads
<1> QED  BY <1>1, <1>2, <1>3, <1>4, <1>5, <1>6, HeapAssumption DEF Holds

\* The list of an empty heap are empty.
LEMMA EmptyShows ==
  EmptyHeap \in Heaps /\ Shows(EmptyHeap, [l \in Lists |-> << >>])
<1> DEFINE r == [l \in Lists |-> << >>]
<1>1. r \in [Lists -> Seq(Nodes)] /\ \A l \in Lists : r[l] = << >> /\ Len(r[l]) = 0
  BY EmptySeq
<1>2. EmptyHeap \in Heaps /\ Used(EmptyHeap) = {}
  BY DEF EmptyHeap, Heaps, Used
<1>3. Chains(EmptyHeap, r)
  <2>1. Heads(EmptyHeap, r)  BY <1>1 DEF Heads, EmptyHeap
  <2> HIDE DEF r
  <2>2. Nexts(EmptyHeap, r) /\ Prevs(EmptyHeap, r) /\ Apart(r)
    BY <1>1 DEF Nexts, Prevs, Apart
  <2>3. Reached(EmptyHeap, r)  BY <1>2 DEF Reached
  <2> QED  BY <2>1, <2>2, <2>3 DEF Chains
<1>4. Holds(EmptyHeap, r, r)
  <2> HIDE DEF r
  <2> QED  BY <1>1 DEF Holds
<1> QED  BY <1>1, <1>2, <1>3, <1>4 DEF Shows

\* ll_append_node appends to one list and leaves the others alone.
LEMMA AppendShows ==
  ASSUME NEW h \in Heaps, NEW c \in [Lists -> Seq(Values)], Shows(h, c),
         NEW l \in Lists, NEW v \in Values, Used(h) # Nodes
  PROVE  /\ AppendNode(h, l, v) \in Heaps
         /\ Shows(AppendNode(h, l, v), Appended(c, l, v))
<1> DEFINE n == Malloc(h)
           g == AppendNode(h, l, v)
           d == Appended(c, l, v)
<1>1. PICK r \in [Lists -> Seq(Nodes)] : Chains(h, r) /\ Holds(h, r, c)
  BY DEF Shows
<1> DEFINE R == Appended(r, l, n)
<1>2. /\ g \in Heaps /\ Chains(g, R) /\ R \in [Lists -> Seq(Nodes)] /\ n \in Nodes
      /\ \A m \in Lists : \A k \in 1 .. Len(r[m]) : r[m][k] # n
      /\ \A x \in Nodes : g.value[x] = IF x = n THEN v ELSE h.value[x]
  BY <1>1, AppendChains
<1>3. /\ Len(R[l]) = Len(r[l]) + 1 /\ R[l][Len(r[l]) + 1] = n
      /\ \A k \in 1 .. Len(r[l]) : R[l][k] = r[l][k]
      /\ \A m \in Lists : m # l => R[m] = r[m]
  <2>1. R[l] = Append(r[l], n)  BY DEF Appended
  <2> QED  BY <1>2, <2>1, AppendProperties DEF Appended
<1>4. /\ Len(d[l]) = Len(c[l]) + 1 /\ d[l][Len(c[l]) + 1] = v
      /\ \A k \in 1 .. Len(c[l]) : d[l][k] = c[l][k]
      /\ \A m \in Lists : m # l => d[m] = c[m]
  <2>1. d[l] = Append(c[l], v)  BY DEF Appended
  <2> QED  BY <2>1, AppendProperties DEF Appended
<1>5. \A m \in Lists : /\ Len(c[m]) = Len(r[m]) /\ Len(c[m]) \in Nat
                       /\ \A k \in 1 .. Len(r[m]) : c[m][k] = h.value[r[m][k]] /\ r[m][k] \in Nodes
  <2> TAKE m \in Lists
  <2>1. /\ Len(c[m]) = Len(r[m]) /\ Len(c[m]) \in Nat
        /\ \A k \in 1 .. Len(r[m]) : c[m][k] = h.value[r[m][k]]
    BY <1>1, ChainShows
  <2>2. \A k \in 1 .. Len(r[m]) : r[m][k] \in Nodes
    BY <1>1, ChainFacts
  <2> QED  BY <2>1, <2>2
<1> HIDE DEF n, g, d, R
<1>6. ASSUME NEW m \in Lists
      PROVE  Len(d[m]) = Len(R[m]) /\ \A k \in 1 .. Len(R[m]) : d[m][k] = g.value[R[m][k]]
  <2>1. CASE m # l
    <3>1. R[m] = r[m] /\ d[m] = c[m]  BY <1>3, <1>4, <2>1
    <3>2. ASSUME NEW k \in 1 .. Len(r[m]) PROVE c[m][k] = g.value[r[m][k]]
      <4>1. r[m][k] \in Nodes /\ r[m][k] # n /\ c[m][k] = h.value[r[m][k]]
        BY <1>2, <1>5
      <4> QED  BY <1>2, <4>1
    <3>3. Len(c[m]) = Len(r[m])  BY <1>5
    <3> QED  BY <3>1, <3>2, <3>3
  <2>2. CASE m = l
    <3>1. ASSUME NEW k \in 1 .. Len(R[l]) PROVE d[l][k] = g.value[R[l][k]]
      <4>1. CASE k \in 1 .. Len(r[l])
        <5>1. R[l][k] = r[l][k] /\ d[l][k] = c[l][k]  BY <1>3, <1>4, <1>5, <4>1
        <5>2. r[l][k] \in Nodes /\ r[l][k] # n /\ c[l][k] = h.value[r[l][k]]
          BY <1>2, <1>5, <4>1
        <5> QED  BY <1>2, <5>1, <5>2
      <4>2. CASE k = Len(r[l]) + 1  BY <1>2, <1>3, <1>4, <1>5, <4>2
      <4>3. Len(r[l]) \in Nat /\ k \in 1 .. Len(r[l]) + 1  BY <1>3, <1>5
      <4> QED  BY <4>1, <4>2, <4>3
    <3> QED  BY <1>3, <1>4, <1>5, <2>2, <3>1
  <2> QED  BY <2>1, <2>2
<1>7. Holds(g, R, d)  BY <1>6 DEF Holds
<1>8. g \in Heaps /\ Shows(g, d)  BY <1>2, <1>7 DEF Shows
<1> QED  BY <1>8 DEF g, d

\* ll_peek_node and ll_pop_node return the first item; ll_pop_node takes it out of the
\* list, leaves the others alone and makes room.
LEMMA PopShows ==
  ASSUME NEW h \in Heaps, NEW c \in [Lists -> Seq(Values)], Shows(h, c),
         NEW l \in Lists, c[l] # << >>
  PROVE  /\ PeekNode(h, l) = Head(c[l])
         /\ PopNode(h, l) \in Heaps /\ Used(PopNode(h, l)) # Nodes
         /\ Shows(PopNode(h, l), Popped(c, l))
<1> DEFINE g == PopNode(h, l)
           d == Popped(c, l)
<1>1. PICK r \in [Lists -> Seq(Nodes)] : Chains(h, r) /\ Holds(h, r, c)
  BY DEF Shows
<1> DEFINE R == Popped(r, l)
<1>2. \A m \in Lists : /\ Len(c[m]) = Len(r[m]) /\ Len(c[m]) \in Nat
                       /\ (c[m] # << >> => r[m] # << >> /\ 1 \in 1 .. Len(r[m]) /\ h.head[m] = r[m][1])
                       /\ \A k \in 1 .. Len(r[m]) : c[m][k] = h.value[r[m][k]] /\ r[m][k] \in Nodes
  <2> TAKE m \in Lists
  <2>1. /\ Len(c[m]) = Len(r[m]) /\ Len(c[m]) \in Nat
        /\ (c[m] = << >> <=> r[m] = << >>)
        /\ c[m] # << >> => h.head[m] = r[m][1] /\ 1 \in 1 .. Len(r[m])
        /\ \A k \in 1 .. Len(r[m]) : c[m][k] = h.value[r[m][k]]
    BY <1>1, ChainShows, ZenonT(60)
  <2>2. \A k \in 1 .. Len(r[m]) : r[m][k] \in Nodes
    BY <1>1, ChainFacts
  <2> QED  BY <2>1, <2>2
<1>3. /\ g \in Heaps /\ Chains(g, R) /\ R \in [Lists -> Seq(Nodes)]
      /\ h.head[l] = r[l][1] /\ r[l][1] \in Nodes /\ g.next[r[l][1]] = NULL
      /\ \A x \in Nodes : x # r[l][1] => g.value[x] = h.value[x]
  <2>1. Chains(h, r) /\ r[l] # << >>  BY <1>1, <1>2
  <2> QED  BY <1>1, <2>1, PopChains
<1>4. /\ Len(R[l]) = Len(r[l]) - 1 /\ \A k \in 1 .. Len(r[l]) - 1 : R[l][k] = r[l][k + 1]
      /\ \A m \in Lists : m # l => R[m] = r[m]
  <2>1. R[l] = Tail(r[l]) /\ r[l] # << >>  BY <1>2 DEF Popped
  <2> QED  BY <2>1, HeadTailProperties DEF Popped
<1>5. /\ Len(d[l]) = Len(c[l]) - 1 /\ \A k \in 1 .. Len(c[l]) - 1 : d[l][k] = c[l][k + 1]
      /\ \A m \in Lists : m # l => d[m] = c[m]
  <2>1. d[l] = Tail(c[l])  BY DEF Popped
  <2> QED  BY <2>1, HeadTailProperties DEF Popped
<1>6. PeekNode(h, l) = Head(c[l])
  <2>1. Head(c[l]) = c[l][1]  OBVIOUS
  <2>2. c[l][1] = h.value[r[l][1]]  BY <1>2
  <2> QED  BY <1>3, <2>1, <2>2 DEF PeekNode
<1>7. \A a, b \in Lists : \A p \in 1 .. Len(r[a]), q \in 1 .. Len(r[b]) :
        r[a][p] = r[b][q] => a = b /\ p = q
  BY <1>1 DEF Chains, Apart
<1> HIDE DEF g, d, R
<1>8. ASSUME NEW m \in Lists
      PROVE  Len(d[m]) = Len(R[m]) /\ \A k \in 1 .. Len(R[m]) : d[m][k] = g.value[R[m][k]]
  <2>1. CASE m # l
    <3>1. ASSUME NEW k \in 1 .. Len(r[m]) PROVE c[m][k] = g.value[r[m][k]]
      <4>1. r[m][k] # r[l][1]  BY <1>2, <1>7, <2>1
      <4> QED  BY <1>2, <1>3, <4>1
    <3> QED  BY <1>2, <1>4, <1>5, <2>1, <3>1
  <2>2. CASE m = l
    <3> DEFINE L == Len(r[l])
    <3>2. L \in Nat /\ Len(R[l]) = L - 1 /\ Len(d[l]) = L - 1  BY <1>2, <1>4, <1>5
    <3> HIDE DEF L
    <3>1. ASSUME NEW k \in 1 .. L - 1 PROVE d[l][k] = g.value[R[l][k]]
      <4>1. k + 1 \in 1 .. L /\ k + 1 # 1  BY <3>2
      <4>2. r[l][k + 1] # r[l][1] /\ r[l][k + 1] \in Nodes
        BY <1>2, <1>7, <4>1 DEF L
      <4>3. R[l][k] = r[l][k + 1] /\ d[l][k] = c[l][k + 1]
        BY <1>2, <1>4, <1>5 DEF L
      <4>4. c[l][k + 1] = h.value[r[l][k + 1]]  BY <1>2, <4>1 DEF L
      <4> QED  BY <1>3, <4>2, <4>3, <4>4
    <3> QED  BY <2>2, <3>1, <3>2
  <2> QED  BY <2>1, <2>2
<1>9. Holds(g, R, d)  BY <1>8 DEF Holds
<1>10. g \in Heaps /\ Shows(g, d) /\ Used(g) # Nodes
  BY <1>3, <1>9 DEF Shows, Used
<1> QED  BY <1>6, <1>10 DEF g, d

\* Walking from `first`, a step at a time.
WalkIs(f, M, first, step) == f = [k \in 1 .. M |-> IF k = 1 THEN first ELSE step[f[k - 1]]]

\* There is such a walk.
LEMMA WalkExists ==
  ASSUME NEW S, NEW first \in S, NEW step, \A x \in S : step[x] \in S, NEW M \in Nat \ {0}
  PROVE  \E f : WalkIs(f, M, first, step)
<1> DEFINE Body(f, m) == [k \in 1 .. m |-> IF k = 1 THEN first ELSE step[f[k - 1]]]
           T == {m \in Nat \ {0} : \E f \in [1 .. m -> S] : f = Body(f, m)}
<1>1. 1 \in T
  <2> DEFINE f == [k \in 1 .. 1 |-> first]
  <2>1. f \in [1 .. 1 -> S]  OBVIOUS
  <2>2. f = Body(f, 1)  OBVIOUS
  <2> HIDE DEF f, Body
  <2> QED  BY <2>1, <2>2
<1>2. ASSUME NEW m \in Nat \ {0}, m \in T PROVE m + 1 \in T
  <2>1. PICK f \in [1 .. m -> S] : f = Body(f, m)  BY <1>2
  <2> DEFINE g == [k \in 1 .. m + 1 |-> IF k <= m THEN f[k] ELSE step[f[m]]]
  <2>2. f[m] \in S /\ step[f[m]] \in S  BY <2>1
  <2>4. g \in [1 .. m + 1 -> S]  BY <2>1, <2>2
  <2>5. ASSUME NEW k \in 1 .. m + 1 PROVE g[k] = Body(g, m + 1)[k]
    <3>1. CASE k = 1
      <4>1. f[1] = first /\ 1 <= m  BY <2>1
      <4> QED  BY <3>1, <4>1
    <3>2. CASE k \in 2 .. m
      <4>1. f[k] = step[f[k - 1]]  BY <2>1, <3>2
      <4>2. k - 1 \in 1 .. m + 1 /\ k - 1 <= m /\ k <= m /\ k # 1  BY <3>2
      <4>3. g[k] = f[k] /\ g[k - 1] = f[k - 1]  BY <4>2
      <4>4. Body(g, m + 1)[k] = step[g[k - 1]]  BY <4>2
      <4> QED  BY <4>1, <4>3, <4>4
    <3>3. CASE k = m + 1
      <4>1. m \in 1 .. m + 1 /\ k # 1 /\ k - 1 = m /\ ~(k <= m)  BY <3>3
      <4>2. g[m] = f[m] /\ g[k] = step[f[m]]  BY <3>3, <4>1
      <4>3. Body(g, m + 1)[k] = step[g[k - 1]]  BY <4>1
      <4> QED  BY <4>1, <4>2, <4>3
    <3> QED  BY <3>1, <3>2, <3>3
  <2>6. g = Body(g, m + 1)
    <3>1. g = [k \in 1 .. m + 1 |-> g[k]]  OBVIOUS
    <3>2. Body(g, m + 1) = [k \in 1 .. m + 1 |-> Body(g, m + 1)[k]]  OBVIOUS
    <3> HIDE DEF g, Body
    <3> QED  BY <2>5, <3>1, <3>2, Zenon
  <2> HIDE DEF g, Body
  <2> QED  BY <2>4, <2>6
<1>3. \A m \in Nat \ {0} : m \in T => m + 1 \in T
  BY <1>2
<1> HIDE DEF T
<1>4. M \in T
  BY <1>1, <1>3, SetInduction
<1> QED  BY <1>4 DEF T, WalkIs

\* No chain has more nodes than the heap.
LEMMA ChainLength ==
  ASSUME NEW h \in Heaps, NEW r \in [Lists -> Seq(Nodes)], Chains(h, r), NEW l \in Lists
  PROVE  Len(r[l]) <= MaxNodes
<1>1. Len(r[l]) \in Nat /\ r[l] \in [1 .. Len(r[l]) -> Nodes]
  <2>1. r[l] \in Seq(Nodes)  OBVIOUS
  <2> QED  BY <2>1, LenProperties
<1>2. \A p, q \in 1 .. Len(r[l]) : r[l][p] = r[l][q] => p = q
  BY DEF Chains, Apart
<1>3. r[l] \in Injection(1 .. Len(r[l]), Nodes)
  BY <1>1, <1>2 DEF Injection, IsInjective
<1>4. /\ IsFiniteSet(1 .. Len(r[l])) /\ Cardinality(1 .. Len(r[l])) = Len(r[l])
      /\ IsFiniteSet(Nodes) /\ Cardinality(Nodes) = MaxNodes
  <2>1. \A n \in Nat : IsFiniteSet(1 .. n) /\ Cardinality(1 .. n) = IF 1 > n THEN 0 ELSE n - 1 + 1
    BY FS_Interval
  <2>2. \A n \in Nat : IsFiniteSet(1 .. n) /\ Cardinality(1 .. n) = n
    BY <2>1
  <2> QED  BY <1>1, <2>2, HeapAssumption DEF Nodes
<1>5. Cardinality(1 .. Len(r[l])) <= Cardinality(Nodes)
  BY <1>3, <1>4, FS_Injection
<1> QED  BY <1>4, <1>5

\* Along follows a chain, and comes back to its head behind the last node.
LEMMA AlongChain ==
  ASSUME NEW h \in Heaps, NEW r \in [Lists -> Seq(Nodes)], Chains(h, r),
         NEW l \in Lists, r[l] # << >>
  PROVE  /\ DOMAIN Along(h, l) = 1 .. MaxNodes + 1
         /\ Len(r[l]) \in 1 .. MaxNodes
         /\ \A k \in 1 .. MaxNodes + 1 : \E p \in 1 .. Len(r[l]) : Along(h, l)[k] = r[l][p]
         /\ \A k \in 1 .. Len(r[l]) : Along(h, l)[k] = r[l][k]
         /\ Along(h, l)[Len(r[l]) + 1] = r[l][1]
<1> DEFINE L == Len(r[l])
           S == {r[l][p] : p \in 1 .. L}
           M == MaxNodes + 1
<1>1. L \in 1 .. MaxNodes /\ M \in Nat \ {0}
  BY ChainFacts, ChainLength, HeapAssumption
<1>2. h.head[l] = r[l][1]  BY DEF Chains, Heads
<1>3. \A k \in 1 .. L : h.next[r[l][k]] = r[l][IF k = L THEN 1 ELSE k + 1]
  BY DEF Chains, Nexts
<1> HIDE DEF L, M
<1>4. h.head[l] \in S
  <2>1. 1 \in 1 .. L  BY <1>1
  <2> QED  BY <1>2, <2>1
<1>5. \A x \in S : h.next[x] \in S
  <2>1. ASSUME NEW k \in 1 .. L PROVE h.next[r[l][k]] \in S
    <3>1. (IF k = L THEN 1 ELSE k + 1) \in 1 .. L  BY <1>1
    <3> QED  BY <1>3, <3>1
  <2> QED  BY <2>1
<1>6. \E f : WalkIs(f, M, h.head[l], h.next)
  <2> HIDE DEF S
  <2> QED  BY <1>1, <1>4, <1>5, WalkExists
<1> DEFINE at == CHOOSE f : WalkIs(f, M, h.head[l], h.next)
<1>7. WalkIs(at, M, h.head[l], h.next)
  BY <1>6
<1>8. Along(h, l) = [k \in 1 .. M |-> at[k]]
  BY DEF Along, WalkIs, M
<1> HIDE DEF at
<1>9. /\ at[1] = r[l][1]
      /\ \A k \in 1 .. M - 1 : at[k + 1] = h.next[at[k]]
  <2>1. \A k \in 1 .. M : at[k] = IF k = 1 THEN h.head[l] ELSE h.next[at[k - 1]]
    BY <1>7 DEF WalkIs
  <2>2. 1 \in 1 .. M  BY <1>1
  <2>3. ASSUME NEW k \in 1 .. M - 1 PROVE at[k + 1] = h.next[at[k]]
    <3>1. k + 1 \in 1 .. M /\ k + 1 # 1 /\ k + 1 - 1 = k  BY <1>1
    <3> QED  BY <2>1, <3>1
  <2> QED  BY <1>2, <2>1, <2>2, <2>3
<1> DEFINE T == {k \in Nat \ {0} : k <= M =>
                   /\ at[k] \in S
                   /\ k <= L => at[k] = r[l][k]
                   /\ k = L + 1 => at[k] = r[l][1]}
<1>10. Nat \ {0} \subseteq T
  <2>1. 1 \in T
    <3>1. 1 # L + 1  BY <1>1
    <3> QED  BY <1>2, <1>4, <1>9, <3>1
  <2>2. ASSUME NEW k \in Nat \ {0}, k \in T PROVE k + 1 \in T
    <3> SUFFICES ASSUME k + 1 <= M
                 PROVE  /\ at[k + 1] \in S
                        /\ k + 1 <= L => at[k + 1] = r[l][k + 1]
                        /\ k + 1 = L + 1 => at[k + 1] = r[l][1]
      OBVIOUS
    <3>1. k \in 1 .. M - 1 /\ k <= M  BY <1>1
    <3>2. at[k + 1] = h.next[at[k]]  BY <1>9, <3>1
    <3>3. at[k] \in S /\ (k <= L => at[k] = r[l][k])  BY <2>2, <3>1
    <3>4. at[k + 1] \in S  BY <1>5, <3>2, <3>3
    <3>5. ASSUME k + 1 <= L PROVE at[k + 1] = r[l][k + 1]
      <4>1. k \in 1 .. L /\ k # L /\ k <= L  BY <1>1, <3>5
      <4> QED  BY <1>3, <3>2, <3>3, <4>1
    <3>6. ASSUME k + 1 = L + 1 PROVE at[k + 1] = r[l][1]
      <4>1. k = L /\ k \in 1 .. L /\ k <= L  BY <1>1, <3>6
      <4> QED  BY <1>3, <3>2, <3>3, <4>1
    <3> QED  BY <3>4, <3>5, <3>6
  <2>3. \A k \in Nat \ {0} : k \in T => k + 1 \in T
    BY <2>2
  <2> HIDE DEF T
  <2> QED  BY <2>1, <2>3, SetInduction
<1>11. \A k \in 1 .. M : /\ at[k] \in S
                         /\ k <= L => at[k] = r[l][k]
                         /\ k = L + 1 => at[k] = r[l][1]
  <2>1. \A k \in 1 .. M : k \in T /\ k <= M  BY <1>1, <1>10
  <2> QED  BY <2>1
<1>12. \A k \in 1 .. L : k \in 1 .. M /\ k <= L
  BY <1>1, HeapAssumption DEF M
<1>13. L + 1 \in 1 .. M
  BY <1>1, HeapAssumption DEF M
<1>14. \A k \in 1 .. M : \E p \in 1 .. L : at[k] = r[l][p]
  BY <1>11
<1> HIDE DEF S
<1> QED  BY <1>1, <1>8, <1>11, <1>12, <1>13, <1>14 DEF L, M

\* Length and Contents are those of the sequence.
LEMMA ChainContents ==
  ASSUME NEW h \in Heaps, NEW c \in [Lists -> Seq(Values)], Shows(h, c), NEW l \in Lists
  PROVE  Length(h, l) = Len(c[l]) /\ Contents(h, l) = c[l]
<1>1. PICK r \in [Lists -> Seq(Nodes)] : Chains(h, r) /\ Holds(h, r, c)
  BY DEF Shows
<1>2. /\ Len(c[l]) = Len(r[l]) /\ Len(c[l]) \in Nat /\ DOMAIN c[l] = 1 .. Len(c[l])
      /\ (c[l] = << >> <=> r[l] = << >>) /\ (c[l] = << >> <=> Len(c[l]) = 0)
      /\ (h.head[l] = NULL <=> c[l] = << >>)
      /\ \A k \in 1 .. Len(r[l]) : c[l][k] = h.value[r[l][k]]
  <2>1. Len(c[l]) = Len(r[l]) /\ Len(c[l]) \in Nat /\ DOMAIN c[l] = 1 .. Len(c[l])
    <3>1. c[l] \in Seq(Values)  OBVIOUS
    <3>2. Len(c[l]) = Len(r[l])  BY <1>1 DEF Holds
    <3> QED  BY <3>1, <3>2, LenProperties
  <2>2. (c[l] = << >> <=> r[l] = << >>) /\ (c[l] = << >> <=> Len(c[l]) = 0)
        /\ (h.head[l] = NULL <=> c[l] = << >>)
    BY <1>1, ChainShows, ZenonT(60)
  <2>3. \A k \in 1 .. Len(r[l]) : c[l][k] = h.value[r[l][k]]
    BY <1>1, ChainShows
  <2> QED  BY <2>1, <2>2, <2>3
<1>3. CASE c[l] = << >>
  <2>1. Length(h, l) = 0  BY <1>2, <1>3 DEF Length
  <2>2. Contents(h, l) = [k \in 1 .. 0 |-> h.value[Along(h, l)[k]]]
    BY <2>1 DEF Contents
  <2>3. Contents(h, l) = << >>
    BY <2>2
  <2> QED  BY <1>2, <1>3, <2>1, <2>3
<1>4. CASE c[l] # << >>
  <2> DEFINE L  == Len(r[l])
             at == Along(h, l)
  <2>1. r[l] # << >>  BY <1>2, <1>4
  <2>2. /\ L \in 1 .. MaxNodes
        /\ \A k \in 1 .. L : at[k] = r[l][k]
        /\ at[L + 1] = r[l][1]
    BY <1>1, <2>1, AlongChain
  <2>3. \A p, q \in 1 .. L : r[l][p] = r[l][q] => p = q
    BY <1>1 DEF Chains, Apart
  <2>4. Length(h, l) = CHOOSE k \in 1 .. MaxNodes : at[k + 1] = at[1] /\ \A m \in 2 .. k : at[m] # at[1]
    BY <1>2, <1>4 DEF Length
  <2>5. L = Len(c[l]) /\ DOMAIN c[l] = 1 .. L  BY <1>2
  <2> HIDE DEF L, at
  <2>6. 1 \in 1 .. L /\ MaxNodes \in Nat  BY <2>2, HeapAssumption
  <2>7. ASSUME NEW m \in 2 .. L PROVE at[m] # at[1]
    <3>1. m \in 1 .. L /\ m # 1  BY <2>2
    <3> QED  BY <2>2, <2>3, <2>6, <3>1
  <2>8. at[L + 1] = at[1] /\ \A m \in 2 .. L : at[m] # at[1]
    BY <2>2, <2>6, <2>7
  <2>9. ASSUME NEW k \in 1 .. MaxNodes, at[k + 1] = at[1], \A m \in 2 .. k : at[m] # at[1]
        PROVE  k = L
    <3>1. CASE k < L
      <4>1. k + 1 \in 2 .. L  BY <2>2, <2>6, <3>1
      <4> QED  BY <2>7, <2>9, <4>1
    <3>2. CASE L < k
      <4>1. L + 1 \in 2 .. k  BY <2>2, <2>6, <3>2
      <4> QED  BY <2>8, <2>9, <4>1
    <3> QED  BY <2>2, <2>6, <3>1, <3>2
  <2>10. Length(h, l) = L
    BY <2>2, <2>4, <2>8, <2>9
  <2>11. Contents(h, l) = [k \in 1 .. L |-> h.value[at[k]]]
    BY <2>10 DEF Contents, at
  <2>12. \A k \in 1 .. L : c[l][k] = h.value[at[k]]
    BY <1>2, <2>2 DEF L
  <2>13. c[l] \in Seq(Values)  OBVIOUS
  <2>14. c[l] = [k \in 1 .. L |-> c[l][k]]
    BY <2>5, <2>13, LenProperties
  <2> QED  BY <2>5, <2>10, <2>11, <2>12, <2>14
<1> QED  BY <1>3, <1>4

\* The lists of such a heap are rings in both directions, and share nothing.
LEMMA ChainsLinked ==
  ASSUME NEW h \in Heaps, NEW r \in [Lists -> Seq(Nodes)], Chains(h, r)
  PROVE  WellLinked(h)
<1> DEFINE used  == Used(h)
           heads == {l \in Lists : h.head[l] # NULL}
           reach == [l \in heads |-> Range(Along(h, l))]
<1>1. \A l \in Lists : /\ Len(r[l]) \in Nat /\ (r[l] = << >> <=> Len(r[l]) = 0)
                       /\ \A k \in 1 .. Len(r[l]) : r[l][k] \in used
  BY ChainFacts DEF Used
<1>2. \A n \in used : \E l \in Lists : \E k \in 1 .. Len(r[l]) : n = r[l][k]
  BY DEF Chains, Reached
<1>3. ASSUME NEW n \in used
      PROVE  /\ h.next[n] \in used /\ h.prev[n] \in used
             /\ h.prev[h.next[n]] = n /\ h.next[h.prev[n]] = n
  <2>1. PICK l \in Lists : \E k \in 1 .. Len(r[l]) : n = r[l][k]  BY <1>2
  <2>2. PICK k \in 1 .. Len(r[l]) : n = r[l][k]  BY <2>1
  <2> DEFINE L == Len(r[l])
             b == IF k = L THEN 1 ELSE k + 1
             a == IF k = 1 THEN L ELSE k - 1
  <2>3. L \in Nat /\ k \in 1 .. L  BY <1>1
  <2>4. \A p \in 1 .. L : /\ h.next[r[l][p]] = r[l][IF p = L THEN 1 ELSE p + 1]
                          /\ h.prev[r[l][p]] = r[l][IF p = 1 THEN L ELSE p - 1]
    BY DEF Chains, Nexts, Prevs
  <2>5. \A p \in 1 .. L : r[l][p] \in used  BY <1>1
  <2> HIDE DEF L, used
  <2>6. a \in 1 .. L /\ b \in 1 .. L  BY <2>3
  <2>7. (IF b = 1 THEN L ELSE b - 1) = k /\ (IF a = L THEN 1 ELSE a + 1) = k
    BY <2>3
  <2> HIDE DEF a, b
  <2>8. h.next[n] = r[l][b] /\ h.prev[n] = r[l][a]  BY <2>2, <2>3, <2>4 DEF a, b
  <2>9. h.prev[r[l][b]] = n /\ h.next[r[l][a]] = n  BY <2>2, <2>4, <2>6, <2>7
  <2> QED  BY <2>5, <2>6, <2>8, <2>9
<1>4. \A l \in heads : r[l] # << >> /\ 1 \in 1 .. Len(r[l]) /\ h.head[l] = r[l][1]
  BY <1>1 DEF Chains, Heads
<1>5. \A l \in heads : h.head[l] \in used
  BY <1>1, <1>4
<1>6. ASSUME NEW l \in heads PROVE reach[l] = {r[l][k] : k \in 1 .. Len(r[l])}
  <2> DEFINE L  == Len(r[l])
             at == Along(h, l)
  <2>1. r[l] # << >> /\ l \in Lists  BY <1>4
  <2>2. /\ DOMAIN at = 1 .. MaxNodes + 1 /\ L \in 1 .. MaxNodes
        /\ \A k \in 1 .. MaxNodes + 1 : \E p \in 1 .. L : at[k] = r[l][p]
        /\ \A k \in 1 .. L : at[k] = r[l][k]
    BY <2>1, AlongChain
  <2>3. \A k \in 1 .. L : k \in 1 .. MaxNodes + 1
    <3> HIDE DEF L
    <3> QED  BY <2>2, HeapAssumption
  <2>4. reach[l] = {at[k] : k \in DOMAIN at}
    BY DEF Range
  <2> HIDE DEF at, L, reach
  <2>5. reach[l] = {r[l][k] : k \in 1 .. L}
    BY <2>2, <2>3, <2>4
  <2> QED  BY <2>5 DEF L
<1> HIDE DEF reach
<1>7. used = UNION {reach[l] : l \in heads}
  <2>1. ASSUME NEW n \in used PROVE \E l \in heads : n \in reach[l]
    <3>1. PICK l \in Lists : \E k \in 1 .. Len(r[l]) : n = r[l][k]  BY <1>2
    <3>2. PICK k \in 1 .. Len(r[l]) : n = r[l][k]  BY <3>1
    <3>3. r[l] # << >> /\ 1 \in 1 .. Len(r[l])  BY <1>1, <3>2
    <3>4. h.head[l] = r[l][1] /\ r[l][1] \in Nodes
      BY <1>1, <3>3 DEF Chains, Heads, Used
    <3>5. l \in heads  BY <3>4, HeapAssumption
    <3> QED  BY <1>6, <3>2, <3>5
  <2>2. ASSUME NEW l \in heads PROVE reach[l] \subseteq used
    BY <1>1, <1>6
  <2> QED  BY <2>1, <2>2
<1>8. \A l, m \in heads : l # m => reach[l] \cap reach[m] = {}
  BY <1>6 DEF Chains, Apart
<1>9. (\A l, m \in heads : l # m => reach[l] \cap reach[m] = {}) /\ used = UNION {reach[l] : l \in heads}
  BY <1>7, <1>8
<1> QED  BY <1>3, <1>5, <1>9 DEF WellLinked, reach

-----------------------------------------------------------------------------

\* What the lists of a heap hold, and a heap in which that is all there is.
HeldIn(h) == [l \in Lists |-> Contents(h, l)]

Good(h) == h \in Heaps /\ HeldIn(h) \in [Lists -> Seq(Values)] /\ Shows(h, HeldIn(h))

\* A heap that shows some sequences shows what it holds.
LEMMA ShownHeld ==
  ASSUME NEW h \in Heaps, NEW c \in [Lists -> Seq(Values)], Shows(h, c)
  PROVE  HeldIn(h) = c /\ Good(h)
<1>1. \A l \in Lists : Contents(h, l) = c[l]  BY ChainContents
<1>2. HeldIn(h) = c
  <2>1. c = [l \in Lists |-> c[l]]  OBVIOUS
  <2> QED  BY <1>1, <2>1 DEF HeldIn
<1> QED  BY <1>2 DEF Good

\* No list of the empty heap holds anything.
LEMMA EmptyGood == Good(EmptyHeap) /\ HeldIn(EmptyHeap) = [l \in Lists |-> << >>]
<1> DEFINE c == [l \in Lists |-> << >>]
<1>1. c \in [Lists -> Seq(Values)]  BY EmptySeq
<1> HIDE DEF c
<1>2. EmptyHeap \in Heaps /\ Shows(EmptyHeap, c)  BY EmptyShows DEF c
<1> QED  BY <1>1, <1>2, ShownHeld DEF c

\* ll_get_length counts the values, and the head of a list is NULL when there are none.
LEMMA GoodList ==
  ASSUME NEW h, Good(h), NEW l \in Lists
  PROVE  /\ Length(h, l) = Len(HeldIn(h)[l]) /\ Contents(h, l) = HeldIn(h)[l]
         /\ HeldIn(h)[l] \in Seq(Values)
         /\ (h.head[l] = NULL <=> HeldIn(h)[l] = << >>)
<1>1. PICK r \in [Lists -> Seq(Nodes)] : Chains(h, r) /\ Holds(h, r, HeldIn(h))
  BY DEF Good, Shows
<1>2. h \in Heaps /\ HeldIn(h) \in [Lists -> Seq(Values)] /\ Shows(h, HeldIn(h))
  BY DEF Good
<1>3. Length(h, l) = Len(HeldIn(h)[l]) /\ Contents(h, l) = HeldIn(h)[l]
  BY <1>2, ChainContents
<1>4. h.head[l] = NULL <=> HeldIn(h)[l] = << >>
  BY <1>1, <1>2, ChainShows, ZenonT(30)
<1> QED  BY <1>2, <1>3, <1>4

\* ll_append_node adds one value at the end of one list.
LEMMA GoodAppend ==
  ASSUME NEW h, Good(h), NEW l \in Lists, NEW v \in Values, Used(h) # Nodes
  PROVE  /\ Good(AppendNode(h, l, v))
         /\ HeldIn(AppendNode(h, l, v)) = Appended(HeldIn(h), l, v)
<1> DEFINE c == HeldIn(h)
           d == Appended(c, l, v)
<1>1. h \in Heaps /\ c \in [Lists -> Seq(Values)] /\ Shows(h, c)  BY DEF Good
<1> HIDE DEF c
<1>2. AppendNode(h, l, v) \in Heaps /\ Shows(AppendNode(h, l, v), d)
  BY <1>1, AppendShows
<1>3. d \in [Lists -> Seq(Values)]
  <2>1. Append(c[l], v) \in Seq(Values)  BY <1>1, AppendProperties
  <2> QED  BY <1>1, <2>1 DEF Appended
<1> HIDE DEF d
<1>4. HeldIn(AppendNode(h, l, v)) = d /\ Good(AppendNode(h, l, v))
  BY <1>2, <1>3, ShownHeld
<1> QED  BY <1>4 DEF c, d

\* ll_pop_node takes the value that ll_peek_node shows, the first, and frees a node.
LEMMA GoodPop ==
  ASSUME NEW h, Good(h), NEW l \in Lists, HeldIn(h)[l] # << >>
  PROVE  /\ Good(PopNode(h, l)) /\ Used(PopNode(h, l)) # Nodes
         /\ HeldIn(PopNode(h, l)) = Popped(HeldIn(h), l)
         /\ PeekNode(h, l) = Head(HeldIn(h)[l])
<1> DEFINE c == HeldIn(h)
           d == Popped(c, l)
<1>1. h \in Heaps /\ c \in [Lists -> Seq(Values)] /\ Shows(h, c) /\ c[l] # << >>  BY DEF Good
<1> HIDE DEF c
<1>2. /\ PopNode(h, l) \in Heaps /\ Shows(PopNode(h, l), d)
      /\ Used(PopNode(h, l)) # Nodes /\ PeekNode(h, l) = Head(c[l])
  BY <1>1, PopShows
<1>3. d \in [Lists -> Seq(Values)]
  <2>1. Tail(c[l]) \in Seq(Values)  BY <1>1, HeadTailProperties
  <2> QED  BY <1>1, <2>1 DEF Popped
<1> HIDE DEF d
<1>4. HeldIn(PopNode(h, l)) = d /\ Good(PopNode(h, l))
  BY <1>2, <1>3, ShownHeld
<1> QED  BY <1>2, <1>4 DEF c, d

\* In such a heap every list is a ring in both directions.
THEOREM GoodLinked == ASSUME NEW h, Good(h) PROVE WellLinked(h)
<1>1. PICK r \in [Lists -> Seq(Nodes)] : Chains(h, r) /\ Holds(h, r, HeldIn(h))
  BY DEF Good, Shows
<1> QED  BY <1>1, ChainsLinked DEF Good

-----------------------------------------------------------------------------

\* The k first bits of a change D, where the register holds them.
Top(D, k) == {b \in Bits : b + B - k \in D}

\* The sum of f moves from one place to the next as compute_crc8 does.
Turn(f, t, a, b, r) == r = Shift(t[<<a, b>>], B - 1 - b \in f[a + 1])

Link(f, t, a, b) ==
    IF b = B - 1 THEN Turn(f, t, a, b, t[<<a + 1, 0>>]) ELSE Turn(f, t, a, b, t[<<a, b + 1>>])

SummedTo(f, t, x, y) ==
    /\ t[<<1, 0>>] = f[1]
    /\ \A a \in 1 .. N - 1, b \in Bits : a < x \/ (a = x /\ b < y) => Link(f, t, a, b)

\* The trace t is that of the sum of f.
Summed(f, t) == SummedTo(f, t, N, 0)

\* d is the difference of two sums at place (x, y) whose frames differ by D in byte p.
DiffAt(x, y, d, p, D) ==
    /\ x < p - 1 => d = {}
    /\ x = p - 1 => d = Top(D, y)
    /\ x = p /\ y = 0 => d = D
    /\ x >= p => (d = {} <=> D = {})

Near(p, D) ==
    /\ \A n \in 1 .. N : n # p => buf[n] = base[n]
    /\ buf[p] = Xor(base[p], D)
    /\ DiffAt(i, j, Xor(remainder, past[<<i, j>>]), p, D)

Traced   == call # "none" => trace[<<i, j>>] = remainder /\ SummedTo(buf, trace, i, j)
SentSums == \A e \in sent : Summed(e.frame, e.trace) /\ e.trace[<<N, 0>>] = {}
SetZero  == call = "set" => buf[N] = {}
BaseSum  == call \in {"test", "receive"} => Summed(base, past)
TestNear == call = "test" => Near(N, past[<<N, 0>>])
ReceiveNear ==
    call = "receive" =>
        /\ past[<<N, 0>>] = {}
        /\ \E p \in 1 .. N : \E D \in {{}, Bits} : Near(p, D) /\ (D = {} <=> buf = base)

IInv == CrcTypeOK /\ Traced /\ SentSums /\ SetZero /\ BaseSum /\ TestNear /\ ReceiveNear

-----------------------------------------------------------------------------

\* The differences of registers are registers.
LEMMA XorFacts ==
    /\ \A r, s \in Byte : Xor(r, s) \in Byte
    /\ \A r, s : (Xor(r, s) = {} <=> r = s) /\ Xor({}, s) = s /\ Xor(s, {}) = s
                  /\ (Xor(r, s) = s => r = {})
BY DEF Xor, Byte

\* One turn of the inner loop of compute_crc8 gives a register.
LEMMA ShiftType == \A r \in Byte : \A x \in BOOLEAN : Shift(r, x) \in Byte
BY CrcAssumption DEF Shift, Xor, Byte, Bits

\* compute_crc8 is linear: the difference of two sums is the sum of the differences.
LEMMA ShiftXor ==
    ASSUME NEW r \in Byte, NEW s \in Byte, NEW x \in BOOLEAN, NEW y \in BOOLEAN,
           NEW z \in BOOLEAN, z <=> ~ (x <=> y)
    PROVE  Xor(Shift(r, x), Shift(s, y)) = Shift(Xor(r, s), z)
<1> DEFINE S(q, v) == {b \in Bits : IF b = 0 THEN v ELSE b - 1 \in q}
<1>1. \A q \in Byte, v \in BOOLEAN :
         Shift(q, v) = IF B - 1 \in q THEN Xor(S(q, v), Generator) ELSE S(q, v)
  BY DEF Shift
<1>2. Xor(S(r, x), S(s, y)) = S(Xor(r, s), z)
  BY Zenon DEF Xor
<1>3. B - 1 \in Xor(r, s) <=> ~ (B - 1 \in r <=> B - 1 \in s)
  BY DEF Xor
<1>4. Xor(r, s) \in Byte
  BY XorFacts
<1> HIDE DEF S
<1>5. \A p, q, g : Xor(Xor(p, g), Xor(q, g)) = Xor(p, q) /\ Xor(Xor(p, g), q) = Xor(Xor(p, q), g)
                  /\ Xor(p, Xor(q, g)) = Xor(Xor(p, q), g)
  BY DEF Xor
<1>6. Shift(r, x) = IF B - 1 \in r THEN Xor(S(r, x), Generator) ELSE S(r, x)
  BY <1>1
<1>7. Shift(s, y) = IF B - 1 \in s THEN Xor(S(s, y), Generator) ELSE S(s, y)
  BY <1>1
<1>8. Shift(Xor(r, s), z) =
         IF B - 1 \in Xor(r, s) THEN Xor(S(Xor(r, s), z), Generator) ELSE S(Xor(r, s), z)
  BY <1>1, <1>4
<1>9. CASE B - 1 \in r /\ B - 1 \in s
  <2>1. Shift(r, x) = Xor(S(r, x), Generator) /\ Shift(s, y) = Xor(S(s, y), Generator)
    BY <1>6, <1>7, <1>9
  <2>2. Shift(Xor(r, s), z) = Xor(S(r, x), S(s, y))
    BY <1>2, <1>3, <1>8, <1>9
  <2> QED BY <2>1, <2>2, <1>5
<1>10. CASE B - 1 \in r /\ B - 1 \notin s
  <2>1. Shift(r, x) = Xor(S(r, x), Generator) /\ Shift(s, y) = S(s, y)
    BY <1>6, <1>7, <1>10
  <2>2. Shift(Xor(r, s), z) = Xor(Xor(S(r, x), S(s, y)), Generator)
    BY <1>2, <1>3, <1>8, <1>10
  <2> QED BY <2>1, <2>2, <1>5
<1>11. CASE B - 1 \notin r /\ B - 1 \in s
  <2>1. Shift(r, x) = S(r, x) /\ Shift(s, y) = Xor(S(s, y), Generator)
    BY <1>6, <1>7, <1>11
  <2>2. Shift(Xor(r, s), z) = Xor(Xor(S(r, x), S(s, y)), Generator)
    BY <1>2, <1>3, <1>8, <1>11
  <2> QED BY <2>1, <2>2, <1>5
<1>12. CASE B - 1 \notin r /\ B - 1 \notin s
  BY <1>2, <1>3, <1>6, <1>7, <1>8, <1>12, Zenon
<1> QED BY <1>9, <1>10, <1>11, <1>12

\* The bits of a change are taken in without loss.
LEMMA ShiftTop ==
    ASSUME NEW D \in Byte, NEW k \in Bits
    PROVE  Shift(Top(D, k), B - 1 - k \in D) = Top(D, k + 1)
<1>1. B - 1 \notin Top(D, k)
  BY CrcAssumption DEF Top, Bits, Byte
<1>2. \A b \in Bits : b = 0 => (b \in Top(D, k + 1) <=> B - 1 - k \in D)
  <2> TAKE b \in Bits
  <2>1. b = 0 => b + B - (k + 1) = B - 1 - k
    BY CrcAssumption DEF Bits
  <2> QED BY <2>1 DEF Top
<1>3. \A b \in Bits : b # 0 => (b \in Top(D, k + 1) <=> b - 1 \in Top(D, k))
  <2> TAKE b \in Bits
  <2> HAVE b # 0
  <2>1. b + B - (k + 1) = (b - 1) + B - k /\ b - 1 \in Bits
    BY CrcAssumption DEF Bits
  <2> QED BY <2>1 DEF Top
<1>4. Shift(Top(D, k), B - 1 - k \in D) =
         {b \in Bits : IF b = 0 THEN B - 1 - k \in D ELSE b - 1 \in Top(D, k)}
  BY <1>1, Zenon DEF Shift
<1>5. Top(D, k + 1) \subseteq Bits
  BY DEF Top
<1>6. QED
  BY <1>2, <1>3, <1>4, <1>5, Zenon

\* Nothing of the change is in the register before its byte, all of it after.
LEMMA TopEnds == \A D \in Byte : Top(D, 0) = {} /\ Top(D, B) = D
<1> TAKE D \in Byte
<1>1. \A b \in Bits : b + B - 0 \notin D
  BY CrcAssumption DEF Bits, Byte
<1>2. \A b \in Bits : b + B - B = b
  BY CrcAssumption DEF Bits
<1>3. D \subseteq Bits
  BY DEF Byte
<1> QED BY <1>1, <1>2, <1>3 DEF Top

\* A difference that is not empty does not get lost: the generator has a constant term.
LEMMA ShiftKeeps == \A r \in Byte : Shift(r, FALSE) = {} <=> r = {}
<1> TAKE r \in Byte
<1> DEFINE s == {b \in Bits : IF b = 0 THEN FALSE ELSE b - 1 \in r}
<1>1. Shift(r, FALSE) = IF B - 1 \in r THEN Xor(s, Generator) ELSE s
  BY DEF Shift
<1>2. 0 \notin s
  OBVIOUS
<1>3. CASE B - 1 \in r
  <2>1. Shift(r, FALSE) = Xor(s, Generator)
    BY <1>1, <1>3
  <2>2. 0 \in Xor(s, Generator)
    BY <1>2, CrcAssumption DEF Xor
  <2> QED BY <1>3, <2>1, <2>2
<1>4. CASE B - 1 \notin r
  <2>1. ASSUME NEW b \in r PROVE b + 1 \in s
    <3>1. b + 1 \in Bits /\ b + 1 # 0 /\ (b + 1) - 1 = b
      BY <1>4, CrcAssumption DEF Bits, Byte
    <3> QED BY <3>1
  <2>2. ASSUME NEW b \in s PROVE b - 1 \in r
    BY <1>2
  <2>3. Shift(r, FALSE) = s
    BY <1>1, <1>4
  <2> HIDE DEF s
  <2>4. s = {} <=> r = {}
    BY <2>1, <2>2
  <2> QED BY <2>3, <2>4
<1> QED BY <1>3, <1>4

-----------------------------------------------------------------------------

\* The place after (x, y).
After(x, y, u, w) ==
    \/ y = B - 1 /\ u = x + 1 /\ w = 0
    \/ y < B - 1 /\ u = x /\ w = y + 1

\* One turn of the inner loop extends a trace.
LEMMA SumStep ==
    ASSUME NEW f, NEW t \in [Places -> Byte], NEW x \in 1 .. N - 1, NEW y \in Bits,
           NEW u \in 1 .. N, NEW w \in Bits, After(x, y, u, w), SummedTo(f, t, x, y),
           NEW r \in Byte, Turn(f, t, x, y, r),
           NEW q, \A c \in Places : q[c] = IF c = <<u, w>> THEN r ELSE t[c]
    PROVE  q[<<u, w>>] = r /\ SummedTo(f, q, u, w)
<1> USE CrcAssumption DEF Bits
<1>1. <<u, w>> \in Places
  BY DEF Places
<1>2. \A c \in Places : q[c] = IF c = <<u, w>> THEN r ELSE t[c]
  OBVIOUS
<1>3. q[<<1, 0>>] = f[1]
  <2>1. <<1, 0>> \in Places /\ <<1, 0>> # <<u, w>>
    BY DEF Places, After
  <2> QED BY <2>1, <1>2 DEF SummedTo
<1>4. ASSUME NEW a \in 1 .. N - 1, NEW b \in Bits, a < u \/ (a = u /\ b < w)
      PROVE  Link(f, q, a, b)
  <2>1. CASE a = x /\ b = y
    <3>1. <<x, y>> \in Places /\ <<x, y>> # <<u, w>>
      BY DEF Places, After
    <3>2. Turn(f, q, x, y, q[<<u, w>>])
      BY <1>1, <1>2, <3>1 DEF Turn
    <3> QED BY <2>1, <3>2 DEF Link, After
  <2>2. CASE ~ (a = x /\ b = y)
    <3>1. a < x \/ (a = x /\ b < y)
      BY <1>4, <2>2 DEF After
    <3>2. Link(f, t, a, b)
      BY <3>1 DEF SummedTo
    <3>3. <<a, b>> \in Places /\ <<a, b>> # <<u, w>>
      BY <3>1 DEF Places, After
    <3>4. b = B - 1 => <<a + 1, 0>> \in Places /\ <<a + 1, 0>> # <<u, w>>
      BY <3>1 DEF Places, After
    <3>5. b # B - 1 => <<a, b + 1>> \in Places /\ <<a, b + 1>> # <<u, w>>
      BY <3>1 DEF Places, After
    <3> QED BY <1>2, <3>2, <3>3, <3>4, <3>5 DEF Link, Turn
  <2> QED BY <2>1, <2>2
<1> QED BY <1>1, <1>2, <1>3, <1>4 DEF SummedTo

\* One turn of the inner loop keeps the difference of two sums as DiffAt describes it.
LEMMA DiffStep ==
    ASSUME NEW f \in Frames, NEW g \in Frames, NEW t \in [Places -> Byte], Summed(g, t),
           NEW p \in 1 .. N, NEW D \in Byte,
           \A n \in 1 .. N : n # p => f[n] = g[n], f[p] = Xor(g[p], D),
           NEW x \in 1 .. N - 1, NEW y \in Bits, NEW u \in 1 .. N, NEW w \in Bits,
           After(x, y, u, w), NEW r \in Byte, DiffAt(x, y, Xor(r, t[<<x, y>>]), p, D),
           NEW s, s = Shift(r, B - 1 - y \in f[x + 1])
    PROVE  DiffAt(u, w, Xor(s, t[<<u, w>>]), p, D)
<1> DEFINE d == Xor(r, t[<<x, y>>])
<1> DEFINE e == Xor(s, t[<<u, w>>])
<1>0. x + 1 \in 1 .. N /\ <<x, y>> \in Places /\ x \in 1 .. N
  BY CrcAssumption DEF Places
<1>1. t[<<x, y>>] \in Byte /\ d \in Byte
  BY <1>0, XorFacts
<1>2. t[<<u, w>>] = Shift(t[<<x, y>>], B - 1 - y \in g[x + 1])
  <2>1. Link(g, t, x, y)
    BY CrcAssumption DEF Summed, SummedTo
  <2> QED BY <2>1, CrcAssumption DEF Link, Turn, After, Bits
<1>3. ASSUME NEW z \in BOOLEAN,
             z <=> ~ (B - 1 - y \in f[x + 1] <=> B - 1 - y \in g[x + 1])
      PROVE  e = Shift(d, z)
  <2> DEFINE a == B - 1 - y \in f[x + 1]
  <2> DEFINE b == B - 1 - y \in g[x + 1]
  <2>1. a \in BOOLEAN /\ b \in BOOLEAN /\ (z <=> ~ (a <=> b))
    BY <1>3
  <2>2. s = Shift(r, a) /\ t[<<u, w>>] = Shift(t[<<x, y>>], b)
    BY <1>2
  <2> HIDE DEF a, b
  <2>3. Xor(Shift(r, a), Shift(t[<<x, y>>], b)) = Shift(d, z)
    <3> DEFINE q == t[<<x, y>>]
    <3>1. q \in Byte /\ d = Xor(r, q)
      BY <1>1
    <3> HIDE DEF q, d
    <3>2. Xor(Shift(r, a), Shift(q, b)) = Shift(Xor(r, q), z)
      BY <2>1, <3>1, ShiftXor, SMTT(30)
    <3> QED BY <3>1, <3>2 DEF q
  <2> QED BY <2>2, <2>3
<1>4. x + 1 # p => e = Shift(d, FALSE)
  <2> HAVE x + 1 # p
  <2>1. FALSE <=> ~ (B - 1 - y \in f[x + 1] <=> B - 1 - y \in g[x + 1])
    BY <1>0
  <2> QED BY <1>3, <2>1, Zenon
<1>5. x + 1 = p => e = Shift(d, B - 1 - y \in D)
  <2> HAVE x + 1 = p
  <2>1. f[x + 1] = Xor(g[x + 1], D)
    OBVIOUS
  <2> DEFINE z == B - 1 - y \in D
  <2>2. z \in BOOLEAN /\ (z <=> ~ (B - 1 - y \in f[x + 1] <=> B - 1 - y \in g[x + 1]))
    BY <2>1 DEF Xor
  <2> HIDE DEF z
  <2>3. e = Shift(d, z)
    BY <1>3, <2>2, Zenon
  <2> QED BY <2>3 DEF z
<1>6. DiffAt(x, y, d, p, D)
  OBVIOUS
<1> HIDE DEF d, e
<1>7. CASE x + 1 < p
  <2>1. d = {}
    BY <1>6, <1>7 DEF DiffAt
  <2>2. e = {}
    <3>1. x + 1 # p
      BY <1>7
    <3> QED BY <1>1, <1>4, <2>1, <3>1, ShiftKeeps, Zenon
  <2>3. u < p /\ (u = p - 1 => w = 0)
    BY <1>7 DEF After
  <2>4. Top(D, 0) = {}
    BY TopEnds
  <2>5. DiffAt(u, w, e, p, D)
    BY <2>2, <2>3, <2>4 DEF DiffAt
  <2> QED BY <2>5 DEF e
<1>8. CASE x + 1 = p
  <2>1. d = Top(D, y)
    BY <1>6, <1>8 DEF DiffAt
  <2>2. e = Top(D, y + 1)
    BY <1>5, <1>8, <2>1, ShiftTop
  <2>3. Top(D, B) = D
    BY TopEnds
  <2>4. DiffAt(u, w, e, p, D)
    BY <1>8, <2>2, <2>3, CrcAssumption DEF DiffAt, After, Bits
  <2> QED BY <2>4 DEF e
<1>9. CASE x + 1 > p
  <2>1. d = {} <=> D = {}
    BY <1>6, <1>9 DEF DiffAt
  <2>2. e = {} <=> d = {}
    <3>1. x + 1 # p
      BY <1>9
    <3> QED BY <1>1, <1>4, <3>1, ShiftKeeps, Zenon
  <2>3. u >= p /\ ~ (u = p /\ w = 0)
    BY <1>9 DEF After, Bits
  <2>4. DiffAt(u, w, e, p, D)
    BY <2>1, <2>2, <2>3 DEF DiffAt
  <2> QED BY <2>4 DEF e
<1> QED BY <1>7, <1>8, <1>9

-----------------------------------------------------------------------------

\* Initially nothing has been summed.
LEMMA CrcInitIInv == CrcInit => IInv
<1> SUFFICES ASSUME CrcInit PROVE IInv
  OBVIOUS
<1>1. CrcTypeOK
  BY CrcAssumption DEF CrcInit, CrcTypeOK, Frames, Byte, Bits, Places
<1>2. Traced /\ SentSums /\ SetZero /\ BaseSum /\ TestNear /\ ReceiveNear
  BY DEF CrcInit, Traced, SentSums, SetZero, BaseSum, TestNear, ReceiveNear
<1> QED BY <1>1, <1>2 DEF IInv

\* The place that a turn of the inner loop reaches.
LEMMA NextPlace ==
    ASSUME CrcTypeOK, NextBit
    PROVE  /\ i \in 1 .. N - 1 /\ j \in Bits /\ <<i, j>> \in Places
           /\ i' \in 1 .. N /\ j' \in Bits /\ <<i', j'>> \in Places /\ (i' = N => j' = 0)
           /\ After(i, j, i', j')
           /\ buf[i + 1] \in Byte
           /\ remainder' \in Byte /\ remainder' = Shift(remainder, B - 1 - j \in buf[i + 1])
<1>1. i \in 1 .. N - 1 /\ j \in Bits /\ <<i, j>> \in Places
  BY CrcAssumption DEF CrcTypeOK, NextBit, Computing, Places
<1>2. i' \in 1 .. N /\ j' \in Bits /\ (i' = N => j' = 0) /\ After(i, j, i', j')
  BY <1>1, CrcAssumption DEF NextBit, After, Bits
<1>3. buf[i + 1] \in Byte /\ remainder \in Byte
  BY <1>1, CrcAssumption DEF CrcTypeOK, Frames
<1>4. remainder' = Shift(remainder, B - 1 - j \in buf[i + 1])
  BY DEF NextBit
<1> DEFINE bit == B - 1 - j \in buf[i + 1]
<1>5. bit \in BOOLEAN
  OBVIOUS
<1>6. remainder' \in Byte
  <2> HIDE DEF bit
  <2>1. Shift(remainder, bit) \in Byte
    BY <1>3, <1>5, ShiftType, Zenon
  <2> QED BY <1>4, <2>1 DEF bit
<1> QED BY <1>1, <1>2, <1>3, <1>4, <1>6 DEF Places

\* compute_crc8 reads one more bit.
LEMMA NextBitIInv == IInv /\ NextBit => IInv'
<1> SUFFICES ASSUME IInv, NextBit PROVE IInv'
  OBVIOUS
<1> USE DEF IInv
<1>1. /\ call' = call /\ buf' = buf /\ base' = base /\ past' = past /\ sent' = sent
      /\ call # "none" /\ trace' = [trace EXCEPT ![<<i', j'>>] = remainder']
  BY DEF NextBit, Computing
<1>2. /\ i \in 1 .. N - 1 /\ j \in Bits /\ <<i, j>> \in Places
      /\ i' \in 1 .. N /\ j' \in Bits /\ <<i', j'>> \in Places /\ (i' = N => j' = 0)
      /\ After(i, j, i', j')
      /\ remainder' \in Byte /\ remainder' = Shift(remainder, B - 1 - j \in buf[i + 1])
  BY NextPlace
<1>3. CrcTypeOK'
  BY <1>1, <1>2 DEF CrcTypeOK
<1>4. Traced'
  <2>1. trace[<<i, j>>] = remainder /\ SummedTo(buf, trace, i, j) /\ trace \in [Places -> Byte]
    BY <1>1 DEF Traced, CrcTypeOK
  <2>2. Turn(buf, trace, i, j, remainder')
    BY <1>2, <2>1 DEF Turn
  <2>3. trace'[<<i', j'>>] = remainder' /\ SummedTo(buf, trace', i', j')
    <3>1. \A c \in Places : trace'[c] = IF c = <<i', j'>> THEN remainder' ELSE trace[c]
      BY <1>1, <1>2, <2>1
    <3>2. /\ i \in 1 .. N - 1 /\ j \in Bits /\ i' \in 1 .. N /\ j' \in Bits
          /\ After(i, j, i', j') /\ remainder' \in Byte
      BY <1>2
    <3> QED BY ONLY <2>1, <2>2, <3>1, <3>2, SumStep
  <2>4. buf' = buf
    BY <1>1
  <2> QED BY <2>3, <2>4 DEF Traced
<1>5. SentSums' /\ SetZero' /\ BaseSum'
  BY <1>1 DEF SentSums, SetZero, BaseSum, Summed
<1>6. ASSUME NEW p \in 1 .. N, NEW D \in Byte, Near(p, D), Summed(base, past)
      PROVE  /\ \A n \in 1 .. N : n # p => buf'[n] = base'[n]
             /\ buf'[p] = Xor(base'[p], D)
             /\ DiffAt(i', j', Xor(remainder', past'[<<i', j'>>]), p, D)
  <2>1. /\ \A n \in 1 .. N : n # p => buf[n] = base[n]
        /\ buf[p] = Xor(base[p], D)
        /\ DiffAt(i, j, Xor(remainder, past[<<i, j>>]), p, D)
    BY <1>6 DEF Near
  <2>2. buf \in Frames /\ base \in Frames /\ past \in [Places -> Byte] /\ remainder \in Byte
    BY DEF CrcTypeOK
  <2>3. DiffAt(i', j', Xor(remainder', past[<<i', j'>>]), p, D)
    BY <1>2, <1>6, <2>1, <2>2, DiffStep
  <2> QED BY <1>1, <2>1, <2>3
<1>7. TestNear'
  <2> SUFFICES ASSUME call' = "test" PROVE Near(N, past[<<N, 0>>])'
    BY DEF TestNear
  <2>1. Near(N, past[<<N, 0>>]) /\ Summed(base, past)
    BY <1>1 DEF TestNear, BaseSum
  <2>2. N \in 1 .. N /\ past[<<N, 0>>] \in Byte
    BY CrcAssumption DEF CrcTypeOK, Places, Bits
  <2> QED BY <1>1, <1>6, <2>1, <2>2 DEF Near
<1>8. ReceiveNear'
  <2> SUFFICES ASSUME call' = "receive" PROVE ReceiveNear'
    BY DEF ReceiveNear
  <2>1. past[<<N, 0>>] = {} /\ Summed(base, past)
    BY <1>1 DEF ReceiveNear, BaseSum
  <2>2. PICK p \in 1 .. N : \E D \in {{}, Bits} : Near(p, D) /\ (D = {} <=> buf = base)
    BY <1>1 DEF ReceiveNear
  <2>3. PICK D \in {{}, Bits} : Near(p, D) /\ (D = {} <=> buf = base)
    BY <2>2
  <2>4. D \in Byte
    BY DEF Byte
  <2>5. Near(p, D)'
    BY <1>6, <2>1, <2>3, <2>4 DEF Near
  <2>6. (D = {} <=> buf' = base') /\ past'[<<N, 0>>] = {}
    BY <1>1, <2>1, <2>3
  <2> QED BY <2>5, <2>6 DEF ReceiveNear
<1> QED BY <1>3, <1>4, <1>5, <1>7, <1>8

\* What a call of compute_crc8 starts with.
LEMMA ComputeStarts ==
    ASSUME NEW who \in {"set", "test", "receive"}, NEW f \in Frames, Compute(who, f)
    PROVE  /\ call' = who /\ buf' = f /\ i' = 1 /\ j' = 0 /\ remainder' = f[1]
           /\ i' \in 1 .. N /\ j' \in Bits /\ remainder' \in Byte
           /\ trace' \in [Places -> Byte]
           /\ Traced'
<1>1. /\ call' = who /\ buf' = f /\ i' = 1 /\ j' = 0 /\ remainder' = f[1]
      /\ trace' = [p \in Places |-> f[1]]
  BY DEF Compute
<1>2. f[1] \in Byte /\ <<1, 0>> \in Places /\ 1 \in 1 .. N /\ 0 \in Bits
  BY CrcAssumption DEF Frames, Places, Bits
<1>3. trace' \in [Places -> Byte] /\ trace'[<<1, 0>>] = f[1]
  BY <1>1, <1>2
<1>4. SummedTo(f, trace', 1, 0)
  BY <1>3 DEF SummedTo, Bits
<1>5. Traced'
  BY <1>1, <1>3, <1>4 DEF Traced
<1> QED BY <1>1, <1>2, <1>3, <1>5

\* set_checksum begins, with the field at 0.
LEMMA SetChecksumIInv == ASSUME IInv, NEW f \in Frames, SetChecksum(f) PROVE IInv'
<1> USE DEF IInv
<1> DEFINE g == [f EXCEPT ![N] = {}]
<1>1. g \in Frames /\ g[N] = {}
  BY CrcAssumption DEF Frames, Byte
<1>2. Compute("set", g) /\ base' = base /\ past' = past /\ sent' = sent
  BY DEF SetChecksum
<1> HIDE DEF g
<1>3. /\ call' = "set" /\ buf' = g /\ i' = 1 /\ j' = 0
      /\ i' \in 1 .. N /\ j' \in Bits /\ remainder' \in Byte
      /\ trace' \in [Places -> Byte] /\ Traced'
  BY <1>1, <1>2, ComputeStarts
<1>4. CrcTypeOK'
  BY <1>1, <1>2, <1>3, CrcAssumption DEF CrcTypeOK
<1>5. SentSums' /\ SetZero' /\ BaseSum' /\ TestNear' /\ ReceiveNear'
  BY <1>1, <1>2, <1>3 DEF SentSums, SetZero, BaseSum, TestNear, ReceiveNear
<1> QED BY <1>3, <1>4, <1>5

\* At the end of a computation the trace is that of the whole sum.
LEMMA SumEnds ==
    ASSUME IInv, Computed
    PROVE  Summed(buf, trace) /\ trace[<<N, 0>>] = remainder /\ i = N /\ j = 0
BY DEF IInv, CrcTypeOK, Computed, Traced, Summed

\* The checksum is stored and the frame is tested.
LEMMA StoreChecksumIInv == IInv /\ StoreChecksum => IInv'
<1> SUFFICES ASSUME IInv, StoreChecksum PROVE IInv'
  OBVIOUS
<1> USE DEF IInv
<1> DEFINE g == [buf EXCEPT ![N] = remainder]
<1>1. buf \in Frames /\ remainder \in Byte /\ N \in 1 .. N /\ N # 1 /\ 1 \in 1 .. N /\ buf[N] = {}
  BY CrcAssumption DEF CrcTypeOK, StoreChecksum, SetZero
<1>2. g \in Frames /\ g[N] = remainder /\ \A n \in 1 .. N : n # N => g[n] = buf[n]
  BY <1>1 DEF Frames
<1>3. Compute("test", g) /\ base' = buf /\ past' = trace /\ sent' = sent
  BY DEF StoreChecksum
<1> HIDE DEF g
<1>4. /\ call' = "test" /\ buf' = g /\ i' = 1 /\ j' = 0 /\ remainder' = g[1]
      /\ i' \in 1 .. N /\ j' \in Bits /\ remainder' \in Byte
      /\ trace' \in [Places -> Byte] /\ Traced'
  BY <1>2, <1>3, ComputeStarts
<1>5. Summed(buf, trace) /\ trace[<<N, 0>>] = remainder
  BY SumEnds DEF StoreChecksum
<1>6. CrcTypeOK'
  BY <1>1, <1>2, <1>3, <1>4, CrcAssumption DEF CrcTypeOK
<1>7. SentSums' /\ SetZero' /\ BaseSum' /\ ReceiveNear'
  BY <1>3, <1>4, <1>5 DEF SentSums, SetZero, BaseSum, ReceiveNear, Summed
<1>8. TestNear'
  <2>1. trace[<<1, 0>>] = buf[1]
    BY <1>5 DEF Summed, SummedTo
  <2>2. Xor(remainder', past'[<<i', j'>>]) = {}
    BY <1>1, <1>2, <1>3, <1>4, <2>1, XorFacts
  <2>3. Top(remainder, 0) = {}
    BY <1>1, TopEnds
  <2>4. DiffAt(i', j', Xor(remainder', past'[<<i', j'>>]), N, remainder)
    BY <1>1, <1>4, <2>2, <2>3, CrcAssumption DEF DiffAt
  <2>5. g[N] = Xor(buf[N], remainder)
    BY <1>1, <1>2, XorFacts
  <2>6. past'[<<N, 0>>] = remainder
    BY <1>3, <1>5
  <2>7. (\A n \in 1 .. N : n # N => buf'[n] = base'[n]) /\ buf'[N] = Xor(base'[N], remainder)
    BY <1>2, <1>3, <1>4, <2>5
  <2>8. Near(N, past[<<N, 0>>])'
    BY <2>4, <2>6, <2>7 DEF Near
  <2> QED BY <2>8 DEF TestNear
<1> QED BY <1>4, <1>6, <1>7, <1>8

\* A frame that was tested may be sent.
LEMMA TestedIInv == IInv /\ Tested => IInv'
<1> SUFFICES ASSUME IInv, Tested PROVE IInv'
  OBVIOUS
<1> USE DEF IInv
<1>1. /\ call = "test" /\ call' = "none" /\ sent' = sent \cup {[frame |-> buf, trace |-> trace]}
      /\ UNCHANGED <<buf, i, j, remainder, trace, base, past>>
  BY DEF Tested
<1>2. Summed(buf, trace) /\ trace[<<N, 0>>] = remainder /\ i = N /\ j = 0
  BY SumEnds DEF Tested
<1>3. Summed(base, past) /\ DiffAt(i, j, Xor(remainder, past[<<i, j>>]), N, past[<<N, 0>>])
  BY <1>1 DEF BaseSum, TestNear, Near
<1>4. remainder = {}
  <2>1. N \in 1 .. N
    BY CrcAssumption
  <2>2. Xor(remainder, past[<<N, 0>>]) = past[<<N, 0>>]
    BY <1>2, <1>3, <2>1 DEF DiffAt
  <2> QED BY <2>2, XorFacts
<1>5. CrcTypeOK'
  BY <1>1 DEF CrcTypeOK
<1>6. SentSums'
  BY <1>1, <1>2, <1>4 DEF SentSums
<1>7. Traced' /\ SetZero' /\ BaseSum' /\ TestNear' /\ ReceiveNear'
  BY <1>1 DEF Traced, SetZero, BaseSum, TestNear, ReceiveNear
<1> QED BY <1>5, <1>6, <1>7

\* A frame that was sent arrives, with at most one byte inverted.
LEMMA ReceiveIInv == ASSUME IInv, NEW f \in Frames, NEW p \in 0 .. N, Receive(f, p) PROVE IInv'
<1> USE DEF IInv
<1> DEFINE g == Corrupted(f, p)
<1>1. PICK e \in sent : e.frame = f /\ past' = e.trace
  BY DEF Receive
<1>2. e.frame \in Frames /\ e.trace \in [Places -> Byte]
  BY <1>1 DEF CrcTypeOK
<1>3. Summed(f, past') /\ past'[<<N, 0>>] = {} /\ past' \in [Places -> Byte]
  BY <1>1, <1>2 DEF SentSums
<1>4. Compute("receive", g) /\ base' = f /\ sent' = sent
  BY DEF Receive
<1>5. \A n \in 1 .. N : f[n] \in Byte
  BY DEF Frames
<1>6. g \in Frames
  BY <1>5 DEF Corrupted, Frames, Byte
<1>7. p # 0 => p \in 1 .. N /\ g[p] = Xor(f[p], Bits) /\ g[p] # f[p]
               /\ \A n \in 1 .. N : n # p => g[n] = f[n]
  <2> HAVE p # 0
  <2>1. p \in 1 .. N /\ g[p] = Bits \ f[p] /\ \A n \in 1 .. N : n # p => g[n] = f[n]
    BY DEF Corrupted, Frames
  <2>2. Bits \ f[p] = Xor(f[p], Bits)
    BY <1>5, <2>1 DEF Xor, Byte
  <2>3. 0 \in Bits
    BY CrcAssumption DEF Bits
  <2>4. Bits \ f[p] # f[p]
    BY <2>3
  <2> QED BY <2>1, <2>2, <2>4
<1>8. p = 0 => g = f
  BY DEF Corrupted
<1> HIDE DEF g
<1>9. /\ call' = "receive" /\ buf' = g /\ i' = 1 /\ j' = 0 /\ remainder' = g[1]
      /\ i' \in 1 .. N /\ j' \in Bits /\ remainder' \in Byte
      /\ trace' \in [Places -> Byte] /\ Traced'
  BY <1>4, <1>6, ComputeStarts
<1>10. CrcTypeOK'
  BY <1>3, <1>4, <1>6, <1>9, CrcAssumption DEF CrcTypeOK
<1>11. SentSums' /\ SetZero' /\ BaseSum' /\ TestNear'
  BY <1>3, <1>4, <1>9 DEF SentSums, SetZero, BaseSum, TestNear, Summed
<1>12. past'[<<i', j'>>] = f[1]
  BY <1>3, <1>9 DEF Summed, SummedTo
<1>13. CASE p = 0
  <2>1. N \in 1 .. N /\ 1 \in 1 .. N
    BY CrcAssumption
  <2>2. Xor(remainder', past'[<<i', j'>>]) = {} /\ f[N] = Xor(f[N], {})
    BY <1>8, <1>9, <1>12, <1>13, XorFacts
  <2>3. Top({}, 0) = {}
    BY DEF Top
  <2>4. DiffAt(i', j', Xor(remainder', past'[<<i', j'>>]), N, {})
    BY <1>9, <2>2, <2>3 DEF DiffAt
  <2>5. Near(N, {})'
    BY <1>4, <1>8, <1>9, <1>13, <2>2, <2>4 DEF Near
  <2>6. buf' = base'
    BY <1>4, <1>8, <1>9, <1>13
  <2> QED BY <1>3, <1>9, <1>10, <1>11, <2>1, <2>5, <2>6 DEF ReceiveNear
<1>14. CASE p # 0
  <2> DEFINE d == Xor(remainder', past'[<<i', j'>>])
  <2>1. Bits \in Byte /\ 1 \in 1 .. N
    BY CrcAssumption DEF Byte
  <2>2. p = 1 => d = Bits
    <3> HAVE p = 1
    <3>1. Xor(Xor(f[1], Bits), f[1]) = Bits
      BY <1>5, <2>1 DEF Xor, Byte
    <3> QED BY <1>7, <1>9, <1>12, <1>14, <3>1
  <2>3. p # 1 => d = {}
    BY <1>7, <1>9, <1>12, <1>14, <2>1, XorFacts
  <2>4. Top(Bits, 0) = {}
    BY <2>1, TopEnds
  <2>5. DiffAt(i', j', d, p, Bits)
    <3> HIDE DEF d
    <3>1. p \in 1 .. N /\ N \in Nat /\ i' = 1 /\ j' = 0 /\ Top(Bits, j') = {} /\ Bits # {}
      BY <1>7, <1>9, <1>14, <2>4, CrcAssumption DEF Bits
    <3>2. i' < p - 1 => d = {}  BY <2>3, <3>1
    <3>3. i' = p - 1 => d = Top(Bits, j')  BY <2>3, <3>1
    <3>4. i' = p /\ j' = 0 => d = Bits  BY <2>2, <3>1
    <3>5. i' >= p => p = 1  BY <3>1
    <3> QED BY <2>2, <3>1, <3>2, <3>3, <3>4, <3>5 DEF DiffAt
  <2>6. Near(p, Bits)'
    BY <1>4, <1>7, <1>9, <1>14, <2>5 DEF Near
  <2>7. buf' # base' /\ Bits # {} /\ p \in 1 .. N
    BY <1>4, <1>7, <1>9, <1>14, CrcAssumption DEF Bits
  <2> QED BY <1>3, <1>9, <1>10, <1>11, <2>6, <2>7 DEF ReceiveNear
<1> QED BY <1>13, <1>14

\* frame_valid returns.
LEMMA ReceivedIInv == IInv /\ Received => IInv'
BY DEF IInv, Received, CrcTypeOK, Traced, SentSums, SetZero, BaseSum, TestNear, ReceiveNear

\* A step that changes nothing here.
LEMMA StutterIInv == IInv /\ UNCHANGED crc_vars => IInv'
BY DEF IInv, crc_vars, CrcTypeOK, Traced, SentSums, SetZero, BaseSum, TestNear, ReceiveNear, Near

\* The inductive invariant, of which the properties are consequences.
THEOREM CrcInvariant == CrcSpec => []IInv
<1>1. CrcInit => IInv
  BY CrcInitIInv
<1>2. IInv /\ [CrcNext]_crc_vars => IInv'
  BY NextBitIInv, SetChecksumIInv, StoreChecksumIInv, TestedIInv, ReceiveIInv, ReceivedIInv,
     StutterIInv DEF CrcNext
<1> QED BY <1>1, <1>2, PTL DEF CrcSpec

-----------------------------------------------------------------------------

\* The variables of compute_crc8 keep their types: the register stays a byte.
THEOREM ChecksumTypes == CrcSpec => []CrcTypeOK
BY CrcInvariant, PTL DEF IInv

\* handle_input_cmds' test of the frame it has just given a checksum succeeds.
THEOREM SentFramesAreValid == CrcSpec => []SentFramesValid
<1>1. IInv => SentFramesValid
  <2> SUFFICES ASSUME IInv, call = "test", Computed PROVE remainder = {}
    BY DEF SentFramesValid
  <2>1. i = N /\ j = 0 /\ N \in 1 .. N
    BY CrcAssumption, SumEnds
  <2>2. DiffAt(i, j, Xor(remainder, past[<<i, j>>]), N, past[<<N, 0>>])
    BY DEF IInv, TestNear, Near
  <2>3. Xor(remainder, past[<<N, 0>>]) = past[<<N, 0>>]
    BY <2>1, <2>2 DEF DiffAt
  <2> QED BY <2>3, XorFacts
<1> QED BY <1>1, CrcInvariant, PTL

\* The remainder of a frame that frame_valid has read tells whether it was changed.
LEMMA ReceivedValid == IInv => CorruptionDetected
<1> SUFFICES ASSUME IInv, call = "receive", Computed PROVE remainder = {} <=> buf = base
  BY DEF CorruptionDetected
<1>1. i = N /\ j = 0
  BY SumEnds
<1>2. past[<<N, 0>>] = {}
  BY DEF IInv, ReceiveNear
<1>3. PICK p \in 1 .. N : \E D \in {{}, Bits} : Near(p, D) /\ (D = {} <=> buf = base)
  BY DEF IInv, ReceiveNear
<1>4. PICK D \in {{}, Bits} : Near(p, D) /\ (D = {} <=> buf = base)
  BY <1>3
<1>5. Xor(remainder, past[<<i, j>>]) = remainder
  BY <1>1, <1>2, XorFacts
<1>6. i >= p
  BY <1>1
<1>7. remainder = {} <=> D = {}
  BY <1>4, <1>5, <1>6 DEF Near, DiffAt
<1> QED BY <1>4, <1>7

\* handle_incoming_frames drops every frame in which send_frame inverted a byte, and
\* no other.
THEOREM CorruptionIsDetected == CrcSpec => []CorruptionDetected
BY ReceivedValid, CrcInvariant, PTL

-----------------------------------------------------------------------------

\* The lists of the two hosts hold commands and frames.
ListsTyped(h) ==
    /\ Good(h)
    /\ HeldIn(h)["input"] \in Seq(Texts)
    /\ \A l \in Lists \ {"input"} : HeldIn(h)[l] \in Seq(Frames)

Held == HeldIn(lists)

LoopTypes ==
    /\ pc \in {"main", "commands", "outgoing", "switch", "incoming", "reassemble"}
    /\ slot \in {NULL} \cup Frames
    /\ cmd \in Seq(Byte) /\ start \in Nat /\ (cmd # << >> => start < Len(cmd))
    /\ typed \in Seq(Texts) /\ Len(typed) <= MaxMsgs /\ faults \in 0 .. MaxFaults

LoopPhases ==
    /\ call \in {"set", "test"} => pc = "commands" /\ cmd # << >>
    /\ call = "receive" => pc = "incoming" /\ HasRoom
    /\ pc = "switch" => Held["outgoing"] # << >>
    /\ left \in Nat /\ (left > 0 => pc = "reassemble" /\ left <= Len(Held["received"]))

PathTypes == IInv /\ ListsTyped(lists) /\ LoopTypes /\ LoopPhases

-----------------------------------------------------------------------------

\* The names of the lists.
LEMMA ListNames ==
    {"input", "buffered", "outgoing", "incoming", "received"} = Lists
BY PathAssumption

\* A byte holds every number below REM.
LEMMA ByteNum == \A n \in 0 .. REM - 1 : ByteOf[n] \in Byte /\ NumOf(ByteOf[n]) = n
<1> TAKE n \in 0 .. REM - 1
<1>1. ByteOf[n] \in Byte /\ \A m \in 0 .. REM - 1 : ByteOf[m] = ByteOf[n] => m = n
  BY PathAssumption
<1> QED  BY <1>1 DEF NumOf

\* ll_append_node keeps the types.
LEMMA AppendTyped ==
  ASSUME NEW h, ListsTyped(h), NEW l \in Lists, NEW v, v \in IF l = "input" THEN Texts ELSE Frames,
         Used(h) # Nodes
  PROVE  /\ ListsTyped(AppendNode(h, l, v))
         /\ HeldIn(AppendNode(h, l, v)) = Appended(HeldIn(h), l, v)
<1> DEFINE c == HeldIn(h)
           g == AppendNode(h, l, v)
<1>1. v \in Values  BY PathAssumption
<1>2. Good(g) /\ HeldIn(g) = Appended(c, l, v)
  BY <1>1, GoodAppend DEF ListsTyped
<1>3. c \in [Lists -> Seq(Values)]  BY DEF ListsTyped, Good
<1>4. \A m \in Lists : HeldIn(g)[m] = IF m = l THEN Append(c[l], v) ELSE c[m]
  BY <1>2, <1>3 DEF Appended
<1>5. /\ c["input"] \in Seq(Texts) /\ \A m \in Lists \ {"input"} : c[m] \in Seq(Frames)
      /\ "input" \in Lists
  BY ListNames DEF ListsTyped
<1> HIDE DEF c, g
<1>6. l = "input" => Append(c[l], v) \in Seq(Texts)
  BY <1>5, AppendProperties
<1>7. l # "input" => Append(c[l], v) \in Seq(Frames)
  <2> HAVE l # "input"
  <2>1. c[l] \in Seq(Frames) /\ v \in Frames  BY <1>5
  <2> QED  BY <2>1, AppendProperties
<1>8. ListsTyped(g)
  BY <1>2, <1>4, <1>5, <1>6, <1>7 DEF ListsTyped
<1> QED  BY <1>2, <1>8 DEF g, c

\* ll_pop_node keeps them.
LEMMA PopTyped ==
  ASSUME NEW h, ListsTyped(h), NEW l \in Lists, HeldIn(h)[l] # << >>
  PROVE  /\ ListsTyped(PopNode(h, l)) /\ Used(PopNode(h, l)) # Nodes
         /\ HeldIn(PopNode(h, l)) = Popped(HeldIn(h), l)
         /\ PeekNode(h, l) = Head(HeldIn(h)[l])
         /\ PeekNode(h, l) \in IF l = "input" THEN Texts ELSE Frames
<1> DEFINE c == HeldIn(h)
           g == PopNode(h, l)
<1>1. Good(g) /\ HeldIn(g) = Popped(c, l) /\ Used(g) # Nodes /\ PeekNode(h, l) = Head(c[l])
  BY GoodPop DEF ListsTyped
<1>2. c \in [Lists -> Seq(Values)]  BY DEF ListsTyped, Good
<1>3. \A m \in Lists : HeldIn(g)[m] = IF m = l THEN Tail(c[l]) ELSE c[m]
  BY <1>1, <1>2 DEF Popped
<1>4. /\ c["input"] \in Seq(Texts) /\ \A m \in Lists \ {"input"} : c[m] \in Seq(Frames)
      /\ "input" \in Lists /\ c[l] # << >>
  BY ListNames DEF ListsTyped
<1> HIDE DEF c, g
<1>5. l = "input" => Tail(c[l]) \in Seq(Texts) /\ Head(c[l]) \in Texts
  BY <1>4, HeadTailProperties
<1>6. l # "input" => Tail(c[l]) \in Seq(Frames) /\ Head(c[l]) \in Frames
  <2> HAVE l # "input"
  <2>1. c[l] \in Seq(Frames)  BY <1>4
  <2> QED  BY <1>4, <2>1, HeadTailProperties
<1>7. ListsTyped(g)
  BY <1>1, <1>3, <1>4, <1>5, <1>6 DEF ListsTyped
<1> QED  BY <1>1, <1>5, <1>6, <1>7 DEF g, c

\* A list is empty when its head is NULL.
LEMMA HeadHeld ==
  ASSUME NEW h, ListsTyped(h), NEW l \in Lists
  PROVE  /\ h.head[l] = NULL <=> HeldIn(h)[l] = << >>
         /\ Length(h, l) = Len(HeldIn(h)[l]) /\ Contents(h, l) = HeldIn(h)[l]
BY GoodList DEF ListsTyped

\* What handle_input_cmds puts in a frame.
LEMMA FrameParts ==
  ASSUME cmd \in Seq(Byte), start \in Nat, start < Len(cmd), NEW pad \in Garbage
  PROVE  /\ End \in start + 1 .. Len(cmd) /\ End - start \in 1 .. PAYLOAD
         /\ End # Len(cmd) => End = start + PAYLOAD
         /\ Frame(pad) \in Frames
         /\ Frame(pad)[1] = ByteOf[(Len(cmd) - End) % REM]
         /\ Frame(pad)[2] = ByteOf[End - start]
         /\ \A k \in 1 .. End - start : Frame(pad)[k + 2] = cmd[start + k]
<1> DEFINE M == Len(cmd)
           E == End
           x == ByteOf[(M - E) % REM]
           y == ByteOf[E - start]
           q == PAYLOAD - (E - start)
           a == <<x, y>>
           b == SubSeq(cmd, start + 1, E)
           c == [n \in 1 .. q |-> pad]
           d == <<pad>>
<1>1. M \in Nat /\ start \in Nat /\ start < M /\ \A k \in 1 .. M : cmd[k] \in Byte
  BY LenProperties, ElementOfSeq
<1>2. /\ PAYLOAD \in Nat \ {0} /\ REM \in Nat /\ PAYLOAD < REM /\ N = PAYLOAD + 3 /\ pad \in Byte
  BY PathAssumption
<1>3. Frame(pad) = a \o b \o c \o d
  BY DEF Frame
<1>4. E = IF start + PAYLOAD > M THEN M ELSE start + PAYLOAD
  BY DEF End
<1> HIDE DEF M, E
<1>5. /\ E \in start + 1 .. M /\ E - start \in 1 .. PAYLOAD /\ q \in Nat
      /\ E # M => E = start + PAYLOAD
  BY <1>1, <1>2, <1>4
<1>6. x \in Byte /\ y \in Byte
  <2>1. (M - E) % REM \in 0 .. REM - 1 /\ E - start \in 0 .. REM - 1
    BY <1>1, <1>2, <1>5
  <2> QED  BY <2>1, ByteNum
<1> HIDE DEF x, y, q
<1>7. a \in Seq(Byte) /\ Len(a) = 2 /\ a[1] = x /\ a[2] = y
  BY <1>6
<1>8. b \in Seq(Byte) /\ Len(b) = E - start /\ \A k \in 1 .. E - start : b[k] = cmd[start + k]
  <2>1. \A k \in start + 1 .. E : cmd[k] \in Byte
    BY <1>1, <1>5
  <2>2. start + 1 \in Int /\ E \in Int /\ start + 1 <= E /\ E - (start + 1) + 1 = E - start
    BY <1>1, <1>5
  <2>3. /\ b \in Seq(Byte)
        /\ Len(b) = IF start + 1 <= E THEN E - (start + 1) + 1 ELSE 0
        /\ \A k \in 1 .. E - (start + 1) + 1 : b[k] = cmd[start + 1 + k - 1]
    BY <2>1, <2>2, SubSeqProperties
  <2> HIDE DEF b
  <2>4. \A k \in 1 .. E - start : start + 1 + k - 1 = start + k
    BY <1>1, <1>5
  <2> QED  BY <2>2, <2>3, <2>4
<1>9. c \in Seq(Byte) /\ Len(c) = q
  BY <1>2, <1>5
<1>10. d \in Seq(Byte) /\ Len(d) = 1
  BY <1>2
<1> HIDE DEF a, b, c, d
<1>11. /\ a \o b \in Seq(Byte) /\ Len(a \o b) = 2 + (E - start)
       /\ \A k \in 1 .. 2 + (E - start) : (a \o b)[k] = IF k <= 2 THEN a[k] ELSE b[k - 2]
  <2>1. /\ a \o b \in Seq(Byte) /\ Len(a \o b) = Len(a) + Len(b)
        /\ \A k \in 1 .. Len(a) + Len(b) :
             (a \o b)[k] = IF k <= Len(a) THEN a[k] ELSE b[k - Len(a)]
    BY <1>7, <1>8, ConcatProperties
  <2> QED  BY <1>7, <1>8, <2>1
<1> DEFINE ab == a \o b
<1> HIDE DEF ab
<1>12. /\ ab \o c \in Seq(Byte) /\ Len(ab \o c) = 2 + (E - start) + q
       /\ \A k \in 1 .. 2 + (E - start) : (ab \o c)[k] = ab[k]
  <2>1. ab \in Seq(Byte) /\ Len(ab) = 2 + (E - start) /\ q \in Nat /\ E - start \in Nat
    BY <1>5, <1>11 DEF ab
  <2>2. /\ ab \o c \in Seq(Byte) /\ Len(ab \o c) = Len(ab) + q
        /\ \A k \in 1 .. Len(ab) + q : (ab \o c)[k] = IF k <= Len(ab) THEN ab[k] ELSE c[k - Len(ab)]
    BY <1>9, <2>1, ConcatProperties
  <2> QED  BY <2>1, <2>2
<1> DEFINE abc == ab \o c
<1> HIDE DEF abc
<1>13. /\ abc \o d \in Seq(Byte) /\ Len(abc \o d) = N
       /\ \A k \in 1 .. 2 + (E - start) : (abc \o d)[k] = abc[k]
  <2>1. /\ abc \in Seq(Byte) /\ Len(abc) = 2 + (E - start) + q /\ q \in Nat /\ E - start \in Nat
        /\ Len(abc) + 1 = N
    BY <1>2, <1>5, <1>12 DEF abc, q
  <2>2. /\ abc \o d \in Seq(Byte) /\ Len(abc \o d) = Len(abc) + Len(d)
        /\ \A k \in 1 .. Len(abc) + Len(d) :
             (abc \o d)[k] = IF k <= Len(abc) THEN abc[k] ELSE d[k - Len(abc)]
    BY <1>10, <2>1, ConcatProperties
  <2> QED  BY <1>10, <2>1, <2>2
<1>14. Frame(pad) = abc \o d
  BY <1>3 DEF ab, abc
<1>15. Frame(pad) \in Frames
  BY <1>13, <1>14, LenProperties DEF Frames
<1>16. \A k \in 1 .. 2 + (E - start) : Frame(pad)[k] = IF k <= 2 THEN a[k] ELSE b[k - 2]
  BY <1>11, <1>12, <1>13, <1>14 DEF abc, ab
<1>17. Frame(pad)[1] = x /\ Frame(pad)[2] = y
  <2>1. 1 \in 1 .. 2 + (E - start) /\ 2 \in 1 .. 2 + (E - start)
    BY <1>5
  <2> QED  BY <1>7, <1>16, <2>1
<1>18. ASSUME NEW k \in 1 .. E - start PROVE Frame(pad)[k + 2] = cmd[start + k]
  <2>1. k + 2 \in 1 .. 2 + (E - start) /\ ~(k + 2 <= 2) /\ k + 2 - 2 = k
    BY <1>5
  <2> QED  BY <1>8, <1>16, <2>1
<1> QED  BY <1>5, <1>15, <1>17, <1>18 DEF M, E, x, y

-----------------------------------------------------------------------------

\* A step of the checksum keeps its invariant.
LEMMA CrcKept == IInv /\ [CrcNext]_crc_vars => IInv'
BY NextBitIInv, SetChecksumIInv, StoreChecksumIInv, TestedIInv, ReceiveIInv, ReceivedIInv,
   StutterIInv DEF CrcNext

\* The path takes the steps of the checksum with frames.
LEMMA PathCrc == PathTypes /\ [PathNext]_path_vars => [CrcNext]_crc_vars
<1> SUFFICES ASSUME PathTypes, [PathNext]_path_vars PROVE [CrcNext]_crc_vars
  OBVIOUS
<1>1. ASSUME Fragment PROVE CrcNext
  <2>1. PICK pad \in Garbage : SetChecksum(Frame(pad))  BY <1>1 DEF Fragment
  <2>2. Frame(pad) \in Frames
    BY <1>1, FrameParts DEF Fragment, PathTypes, LoopTypes
  <2> QED  BY <2>1, <2>2 DEF CrcNext
<1>2. ASSUME PopIncoming PROVE CrcNext
  <2>1. PICK p \in 0 .. N : Receive(slot, p)  BY <1>2 DEF PopIncoming
  <2>2. slot \in Frames
    <3>1. PICK e \in sent : e.frame = slot  BY <2>1 DEF Receive
    <3> QED  BY <3>1 DEF PathTypes, IInv, CrcTypeOK
  <2> QED  BY <2>1, <2>2 DEF CrcNext
<1>3. ASSUME Checksum \/ QueueFrame \/ TakeFrame PROVE CrcNext
  BY <1>3 DEF Checksum, QueueFrame, TakeFrame, CrcNext
<1>4. ASSUME InputDone \/ PopCommand \/ CommandsDone \/ HandleOutgoing \/ SendFrame
             \/ FindMessage \/ TakeData \/ \E t \in Texts : Type(t)
      PROVE  UNCHANGED crc_vars
  BY <1>4 DEF InputDone, PopCommand, CommandsDone, HandleOutgoing, SendFrame, FindMessage,
     TakeData, Type
<1> QED  BY <1>1, <1>2, <1>3, <1>4 DEF PathNext, Main, path_vars

\* At the start.
LEMMA InitTypes == PathInit => PathTypes
<1> SUFFICES ASSUME PathInit PROVE PathTypes
  OBVIOUS
<1> USE DEF PathInit
<1>1. IInv  BY CrcInitIInv
<1>2. Good(lists) /\ \A l \in Lists : Held[l] = << >>
  BY EmptyGood DEF Held
<1>3. ListsTyped(lists)
  BY <1>2, ListNames, EmptySeq DEF ListsTyped, Held
<1>4. LoopTypes
  BY PathAssumption, EmptySeq DEF LoopTypes
<1>5. LoopPhases
  BY DEF LoopPhases, CrcInit
<1> QED  BY <1>1, <1>3, <1>4, <1>5 DEF PathTypes

\* The lists after each step.
LEMMA TypeLists ==
  ASSUME PathTypes, NEW t \in Texts, Type(t)
  PROVE  ListsTyped(lists') /\ Held' = Appended(Held, "input", t)
<1>1. HasRoom /\ lists' = AppendNode(lists, "input", t) /\ ListsTyped(lists) /\ "input" \in Lists
  BY ListNames DEF Type, PathTypes
<1> QED  BY <1>1, AppendTyped DEF HasRoom, Held

LEMMA PopCommandLists ==
  ASSUME PathTypes, PopCommand
  PROVE  /\ ListsTyped(lists') /\ Held' = Popped(Held, "input") /\ Held["input"] # << >>
         /\ PeekNode(lists, "input") = Head(Held["input"]) /\ PeekNode(lists, "input") \in Texts
<1>1. /\ lists.head["input"] # NULL /\ lists' = PopNode(lists, "input") /\ ListsTyped(lists)
      /\ "input" \in Lists
  BY ListNames DEF PopCommand, PathTypes
<1>2. HeldIn(lists)["input"] # << >>
  BY <1>1, HeadHeld
<1> QED  BY <1>1, <1>2, PopTyped DEF Held

LEMMA QueueFrameLists ==
  ASSUME PathTypes, QueueFrame
  PROVE  ListsTyped(lists') /\ Held' = Appended(Held, "buffered", buf) /\ buf \in Frames
<1>1. /\ HasRoom /\ lists' = AppendNode(lists, "buffered", buf) /\ ListsTyped(lists)
      /\ "buffered" \in Lists /\ buf \in Frames
  BY ListNames DEF QueueFrame, PathTypes, IInv, CrcTypeOK
<1> QED  BY <1>1, AppendTyped DEF HasRoom, Held

LEMMA SendFrameLists ==
  ASSUME PathTypes, SendFrame
  PROVE  /\ ListsTyped(lists')
         /\ \E f \in Frames : Held' = Appended(Popped(Held, "outgoing"), "incoming", f)
<1>1. /\ Held["outgoing"] # << >> /\ ListsTyped(lists)
      /\ "outgoing" \in Lists /\ "incoming" \in Lists
  BY ListNames DEF SendFrame, PathTypes, LoopPhases
<1>2. PICK p \in 0 .. N :
        lists' = AppendNode(PopNode(lists, "outgoing"), "incoming",
                            Corrupted(PeekNode(lists, "outgoing"), p))
  BY DEF SendFrame
<1> DEFINE h == PopNode(lists, "outgoing")
           f == Corrupted(PeekNode(lists, "outgoing"), p)
<1>3. /\ ListsTyped(h) /\ Used(h) # Nodes /\ HeldIn(h) = Popped(Held, "outgoing")
      /\ PeekNode(lists, "outgoing") \in Frames
  BY <1>1, PopTyped DEF Held
<1>4. f \in Frames
  BY <1>3 DEF Corrupted, Frames, Byte
<1> HIDE DEF h, f
<1>5. ListsTyped(AppendNode(h, "incoming", f))
      /\ HeldIn(AppendNode(h, "incoming", f)) = Appended(HeldIn(h), "incoming", f)
  BY <1>1, <1>3, <1>4, AppendTyped
<1>6. lists' = AppendNode(h, "incoming", f)  BY <1>2 DEF h, f
<1> QED  BY <1>3, <1>4, <1>5, <1>6 DEF Held

LEMMA PopIncomingLists ==
  ASSUME PathTypes, PopIncoming
  PROVE  ListsTyped(lists') /\ Held' = Popped(Held, "incoming") /\ HasRoom'
<1>1. /\ lists.head["incoming"] # NULL /\ lists' = PopNode(lists, "incoming") /\ ListsTyped(lists)
      /\ "incoming" \in Lists
  BY ListNames DEF PopIncoming, PathTypes
<1>2. HeldIn(lists)["incoming"] # << >>
  BY <1>1, HeadHeld
<1> QED  BY <1>1, <1>2, PopTyped DEF Held, HasRoom

LEMMA TakeFrameLists ==
  ASSUME PathTypes, TakeFrame, remainder = {}
  PROVE  ListsTyped(lists') /\ Held' = Appended(Held, "received", buf) /\ buf \in Frames
<1>1. /\ HasRoom /\ lists' = AppendNode(lists, "received", buf) /\ ListsTyped(lists)
      /\ "received" \in Lists /\ buf \in Frames
  BY ListNames DEF TakeFrame, Received, PathTypes, LoopPhases, IInv, CrcTypeOK
<1> QED  BY <1>1, AppendTyped DEF HasRoom, Held

LEMMA TakeDataLists ==
  ASSUME PathTypes, TakeData
  PROVE  /\ ListsTyped(lists') /\ Held' = Popped(Held, "received")
         /\ PeekNode(lists, "received") = Head(Held["received"])
         /\ PeekNode(lists, "received") \in Frames
         /\ Len(Held["received"]) \in Nat \ {0} /\ Held["received"] # << >>
<1>1. /\ left > 0 /\ lists' = PopNode(lists, "received") /\ ListsTyped(lists)
      /\ "received" \in Lists /\ left \in Nat /\ left <= Len(Held["received"])
  BY ListNames DEF TakeData, PathTypes, LoopPhases
<1>2. Held["received"] \in Seq(Frames)
  BY <1>1 DEF ListsTyped, Held
<1>3. Len(Held["received"]) \in Nat \ {0} /\ Held["received"] # << >>
  BY <1>1, <1>2, LenProperties, EmptySeq
<1> QED  BY <1>1, <1>3, PopTyped DEF Held

\* In handle_outgoing_frames: a copy of the frame in the window, or of the next one.
LEMMA HandleOutgoingLists ==
  ASSUME PathTypes, HandleOutgoing
  PROVE  \/ /\ slot # NULL /\ slot' = slot /\ ListsTyped(lists') /\ pc' = "switch"
            /\ Held' = Appended(Held, "outgoing", slot)
         \/ /\ slot = NULL /\ Held["buffered"] # << >> /\ slot' = Head(Held["buffered"])
            /\ slot' \in Frames /\ ListsTyped(lists') /\ pc' = "switch"
            /\ Held' = Appended(Popped(Held, "buffered"), "outgoing", slot')
         \/ slot = NULL /\ slot' = slot /\ lists' = lists /\ pc' = "main"
<1>1. ListsTyped(lists) /\ "outgoing" \in Lists /\ "buffered" \in Lists /\ HasRoom
  BY ListNames DEF HandleOutgoing, PathTypes
<1>2. CASE slot # NULL
  <2>1. slot' = slot /\ lists' = AppendNode(lists, "outgoing", slot) /\ pc' = "switch" /\ slot \in Frames
    BY <1>2 DEF HandleOutgoing, PathTypes, LoopTypes
  <2>2. ListsTyped(lists') /\ Held' = Appended(Held, "outgoing", slot)
    BY <1>1, <2>1, AppendTyped DEF Held, HasRoom
  <2> QED  BY <1>2, <2>1, <2>2
<1>3. CASE slot = NULL /\ lists.head["buffered"] # NULL
  <2> DEFINE h == PopNode(lists, "buffered")
  <2>1. /\ slot' = PeekNode(lists, "buffered") /\ lists' = AppendNode(h, "outgoing", slot')
        /\ pc' = "switch"
    BY <1>3 DEF HandleOutgoing
  <2>2. Held["buffered"] # << >>
    BY <1>1, <1>3, HeadHeld DEF Held
  <2>3. /\ ListsTyped(h) /\ Used(h) # Nodes /\ HeldIn(h) = Popped(Held, "buffered")
        /\ PeekNode(lists, "buffered") = Head(Held["buffered"])
        /\ PeekNode(lists, "buffered") \in Frames
    BY <1>1, <2>2, PopTyped DEF Held
  <2>4. /\ ListsTyped(AppendNode(h, "outgoing", slot'))
        /\ HeldIn(AppendNode(h, "outgoing", slot')) = Appended(HeldIn(h), "outgoing", slot')
    <3> HIDE DEF h
    <3> QED  BY <1>1, <2>1, <2>3, AppendTyped
  <2>5. ListsTyped(lists') /\ Held' = Appended(Popped(Held, "buffered"), "outgoing", slot')
    BY <2>1, <2>3, <2>4 DEF Held
  <2> QED  BY <1>3, <2>1, <2>2, <2>3, <2>5
<1>4. CASE slot = NULL /\ lists.head["buffered"] = NULL
  BY <1>4 DEF HandleOutgoing
<1> QED  BY <1>2, <1>3, <1>4

-----------------------------------------------------------------------------

\* Where the checksum is in a step, and what call becomes.
LEMMA CallAfter ==
  ASSUME PathTypes
  PROVE  /\ Fragment => call' = "set"
         /\ Checksum => call # "none" /\ call' \in {call, "test"} /\ (call' # call => call = "set")
         /\ QueueFrame => call = "test" /\ call' = "none"
         /\ PopIncoming => call = "none" /\ call' = "receive"
         /\ TakeFrame => call = "receive" /\ call' = "none"
<1>1. Fragment => call' = "set"
  BY DEF Fragment, SetChecksum, Compute
<1>2. Checksum => call # "none" /\ call' \in {call, "test"} /\ (call' # call => call = "set")
  BY DEF Checksum, NextBit, Computing, StoreChecksum, Compute
<1>3. QueueFrame => call = "test" /\ call' = "none"
  BY DEF QueueFrame, Tested
<1>4. PopIncoming => call = "none" /\ call' = "receive"
  BY DEF PopIncoming, Receive, Compute
<1>5. TakeFrame => call = "receive" /\ call' = "none"
  BY DEF TakeFrame, Received
<1> QED  BY <1>1, <1>2, <1>3, <1>4, <1>5

\* The lists that ll_pop_node leaves alone.
LEMMA HeldOther ==
  ASSUME NEW c \in [Lists -> Seq(Values)], NEW l \in Lists
  PROVE  /\ DOMAIN Popped(c, l) = Lists
         /\ \A m \in Lists : Popped(c, l)[m] = IF m = l THEN Tail(c[l]) ELSE c[m]
BY DEF Popped

\* Each step of the path keeps the types.
LEMMA PathStepTypes == PathTypes /\ [PathNext]_path_vars => PathTypes'
<1> SUFFICES ASSUME PathTypes, [PathNext]_path_vars PROVE PathTypes'
  OBVIOUS
<1>1. IInv'
  BY PathCrc, CrcKept DEF PathTypes
<1>2. /\ ListsTyped(lists) /\ LoopTypes /\ LoopPhases /\ IInv /\ CrcTypeOK
      /\ Held \in [Lists -> Seq(Values)]
      /\ \A l \in Lists \ {"input"} : Held[l] \in Seq(Frames)
      /\ Held["input"] \in Seq(Texts)
      /\ "received" \in Lists /\ "outgoing" \in Lists /\ "incoming" \in Lists
      /\ "buffered" \in Lists /\ "input" \in Lists
  BY ListNames DEF PathTypes, ListsTyped, Good, Held, IInv
<1>3. ASSUME lists' = lists PROVE ListsTyped(lists') /\ Held' = Held /\ (HasRoom' <=> HasRoom)
  BY <1>2, <1>3 DEF Held, HasRoom
<1>4. ASSUME NEW t \in Texts, Type(t) PROVE PathTypes'
  <2>1. ListsTyped(lists') /\ Held' = Appended(Held, "input", t)
    BY <1>4, TypeLists
  <2>2. Held'["outgoing"] = Held["outgoing"] /\ Held'["received"] = Held["received"]
    BY <1>2, <2>1 DEF Appended
  <2>3. LoopTypes'
    <3>1. typed' \in Seq(Texts) /\ Len(typed') = Len(typed) + 1 /\ Len(typed) \in Nat
      BY <1>2, <1>4, AppendProperties, LenProperties DEF Type, LoopTypes
    <3> QED  BY <1>2, <1>4, <3>1, PathAssumption DEF Type, LoopTypes, reasm
  <2>4. LoopPhases'
    BY <1>2, <1>4, <2>2 DEF Type, LoopPhases, crc_vars, reasm
  <2> QED  BY <1>1, <2>1, <2>3, <2>4 DEF PathTypes
<1>5. ASSUME InputDone PROVE PathTypes'
  <2>1. LoopTypes'  BY <1>2, <1>5 DEF InputDone, LoopTypes, reasm
  <2>2. LoopPhases'  BY <1>2, <1>3, <1>5 DEF InputDone, LoopPhases, reasm, crc_vars
  <2> QED  BY <1>1, <1>3, <1>5, <2>1, <2>2 DEF InputDone, PathTypes
<1>6. ASSUME PopCommand PROVE PathTypes'
  <2>1. ListsTyped(lists') /\ Held' = Popped(Held, "input") /\ PeekNode(lists, "input") \in Texts
    BY <1>6, PopCommandLists
  <2>2. Held'["outgoing"] = Held["outgoing"] /\ Held'["received"] = Held["received"]
    BY <1>2, <2>1, HeldOther
  <2>3. cmd' \in Seq(Byte) /\ start' = 0 /\ Len(cmd') > 0
    <3> DEFINE t == PeekNode(lists, "input")
    <3>1. t \in Seq(Byte) /\ {} \in Byte
      <4>1. t \in Seq(Byte \ {{}})  BY <2>1, PathAssumption
      <4> QED  BY <4>1, SeqMonotonic DEF Byte
    <3>2. cmd' = Append(t, {}) /\ start' = 0  BY <1>6 DEF PopCommand
    <3> HIDE DEF t
    <3>3. Append(t, {}) \in Seq(Byte) /\ Len(Append(t, {})) = Len(t) + 1 /\ Len(t) \in Nat
      BY <3>1, AppendProperties, LenProperties
    <3> QED  BY <3>2, <3>3
  <2>4. LoopTypes'
    BY <1>2, <1>6, <2>3 DEF PopCommand, LoopTypes, reasm
  <2>5. LoopPhases'
    BY <1>2, <1>6, <2>2 DEF PopCommand, LoopPhases, crc_vars, reasm
  <2> QED  BY <1>1, <2>1, <2>4, <2>5 DEF PathTypes
<1>7. ASSUME Fragment PROVE PathTypes'
  <2>1. call' = "set"  BY <1>7, CallAfter
  <2>2. LoopTypes'  BY <1>2, <1>7 DEF Fragment, LoopTypes, reasm
  <2>3. LoopPhases'  BY <1>2, <1>3, <1>7, <2>1 DEF Fragment, LoopPhases, reasm
  <2> QED  BY <1>1, <1>3, <1>7, <2>2, <2>3 DEF Fragment, PathTypes
<1>8. ASSUME Checksum PROVE PathTypes'
  <2>1. call # "none" /\ call' \in {call, "test"} /\ (call' # call => call = "set")
    BY <1>8, CallAfter
  <2>2. LoopTypes'  BY <1>2, <1>8 DEF Checksum, LoopTypes, reasm
  <2>3. LoopPhases'  BY <1>2, <1>3, <1>8, <2>1 DEF Checksum, LoopPhases, reasm
  <2> QED  BY <1>1, <1>3, <1>8, <2>2, <2>3 DEF Checksum, PathTypes
<1>9. ASSUME QueueFrame PROVE PathTypes'
  <2>1. call = "test" /\ call' = "none"  BY <1>9, CallAfter
  <2>2. ListsTyped(lists') /\ Held' = Appended(Held, "buffered", buf)  BY <1>9, QueueFrameLists
  <2>3. Held'["outgoing"] = Held["outgoing"] /\ Held'["received"] = Held["received"]
    BY <1>2, <2>2 DEF Appended
  <2>4. cmd # << >> /\ pc = "commands"  BY <1>2, <2>1 DEF LoopPhases
  <2>5. cmd' \in Seq(Byte) /\ start' \in Nat /\ (cmd' # << >> => start' < Len(cmd'))
    <3>1. Len(cmd) \in Nat /\ PAYLOAD \in Nat /\ start \in Nat /\ start < Len(cmd)
      BY <1>2, <2>4, LenProperties, PathAssumption DEF LoopTypes
    <3>2. End \in Nat /\ End <= Len(cmd)  BY <3>1 DEF End
    <3>3. start' = End /\ cmd' = IF End = Len(cmd) THEN << >> ELSE cmd  BY <1>9 DEF QueueFrame
    <3> QED  BY <1>2, <3>1, <3>2, <3>3, EmptySeq DEF LoopTypes
  <2>6. LoopTypes'  BY <1>2, <1>9, <2>5 DEF QueueFrame, LoopTypes, reasm
  <2>7. LoopPhases'
    BY <1>2, <1>9, <2>1, <2>3, <2>4 DEF QueueFrame, LoopPhases, reasm
  <2> QED  BY <1>1, <2>2, <2>6, <2>7 DEF PathTypes
<1>10. ASSUME CommandsDone PROVE PathTypes'
  <2>1. LoopTypes'  BY <1>2, <1>10 DEF CommandsDone, LoopTypes, reasm
  <2>2. LoopPhases'
    BY <1>2, <1>3, <1>10 DEF CommandsDone, LoopPhases, reasm, crc_vars
  <2> QED  BY <1>1, <1>3, <1>10, <2>1, <2>2 DEF CommandsDone, PathTypes
<1>11. ASSUME HandleOutgoing PROVE PathTypes'
  <2>1. /\ pc = "outgoing" /\ pc' \in {"main", "switch"} /\ call' = call /\ left' = left
        /\ cmd' = cmd /\ start' = start /\ msg' = msg /\ typed' = typed /\ faults' = faults
    BY <1>11 DEF HandleOutgoing, crc_vars, reasm
  <2>2. /\ ListsTyped(lists') /\ slot' \in {NULL} \cup Frames
        /\ pc' = "switch" => Held'["outgoing"] # << >>
    <3>1. ASSUME NEW f \in Frames, NEW c \in Seq(Frames) PROVE Append(c, f) # << >>
      BY <3>1, AppendProperties
    <3>2. CASE slot # NULL /\ slot' = slot /\ ListsTyped(lists')
               /\ Held' = Appended(Held, "outgoing", slot)
      <4>1. slot \in Frames  BY <1>2, <3>2 DEF LoopTypes
      <4>2. Held'["outgoing"] = Append(Held["outgoing"], slot)
        BY <1>2, <3>2 DEF Appended
      <4> QED  BY <1>2, <3>1, <3>2, <4>1, <4>2
    <3>3. CASE /\ slot' \in Frames /\ ListsTyped(lists')
               /\ Held' = Appended(Popped(Held, "buffered"), "outgoing", slot')
      <4>1. /\ DOMAIN Popped(Held, "buffered") = Lists
            /\ Popped(Held, "buffered")["outgoing"] = Held["outgoing"]
        BY <1>2, HeldOther
      <4>2. Held'["outgoing"] = Append(Held["outgoing"], slot')
        BY <1>2, <3>3, <4>1 DEF Appended
      <4> QED  BY <1>2, <3>1, <3>3, <4>2
    <3>4. CASE slot' = slot /\ lists' = lists /\ pc' = "main"
      BY <1>2, <1>3, <3>4 DEF LoopTypes
    <3> QED  BY <1>11, <3>2, <3>3, <3>4, HandleOutgoingLists
  <2>3. LoopTypes'  BY <1>2, <2>1, <2>2 DEF LoopTypes
  <2>4. LoopPhases'  BY <1>2, <2>1, <2>2 DEF LoopPhases
  <2> QED  BY <1>1, <2>2, <2>3, <2>4 DEF PathTypes
<1>12. ASSUME SendFrame PROVE PathTypes'
  <2>1. ListsTyped(lists')  BY <1>12, SendFrameLists
  <2>2. faults' \in 0 .. MaxFaults
    <3>1. PICK p \in 0 .. N : /\ p # 0 => faults < MaxFaults
                              /\ faults' = IF p = 0 THEN faults ELSE faults + 1
      BY <1>12 DEF SendFrame
    <3> QED  BY <1>2, <3>1, PathAssumption DEF LoopTypes
  <2>3. LoopTypes'  BY <1>2, <1>12, <2>2 DEF SendFrame, LoopTypes, reasm
  <2>4. LoopPhases'  BY <1>2, <1>12 DEF SendFrame, LoopPhases, reasm, crc_vars
  <2> QED  BY <1>1, <2>1, <2>3, <2>4 DEF PathTypes
<1>13. ASSUME PopIncoming PROVE PathTypes'
  <2>1. call' = "receive"  BY <1>13, CallAfter
  <2>2. ListsTyped(lists') /\ HasRoom'  BY <1>13, PopIncomingLists
  <2>3. LoopTypes'  BY <1>2, <1>13 DEF PopIncoming, LoopTypes, reasm
  <2>4. LoopPhases'  BY <1>2, <1>13, <2>1, <2>2 DEF PopIncoming, LoopPhases, reasm
  <2> QED  BY <1>1, <2>2, <2>3, <2>4 DEF PathTypes
<1>14. ASSUME TakeFrame PROVE PathTypes'
  <2>1. call = "receive" /\ call' = "none"  BY <1>14, CallAfter
  <2>2. pc = "incoming" /\ left \in Nat /\ left = 0  BY <1>2, <2>1 DEF LoopPhases
  <2>3. ListsTyped(lists') /\ slot' \in {NULL} \cup Frames /\ pc' \in {"main", "reassemble"}
    <3>1. CASE remainder = {}
      BY <1>14, <3>1, TakeFrameLists DEF TakeFrame
    <3>2. CASE remainder # {}
      BY <1>2, <1>14, <3>2 DEF TakeFrame, LoopTypes
    <3> QED  BY <3>1, <3>2
  <2>4. LoopTypes'  BY <1>2, <1>14, <2>3 DEF TakeFrame, LoopTypes, reasm
  <2>5. LoopPhases'  BY <1>14, <2>1, <2>2, <2>3 DEF TakeFrame, LoopPhases, reasm
  <2> QED  BY <1>1, <2>3, <2>4, <2>5 DEF PathTypes
<1>15. ASSUME FindMessage PROVE PathTypes'
  <2>1. left' \in Nat /\ left' <= Len(Held["received"]) /\ pc' \in {"reassemble", "main"}
        /\ (pc' = "main" => left' = 0)
    <3>1. Length(lists, "received") = Len(Held["received"]) /\ Len(Held["received"]) \in Nat
      BY <1>2, HeadHeld, LenProperties DEF Held
    <3> QED  BY <1>15, <3>1 DEF FindMessage, Lasts
  <2>2. LoopTypes'  BY <1>2, <1>15 DEF FindMessage, LoopTypes
  <2>3. LoopPhases'
    BY <1>2, <1>3, <1>15, <2>1 DEF FindMessage, LoopPhases, crc_vars
  <2> QED  BY <1>1, <1>3, <1>15, <2>2, <2>3 DEF FindMessage, PathTypes
<1>16. ASSUME TakeData PROVE PathTypes'
  <2>1. /\ ListsTyped(lists') /\ Held' = Popped(Held, "received")
        /\ PeekNode(lists, "received") \in Frames /\ Held["received"] # << >>
    BY <1>16, TakeDataLists
  <2>2. Len(Held'["received"]) = Len(Held["received"]) - 1 /\ Len(Held["received"]) \in Nat
    <3>1. Held'["received"] = Tail(Held["received"])  BY <1>2, <2>1, HeldOther
    <3> QED  BY <1>2, <2>1, <3>1, HeadTailProperties, LenProperties
  <2>3. Held'["outgoing"] = Held["outgoing"]
    BY <1>2, <2>1, HeldOther
  <2>4. LoopTypes'  BY <1>2, <1>16 DEF TakeData, LoopTypes
  <2>5. LoopPhases'
    BY <1>2, <1>16, <2>2, <2>3 DEF TakeData, LoopPhases, crc_vars
  <2> QED  BY <1>1, <2>1, <2>4, <2>5 DEF PathTypes
<1>17. ASSUME UNCHANGED path_vars PROVE PathTypes'
  <2>1. LoopTypes'  BY <1>2, <1>17 DEF path_vars, LoopTypes, reasm
  <2>2. LoopPhases'  BY <1>2, <1>3, <1>17 DEF path_vars, LoopPhases, crc_vars, reasm
  <2> QED  BY <1>1, <1>3, <1>17, <2>1, <2>2 DEF path_vars, PathTypes
<1> QED
  BY <1>4, <1>5, <1>6, <1>7, <1>8, <1>9, <1>10, <1>11, <1>12, <1>13, <1>14, <1>15, <1>16, <1>17
  DEF PathNext, Main

-----------------------------------------------------------------------------

\* The types of the path.
THEOREM PathTypesHold == PathSpec => []PathTypes
<1> QED  BY InitTypes, PathStepTypes, PTL DEF PathSpec

\* The types of the main loop's variables, and where in the loop a checksum is computed.
THEOREM PathTyped == PathSpec => []PathTypeOK
<1>1. PathTypes => PathTypeOK
  <2> SUFFICES ASSUME PathTypes PROVE PathTypeOK
    OBVIOUS
  <2>1. CrcTypeOK /\ LoopTypes /\ LoopPhases  BY DEF PathTypes, IInv
  <2>2. \A n \in DOMAIN cmd : cmd[n] \in Byte
    BY <2>1, ElementOfSeq, LenProperties DEF LoopTypes
  <2>3. \A t \in {typed[n] : n \in DOMAIN typed} : t \in Texts
    BY <2>1, ElementOfSeq, LenProperties DEF LoopTypes
  <2>4. start \in 0 .. Len(cmd) \/ cmd = << >>
    BY <2>1, LenProperties DEF LoopTypes
  <2> QED  BY <2>1, <2>2, <2>3, <2>4 DEF PathTypeOK, LoopTypes, LoopPhases
<1> QED  BY <1>1, PathTypesHold, PTL

\* Whatever the order in which handle_input_cmds, handle_outgoing_frames, the switch,
\* handle_incoming_frames and reassemble_message append and pop, every list stays a ring
\* in both directions and no node is lost or shared.
THEOREM ListsAreLinked == PathSpec => []ListsLinked
<1>1. PathTypes => ListsLinked
  BY GoodLinked DEF PathTypes, ListsTyped, ListsLinked
<1> QED  BY <1>1, PathTypesHold, PTL

\* On their way from one host's lists to the other's, frames get their checksum and are
\* tested in the steps of the checksum's own specification.
THEOREM PathComputesCrc == PathSpec => CrcSpec
<1>1. PathInit => CrcInit  BY DEF PathInit
<1>2. PathTypes /\ [PathNext]_path_vars => [CrcNext]_crc_vars  BY PathCrc
<1> QED  BY <1>1, <1>2, PathTypesHold, PTL DEF PathSpec, CrcSpec

\* No frame in which the switch inverted a byte gets past handle_incoming_frames, and
\* every other one does.
THEOREM PathDetects == PathSpec => []CorruptionDetected
BY PathComputesCrc, CorruptionIsDetected

-----------------------------------------------------------------------------

\* The bytes of the message m of those typed, with the terminator.
TextOf(ts, m) == Append(ts[m], {})

\* Where the fragment ends that begins behind byte s of message m, and the place behind it.
Stop(ts, m, s)  == IF s + PAYLOAD > Len(TextOf(ts, m)) THEN Len(TextOf(ts, m)) ELSE s + PAYLOAD
Behind(ts, m, s) == IF Stop(ts, m, s) = Len(TextOf(ts, m)) THEN <<m + 1, 0>>
                   ELSE <<m, Stop(ts, m, s)>>

\* The frame f carries that fragment, and says whether it is the last of its message.
Fits(ts, f, m, s) ==
    /\ m \in 1 .. Len(ts) /\ s \in Nat /\ s < Len(TextOf(ts, m))
    /\ Data(f) \in Seq(Byte) /\ Len(Data(f)) = Stop(ts, m, s) - s
    /\ \A k \in 1 .. Stop(ts, m, s) - s : Data(f)[k] = TextOf(ts, m)[s + k]
    /\ Remaining(f) = 0 <=> Stop(ts, m, s) = Len(TextOf(ts, m))

\* The frames w carry the text from one place to another, the k-th from at[k].
Carries(ts, w, at) == \A k \in 1 .. Len(w) : /\ Fits(ts, w[k], at[k][1], at[k][2])
                                            /\ at[k + 1] = Behind(ts, at[k][1], at[k][2])

Stream(ts, w, from, to) ==
    \E at \in [1 .. Len(w) + 1 -> Nat \X Nat] :
        at[1] = from /\ at[Len(w) + 1] = to /\ Carries(ts, w, at)

\* The frames between cutting a message and reassembling it: received, in the window, and
\* waiting for it.
Queue(a, s, b) == a \o (IF s = NULL THEN << >> ELSE <<s>>) \o b

Waiting == Queue(Held["received"], slot, Held["buffered"])

\* The messages that handle_input_cmds has taken up, where it is, and where
\* reassemble_message is.
Cut    == Len(typed) - Len(Held["input"])
Writer == IF cmd = << >> THEN <<Cut + 1, 0>> ELSE <<Cut, start>>
Reader == <<Len(printed) + 1, Len(msg)>>

\* Commands leave their list in the order they were typed.
Commands ==
    /\ Cut \in Nat
    /\ \A k \in 1 .. Len(Held["input"]) : Held["input"][k] = typed[Cut + k]
    /\ cmd # << >> => Cut \in 1 .. Len(typed) /\ cmd = TextOf(typed, Cut)

\* The frame that is being given its checksum, or tested.
Making ==
    /\ call \in {"set", "test"} =>
         \E pad \in Garbage : \A n \in 1 .. N - 1 : buf[n] = Frame(pad)[n]
    /\ call = "receive" => base = slot

\* reassemble_message has the first bytes of the next message, and takes frames up to its last.
Assembling ==
    /\ msg \in Seq(Byte) /\ (left = 0 => msg = << >>)
    /\ \A k \in 1 .. Len(msg) : msg[k] = TextOf(typed, Len(printed) + 1)[k]
    /\ left > 0 => /\ Remaining(Held["received"][left]) = 0
                   /\ \A n \in 1 .. left - 1 : Remaining(Held["received"][n]) # 0

Printing ==
    /\ printed \in Seq(Texts) /\ Len(printed) <= Len(typed)
    /\ \A n \in 1 .. Len(printed) : printed[n] = typed[n]

PathInv == PathTypes /\ Commands /\ Making /\ Assembling /\ Printing
           /\ Stream(typed, Waiting, Reader, Writer)

-----------------------------------------------------------------------------

\* A sequence of frames is its first and the others.
LEMMA FirstAndRest ==
    /\ \A a \in Seq(Frames) : a # << >> => a = <<Head(a)>> \o Tail(a)
    /\ \A x \in Frames : \A y \in Seq(Frames) :
         <<x>> \o y # << >> /\ Head(<<x>> \o y) = x /\ Tail(<<x>> \o y) = y
<1>1. ASSUME NEW a \in Seq(Frames), a # << >> PROVE a = <<Head(a)>> \o Tail(a)
  <2>1. /\ Head(a) \in Frames /\ Tail(a) \in Seq(Frames) /\ Len(Tail(a)) = Len(a) - 1
        /\ \A k \in 1 .. Len(Tail(a)) : Tail(a)[k] = a[k + 1]
        /\ Len(a) \in Nat \ {0} /\ Head(a) = a[1]
    BY <1>1, HeadTailProperties, EmptySeq
  <2> DEFINE h == <<Head(a)>>
             t == Tail(a)
  <2>2. h \in Seq(Frames) /\ Len(h) = 1 /\ h[1] = a[1]  BY <2>1
  <2>3. t \in Seq(Frames) /\ Len(t) = Len(a) - 1 /\ \A k \in 1 .. Len(a) - 1 : t[k] = a[k + 1]
    BY <2>1
  <2> HIDE DEF h, t
  <2>4. /\ h \o t \in Seq(Frames) /\ Len(h \o t) = Len(h) + Len(t)
        /\ \A k \in 1 .. Len(h) + Len(t) : (h \o t)[k] = IF k <= Len(h) THEN h[k] ELSE t[k - Len(h)]
    <3>1. h \in Seq(Frames) /\ t \in Seq(Frames)  BY <2>2, <2>3
    <3> QED  BY <3>1, ConcatProperties
  <2>5. Len(h \o t) = Len(a)  BY <2>1, <2>2, <2>3, <2>4
  <2>6. ASSUME NEW k \in 1 .. Len(a) PROVE (h \o t)[k] = a[k]
    <3>1. CASE k = 1  BY <2>1, <2>2, <2>3, <2>4, <3>1
    <3>2. CASE k # 1
      <4>1. k - 1 \in 1 .. Len(a) - 1 /\ k - 1 + 1 = k /\ ~(k <= 1) /\ k \in 1 .. Len(h) + Len(t)
        BY <2>1, <2>2, <2>3, <3>2
      <4> QED  BY <2>2, <2>3, <2>4, <4>1
    <3> QED  BY <3>1, <3>2
  <2>7. a = h \o t
    <3> DEFINE z == h \o t
    <3>1. z \in Seq(Frames) /\ Len(z) = Len(a) /\ \A k \in 1 .. Len(a) : z[k] = a[k]
      BY <2>4, <2>5, <2>6
    <3> HIDE DEF z
    <3>2. a = z  BY <3>1, SeqEqual
    <3> QED  BY <3>2 DEF z
  <2> QED  BY <2>7 DEF h, t
<1>2. ASSUME NEW x \in Frames, NEW y \in Seq(Frames)
      PROVE  <<x>> \o y # << >> /\ Head(<<x>> \o y) = x /\ Tail(<<x>> \o y) = y
  <2> DEFINE h == <<x>>
             z == h \o y
  <2>1. h \in Seq(Frames) /\ Len(h) = 1 /\ h[1] = x /\ Len(y) \in Nat  BY LenProperties
  <2> HIDE DEF h
  <2>2. /\ z \in Seq(Frames) /\ Len(z) = 1 + Len(y)
        /\ \A k \in 1 .. 1 + Len(y) : z[k] = IF k <= 1 THEN h[k] ELSE y[k - 1]
    <3>1. /\ z \in Seq(Frames) /\ Len(z) = Len(h) + Len(y)
          /\ \A k \in 1 .. Len(h) + Len(y) : z[k] = IF k <= Len(h) THEN h[k] ELSE y[k - Len(h)]
      BY <2>1, ConcatProperties
    <3> HIDE DEF z
    <3> QED  BY <2>1, <3>1
  <2> HIDE DEF z
  <2>3. z # << >> /\ Head(z) = z[1] /\ z[1] = x
    BY <2>1, <2>2, EmptySeq
  <2>4. /\ Tail(z) \in Seq(Frames) /\ Len(Tail(z)) = Len(y)
        /\ \A k \in 1 .. Len(y) : Tail(z)[k] = z[k + 1]
    <3>1. /\ Tail(z) \in Seq(Frames) /\ Len(Tail(z)) = Len(z) - 1
          /\ \A k \in 1 .. Len(Tail(z)) : Tail(z)[k] = z[k + 1]
      BY <2>2, <2>3, HeadTailProperties
    <3> QED  BY <2>1, <2>2, <3>1
  <2>5. ASSUME NEW k \in 1 .. Len(y) PROVE Tail(z)[k] = y[k]
    <3>1. k + 1 \in 1 .. 1 + Len(y) /\ ~(k + 1 <= 1) /\ k + 1 - 1 = k  BY <2>1
    <3> QED  BY <2>2, <2>4, <3>1
  <2>6. Tail(z) = y
    <3> DEFINE q == Tail(z)
    <3>1. q \in Seq(Frames) /\ Len(q) = Len(y) /\ \A k \in 1 .. Len(q) : q[k] = y[k]
      BY <2>4, <2>5
    <3> HIDE DEF q
    <3>2. q = y  BY <3>1, SeqEqual
    <3> QED  BY <3>2 DEF q
  <2> QED  BY <2>3, <2>6 DEF z, h
<1> QED  BY <1>1, <1>2

\* What handle_input_cmds, handle_outgoing_frames, handle_incoming_frames and
\* reassemble_message do to the queue that the lists and the window make up.
LEMMA QueueMoves ==
  ASSUME NEW a \in Seq(Frames), NEW s \in {NULL} \cup Frames, NEW b \in Seq(Frames)
  PROVE  /\ Queue(a, s, b) \in Seq(Frames)
         /\ \A f \in Frames : Queue(a, s, Append(b, f)) = Append(Queue(a, s, b), f)
         /\ b # << >> => Queue(a, Head(b), Tail(b)) = Queue(a, NULL, b)
         /\ s # NULL => Queue(Append(a, s), NULL, b) = Queue(a, s, b)
         /\ a # << >> => /\ Queue(a, s, b) # << >> /\ Head(Queue(a, s, b)) = Head(a)
                         /\ Queue(Tail(a), s, b) = Tail(Queue(a, s, b))
<1>1. NULL \notin Frames  BY PathAssumption
<1> DEFINE z == IF s = NULL THEN << >> ELSE <<s>>
<1>2. z \in Seq(Frames)  BY EmptySeq
<1>3. Queue(a, s, b) = (a \o z) \o b  BY DEF Queue
<1> HIDE DEF z
<1>4. a \o z \in Seq(Frames) /\ (a \o z) \o b \in Seq(Frames)
  BY <1>2, ConcatProperties
<1>5. ASSUME NEW f \in Frames PROVE Queue(a, s, Append(b, f)) = Append(Queue(a, s, b), f)
  <2>1. <<f>> \in Seq(Frames)  OBVIOUS
  <2>2. Append(b, f) = b \o <<f>> /\ Append((a \o z) \o b, f) = ((a \o z) \o b) \o <<f>>
    BY <1>4, AppendIsConcat
  <2>3. ((a \o z) \o b) \o <<f>> = (a \o z) \o (b \o <<f>>)
    BY <1>4, <2>1, ConcatAssociative
  <2>4. Queue(a, s, Append(b, f)) = (a \o z) \o Append(b, f)
    BY DEF Queue, z
  <2> QED  BY <1>3, <2>2, <2>3, <2>4
<1>6. ASSUME b # << >> PROVE Queue(a, Head(b), Tail(b)) = Queue(a, NULL, b)
  <2>1. Head(b) \in Frames /\ Tail(b) \in Seq(Frames) /\ b = <<Head(b)>> \o Tail(b)
    BY <1>6, HeadTailProperties, FirstAndRest
  <2>2. <<Head(b)>> \in Seq(Frames)  BY <2>1
  <2>3. Queue(a, Head(b), Tail(b)) = (a \o <<Head(b)>>) \o Tail(b)
    BY <1>1, <2>1 DEF Queue
  <2>4. (a \o <<Head(b)>>) \o Tail(b) = a \o (<<Head(b)>> \o Tail(b))
    BY <2>1, <2>2, ConcatAssociative
  <2>5. Queue(a, NULL, b) = (a \o << >>) \o b /\ a \o << >> = a
    BY ConcatEmptySeq DEF Queue
  <2> QED  BY <2>1, <2>3, <2>4, <2>5
<1>7. ASSUME s # NULL PROVE Queue(Append(a, s), NULL, b) = Queue(a, s, b)
  <2>1. s \in Frames /\ z = <<s>>  BY <1>7 DEF z
  <2>2. Append(a, s) = a \o <<s>> /\ Append(a, s) \in Seq(Frames)
    BY <2>1, AppendIsConcat, AppendProperties
  <2>3. Queue(Append(a, s), NULL, b) = (Append(a, s) \o << >>) \o b
    BY DEF Queue
  <2>4. Append(a, s) \o << >> = Append(a, s)  BY <2>2, ConcatEmptySeq
  <2> QED  BY <1>3, <2>1, <2>2, <2>3, <2>4
<1>8. ASSUME a # << >>
      PROVE  /\ Queue(a, s, b) # << >> /\ Head(Queue(a, s, b)) = Head(a)
             /\ Queue(Tail(a), s, b) = Tail(Queue(a, s, b))
  <2> DEFINE h == <<Head(a)>>
             t == Tail(a)
  <2>1. Head(a) \in Frames /\ t \in Seq(Frames) /\ a = h \o t /\ h \in Seq(Frames)
    BY <1>8, HeadTailProperties, FirstAndRest
  <2> HIDE DEF t
  <2>2. Queue(t, s, b) = (t \o z) \o b  BY DEF Queue, z
  <2>3. t \o z \in Seq(Frames) /\ (t \o z) \o b \in Seq(Frames)
    BY <1>2, <2>1, ConcatProperties
  <2>4. (a \o z) \o b = h \o ((t \o z) \o b)
    <3> HIDE DEF h
    <3>1. h \in Seq(Frames) /\ t \in Seq(Frames) /\ z \in Seq(Frames) /\ b \in Seq(Frames)
      BY <1>2, <2>1
    <3>2. (h \o t) \o z = h \o (t \o z)  BY <3>1, ConcatAssociative, SMTT(40)
    <3> DEFINE tz == t \o z
    <3>4. tz \in Seq(Frames)  BY <2>3
    <3> HIDE DEF tz
    <3>5. (h \o tz) \o b = h \o (tz \o b)  BY <3>1, <3>4, ConcatAssociative
    <3>3. (h \o (t \o z)) \o b = h \o ((t \o z) \o b)  BY <3>5 DEF tz
    <3> QED  BY <2>1, <3>2, <3>3
  <2>5. Queue(a, s, b) = <<Head(a)>> \o Queue(t, s, b) /\ Queue(t, s, b) \in Seq(Frames)
    BY <1>3, <2>2, <2>3, <2>4
  <2> QED  BY <2>1, <2>5, FirstAndRest DEF t
<1> QED  BY <1>3, <1>4, <1>5, <1>6, <1>7, <1>8

-----------------------------------------------------------------------------

\* The text of a message that may be typed.
LEMMA TextFacts ==
  ASSUME NEW ts \in Seq(Texts), NEW m \in 1 .. Len(ts)
  PROVE  /\ ts[m] \in Texts /\ ts[m] \in Seq(Byte \ {{}}) /\ Len(ts[m]) \in Nat
         /\ TextOf(ts, m) \in Seq(Byte) /\ Len(TextOf(ts, m)) = Len(ts[m]) + 1
         /\ TextOf(ts, m) # << >>
         /\ Len(TextOf(ts, m)) < REM + PAYLOAD
         /\ \A k \in 1 .. Len(ts[m]) : TextOf(ts, m)[k] = ts[m][k] /\ TextOf(ts, m)[k] # {}
         /\ TextOf(ts, m)[Len(ts[m]) + 1] = {}
<1>1. ts[m] \in Texts  BY ElementOfSeq
<1>2. ts[m] \in Seq(Byte \ {{}}) /\ Len(ts[m]) + 1 < REM + PAYLOAD
  BY <1>1, PathAssumption
<1>3. ts[m] \in Seq(Byte) /\ {} \in Byte
  BY <1>2, SeqMonotonic DEF Byte
<1>4. /\ Append(ts[m], {}) \in Seq(Byte) /\ Len(Append(ts[m], {})) = Len(ts[m]) + 1
      /\ Append(ts[m], {}) # << >>
      /\ \A k \in 1 .. Len(ts[m]) : Append(ts[m], {})[k] = ts[m][k]
      /\ Append(ts[m], {})[Len(ts[m]) + 1] = {}
  BY <1>3, AppendProperties
<1>5. Len(ts[m]) \in Nat /\ \A k \in 1 .. Len(ts[m]) : ts[m][k] # {}
  <2>1. \A k \in 1 .. Len(ts[m]) : ts[m][k] \in Byte \ {{}}  BY <1>2, ElementOfSeq
  <2> QED  BY <1>2, <2>1, LenProperties
<1> QED  BY <1>1, <1>2, <1>4, <1>5 DEF TextOf

\* The place behind a fragment.
LEMMA BehindType ==
  ASSUME NEW ts \in Seq(Texts), NEW m \in 1 .. Len(ts), NEW s \in Nat
  PROVE  Behind(ts, m, s) \in Nat \X Nat
<1>1. Len(TextOf(ts, m)) \in Nat /\ PAYLOAD \in Nat /\ m \in Nat
  <2>1. TextOf(ts, m) \in Seq(Byte)  BY TextFacts
  <2> QED  BY <2>1, LenProperties, PathAssumption
<1> QED  BY <1>1 DEF Behind, Stop

\* Another message is typed.
LEMMA StreamTyped ==
  ASSUME NEW ts \in Seq(Texts), NEW t \in Texts, NEW w \in Seq(Frames), NEW from, NEW to,
         Stream(ts, w, from, to)
  PROVE  Stream(Append(ts, t), w, from, to)
<1> DEFINE us == Append(ts, t)
<1>1. Len(us) = Len(ts) + 1 /\ Len(ts) \in Nat /\ \A m \in 1 .. Len(ts) : us[m] = ts[m]
  BY AppendProperties, LenProperties
<1> HIDE DEF us
<1>2. ASSUME NEW f, NEW m, NEW s, Fits(ts, f, m, s)
      PROVE  Fits(us, f, m, s) /\ Behind(us, m, s) = Behind(ts, m, s)
  <2>1. m \in 1 .. Len(ts) /\ m \in 1 .. Len(us)  BY <1>1, <1>2 DEF Fits
  <2>2. TextOf(us, m) = TextOf(ts, m)  BY <1>1, <2>1 DEF TextOf
  <2>3. Stop(us, m, s) = Stop(ts, m, s)  BY <2>2 DEF Stop
  <2> QED  BY <1>2, <2>1, <2>2, <2>3 DEF Fits, Behind
<1>3. PICK at \in [1 .. Len(w) + 1 -> Nat \X Nat] :
        at[1] = from /\ at[Len(w) + 1] = to /\ Carries(ts, w, at)
  BY DEF Stream
<1>4. Carries(us, w, at)  BY <1>2, <1>3 DEF Carries
<1>5. Stream(us, w, from, to)  BY <1>3, <1>4 DEF Stream
<1> QED  BY <1>5 DEF us

\* Another frame joins the queue.
LEMMA StreamQueued ==
  ASSUME NEW ts \in Seq(Texts), NEW w \in Seq(Frames), NEW from, NEW m, NEW s,
         Stream(ts, w, from, <<m, s>>), NEW f \in Frames, Fits(ts, f, m, s)
  PROVE  Stream(ts, Append(w, f), from, Behind(ts, m, s))
<1> DEFINE L == Len(w)
           v == Append(w, f)
           b == Behind(ts, m, s)
<1>1. /\ v \in Seq(Frames) /\ Len(v) = L + 1 /\ L \in Nat
      /\ (\A k \in 1 .. L : v[k] = w[k]) /\ v[L + 1] = f
  BY AppendProperties, LenProperties
<1>2. b \in Nat \X Nat  BY BehindType DEF Fits
<1>3. PICK at \in [1 .. L + 1 -> Nat \X Nat] :
        at[1] = from /\ at[L + 1] = <<m, s>> /\ Carries(ts, w, at)
  BY DEF Stream
<1>4. \A k \in 1 .. L : /\ Fits(ts, w[k], at[k][1], at[k][2])
                        /\ at[k + 1] = Behind(ts, at[k][1], at[k][2])
  BY <1>3 DEF Carries
<1> DEFINE bt == [k \in 1 .. L + 2 |-> IF k = L + 2 THEN b ELSE at[k]]
<1> HIDE DEF L, v, b
<1>5. /\ bt \in [1 .. L + 2 -> Nat \X Nat] /\ bt[L + 2] = b /\ bt[1] = from
      /\ \A k \in 1 .. L + 1 : bt[k] = at[k]
  BY <1>1, <1>2, <1>3
<1> HIDE DEF bt
<1>6. ASSUME NEW k \in 1 .. L + 1
      PROVE  Fits(ts, v[k], bt[k][1], bt[k][2]) /\ bt[k + 1] = Behind(ts, bt[k][1], bt[k][2])
  <2>1. CASE k = L + 1
    <3>1. /\ bt[k] = <<m, s>> /\ bt[k][1] = m /\ bt[k][2] = s
          /\ v[k] = f /\ k + 1 = L + 2 /\ bt[k + 1] = b
      BY <1>1, <1>3, <1>5, <2>1
    <3> QED  BY <3>1 DEF b
  <2>2. CASE k # L + 1
    <3>1. k \in 1 .. L /\ k + 1 \in 1 .. L + 1  BY <1>1, <2>2
    <3> QED  BY <1>1, <1>4, <1>5, <3>1
  <2> QED  BY <2>1, <2>2
<1>7. Len(v) + 1 = L + 2  BY <1>1
<1>8. Carries(ts, v, bt)  BY <1>1, <1>6 DEF Carries
<1>9. Stream(ts, v, from, b)  BY <1>5, <1>7, <1>8 DEF Stream
<1> QED  BY <1>9 DEF v, b

\* The first frame of the queue is taken.
LEMMA StreamTaken ==
  ASSUME NEW ts \in Seq(Texts), NEW w \in Seq(Frames), w # << >>, NEW m, NEW s, NEW to,
         Stream(ts, w, <<m, s>>, to)
  PROVE  Fits(ts, Head(w), m, s) /\ Stream(ts, Tail(w), Behind(ts, m, s), to)
<1> DEFINE L == Len(w)
           v == Tail(w)
<1>1. /\ v \in Seq(Frames) /\ Len(v) = L - 1 /\ L \in Nat \ {0}
      /\ (\A k \in 1 .. L - 1 : v[k] = w[k + 1]) /\ w[1] = Head(w)
  BY HeadTailProperties, EmptySeq
<1>3. PICK at \in [1 .. L + 1 -> Nat \X Nat] :
        at[1] = <<m, s>> /\ at[L + 1] = to /\ Carries(ts, w, at)
  BY DEF Stream
<1>4. \A k \in 1 .. L : /\ Fits(ts, w[k], at[k][1], at[k][2])
                        /\ at[k + 1] = Behind(ts, at[k][1], at[k][2])
  BY <1>3 DEF Carries
<1> DEFINE bt == [k \in 1 .. L |-> at[k + 1]]
<1> HIDE DEF L, v
<1>5. bt \in [1 .. L -> Nat \X Nat] /\ \A k \in 1 .. L : bt[k] = at[k + 1]
  BY <1>1, <1>3
<1> HIDE DEF bt
<1>6. ASSUME NEW k \in 1 .. L - 1
      PROVE  Fits(ts, v[k], bt[k][1], bt[k][2]) /\ bt[k + 1] = Behind(ts, bt[k][1], bt[k][2])
  <2>1. k \in 1 .. L /\ k + 1 \in 1 .. L  BY <1>1
  <2>2. v[k] = w[k + 1] /\ bt[k] = at[k + 1] /\ bt[k + 1] = at[k + 1 + 1]
    BY <1>1, <1>5, <2>1
  <2> QED  BY <1>4, <2>1, <2>2
<1>7. 1 \in 1 .. L /\ L \in 1 .. L /\ Len(v) + 1 = L  BY <1>1
<1>8. Fits(ts, w[1], m, s) /\ at[1 + 1] = Behind(ts, m, s)
  <2>1. at[1][1] = m /\ at[1][2] = s  BY <1>3
  <2> QED  BY <1>4, <1>7, <2>1
<1>9. Carries(ts, v, bt)  BY <1>1, <1>6 DEF Carries
<1>10. bt[1] = Behind(ts, m, s) /\ bt[L] = to  BY <1>3, <1>5, <1>7, <1>8
<1>11. Stream(ts, v, Behind(ts, m, s), to)
  BY <1>5, <1>7, <1>9, <1>10 DEF Stream
<1> QED  BY <1>1, <1>8, <1>11 DEF v

\* printf stops at the terminator that handle_input_cmds appended, and at no other byte.
LEMMA ShownText ==
  ASSUME NEW ts \in Seq(Texts), NEW m \in 1 .. Len(ts)
  PROVE  Shown(TextOf(ts, m)) = ts[m]
<1> DEFINE t == ts[m]
           a == TextOf(ts, m)
           L == Len(t)
           ends == {k \in DOMAIN a : a[k] = {}}
<1>1. /\ t \in Seq(Byte \ {{}}) /\ L \in Nat /\ a \in Seq(Byte) /\ Len(a) = L + 1
      /\ \A k \in 1 .. L : a[k] = t[k] /\ a[k] # {}
      /\ a[L + 1] = {}
  BY TextFacts
<1>2. Shown(a) = IF ends = {} THEN a ELSE SubSeq(a, 1, Min(ends) - 1)
  BY DEF Shown
<1> HIDE DEF t, a, L
<1>3. DOMAIN a = 1 .. L + 1  BY <1>1, LenProperties
<1>4. ends = {L + 1}
  <2>1. \A k \in 1 .. L + 1 : k \in 1 .. L \/ k = L + 1  BY <1>1
  <2>2. L + 1 \in 1 .. L + 1  BY <1>1
  <2> QED  BY <1>1, <1>3, <2>1, <2>2
<1> HIDE DEF ends
<1>5. Min(ends) = L + 1
  BY <1>1, <1>4 DEF Min
<1>6. Shown(a) = SubSeq(a, 1, L)
  <2>1. ends # {} /\ Min(ends) - 1 = L  BY <1>1, <1>4, <1>5
  <2> QED  BY <1>2, <2>1
<1>7. /\ SubSeq(a, 1, L) \in Seq(Byte) /\ Len(SubSeq(a, 1, L)) = L
      /\ \A k \in 1 .. L : SubSeq(a, 1, L)[k] = a[k]
  <2>1. \A k \in 1 .. L : a[k] \in Byte
    <3>1. \A k \in 1 .. L : k \in 1 .. Len(a)  BY <1>1
    <3> QED  BY <1>1, <3>1, ElementOfSeq
  <2>2. /\ SubSeq(a, 1, L) \in Seq(Byte)
        /\ Len(SubSeq(a, 1, L)) = IF 1 <= L THEN L - 1 + 1 ELSE 0
        /\ \A k \in 1 .. L - 1 + 1 : SubSeq(a, 1, L)[k] = a[1 + k - 1]
    BY <1>1, <2>1, SubSeqProperties
  <2> DEFINE z == SubSeq(a, 1, L)
  <2> HIDE DEF z
  <2>3. /\ z \in Seq(Byte)
        /\ Len(z) = IF 1 <= L THEN L - 1 + 1 ELSE 0
        /\ \A k \in 1 .. L - 1 + 1 : z[k] = a[1 + k - 1]
    BY <2>2 DEF z
  <2>4. L - 1 + 1 = L /\ (IF 1 <= L THEN L - 1 + 1 ELSE 0) = L /\ \A k \in 1 .. L : 1 + k - 1 = k
    BY <1>1
  <2>5. z \in Seq(Byte) /\ Len(z) = L /\ \A k \in 1 .. L : z[k] = a[k]
    BY <2>3, <2>4
  <2> QED  BY <2>5 DEF z
<1>8. t \in Seq(Byte) /\ Len(t) = L
  BY <1>1, SeqMonotonic DEF L
<1> DEFINE z == SubSeq(a, 1, L)
<1>9. z \in Seq(Byte) /\ Len(z) = Len(t) /\ \A k \in 1 .. Len(z) : z[k] = t[k]
  BY <1>1, <1>7, <1>8
<1>10. z = t
  <2> HIDE DEF z
  <2> QED  BY <1>8, <1>9, SeqEqual
<1> QED  BY <1>6, <1>10 DEF a, t

-----------------------------------------------------------------------------

\* A frame with the bytes that handle_input_cmds puts in one carries the next fragment
\* of its command; its count is 0 in the last one only, as no message is too long for it.
LEMMA FrameFits ==
  ASSUME LoopTypes, Commands, cmd # << >>, NEW pad \in Garbage, NEW f \in Frames,
         \A n \in 1 .. N - 1 : f[n] = Frame(pad)[n]
  PROVE  /\ Fits(typed, f, Cut, start)
         /\ Behind(typed, Cut, start) = IF End = Len(cmd) THEN <<Cut + 1, 0>> ELSE <<Cut, End>>
<1> DEFINE M == Len(cmd)
           E == End
           ts == typed
           m == Cut
           F == Frame(pad)
<1>1. /\ cmd \in Seq(Byte) /\ start \in Nat /\ start < M /\ ts \in Seq(Texts)
      /\ m \in 1 .. Len(ts) /\ cmd = TextOf(ts, m)
  BY DEF LoopTypes, Commands
<1>2. /\ E \in start + 1 .. M /\ E - start \in 1 .. PAYLOAD
      /\ E # M => E = start + PAYLOAD
      /\ F[1] = ByteOf[(M - E) % REM] /\ F[2] = ByteOf[E - start]
      /\ \A k \in 1 .. E - start : F[k + 2] = cmd[start + k]
  BY <1>1, FrameParts
<1>3. M \in Nat /\ M < REM + PAYLOAD
  BY <1>1, TextFacts, LenProperties
<1>4. PAYLOAD \in Nat \ {0} /\ REM \in Nat /\ PAYLOAD < REM /\ N = PAYLOAD + 3
  BY PathAssumption
<1>5. E = IF start + PAYLOAD > M THEN M ELSE start + PAYLOAD
  BY DEF End
<1>6. Stop(ts, m, start) = E
  BY <1>1, <1>5 DEF Stop
<1>7. \A k \in 1 .. M : cmd[k] \in Byte
  BY <1>1, ElementOfSeq
<1> HIDE DEF M, E, F, ts, m
<1>8. /\ f[1] = F[1] /\ f[2] = F[2]
      /\ \A k \in 1 .. E - start : f[k + 2] = F[k + 2]
  <2>1. 1 \in 1 .. N - 1 /\ 2 \in 1 .. N - 1 /\ \A k \in 1 .. E - start : k + 2 \in 1 .. N - 1
    <3> DEFINE n == E - start
    <3>1. n \in 1 .. PAYLOAD /\ PAYLOAD \in Nat /\ N - 1 = PAYLOAD + 2
      BY <1>2, <1>4
    <3> HIDE DEF n
    <3>2. 1 \in 1 .. N - 1 /\ 2 \in 1 .. N - 1 /\ \A k \in 1 .. n : k + 2 \in 1 .. N - 1
      BY <3>1
    <3> QED  BY <3>2 DEF n
  <2> QED  BY <2>1 DEF F
<1>9. NumOf(f[2]) = E - start
  <2>1. E - start \in 0 .. REM - 1  BY <1>1, <1>2, <1>3, <1>4
  <2> QED  BY <1>2, <1>8, <2>1, ByteNum
<1>10. Remaining(f) = M - E
  <2>1. M - E \in 0 .. REM - 1  BY <1>1, <1>2, <1>3, <1>4
  <2>2. (M - E) % REM = M - E  BY <1>4, <2>1
  <2>3. NumOf(ByteOf[M - E]) = M - E  BY <2>1, ByteNum
  <2> QED  BY <1>2, <1>8, <2>2, <2>3 DEF Remaining
<1> DEFINE n == E - start
<1>11. n \in Nat \ {0} /\ \A k \in 1 .. n : f[k + 2] = cmd[start + k] /\ cmd[start + k] \in Byte
  <2>1. \A k \in 1 .. n : start + k \in 1 .. M  BY <1>1, <1>2, <1>3
  <2> QED  BY <1>1, <1>2, <1>3, <1>7, <1>8, <2>1
<1> HIDE DEF n
<1>12. /\ Data(f) \in Seq(Byte) /\ Len(Data(f)) = n
       /\ \A k \in 1 .. n : Data(f)[k] = cmd[start + k]
  <2> DEFINE b == 2 + n
             z == SubSeq(f, 3, b)
  <2>1. Data(f) = z  BY <1>9 DEF Data, n
  <2>2. \A k \in 3 .. b : f[k] \in Byte
    <3> SUFFICES ASSUME NEW k \in 3 .. 2 + n PROVE f[k] \in Byte
      OBVIOUS
    <3>1. k - 2 \in 1 .. n /\ k - 2 + 2 = k  BY <1>11
    <3> QED  BY <1>11, <3>1
  <2>3. 3 \in Int /\ b \in Int /\ b = 2 + n  BY <1>11
  <2> HIDE DEF b
  <2>4. /\ z \in Seq(Byte)
        /\ Len(z) = IF 3 <= b THEN b - 3 + 1 ELSE 0
        /\ \A k \in 1 .. b - 3 + 1 : z[k] = f[3 + k - 1]
    BY <2>2, <2>3, SubSeqProperties
  <2> HIDE DEF z
  <2>5. b - 3 + 1 = n /\ 3 <= b /\ \A k \in 1 .. n : 3 + k - 1 = k + 2
    BY <1>11, <2>3
  <2>6. z \in Seq(Byte) /\ Len(z) = n /\ \A k \in 1 .. n : z[k] = f[k + 2]
    BY <2>4, <2>5
  <2> QED  BY <1>11, <2>1, <2>6
<1>13. Remaining(f) = 0 <=> E = M
  BY <1>1, <1>2, <1>3, <1>10
<1>14. Fits(ts, f, m, start)
  <2>1. Len(TextOf(ts, m)) = M  BY <1>1 DEF M
  <2> QED  BY <1>1, <1>6, <1>12, <1>13, <2>1 DEF Fits, n
<1>15. Behind(ts, m, start) = IF E = M THEN <<m + 1, 0>> ELSE <<m, E>>
  <2>1. Len(TextOf(ts, m)) = M  BY <1>1 DEF M
  <2> QED  BY <1>6, <2>1 DEF Behind
<1> QED  BY <1>14, <1>15 DEF ts, m, M, E

\* The lists and the window at this point.
LEMMA WaitingType ==
  ASSUME PathTypes
  PROVE  /\ Held \in [Lists -> Seq(Values)]
         /\ Held["received"] \in Seq(Frames) /\ Held["buffered"] \in Seq(Frames)
         /\ Held["input"] \in Seq(Texts) /\ slot \in {NULL} \cup Frames
         /\ typed \in Seq(Texts) /\ Len(typed) \in Nat /\ Waiting \in Seq(Frames)
         /\ "received" \in Lists /\ "buffered" \in Lists /\ "input" \in Lists
         /\ "outgoing" \in Lists /\ "incoming" \in Lists
<1>1. /\ Held \in [Lists -> Seq(Values)]
      /\ Held["received"] \in Seq(Frames) /\ Held["buffered"] \in Seq(Frames)
      /\ Held["input"] \in Seq(Texts) /\ slot \in {NULL} \cup Frames
      /\ typed \in Seq(Texts)
      /\ "received" \in Lists /\ "buffered" \in Lists /\ "input" \in Lists
      /\ "outgoing" \in Lists /\ "incoming" \in Lists
  BY ListNames DEF PathTypes, LoopTypes, ListsTyped, Good, Held
<1>2. Waiting \in Seq(Frames)
  BY <1>1, QueueMoves DEF Waiting
<1> QED  BY <1>1, <1>2, LenProperties

\* A step that moves no frame of the queue past either end of it.
LEMMA Quiet ==
  ASSUME PathInv, UNCHANGED <<typed, printed, left, msg, cmd, start>>,
         Held'["input"] = Held["input"], Waiting' = Waiting,
         left = 0 \/ Held'["received"] = Held["received"]
  PROVE  Commands' /\ Assembling' /\ Printing' /\ Stream(typed, Waiting, Reader, Writer)'
<1>1. Commands /\ Assembling /\ Printing /\ Stream(typed, Waiting, Reader, Writer)
  BY DEF PathInv
<1>2. Cut' = Cut  BY DEF Cut
<1>3. Commands'  BY <1>1, <1>2 DEF Commands
<1>4. Assembling'
  <2>1. CASE left = 0
    <3>1. left \in Nat /\ ~(left > 0)  BY <2>1
    <3> QED  BY <1>1, <2>1, <3>1 DEF Assembling
  <2>2. CASE Held'["received"] = Held["received"]
    BY <1>1, <2>2 DEF Assembling
  <2> QED  BY <2>1, <2>2
<1>5. Printing'  BY <1>1 DEF Printing
<1>6. Reader' = Reader /\ Writer' = Writer  BY <1>2 DEF Reader, Writer
<1>7. Stream(typed, Waiting, Reader, Writer)'
  BY <1>1, <1>6
<1> QED  BY <1>3, <1>4, <1>5, <1>7

-----------------------------------------------------------------------------

\* At the start.
LEMMA InitPathInv == PathInit => PathInv
<1> SUFFICES ASSUME PathInit PROVE PathInv
  OBVIOUS
<1>1. PathTypes  BY InitTypes
<1>2. /\ \A l \in Lists : Held[l] = << >>
      /\ typed = << >> /\ printed = << >> /\ msg = << >> /\ cmd = << >> /\ left = 0
      /\ slot = NULL /\ call = "none"
  BY EmptyGood DEF PathInit, CrcInit, Held
<1>3. Held["input"] = << >> /\ Held["received"] = << >> /\ Held["buffered"] = << >> /\ Len(<< >>) = 0
  BY <1>1, <1>2, WaitingType, EmptySeq
<1>4. Cut = 0  BY <1>2, <1>3 DEF Cut
<1>5. Commands  BY <1>2, <1>3, <1>4 DEF Commands
<1>6. Making  BY <1>2 DEF Making
<1>7. Assembling  BY <1>2, <1>3, EmptySeq DEF Assembling
<1>8. Printing  BY <1>2, <1>3, EmptySeq DEF Printing
<1>9. Waiting = << >>
  <2>1. << >> \in Seq(Frames)  BY EmptySeq
  <2>2. << >> \o << >> = << >>  BY <2>1, ConcatEmptySeq
  <2> QED  BY <1>2, <1>3, <2>2 DEF Waiting, Queue
<1>10. Stream(typed, Waiting, Reader, Writer)
  <2> DEFINE at == [k \in 1 .. 1 |-> <<1, 0>>]
  <2>1. at \in [1 .. 1 -> Nat \X Nat] /\ at[1] = <<1, 0>>  OBVIOUS
  <2>2. Reader = <<1, 0>> /\ Writer = <<1, 0>>
    BY <1>2, <1>3, <1>4 DEF Reader, Writer
  <2>3. Len(Waiting) = 0  BY <1>3, <1>9
  <2> HIDE DEF at
  <2>4. Carries(typed, Waiting, at)  BY <2>3 DEF Carries
  <2>5. Len(Waiting) + 1 = 1  BY <2>3
  <2> QED  BY <2>1, <2>2, <2>4, <2>5 DEF Stream
<1> QED  BY <1>1, <1>5, <1>6, <1>7, <1>8, <1>10 DEF PathInv

\* A message is typed.
LEMMA TypeStep ==
  ASSUME PathInv, PathTypes', NEW t \in Texts, Type(t)
  PROVE  PathInv'
<1>1. /\ PathTypes /\ Commands /\ Making /\ Assembling /\ Printing
      /\ Stream(typed, Waiting, Reader, Writer)
  BY DEF PathInv
<1>2. /\ typed' = Append(typed, t) /\ left' = left /\ msg' = msg /\ slot' = slot /\ cmd' = cmd
      /\ start' = start /\ pc = "main" /\ printed' = printed /\ UNCHANGED crc_vars
  BY DEF Type, reasm
<1>3. Held' = Appended(Held, "input", t)
  BY <1>1, TypeLists
<1>4. /\ Held'["input"] = Append(Held["input"], t)
      /\ Held'["received"] = Held["received"] /\ Held'["buffered"] = Held["buffered"]
      /\ typed \in Seq(Texts) /\ Len(typed) \in Nat /\ Waiting \in Seq(Frames)
      /\ Held["input"] \in Seq(Texts) /\ Len(Held["input"]) \in Nat
  BY <1>1, <1>3, WaitingType, LenProperties DEF Appended
<1>5. /\ Len(typed') = Len(typed) + 1 /\ typed' \in Seq(Texts)
      /\ \A n \in 1 .. Len(typed) : typed'[n] = typed[n]
      /\ typed'[Len(typed) + 1] = t
      /\ Len(Held'["input"]) = Len(Held["input"]) + 1
      /\ \A n \in 1 .. Len(Held["input"]) : Held'["input"][n] = Held["input"][n]
      /\ Held'["input"][Len(Held["input"]) + 1] = t
  BY <1>2, <1>4, AppendProperties
<1>6. Cut' = Cut
  BY <1>4, <1>5 DEF Cut
<1>7. Waiting' = Waiting
  BY <1>2, <1>4 DEF Waiting
<1>8. left = 0 /\ msg = << >> /\ left \in Nat
  <2>1. left \in Nat /\ ~(left > 0)  BY <1>1, <1>2 DEF PathTypes, LoopPhases
  <2> QED  BY <1>1, <2>1 DEF Assembling
<1>9. Commands'
  <2>1. Cut \in Nat /\ \A k \in 1 .. Len(Held["input"]) : Held["input"][k] = typed[Cut + k]
    BY <1>1 DEF Commands
  <2>2. Cut + Len(Held["input"]) = Len(typed)  BY <1>4, <2>1 DEF Cut
  <2>3. ASSUME NEW k \in 1 .. Len(Held["input"]) + 1 PROVE Held'["input"][k] = typed'[Cut + k]
    <3>1. CASE k \in 1 .. Len(Held["input"])
      <4>1. Cut + k \in 1 .. Len(typed)  BY <1>4, <2>1, <2>2, <3>1
      <4> QED  BY <1>5, <2>1, <3>1, <4>1
    <3>2. CASE k = Len(Held["input"]) + 1
      <4>1. Cut + k = Len(typed) + 1  BY <1>4, <2>1, <2>2, <3>2
      <4> QED  BY <1>5, <3>2, <4>1
    <3> QED  BY <1>4, <3>1, <3>2
  <2>4. ASSUME cmd # << >> PROVE Cut \in 1 .. Len(typed') /\ cmd = TextOf(typed', Cut)
    <3>1. Cut \in 1 .. Len(typed) /\ cmd = TextOf(typed, Cut)  BY <1>1, <2>4 DEF Commands
    <3>2. TextOf(typed', Cut) = TextOf(typed, Cut)  BY <1>5, <3>1 DEF TextOf
    <3> QED  BY <1>4, <1>5, <3>1, <3>2
  <2> QED  BY <1>2, <1>5, <1>6, <2>1, <2>3, <2>4 DEF Commands
<1>10. Making'
  BY <1>1, <1>2 DEF Making, crc_vars, Frame, End
<1>11. Assembling'
  BY <1>2, <1>8, EmptySeq DEF Assembling
<1>12. Printing'
  <2>1. Len(printed) \in Nat  BY <1>1, LenProperties DEF Printing
  <2> QED  BY <1>1, <1>2, <1>4, <1>5, <2>1 DEF Printing
<1>13. Reader' = Reader /\ Writer' = Writer
  BY <1>2, <1>6 DEF Reader, Writer
<1>14. Stream(typed, Waiting, Reader, Writer)'
  <2>1. Stream(Append(typed, t), Waiting, Reader, Writer)  BY <1>1, <1>4, StreamTyped
  <2> QED  BY <1>2, <1>7, <1>13, <2>1
<1> QED  BY <1>9, <1>10, <1>11, <1>12, <1>14 DEF PathInv

\* handle_input_cmds takes up the next command.
LEMMA PopCommandStep ==
  ASSUME PathInv, PathTypes', PopCommand
  PROVE  PathInv'
<1>1. /\ PathTypes /\ Commands /\ Making /\ Assembling /\ Printing
      /\ Stream(typed, Waiting, Reader, Writer)
  BY DEF PathInv
<1>2. /\ typed' = typed /\ left' = left /\ msg' = msg /\ slot' = slot /\ cmd = << >>
      /\ cmd' = Append(PeekNode(lists, "input"), {}) /\ start' = 0
      /\ printed' = printed /\ UNCHANGED crc_vars
  BY DEF PopCommand, reasm
<1>3. /\ Held' = Popped(Held, "input") /\ Held["input"] # << >>
      /\ PeekNode(lists, "input") = Head(Held["input"])
  BY <1>1, PopCommandLists
<1>4. /\ Held'["input"] = Tail(Held["input"])
      /\ Held'["received"] = Held["received"] /\ Held'["buffered"] = Held["buffered"]
      /\ typed \in Seq(Texts) /\ Len(typed) \in Nat
      /\ Held["input"] \in Seq(Texts) /\ Len(Held["input"]) \in Nat \ {0}
  BY <1>1, <1>3, WaitingType, EmptySeq DEF Popped
<1>5. /\ Len(Held'["input"]) = Len(Held["input"]) - 1
      /\ \A k \in 1 .. Len(Held["input"]) - 1 : Held'["input"][k] = Held["input"][k + 1]
      /\ Head(Held["input"]) = Held["input"][1]
  <2> DEFINE q == Held["input"]
  <2>1. q \in Seq(Texts) /\ q # << >> /\ Held'["input"] = Tail(q) /\ Head(q) = q[1]
    BY <1>3, <1>4
  <2> HIDE DEF q
  <2>2. Len(Tail(q)) = Len(q) - 1 /\ \A k \in 1 .. Len(Tail(q)) : Tail(q)[k] = q[k + 1]
    BY <2>1, HeadTailProperties
  <2> QED  BY <2>1, <2>2 DEF q
<1>6. Cut' = Cut + 1 /\ Cut \in Nat /\ Cut + Len(Held["input"]) = Len(typed)
      /\ \A k \in 1 .. Len(Held["input"]) : Held["input"][k] = typed[Cut + k]
  <2>1. Cut \in Nat /\ \A k \in 1 .. Len(Held["input"]) : Held["input"][k] = typed[Cut + k]
    BY <1>1 DEF Commands
  <2>2. Cut' = Len(typed) - (Len(Held["input"]) - 1)  BY <1>2, <1>5 DEF Cut
  <2>3. Cut = Len(typed) - Len(Held["input"])  BY DEF Cut
  <2>4. Len(typed) \in Nat /\ Len(Held["input"]) \in Nat  BY <1>4
  <2>5. Cut' = Cut + 1 /\ Cut + Len(Held["input"]) = Len(typed)  BY <2>2, <2>3, <2>4
  <2> QED  BY <2>1, <2>5
<1>7. Waiting' = Waiting
  BY <1>2, <1>4 DEF Waiting
<1>8. cmd' = TextOf(typed, Cut + 1) /\ cmd' # << >> /\ Cut + 1 \in 1 .. Len(typed)
  <2>1. 1 \in 1 .. Len(Held["input"]) /\ Cut + 1 \in 1 .. Len(typed)  BY <1>4, <1>6
  <2>2. cmd' = TextOf(typed, Cut + 1)  BY <1>2, <1>3, <1>5, <1>6, <2>1 DEF TextOf
  <2> QED  BY <1>4, <2>1, <2>2, TextFacts
<1>9. Commands'
  <2>1. ASSUME NEW k \in 1 .. Len(Held["input"]) - 1 PROVE Held'["input"][k] = typed[Cut + 1 + k]
    <3>1. k + 1 \in 1 .. Len(Held["input"]) /\ Cut + 1 + k = Cut + (k + 1)  BY <1>4, <1>6
    <3> QED  BY <1>5, <1>6, <3>1
  <2> QED  BY <1>2, <1>5, <1>6, <1>8, <2>1 DEF Commands
<1>10. Making'
  <2>1. call \notin {"set", "test"}  BY <1>1, <1>2 DEF PathTypes, LoopPhases
  <2> QED  BY <1>1, <1>2, <2>1 DEF Making, crc_vars
<1>11. Assembling'
  BY <1>1, <1>2, <1>4 DEF Assembling
<1>12. Printing'
  BY <1>1, <1>2 DEF Printing
<1>13. Reader' = Reader /\ Writer' = Writer
  <2>1. Writer = <<Cut + 1, 0>>  BY <1>2 DEF Writer
  <2>2. Writer' = <<Cut + 1, 0>>  BY <1>2, <1>6, <1>8 DEF Writer
  <2> QED  BY <1>2, <2>1, <2>2 DEF Reader
<1>14. Stream(typed, Waiting, Reader, Writer)'
  BY <1>1, <1>2, <1>7, <1>13
<1> QED  BY <1>9, <1>10, <1>11, <1>12, <1>14 DEF PathInv

\* The frame that has been tested joins the queue.
LEMMA QueueFrameStep ==
  ASSUME PathInv, PathTypes', QueueFrame
  PROVE  PathInv'
<1>1. /\ PathTypes /\ Commands /\ Making /\ Assembling /\ Printing
      /\ Stream(typed, Waiting, Reader, Writer)
  BY DEF PathInv
<1>2. /\ typed' = typed /\ left' = left /\ msg' = msg /\ slot' = slot
      /\ start' = End /\ cmd' = IF End = Len(cmd) THEN << >> ELSE cmd
      /\ printed' = printed
  BY DEF QueueFrame, reasm
<1>3. Held' = Appended(Held, "buffered", buf) /\ buf \in Frames
  BY <1>1, QueueFrameLists
<1>4. /\ Held'["buffered"] = Append(Held["buffered"], buf)
      /\ Held'["received"] = Held["received"] /\ Held'["input"] = Held["input"]
      /\ Held["received"] \in Seq(Frames) /\ Held["buffered"] \in Seq(Frames)
      /\ slot \in {NULL} \cup Frames /\ typed \in Seq(Texts) /\ Waiting \in Seq(Frames)
  BY <1>1, <1>3, WaitingType DEF Appended
<1>5. Cut' = Cut  BY <1>2, <1>4 DEF Cut
<1>6. Waiting' = Append(Waiting, buf)
  <2>1. Waiting' = Queue(Held["received"], slot, Append(Held["buffered"], buf))
    BY <1>2, <1>4 DEF Waiting
  <2>2. /\ Held["received"] \in Seq(Frames) /\ slot \in {NULL} \cup Frames
        /\ Held["buffered"] \in Seq(Frames) /\ buf \in Frames
    BY <1>3, <1>4
  <2>3. Queue(Held["received"], slot, Append(Held["buffered"], buf))
          = Append(Queue(Held["received"], slot, Held["buffered"]), buf)
    BY <2>2, QueueMoves
  <2> QED  BY <2>1, <2>3 DEF Waiting
<1>7. call = "test" /\ call' = "none"  BY <1>1, CallAfter
<1>8. cmd # << >> /\ LoopTypes  BY <1>1, <1>7 DEF PathTypes, LoopPhases
<1>9. /\ Fits(typed, buf, Cut, start)
      /\ Behind(typed, Cut, start) = IF End = Len(cmd) THEN <<Cut + 1, 0>> ELSE <<Cut, End>>
  <2>1. PICK pad \in Garbage : \A n \in 1 .. N - 1 : buf[n] = Frame(pad)[n]
    BY <1>1, <1>7 DEF Making
  <2> QED  BY <1>1, <1>3, <1>8, <2>1, FrameFits
<1>10. Writer = <<Cut, start>> /\ Writer' = Behind(typed, Cut, start)
  <2>1. Writer = <<Cut, start>>  BY <1>8 DEF Writer
  <2>2. CASE End = Len(cmd)
    BY <1>2, <1>5, <1>9, <2>1, <2>2 DEF Writer
  <2>3. CASE End # Len(cmd)
    BY <1>2, <1>5, <1>8, <1>9, <2>1, <2>3 DEF Writer
  <2> QED  BY <2>1, <2>2, <2>3
<1>11. Stream(typed, Waiting, Reader, Writer)'
  <2>1. Stream(typed, Waiting, Reader, <<Cut, start>>)  BY <1>1, <1>10
  <2>2. Stream(typed, Append(Waiting, buf), Reader, Behind(typed, Cut, start))
    BY <1>3, <1>4, <1>9, <2>1, StreamQueued
  <2>3. Reader' = Reader  BY <1>2 DEF Reader
  <2> QED  BY <1>2, <1>6, <1>10, <2>2, <2>3
<1>12. Commands'
  BY <1>1, <1>2, <1>4, <1>5 DEF Commands
<1>13. Making'  BY <1>7 DEF Making
<1>14. Assembling'  BY <1>1, <1>2, <1>4 DEF Assembling
<1>15. Printing'  BY <1>1, <1>2 DEF Printing
<1> QED  BY <1>11, <1>12, <1>13, <1>14, <1>15 DEF PathInv

\* handle_outgoing_frames moves a frame from the list to the window, or leaves both alone.
LEMMA HandleOutgoingStep ==
  ASSUME PathInv, PathTypes', HandleOutgoing
  PROVE  PathInv'
<1>1. PathTypes /\ Making /\ pc = "outgoing"  BY DEF PathInv, HandleOutgoing
<1>2. UNCHANGED <<typed, printed, left, msg, cmd, start>> /\ UNCHANGED crc_vars
  BY DEF HandleOutgoing, reasm
<1>3. /\ Held \in [Lists -> Seq(Values)]
      /\ Held["received"] \in Seq(Frames) /\ Held["buffered"] \in Seq(Frames)
      /\ "received" \in Lists /\ "buffered" \in Lists /\ "input" \in Lists /\ "outgoing" \in Lists
      /\ slot \in {NULL} \cup Frames
  BY <1>1, WaitingType
<1>4. /\ Held'["input"] = Held["input"] /\ Held'["received"] = Held["received"]
      /\ Waiting' = Waiting
  <2>1. CASE slot' = slot /\ Held' = Appended(Held, "outgoing", slot)
    <3>1. /\ Held'["input"] = Held["input"] /\ Held'["received"] = Held["received"]
          /\ Held'["buffered"] = Held["buffered"]
      BY <1>3, <2>1 DEF Appended
    <3> QED  BY <2>1, <3>1 DEF Waiting
  <2>2. CASE /\ slot = NULL /\ Held["buffered"] # << >> /\ slot' = Head(Held["buffered"])
             /\ Held' = Appended(Popped(Held, "buffered"), "outgoing", slot')
    <3>1. /\ DOMAIN Popped(Held, "buffered") = Lists
          /\ \A l \in Lists : Popped(Held, "buffered")[l]
               = IF l = "buffered" THEN Tail(Held["buffered"]) ELSE Held[l]
      BY <1>3, HeldOther
    <3>2. /\ Held'["input"] = Held["input"] /\ Held'["received"] = Held["received"]
          /\ Held'["buffered"] = Tail(Held["buffered"])
      BY <1>3, <2>2, <3>1 DEF Appended
    <3>3. Waiting' = Queue(Held["received"], Head(Held["buffered"]), Tail(Held["buffered"]))
      BY <2>2, <3>2 DEF Waiting
    <3>4. Waiting = Queue(Held["received"], NULL, Held["buffered"])
      BY <2>2 DEF Waiting
    <3> QED  BY <1>3, <2>2, <3>2, <3>3, <3>4, QueueMoves
  <2>3. CASE slot' = slot /\ lists' = lists
    BY <2>3 DEF Waiting, Held
  <2> QED  BY <1>1, <2>1, <2>2, <2>3, HandleOutgoingLists
<1>5. Making'
  <2>1. call' = call /\ call \notin {"set", "test", "receive"}
    BY <1>1, <1>2 DEF PathTypes, LoopPhases, crc_vars
  <2> QED  BY <2>1 DEF Making
<1>6. Commands' /\ Assembling' /\ Printing' /\ Stream(typed, Waiting, Reader, Writer)'
  BY <1>2, <1>4, Quiet
<1> QED  BY <1>5, <1>6 DEF PathInv

\* handle_incoming_frames keeps the frame that was in the window, or drops a changed one.
LEMMA TakeFrameStep ==
  ASSUME PathInv, PathTypes', TakeFrame
  PROVE  PathInv'
<1>1. PathTypes /\ Making  BY DEF PathInv
<1>2. UNCHANGED <<typed, printed, left, msg, cmd, start>> /\ Received
  BY DEF TakeFrame, reasm
<1>3. call = "receive" /\ call' = "none" /\ left = 0
  <2>1. call = "receive" /\ call' = "none"  BY <1>1, CallAfter
  <2>2. left \in Nat /\ ~(left > 0)  BY <1>1, <2>1 DEF PathTypes, LoopPhases
  <2> QED  BY <2>1, <2>2
<1>4. Held'["input"] = Held["input"] /\ Waiting' = Waiting
  <2>1. CASE remainder = {}
    <3>1. Held' = Appended(Held, "received", buf) /\ buf \in Frames /\ slot' = NULL
      BY <1>1, <2>1, TakeFrameLists DEF TakeFrame
    <3>2. /\ Held'["received"] = Append(Held["received"], buf)
          /\ Held'["input"] = Held["input"] /\ Held'["buffered"] = Held["buffered"]
          /\ Held["received"] \in Seq(Frames) /\ Held["buffered"] \in Seq(Frames)
          /\ slot \in {NULL} \cup Frames
      BY <1>1, <3>1, WaitingType DEF Appended
    <3>3. buf = slot /\ slot # NULL
      <4>1. base = slot  BY <1>1, <1>3 DEF Making
      <4>2. CorruptionDetected  BY <1>1, ReceivedValid DEF PathTypes
      <4>3. buf = base  BY <1>2, <1>3, <2>1, <4>2 DEF CorruptionDetected, Received
      <4> QED  BY <3>1, <4>1, <4>3, PathAssumption
    <3>4. Waiting' = Queue(Append(Held["received"], slot), NULL, Held["buffered"])
      BY <3>1, <3>2, <3>3 DEF Waiting
    <3> QED  BY <3>2, <3>3, <3>4, QueueMoves DEF Waiting
  <2>2. CASE remainder # {}
    <3>1. lists' = lists /\ slot' = slot  BY <2>2 DEF TakeFrame
    <3> QED  BY <3>1 DEF Waiting, Held
  <2> QED  BY <2>1, <2>2
<1>5. Making'  BY <1>3 DEF Making
<1>6. Commands' /\ Assembling' /\ Printing' /\ Stream(typed, Waiting, Reader, Writer)'
  BY <1>2, <1>3, <1>4, Quiet
<1> QED  BY <1>5, <1>6 DEF PathInv

\* A frame is moved over the link, and its checksum computed: the queue stays as it is.
LEMMA OtherSteps ==
  ASSUME PathInv, PathTypes',
         InputDone \/ Fragment \/ Checksum \/ CommandsDone \/ SendFrame \/ PopIncoming
           \/ UNCHANGED path_vars
  PROVE  PathInv'
<1>1. PathTypes /\ Making  BY DEF PathInv
<1>2. UNCHANGED <<typed, printed, left, msg, cmd, start>> /\ slot' = slot
  BY DEF InputDone, Fragment, Checksum, CommandsDone, SendFrame, PopIncoming, path_vars, reasm
<1>3. /\ Held \in [Lists -> Seq(Values)]
      /\ "received" \in Lists /\ "buffered" \in Lists /\ "input" \in Lists
      /\ "outgoing" \in Lists /\ "incoming" \in Lists
  BY <1>1, WaitingType
<1>4. /\ Held'["input"] = Held["input"] /\ Held'["received"] = Held["received"]
      /\ Held'["buffered"] = Held["buffered"]
  <2>1. CASE SendFrame
    <3>1. PICK f \in Frames : Held' = Appended(Popped(Held, "outgoing"), "incoming", f)
      BY <1>1, <2>1, SendFrameLists
    <3>2. /\ DOMAIN Popped(Held, "outgoing") = Lists
          /\ \A l \in Lists : Popped(Held, "outgoing")[l]
               = IF l = "outgoing" THEN Tail(Held["outgoing"]) ELSE Held[l]
      BY <1>3, HeldOther
    <3> QED  BY <1>3, <3>1, <3>2 DEF Appended
  <2>2. CASE PopIncoming
    <3>1. Held' = Popped(Held, "incoming")  BY <1>1, <2>2, PopIncomingLists
    <3> QED  BY <1>3, <3>1, HeldOther
  <2>3. CASE InputDone \/ Fragment \/ Checksum \/ CommandsDone \/ UNCHANGED path_vars
    <3>1. lists' = lists
      BY <2>3 DEF InputDone, Fragment, Checksum, CommandsDone, path_vars
    <3> QED  BY <3>1 DEF Held
  <2> QED  BY <2>1, <2>2, <2>3
<1>5. Waiting' = Waiting
  BY <1>2, <1>4 DEF Waiting
<1>6. Making'
  <2>1. CASE InputDone \/ CommandsDone \/ SendFrame \/ UNCHANGED path_vars
    <3>1. UNCHANGED crc_vars
      BY <2>1 DEF InputDone, CommandsDone, SendFrame, path_vars, crc_vars
    <3> QED  BY <1>1, <1>2, <3>1 DEF Making, crc_vars, Frame, End
  <2>2. CASE Fragment
    <3>1. PICK pad \in Garbage : SetChecksum(Frame(pad))  BY <2>2 DEF Fragment
    <3>2. call' = "set" /\ buf' = [Frame(pad) EXCEPT ![N] = {}]
      BY <3>1 DEF SetChecksum, Compute
    <3>3. Frame(pad) \in Frames
      BY <1>1, <2>2, FrameParts DEF Fragment, PathTypes, LoopTypes
    <3>4. \A n \in 1 .. N - 1 : n \in 1 .. N /\ n # N
      BY CrcAssumption
    <3>5. \A n \in 1 .. N - 1 : buf'[n] = Frame(pad)[n]
      BY <3>2, <3>3, <3>4 DEF Frames
    <3>6. Frame(pad)' = Frame(pad)  BY <1>2 DEF Frame, End
    <3> QED  BY <3>2, <3>5, <3>6 DEF Making
  <2>3. CASE Checksum
    <3>1. \A n \in 1 .. N - 1 : buf'[n] = buf[n]
      <4>1. CASE NextBit  BY <4>1 DEF NextBit
      <4>2. CASE StoreChecksum
        <5>1. buf' = [buf EXCEPT ![N] = remainder]  BY <4>2 DEF StoreChecksum, Compute
        <5>2. buf \in Frames  BY <1>1 DEF PathTypes, IInv, CrcTypeOK
        <5>3. \A n \in 1 .. N - 1 : n \in 1 .. N /\ n # N
          BY CrcAssumption
        <5> QED  BY <5>1, <5>2, <5>3 DEF Frames
      <4> QED  BY <2>3, <4>1, <4>2 DEF Checksum
    <3>2. call # "none" /\ call' \in {call, "test"} /\ (call' # call => call = "set")
      BY <1>1, <2>3, CallAfter
    <3>3. call = "receive" => base' = base
      BY <2>3 DEF Checksum, NextBit, StoreChecksum
    <3>4. \A pad : Frame(pad)' = Frame(pad)  BY <1>2 DEF Frame, End
    <3>5. ASSUME call' \in {"set", "test"}
          PROVE  \E pad \in Garbage : \A n \in 1 .. N - 1 : buf'[n] = Frame(pad)[n]
      <4>1. call \in {"set", "test"}  BY <3>2, <3>5
      <4>2. PICK pad \in Garbage : \A n \in 1 .. N - 1 : buf[n] = Frame(pad)[n]
        BY <1>1, <4>1 DEF Making
      <4> QED  BY <3>1, <4>2
    <3>6. call' = "receive" => base' = slot'
      BY <1>1, <1>2, <3>2, <3>3 DEF Making
    <3> QED  BY <3>4, <3>5, <3>6 DEF Making
  <2>4. CASE PopIncoming
    <3>1. call' = "receive" /\ base' = slot
      <4>1. PICK p \in 0 .. N : Receive(slot, p)  BY <2>4 DEF PopIncoming
      <4> QED  BY <4>1 DEF Receive, Compute
    <3> QED  BY <1>2, <3>1 DEF Making
  <2> QED  BY <2>1, <2>2, <2>3, <2>4
<1>7. Commands' /\ Assembling' /\ Printing' /\ Stream(typed, Waiting, Reader, Writer)'
  BY <1>2, <1>4, <1>5, Quiet
<1> QED  BY <1>6, <1>7 DEF PathInv

\* reassemble_message finds the first frame with the count 0.
LEMMA FindMessageStep ==
  ASSUME PathInv, PathTypes', FindMessage
  PROVE  PathInv'
<1>1. /\ PathTypes /\ Commands /\ Making /\ Assembling /\ Printing
      /\ Stream(typed, Waiting, Reader, Writer)
  BY DEF PathInv
<1>2. /\ UNCHANGED <<typed, printed, msg, cmd, start, slot, lists>> /\ UNCHANGED crc_vars
      /\ left = 0
  BY DEF FindMessage
<1>3. /\ Held' = Held /\ "received" \in Lists
      /\ Length(lists, "received") = Len(Held["received"])
      /\ Contents(lists, "received") = Held["received"]
      /\ Len(Held["received"]) \in Nat
  <2>1. ListsTyped(lists) /\ "received" \in Lists /\ Held["received"] \in Seq(Frames)
    BY <1>1, WaitingType DEF PathTypes
  <2> QED  BY <1>2, <2>1, HeadHeld, LenProperties DEF Held
<1>4. Cut' = Cut /\ Waiting' = Waiting /\ Reader' = Reader /\ Writer' = Writer
  BY <1>2, <1>3 DEF Cut, Waiting, Reader, Writer
<1>5. Commands' /\ Printing' /\ Stream(typed, Waiting, Reader, Writer)'
  BY <1>1, <1>2, <1>3, <1>4 DEF Commands, Printing
<1>6. Making'
  BY <1>1, <1>2 DEF Making, crc_vars, Frame, End
<1>7. ASSUME left' > 0
      PROVE  /\ Remaining(Held["received"][left']) = 0
             /\ \A n \in 1 .. left' - 1 : Remaining(Held["received"][n]) # 0
  <2>1. Lasts = {k \in 1 .. Len(Held["received"]) : Remaining(Held["received"][k]) = 0}
    BY <1>3 DEF Lasts
  <2>2. left' \in Lasts /\ \A n \in Lasts : left' <= n
    BY <1>2, <1>7 DEF FindMessage
  <2>3. left' \in 1 .. Len(Held["received"]) /\ Remaining(Held["received"][left']) = 0
    BY <2>1, <2>2
  <2>4. ASSUME NEW n \in 1 .. left' - 1 PROVE Remaining(Held["received"][n]) # 0
    <3>1. n \in 1 .. Len(Held["received"]) /\ ~(left' <= n)  BY <1>3, <2>3
    <3> QED  BY <2>1, <2>2, <3>1
  <2> QED  BY <2>3, <2>4
<1>8. Assembling'
  BY <1>1, <1>2, <1>3, <1>7 DEF Assembling
<1> QED  BY <1>5, <1>6, <1>8 DEF PathInv

\* reassemble_message takes the first frame that is there; after the last one of a message
\* it is printed, and is the one that was typed.
LEMMA TakeDataStep ==
  ASSUME PathInv, PathTypes', TakeData
  PROVE  PathInv'
<1> DEFINE q == Held["received"]
           f == Head(q)
           ts == typed
           m == Len(printed) + 1
           s == Len(msg)
           all == msg \o Data(f)
           E == Stop(ts, m, s)
           M == Len(TextOf(ts, m))
<1>1. /\ PathTypes /\ Commands /\ Making /\ Assembling /\ Printing
      /\ Stream(ts, Waiting, <<m, s>>, Writer)
  BY DEF PathInv, Reader
<1>2. /\ UNCHANGED <<typed, cmd, start, slot, pc>> /\ UNCHANGED crc_vars
      /\ left > 0 /\ left' = left - 1
  BY DEF TakeData
<1>3. /\ Held' = Popped(Held, "received") /\ q # << >>
      /\ PeekNode(lists, "received") = f /\ f \in Frames
  BY <1>1, TakeDataLists
<1>4. /\ Held'["received"] = Tail(q) /\ Held'["input"] = Held["input"]
      /\ Held'["buffered"] = Held["buffered"]
      /\ q \in Seq(Frames) /\ Held["buffered"] \in Seq(Frames) /\ slot \in {NULL} \cup Frames
      /\ ts \in Seq(Texts) /\ Waiting \in Seq(Frames)
  <2>1. /\ Held \in [Lists -> Seq(Values)] /\ q \in Seq(Frames)
        /\ Held["buffered"] \in Seq(Frames) /\ slot \in {NULL} \cup Frames
        /\ ts \in Seq(Texts) /\ Waiting \in Seq(Frames)
        /\ "received" \in Lists /\ "buffered" \in Lists /\ "input" \in Lists
    BY <1>1, WaitingType
  <2> QED  BY <1>3, <2>1, HeldOther
<1>5. left \in Nat /\ pc = "reassemble" /\ left <= Len(q)
  BY <1>1, <1>2 DEF PathTypes, LoopPhases
<1>6. /\ Waiting # << >> /\ Head(Waiting) = f /\ Waiting' = Tail(Waiting)
  <2> HIDE DEF q
  <2>1. /\ Queue(q, slot, Held["buffered"]) # << >> /\ Head(Queue(q, slot, Held["buffered"])) = f
        /\ Queue(Tail(q), slot, Held["buffered"]) = Tail(Queue(q, slot, Held["buffered"]))
    BY <1>3, <1>4, QueueMoves
  <2>2. Waiting = Queue(q, slot, Held["buffered"])  BY DEF Waiting, q
  <2>3. Waiting' = Queue(Tail(q), slot, Held["buffered"])  BY <1>2, <1>4 DEF Waiting, q
  <2> QED  BY <2>1, <2>2, <2>3
<1>7. Fits(ts, f, m, s) /\ Stream(ts, Waiting', Behind(ts, m, s), Writer)
  <2> HIDE DEF f, ts, m, s
  <2>1. Fits(ts, Head(Waiting), m, s) /\ Stream(ts, Tail(Waiting), Behind(ts, m, s), Writer)
    BY <1>1, <1>4, <1>6, StreamTaken
  <2> QED  BY <1>6, <2>1
<1>8. /\ m \in 1 .. Len(ts) /\ s \in Nat /\ s < M /\ Data(f) \in Seq(Byte)
      /\ Len(Data(f)) = E - s
      /\ \A k \in 1 .. E - s : Data(f)[k] = TextOf(ts, m)[s + k]
      /\ Remaining(f) = 0 <=> E = M
      /\ msg \in Seq(Byte) /\ \A k \in 1 .. s : msg[k] = TextOf(ts, m)[k]
  BY <1>1, <1>7 DEF Fits, Assembling
<1>9. /\ printed' = IF left = 1 THEN Append(printed, Shown(all)) ELSE printed
      /\ msg' = IF left = 1 THEN << >> ELSE all
  BY <1>3 DEF TakeData
<1>10. TextOf(ts, m) \in Seq(Byte) /\ M \in Nat /\ Shown(TextOf(ts, m)) = ts[m] /\ ts[m] \in Texts
  <2> HIDE DEF m, ts
  <2>1. TextOf(ts, m) \in Seq(Byte) /\ ts[m] \in Texts /\ Shown(TextOf(ts, m)) = ts[m]
    BY <1>4, <1>8, TextFacts, ShownText
  <2> QED  BY <2>1, LenProperties
<1>11. E \in Nat /\ E <= M /\ s < E
  <2>1. PAYLOAD \in Nat \ {0}  BY PathAssumption
  <2>2. E = IF s + PAYLOAD > M THEN M ELSE s + PAYLOAD  BY DEF Stop
  <2> HIDE DEF E, M, s
  <2> QED  BY <1>8, <1>10, <2>1, <2>2
<1> HIDE DEF f, E, M, s, m, ts
<1>12. all \in Seq(Byte) /\ Len(all) = E /\ \A k \in 1 .. E : all[k] = TextOf(ts, m)[k]
  <2> DEFINE d == Data(f)
  <2>1. d \in Seq(Byte) /\ msg \in Seq(Byte) /\ Len(msg) = s /\ Len(d) = E - s
    BY <1>8 DEF s
  <2>2. /\ \A k \in 1 .. E - s : d[k] = TextOf(ts, m)[s + k]
        /\ \A k \in 1 .. s : msg[k] = TextOf(ts, m)[k]
    BY <1>8
  <2>3. all = msg \o d  OBVIOUS
  <2> HIDE DEF d, all
  <2>4. /\ msg \o d \in Seq(Byte) /\ Len(msg \o d) = Len(msg) + Len(d)
        /\ \A k \in 1 .. Len(msg) + Len(d) :
             (msg \o d)[k] = IF k <= Len(msg) THEN msg[k] ELSE d[k - Len(msg)]
    BY <2>1, ConcatProperties
  <2>5. Len(msg) + Len(d) = E  BY <1>8, <1>11, <2>1
  <2>6. ASSUME NEW k \in 1 .. E PROVE all[k] = TextOf(ts, m)[k]
    <3>1. all[k] = IF k <= s THEN msg[k] ELSE d[k - s]  BY <2>1, <2>3, <2>4, <2>5
    <3>2. CASE k <= s
      <4>1. k \in 1 .. s  BY <1>8, <3>2
      <4> QED  BY <2>2, <3>1, <3>2, <4>1
    <3>3. CASE ~(k <= s)
      <4>1. k - s \in 1 .. E - s /\ s + (k - s) = k  BY <1>8, <1>11, <3>3
      <4>2. d[k - s] = TextOf(ts, m)[s + (k - s)]  BY <2>2, <4>1
      <4> QED  BY <3>1, <3>3, <4>1, <4>2
    <3> QED  BY <3>2, <3>3
  <2> QED  BY <2>3, <2>4, <2>5, <2>6
<1> HIDE DEF all
<1>13. Commands'
  <2>1. Cut' = Cut  BY <1>2, <1>4 DEF Cut
  <2> QED  BY <1>1, <1>2, <1>4, <2>1 DEF Commands
<1>14. Making'
  BY <1>1, <1>2 DEF Making, crc_vars, Frame, End
<1>15. Writer' = Writer
  <2>1. Cut' = Cut  BY <1>2, <1>4 DEF Cut
  <2> QED  BY <1>2, <2>1 DEF Writer
<1>16. q[1] = f  BY DEF f
<1>17. CASE left = 1
  <2>1. Remaining(f) = 0 /\ E = M
    BY <1>1, <1>8, <1>16, <1>17 DEF Assembling
  <2>2. all = TextOf(ts, m)
    <3>1. Len(all) = Len(TextOf(ts, m)) /\ \A k \in 1 .. Len(all) : all[k] = TextOf(ts, m)[k]
      BY <1>12, <2>1 DEF M
    <3> QED  BY <1>10, <1>12, <3>1, SeqEqual
  <2>3. printed' = Append(printed, ts[m]) /\ msg' = << >> /\ left' = 0
    BY <1>2, <1>9, <1>10, <1>17, <2>2
  <2>4. /\ printed \in Seq(Texts) /\ Len(printed) \in Nat
        /\ \A n \in 1 .. Len(printed) : printed[n] = ts[n]
    BY <1>1, LenProperties DEF Printing, ts
  <2>5. /\ printed' \in Seq(Texts) /\ Len(printed') = Len(printed) + 1
        /\ \A n \in 1 .. Len(printed) : printed'[n] = printed[n]
        /\ printed'[Len(printed) + 1] = ts[m]
    BY <1>10, <2>3, <2>4, AppendProperties
  <2>6. Printing'
    <3>1. \A n \in 1 .. Len(printed) + 1 : printed'[n] = ts[n]
      BY <2>4, <2>5 DEF m
    <3>2. Len(printed') <= Len(ts)  BY <1>8, <2>5 DEF m
    <3> QED  BY <1>2, <2>5, <3>1, <3>2 DEF Printing, ts
  <2>7. Assembling'
    BY <2>3, EmptySeq DEF Assembling
  <2>8. Reader' = Behind(ts, m, s)
    <3>1. Behind(ts, m, s) = <<m + 1, 0>>  BY <2>1 DEF Behind, E, M
    <3>2. Len(msg') = 0  BY <2>3, EmptySeq
    <3> QED  BY <2>5, <3>1, <3>2 DEF Reader, m
  <2>9. Stream(typed, Waiting, Reader, Writer)'
    BY <1>2, <1>7, <1>15, <2>8 DEF ts
  <2> QED  BY <1>13, <1>14, <2>6, <2>7, <2>9 DEF PathInv
<1>18. CASE left # 1
  <2>1. left - 1 \in Nat /\ left - 1 > 0 /\ 1 \in 1 .. left - 1
    BY <1>2, <1>5, <1>18
  <2>2. Remaining(f) # 0 /\ E # M
    BY <1>1, <1>2, <1>8, <1>16, <2>1 DEF Assembling
  <2>3. printed' = printed /\ msg' = all
    BY <1>9, <1>18
  <2>4. Printing'  BY <1>1, <1>2, <2>3 DEF Printing
  <2>5. /\ Remaining(Tail(q)[left - 1]) = 0
        /\ \A n \in 1 .. left - 1 - 1 : Remaining(Tail(q)[n]) # 0
    <3>1. /\ Remaining(q[left]) = 0 /\ \A n \in 1 .. left - 1 : Remaining(q[n]) # 0
      BY <1>1, <1>2 DEF Assembling
    <3> HIDE DEF q
    <3>2. \A n \in 1 .. Len(q) - 1 : Tail(q)[n] = q[n + 1]
      BY <1>3, <1>4, HeadTailProperties
    <3>3. Len(q) \in Nat  BY <1>4, LenProperties
    <3>4. Tail(q)[left - 1] = q[left]
      <4>1. left - 1 \in 1 .. Len(q) - 1 /\ left - 1 + 1 = left  BY <1>5, <2>1, <3>3
      <4> QED  BY <3>2, <4>1
    <3>5. ASSUME NEW n \in 1 .. left - 1 - 1 PROVE Remaining(Tail(q)[n]) # 0
      <4>1. n \in 1 .. Len(q) - 1 /\ n + 1 \in 1 .. left - 1  BY <1>5, <2>1, <3>3
      <4> QED  BY <3>1, <3>2, <4>1
    <3> QED  BY <3>1, <3>4, <3>5
  <2>6. Assembling'
    <3>1. msg' \in Seq(Byte) /\ left' # 0  BY <1>2, <1>12, <2>1, <2>3
    <3>2. \A k \in 1 .. Len(msg') : msg'[k] = TextOf(typed', Len(printed') + 1)[k]
      BY <1>2, <1>12, <2>3 DEF ts, m
    <3>3. /\ Remaining(Held'["received"][left']) = 0
          /\ \A n \in 1 .. left' - 1 : Remaining(Held'["received"][n]) # 0
      BY <1>2, <1>4, <2>5
    <3>4. \A g : Remaining(g)' = Remaining(g)  BY DEF Remaining, NumOf
    <3> QED  BY <3>1, <3>2, <3>3 DEF Assembling
  <2>7. Reader' = Behind(ts, m, s)
    <3>1. Behind(ts, m, s) = <<m, E>>  BY <2>2 DEF Behind, E, M
    <3>2. Len(msg') = E  BY <1>12, <2>3
    <3> QED  BY <2>3, <3>1, <3>2 DEF Reader, m
  <2>8. Stream(typed, Waiting, Reader, Writer)'
    BY <1>2, <1>7, <1>15, <2>7 DEF ts
  <2> QED  BY <1>13, <1>14, <2>4, <2>6, <2>8 DEF PathInv
<1> QED  BY <1>17, <1>18

\* Every step keeps the invariant.
LEMMA PathStepInv == PathInv /\ [PathNext]_path_vars => PathInv'
<1> SUFFICES ASSUME PathInv, [PathNext]_path_vars PROVE PathInv'
  OBVIOUS
<1>1. PathTypes'  BY PathStepTypes DEF PathInv
<1>2. CASE \E t \in Texts : Type(t)  BY <1>1, <1>2, TypeStep
<1>3. CASE PopCommand  BY <1>1, <1>3, PopCommandStep
<1>4. CASE QueueFrame  BY <1>1, <1>4, QueueFrameStep
<1>5. CASE HandleOutgoing  BY <1>1, <1>5, HandleOutgoingStep
<1>6. CASE TakeFrame  BY <1>1, <1>6, TakeFrameStep
<1>7. CASE FindMessage  BY <1>1, <1>7, FindMessageStep
<1>8. CASE TakeData  BY <1>1, <1>8, TakeDataStep
<1>9. CASE InputDone \/ Fragment \/ Checksum \/ CommandsDone \/ SendFrame \/ PopIncoming
           \/ UNCHANGED path_vars
  BY <1>1, <1>9, OtherSteps
<1> QED  BY <1>2, <1>3, <1>4, <1>5, <1>6, <1>7, <1>8, <1>9 DEF PathNext, Main

\* What reassemble_message prints is what was typed, message by message, whole and in
\* order, for every length of a message that the count of remaining bytes can express and
\* whatever bytes the switch inverts.
THEOREM MessagesDeliveredWhole == PathSpec => []DeliveredWhole
<1>1. PathInv => DeliveredWhole
  <2> SUFFICES ASSUME PathInv PROVE DeliveredWhole
    OBVIOUS
  <2>1. /\ printed \in Seq(Texts) /\ Len(printed) <= Len(typed) /\ typed \in Seq(Texts)
        /\ \A n \in 1 .. Len(printed) : printed[n] = typed[n]
    BY DEF PathInv, Printing, PathTypes, LoopTypes
  <2> QED  BY <2>1 DEF DeliveredWhole, IsPrefix
<1> QED  BY <1>1, InitPathInv, PathStepInv, PTL DEF PathSpec
=============================================================================
