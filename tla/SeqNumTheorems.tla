--------------------------- MODULE SeqNumTheorems ---------------------------
(***************************************************************************)
(* Facts about the sequence-number arithmetic of SeqNum, the naturals and  *)
(* sequences, for the proofs of the transport modules.                     *)
(***************************************************************************)
EXTENDS SeqNum, SequencesExt, SequenceTheorems, WellFoundedInduction, TLAPS

\* The literal 127 splits the 256 values evenly (seq_num_diff).
LEMMA HalfFact == HALF \in Nat /\ MAX_SEQ_NUM = 2 * HALF + 1
  BY SeqNumAssumption DEF HALF

\* Incrementing a uint8_t yields a uint8_t.
LEMMA SeqAddType ==
  ASSUME NEW x \in SeqNums, NEW n \in 0 .. MAX_SEQ_NUM + 1
  PROVE  SeqAdd(x, n) \in SeqNums
  BY SeqNumAssumption DEF SeqAdd, SeqNums

\* Increments add up, across the wrap.
LEMMA SeqAddAdd ==
  ASSUME NEW x \in SeqNums, NEW m \in Nat, NEW n \in Nat,
         m + n <= MAX_SEQ_NUM + 1
  PROVE  SeqAdd(SeqAdd(x, m), n) = SeqAdd(x, m + n)
  BY SeqNumAssumption DEF SeqAdd, SeqNums

\* Fewer than MAX_SEQ_NUM + 1 increments never come back to the same number.
LEMMA SeqAddDistinct ==
  ASSUME NEW x \in SeqNums, NEW n \in 1 .. MAX_SEQ_NUM
  PROVE  SeqAdd(x, n) # x
  BY SeqNumAssumption DEF SeqAdd, SeqNums

\* seq_num_diff measures a distance of at most 127 exactly.
LEMMA DiffAhead ==
  ASSUME NEW x \in SeqNums, NEW n \in 0 .. HALF
  PROVE  SeqNumDiff(x, SeqAdd(x, n)) = n
  BY SeqNumAssumption, HalfFact DEF SeqNumDiff, SeqAdd, SeqNums

LEMMA DiffBehind ==
  ASSUME NEW x \in SeqNums, NEW n \in 0 .. HALF
  PROVE  SeqNumDiff(SeqAdd(x, n), x) = -n
  BY SeqNumAssumption, HalfFact DEF SeqNumDiff, SeqAdd, SeqNums

\* At distance 128 the sign of the result is arbitrary, the amount is not.
LEMMA DiffOpposite ==
  ASSUME NEW x \in SeqNums
  PROVE  SeqNumDiff(x, SeqAdd(x, HALF + 1)) \in {HALF + 1, -(HALF + 1)}
  BY SeqNumAssumption, HalfFact DEF SeqNumDiff, SeqAdd, SeqNums

\* A set of naturals has a least element.
LEMMA LeastNat ==
  ASSUME NEW T \in SUBSET Nat, T # {}
  PROVE  \E x \in T : \A y \in T : x <= y
<1>1. \E x \in T : \A y \in T : ~(y < x)
  <2> DEFINE R == OpToRel(<, Nat)
  <2>1. IsWellFoundedOn(R, Nat)
    BY NatLessThanWellFounded
  <2>2. PICK x \in T : \A y \in T : ~(<<y, x>> \in R)
    <3> HIDE DEF R
    <3> QED  BY <2>1, WFMin, Zenon
  <2> QED  BY <2>2 DEF OpToRel
<1> QED  BY <1>1

\* Min of the community modules finds it.
LEMMA MinNat ==
  ASSUME NEW T \in SUBSET Nat, T # {}
  PROVE  Min(T) \in T /\ \A y \in T : Min(T) <= y
<1>1. \E x \in T : \A y \in T : x <= y  BY LeastNat
<1> QED  BY <1>1 DEF Min

\* Induction, as a statement about a set.
LEMMA SetInduction ==
  ASSUME NEW T, 0 \in T, \A n \in Nat : n \in T => n + 1 \in T
  PROVE  Nat \subseteq T
<1> SUFFICES ASSUME Nat \ T # {} PROVE FALSE
  OBVIOUS
<1>1. PICK x \in Nat \ T : \A y \in Nat \ T : x <= y
  <2>1. Nat \ T \in SUBSET Nat  OBVIOUS
  <2> QED  BY <2>1, LeastNat
<1>2. x # 0 /\ x - 1 \in Nat  BY <1>1
<1>3. x - 1 \in T  BY <1>1, <1>2
<1>4. x - 1 + 1 \in T  BY <1>2, <1>3
<1> QED  BY <1>1, <1>2, <1>4

\* f starts with `first` and goes on by `step`, up to N.
Recurs(f, N, first, step) ==
  f = [n \in 0 .. N |-> IF n = 0 THEN first ELSE step[<<n, f[n - 1]>>]]

\* A function on 0 .. N may be defined by its first value and its steps.
LEMMA Recursion ==
  ASSUME NEW S, NEW N \in Nat, NEW first \in S, NEW step \in [(1 .. N) \X S -> S]
  PROVE  \E f \in [0 .. N -> S] : Recurs(f, N, first, step)
<1> DEFINE Body(f, m) == [n \in 0 .. m |-> IF n = 0 THEN first ELSE step[<<n, f[n - 1]>>]]
           T == {m \in Nat : m <= N => \E f \in [0 .. m -> S] : f = Body(f, m)}
<1>1. 0 \in T
  <2>1. [n \in 0 .. 0 |-> first] \in [0 .. 0 -> S]  OBVIOUS
  <2>2. [n \in 0 .. 0 |-> first] = Body([n \in 0 .. 0 |-> first], 0)  OBVIOUS
  <2> QED  BY <2>1, <2>2
<1>2. ASSUME NEW m \in Nat, m \in T, m + 1 <= N PROVE m + 1 \in T
  <2>1. PICK f \in [0 .. m -> S] : f = Body(f, m)  BY <1>2
  <2> DEFINE g == [n \in 0 .. m + 1 |-> IF n <= m THEN f[n] ELSE step[<<m + 1, f[m]>>]]
  <2>2. f[m] \in S /\ m + 1 \in 1 .. N  BY <1>2
  <2>3. step[<<m + 1, f[m]>>] \in S  BY <2>2
  <2>4. g \in [0 .. m + 1 -> S]  BY <2>3
  <2>5. ASSUME NEW n \in 0 .. m + 1 PROVE g[n] = Body(g, m + 1)[n]
    <3>1. CASE n = 0
      <4>1. f[0] = first  BY <2>1
      <4> QED  BY <3>1, <4>1
    <3>2. CASE n \in 1 .. m
      <4>1. f[n] = step[<<n, f[n - 1]>>]  BY <2>1, <3>2
      <4>2. n - 1 \in 0 .. m + 1 /\ n - 1 <= m /\ n <= m /\ n # 0  BY <3>2
      <4>3. g[n] = f[n] /\ g[n - 1] = f[n - 1]  BY <4>2
      <4>4. Body(g, m + 1)[n] = step[<<n, g[n - 1]>>]  BY <4>2
      <4> QED  BY <4>1, <4>3, <4>4
    <3>3. CASE n = m + 1
      <4>1. m \in 0 .. m + 1 /\ n # 0 /\ n - 1 = m /\ ~(n <= m)  BY <3>3
      <4>2. g[m] = f[m] /\ g[n] = step[<<n, f[m]>>]  BY <3>3, <4>1
      <4>3. Body(g, m + 1)[n] = step[<<n, g[n - 1]>>]  BY <4>1
      <4> QED  BY <4>1, <4>2, <4>3
    <3> QED  BY <3>1, <3>2, <3>3
  <2>6. g = Body(g, m + 1)
    <3>1. g = [n \in 0 .. m + 1 |-> g[n]]  OBVIOUS
    <3>2. Body(g, m + 1) = [n \in 0 .. m + 1 |-> Body(g, m + 1)[n]]  OBVIOUS
    <3> HIDE DEF g, Body
    <3> QED  BY <2>5, <3>1, <3>2, Zenon
  <2> HIDE DEF g, Body
  <2> QED  BY <2>4, <2>6
<1>3. \A m \in Nat : m \in T => m + 1 \in T
  BY <1>2
<1> HIDE DEF T
<1>4. N \in T
  BY <1>1, <1>3, SetInduction
<1> QED  BY <1>4 DEF T, Recurs
------------------------------------------------------------------------------
\* Removing the i-th item of a list keeps the others in order.
LEMMA RemoveAtProperties ==
  ASSUME NEW S, NEW s \in Seq(S), NEW i \in 1 .. Len(s)
  PROVE  /\ RemoveAt(s, i) \in Seq(S)
         /\ Len(RemoveAt(s, i)) = Len(s) - 1
         /\ \A j \in 1 .. Len(s) - 1 :
              RemoveAt(s, i)[j] = IF j < i THEN s[j] ELSE s[j + 1]
<1> DEFINE front == SubSeq(s, 1, i - 1)
           back  == SubSeq(s, i + 1, Len(s))
<1>1. Len(s) \in Nat /\ \A j \in 1 .. Len(s) : s[j] \in S
  BY LenProperties
<1>2. /\ front \in Seq(S) /\ Len(front) = i - 1
      /\ \A j \in 1 .. i - 1 : front[j] = s[j]
  <2>1. \A j \in 1 .. i - 1 : s[j] \in S  BY <1>1
  <2>2. i - 1 \in Int /\ (1 <= i - 1 \/ i - 1 = 0)  BY <1>1
  <2> QED  BY <2>1, <2>2, <1>1, SubSeqProperties
<1>3. /\ back \in Seq(S) /\ Len(back) = Len(s) - i
      /\ \A j \in 1 .. Len(s) - i : back[j] = s[i + j]
  <2>1. \A j \in i + 1 .. Len(s) : s[j] \in S  BY <1>1
  <2>2. i + 1 \in Int /\ Len(s) \in Int  BY <1>1
  <2>3. /\ back \in Seq(S)
        /\ Len(back) = IF i + 1 <= Len(s) THEN Len(s) - (i + 1) + 1 ELSE 0
        /\ \A j \in 1 .. Len(s) - (i + 1) + 1 : back[j] = s[i + 1 + j - 1]
    BY <2>1, <2>2, SubSeqProperties
  <2> QED  BY <2>3, <1>1
<1>4. RemoveAt(s, i) = front \o back
  BY DEF RemoveAt
<1> HIDE DEF front, back
<1>5. /\ front \o back \in Seq(S)
      /\ Len(front \o back) = Len(front) + Len(back)
      /\ \A j \in 1 .. Len(front) + Len(back) :
           (front \o back)[j] = IF j <= Len(front) THEN front[j]
                                ELSE back[j - Len(front)]
  BY <1>2, <1>3, ConcatProperties
<1>6. ASSUME NEW j \in 1 .. Len(s) - 1
      PROVE  (front \o back)[j] = IF j < i THEN s[j] ELSE s[j + 1]
  <2>1. CASE j < i
    <3>1. j \in 1 .. i - 1 /\ j <= Len(front)
      BY <2>1, <1>1, <1>2
    <3>2. j \in 1 .. Len(front) + Len(back)
      BY <1>1, <1>2, <1>3
    <3> QED  BY <2>1, <3>1, <3>2, <1>2, <1>5
  <2>2. CASE ~(j < i)
    <3>1. j - (i - 1) \in 1 .. Len(s) - i /\ i + (j - (i - 1)) = j + 1
      BY <2>2, <1>1
    <3>2. j \in 1 .. Len(front) + Len(back) /\ ~(j <= Len(front))
      BY <2>2, <1>1, <1>2, <1>3
    <3>3. (front \o back)[j] = back[j - (i - 1)]
      BY <3>2, <1>2, <1>5
    <3>4. back[j - (i - 1)] = s[j + 1]
      BY <3>1, <1>3
    <3> QED  BY <2>2, <3>3, <3>4
  <2> QED  BY <2>1, <2>2
<1> QED  BY <1>1, <1>2, <1>3, <1>4, <1>5, <1>6

\* Two lists, of which the first one is read first.
LEMMA TwoLists ==
  ASSUME NEW S, NEW a \in Seq(S), NEW b \in Seq(S)
  PROVE  /\ a # << >> => /\ a \o b # << >> /\ Head(a \o b) = Head(a)
                         /\ Tail(a \o b) = Tail(a) \o b
         /\ b # << >> => /\ Append(a, Head(b)) \o Tail(b) = a \o b
                         /\ Len(a) + 1 \in DOMAIN (a \o b)
                         /\ a \o Tail(b) = RemoveAt(a \o b, Len(a) + 1)
<1> DEFINE l == a \o b
<1>1. /\ l \in Seq(S) /\ Len(l) = Len(a) + Len(b)
      /\ \A i \in 1 .. Len(a) + Len(b) : l[i] = IF i <= Len(a) THEN a[i] ELSE b[i - Len(a)]
      /\ Len(a) \in Nat /\ Len(b) \in Nat /\ DOMAIN l = 1 .. Len(a) + Len(b)
  BY ConcatProperties, LenProperties
<1>2. ASSUME a # << >>
      PROVE  l # << >> /\ Head(l) = Head(a) /\ Tail(l) = Tail(a) \o b
  <2>1. /\ Len(a) # 0 /\ Head(a) = a[1] /\ Tail(a) \in Seq(S) /\ Len(Tail(a)) = Len(a) - 1
        /\ \A i \in 1 .. Len(a) - 1 : Tail(a)[i] = a[i + 1]
    BY <1>2, EmptySeq, HeadTailProperties
  <2>2. Len(l) # 0  BY <1>1, <2>1
  <2>3. l # << >>  BY <2>2, EmptySeq
  <2> HIDE DEF l
  <2>4. /\ Head(l) = l[1] /\ Tail(l) \in Seq(S) /\ Len(Tail(l)) = Len(l) - 1
        /\ \A i \in 1 .. Len(l) - 1 : Tail(l)[i] = l[i + 1]
    BY <1>1, <2>3, HeadTailProperties
  <2>5. l[1] = a[1]  BY <1>1, <2>1
  <2> DEFINE t == Tail(a)
             u == t \o b
             v == Tail(l)
  <2>6. t \in Seq(S) /\ Len(t) = Len(a) - 1 /\ \A i \in 1 .. Len(a) - 1 : t[i] = a[i + 1]
    BY <2>1
  <2> HIDE DEF t
  <2>7. /\ u \in Seq(S) /\ Len(u) = Len(t) + Len(b)
        /\ \A i \in 1 .. Len(t) + Len(b) : u[i] = IF i <= Len(t) THEN t[i] ELSE b[i - Len(t)]
    BY <2>6, ConcatProperties
  <2>8. ASSUME NEW i \in 1 .. Len(l) - 1 PROVE v[i] = u[i]
    <3>1. v[i] = l[i + 1] /\ i + 1 \in 1 .. Len(a) + Len(b) /\ i \in 1 .. Len(t) + Len(b)
      BY <1>1, <2>4, <2>6
    <3>2. CASE i <= Len(t)
      <4>1. i \in 1 .. Len(a) - 1 /\ i + 1 <= Len(a)  BY <1>1, <2>6, <3>2
      <4> QED  BY <1>1, <2>6, <2>7, <3>1, <3>2, <4>1
    <3>3. CASE ~(i <= Len(t))
      <4>1. ~(i + 1 <= Len(a)) /\ i + 1 - Len(a) = i - Len(t)  BY <1>1, <2>6, <3>3
      <4>2. l[i + 1] = b[i + 1 - Len(a)]  BY <1>1, <3>1, <4>1
      <4> QED  BY <2>7, <3>1, <3>3, <4>1, <4>2
    <3> QED  BY <3>2, <3>3
  <2> HIDE DEF u, v
  <2>9. v = u
    <3>1. v \in Seq(S) /\ Len(v) = Len(l) - 1  BY <2>4 DEF v
    <3>2. Len(u) = Len(l) - 1  BY <1>1, <2>6, <2>7
    <3> QED  BY <2>7, <2>8, <3>1, <3>2, SeqEqual
  <2> QED  BY <2>1, <2>3, <2>4, <2>5, <2>9 DEF u, v, t
<1>3. ASSUME b # << >>
      PROVE  /\ Append(a, Head(b)) \o Tail(b) = l /\ Len(a) + 1 \in DOMAIN l
             /\ a \o Tail(b) = RemoveAt(l, Len(a) + 1)
  <2> DEFINE t == Tail(b)
             h == Head(b)
             one == <<h>>
  <2>1. /\ Len(b) # 0 /\ h \in S /\ t \in Seq(S) /\ Len(t) = Len(b) - 1
        /\ \A i \in 1 .. Len(b) - 1 : t[i] = b[i + 1]
    BY <1>3, EmptySeq, HeadTailProperties
  <2>2. b = one \o t /\ one \in Seq(S) /\ Append(a, h) = a \o one
    BY <1>3, <2>1, HeadTailProperties, AppendIsConcat
  <2> HIDE DEF t, h, one
  <2>3. Append(a, h) \o t = l
    <3>1. (a \o one) \o t = a \o (one \o t)  BY <2>1, <2>2, ConcatAssociative
    <3> QED  BY <2>2, <3>1
  <2>4. Len(a) + 1 \in 1 .. Len(l) /\ DOMAIN l = 1 .. Len(l)  BY <1>1, <2>1
  <2> DEFINE k == Len(a) + 1
             u == a \o t
             v == RemoveAt(l, k)
  <2>5. k \in 1 .. Len(l) /\ k - 1 = Len(a) /\ k \in Nat  BY <1>1, <2>4
  <2> HIDE DEF l, k
  <2>6. /\ v \in Seq(S) /\ Len(v) = Len(l) - 1
        /\ \A j \in 1 .. Len(l) - 1 : v[j] = IF j < k THEN l[j] ELSE l[j + 1]
    BY <1>1, <2>5, RemoveAtProperties
  <2>7. /\ u \in Seq(S) /\ Len(u) = Len(a) + Len(t)
        /\ \A i \in 1 .. Len(a) + Len(t) : u[i] = IF i <= Len(a) THEN a[i] ELSE t[i - Len(a)]
    BY <2>1, ConcatProperties
  <2> HIDE DEF u, v
  <2>8. ASSUME NEW i \in 1 .. Len(l) - 1 PROVE u[i] = v[i]
    <3>1. CASE i < k
      <4>1. i <= Len(a) /\ i \in 1 .. Len(a) + Len(b) /\ i \in 1 .. Len(a) + Len(t)
        BY <1>1, <2>1, <2>5, <3>1
      <4> QED  BY <1>1, <2>6, <2>7, <3>1, <4>1
    <3>2. CASE ~(i < k)
      <4>1. /\ ~(i <= Len(a)) /\ i \in 1 .. Len(a) + Len(t) /\ i - Len(a) \in 1 .. Len(b) - 1
            /\ i + 1 \in 1 .. Len(a) + Len(b) /\ ~(i + 1 <= Len(a))
            /\ i + 1 - Len(a) = (i - Len(a)) + 1
        BY <1>1, <2>1, <2>5, <3>2
      <4>2. u[i] = t[i - Len(a)] /\ t[i - Len(a)] = b[(i - Len(a)) + 1]
        BY <2>1, <2>7, <4>1
      <4>3. v[i] = l[i + 1] /\ l[i + 1] = b[i + 1 - Len(a)]
        BY <1>1, <2>6, <3>2, <4>1
      <4> QED  BY <4>1, <4>2, <4>3
    <3> QED  BY <3>1, <3>2
  <2>9. Len(u) = Len(l) - 1  BY <1>1, <2>1, <2>7
  <2>10. u = v  BY <2>6, <2>7, <2>8, <2>9, SeqEqual
  <2> QED  BY <2>3, <2>4, <2>10 DEF u, v, k, t, h
<1> QED  BY <1>2, <1>3
=============================================================================
