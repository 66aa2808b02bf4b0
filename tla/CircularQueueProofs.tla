------------------------ MODULE CircularQueueProofs ------------------------
(***************************************************************************)
(* The arrays of util.c implement the windows for any number of peers, any *)
(* window a uint8_t can count and any frames.  Everything rests on two     *)
(* facts of arithmetic: the places of two peers never coincide, and W      *)
(* consecutive places of one queue are different.                          *)
(***************************************************************************)
EXTENDS CircularQueue, Sequences, TLAPS

\* Counting modulo W for less than two rounds.
LEMMA Wrap ==
    ASSUME NEW a \in Int, 0 <= a, a < 2 * W
    PROVE  a % W = IF a < W THEN a ELSE a - W
BY CircularQueueAssumption

\* The shares of two peers do not overlap.
LEMMA Share ==
    ASSUME NEW p \in Int, NEW q \in Int, NEW r \in 0 .. W - 1, NEW t \in 0 .. W - 1,
           p * W + r = q * W + t
    PROVE  p = q /\ r = t
BY CircularQueueAssumption

Starts == 0 .. W - 1

\* A place of a queue, from where it starts.
LEMMA SlotValue ==
    ASSUME NEW id \in Peers, NEW s \in Starts, NEW i \in 0 .. W
    PROVE  /\ Slot(id, s, i) = id * W + (IF s + i < W THEN s + i ELSE s + i - W)
           /\ (s + i) % W \in Starts
<1>1. W \in Nat /\ W > 0 /\ s \in Int /\ i \in Int /\ 0 <= s + i /\ s + i < 2 * W
  BY CircularQueueAssumption DEF Starts
<1>2. (s + i) % W = IF s + i < W THEN s + i ELSE s + i - W
  BY <1>1, Wrap
<1> QED BY <1>1, <1>2 DEF Slot, Starts

\* It is a place of the array.
LEMMA SlotType ==
    ASSUME NEW id \in Peers, NEW s \in Starts, NEW i \in 0 .. W
    PROVE  Slot(id, s, i) \in Slots
<1>1. W \in Nat /\ N \in Nat /\ id \in Nat /\ id + 1 <= N
  BY CircularQueueAssumption DEF Peers
<1>2. (s + i) % W \in 0 .. W - 1
  BY SlotValue DEF Starts
<1>3. id * W \in Nat /\ N * W \in Nat /\ (id + 1) * W <= N * W
  BY <1>1
<1>4. (id + 1) * W = id * W + W
  BY <1>1
<1> DEFINE a == id * W
           b == N * W
           r == (s + i) % W
<1>5. a \in Nat /\ b \in Nat /\ a + W <= b /\ r \in 0 .. W - 1
  BY <1>2, <1>3, <1>4
<1> HIDE DEF a, b, r
<1>6. a + r \in 0 .. b - 1
  BY <1>1, <1>5
<1> QED BY <1>6 DEF Slot, Slots, a, b, r

\* Different places of the queues are different places of the array.
LEMMA SlotsDistinct ==
    ASSUME NEW p \in Peers, NEW q \in Peers, NEW s \in Starts, NEW t \in Starts,
           NEW i \in 0 .. W - 1, NEW j \in 0 .. W - 1, Slot(p, s, i) = Slot(q, t, j)
    PROVE  p = q /\ (s = t => i = j)
<1>1. i \in 0 .. W /\ j \in 0 .. W /\ W \in Nat /\ p \in Int /\ q \in Int
  BY CircularQueueAssumption DEF Peers
<1>2. p = q /\ (s + i) % W = (t + j) % W
  <2> DEFINE a == (s + i) % W
             b == (t + j) % W
  <2>1. a \in 0 .. W - 1 /\ b \in 0 .. W - 1
    BY <1>1, SlotValue DEF Starts
  <2>2. p * W + a = q * W + b
    BY DEF Slot
  <2> HIDE DEF a, b
  <2>3. p = q /\ a = b
    BY <1>1, <2>1, <2>2, Share
  <2> QED BY <2>3 DEF a, b
<1>3. ASSUME s = t PROVE i = j
  <2>1. /\ (s + i) % W = IF s + i < W THEN s + i ELSE s + i - W
        /\ (s + j) % W = IF s + j < W THEN s + j ELSE s + j - W
    BY <1>1, Wrap DEF Starts
  <2> QED BY <1>1, <1>2, <1>3, <2>1 DEF Starts
<1> QED BY <1>2, <1>3

\* A queue that starts m places later: its place i was place m + i, or, past the
\* end, one of the first m.
LEMMA SlotShifted ==
    ASSUME NEW id \in Peers, NEW s \in Starts, NEW m \in 0 .. W, NEW i \in 0 .. W - 1
    PROVE  LET t == ((s + m) % W) % BYTE IN
           /\ t \in Starts
           /\ Slot(id, t, i) = IF m + i < W THEN Slot(id, s, m + i) ELSE Slot(id, s, m + i - W)
<1> DEFINE t == (s + m) % W
<1>1. W \in Nat /\ W > 0 /\ BYTE \in Nat /\ W < BYTE
  BY CircularQueueAssumption
<1>2. t \in Starts /\ t = IF s + m < W THEN s + m ELSE s + m - W
  <2>1. 0 <= s + m /\ s + m < 2 * W /\ s + m \in Int
    BY <1>1 DEF Starts
  <2> QED BY <1>1, <2>1, Wrap, SlotValue DEF Starts
<1> HIDE DEF t
<1>3. t % BYTE = t
  BY <1>1, <1>2 DEF Starts
<1>4. Slot(id, t, i) = id * W + (IF t + i < W THEN t + i ELSE t + i - W)
  BY <1>1, <1>2, SlotValue
<1>5. CASE m + i < W
  <2>1. Slot(id, s, m + i) = id * W + (IF s + (m + i) < W THEN s + (m + i) ELSE s + (m + i) - W)
    <3>1. m + i \in 0 .. W
      BY <1>1, <1>5
    <3> QED BY <3>1, SlotValue
  <2>2. (IF t + i < W THEN t + i ELSE t + i - W) = (IF s + (m + i) < W THEN s + (m + i) ELSE s + (m + i) - W)
    BY <1>1, <1>2, <1>5 DEF Starts
  <2> QED BY <1>2, <1>3, <1>4, <1>5, <2>1, <2>2 DEF t
<1>6. CASE ~ (m + i < W)
  <2>1. Slot(id, s, m + i - W) = id * W + (IF s + (m + i - W) < W THEN s + (m + i - W) ELSE s + (m + i - W) - W)
    <3>1. m + i - W \in 0 .. W
      BY <1>1, <1>6
    <3> QED BY <3>1, SlotValue
  <2>2. (IF t + i < W THEN t + i ELSE t + i - W)
        = (IF s + (m + i - W) < W THEN s + (m + i - W) ELSE s + (m + i - W) - W)
    BY <1>1, <1>2, <1>6 DEF Starts
  <2> QED BY <1>2, <1>3, <1>4, <1>6, <2>1, <2>2 DEF t
<1> QED BY <1>5, <1>6

-----------------------------------------------------------------------------
(* Types and occupied slots.                                               *)

QueueInv == TypeOK /\ OccupiedInQueue

\* At the start every slot is free and every queue empty.
LEMMA QueueStart == Init => QueueInv
<1> SUFFICES ASSUME Init PROVE QueueInv
  OBVIOUS
<1>1. W \in Nat /\ W > 0
  BY CircularQueueAssumption
<1>2. TypeOK
  BY <1>1 DEF Init, TypeOK
<1>3. OccupiedInQueue
  BY <1>1 DEF Init, OccupiedInQueue
<1> QED BY <1>2, <1>3 DEF QueueInv

\* The lengths the steps compute fit in a byte.
LEMMA ByteFits == ASSUME NEW n \in 0 .. W PROVE n % BYTE = n
BY CircularQueueAssumption

\* The frames taken off a queue, as many as there are.
LEMMA MinFacts ==
    ASSUME NEW a \in Nat, NEW b \in 0 .. W
    PROVE  Min2(a, b) \in 0 .. b /\ Min2(a, b) <= a
BY CircularQueueAssumption DEF Min2

\* A frame joins at the end of a queue that is not full.
LEMMA AppendStep ==
    ASSUME QueueInv, NEW id \in Peers, NEW x \in Items, AppendItemSend(id, x)
    PROVE  /\ QueueInv'
           /\ send_window_length[id] < W
           /\ send_window_start' = send_window_start
           /\ \A p \in Peers : send_window_length'[p] =
                  IF p = id THEN send_window_length[p] + 1 ELSE send_window_length[p]
           /\ \A s \in Slots : send_window'[s] =
                  IF s = SendSlot(id, send_window_length[id]) THEN x ELSE send_window[s]
<1> DEFINE len == send_window_length
           st == send_window_start
           new == SendSlot(id, len[id])
<1>1. W \in Nat /\ W > 0 /\ x # NULL
  BY CircularQueueAssumption
<1>2. /\ len[id] \in 0 .. W - 1 /\ \A p \in Peers : len[p] \in 0 .. W /\ st[p] \in Starts
  BY <1>1 DEF AppendItemSend, QueueInv, TypeOK, Starts
<1>3. (len[id] + 1) % BYTE = len[id] + 1
  BY <1>1, <1>2, ByteFits
<1>4. new \in Slots
  BY <1>2, SlotType DEF SendSlot
<1>5. /\ len' = [len EXCEPT ![id] = len[id] + 1]
      /\ send_window' = [send_window EXCEPT ![new] = x]
      /\ UNCHANGED <<st, recv_window, recv_window_start>>
  BY <1>3 DEF AppendItemSend, recvVars
<1>6. \A p \in Peers : len'[p] = IF p = id THEN len[p] + 1 ELSE len[p]
  BY <1>5 DEF QueueInv, TypeOK
<1>7. \A s \in Slots : send_window'[s] = IF s = new THEN x ELSE send_window[s]
  BY <1>4, <1>5 DEF QueueInv, TypeOK
<1>8. TypeOK'
  BY <1>1, <1>2, <1>4, <1>5, <1>6 DEF QueueInv, TypeOK
<1>9. OccupiedInQueue'
  <2> SUFFICES ASSUME NEW s \in Slots
               PROVE  send_window'[s] # NULL <=>
                         \E p \in Peers : \E i \in 0 .. len'[p] - 1 : s = Slot(p, st[p], i)
    BY <1>5 DEF OccupiedInQueue, SendSlot
  <2>1. send_window[s] # NULL <=> \E p \in Peers : \E i \in 0 .. len[p] - 1 : s = Slot(p, st[p], i)
    BY DEF QueueInv, OccupiedInQueue, SendSlot
  <2>2. CASE s = new
    <3>1. len[id] \in 0 .. len'[id] - 1
      BY <1>2, <1>6
    <3> QED BY <1>1, <1>7, <2>2, <3>1 DEF SendSlot
  <2>3. CASE s # new
    <3>1. ASSUME NEW p \in Peers, NEW i \in 0 .. len'[p] - 1, s = Slot(p, st[p], i)
          PROVE  i \in 0 .. len[p] - 1
      BY <1>2, <1>6, <2>3, <3>1 DEF SendSlot
    <3>2. \A p \in Peers : \A i \in 0 .. len[p] - 1 : i \in 0 .. len'[p] - 1
      BY <1>2, <1>6
    <3>3. send_window'[s] = send_window[s]
      BY <1>7, <2>3
    <3> QED BY <2>1, <3>1, <3>2, <3>3
  <2> QED BY <2>2, <2>3
<1>10. QueueInv' /\ len[id] < W
  BY <1>1, <1>2, <1>8, <1>9 DEF QueueInv
<1> QED BY <1>5, <1>6, <1>7, <1>10

\* The first frames leave a queue: what was further back comes to the front.
LEMMA DequeueStep ==
    ASSUME QueueInv, NEW id \in Peers, NEW n \in Nat, NdequeueSend(id, n),
           NEW m, m = Min2(n, send_window_length[id])
    PROVE  /\ QueueInv'
           /\ m \in 0 .. send_window_length[id]
           /\ \A p \in Peers : send_window_length'[p] =
                  IF p = id THEN send_window_length[p] - m ELSE send_window_length[p]
           /\ \A p \in Peers : p # id => send_window_start'[p] = send_window_start[p]
           /\ \A i \in 0 .. send_window_length[id] - m - 1 :
                  Slot(id, send_window_start'[id], i) = SendSlot(id, m + i)
           /\ \A s \in Slots : send_window'[s] =
                  IF \E i \in 0 .. m - 1 : s = SendSlot(id, i) THEN NULL ELSE send_window[s]
<1> DEFINE len == send_window_length
           st == send_window_start
           First(s) == \E i \in 0 .. m - 1 : s = Slot(id, st[id], i)
<1>1. W \in Nat /\ W > 0
  BY CircularQueueAssumption
<1>2. \A p \in Peers : len[p] \in 0 .. W /\ st[p] \in Starts
  BY DEF QueueInv, TypeOK, Starts
<1>3. m \in 0 .. len[id] /\ m \in 0 .. W
  BY <1>1, <1>2, MinFacts
<1>4. /\ len' = [len EXCEPT ![id] = @ - m]
      /\ st' = [st EXCEPT ![id] = ((@ + m) % W) % BYTE]
      /\ send_window' = [s \in Slots |-> IF First(s) THEN NULL ELSE send_window[s]]
      /\ UNCHANGED <<recv_window, recv_window_start>>
  BY DEF NdequeueSend, recvVars, SendSlot
<1>5. \A p \in Peers : len'[p] = IF p = id THEN len[p] - m ELSE len[p]
  BY <1>4 DEF QueueInv, TypeOK
<1>6. /\ st'[id] = ((st[id] + m) % W) % BYTE
      /\ \A p \in Peers : p # id => st'[p] = st[p]
  BY <1>4 DEF QueueInv, TypeOK
<1>7. st'[id] \in Starts /\ \A i \in 0 .. len[id] - m - 1 : Slot(id, st'[id], i) = Slot(id, st[id], m + i)
  <2>1. st'[id] \in Starts
    BY <1>1, <1>2, <1>3, <1>6, SlotShifted
  <2>2. ASSUME NEW i \in 0 .. len[id] - m - 1 PROVE Slot(id, st'[id], i) = Slot(id, st[id], m + i)
    <3>1. i \in 0 .. W - 1 /\ m + i < W
      BY <1>1, <1>2, <1>3
    <3> QED BY <1>2, <1>3, <1>6, <3>1, SlotShifted
  <2> QED BY <2>1, <2>2
<1>8. TypeOK'
  <2>1. len' \in [Peers -> 0 .. W]
    <3>1. len[id] - m \in 0 .. W
      BY <1>1, <1>2, <1>3
    <3> QED BY <1>4, <3>1 DEF QueueInv, TypeOK
  <2>2. st' \in [Peers -> 0 .. W - 1]
    BY <1>4, <1>6, <1>7 DEF QueueInv, TypeOK, Starts
  <2>3. send_window' \in [Slots -> Items \cup {NULL}]
    BY <1>4 DEF QueueInv, TypeOK
  <2> QED BY <1>4, <2>1, <2>2, <2>3 DEF QueueInv, TypeOK
<1> HIDE DEF First
<1>9. \A s \in Slots : send_window'[s] = IF First(s) THEN NULL ELSE send_window[s]
  BY <1>4
<1>10. OccupiedInQueue'
  <2> SUFFICES ASSUME NEW s \in Slots
               PROVE  send_window'[s] # NULL <=>
                         \E p \in Peers : \E i \in 0 .. len'[p] - 1 : s = Slot(p, st'[p], i)
    BY DEF OccupiedInQueue, SendSlot
  <2>1. send_window[s] # NULL <=> \E p \in Peers : \E i \in 0 .. len[p] - 1 : s = Slot(p, st[p], i)
    BY DEF QueueInv, OccupiedInQueue, SendSlot
  <2>2. CASE First(s)
    <3>1. PICK j \in 0 .. m - 1 : s = Slot(id, st[id], j)
      BY <2>2 DEF First
    <3>2. send_window'[s] = NULL
      BY <1>9, <2>2
    <3>3. ASSUME NEW p \in Peers, NEW i \in 0 .. len'[p] - 1, s = Slot(p, st'[p], i) PROVE FALSE
      <4>1. j \in 0 .. W - 1 /\ i \in 0 .. W - 1
        BY <1>1, <1>2, <1>3, <1>5
      <4>2. p = id
        <5>1. st'[p] \in Starts /\ st[id] \in Starts
          BY <1>2, <1>6, <1>7
        <5>2. Slot(p, st'[p], i) = Slot(id, st[id], j)
          BY <3>1, <3>3
        <5> QED BY <4>1, <5>1, <5>2, SlotsDistinct
      <4>3. s = Slot(id, st[id], m + i) /\ m + i \in 0 .. W - 1
        BY <1>1, <1>2, <1>3, <1>5, <1>7, <3>3, <4>2
      <4>4. m + i = j
        <5> DEFINE k == m + i
        <5>1. st[id] \in Starts /\ k \in 0 .. W - 1 /\ Slot(id, st[id], k) = Slot(id, st[id], j)
          BY <1>2, <3>1, <4>3
        <5> HIDE DEF k
        <5>2. k = j
          BY <4>1, <5>1, SlotsDistinct
        <5> QED BY <5>2 DEF k
      <4> QED BY <1>3, <4>1, <4>4
    <3> QED BY <3>2, <3>3
  <2>3. CASE ~ First(s)
    <3>1. send_window'[s] = send_window[s]
      BY <1>9, <2>3
    <3>2. ASSUME NEW p \in Peers, NEW i \in 0 .. len'[p] - 1, s = Slot(p, st'[p], i)
          PROVE  \E k \in 0 .. len[p] - 1 : s = Slot(p, st[p], k)
      <4>1. CASE p # id
        BY <1>5, <1>6, <3>2, <4>1
      <4>2. CASE p = id
        <5>1. i \in 0 .. len[id] - m - 1 /\ m + i \in 0 .. len[id] - 1
          BY <1>2, <1>3, <1>5, <4>2
        <5> QED BY <1>7, <3>2, <4>2, <5>1
      <4> QED BY <4>1, <4>2
    <3>3. ASSUME NEW p \in Peers, NEW k \in 0 .. len[p] - 1, s = Slot(p, st[p], k)
          PROVE  \E i \in 0 .. len'[p] - 1 : s = Slot(p, st'[p], i)
      <4>1. CASE p # id
        BY <1>5, <1>6, <3>3, <4>1
      <4>2. CASE p = id
        <5>1. k \notin 0 .. m - 1
          BY <2>3, <3>3, <4>2 DEF First
        <5>2. k - m \in 0 .. len[id] - m - 1 /\ m + (k - m) = k
          BY <1>2, <1>3, <4>2, <5>1
        <5>3. s = Slot(id, st'[id], k - m)
          BY <1>7, <3>3, <4>2, <5>2
        <5> QED BY <1>5, <4>2, <5>2, <5>3
      <4> QED BY <4>1, <4>2
    <3> QED BY <2>1, <3>1, <3>2, <3>3
  <2> QED BY <2>2, <2>3
<1>11. \A s \in Slots : send_window'[s] = IF \E i \in 0 .. m - 1 : s = SendSlot(id, i) THEN NULL ELSE send_window[s]
  BY <1>9 DEF First, SendSlot
<1> QED BY <1>3, <1>5, <1>6, <1>7, <1>8, <1>10, <1>11 DEF QueueInv, SendSlot

\* A frame is put into a place of a receive window, or a place is cleared.
LEMMA SetStep ==
    ASSUME QueueInv, NEW id \in Peers, NEW i \in 0 .. W - 1, NEW x \in Items, SetItemRecv(id, i, x)
    PROVE  /\ QueueInv'
           /\ UNCHANGED <<send_window, send_window_start, send_window_length, recv_window_start>>
           /\ \A s \in Slots : recv_window'[s] = IF s = RecvSlot(id, i) THEN x ELSE recv_window[s]
<1>1. UNCHANGED <<send_window, send_window_start, send_window_length, recv_window_start>>
  BY DEF SetItemRecv, sendVars
<1>2. RecvSlot(id, i) \in Slots
  <2>1. i \in 0 .. W /\ recv_window_start[id] \in Starts
    BY CircularQueueAssumption DEF QueueInv, TypeOK, Starts
  <2> QED BY <2>1, SlotType DEF RecvSlot
<1>3. /\ recv_window' \in [Slots -> Items \cup {NULL}]
      /\ \A s \in Slots : recv_window'[s] = IF s = RecvSlot(id, i) THEN x ELSE recv_window[s]
  BY <1>2 DEF SetItemRecv, QueueInv, TypeOK
<1>4. QueueInv'
  BY <1>1, <1>3 DEF QueueInv, TypeOK, OccupiedInQueue, SendSlot
<1> QED BY <1>1, <1>3, <1>4

\* A receive window moves on.
LEMMA ShiftStep ==
    ASSUME QueueInv, NEW id \in Peers, NEW n \in Nat, NdequeueRecv(id, n), NEW m, m = Min2(n, W)
    PROVE  /\ QueueInv'
           /\ m \in 0 .. W
           /\ UNCHANGED <<send_window, send_window_start, send_window_length>>
           /\ \A p \in Peers : p # id => recv_window_start'[p] = recv_window_start[p]
           /\ \A i \in 0 .. W - 1 : Slot(id, recv_window_start'[id], i) =
                  IF m + i < W THEN RecvSlot(id, m + i) ELSE RecvSlot(id, m + i - W)
           /\ \A s \in Slots : recv_window'[s] =
                  IF \E i \in 0 .. m - 1 : s = RecvSlot(id, i) THEN NULL ELSE recv_window[s]
<1> DEFINE st == recv_window_start
           First(s) == \E i \in 0 .. m - 1 : s = RecvSlot(id, i)
<1>1. W \in Nat /\ W > 0 /\ W \in 0 .. W
  BY CircularQueueAssumption
<1>2. m \in 0 .. W
  BY <1>1, MinFacts
<1>3. \A p \in Peers : st[p] \in Starts
  BY DEF QueueInv, TypeOK, Starts
<1>4. /\ st' = [st EXCEPT ![id] = ((@ + m) % W) % BYTE]
      /\ recv_window' = [s \in Slots |-> IF First(s) THEN NULL ELSE recv_window[s]]
      /\ UNCHANGED <<send_window, send_window_start, send_window_length>>
  BY DEF NdequeueRecv, sendVars
<1>5. /\ st'[id] = ((st[id] + m) % W) % BYTE
      /\ \A p \in Peers : p # id => st'[p] = st[p]
  BY <1>4 DEF QueueInv, TypeOK
<1>6. /\ st'[id] \in Starts
      /\ \A i \in 0 .. W - 1 : Slot(id, st'[id], i) =
            IF m + i < W THEN Slot(id, st[id], m + i) ELSE Slot(id, st[id], m + i - W)
  <2>1. 0 \in 0 .. W - 1
    BY <1>1
  <2> QED BY <1>2, <1>3, <1>5, <2>1, SlotShifted
<1>7. st' \in [Peers -> 0 .. W - 1]
  BY <1>4, <1>5, <1>6 DEF QueueInv, TypeOK, Starts
<1>8. recv_window' \in [Slots -> Items \cup {NULL}]
  BY <1>4 DEF QueueInv, TypeOK
<1> HIDE DEF First
<1>9. \A s \in Slots : recv_window'[s] = IF First(s) THEN NULL ELSE recv_window[s]
  BY <1>4
<1>10. QueueInv'
  BY <1>4, <1>7, <1>8 DEF QueueInv, TypeOK, OccupiedInQueue, SendSlot
<1> QED BY <1>2, <1>4, <1>5, <1>6, <1>9, <1>10 DEF First, RecvSlot

\* Both invariants hold, for every number of peers and every window.
LEMMA QueueInvariant == Spec => []QueueInv
<1>1. QueueInv /\ [Next]_vars => QueueInv'
  <2> SUFFICES ASSUME QueueInv, [Next]_vars PROVE QueueInv'
    OBVIOUS
  <2>1. CASE UNCHANGED vars
    BY <2>1 DEF vars, sendVars, recvVars, QueueInv, TypeOK, OccupiedInQueue, SendSlot
  <2>2. ASSUME NEW id \in Peers, NEW n \in 0 .. W + 1, NdequeueSend(id, n) \/ NdequeueRecv(id, n)
        PROVE  QueueInv'
    <3>1. n \in Nat
      OBVIOUS
    <3>2. PICK m, k : m = Min2(n, send_window_length[id]) /\ k = Min2(n, W)
      OBVIOUS
    <3> QED BY <2>2, <3>1, <3>2, DequeueStep, ShiftStep
  <2> QED BY <2>1, <2>2, AppendStep, SetStep DEF Next
<1> QED BY <1>1, QueueStart, PTL DEF Spec

\* Starts and lengths stay within the queue, and the types are kept.
THEOREM QueueTypes == Spec => []TypeOK
<1>1. QueueInv => TypeOK
  BY DEF QueueInv
<1> QED BY <1>1, QueueInvariant, PTL

\* A slot is free or in the queue of one peer: run_senders may take a slot that is
\* not NULL for a frame that waits.
THEOREM SlotsMatchQueues == Spec => []OccupiedInQueue
<1>1. QueueInv => OccupiedInQueue
  BY DEF QueueInv
<1> QED BY <1>1, QueueInvariant, PTL

-----------------------------------------------------------------------------
(* The windows of each peer.                                               *)

Send == [p \in Peers |-> [i \in 1 .. send_window_length[p] |-> send_window[SendSlot(p, i - 1)]]]
Recv == [p \in Peers |-> [i \in 0 .. W - 1 |-> recv_window[RecvSlot(p, i)]]]

\* The send queues as sequences, given by their elements.
SendTyped == \A p \in Peers :
    /\ Send[p] \in Seq(Items \cup {NULL}) /\ Len(Send[p]) = send_window_length[p]
    /\ send_window_length[p] \in 0 .. W /\ send_window_start[p] \in Starts
    /\ \A i \in 1 .. send_window_length[p] :
          Send[p][i] = send_window[Slot(p, send_window_start[p], i - 1)]

\* They are: the lengths and starts are in range.
LEMMA SendTypes == QueueInv => SendTyped
<1> SUFFICES ASSUME QueueInv, NEW p \in Peers
             PROVE  /\ Send[p] \in Seq(Items \cup {NULL}) /\ Len(Send[p]) = send_window_length[p]
                    /\ send_window_length[p] \in 0 .. W /\ send_window_start[p] \in Starts
                    /\ \A i \in 1 .. send_window_length[p] :
                          Send[p][i] = send_window[Slot(p, send_window_start[p], i - 1)]
  BY DEF SendTyped
<1>1. send_window_length[p] \in 0 .. W /\ W \in Nat /\ send_window_start[p] \in Starts
  BY CircularQueueAssumption DEF QueueInv, TypeOK, Starts
<1>2. \A i \in 1 .. send_window_length[p] : send_window[SendSlot(p, i - 1)] \in Items \cup {NULL}
  <2>1. \A i \in 1 .. send_window_length[p] : i - 1 \in 0 .. W
    BY <1>1
  <2>2. \A i \in 1 .. send_window_length[p] : SendSlot(p, i - 1) \in Slots
    BY <1>1, <2>1, SlotType DEF SendSlot
  <2> QED BY <2>2 DEF QueueInv, TypeOK
<1> DEFINE n == send_window_length[p]
           e(i) == send_window[SendSlot(p, i - 1)]
<1>3. n \in Nat /\ Send[p] = [i \in 1 .. n |-> e(i)] /\ \A i \in 1 .. n : e(i) \in Items \cup {NULL}
  BY <1>1, <1>2 DEF Send
<1>4. \A i \in 1 .. n : e(i) = send_window[Slot(p, send_window_start[p], i - 1)]
  BY DEF SendSlot
<1> HIDE DEF n, e
<1>5. Send[p] \in Seq(Items \cup {NULL}) /\ Len(Send[p]) = n /\ \A i \in 1 .. n : Send[p][i] = e(i)
  BY <1>3
<1> QED BY <1>1, <1>4, <1>5 DEF n

\* The receive windows as functions of their W places.
LEMMA RecvTypes ==
    ASSUME QueueInv, NEW p \in Peers
    PROVE  /\ recv_window_start[p] \in Starts
           /\ Recv[p] = [i \in 0 .. W - 1 |-> recv_window[Slot(p, recv_window_start[p], i)]]
BY DEF QueueInv, TypeOK, Starts, Recv, RecvSlot

\* Two sequences with the same elements are the same.
LEMMA SameSeq ==
    ASSUME NEW S, NEW a \in Seq(S), NEW b \in Seq(S), Len(a) = Len(b), \A i \in 1 .. Len(a) : a[i] = b[i]
    PROVE  a = b
OBVIOUS

\* cq_append_item_send appends to the queue of its peer.
LEMMA AppendView ==
    ASSUME QueueInv, NEW id \in Peers, NEW x \in Items, AppendItemSend(id, x)
    PROVE  Len(Send[id]) < W /\ Send' = [Send EXCEPT ![id] = Append(Send[id], x)] /\ Recv' = Recv
<1> DEFINE len == send_window_length
           st == send_window_start
           new == Slot(id, st[id], len[id])
<1>1. /\ QueueInv' /\ len[id] < W /\ st' = st
      /\ \A p \in Peers : len'[p] = IF p = id THEN len[p] + 1 ELSE len[p]
      /\ \A s \in Slots : send_window'[s] = IF s = new THEN x ELSE send_window[s]
  BY AppendStep DEF SendSlot
<1>2. W \in Nat /\ W > 0
  BY CircularQueueAssumption
<1>3. \A p \in Peers : len[p] \in 0 .. W /\ st[p] \in Starts
  BY SendTypes DEF SendTyped
<1>4. ASSUME NEW p \in Peers, NEW i \in 0 .. len[p] - 1
      PROVE  send_window'[Slot(p, st[p], i)] = send_window[Slot(p, st[p], i)]
  <2>1. i \in 0 .. W - 1 /\ i \in 0 .. W /\ len[id] \in 0 .. W - 1
    BY <1>1, <1>2, <1>3
  <2>2. Slot(p, st[p], i) \in Slots
    BY <1>3, <2>1, SlotType
  <2>3. Slot(p, st[p], i) # new
    <3> SUFFICES ASSUME Slot(p, st[p], i) = new PROVE FALSE
      OBVIOUS
    <3>1. p = id
      BY <1>3, <2>1, SlotsDistinct
    <3>2. i = len[id]
      BY <1>3, <2>1, <3>1, SlotsDistinct
    <3> QED BY <1>3, <3>1, <3>2
  <2> QED BY <1>1, <2>2, <2>3
<1>5. ASSUME NEW p \in Peers, p # id PROVE Send'[p] = Send[p]
  <2>1. len'[p] = len[p] /\ st'[p] = st[p]
    BY <1>1, <1>5
  <2>2. \A i \in 1 .. len[p] : send_window'[Slot(p, st[p], i - 1)] = send_window[Slot(p, st[p], i - 1)]
    BY <1>3, <1>4
  <2> QED BY <2>1, <2>2 DEF Send, SendSlot
<1>6. Send'[id] = Append(Send[id], x)
  <2> DEFINE a == Send[id]
             b == Append(Send[id], x)
             n == len[id]
  <2>1. /\ Send'[id] \in Seq(Items \cup {NULL}) /\ Len(Send'[id]) = n + 1
        /\ \A i \in 1 .. n + 1 : Send'[id][i] = send_window'[Slot(id, st[id], i - 1)]
    <3>1. SendTyped'
      BY <1>1, SendTypes, PTL
    <3> QED BY <1>1, <3>1 DEF SendTyped
  <2>2. /\ Send[id] \in Seq(Items \cup {NULL}) /\ Len(Send[id]) = n /\ n \in 0 .. W
        /\ \A i \in 1 .. n : Send[id][i] = send_window[Slot(id, st[id], i - 1)]
    BY SendTypes DEF SendTyped
  <2> HIDE DEF n
  <2>3. /\ b \in Seq(Items \cup {NULL}) /\ Len(b) = n + 1
        /\ \A i \in 1 .. n + 1 : b[i] = IF i = n + 1 THEN x ELSE Send[id][i]
    BY <2>2
  <2>4. ASSUME NEW i \in 1 .. n + 1 PROVE Send'[id][i] = b[i]
    <3>1. CASE i = n + 1
      <4>1. new \in Slots
        BY <1>2, <1>3, SlotType
      <4>2. Send'[id][i] = send_window'[new]
        BY <2>1, <2>2, <3>1 DEF n
      <4> QED BY <1>1, <2>2, <2>3, <3>1, <4>1, <4>2
    <3>2. CASE i # n + 1
      <4>1. i - 1 \in 0 .. len[id] - 1 /\ i \in 1 .. n
        BY <2>2, <3>2 DEF n
      <4> QED BY <1>4, <2>1, <2>2, <2>3, <3>2, <4>1
    <3> QED BY <3>1, <3>2
  <2> HIDE DEF b
  <2>5. Send'[id] = b
    BY <2>1, <2>3, <2>4, SameSeq
  <2> QED BY <2>5 DEF b
<1>7. Send' = [Send EXCEPT ![id] = Append(Send[id], x)]
  <2>1. Send' = [p \in Peers |-> Send'[p]] /\ Send = [p \in Peers |-> Send[p]]
    BY DEF Send
  <2> QED BY <1>5, <1>6, <2>1
<1>8. Recv' = Recv
  BY DEF Recv, RecvSlot, AppendItemSend, recvVars
<1>9. Len(Send[id]) < W
  BY <1>1, SendTypes DEF SendTyped
<1> QED BY <1>7, <1>8, <1>9

\* The end of a sequence.
LEMMA Rest ==
    ASSUME NEW S, NEW s \in Seq(S), NEW n \in 0 .. Len(s)
    PROVE  /\ SubSeq(s, n + 1, Len(s)) \in Seq(S) /\ Len(SubSeq(s, n + 1, Len(s))) = Len(s) - n
           /\ \A i \in 1 .. Len(s) - n : SubSeq(s, n + 1, Len(s))[i] = s[n + i]
OBVIOUS

\* cq_ndequeue_send takes the first frames off the queue of its peer.
LEMMA DequeueView ==
    ASSUME QueueInv, NEW id \in Peers, NEW n \in Nat, NdequeueSend(id, n),
           NEW m, m = Min2(n, send_window_length[id])
    PROVE  /\ m \in 0 .. W
           /\ Send' = [Send EXCEPT ![id] = SubSeq(Send[id], m + 1, Len(Send[id]))]
           /\ Recv' = Recv
<1> DEFINE len == send_window_length
           st == send_window_start
           First(s) == \E i \in 0 .. m - 1 : s = Slot(id, st[id], i)
<1>1. /\ QueueInv' /\ m \in 0 .. len[id]
      /\ \A p \in Peers : len'[p] = IF p = id THEN len[p] - m ELSE len[p]
      /\ \A p \in Peers : p # id => st'[p] = st[p]
      /\ \A i \in 0 .. len[id] - m - 1 : Slot(id, st'[id], i) = Slot(id, st[id], m + i)
      /\ \A s \in Slots : send_window'[s] = IF First(s) THEN NULL ELSE send_window[s]
  BY DequeueStep DEF SendSlot
<1>2. W \in Nat /\ W > 0
  BY CircularQueueAssumption
<1>3. \A p \in Peers : len[p] \in 0 .. W /\ st[p] \in Starts
  BY SendTypes DEF SendTyped
<1>4. ASSUME NEW p \in Peers, NEW i \in 0 .. len[p] - 1, p # id \/ i >= m
      PROVE  send_window'[Slot(p, st[p], i)] = send_window[Slot(p, st[p], i)]
  <2>1. i \in 0 .. W - 1 /\ i \in 0 .. W
    BY <1>2, <1>3
  <2>2. Slot(p, st[p], i) \in Slots
    BY <1>3, <2>1, SlotType
  <2>3. ~ First(Slot(p, st[p], i))
    <3> SUFFICES ASSUME NEW j \in 0 .. m - 1, Slot(p, st[p], i) = Slot(id, st[id], j) PROVE FALSE
      OBVIOUS
    <3>0. j \in 0 .. W - 1
      BY <1>1, <1>2, <1>3
    <3>1. p = id
      BY <1>3, <2>1, <3>0, SlotsDistinct
    <3>2. i = j
      BY <1>3, <2>1, <3>0, <3>1, SlotsDistinct
    <3> QED BY <1>1, <1>3, <1>4, <3>1, <3>2
  <2> HIDE DEF First
  <2> QED BY <1>1, <2>2, <2>3
<1> HIDE DEF First
<1>5. ASSUME NEW p \in Peers, p # id PROVE Send'[p] = Send[p]
  <2>1. len'[p] = len[p] /\ st'[p] = st[p]
    BY <1>1, <1>5
  <2>2. \A i \in 1 .. len[p] : send_window'[Slot(p, st[p], i - 1)] = send_window[Slot(p, st[p], i - 1)]
    <3> SUFFICES ASSUME NEW i \in 1 .. len[p]
                 PROVE  send_window'[Slot(p, st[p], i - 1)] = send_window[Slot(p, st[p], i - 1)]
      OBVIOUS
    <3>1. i - 1 \in 0 .. len[p] - 1
      BY <1>3
    <3> QED BY <1>4, <1>5, <3>1
  <2> QED BY <2>1, <2>2 DEF Send, SendSlot
<1>6. Send'[id] = SubSeq(Send[id], m + 1, Len(Send[id]))
  <2> DEFINE b == SubSeq(Send[id], m + 1, Len(Send[id]))
             k == len[id]
  <2>1. /\ Send'[id] \in Seq(Items \cup {NULL}) /\ Len(Send'[id]) = k - m
        /\ \A i \in 1 .. k - m : Send'[id][i] = send_window'[Slot(id, st'[id], i - 1)]
    <3>1. SendTyped'
      BY <1>1, SendTypes, PTL
    <3> QED BY <1>1, <3>1 DEF SendTyped
  <2>2. /\ Send[id] \in Seq(Items \cup {NULL}) /\ Len(Send[id]) = k /\ k \in 0 .. W
        /\ \A i \in 1 .. k : Send[id][i] = send_window[Slot(id, st[id], i - 1)]
    BY SendTypes DEF SendTyped
  <2>3. m \in 0 .. k
    BY <1>1
  <2> HIDE DEF k
  <2>4. /\ b \in Seq(Items \cup {NULL}) /\ Len(b) = k - m
        /\ \A i \in 1 .. k - m : b[i] = Send[id][m + i]
    BY <2>2, <2>3, Rest
  <2>5. ASSUME NEW i \in 1 .. k - m PROVE Send'[id][i] = b[i]
    <3>1. /\ i - 1 \in 0 .. len[id] - m - 1 /\ m + i \in 1 .. k
          /\ m + (i - 1) \in 0 .. len[id] - 1 /\ m + (i - 1) >= m /\ m + (i - 1) = (m + i) - 1
      <4>1. k \in Nat /\ m \in Nat /\ i \in Nat /\ m <= k /\ 1 <= i /\ i <= k - m
        BY <2>2, <2>3
      <4>2. /\ i - 1 \in 0 .. k - m - 1 /\ m + i \in 1 .. k /\ m + (i - 1) \in 0 .. k - 1
            /\ m + (i - 1) >= m /\ m + (i - 1) = (m + i) - 1
        BY <4>1
      <4> QED BY <4>2 DEF k
    <3>2. Slot(id, st'[id], i - 1) = Slot(id, st[id], (m + i) - 1)
      BY <1>1, <3>1
    <3>3. send_window'[Slot(id, st[id], (m + i) - 1)] = send_window[Slot(id, st[id], (m + i) - 1)]
      BY <1>4, <3>1
    <3> QED BY <2>1, <2>2, <2>4, <3>1, <3>2, <3>3
  <2> HIDE DEF b
  <2>6. Send'[id] = b
    BY <2>1, <2>4, <2>5, SameSeq
  <2> QED BY <2>6 DEF b
<1>7. Send' = [Send EXCEPT ![id] = SubSeq(Send[id], m + 1, Len(Send[id]))]
  <2>1. Send' = [p \in Peers |-> Send'[p]] /\ Send = [p \in Peers |-> Send[p]]
    BY DEF Send
  <2> QED BY <1>5, <1>6, <2>1
<1>8. Recv' = Recv
  BY DEF Recv, RecvSlot, NdequeueSend, recvVars
<1>9. m \in 0 .. W
  BY <1>1, <1>2, <1>3
<1> QED BY <1>7, <1>8, <1>9

\* cq_set_item_recv sets one place of the window of its peer.
LEMMA SetView ==
    ASSUME QueueInv, NEW id \in Peers, NEW k \in 0 .. W - 1, NEW x \in Items, SetItemRecv(id, k, x)
    PROVE  Recv' = [Recv EXCEPT ![id] = [Recv[id] EXCEPT ![k] = x]] /\ Send' = Send
<1> DEFINE st == recv_window_start
<1>1. /\ UNCHANGED <<send_window, send_window_start, send_window_length, st>>
      /\ \A s \in Slots : recv_window'[s] = IF s = Slot(id, st[id], k) THEN x ELSE recv_window[s]
  BY SetStep DEF RecvSlot
<1>2. W \in Nat /\ \A i \in 0 .. W - 1 : i \in 0 .. W
  BY CircularQueueAssumption
<1>3. \A p \in Peers : st[p] \in Starts
  BY RecvTypes
<1>4. ASSUME NEW p \in Peers, NEW i \in 0 .. W - 1
      PROVE  recv_window'[Slot(p, st[p], i)] =
                IF p = id /\ i = k THEN x ELSE recv_window[Slot(p, st[p], i)]
  <2>1. Slot(p, st[p], i) \in Slots
    BY <1>2, <1>3, SlotType
  <2>2. Slot(p, st[p], i) = Slot(id, st[id], k) => p = id
    BY <1>3, SlotsDistinct
  <2>3. Slot(p, st[p], i) = Slot(id, st[id], k) => i = k
    BY <1>3, <2>2, SlotsDistinct
  <2> QED BY <1>1, <2>1, <2>2, <2>3
<1>5. \A p \in Peers : Recv[p] = [i \in 0 .. W - 1 |-> recv_window[Slot(p, st[p], i)]]
  BY RecvTypes
<1>6. \A p \in Peers : Recv'[p] = [i \in 0 .. W - 1 |-> recv_window'[Slot(p, st[p], i)]]
  BY <1>1 DEF Recv, RecvSlot
<1>7. ASSUME NEW p \in Peers, p # id PROVE Recv'[p] = Recv[p]
  <2> DEFINE a(i) == recv_window[Slot(p, st[p], i)]
             b(i) == recv_window'[Slot(p, st[p], i)]
  <2>1. Recv[p] = [i \in 0 .. W - 1 |-> a(i)] /\ Recv'[p] = [i \in 0 .. W - 1 |-> b(i)]
    BY <1>5, <1>6
  <2>2. \A i \in 0 .. W - 1 : b(i) = a(i)
    BY <1>4, <1>7
  <2> HIDE DEF a, b
  <2> QED BY <2>1, <2>2
<1>8. Recv'[id] = [Recv[id] EXCEPT ![k] = x]
  <2> DEFINE a(i) == recv_window[Slot(id, st[id], i)]
             b(i) == recv_window'[Slot(id, st[id], i)]
  <2>1. Recv[id] = [i \in 0 .. W - 1 |-> a(i)] /\ Recv'[id] = [i \in 0 .. W - 1 |-> b(i)]
    BY <1>5, <1>6
  <2>2. \A i \in 0 .. W - 1 : b(i) = IF i = k THEN x ELSE a(i)
    BY <1>4
  <2> HIDE DEF a, b
  <2> QED BY <2>1, <2>2
<1>9. Recv' = [Recv EXCEPT ![id] = [Recv[id] EXCEPT ![k] = x]]
  <2>1. Recv' = [p \in Peers |-> Recv'[p]] /\ Recv = [p \in Peers |-> Recv[p]]
    BY DEF Recv
  <2> QED BY <1>7, <1>8, <2>1
<1>10. Send' = Send
  BY <1>1 DEF Send, SendSlot
<1> QED BY <1>9, <1>10

\* cq_ndequeue_recv moves the window of its peer on: the places it leaves behind
\* come back, empty, at its end.
LEMMA ShiftView ==
    ASSUME QueueInv, NEW id \in Peers, NEW n \in Nat, NdequeueRecv(id, n), NEW m, m = Min2(n, W)
    PROVE  /\ m \in 0 .. W
           /\ Recv' = [Recv EXCEPT ![id] =
                          [i \in 0 .. W - 1 |-> IF i + m < W THEN Recv[id][i + m] ELSE NULL]]
           /\ Send' = Send
<1> DEFINE st == recv_window_start
           First(s) == \E i \in 0 .. m - 1 : s = Slot(id, st[id], i)
<1>1. /\ m \in 0 .. W
      /\ UNCHANGED <<send_window, send_window_start, send_window_length>>
      /\ \A p \in Peers : p # id => st'[p] = st[p]
      /\ \A i \in 0 .. W - 1 : Slot(id, st'[id], i) =
            IF m + i < W THEN Slot(id, st[id], m + i) ELSE Slot(id, st[id], m + i - W)
      /\ \A s \in Slots : recv_window'[s] = IF First(s) THEN NULL ELSE recv_window[s]
  BY ShiftStep DEF RecvSlot
<1>2. W \in Nat /\ \A i \in 0 .. W - 1 : i \in 0 .. W
  BY CircularQueueAssumption
<1>3. \A p \in Peers : st[p] \in Starts
  BY RecvTypes
<1>4. ASSUME NEW p \in Peers, NEW i \in 0 .. W - 1
      PROVE  recv_window'[Slot(p, st[p], i)] =
                IF p = id /\ i < m THEN NULL ELSE recv_window[Slot(p, st[p], i)]
  <2>1. Slot(p, st[p], i) \in Slots
    BY <1>2, <1>3, SlotType
  <2>2. First(Slot(p, st[p], i)) <=> p = id /\ i < m
    <3>1. ASSUME NEW j \in 0 .. m - 1, Slot(p, st[p], i) = Slot(id, st[id], j) PROVE p = id /\ i < m
      <4>1. j \in 0 .. W - 1
        BY <1>1, <1>2
      <4>2. p = id
        BY <1>3, <3>1, <4>1, SlotsDistinct
      <4>3. i = j
        BY <1>3, <3>1, <4>1, <4>2, SlotsDistinct
      <4> QED BY <1>1, <4>2, <4>3
    <3>2. ASSUME p = id, i < m PROVE First(Slot(p, st[p], i))
      <4>1. i \in 0 .. m - 1
        BY <1>1, <1>2, <3>2
      <4> QED BY <3>2, <4>1
    <3> QED BY <3>1, <3>2
  <2> HIDE DEF First
  <2> QED BY <1>1, <2>1, <2>2
<1> HIDE DEF First
<1>5. \A p \in Peers : Recv[p] = [i \in 0 .. W - 1 |-> recv_window[Slot(p, st[p], i)]]
  BY RecvTypes
<1>6. \A p \in Peers : Recv'[p] = [i \in 0 .. W - 1 |-> recv_window'[Slot(p, st'[p], i)]]
  BY DEF Recv, RecvSlot
<1>7. ASSUME NEW p \in Peers, p # id PROVE Recv'[p] = Recv[p]
  <2> DEFINE a(i) == recv_window[Slot(p, st[p], i)]
             b(i) == recv_window'[Slot(p, st[p], i)]
  <2>1. Recv[p] = [i \in 0 .. W - 1 |-> a(i)] /\ Recv'[p] = [i \in 0 .. W - 1 |-> b(i)]
    BY <1>1, <1>5, <1>6, <1>7
  <2>2. \A i \in 0 .. W - 1 : b(i) = a(i)
    BY <1>4, <1>7
  <2> HIDE DEF a, b
  <2> QED BY <2>1, <2>2
<1>8. Recv'[id] = [i \in 0 .. W - 1 |-> IF i + m < W THEN Recv[id][i + m] ELSE NULL]
  <2> DEFINE b(i) == recv_window'[Slot(id, st'[id], i)]
             c(i) == IF i + m < W THEN Recv[id][i + m] ELSE NULL
  <2>1. Recv'[id] = [i \in 0 .. W - 1 |-> b(i)]
    BY <1>6
  <2>2. ASSUME NEW i \in 0 .. W - 1 PROVE b(i) = c(i)
    <3>1. CASE m + i < W
      <4>1. m + i \in 0 .. W - 1 /\ ~ (m + i < m) /\ i + m = m + i
        BY <1>1, <1>2, <3>1
      <4>2. b(i) = recv_window[Slot(id, st[id], m + i)]
        BY <1>1, <1>4, <3>1, <4>1
      <4>3. c(i) = recv_window[Slot(id, st[id], m + i)]
        <5> DEFINE a(j) == recv_window[Slot(id, st[id], j)]
        <5>1. Recv[id] = [j \in 0 .. W - 1 |-> a(j)]
          BY <1>5
        <5> HIDE DEF a
        <5>2. c(i) = a(m + i)
          BY <3>1, <4>1, <5>1
        <5> QED BY <5>2 DEF a
      <4> QED BY <4>2, <4>3
    <3>2. CASE ~ (m + i < W)
      <4>1. m + i - W \in 0 .. W - 1 /\ m + i - W < m /\ i + m = m + i
        BY <1>1, <1>2, <3>2
      <4>2. Slot(id, st'[id], i) = Slot(id, st[id], m + i - W)
        BY <1>1, <3>2
      <4>3. recv_window'[Slot(id, st[id], m + i - W)] = NULL
        BY <1>4, <4>1
      <4> QED BY <3>2, <4>1, <4>2, <4>3
    <3> QED BY <3>1, <3>2
  <2> HIDE DEF b
  <2> QED BY <2>1, <2>2
<1>9. Recv' = [Recv EXCEPT ![id] = [i \in 0 .. W - 1 |-> IF i + m < W THEN Recv[id][i + m] ELSE NULL]]
  <2>1. Recv' = [p \in Peers |-> Recv'[p]] /\ Recv = [p \in Peers |-> Recv[p]]
    BY DEF Recv
  <2> QED BY <1>7, <1>8, <2>1
<1>10. Send' = Send
  BY <1>1 DEF Send, SendSlot
<1> QED BY <1>1, <1>9, <1>10

\* The arrays of util.c implement the windows the program works with: a queue for
\* each peer, whatever the others do.
THEOREM ArraysImplementWindows == Spec => WindowsSpec
<1>1. Init => Windows!Init
  <2> SUFFICES ASSUME Init PROVE Windows!Init
    OBVIOUS
  <2>1. QueueInv
    BY QueueStart
  <2>2. Send = [p \in Peers |-> <<>>]
    BY <2>1 DEF Init, Send
  <2>3. Recv = [p \in Peers |-> [i \in 0 .. W - 1 |-> NULL]]
    <3>1. \A p \in Peers : \A i \in 0 .. W - 1 : RecvSlot(p, i) \in Slots
      <4>1. \A i \in 0 .. W - 1 : i \in 0 .. W
        BY CircularQueueAssumption
      <4> QED BY <2>1, <4>1, RecvTypes, SlotType DEF RecvSlot
    <3> QED BY <3>1 DEF Init, Recv
  <2> QED BY <2>2, <2>3 DEF Windows!Init, Send, Recv
<1>2. QueueInv /\ [Next]_vars => [Windows!Next]_<<Send, Recv>>
  <2> SUFFICES ASSUME QueueInv, [Next]_vars PROVE [Windows!Next]_<<Send, Recv>>
    OBVIOUS
  <2>1. CASE UNCHANGED vars
    BY <2>1 DEF vars, sendVars, recvVars, Send, Recv, SendSlot, RecvSlot
  <2>2. ASSUME NEW id \in Peers, NEW x \in Items, AppendItemSend(id, x) PROVE Windows!Next
    <3>1. Windows!Append1(id, x)
      BY <2>2, AppendView DEF Windows!Append1, Send, Recv
    <3> QED BY <3>1 DEF Windows!Next
  <2>3. ASSUME NEW id \in Peers, NEW i \in 0 .. W - 1, NEW x \in Items, SetItemRecv(id, i, x)
        PROVE  Windows!Next
    <3>1. Windows!Set(id, i, x)
      BY <2>3, SetView DEF Windows!Set, Send, Recv
    <3> QED BY <3>1 DEF Windows!Next
  <2>4. ASSUME NEW id \in Peers, NEW n \in 0 .. W + 1, NdequeueSend(id, n) PROVE Windows!Next
    <3>1. PICK m : m = Min2(n, send_window_length[id])
      OBVIOUS
    <3>2. /\ m \in 0 .. W /\ Recv' = Recv
          /\ Send' = [Send EXCEPT ![id] = SubSeq(Send[id], m + 1, Len(Send[id]))]
      <4>1. n \in Nat
        OBVIOUS
      <4> QED BY <2>4, <3>1, <4>1, DequeueView
    <3>3. Windows!Dequeue(id, m)
      BY <3>2 DEF Windows!Dequeue, Send, Recv
    <3> QED BY <3>2, <3>3 DEF Windows!Next
  <2>5. ASSUME NEW id \in Peers, NEW n \in 0 .. W + 1, NdequeueRecv(id, n) PROVE Windows!Next
    <3>1. PICK m : m = Min2(n, W)
      OBVIOUS
    <3>2. /\ m \in 0 .. W /\ Send' = Send
          /\ Recv' = [Recv EXCEPT ![id] =
                        [i \in 0 .. W - 1 |-> IF i + m < W THEN Recv[id][i + m] ELSE NULL]]
      <4>1. n \in Nat
        OBVIOUS
      <4> QED BY <2>5, <3>1, <4>1, ShiftView
    <3>3. Windows!Shift(id, m)
      BY <3>2 DEF Windows!Shift, Send, Recv
    <3> QED BY <3>2, <3>3 DEF Windows!Next
  <2> QED BY <2>1, <2>2, <2>3, <2>4, <2>5 DEF Next
<1> QED BY <1>1, <1>2, QueueInvariant, PTL DEF Spec, WindowsSpec, Windows!Spec, Send, Recv
=============================================================================
