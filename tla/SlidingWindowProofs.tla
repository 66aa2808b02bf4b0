------------------------- MODULE SlidingWindowProofs -------------------------
(***************************************************************************)
(* The window protocol delivers in order for every window size, sequence-  *)
(* number space and stream: IInv of SlidingWindow is inductive, and every  *)
(* step is a step of ReliableDelivery or a stutter.                        *)
(***************************************************************************)
EXTENDS SlidingWindow, SeqNumTheorems

\* The constants, as the provers use them.
LEMMA Constants ==
  /\ HALF \in Nat /\ MAX_SEQ_NUM = 2 * HALF + 1
  /\ W \in Nat /\ 1 <= W /\ W <= HALF + 1
  /\ NoFrame \notin Frame
  BY HalfFact, WindowAssumption

\* Run counts the frames at the front of the receive window.
LEMMA RunProperties ==
  ASSUME NEW slots \in [1 .. W -> Frame \cup {NoFrame}]
  PROVE  /\ Run(slots) \in 0 .. W
         /\ \A i \in 1 .. Run(slots) : slots[i] # NoFrame
         /\ Run(slots) < W => slots[Run(slots) + 1] = NoFrame
<1> DEFINE P(n) == /\ \A i \in 1 .. n : slots[i] # NoFrame
                   /\ n < W => slots[n + 1] = NoFrame
           Empty == {i \in 1 .. W : slots[i] = NoFrame}
<1>1. \E n \in 0 .. W : P(n)
  <2>1. CASE Empty = {}
    BY <2>1, Constants
  <2>2. CASE Empty # {}
    <3>1. Empty \in SUBSET Nat  BY Constants
    <3>2. PICK e \in Empty : \A x \in Empty : e <= x  BY <2>2, <3>1, LeastNat
    <3>3. e - 1 \in 0 .. W /\ P(e - 1)  BY <3>2, Constants
    <3> QED  BY <3>3
  <2> QED  BY <2>1, <2>2
<1>2. Run(slots) \in 0 .. W /\ P(Run(slots))
  <2>1. Run(slots) = CHOOSE n \in 0 .. W : P(n)  BY DEF Run
  <2> HIDE DEF P
  <2> QED  BY <1>1, <2>1
<1> QED  BY <1>2
------------------------------------------------------------------------------
\* Lengths are naturals.
LEMMA Lengths ==
  ASSUME TypeOK
  PROVE  /\ Len(submitted) \in Nat /\ Len(buffered) \in Nat
         /\ Len(window) \in Nat /\ Len(data) \in Nat
         /\ Len(delivered) \in Nat /\ Len(acks) \in Nat
         /\ Forgotten \in Int /\ Received \in Nat
  BY DEF TypeOK, Forgotten, Received

\* What the channels hold.
LEMMA ChannelTypes ==
  ASSUME TypeOK
  PROVE  /\ DOMAIN data = 1 .. Len(data) /\ DOMAIN acks = 1 .. Len(acks)
         /\ DOMAIN window = 1 .. Len(window)
         /\ DOMAIN buffered = 1 .. Len(buffered)
         /\ \A i \in 1 .. Len(data) : /\ data[i] \in Frame
                                      /\ data[i].id \in Nat
                                      /\ data[i].seq \in SeqNums
         /\ \A i \in 1 .. Len(acks) : /\ acks[i] \in Frame
                                      /\ acks[i].id \in Nat
                                      /\ acks[i].seq \in SeqNums
<1>1. /\ data \in [1 .. Len(data) -> Frame]
      /\ acks \in [1 .. Len(acks) -> Frame]
      /\ window \in [1 .. Len(window) -> Frame]
      /\ buffered \in [1 .. Len(buffered) -> Frame]
  BY LenProperties DEF TypeOK
<1>2. \A f \in Frame : f.id \in Nat /\ f.seq \in SeqNums
  BY DEF Frame
<1> QED  BY <1>1, <1>2

\* Every number of the stream is a sequence number.
LEMMA StreamType ==
  ASSUME TypeOK, NEW n \in 0 .. Len(submitted) + 1
  PROVE  Stream[n] \in SeqNums
<1>1. MAX_SEQ_NUM \in SeqNums  BY SeqNumAssumption DEF SeqNums
<1>2. n \in Nat /\ (n # 0 /\ n <= Len(submitted) => n \in DOMAIN submitted)
  BY Lengths, LenProperties DEF TypeOK
<1> QED  BY <1>1, <1>2, LenProperties DEF TypeOK, Stream

\* Fewer than MAX_SEQ_NUM + 1 places apart, frames have different numbers.
LEMMA StreamDistinct ==
  ASSUME TypeOK, Consecutive,
         NEW i \in 0 .. Len(submitted) + 1, NEW j \in 0 .. Len(submitted) + 1,
         i < j, j <= i + MAX_SEQ_NUM
  PROVE  Stream[i] # Stream[j]
<1>0. Len(submitted) \in Nat /\ MAX_SEQ_NUM \in Nat
  BY Lengths, Constants
<1>1. Stream[j] = SeqAdd(Stream[i], j - i)
  BY <1>0 DEF Consecutive
<1>2. j - i \in 1 .. MAX_SEQ_NUM
  BY <1>0
<1> QED  BY <1>1, <1>2, StreamType, SeqAddDistinct

\* A step that submits nothing leaves the stream as it is.
LEMMA StreamUnchanged ==
  ASSUME UNCHANGED <<submitted, currSeq>>
  PROVE  /\ Stream' = Stream
         /\ Consecutive => Consecutive'
  BY DEF Stream, Consecutive

\* A frame that passes recv_frame_in_window is the one its slot is for.
LEMMA PlaceInWindow ==
  ASSUME TypeOK, Consecutive,
         NEW r \in 0 .. Len(submitted) + 1, NEW n \in 0 .. Len(submitted) + 1,
         r < n + W, n <= r + W,
         SeqNumDiff(Stream[r], Stream[n]) \in 1 .. W
  PROVE  n = r + SeqNumDiff(Stream[r], Stream[n])
<1> DEFINE x == Stream[r]
           y == Stream[n]
<1>0. Len(submitted) \in Nat  BY Lengths
<1>1. x \in SeqNums /\ y \in SeqNums  BY StreamType
<1>2. CASE r <= n /\ n - r <= HALF
  <2>1. y = SeqAdd(x, n - r)  BY <1>0, <1>2, Constants DEF Consecutive
  <2>2. n - r \in 0 .. HALF  BY <1>0, <1>2, Constants
  <2>3. SeqNumDiff(x, y) = n - r
    <3> HIDE DEF x, y
    <3> QED  BY <1>1, <2>1, <2>2, DiffAhead
  <2> QED  BY <1>0, <2>3
<1>3. CASE n < r
  <2>1. x = SeqAdd(y, r - n)  BY <1>0, <1>3, Constants DEF Consecutive
  <2>2. r - n \in 0 .. HALF /\ -(r - n) < 0  BY <1>0, <1>3, Constants
  <2>3. SeqNumDiff(x, y) = -(r - n)
    <3> HIDE DEF x, y
    <3> QED  BY <1>1, <2>1, <2>2, DiffBehind
  <2> QED  BY <1>0, <2>2, <2>3, Constants
<1>4. CASE n - r = HALF + 1
  <2>1. y = SeqAdd(x, HALF + 1)  BY <1>0, <1>4, Constants DEF Consecutive
  <2>2. SeqNumDiff(x, y) \in {HALF + 1, -(HALF + 1)}
    <3> HIDE DEF x, y
    <3> QED  BY <1>1, <2>1, DiffOpposite
  <2> QED  BY <1>0, <1>4, <2>2, Constants
<1>5. n - r <= HALF + 1  BY <1>0, Constants
<1> QED  BY <1>0, <1>2, <1>3, <1>4, <1>5, Constants

\* An acknowledgement in flight frees exactly the frames it covers.
LEMMA AcknowledgedExactly ==
  ASSUME IInv, acks # << >>
  PROVE  Forgotten + Acknowledged(Head(acks).seq) = Head(acks).id
<1> DEFINE a == Head(acks)
           b == Forgotten
<1>0. /\ Len(submitted) \in Nat /\ Len(window) \in Nat /\ Len(buffered) \in Nat
      /\ Len(window) <= W /\ Len(acks) \in Nat /\ b \in Nat
      /\ b + Len(window) <= Len(submitted) /\ Received \in Nat
      /\ DOMAIN window = 1 .. Len(window)
  BY Lengths, LenProperties DEF IInv, TypeOK, SenderInv, Forgotten
<1>1. /\ a.id \in Nat /\ a.seq \in SeqNums /\ b <= a.id /\ a.id <= b + Len(window)
      /\ a.seq = Stream[a.id]
  <2>1. acks \in Seq(Frame)  BY DEF IInv, TypeOK
  <2>2. a = acks[1] /\ 1 \in DOMAIN acks /\ a \in Frame
    BY <2>1, <1>0, HeadTailProperties
  <2> QED  BY <2>2, <1>0 DEF IInv, AckInv, ReceiverInv, Frame
<1>2. \A i \in 1 .. Len(window) :
        window[i].seq = Stream[b + i] /\ Stream[b + i] \in SeqNums
  <2> SUFFICES ASSUME NEW i \in 1 .. Len(window)
               PROVE  window[i].seq = Stream[b + i] /\ Stream[b + i] \in SeqNums
    OBVIOUS
  <2>1. b + i \in 0 .. Len(submitted) + 1  BY <1>0
  <2>2. window[i] = [id |-> b + i, seq |-> Stream[b + i]]
    BY <1>0 DEF IInv, SenderInv
  <2> QED  BY <2>1, <2>2, StreamType DEF IInv
<1>3. CASE a.id = b
  <2>1. CASE window = << >>
    BY <2>1, <1>3, <1>0 DEF Acknowledged
  <2>2. CASE window # << >>
    <3>1. Head(window) = window[1] /\ 1 <= Len(window)
      BY <2>2, <1>0 DEF IInv, TypeOK
    <3>2. \A i \in DOMAIN window : window[i].seq # a.seq
      <4> SUFFICES ASSUME NEW i \in 1 .. Len(window)
                   PROVE  Stream[b + i] # Stream[b]
        BY <1>0, <1>1, <1>2, <1>3
      <4>1. /\ b \in 0 .. Len(submitted) + 1 /\ b + i \in 0 .. Len(submitted) + 1
            /\ b < b + i /\ b + i <= b + MAX_SEQ_NUM
        BY <1>0, Constants
      <4> HIDE DEF b
      <4> QED  BY <4>1, StreamDistinct DEF IInv
    <3> QED  BY <3>2, <1>3, <1>0 DEF Acknowledged
  <2> QED  BY <2>1, <2>2
<1>4. CASE a.id # b
  <2> DEFINE k == a.id - b
  <2>1. k \in 1 .. Len(window) /\ b + k = a.id  BY <1>0, <1>1, <1>4
  <2>2. window # << >> /\ Head(window) = window[1]
    BY <2>1, <1>0 DEF IInv, TypeOK
  <2>3. ~(SeqNumDiff(Head(window).seq, a.seq) < 0)
    <3>1. /\ b + 1 \in 0 .. Len(submitted) + 1 /\ a.id \in 0 .. Len(submitted) + 1
          /\ k - 1 \in 0 .. HALF /\ b + 1 <= a.id /\ a.id - (b + 1) = k - 1
          /\ a.id <= b + 1 + MAX_SEQ_NUM + 1
      <4>1. a.id \in Nat /\ b < a.id /\ a.id <= b + Len(window)
        BY <1>0, <1>1, <1>4
      <4> HIDE DEF a, b
      <4> QED  BY <4>1, <1>0, Constants, SMTT(40)
    <3>2. Stream[a.id] = SeqAdd(Stream[b + 1], k - 1)
      BY <3>1 DEF IInv, Consecutive
    <3>3. Head(window).seq = Stream[b + 1] /\ Stream[b + 1] \in SeqNums
      BY <2>1, <2>2, <1>0, <1>2
    <3>4. SeqNumDiff(Stream[b + 1], Stream[a.id]) = k - 1
      BY <3>1, <3>2, <3>3, DiffAhead
    <3> QED  BY <3>1, <3>3, <3>4, <1>1, Constants
  <2>4. \A i \in DOMAIN window : window[i].seq = a.seq <=> i = k
    <3> SUFFICES ASSUME NEW i \in 1 .. Len(window)
                 PROVE  Stream[b + i] = Stream[b + k] <=> i = k
      BY <2>1, <1>0, <1>1, <1>2
    <3>1. /\ b + i \in 0 .. Len(submitted) + 1 /\ b + k \in 0 .. Len(submitted) + 1
          /\ Stream[b + i] \in SeqNums /\ Stream[b + k] \in SeqNums
      BY <1>0, <1>2, <2>1
    <3>2. CASE i < k
      <4>1. b + i < b + k /\ b + k <= b + i + MAX_SEQ_NUM
        BY <3>2, <1>0, <2>1, Constants
      <4> HIDE DEF b, k
      <4> QED  BY <3>1, <3>2, <4>1, StreamDistinct DEF IInv
    <3>3. CASE k < i
      <4>1. b + k < b + i /\ b + i <= b + k + MAX_SEQ_NUM
        BY <3>3, <1>0, <2>1, Constants
      <4> HIDE DEF b, k
      <4> QED  BY <3>1, <3>3, <4>1, StreamDistinct DEF IInv
    <3> QED  BY <3>2, <3>3, <2>1, <1>0
  <2>5. {i \in DOMAIN window : window[i].seq = a.seq} = {k}
    BY <2>1, <2>4, <1>0
  <2>6. Acknowledged(a.seq) = k
    <3> HIDE DEF k
    <3>1. (CHOOSE i \in {k} : \A j \in {k} : i <= j) = k
      BY <2>1
    <3> QED  BY <2>2, <2>3, <2>5, <3>1 DEF Acknowledged
  <2> QED  BY <2>1, <2>6
<1> QED  BY <1>3, <1>4
------------------------------------------------------------------------------
\* Nothing is in flight at first (init_host).
LEMMA InitIInv == Init => IInv
<1> SUFFICES ASSUME Init PROVE IInv
  OBVIOUS
<1>0. 0 \in SeqNums /\ MAX_SEQ_NUM \in SeqNums /\ SeqAdd(MAX_SEQ_NUM, 1) = 0
  BY Constants DEF SeqNums, SeqAdd
<1>1. TypeOK
  BY <1>0, Constants DEF Init, TypeOK
<1>2. Consecutive
  <2> SUFFICES ASSUME NEW i \in 0 .. 1, NEW j \in 0 .. 1, i <= j
               PROVE  Stream[j] = SeqAdd(Stream[i], j - i)
    BY DEF Init, Consecutive
  <2>1. Stream[0] = MAX_SEQ_NUM /\ Stream[1] = 0
    BY DEF Init, Stream
  <2>2. SeqAdd(0, 0) = 0 /\ SeqAdd(MAX_SEQ_NUM, 0) = MAX_SEQ_NUM
    BY Constants DEF SeqAdd
  <2> QED  BY <1>0, <2>1, <2>2
<1>3. Forgotten = 0 /\ Received = 0
  <2>1. Len(submitted) = 0 /\ Len(buffered) = 0 /\ Len(window) = 0 /\ Len(delivered) = 0
    BY DEF Init
  <2> QED  BY <2>1 DEF Forgotten, Received
<1>4. SenderInv
  BY <1>3 DEF Init, SenderInv
<1>5. ReceiverInv
  BY <1>3, Constants DEF Init, ReceiverInv, Stream
<1>6. DataInv /\ AckInv /\ \A i \in DOMAIN delivered : delivered[i] = i
  BY DEF Init, DataInv, AckInv
<1> QED  BY <1>1, <1>2, <1>4, <1>5, <1>6 DEF IInv

\* A new frame extends the stream (handle_input_cmds).
LEMMA SubmitIInv == IInv /\ Submit => IInv'
<1> SUFFICES ASSUME IInv, Submit PROVE IInv'
  OBVIOUS
<1> DEFINE L == Len(submitted)
           f == [id |-> L + 1, seq |-> currSeq]
<1>0. /\ L \in Nat /\ Len(window) \in Nat /\ Len(buffered) \in Nat
      /\ Forgotten \in Nat /\ Received \in Nat /\ TypeOK /\ Consecutive
  BY Lengths DEF IInv, SenderInv
<1>1. /\ submitted' \in Seq(SeqNums) /\ Len(submitted') = L + 1
      /\ \A i \in 1 .. L : submitted'[i] = submitted[i]
      /\ submitted'[L + 1] = currSeq
  BY <1>0, AppendProperties DEF Submit, TypeOK
<1>2. /\ buffered' \in Seq(Frame) /\ Len(buffered') = Len(buffered) + 1
      /\ \A i \in 1 .. Len(buffered) : buffered'[i] = buffered[i]
      /\ buffered'[Len(buffered) + 1] = f
  <2>1. f \in Frame  BY <1>0 DEF TypeOK, Frame
  <2> QED  BY <1>0, <2>1, AppendProperties DEF Submit, TypeOK
<1>3. currSeq' = SeqAdd(currSeq, 1) /\ currSeq' \in SeqNums
  <2>1. 1 \in 0 .. MAX_SEQ_NUM + 1  BY Constants
  <2> QED  BY <1>0, <2>1, SeqAddType DEF Submit, SeqInc, TypeOK
<1>4. TypeOK'
  BY <1>0, <1>1, <1>2, <1>3 DEF Submit, TypeOK, receiverVars
<1>5. \A n \in 0 .. L + 1 : Stream'[n] = Stream[n]
  BY <1>0, <1>1 DEF Stream
<1>6. Stream'[L + 2] = SeqAdd(Stream[L + 1], 1) /\ Stream[L + 1] = currSeq
  BY <1>0, <1>1, <1>3 DEF Stream
<1>7. Consecutive'
  <2> SUFFICES ASSUME NEW i \in 0 .. L + 2, NEW j \in 0 .. L + 2,
                      i <= j, j <= i + MAX_SEQ_NUM + 1
               PROVE  Stream'[j] = SeqAdd(Stream'[i], j - i)
    BY <1>0, <1>1 DEF Consecutive
  <2>1. CASE j <= L + 1
    BY <2>1, <1>0, <1>5 DEF Consecutive
  <2>2. CASE i = L + 2
    <3>1. j = i /\ Stream'[i] \in SeqNums
      BY <2>2, <1>0, <1>1, <1>3 DEF Stream
    <3> QED  BY <3>1, Constants DEF SeqAdd, SeqNums
  <2>3. CASE j = L + 2 /\ i <= L + 1
    <3>0. i \in 0 .. L + 1 /\ L + 1 \in 0 .. L + 1 /\ i <= L + 1
          /\ L + 1 <= i + MAX_SEQ_NUM + 1
      BY <2>3, <1>0, Constants
    <3>1. /\ Stream[L + 1] = SeqAdd(Stream[i], L + 1 - i)
          /\ Stream[i] \in SeqNums
      BY <3>0, <1>0, StreamType DEF Consecutive
    <3>2. /\ L + 1 - i \in Nat /\ (L + 1 - i) + 1 = j - i
          /\ (L + 1 - i) + 1 <= MAX_SEQ_NUM + 1
      BY <2>3, <1>0, Constants
    <3>3. SeqAdd(SeqAdd(Stream[i], L + 1 - i), 1)
            = SeqAdd(Stream[i], (L + 1 - i) + 1)
      BY <3>1, <3>2, SeqAddAdd
    <3> QED  BY <2>3, <3>1, <3>2, <3>3, <1>0, <1>5, <1>6
  <2> QED  BY <2>1, <2>2, <2>3, <1>0
<1>8. Forgotten' = Forgotten /\ Received' = Received /\ Len(window)' = Len(window)
  BY <1>0, <1>1, <1>2 DEF Submit, Forgotten, Received, receiverVars
<1>9. SenderInv'
  <2>1. ASSUME NEW i \in DOMAIN window
        PROVE  window[i] = [id |-> Forgotten + i, seq |-> Stream'[Forgotten + i]]
    <3>1. i \in 1 .. Len(window) /\ Forgotten + i \in 0 .. L + 1
      BY <1>0, LenProperties DEF TypeOK, Forgotten
    <3> QED  BY <3>1, <1>5 DEF IInv, SenderInv
  <2>2. ASSUME NEW i \in DOMAIN buffered'
        PROVE  LET n == Forgotten + Len(window) + i
               IN  buffered'[i] = [id |-> n, seq |-> Stream'[n]]
    <3>1. i \in 1 .. Len(buffered) + 1  BY <1>2, LenProperties
    <3>2. CASE i <= Len(buffered)
      <4>1. /\ i \in DOMAIN buffered
            /\ Forgotten + Len(window) + i \in 0 .. L + 1
        BY <3>1, <3>2, <1>0, LenProperties DEF TypeOK, Forgotten
      <4> QED  BY <3>1, <3>2, <4>1, <1>2, <1>5 DEF IInv, SenderInv
    <3>3. CASE i = Len(buffered) + 1
      <4>1. Forgotten + Len(window) + i = L + 1  BY <3>3, <1>0 DEF Forgotten
      <4> QED  BY <3>3, <4>1, <1>0, <1>2, <1>5, <1>6
    <3> QED  BY <3>1, <3>2, <3>3, <1>0
  <2>3. window' = window  BY DEF Submit
  <2> QED  BY <1>0, <1>8, <2>1, <2>2, <2>3 DEF SenderInv
<1>10. ReceiverInv'
  <2>1. Received \in 0 .. L + 1  BY <1>0 DEF IInv, ReceiverInv, Forgotten
  <2> QED  BY <1>5, <1>8, <2>1 DEF IInv, ReceiverInv, Submit, receiverVars
<1>11. DataInv'
  <2>1. \A i \in DOMAIN data : data[i].id \in 0 .. L + 1
    <3> SUFFICES ASSUME NEW i \in 1 .. Len(data)
                 PROVE  data[i].id \in 0 .. L + 1
      BY <1>0, ChannelTypes
    <3>1. data[i].id \in Nat /\ data[i].id <= Forgotten + Len(window)
      BY <1>0, ChannelTypes DEF IInv, DataInv
    <3> QED  BY <3>1, <1>0 DEF Forgotten
  <2> QED  BY <1>5, <1>8, <2>1 DEF IInv, DataInv, Submit, receiverVars
<1>12. AckInv'
  <2>1. \A i \in DOMAIN acks : acks[i].id \in 0 .. L + 1
    <3> SUFFICES ASSUME NEW i \in 1 .. Len(acks)
                 PROVE  acks[i].id \in 0 .. L + 1
      BY <1>0, ChannelTypes
    <3>1. /\ acks[i].id \in Nat /\ acks[i].id <= Received
          /\ Received <= Forgotten + Len(window)
      BY <1>0, ChannelTypes DEF IInv, AckInv, ReceiverInv
    <3> QED  BY <3>1, <1>0 DEF Forgotten
  <2> QED  BY <1>5, <1>8, <2>1 DEF IInv, AckInv, Submit, receiverVars
<1>13. (\A i \in DOMAIN delivered : delivered[i] = i)'
  BY DEF IInv, Submit, receiverVars
<1> QED  BY <1>4, <1>7, <1>9, <1>10, <1>11, <1>12, <1>13 DEF IInv

\* A frame may be lost anywhere in the channel (send_data_frames, frame_valid).
LEMMA LoseDataIInv == IInv /\ LoseData => IInv'
<1> SUFFICES ASSUME IInv, LoseData PROVE IInv'
  OBVIOUS
<1> USE DEF senderVars, receiverVars
<1>0. /\ TypeOK /\ Len(data) \in Nat
      /\ UNCHANGED <<submitted, currSeq, buffered, window, recvWindow, lfr,
                     delivered, acks, Stream, Forgotten, Received>>
  BY Lengths, StreamUnchanged DEF IInv, LoseData, Forgotten, Received
<1>1. PICK k \in 1 .. Len(data) : data' = RemoveAt(data, k)
  BY <1>0, ChannelTypes DEF LoseData
<1>2. /\ data' \in Seq(Frame) /\ Len(data') = Len(data) - 1
      /\ \A j \in 1 .. Len(data) - 1 :
           data'[j] = IF j < k THEN data[j] ELSE data[j + 1]
  BY <1>0, <1>1, RemoveAtProperties DEF TypeOK
<1>3. TypeOK'
  BY <1>0, <1>2 DEF TypeOK
<1>4. DataInv'
  <2> SUFFICES ASSUME NEW i \in 1 .. Len(data) - 1
               PROVE  /\ 0 < data'[i].id /\ data'[i].id <= Forgotten + Len(window)
                      /\ data'[i].seq = Stream[data'[i].id]
                      /\ Received < data'[i].id + W
                      /\ \A j \in 1 .. W : recvWindow[j] # NoFrame =>
                                             recvWindow[j].id < data'[i].id + W
                      /\ \A j \in 1 .. i - 1 : data'[j].id < data'[i].id + W
    BY <1>0, <1>2, LenProperties DEF DataInv
  <2> DEFINE old(n) == IF n < k THEN n ELSE n + 1
  <2>1. /\ old(i) \in 1 .. Len(data) /\ data'[i] = data[old(i)]
        /\ \A j \in 1 .. i - 1 : /\ old(j) \in 1 .. old(i) - 1
                                 /\ data'[j] = data[old(j)]
    <3>1. \A n \in 1 .. Len(data) - 1 : /\ old(n) \in 1 .. Len(data)
                                        /\ data'[n] = data[old(n)]
      BY <1>0, <1>2
    <3>2. \A j \in 1 .. i - 1 : j \in 1 .. Len(data) - 1 /\ old(j) < old(i)
      BY <1>0
    <3> HIDE DEF old
    <3> QED  BY <3>1, <3>2, <1>0
  <2> HIDE DEF old
  <2> QED  BY <2>1, <1>0, ChannelTypes DEF IInv, DataInv
<1> QED
  BY <1>0, <1>3, <1>4 DEF IInv, Consecutive, SenderInv, ReceiverInv, AckInv

\* An acknowledgement may be lost anywhere in the channel (frame_valid).
LEMMA LoseAckIInv == IInv /\ LoseAck => IInv'
<1> SUFFICES ASSUME IInv, LoseAck PROVE IInv'
  OBVIOUS
<1> USE DEF senderVars, receiverVars
<1>0. /\ TypeOK /\ Len(acks) \in Nat
      /\ UNCHANGED <<submitted, currSeq, buffered, window, recvWindow, lfr,
                     delivered, data, Stream, Forgotten, Received>>
  BY Lengths, StreamUnchanged DEF IInv, LoseAck, Forgotten, Received
<1>1. PICK k \in 1 .. Len(acks) : acks' = RemoveAt(acks, k)
  BY <1>0, ChannelTypes DEF LoseAck
<1>2. /\ acks' \in Seq(Frame) /\ Len(acks') = Len(acks) - 1
      /\ \A j \in 1 .. Len(acks) - 1 :
           acks'[j] = IF j < k THEN acks[j] ELSE acks[j + 1]
  BY <1>0, <1>1, RemoveAtProperties DEF TypeOK
<1>3. TypeOK'
  BY <1>0, <1>2 DEF TypeOK
<1>4. AckInv'
  <2> SUFFICES ASSUME NEW i \in 1 .. Len(acks) - 1
               PROVE  /\ Forgotten <= acks'[i].id /\ acks'[i].id <= Received
                      /\ acks'[i].seq = Stream[acks'[i].id]
                      /\ \A j \in 1 .. i - 1 : acks'[j].id <= acks'[i].id
    BY <1>0, <1>2, LenProperties DEF AckInv
  <2> DEFINE old(n) == IF n < k THEN n ELSE n + 1
  <2>1. /\ old(i) \in 1 .. Len(acks) /\ acks'[i] = acks[old(i)]
        /\ \A j \in 1 .. i - 1 : /\ old(j) \in 1 .. old(i) - 1
                                 /\ acks'[j] = acks[old(j)]
    <3>1. \A n \in 1 .. Len(acks) - 1 : /\ old(n) \in 1 .. Len(acks)
                                        /\ acks'[n] = acks[old(n)]
      BY <1>0, <1>2
    <3>2. \A j \in 1 .. i - 1 : j \in 1 .. Len(acks) - 1 /\ old(j) < old(i)
      BY <1>0
    <3> HIDE DEF old
    <3> QED  BY <3>1, <3>2, <1>0
  <2> HIDE DEF old
  <2> QED  BY <2>1, <1>0, ChannelTypes DEF IInv, AckInv
<1> QED
  BY <1>0, <1>3, <1>4 DEF IInv, Consecutive, SenderInv, ReceiverInv, DataInv

\* Frames added at the end of the channel lie less than W behind what can be
\* received before them, since they come from one window.
LEMMA DataExtended ==
  ASSUME IInv, NEW new \in Seq(Frame), NEW top \in Nat,
         Forgotten + Len(window) <= top, top <= Forgotten + W,
         \A i \in 1 .. Len(new) : /\ Forgotten < new[i].id /\ new[i].id <= top
                                  /\ new[i].seq = Stream[new[i].id]
  PROVE  /\ data \o new \in Seq(Frame)
         /\ \A i \in 1 .. Len(data \o new) :
              LET f == (data \o new)[i]
              IN  /\ 0 < f.id /\ f.id <= top
                  /\ f.seq = Stream[f.id]
                  /\ Received < f.id + W
                  /\ \A j \in 1 .. W : recvWindow[j] # NoFrame =>
                                         recvWindow[j].id < f.id + W
                  /\ \A j \in 1 .. i - 1 : (data \o new)[j].id < f.id + W
<1> DEFINE q == data \o new
<1>0. /\ TypeOK /\ Len(data) \in Nat /\ Len(new) \in Nat /\ Forgotten \in Nat
      /\ Received \in Nat /\ W \in Nat /\ Len(window) \in Nat
      /\ DOMAIN data = 1 .. Len(data)
  BY Lengths, ChannelTypes, Constants DEF IInv, SenderInv
<1>1. /\ q \in Seq(Frame) /\ Len(q) = Len(data) + Len(new)
      /\ \A i \in 1 .. Len(data) + Len(new) :
           q[i] = IF i <= Len(data) THEN data[i] ELSE new[i - Len(data)]
  BY <1>0, ConcatProperties DEF TypeOK
<1>2. \A i \in 1 .. Len(q) : q[i] \in Frame /\ q[i].id \in Nat
  <2>1. q \in [1 .. Len(q) -> Frame]  BY <1>1, LenProperties
  <2>2. \A f \in Frame : f.id \in Nat  BY DEF Frame
  <2> HIDE DEF q
  <2> QED  BY <2>1, <2>2
<1>3. \A i \in 1 .. Len(q) : q[i].id <= top
  <2> SUFFICES ASSUME NEW i \in 1 .. Len(q) PROVE q[i].id <= top
    OBVIOUS
  <2>1. CASE i <= Len(data)
    <3>1. i \in 1 .. Len(data) /\ q[i] = data[i]  BY <2>1, <1>0, <1>1
    <3>2. data[i].id \in Nat /\ data[i].id <= Forgotten + Len(window)
      BY <3>1, <1>0, ChannelTypes DEF IInv, DataInv
    <3> QED  BY <3>1, <3>2, <1>0
  <2>2. CASE ~(i <= Len(data))
    <3>1. i - Len(data) \in 1 .. Len(new) /\ q[i] = new[i - Len(data)]
      BY <2>2, <1>0, <1>1
    <3> QED  BY <3>1
  <2> QED  BY <2>1, <2>2
<1>4. \A j \in 1 .. W : recvWindow[j] # NoFrame =>
        recvWindow[j].id \in Nat /\ recvWindow[j].id <= top
  <2> SUFFICES ASSUME NEW j \in 1 .. W, recvWindow[j] # NoFrame
               PROVE  recvWindow[j].id \in Nat /\ recvWindow[j].id <= top
    OBVIOUS
  <2>1. recvWindow[j] \in Frame  BY <1>0 DEF TypeOK
  <2>2. recvWindow[j].id \in Nat  BY <2>1 DEF Frame
  <2>3. recvWindow[j].id <= Forgotten + Len(window)  BY DEF IInv, ReceiverInv
  <2> QED  BY <2>2, <2>3, <1>0
<1> HIDE DEF q
<1>5. ASSUME NEW i \in 1 .. Len(q)
      PROVE  /\ 0 < q[i].id /\ q[i].id <= top
             /\ q[i].seq = Stream[q[i].id]
             /\ Received < q[i].id + W
             /\ \A j \in 1 .. W : recvWindow[j] # NoFrame =>
                                    recvWindow[j].id < q[i].id + W
             /\ \A j \in 1 .. i - 1 : q[j].id < q[i].id + W
  <2>1. CASE i <= Len(data)
    <3>1. i \in 1 .. Len(data) /\ q[i] = data[i]  BY <2>1, <1>0, <1>1
    <3>2. \A j \in 1 .. i - 1 : q[j] = data[j]  BY <2>1, <1>0, <1>1
    <3> QED  BY <3>1, <3>2, <1>0, <1>3 DEF IInv, DataInv
  <2>2. CASE ~(i <= Len(data))
    <3>1. i - Len(data) \in 1 .. Len(new) /\ q[i] = new[i - Len(data)]
      BY <2>2, <1>0, <1>1
    <3>2. /\ Forgotten < q[i].id /\ q[i].id \in Nat /\ q[i].id <= top
          /\ q[i].seq = Stream[q[i].id]
      BY <3>1, <1>2
    <3>3. \A n \in Nat : n <= top => n < q[i].id + W  BY <3>2, <1>0
    <3>4. Received <= top  BY <1>0 DEF IInv, ReceiverInv
    <3>5. \A j \in 1 .. i - 1 : j \in 1 .. Len(q)  BY <1>0, <1>1
    <3>6. /\ 0 < q[i].id
          /\ Received < q[i].id + W
      BY <3>2, <3>3, <3>4, <1>0
    <3>7. \A j \in 1 .. W : recvWindow[j] # NoFrame =>
                              recvWindow[j].id < q[i].id + W
      BY <3>3, <1>4
    <3>8. \A j \in 1 .. i - 1 : q[j].id < q[i].id + W
      BY <3>3, <3>5, <1>2, <1>3
    <3> QED  BY <3>2, <3>6, <3>7, <3>8
  <2> QED  BY <2>1, <2>2
<1> QED  BY <1>1, <1>5 DEF q

\* Every frame of the window is one the sender has not forgotten.
LEMMA WindowFrames ==
  ASSUME IInv, NEW f \in Range(window)
  PROVE  /\ f \in Frame /\ f.id \in Nat /\ f.seq = Stream[f.id]
         /\ Forgotten < f.id /\ f.id <= Forgotten + Len(window)
<1>0. /\ TypeOK /\ Len(window) \in Nat /\ Forgotten \in Nat
  BY Lengths DEF IInv, SenderInv
<1>1. PICK i \in 1 .. Len(window) : f = window[i]
  BY <1>0, ChannelTypes DEF Range
<1>2. f = [id |-> Forgotten + i, seq |-> Stream[Forgotten + i]] /\ f \in Frame
  BY <1>0, <1>1, ChannelTypes, LenProperties DEF IInv, SenderInv, TypeOK
<1>3. f.id = Forgotten + i /\ f.seq = Stream[Forgotten + i]
  BY <1>2
<1> QED  BY <1>0, <1>2, <1>3

\* Frames are sent again, and new ones for the first time
\* (handle_outgoing_frames).
LEMMA SendFramesIInv == IInv /\ SendFrames => IInv'
<1> SUFFICES ASSUME IInv, SendFrames PROVE IInv'
  OBVIOUS
<1> USE DEF senderVars, receiverVars
<1>0. /\ TypeOK /\ Len(data) \in Nat /\ Len(window) \in Nat /\ W \in Nat
      /\ Len(buffered) \in Nat /\ Forgotten \in Nat /\ Len(submitted) \in Nat
      /\ UNCHANGED <<submitted, currSeq, recvWindow, lfr, delivered, acks,
                     Stream, Received>>
  BY Lengths, StreamUnchanged, Constants DEF IInv, SenderInv, SendFrames, Received
<1>1. PICK n \in 0 .. W, k \in 0 .. Len(buffered) :
        /\ Len(window) + k <= W
        /\ \E again \in [1 .. n -> Range(window)] :
             data' = (data \o again) \o SubSeq(buffered, 1, k)
        /\ window' = window \o SubSeq(buffered, 1, k)
        /\ buffered' = SubSeq(buffered, k + 1, Len(buffered))
  BY <1>0 DEF SendFrames
<1>2. PICK again \in [1 .. n -> Range(window)] :
             data' = (data \o again) \o SubSeq(buffered, 1, k)
  BY <1>1
<1> DEFINE first == SubSeq(buffered, 1, k)
           rest  == SubSeq(buffered, k + 1, Len(buffered))
           top   == Forgotten + Len(window) + k
<1>3. \A i \in 1 .. Len(buffered) : buffered[i] \in Frame
  BY <1>0, LenProperties DEF TypeOK
<1>4. /\ first \in Seq(Frame) /\ Len(first) = k
      /\ \A i \in 1 .. k : first[i] = buffered[i]
  <2>1. \A i \in 1 .. k : buffered[i] \in Frame  BY <1>0, <1>3
  <2>2. k \in Int /\ (1 <= k \/ k = 0)  BY <1>0
  <2>3. /\ first \in Seq(Frame)
        /\ Len(first) = IF 1 <= k THEN k - 1 + 1 ELSE 0
        /\ \A i \in 1 .. k - 1 + 1 : first[i] = buffered[1 + i - 1]
    BY <2>1, <2>2, SubSeqProperties
  <2> HIDE DEF first
  <2> QED  BY <2>2, <2>3
<1>5. /\ rest \in Seq(Frame) /\ Len(rest) = Len(buffered) - k
      /\ \A i \in 1 .. Len(buffered) - k : rest[i] = buffered[k + i]
  <2>1. \A i \in k + 1 .. Len(buffered) : buffered[i] \in Frame  BY <1>0, <1>3
  <2>2. k + 1 \in Int /\ Len(buffered) \in Int  BY <1>0
  <2>3. /\ rest \in Seq(Frame)
        /\ Len(rest) = IF k + 1 <= Len(buffered)
                         THEN Len(buffered) - (k + 1) + 1 ELSE 0
        /\ \A i \in 1 .. Len(buffered) - (k + 1) + 1 : rest[i] = buffered[k + 1 + i - 1]
    BY <2>1, <2>2, SubSeqProperties
  <2> HIDE DEF rest
  <2> QED  BY <1>0, <2>3
<1>6. again \in Seq(Frame) /\ Len(again) = n
  <2>1. \A f \in Range(window) : f \in Frame  BY WindowFrames
  <2>2. again \in [1 .. n -> Frame]  BY <2>1
  <2> QED  BY <2>2, <1>0
<1> HIDE DEF first, rest
<1>7. /\ window' \in Seq(Frame) /\ Len(window') = Len(window) + k
      /\ \A i \in 1 .. Len(window) + k :
           window'[i] = IF i <= Len(window) THEN window[i]
                        ELSE buffered[i - Len(window)]
  <2>1. /\ window' = window \o first /\ window \in Seq(Frame)
    BY <1>0, <1>1 DEF first, TypeOK
  <2>2. /\ window' \in Seq(Frame) /\ Len(window') = Len(window) + Len(first)
        /\ \A i \in 1 .. Len(window) + Len(first) :
             window'[i] = IF i <= Len(window) THEN window[i]
                          ELSE first[i - Len(window)]
    BY <1>4, <2>1, ConcatProperties
  <2>3. \A i \in 1 .. Len(window) + k :
          ~(i <= Len(window)) => i - Len(window) \in 1 .. k
    BY <1>0
  <2> QED  BY <1>4, <2>2, <2>3
<1>8. buffered' = rest
  BY <1>1 DEF rest
<1>9. /\ Forgotten' = Forgotten /\ top \in Nat
      /\ Forgotten' + Len(window') = top
      /\ Forgotten + Len(window) <= top /\ top <= Forgotten + W
  <2>1. /\ Len(submitted') = Len(submitted)
        /\ Len(buffered') = Len(buffered) - k
        /\ Len(window') = Len(window) + k
    BY <1>0, <1>5, <1>7, <1>8
  <2>2. Forgotten' = Forgotten
    BY <2>1, <1>0 DEF Forgotten
  <2> QED  BY <2>1, <2>2, <1>0, <1>1
<1>10. SenderInv'
  <2>1. ASSUME NEW i \in 1 .. Len(window) + k
        PROVE  window'[i] = [id |-> Forgotten + i, seq |-> Stream[Forgotten + i]]
    <3>1. CASE i <= Len(window)
      <4>1. i \in DOMAIN window /\ window'[i] = window[i]
        BY <3>1, <1>0, <1>7, ChannelTypes
      <4> QED  BY <4>1 DEF IInv, SenderInv
    <3>2. CASE ~(i <= Len(window))
      <4> DEFINE m == i - Len(window)
      <4>1. /\ m \in 1 .. Len(buffered)
            /\ Forgotten + Len(window) + m = Forgotten + i
        BY <3>2, <1>0
      <4>2. window'[i] = buffered[m]  BY <3>2, <1>7
      <4> HIDE DEF m
      <4> QED  BY <4>1, <4>2, <1>0, ChannelTypes DEF IInv, SenderInv
    <3> QED  BY <3>1, <3>2
  <2>2. ASSUME NEW i \in 1 .. Len(buffered) - k
        PROVE  LET m == Forgotten + (Len(window) + k) + i
               IN  buffered'[i] = [id |-> m, seq |-> Stream[m]]
    <3>1. /\ k + i \in 1 .. Len(buffered) /\ buffered'[i] = buffered[k + i]
          /\ Forgotten + Len(window) + (k + i) = Forgotten + (Len(window) + k) + i
      BY <1>0, <1>5, <1>8, SMTT(40)
    <3> QED  BY <3>1, <1>0, ChannelTypes DEF IInv, SenderInv
  <2>3. DOMAIN window' = 1 .. Len(window) + k
    BY <1>7, LenProperties
  <2>4. DOMAIN buffered' = 1 .. Len(buffered) - k
    BY <1>5, <1>8, LenProperties
  <2> QED  BY <2>1, <2>2, <2>3, <2>4, <1>0, <1>7, <1>9, SMTT(40) DEF SenderInv
<1>11. data' \in Seq(Frame) /\ DataInv'
  <2> DEFINE new == again \o first
  <2>1. /\ new \in Seq(Frame) /\ Len(new) = n + k
        /\ \A i \in 1 .. n + k : new[i] = IF i <= n THEN again[i] ELSE first[i - n]
    BY <1>4, <1>6, ConcatProperties
  <2>2. data' = data \o new
    <3>1. data' = (data \o again) \o first  BY <1>2 DEF first
    <3>2. data \in Seq(Frame)  BY <1>0 DEF TypeOK
    <3> QED  BY <3>1, <3>2, <1>4, <1>6, ConcatAssociative, SMTT(40)
  <2> HIDE DEF new
  <2>3. ASSUME NEW i \in 1 .. Len(new)
        PROVE  /\ Forgotten < new[i].id /\ new[i].id <= top
               /\ new[i].seq = Stream[new[i].id]
    <3>1. CASE i <= n
      <4>1. i \in 1 .. n /\ new[i] = again[i] /\ again[i] \in Range(window)
        BY <3>1, <2>1
      <4>2. /\ new[i].id \in Nat /\ new[i].seq = Stream[new[i].id]
            /\ Forgotten < new[i].id /\ new[i].id <= Forgotten + Len(window)
        BY <4>1, WindowFrames
      <4> QED  BY <4>2, <1>0
    <3>2. CASE ~(i <= n)
      <4> DEFINE m == i - n
      <4>1. m \in 1 .. k /\ m \in 1 .. Len(buffered)
        BY <3>2, <2>1, <1>0
      <4>2. new[i] = first[m] /\ first[m] = buffered[m]
        BY <3>2, <4>1, <2>1, <1>4
      <4> HIDE DEF m
      <4>3. buffered[m] = [id  |-> Forgotten + Len(window) + m,
                           seq |-> Stream[Forgotten + Len(window) + m]]
        BY <4>1, <1>0, ChannelTypes DEF IInv, SenderInv
      <4>4. /\ new[i].id = Forgotten + Len(window) + m
            /\ new[i].seq = Stream[Forgotten + Len(window) + m]
        BY <4>2, <4>3
      <4> QED  BY <4>1, <4>4, <1>0
    <3> QED  BY <3>1, <3>2
  <2> HIDE DEF top
  <2>4. /\ data' \in Seq(Frame)
        /\ \A i \in 1 .. Len(data') :
             /\ 0 < data'[i].id /\ data'[i].id <= top
             /\ data'[i].seq = Stream[data'[i].id]
             /\ Received < data'[i].id + W
             /\ \A j \in 1 .. W : recvWindow[j] # NoFrame =>
                                    recvWindow[j].id < data'[i].id + W
             /\ \A j \in 1 .. i - 1 : data'[j].id < data'[i].id + W
    BY <1>9, <2>1, <2>2, <2>3, DataExtended, ZenonT(40)
  <2> QED  BY <2>4, <1>0, <1>9, LenProperties DEF DataInv
<1>12. TypeOK'
  BY <1>0, <1>1, <1>5, <1>7, <1>8, <1>11 DEF TypeOK
<1>13. ReceiverInv'
  <2>1. /\ Received <= Forgotten' + Len(window')
        /\ \A i \in 1 .. W : recvWindow[i] # NoFrame =>
             recvWindow[i].id <= Forgotten' + Len(window')
    <3>1. \A i \in 1 .. W : recvWindow[i] # NoFrame => recvWindow[i].id \in Nat
      BY <1>0 DEF TypeOK, Frame
    <3>2. Received \in Nat  BY <1>0, Lengths
    <3> QED  BY <3>1, <3>2, <1>0, <1>9 DEF IInv, ReceiverInv
  <2> QED  BY <2>1, <1>0, <1>9 DEF IInv, ReceiverInv
<1>14. AckInv' /\ Consecutive' /\ (\A i \in DOMAIN delivered : delivered[i] = i)'
  BY <1>0, <1>9 DEF IInv, AckInv, Consecutive
<1> QED  BY <1>10, <1>11, <1>12, <1>13, <1>14 DEF IInv

\* What an acknowledgement leaves of the window (cq_ndequeue_send).
LEMMA HandleAckWindow ==
  ASSUME IInv, HandleAck
  PROVE  LET a == Head(acks)
             k == a.id - Forgotten
         IN  /\ a = acks[1] /\ 1 \in 1 .. Len(acks)
             /\ a.id \in Nat /\ Forgotten <= a.id /\ a.id <= Received
             /\ Received <= Forgotten + Len(window)
             /\ window' \in Seq(Frame) /\ Len(window') = Len(window) - k
             /\ \A i \in 1 .. Len(window) - k : window'[i] = window[k + i]
             /\ Forgotten' = a.id
             /\ Forgotten' + Len(window') = Forgotten + Len(window)
<1> USE DEF senderVars, receiverVars
<1> DEFINE a == Head(acks)
           k == Acknowledged(a.seq)
<1>0. /\ TypeOK /\ Len(data) \in Nat /\ Len(window) \in Nat /\ W \in Nat
      /\ Len(buffered) \in Nat /\ Forgotten \in Nat /\ Len(submitted) \in Nat
      /\ Len(acks) \in Nat /\ Received \in Nat /\ Len(window) <= W
      /\ acks # << >> /\ acks' = Tail(acks)
      /\ UNCHANGED <<submitted, currSeq, buffered, recvWindow, lfr, delivered,
                     Stream, Received>>
  BY Lengths, StreamUnchanged, Constants DEF IInv, SenderInv, HandleAck,
     Received, TypeOK
<1>2. a = acks[1] /\ 1 \in 1 .. Len(acks)
  BY <1>0, HeadTailProperties DEF TypeOK
<1>3. /\ a.id \in Nat /\ Forgotten <= a.id /\ a.id <= Received
      /\ Received <= Forgotten + Len(window)
  BY <1>0, <1>2, ChannelTypes DEF IInv, AckInv, ReceiverInv
<1>4. k \in 0 .. Len(window) /\ Forgotten + k = a.id
  <2>1. Forgotten + k = a.id  BY <1>0, AcknowledgedExactly
  <2>2. k = a.id - Forgotten
    <3>1. k \in Nat
      <4>1. CASE window = << >> \/ SeqNumDiff(Head(window).seq, a.seq) < 0
        BY <4>1 DEF Acknowledged
      <4>2. CASE ~(window = << >> \/ SeqNumDiff(Head(window).seq, a.seq) < 0)
        <5> DEFINE hits == {i \in DOMAIN window : window[i].seq = a.seq}
        <5>1. CASE hits = {}
          BY <4>2, <5>1 DEF Acknowledged
        <5>2. CASE hits # {}
          <6>1. hits \in SUBSET Nat  BY <1>0, ChannelTypes
          <6>2. \E i \in hits : \A j \in hits : i <= j
            <7> HIDE DEF hits
            <7> QED  BY <5>2, <6>1, LeastNat
          <6>3. k = CHOOSE i \in hits : \A j \in hits : i <= j
            BY <4>2, <5>2 DEF Acknowledged
          <6> HIDE DEF hits, k
          <6> QED  BY <6>1, <6>2, <6>3
        <5> QED  BY <5>1, <5>2
      <4> QED  BY <4>1, <4>2
    <3> HIDE DEF k
    <3> QED  BY <3>1, <2>1, <1>0, <1>3
  <2> QED  BY <2>1, <2>2, <1>0, <1>3
<1> HIDE DEF k
<1>5. /\ window' \in Seq(Frame) /\ Len(window') = Len(window) - k
      /\ \A i \in 1 .. Len(window) - k : window'[i] = window[k + i]
  <2>1. window' = SubSeq(window, k + 1, Len(window))
    BY DEF HandleAck, k
  <2>2. \A i \in k + 1 .. Len(window) : window[i] \in Frame
    BY <1>0, <1>4, LenProperties DEF TypeOK
  <2>3. k + 1 \in Int /\ Len(window) \in Int  BY <1>0, <1>4
  <2>4. /\ window' \in Seq(Frame)
        /\ Len(window') = IF k + 1 <= Len(window)
                            THEN Len(window) - (k + 1) + 1 ELSE 0
        /\ \A i \in 1 .. Len(window) - (k + 1) + 1 : window'[i] = window[k + 1 + i - 1]
    BY <2>1, <2>2, <2>3, SubSeqProperties
  <2> QED  BY <2>4, <1>0, <1>4
<1>6. /\ Forgotten' = Forgotten + k
      /\ Forgotten' + Len(window') = Forgotten + Len(window)
  <2>1. Forgotten' = Forgotten + k
    BY <1>0, <1>4, <1>5 DEF Forgotten
  <2> QED  BY <2>1, <1>0, <1>4, <1>5
<1>7. k = a.id - Forgotten  BY <1>0, <1>3, <1>4
<1> QED  BY <1>2, <1>3, <1>4, <1>5, <1>6, <1>7

\* An acknowledgement frees the frames it covers (handle_incoming_acks).
LEMMA HandleAckIInv == IInv /\ HandleAck => IInv'
<1> SUFFICES ASSUME IInv, HandleAck PROVE IInv'
  OBVIOUS
<1> USE DEF senderVars, receiverVars
<1> DEFINE a == Head(acks)
           k == a.id - Forgotten
<1>0. /\ TypeOK /\ Len(data) \in Nat /\ Len(window) \in Nat /\ W \in Nat
      /\ Len(buffered) \in Nat /\ Forgotten \in Nat /\ Len(submitted) \in Nat
      /\ Len(acks) \in Nat /\ Received \in Nat /\ Len(window) <= W
      /\ acks # << >> /\ acks' = Tail(acks)
      /\ UNCHANGED <<submitted, currSeq, buffered, recvWindow, lfr, delivered,
                     Stream, Received>>
  BY Lengths, StreamUnchanged, Constants DEF IInv, SenderInv, HandleAck,
     Received, TypeOK
<1>1. PICK again \in FastRetransmit(a.seq) : data' = data \o again
  BY DEF HandleAck
<1>2. /\ a = acks[1] /\ 1 \in 1 .. Len(acks)
      /\ acks' \in Seq(Frame) /\ Len(acks') = Len(acks) - 1
      /\ \A i \in 1 .. Len(acks) - 1 : acks'[i] = acks[i + 1]
  BY <1>0, HeadTailProperties DEF TypeOK
<1>3. /\ a.id \in Nat /\ Forgotten <= a.id /\ a.id <= Received
      /\ Received <= Forgotten + Len(window)
      /\ window' \in Seq(Frame) /\ Len(window') = Len(window) - k
      /\ \A i \in 1 .. Len(window) - k : window'[i] = window[k + i]
      /\ Forgotten' = a.id
      /\ Forgotten' + Len(window') = Forgotten + Len(window)
  BY HandleAckWindow
<1>4. k \in 0 .. Len(window) /\ Forgotten + k = a.id
  <2>1. a.id \in Nat /\ Forgotten <= a.id /\ a.id <= Forgotten + Len(window)
    BY <1>0, <1>3
  <2> HIDE DEF a
  <2> QED  BY <2>1, <1>0
<1>5. /\ window' \in Seq(Frame) /\ Len(window') = Len(window) - k
      /\ \A i \in 1 .. Len(window) - k : window'[i] = window[k + i]
  BY <1>3
<1>6. /\ Forgotten' = Forgotten + k
      /\ Forgotten' + Len(window') = Forgotten + Len(window)
  BY <1>3, <1>4
<1> HIDE DEF k
<1>7. SenderInv'
  <2>1. ASSUME NEW i \in 1 .. Len(window) - k
        PROVE  window'[i] = [id  |-> Forgotten + k + i,
                             seq |-> Stream[Forgotten + k + i]]
    <3>1. /\ k + i \in DOMAIN window /\ window'[i] = window[k + i]
          /\ Forgotten + (k + i) = Forgotten + k + i
      BY <1>0, <1>4, <1>5, ChannelTypes
    <3> QED  BY <3>1 DEF IInv, SenderInv
  <2>2. ASSUME NEW i \in DOMAIN buffered
        PROVE  LET m == Forgotten' + Len(window') + i
               IN  buffered[i] = [id |-> m, seq |-> Stream[m]]
    BY <1>6 DEF IInv, SenderInv
  <2>3. DOMAIN window' = 1 .. Len(window) - k
    BY <1>5, LenProperties
  <2>4. 0 <= Forgotten'
    BY <1>0, <1>4, <1>6
  <2> QED  BY <2>1, <2>2, <2>3, <2>4, <1>0, <1>6 DEF SenderInv
<1>8. data' \in Seq(Frame) /\ DataInv'
  <2> DEFINE top == Forgotten + Len(window)
  <2>1. /\ again \in Seq(Frame)
        /\ \A i \in 1 .. Len(again) : again[i] \in Range(window)
    <3>1. CASE again = << >>
      BY <3>1
    <3>2. CASE again # << >>
      <4>1. PICK i \in DOMAIN window : again = <<window[i]>>
        BY <1>1, <3>2 DEF FastRetransmit
      <4>2. window[i] \in Range(window) /\ window[i] \in Frame
        BY <4>1, <1>0, ChannelTypes, LenProperties DEF Range, TypeOK
      <4> QED  BY <4>1, <4>2
    <3> QED  BY <3>1, <3>2
  <2>2. \A i \in 1 .. Len(again) :
          /\ Forgotten < again[i].id /\ again[i].id <= top
          /\ again[i].seq = Stream[again[i].id]
    BY <2>1, WindowFrames
  <2>3. /\ top \in Nat /\ Forgotten + Len(window) <= top /\ top <= Forgotten + W
    BY <1>0
  <2> HIDE DEF top
  <2>4. /\ data' \in Seq(Frame)
        /\ \A i \in 1 .. Len(data') :
             /\ 0 < data'[i].id /\ data'[i].id <= top
             /\ data'[i].seq = Stream[data'[i].id]
             /\ Received < data'[i].id + W
             /\ \A j \in 1 .. W : recvWindow[j] # NoFrame =>
                                    recvWindow[j].id < data'[i].id + W
             /\ \A j \in 1 .. i - 1 : data'[j].id < data'[i].id + W
    BY <1>1, <2>1, <2>2, <2>3, DataExtended
  <2>5. top = Forgotten' + Len(window')
    BY <1>6 DEF top
  <2> QED  BY <2>4, <2>5, <1>0, LenProperties DEF DataInv
<1>9. TypeOK'
  <2>1. Len(window') <= W  BY <1>0, <1>4, <1>5
  <2> QED  BY <2>1, <1>0, <1>2, <1>5, <1>8 DEF TypeOK
<1>10. ReceiverInv'
  <2>1. Forgotten' <= Received  BY <1>3, <1>4, <1>6
  <2> QED  BY <2>1, <1>0, <1>6 DEF IInv, ReceiverInv
<1>11. AckInv'
  <2> SUFFICES ASSUME NEW i \in 1 .. Len(acks) - 1
               PROVE  /\ Forgotten' <= acks'[i].id /\ acks'[i].id <= Received
                      /\ acks'[i].seq = Stream[acks'[i].id]
                      /\ \A j \in 1 .. i - 1 : acks'[j].id <= acks'[i].id
    BY <1>0, <1>2, LenProperties DEF AckInv
  <2>1. /\ i + 1 \in DOMAIN acks /\ acks'[i] = acks[i + 1]
        /\ 1 \in 1 .. (i + 1) - 1
        /\ \A j \in 1 .. i - 1 : /\ j + 1 \in 1 .. (i + 1) - 1
                                 /\ acks'[j] = acks[j + 1]
    BY <1>0, <1>2, ChannelTypes
  <2>2. Forgotten' = acks[1].id  BY <1>2, <1>4, <1>6
  <2> QED  BY <2>1, <2>2 DEF IInv, AckInv
<1>12. Consecutive' /\ (\A i \in DOMAIN delivered : delivered[i] = i)'
  BY <1>0 DEF IInv, Consecutive
<1> QED  BY <1>7, <1>8, <1>9, <1>10, <1>11, <1>12 DEF IInv

\* A frame is stored, the run it completes is handed over, and what has been
\* received so far is acknowledged (handle_incoming_frames).
LEMMA HandleFrameIInv == IInv /\ HandleFrame => IInv'
<1> SUFFICES ASSUME IInv, HandleFrame PROVE IInv'
  OBVIOUS
<1> USE DEF senderVars, receiverVars
<1> DEFINE frame == Head(data)
           place == SeqNumDiff(lfr, frame.seq)
           slots == [recvWindow EXCEPT ![place] = frame]
           run   == IF place \in 1 .. W THEN Run(slots) ELSE 0
           top   == Forgotten + Len(window)
           ack   == [id |-> Received', seq |-> lfr']
<1>0. /\ TypeOK /\ Len(data) \in Nat /\ Len(window) \in Nat /\ W \in Nat /\ 1 <= W
      /\ Len(buffered) \in Nat /\ Forgotten \in Nat /\ Len(submitted) \in Nat
      /\ Len(acks) \in Nat /\ Received \in Nat /\ top \in Nat
      /\ top <= Len(submitted) /\ top <= Forgotten + W /\ Len(window) <= W
      /\ Forgotten <= Received /\ Received <= top
      /\ data # << >> /\ data' = Tail(data)
      /\ acks' = Append(acks, ack)
      /\ UNCHANGED <<submitted, currSeq, buffered, window, Stream, Forgotten>>
  <2>1. /\ TypeOK /\ Len(data) \in Nat /\ Len(window) \in Nat /\ W \in Nat /\ 1 <= W
        /\ Len(buffered) \in Nat /\ Forgotten \in Nat /\ Len(submitted) \in Nat
        /\ Len(acks) \in Nat /\ Received \in Nat /\ Len(window) <= W
    BY Lengths, Constants DEF IInv, SenderInv, TypeOK
  <2>2. Forgotten <= Received /\ Received <= top
    BY DEF IInv, ReceiverInv
  <2>3. top \in Nat /\ top <= Len(submitted) /\ top <= Forgotten + W
    BY <2>1 DEF Forgotten
  <2>4. /\ data # << >> /\ data' = Tail(data)
        /\ acks' = Append(acks, ack)
        /\ UNCHANGED <<submitted, currSeq, buffered, window, Stream, Forgotten>>
    BY StreamUnchanged DEF HandleFrame, Received, Forgotten
  <2> QED  BY <2>1, <2>2, <2>3, <2>4
<1>1. /\ frame = data[1] /\ 1 \in 1 .. Len(data) /\ frame \in Frame
      /\ data' \in Seq(Frame) /\ Len(data') = Len(data) - 1
      /\ \A i \in 1 .. Len(data) - 1 : data'[i] = data[i + 1]
  BY <1>0, HeadTailProperties DEF TypeOK
<1>2. /\ frame.id \in Nat /\ 0 < frame.id /\ frame.id <= top
      /\ frame.seq = Stream[frame.id] /\ Received < frame.id + W
      /\ lfr = Stream[Received]
  BY <1>0, <1>1, ChannelTypes DEF IInv, DataInv, ReceiverInv
<1>3. place \in 1 .. W => frame.id = Received + place
  <2>1. /\ Received \in 0 .. Len(submitted) + 1
        /\ frame.id \in 0 .. Len(submitted) + 1
        /\ frame.id <= Received + W
    BY <1>0, <1>2, SMTT(40)
  <2> HIDE DEF frame
  <2> QED  BY <2>1, <1>2, PlaceInWindow DEF IInv
<1> DEFINE Fits(f) == /\ f.id \in Nat /\ f.id <= top
                      /\ \A i \in 1 .. Len(data) - 1 : f.id < data'[i].id + W
<1>4. ASSUME NEW i \in 1 .. W, recvWindow[i] # NoFrame
      PROVE  recvWindow[i].id = Received + i /\ Fits(recvWindow[i])
  <2>1. recvWindow[i].id = Received + i /\ recvWindow[i].id <= top
    BY <1>4 DEF IInv, ReceiverInv
  <2>2. \A d \in 1 .. Len(data) - 1 :
          d + 1 \in DOMAIN data /\ data'[d] = data[d + 1]
    BY <1>0, <1>1, ChannelTypes
  <2>3. \A d \in 1 .. Len(data) - 1 : recvWindow[i].id < data'[d].id + W
    BY <2>2, <1>4 DEF IInv, DataInv
  <2> QED  BY <2>1, <2>3, <1>0
<1>5. Fits(frame)
  <2>1. \A d \in 1 .. Len(data) - 1 :
          /\ d + 1 \in DOMAIN data /\ data'[d] = data[d + 1]
          /\ 1 \in 1 .. (d + 1) - 1
    BY <1>0, <1>1, ChannelTypes
  <2>2. \A d \in 1 .. Len(data) - 1 : data[1].id < data'[d].id + W
    BY <2>1 DEF IInv, DataInv
  <2> QED  BY <2>2, <1>1, <1>2
<1> HIDE DEF Fits
<1>6. place \in 1 .. W =>
        /\ slots \in [1 .. W -> Frame \cup {NoFrame}]
        /\ \A i \in 1 .. W : slots[i] # NoFrame =>
             slots[i].id = Received + i /\ Fits(slots[i])
  <2> SUFFICES ASSUME place \in 1 .. W
               PROVE  /\ slots \in [1 .. W -> Frame \cup {NoFrame}]
                      /\ \A i \in 1 .. W : slots[i] # NoFrame =>
                           slots[i].id = Received + i /\ Fits(slots[i])
    OBVIOUS
  <2>0. recvWindow \in [1 .. W -> Frame \cup {NoFrame}]
    BY <1>0 DEF TypeOK
  <2>1. slots \in [1 .. W -> Frame \cup {NoFrame}]
    BY <2>0, <1>1
  <2>2. \A i \in 1 .. W : slots[i] = IF i = place THEN frame ELSE recvWindow[i]
    BY <2>0
  <2> HIDE DEF slots, place, frame
  <2> QED  BY <2>1, <2>2, <1>3, <1>4, <1>5
<1>7. /\ run \in 0 .. W
      /\ place \in 1 .. W =>
           /\ \A i \in 1 .. run : slots[i] # NoFrame
           /\ run < W => slots[run + 1] = NoFrame
  <2> HIDE DEF slots, place
  <2> QED  BY <1>0, <1>6, RunProperties
<1>8. \/ /\ place \in 1 .. W
         /\ recvWindow' = [i \in 1 .. W |-> IF i + run <= W THEN slots[i + run]
                                                            ELSE NoFrame]
         /\ delivered' = delivered \o [i \in 1 .. run |-> slots[i].id]
         /\ lfr' = SeqAdd(lfr, run)
      \/ /\ ~(place \in 1 .. W) /\ run = 0
         /\ UNCHANGED <<recvWindow, delivered, lfr>>
  BY DEF HandleFrame
<1>9. Received + run <= top /\ (run # 0 => Fits(slots[run]) /\ slots[run].id = Received + run)
  <2>1. CASE run = 0
    BY <2>1, <1>0
  <2>2. CASE run # 0
    <3>1. place \in 1 .. W /\ run \in 1 .. run /\ run \in 1 .. W
      BY <2>2, <1>7, <1>0
    <3> HIDE DEF place, slots, run
    <3>2. Fits(slots[run]) /\ slots[run].id = Received + run
      BY <3>1, <1>6, <1>7
    <3> QED  BY <3>2 DEF Fits
  <2> QED  BY <2>1, <2>2
<1> HIDE DEF place, run, slots, frame
<1>10. /\ delivered' \in Seq(Nat) /\ Received' = Received + run
       /\ \A i \in 1 .. Received + run : delivered'[i] = i
  <2>0. /\ delivered \in Seq(Nat) /\ Len(delivered) = Received
        /\ \A i \in 1 .. Received : delivered[i] = i
    BY <1>0, LenProperties DEF IInv, TypeOK, Received
  <2>1. CASE place \in 1 .. W
    <3> DEFINE more == [i \in 1 .. run |-> slots[i].id]
    <3>1. \A i \in 1 .. run : slots[i].id = Received + i /\ i \in 1 .. W
      BY <2>1, <1>0, <1>6, <1>7
    <3>2. more \in Seq(Nat) /\ Len(more) = run /\ \A i \in 1 .. run : more[i] = Received + i
      <4>0. run \in Nat /\ Received \in Nat  BY <1>0, <1>7
      <4>1. \A i \in 1 .. run : slots[i].id \in Nat /\ more[i] = Received + i
        <5> TAKE i \in 1 .. run
        <5>1. slots[i].id = Received + i  BY <3>1
        <5>2. Received + i \in Nat  BY <4>0
        <5>3. more[i] = slots[i].id  OBVIOUS
        <5> QED  BY <5>1, <5>2, <5>3
      <4>2. more \in [1 .. run -> Nat]  BY <4>1
      <4> HIDE DEF more
      <4> QED  BY <4>0, <4>1, <4>2
    <3>3. delivered' = delivered \o more  BY <2>1, <1>8
    <3> HIDE DEF more
    <3>4. /\ delivered' \in Seq(Nat) /\ Len(delivered') = Received + run
          /\ \A i \in 1 .. Received + run :
               delivered'[i] = IF i <= Received THEN delivered[i] ELSE more[i - Received]
      BY <2>0, <3>2, <3>3, ConcatProperties
    <3>5. ASSUME NEW i \in 1 .. Received + run PROVE delivered'[i] = i
      <4>1. CASE i <= Received  BY <4>1, <2>0, <3>4, <1>0
      <4>2. CASE ~(i <= Received)
        <5>1. i - Received \in 1 .. run /\ Received + (i - Received) = i
          BY <4>2, <1>0, <1>7
        <5>2. more[i - Received] = i  BY <5>1, <3>2
        <5> QED  BY <4>2, <5>2, <3>4
      <4> QED  BY <4>1, <4>2
    <3> QED  BY <3>4, <3>5 DEF Received
  <2>2. CASE ~(place \in 1 .. W)
    BY <2>0, <2>2, <1>0, <1>8 DEF Received
  <2> QED  BY <2>1, <2>2
<1>11. lfr' = Stream[Received + run] /\ lfr' \in SeqNums
  <2>1. /\ Received \in 0 .. Len(submitted) + 1 /\ Received + run \in 0 .. Len(submitted) + 1
        /\ Received <= Received + run /\ Received + run <= Received + MAX_SEQ_NUM + 1
        /\ (Received + run) - Received = run
    BY <1>0, <1>7, <1>9, Constants
  <2>2. Stream[Received + run] = SeqAdd(Stream[Received], run)
    BY <2>1 DEF IInv, Consecutive
  <2>3. Stream[Received + run] \in SeqNums
    BY <2>1, <1>0, StreamType
  <2>4. CASE place \in 1 .. W  BY <2>2, <2>3, <2>4, <1>2, <1>8
  <2>5. CASE ~(place \in 1 .. W)
    <3>1. Received + run = Received  BY <2>5, <1>0, <1>8
    <3> QED  BY <3>1, <2>3, <2>5, <1>2, <1>8
  <2> QED  BY <2>4, <2>5
<1>12. /\ recvWindow' \in [1 .. W -> Frame \cup {NoFrame}]
       /\ recvWindow'[1] = NoFrame
       /\ \A i \in 1 .. W : recvWindow'[i] # NoFrame =>
            recvWindow'[i].id = Received + run + i /\ Fits(recvWindow'[i])
  <2>1. CASE place \in 1 .. W
    <3>1. recvWindow' = [i \in 1 .. W |-> IF i + run <= W THEN slots[i + run]
                                                          ELSE NoFrame]
      BY <2>1, <1>8
    <3>2. \A i \in 1 .. W : i + run <= W =>
            i + run \in 1 .. W /\ Received + (i + run) = Received + run + i
      BY <1>0, <1>7
    <3>3. recvWindow' \in [1 .. W -> Frame \cup {NoFrame}]
      BY <2>1, <3>1, <3>2, <1>6
    <3>4. recvWindow'[1] = NoFrame
      <4>1. 1 \in 1 .. W /\ (1 + run <= W <=> run < W) /\ 1 + run = run + 1
        BY <1>0, <1>7
      <4> QED  BY <4>1, <2>1, <3>1, <1>7
    <3>5. ASSUME NEW i \in 1 .. W, recvWindow'[i] # NoFrame
          PROVE  recvWindow'[i].id = Received + run + i /\ Fits(recvWindow'[i])
      <4>1. i + run <= W /\ recvWindow'[i] = slots[i + run]
        BY <3>1, <3>5
      <4> QED  BY <4>1, <3>2, <3>5, <2>1, <1>6
    <3> QED  BY <3>3, <3>4, <3>5
  <2>2. CASE ~(place \in 1 .. W)
    <3>1. run = 0 /\ recvWindow' = recvWindow /\ Received + run = Received
      BY <2>2, <1>0, <1>8
    <3> QED  BY <3>1, <1>0, <1>4 DEF IInv, ReceiverInv, TypeOK
  <2> QED  BY <2>1, <2>2
<1>13. /\ ack \in Frame /\ acks' \in Seq(Frame) /\ Len(acks') = Len(acks) + 1
       /\ \A i \in 1 .. Len(acks) : acks'[i] = acks[i]
       /\ acks'[Len(acks) + 1] = ack
  <2>1. ack \in Frame  BY <1>0, <1>7, <1>10, <1>11 DEF Frame
  <2> HIDE DEF ack
  <2> QED  BY <2>1, <1>0, AppendProperties DEF TypeOK
<1>14. TypeOK'
  BY <1>0, <1>1, <1>10, <1>11, <1>12, <1>13 DEF TypeOK
<1>15. ReceiverInv'
  <2>1. \A i \in 1 .. W : recvWindow'[i] # NoFrame => recvWindow'[i].id <= top
    BY <1>12 DEF Fits
  <2>2. Forgotten <= Received + run  BY <1>0, <1>7
  <2> QED  BY <2>1, <2>2, <1>0, <1>9, <1>10, <1>11, <1>12 DEF ReceiverInv
<1>16. DataInv'
  <2> SUFFICES ASSUME NEW i \in 1 .. Len(data) - 1
               PROVE  /\ 0 < data'[i].id /\ data'[i].id <= top
                      /\ data'[i].seq = Stream[data'[i].id]
                      /\ Received + run < data'[i].id + W
                      /\ \A j \in 1 .. W : recvWindow'[j] # NoFrame =>
                                             recvWindow'[j].id < data'[i].id + W
                      /\ \A j \in 1 .. i - 1 : data'[j].id < data'[i].id + W
    BY <1>0, <1>1, <1>10, LenProperties, ZenonT(40) DEF DataInv
  <2>1. /\ i + 1 \in DOMAIN data /\ data'[i] = data[i + 1]
        /\ \A j \in 1 .. i - 1 : /\ j + 1 \in 1 .. (i + 1) - 1
                                 /\ data'[j] = data[j + 1]
    BY <1>0, <1>1, ChannelTypes
  <2>2. /\ 0 < data'[i].id /\ data'[i].id <= top
        /\ data'[i].seq = Stream[data'[i].id]
        /\ Received < data'[i].id + W
        /\ \A j \in 1 .. i - 1 : data'[j].id < data'[i].id + W
    BY <2>1 DEF IInv, DataInv
  <2>3. Received + run < data'[i].id + W
    <3>1. CASE run = 0  BY <3>1, <2>2, <1>0
    <3>2. CASE run # 0  BY <3>2, <1>9 DEF Fits
    <3> QED  BY <3>1, <3>2
  <2>4. \A j \in 1 .. W : recvWindow'[j] # NoFrame =>
                            recvWindow'[j].id < data'[i].id + W
    BY <1>12 DEF Fits
  <2> QED  BY <2>2, <2>3, <2>4
<1>17. AckInv'
  <2> SUFFICES ASSUME NEW i \in 1 .. Len(acks) + 1
               PROVE  /\ Forgotten <= acks'[i].id /\ acks'[i].id <= Received + run
                      /\ acks'[i].seq = Stream[acks'[i].id]
                      /\ \A j \in 1 .. i - 1 : acks'[j].id <= acks'[i].id
    BY <1>0, <1>10, <1>13, LenProperties, SMTT(40) DEF AckInv
  <2>1. \A j \in 1 .. Len(acks) : /\ acks'[j] = acks[j] /\ acks[j].id \in Nat
                                  /\ acks[j].id <= Received
                                  /\ acks[j].id <= Received + run
    <3> SUFFICES ASSUME NEW j \in 1 .. Len(acks)
                 PROVE  /\ acks'[j] = acks[j] /\ acks[j].id \in Nat
                        /\ acks[j].id <= Received
                        /\ acks[j].id <= Received + run
      OBVIOUS
    <3>1. acks'[j] = acks[j] /\ acks[j].id \in Nat /\ j \in DOMAIN acks
      BY <1>0, <1>13, ChannelTypes
    <3>2. acks[j].id <= Received
      BY <3>1 DEF IInv, AckInv
    <3> QED  BY <3>1, <3>2, <1>0, <1>7, SMTT(40)
  <2>2. CASE i \in 1 .. Len(acks)
    <3>1. i \in DOMAIN acks /\ \A j \in 1 .. i - 1 : j \in 1 .. Len(acks)
      BY <2>2, <1>0, ChannelTypes
    <3> QED  BY <2>1, <2>2, <3>1 DEF IInv, AckInv
  <2>3. CASE i = Len(acks) + 1
    <3>1. acks'[i].id = Received + run /\ acks'[i].seq = lfr'
      BY <2>3, <1>10, <1>13
    <3>2. \A j \in 1 .. i - 1 : j \in 1 .. Len(acks)  BY <2>3, <1>0
    <3>3. Forgotten <= Received + run  BY <1>0, <1>7
    <3>4. \A j \in 1 .. i - 1 : acks'[j].id <= acks'[i].id
      BY <2>1, <3>1, <3>2
    <3> QED  BY <3>1, <3>3, <3>4, <1>0, <1>7, <1>11
  <2> QED  BY <2>2, <2>3, <1>0, SMTT(40)
<1>18. (\A i \in DOMAIN delivered : delivered[i] = i)'
  <2>1. DOMAIN delivered' = 1 .. Received + run
    BY <1>10, LenProperties DEF Received
  <2> QED  BY <2>1, <1>10
<1>19. SenderInv' /\ Consecutive'
  BY <1>0 DEF IInv, SenderInv, Consecutive
<1> QED  BY <1>14, <1>15, <1>16, <1>17, <1>18, <1>19 DEF IInv

\* Every step keeps the invariant.
LEMMA NextIInv == IInv /\ [Next]_vars => IInv'
<1> SUFFICES ASSUME IInv, [Next]_vars PROVE IInv'
  OBVIOUS
<1>1. CASE Submit      BY <1>1, SubmitIInv
<1>2. CASE SendFrames  BY <1>2, SendFramesIInv
<1>3. CASE HandleAck   BY <1>3, HandleAckIInv
<1>4. CASE HandleFrame BY <1>4, HandleFrameIInv
<1>5. CASE LoseData    BY <1>5, LoseDataIInv
<1>6. CASE LoseAck     BY <1>6, LoseAckIInv
<1>7. CASE UNCHANGED vars
  <2>1. UNCHANGED <<submitted, currSeq, buffered, window, data, recvWindow, lfr,
                    delivered, acks>>
    BY <1>7 DEF vars, senderVars, receiverVars
  <2>2. UNCHANGED <<Stream, Forgotten, Received>>
    BY <2>1 DEF Stream, Forgotten, Received
  <2>3. TypeOK' /\ Consecutive' /\ SenderInv'
    BY <2>1, <2>2 DEF IInv, TypeOK, Consecutive, SenderInv
  <2>4. ReceiverInv' /\ DataInv' /\ AckInv'
    BY <2>1, <2>2 DEF IInv, ReceiverInv, DataInv, AckInv
  <2> QED  BY <2>1, <2>3, <2>4 DEF IInv
<1> QED  BY <1>1, <1>2, <1>3, <1>4, <1>5, <1>6, <1>7 DEF Next

\* A sequence number in flight always names one frame at both ends: the
\* inductive invariant of the window protocol.
THEOREM Invariance == Spec => []IInv
<1> QED  BY InitIInv, NextIInv, PTL DEF Spec

\* The queues, windows and counters keep their shapes, and the send window
\* never holds more than W frames (cq_append_item_send has room).
THEOREM TypeCorrectness == Spec => []TypeOK
<1>1. IInv => TypeOK  BY DEF IInv
<1> QED  BY <1>1, Invariance, PTL

\* Whatever is lost, sent again or delayed, the receiver hands frames over in
\* the order of submission, none missing and none twice.
THEOREM Delivery == Spec => []InOrderDelivery
<1>1. IInv => InOrderDelivery
  <2> SUFFICES ASSUME IInv PROVE InOrderDelivery
    OBVIOUS
  <2>1. /\ Len(submitted) \in Nat /\ Len(window) \in Nat /\ Len(buffered) \in Nat
        /\ Received \in Nat /\ Received <= Forgotten + Len(window)
    BY Lengths DEF IInv, ReceiverInv
  <2>2. Len(delivered) <= Len(submitted)
    BY <2>1 DEF Forgotten, Received
  <2> QED  BY <2>2 DEF IInv, InOrderDelivery
<1> QED  BY <1>1, Invariance, PTL

\* A slot of the send window is freed only once the receiver has handed the
\* frame over: no loss of an acknowledgement can lose data.
THEOREM NoEarlyForgetting == Spec => []ForgetsOnlyDelivered
<1>1. IInv => ForgetsOnlyDelivered
  BY DEF IInv, ReceiverInv, ForgetsOnlyDelivered
<1> QED  BY <1>1, Invariance, PTL
------------------------------------------------------------------------------
\* Steps of the sender that free slots: the abstract Forget, or nothing.
LEMMA HandleAckForgets ==
  ASSUME IInv, IInv', HandleAck
  PROVE  RD!Forget \/ UNCHANGED RD!vars
<1>1. /\ Len(submitted)' = Len(submitted) /\ delivered' = delivered
  BY DEF HandleAck, receiverVars
<1>2. /\ Forgotten \in Nat /\ Forgotten' \in Nat /\ Len(delivered) \in Nat
      /\ Forgotten <= Forgotten' /\ Forgotten' <= Len(delivered)
  BY Lengths, HandleAckWindow DEF IInv, SenderInv, Received
<1>3. CASE Forgotten' = Forgotten
  BY <1>1, <1>3 DEF RD!vars
<1>4. CASE Forgotten' # Forgotten
  <2>1. Forgotten' \in Forgotten + 1 .. Len(delivered)
    BY <1>2, <1>4
  <2> QED  BY <1>1, <2>1 DEF RD!Forget
<1> QED  BY <1>3, <1>4

\* Steps of the receiver: the abstract Deliver, or nothing.
LEMMA HandleFrameDelivers ==
  ASSUME IInv, IInv', HandleFrame
  PROVE  RD!Deliver \/ UNCHANGED RD!vars
<1> DEFINE more == [i \in 1 .. Len(delivered') - Len(delivered) |-> Len(delivered) + i]
<1>1. /\ UNCHANGED <<Len(submitted), Forgotten>>
      /\ Len(submitted) \in Nat /\ Len(delivered) \in Nat /\ Len(delivered') \in Nat
      /\ delivered \in Seq(Nat) /\ delivered' \in Seq(Nat)
  BY Lengths DEF HandleFrame, senderVars, Forgotten, IInv, TypeOK
<1>2. Len(delivered') <= Len(submitted)
  <2>1. /\ Len(window) \in Nat /\ Len(buffered) \in Nat /\ window' = window
    BY Lengths DEF IInv, HandleFrame, senderVars
  <2>2. Received' <= Forgotten' + Len(window')
    BY DEF IInv, ReceiverInv
  <2> QED  BY <1>1, <2>1, <2>2 DEF Received, Forgotten
<1>3. /\ \A i \in 1 .. Len(delivered) : delivered[i] = i
      /\ \A i \in 1 .. Len(delivered') : delivered'[i] = i
  BY <1>1, LenProperties DEF IInv
<1>4. CASE delivered' = delivered
  BY <1>1, <1>4 DEF RD!vars
<1>5. CASE Len(delivered) < Len(delivered')
  <2>1. more \in Seq(Nat) /\ Len(more) = Len(delivered') - Len(delivered)
    <3>1. Len(delivered') - Len(delivered) \in Nat  BY <1>1, <1>5
    <3>2. more \in [1 .. Len(delivered') - Len(delivered) -> Nat]  BY <1>1
    <3> QED  BY <3>1, <3>2
  <2>2. /\ delivered \o more \in Seq(Nat)
        /\ Len(delivered \o more) = Len(delivered')
        /\ \A i \in 1 .. Len(delivered') : (delivered \o more)[i] =
             IF i <= Len(delivered) THEN delivered[i] ELSE more[i - Len(delivered)]
    <3> HIDE DEF more
    <3>1. Len(delivered) + Len(more) = Len(delivered')  BY <1>1, <2>1
    <3> QED  BY <3>1, <1>1, <2>1, ConcatProperties
  <2>3. \A i \in 1 .. Len(delivered') : delivered'[i] = (delivered \o more)[i]
    <3> SUFFICES ASSUME NEW i \in 1 .. Len(delivered')
                 PROVE  (delivered \o more)[i] = i
      BY <1>3
    <3>1. CASE i <= Len(delivered)  BY <3>1, <2>2, <1>1, <1>3
    <3>2. CASE ~(i <= Len(delivered))
      <4>1. i - Len(delivered) \in 1 .. Len(delivered') - Len(delivered)
        BY <3>2, <1>1
      <4>2. more[i - Len(delivered)] = i  BY <4>1, <1>1
      <4> QED  BY <3>2, <4>2, <2>2
    <3> QED  BY <3>1, <3>2
  <2>4. delivered' = delivered \o more
    <3> HIDE DEF more
    <3> QED  BY <1>1, <2>2, <2>3, SeqEqual
  <2>5. Len(delivered') \in Len(delivered) + 1 .. Len(submitted)
    BY <1>1, <1>2, <1>5
  <2> QED  BY <2>4, <2>5, <1>1 DEF RD!Deliver
<1>6. Len(delivered) <= Len(delivered')
  <2>1. delivered' = delivered \/ \E s : delivered' = delivered \o s
    BY DEF HandleFrame, receiverVars
  <2> QED  BY <2>1, <1>1
<1>7. CASE Len(delivered) = Len(delivered')
  <2>1. \A i \in 1 .. Len(delivered) : delivered[i] = delivered'[i]
    BY <1>3, <1>7
  <2>2. delivered' = delivered  BY <2>1, <1>1, <1>7, SeqEqual
  <2> QED  BY <2>2, <1>4
<1> QED  BY <1>1, <1>5, <1>6, <1>7

\* The window protocol implements ReliableDelivery: every frame submitted is
\* handed over at most once, in order, and forgotten only afterwards.
THEOREM Implementation == Spec => RDSpec
<1>1. Init => RD!Init
  <2> SUFFICES ASSUME Init PROVE RD!Init
    OBVIOUS
  <2>1. Len(submitted) = 0 /\ Len(buffered) = 0 /\ Len(window) = 0
    BY DEF Init
  <2>2. Forgotten = 0  BY <2>1 DEF Forgotten
  <2>3. delivered = << >>  BY DEF Init
  <2> QED  BY <2>1, <2>2, <2>3 DEF RD!Init
<1>2. IInv /\ IInv' /\ [Next]_vars => [RD!Next]_(RD!vars)
  <2> SUFFICES ASSUME IInv, IInv', [Next]_vars
               PROVE  RD!Next \/ UNCHANGED RD!vars
    OBVIOUS
  <2>0. /\ TypeOK /\ Len(submitted) \in Nat /\ Len(buffered) \in Nat
        /\ Len(window) \in Nat
    BY Lengths DEF IInv
  <2>1. CASE Submit
    <3>1. /\ Len(submitted)' = Len(submitted) + 1
          /\ Len(buffered)' = Len(buffered) + 1
          /\ UNCHANGED <<window, delivered>>
      BY <2>0, <2>1 DEF Submit, TypeOK, receiverVars
    <3>2. Forgotten' = Forgotten  BY <3>1, <2>0 DEF Forgotten
    <3> QED  BY <3>1, <3>2 DEF RD!Submit, RD!Next
  <2>2. CASE SendFrames
    <3>1. /\ UNCHANGED <<submitted, delivered>>
          /\ \E k \in 0 .. Len(buffered) :
               /\ window' = window \o SubSeq(buffered, 1, k)
               /\ buffered' = SubSeq(buffered, k + 1, Len(buffered))
      BY <2>2 DEF SendFrames, receiverVars
    <3>2. Forgotten' = Forgotten
      <4>1. PICK k \in 0 .. Len(buffered) :
               /\ window' = window \o SubSeq(buffered, 1, k)
               /\ buffered' = SubSeq(buffered, k + 1, Len(buffered))
        BY <3>1
      <4>2. Len(window') = Len(window) + k /\ Len(buffered') = Len(buffered) - k
        BY <4>1, <2>0 DEF TypeOK
      <4> QED  BY <4>2, <3>1, <2>0 DEF Forgotten
    <3> QED  BY <3>1, <3>2 DEF RD!vars
  <2>3. CASE HandleAck    BY <2>3, HandleAckForgets DEF RD!Next
  <2>4. CASE HandleFrame  BY <2>4, HandleFrameDelivers DEF RD!Next
  <2>5. CASE LoseData
    BY <2>5 DEF LoseData, senderVars, receiverVars, RD!vars, Forgotten
  <2>6. CASE LoseAck
    BY <2>6 DEF LoseAck, senderVars, receiverVars, RD!vars, Forgotten
  <2>7. CASE UNCHANGED vars
    BY <2>7 DEF vars, senderVars, receiverVars, RD!vars, Forgotten
  <2> QED  BY <2>1, <2>2, <2>3, <2>4, <2>5, <2>6, <2>7 DEF Next
<1> QED  BY <1>1, <1>2, Invariance, PTL DEF Spec, RDSpec, RD!Spec
=============================================================================
