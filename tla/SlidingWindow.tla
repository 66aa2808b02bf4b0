---------------------------- MODULE SlidingWindow ----------------------------
(***************************************************************************)
(* The selective-repeat protocol between one sending and one receiving     *)
(* host of tcp/src, whatever the timers, the congestion window and the     *)
(* order of the turns do: which frames are sent again, how many new ones   *)
(* are let through and which ones the switch drops or corrupts are         *)
(* nondeterministic choices.  Channels are first-in first-out, as the      *)
(* linked lists between send_frame and the handlers are.                   *)
(*                                                                         *)
(* A frame carries the number `id` of its place in the sender's stream.    *)
(* It stands for the payload: the code never looks at it.  An              *)
(* acknowledgement carries how many frames had been received in order.     *)
(***************************************************************************)
EXTENDS SeqNum, SequencesExt

CONSTANTS W,            \* glb_sysconfig.window_size
          MaxFrames,    \* bound: frames submitted in a behaviour
          MaxInFlight,  \* bound: frames, and acknowledgements, in a channel
          NoFrame       \* NULL in a slot of recv_window

Frame == [id : Nat, seq : SeqNums]

\* Two windows side by side must fit in the sequence-number space.
ASSUME WindowAssumption ==
  /\ W \in Nat \ {0}
  /\ 2 * W <= MAX_SEQ_NUM + 1
  /\ MaxFrames \in Nat \cup {Unbounded}
  /\ MaxInFlight \in Nat \cup {Unbounded}
  /\ NoFrame \notin Frame

VARIABLES submitted,   \* history: the sequence number given to each frame
          currSeq,     \* curr_seq_num[receiver]
          buffered,    \* buffered_outframes_head
          window,      \* send_window, oldest frame first
          data,        \* data frames between the two hosts
          recvWindow,  \* recv_window: slot i is for the i-th frame after lfr
          lfr,         \* recv_lfr[sender], last frame received in order
          delivered,   \* the ids appended to recv_msg_head, in order
          acks         \* acknowledgements between the two hosts

senderVars   == <<submitted, currSeq, buffered, window>>
receiverVars == <<recvWindow, lfr, delivered>>
vars         == <<senderVars, data, receiverVars, acks>>

Init == /\ submitted = << >>
        /\ currSeq = 0
        /\ buffered = << >>
        /\ window = << >>
        /\ data = << >>
        /\ recvWindow = [i \in 1 .. W |-> NoFrame]
        /\ lfr = MAX_SEQ_NUM
        /\ delivered = << >>
        /\ acks = << >>

\* Mutant: every fragment gets the same number.
SubmitNoIncrement == /\ Within(Len(submitted) + 1, MaxFrames)
                     /\ submitted' = Append(submitted, currSeq)
                     /\ buffered' = Append(buffered,
                                           [id |-> Len(submitted) + 1, seq |-> currSeq])
                     /\ UNCHANGED <<currSeq, window, data, receiverVars, acks>>

\* handle_input_cmds, one fragment of a message: stamp it and buffer it.
Submit == /\ Within(Len(submitted) + 1, MaxFrames)
          /\ submitted' = Append(submitted, currSeq)
          /\ buffered' = Append(buffered,
                                [id |-> Len(submitted) + 1, seq |-> currSeq])
          /\ currSeq' = SeqInc(currSeq)
          /\ UNCHANGED <<window, data, receiverVars, acks>>

\* Mutant: a full window takes one more frame.
SendFramesOneMore ==
  \E n \in 0 .. W, k \in 0 .. Len(buffered) :
    /\ n + k > 0
    /\ Len(window) + k <= W + 1
    /\ Within(Len(data) + n + k, MaxInFlight)
    /\ \E again \in [1 .. n -> Range(window)] :
         data' = (data \o again) \o SubSeq(buffered, 1, k)
    /\ window' = window \o SubSeq(buffered, 1, k)
    /\ buffered' = SubSeq(buffered, k + 1, Len(buffered))
    /\ UNCHANGED <<submitted, currSeq, receiverVars, acks>>

\* handle_outgoing_frames: send again some frames of the window, then let in
\* as many buffered frames as the congestion window allows.
SendFrames ==
  \E n \in 0 .. W, k \in 0 .. Len(buffered) :
    /\ n + k > 0
    /\ Len(window) + k <= W
    /\ Within(Len(data) + n + k, MaxInFlight)
    /\ \E again \in [1 .. n -> Range(window)] :
         data' = (data \o again) \o SubSeq(buffered, 1, k)
    /\ window' = window \o SubSeq(buffered, 1, k)
    /\ buffered' = SubSeq(buffered, k + 1, Len(buffered))
    /\ UNCHANGED <<submitted, currSeq, receiverVars, acks>>

\* What a third duplicate of acknowledgement seq may add to the channel.
FastRetransmit(seq) ==
  {<< >>} \cup {<<window[i]>> :
                  i \in {j \in DOMAIN window : window[j].seq = SeqInc(seq)}}

\* Mutant: the frame after the acknowledged one is freed too.
AcknowledgedOneMore(seq) ==
  IF window = << >> \/ SeqNumDiff(Head(window).seq, seq) < 0
    THEN 0
    ELSE LET hits == {i \in DOMAIN window : window[i].seq = seq}
         IN  IF hits = {} THEN 0
             ELSE (CHOOSE i \in hits : \A j \in hits : i <= j) + 1

\* How many slots of the window an acknowledgement of seq frees.
Acknowledged(seq) ==
  IF window = << >> \/ SeqNumDiff(Head(window).seq, seq) < 0
    THEN 0
    ELSE LET hits == {i \in DOMAIN window : window[i].seq = seq}
         IN  IF hits = {} THEN 0
             ELSE CHOOSE i \in hits : \A j \in hits : i <= j

\* handle_incoming_acks, one acknowledgement.
HandleAck ==
  /\ acks # << >>
  /\ LET seq == Head(acks).seq
     IN  /\ \E again \in FastRetransmit(seq) :
              /\ Within(Len(data) + Len(again), MaxInFlight)
              /\ data' = data \o again
         /\ window' = SubSeq(window, Acknowledged(seq) + 1, Len(window))
  /\ acks' = Tail(acks)
  /\ UNCHANGED <<submitted, currSeq, buffered, receiverVars>>

\* How many slots at the front of a receive window hold a frame.
Run(slots) ==
  CHOOSE n \in 0 .. W : /\ \A i \in 1 .. n : slots[i] # NoFrame
                        /\ n < W => slots[n + 1] = NoFrame

\* handle_incoming_frames, one frame: put it in its slot if it lies in the
\* window, hand over what has become contiguous, acknowledge.
HandleFrame ==
  /\ data # << >>
  /\ Within(Len(acks) + 1, MaxInFlight)
  /\ LET frame == Head(data)
         place == SeqNumDiff(lfr, frame.seq)
         slots == [recvWindow EXCEPT ![place] = frame]
         run   == Run(slots)
     IN  IF place \in 1 .. W
           THEN /\ recvWindow' = [i \in 1 .. W |-> IF i + run <= W
                                                     THEN slots[i + run]
                                                     ELSE NoFrame]
                /\ delivered' = delivered \o [i \in 1 .. run |-> slots[i].id]
                /\ lfr' = SeqAdd(lfr, run)
           ELSE UNCHANGED receiverVars
  /\ data' = Tail(data)
  /\ acks' = Append(acks, [id |-> Len(delivered'), seq |-> lfr'])
  /\ UNCHANGED senderVars

\* The ingress port is over its rate, or CRC-8 rejects a corrupted frame.
LoseData == /\ \E i \in DOMAIN data : data' = RemoveAt(data, i)
            /\ UNCHANGED <<senderVars, receiverVars, acks>>

LoseAck == /\ \E i \in DOMAIN acks : acks' = RemoveAt(acks, i)
           /\ UNCHANGED <<senderVars, data, receiverVars>>

Next == Submit \/ SendFrames \/ HandleAck \/ HandleFrame \/ LoseData \/ LoseAck

Spec == Init /\ [][Next]_vars
------------------------------------------------------------------------------
\* How many frames the sender no longer keeps, and how many were handed over.
Forgotten == Len(submitted) - Len(buffered) - Len(window)
Received  == Len(delivered)

\* Sequence number of the n-th frame of the stream, the next one included.
\* Frame 0 is the one that lfr names before anything is received.
Stream == [n \in 0 .. Len(submitted) + 1 |->
             IF n = 0 THEN MAX_SEQ_NUM
             ELSE IF n <= Len(submitted) THEN submitted[n] ELSE currSeq]

\* The shapes of the state: queues hold frames, the window at most W of them.
TypeOK == /\ submitted \in Seq(SeqNums)
          /\ currSeq \in SeqNums
          /\ buffered \in Seq(Frame)
          /\ window \in Seq(Frame) /\ Len(window) <= W
          /\ data \in Seq(Frame)
          /\ recvWindow \in [1 .. W -> Frame \cup {NoFrame}]
          /\ lfr \in SeqNums
          /\ delivered \in Seq(Nat)
          /\ acks \in Seq(Frame)

\* The receiver hands frames over in the order of submission, none missing,
\* none twice, none that was never submitted (handle_incoming_frames).
InOrderDelivery == /\ Len(delivered) <= Len(submitted)
                   /\ \A i \in DOMAIN delivered : delivered[i] = i

\* The sender frees a slot of its window only for a frame the receiver has
\* handed over (the dequeue at the end of handle_incoming_acks).
ForgetsOnlyDelivered == Forgotten <= Received

\* The parts of the inductive invariant.
\* Numbers are consecutive, modulo the wrap, along the whole stream.
Consecutive ==
  \A i, j \in 0 .. Len(submitted) + 1 :
    i <= j /\ j <= i + MAX_SEQ_NUM + 1 => Stream[j] = SeqAdd(Stream[i], j - i)

\* Window and buffer hold the frames after the forgotten ones, in order.
SenderInv ==
  /\ 0 <= Forgotten
  /\ \A i \in DOMAIN window :
       window[i] = [id |-> Forgotten + i, seq |-> Stream[Forgotten + i]]
  /\ \A i \in DOMAIN buffered :
       LET n == Forgotten + Len(window) + i
       IN  buffered[i] = [id |-> n, seq |-> Stream[n]]

ReceiverInv ==
  /\ Forgotten <= Received /\ Received <= Forgotten + Len(window)
  /\ lfr = Stream[Received]
  /\ recvWindow[1] = NoFrame
  /\ \A i \in 1 .. W : recvWindow[i] # NoFrame =>
       /\ recvWindow[i].id = Received + i
       /\ recvWindow[i].id <= Forgotten + Len(window)

\* A frame in the channel lies less than W behind everything that can be
\* received before it.
DataInv ==
  \A i \in DOMAIN data :
    /\ 0 < data[i].id /\ data[i].id <= Forgotten + Len(window)
    /\ data[i].seq = Stream[data[i].id]
    /\ Received < data[i].id + W
    /\ \A j \in 1 .. W : recvWindow[j] # NoFrame =>
                           recvWindow[j].id < data[i].id + W
    /\ \A j \in 1 .. i - 1 : data[j].id < data[i].id + W

\* Acknowledgements arrive in the order the receiver advanced.
AckInv ==
  \A i \in DOMAIN acks :
    /\ Forgotten <= acks[i].id /\ acks[i].id <= Received
    /\ acks[i].seq = Stream[acks[i].id]
    /\ \A j \in 1 .. i - 1 : acks[j].id <= acks[i].id

\* Everything in flight is close enough to both ends that a sequence number
\* names one frame: the inductive invariant behind the two properties above.
IInv == /\ TypeOK
        /\ Consecutive
        /\ SenderInv
        /\ (\A i \in DOMAIN delivered : delivered[i] = i)
        /\ ReceiverInv
        /\ DataInv
        /\ AckInv

\* The window protocol keeps the promise of ReliableDelivery.
RD == INSTANCE ReliableDelivery WITH submitted <- Len(submitted),
                                     forgotten <- Forgotten
RDSpec == RD!Spec
=============================================================================
