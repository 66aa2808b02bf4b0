--------------------------- MODULE TransportProofs ---------------------------
(***************************************************************************)
(* What the transport program guarantees for any number of hosts, every    *)
(* window size, timeout, rate and congestion-control grid, and whatever    *)
(* the user types and the switch loses.                                    *)
(***************************************************************************)
EXTENDS TransportRefinement, SeqNumTheorems

CP == INSTANCE CongestionProofs WITH cc <- cc[Src][Dst], MaxCwnd <- Unbounded

\* The parts of the turn in which acknowledgements wait to be handled.
Before == {"input", "senders"} \cup Senders

\* What the order of the turn leaves behind: run_senders empties the commands
\* and the queue of every host it is done with.
TurnInv ==
  /\ phase \in Senders => cur \in todo
  /\ phase = "cmds" => cmds[cur] # << >>
  /\ phase = "acks" => incoming[cur] # << >>
  /\ phase \in {"acks", "timeouts", "outgoing"} => cmds[cur] = << >>
  /\ phase \in {"timeouts", "outgoing"} => incoming[cur] = << >>
  /\ phase \in {"senders"} \cup Senders =>
       \A h \in Hosts \ todo : cmds[h] = << >> /\ incoming[h] = << >>
  /\ phase \in {"data", "receivers", "sendacks", "exited"} =>
       \A h \in Hosts : cmds[h] = << >>

Cmds == {c \in [dst : Hosts, left : Nat \ {0}, last : Nat] : c.left <= c.last}

\* The types of what TypeOK leaves out.
HistoryOK ==
  /\ cmds \in [Hosts -> Seq(Cmds)] /\ faults \in Nat
  /\ sent \in [Hosts -> [Hosts -> Seq(Nat)]]
  /\ submitted \in [Hosts -> [Hosts -> Seq(SeqNums)]]
  /\ handed \in [Hosts -> [Hosts -> Seq(Nat)]]
  /\ printed \in [Hosts -> [Hosts -> Seq(Seq(Nat))]]

\* The congestion control of every pair keeps the invariant of CongestionProofs.
ControlOK == \A h, p \in Hosts : CP!Good(cc[h][p])

TypeInv == TypeOK /\ HistoryOK /\ TurnInv /\ ControlOK

\* A fragment the user sent: it was given a number, and it is the last one of
\* its message when nothing follows it.
Genuine(f) ==
  /\ f.id \in 1 .. Len(submitted[f.src][f.dst])
  /\ f.rem = 0 <=> \E m \in DOMAIN sent[f.src][f.dst] : sent[f.src][f.dst][m] = f.id

DataFrom(h)   == {f \in Frames : f.kind = "data" /\ f.src = h /\ Genuine(f)}
Between(s, d) == {f \in DataFrom(s) : f.dst = d}
AcksFrom(h)   == {f \in Frames : f.kind = "ack" /\ f.src = h}
DataFor(h)    ==
  {f \in Frames : f.kind = "corrupt" \/ (f.kind = "data" /\ f.dst = h /\ Genuine(f))}
AcksFor(h)    == {f \in Frames : f.kind = "corrupt" \/ (f.kind = "ack" /\ f.dst = h)}

\* The slots of a window, whatever frames they may hold.
Slots(F) == [frame : F, timeout : Timeouts]

\* What each queue holds, and when.
OutData == Before \cup {"data"}
OutAcks == {"receivers", "sendacks"}
InAcks  == Before \cup {"sendacks"}
InData  == {"data", "receivers"}

BufferedInv == \A h \in Hosts : buffered[h] \in Seq(DataFrom(h))
WindowInv   == \A h, p \in Hosts : window[h][p] \in Seq(Slots(Between(h, p)))
ReceivedInv ==
  \A h, p \in Hosts : /\ recvWindow[h][p] \in [1 .. W -> Between(p, h) \cup {NoFrame}]
                      /\ recvMsg[h][p] \in Seq(Between(p, h))
OutgoingInv == /\ phase \in OutData => \A h \in Hosts : outgoing[h] \in Seq(DataFrom(h))
               /\ phase \in OutAcks => \A h \in Hosts : outgoing[h] \in Seq(AcksFrom(h))
IncomingInv == /\ phase \in InAcks => \A h \in Hosts : incoming[h] \in Seq(AcksFor(h))
               /\ phase \in InData => \A h \in Hosts : incoming[h] \in Seq(DataFor(h))

QueueInv == BufferedInv /\ WindowInv /\ ReceivedInv /\ OutgoingInv /\ IncomingInv

\* The commands q for d continue the stream behind its n-th fragment, one after
\* the other, up to what the user typed last, where the last of the messages
\* ends; no message ends within a command.
CommandsOK(q, d, n, ends) ==
  LET last     == IF ends = << >> THEN 0 ELSE ends[Len(ends)]
      ToD      == {i \in DOMAIN q : q[i].dst = d}
      Start(i) == q[i].last - q[i].left
  IN  /\ \A m, k \in DOMAIN ends : m < k => ends[m] < ends[k]
      /\ \A m \in DOMAIN ends : ends[m] > 0
      /\ n <= last
      /\ n = last \/ \E i \in ToD : q[i].last = last
      /\ \A i \in ToD :
           /\ n <= Start(i) /\ q[i].last <= last
           /\ n = Start(i) \/ \E j \in ToD : j < i /\ q[j].last = Start(i)
           /\ \A j \in ToD : j < i => q[j].last <= Start(i)
           /\ \E m \in DOMAIN ends : ends[m] = q[i].last
           /\ \A m \in DOMAIN ends : ends[m] <= Start(i) \/ q[i].last <= ends[m]

CommandInv ==
  \A s, d \in Hosts : CommandsOK(cmds[s], d, Len(submitted[s][d]), sent[s][d])

\* A host outside its turn is active when frames wait to be sent or to be
\* acknowledged.
ActiveInv ==
  \A h \in Hosts \ {cur} :
    active[h] <=> buffered[h] # << >> \/ \E p \in Hosts : window[h][p] # << >>

\* Messages are printed before the turn goes on.
PrintInv == phase # "receivers" => Reassembled

\* s has a frame for d, and a timer of d is running at s.
Owed(s, d)  == window[s][d] # << >> \/ \E i \in DOMAIN buffered[s] : buffered[s][i].dst = d
Awake(s, d) == \E i \in DOMAIN window[s][d] : window[s][d][i].timeout # NoTimer

\* Outside its turn a host that owes a frame is awake; what a host sends to
\* itself keeps its timers; a host that sends will be awake.
OwedAwake   == \A s \in Hosts \ {cur}, d \in Hosts : Owed(s, d) => Awake(s, d)
SelfTimers  == \A s \in Hosts : \A i \in DOMAIN window[s][s] :
                 window[s][s][i].timeout # NoTimer
ShareOrWake == phase = "outgoing" => \A d \in Hosts : share[d] > 0 \/ Awake(cur, d)
------------------------------------------------------------------------------
\* The constants, as the provers use them.
LEMMA Constants ==
  /\ HALF \in Nat /\ MAX_SEQ_NUM = 2 * HALF + 1
  /\ W \in Nat /\ 1 <= W /\ W <= HALF + 1
  /\ TIMEOUT \in Nat /\ RecvAcceptRate \in Nat /\ MaxFragments \in Nat
  /\ NumHosts \in Nat /\ Hosts \subseteq Nat /\ NoHost \notin Hosts
  /\ Src \in Hosts /\ Dst \in Hosts
  /\ NoFrame \notin Frames
  /\ 0 \in SeqNums /\ MAX_SEQ_NUM \in SeqNums /\ NoTimer \notin Nat
  BY HalfFact, TransportAssumption, CongestionAssumption, PairAssumption,
     SeqNumAssumption DEF Hosts, NoHost, NoTimer, SeqNums

\* One entry of a table with a row per host is replaced.
LEMMA TableUpdate ==
  ASSUME NEW S, NEW t \in [Hosts -> [Hosts -> S]], NEW h \in Hosts, NEW p \in Hosts,
         NEW x \in S
  PROVE  /\ [t EXCEPT ![h][p] = x] \in [Hosts -> [Hosts -> S]]
         /\ [t EXCEPT ![h][p] = x][h][p] = x
         /\ \A a, b \in Hosts : a # h \/ b # p => [t EXCEPT ![h][p] = x][a][b] = t[a][b]
  OBVIOUS

\* Incrementing a uint8_t.
LEMMA SeqIncType == \A x \in SeqNums : SeqInc(x) \in SeqNums
<1>1. 1 \in 0 .. MAX_SEQ_NUM + 1
  BY Constants
<1> QED  BY <1>1, SeqAddType DEF SeqInc

\* A frame that is made is a frame.
LEMMA FrameMade ==
  ASSUME NEW k \in {"data", "ack", "corrupt"}, NEW s \in Hosts, NEW d \in Hosts,
         NEW q \in SeqNums, NEW r \in Nat, NEW i \in Nat
  PROVE  [kind |-> k, src |-> s, dst |-> d, seq |-> q, rem |-> r, id |-> i] \in Frames
  BY DEF Frames

\* How many fragments were typed.
LEMMA TypedNat ==
  ASSUME HistoryOK, NEW s \in Hosts, NEW d \in Hosts
  PROVE  Typed(s, d) \in Nat
<1>1. sent[s][d] \in Seq(Nat)
  BY DEF HistoryOK
<1>2. sent[s][d] # << >> => Len(sent[s][d]) \in 1 .. Len(sent[s][d])
  BY <1>1, EmptySeq
<1> QED  BY <1>1, <1>2 DEF Typed

LEMMA CmdsTyped ==
  ASSUME NEW t \in [Hosts -> Seq(Cmds)]
  PROVE  t \in [Hosts -> Seq([dst : Hosts, left : Nat \ {0}, last : Nat])]
<1>1. Cmds \subseteq [dst : Hosts, left : Nat \ {0}, last : Nat]
  BY DEF Cmds
<1>2. \A h \in Hosts : t[h] \in Seq([dst : Hosts, left : Nat \ {0}, last : Nat])
  BY <1>1, SeqMonotonic
<1> QED  BY <1>2

\* The operators of the two modules on the congestion control are the same.
LEMMA SameControl ==
  /\ CP!CC = CC /\ CP!InitCC = InitCC
  /\ \A c, seq : CP!OnAck(c, seq) = OnAck(c, seq)
  /\ \A c : CP!OnTimeout(c) = OnTimeout(c) /\ CP!FramesPerTurn(c) = FramesPerTurn(c)
<1>1. CP!CC = CC /\ CP!InitCC = InitCC
  BY DEF CP!CC, CC, CP!InitCC, InitCC, CP!SeqNums, SeqNums
<1>2. \A c, seq : CP!OnAck(c, seq) = OnAck(c, seq)
  BY DEF CP!OnAck, OnAck, CP!CountAck, CountAck, CP!SeqNumDiff, SeqNumDiff, CP!HALF, HALF,
         CP!Atleast, Atleast, CP!EntersFRFT, EntersFRFT
<1>3. \A c : CP!OnTimeout(c) = OnTimeout(c) /\ CP!FramesPerTurn(c) = FramesPerTurn(c)
  BY DEF CP!OnTimeout, OnTimeout, CP!FramesPerTurn, FramesPerTurn
<1> QED  BY <1>1, <1>2, <1>3

\* What the two events leave of a record.
LEMMA ControlKept ==
  ASSUME NEW c, CP!Good(c)
  PROVE  /\ c \in CC
         /\ \A seq \in SeqNums : CP!Good(OnAck(c, seq))
         /\ CP!Good(OnTimeout(c))
         /\ FramesPerTurn(c) \in Nat /\ FramesPerTurn(c) >= 1
<1>1. CP!SeqNumAssumption
  BY SeqNumAssumption DEF CP!SeqNumAssumption
<1>2. CP!CongestionAssumption
  BY CongestionAssumption DEF CP!CongestionAssumption
<1>3. \A seq \in SeqNums : CP!Good(OnAck(c, seq))
  <2> TAKE seq \in SeqNums
  <2>1. seq \in CP!SeqNums
    BY DEF CP!SeqNums, SeqNums
  <2>2. CP!Good(CP!OnAck(c, seq))
    BY <1>1, <1>2, <2>1, CP!OnAckGood
  <2> QED  BY <2>2, SameControl
<1>4. CP!Good(CP!OnTimeout(c))
  BY <1>1, <1>2, CP!OnTimeoutGood
<1>5. CP!FramesPerTurn(c) \in Nat /\ CP!FramesPerTurn(c) >= 1
  BY <1>1, <1>2, CP!GoodShare
<1> QED  BY <1>3, <1>4, <1>5, SameControl DEF CP!Good

LEMMA InitControl == CP!Good(InitCC)
<1>1. CP!SeqNumAssumption
  BY SeqNumAssumption DEF CP!SeqNumAssumption
<1>2. CP!CongestionAssumption
  BY CongestionAssumption DEF CP!CongestionAssumption
<1> QED  BY <1>1, <1>2, CP!InitGood, SameControl

LEMMA InitTypes == Init => TypeInv
<1> SUFFICES ASSUME Init PROVE TypeInv
  OBVIOUS
<1>1. InitCC \in CC
  BY CongestionAssumption, SeqNumAssumption DEF InitCC, CC, SeqNums
<1>2. \A S : << >> \in Seq(S)
  BY EmptySeq
<1>3. TypeOK
  <2>1. /\ buffered \in [Hosts -> Seq(Frames)] /\ outgoing \in [Hosts -> Seq(Frames)]
        /\ incoming \in [Hosts -> Seq(Frames)]
        /\ cmds \in [Hosts -> Seq([dst : Hosts, left : Nat \ {0}, last : Nat])]
    BY <1>2 DEF Init
  <2>2. /\ window \in [Hosts -> [Hosts -> Seq([frame : Frames, timeout : Timeouts])]]
        /\ \A h, p \in Hosts : Len(window[h][p]) <= W
        /\ recvMsg \in [Hosts -> [Hosts -> Seq(Frames)]]
    BY <1>2, Constants DEF Init, Each
  <2>3. /\ currSeq \in [Hosts -> [Hosts -> SeqNums]] /\ lfr \in [Hosts -> [Hosts -> SeqNums]]
        /\ cc \in [Hosts -> [Hosts -> CC]]
        /\ recvWindow \in [Hosts -> [Hosts -> [1 .. W -> Frames \cup {NoFrame}]]]
    BY <1>1, Constants DEF Init, Each
  <2>4. /\ accepted \in [Hosts -> 0 .. RecvAcceptRate] /\ active \in [Hosts -> BOOLEAN]
        /\ latest \in [Hosts -> Nat] /\ share \in [Hosts -> Nat] /\ base \in Nat
    BY Constants DEF Init
  <2>5. phase = "input" /\ cur = NoHost /\ todo = {} /\ exiting = FALSE
    BY DEF Init
  <2> QED  BY <2>1, <2>2, <2>3, <2>4, <2>5 DEF TypeOK, Senders, Finished
<1>4. HistoryOK
  BY <1>2 DEF Init, HistoryOK, Each
<1>5. ControlOK
  BY InitControl DEF Init, ControlOK, Each
<1> QED  BY <1>3, <1>4, <1>5 DEF Init, TypeInv, TurnInv, Senders

LEMMA AcceptMessageTypes == TypeInv /\ AcceptMessage => TypeInv'
<1> SUFFICES ASSUME TypeInv, AcceptMessage PROVE TypeInv'
  OBVIOUS
<1> USE DEF control, queues, sending, recving, history
<1>1. PICK s \in Hosts, d \in Hosts, n \in 1 .. MaxFragments :
        /\ cmds' = [cmds EXCEPT ![s] =
             Append(@, [dst |-> d, left |-> n, last |-> Typed(s, d) + n])]
        /\ sent' = [sent EXCEPT ![s][d] = Append(@, Typed(s, d) + n)]
  BY DEF AcceptMessage
<1>2. Typed(s, d) \in Nat /\ n \in Nat \ {0}
  BY TypedNat, Constants DEF TypeInv
<1>3. Typed(s, d) + n \in Nat /\ n <= Typed(s, d) + n
  BY <1>2
<1>4. [dst |-> d, left |-> n, last |-> Typed(s, d) + n] \in Cmds
  BY <1>2, <1>3 DEF Cmds
<1>5. cmds' \in [Hosts -> Seq(Cmds)]
  BY <1>1, <1>4 DEF TypeInv, HistoryOK
<1>6. sent' \in [Hosts -> [Hosts -> Seq(Nat)]]
  <2>1. sent[s][d] \in Seq(Nat)
    BY DEF TypeInv, HistoryOK
  <2>2. Append(sent[s][d], Typed(s, d) + n) \in Seq(Nat)
    BY <1>3, <2>1
  <2> QED  BY <1>1, <2>2, TableUpdate DEF TypeInv, HistoryOK
<1>7. cmds' \in [Hosts -> Seq([dst : Hosts, left : Nat \ {0}, last : Nat])]
  BY <1>5, CmdsTyped
<1> QED
  BY <1>5, <1>6, <1>7
     DEF AcceptMessage, TypeInv, TypeOK, HistoryOK, TurnInv, ControlOK, Senders, Finished

------------------------------------------------------------------------------
\* A sequence changed in place, element by element.
LEMMA SameLength ==
  ASSUME NEW n \in Nat, NEW T, NEW t \in [1 .. n -> T]
  PROVE  t \in Seq(T) /\ Len(t) = n
  OBVIOUS

\* The slots that hold a sequence number.
LEMMA HitsDomain ==
  ASSUME NEW F, NEW slots \in Seq(Slots(F)), NEW seq
  PROVE  /\ Hits(slots, seq) \in SUBSET (1 .. Len(slots)) /\ Len(slots) \in Nat
         /\ Hits(slots, seq) # {} =>
              /\ Min(Hits(slots, seq)) \in Hits(slots, seq)
              /\ Min(Hits(slots, seq)) \in 1 .. Len(slots)
              /\ \A j \in Hits(slots, seq) : Min(Hits(slots, seq)) <= j
<1>1. Len(slots) \in Nat /\ DOMAIN slots = 1 .. Len(slots)
  BY LenProperties
<1>2. Hits(slots, seq) \in SUBSET (1 .. Len(slots))
  BY <1>1 DEF Hits
<1>3. Hits(slots, seq) \in SUBSET Nat
  BY <1>1, <1>2
<1> QED  BY <1>1, <1>2, <1>3, MinNat

\* retransmit_frame changes one timer of the window.
LEMMA RearmedFacts ==
  ASSUME NEW F, NEW slots \in Seq(Slots(F)), slots # << >>, NEW seq, NEW now \in Nat
  PROVE  LET r == Rearmed(slots, seq, now)
             i == RearmedSlot(slots, seq)
         IN  /\ i \in 1 .. Len(slots)
             /\ r \in Seq(Slots(F)) /\ Len(r) = Len(slots)
             /\ \A j \in 1 .. Len(slots) :
                  /\ r[j].frame = slots[j].frame
                  /\ r[j].timeout = IF j = i THEN now + TIMEOUT ELSE slots[j].timeout
<1> DEFINE i == RearmedSlot(slots, seq)
           x == [slots[i] EXCEPT !.timeout = now + TIMEOUT]
<1>1. Len(slots) \in Nat /\ Len(slots) # 0
  BY EmptySeq
<1>2. i \in 1 .. Len(slots)
  BY <1>1, HitsDomain DEF RearmedSlot
<1>3. \A j \in 1 .. Len(slots) : slots[j] \in Slots(F)
  BY ElementOfSeq
<1>4. now + TIMEOUT \in Timeouts
  BY Constants DEF Timeouts
<1>5. x \in Slots(F) /\ x = [frame |-> slots[i].frame, timeout |-> now + TIMEOUT]
  BY <1>2, <1>3, <1>4 DEF Slots
<1>6. Rearmed(slots, seq, now) = [slots EXCEPT ![i] = x]
  BY DEF Rearmed
<1> HIDE DEF i, x
<1>7. /\ [slots EXCEPT ![i] = x] \in Seq(Slots(F))
      /\ Len([slots EXCEPT ![i] = x]) = Len(slots)
      /\ \A j \in 1 .. Len(slots) : [slots EXCEPT ![i] = x][j] = IF j = i THEN x ELSE slots[j]
  BY <1>2, <1>5, ExceptSeq
<1> QED  BY <1>2, <1>5, <1>6, <1>7 DEF i

\* What it sends is a frame of the window, if anything.
LEMMA CopyFacts ==
  ASSUME NEW F, NEW slots \in Seq(Slots(F)), NEW seq
  PROVE  \/ Copy(slots, seq) = << >>
         \/ \E j \in 1 .. Len(slots) : /\ Copy(slots, seq) = <<slots[j].frame>>
                                       /\ slots[j].frame \in F
                                       /\ slots[j].frame.seq = seq
<1>1. CASE Hits(slots, seq) # {}
  <2>1. /\ RearmedSlot(slots, seq) \in 1 .. Len(slots)
        /\ RearmedSlot(slots, seq) \in Hits(slots, seq)
    BY <1>1, HitsDomain DEF RearmedSlot
  <2>2. slots[RearmedSlot(slots, seq)] \in Slots(F)
    BY <2>1, ElementOfSeq
  <2>3. slots[RearmedSlot(slots, seq)].frame \in F
    BY <2>2 DEF Slots
  <2> QED  BY <1>1, <2>1, <2>3 DEF Copy, Hits
<1> QED  BY <1>1 DEF Copy

\* An acknowledgement frees slots at the front.
LEMMA DequeueFacts ==
  ASSUME NEW F, NEW slots \in Seq(Slots(F)), NEW seq
  PROVE  LET k == Acknowledged(slots, seq)
             r == Dequeue(slots, seq)
         IN  /\ k \in 0 .. Len(slots)
             /\ r \in Seq(Slots(F)) /\ Len(r) = Len(slots) - k
             /\ \A j \in 1 .. Len(slots) - k : r[j] = slots[k + j]
<1> DEFINE k == Acknowledged(slots, seq)
<1>1. Len(slots) \in Nat /\ k \in 0 .. Len(slots)
  BY HitsDomain DEF Acknowledged
<1> HIDE DEF k
<1>2. \A i \in k + 1 .. Len(slots) : slots[i] \in Slots(F)
  BY <1>1, ElementOfSeq
<1>3. k + 1 \in Int /\ Len(slots) \in Int
  BY <1>1
<1>4. /\ SubSeq(slots, k + 1, Len(slots)) \in Seq(Slots(F))
      /\ Len(SubSeq(slots, k + 1, Len(slots))) =
           IF k + 1 <= Len(slots) THEN Len(slots) - (k + 1) + 1 ELSE 0
      /\ \A j \in 1 .. Len(slots) - (k + 1) + 1 :
           SubSeq(slots, k + 1, Len(slots))[j] = slots[k + 1 + j - 1]
  BY <1>2, <1>3, SubSeqProperties
<1>5. Dequeue(slots, seq) = SubSeq(slots, k + 1, Len(slots))
  BY DEF Dequeue, k
<1> QED  BY <1>1, <1>4, <1>5 DEF k

\* Run counts the frames at the front of a receive window.
LEMMA RunFacts ==
  ASSUME NEW slots
  PROVE  /\ Run(slots) \in 0 .. W
         /\ \A i \in 1 .. Run(slots) : slots[i] # NoFrame
         /\ Run(slots) < W => slots[Run(slots) + 1] = NoFrame
<1> DEFINE P(n) == /\ \A i \in 1 .. n : slots[i] # NoFrame
                   /\ n < W => slots[n + 1] = NoFrame
           Empty == {i \in 1 .. W : slots[i] = NoFrame}
<1>1. \E n \in 0 .. W : P(n)
  <2>1. CASE Empty = {}
    BY <2>1, Constants
  <2>2. CASE Empty # {}
    <3>1. Empty \in SUBSET Nat  BY Constants
    <3>2. PICK e \in Empty : \A x \in Empty : e <= x  BY <2>2, <3>1, LeastNat
    <3>3. e - 1 \in 0 .. W /\ P(e - 1)  BY <3>2, Constants
    <3> QED  BY <3>3
  <2> QED  BY <2>1, <2>2
<1>2. Run(slots) \in 0 .. W /\ P(Run(slots))
  <2>1. Run(slots) = CHOOSE n \in 0 .. W : P(n)  BY DEF Run
  <2> HIDE DEF P
  <2> QED  BY <1>1, <2>1
<1> QED  BY <1>2

\* reassemble_message finds the first last fragment.
LEMMA CompleteFacts ==
  ASSUME NEW F, NEW frames \in Seq(F), Complete(frames)
  PROVE  LET n == LastFragment(frames)
         IN  /\ n \in 1 .. Len(frames) /\ frames[n].rem = 0
             /\ \A j \in 1 .. n - 1 : frames[j].rem # 0
             /\ Remainder(frames) \in Seq(F) /\ Len(Remainder(frames)) = Len(frames) - n
             /\ \A j \in 1 .. Len(frames) - n : Remainder(frames)[j] = frames[n + j]
<1> DEFINE n == LastFragment(frames)
           T == {i \in DOMAIN frames : frames[i].rem = 0}
<1>1. Len(frames) \in Nat /\ DOMAIN frames = 1 .. Len(frames)
  BY LenProperties
<1>2. T # {} /\ T \in SUBSET Nat
  BY <1>1 DEF Complete
<1>3. n \in T /\ \A y \in T : n <= y
  BY <1>2, MinNat DEF LastFragment
<1>4. n \in 1 .. Len(frames) /\ frames[n].rem = 0
  BY <1>1, <1>3
<1>5. \A j \in 1 .. n - 1 : frames[j].rem # 0
  BY <1>1, <1>3, <1>4
<1>6. Remainder(frames) = SubSeq(frames, n + 1, Len(frames))
  BY DEF Remainder
<1> HIDE DEF n
<1>7. \A i \in n + 1 .. Len(frames) : frames[i] \in F
  BY <1>1, <1>4, ElementOfSeq
<1>8. n + 1 \in Int /\ Len(frames) \in Int
  BY <1>1, <1>4
<1>9. /\ SubSeq(frames, n + 1, Len(frames)) \in Seq(F)
      /\ Len(SubSeq(frames, n + 1, Len(frames))) =
           IF n + 1 <= Len(frames) THEN Len(frames) - (n + 1) + 1 ELSE 0
      /\ \A j \in 1 .. Len(frames) - (n + 1) + 1 :
           SubSeq(frames, n + 1, Len(frames))[j] = frames[n + 1 + j - 1]
  BY <1>7, <1>8, SubSeqProperties
<1>10. /\ Remainder(frames) \in Seq(F) /\ Len(Remainder(frames)) = Len(frames) - n
       /\ \A j \in 1 .. Len(frames) - n : Remainder(frames)[j] = frames[n + j]
  <2> DEFINE r == SubSeq(frames, n + 1, Len(frames))
             m == Len(frames)
  <2>1. n \in Nat /\ m \in Nat /\ n <= m
    BY <1>1, <1>4
  <2>2. Len(r) = m - n
    BY <2>1, <1>9
  <2> HIDE DEF r, m
  <2>3. \A j \in 1 .. m - n : r[j] = frames[n + j]
    <3> TAKE j \in 1 .. m - n
    <3>1. j \in 1 .. m - (n + 1) + 1 /\ n + 1 + j - 1 = n + j
      BY <2>1
    <3> QED  BY <3>1, <1>9 DEF r, m
  <2> QED  BY <2>2, <2>3, <1>6, <1>9 DEF r, m
<1> QED  BY <1>4, <1>5, <1>10 DEF n

------------------------------------------------------------------------------
\* The types, for one host and for two.
LEMMA HostTypes ==
  ASSUME TypeInv
  PROVE  /\ \A h \in Hosts : /\ cmds[h] \in Seq(Cmds) /\ buffered[h] \in Seq(Frames)
                            /\ outgoing[h] \in Seq(Frames) /\ incoming[h] \in Seq(Frames)
                            /\ latest[h] \in Nat /\ share[h] \in Nat
         /\ \A h, p \in Hosts : /\ window[h][p] \in Seq(Slots(Frames))
                               /\ Len(window[h][p]) <= W
                               /\ currSeq[h][p] \in SeqNums /\ lfr[h][p] \in SeqNums
                               /\ recvWindow[h][p] \in [1 .. W -> Frames \cup {NoFrame}]
                               /\ recvMsg[h][p] \in Seq(Frames)
                               /\ sent[h][p] \in Seq(Nat) /\ submitted[h][p] \in Seq(SeqNums)
                               /\ handed[h][p] \in Seq(Nat) /\ printed[h][p] \in Seq(Seq(Nat))
<1>1. \A h \in Hosts : /\ cmds[h] \in Seq(Cmds) /\ buffered[h] \in Seq(Frames)
                      /\ outgoing[h] \in Seq(Frames) /\ incoming[h] \in Seq(Frames)
                      /\ latest[h] \in Nat /\ share[h] \in Nat
  BY DEF TypeInv, TypeOK, HistoryOK
<1>2. \A h, p \in Hosts : window[h][p] \in Seq(Slots(Frames)) /\ Len(window[h][p]) <= W
  <2>1. window \in [Hosts -> [Hosts -> Seq(Slots(Frames))]]
    BY DEF TypeInv, TypeOK, Slots
  <2>2. \A h, p \in Hosts : Len(window[h][p]) <= W
    BY DEF TypeInv, TypeOK
  <2> QED  BY <2>1, <2>2
<1>3. \A h, p \in Hosts : /\ currSeq[h][p] \in SeqNums /\ lfr[h][p] \in SeqNums
                         /\ recvWindow[h][p] \in [1 .. W -> Frames \cup {NoFrame}]
                         /\ recvMsg[h][p] \in Seq(Frames)
  BY DEF TypeInv, TypeOK
<1>4. \A h, p \in Hosts : /\ sent[h][p] \in Seq(Nat) /\ submitted[h][p] \in Seq(SeqNums)
                         /\ handed[h][p] \in Seq(Nat) /\ printed[h][p] \in Seq(Seq(Nat))
  BY DEF TypeInv, HistoryOK
<1> QED  BY <1>1, <1>2, <1>3, <1>4

\* The end of a host's part of run_senders keeps the order of the turn.
LEMMA SenderDoneTypes ==
  ASSUME TypeInv, phase \in {"senders"} \cup Senders, phase # "crashed",
         NEW h \in todo, SenderDone(h),
         cmds[h] = << >>, incoming[h] = << >>, UNCHANGED <<cmds, incoming>>
  PROVE  /\ phase' \in {"data", "senders"} /\ cur' = NoHost /\ todo' \subseteq Hosts
         /\ UNCHANGED <<exiting, accepted, faults>>
         /\ active' \in [Hosts -> BOOLEAN]
         /\ TurnInv'
<1>1. /\ phase' = IF todo' = {} THEN "data" ELSE "senders"
      /\ cur' = NoHost /\ todo' = todo \ {h}
      /\ UNCHANGED <<exiting, accepted, faults>>
  BY DEF SenderDone
<1>2. active' \in [Hosts -> BOOLEAN]
  <2> DEFINE b == buffered'[h] # << >> \/ \E p \in Hosts : window'[h][p] # << >>
  <2>1. b \in BOOLEAN
    OBVIOUS
  <2>2. active' = [active EXCEPT ![h] = b]
    BY DEF SenderDone
  <2> HIDE DEF b
  <2> QED  BY <2>1, <2>2 DEF TypeInv, TypeOK
<1>3. \A g \in Hosts \ todo' : cmds'[g] = << >> /\ incoming'[g] = << >>
  BY <1>1 DEF TypeInv, TurnInv
<1> QED  BY <1>1, <1>2, <1>3 DEF TypeInv, TypeOK, TurnInv, Senders

\* The steps between the parts of a turn.
LEMMA TurnTypes ==
  TypeInv /\ (\/ StartTurn \/ ExitCommand \/ InputError \/ DataSent \/ FramesReceived
              \/ EndTurn \/ Terminated) => TypeInv'
<1> USE DEF control, queues, sending, recving, history, TypeInv, TypeOK, HistoryOK,
            TurnInv, ControlOK, Senders, Finished
<1>1. TypeInv /\ (StartTurn \/ ExitCommand) => TypeInv'
  BY DEF StartTurn, ExitCommand, BeginSenders
<1>2. TypeInv /\ InputError => TypeInv'
  BY DEF InputError
<1>3. TypeInv /\ DataSent => TypeInv'
  <2> SUFFICES ASSUME TypeInv, DataSent PROVE TypeInv'
    OBVIOUS
  <2>1. accepted' \in [Hosts -> 0 .. RecvAcceptRate]
    BY Constants DEF DataSent
  <2> QED  BY <2>1 DEF DataSent
<1>4. TypeInv /\ FramesReceived => TypeInv'
  BY DEF FramesReceived
<1>5. TypeInv /\ EndTurn => TypeInv'
  BY DEF EndTurn
<1>6. TypeInv /\ Terminated => TypeInv'
  BY DEF Terminated, vars
<1> QED  BY <1>1, <1>2, <1>3, <1>4, <1>5, <1>6

LEMMA CountdownTyped ==
  ASSUME NEW t \in Timeouts
  PROVE  Countdown(t) \in Timeouts /\ (t # NoTimer => Countdown(t) # NoTimer)
         /\ (t \in Nat => Countdown(t) \in Nat)
  BY DEF Timeouts, Countdown, NoTimer

\* What 10 ms do to a window.
LEMMA TickWindow ==
  ASSUME NEW F, NEW slots \in Seq(Slots(F)),
         NEW r, r = [i \in DOMAIN slots |-> [slots[i] EXCEPT !.timeout = Countdown(@)]]
  PROVE  /\ r \in Seq(Slots(F)) /\ Len(r) = Len(slots)
         /\ \A i \in 1 .. Len(slots) : /\ r[i].frame = slots[i].frame
                                       /\ r[i].timeout = Countdown(slots[i].timeout)
<1>1. Len(slots) \in Nat /\ DOMAIN slots = 1 .. Len(slots)
  BY LenProperties
<1>2. ASSUME NEW i \in 1 .. Len(slots)
      PROVE  LET x == [slots[i] EXCEPT !.timeout = Countdown(@)]
             IN  /\ x \in Slots(F) /\ x.frame = slots[i].frame
                 /\ x.timeout = Countdown(slots[i].timeout)
  <2>1. slots[i] \in Slots(F)
    BY ElementOfSeq
  <2>2. Countdown(slots[i].timeout) \in Timeouts
    BY <2>1, CountdownTyped DEF Slots
  <2> QED  BY <2>1, <2>2 DEF Slots
<1>3. r \in [1 .. Len(slots) -> Slots(F)]
  BY <1>1, <1>2
<1> QED  BY <1>1, <1>2, <1>3, SameLength

LEMMA TickTypes == TypeInv /\ Tick => TypeInv'
<1> SUFFICES ASSUME TypeInv, Tick PROVE TypeInv'
  OBVIOUS
<1>1. latest' \in [Hosts -> Nat]
  BY CountdownTyped DEF Tick, TypeInv, TypeOK, Timeouts
<1>2. \A h, p \in Hosts : /\ window'[h][p] \in Seq(Slots(Frames))
                          /\ Len(window'[h][p]) <= W
  <2> TAKE h, p \in Hosts
  <2>1. window[h][p] \in Seq(Slots(Frames)) /\ Len(window[h][p]) <= W
    BY HostTypes
  <2>2. window'[h][p] = [i \in DOMAIN window[h][p] |->
                           [window[h][p][i] EXCEPT !.timeout = Countdown(@)]]
    BY DEF Tick
  <2> QED  BY <2>1, <2>2, TickWindow
<1>3. window' \in [Hosts -> [Hosts -> Seq([frame : Frames, timeout : Timeouts])]]
  <2>1. window' = [h \in Hosts |-> [p \in Hosts |-> window'[h][p]]]
    BY DEF Tick
  <2> QED  BY <1>2, <2>1 DEF Slots
<1> QED
  BY <1>1, <1>2, <1>3
     DEF Tick, control, queues, recving, history, TypeInv, TypeOK, HistoryOK, TurnInv,
         ControlOK, Senders, Finished

LEMMA RunSenderTypes == TypeInv /\ RunSender => TypeInv'
<1> SUFFICES ASSUME TypeInv, RunSender PROVE TypeInv'
  OBVIOUS
<1> USE DEF queues, sending, recving, history
<1>1. PICK h \in todo : \/ /\ Wakes(h) /\ cur' = h
                           /\ phase' = IF cmds[h] # << >> THEN "cmds"
                                       ELSE AcksOrTimeouts(incoming[h])
                           /\ UNCHANGED <<todo, exiting, accepted, faults, queues, sending,
                                          recving, history>>
                        \/ /\ ~Wakes(h) /\ SenderDone(h)
                           /\ UNCHANGED <<queues, latest, window, currSeq, cc, share, base,
                                          recving, history>>
  BY DEF RunSender
<1>2. h \in Hosts /\ phase = "senders"
  BY DEF TypeInv, TypeOK, RunSender
<1>3. CASE Wakes(h)
  BY <1>1, <1>2, <1>3, Constants
     DEF TypeInv, TypeOK, HistoryOK, TurnInv, ControlOK, Senders, Finished, AcksOrTimeouts
<1>4. CASE ~Wakes(h)
  <2>1. cmds[h] = << >> /\ incoming[h] = << >>
    BY <1>4 DEF Wakes
  <2>2. UNCHANGED <<cmds, incoming>>
    BY <1>1, <1>4
  <2>3. SenderDone(h)
    BY <1>1, <1>4
  <2>4. /\ phase' \in {"data", "senders"} /\ cur' = NoHost /\ todo' \subseteq Hosts
        /\ UNCHANGED <<exiting, accepted, faults>> /\ active' \in [Hosts -> BOOLEAN]
        /\ TurnInv'
    BY <1>2, <2>1, <2>2, <2>3, SenderDoneTypes
  <2> QED  BY <1>1, <1>4, <2>4 DEF TypeInv, TypeOK, HistoryOK, ControlOK, Senders, Finished
<1> QED  BY <1>3, <1>4

\* r is what remains of the commands q after one more fragment.
Shortened(q, r) ==
  /\ q[1].left = 1 =>
       /\ Len(r) = Len(q) - 1
       /\ \A j \in 1 .. Len(q) - 1 : r[j] = q[j + 1]
  /\ q[1].left # 1 =>
       /\ Len(r) = Len(q)
       /\ r[1].dst = q[1].dst /\ r[1].last = q[1].last /\ r[1].left = q[1].left - 1
       /\ \A j \in 2 .. Len(q) : r[j] = q[j]

\* The commands after one more fragment: those behind the first stay.
LEMMA NextCommands ==
  ASSUME NEW q \in Seq(Cmds), q # << >>,
         NEW r, r = IF Head(q).left = 1 THEN Tail(q)
                    ELSE [q EXCEPT ![1].left = Head(q).left - 1]
  PROVE  /\ Head(q) = q[1] /\ q[1] \in Cmds /\ Len(q) \in Nat \ {0}
         /\ r \in Seq(Cmds) /\ Shortened(q, r)
<1>1. Head(q) = q[1] /\ q[1] \in Cmds /\ Len(q) \in Nat \ {0}
  BY EmptySeq, HeadTailProperties, ElementOfSeq
<1>2. CASE q[1].left = 1
  BY <1>1, <1>2, HeadTailProperties DEF Shortened
<1>3. CASE q[1].left # 1
  <2> DEFINE x == [q[1] EXCEPT !.left = q[1].left - 1]
  <2>1. x \in Cmds /\ x.dst = q[1].dst /\ x.last = q[1].last /\ x.left = q[1].left - 1
    BY <1>1, <1>3, SMTT(40) DEF Cmds
  <2>2. r = [q EXCEPT ![1] = x]
    BY <1>1, <1>3
  <2> HIDE DEF x
  <2>3. /\ r \in Seq(Cmds) /\ Len(r) = Len(q)
        /\ \A j \in 1 .. Len(q) : r[j] = IF j = 1 THEN x ELSE q[j]
    BY <1>1, <2>1, <2>2, ExceptSeq
  <2> QED  BY <1>1, <1>3, <2>1, <2>3 DEF Shortened
<1> QED  BY <1>2, <1>3

LEMMA HandleInputCmdsTypes == TypeInv /\ HandleInputCmds => TypeInv'
<1> SUFFICES ASSUME TypeInv, HandleInputCmds PROVE TypeInv'
  OBVIOUS
<1> USE DEF recving
<1> DEFINE q == cmds[cur]
           c == Head(q)
           f == [kind |-> "data", src |-> cur, dst |-> c.dst, seq |-> currSeq[cur][c.dst],
                 rem |-> c.left - 1, id |-> c.last - c.left + 1]
           r == IF Head(q).left = 1 THEN Tail(q) ELSE [q EXCEPT ![1].left = Head(q).left - 1]
<1>1. phase = "cmds" /\ cur \in Hosts /\ cur \in todo /\ q \in Seq(Cmds) /\ q # << >>
  BY HostTypes DEF HandleInputCmds, TypeInv, TypeOK, TurnInv, Senders, NoHost
<1>2. c \in Cmds /\ r \in Seq(Cmds)
  BY <1>1, NextCommands
<1>3. c.dst \in Hosts /\ c.left - 1 \in Nat /\ c.last - c.left + 1 \in Nat
  BY <1>2, SMTT(40) DEF Cmds
<1>4. /\ currSeq[cur][c.dst] \in SeqNums /\ submitted[cur][c.dst] \in Seq(SeqNums)
      /\ buffered[cur] \in Seq(Frames)
  BY <1>1, <1>3, HostTypes
<1>5. f \in Frames
  BY <1>1, <1>3, <1>4, FrameMade
<1>6. SeqInc(currSeq[cur][c.dst]) \in SeqNums
  BY <1>4, SeqIncType
<1>7. /\ buffered' = [buffered EXCEPT ![cur] = Append(buffered[cur], f)]
      /\ currSeq' = [currSeq EXCEPT ![cur][c.dst] = SeqInc(currSeq[cur][c.dst])]
      /\ submitted' = [submitted EXCEPT ![cur][c.dst] =
                         Append(submitted[cur][c.dst], currSeq[cur][c.dst])]
      /\ cmds' = [cmds EXCEPT ![cur] = r]
      /\ phase' = IF cmds'[cur] # << >> THEN "cmds" ELSE AcksOrTimeouts(incoming[cur])
      /\ UNCHANGED <<cur, todo, exiting, accepted, faults, outgoing, incoming, active,
                     latest, window, cc, share, base, recving, sent, handed, printed>>
  BY DEF HandleInputCmds
<1>8. Append(buffered[cur], f) \in Seq(Frames)
  BY <1>4, <1>5
<1>9. Append(submitted[cur][c.dst], currSeq[cur][c.dst]) \in Seq(SeqNums)
  BY <1>4
<1> HIDE DEF f, r, c, q
<1>10. buffered' \in [Hosts -> Seq(Frames)]
  BY <1>1, <1>7, <1>8 DEF TypeInv, TypeOK
<1>11. cmds' \in [Hosts -> Seq(Cmds)] /\ cmds'[cur] = r
       /\ \A h \in Hosts : h # cur => cmds'[h] = cmds[h]
  BY <1>1, <1>2, <1>7 DEF TypeInv, HistoryOK
<1>12. cmds' \in [Hosts -> Seq([dst : Hosts, left : Nat \ {0}, last : Nat])]
  BY <1>11, CmdsTyped
<1>13. currSeq' \in [Hosts -> [Hosts -> SeqNums]]
  BY <1>1, <1>3, <1>6, <1>7, TableUpdate, ZenonT(40) DEF TypeInv, TypeOK
<1>14. submitted' \in [Hosts -> [Hosts -> Seq(SeqNums)]]
  BY <1>1, <1>3, <1>7, <1>9, TableUpdate DEF TypeInv, HistoryOK
<1>15. phase' \in {"cmds", "acks", "timeouts"}
  BY <1>7 DEF AcksOrTimeouts
<1>16. TypeOK'
  BY <1>1, <1>7, <1>10, <1>12, <1>13, <1>15 DEF TypeInv, TypeOK, Senders, Finished
<1>17. HistoryOK'
  BY <1>7, <1>11, <1>14 DEF TypeInv, HistoryOK
<1>18. TurnInv'
  BY <1>1, <1>7, <1>11, <1>15 DEF TypeInv, TurnInv, Senders, AcksOrTimeouts
<1>19. ControlOK'
  BY <1>7 DEF TypeInv, ControlOK
<1> QED  BY <1>16, <1>17, <1>18, <1>19 DEF TypeInv

LEMMA DropCorruptAckTypes == TypeInv /\ DropCorruptAck => TypeInv'
<1> SUFFICES ASSUME TypeInv, DropCorruptAck PROVE TypeInv'
  OBVIOUS
<1> USE DEF sending, recving, history
<1>1. /\ phase = "acks" /\ cur \in Hosts /\ cur \in todo /\ cmds[cur] = << >>
      /\ incoming[cur] \in Seq(Frames) /\ incoming[cur] # << >>
  BY HostTypes DEF DropCorruptAck, TypeInv, TypeOK, TurnInv, Senders, NoHost
<1>2. incoming' \in [Hosts -> Seq(Frames)] /\ incoming'[cur] = Tail(incoming[cur])
      /\ \A h \in Hosts : h # cur => incoming'[h] = incoming[h]
  BY <1>1, HeadTailProperties DEF DropCorruptAck, TypeInv, TypeOK
<1>3. /\ phase' = AcksOrTimeouts(incoming'[cur])
      /\ UNCHANGED <<cur, todo, exiting, accepted, faults, cmds, buffered, outgoing,
                     sending, recving, history>>
  BY DEF DropCorruptAck
<1> QED
  BY <1>1, <1>2, <1>3 DEF TypeInv, TypeOK, HistoryOK, TurnInv, ControlOK, Senders,
                          Finished, AcksOrTimeouts

\* The frame an acknowledgement is, and the window it is for.
LEMMA AckTyped ==
  ASSUME TypeInv, HandleIncomingAck
  PROVE  LET ack == Head(incoming[cur])
         IN  /\ phase = "acks" /\ cur \in Hosts /\ cur \in todo /\ cmds[cur] = << >>
             /\ incoming[cur] \in Seq(Frames) /\ incoming[cur] # << >>
             /\ ack \in Frames /\ ack.src \in Hosts /\ ack.seq \in SeqNums
             /\ ack.kind = "ack"
             /\ window[cur][ack.src] \in Seq(Slots(Frames))
             /\ Len(window[cur][ack.src]) <= W
             /\ CP!Good(cc[cur][ack.src])
<1>1. /\ phase = "acks" /\ cur \in Hosts /\ cur \in todo /\ cmds[cur] = << >>
      /\ incoming[cur] \in Seq(Frames) /\ incoming[cur] # << >>
      /\ Head(incoming[cur]).kind = "ack"
  BY HostTypes DEF HandleIncomingAck, TypeInv, TypeOK, TurnInv, Senders, NoHost
<1>2. Head(incoming[cur]) \in Frames
  BY <1>1, HeadTailProperties
<1>3. Head(incoming[cur]).src \in Hosts /\ Head(incoming[cur]).seq \in SeqNums
  BY <1>2 DEF Frames
<1> QED  BY <1>1, <1>2, <1>3, HostTypes DEF TypeInv, ControlOK

\* What it leaves of that window: frames from the front are gone, timers may
\* have been set.
Freed(F, slots, k, r) ==
  /\ k \in 0 .. Len(slots)
  /\ r \in Seq(Slots(F)) /\ Len(r) = Len(slots) - k
  /\ \A j \in 1 .. Len(slots) - k :
       /\ r[j].frame = slots[k + j].frame
       /\ slots[k + j].timeout # NoTimer => r[j].timeout # NoTimer

LEMMA AckWindow ==
  ASSUME NEW F, NEW slots \in Seq(Slots(F)), NEW seq, NEW now \in Nat, NEW r,
         \/ r = Dequeue(slots, seq)
         \/ slots # << >> /\ r = Dequeue(Rearmed(slots, SeqInc(seq), now), seq)
  PROVE  Freed(F, slots, Acknowledged(slots, seq), r)
<1>1. CASE r = Dequeue(slots, seq)
  BY <1>1, DequeueFacts DEF Freed
<1>2. CASE slots # << >> /\ r = Dequeue(Rearmed(slots, SeqInc(seq), now), seq)
  <2> DEFINE x == Rearmed(slots, SeqInc(seq), now)
  <2>1. /\ x \in Seq(Slots(F)) /\ Len(x) = Len(slots) /\ Len(slots) \in Nat
        /\ \A j \in 1 .. Len(slots) :
             /\ x[j].frame = slots[j].frame
             /\ slots[j].timeout # NoTimer => x[j].timeout # NoTimer
    <3>1. /\ x \in Seq(Slots(F)) /\ Len(x) = Len(slots)
          /\ \A j \in 1 .. Len(slots) :
               /\ x[j].frame = slots[j].frame
               /\ x[j].timeout = IF j = RearmedSlot(slots, SeqInc(seq)) THEN now + TIMEOUT
                                 ELSE slots[j].timeout
      BY <1>2, RearmedFacts
    <3>2. now + TIMEOUT # NoTimer /\ Len(slots) \in Nat
      BY Constants, LenProperties
    <3> HIDE DEF x
    <3> QED  BY <3>1, <3>2
  <2>2. x # << >>
    BY <1>2, <2>1, EmptySeq
  <2> HIDE DEF x
  <2>3. Hits(x, seq) = Hits(slots, seq)
    BY <2>1, LenProperties DEF Hits
  <2>4. 1 \in 1 .. Len(slots) /\ Head(x) = x[1] /\ Head(slots) = slots[1]
    BY <1>2, <2>1, <2>2, EmptySeq, HeadTailProperties
  <2>5. Acknowledged(x, seq) = Acknowledged(slots, seq)
    BY <1>2, <2>1, <2>2, <2>3, <2>4 DEF Acknowledged
  <2>6. r = Dequeue(x, seq)
    BY <1>2 DEF x
  <2>7. LET k == Acknowledged(x, seq)
        IN  /\ k \in 0 .. Len(x) /\ r \in Seq(Slots(F)) /\ Len(r) = Len(x) - k
            /\ \A j \in 1 .. Len(x) - k : r[j] = x[k + j]
    BY <2>1, <2>6, DequeueFacts
  <2> DEFINE k == Acknowledged(slots, seq)
  <2>8. /\ k \in 0 .. Len(slots) /\ r \in Seq(Slots(F)) /\ Len(r) = Len(slots) - k
        /\ \A j \in 1 .. Len(slots) - k : r[j] = x[k + j]
    BY <2>1, <2>5, <2>7
  <2> HIDE DEF k
  <2>9. \A j \in 1 .. Len(slots) - k : k + j \in 1 .. Len(slots)
    BY <2>1, <2>8
  <2>10. \A j \in 1 .. Len(slots) - k :
           /\ r[j].frame = slots[k + j].frame
           /\ slots[k + j].timeout # NoTimer => r[j].timeout # NoTimer
    BY <2>1, <2>8, <2>9
  <2> QED  BY <2>8, <2>10 DEF k, Freed
<1> QED  BY <1>1, <1>2

LEMMA HandleIncomingAckTypes == TypeInv /\ HandleIncomingAck => TypeInv'
<1> SUFFICES ASSUME TypeInv, HandleIncomingAck PROVE TypeInv'
  OBVIOUS
<1> USE DEF recving, history
<1> DEFINE ack   == Head(incoming[cur])
           p     == ack.src
           slots == window[cur][p]
           fast  == FastRetransmitOn(cc[cur][p], ack.seq)
           again == fast /\ slots # << >>
           sends == IF again THEN Copy(slots, SeqInc(ack.seq)) ELSE << >>
           left  == IF again THEN Dequeue(Rearmed(slots, SeqInc(ack.seq), latest[cur]), ack.seq)
                    ELSE Dequeue(slots, ack.seq)
<1>1. /\ phase = "acks" /\ cur \in Hosts /\ cur \in todo /\ cmds[cur] = << >>
      /\ incoming[cur] \in Seq(Frames) /\ incoming[cur] # << >>
      /\ p \in Hosts /\ ack.seq \in SeqNums /\ slots \in Seq(Slots(Frames)) /\ Len(slots) <= W
      /\ CP!Good(cc[cur][p])
  BY AckTyped
<1>2. /\ cc' = [cc EXCEPT ![cur][p] = OnAck(cc[cur][p], ack.seq)]
      /\ latest' = [latest EXCEPT ![cur] = latest[cur] + (IF fast THEN 1 ELSE 0)]
      /\ incoming' = [incoming EXCEPT ![cur] = Tail(incoming[cur])]
      /\ outgoing' = IF again THEN [outgoing EXCEPT ![cur] = outgoing[cur] \o sends]
                     ELSE outgoing
      /\ window' = [window EXCEPT ![cur][p] = left]
      /\ phase' \in {AcksOrTimeouts(incoming'[cur]), "crashed"}
      /\ UNCHANGED <<cur, todo, exiting, accepted, faults, cmds, buffered, active,
                     currSeq, share, base, recving, history>>
  BY DEF HandleIncomingAck
<1>3. left \in Seq(Slots(Frames)) /\ Len(left) <= W
  <2>1. latest[cur] \in Nat
    BY <1>1, HostTypes
  <2>2. LET k == Acknowledged(slots, ack.seq)
        IN  k \in 0 .. Len(slots) /\ left \in Seq(Slots(Frames)) /\ Len(left) = Len(slots) - k
    <3>1. \/ left = Dequeue(slots, ack.seq)
          \/ slots # << >> /\ left = Dequeue(Rearmed(slots, SeqInc(ack.seq), latest[cur]), ack.seq)
      OBVIOUS
    <3> HIDE DEF slots, ack, p, fast, left
    <3>2. slots \in Seq(Slots(Frames))
      BY <1>1
    <3>3. Freed(Frames, slots, Acknowledged(slots, ack.seq), left)
      BY <2>1, <3>1, <3>2, AckWindow
    <3> QED  BY <3>3 DEF Freed
  <2> QED  BY <1>1, <2>2, Constants
<1>4. sends \in Seq(Frames)
  <2>1. \/ sends = << >>
        \/ \E j \in 1 .. Len(slots) : sends = <<slots[j].frame>> /\ slots[j].frame \in Frames
    <3>1. sends = << >> \/ sends = Copy(slots, SeqInc(ack.seq))
      OBVIOUS
    <3> HIDE DEF slots, ack, sends
    <3> QED  BY <1>1, <3>1, CopyFacts
  <2> HIDE DEF sends
  <2>2. \A x \in Frames : <<x>> \in Seq(Frames)
    OBVIOUS
  <2> QED  BY <2>1, <2>2, EmptySeq
<1> HIDE DEF ack, p, slots, fast, again, sends, left
<1>5. window' \in [Hosts -> [Hosts -> Seq([frame : Frames, timeout : Timeouts])]]
      /\ \A g, d \in Hosts : Len(window'[g][d]) <= W
  <2>1. window \in [Hosts -> [Hosts -> Seq(Slots(Frames))]] /\ \A g, d \in Hosts : Len(window[g][d]) <= W
    BY DEF TypeInv, TypeOK, Slots
  <2>2. /\ window' \in [Hosts -> [Hosts -> Seq(Slots(Frames))]]
        /\ window'[cur][p] = left
        /\ \A g, d \in Hosts : g # cur \/ d # p => window'[g][d] = window[g][d]
    BY <1>1, <1>2, <1>3, <2>1, TableUpdate
  <2> QED  BY <1>3, <2>1, <2>2 DEF Slots
<1>6. outgoing' \in [Hosts -> Seq(Frames)]
  <2>1. outgoing[cur] \o sends \in Seq(Frames)
    BY <1>1, <1>4, HostTypes
  <2> QED  BY <1>1, <1>2, <2>1 DEF TypeInv, TypeOK
<1>7. incoming' \in [Hosts -> Seq(Frames)] /\ incoming'[cur] = Tail(incoming[cur])
      /\ \A g \in Hosts : g # cur => incoming'[g] = incoming[g]
  BY <1>1, <1>2, HeadTailProperties DEF TypeInv, TypeOK
<1>8. latest' \in [Hosts -> Nat]
  <2> DEFINE d == IF fast THEN 1 ELSE 0
  <2>1. d \in Nat
    OBVIOUS
  <2>2. latest' = [latest EXCEPT ![cur] = latest[cur] + d]
    BY <1>2
  <2> HIDE DEF d
  <2>3. latest \in [Hosts -> Nat]
    BY DEF TypeInv, TypeOK
  <2>4. latest[cur] + d \in Nat
    BY <1>1, <2>1, <2>3
  <2> QED  BY <1>1, <2>2, <2>3, <2>4
<1>9. CP!Good(OnAck(cc[cur][p], ack.seq))
  BY <1>1, ControlKept
<1>10. cc' \in [Hosts -> [Hosts -> CC]] /\ ControlOK'
  <2>1. OnAck(cc[cur][p], ack.seq) \in CC
    BY <1>9, ControlKept
  <2>2. /\ cc' \in [Hosts -> [Hosts -> CC]]
        /\ cc'[cur][p] = OnAck(cc[cur][p], ack.seq)
        /\ \A g, d \in Hosts : g # cur \/ d # p => cc'[g][d] = cc[g][d]
    <3> DEFINE y == OnAck(cc[cur][p], ack.seq)
    <3>1. cc \in [Hosts -> [Hosts -> CC]]
      BY DEF TypeInv, TypeOK
    <3>2. y \in CC /\ cc' = [cc EXCEPT ![cur][p] = y]
      BY <1>2, <2>1
    <3> HIDE DEF y
    <3>3. /\ cc' \in [Hosts -> [Hosts -> CC]] /\ cc'[cur][p] = y
          /\ \A g, d \in Hosts : g # cur \/ d # p => cc'[g][d] = cc[g][d]
      BY <1>1, <3>1, <3>2, TableUpdate
    <3> QED  BY <3>3 DEF y
  <2> QED  BY <1>9, <2>2 DEF TypeInv, ControlOK
<1>11. phase' \in {"acks", "timeouts", "crashed"}
  BY <1>2 DEF AcksOrTimeouts
<1>12. TypeOK'
  BY <1>1, <1>2, <1>5, <1>6, <1>7, <1>8, <1>10, <1>11 DEF TypeInv, TypeOK, Senders, Finished
<1>13. HistoryOK'
  BY <1>2 DEF TypeInv, HistoryOK
<1>14. TurnInv'
  BY <1>1, <1>2, <1>7, <1>11 DEF TypeInv, TurnInv, Senders, AcksOrTimeouts
<1> QED  BY <1>10, <1>12, <1>13, <1>14 DEF TypeInv

\* One expired frame stops the timers of a window.
LEMMA StoppedWindow ==
  ASSUME NEW F, NEW slots \in Seq(Slots(F)),
         NEW r, r = [i \in DOMAIN slots |-> [slots[i] EXCEPT !.timeout = NoTimer]]
  PROVE  /\ r \in Seq(Slots(F)) /\ Len(r) = Len(slots)
         /\ \A i \in 1 .. Len(slots) : r[i].frame = slots[i].frame
<1>1. Len(slots) \in Nat /\ DOMAIN slots = 1 .. Len(slots)
  BY LenProperties
<1>2. ASSUME NEW i \in 1 .. Len(slots)
      PROVE  LET x == [slots[i] EXCEPT !.timeout = NoTimer]
             IN  x \in Slots(F) /\ x.frame = slots[i].frame
  <2>1. slots[i] \in Slots(F)
    BY ElementOfSeq
  <2> QED  BY <2>1 DEF Slots, Timeouts
<1>3. r \in [1 .. Len(slots) -> Slots(F)]
  BY <1>1, <1>2
<1> QED  BY <1>1, <1>2, <1>3, SameLength

LEMMA HandleTimedoutFramesTypes == TypeInv /\ HandleTimedoutFrames => TypeInv'
<1> SUFFICES ASSUME TypeInv, HandleTimedoutFrames PROVE TypeInv'
  OBVIOUS
<1> USE DEF queues, recving, history
<1>1. phase = "timeouts" /\ cur \in Hosts /\ phase' = "outgoing"
  BY DEF HandleTimedoutFrames, TypeInv, TypeOK, Senders, NoHost
<1>2. UNCHANGED <<cur, todo, exiting, accepted, faults, queues, active, latest,
                  currSeq, recving, history>>
  BY DEF HandleTimedoutFrames
<1>3. window' \in [Hosts -> [Hosts -> Seq([frame : Frames, timeout : Timeouts])]]
      /\ \A h, p \in Hosts : Len(window'[h][p]) <= W
  <2> DEFINE row == [p \in Hosts |->
                       IF Expired(cur, p)
                         THEN [i \in DOMAIN window[cur][p] |->
                                 [window[cur][p][i] EXCEPT !.timeout = NoTimer]]
                         ELSE window[cur][p]]
  <2>1. window' = [window EXCEPT ![cur] = row]
    BY DEF HandleTimedoutFrames
  <2>2. \A p \in Hosts : row[p] \in Seq(Slots(Frames)) /\ Len(row[p]) <= W
    <3> TAKE p \in Hosts
    <3>1. window[cur][p] \in Seq(Slots(Frames)) /\ Len(window[cur][p]) <= W
      BY <1>1, HostTypes
    <3>2. CASE Expired(cur, p)
      <4>1. row[p] = [i \in DOMAIN window[cur][p] |->
                        [window[cur][p][i] EXCEPT !.timeout = NoTimer]]
        BY <3>2
      <4> HIDE DEF row
      <4> QED  BY <3>1, <4>1, StoppedWindow
    <3>3. CASE ~Expired(cur, p)
      BY <3>1, <3>3
    <3> QED  BY <3>2, <3>3
  <2>3. row \in [Hosts -> Seq(Slots(Frames))]
    <3>1. row = [p \in Hosts |-> row[p]]
      OBVIOUS
    <3> HIDE DEF row
    <3> QED  BY <2>2, <3>1
  <2> HIDE DEF row
  <2>4. window \in [Hosts -> [Hosts -> Seq(Slots(Frames))]] /\ \A g, d \in Hosts : Len(window[g][d]) <= W
    BY DEF TypeInv, TypeOK, Slots
  <2> QED  BY <1>1, <2>1, <2>2, <2>3, <2>4 DEF Slots
<1>4. \A p \in Hosts : CP!Good(AfterTimeouts(cur, p))
  BY <1>1, ControlKept DEF TypeInv, ControlOK, AfterTimeouts
<1>5. cc' = [cc EXCEPT ![cur] = [p \in Hosts |-> AfterTimeouts(cur, p)]]
  BY DEF HandleTimedoutFrames
<1>6. \A h, p \in Hosts : CP!Good(cc'[h][p])
  BY <1>1, <1>4, <1>5 DEF TypeInv, TypeOK, ControlOK
<1>7. cc' \in [Hosts -> [Hosts -> CC]]
  <2>1. [p \in Hosts |-> AfterTimeouts(cur, p)] \in [Hosts -> CC]
    BY <1>4, ControlKept
  <2> QED  BY <1>1, <1>5, <2>1 DEF TypeInv, TypeOK
<1>8. share' \in [Hosts -> Nat] /\ base' \in Nat
  <2>1. \A p \in Hosts : FramesPerTurn(cc'[cur][p]) \in Nat
    BY <1>1, <1>6, ControlKept
  <2>2. share' = [p \in Hosts |-> FramesPerTurn(cc'[cur][p])] /\ base' = latest[cur]
    BY DEF HandleTimedoutFrames
  <2> QED  BY <1>1, <2>1, <2>2, HostTypes
<1>9. TypeOK'
  BY <1>1, <1>2, <1>3, <1>7, <1>8 DEF TypeInv, TypeOK, Senders, Finished
<1>10. HistoryOK' /\ TurnInv'
  BY <1>1, <1>2 DEF TypeInv, HistoryOK, TurnInv, Senders
<1>11. ControlOK'
  BY <1>6 DEF ControlOK
<1> QED  BY <1>9, <1>10, <1>11 DEF TypeInv

\* The receiver ResendFrame serves, and its first frame that waits.
LEMMA ResendTyped ==
  ASSUME TypeInv, ResendFrame
  PROVE  LET p == Min(Resendable)
             j == Min(Idle(p))
         IN  /\ phase = "outgoing" /\ cur \in Hosts
             /\ p \in Hosts /\ p # cur /\ share[p] > 0
             /\ window[cur][p] \in Seq(Slots(Frames)) /\ window[cur][p] # << >>
             /\ j \in 1 .. Len(window[cur][p])
             /\ Hits(window[cur][p], window[cur][p][j].frame.seq) # {}
<1> DEFINE p == Min(Resendable)
<1>1. phase = "outgoing" /\ cur \in Hosts /\ Resendable # {}
  BY DEF ResendFrame, TypeInv, TypeOK, Senders, NoHost
<1>2. Resendable \in SUBSET Nat
  BY Constants DEF Resendable
<1>3. p \in Resendable
  BY <1>1, <1>2, MinNat
<1>4. p \in Hosts /\ p # cur /\ share[p] > 0 /\ Idle(p) # {}
  BY <1>3 DEF Resendable
<1> HIDE DEF p
<1>5. window[cur][p] \in Seq(Slots(Frames))
  BY <1>1, <1>4, HostTypes
<1>6. DOMAIN window[cur][p] = 1 .. Len(window[cur][p]) /\ Len(window[cur][p]) \in Nat
  BY <1>5, LenProperties
<1>7. Idle(p) \in SUBSET (1 .. Len(window[cur][p]))
  BY <1>6 DEF Idle
<1>8. Min(Idle(p)) \in Idle(p)
  BY <1>4, <1>6, <1>7, MinNat
<1>9. Min(Idle(p)) \in 1 .. Len(window[cur][p])
  BY <1>7, <1>8
<1>10. Min(Idle(p)) \in Hits(window[cur][p], window[cur][p][Min(Idle(p))].frame.seq)
  BY <1>6, <1>9 DEF Hits
<1>11. window[cur][p] # << >>
  BY <1>9
<1> QED  BY <1>1, <1>4, <1>5, <1>9, <1>10, <1>11 DEF p

LEMMA ResendFrameTypes == TypeInv /\ ResendFrame => TypeInv'
<1> SUFFICES ASSUME TypeInv, ResendFrame PROVE TypeInv'
  OBVIOUS
<1> USE DEF control, recving, history
<1> DEFINE p     == Min(Resendable)
           slots == window[cur][p]
           seq   == slots[Min(Idle(p))].frame.seq
           left  == Rearmed(slots, seq, latest[cur])
           sends == Copy(slots, seq)
<1>1. /\ phase = "outgoing" /\ cur \in Hosts /\ p \in Hosts /\ share[p] > 0
      /\ slots \in Seq(Slots(Frames)) /\ slots # << >> /\ Len(slots) <= W
  BY ResendTyped, HostTypes
<1>2. /\ outgoing' = [outgoing EXCEPT ![cur] = outgoing[cur] \o sends]
      /\ window' = [window EXCEPT ![cur][p] = left]
      /\ share' = [share EXCEPT ![p] = share[p] - 1]
      /\ latest' = [latest EXCEPT ![cur] = latest[cur] + 1]
      /\ UNCHANGED <<control, cmds, buffered, incoming, active, currSeq, cc, base,
                     recving, history>>
  BY DEF ResendFrame
<1>3. left \in Seq(Slots(Frames)) /\ Len(left) <= W
  <2>1. latest[cur] \in Nat
    BY <1>1, HostTypes
  <2>2. left \in Seq(Slots(Frames)) /\ Len(left) = Len(slots)
    BY <1>1, <2>1, RearmedFacts
  <2> QED  BY <1>1, <2>2
<1>4. sends \in Seq(Frames)
  <2>1. \/ sends = << >>
        \/ \E j \in 1 .. Len(slots) : sends = <<slots[j].frame>> /\ slots[j].frame \in Frames
    BY <1>1, CopyFacts
  <2> HIDE DEF sends
  <2>2. \A x \in Frames : <<x>> \in Seq(Frames)
    OBVIOUS
  <2> QED  BY <2>1, <2>2, EmptySeq
<1>5. share[p] - 1 \in Nat /\ latest[cur] + 1 \in Nat /\ outgoing[cur] \o sends \in Seq(Frames)
  BY <1>1, <1>4, HostTypes
<1> HIDE DEF p, slots, seq, left, sends
<1>6. window' \in [Hosts -> [Hosts -> Seq([frame : Frames, timeout : Timeouts])]]
      /\ \A g, d \in Hosts : Len(window'[g][d]) <= W
  <2>1. window \in [Hosts -> [Hosts -> Seq(Slots(Frames))]] /\ \A g, d \in Hosts : Len(window[g][d]) <= W
    BY DEF TypeInv, TypeOK, Slots
  <2>2. /\ window' \in [Hosts -> [Hosts -> Seq(Slots(Frames))]]
        /\ window'[cur][p] = left
        /\ \A g, d \in Hosts : g # cur \/ d # p => window'[g][d] = window[g][d]
    BY <1>1, <1>2, <1>3, <2>1, TableUpdate
  <2> QED  BY <1>3, <2>1, <2>2 DEF Slots
<1>7. /\ outgoing' \in [Hosts -> Seq(Frames)] /\ share' \in [Hosts -> Nat]
      /\ latest' \in [Hosts -> Nat]
  BY <1>1, <1>2, <1>5 DEF TypeInv, TypeOK
<1> QED
  BY <1>1, <1>2, <1>6, <1>7
     DEF TypeInv, TypeOK, HistoryOK, TurnInv, ControlOK, Senders, Finished

\* The buffered frame that ReleaseFrame lets through: the first one that may go.
LEMMA ReleaseTyped ==
  ASSUME TypeInv, ReleaseFrame
  PROVE  LET i == Min(Releasable)
             f == buffered[cur][i]
         IN  /\ phase = "outgoing" /\ cur \in Hosts
             /\ buffered[cur] \in Seq(Frames) /\ i \in 1 .. Len(buffered[cur])
             /\ f \in Frames /\ f.dst \in Hosts
             /\ share[f.dst] > 0 /\ Len(window[cur][f.dst]) < W
             /\ \A j \in 1 .. i - 1 : buffered[cur][j].dst # f.dst
<1> DEFINE i == Min(Releasable)
<1>1. /\ phase = "outgoing" /\ cur \in Hosts /\ Releasable # {}
      /\ buffered[cur] \in Seq(Frames)
  BY HostTypes DEF ReleaseFrame, TypeInv, TypeOK, Senders, NoHost
<1>2. DOMAIN buffered[cur] = 1 .. Len(buffered[cur]) /\ Len(buffered[cur]) \in Nat
  BY <1>1, LenProperties
<1>3. Releasable \in SUBSET (1 .. Len(buffered[cur]))
  BY <1>2 DEF Releasable
<1>4. i \in Releasable /\ \A j \in Releasable : i <= j
  BY <1>1, <1>2, <1>3, MinNat
<1> HIDE DEF i
<1>5. i \in 1 .. Len(buffered[cur])
  BY <1>3, <1>4
<1>6. /\ share[buffered[cur][i].dst] > 0
      /\ Len(window[cur][buffered[cur][i].dst]) < W
  BY <1>4 DEF Releasable
<1>7. buffered[cur][i] \in Frames
  BY <1>1, <1>5, ElementOfSeq
<1>8. \A j \in 1 .. i - 1 : buffered[cur][j].dst # buffered[cur][i].dst
  <2> SUFFICES ASSUME NEW j \in 1 .. i - 1, buffered[cur][j].dst = buffered[cur][i].dst
               PROVE  FALSE
    OBVIOUS
  <2>1. j \in Releasable
    BY <1>2, <1>5, <1>6 DEF Releasable
  <2> QED  BY <1>2, <1>4, <1>5, <2>1
<1>9. buffered[cur][i].dst \in Hosts
  BY <1>7 DEF Frames
<1> QED  BY <1>1, <1>5, <1>6, <1>7, <1>8, <1>9 DEF i

LEMMA ReleaseFrameTypes == TypeInv /\ ReleaseFrame => TypeInv'
<1> SUFFICES ASSUME TypeInv, ReleaseFrame PROVE TypeInv'
  OBVIOUS
<1> USE DEF control, recving, history
<1> DEFINE i    == Min(Releasable)
           f    == buffered[cur][i]
           slot == [frame |-> f, timeout |-> base + TIMEOUT]
<1>1. /\ phase = "outgoing" /\ cur \in Hosts /\ i \in 1 .. Len(buffered[cur])
      /\ f \in Frames /\ f.dst \in Hosts /\ share[f.dst] > 0 /\ Len(window[cur][f.dst]) < W
  BY ReleaseTyped
<1>2. /\ buffered[cur] \in Seq(Frames) /\ outgoing[cur] \in Seq(Frames)
      /\ window[cur][f.dst] \in Seq(Slots(Frames)) /\ base \in Nat /\ share[f.dst] \in Nat
  BY <1>1, HostTypes DEF TypeInv, TypeOK
<1>3. /\ buffered' = [buffered EXCEPT ![cur] = RemoveAt(buffered[cur], i)]
      /\ outgoing' = [outgoing EXCEPT ![cur] = Append(outgoing[cur], f)]
      /\ window' = [window EXCEPT ![cur][f.dst] = Append(window[cur][f.dst], slot)]
      /\ share' = [share EXCEPT ![f.dst] = share[f.dst] - 1]
      /\ base' = base + 1
      /\ UNCHANGED <<control, cmds, incoming, active, latest, currSeq, cc, recving, history>>
  BY DEF ReleaseFrame
<1>4. slot \in Slots(Frames)
  BY <1>1, <1>2, Constants, SMTT(40) DEF Slots, Timeouts
<1> HIDE DEF i, f, slot
<1>5. /\ RemoveAt(buffered[cur], i) \in Seq(Frames)
      /\ Append(outgoing[cur], f) \in Seq(Frames)
      /\ share[f.dst] - 1 \in Nat
  BY <1>1, <1>2, RemoveAtProperties
<1>6. /\ Append(window[cur][f.dst], slot) \in Seq(Slots(Frames))
      /\ Len(Append(window[cur][f.dst], slot)) <= W
  BY <1>1, <1>2, <1>4, Constants
<1>7. window' \in [Hosts -> [Hosts -> Seq([frame : Frames, timeout : Timeouts])]]
      /\ \A g, d \in Hosts : Len(window'[g][d]) <= W
  <2> DEFINE left == Append(window[cur][f.dst], slot)
  <2>1. window \in [Hosts -> [Hosts -> Seq(Slots(Frames))]] /\ \A g, d \in Hosts : Len(window[g][d]) <= W
    BY DEF TypeInv, TypeOK, Slots
  <2>2. left \in Seq(Slots(Frames)) /\ window' = [window EXCEPT ![cur][f.dst] = left]
    BY <1>3, <1>6
  <2>3. Len(left) <= W
    BY <1>6
  <2> HIDE DEF left
  <2>4. /\ window' \in [Hosts -> [Hosts -> Seq(Slots(Frames))]]
        /\ window'[cur][f.dst] = left
        /\ \A g, d \in Hosts : g # cur \/ d # f.dst => window'[g][d] = window[g][d]
    BY <1>1, <2>1, <2>2, TableUpdate
  <2> QED  BY <2>1, <2>3, <2>4 DEF Slots
<1>8. /\ buffered' \in [Hosts -> Seq(Frames)] /\ outgoing' \in [Hosts -> Seq(Frames)]
      /\ share' \in [Hosts -> Nat] /\ base' \in Nat
  <2>1. /\ buffered \in [Hosts -> Seq(Frames)] /\ outgoing \in [Hosts -> Seq(Frames)]
        /\ share \in [Hosts -> Nat]
    BY DEF TypeInv, TypeOK
  <2>2. buffered' \in [Hosts -> Seq(Frames)] /\ outgoing' \in [Hosts -> Seq(Frames)]
    BY <1>1, <1>3, <1>5, <2>1
  <2>3. share' \in [Hosts -> Nat]
    BY <1>1, <1>3, <1>5, <2>1
  <2> QED  BY <1>2, <1>3, <2>2, <2>3
<1> QED
  BY <1>1, <1>3, <1>7, <1>8
     DEF TypeInv, TypeOK, HistoryOK, TurnInv, ControlOK, Senders, Finished

LEMMA OutgoingDoneTypes == TypeInv /\ OutgoingDone => TypeInv'
<1> SUFFICES ASSUME TypeInv, OutgoingDone PROVE TypeInv'
  OBVIOUS
<1> USE DEF queues, recving, history
<1>1. /\ phase = "outgoing" /\ cur \in Hosts /\ cur \in todo
      /\ cmds[cur] = << >> /\ incoming[cur] = << >>
  BY DEF OutgoingDone, TypeInv, TypeOK, TurnInv, Senders, NoHost
<1>2. /\ UNCHANGED <<queues, window, currSeq, cc, recving, history>>
      /\ latest' = [latest EXCEPT ![cur] = base] /\ base' = 0
      /\ share' = [p \in Hosts |-> 0] /\ SenderDone(cur)
  BY DEF OutgoingDone
<1>3. /\ phase' \in {"data", "senders"} /\ cur' = NoHost /\ todo' \subseteq Hosts
      /\ UNCHANGED <<exiting, accepted, faults>> /\ active' \in [Hosts -> BOOLEAN]
      /\ TurnInv'
  BY <1>1, <1>2, SenderDoneTypes DEF Senders
<1>4. latest' \in [Hosts -> Nat] /\ base' \in Nat /\ share' \in [Hosts -> Nat]
  BY <1>1, <1>2 DEF TypeInv, TypeOK
<1> QED  BY <1>2, <1>3, <1>4 DEF TypeInv, TypeOK, HistoryOK, ControlOK, Senders, Finished

\* The first frame of a queue.
LEMMA HeadFrame ==
  ASSUME TypeInv, NEW q \in Seq(Frames), q # << >>
  PROVE  /\ Head(q) \in Frames /\ Tail(q) \in Seq(Frames)
         /\ Head(q).src \in Hosts /\ Head(q).dst \in Hosts /\ Head(q).seq \in SeqNums
<1>1. Head(q) \in Frames /\ Tail(q) \in Seq(Frames)
  BY HeadTailProperties
<1> QED  BY <1>1 DEF Frames

LEMMA CorruptFrame == Corrupt \in Frames /\ Corrupt.kind = "corrupt"
<1>1. 0 \in Hosts
  BY TransportAssumption DEF Hosts
<1> QED  BY <1>1, Constants DEF Corrupt, Frames

\* The switch adds a frame to the queue of its destination.
LEMMA SendFrameTypes ==
  ASSUME TypeInv, NEW f \in Frames, SendFrame(f)
  PROVE  /\ incoming' \in [Hosts -> Seq(Frames)] /\ faults' \in Nat
         /\ \E g \in {f, Corrupt} :
              /\ g \in Frames
              /\ incoming' = [incoming EXCEPT ![f.dst] = Append(incoming[f.dst], g)]
<1>1. f.dst \in Hosts
  BY DEF Frames
<1>2. PICK g \in {f, Corrupt} :
        incoming' = [incoming EXCEPT ![f.dst] = Append(incoming[f.dst], g)]
  BY DEF SendFrame
<1>3. g \in Frames
  BY <1>2, CorruptFrame
<1>4. incoming \in [Hosts -> Seq(Frames)] /\ faults \in Nat
  BY DEF TypeInv, TypeOK, HistoryOK
<1>5. Append(incoming[f.dst], g) \in Seq(Frames)
  BY <1>1, <1>3, <1>4
<1>6. incoming' \in [Hosts -> Seq(Frames)]
  BY <1>1, <1>2, <1>4, <1>5
<1>7. faults' \in Nat
  BY <1>4 DEF SendFrame
<1> QED  BY <1>2, <1>3, <1>6, <1>7

\* What a step of send_data_frames does: a host with a frame sends its first one.
LEMMA SendDataTyped ==
  ASSUME TypeInv, SendDataFrame
  PROVE  /\ phase = "data"
         /\ \E h \in Hosts :
              LET f == Head(outgoing[h])
              IN  /\ outgoing[h] \in Seq(Frames) /\ outgoing[h] # << >> /\ f \in Frames
                  /\ todo' \subseteq Hosts
                  /\ outgoing' = [outgoing EXCEPT ![h] = Tail(outgoing[h])]
                  /\ \/ f.src = f.dst /\ phase' = "aborted"
                        /\ UNCHANGED <<accepted, incoming, faults>>
                     \/ UNCHANGED <<phase, accepted, incoming, faults>>
                     \/ /\ accepted[f.dst] < RecvAcceptRate
                        /\ accepted' = [accepted EXCEPT ![f.dst] = accepted[f.dst] + 1]
                        /\ f.src # f.dst /\ SendFrame(f) /\ UNCHANGED phase
<1> DEFINE left  == Pending(outgoing) \cap todo
           sweep == IF left # {} THEN todo ELSE Hosts
<1>1. PICK h \in Pending(outgoing) \cap sweep :
        LET f == Head(outgoing[h])
        IN  /\ todo' = sweep \ {h}
            /\ outgoing' = [outgoing EXCEPT ![h] = Tail(@)]
            /\ IF f.src = f.dst
                 THEN phase' = "aborted" /\ UNCHANGED <<accepted, incoming, faults>>
               ELSE IF accepted[f.dst] >= RecvAcceptRate
                 THEN UNCHANGED <<phase, accepted, incoming, faults>>
               ELSE /\ accepted' = [accepted EXCEPT ![f.dst] = @ + 1]
                    /\ SendFrame(f)
                    /\ UNCHANGED phase
  BY DEF SendDataFrame
<1>2. todo \subseteq Hosts /\ sweep \subseteq Hosts
  BY DEF TypeInv, TypeOK
<1>3. h \in Hosts /\ outgoing[h] \in Seq(Frames) /\ outgoing[h] # << >>
  BY <1>1, HostTypes DEF Pending
<1> DEFINE f == Head(outgoing[h])
<1>4. f \in Frames /\ f.dst \in Hosts
  BY <1>3, HeadFrame
<1> HIDE DEF sweep, f
<1>5. todo' \subseteq Hosts /\ outgoing' = [outgoing EXCEPT ![h] = Tail(outgoing[h])]
  BY <1>1, <1>2
<1>6. \/ f.src = f.dst /\ phase' = "aborted" /\ UNCHANGED <<accepted, incoming, faults>>
      \/ UNCHANGED <<phase, accepted, incoming, faults>>
      \/ /\ accepted[f.dst] < RecvAcceptRate
         /\ accepted' = [accepted EXCEPT ![f.dst] = accepted[f.dst] + 1]
         /\ f.src # f.dst /\ SendFrame(f) /\ UNCHANGED phase
  <2>1. CASE f.src = f.dst
    BY <1>1, <2>1 DEF f
  <2>2. CASE f.src # f.dst /\ accepted[f.dst] >= RecvAcceptRate
    BY <1>1, <2>2 DEF f
  <2>3. CASE f.src # f.dst /\ ~(accepted[f.dst] >= RecvAcceptRate)
    <3>1. accepted[f.dst] \in Nat /\ RecvAcceptRate \in Nat
      <4>1. accepted \in [Hosts -> 0 .. RecvAcceptRate]
        BY DEF TypeInv, TypeOK
      <4>2. accepted[f.dst] \in 0 .. RecvAcceptRate
        BY <1>4, <4>1
      <4> QED  BY <4>2, Constants
    <3>2. accepted[f.dst] < RecvAcceptRate
      BY <2>3, <3>1
    <3>3. /\ accepted' = [accepted EXCEPT ![f.dst] = accepted[f.dst] + 1]
          /\ SendFrame(f) /\ UNCHANGED phase
      BY <1>1, <2>3 DEF f
    <3> QED  BY <2>3, <3>2, <3>3
  <2> QED  BY <2>1, <2>2, <2>3
<1>7. phase = "data"
  BY DEF SendDataFrame
<1> QED  BY <1>3, <1>4, <1>5, <1>6, <1>7 DEF f

LEMMA SendDataFrameTypes == TypeInv /\ SendDataFrame => TypeInv'
<1> SUFFICES ASSUME TypeInv, SendDataFrame PROVE TypeInv'
  OBVIOUS
<1> USE DEF sending, recving, history
<1>1. phase = "data"
  BY SendDataTyped
<1>2. PICK h \in Hosts :
        LET f == Head(outgoing[h])
        IN  /\ outgoing[h] \in Seq(Frames) /\ outgoing[h] # << >> /\ f \in Frames
            /\ todo' \subseteq Hosts
            /\ outgoing' = [outgoing EXCEPT ![h] = Tail(outgoing[h])]
            /\ \/ f.src = f.dst /\ phase' = "aborted"
                  /\ UNCHANGED <<accepted, incoming, faults>>
               \/ UNCHANGED <<phase, accepted, incoming, faults>>
               \/ /\ accepted[f.dst] < RecvAcceptRate
                  /\ accepted' = [accepted EXCEPT ![f.dst] = accepted[f.dst] + 1]
                  /\ f.src # f.dst /\ SendFrame(f) /\ UNCHANGED phase
  BY SendDataTyped
<1> DEFINE f == Head(outgoing[h])
<1>3. f \in Frames /\ f.dst \in Hosts /\ Tail(outgoing[h]) \in Seq(Frames)
  BY <1>2, HeadFrame
<1> HIDE DEF f
<1>4. outgoing' \in [Hosts -> Seq(Frames)]
  BY <1>2, <1>3 DEF TypeInv, TypeOK
<1>5. phase' \in {"data", "aborted"}
  BY <1>1, <1>2
<1>6. accepted' \in [Hosts -> 0 .. RecvAcceptRate]
  <2>1. accepted \in [Hosts -> 0 .. RecvAcceptRate]
    BY DEF TypeInv, TypeOK
  <2>2. CASE accepted' = accepted
    BY <2>1, <2>2
  <2>3. CASE /\ accepted[f.dst] < RecvAcceptRate
             /\ accepted' = [accepted EXCEPT ![f.dst] = accepted[f.dst] + 1]
    <3>1. accepted[f.dst] \in 0 .. RecvAcceptRate
      BY <1>3, <2>1
    <3>2. accepted[f.dst] + 1 \in 0 .. RecvAcceptRate
      BY <2>3, <3>1, Constants
    <3> QED  BY <1>3, <2>1, <2>3, <3>2
  <2> QED  BY <1>2, <2>2, <2>3 DEF f
<1>7. incoming' \in [Hosts -> Seq(Frames)] /\ faults' \in Nat
  <2>1. CASE UNCHANGED <<incoming, faults>>
    BY <2>1 DEF TypeInv, TypeOK, HistoryOK
  <2>2. CASE SendFrame(f)
    BY <1>3, <2>2, SendFrameTypes
  <2> QED  BY <1>2, <2>1, <2>2 DEF f
<1>8. UNCHANGED <<cur, exiting, cmds, buffered, sending, recving, history>>
  BY DEF SendDataFrame
<1>9. TypeOK'
  BY <1>1, <1>2, <1>4, <1>5, <1>6, <1>7, <1>8 DEF TypeInv, TypeOK, Senders, Finished
<1> QED
  BY <1>1, <1>5, <1>7, <1>8, <1>9 DEF TypeInv, HistoryOK, TurnInv, ControlOK, Senders

\* Likewise send_ack_frames.
LEMMA SendAckTyped ==
  ASSUME TypeInv, SendAckFrame
  PROVE  LET h == Min(Pending(outgoing))
             f == Head(outgoing[h])
         IN  /\ phase = "sendacks" /\ h \in Hosts
             /\ outgoing[h] \in Seq(Frames) /\ outgoing[h] # << >> /\ f \in Frames
             /\ f.dst \in Hosts
             /\ outgoing' = [outgoing EXCEPT ![h] = Tail(outgoing[h])] /\ SendFrame(f)
<1> DEFINE h == Min(Pending(outgoing))
<1>1. Pending(outgoing) # {} /\ Pending(outgoing) \in SUBSET Nat
  BY Constants DEF SendAckFrame, Pending
<1>2. h \in Pending(outgoing)
  BY <1>1, MinNat
<1>3. /\ phase = "sendacks"
      /\ outgoing' = [outgoing EXCEPT ![h] = Tail(outgoing[h])] /\ SendFrame(Head(outgoing[h]))
  BY DEF SendAckFrame
<1> HIDE DEF h
<1>4. h \in Hosts /\ outgoing[h] # << >>
  BY <1>2 DEF Pending
<1>5. outgoing[h] \in Seq(Frames)
  BY <1>4, HostTypes
<1> QED  BY <1>3, <1>4, <1>5, HeadFrame DEF h

LEMMA SendAckFrameTypes == TypeInv /\ SendAckFrame => TypeInv'
<1> SUFFICES ASSUME TypeInv, SendAckFrame PROVE TypeInv'
  OBVIOUS
<1> USE DEF sending, recving, history
<1> DEFINE h == Min(Pending(outgoing))
           f == Head(outgoing[h])
<1>1. /\ phase = "sendacks" /\ h \in Hosts
      /\ outgoing[h] \in Seq(Frames) /\ outgoing[h] # << >> /\ f \in Frames
      /\ outgoing' = [outgoing EXCEPT ![h] = Tail(outgoing[h])] /\ SendFrame(f)
  BY SendAckTyped
<1>2. incoming' \in [Hosts -> Seq(Frames)] /\ faults' \in Nat
  BY <1>1, SendFrameTypes
<1> HIDE DEF h, f
<1>3. Tail(outgoing[h]) \in Seq(Frames)
  BY <1>1, HeadTailProperties
<1>4. outgoing' \in [Hosts -> Seq(Frames)]
  BY <1>1, <1>3 DEF TypeInv, TypeOK
<1>5. UNCHANGED <<phase, cur, todo, exiting, accepted, cmds, buffered, sending,
                  recving, history>>
  BY DEF SendAckFrame
<1> QED
  BY <1>1, <1>2, <1>4, <1>5
     DEF TypeInv, TypeOK, HistoryOK, TurnInv, ControlOK, Senders, Finished

LEMMA DropCorruptFrameTypes == TypeInv /\ DropCorruptFrame => TypeInv'
<1> SUFFICES ASSUME TypeInv, DropCorruptFrame PROVE TypeInv'
  OBVIOUS
<1> USE DEF control, sending, recving, history
<1>1. PICK h \in Pending(incoming) : incoming' = [incoming EXCEPT ![h] = Tail(incoming[h])]
  BY DEF DropCorruptFrame
<1>2. h \in Hosts /\ incoming[h] # << >>
  BY DEF Pending
<1>3. Tail(incoming[h]) \in Seq(Frames)
  BY <1>2, HostTypes, HeadTailProperties
<1>4. incoming' \in [Hosts -> Seq(Frames)]
  BY <1>1, <1>2, <1>3 DEF TypeInv, TypeOK
<1>5. /\ phase = "receivers"
      /\ UNCHANGED <<control, cmds, buffered, outgoing, sending, recving, history>>
  BY DEF DropCorruptFrame
<1> QED
  BY <1>4, <1>5 DEF TypeInv, TypeOK, HistoryOK, TurnInv, ControlOK, Senders, Finished

LEMMA PrintMessageTypes == TypeInv /\ PrintMessage => TypeInv'
<1> SUFFICES ASSUME TypeInv, PrintMessage PROVE TypeInv'
  OBVIOUS
<1> USE DEF control, queues, sending
<1>1. PICK h \in Hosts, p \in Hosts :
        /\ Complete(recvMsg[h][p])
        /\ recvMsg' = [recvMsg EXCEPT ![h][p] = Remainder(recvMsg[h][p])]
        /\ printed' = [printed EXCEPT ![h][p] = Append(printed[h][p], Message(recvMsg[h][p]))]
  BY DEF PrintMessage
<1>2. recvMsg[h][p] \in Seq(Frames) /\ printed[h][p] \in Seq(Seq(Nat))
  BY HostTypes
<1>3. Remainder(recvMsg[h][p]) \in Seq(Frames)
  BY <1>1, <1>2, CompleteFacts
<1>4. Message(recvMsg[h][p]) \in Seq(Nat)
  <2> DEFINE n == LastFragment(recvMsg[h][p])
  <2>1. n \in 1 .. Len(recvMsg[h][p]) /\ Len(recvMsg[h][p]) \in Nat
    BY <1>1, <1>2, CompleteFacts, LenProperties
  <2>2. Message(recvMsg[h][p]) = [i \in 1 .. n |-> recvMsg[h][p][i].id]
    BY DEF Message
  <2> HIDE DEF n
  <2>3. \A i \in 1 .. n : recvMsg[h][p][i] \in Frames
    BY <1>2, <2>1, ElementOfSeq
  <2>4. [i \in 1 .. n |-> recvMsg[h][p][i].id] \in [1 .. n -> Nat]
    BY <2>3 DEF Frames
  <2> QED  BY <2>1, <2>2, <2>4, SameLength
<1>5. recvMsg' \in [Hosts -> [Hosts -> Seq(Frames)]]
  BY <1>1, <1>3, TableUpdate DEF TypeInv, TypeOK
<1>6. printed' \in [Hosts -> [Hosts -> Seq(Seq(Nat))]]
  <2>1. Append(printed[h][p], Message(recvMsg[h][p])) \in Seq(Seq(Nat))
    BY <1>2, <1>4
  <2> QED  BY <1>1, <2>1, TableUpdate DEF TypeInv, HistoryOK
<1>7. /\ phase = "receivers"
      /\ UNCHANGED <<control, queues, sending, recvWindow, lfr, sent, submitted, handed>>
  BY DEF PrintMessage
<1> QED
  BY <1>5, <1>6, <1>7 DEF TypeInv, TypeOK, HistoryOK, TurnInv, ControlOK, Senders, Finished

\* What handle_incoming_frames does with one frame f of h: the slots of the
\* window before and after it moves, by run places.
Moved(slots, run) == [i \in 1 .. W |-> IF i + run <= W THEN slots[i + run] ELSE NoFrame]

Receives(h, slots, run) ==
  LET f     == Head(incoming[h])
      p     == f.src
      place == SeqNumDiff(lfr[h][p], f.seq)
      ack   == [kind |-> "ack", src |-> h, dst |-> p, seq |-> SeqAdd(lfr[h][p], run),
                rem |-> 0, id |-> Len(handed[h][p]) + run]
  IN  /\ incoming[h] \in Seq(Frames) /\ incoming[h] # << >>
      /\ f \in Frames /\ p \in Hosts /\ f.kind # "corrupt"
      /\ slots = (IF place \in 1 .. W THEN [recvWindow[h][p] EXCEPT ![place] = f]
                  ELSE recvWindow[h][p])
      /\ run = (IF place \in 1 .. W THEN Run(slots) ELSE 0)
      /\ \A i \in 1 .. run : slots[i] # NoFrame
      /\ ack \in Frames
      /\ incoming' = [incoming EXCEPT ![h] = Tail(incoming[h])]
      /\ recvWindow' = [recvWindow EXCEPT ![h][p] = Moved(slots, run)]
      /\ lfr' = [lfr EXCEPT ![h][p] = SeqAdd(lfr[h][p], run)]
      /\ recvMsg' = [recvMsg EXCEPT ![h][p] = recvMsg[h][p] \o SubSeq(slots, 1, run)]
      /\ handed' = [handed EXCEPT ![h][p] = handed[h][p] \o [i \in 1 .. run |-> slots[i].id]]
      /\ outgoing' = [outgoing EXCEPT ![h] = Append(outgoing[h], ack)]

LEMMA FrameTyped ==
  ASSUME TypeInv, HandleIncomingFrame
  PROVE  /\ phase = "receivers"
         /\ \E h \in Hosts, slots \in [1 .. W -> Frames \cup {NoFrame}], run \in 0 .. W :
              Receives(h, slots, run)
<1>1. PICK h \in Pending(incoming) :
        LET f     == Head(incoming[h])
            p     == f.src
            place == SeqNumDiff(lfr[h][p], f.seq)
            slots == IF place \in 1 .. W
                       THEN [recvWindow[h][p] EXCEPT ![place] = f]
                       ELSE recvWindow[h][p]
            run   == IF place \in 1 .. W THEN Run(slots) ELSE 0
        IN  /\ f.kind # "corrupt"
            /\ incoming' = [incoming EXCEPT ![h] = Tail(@)]
            /\ recvWindow' = [recvWindow EXCEPT ![h][p] =
                 [i \in 1 .. W |-> IF i + run <= W THEN slots[i + run] ELSE NoFrame]]
            /\ lfr' = [lfr EXCEPT ![h][p] = SeqAdd(@, run)]
            /\ recvMsg' = [recvMsg EXCEPT ![h][p] = @ \o SubSeq(slots, 1, run)]
            /\ handed' = [handed EXCEPT ![h][p] =
                 @ \o [i \in 1 .. run |-> slots[i].id]]
            /\ outgoing' = [outgoing EXCEPT ![h] =
                 Append(@, [kind |-> "ack", src |-> h, dst |-> p,
                            seq |-> SeqAdd(lfr[h][p], run), rem |-> 0,
                            id |-> Len(handed[h][p]) + run])]
  BY DEF HandleIncomingFrame
<1> DEFINE f     == Head(incoming[h])
           p     == f.src
           place == SeqNumDiff(lfr[h][p], f.seq)
           slots == IF place \in 1 .. W THEN [recvWindow[h][p] EXCEPT ![place] = f]
                    ELSE recvWindow[h][p]
           run   == IF place \in 1 .. W THEN Run(slots) ELSE 0
           ack   == [kind |-> "ack", src |-> h, dst |-> p, seq |-> SeqAdd(lfr[h][p], run),
                     rem |-> 0, id |-> Len(handed[h][p]) + run]
<1>2. phase = "receivers"
  BY DEF HandleIncomingFrame
<1>3. h \in Hosts /\ incoming[h] # << >>
  BY DEF Pending
<1>4. incoming[h] \in Seq(Frames)
  BY <1>3, HostTypes
<1>5. f \in Frames /\ p \in Hosts
  BY <1>3, <1>4, HeadFrame
<1>6. /\ f.kind # "corrupt"
      /\ incoming' = [incoming EXCEPT ![h] = Tail(incoming[h])]
      /\ recvWindow' = [recvWindow EXCEPT ![h][p] = Moved(slots, run)]
      /\ lfr' = [lfr EXCEPT ![h][p] = SeqAdd(lfr[h][p], run)]
      /\ recvMsg' = [recvMsg EXCEPT ![h][p] = recvMsg[h][p] \o SubSeq(slots, 1, run)]
      /\ handed' = [handed EXCEPT ![h][p] = handed[h][p] \o [i \in 1 .. run |-> slots[i].id]]
      /\ outgoing' = [outgoing EXCEPT ![h] = Append(outgoing[h], ack)]
  BY <1>1 DEF Moved
<1>7. /\ slots = (IF place \in 1 .. W THEN [recvWindow[h][p] EXCEPT ![place] = f]
                  ELSE recvWindow[h][p])
      /\ run = (IF place \in 1 .. W THEN Run(slots) ELSE 0)
  OBVIOUS
<1> HIDE DEF f, p, place, slots, run, ack
<1>8. recvWindow[h][p] \in [1 .. W -> Frames \cup {NoFrame}] /\ lfr[h][p] \in SeqNums
      /\ handed[h][p] \in Seq(Nat)
  BY <1>3, <1>5, HostTypes
<1>9. slots \in [1 .. W -> Frames \cup {NoFrame}]
  BY <1>5, <1>7, <1>8
<1>10. run \in 0 .. W /\ \A i \in 1 .. run : slots[i] # NoFrame
  <2>1. CASE place \in 1 .. W
    BY <1>7, <2>1, RunFacts
  <2>2. CASE place \notin 1 .. W
    BY <1>7, <2>2, Constants
  <2> QED  BY <2>1, <2>2
<1>11. ack \in Frames
  <2>1. run \in 0 .. MAX_SEQ_NUM + 1 /\ run \in Nat
    BY <1>10, Constants
  <2>2. SeqAdd(lfr[h][p], run) \in SeqNums
    BY <1>8, <2>1, SeqAddType
  <2>3. Len(handed[h][p]) + run \in Nat
    BY <1>8, <2>1
  <2> QED  BY <1>3, <1>5, <2>2, <2>3, FrameMade DEF ack
<1>12. Receives(h, slots, run)
  BY <1>3, <1>4, <1>5, <1>6, <1>7, <1>10, <1>11, Zenon DEF Receives, f, p, place, ack
<1> QED  BY <1>2, <1>3, <1>9, <1>10, <1>12

\* The frames at the front of the window, as a sequence.
LEMMA FrontFrames ==
  ASSUME NEW F, NEW slots \in [1 .. W -> F \cup {NoFrame}], NEW run \in 0 .. W,
         \A i \in 1 .. run : slots[i] # NoFrame
  PROVE  /\ SubSeq(slots, 1, run) \in Seq(F) /\ Len(SubSeq(slots, 1, run)) = run
         /\ \A i \in 1 .. run : SubSeq(slots, 1, run)[i] = slots[i]
<1>1. \A i \in 1 .. run : slots[i] \in F
  BY Constants
<1>2. 1 \in Int /\ run \in Int /\ (1 <= run \/ run = 0)
  BY Constants
<1>3. /\ SubSeq(slots, 1, run) \in Seq(F)
      /\ Len(SubSeq(slots, 1, run)) = IF 1 <= run THEN run - 1 + 1 ELSE 0
      /\ \A i \in 1 .. run - 1 + 1 : SubSeq(slots, 1, run)[i] = slots[1 + i - 1]
  BY <1>1, <1>2, SubSeqProperties
<1> QED  BY <1>2, <1>3

LEMMA HandleIncomingFrameTypes == TypeInv /\ HandleIncomingFrame => TypeInv'
<1> SUFFICES ASSUME TypeInv, HandleIncomingFrame PROVE TypeInv'
  OBVIOUS
<1> USE DEF control, sending
<1>1. phase = "receivers"
  BY FrameTyped
<1>2. PICK h \in Hosts, slots \in [1 .. W -> Frames \cup {NoFrame}], run \in 0 .. W :
        Receives(h, slots, run)
  BY FrameTyped
<1> DEFINE p   == Head(incoming[h]).src
           ack == [kind |-> "ack", src |-> h, dst |-> p, seq |-> SeqAdd(lfr[h][p], run),
                   rem |-> 0, id |-> Len(handed[h][p]) + run]
<1>3. /\ p \in Hosts /\ ack \in Frames /\ incoming[h] \in Seq(Frames) /\ incoming[h] # << >>
      /\ \A i \in 1 .. run : slots[i] # NoFrame
  BY <1>2 DEF Receives
<1>4. /\ incoming' = [incoming EXCEPT ![h] = Tail(incoming[h])]
      /\ recvWindow' = [recvWindow EXCEPT ![h][p] = Moved(slots, run)]
      /\ lfr' = [lfr EXCEPT ![h][p] = SeqAdd(lfr[h][p], run)]
      /\ recvMsg' = [recvMsg EXCEPT ![h][p] = recvMsg[h][p] \o SubSeq(slots, 1, run)]
      /\ handed' = [handed EXCEPT ![h][p] = handed[h][p] \o [i \in 1 .. run |-> slots[i].id]]
      /\ outgoing' = [outgoing EXCEPT ![h] = Append(outgoing[h], ack)]
  BY <1>2 DEF Receives
<1> HIDE DEF p, ack
<1>5. /\ outgoing[h] \in Seq(Frames) /\ lfr[h][p] \in SeqNums
      /\ recvMsg[h][p] \in Seq(Frames) /\ handed[h][p] \in Seq(Nat)
  BY <1>3, HostTypes
<1>6. incoming' \in [Hosts -> Seq(Frames)]
  BY <1>3, <1>4, HeadTailProperties DEF TypeInv, TypeOK
<1>7. recvWindow' \in [Hosts -> [Hosts -> [1 .. W -> Frames \cup {NoFrame}]]]
  <2>1. Moved(slots, run) \in [1 .. W -> Frames \cup {NoFrame}]
    BY Constants DEF Moved
  <2>2. recvWindow \in [Hosts -> [Hosts -> [1 .. W -> Frames \cup {NoFrame}]]]
    BY DEF TypeInv, TypeOK
  <2> QED  BY <1>3, <1>4, <2>1, <2>2, TableUpdate
<1>8. lfr' \in [Hosts -> [Hosts -> SeqNums]]
  <2>1. run \in 0 .. MAX_SEQ_NUM + 1
    BY Constants
  <2>2. SeqAdd(lfr[h][p], run) \in SeqNums
    BY <1>5, <2>1, SeqAddType
  <2> QED  BY <1>3, <1>4, <2>2, TableUpdate, ZenonT(40) DEF TypeInv, TypeOK
<1>9. recvMsg' \in [Hosts -> [Hosts -> Seq(Frames)]]
  <2>1. SubSeq(slots, 1, run) \in Seq(Frames)
    BY <1>3, FrontFrames
  <2>2. recvMsg[h][p] \o SubSeq(slots, 1, run) \in Seq(Frames)
    BY <1>5, <2>1
  <2> QED  BY <1>3, <1>4, <2>2, TableUpdate DEF TypeInv, TypeOK
<1>10. handed' \in [Hosts -> [Hosts -> Seq(Nat)]]
  <2>1. \A i \in 1 .. run : slots[i] \in Frames
    BY <1>3, Constants
  <2>2. [i \in 1 .. run |-> slots[i].id] \in [1 .. run -> Nat]
    BY <2>1 DEF Frames
  <2>3. [i \in 1 .. run |-> slots[i].id] \in Seq(Nat)
    BY <2>2, SameLength
  <2>4. handed[h][p] \o [i \in 1 .. run |-> slots[i].id] \in Seq(Nat)
    BY <1>5, <2>3
  <2> QED  BY <1>3, <1>4, <2>4, TableUpdate DEF TypeInv, HistoryOK
<1>11. outgoing' \in [Hosts -> Seq(Frames)]
  <2>1. Append(outgoing[h], ack) \in Seq(Frames)
    BY <1>3, <1>5
  <2> QED  BY <1>4, <2>1 DEF TypeInv, TypeOK
<1>12. UNCHANGED <<control, cmds, buffered, sending, sent, submitted, printed>>
  BY DEF HandleIncomingFrame
<1>13. TypeOK'
  BY <1>1, <1>6, <1>7, <1>8, <1>9, <1>11, <1>12 DEF TypeInv, TypeOK, Senders, Finished
<1>14. HistoryOK'
  BY <1>10, <1>12 DEF TypeInv, HistoryOK
<1> QED
  BY <1>1, <1>12, <1>13, <1>14 DEF TypeInv, TurnInv, ControlOK, Senders

\* Every step keeps the types and the order of the turn.
LEMMA NextTypes == TypeInv /\ [Next]_vars => TypeInv'
<1> SUFFICES ASSUME TypeInv, [Next]_vars PROVE TypeInv'
  OBVIOUS
<1>1. CASE \/ StartTurn \/ ExitCommand \/ InputError \/ DataSent \/ FramesReceived
           \/ EndTurn \/ Terminated
  BY <1>1, TurnTypes
<1>2. CASE AcceptMessage        BY <1>2, AcceptMessageTypes
<1>3. CASE Tick                 BY <1>3, TickTypes
<1>4. CASE RunSender            BY <1>4, RunSenderTypes
<1>5. CASE HandleInputCmds      BY <1>5, HandleInputCmdsTypes
<1>6. CASE DropCorruptAck       BY <1>6, DropCorruptAckTypes
<1>7. CASE HandleIncomingAck    BY <1>7, HandleIncomingAckTypes
<1>8. CASE HandleTimedoutFrames BY <1>8, HandleTimedoutFramesTypes
<1>9. CASE ResendFrame          BY <1>9, ResendFrameTypes
<1>10. CASE ReleaseFrame        BY <1>10, ReleaseFrameTypes
<1>11. CASE OutgoingDone        BY <1>11, OutgoingDoneTypes
<1>12. CASE SendDataFrame       BY <1>12, SendDataFrameTypes
<1>13. CASE DropCorruptFrame    BY <1>13, DropCorruptFrameTypes
<1>14. CASE HandleIncomingFrame BY <1>14, HandleIncomingFrameTypes
<1>15. CASE PrintMessage        BY <1>15, PrintMessageTypes
<1>16. CASE SendAckFrame        BY <1>16, SendAckFrameTypes
<1>17. CASE UNCHANGED vars
  BY <1>17 DEF vars, control, queues, sending, recving, history, TypeInv, TypeOK,
               HistoryOK, TurnInv, ControlOK
<1> QED
  BY <1>1, <1>2, <1>3, <1>4, <1>5, <1>6, <1>7, <1>8, <1>9, <1>10, <1>11, <1>12, <1>13,
     <1>14, <1>15, <1>16, <1>17 DEF Next, Turn

\* The hosts, queues, windows and counters keep their shapes, whatever the user
\* types, and every send window holds at most W frames.
THEOREM TransportTypes == Spec => []TypeOK
<1>1. Spec => []TypeInv
  BY InitTypes, NextTypes, PTL DEF Spec
<1>2. TypeInv => TypeOK
  BY DEF TypeInv
<1> QED  BY <1>1, <1>2, PTL

------------------------------------------------------------------------------
\* The commands and the ends of the messages, as numbers.
EndOf(ends) == IF ends = << >> THEN 0 ELSE ends[Len(ends)]

LEMMA CommandTypes ==
  ASSUME NEW q \in Seq(Cmds), NEW ends \in Seq(Nat)
  PROVE  /\ Len(q) \in Nat /\ DOMAIN q = 1 .. Len(q)
         /\ Len(ends) \in Nat /\ DOMAIN ends = 1 .. Len(ends)
         /\ \A i \in 1 .. Len(q) : /\ q[i].dst \in Hosts
                                   /\ q[i].left \in Nat /\ q[i].left >= 1
                                   /\ q[i].last \in Nat /\ q[i].left <= q[i].last
         /\ \A m \in 1 .. Len(ends) : ends[m] \in Nat
         /\ EndOf(ends) \in Nat
         /\ ends = << >> => Len(ends) = 0
         /\ ends # << >> => Len(ends) \in 1 .. Len(ends) /\ EndOf(ends) = ends[Len(ends)]
<1>1. /\ Len(q) \in Nat /\ DOMAIN q = 1 .. Len(q)
      /\ Len(ends) \in Nat /\ DOMAIN ends = 1 .. Len(ends)
  BY LenProperties
<1>2. \A i \in 1 .. Len(q) : q[i] \in Cmds
  BY ElementOfSeq
<1>3. \A m \in 1 .. Len(ends) : ends[m] \in Nat
  BY ElementOfSeq
<1>4. /\ ends = << >> => Len(ends) = 0
      /\ ends # << >> => Len(ends) \in 1 .. Len(ends)
  BY EmptySeq
<1>5. \A i \in 1 .. Len(q) : /\ q[i].dst \in Hosts
                             /\ q[i].left \in Nat /\ q[i].left >= 1
                             /\ q[i].last \in Nat /\ q[i].left <= q[i].last
  BY <1>2 DEF Cmds
<1>6. EndOf(ends) \in Nat /\ (ends # << >> => EndOf(ends) = ends[Len(ends)])
  BY <1>3, <1>4 DEF EndOf
<1> QED  BY <1>1, <1>3, <1>4, <1>5, <1>6

\* No message ends behind the last one.
LEMMA EndsBounded ==
  ASSUME NEW q \in Seq(Cmds), NEW d, NEW n \in Nat, NEW ends \in Seq(Nat),
         CommandsOK(q, d, n, ends)
  PROVE  \A m \in 1 .. Len(ends) : ends[m] <= EndOf(ends)
<1> SUFFICES ASSUME NEW m \in 1 .. Len(ends) PROVE ends[m] <= EndOf(ends)
  OBVIOUS
<1>1. /\ Len(ends) \in Nat /\ Len(ends) \in 1 .. Len(ends) /\ DOMAIN ends = 1 .. Len(ends)
      /\ EndOf(ends) = ends[Len(ends)] /\ ends[m] \in Nat /\ ends[Len(ends)] \in Nat
  BY CommandTypes
<1>2. m < Len(ends) => ends[m] < ends[Len(ends)]
  BY <1>1 DEF CommandsOK
<1> QED  BY <1>1, <1>2

\* Only the commands for d matter, and where they are.
LEMMA SameCommands ==
  ASSUME NEW q, NEW r, NEW d, NEW n, NEW ends, CommandsOK(q, d, n, ends),
         {i \in DOMAIN r : r[i].dst = d} = {i \in DOMAIN q : q[i].dst = d},
         \A i \in {k \in DOMAIN q : q[k].dst = d} : r[i] = q[i]
  PROVE  CommandsOK(r, d, n, ends)
BY DEF CommandsOK

\* What the commands for d say of the messages' ends, and each of its own place.
MessageEnds(q, d, n, ends) ==
  /\ \A m, j \in DOMAIN ends : m < j => ends[m] < ends[j]
  /\ \A m \in DOMAIN ends : ends[m] > 0
  /\ n <= EndOf(ends)
  /\ n = EndOf(ends) \/ \E i \in 1 .. Len(q) : q[i].dst = d /\ q[i].last = EndOf(ends)

Placed(q, d, n, ends, i) ==
  /\ n <= q[i].last - q[i].left /\ q[i].last <= EndOf(ends)
  /\ \/ n = q[i].last - q[i].left
     \/ \E j \in 1 .. Len(q) : q[j].dst = d /\ j < i /\ q[j].last = q[i].last - q[i].left
  /\ \A j \in 1 .. Len(q) : q[j].dst = d /\ j < i => q[j].last <= q[i].last - q[i].left
  /\ \E m \in DOMAIN ends : ends[m] = q[i].last
  /\ \A m \in DOMAIN ends : ends[m] <= q[i].last - q[i].left \/ q[i].last <= ends[m]

LEMMA CommandsAre ==
  ASSUME NEW q \in Seq(Cmds), NEW d, NEW n, NEW ends
  PROVE  CommandsOK(q, d, n, ends) <=>
           /\ MessageEnds(q, d, n, ends)
           /\ \A i \in 1 .. Len(q) : q[i].dst = d => Placed(q, d, n, ends, i)
<1>1. DOMAIN q = 1 .. Len(q)
  BY LenProperties
<1>2. CommandsOK(q, d, n, ends) => MessageEnds(q, d, n, ends)
  BY <1>1 DEF CommandsOK, EndOf, MessageEnds
<1>3. ASSUME CommandsOK(q, d, n, ends), NEW i \in 1 .. Len(q), q[i].dst = d
      PROVE  Placed(q, d, n, ends, i)
  BY <1>1, <1>3 DEF CommandsOK, EndOf, Placed
<1>4. ASSUME MessageEnds(q, d, n, ends),
             \A i \in 1 .. Len(q) : q[i].dst = d => Placed(q, d, n, ends, i)
      PROVE  CommandsOK(q, d, n, ends)
  BY <1>1, <1>4 DEF CommandsOK, EndOf, MessageEnds, Placed
<1> QED  BY <1>2, <1>3, <1>4

\* A command for another receiver is typed.
LEMMA OtherCommandTyped ==
  ASSUME NEW q \in Seq(Cmds), NEW d, NEW n \in Nat, NEW ends \in Seq(Nat),
         CommandsOK(q, d, n, ends), NEW c \in Cmds, c.dst # d
  PROVE  CommandsOK(Append(q, c), d, n, ends)
<1> DEFINE r == Append(q, c)
<1>1. /\ Len(q) \in Nat /\ DOMAIN q = 1 .. Len(q)
      /\ r \in Seq(Cmds) /\ Len(r) = Len(q) + 1 /\ DOMAIN r = 1 .. Len(q) + 1
      /\ \A i \in 1 .. Len(q) : r[i] = q[i]
      /\ r[Len(q) + 1] = c
  BY LenProperties
<1> HIDE DEF r
<1>2. {i \in DOMAIN r : r[i].dst = d} = {i \in DOMAIN q : q[i].dst = d}
  BY <1>1
<1>3. \A i \in {k \in DOMAIN q : q[k].dst = d} : r[i] = q[i]
  BY <1>1
<1>4. CommandsOK(r, d, n, ends)
  BY <1>2, <1>3, ZenonT(40) DEF CommandsOK
<1> QED  BY <1>4 DEF r

\* A message of k fragments is typed.
LEMMA CommandTyped ==
  ASSUME NEW q \in Seq(Cmds), NEW d \in Hosts, NEW n \in Nat, NEW ends \in Seq(Nat),
         CommandsOK(q, d, n, ends), NEW k \in Nat \ {0},
         NEW c, c = [dst |-> d, left |-> k, last |-> EndOf(ends) + k]
  PROVE  CommandsOK(Append(q, c), d, n, Append(ends, EndOf(ends) + k))
<1> DEFINE r    == Append(q, c)
           more == Append(ends, EndOf(ends) + k)
           last == EndOf(ends)
           L    == Len(q)
           M    == Len(ends)
<1>1. /\ L \in Nat /\ M \in Nat /\ DOMAIN q = 1 .. L /\ DOMAIN ends = 1 .. M
      /\ last \in Nat
      /\ \A i \in 1 .. L : /\ q[i].left \in Nat /\ q[i].left >= 1 /\ q[i].last \in Nat
      /\ \A m \in 1 .. M : ends[m] \in Nat
  BY CommandTypes
<1>2. \A m \in 1 .. M : ends[m] <= last
  BY EndsBounded
<1>3. c.dst = d /\ c.left = k /\ c.last = last + k /\ c \in Cmds /\ c.last - c.left = last
  BY <1>1 DEF Cmds
<1>4. /\ DOMAIN r = 1 .. L + 1
      /\ \A i \in 1 .. L : r[i] = q[i]
      /\ r[L + 1] = c
  BY <1>1, <1>3, LenProperties
<1>5. /\ DOMAIN more = 1 .. M + 1 /\ Len(more) = M + 1 /\ more # << >>
      /\ \A m \in 1 .. M : more[m] = ends[m]
      /\ more[M + 1] = last + k
  <2>1. PICK e : e = last + k
    OBVIOUS
  <2>2. e \in Nat /\ more = Append(ends, e)
    BY <1>1, <2>1
  <2> HIDE DEF last, more
  <2>3. more \in Seq(Nat) /\ Len(more) = M + 1 /\ \A m \in 1 .. M : more[m] = ends[m]
    BY <1>1, <2>2
  <2>4. more[M + 1] = e
    BY <1>1, <2>2
  <2>5. DOMAIN more = 1 .. M + 1 /\ more # << >>
    BY <1>1, <2>3, LenProperties, EmptySeq
  <2> QED  BY <2>1, <2>3, <2>4, <2>5
<1>6. /\ \A m, j \in 1 .. M : m < j => ends[m] < ends[j]
      /\ \A m \in 1 .. M : ends[m] > 0
      /\ n <= last
      /\ n = last \/ \E i \in 1 .. L : q[i].dst = d /\ q[i].last = last
  BY <1>1 DEF CommandsOK, EndOf
<1>7. ASSUME NEW i \in 1 .. L, q[i].dst = d
      PROVE  /\ n <= q[i].last - q[i].left /\ q[i].last <= last
             /\ \/ n = q[i].last - q[i].left
                \/ \E j \in 1 .. L : q[j].dst = d /\ j < i /\ q[j].last = q[i].last - q[i].left
             /\ \A j \in 1 .. L : q[j].dst = d /\ j < i => q[j].last <= q[i].last - q[i].left
             /\ \E m \in 1 .. M : ends[m] = q[i].last
             /\ \A m \in 1 .. M : ends[m] <= q[i].last - q[i].left \/ q[i].last <= ends[m]
  BY <1>1, <1>7 DEF CommandsOK, EndOf
<1> HIDE DEF r, more, last, L, M
<1>8. \A m, j \in 1 .. M + 1 : m < j => more[m] < more[j]
  <2> SUFFICES ASSUME NEW m \in 1 .. M + 1, NEW j \in 1 .. M + 1, m < j
               PROVE  more[m] < more[j]
    OBVIOUS
  <2>1. m \in 1 .. M /\ (j \in 1 .. M \/ j = M + 1)
    BY <1>1
  <2>2. CASE j \in 1 .. M
    BY <1>5, <1>6, <2>1, <2>2
  <2>3. CASE j = M + 1
    BY <1>1, <1>2, <1>5, <2>1, <2>3
  <2> QED  BY <2>1, <2>2, <2>3
<1>9. \A m \in 1 .. M + 1 : more[m] > 0
  BY <1>1, <1>5, <1>6
<1>10. ASSUME NEW i \in 1 .. L + 1, r[i].dst = d
       PROVE  /\ n <= r[i].last - r[i].left /\ r[i].last <= last + k
              /\ \/ n = r[i].last - r[i].left
                 \/ \E j \in 1 .. L + 1 : r[j].dst = d /\ j < i /\ r[j].last = r[i].last - r[i].left
              /\ \A j \in 1 .. L + 1 : r[j].dst = d /\ j < i => r[j].last <= r[i].last - r[i].left
              /\ \E m \in 1 .. M + 1 : more[m] = r[i].last
              /\ \A m \in 1 .. M + 1 : more[m] <= r[i].last - r[i].left \/ r[i].last <= more[m]
  <2>1. CASE i \in 1 .. L
    <3>1. r[i] = q[i] /\ q[i].dst = d
      BY <1>4, <1>10, <2>1
    <3>2. n <= r[i].last - r[i].left /\ r[i].last <= last + k
      BY <1>1, <1>7, <2>1, <3>1
    <3>3. \/ n = r[i].last - r[i].left
          \/ \E j \in 1 .. L + 1 : r[j].dst = d /\ j < i /\ r[j].last = r[i].last - r[i].left
      <4>1. CASE n = q[i].last - q[i].left
        BY <3>1, <4>1
      <4>2. CASE \E j \in 1 .. L : q[j].dst = d /\ j < i /\ q[j].last = q[i].last - q[i].left
        <5>1. PICK j \in 1 .. L : q[j].dst = d /\ j < i /\ q[j].last = q[i].last - q[i].left
          BY <4>2
        <5>2. j \in 1 .. L + 1 /\ r[j] = q[j]
          BY <1>1, <1>4
        <5> QED  BY <3>1, <5>1, <5>2
      <4> QED  BY <1>7, <2>1, <3>1, <4>1, <4>2
    <3>4. \A j \in 1 .. L + 1 : r[j].dst = d /\ j < i => r[j].last <= r[i].last - r[i].left
      <4>1. ASSUME NEW j \in 1 .. L + 1, r[j].dst = d, j < i PROVE r[j].last <= r[i].last - r[i].left
        <5>1. j \in 1 .. L
          BY <1>1, <2>1, <4>1
        <5>2. r[j] = q[j] /\ q[j].dst = d
          BY <1>4, <4>1, <5>1
        <5> QED  BY <1>7, <2>1, <3>1, <4>1, <5>1, <5>2
      <4> QED  BY <4>1
    <3>5. \E m \in 1 .. M + 1 : more[m] = r[i].last
      BY <1>1, <1>5, <1>7, <2>1, <3>1
    <3>6. \A m \in 1 .. M + 1 : more[m] <= r[i].last - r[i].left \/ r[i].last <= more[m]
      BY <1>1, <1>5, <1>7, <2>1, <3>1
    <3> QED  BY <3>2, <3>3, <3>4, <3>5, <3>6
  <2>2. CASE i = L + 1
    <3>1. r[i] = c /\ r[i].last - r[i].left = last /\ r[i].last = last + k
      BY <1>3, <1>4, <2>2
    <3>2. n <= r[i].last - r[i].left /\ r[i].last <= last + k
      BY <1>1, <1>6, <3>1
    <3>3. \/ n = r[i].last - r[i].left
          \/ \E j \in 1 .. L + 1 : r[j].dst = d /\ j < i /\ r[j].last = r[i].last - r[i].left
      BY <1>1, <1>4, <1>6, <2>2, <3>1
    <3>4. \A j \in 1 .. L + 1 : r[j].dst = d /\ j < i => r[j].last <= r[i].last - r[i].left
      BY <1>1, <1>4, <1>7, <2>2, <3>1
    <3>5. \E m \in 1 .. M + 1 : more[m] = r[i].last
      BY <1>1, <1>5, <3>1
    <3>6. \A m \in 1 .. M + 1 : more[m] <= r[i].last - r[i].left \/ r[i].last <= more[m]
      BY <1>1, <1>2, <1>5, <3>1
    <3> QED  BY <3>2, <3>3, <3>4, <3>5, <3>6
  <2> QED  BY <1>1, <2>1, <2>2
<1>11. \E i \in 1 .. L + 1 : r[i].dst = d /\ r[i].last = last + k
  BY <1>1, <1>3, <1>4
<1>12. n <= last + k
  BY <1>1, <1>6
<1>13. CommandsOK(r, d, n, more)
  BY <1>4, <1>5, <1>8, <1>9, <1>10, <1>11, <1>12 DEF CommandsOK
<1> QED  BY <1>13 DEF r, more, last

\* The first command is for another receiver: its next fragment is made.
LEMMA OtherFragmentMade ==
  ASSUME NEW q \in Seq(Cmds), q # << >>, NEW d, NEW n \in Nat, NEW ends \in Seq(Nat),
         CommandsOK(q, d, n, ends), q[1].dst # d,
         NEW r \in Seq(Cmds), Shortened(q, r)
  PROVE  CommandsOK(r, d, n, ends)
<1> DEFINE L == Len(q)
<1>1. /\ L \in Nat \ {0}
      /\ q[1].left = 1 => Len(r) = L - 1 /\ \A j \in 1 .. L - 1 : r[j] = q[j + 1]
      /\ q[1].left # 1 => /\ Len(r) = L /\ r[1].dst = q[1].dst
                          /\ \A j \in 2 .. L : r[j] = q[j]
  BY CommandTypes, EmptySeq DEF Shortened
<1>2. DOMAIN q = 1 .. L /\ DOMAIN r = 1 .. Len(r)
  BY <1>1, LenProperties
<1>3. CASE q[1].left # 1
  <2> HIDE DEF L
  <2>1. DOMAIN r = DOMAIN q /\ q[1].dst # d /\ r[1].dst # d
    BY <1>1, <1>2, <1>3
  <2>2. \A i \in DOMAIN q : i # 1 => r[i] = q[i]
    <3>1. \A i \in 1 .. L : i # 1 => i \in 2 .. L
      BY <1>1
    <3>2. \A j \in 2 .. L : r[j] = q[j]
      BY <1>1, <1>3
    <3> QED  BY <1>2, <3>1, <3>2
  <2>3. {i \in DOMAIN r : r[i].dst = d} = {i \in DOMAIN q : q[i].dst = d}
    BY <2>1, <2>2
  <2>4. \A i \in {k \in DOMAIN q : q[k].dst = d} : r[i] = q[i]
    BY <2>1, <2>2
  <2> QED  BY <2>3, <2>4, SameCommands
<1>4. CASE q[1].left = 1
  <2>1. /\ \A m, j \in DOMAIN ends : m < j => ends[m] < ends[j]
        /\ \A m \in DOMAIN ends : ends[m] > 0
        /\ n <= EndOf(ends)
        /\ n = EndOf(ends) \/ \E i \in 1 .. L : q[i].dst = d /\ q[i].last = EndOf(ends)
    BY CommandsAre DEF MessageEnds
  <2>2. ASSUME NEW i \in 1 .. L, q[i].dst = d
        PROVE  /\ n <= q[i].last - q[i].left /\ q[i].last <= EndOf(ends)
               /\ \/ n = q[i].last - q[i].left
                  \/ \E j \in 1 .. L : q[j].dst = d /\ j < i /\ q[j].last = q[i].last - q[i].left
               /\ \A j \in 1 .. L : q[j].dst = d /\ j < i => q[j].last <= q[i].last - q[i].left
               /\ \E m \in DOMAIN ends : ends[m] = q[i].last
               /\ \A m \in DOMAIN ends : ends[m] <= q[i].last - q[i].left \/ q[i].last <= ends[m]
    BY <2>2, CommandsAre DEF Placed
  <2>3. /\ DOMAIN r = 1 .. L - 1 /\ \A j \in 1 .. L - 1 : r[j] = q[j + 1] /\ j + 1 \in 1 .. L
        /\ \A j \in 1 .. L : q[j].dst = d => j - 1 \in 1 .. L - 1 /\ r[j - 1] = q[j]
        /\ L \in Nat
    <3> HIDE DEF L
    <3>1. DOMAIN r = 1 .. L - 1 /\ \A j \in 1 .. L - 1 : r[j] = q[j + 1] /\ j + 1 \in 1 .. L
      BY <1>1, <1>2, <1>4
    <3>2. q[1].dst # d
      BY <1>1
    <3>3. \A j \in 1 .. L : j # 1 => j - 1 \in 1 .. L - 1 /\ (j - 1) + 1 = j
      BY <1>1
    <3>4. \A j \in 1 .. L : q[j].dst = d => j - 1 \in 1 .. L - 1 /\ r[j - 1] = q[j]
      BY <3>1, <3>2, <3>3
    <3> QED  BY <1>1, <3>1, <3>4
  <2> HIDE DEF L
  <2>4. n = EndOf(ends) \/ \E i \in 1 .. L - 1 : r[i].dst = d /\ r[i].last = EndOf(ends)
    BY <2>1, <2>3
  <2>5. ASSUME NEW i \in 1 .. L - 1, r[i].dst = d
        PROVE  /\ n <= r[i].last - r[i].left /\ r[i].last <= EndOf(ends)
               /\ \/ n = r[i].last - r[i].left
                  \/ \E j \in 1 .. L - 1 : r[j].dst = d /\ j < i /\ r[j].last = r[i].last - r[i].left
               /\ \A j \in 1 .. L - 1 : r[j].dst = d /\ j < i => r[j].last <= r[i].last - r[i].left
               /\ \E m \in DOMAIN ends : ends[m] = r[i].last
               /\ \A m \in DOMAIN ends : ends[m] <= r[i].last - r[i].left \/ r[i].last <= ends[m]
    <3>1. r[i] = q[i + 1] /\ i + 1 \in 1 .. L /\ q[i + 1].dst = d
      BY <2>3, <2>5
    <3>2. \/ n = r[i].last - r[i].left
          \/ \E j \in 1 .. L - 1 : r[j].dst = d /\ j < i /\ r[j].last = r[i].last - r[i].left
      <4>1. CASE n = q[i + 1].last - q[i + 1].left
        BY <3>1, <4>1
      <4>2. CASE \E j \in 1 .. L : q[j].dst = d /\ j < i + 1 /\ q[j].last = q[i + 1].last - q[i + 1].left
        <5>1. PICK j \in 1 .. L : q[j].dst = d /\ j < i + 1 /\ q[j].last = q[i + 1].last - q[i + 1].left
          BY <4>2
        <5>2. j - 1 \in 1 .. L - 1 /\ r[j - 1] = q[j]
          BY <2>3, <5>1
        <5>3. j - 1 < i
          BY <2>3, <5>1
        <5> QED  BY <3>1, <5>1, <5>2, <5>3
      <4> QED  BY <2>2, <3>1, <4>1, <4>2
    <3>3. \A j \in 1 .. L - 1 : r[j].dst = d /\ j < i => r[j].last <= r[i].last - r[i].left
      <4> SUFFICES ASSUME NEW j \in 1 .. L - 1, r[j].dst = d, j < i
                   PROVE  r[j].last <= r[i].last - r[i].left
        OBVIOUS
      <4>1. r[j] = q[j + 1] /\ j + 1 \in 1 .. L
        BY <2>3
      <4>2. j + 1 < i + 1
        BY <2>3
      <4> QED  BY <2>2, <3>1, <4>1, <4>2
    <3> QED  BY <2>2, <3>1, <3>2, <3>3
  <2>6. DOMAIN r = 1 .. L - 1
    BY <2>3
  <2> QED  BY <2>1, <2>4, <2>5, <2>6 DEF CommandsOK, EndOf
<1> QED  BY <1>3, <1>4

\* The first command is for this receiver: its next fragment continues the
\* stream, and is the last of a message when the command ends.
LEMMA FragmentMade ==
  ASSUME NEW q \in Seq(Cmds), q # << >>, NEW d, NEW n \in Nat, NEW ends \in Seq(Nat),
         CommandsOK(q, d, n, ends), q[1].dst = d,
         NEW r \in Seq(Cmds), Shortened(q, r)
  PROVE  /\ CommandsOK(r, d, n + 1, ends)
         /\ q[1].last - q[1].left = n
         /\ q[1].left = 1 <=> \E m \in DOMAIN ends : ends[m] = n + 1
<1> DEFINE L == Len(q)
           e == EndOf(ends)
           M == Len(ends)
<1>1. /\ L \in Nat \ {0} /\ DOMAIN q = 1 .. L /\ DOMAIN ends = 1 .. M
      /\ \A i \in 1 .. L : /\ q[i].left \in Nat /\ q[i].left >= 1
                           /\ q[i].last \in Nat
      /\ e \in Nat /\ \A m \in 1 .. M : ends[m] \in Nat
  BY CommandTypes, EmptySeq
<1>2. /\ r \in Seq(Cmds) /\ DOMAIN r = 1 .. Len(r)
      /\ q[1].left = 1 => Len(r) = L - 1 /\ \A j \in 1 .. L - 1 : r[j] = q[j + 1]
      /\ q[1].left # 1 => /\ Len(r) = L
                          /\ r[1].dst = q[1].dst /\ r[1].last = q[1].last
                          /\ r[1].left = q[1].left - 1
                          /\ \A j \in 2 .. L : r[j] = q[j]
  BY LenProperties DEF Shortened
<1>3. /\ \A m, j \in DOMAIN ends : m < j => ends[m] < ends[j]
      /\ \A m \in DOMAIN ends : ends[m] > 0
      /\ n <= e
      /\ n = e \/ \E i \in 1 .. L : q[i].dst = d /\ q[i].last = e
  BY CommandsAre DEF MessageEnds
<1>4. ASSUME NEW i \in 1 .. L, q[i].dst = d
      PROVE  /\ n <= q[i].last - q[i].left /\ q[i].last <= e
             /\ \/ n = q[i].last - q[i].left
                \/ \E j \in 1 .. L : q[j].dst = d /\ j < i /\ q[j].last = q[i].last - q[i].left
             /\ \A j \in 1 .. L : q[j].dst = d /\ j < i => q[j].last <= q[i].last - q[i].left
             /\ \E m \in DOMAIN ends : ends[m] = q[i].last
             /\ \A m \in DOMAIN ends : ends[m] <= q[i].last - q[i].left \/ q[i].last <= ends[m]
  BY <1>4, CommandsAre DEF Placed
<1> HIDE DEF L, e, M
<1>5. 1 \in 1 .. L /\ q[1].dst = d
  BY <1>1
<1>6. q[1].last - q[1].left = n /\ q[1].last = n + q[1].left /\ q[1].last <= e
  <2>1. /\ q[1].last <= e
        /\ \/ n = q[1].last - q[1].left
           \/ \E j \in 1 .. L : q[j].dst = d /\ j < 1 /\ q[j].last = q[1].last - q[1].left
    BY <1>4, <1>5
  <2>2. \A j \in 1 .. L : ~(j < 1)
    BY <1>1
  <2>3. n = q[1].last - q[1].left
    BY <2>1, <2>2
  <2>4. q[1].last \in Nat /\ q[1].left \in Nat
    BY <1>1, <1>5
  <2> QED  BY <2>1, <2>3, <2>4
<1>7. q[1].left = 1 <=> \E m \in DOMAIN ends : ends[m] = n + 1
  <2>1. PICK m \in DOMAIN ends : ends[m] = q[1].last
    BY <1>4, <1>5
  <2>2. ASSUME q[1].left # 1, NEW k \in DOMAIN ends PROVE ends[k] # n + 1
    <3>1. ends[k] <= n \/ n + q[1].left <= ends[k]
      BY <1>4, <1>5, <1>6, <2>2
    <3>2. ends[k] \in Nat /\ q[1].left \in Nat /\ q[1].left > 1
      <4>1. k \in 1 .. M /\ q[1].left \in Nat /\ q[1].left >= 1  BY <1>1, <1>5, <2>2
      <4>2. ends[k] \in Nat  BY <1>1, <4>1
      <4> QED  BY <2>2, <4>1, <4>2
    <3> QED  BY <3>1, <3>2
  <2> QED  BY <1>6, <2>1, <2>2
<1>8. n + 1 <= e
  BY <1>1, <1>5, <1>6
\* No other command begins here, and those behind the first begin where it ends.
<1>9. \A i \in 1 .. L : i # 1 /\ q[i].dst = d =>
        /\ n + 1 <= q[i].last - q[i].left
        /\ q[1].last <= q[i].last - q[i].left
  <2> SUFFICES ASSUME NEW i \in 1 .. L, i # 1, q[i].dst = d
               PROVE  /\ n + 1 <= q[i].last - q[i].left
                      /\ q[1].last <= q[i].last - q[i].left
    OBVIOUS
  <2>1. 1 < i
    BY <1>1
  <2>2. q[1].last <= q[i].last - q[i].left
    BY <1>4, <1>5, <2>1
  <2> QED  BY <1>1, <1>5, <1>6, <2>2, SMTT(40)
<1>10. PICK i0 \in 1 .. L : q[i0].dst = d /\ q[i0].last = e
  BY <1>1, <1>3, <1>8
<1>11. CASE q[1].left # 1
  <2>1. /\ DOMAIN r = 1 .. L
        /\ \A i \in 1 .. L : r[i].dst = q[i].dst /\ r[i].last = q[i].last
        /\ \A i \in 1 .. L : i # 1 => r[i].left = q[i].left
        /\ r[1].last - r[1].left = n + 1
    <3>1. \A i \in 1 .. L : i = 1 \/ i \in 2 .. L
      BY <1>1
    <3>2. \A i \in 2 .. L : r[i] = q[i]
      BY <1>2, <1>11
    <3>3. DOMAIN r = 1 .. L /\ r[1].dst = q[1].dst /\ r[1].last = q[1].last /\ r[1].left = q[1].left - 1
      BY <1>2, <1>11
    <3>4. r[1].last - r[1].left = n + 1
      <4>1. q[1].last \in Nat /\ q[1].left \in Nat
        BY <1>1, <1>5
      <4> QED  BY <1>6, <3>3, <4>1
    <3>5. \A i \in 1 .. L : r[i].dst = q[i].dst /\ r[i].last = q[i].last /\ (i # 1 => r[i].left = q[i].left)
      BY <3>1, <3>2, <3>3
    <3> QED  BY <3>3, <3>4, <3>5
  <2>2. \E i \in 1 .. L : r[i].dst = d /\ r[i].last = e
    BY <1>10, <2>1
  <2>3. ASSUME NEW i \in 1 .. L, r[i].dst = d
        PROVE  /\ n + 1 <= r[i].last - r[i].left /\ r[i].last <= e
               /\ \/ n + 1 = r[i].last - r[i].left
                  \/ \E j \in 1 .. L : r[j].dst = d /\ j < i /\ r[j].last = r[i].last - r[i].left
               /\ \A j \in 1 .. L : r[j].dst = d /\ j < i => r[j].last <= r[i].last - r[i].left
               /\ \E m \in DOMAIN ends : ends[m] = r[i].last
               /\ \A m \in DOMAIN ends : ends[m] <= r[i].last - r[i].left \/ r[i].last <= ends[m]
    <3>1. q[i].dst = d /\ r[i].last = q[i].last
      BY <2>1, <2>3
    <3>2. CASE i = 1
      <4>1. \A j \in 1 .. L : ~(j < i)
        BY <1>1, <3>2
      <4>2. \A m \in DOMAIN ends : ends[m] <= n + 1 \/ r[i].last <= ends[m]
        BY <1>1, <1>4, <1>5, <1>6, <3>1, <3>2
      <4>3. r[i].last - r[i].left = n + 1
        BY <2>1, <3>2
      <4>4. q[i].last <= e /\ \E m \in DOMAIN ends : ends[m] = q[i].last
        BY <1>4, <3>1
      <4>5. n + 1 <= r[i].last - r[i].left
        BY <4>3
      <4> QED  BY <3>1, <4>1, <4>2, <4>3, <4>4, <4>5
    <3>3. CASE i # 1
      <4>1. r[i].last - r[i].left = q[i].last - q[i].left
        BY <2>1, <3>1, <3>3
      <4>2. n + 1 <= q[i].last - q[i].left /\ n # q[i].last - q[i].left
        BY <1>1, <1>9, <3>1, <3>3
      <4>3. PICK j \in 1 .. L : q[j].dst = d /\ j < i /\ q[j].last = q[i].last - q[i].left
        BY <1>4, <3>1, <4>2
      <4>4. r[j].dst = d /\ r[j].last = r[i].last - r[i].left
        BY <2>1, <4>1, <4>3
      <4>5. \A k \in 1 .. L : r[k].dst = d /\ k < i => r[k].last <= r[i].last - r[i].left
        BY <1>4, <2>1, <3>1, <4>1
      <4> QED  BY <1>4, <3>1, <4>1, <4>2, <4>3, <4>4, <4>5
    <3> QED  BY <3>2, <3>3
  <2>4. CommandsOK(r, d, n + 1, ends)
    BY <1>3, <1>8, <2>1, <2>2, <2>3 DEF CommandsOK, e, EndOf
  <2> QED  BY <1>1, <1>6, <1>7, <2>4
<1>12. CASE q[1].left = 1
  <2>1. /\ DOMAIN r = 1 .. L - 1
        /\ \A i \in 1 .. L - 1 : r[i] = q[i + 1] /\ i + 1 \in 1 .. L /\ i + 1 # 1
        /\ \A i \in 1 .. L : i # 1 => i - 1 \in 1 .. L - 1 /\ r[i - 1] = q[i]
        /\ q[1].last = n + 1
    <3>1. DOMAIN r = 1 .. L - 1 /\ \A i \in 1 .. L - 1 : r[i] = q[i + 1]
      BY <1>2, <1>12
    <3>2. \A i \in 1 .. L - 1 : i + 1 \in 1 .. L /\ i + 1 # 1
      BY <1>1
    <3>3. \A i \in 1 .. L : i # 1 => i - 1 \in 1 .. L - 1 /\ (i - 1) + 1 = i
      BY <1>1
    <3>4. \A i \in 1 .. L : i # 1 => i - 1 \in 1 .. L - 1 /\ r[i - 1] = q[i]
      BY <3>1, <3>3
    <3> QED  BY <1>6, <1>12, <3>1, <3>2, <3>4
  <2>2. n + 1 = e \/ \E i \in 1 .. L - 1 : r[i].dst = d /\ r[i].last = e
    BY <1>10, <2>1
  <2>3. ASSUME NEW i \in 1 .. L - 1, r[i].dst = d
        PROVE  /\ n + 1 <= r[i].last - r[i].left /\ r[i].last <= e
               /\ \/ n + 1 = r[i].last - r[i].left
                  \/ \E j \in 1 .. L - 1 : r[j].dst = d /\ j < i /\ r[j].last = r[i].last - r[i].left
               /\ \A j \in 1 .. L - 1 : r[j].dst = d /\ j < i => r[j].last <= r[i].last - r[i].left
               /\ \E m \in DOMAIN ends : ends[m] = r[i].last
               /\ \A m \in DOMAIN ends : ends[m] <= r[i].last - r[i].left \/ r[i].last <= ends[m]
    <3>1. r[i] = q[i + 1] /\ i + 1 \in 1 .. L /\ i + 1 # 1 /\ q[i + 1].dst = d
      BY <2>1, <2>3
    <3>2. n + 1 <= q[i + 1].last - q[i + 1].left /\ n # q[i + 1].last - q[i + 1].left
      BY <1>1, <1>9, <3>1
    <3>3. PICK j \in 1 .. L : /\ q[j].dst = d /\ j < i + 1
                              /\ q[j].last = q[i + 1].last - q[i + 1].left
      BY <1>4, <3>1, <3>2
    <3>4. \/ n + 1 = r[i].last - r[i].left
          \/ \E k \in 1 .. L - 1 : r[k].dst = d /\ k < i /\ r[k].last = r[i].last - r[i].left
      <4>1. CASE j = 1
        BY <2>1, <3>1, <3>3, <4>1
      <4>2. CASE j # 1
        <5>1. j - 1 \in 1 .. L - 1 /\ r[j - 1] = q[j]
          BY <2>1, <4>2
        <5>2. j - 1 < i
          BY <1>1, <3>3
        <5> QED  BY <3>1, <3>3, <5>1, <5>2
      <4> QED  BY <4>1, <4>2
    <3>5. \A k \in 1 .. L - 1 : r[k].dst = d /\ k < i => r[k].last <= r[i].last - r[i].left
      <4> SUFFICES ASSUME NEW k \in 1 .. L - 1, r[k].dst = d, k < i
                   PROVE  r[k].last <= r[i].last - r[i].left
        OBVIOUS
      <4>1. r[k] = q[k + 1] /\ k + 1 \in 1 .. L
        BY <2>1
      <4>2. k + 1 < i + 1
        BY <1>1
      <4> QED  BY <1>4, <3>1, <4>1, <4>2, ZenonT(40)
    <3> QED  BY <1>4, <3>1, <3>2, <3>4, <3>5
  <2>4. CommandsOK(r, d, n + 1, ends)
    BY <1>3, <1>8, <2>1, <2>2, <2>3 DEF CommandsOK, e, EndOf
  <2> QED  BY <1>1, <1>6, <1>7, <2>4
<1> QED  BY <1>11, <1>12

\* The fragment handle_input_cmds makes for d has the next number.
LEMMA NewFragment ==
  ASSUME TypeInv, CommandInv, HandleInputCmds,
         NEW c, c = Head(cmds[cur])
  PROVE  /\ cur \in Hosts /\ c \in Cmds /\ c.dst \in Hosts
         /\ cmds[cur] \in Seq(Cmds) /\ cmds[cur] # << >>
         /\ c.last - c.left + 1 = Len(submitted[cur][c.dst]) + 1
         /\ c.left - 1 = 0 <=> \E m \in DOMAIN sent[cur][c.dst] :
                                  sent[cur][c.dst][m] = Len(submitted[cur][c.dst]) + 1
         /\ UNCHANGED sent
         /\ submitted' = [submitted EXCEPT ![cur][c.dst] =
                            Append(submitted[cur][c.dst], currSeq[cur][c.dst])]
         /\ submitted'[cur][c.dst] \in Seq(SeqNums)
         /\ Len(submitted'[cur][c.dst]) = Len(submitted[cur][c.dst]) + 1
         /\ \A h, p \in Hosts : h # cur \/ p # c.dst => submitted'[h][p] = submitted[h][p]
<1>1. phase = "cmds" /\ cur \in Hosts /\ cmds[cur] \in Seq(Cmds) /\ cmds[cur] # << >>
  BY HostTypes DEF HandleInputCmds, TypeInv, TypeOK, TurnInv, Senders, NoHost
<1>2. c \in Cmds /\ c.dst \in Hosts
  BY <1>1, NextCommands DEF Cmds
<1>3. /\ submitted[cur][c.dst] \in Seq(SeqNums) /\ sent[cur][c.dst] \in Seq(Nat)
      /\ currSeq[cur][c.dst] \in SeqNums /\ submitted \in [Hosts -> [Hosts -> Seq(SeqNums)]]
  <2>1. submitted[cur][c.dst] \in Seq(SeqNums) /\ sent[cur][c.dst] \in Seq(Nat)
    BY <1>1, <1>2 DEF TypeInv, HistoryOK
  <2>2. currSeq[cur][c.dst] \in SeqNums
    BY <1>1, <1>2, HostTypes DEF TypeInv
  <2> QED  BY <2>1, <2>2 DEF TypeInv, HistoryOK
<1>4. CommandsOK(cmds[cur], c.dst, Len(submitted[cur][c.dst]), sent[cur][c.dst])
  BY <1>1, <1>2 DEF CommandInv
<1>5. Len(submitted[cur][c.dst]) \in Nat
  BY <1>3, LenProperties
<1>6. /\ c.last - c.left = Len(submitted[cur][c.dst])
      /\ c.left = 1 <=> \E m \in DOMAIN sent[cur][c.dst] :
                            sent[cur][c.dst][m] = Len(submitted[cur][c.dst]) + 1
  <2> DEFINE q == cmds[cur]
  <2>1. PICK r : r = IF Head(q).left = 1 THEN Tail(q) ELSE [q EXCEPT ![1].left = Head(q).left - 1]
    OBVIOUS
  <2>2. r \in Seq(Cmds) /\ Shortened(q, r) /\ c = q[1]
    BY <1>1, <2>1, NextCommands
  <2> HIDE DEF q
  <2>3. q \in Seq(Cmds) /\ q # << >> /\ q[1].dst = c.dst
    BY <1>1, <2>2 DEF q
  <2>4. CommandsOK(q, c.dst, Len(submitted[cur][c.dst]), sent[cur][c.dst])
    BY <1>4 DEF q
  <2>5. /\ q[1].last - q[1].left = Len(submitted[cur][c.dst])
        /\ q[1].left = 1 <=> \E m \in DOMAIN sent[cur][c.dst] :
                               sent[cur][c.dst][m] = Len(submitted[cur][c.dst]) + 1
    <3> DEFINE n == Len(submitted[cur][c.dst])
               ends == sent[cur][c.dst]
    <3>1. n \in Nat /\ ends \in Seq(Nat) /\ CommandsOK(q, c.dst, n, ends)
      BY <1>3, <1>5, <2>4
    <3> HIDE DEF n, ends
    <3>2. /\ q[1].last - q[1].left = n
          /\ q[1].left = 1 <=> \E m \in DOMAIN ends : ends[m] = n + 1
      BY <2>2, <2>3, <3>1, FragmentMade, ZenonT(40)
    <3> QED  BY <3>2 DEF n, ends
  <2> QED  BY <2>2, <2>5
<1>7. c.left - 1 = 0 <=> c.left = 1
  BY <1>2 DEF Cmds
<1>8. /\ UNCHANGED sent
      /\ submitted' = [submitted EXCEPT ![cur][c.dst] =
                         Append(submitted[cur][c.dst], currSeq[cur][c.dst])]
  BY DEF HandleInputCmds
<1> DEFINE s == Append(submitted[cur][c.dst], currSeq[cur][c.dst])
<1>9. s \in Seq(SeqNums) /\ Len(s) = Len(submitted[cur][c.dst]) + 1
  BY <1>3
<1> HIDE DEF s
<1>10. /\ submitted'[cur][c.dst] = s
       /\ \A h, p \in Hosts : h # cur \/ p # c.dst => submitted'[h][p] = submitted[h][p]
  BY <1>1, <1>2, <1>3, <1>8, <1>9, TableUpdate DEF s
<1> QED  BY <1>1, <1>2, <1>6, <1>7, <1>8, <1>9, <1>10

LEMMA HandleInputCmdsCommands ==
  TypeInv /\ CommandInv /\ HandleInputCmds => CommandInv'
<1> SUFFICES ASSUME TypeInv, CommandInv, HandleInputCmds, NEW s \in Hosts, NEW d \in Hosts
             PROVE  CommandsOK(cmds'[s], d, Len(submitted'[s][d]), sent'[s][d])
  BY DEF CommandInv
<1> DEFINE q == cmds[cur]
           r == IF Head(q).left = 1 THEN Tail(q) ELSE [q EXCEPT ![1].left = Head(q).left - 1]
<1>1. /\ cur \in Hosts /\ q \in Seq(Cmds) /\ q # << >> /\ Head(q).dst \in Hosts
      /\ UNCHANGED sent
      /\ Len(submitted'[cur][Head(q).dst]) = Len(submitted[cur][Head(q).dst]) + 1
      /\ \A h, p \in Hosts : h # cur \/ p # Head(q).dst => submitted'[h][p] = submitted[h][p]
  BY NewFragment
<1>2. cmds' = [cmds EXCEPT ![cur] = r]
  BY DEF HandleInputCmds
<1>3. cmds'[cur] = r /\ \A h \in Hosts : h # cur => cmds'[h] = cmds[h]
  BY <1>1, <1>2 DEF TypeInv, HistoryOK
<1>4. CommandsOK(cmds[s], d, Len(submitted[s][d]), sent[s][d])
  BY DEF CommandInv
<1>5. Len(submitted[s][d]) \in Nat /\ sent[s][d] \in Seq(Nat)
  <2>1. submitted[s][d] \in Seq(SeqNums) /\ sent[s][d] \in Seq(Nat)
    BY DEF TypeInv, HistoryOK
  <2> QED  BY <2>1, LenProperties
<1>9. r \in Seq(Cmds) /\ Shortened(q, r) /\ Head(q) = q[1]
  BY <1>1, NextCommands
<1> HIDE DEF q, r
<1>6. CASE s # cur
  BY <1>1, <1>3, <1>4, <1>6
<1>7. CASE s = cur /\ d # Head(q).dst
  <2>1. CommandsOK(r, d, Len(submitted[s][d]), sent[s][d])
    <3>1. CommandsOK(q, d, Len(submitted[s][d]), sent[s][d]) /\ q[1].dst # d
      BY <1>4, <1>7, <1>9 DEF q
    <3> QED  BY <1>1, <1>5, <1>9, <3>1, OtherFragmentMade
  <2> QED  BY <1>1, <1>3, <1>7, <2>1
<1>8. CASE s = cur /\ d = Head(q).dst
  <2>1. CommandsOK(r, d, Len(submitted[s][d]) + 1, sent[s][d])
    <3>1. CommandsOK(q, d, Len(submitted[s][d]), sent[s][d]) /\ q[1].dst = d
      BY <1>4, <1>8, <1>9 DEF q
    <3> QED  BY <1>1, <1>5, <1>9, <3>1, FragmentMade
  <2> QED  BY <1>1, <1>3, <1>8, <2>1
<1> QED  BY <1>6, <1>7, <1>8

\* What the user types follows everything typed before.
LEMMA NewMessage ==
  ASSUME TypeInv, AcceptMessage
  PROVE  \E s, d \in Hosts, n \in Nat \ {0} :
           /\ cmds' = [cmds EXCEPT ![s] = Append(cmds[s],
                         [dst |-> d, left |-> n, last |-> EndOf(sent[s][d]) + n])]
           /\ sent' = [sent EXCEPT ![s][d] = Append(sent[s][d], EndOf(sent[s][d]) + n)]
           /\ sent'[s][d] = Append(sent[s][d], EndOf(sent[s][d]) + n)
           /\ \A h, p \in Hosts : h # s \/ p # d => sent'[h][p] = sent[h][p]
           /\ sent[s][d] \in Seq(Nat) /\ EndOf(sent[s][d]) \in Nat
           /\ UNCHANGED submitted
<1>1. PICK s \in Hosts, d \in Hosts, n \in 1 .. MaxFragments :
        /\ cmds' = [cmds EXCEPT ![s] =
             Append(@, [dst |-> d, left |-> n, last |-> Typed(s, d) + n])]
        /\ sent' = [sent EXCEPT ![s][d] = Append(@, Typed(s, d) + n)]
  BY DEF AcceptMessage
<1>2. Typed(s, d) = EndOf(sent[s][d])
  BY DEF Typed, EndOf
<1>3. sent[s][d] \in Seq(Nat) /\ sent \in [Hosts -> [Hosts -> Seq(Nat)]]
  BY DEF TypeInv, HistoryOK
<1>4. EndOf(sent[s][d]) \in Nat /\ n \in Nat \ {0}
  BY <1>2, TypedNat, Constants DEF TypeInv
<1>5. EndOf(sent[s][d]) + n \in Nat
  BY <1>4
<1> DEFINE x == Append(sent[s][d], EndOf(sent[s][d]) + n)
<1>6. x \in Seq(Nat)
  BY <1>3, <1>5
<1>7. sent' = [sent EXCEPT ![s][d] = x]
  BY <1>1, <1>2
<1> HIDE DEF x
<1>8. sent'[s][d] = x /\ \A h, p \in Hosts : h # s \/ p # d => sent'[h][p] = sent[h][p]
  BY <1>3, <1>6, <1>7, TableUpdate
<1>9. UNCHANGED submitted
  BY DEF AcceptMessage
<1> QED  BY <1>1, <1>2, <1>3, <1>4, <1>7, <1>8, <1>9, ZenonT(40) DEF x

LEMMA AcceptMessageCommands ==
  TypeInv /\ CommandInv /\ AcceptMessage => CommandInv'
<1> SUFFICES ASSUME TypeInv, CommandInv, AcceptMessage, NEW h \in Hosts, NEW p \in Hosts
             PROVE  CommandsOK(cmds'[h], p, Len(submitted'[h][p]), sent'[h][p])
  BY DEF CommandInv
<1>1. PICK s \in Hosts, d \in Hosts, n \in Nat \ {0} :
        /\ cmds' = [cmds EXCEPT ![s] = Append(cmds[s],
                      [dst |-> d, left |-> n, last |-> EndOf(sent[s][d]) + n])]
        /\ sent'[s][d] = Append(sent[s][d], EndOf(sent[s][d]) + n)
        /\ \A a, b \in Hosts : a # s \/ b # d => sent'[a][b] = sent[a][b]
        /\ sent[s][d] \in Seq(Nat) /\ EndOf(sent[s][d]) \in Nat
        /\ UNCHANGED submitted
  BY NewMessage
<1> DEFINE c == [dst |-> d, left |-> n, last |-> EndOf(sent[s][d]) + n]
<1>2. c \in Cmds /\ c.dst = d
  BY <1>1 DEF Cmds
<1>3. cmds'[s] = Append(cmds[s], c) /\ \A a \in Hosts : a # s => cmds'[a] = cmds[a]
  BY <1>1 DEF TypeInv, HistoryOK
<1>4. CommandsOK(cmds[h], p, Len(submitted[h][p]), sent[h][p])
  BY DEF CommandInv
<1>5. Len(submitted[h][p]) \in Nat /\ sent[h][p] \in Seq(Nat) /\ cmds[s] \in Seq(Cmds)
  <2>1. submitted[h][p] \in Seq(SeqNums) /\ sent[h][p] \in Seq(Nat) /\ cmds[s] \in Seq(Cmds)
    BY DEF TypeInv, HistoryOK
  <2> QED  BY <2>1, LenProperties
<1>6. CASE h # s
  BY <1>1, <1>3, <1>4, <1>6
<1>7. CASE h = s /\ p # d
  <2>1. CommandsOK(Append(cmds[s], c), p, Len(submitted[h][p]), sent[h][p])
    BY <1>2, <1>4, <1>5, <1>7, OtherCommandTyped
  <2> QED  BY <1>1, <1>3, <1>7, <2>1
<1>8. CASE h = s /\ p = d
  <2>1. CommandsOK(Append(cmds[s], c), d, Len(submitted[s][d]),
                   Append(sent[s][d], EndOf(sent[s][d]) + n))
    BY <1>4, <1>5, <1>8, CommandTyped
  <2> QED  BY <1>1, <1>3, <1>8, <2>1
<1> QED  BY <1>6, <1>7, <1>8

\* Nothing else changes the commands and what was typed and made of it.
LEMMA CommandsKept ==
  [Next]_vars => \/ AcceptMessage \/ HandleInputCmds
                 \/ UNCHANGED <<cmds, submitted, sent>>
<1> USE DEF control, queues, sending, recving, history
<1> SUFFICES ASSUME [Next]_vars, ~AcceptMessage, ~HandleInputCmds
             PROVE  UNCHANGED <<cmds, submitted, sent>>
  OBVIOUS
<1>1. CASE \/ StartTurn \/ ExitCommand \/ InputError \/ DataSent \/ FramesReceived
           \/ EndTurn \/ Terminated \/ Tick
  BY <1>1 DEF StartTurn, ExitCommand, BeginSenders, InputError, DataSent, FramesReceived,
              EndTurn, Terminated, Tick, vars
<1>2. CASE RunSender \/ DropCorruptAck \/ HandleIncomingAck \/ HandleTimedoutFrames
  BY <1>2 DEF RunSender, DropCorruptAck, HandleIncomingAck, HandleTimedoutFrames
<1>3. CASE ResendFrame \/ ReleaseFrame \/ OutgoingDone
  BY <1>3 DEF ResendFrame, ReleaseFrame, OutgoingDone
<1>4. CASE SendDataFrame \/ DropCorruptFrame \/ PrintMessage \/ SendAckFrame
  BY <1>4 DEF SendDataFrame, DropCorruptFrame, PrintMessage, SendAckFrame
<1>5. CASE HandleIncomingFrame
  BY <1>5 DEF HandleIncomingFrame
<1>6. CASE UNCHANGED vars
  BY <1>6 DEF vars
<1> QED  BY <1>1, <1>2, <1>3, <1>4, <1>5, <1>6 DEF Next, Turn

LEMMA InitCommands == Init => CommandInv
<1> SUFFICES ASSUME Init, NEW s \in Hosts, NEW d \in Hosts
             PROVE  CommandsOK(cmds[s], d, Len(submitted[s][d]), sent[s][d])
  BY DEF CommandInv
<1>1. cmds[s] = << >> /\ submitted[s][d] = << >> /\ sent[s][d] = << >>
  BY DEF Init, Each
<1> QED  BY <1>1 DEF CommandsOK

LEMMA NextCommandInv == TypeInv /\ CommandInv /\ [Next]_vars => CommandInv'
<1>1. CommandInv /\ UNCHANGED <<cmds, submitted, sent>> => CommandInv'
  BY DEF CommandInv
<1> QED  BY <1>1, CommandsKept, AcceptMessageCommands, HandleInputCmdsCommands

\* A fragment stays genuine.
LEMMA GenuineKept ==
  ASSUME TypeInv, CommandInv, [Next]_vars, NEW f \in Frames, Genuine(f)
  PROVE  Genuine(f)'
<1>1. f.src \in Hosts /\ f.dst \in Hosts /\ f.id \in Nat
  BY DEF Frames
<1>2. /\ submitted[f.src][f.dst] \in Seq(SeqNums) /\ sent[f.src][f.dst] \in Seq(Nat)
      /\ Len(submitted[f.src][f.dst]) \in Nat
      /\ DOMAIN sent[f.src][f.dst] = 1 .. Len(sent[f.src][f.dst])
  <2>1. submitted[f.src][f.dst] \in Seq(SeqNums) /\ sent[f.src][f.dst] \in Seq(Nat)
    BY <1>1 DEF TypeInv, HistoryOK
  <2> QED  BY <2>1, LenProperties
<1>3. CASE UNCHANGED <<cmds, submitted, sent>>
  BY <1>3 DEF Genuine
<1>4. CASE HandleInputCmds
  <2> DEFINE c == Head(cmds[cur])
  <2>1. /\ UNCHANGED sent /\ cur \in Hosts /\ c.dst \in Hosts
        /\ Len(submitted'[cur][c.dst]) = Len(submitted[cur][c.dst]) + 1
        /\ \A h, p \in Hosts : h # cur \/ p # c.dst => submitted'[h][p] = submitted[h][p]
    BY <1>4, NewFragment
  <2>2. \/ Len(submitted'[f.src][f.dst]) = Len(submitted[f.src][f.dst])
        \/ Len(submitted'[f.src][f.dst]) = Len(submitted[f.src][f.dst]) + 1
    BY <1>1, <2>1
  <2>3. f.id \in 1 .. Len(submitted'[f.src][f.dst])
    BY <1>2, <2>2 DEF Genuine
  <2> QED  BY <2>1, <2>3 DEF Genuine
<1>5. CASE AcceptMessage
  <2>1. PICK s \in Hosts, d \in Hosts, n \in Nat \ {0} :
        /\ sent'[s][d] = Append(sent[s][d], EndOf(sent[s][d]) + n)
        /\ \A a, b \in Hosts : a # s \/ b # d => sent'[a][b] = sent[a][b]
        /\ sent[s][d] \in Seq(Nat) /\ EndOf(sent[s][d]) \in Nat
        /\ UNCHANGED submitted
    BY <1>5, NewMessage
  <2>2. CASE f.src # s \/ f.dst # d
    BY <1>1, <2>1, <2>2 DEF Genuine
  <2>3. CASE f.src = s /\ f.dst = d
    <3> DEFINE ends == sent[s][d]
               e    == EndOf(ends) + n
               M    == Len(ends)
    <3>1. e \in Nat /\ M \in Nat /\ DOMAIN ends = 1 .. M
      BY <1>2, <2>1, <2>3
    <3>2. Len(submitted[s][d]) <= EndOf(ends)
      BY DEF CommandInv, CommandsOK, EndOf
    <3>3. f.id # e
      BY <1>2, <2>1, <2>3, <3>2 DEF Genuine
    <3> HIDE DEF e
    <3>4. /\ DOMAIN sent'[s][d] = 1 .. M + 1
          /\ \A m \in 1 .. M : sent'[s][d][m] = ends[m]
          /\ sent'[s][d][M + 1] = e
      BY <2>1, <3>1, LenProperties DEF e
    <3>5. (\E m \in DOMAIN sent'[s][d] : sent'[s][d][m] = f.id) <=>
             \E m \in DOMAIN ends : ends[m] = f.id
      <4> HIDE DEF ends
      <4> QED  BY <3>1, <3>3, <3>4
    <3> QED  BY <2>1, <2>3, <3>5 DEF Genuine
  <2> QED  BY <2>2, <2>3
<1> QED  BY <1>3, <1>4, <1>5, CommandsKept

\* What a queue may hold, it may hold after a step.
LEMMA SetsKept ==
  ASSUME TypeInv, CommandInv, [Next]_vars, NEW h \in Hosts, NEW p \in Hosts
  PROVE  /\ Seq(DataFrom(h)) \subseteq Seq(DataFrom(h)')
         /\ Seq(DataFor(h)) \subseteq Seq(DataFor(h)')
         /\ Seq(Slots(Between(h, p))) \subseteq Seq(Slots(Between(h, p)'))
         /\ Seq(Between(h, p)) \subseteq Seq(Between(h, p)')
         /\ Between(h, p) \subseteq Between(h, p)'
         /\ DataFrom(h) \subseteq DataFrom(h)' /\ DataFor(h) \subseteq DataFor(h)'
<1>1. DataFrom(h) \subseteq DataFrom(h)'
  BY GenuineKept DEF DataFrom
<1>2. Between(h, p) \subseteq Between(h, p)'
  BY <1>1 DEF Between
<1>3. DataFor(h) \subseteq DataFor(h)'
  BY GenuineKept DEF DataFor
<1>4. Slots(Between(h, p)) \subseteq Slots(Between(h, p)')
  BY <1>2 DEF Slots
<1> QED  BY <1>1, <1>2, <1>3, <1>4, SeqMonotonic

------------------------------------------------------------------------------
\* What the queues hold, and who changes which.
LEMMA InitQueues == Init => QueueInv
<1> SUFFICES ASSUME Init PROVE QueueInv
  OBVIOUS
<1>1. \A S : << >> \in Seq(S)
  BY EmptySeq
<1>2. BufferedInv /\ WindowInv /\ OutgoingInv /\ IncomingInv
  BY <1>1 DEF Init, Each, BufferedInv, WindowInv, OutgoingInv, IncomingInv
<1>3. ReceivedInv
  BY <1>1 DEF Init, Each, ReceivedInv
<1> QED  BY <1>2, <1>3 DEF QueueInv


LEMMA BufferedKept ==
  [Next]_vars => HandleInputCmds \/ ReleaseFrame \/ UNCHANGED buffered
<1> USE DEF control, queues, sending, recving, history
<1> SUFFICES ASSUME [Next]_vars, ~HandleInputCmds, ~ReleaseFrame
             PROVE  UNCHANGED buffered
  OBVIOUS
<1>1. CASE \/ StartTurn \/ ExitCommand \/ InputError \/ DataSent \/ FramesReceived
           \/ EndTurn \/ Terminated \/ Tick \/ AcceptMessage
  BY <1>1 DEF StartTurn, ExitCommand, BeginSenders, InputError, DataSent, FramesReceived,
              EndTurn, Terminated, Tick, AcceptMessage, vars
<1>2. CASE RunSender \/ DropCorruptAck \/ HandleIncomingAck \/ HandleTimedoutFrames
  BY <1>2 DEF RunSender, DropCorruptAck, HandleIncomingAck, HandleTimedoutFrames
<1>3. CASE ResendFrame \/ OutgoingDone
  BY <1>3 DEF ResendFrame, OutgoingDone
<1>4. CASE SendDataFrame \/ DropCorruptFrame \/ PrintMessage \/ SendAckFrame
  BY <1>4 DEF SendDataFrame, DropCorruptFrame, PrintMessage, SendAckFrame
<1>5. CASE HandleIncomingFrame
  BY <1>5 DEF HandleIncomingFrame
<1>6. CASE UNCHANGED vars
  BY <1>6 DEF vars
<1> QED  BY <1>1, <1>2, <1>3, <1>4, <1>5, <1>6 DEF Next, Turn

LEMMA WindowKept ==
  [Next]_vars => \/ Tick \/ HandleIncomingAck \/ HandleTimedoutFrames
                 \/ ResendFrame \/ ReleaseFrame \/ UNCHANGED window
<1> USE DEF control, queues, sending, recving, history
<1> SUFFICES ASSUME [Next]_vars, ~Tick, ~HandleIncomingAck, ~HandleTimedoutFrames,
                    ~ResendFrame, ~ReleaseFrame
             PROVE  UNCHANGED window
  OBVIOUS
<1>1. CASE \/ StartTurn \/ ExitCommand \/ InputError \/ DataSent \/ FramesReceived
           \/ EndTurn \/ Terminated \/ AcceptMessage
  BY <1>1 DEF StartTurn, ExitCommand, BeginSenders, InputError, DataSent, FramesReceived,
              EndTurn, Terminated, AcceptMessage, vars
<1>2. CASE RunSender \/ HandleInputCmds \/ DropCorruptAck \/ OutgoingDone
  BY <1>2 DEF RunSender, HandleInputCmds, DropCorruptAck, OutgoingDone
<1>3. CASE SendDataFrame \/ DropCorruptFrame \/ PrintMessage \/ SendAckFrame
  BY <1>3 DEF SendDataFrame, DropCorruptFrame, PrintMessage, SendAckFrame
<1>4. CASE HandleIncomingFrame
  BY <1>4 DEF HandleIncomingFrame
<1>5. CASE UNCHANGED vars
  BY <1>5 DEF vars
<1> QED  BY <1>1, <1>2, <1>3, <1>4, <1>5 DEF Next, Turn

LEMMA ReceivedKept ==
  [Next]_vars => \/ PrintMessage \/ HandleIncomingFrame
                 \/ UNCHANGED <<recvWindow, lfr, recvMsg, handed, printed>>
<1> USE DEF control, queues, sending, recving, history
<1> SUFFICES ASSUME [Next]_vars, ~PrintMessage, ~HandleIncomingFrame
             PROVE  UNCHANGED <<recvWindow, lfr, recvMsg, handed, printed>>
  OBVIOUS
<1>1. CASE \/ StartTurn \/ ExitCommand \/ InputError \/ DataSent \/ FramesReceived
           \/ EndTurn \/ Terminated \/ Tick \/ AcceptMessage
  BY <1>1 DEF StartTurn, ExitCommand, BeginSenders, InputError, DataSent, FramesReceived,
              EndTurn, Terminated, Tick, AcceptMessage, vars
<1>2. CASE RunSender \/ HandleInputCmds \/ DropCorruptAck \/ HandleIncomingAck
  BY <1>2 DEF RunSender, HandleInputCmds, DropCorruptAck, HandleIncomingAck
<1>3. CASE HandleTimedoutFrames \/ ResendFrame \/ ReleaseFrame \/ OutgoingDone
  BY <1>3 DEF HandleTimedoutFrames, ResendFrame, ReleaseFrame, OutgoingDone
<1>4. CASE SendDataFrame \/ DropCorruptFrame \/ SendAckFrame
  BY <1>4 DEF SendDataFrame, DropCorruptFrame, SendAckFrame
<1>5. CASE UNCHANGED vars
  BY <1>5 DEF vars
<1> QED  BY <1>1, <1>2, <1>3, <1>4, <1>5 DEF Next, Turn

\* The frame handle_input_cmds buffers is a genuine one.
LEMMA NewFrame ==
  ASSUME TypeInv, CommandInv, HandleInputCmds
  PROVE  LET c == Head(cmds[cur])
             f == [kind |-> "data", src |-> cur, dst |-> c.dst,
                   seq |-> currSeq[cur][c.dst], rem |-> c.left - 1,
                   id |-> Len(submitted[cur][c.dst]) + 1]
         IN  /\ f \in DataFrom(cur)' /\ UNCHANGED cur
             /\ buffered' = [buffered EXCEPT ![cur] = Append(buffered[cur], f)]
<1> DEFINE c == Head(cmds[cur])
           n == Len(submitted[cur][c.dst])
           f == [kind |-> "data", src |-> cur, dst |-> c.dst, seq |-> currSeq[cur][c.dst],
                 rem |-> c.left - 1, id |-> n + 1]
<1>1. /\ cur \in Hosts /\ c \in Cmds /\ c.dst \in Hosts
      /\ c.last - c.left + 1 = n + 1
      /\ c.left - 1 = 0 <=> \E m \in DOMAIN sent[cur][c.dst] : sent[cur][c.dst][m] = n + 1
      /\ UNCHANGED sent
      /\ Len(submitted'[cur][c.dst]) = n + 1
  BY NewFragment
<1>2. buffered' = [buffered EXCEPT ![cur] = Append(buffered[cur],
                     [kind |-> "data", src |-> cur, dst |-> c.dst, seq |-> currSeq[cur][c.dst],
                      rem |-> c.left - 1, id |-> c.last - c.left + 1])]
  BY DEF HandleInputCmds
<1>3. submitted[cur][c.dst] \in Seq(SeqNums) /\ currSeq[cur][c.dst] \in SeqNums
  BY <1>1, HostTypes
<1>4. n \in Nat /\ c.left - 1 \in Nat
  BY <1>1, <1>3, LenProperties DEF Cmds
<1> HIDE DEF n
<1>5. n + 1 \in Nat /\ n + 1 \in 1 .. n + 1
  BY <1>4
<1>6. f \in Frames /\ f.kind = "data" /\ f.src = cur /\ f.dst = c.dst /\ f.rem = c.left - 1
      /\ f.id = n + 1
  BY <1>1, <1>3, <1>4, <1>5, FrameMade
<1> HIDE DEF f, c
<1>7. PICK g : g = f
  OBVIOUS
<1>10. Genuine(g)'
  BY <1>1, <1>5, <1>6, <1>7 DEF Genuine
<1>11. UNCHANGED cur
  BY DEF HandleInputCmds
<1>8. f \in DataFrom(cur)'
  BY <1>6, <1>7, <1>10, <1>11 DEF DataFrom
<1>9. buffered' = [buffered EXCEPT ![cur] = Append(buffered[cur], f)]
  BY <1>1, <1>2 DEF f
<1> QED  BY <1>8, <1>9, <1>11 DEF f, n, c

LEMMA NextBuffered ==
  TypeInv /\ CommandInv /\ BufferedInv /\ [Next]_vars => BufferedInv'
<1> SUFFICES ASSUME TypeInv, CommandInv, BufferedInv, [Next]_vars, NEW h \in Hosts
             PROVE  buffered'[h] \in Seq(DataFrom(h)')
  BY DEF BufferedInv
<1>1. buffered[h] \in Seq(DataFrom(h)')
  BY SetsKept DEF BufferedInv
<1>2. buffered \in [Hosts -> Seq(Frames)]
  BY DEF TypeInv, TypeOK
<1>3. CASE UNCHANGED buffered
  BY <1>1, <1>3
<1>4. CASE HandleInputCmds
  <2>1. PICK f \in DataFrom(cur)' :
           cur' = cur /\ buffered' = [buffered EXCEPT ![cur] = Append(buffered[cur], f)]
    BY <1>4, NewFrame
  <2>2. buffered'[h] = IF h = cur THEN Append(buffered[h], f) ELSE buffered[h]
    BY <1>2, <2>1
  <2>3. h = cur => Append(buffered[h], f) \in Seq(DataFrom(h)')
    <3>1. h = cur => f \in DataFrom(h)'
      BY <2>1 DEF DataFrom
    <3> QED  BY <1>1, <3>1
  <2> QED  BY <1>1, <2>2, <2>3
<1>5. CASE ReleaseFrame
  <2> DEFINE i == Min(Releasable)
  <2>1. i \in 1 .. Len(buffered[cur])
    BY <1>5, ReleaseTyped
  <2>2. buffered' = [buffered EXCEPT ![cur] = RemoveAt(buffered[cur], i)]
    BY <1>5 DEF ReleaseFrame
  <2> HIDE DEF i
  <2>3. buffered'[h] = IF h = cur THEN RemoveAt(buffered[h], i) ELSE buffered[h]
    BY <1>2, <2>2
  <2>4. h = cur => RemoveAt(buffered[h], i) \in Seq(DataFrom(h)')
    BY <1>1, <2>1, RemoveAtProperties
  <2> QED  BY <1>1, <2>3, <2>4
<1> QED  BY <1>3, <1>4, <1>5, BufferedKept

\* What each step does to the window of two hosts: it keeps, frees or adds
\* frames, and sets or clears timers.
SameFrames(slots, r) ==
  /\ Len(r) = Len(slots)
  /\ \A j \in 1 .. Len(slots) : r[j].frame = slots[j].frame

LEMMA TickPair ==
  ASSUME TypeInv, Tick, NEW h \in Hosts, NEW p \in Hosts,
         NEW F, window[h][p] \in Seq(Slots(F))
  PROVE  /\ window'[h][p] \in Seq(Slots(F)) /\ SameFrames(window[h][p], window'[h][p])
         /\ \A i \in 1 .. Len(window[h][p]) :
              window'[h][p][i].timeout = Countdown(window[h][p][i].timeout)
<1>1. window'[h][p] = [i \in DOMAIN window[h][p] |->
                         [window[h][p][i] EXCEPT !.timeout = Countdown(@)]]
  BY DEF Tick
<1> QED  BY <1>1, TickWindow DEF SameFrames

LEMMA AckPair ==
  ASSUME TypeInv, HandleIncomingAck, NEW h \in Hosts, NEW p \in Hosts,
         NEW F, window[h][p] \in Seq(Slots(F))
  PROVE  LET ack == Head(incoming[cur])
         IN  IF h = cur /\ p = ack.src
               THEN Freed(F, window[h][p], Acknowledged(window[h][p], ack.seq), window'[h][p])
             ELSE window'[h][p] = window[h][p]
<1> DEFINE ack   == Head(incoming[cur])
           d     == ack.src
           slots == window[cur][d]
           fast  == FastRetransmitOn(cc[cur][d], ack.seq)
           left  == IF fast /\ slots # << >>
                      THEN Dequeue(Rearmed(slots, SeqInc(ack.seq), latest[cur]), ack.seq)
                    ELSE Dequeue(slots, ack.seq)
<1>1. /\ cur \in Hosts /\ d \in Hosts /\ slots \in Seq(Slots(Frames))
  BY AckTyped
<1>2. window' = [window EXCEPT ![cur][d] = left]
  BY DEF HandleIncomingAck
<1>3. latest[cur] \in Nat
  BY <1>1, HostTypes
<1> HIDE DEF fast
<1>4. \A G : slots \in Seq(Slots(G)) => Freed(G, slots, Acknowledged(slots, ack.seq), left)
  <2> TAKE G
  <2> HAVE slots \in Seq(Slots(G))
  <2>1. \/ left = Dequeue(slots, ack.seq)
        \/ slots # << >> /\ left = Dequeue(Rearmed(slots, SeqInc(ack.seq), latest[cur]), ack.seq)
    OBVIOUS
  <2> HIDE DEF left, slots, ack
  <2> QED  BY <1>3, <2>1, AckWindow
<1>5. left \in Seq(Slots(Frames))
  BY <1>1, <1>4 DEF Freed
<1> HIDE DEF left
<1>6. /\ window'[cur][d] = left
      /\ \A a, b \in Hosts : a # cur \/ b # d => window'[a][b] = window[a][b]
  <2>1. window \in [Hosts -> [Hosts -> Seq(Slots(Frames))]]
    BY DEF TypeInv, TypeOK, Slots
  <2> HIDE DEF d
  <2> QED  BY <1>1, <1>2, <1>5, <2>1, TableUpdate
<1>7. CASE h = cur /\ p = d
  BY <1>4, <1>6, <1>7
<1>8. CASE ~(h = cur /\ p = d)
  BY <1>6, <1>8
<1> QED  BY <1>7, <1>8

LEMMA TimeoutPair ==
  ASSUME TypeInv, HandleTimedoutFrames, NEW h \in Hosts, NEW p \in Hosts,
         NEW F, window[h][p] \in Seq(Slots(F))
  PROVE  /\ phase = "timeouts" /\ cur \in Hosts
         /\ window'[h][p] \in Seq(Slots(F)) /\ SameFrames(window[h][p], window'[h][p])
         /\ h # cur \/ ~Expired(h, p) => window'[h][p] = window[h][p]
<1>1. phase = "timeouts" /\ cur \in Hosts
  BY DEF HandleTimedoutFrames, TypeInv, TypeOK, Senders, NoHost
<1>2. window'[h][p] = IF h = cur /\ Expired(cur, p)
                        THEN [i \in DOMAIN window[h][p] |->
                                [window[h][p][i] EXCEPT !.timeout = NoTimer]]
                      ELSE window[h][p]
  <2>1. window' = [window EXCEPT ![cur] = [d \in Hosts |->
                     IF Expired(cur, d)
                       THEN [i \in DOMAIN window[cur][d] |->
                               [window[cur][d][i] EXCEPT !.timeout = NoTimer]]
                     ELSE window[cur][d]]]
    BY DEF HandleTimedoutFrames
  <2>2. window \in [Hosts -> [Hosts -> Seq(Slots(Frames))]]
    BY DEF TypeInv, TypeOK, Slots
  <2> QED  BY <1>1, <2>1, <2>2
<1>3. CASE h = cur /\ Expired(cur, p)
  BY <1>1, <1>2, <1>3, StoppedWindow DEF SameFrames
<1>4. CASE ~(h = cur /\ Expired(cur, p))
  BY <1>1, <1>2, <1>4 DEF SameFrames
<1> QED  BY <1>3, <1>4

LEMMA ResendPair ==
  ASSUME TypeInv, ResendFrame, NEW h \in Hosts, NEW p \in Hosts,
         NEW F, window[h][p] \in Seq(Slots(F))
  PROVE  LET d   == Min(Resendable)
             seq == window[cur][d][Min(Idle(d))].frame.seq
         IN  IF h = cur /\ p = d
               THEN /\ window'[h][p] \in Seq(Slots(F))
                    /\ SameFrames(window[h][p], window'[h][p])
                    /\ RearmedSlot(window[h][p], seq) \in 1 .. Len(window[h][p])
                    /\ \A j \in 1 .. Len(window[h][p]) : window'[h][p][j].timeout =
                         IF j = RearmedSlot(window[h][p], seq) THEN latest[cur] + TIMEOUT
                         ELSE window[h][p][j].timeout
             ELSE window'[h][p] = window[h][p]
<1> DEFINE d     == Min(Resendable)
           slots == window[cur][d]
           seq   == slots[Min(Idle(d))].frame.seq
           left  == Rearmed(slots, seq, latest[cur])
<1>1. /\ cur \in Hosts /\ d \in Hosts
      /\ slots \in Seq(Slots(Frames)) /\ slots # << >> /\ latest[cur] \in Nat
  BY ResendTyped, HostTypes
<1>2. window' = [window EXCEPT ![cur][d] = left]
  BY DEF ResendFrame
<1> HIDE DEF d, seq
<1>3. left \in Seq(Slots(Frames))
  BY <1>1, RearmedFacts
<1>4. /\ window'[cur][d] = left
      /\ \A a, b \in Hosts : a # cur \/ b # d => window'[a][b] = window[a][b]
  <2>1. window \in [Hosts -> [Hosts -> Seq(Slots(Frames))]]
    BY DEF TypeInv, TypeOK, Slots
  <2> HIDE DEF left
  <2> QED  BY <1>1, <1>2, <1>3, <2>1, TableUpdate
<1>5. CASE h = cur /\ p = d
  <2>1. slots \in Seq(Slots(F)) /\ slots = window[h][p] /\ window'[h][p] = left
    BY <1>4, <1>5
  <2>2. /\ RearmedSlot(slots, seq) \in 1 .. Len(slots)
        /\ left \in Seq(Slots(F)) /\ Len(left) = Len(slots)
        /\ \A j \in 1 .. Len(slots) :
             /\ left[j].frame = slots[j].frame
             /\ left[j].timeout = IF j = RearmedSlot(slots, seq) THEN latest[cur] + TIMEOUT
                                  ELSE slots[j].timeout
    BY <1>1, <2>1, RearmedFacts
  <2> HIDE DEF left, slots
  <2>3. SameFrames(slots, left)
    BY <2>2 DEF SameFrames
  <2> QED  BY <1>5, <2>1, <2>2, <2>3 DEF slots, d, seq
<1>6. CASE ~(h = cur /\ p = d)
  BY <1>4, <1>6 DEF d
<1> QED  BY <1>5, <1>6 DEF d

LEMMA ReleasePair ==
  ASSUME TypeInv, ReleaseFrame, NEW h \in Hosts, NEW p \in Hosts,
         NEW F, window[h][p] \in Seq(Slots(F))
  PROVE  LET f == buffered[cur][Min(Releasable)]
         IN  IF h = cur /\ p = f.dst
               THEN window'[h][p] = Append(window[h][p],
                                           [frame |-> f, timeout |-> base + TIMEOUT])
             ELSE window'[h][p] = window[h][p]
<1> DEFINE f    == buffered[cur][Min(Releasable)]
           slot == [frame |-> f, timeout |-> base + TIMEOUT]
           left == Append(window[cur][f.dst], slot)
<1>1. cur \in Hosts /\ f \in Frames /\ f.dst \in Hosts
  BY ReleaseTyped
<1>2. window' = [window EXCEPT ![cur][f.dst] = left]
  BY DEF ReleaseFrame
<1>3. window[cur][f.dst] \in Seq(Slots(Frames)) /\ base \in Nat
  BY <1>1, HostTypes DEF TypeInv, TypeOK
<1>4. slot \in Slots(Frames)
  BY <1>1, <1>3, Constants, SMTT(40) DEF Slots, Timeouts
<1> HIDE DEF f, slot
<1>5. left \in Seq(Slots(Frames))
  BY <1>3, <1>4
<1>6. /\ window'[cur][f.dst] = left
      /\ \A a, b \in Hosts : a # cur \/ b # f.dst => window'[a][b] = window[a][b]
  <2> DEFINE S == Seq(Slots(Frames))
  <2>1. window \in [Hosts -> [Hosts -> S]]
    BY DEF TypeInv, TypeOK, Slots
  <2>2. PICK d \in Hosts : d = f.dst
    BY <1>1
  <2> HIDE DEF left, S
  <2>3. left \in S
    BY <1>5 DEF S
  <2>4. window' = [window EXCEPT ![cur][d] = left]
    BY <1>2, <2>2
  <2>5. /\ window'[cur][d] = left
        /\ \A a, b \in Hosts : a # cur \/ b # d => window'[a][b] = window[a][b]
    BY <1>1, <2>1, <2>3, <2>4, TableUpdate
  <2> QED  BY <2>2, <2>5
<1>7. CASE h = cur /\ p = f.dst
  BY <1>6, <1>7 DEF f, slot
<1>8. CASE ~(h = cur /\ p = f.dst)
  BY <1>6, <1>8 DEF f
<1> QED  BY <1>7, <1>8 DEF f

LEMMA NextWindows ==
  TypeInv /\ CommandInv /\ BufferedInv /\ WindowInv /\ [Next]_vars => WindowInv'
<1> SUFFICES ASSUME TypeInv, CommandInv, BufferedInv, WindowInv, [Next]_vars,
                    NEW h \in Hosts, NEW p \in Hosts
             PROVE  window'[h][p] \in Seq(Slots(Between(h, p)'))
  BY DEF WindowInv
<1> DEFINE F == Between(h, p)'
<1>1. window[h][p] \in Seq(Slots(F))
  BY SetsKept DEF WindowInv
<1> HIDE DEF F
<1>2. CASE UNCHANGED window
  BY <1>1, <1>2 DEF F
<1>3. CASE Tick
  BY <1>1, <1>3, TickPair DEF F
<1>4. CASE HandleIncomingAck
  BY <1>1, <1>4, AckPair DEF Freed, F
<1>5. CASE HandleTimedoutFrames
  BY <1>1, <1>5, TimeoutPair DEF F
<1>6. CASE ResendFrame
  BY <1>1, <1>6, ResendPair DEF F
<1>7. CASE ReleaseFrame
  <2> DEFINE i == Min(Releasable)
             f == buffered[cur][i]
  <2>1. /\ cur \in Hosts /\ i \in 1 .. Len(buffered[cur]) /\ base \in Nat
    BY <1>7, ReleaseTyped DEF TypeInv, TypeOK
  <2>2. buffered[cur] \in Seq(DataFrom(cur))
    BY <2>1 DEF BufferedInv
  <2> HIDE DEF i
  <2>3. f \in DataFrom(cur)
    BY <2>1, <2>2, ElementOfSeq
  <2>4. h = cur => f \in DataFrom(h)'
    BY <2>3, SetsKept
  <2> HIDE DEF f
  <2>5. h = cur /\ p = f.dst => f \in F
    BY <2>4 DEF F, Between
  <2>6. base + TIMEOUT \in Timeouts
    BY <2>1, Constants DEF Timeouts
  <2>7. h = cur /\ p = f.dst => [frame |-> f, timeout |-> base + TIMEOUT] \in Slots(F)
    BY <2>5, <2>6 DEF Slots
  <2>8. IF h = cur /\ p = f.dst
          THEN window'[h][p] = Append(window[h][p], [frame |-> f, timeout |-> base + TIMEOUT])
        ELSE window'[h][p] = window[h][p]
    BY <1>1, <1>7, ReleasePair DEF f, i
  <2>9. PICK x : x = [frame |-> f, timeout |-> base + TIMEOUT]
    OBVIOUS
  <2>10. PICK w : w = window'[h][p]
    OBVIOUS
  <2>11. w = window[h][p] \/ (w = Append(window[h][p], x) /\ x \in Slots(F))
    BY <2>7, <2>8, <2>9, <2>10
  <2>12. w \in Seq(Slots(F))
    BY <1>1, <2>11
  <2> QED  BY <2>10, <2>12 DEF F
<1> QED  BY <1>2, <1>3, <1>4, <1>5, <1>6, <1>7, WindowKept

\* A frame that handle_incoming_frames takes is a fragment for its host.
LEMMA ReceivedFrame ==
  ASSUME TypeInv, ReceivedInv, IncomingInv, phase = "receivers",
         NEW h \in Hosts, NEW slots, NEW run \in 0 .. W, Receives(h, slots, run)
  PROVE  LET f == Head(incoming[h])
         IN  /\ f \in Between(f.src, h)
             /\ slots \in [1 .. W -> Between(f.src, h) \cup {NoFrame}]
<1> DEFINE f == Head(incoming[h])
<1>1. /\ incoming[h] \in Seq(Frames) /\ incoming[h] # << >> /\ f \in Frames
      /\ f.src \in Hosts /\ f.kind # "corrupt"
      /\ \/ slots = recvWindow[h][f.src]
         \/ \E place \in 1 .. W : slots = [recvWindow[h][f.src] EXCEPT ![place] = f]
  BY DEF Receives
<1>2. incoming[h] \in Seq(DataFor(h))
  BY DEF IncomingInv, InData
<1>3. f \in DataFor(h)
  BY <1>1, <1>2, HeadTailProperties
<1>4. f \in Between(f.src, h)
  BY <1>1, <1>3 DEF DataFor, Between, DataFrom
<1>5. recvWindow[h][f.src] \in [1 .. W -> Between(f.src, h) \cup {NoFrame}]
  BY <1>1 DEF ReceivedInv
<1> HIDE DEF f
<1>6. slots \in [1 .. W -> Between(f.src, h) \cup {NoFrame}]
  BY <1>1, <1>4, <1>5
<1> QED  BY <1>4, <1>6 DEF f

\* What h has of the frames of p after the first run of the slots are handed over.
HandsOver(h, p, slots, run) ==
  /\ recvWindow'[h][p] = Moved(slots, run)
  /\ recvMsg'[h][p] = recvMsg[h][p] \o SubSeq(slots, 1, run)
  /\ handed'[h][p] = handed[h][p] \o [i \in 1 .. run |-> slots[i].id]
  /\ lfr'[h][p] = SeqAdd(lfr[h][p], run)

\* What one frame does to the receive windows of two hosts.
LEMMA ReceivePair ==
  ASSUME TypeInv, NEW g \in Hosts, NEW slots \in [1 .. W -> Frames \cup {NoFrame}],
         NEW run \in 0 .. W, Receives(g, slots, run), NEW h \in Hosts, NEW p \in Hosts
  PROVE  /\ h = g /\ p = Head(incoming[g]).src => HandsOver(h, p, slots, run)
         /\ ~(h = g /\ p = Head(incoming[g]).src) =>
              UNCHANGED <<recvWindow[h][p], recvMsg[h][p], handed[h][p], lfr[h][p]>>
<1> DEFINE d == Head(incoming[g]).src
           w == Moved(slots, run)
           m == recvMsg[g][d] \o SubSeq(slots, 1, run)
           k == handed[g][d] \o [i \in 1 .. run |-> slots[i].id]
<1>1. /\ d \in Hosts /\ \A i \in 1 .. run : slots[i] # NoFrame
      /\ recvWindow' = [recvWindow EXCEPT ![g][d] = w]
      /\ lfr' = [lfr EXCEPT ![g][d] = SeqAdd(lfr[g][d], run)]
      /\ recvMsg' = [recvMsg EXCEPT ![g][d] = m]
      /\ handed' = [handed EXCEPT ![g][d] = k]
  BY DEF Receives
<1> HIDE DEF d, w, m, k
<1>2. /\ recvWindow \in [Hosts -> [Hosts -> [1 .. W -> Frames \cup {NoFrame}]]]
      /\ recvMsg \in [Hosts -> [Hosts -> Seq(Frames)]]
      /\ handed \in [Hosts -> [Hosts -> Seq(Nat)]]
      /\ lfr \in [Hosts -> [Hosts -> SeqNums]]
  BY DEF TypeInv, TypeOK, HistoryOK
<1>3. /\ recvWindow'[g][d] = w /\ recvMsg'[g][d] = m /\ handed'[g][d] = k
      /\ lfr'[g][d] = SeqAdd(lfr[g][d], run)
  BY <1>1, <1>2
<1>4. \A a, b \in Hosts : a # g \/ b # d =>
        /\ recvWindow'[a][b] = recvWindow[a][b] /\ recvMsg'[a][b] = recvMsg[a][b]
        /\ handed'[a][b] = handed[a][b] /\ lfr'[a][b] = lfr[a][b]
  BY <1>1, <1>2
<1>5. CASE h = g /\ p = d
  BY <1>3, <1>5 DEF d, w, m, k, HandsOver
<1>6. CASE ~(h = g /\ p = d)
  BY <1>4, <1>6 DEF d
<1> QED  BY <1>5, <1>6 DEF d

\* A message that is printed leaves its list.
LEMMA PrintPair ==
  ASSUME TypeInv, PrintMessage
  PROVE  \E g, d \in Hosts :
           /\ Complete(recvMsg[g][d])
           /\ recvMsg'[g][d] = Remainder(recvMsg[g][d])
           /\ printed'[g][d] = Append(printed[g][d], Message(recvMsg[g][d]))
           /\ \A h, p \in Hosts : h # g \/ p # d =>
                recvMsg'[h][p] = recvMsg[h][p] /\ printed'[h][p] = printed[h][p]
           /\ UNCHANGED <<recvWindow, lfr, handed, sent, submitted>>
<1>1. PICK g \in Hosts, d \in Hosts :
        /\ Complete(recvMsg[g][d])
        /\ recvMsg' = [recvMsg EXCEPT ![g][d] = Remainder(recvMsg[g][d])]
        /\ printed' = [printed EXCEPT ![g][d] = Append(printed[g][d], Message(recvMsg[g][d]))]
  BY DEF PrintMessage
<1>2. /\ recvMsg \in [Hosts -> [Hosts -> Seq(Frames)]]
      /\ printed \in [Hosts -> [Hosts -> Seq(Seq(Nat))]]
  BY DEF TypeInv, TypeOK, HistoryOK
<1>3. UNCHANGED <<recvWindow, lfr, handed, sent, submitted>>
  BY DEF PrintMessage
<1> DEFINE x == Remainder(recvMsg[g][d])
           y == Append(printed[g][d], Message(recvMsg[g][d]))
<1>4. recvMsg' = [recvMsg EXCEPT ![g][d] = x] /\ printed' = [printed EXCEPT ![g][d] = y]
  BY <1>1
<1> HIDE DEF x, y
<1>5. recvMsg'[g][d] = x /\ printed'[g][d] = y
  BY <1>2, <1>4
<1>6. \A h, p \in Hosts : h # g \/ p # d =>
        recvMsg'[h][p] = recvMsg[h][p] /\ printed'[h][p] = printed[h][p]
  BY <1>2, <1>4
<1> QED  BY <1>1, <1>3, <1>5, <1>6 DEF x, y

LEMMA NextReceived ==
  TypeInv /\ CommandInv /\ ReceivedInv /\ IncomingInv /\ [Next]_vars => ReceivedInv'
<1> SUFFICES ASSUME TypeInv, CommandInv, ReceivedInv, IncomingInv, [Next]_vars,
                    NEW h \in Hosts, NEW p \in Hosts
             PROVE  /\ recvWindow'[h][p] \in [1 .. W -> Between(p, h)' \cup {NoFrame}]
                    /\ recvMsg'[h][p] \in Seq(Between(p, h)')
  BY DEF ReceivedInv
<1> DEFINE F == Between(p, h)'
<1>1. Between(p, h) \subseteq F /\ Seq(Between(p, h)) \subseteq Seq(F)
  BY SetsKept
<1>2. recvWindow[h][p] \in [1 .. W -> F \cup {NoFrame}] /\ recvMsg[h][p] \in Seq(F)
  BY <1>1 DEF ReceivedInv
<1> HIDE DEF F
<1>3. CASE UNCHANGED <<recvWindow, lfr, recvMsg, handed, printed>>
  BY <1>2, <1>3 DEF F
<1>4. CASE PrintMessage
  <2>1. PICK g \in Hosts, d \in Hosts :
           /\ Complete(recvMsg[g][d])
           /\ recvMsg'[g][d] = Remainder(recvMsg[g][d])
           /\ \A a, b \in Hosts : a # g \/ b # d => recvMsg'[a][b] = recvMsg[a][b]
           /\ UNCHANGED recvWindow
    BY <1>4, PrintPair
  <2>2. h = g /\ p = d => Remainder(recvMsg[h][p]) \in Seq(F)
    BY <1>2, <2>1, CompleteFacts
  <2> QED  BY <1>2, <2>1, <2>2 DEF F
<1>5. CASE HandleIncomingFrame
  <2>1. phase = "receivers"
    BY <1>5, FrameTyped
  <2>2. PICK g \in Hosts, slots \in [1 .. W -> Frames \cup {NoFrame}], run \in 0 .. W :
          Receives(g, slots, run)
    BY <1>5, FrameTyped
  <2> DEFINE d == Head(incoming[g]).src
  <2>3. slots \in [1 .. W -> Between(d, g) \cup {NoFrame}]
    BY <2>1, <2>2, ReceivedFrame
  <2>4. \A i \in 1 .. run : slots[i] # NoFrame
    BY <2>2 DEF Receives
  <2>5. IF h = g /\ p = d
          THEN /\ recvWindow'[h][p] = Moved(slots, run)
               /\ recvMsg'[h][p] = recvMsg[h][p] \o SubSeq(slots, 1, run)
        ELSE recvWindow'[h][p] = recvWindow[h][p] /\ recvMsg'[h][p] = recvMsg[h][p]
    <3>1. /\ h = g /\ p = d => HandsOver(h, p, slots, run)
          /\ ~(h = g /\ p = d) => recvWindow'[h][p] = recvWindow[h][p] /\ recvMsg'[h][p] = recvMsg[h][p]
      BY <2>2, ReceivePair
    <3> HIDE DEF d
    <3> QED  BY <3>1 DEF HandsOver
  <2> HIDE DEF d
  <2>6. CASE h = g /\ p = d
    <3>1. slots \in [1 .. W -> F \cup {NoFrame}]
      BY <1>1, <2>3, <2>6
    <3>2. Moved(slots, run) \in [1 .. W -> F \cup {NoFrame}]
      BY <3>1, Constants DEF Moved
    <3>3. SubSeq(slots, 1, run) \in Seq(F)
      BY <2>4, <3>1, FrontFrames
    <3>4. recvMsg[h][p] \o SubSeq(slots, 1, run) \in Seq(F)
      BY <1>2, <3>3
    <3> QED  BY <2>5, <2>6, <3>2, <3>4 DEF F
  <2>7. CASE ~(h = g /\ p = d)
    BY <1>2, <2>5, <2>7 DEF F
  <2> QED  BY <2>6, <2>7
<1> QED  BY <1>3, <1>4, <1>5, ReceivedKept

\* Queues that are not touched: the turn goes on to the other kind of frames
\* only when they are empty.
Drained(q) == \A h \in Hosts : q[h] = << >>

LEMMA OutgoingKept ==
  [Next]_vars => \/ HandleIncomingAck \/ ResendFrame \/ ReleaseFrame \/ SendDataFrame
                 \/ HandleIncomingFrame \/ SendAckFrame
                 \/ /\ UNCHANGED outgoing
                    /\ phase' \in OutData => phase \in OutData \/ Drained(outgoing)
                    /\ phase' \in OutAcks => phase \in OutAcks \/ Drained(outgoing)
<1> USE DEF control, queues, sending, recving, history, OutData, OutAcks, Before, Senders
<1> SUFFICES ASSUME [Next]_vars, ~HandleIncomingAck, ~ResendFrame, ~ReleaseFrame,
                    ~SendDataFrame, ~HandleIncomingFrame, ~SendAckFrame
             PROVE  /\ UNCHANGED outgoing
                    /\ phase' \in OutData => phase \in OutData \/ Drained(outgoing)
                    /\ phase' \in OutAcks => phase \in OutAcks \/ Drained(outgoing)
  OBVIOUS
<1>1. CASE StartTurn \/ ExitCommand \/ InputError \/ Tick \/ AcceptMessage
  BY <1>1 DEF StartTurn, ExitCommand, BeginSenders, InputError, Tick, AcceptMessage
<1>2. CASE DataSent \/ FramesReceived \/ EndTurn
  BY <1>2 DEF DataSent, FramesReceived, EndTurn, Pending, Drained
<1>3. CASE RunSender \/ OutgoingDone
  BY <1>3 DEF RunSender, OutgoingDone, SenderDone, AcksOrTimeouts
<1>4. CASE HandleInputCmds \/ DropCorruptAck \/ HandleTimedoutFrames
  BY <1>4 DEF HandleInputCmds, DropCorruptAck, HandleTimedoutFrames, AcksOrTimeouts
<1>5. CASE DropCorruptFrame \/ PrintMessage
  BY <1>5 DEF DropCorruptFrame, PrintMessage
<1>6. CASE Terminated \/ UNCHANGED vars
  BY <1>6 DEF Terminated, vars
<1> QED  BY <1>1, <1>2, <1>3, <1>4, <1>5, <1>6 DEF Next, Turn

LEMMA IncomingKept ==
  TypeInv /\ [Next]_vars =>
    \/ DropCorruptAck \/ HandleIncomingAck \/ SendDataFrame
    \/ DropCorruptFrame \/ HandleIncomingFrame \/ SendAckFrame
    \/ /\ UNCHANGED incoming
       /\ phase' \in InAcks => phase \in InAcks \/ Drained(incoming)
       /\ phase' \in InData => phase \in InData \/ Drained(incoming)
<1> USE DEF control, queues, sending, recving, history, InAcks, InData, Before, Senders
<1> SUFFICES ASSUME TypeInv, [Next]_vars, ~DropCorruptAck, ~HandleIncomingAck, ~SendDataFrame,
                    ~DropCorruptFrame, ~HandleIncomingFrame, ~SendAckFrame
             PROVE  /\ UNCHANGED incoming
                    /\ phase' \in InAcks => phase \in InAcks \/ Drained(incoming)
                    /\ phase' \in InData => phase \in InData \/ Drained(incoming)
  OBVIOUS
<1>1. CASE StartTurn \/ ExitCommand \/ InputError \/ Tick \/ AcceptMessage
  BY <1>1 DEF StartTurn, ExitCommand, BeginSenders, InputError, Tick, AcceptMessage
<1>2. CASE DataSent \/ FramesReceived \/ EndTurn
  BY <1>2 DEF DataSent, FramesReceived, EndTurn, Pending, Drained
<1>3. ASSUME NEW h \in todo, incoming[h] = << >>, SenderDone(h), UNCHANGED incoming,
             phase \in {"senders", "outgoing"}
      PROVE  /\ phase' \in {"senders", "data"}
             /\ phase' = "data" => Drained(incoming)
  <2>1. \A g \in Hosts \ todo : incoming[g] = << >>
    BY <1>3 DEF TypeInv, TurnInv
  <2>2. phase' = "data" => todo \ {h} = {}
    BY <1>3 DEF SenderDone
  <2>3. phase' \in {"senders", "data"}
    BY <1>3 DEF SenderDone
  <2> QED  BY <1>3, <2>1, <2>2, <2>3 DEF Drained
<1>4. CASE RunSender
  <2>1. PICK h \in todo :
          \/ /\ phase' \in {"cmds", "acks", "timeouts"} /\ UNCHANGED incoming
          \/ /\ ~Wakes(h) /\ UNCHANGED incoming /\ SenderDone(h)
    BY <1>4 DEF RunSender, AcksOrTimeouts
  <2>2. phase = "senders"
    BY <1>4 DEF RunSender
  <2> QED  BY <1>3, <2>1, <2>2 DEF Wakes
<1>5. CASE OutgoingDone
  <2>1. phase = "outgoing" /\ UNCHANGED incoming /\ SenderDone(cur)
    BY <1>5 DEF OutgoingDone
  <2>2. cur \in todo /\ incoming[cur] = << >>
    BY <2>1 DEF TypeInv, TurnInv
  <2> QED  BY <1>3, <2>1, <2>2
<1>6. CASE HandleInputCmds \/ HandleTimedoutFrames \/ ResendFrame \/ ReleaseFrame
  BY <1>6 DEF HandleInputCmds, HandleTimedoutFrames, ResendFrame, ReleaseFrame, AcksOrTimeouts
<1>7. CASE PrintMessage
  BY <1>7 DEF PrintMessage
<1>8. CASE Terminated \/ UNCHANGED vars
  BY <1>8 DEF Terminated, vars
<1> QED  BY <1>1, <1>2, <1>4, <1>5, <1>6, <1>7, <1>8 DEF Next, Turn

\* What the sending side appends to a queue of outgoing frames.
LEMMA OutgoingAppended ==
  ASSUME TypeInv, NEW h \in Hosts, NEW new \in Seq(Frames),
         outgoing' = [outgoing EXCEPT ![h] = outgoing[h] \o new]
  PROVE  \A g \in Hosts : outgoing'[g] = IF g = h THEN outgoing[g] \o new ELSE outgoing[g]
  BY DEF TypeInv, TypeOK

\* The frames retransmit_frame copies belong to the host.
LEMMA CopyFrom ==
  ASSUME TypeInv, WindowInv, NEW h \in Hosts, NEW p \in Hosts, NEW seq
  PROVE  Copy(window[h][p], seq) \in Seq(DataFrom(h))
<1> DEFINE c == Copy(window[h][p], seq)
<1>1. window[h][p] \in Seq(Slots(Between(h, p)))
  BY DEF WindowInv
<1>2. c = << >> \/ \E x \in Between(h, p) : c = <<x>>
  BY <1>1, CopyFacts
<1>3. Between(h, p) \subseteq DataFrom(h)
  BY DEF Between
<1> HIDE DEF c
<1>4. \A x \in DataFrom(h) : <<x>> \in Seq(DataFrom(h))
  OBVIOUS
<1> QED  BY <1>2, <1>3, <1>4, EmptySeq DEF c

LEMMA NextOutgoing ==
  TypeInv /\ CommandInv /\ QueueInv /\ [Next]_vars => OutgoingInv'
<1> SUFFICES ASSUME TypeInv, CommandInv, QueueInv, [Next]_vars PROVE OutgoingInv'
  OBVIOUS
<1> USE DEF QueueInv
<1>1. \A h \in Hosts : /\ Seq(DataFrom(h)) \subseteq Seq(DataFrom(h)')
                      /\ AcksFrom(h)' = AcksFrom(h)
  BY SetsKept DEF AcksFrom
<1>2. outgoing \in [Hosts -> Seq(Frames)]
  BY DEF TypeInv, TypeOK
<1>3. CASE /\ UNCHANGED outgoing
           /\ phase' \in OutData => phase \in OutData \/ Drained(outgoing)
           /\ phase' \in OutAcks => phase \in OutAcks \/ Drained(outgoing)
  <2>1. ASSUME phase' \in OutData, NEW h \in Hosts PROVE outgoing[h] \in Seq(DataFrom(h)')
    BY <1>1, <1>3, <2>1, EmptySeq DEF OutgoingInv, Drained
  <2>2. ASSUME phase' \in OutAcks, NEW h \in Hosts PROVE outgoing[h] \in Seq(AcksFrom(h))
    BY <1>1, <1>3, <2>2, EmptySeq DEF OutgoingInv, Drained
  <2> QED  BY <1>1, <1>3, <2>1, <2>2 DEF OutgoingInv
\* Data frames are appended.
<1>4. ASSUME phase \in OutData, phase' \notin OutAcks,
             NEW h \in Hosts, NEW new \in Seq(DataFrom(h)), new \in Seq(Frames),
             outgoing' = [outgoing EXCEPT ![h] = outgoing[h] \o new]
      PROVE  OutgoingInv'
  <2>1. \A g \in Hosts : outgoing'[g] = IF g = h THEN outgoing[g] \o new ELSE outgoing[g]
    BY <1>4, OutgoingAppended
  <2>2. outgoing[h] \o new \in Seq(DataFrom(h))
    BY <1>4, ConcatProperties DEF OutgoingInv
  <2>3. \A g \in Hosts : outgoing'[g] \in Seq(DataFrom(g)')
    BY <1>1, <1>4, <2>1, <2>2 DEF OutgoingInv
  <2> QED  BY <1>4, <2>3 DEF OutgoingInv
<1>5. CASE HandleIncomingAck
  <2> DEFINE p   == Head(incoming[cur]).src
             seq == SeqInc(Head(incoming[cur]).seq)
  <2>1. phase = "acks" /\ cur \in Hosts /\ p \in Hosts
    BY <1>5, AckTyped
  <2>2. phase' \in {"acks", "timeouts", "crashed"}
    BY <1>5 DEF HandleIncomingAck, AcksOrTimeouts
  <2>3. \/ outgoing' = outgoing
        \/ outgoing' = [outgoing EXCEPT ![cur] = outgoing[cur] \o Copy(window[cur][p], seq)]
    BY <1>5 DEF HandleIncomingAck
  <2>4. Copy(window[cur][p], seq) \in Seq(DataFrom(cur))
    BY <2>1, CopyFrom
  <2>5. Copy(window[cur][p], seq) \in Seq(Frames)
    BY <2>4, SeqMonotonic DEF DataFrom
  <2>6. phase \in OutData /\ phase' \notin OutAcks
    BY <2>1, <2>2 DEF OutData, OutAcks, Before, Senders
  <2> HIDE DEF p, seq
  <2>7. CASE outgoing' = outgoing
    BY <1>3, <2>6, <2>7
  <2>8. CASE outgoing' = [outgoing EXCEPT ![cur] = outgoing[cur] \o Copy(window[cur][p], seq)]
    BY <1>4, <2>1, <2>4, <2>5, <2>6, <2>8
  <2> QED  BY <2>3, <2>7, <2>8
<1>6. CASE ResendFrame
  <2> DEFINE p   == Min(Resendable)
             seq == window[cur][p][Min(Idle(p))].frame.seq
  <2>1. phase = "outgoing" /\ cur \in Hosts /\ p \in Hosts
    BY <1>6, ResendTyped
  <2>2. /\ UNCHANGED phase
        /\ outgoing' = [outgoing EXCEPT ![cur] = outgoing[cur] \o Copy(window[cur][p], seq)]
    BY <1>6 DEF ResendFrame, control
  <2>3. Copy(window[cur][p], seq) \in Seq(DataFrom(cur))
    BY <2>1, CopyFrom
  <2>4. Copy(window[cur][p], seq) \in Seq(Frames)
    BY <2>3, SeqMonotonic DEF DataFrom
  <2>5. phase \in OutData /\ phase' \notin OutAcks
    BY <2>1, <2>2 DEF OutData, OutAcks, Before, Senders
  <2> HIDE DEF p, seq
  <2> QED  BY <1>4, <2>1, <2>2, <2>3, <2>4, <2>5
<1>7. CASE ReleaseFrame
  <2> DEFINE i == Min(Releasable)
             f == buffered[cur][i]
  <2>1. /\ phase = "outgoing" /\ cur \in Hosts /\ i \in 1 .. Len(buffered[cur])
        /\ f \in Frames
    BY <1>7, ReleaseTyped
  <2>2. /\ UNCHANGED phase
        /\ outgoing' = [outgoing EXCEPT ![cur] = Append(outgoing[cur], f)]
    BY <1>7 DEF ReleaseFrame, control
  <2>3. f \in DataFrom(cur)
    BY <2>1, ElementOfSeq DEF BufferedInv
  <2> HIDE DEF f, i
  <2>4. <<f>> \in Seq(DataFrom(cur)) /\ <<f>> \in Seq(Frames)
    BY <2>1, <2>3
  <2>5. Append(outgoing[cur], f) = outgoing[cur] \o <<f>>
    BY <1>2, <2>1, AppendIsConcat
  <2>6. phase \in OutData /\ phase' \notin OutAcks
    BY <2>1, <2>2 DEF OutData, OutAcks, Before, Senders
  <2> QED  BY <1>4, <2>1, <2>2, <2>4, <2>5, <2>6
<1>8. CASE SendDataFrame
  <2>1. PICK h \in Hosts : /\ outgoing[h] # << >> /\ phase' \in {"data", "aborted"}
                           /\ outgoing' = [outgoing EXCEPT ![h] = Tail(outgoing[h])]
    BY <1>8, SendDataTyped
  <2>2. phase = "data"
    BY <1>8, SendDataTyped
  <2>3. \A g \in Hosts : outgoing[g] \in Seq(DataFrom(g)')
    BY <1>1, <2>2 DEF OutgoingInv, OutData
  <2>4. Tail(outgoing[h]) \in Seq(DataFrom(h)')
    BY <2>1, <2>3, HeadTailProperties
  <2>5. \A g \in Hosts : outgoing'[g] \in Seq(DataFrom(g)')
    BY <1>2, <2>1, <2>3, <2>4
  <2>6. phase' \notin OutAcks
    BY <2>1 DEF OutAcks
  <2> QED  BY <2>5, <2>6 DEF OutgoingInv
<1>9. CASE HandleIncomingFrame
  <2>1. phase = "receivers" /\ UNCHANGED phase
    BY <1>9 DEF HandleIncomingFrame, control
  <2>2. PICK h \in Hosts, slots \in [1 .. W -> Frames \cup {NoFrame}], run \in 0 .. W :
          Receives(h, slots, run)
    BY <1>9, FrameTyped
  <2> DEFINE p   == Head(incoming[h]).src
             ack == [kind |-> "ack", src |-> h, dst |-> p, seq |-> SeqAdd(lfr[h][p], run),
                     rem |-> 0, id |-> Len(handed[h][p]) + run]
  <2>3. ack \in Frames /\ outgoing' = [outgoing EXCEPT ![h] = Append(outgoing[h], ack)]
    BY <2>2 DEF Receives
  <2>4. ack \in AcksFrom(h)
    BY <2>3 DEF AcksFrom
  <2> HIDE DEF ack
  <2>5. outgoing[h] \in Seq(AcksFrom(h))
    BY <2>1 DEF OutgoingInv, OutAcks
  <2>6. Append(outgoing[h], ack) \in Seq(AcksFrom(h))
    BY <2>4, <2>5
  <2>7. \A g \in Hosts : outgoing'[g] \in Seq(AcksFrom(g))
    BY <1>2, <2>1, <2>3, <2>6 DEF OutgoingInv, OutAcks
  <2>8. phase' \notin OutData
    BY <2>1 DEF OutData, Before, Senders
  <2> QED  BY <1>1, <2>7, <2>8 DEF OutgoingInv
<1>10. CASE SendAckFrame
  <2> DEFINE h == Min(Pending(outgoing))
  <2>1. /\ phase = "sendacks" /\ UNCHANGED phase /\ h \in Hosts /\ outgoing[h] # << >>
        /\ outgoing' = [outgoing EXCEPT ![h] = Tail(outgoing[h])]
    BY <1>10, SendAckTyped DEF SendAckFrame
  <2> HIDE DEF h
  <2>2. \A g \in Hosts : outgoing[g] \in Seq(AcksFrom(g))
    BY <2>1 DEF OutgoingInv, OutAcks
  <2>3. Tail(outgoing[h]) \in Seq(AcksFrom(h))
    BY <2>1, <2>2, HeadTailProperties
  <2>4. \A g \in Hosts : outgoing'[g] \in Seq(AcksFrom(g))
    BY <1>2, <2>1, <2>2, <2>3
  <2>5. phase' \notin OutData
    BY <2>1 DEF OutData, Before, Senders
  <2> QED  BY <1>1, <2>4, <2>5 DEF OutgoingInv
<1> QED  BY <1>3, <1>5, <1>6, <1>7, <1>8, <1>9, <1>10, OutgoingKept

\* The first frame of a queue is taken.
LEMMA IncomingTaken ==
  ASSUME TypeInv, NEW h \in Hosts, incoming[h] # << >>,
         incoming' = [incoming EXCEPT ![h] = Tail(incoming[h])],
         NEW g \in Hosts, NEW F, incoming[g] \in Seq(F)
  PROVE  incoming'[g] \in Seq(F)
<1>1. incoming'[g] = IF g = h THEN Tail(incoming[g]) ELSE incoming[g]
  BY DEF TypeInv, TypeOK
<1>2. g = h => Tail(incoming[g]) \in Seq(F)
  BY HeadTailProperties
<1> QED  BY <1>1, <1>2

LEMMA NextIncoming ==
  TypeInv /\ CommandInv /\ QueueInv /\ [Next]_vars => IncomingInv'
<1> SUFFICES ASSUME TypeInv, CommandInv, QueueInv, [Next]_vars PROVE IncomingInv'
  OBVIOUS
<1> USE DEF QueueInv
<1>1. \A h \in Hosts : /\ Seq(DataFor(h)) \subseteq Seq(DataFor(h)')
                      /\ DataFor(h) \subseteq DataFor(h)'
                      /\ AcksFor(h)' = AcksFor(h)
  BY SetsKept DEF AcksFor
<1>2. incoming \in [Hosts -> Seq(Frames)]
  BY DEF TypeInv, TypeOK
<1>3. CASE /\ UNCHANGED incoming
           /\ phase' \in InAcks => phase \in InAcks \/ Drained(incoming)
           /\ phase' \in InData => phase \in InData \/ Drained(incoming)
  <2>1. ASSUME phase' \in InData, NEW h \in Hosts PROVE incoming[h] \in Seq(DataFor(h)')
    BY <1>1, <1>3, <2>1, EmptySeq DEF IncomingInv, Drained
  <2>2. ASSUME phase' \in InAcks, NEW h \in Hosts PROVE incoming[h] \in Seq(AcksFor(h))
    BY <1>1, <1>3, <2>2, EmptySeq DEF IncomingInv, Drained
  <2> QED  BY <1>1, <1>3, <2>1, <2>2 DEF IncomingInv
<1>4. CASE DropCorruptAck \/ HandleIncomingAck
  <2>1. /\ phase = "acks" /\ cur \in Hosts /\ incoming[cur] # << >>
        /\ incoming' = [incoming EXCEPT ![cur] = Tail(incoming[cur])]
        /\ phase' \in {"acks", "timeouts", "crashed"}
    <3>1. phase = "acks"
      BY <1>4 DEF DropCorruptAck, HandleIncomingAck
    <3>2. cur \in Hosts /\ incoming[cur] # << >>
      BY <3>1 DEF TypeInv, TypeOK, TurnInv, Senders, NoHost
    <3>3. /\ incoming' = [incoming EXCEPT ![cur] = Tail(incoming[cur])]
          /\ phase' \in {"acks", "timeouts", "crashed"}
      BY <1>4 DEF DropCorruptAck, HandleIncomingAck, AcksOrTimeouts
    <3> QED  BY <3>1, <3>2, <3>3
  <2>2. \A g \in Hosts : incoming'[g] \in Seq(AcksFor(g))
    BY <2>1, IncomingTaken DEF IncomingInv, InAcks, Before, Senders
  <2>3. phase' \notin InData
    BY <2>1 DEF InData
  <2> QED  BY <1>1, <2>2, <2>3 DEF IncomingInv
<1>5. CASE DropCorruptFrame \/ HandleIncomingFrame
  <2>1. PICK h \in Hosts : /\ incoming[h] # << >>
                           /\ incoming' = [incoming EXCEPT ![h] = Tail(incoming[h])]
    <3>1. CASE DropCorruptFrame
      BY <3>1 DEF DropCorruptFrame, Pending
    <3>2. CASE HandleIncomingFrame
      <4>1. PICK h \in Hosts, slots \in [1 .. W -> Frames \cup {NoFrame}], run \in 0 .. W :
              Receives(h, slots, run)
        BY <3>2, FrameTyped
      <4>2. incoming[h] # << >> /\ incoming' = [incoming EXCEPT ![h] = Tail(incoming[h])]
        BY <4>1 DEF Receives
      <4> QED  BY <4>1, <4>2
    <3> QED  BY <1>5, <3>1, <3>2
  <2>2. phase = "receivers" /\ UNCHANGED phase
    BY <1>5 DEF DropCorruptFrame, HandleIncomingFrame, control
  <2>3. \A g \in Hosts : incoming[g] \in Seq(DataFor(g)')
    BY <1>1, <2>2 DEF IncomingInv, InData
  <2>4. \A g \in Hosts : incoming'[g] \in Seq(DataFor(g)')
    BY <2>1, <2>3, IncomingTaken
  <2>5. phase' \notin InAcks
    BY <2>2 DEF InAcks, Before, Senders
  <2> QED  BY <2>4, <2>5 DEF IncomingInv
<1>6. CASE SendDataFrame
  <2>1. phase = "data"
    BY <1>6, SendDataTyped
  <2>2. PICK h \in Hosts :
          LET f == Head(outgoing[h])
          IN  /\ outgoing[h] \in Seq(Frames) /\ outgoing[h] # << >> /\ f \in Frames
              /\ \/ phase' = "aborted"
                 \/ UNCHANGED <<phase, incoming>>
                 \/ SendFrame(f) /\ UNCHANGED phase
    BY <1>6, SendDataTyped
  <2> DEFINE f == Head(outgoing[h])
  <2>3. f \in DataFrom(h)
    BY <2>1, <2>2, HeadTailProperties DEF OutgoingInv, OutData
  <2>4. \A g \in Hosts : incoming[g] \in Seq(DataFor(g)')
    BY <1>1, <2>1 DEF IncomingInv, InData
  <2> HIDE DEF f
  <2>5. f.dst \in Hosts /\ f \in DataFor(f.dst) /\ Corrupt \in DataFor(f.dst)
    BY <2>3, CorruptFrame DEF DataFrom, DataFor, Frames
  <2>6. ASSUME SendFrame(f) PROVE \A g \in Hosts : incoming'[g] \in Seq(DataFor(g)')
    <3>1. PICK x \in {f, Corrupt} :
            incoming' = [incoming EXCEPT ![f.dst] = Append(incoming[f.dst], x)]
      BY <2>2, <2>6, SendFrameTypes DEF f
    <3>2. PICK d \in Hosts : d = f.dst
      BY <2>5
    <3>3. x \in DataFor(d)'
      <4>1. x \in DataFor(d)
        BY <2>5, <3>1, <3>2
      <4> QED  BY <4>1, SetsKept
    <3>4. Append(incoming[d], x) \in Seq(DataFor(d)')
      BY <2>4, <3>3
    <3>5. incoming' = [incoming EXCEPT ![d] = Append(incoming[d], x)]
      BY <3>1, <3>2
    <3> QED  BY <1>2, <2>4, <3>4, <3>5
  <2>7. phase' \in {"aborted", "data"}
    BY <2>1, <2>2
  <2>8. phase' = "data" => \A g \in Hosts : incoming'[g] \in Seq(DataFor(g)')
    BY <2>2, <2>4, <2>6 DEF f
  <2> QED  BY <2>7, <2>8 DEF IncomingInv, InAcks, InData, Before, Senders
<1>7. CASE SendAckFrame
  <2> DEFINE h == Min(Pending(outgoing))
             f == Head(outgoing[h])
  <2>1. /\ phase = "sendacks" /\ UNCHANGED phase /\ h \in Hosts /\ outgoing[h] # << >>
        /\ f \in Frames /\ f.dst \in Hosts /\ SendFrame(f)
    BY <1>7, SendAckTyped DEF SendAckFrame
  <2> HIDE DEF h
  <2>2. f \in AcksFrom(h)
    BY <2>1, HeadTailProperties DEF OutgoingInv, OutAcks
  <2> HIDE DEF f
  <2>3. f \in AcksFor(f.dst) /\ Corrupt \in AcksFor(f.dst)
    BY <2>1, <2>2, CorruptFrame DEF AcksFrom, AcksFor
  <2>4. \A g \in Hosts : incoming[g] \in Seq(AcksFor(g))
    BY <2>1 DEF IncomingInv, InAcks
  <2>5. PICK x \in {f, Corrupt} :
          incoming' = [incoming EXCEPT ![f.dst] = Append(incoming[f.dst], x)]
    BY <2>1, SendFrameTypes
  <2>6. Append(incoming[f.dst], x) \in Seq(AcksFor(f.dst))
    BY <2>1, <2>3, <2>4, <2>5
  <2>7. \A g \in Hosts : incoming'[g] \in Seq(AcksFor(g))
    BY <1>2, <2>1, <2>4, <2>5, <2>6
  <2>8. phase' \notin InData
    BY <2>1 DEF InData
  <2> QED  BY <1>1, <2>7, <2>8 DEF IncomingInv
<1> QED  BY <1>3, <1>4, <1>5, <1>6, <1>7, IncomingKept

LEMMA NextQueues == TypeInv /\ CommandInv /\ QueueInv /\ [Next]_vars => QueueInv'
  BY NextBuffered, NextWindows, NextReceived, NextOutgoing, NextIncoming DEF QueueInv

\* The invariant of the queues: types, commands and the contents of the queues.
FlowInv == TypeInv /\ CommandInv /\ QueueInv

LEMMA FlowInvariance == Spec => []FlowInv
<1>1. Init => FlowInv
  BY InitTypes, InitCommands, InitQueues DEF FlowInv
<1>2. FlowInv /\ [Next]_vars => FlowInv'
  BY NextTypes, NextCommandInv, NextQueues DEF FlowInv
<1> QED  BY <1>1, <1>2, PTL DEF Spec

\* Data frames and acknowledgements never share a queue: handle_incoming_frames,
\* which never looks at is_ack, gets fragments only, and handle_incoming_acks,
\* which skips data frames, acknowledgements only.
THEOREM KindsSeparate == Spec => []PhasesSeparate
<1>1. FlowInv => PhasesSeparate
  <2> SUFFICES ASSUME FlowInv PROVE PhasesSeparate
    OBVIOUS
  <2> USE DEF FlowInv, QueueInv, Before, Senders, OutData, OutAcks, InData, InAcks
  <2>1. ASSUME NEW q, NEW F, NEW k, \A h \in Hosts : q[h] \in Seq(F), \A f \in F : f.kind # k
        PROVE  k \notin UNION {{q[h][i].kind : i \in DOMAIN q[h]} : h \in Hosts}
    BY <2>1, LenProperties, ElementOfSeq
  <2> DEFINE Kinds(q) == UNION {{q[h][i].kind : i \in DOMAIN q[h]} : h \in Hosts}
             NoData   == {f \in Frames : f.kind # "data"}
             NoAck    == {f \in Frames : f.kind # "ack"}
  <2>2. \A h \in Hosts : /\ Seq(DataFrom(h)) \subseteq Seq(NoAck)
                        /\ Seq(DataFor(h)) \subseteq Seq(NoAck)
                        /\ Seq(AcksFrom(h)) \subseteq Seq(NoData)
                        /\ Seq(AcksFor(h)) \subseteq Seq(NoData)
    <3> TAKE h \in Hosts
    <3>1. /\ DataFrom(h) \subseteq NoAck /\ DataFor(h) \subseteq NoAck
          /\ AcksFrom(h) \subseteq NoData /\ AcksFor(h) \subseteq NoData
      BY DEF DataFrom, DataFor, AcksFrom, AcksFor
    <3> QED  BY <3>1, SeqMonotonic
  <2>3. /\ \A f \in NoData : f.kind # "data"
        /\ \A f \in NoAck : f.kind # "ack"
    OBVIOUS
  <2> HIDE DEF Kinds, NoData, NoAck
  <2>4. phase \in Before => "data" \notin Kinds(incoming)
    <3> SUFFICES ASSUME phase \in Before PROVE "data" \notin Kinds(incoming)
      OBVIOUS
    <3>1. \A h \in Hosts : incoming[h] \in Seq(NoData)
      BY <2>2 DEF IncomingInv
    <3> QED  BY <2>1, <2>3, <3>1 DEF Kinds
  <2>5. phase \in {"data", "receivers"} => "ack" \notin Kinds(incoming)
    <3> SUFFICES ASSUME phase \in {"data", "receivers"} PROVE "ack" \notin Kinds(incoming)
      OBVIOUS
    <3>1. \A h \in Hosts : incoming[h] \in Seq(NoAck)
      BY <2>2 DEF IncomingInv
    <3> QED  BY <2>1, <2>3, <3>1 DEF Kinds
  <2>6. phase \in Before \cup {"data"} => "ack" \notin Kinds(outgoing)
    <3> SUFFICES ASSUME phase \in Before \cup {"data"} PROVE "ack" \notin Kinds(outgoing)
      OBVIOUS
    <3>1. \A h \in Hosts : outgoing[h] \in Seq(NoAck)
      BY <2>2 DEF OutgoingInv
    <3> QED  BY <2>1, <2>3, <3>1 DEF Kinds
  <2>7. phase \in {"receivers", "sendacks"} => "data" \notin Kinds(outgoing)
    <3> SUFFICES ASSUME phase \in {"receivers", "sendacks"} PROVE "data" \notin Kinds(outgoing)
      OBVIOUS
    <3>1. \A h \in Hosts : outgoing[h] \in Seq(NoData)
      BY <2>2 DEF OutgoingInv
    <3> QED  BY <2>1, <2>3, <3>1 DEF Kinds
  <2> QED  BY <2>4, <2>5, <2>6, <2>7 DEF PhasesSeparate, Kinds
<1> QED  BY <1>1, FlowInvariance, PTL

------------------------------------------------------------------------------
\* Who changes the congestion control.
LEMMA CongestionKept ==
  [Next]_vars => HandleIncomingAck \/ HandleTimedoutFrames \/ UNCHANGED cc
<1> USE DEF control, queues, sending, recving, history
<1> SUFFICES ASSUME [Next]_vars, ~HandleIncomingAck, ~HandleTimedoutFrames
             PROVE  UNCHANGED cc
  OBVIOUS
<1>1. CASE \/ StartTurn \/ ExitCommand \/ InputError \/ DataSent \/ FramesReceived
           \/ EndTurn \/ Terminated \/ Tick \/ AcceptMessage
  BY <1>1 DEF StartTurn, ExitCommand, BeginSenders, InputError, DataSent, FramesReceived,
              EndTurn, Terminated, Tick, AcceptMessage, vars
<1>2. CASE RunSender \/ HandleInputCmds \/ DropCorruptAck
  BY <1>2 DEF RunSender, HandleInputCmds, DropCorruptAck
<1>3. CASE ResendFrame \/ ReleaseFrame \/ OutgoingDone
  BY <1>3 DEF ResendFrame, ReleaseFrame, OutgoingDone
<1>4. CASE SendDataFrame \/ DropCorruptFrame \/ PrintMessage \/ SendAckFrame
  BY <1>4 DEF SendDataFrame, DropCorruptFrame, PrintMessage, SendAckFrame
<1>5. CASE HandleIncomingFrame
  BY <1>5 DEF HandleIncomingFrame
<1>6. CASE UNCHANGED vars
  BY <1>6 DEF vars
<1> QED  BY <1>1, <1>2, <1>3, <1>4, <1>5, <1>6 DEF Next, Turn

\* What the two steps do to the record of every pair.
LEMMA CongestionSteps ==
  ASSUME TypeInv, [Next]_vars, NEW h \in Hosts, NEW p \in Hosts
  PROVE  \/ \E seq \in SeqNums : cc'[h][p] = OnAck(cc[h][p], seq)
         \/ cc'[h][p] = OnTimeout(cc[h][p])
         \/ cc'[h][p] = cc[h][p]
<1>1. cc \in [Hosts -> [Hosts -> CC]]
  BY DEF TypeInv, TypeOK
<1>2. CASE HandleIncomingAck
  <2> DEFINE d   == Head(incoming[cur]).src
             seq == Head(incoming[cur]).seq
             y   == OnAck(cc[cur][d], seq)
  <2>1. cur \in Hosts /\ d \in Hosts /\ seq \in SeqNums /\ CP!Good(cc[cur][d])
    BY <1>2, AckTyped
  <2>2. y \in CC
    BY <2>1, ControlKept
  <2>3. cc' = [cc EXCEPT ![cur][d] = y]
    BY <1>2 DEF HandleIncomingAck
  <2> HIDE DEF y, d, seq
  <2>4. cc'[cur][d] = y /\ \A a, b \in Hosts : a # cur \/ b # d => cc'[a][b] = cc[a][b]
    BY <1>1, <2>1, <2>2, <2>3, TableUpdate
  <2> QED  BY <2>1, <2>4 DEF y
<1>3. CASE HandleTimedoutFrames
  <2>1. cc' = [cc EXCEPT ![cur] = [d \in Hosts |-> AfterTimeouts(cur, d)]]
    BY <1>3 DEF HandleTimedoutFrames
  <2>2. cc'[h][p] = AfterTimeouts(h, p) \/ cc'[h][p] = cc[h][p]
    BY <1>1, <2>1
  <2> QED  BY <2>2 DEF AfterTimeouts
<1> QED  BY <1>2, <1>3, CongestionKept

\* The program changes the congestion control of a pair of hosts only as the two
\* events of CongestionSpec do (sender.c): ControlSpec, and every theorem on it, holds of the pair.
THEOREM ControlRefined == Spec => ControlSpec
<1>1. /\ Control!InitCC = InitCC /\ Control!SeqNums = SeqNums
      /\ \A c, seq : Control!OnAck(c, seq) = OnAck(c, seq)
      /\ \A c : Control!OnTimeout(c) = OnTimeout(c)
  BY DEF Control!InitCC, InitCC, Control!SeqNums, SeqNums, Control!OnAck, OnAck,
         Control!CountAck, CountAck, Control!SeqNumDiff, SeqNumDiff, Control!HALF, HALF,
         Control!Atleast, Atleast, Control!EntersFRFT, EntersFRFT,
         Control!OnTimeout, OnTimeout
<1>2. Init => Control!Init
  BY <1>1, Constants DEF Init, Each, Control!Init
<1>3. TypeInv /\ [Next]_vars => [Control!Next]_(cc[Src][Dst])
  <2> SUFFICES ASSUME TypeInv, [Next]_vars
               PROVE  Control!Next \/ UNCHANGED cc[Src][Dst]
    OBVIOUS
  <2>1. Src \in Hosts /\ Dst \in Hosts
    BY Constants
  <2>2. \/ \E seq \in SeqNums : cc'[Src][Dst] = OnAck(cc[Src][Dst], seq)
        \/ cc'[Src][Dst] = OnTimeout(cc[Src][Dst])
        \/ cc'[Src][Dst] = cc[Src][Dst]
    BY <2>1, CongestionSteps
  <2>3. Control!Within(cc[Src][Dst].cwnd, Unbounded)
    BY DEF Control!Within, Control!Unbounded, Unbounded
  <2> QED  BY <1>1, <2>2, <2>3 DEF Control!Next, Control!Ack, Control!Timeout
<1>4. Spec => []TypeInv
  BY InitTypes, NextTypes, PTL DEF Spec
<1> QED  BY <1>2, <1>3, <1>4, PTL DEF Spec, ControlSpec, Control!Spec

------------------------------------------------------------------------------
\* Timers.  Only the host whose turn it is changes what it has to send.
LEMMA RowsKept ==
  ASSUME TypeInv, [Next]_vars, ~Tick, NEW s \in Hosts, s # cur
  PROVE  buffered'[s] = buffered[s] /\ \A d \in Hosts : window'[s][d] = window[s][d]
<1>1. buffered'[s] = buffered[s]
  <2>1. buffered \in [Hosts -> Seq(Frames)]
    BY DEF TypeInv, TypeOK
  <2>2. CASE HandleInputCmds
    BY <2>1, <2>2 DEF HandleInputCmds
  <2>3. CASE ReleaseFrame
    BY <2>1, <2>3 DEF ReleaseFrame
  <2> QED  BY <2>2, <2>3, BufferedKept
<1>2. ASSUME NEW d \in Hosts PROVE window'[s][d] = window[s][d]
  <2>1. window[s][d] \in Seq(Slots(Frames))
    BY HostTypes
  <2>2. CASE HandleIncomingAck     BY <2>1, <2>2, AckPair
  <2>3. CASE HandleTimedoutFrames  BY <2>1, <2>3, TimeoutPair
  <2>4. CASE ResendFrame           BY <2>1, <2>4, ResendPair
  <2>5. CASE ReleaseFrame          BY <2>1, <2>5, ReleasePair
  <2> QED  BY <2>2, <2>3, <2>4, <2>5, WindowKept
<1> QED  BY <1>1, <1>2

\* The turn of a host begins and ends with no host at work.
LEMMA TurnOfHost ==
  TypeInv /\ [Next]_vars => \/ cur' = cur
                            \/ cur = NoHost
                            \/ OutgoingDone /\ cur' = NoHost
<1> USE DEF control, queues, sending, recving, history
<1> SUFFICES ASSUME TypeInv, [Next]_vars, ~OutgoingDone PROVE cur' = cur \/ cur = NoHost
  BY DEF OutgoingDone, SenderDone
<1>1. CASE \/ StartTurn \/ ExitCommand \/ InputError \/ DataSent \/ FramesReceived
           \/ EndTurn \/ Terminated \/ Tick \/ AcceptMessage
  BY <1>1 DEF StartTurn, ExitCommand, BeginSenders, InputError, DataSent, FramesReceived,
              EndTurn, Terminated, Tick, AcceptMessage, vars
<1>2. CASE HandleInputCmds \/ DropCorruptAck \/ HandleIncomingAck \/ HandleTimedoutFrames
  BY <1>2 DEF HandleInputCmds, DropCorruptAck, HandleIncomingAck, HandleTimedoutFrames
<1>3. CASE RunSender
  BY <1>3 DEF RunSender, TypeInv, TypeOK, Senders
<1>4. CASE ResendFrame \/ ReleaseFrame
  BY <1>4 DEF ResendFrame, ReleaseFrame
<1>5. CASE SendDataFrame \/ DropCorruptFrame \/ PrintMessage \/ SendAckFrame
  BY <1>5 DEF SendDataFrame, DropCorruptFrame, PrintMessage, SendAckFrame
<1>6. CASE HandleIncomingFrame
  BY <1>6 DEF HandleIncomingFrame
<1>7. CASE UNCHANGED vars
  BY <1>7 DEF vars
<1> QED  BY <1>1, <1>2, <1>3, <1>4, <1>5, <1>6, <1>7 DEF Next, Turn

\* A sent frame has a timer.
LEMMA TimerRuns ==
  ASSUME NEW n \in Nat
  PROVE  n + TIMEOUT # NoTimer
  BY Constants

LEMMA NextSelfTimers == TypeInv /\ SelfTimers /\ [Next]_vars => SelfTimers'
<1> SUFFICES ASSUME TypeInv, SelfTimers, [Next]_vars, NEW s \in Hosts,
                    NEW i \in DOMAIN window'[s][s]
             PROVE  window'[s][s][i].timeout # NoTimer
  BY DEF SelfTimers
<1> DEFINE w == window[s][s]
           v == window'[s][s]
<1>1. w \in Seq(Slots(Frames)) /\ v \in Seq(Slots(Frames))
  <2>1. TypeInv'
    BY NextTypes
  <2>2. window' \in [Hosts -> [Hosts -> Seq(Slots(Frames))]]
    BY <2>1 DEF TypeInv, TypeOK, Slots
  <2> QED  BY <2>2, HostTypes
<1>2. /\ Len(w) \in Nat /\ DOMAIN w = 1 .. Len(w) /\ DOMAIN v = 1 .. Len(v)
      /\ \A j \in 1 .. Len(w) : w[j] \in Slots(Frames) /\ w[j].timeout # NoTimer
  BY <1>1, LenProperties, ElementOfSeq DEF SelfTimers
<1>3. CASE UNCHANGED window
  BY <1>2, <1>3
<1>4. CASE Tick
  <2>1. /\ SameFrames(w, v)
        /\ \A j \in 1 .. Len(w) : v[j].timeout = Countdown(w[j].timeout)
    BY <1>1, <1>4, TickPair
  <2> HIDE DEF w, v
  <2>2. \A j \in 1 .. Len(w) : w[j].timeout \in Timeouts
    BY <1>2 DEF Slots
  <2>3. i \in 1 .. Len(w)
    BY <1>2, <2>1 DEF SameFrames, v
  <2> QED  BY <1>2, <2>1, <2>2, <2>3, CountdownTyped DEF v
<1>5. CASE HandleIncomingAck
  <2> DEFINE ack == Head(incoming[cur])
  <2>1. IF s = cur /\ s = ack.src
          THEN Freed(Frames, w, Acknowledged(w, ack.seq), v)
        ELSE v = w
    BY <1>1, <1>5, AckPair
  <2> HIDE DEF w, v
  <2>2. CASE Freed(Frames, w, Acknowledged(w, ack.seq), v)
    <3> DEFINE k == Acknowledged(w, ack.seq)
    <3>1. /\ k \in 0 .. Len(w) /\ Len(v) = Len(w) - k
          /\ \A j \in 1 .. Len(w) - k : w[k + j].timeout # NoTimer => v[j].timeout # NoTimer
      BY <2>2 DEF Freed
    <3> HIDE DEF k
    <3>2. i \in 1 .. Len(w) - k /\ k + i \in 1 .. Len(w)
      <4>1. i \in 1 .. Len(v)
        BY <1>2 DEF v
      <4>2. i \in 1 .. Len(w) - k /\ k \in 0 .. Len(w) /\ Len(w) \in Nat
        BY <1>2, <3>1, <4>1
      <4> QED  BY <4>2
    <3> QED  BY <1>2, <3>1, <3>2 DEF v
  <2> QED  BY <1>2, <2>1, <2>2 DEF v
<1>6. CASE HandleTimedoutFrames
  <2>1. v = w
    BY <1>1, <1>6, TimeoutPair DEF Expired
  <2> QED  BY <1>2, <2>1
<1>7. CASE ResendFrame
  <2>1. Min(Resendable) # cur
    BY <1>7, ResendTyped
  <2>2. v = w
    BY <1>1, <1>7, <2>1, ResendPair
  <2> QED  BY <1>2, <2>2
<1>8. CASE ReleaseFrame
  <2> DEFINE f == buffered[cur][Min(Releasable)]
             x == [frame |-> f, timeout |-> base + TIMEOUT]
  <2>1. v = Append(w, x) \/ v = w
    BY <1>1, <1>8, ReleasePair
  <2>2. x.timeout # NoTimer
    BY TimerRuns DEF TypeInv, TypeOK
  <2> HIDE DEF w, v, x
  <2>3. CASE v = Append(w, x)
    <3>1. /\ Len(v) = Len(w) + 1 /\ v[Len(w) + 1] = x
          /\ \A j \in 1 .. Len(w) : v[j] = w[j]
      BY <1>1, <1>2, <2>3
    <3>2. i \in 1 .. Len(w) \/ i = Len(w) + 1
      BY <1>2, <3>1 DEF v
    <3> QED  BY <1>2, <2>2, <3>1, <3>2 DEF v
  <2> QED  BY <1>2, <2>1, <2>3 DEF v
<1> QED  BY <1>3, <1>4, <1>5, <1>6, <1>7, <1>8, WindowKept

\* Every receiver has a share of the turn, or a timer that was just set.
LEMMA NextShareOrWake == TypeInv /\ ShareOrWake /\ [Next]_vars => ShareOrWake'
<1> SUFFICES ASSUME TypeInv, ShareOrWake, [Next]_vars, phase' = "outgoing", NEW d \in Hosts
             PROVE  share'[d] > 0 \/ Awake(cur, d)'
  BY DEF ShareOrWake
<1> USE DEF control, queues, sending, recving, history
<1>1. HandleTimedoutFrames \/ ResendFrame \/ ReleaseFrame \/ UNCHANGED vars
  <2>1. CASE StartTurn \/ ExitCommand \/ InputError \/ Tick \/ AcceptMessage
    BY <2>1 DEF StartTurn, ExitCommand, BeginSenders, InputError, Tick, AcceptMessage
  <2>2. CASE DataSent \/ FramesReceived \/ EndTurn \/ Terminated
    BY <2>2 DEF DataSent, FramesReceived, EndTurn, Terminated
  <2>3. CASE RunSender \/ OutgoingDone
    BY <2>3 DEF RunSender, OutgoingDone, SenderDone, AcksOrTimeouts
  <2>4. CASE HandleInputCmds \/ DropCorruptAck \/ HandleIncomingAck
    BY <2>4 DEF HandleInputCmds, DropCorruptAck, HandleIncomingAck, AcksOrTimeouts
  <2>5. CASE SendDataFrame \/ DropCorruptFrame \/ PrintMessage \/ SendAckFrame
    BY <2>5 DEF SendDataFrame, DropCorruptFrame, PrintMessage, SendAckFrame
  <2>6. CASE HandleIncomingFrame
    BY <2>6 DEF HandleIncomingFrame
  <2> QED  BY <2>1, <2>2, <2>3, <2>4, <2>5, <2>6 DEF Next, Turn
<1>2. CASE UNCHANGED vars
  BY <1>2 DEF ShareOrWake, Awake, vars
<1>3. CASE HandleTimedoutFrames
  <2>1. cur \in Hosts /\ UNCHANGED cur
    BY <1>3, TimeoutPair, HostTypes, Constants DEF HandleTimedoutFrames
  <2>2. share' = [p \in Hosts |-> FramesPerTurn(cc'[cur][p])]
    BY <1>3 DEF HandleTimedoutFrames
  <2>3. CP!Good(cc'[cur][d])
    BY <2>1, NextTypes DEF TypeInv, ControlOK
  <2>4. FramesPerTurn(cc'[cur][d]) \in Nat /\ FramesPerTurn(cc'[cur][d]) >= 1
    BY <2>3, ControlKept
  <2> QED  BY <2>2, <2>4
<1>4. CASE ResendFrame
  <2> DEFINE p    == Min(Resendable)
             seq  == window[cur][p][Min(Idle(p))].frame.seq
             slot == RearmedSlot(window[cur][p], seq)
  <2>1. phase = "outgoing" /\ cur \in Hosts /\ p \in Hosts /\ UNCHANGED cur
    BY <1>4, ResendTyped DEF ResendFrame
  <2>2. share' = [share EXCEPT ![p] = share[p] - 1]
    BY <1>4 DEF ResendFrame
  <2>3. \A q \in Hosts : window[cur][q] \in Seq(Slots(Frames))
    BY <2>1, HostTypes
  <2>4. /\ window'[cur][p] \in Seq(Slots(Frames))
        /\ Len(window'[cur][p]) = Len(window[cur][p])
        /\ slot \in 1 .. Len(window[cur][p])
        /\ window'[cur][p][slot].timeout = latest[cur] + TIMEOUT
    BY <1>4, <2>1, <2>3, ResendPair DEF SameFrames
  <2>5. \A q \in Hosts : q # p => window'[cur][q] = window[cur][q]
    BY <1>4, <2>1, <2>3, ResendPair
  <2>6. latest[cur] + TIMEOUT # NoTimer
    BY <2>1, HostTypes, TimerRuns
  <2> HIDE DEF p, slot
  <2>7. CASE d = p
    <3>1. slot \in DOMAIN window'[cur][p]
      BY <2>4, LenProperties
    <3> QED  BY <2>1, <2>4, <2>6, <2>7, <3>1 DEF Awake
  <2>8. CASE d # p
    <3>1. share'[d] = share[d]
      BY <2>2, <2>8 DEF TypeInv, TypeOK
    <3>2. Awake(cur, d) => Awake(cur, d)'
      BY <2>1, <2>5, <2>8 DEF Awake
    <3> QED  BY <2>1, <3>1, <3>2 DEF ShareOrWake
  <2> QED  BY <2>7, <2>8
<1>5. CASE ReleaseFrame
  <2> DEFINE f == buffered[cur][Min(Releasable)]
             p == f.dst
             w == window[cur][p]
             x == [frame |-> f, timeout |-> base + TIMEOUT]
  <2>1. phase = "outgoing" /\ cur \in Hosts /\ p \in Hosts /\ UNCHANGED cur
    BY <1>5, ReleaseTyped DEF ReleaseFrame
  <2>2. share' = [share EXCEPT ![p] = share[p] - 1]
    BY <1>5 DEF ReleaseFrame
  <2>3. \A q \in Hosts : window[cur][q] \in Seq(Slots(Frames))
    BY <2>1, HostTypes
  <2>4. window'[cur][p] = Append(w, x)
    BY <1>5, <2>1, <2>3, ReleasePair
  <2>5. \A q \in Hosts : q # p => window'[cur][q] = window[cur][q]
    BY <1>5, <2>1, <2>3, ReleasePair
  <2>6. x.timeout # NoTimer
    BY TimerRuns DEF TypeInv, TypeOK
  <2>7. w \in Seq(Slots(Frames))
    BY <2>1, <2>3
  <2> HIDE DEF p, x, w
  <2>8. CASE d = p
    <3>1. Len(w) + 1 \in DOMAIN Append(w, x) /\ Append(w, x)[Len(w) + 1] = x
      BY <2>7, LenProperties
    <3> QED  BY <2>1, <2>4, <2>6, <2>8, <3>1 DEF Awake
  <2>9. CASE d # p
    <3>1. share'[d] = share[d]
      BY <2>2, <2>9 DEF TypeInv, TypeOK
    <3>2. Awake(cur, d) => Awake(cur, d)'
      BY <2>1, <2>5, <2>9 DEF Awake
    <3> QED  BY <2>1, <3>1, <3>2 DEF ShareOrWake
  <2> QED  BY <2>8, <2>9
<1> QED  BY <1>1, <1>2, <1>3, <1>4, <1>5

\* When handle_outgoing_frames is done, a frame that is still owed has a timer,
\* or one before it has.
LEMMA DoneAwake ==
  ASSUME TypeInv, SelfTimers, ShareOrWake, OutgoingDone, NEW d \in Hosts, Owed(cur, d)
  PROVE  Awake(cur, d)
<1>1. /\ phase = "outgoing" /\ cur \in Hosts /\ Resendable = {} /\ Releasable = {}
  BY DEF OutgoingDone, TypeInv, TypeOK, Senders, NoHost
<1>2. window[cur][d] \in Seq(Slots(Frames)) /\ share[d] \in Nat
  BY <1>1, HostTypes
<1>3. DOMAIN window[cur][d] = 1 .. Len(window[cur][d]) /\ Len(window[cur][d]) \in Nat
  BY <1>2, LenProperties
<1>4. CASE Awake(cur, d)
  BY <1>4
<1>5. CASE share[d] > 0
  <2>1. \A i \in DOMAIN window[cur][d] : window[cur][d][i].timeout # NoTimer
    <3>1. CASE d = cur
      BY <1>1, <3>1 DEF SelfTimers
    <3>2. CASE d # cur
      BY <1>1, <1>5, <3>2 DEF Resendable, Idle
    <3> QED  BY <3>1, <3>2
  <2>2. window[cur][d] # << >>
    <3> SUFFICES ASSUME window[cur][d] = << >> PROVE FALSE
      OBVIOUS
    <3>1. PICK i \in DOMAIN buffered[cur] : buffered[cur][i].dst = d
      BY DEF Owed
    <3>2. Len(window[cur][d]) = 0 /\ 0 < W
      BY Constants
    <3>3. i \in Releasable
      BY <1>5, <3>1, <3>2 DEF Releasable
    <3> QED  BY <1>1, <3>3
  <2>3. 1 \in DOMAIN window[cur][d]
    BY <1>2, <1>3, <2>2, EmptySeq
  <2> QED  BY <2>1, <2>3 DEF Awake
<1> QED  BY <1>1, <1>4, <1>5 DEF ShareOrWake

LEMMA NextOwedAwake ==
  TypeInv /\ OwedAwake /\ SelfTimers /\ ShareOrWake /\ [Next]_vars => OwedAwake'
<1> SUFFICES ASSUME TypeInv, OwedAwake, SelfTimers, ShareOrWake, [Next]_vars,
                    NEW s \in Hosts, s # cur', NEW d \in Hosts, Owed(s, d)'
             PROVE  Awake(s, d)'
  BY DEF OwedAwake
<1>1. CASE Tick
  <2>1. UNCHANGED <<cur, buffered>>
    BY <1>1 DEF Tick, control, queues
  <2>2. window[s][d] \in Seq(Slots(Frames))
    BY HostTypes
  <2>3. /\ window'[s][d] \in Seq(Slots(Frames)) /\ Len(window'[s][d]) = Len(window[s][d])
        /\ \A i \in 1 .. Len(window[s][d]) :
             window'[s][d][i].timeout = Countdown(window[s][d][i].timeout)
    BY <1>1, <2>2, TickPair DEF SameFrames
  <2>4. /\ DOMAIN window[s][d] = 1 .. Len(window[s][d])
        /\ DOMAIN window'[s][d] = 1 .. Len(window[s][d])
        /\ window[s][d] # << >> <=> window'[s][d] # << >>
    BY <2>2, <2>3, LenProperties, EmptySeq
  <2>5. Owed(s, d)
    BY <2>1, <2>4 DEF Owed
  <2>6. Awake(s, d)
    BY <2>1, <2>5 DEF OwedAwake
  <2>7. PICK i \in 1 .. Len(window[s][d]) : window[s][d][i].timeout # NoTimer
    BY <2>4, <2>6 DEF Awake
  <2>8. window[s][d][i].timeout \in Timeouts
    <3>1. window[s][d][i] \in Slots(Frames)
      BY <2>2, ElementOfSeq
    <3> QED  BY <3>1 DEF Slots
  <2>9. window'[s][d][i].timeout # NoTimer
    BY <2>3, <2>7, <2>8, CountdownTyped
  <2> QED  BY <2>4, <2>9 DEF Awake
<1>2. CASE ~Tick /\ s # cur
  <2>1. buffered'[s] = buffered[s] /\ window'[s][d] = window[s][d]
    BY <1>2, RowsKept
  <2> QED  BY <1>2, <2>1 DEF OwedAwake, Owed, Awake
<1>3. CASE s = cur
  <2>1. OutgoingDone
    BY <1>3, TurnOfHost, Constants
  <2>2. UNCHANGED <<buffered, window>>
    BY <2>1 DEF OutgoingDone, queues
  <2> QED  BY <1>3, <2>1, <2>2, DoneAwake DEF Owed, Awake
<1> QED  BY <1>1, <1>2, <1>3

\* A sender that is owed an acknowledgement, or has frames it could not send yet,
\* has a timer running between turns: run_senders would never look at it again
\* otherwise, whatever the congestion control and the other receivers do.
THEOREM NeverStalls == Spec => []NoStall
<1> DEFINE Inv == TypeInv /\ OwedAwake /\ SelfTimers /\ ShareOrWake
<1>1. Init => Inv
  <2> SUFFICES ASSUME Init PROVE OwedAwake /\ SelfTimers /\ ShareOrWake
    BY InitTypes
  <2>1. \A s, d \in Hosts : window[s][d] = << >> /\ buffered[s] = << >>
    BY DEF Init, Each
  <2>2. DOMAIN << >> = {}
    OBVIOUS
  <2> QED  BY <2>1, <2>2 DEF Init, OwedAwake, SelfTimers, ShareOrWake, Owed
<1>2. Inv /\ [Next]_vars => Inv'
  BY NextTypes, NextOwedAwake, NextSelfTimers, NextShareOrWake
<1>3. Inv => NoStall
  <2> SUFFICES ASSUME Inv, phase = "input", NEW s \in Hosts, NEW d \in Hosts, Owed(s, d)
               PROVE  Timers(s, d) \ {NoTimer} # {}
    BY DEF NoStall, Owed
  <2>1. cur = NoHost
    BY DEF TypeInv, TypeOK, Senders
  <2>2. Awake(s, d)
    BY <2>1, Constants DEF OwedAwake
  <2> QED  BY <2>2 DEF Awake, Timers
<1> QED  BY <1>1, <1>2, <1>3, PTL DEF Spec

------------------------------------------------------------------------------
\* The frames of a queue as the window protocol sees them.
Plains == [id : Nat, seq : SeqNums]

LEMMA PlainType == \A f \in Frames : Plain(f) \in Plains
  BY DEF Plain, Plains, Frames

\* How Selected reads a queue, frame after frame.
LEMMA SelectedSteps ==
  ASSUME NEW q \in Seq(Frames), NEW kind, NEW from, NEW to
  PROVE  LET s == SelectedUpTo(q, kind, from, to)
         IN  /\ s \in [0 .. Len(q) -> Seq(Plains)]
             /\ s[0] = << >>
             /\ \A n \in 1 .. Len(q) :
                  s[n] = IF Goes(q[n], kind, from, to)
                         THEN Append(s[n - 1], Plain(q[n])) ELSE s[n - 1]
<1> DEFINE Hit(n) == Goes(q[n], kind, from, to)
           Body(f) == [n \in 0 .. Len(q) |->
                         IF n = 0 THEN << >>
                         ELSE IF Goes(q[n], kind, from, to)
                           THEN Append(f[n - 1], Plain(q[n]))
                         ELSE f[n - 1]]
           step == [x \in (1 .. Len(q)) \X Seq(Plains) |->
                      IF Hit(x[1]) THEN Append(x[2], Plain(q[x[1]])) ELSE x[2]]
<1>1. Len(q) \in Nat /\ \A n \in 1 .. Len(q) : q[n] \in Frames
  BY LenProperties, ElementOfSeq
<1>2. step \in [(1 .. Len(q)) \X Seq(Plains) -> Seq(Plains)]
  <2> SUFFICES ASSUME NEW n \in 1 .. Len(q), NEW s \in Seq(Plains)
               PROVE  Append(s, Plain(q[n])) \in Seq(Plains)
    OBVIOUS
  <2> QED  BY <1>1, PlainType, AppendProperties
<1>3. \E f \in [0 .. Len(q) -> Seq(Plains)] :
        f = [n \in 0 .. Len(q) |-> IF n = 0 THEN << >> ELSE step[<<n, f[n - 1]>>]]
  <2>1. << >> \in Seq(Plains)  BY EmptySeq
  <2> DEFINE N == Len(q)
             P == Seq(Plains)
             e == << >>
  <2>2. N \in Nat /\ e \in P /\ step \in [(1 .. N) \X P -> P]
    BY <1>1, <1>2, <2>1
  <2> HIDE DEF step, N, P, e
  <2>3. \E f \in [0 .. N -> P] : Recurs(f, N, e, step)
    BY <2>2, Recursion
  <2> QED  BY <2>3 DEF N, P, e, Recurs
<1>4. PICK f \in [0 .. Len(q) -> Seq(Plains)] :
        f = [n \in 0 .. Len(q) |-> IF n = 0 THEN << >> ELSE step[<<n, f[n - 1]>>]]
  BY <1>3
<1>5. \A n \in 1 .. Len(q) : step[<<n, f[n - 1]>>] =
         IF Hit(n) THEN Append(f[n - 1], Plain(q[n])) ELSE f[n - 1]
  <2>1. \A n \in 1 .. Len(q) : n - 1 \in 0 .. Len(q)
    BY <1>1
  <2>2. \A n \in 1 .. Len(q) : f[n - 1] \in Seq(Plains)
    BY <2>1
  <2>3. \A n \in 1 .. Len(q) : <<n, f[n - 1]>> \in (1 .. Len(q)) \X Seq(Plains)
    BY <2>2
  <2> HIDE DEF Hit
  <2> QED  BY <2>3
<1>6. f = Body(f)
  <2>1. ASSUME NEW n \in 0 .. Len(q) PROVE f[n] = Body(f)[n]
    <3>1. CASE n = 0  BY <1>4, <3>1
    <3>2. CASE n \in 1 .. Len(q)
      <4>1. n \in 0 .. Len(q) /\ n # 0  BY <1>1, <3>2
      <4>2. f[n] = step[<<n, f[n - 1]>>]
        <5> HIDE DEF step
        <5> QED  BY <1>4, <4>1
      <4>3. f[n] = IF Hit(n) THEN Append(f[n - 1], Plain(q[n])) ELSE f[n - 1]
        <5> HIDE DEF step, Hit
        <5> QED  BY <1>5, <3>2, <4>2
      <4> HIDE DEF step
      <4> QED  BY <4>1, <4>3
    <3> QED  BY <1>1, <3>1, <3>2
  <2>2. f = [n \in 0 .. Len(q) |-> f[n]]  OBVIOUS
  <2>3. Body(f) = [n \in 0 .. Len(q) |-> Body(f)[n]]  OBVIOUS
  <2> HIDE DEF Body
  <2> QED  BY <2>1, <2>2, <2>3, Zenon
<1>7. SelectedUpTo(q, kind, from, to) = CHOOSE g : g = Body(g)
  BY DEF SelectedUpTo
<1> DEFINE s == SelectedUpTo(q, kind, from, to)
<1>8. s = Body(s)
  <2> HIDE DEF Body
  <2> QED  BY <1>6, <1>7
<1>9. s = [n \in 0 .. Len(q) |-> s[n]] /\ s[0] = << >>
  BY <1>1, <1>8
<1>10. \A n \in 1 .. Len(q) :
         s[n] = IF Hit(n) THEN Append(s[n - 1], Plain(q[n])) ELSE s[n - 1]
  <2>1. \A n \in 1 .. Len(q) : n \in 0 .. Len(q) /\ n # 0  BY <1>1
  <2>2. \A n \in 1 .. Len(q) : s[n] = Body(s)[n]
    <3> HIDE DEF Body, s
    <3> QED  BY <1>8
  <2> HIDE DEF s
  <2> QED  BY <2>1, <2>2
<1>11. \A n \in 0 .. Len(q) : s[n] \in Seq(Plains)
  <2> DEFINE T == {n \in Nat : n <= Len(q) => s[n] \in Seq(Plains)}
  <2> HIDE DEF s, Hit
  <2>1. 0 \in T  BY <1>9, EmptySeq
  <2>2. ASSUME NEW n \in Nat, n \in T PROVE n + 1 \in T
    <3> SUFFICES ASSUME n + 1 <= Len(q) PROVE s[n + 1] \in Seq(Plains)
      OBVIOUS
    <3>1. n + 1 \in 1 .. Len(q) /\ n + 1 - 1 = n  BY <1>1
    <3>2. s[n] \in Seq(Plains)  BY <1>1, <2>2
    <3>3. Append(s[n], Plain(q[n + 1])) \in Seq(Plains)
      <4>1. Plain(q[n + 1]) \in Plains  BY <1>1, <3>1, PlainType
      <4> QED  BY <3>2, <4>1, AppendProperties
    <3>4. s[n + 1] = Append(s[n], Plain(q[n + 1])) \/ s[n + 1] = s[n]
      <4> DEFINE k == n + 1
      <4>1. k \in 1 .. Len(q) /\ k - 1 = n  BY <3>1
      <4> HIDE DEF k
      <4>2. s[k] = Append(s[k - 1], Plain(q[k])) \/ s[k] = s[k - 1]
        BY <1>10, <4>1
      <4> QED  BY <4>1, <4>2 DEF k
    <3> QED  BY <3>2, <3>3, <3>4
  <2>3. Nat \subseteq T
    <3> HIDE DEF T
    <3> QED  BY <2>1, <2>2, SetInduction
  <2> QED  BY <1>1, <2>3
<1> HIDE DEF s
<1>12. s \in [0 .. Len(q) -> Seq(Plains)]
  BY <1>9, <1>11
<1> QED  BY <1>9, <1>10, <1>12 DEF s

\* What a longer queue begins with does not matter to how it begins.
LEMMA SelectedPrefix ==
  ASSUME NEW q \in Seq(Frames), NEW r \in Seq(Frames), NEW kind, NEW from, NEW to,
         NEW n \in 0 .. Len(q)
  PROVE  SelectedUpTo(q \o r, kind, from, to)[n] = SelectedUpTo(q, kind, from, to)[n]
<1> DEFINE s == SelectedUpTo(q, kind, from, to)
           l == q \o r
           t == SelectedUpTo(l, kind, from, to)
           T == {m \in Nat : m <= Len(q) => t[m] = s[m]}
<1>1. /\ l \in Seq(Frames) /\ Len(l) = Len(q) + Len(r)
      /\ \A m \in 1 .. Len(q) : l[m] = q[m] /\ m \in 1 .. Len(l)
  BY ConcatProperties, LenProperties
<1> HIDE DEF l
<1>2. s[0] = << >> /\ t[0] = << >>
  BY <1>1, SelectedSteps
<1>3. \A m \in 1 .. Len(q) :
         s[m] = IF Goes(q[m], kind, from, to) THEN Append(s[m - 1], Plain(q[m])) ELSE s[m - 1]
  BY SelectedSteps
<1>4. \A m \in 1 .. Len(l) :
         t[m] = IF Goes(l[m], kind, from, to) THEN Append(t[m - 1], Plain(l[m])) ELSE t[m - 1]
  <2>1. l \in Seq(Frames)  BY <1>1
  <2> QED  BY <2>1, SelectedSteps
<1> HIDE DEF s, t
<1>5. 0 \in T
  BY <1>2
<1>6. ASSUME NEW m \in Nat, m \in T PROVE m + 1 \in T
  <2> SUFFICES ASSUME m + 1 <= Len(q) PROVE t[m + 1] = s[m + 1]
    OBVIOUS
  <2> DEFINE k == m + 1
  <2>1. k \in 1 .. Len(q) /\ k - 1 = m /\ t[m] = s[m]
    BY <1>6, LenProperties
  <2> HIDE DEF k
  <2>2. t[k] = s[k]
    BY <1>1, <1>3, <1>4, <2>1
  <2> QED  BY <2>2 DEF k
<1>7. Nat \subseteq T
  <2> HIDE DEF T
  <2> QED  BY <1>5, <1>6, SetInduction
<1>8. n \in T
  BY <1>7, LenProperties
<1> QED  BY <1>8 DEF s, t, l

\* Selected reads a queue part by part.
LEMMA SelectedConcat ==
  ASSUME NEW q \in Seq(Frames), NEW r \in Seq(Frames), NEW kind, NEW from, NEW to
  PROVE  Selected(q \o r, kind, from, to)
           = Selected(q, kind, from, to) \o Selected(r, kind, from, to)
<1> DEFINE a == Selected(q, kind, from, to)
           l == q \o r
           s == SelectedUpTo(r, kind, from, to)
           t == SelectedUpTo(l, kind, from, to)
           T == {m \in Nat : m <= Len(r) => t[Len(q) + m] = a \o s[m]}
<1>1. /\ l \in Seq(Frames) /\ Len(l) = Len(q) + Len(r)
      /\ Len(q) \in Nat /\ Len(r) \in Nat
      /\ \A m \in 1 .. Len(r) : l[Len(q) + m] = r[m] /\ r[m] \in Frames
  BY ConcatProperties, LenProperties, ElementOfSeq
<1>2. t[Len(q)] = a
  BY <1>1, SelectedPrefix DEF Selected
<1> HIDE DEF l
<1>3. s[0] = << >> /\ \A m \in 0 .. Len(r) : s[m] \in Seq(Plains)
  BY SelectedSteps
<1>4. \A m \in 1 .. Len(r) :
         s[m] = IF Goes(r[m], kind, from, to) THEN Append(s[m - 1], Plain(r[m])) ELSE s[m - 1]
  BY SelectedSteps
<1>5. \A m \in 1 .. Len(l) :
         t[m] = IF Goes(l[m], kind, from, to) THEN Append(t[m - 1], Plain(l[m])) ELSE t[m - 1]
  <2>1. l \in Seq(Frames)  BY <1>1
  <2> QED  BY <2>1, SelectedSteps
<1>6. a \in Seq(Plains)
  <2>1. Len(q) \in 0 .. Len(q)  BY <1>1
  <2> QED  BY <2>1, SelectedSteps DEF Selected
<1>7. a = SelectedUpTo(q, kind, from, to)[Len(q)]
  BY DEF Selected
<1> HIDE DEF s, t, a
<1>8. 0 \in T
  BY <1>1, <1>2, <1>3, <1>6
<1>9. ASSUME NEW m \in Nat, m \in T PROVE m + 1 \in T
  <2> SUFFICES ASSUME m + 1 <= Len(r) PROVE t[Len(q) + (m + 1)] = a \o s[m + 1]
    OBVIOUS
  <2> DEFINE k == m + 1
             j == Len(q) + k
             p == Plain(r[k])
  <2>1. k \in 1 .. Len(r) /\ k - 1 = m /\ m \in 0 .. Len(r) /\ t[Len(q) + m] = a \o s[m]
    BY <1>1, <1>9
  <2>2. j \in 1 .. Len(l) /\ j - 1 = Len(q) + m /\ l[j] = r[k]
    BY <1>1, <2>1
  <2>3. p \in Plains /\ s[m] \in Seq(Plains)
    BY <1>1, <1>3, <2>1, PlainType
  <2> HIDE DEF k, j, p
  <2>4. Append(a \o s[m], p) = a \o Append(s[m], p)
    <3>1. <<p>> \in Seq(Plains)  BY <2>3
    <3>2. (a \o s[m]) \o <<p>> = a \o (s[m] \o <<p>>)
      <4> DEFINE u == s[m]
                 v == <<p>>
                 P == Seq(Plains)
      <4>1. a \in Seq(Plains) /\ u \in Seq(Plains) /\ v \in Seq(Plains)
        BY <1>6, <2>3, <3>1
      <4> HIDE DEF u, v
      <4>2. (a \o u) \o v = a \o (u \o v)
        BY <4>1, ConcatAssociative, SMTT(40)
      <4> QED  BY <4>2 DEF u, v
    <3>3. a \o s[m] \in Seq(Plains)  BY <1>6, <2>3, ConcatProperties
    <3>4. Append(a \o s[m], p) = (a \o s[m]) \o <<p>> /\ Append(s[m], p) = s[m] \o <<p>>
      BY <2>3, <3>3, AppendIsConcat
    <3> QED  BY <3>2, <3>4
  <2>5. t[j] = IF Goes(r[k], kind, from, to) THEN Append(a \o s[m], p) ELSE a \o s[m]
    BY <1>5, <2>1, <2>2 DEF p
  <2>6. s[k] = IF Goes(r[k], kind, from, to) THEN Append(s[m], p) ELSE s[m]
    BY <1>4, <2>1 DEF p
  <2>7. t[j] = a \o s[k]
    BY <2>4, <2>5, <2>6
  <2> QED  BY <2>7 DEF k, j
<1>10. Nat \subseteq T
  <2> HIDE DEF T
  <2> QED  BY <1>8, <1>9, SetInduction
<1>11. t[Len(q) + Len(r)] = a \o s[Len(r)]
  BY <1>1, <1>10
<1> QED  BY <1>1, <1>11 DEF Selected, a, s, t, l

LEMMA SelectedType ==
  ASSUME NEW q \in Seq(Frames), NEW kind, NEW from, NEW to
  PROVE  Selected(q, kind, from, to) \in Seq(Plains)
<1>1. Len(q) \in 0 .. Len(q)  BY LenProperties
<1> QED  BY <1>1, SelectedSteps DEF Selected

\* A queue of one frame, and of none of the frames wanted.
LEMMA SelectedOne ==
  ASSUME NEW f \in Frames, NEW kind, NEW from, NEW to
  PROVE  Selected(<<f>>, kind, from, to)
           = IF Goes(f, kind, from, to) THEN <<Plain(f)>> ELSE << >>
<1> DEFINE q == <<f>>
<1>1. q \in Seq(Frames) /\ Len(q) = 1 /\ q[1] = f /\ 1 \in 1 .. Len(q)
  OBVIOUS
<1> HIDE DEF q
<1> DEFINE s == SelectedUpTo(q, kind, from, to)
<1>2. s[0] = << >>
  BY <1>1, SelectedSteps
<1>3. \A n \in 1 .. Len(q) :
         s[n] = IF Goes(q[n], kind, from, to) THEN Append(s[n - 1], Plain(q[n])) ELSE s[n - 1]
  BY <1>1, SelectedSteps
<1>4. Append(<< >>, Plain(f)) = <<Plain(f)>>
  OBVIOUS
<1> HIDE DEF s
<1>5. s[1] = IF Goes(f, kind, from, to) THEN <<Plain(f)>> ELSE << >>
  <2> DEFINE k == 1
  <2>1. k \in 1 .. Len(q) /\ k - 1 = 0 /\ k = 1
    BY <1>1
  <2> HIDE DEF k
  <2>2. s[k] = IF Goes(f, kind, from, to) THEN Append(<< >>, Plain(f)) ELSE << >>
    BY <1>1, <1>2, <1>3, <2>1
  <2> QED  BY <1>4, <2>1, <2>2
<1> QED  BY <1>1, <1>5 DEF Selected, s, q

LEMMA SelectedNone ==
  ASSUME NEW q \in Seq(Frames), NEW kind, NEW from, NEW to,
         \A i \in DOMAIN q : ~Goes(q[i], kind, from, to)
  PROVE  Selected(q, kind, from, to) = << >>
<1> DEFINE s == SelectedUpTo(q, kind, from, to)
           T == {m \in Nat : m <= Len(q) => s[m] = << >>}
<1>1. s[0] = << >> /\ \A m \in 1 .. Len(q) :
         s[m] = IF Goes(q[m], kind, from, to) THEN Append(s[m - 1], Plain(q[m])) ELSE s[m - 1]
  BY SelectedSteps
<1>2. DOMAIN q = 1 .. Len(q) /\ Len(q) \in Nat
  BY LenProperties
<1> HIDE DEF s
<1>3. 0 \in T
  BY <1>1
<1>4. ASSUME NEW m \in Nat, m \in T PROVE m + 1 \in T
  <2> SUFFICES ASSUME m + 1 <= Len(q) PROVE s[m + 1] = << >>
    OBVIOUS
  <2> DEFINE k == m + 1
  <2>1. k \in 1 .. Len(q) /\ k - 1 = m /\ s[m] = << >>
    BY <1>2, <1>4
  <2> HIDE DEF k
  <2>2. s[k] = << >>
    BY <1>1, <1>2, <2>1
  <2> QED  BY <2>2 DEF k
<1>5. Nat \subseteq T
  <2> HIDE DEF T
  <2> QED  BY <1>3, <1>4, SetInduction
<1> QED  BY <1>2, <1>5 DEF Selected, s

LEMMA SelectedAppend ==
  ASSUME NEW q \in Seq(Frames), NEW f \in Frames, NEW kind, NEW from, NEW to
  PROVE  Selected(Append(q, f), kind, from, to)
           = IF Goes(f, kind, from, to) THEN Append(Selected(q, kind, from, to), Plain(f))
             ELSE Selected(q, kind, from, to)
<1> DEFINE a == Selected(q, kind, from, to)
<1>1. Append(q, f) = q \o <<f>> /\ <<f>> \in Seq(Frames)
  BY AppendIsConcat
<1>2. a \in Seq(Plains) /\ Plain(f) \in Plains
  BY SelectedType, PlainType
<1>3. Selected(q \o <<f>>, kind, from, to) = a \o Selected(<<f>>, kind, from, to)
  <2> DEFINE one == <<f>>
  <2>1. one \in Seq(Frames)  BY <1>1
  <2> HIDE DEF one
  <2>2. Selected(q \o one, kind, from, to) = a \o Selected(one, kind, from, to)
    BY <2>1, SelectedConcat
  <2> QED  BY <2>2 DEF one
<1>4. Selected(<<f>>, kind, from, to)
        = IF Goes(f, kind, from, to) THEN <<Plain(f)>> ELSE << >>
  BY SelectedOne
<1> HIDE DEF a
<1>5. a \o << >> = a /\ Append(a, Plain(f)) = a \o <<Plain(f)>>
  BY <1>2, AppendIsConcat, ConcatEmptySeq
<1> QED  BY <1>1, <1>3, <1>4, <1>5 DEF a

\* The rest of a queue whose first frame is taken.
LEMMA SelectedTail ==
  ASSUME NEW q \in Seq(Frames), q # << >>, NEW kind, NEW from, NEW to
  PROVE  LET all  == Selected(q, kind, from, to)
             rest == Selected(Tail(q), kind, from, to)
         IN  IF Goes(Head(q), kind, from, to)
             THEN all # << >> /\ Head(all) = Plain(Head(q)) /\ Tail(all) = rest
             ELSE all = rest
<1> DEFINE f == Head(q)
           t == Tail(q)
           rest == Selected(t, kind, from, to)
<1>1. f \in Frames /\ t \in Seq(Frames) /\ <<f>> \in Seq(Frames) /\ q = <<f>> \o t
  BY HeadTailProperties
<1> HIDE DEF f, t
<1>2. rest \in Seq(Plains) /\ Plain(f) \in Plains
  BY <1>1, SelectedType, PlainType
<1>3. Selected(<<f>> \o t, kind, from, to) = Selected(<<f>>, kind, from, to) \o rest
  <2> DEFINE one == <<f>>
  <2>1. one \in Seq(Frames)  BY <1>1
  <2> HIDE DEF one
  <2>2. Selected(one \o t, kind, from, to) = Selected(one, kind, from, to) \o rest
    BY <1>1, <2>1, SelectedConcat
  <2> QED  BY <2>2 DEF one
<1>4. Selected(<<f>>, kind, from, to)
        = IF Goes(f, kind, from, to) THEN <<Plain(f)>> ELSE << >>
  BY <1>1, SelectedOne
<1> HIDE DEF rest
<1>5. << >> \o rest = rest
  BY <1>2, ConcatEmptySeq
<1>6. LET all == <<Plain(f)>> \o rest
      IN  all # << >> /\ Head(all) = Plain(f) /\ Tail(all) = rest
  <2> DEFINE p == Plain(f)
  <2>1. p \in Plains  BY <1>2
  <2> HIDE DEF p
  <2>2. <<p>> \o rest # << >> /\ Head(<<p>> \o rest) = p /\ Tail(<<p>> \o rest) = rest
    BY <1>2, <2>1
  <2> QED  BY <2>2 DEF p
<1> QED  BY <1>1, <1>3, <1>4, <1>5, <1>6 DEF rest, f, t

\* The rest of a queue whose i-th frame is taken, ahead of the others selected
\* or not one of them.
LEMMA SelectedRemoveAt ==
  ASSUME NEW q \in Seq(Frames), NEW i \in 1 .. Len(q), NEW kind, NEW from, NEW to
  PROVE  LET all  == Selected(q, kind, from, to)
             rest == Selected(RemoveAt(q, i), kind, from, to)
         IN  IF Goes(q[i], kind, from, to)
             THEN (\A j \in 1 .. i - 1 : ~Goes(q[j], kind, from, to))
                    => all # << >> /\ Head(all) = Plain(q[i]) /\ Tail(all) = rest
             ELSE all = rest
<1> DEFINE front == SubSeq(q, 1, i - 1)
           back  == SubSeq(q, i, Len(q))
           after == SubSeq(q, i + 1, Len(q))
           Sel(s) == Selected(s, kind, from, to)
<1>1. Len(q) \in Nat /\ \A j \in 1 .. Len(q) : q[j] \in Frames
  BY LenProperties, ElementOfSeq
<1>2. /\ front \in Seq(Frames) /\ Len(front) = i - 1
      /\ \A j \in 1 .. i - 1 : front[j] = q[j]
  <2>1. \A j \in 1 .. i - 1 : q[j] \in Frames  BY <1>1
  <2>2. i - 1 \in Int /\ (1 <= i - 1 \/ i - 1 = 0)  BY <1>1
  <2> QED  BY <2>1, <2>2, <1>1, SubSeqProperties
<1>3. /\ back \in Seq(Frames) /\ Len(back) = Len(q) - i + 1
      /\ \A j \in 1 .. Len(q) - i + 1 : back[j] = q[i + j - 1]
  <2>1. \A j \in i .. Len(q) : q[j] \in Frames  BY <1>1
  <2>2. i \in Int /\ Len(q) \in Int /\ i <= Len(q)  BY <1>1
  <2> QED  BY <2>1, <2>2, <1>1, SubSeqProperties
<1>4. /\ after \in Seq(Frames) /\ Len(after) = Len(q) - i
      /\ \A j \in 1 .. Len(q) - i : after[j] = q[i + j]
  <2>1. \A j \in i + 1 .. Len(q) : q[j] \in Frames  BY <1>1
  <2>2. i + 1 \in Int /\ Len(q) \in Int  BY <1>1
  <2>3. /\ after \in Seq(Frames)
        /\ Len(after) = IF i + 1 <= Len(q) THEN Len(q) - (i + 1) + 1 ELSE 0
        /\ \A j \in 1 .. Len(q) - (i + 1) + 1 : after[j] = q[i + 1 + j - 1]
    BY <2>1, <2>2, SubSeqProperties
  <2> QED  BY <2>3, <1>1
<1>5. RemoveAt(q, i) = front \o after
  BY DEF RemoveAt
<1> HIDE DEF front, back, after
<1>6. q = front \o back
  <2>1. /\ front \o back \in Seq(Frames)
        /\ Len(front \o back) = Len(q)
        /\ \A j \in 1 .. Len(q) :
             (front \o back)[j] = IF j <= i - 1 THEN front[j] ELSE back[j - (i - 1)]
    BY <1>1, <1>2, <1>3, ConcatProperties
  <2>2. ASSUME NEW j \in 1 .. Len(q) PROVE (front \o back)[j] = q[j]
    <3>1. CASE j <= i - 1
      <4>1. j \in 1 .. i - 1  BY <3>1, <1>1
      <4> QED  BY <4>1, <2>1, <1>2
    <3>2. CASE ~(j <= i - 1)
      <4>1. j - (i - 1) \in 1 .. Len(q) - i + 1 /\ i + (j - (i - 1)) - 1 = j
        BY <3>2, <1>1
      <4>2. back[j - (i - 1)] = q[i + (j - (i - 1)) - 1]  BY <1>3, <4>1
      <4> QED  BY <4>1, <4>2, <3>2, <2>1
    <3> QED  BY <3>1, <3>2
  <2> QED  BY <2>1, <2>2, SeqEqual
<1>7. back # << >> /\ Head(back) = q[i] /\ Tail(back) = after
  <2>1. back # << >> /\ Head(back) = back[1] /\ back[1] = q[i]
    <3>1. 1 \in 1 .. Len(q) - i + 1 /\ i + 1 - 1 = i /\ Len(back) # 0  BY <1>1, <1>3
    <3>2. back[1] = q[i + 1 - 1]  BY <1>3, <3>1
    <3> QED  BY <1>3, <3>1, <3>2
  <2>2. /\ Tail(back) \in Seq(Frames) /\ Len(Tail(back)) = Len(q) - i
        /\ \A j \in 1 .. Len(q) - i : Tail(back)[j] = back[j + 1]
    BY <1>1, <1>3, <2>1, HeadTailProperties
  <2>3. ASSUME NEW j \in 1 .. Len(q) - i PROVE Tail(back)[j] = after[j]
    <3>1. j + 1 \in 1 .. Len(q) - i + 1 /\ i + (j + 1) - 1 = i + j  BY <1>1
    <3>2. back[j + 1] = q[i + (j + 1) - 1]  BY <1>3, <3>1
    <3> QED  BY <1>4, <2>2, <3>1, <3>2
  <2> QED  BY <1>4, <2>1, <2>2, <2>3, SeqEqual
<1>8. /\ Sel(q) = Sel(front) \o Sel(back)
      /\ Sel(RemoveAt(q, i)) = Sel(front) \o Sel(after)
  <2>1. front \in Seq(Frames) /\ back \in Seq(Frames) /\ after \in Seq(Frames)
    BY <1>2, <1>3, <1>4
  <2>2. Selected(front \o back, kind, from, to)
          = Selected(front, kind, from, to) \o Selected(back, kind, from, to)
    BY <2>1, SelectedConcat, SMTT(40)
  <2>3. Selected(front \o after, kind, from, to)
          = Selected(front, kind, from, to) \o Selected(after, kind, from, to)
    BY <2>1, SelectedConcat, SMTT(40)
  <2> QED  BY <1>5, <1>6, <2>2, <2>3
<1>9. IF Goes(q[i], kind, from, to)
      THEN Sel(back) # << >> /\ Head(Sel(back)) = Plain(q[i]) /\ Tail(Sel(back)) = Sel(after)
      ELSE Sel(back) = Sel(after)
  BY <1>3, <1>7, SelectedTail
<1>10. ASSUME \A j \in 1 .. i - 1 : ~Goes(q[j], kind, from, to)
       PROVE  Sel(q) = Sel(back) /\ Sel(RemoveAt(q, i)) = Sel(after)
  <2>1. DOMAIN front = 1 .. i - 1  BY <1>2, LenProperties
  <2>2. Sel(front) = << >>  BY <1>2, <1>10, <2>1, SelectedNone
  <2>3. Sel(back) \in Seq(Plains) /\ Sel(after) \in Seq(Plains)
    BY <1>3, <1>4, SelectedType
  <2> HIDE DEF Sel
  <2> QED  BY <1>8, <2>2, <2>3, ConcatEmptySeq
<1> QED  BY <1>8, <1>9, <1>10
------------------------------------------------------------------------------
\* What the protocol's module brings of its own is what this one brings.
LEMMA PairOperators ==
  /\ \A x, n : Pair!SeqAdd(x, n) = SeqAdd(x, n)
  /\ \A x : Pair!SeqInc(x) = SeqInc(x)
  /\ \A x, y : Pair!SeqNumDiff(x, y) = SeqNumDiff(x, y)
  /\ \A n : Pair!Within(n, Unbounded)
  /\ \A s : Pair!Run(s) = Run(s)
  /\ \A s, i : Pair!RemoveAt(s, i) = RemoveAt(s, i)
<1>1. /\ \A x, n : Pair!SeqAdd(x, n) = SeqAdd(x, n)
      /\ \A x : Pair!SeqInc(x) = SeqInc(x)
  BY DEF Pair!SeqInc, Pair!SeqAdd, SeqInc, SeqAdd
<1>2. \A x, y : Pair!SeqNumDiff(x, y) = SeqNumDiff(x, y)
  BY DEF Pair!SeqNumDiff, SeqNumDiff, Pair!HALF, HALF
<1>3. \A n : Pair!Within(n, Unbounded)
  BY DEF Pair!Within, Pair!Unbounded, Unbounded
<1>4. \A s : Pair!Run(s) = Run(s)
  BY DEF Pair!Run, Run
<1>5. \A s, i : Pair!RemoveAt(s, i) = RemoveAt(s, i)
  BY DEF Pair!RemoveAt, RemoveAt
<1> QED  BY <1>1, <1>2, <1>3, <1>4, <1>5

\* The steps of the protocol, in the variables of the program.
PairReceiverSame ==
  UNCHANGED <<PairSlots, lfr[Dst][Src], handed[Dst][Src]>>
PairSenderSame ==
  UNCHANGED <<submitted[Src][Dst], currSeq[Src][Dst], PairBuffered, PairWindow>>
PairSame ==
  PairSenderSame /\ PairReceiverSame /\ UNCHANGED <<PairData, PairAcks>>

LEMMA PairStutter == PairSame => UNCHANGED Pair!vars
  BY DEF PairSame, PairSenderSame, PairReceiverSame, Pair!vars, Pair!senderVars, Pair!receiverVars

LEMMA PairSubmit ==
  ASSUME LET n == Len(submitted[Src][Dst]) + 1
         IN  /\ submitted'[Src][Dst] = Append(submitted[Src][Dst], currSeq[Src][Dst])
             /\ PairBuffered' = Append(PairBuffered, [id |-> n, seq |-> currSeq[Src][Dst]])
             /\ currSeq'[Src][Dst] = SeqInc(currSeq[Src][Dst]),
         PairReceiverSame, UNCHANGED <<PairWindow, PairData, PairAcks>>
  PROVE  Pair!Submit
  BY PairOperators DEF Pair!Submit, PairReceiverSame, Pair!receiverVars

LEMMA PairLoseData ==
  ASSUME PairSenderSame, PairReceiverSame, UNCHANGED PairAcks,
         NEW i \in DOMAIN PairData, PairData' = RemoveAt(PairData, i)
  PROVE  Pair!LoseData
  BY PairOperators DEF Pair!LoseData, PairSenderSame, PairReceiverSame,
     Pair!senderVars, Pair!receiverVars

LEMMA PairLoseAck ==
  ASSUME PairSenderSame, PairReceiverSame, UNCHANGED PairData,
         NEW i \in DOMAIN PairAcks, PairAcks' = RemoveAt(PairAcks, i)
  PROVE  Pair!LoseAck
  BY PairOperators DEF Pair!LoseAck, PairSenderSame, PairReceiverSame,
     Pair!senderVars, Pair!receiverVars

\* A frame is sent again.
LEMMA PairResend ==
  ASSUME PairBuffered \in Seq(Plains), PairWindow \in Seq(Plains), Len(PairWindow) <= W,
         PairData \in Seq(Plains), PairSenderSame, PairReceiverSame, UNCHANGED PairAcks,
         NEW i \in DOMAIN PairWindow, PairData' = PairData \o <<PairWindow[i]>>
  PROVE  Pair!SendFrames
<1> DEFINE x == PairWindow[i]
           again == [j \in 1 .. 1 |-> x]
<1>1. x \in Plains /\ x \in Pair!Range(PairWindow)
  BY LenProperties, ElementOfSeq DEF Pair!Range
<1>2. again = <<x>> /\ again \in [1 .. 1 -> Pair!Range(PairWindow)]
  BY <1>1
<1>3. 1 \in 0 .. W /\ 0 \in 0 .. Len(PairBuffered) /\ Len(PairWindow) + 0 <= W
  BY Constants, LenProperties
<1>4. SubSeq(PairBuffered, 1, 0) = << >> /\ SubSeq(PairBuffered, 0 + 1, Len(PairBuffered)) = PairBuffered
  <2> DEFINE b == PairBuffered
  <2>1. b \in Seq(Plains)  OBVIOUS
  <2> HIDE DEF b
  <2>2. SubSeq(b, 1, 0) = << >> /\ SubSeq(b, 1, Len(b)) = b
    BY <2>1
  <2> QED  BY <2>2 DEF b
<1>5. PairWindow \o << >> = PairWindow /\ (PairData \o <<x>>) \o << >> = PairData \o <<x>>
  <2> DEFINE d == PairData
             e == d \o <<x>>
             w == PairWindow
  <2>1. d \in Seq(Plains) /\ <<x>> \in Seq(Plains) /\ w \in Seq(Plains)  BY <1>1
  <2> HIDE DEF d, x, w
  <2>2. e \in Seq(Plains)  BY <2>1, ConcatProperties
  <2> HIDE DEF e
  <2>3. e \o << >> = e /\ w \o << >> = w  BY <2>1, <2>2, ConcatEmptySeq
  <2> QED  BY <2>3 DEF e, d, w
<1> HIDE DEF x, again
<1>6. /\ PairData' = (PairData \o again) \o SubSeq(PairBuffered, 1, 0)
      /\ PairWindow' = PairWindow \o SubSeq(PairBuffered, 1, 0)
      /\ PairBuffered' = SubSeq(PairBuffered, 0 + 1, Len(PairBuffered))
  BY <1>2, <1>4, <1>5 DEF PairSenderSame, x
<1>7. UNCHANGED <<submitted[Src][Dst], currSeq[Src][Dst], Pair!receiverVars, PairAcks>>
  BY DEF PairSenderSame, PairReceiverSame, Pair!receiverVars
<1>8. Pair!Within(Len(PairData) + 1 + 0, Unbounded) /\ 1 + 0 > 0
  BY PairOperators
<1> QED  BY <1>2, <1>3, <1>6, <1>7, <1>8 DEF Pair!SendFrames

\* The next new frame enters the window.
LEMMA PairRelease ==
  ASSUME PairBuffered \in Seq(Plains), PairWindow \in Seq(Plains), Len(PairWindow) < W,
         PairData \in Seq(Plains), PairBuffered # << >>,
         PairBuffered' = Tail(PairBuffered),
         PairWindow' = Append(PairWindow, Head(PairBuffered)),
         PairData' = Append(PairData, Head(PairBuffered)),
         UNCHANGED <<submitted[Src][Dst], currSeq[Src][Dst], PairAcks>>, PairReceiverSame
  PROVE  Pair!SendFrames
<1> DEFINE b == PairBuffered
           w == PairWindow
           d == PairData
           x == Head(b)
           again == [j \in 1 .. 0 |-> x]
<1>1. b \in Seq(Plains) /\ w \in Seq(Plains) /\ d \in Seq(Plains) /\ b # << >> /\ Len(w) < W
  OBVIOUS
<1>2. again = << >> /\ again \in [1 .. 0 -> Pair!Range(w)]
  OBVIOUS
<1> HIDE DEF b, w, d
<1>3. 0 \in 0 .. W /\ 1 \in 0 .. Len(b) /\ Len(w) + 1 <= W
  BY <1>1, Constants, LenProperties, EmptySeq
<1>4. x \in Plains /\ SubSeq(b, 1, 1) = <<x>> /\ SubSeq(b, 1 + 1, Len(b)) = Tail(b)
  <2>1. x = b[1] /\ x \in Plains  BY <1>1, HeadTailProperties
  <2>2. SubSeq(b, 1, 1) = <<b[1]>>
    <3>1. \A i \in 1 .. 1 : b[i] \in Plains  BY <2>1
    <3>2. /\ SubSeq(b, 1, 1) \in Seq(Plains) /\ Len(SubSeq(b, 1, 1)) = 1
          /\ \A i \in 1 .. 1 : SubSeq(b, 1, 1)[i] = b[1 + i - 1]
      BY <3>1, SubSeqProperties
    <3>3. SubSeq(b, 1, 1)[1] = b[1]  BY <3>2
    <3> DEFINE s == SubSeq(b, 1, 1)
               t == <<b[1]>>
    <3>4. t \in Seq(Plains) /\ Len(t) = 1 /\ t[1] = b[1]  BY <2>1
    <3> HIDE DEF s, t
    <3>5. s \in Seq(Plains) /\ Len(s) = 1 /\ s[1] = b[1]  BY <3>2, <3>3 DEF s
    <3>6. s = t  BY <3>4, <3>5, SeqEqual
    <3> QED  BY <3>6 DEF s, t
  <2>3. SubSeq(b, 1 + 1, Len(b)) = Tail(b)  BY <1>1, <1>3
  <2> QED  BY <2>1, <2>2, <2>3
<1>5. w \o <<x>> = Append(w, x) /\ (d \o << >>) \o <<x>> = Append(d, x)
  <2> HIDE DEF x
  <2> QED  BY <1>1, <1>4, AppendIsConcat, ConcatEmptySeq
<1> HIDE DEF x, again
<1>6. /\ PairData' = (d \o again) \o SubSeq(b, 1, 1)
      /\ PairWindow' = w \o SubSeq(b, 1, 1)
      /\ PairBuffered' = SubSeq(b, 1 + 1, Len(b))
  BY <1>2, <1>4, <1>5 DEF x, b, w, d
<1>7. UNCHANGED <<submitted[Src][Dst], currSeq[Src][Dst], Pair!receiverVars, PairAcks>>
  BY DEF PairReceiverSame, Pair!receiverVars
<1>8. Pair!Within(Len(d) + 0 + 1, Unbounded) /\ 0 + 1 > 0
  BY PairOperators
<1> QED  BY <1>2, <1>3, <1>6, <1>7, <1>8 DEF Pair!SendFrames, b, w, d

\* An acknowledgement is handled; the third duplicate may send a frame again.
LEMMA PairHandleAck ==
  ASSUME PairWindow \in Seq(Plains), PairData \in Seq(Plains), PairAcks # << >>,
         PairAcks' = Tail(PairAcks), PairReceiverSame,
         UNCHANGED <<submitted[Src][Dst], currSeq[Src][Dst], PairBuffered>>,
         LET seq == Head(PairAcks).seq
         IN  /\ \/ PairData' = PairData
                \/ \E i \in DOMAIN PairWindow : /\ PairWindow[i].seq = SeqInc(seq)
                                              /\ PairData' = PairData \o <<PairWindow[i]>>
             /\ PairWindow' = SubSeq(PairWindow, Pair!Acknowledged(seq) + 1, Len(PairWindow))
  PROVE  Pair!HandleAck
<1> DEFINE seq == Head(PairAcks).seq
<1>1. \E again \in Pair!FastRetransmit(seq) : PairData' = PairData \o again
  <2>1. CASE PairData' = PairData
    <3>1. PairData \o << >> = PairData  BY ConcatEmptySeq
    <3> QED  BY <2>1, <3>1 DEF Pair!FastRetransmit
  <2>2. CASE \E i \in DOMAIN PairWindow : /\ PairWindow[i].seq = SeqInc(seq)
                                         /\ PairData' = PairData \o <<PairWindow[i]>>
    BY <2>2, PairOperators DEF Pair!FastRetransmit
  <2> QED  BY <2>1, <2>2
<1> HIDE DEF seq
<1>2. \E again \in Pair!FastRetransmit(seq) :
         Pair!Within(Len(PairData) + Len(again), Unbounded) /\ PairData' = PairData \o again
  BY <1>1, PairOperators
<1>3. UNCHANGED <<submitted[Src][Dst], currSeq[Src][Dst], PairBuffered, Pair!receiverVars>>
  BY DEF PairReceiverSame, Pair!receiverVars
<1> QED  BY <1>2, <1>3 DEF Pair!HandleAck, seq

\* A frame is handled.
LEMMA PairHandleFrame ==
  ASSUME PairData # << >>, PairData' = Tail(PairData), PairSenderSame,
         LET f     == Head(PairData)
             place == SeqNumDiff(lfr[Dst][Src], f.seq)
             slots == [PairSlots EXCEPT ![place] = f]
             run   == Run(slots)
         IN  IF place \in 1 .. W
             THEN /\ PairSlots' = [i \in 1 .. W |-> IF i + run <= W THEN slots[i + run]
                                                  ELSE NoFrame]
                  /\ handed'[Dst][Src] = handed[Dst][Src] \o [i \in 1 .. run |-> slots[i].id]
                  /\ lfr'[Dst][Src] = SeqAdd(lfr[Dst][Src], run)
             ELSE PairReceiverSame,
         PairAcks' = Append(PairAcks, [id |-> Len(handed'[Dst][Src]), seq |-> lfr'[Dst][Src]])
  PROVE  Pair!HandleFrame
<1> DEFINE f     == Head(PairData)
           place == SeqNumDiff(lfr[Dst][Src], f.seq)
           slots == [PairSlots EXCEPT ![place] = f]
           run   == Run(slots)
<1>1. /\ Pair!SeqNumDiff(lfr[Dst][Src], f.seq) = place /\ Pair!Run(slots) = run
      /\ Pair!SeqAdd(lfr[Dst][Src], run) = SeqAdd(lfr[Dst][Src], run)
      /\ Pair!Within(Len(PairAcks) + 1, Unbounded)
  BY PairOperators
<1>2. UNCHANGED Pair!senderVars
  BY DEF PairSenderSame, Pair!senderVars
<1>3. ~(place \in 1 .. W) => UNCHANGED Pair!receiverVars
  BY DEF PairReceiverSame, Pair!receiverVars
<1>4. CASE place \in 1 .. W
  <2>1. /\ PairSlots' = [i \in 1 .. W |-> IF i + run <= W THEN slots[i + run] ELSE NoFrame]
        /\ handed'[Dst][Src] = handed[Dst][Src] \o [i \in 1 .. run |-> slots[i].id]
        /\ lfr'[Dst][Src] = SeqAdd(lfr[Dst][Src], run)
    BY <1>4
  <2> DEFINE place2 == Pair!SeqNumDiff(lfr[Dst][Src], f.seq)
             slots2 == [PairSlots EXCEPT ![place2] = f]
             run2   == Pair!Run(slots2)
  <2>2. place2 = place  BY <1>1
  <2>3. slots2 = slots
    <3> HIDE DEF place2, place
    <3> QED  BY <2>2
  <2>4. run2 = run
    <3> HIDE DEF slots2, slots
    <3> QED  BY <2>3, PairOperators
  <2>5. /\ place2 \in 1 .. W
        /\ PairSlots' = [i \in 1 .. W |-> IF i + run2 <= W THEN slots2[i + run2] ELSE NoFrame]
        /\ handed'[Dst][Src] = handed[Dst][Src] \o [i \in 1 .. run2 |-> slots2[i].id]
        /\ lfr'[Dst][Src] = Pair!SeqAdd(lfr[Dst][Src], run2)
    <3> HIDE DEF run2, run, slots2, slots, place2, place
    <3> QED  BY <1>4, <2>1, <2>2, <2>3, <2>4, PairOperators
  <2> QED  BY <1>1, <1>2, <2>5, Zenon DEF Pair!HandleFrame
<1>5. CASE ~(place \in 1 .. W)
  <2>1. UNCHANGED Pair!receiverVars  BY <1>3, <1>5
  <2> QED  BY <1>1, <1>2, <1>5, <2>1, Zenon DEF Pair!HandleFrame
<1> QED  BY <1>4, <1>5

LEMMA InFlightParts ==
  ASSUME TypeInv, NEW kind, NEW from \in Hosts, NEW to \in Hosts
  PROVE  /\ Selected(incoming[to], kind, from, to) \in Seq(Plains)
         /\ Selected(outgoing[from], kind, from, to) \in Seq(Plains)
         /\ InFlight(incoming, outgoing, kind, from, to) \in Seq(Plains)
<1>1. incoming[to] \in Seq(Frames) /\ outgoing[from] \in Seq(Frames)
  BY HostTypes
<1> DEFINE a == Selected(incoming[to], kind, from, to)
           b == Selected(outgoing[from], kind, from, to)
<1>2. a \in Seq(Plains) /\ b \in Seq(Plains)
  BY <1>1, SelectedType
<1>3. InFlight(incoming, outgoing, kind, from, to) = a \o b
  BY DEF InFlight
<1> HIDE DEF a, b
<1>4. a \o b \in Seq(Plains)
  BY <1>2, ConcatProperties
<1> QED  BY <1>2, <1>3, <1>4 DEF a, b

\* The first frame f of an outgoing queue goes to the switch, which passes it
\* on, corrupts it or drops it.
Switched(h, f) ==
  /\ outgoing[h] # << >> /\ f = Head(outgoing[h]) /\ f.src = h
  /\ outgoing' = [outgoing EXCEPT ![h] = Tail(@)]
  /\ \/ incoming' = incoming
     \/ incoming' = [incoming EXCEPT ![f.dst] = Append(@, f)]
     \/ incoming' = [incoming EXCEPT ![f.dst] = Append(@, Corrupt)]

LEMMA InFlightSent ==
  ASSUME TypeInv, NEW kind, kind # "corrupt", NEW from \in Hosts, NEW to \in Hosts,
         NEW h \in Hosts, NEW f, Switched(h, f)
  PROVE  LET flight == InFlight(incoming, outgoing, kind, from, to)
             next   == InFlight(incoming', outgoing', kind, from, to)
         IN  \/ next = flight
             \/ /\ Goes(f, kind, from, to)
                /\ \E i \in DOMAIN flight : next = RemoveAt(flight, i)
<1> DEFINE a  == Selected(incoming[to], kind, from, to)
           b  == Selected(outgoing[from], kind, from, to)
           a2 == Selected(incoming'[to], kind, from, to)
           b2 == Selected(outgoing'[from], kind, from, to)
           p  == Plain(f)
<1>0. /\ outgoing[h] # << >> /\ f = Head(outgoing[h]) /\ f.src = h
      /\ outgoing' = [outgoing EXCEPT ![h] = Tail(@)]
      /\ \/ incoming' = incoming
         \/ incoming' = [incoming EXCEPT ![f.dst] = Append(@, f)]
         \/ incoming' = [incoming EXCEPT ![f.dst] = Append(@, Corrupt)]
  BY DEF Switched
<1>1. /\ \A g \in Hosts : incoming[g] \in Seq(Frames) /\ outgoing[g] \in Seq(Frames)
      /\ incoming \in [Hosts -> Seq(Frames)] /\ outgoing \in [Hosts -> Seq(Frames)]
  BY HostTypes DEF TypeInv, TypeOK
<1>2. f \in Frames /\ Tail(outgoing[h]) \in Seq(Frames) /\ f.dst \in Hosts
  BY <1>0, <1>1, HeadFrame
<1>3. /\ outgoing'[from] = IF from = h THEN Tail(outgoing[h]) ELSE outgoing[from]
  BY <1>0, <1>1
<1>4. \/ incoming'[to] = incoming[to]
      \/ to = f.dst /\ incoming'[to] = Append(incoming[to], f)
      \/ incoming'[to] = Append(incoming[to], Corrupt)
  BY <1>0, <1>1, <1>2
<1>5. Corrupt \in Frames /\ ~Goes(Corrupt, kind, from, to)
  BY CorruptFrame DEF Goes, Corrupt
<1>6. IF Goes(f, kind, from, to) THEN b # << >> /\ Head(b) = p /\ Tail(b) = b2 ELSE b2 = b
  <2>1. CASE from = h
    <3>1. LET all  == Selected(outgoing[h], kind, from, to)
              rest == Selected(Tail(outgoing[h]), kind, from, to)
          IN  IF Goes(f, kind, from, to) THEN all # << >> /\ Head(all) = p /\ Tail(all) = rest
              ELSE all = rest
      BY <1>0, <1>1, SelectedTail
    <3> QED  BY <1>3, <2>1, <3>1
  <2>2. CASE from # h
    BY <1>0, <1>3, <2>2 DEF Goes
  <2> QED  BY <2>1, <2>2
<1>7. \/ a2 = a
      \/ Goes(f, kind, from, to) /\ a2 = Append(a, p)
  <2>1. CASE incoming'[to] = incoming[to]
    BY <2>1
  <2>2. CASE incoming'[to] = Append(incoming[to], f)
    BY <1>1, <1>2, <2>2, SelectedAppend
  <2>3. CASE incoming'[to] = Append(incoming[to], Corrupt)
    BY <1>1, <1>5, <2>3, SelectedAppend
  <2> QED  BY <1>4, <2>1, <2>2, <2>3
<1>8. a \in Seq(Plains) /\ b \in Seq(Plains)
  BY InFlightParts
<1>9. InFlight(incoming, outgoing, kind, from, to) = a \o b /\ InFlight(incoming', outgoing', kind, from, to) = a2 \o b2
  BY DEF InFlight
<1> HIDE DEF a, b, a2, b2, p
<1>10. CASE ~Goes(f, kind, from, to)
  BY <1>6, <1>7, <1>9, <1>10
<1>11. CASE Goes(f, kind, from, to)
  <2>1. b # << >> /\ Head(b) = p /\ Tail(b) = b2  BY <1>6, <1>11
  <2>4. /\ Append(a, Head(b)) \o Tail(b) = a \o b
        /\ Len(a) + 1 \in DOMAIN (a \o b)
        /\ a \o Tail(b) = RemoveAt(a \o b, Len(a) + 1)
    <3>1. b # << >>  BY <2>1
    <3> QED  BY <1>8, <3>1, TwoLists
  <2>2. Append(a, p) \o b2 = a \o b  BY <2>1, <2>4
  <2>3. \E i \in DOMAIN (a \o b) : a \o b2 = RemoveAt(a \o b, i)
    BY <2>1, <2>4
  <2> QED  BY <1>7, <1>9, <1>11, <2>2, <2>3
<1> QED  BY <1>10, <1>11

Takes(h) == incoming[h] # << >> /\ incoming' = [incoming EXCEPT ![h] = Tail(@)]

\* The first frame of an incoming queue is handled, and frames are sent.
LEMMA InFlightTaken ==
  ASSUME TypeInv, NEW kind, NEW from \in Hosts, NEW to \in Hosts,
         NEW h \in Hosts, Takes(h), NEW more \in Seq(Plains),
         Selected(outgoing'[from], kind, from, to)
           = Selected(outgoing[from], kind, from, to) \o more
  PROVE  LET f      == Head(incoming[h])
             flight == InFlight(incoming, outgoing, kind, from, to)
             next   == InFlight(incoming', outgoing', kind, from, to)
         IN  IF h = to /\ Goes(f, kind, from, to)
             THEN flight # << >> /\ Head(flight) = Plain(f) /\ next = Tail(flight) \o more
             ELSE next = flight \o more
<1> DEFINE f  == Head(incoming[h])
           a  == Selected(incoming[to], kind, from, to)
           b  == Selected(outgoing[from], kind, from, to)
           a2 == Selected(incoming'[to], kind, from, to)
           b2 == Selected(outgoing'[from], kind, from, to)
           p  == Plain(f)
<1>1. incoming[h] \in Seq(Frames) /\ incoming \in [Hosts -> Seq(Frames)]
  BY HostTypes DEF TypeInv, TypeOK
<1>2. incoming[h] # << >> /\ incoming'[to] = IF to = h THEN Tail(incoming[h]) ELSE incoming[to]
  BY <1>1 DEF Takes
<1>3. IF h = to /\ Goes(f, kind, from, to) THEN a # << >> /\ Head(a) = p /\ Tail(a) = a2
      ELSE a2 = a
  <2>1. CASE to = h
    <3>1. LET all  == Selected(incoming[h], kind, from, to)
              rest == Selected(Tail(incoming[h]), kind, from, to)
          IN  IF Goes(f, kind, from, to) THEN all # << >> /\ Head(all) = p /\ Tail(all) = rest
              ELSE all = rest
      BY <1>1, <1>2, SelectedTail
    <3> QED  BY <1>2, <2>1, <3>1
  <2>2. CASE to # h
    BY <1>2, <2>2
  <2> QED  BY <2>1, <2>2
<1>4. a \in Seq(Plains) /\ b \in Seq(Plains) /\ b2 = b \o more /\ more \in Seq(Plains)
  BY InFlightParts
<1>5. InFlight(incoming, outgoing, kind, from, to) = a \o b /\ InFlight(incoming', outgoing', kind, from, to) = a2 \o b2
  BY DEF InFlight
<1> HIDE DEF a, b, a2, b2, p, f
<1>6. CASE h = to /\ Goes(f, kind, from, to)
  <2>1. a # << >> /\ Head(a) = p /\ Tail(a) = a2  BY <1>3, <1>6
  <2>2. a2 \in Seq(Plains)  BY <1>4, <2>1, HeadTailProperties
  <2>3. a \o b # << >> /\ Head(a \o b) = p /\ Tail(a \o b) = a2 \o b
    BY <1>4, <2>1, TwoLists, ZenonT(40)
  <2>4. a2 \o (b \o more) = (a2 \o b) \o more
    <3>1. b \in Seq(Plains) /\ more \in Seq(Plains)  BY <1>4
    <3> QED  BY <2>2, <3>1, ConcatAssociative
  <2> QED  BY <1>4, <1>5, <1>6, <2>3, <2>4 DEF p, f
<1>7. CASE ~(h = to /\ Goes(f, kind, from, to))
  <2>1. a \o (b \o more) = (a \o b) \o more
    BY <1>4, ConcatAssociative, SMTT(40)
  <2> QED  BY <1>3, <1>4, <1>5, <1>7, <2>1 DEF f
<1> QED  BY <1>6, <1>7

\* Frames join the outgoing queue of a host.
Sends(h, more) == outgoing' = [outgoing EXCEPT ![h] = @ \o more]

LEMMA SelectedSent ==
  ASSUME TypeInv, NEW kind, NEW from \in Hosts, NEW to \in Hosts,
         NEW h \in Hosts, NEW more \in Seq(Frames),
         Sends(h, more)
  PROVE  LET old == Selected(outgoing[from], kind, from, to)
             new == Selected(outgoing'[from], kind, from, to)
         IN  /\ h = from => new = old \o Selected(more, kind, from, to)
             /\ h # from => new = old \o << >>
<1>1. outgoing[from] \in Seq(Frames) /\ outgoing \in [Hosts -> Seq(Frames)]
  BY HostTypes DEF TypeInv, TypeOK
<1>2. CASE h = from
  <2>1. outgoing'[from] = outgoing[from] \o more  BY <1>1, <1>2 DEF Sends
  <2> QED  BY <1>1, <1>2, <2>1, SelectedConcat
<1>3. CASE h # from
  <2> DEFINE q == Selected(outgoing[from], kind, from, to)
  <2>1. outgoing'[from] = outgoing[from]  BY <1>1, <1>3 DEF Sends
  <2>2. q \in Seq(Plains)  BY InFlightParts
  <2> HIDE DEF q
  <2>3. q \o << >> = q  BY <2>2, ConcatEmptySeq
  <2> QED  BY <1>3, <2>1, <2>3 DEF q
<1> QED  BY <1>2, <1>3

LEMMA PairTypes ==
  ASSUME TypeInv
  PROVE  /\ PairBuffered \in Seq(Plains) /\ PairData \in Seq(Plains) /\ PairAcks \in Seq(Plains)
         /\ PairWindow \in Seq(Plains) /\ Len(PairWindow) = Len(window[Src][Dst])
         /\ Len(PairWindow) <= W /\ DOMAIN PairWindow = 1 .. Len(window[Src][Dst])
         /\ \A i \in 1 .. Len(window[Src][Dst]) :
              PairWindow[i] = Plain(window[Src][Dst][i].frame)
<1>1. Src \in Hosts /\ Dst \in Hosts
  BY Constants
<1>2. PairBuffered \in Seq(Plains)
  <2>1. buffered[Src] \in Seq(Frames)  BY <1>1, HostTypes
  <2> QED  BY <2>1, SelectedType DEF PairBuffered
<1>3. PairData \in Seq(Plains) /\ PairAcks \in Seq(Plains)
  BY <1>1, InFlightParts DEF PairData, PairAcks
<1> DEFINE w == window[Src][Dst]
<1>4. w \in Seq(Slots(Frames)) /\ Len(w) <= W
  BY <1>1, HostTypes
<1>5. Len(w) \in Nat /\ DOMAIN w = 1 .. Len(w) /\ \A i \in 1 .. Len(w) : w[i].frame \in Frames
  <2>1. Len(w) \in Nat /\ DOMAIN w = 1 .. Len(w)  BY <1>4, LenProperties
  <2>2. \A i \in 1 .. Len(w) : w[i] \in Slots(Frames)  BY <1>4, ElementOfSeq
  <2> QED  BY <2>1, <2>2 DEF Slots
<1>6. PairWindow = [i \in DOMAIN w |-> Plain(w[i].frame)]
  BY DEF PairWindow
<1> HIDE DEF w
<1>7. \A i \in 1 .. Len(w) : Plain(w[i].frame) \in Plains
  BY <1>5, PlainType
<1>8. /\ PairWindow \in Seq(Plains) /\ Len(PairWindow) = Len(w) /\ DOMAIN PairWindow = 1 .. Len(w)
      /\ \A i \in 1 .. Len(w) : PairWindow[i] = Plain(w[i].frame)
  BY <1>5, <1>6, <1>7
<1> QED  BY <1>2, <1>3, <1>4, <1>8 DEF w

\* Timers do not matter.
LEMMA PairWindowSame ==
  ASSUME TypeInv, window'[Src][Dst] \in Seq(Slots(Frames)),
         SameFrames(window[Src][Dst], window'[Src][Dst])
  PROVE  PairWindow' = PairWindow
<1> DEFINE w == window[Src][Dst]
           v == window'[Src][Dst]
<1>1. w \in Seq(Slots(Frames)) /\ v \in Seq(Slots(Frames))
  BY Constants, HostTypes
<1>2. Len(v) = Len(w) /\ \A j \in 1 .. Len(w) : v[j].frame = w[j].frame
  BY DEF SameFrames
<1>3. PairWindow = [i \in DOMAIN w |-> Plain(w[i].frame)]
      /\ PairWindow' = [i \in DOMAIN v |-> Plain(v[i].frame)]
  BY DEF PairWindow
<1> HIDE DEF w, v
<1>4. DOMAIN w = 1 .. Len(w) /\ DOMAIN v = 1 .. Len(v)
  BY <1>1, LenProperties
<1> QED  BY <1>2, <1>3, <1>4

\* What does not touch the frames does not show.
LEMMA QuietStep ==
  ASSUME UNCHANGED <<buffered, window, incoming, outgoing, submitted, currSeq,
                     recvWindow, lfr, handed>>
  PROVE  PairSame
  BY DEF PairSame, PairSenderSame, PairReceiverSame, PairBuffered, PairWindow, PairData,
     PairAcks, InFlight, PairSlots

LEMMA TimerStep ==
  ASSUME TypeInv, Tick \/ HandleTimedoutFrames
  PROVE  PairSame
<1>1. window[Src][Dst] \in Seq(Slots(Frames)) /\ Src \in Hosts /\ Dst \in Hosts
  BY Constants, HostTypes
<1>2. /\ window'[Src][Dst] \in Seq(Slots(Frames))
      /\ SameFrames(window[Src][Dst], window'[Src][Dst])
  BY <1>1, TickPair, TimeoutPair
<1>3. PairWindow' = PairWindow
  BY <1>2, PairWindowSame
<1>4. UNCHANGED <<buffered, incoming, outgoing, submitted, currSeq, recvWindow, lfr, handed>>
  BY DEF Tick, HandleTimedoutFrames, queues, recving, history
<1> QED  BY <1>3, <1>4 DEF PairSame, PairSenderSame, PairReceiverSame, PairBuffered, PairData,
             PairAcks, InFlight, PairSlots

\* A corrupted frame or acknowledgement is dropped.
LEMMA DropStep ==
  ASSUME TypeInv, DropCorruptAck \/ DropCorruptFrame
  PROVE  PairSame
<1>1. PICK h \in Hosts : /\ incoming[h] # << >> /\ Head(incoming[h]).kind = "corrupt"
                         /\ incoming' = [incoming EXCEPT ![h] = Tail(@)]
  <2>1. CASE DropCorruptAck
    <3>1. cur \in Hosts /\ incoming[cur] # << >>
      BY <2>1 DEF DropCorruptAck, TypeInv, TypeOK, TurnInv, Senders, NoHost
    <3> QED  BY <2>1, <3>1 DEF DropCorruptAck
  <2>2. CASE DropCorruptFrame
    BY <2>2 DEF DropCorruptFrame, Pending
  <2> QED  BY <2>1, <2>2
<1>2. UNCHANGED <<buffered, window, outgoing, submitted, currSeq, recvWindow, lfr, handed>>
  BY DEF DropCorruptAck, DropCorruptFrame, sending, recving, history
<1>3. ASSUME NEW kind \in {"data", "ack"}, NEW from \in Hosts, NEW to \in Hosts
      PROVE  InFlight(incoming', outgoing', kind, from, to) = InFlight(incoming, outgoing, kind, from, to)
  <2> DEFINE fl  == InFlight(incoming, outgoing, kind, from, to)
             fl2 == InFlight(incoming', outgoing', kind, from, to)
             q == Selected(outgoing[from], kind, from, to)
  <2>1. q \in Seq(Plains) /\ fl \in Seq(Plains)  BY InFlightParts
  <2>2. q \o << >> = q /\ fl \o << >> = fl
    <3> HIDE DEF q, fl
    <3> QED  BY <2>1, ConcatEmptySeq
  <2>3. Selected(outgoing'[from], kind, from, to) = q \o << >>  BY <1>2, <2>2
  <2>4. ~Goes(Head(incoming[h]), kind, from, to)  BY <1>1 DEF Goes
  <2> DEFINE e == << >>
  <2>5. e \in Seq(Plains)  BY EmptySeq
  <2>6. fl2 = fl \o e
    <3>1. Selected(outgoing'[from], kind, from, to) = q \o e  BY <2>3
    <3> HIDE DEF e
    <3>2. Takes(h)  BY <1>1 DEF Takes
    <3>3. LET f == Head(incoming[h])
          IN  IF h = to /\ Goes(f, kind, from, to)
              THEN fl # << >> /\ Head(fl) = Plain(f) /\ fl2 = Tail(fl) \o e
              ELSE fl2 = fl \o e
      BY <2>5, <3>1, <3>2, InFlightTaken
    <3> QED  BY <2>4, <3>3
  <2> QED  BY <2>2, <2>6
<1>4. UNCHANGED <<PairData, PairAcks>>
  BY <1>3, Constants DEF PairData, PairAcks
<1> QED  BY <1>2, <1>4 DEF PairSame, PairSenderSame, PairReceiverSame, PairBuffered, PairWindow,
             PairSlots

\* handle_input_cmds gives the next frame of the stream its number.
LEMMA SubmitStep ==
  ASSUME FlowInv, HandleInputCmds
  PROVE  PairSame \/ Pair!Submit
<1> DEFINE c == Head(cmds[cur])
           d == c.dst
           n == Len(submitted[cur][d]) + 1
           f == [kind |-> "data", src |-> cur, dst |-> d, seq |-> currSeq[cur][d],
                 rem |-> c.left - 1, id |-> n]
<1>1. TypeInv /\ CommandInv /\ Src \in Hosts /\ Dst \in Hosts
  BY Constants DEF FlowInv
<1>2. /\ cur \in Hosts /\ d \in Hosts /\ f \in Frames
      /\ buffered' = [buffered EXCEPT ![cur] = Append(buffered[cur], f)]
      /\ submitted' = [submitted EXCEPT ![cur][d] = Append(submitted[cur][d], currSeq[cur][d])]
  BY <1>1, NewFrame, NewFragment DEF DataFrom, Frames
<1>3. currSeq' = [currSeq EXCEPT ![cur][d] = SeqInc(@)]
  BY DEF HandleInputCmds
<1>4. UNCHANGED <<window, incoming, outgoing, recvWindow, lfr, handed>>
  BY DEF HandleInputCmds, recving
<1>5. PairReceiverSame /\ UNCHANGED <<PairWindow, PairData, PairAcks>>
  BY <1>4 DEF PairReceiverSame, PairWindow, PairData, PairAcks, PairSlots
<1>6. /\ buffered \in [Hosts -> Seq(Frames)] /\ buffered[Src] \in Seq(Frames)
      /\ currSeq \in [Hosts -> [Hosts -> SeqNums]]
      /\ submitted \in [Hosts -> [Hosts -> Seq(SeqNums)]]
  BY <1>1, HostTypes DEF TypeInv, TypeOK, HistoryOK
<1>7. f.kind = "data" /\ f.src = cur /\ f.dst = d /\ Plain(f) = [id |-> n, seq |-> currSeq[cur][d]]
  BY DEF Plain
<1> HIDE DEF f, d
<1>8. CASE cur = Src /\ d = Dst
  <2>1. submitted'[Src][Dst] = Append(submitted[Src][Dst], currSeq[Src][Dst])
    BY <1>1, <1>2, <1>6, <1>8
  <2>2. currSeq'[Src][Dst] = SeqInc(currSeq[Src][Dst])
    BY <1>1, <1>3, <1>6, <1>8
  <2>3. buffered'[Src] = Append(buffered[Src], f)
    BY <1>1, <1>2, <1>6, <1>8
  <2>4. PairBuffered' = Append(PairBuffered, Plain(f))
    BY <1>2, <1>6, <1>7, <1>8, <2>3, SelectedAppend DEF PairBuffered, Goes
  <2>5. Plain(f) = [id |-> Len(submitted[Src][Dst]) + 1, seq |-> currSeq[Src][Dst]]
    BY <1>7, <1>8
  <2> QED  BY <1>5, <2>1, <2>2, <2>4, <2>5, PairSubmit
<1>9. CASE ~(cur = Src /\ d = Dst)
  <2>1. submitted'[Src][Dst] = submitted[Src][Dst] /\ currSeq'[Src][Dst] = currSeq[Src][Dst]
    BY <1>1, <1>2, <1>3, <1>6, <1>9
  <2>2. buffered'[Src] = IF cur = Src THEN Append(buffered[Src], f) ELSE buffered[Src]
    BY <1>1, <1>2, <1>6
  <2>3. ~Goes(f, "data", Src, Dst)
    BY <1>7, <1>9 DEF Goes
  <2>4. PairBuffered' = PairBuffered
    BY <1>2, <1>6, <2>2, <2>3, SelectedAppend DEF PairBuffered
  <2> QED  BY <1>5, <2>1, <2>4 DEF PairSame, PairSenderSame
<1> QED  BY <1>8, <1>9

\* Frames are sent and none is taken.
LEMMA InFlightMore ==
  ASSUME TypeInv, NEW kind, NEW from \in Hosts, NEW to \in Hosts, incoming' = incoming,
         NEW more \in Seq(Plains),
         Selected(outgoing'[from], kind, from, to)
           = Selected(outgoing[from], kind, from, to) \o more
  PROVE  InFlight(incoming', outgoing', kind, from, to)
           = InFlight(incoming, outgoing, kind, from, to) \o more
<1> DEFINE a == Selected(incoming[to], kind, from, to)
           b == Selected(outgoing[from], kind, from, to)
<1>1. a \in Seq(Plains) /\ b \in Seq(Plains)
  BY InFlightParts
<1>2. InFlight(incoming, outgoing, kind, from, to) = a \o b
  BY DEF InFlight
<1>3. InFlight(incoming', outgoing', kind, from, to) = a \o (b \o more)
  BY DEF InFlight
<1> HIDE DEF a, b
<1>4. a \o (b \o more) = (a \o b) \o more
  BY <1>1, ConcatAssociative, SMTT(40)
<1> QED  BY <1>2, <1>3, <1>4

\* What retransmit_frame sends again is a frame of its window.
Repeats(slots, seq, more) ==
  \/ more = << >> /\ Hits(slots, seq) = {}
  \/ \E j \in 1 .. Len(slots) : /\ more = <<Plain(slots[j].frame)>>
                               /\ slots[j].frame.seq = seq

LEMMA CopySelected ==
  ASSUME TypeInv, WindowInv, NEW h \in Hosts, NEW p \in Hosts, NEW seq,
         NEW kind, NEW from, NEW to
  PROVE  LET copy == Copy(window[h][p], seq)
             sel  == Selected(copy, kind, from, to)
         IN  /\ copy \in Seq(Frames) /\ sel \in Seq(Plains)
             /\ kind = "data" /\ from = h /\ to = p => Repeats(window[h][p], seq, sel)
             /\ ~(kind = "data" /\ from = h /\ to = p) => sel = << >>
<1> DEFINE slots == window[h][p]
           copy  == Copy(slots, seq)
           sel   == Selected(copy, kind, from, to)
           mine  == kind = "data" /\ from = h /\ to = p
<1>1. slots \in Seq(Slots(Between(h, p)))
  BY DEF WindowInv
<1>2. ASSUME NEW f \in Between(h, p)
      PROVE  f \in Frames /\ <<f>> \in Seq(Frames) /\ (Goes(f, kind, from, to) <=> mine)
  <2>1. f \in Frames /\ f.kind = "data" /\ f.src = h /\ f.dst = p
    BY DEF Between, DataFrom
  <2>2. Goes(f, kind, from, to) <=> mine
    BY <2>1 DEF Goes
  <2> QED  BY <2>1, <2>2
<1> HIDE DEF slots, mine
<1>3. CASE copy = << >>
  <2>1. copy \in Seq(Frames)  BY <1>3, EmptySeq
  <2>2. \A i \in DOMAIN copy : ~Goes(copy[i], kind, from, to)  BY <1>3
  <2>3. sel = << >>
    <3> HIDE DEF copy
    <3> QED  BY <2>1, <2>2, SelectedNone
  <2>4. Hits(slots, seq) = {}
    BY <1>3 DEF Copy
  <2>5. sel \in Seq(Plains)  BY <2>3, EmptySeq
  <2> QED  BY <2>1, <2>3, <2>4, <2>5 DEF slots, mine, Repeats
<1>4. ASSUME NEW j \in 1 .. Len(slots), copy = <<slots[j].frame>>,
             slots[j].frame \in Between(h, p), slots[j].frame.seq = seq
      PROVE  /\ copy \in Seq(Frames) /\ sel = IF mine THEN <<Plain(slots[j].frame)>> ELSE << >>
             /\ sel \in Seq(Plains)
  <2> DEFINE f == slots[j].frame
  <2>0. f \in Between(h, p)  BY <1>4
  <2> HIDE DEF f
  <2>1. f \in Frames /\ <<f>> \in Seq(Frames) /\ (Goes(f, kind, from, to) <=> mine)
    BY <1>2, <2>0
  <2>2. Selected(<<f>>, kind, from, to)
          = IF Goes(f, kind, from, to) THEN <<Plain(f)>> ELSE << >>
    BY <2>1, SelectedOne
  <2>3. sel \in Seq(Plains)
    <3>1. copy \in Seq(Frames)  BY <1>4, <2>1 DEF f
    <3> HIDE DEF copy
    <3> QED  BY <3>1, SelectedType
  <2> QED  BY <1>4, <2>1, <2>2, <2>3 DEF f
<1>5. copy = << >> \/ \E j \in 1 .. Len(slots) : /\ copy = <<slots[j].frame>>
                                               /\ slots[j].frame \in Between(h, p)
                                               /\ slots[j].frame.seq = seq
  BY <1>1, CopyFacts
<1> QED  BY <1>3, <1>4, <1>5 DEF slots, mine, Repeats

\* The copy is appended to the frames of the host.
Longer(old, new, slots, seq) ==
  \E more \in Seq(Plains) : new = old \o more /\ Repeats(slots, seq, more)

LEMMA CopySent ==
  ASSUME TypeInv, WindowInv, NEW h \in Hosts, NEW p \in Hosts, NEW seq,
         Sends(h, Copy(window[h][p], seq)),
         NEW kind, NEW from \in Hosts, NEW to \in Hosts
  PROVE  LET old == Selected(outgoing[from], kind, from, to)
             new == Selected(outgoing'[from], kind, from, to)
         IN  /\ kind = "data" /\ from = h /\ to = p => Longer(old, new, window[h][p], seq)
             /\ ~(kind = "data" /\ from = h /\ to = p) => new = old
<1> DEFINE copy == Copy(window[h][p], seq)
           sel  == Selected(copy, kind, from, to)
           more == IF h = from THEN sel ELSE << >>
           old  == Selected(outgoing[from], kind, from, to)
           new  == Selected(outgoing'[from], kind, from, to)
<1>1. /\ copy \in Seq(Frames) /\ sel \in Seq(Plains)
      /\ kind = "data" /\ from = h /\ to = p => Repeats(window[h][p], seq, sel)
      /\ ~(kind = "data" /\ from = h /\ to = p) => sel = << >>
  BY CopySelected
<1>2. Sends(h, copy)
  OBVIOUS
<1> HIDE DEF copy
<1>3. new = old \o more
  <2>1. copy \in Seq(Frames)  BY <1>1
  <2>2. (h = from => new = old \o sel) /\ (h # from => new = old \o << >>)
    BY <1>2, <2>1, SelectedSent, ZenonT(40)
  <2> HIDE DEF old, new, sel
  <2> QED  BY <2>2
<1>4. more \in Seq(Plains)
  BY <1>1, EmptySeq
<1> HIDE DEF sel
<1>5. /\ kind = "data" /\ from = h /\ to = p => Repeats(window[h][p], seq, more)
      /\ ~(kind = "data" /\ from = h /\ to = p) => more = << >>
  BY <1>1
<1>6. old \o << >> = old
  <2>1. old \in Seq(Plains)  BY InFlightParts
  <2> HIDE DEF old
  <2> QED  BY <2>1, ConcatEmptySeq
<1> HIDE DEF more, old, new
<1>7. kind = "data" /\ from = h /\ to = p => Longer(old, new, window[h][p], seq)
  BY <1>3, <1>4, <1>5 DEF Longer
<1>8. ~(kind = "data" /\ from = h /\ to = p) => new = old
  BY <1>3, <1>5, <1>6
<1> QED  BY <1>7, <1>8 DEF old, new

\* Both programs count the slots an acknowledgement frees alike.
LEMMA PairAcknowledged ==
  ASSUME TypeInv, NEW seq
  PROVE  Pair!Acknowledged(seq) = Acknowledged(window[Src][Dst], seq)
<1> DEFINE w    == window[Src][Dst]
           v    == PairWindow
           hits == {i \in DOMAIN v : v[i].seq = seq}
<1>1. /\ w \in Seq(Slots(Frames)) /\ v \in Seq(Plains) /\ Len(v) = Len(w)
      /\ DOMAIN v = 1 .. Len(w) /\ DOMAIN w = 1 .. Len(w)
      /\ \A i \in 1 .. Len(w) : v[i] = Plain(w[i].frame)
  BY Constants, HostTypes, PairTypes, LenProperties
<1>2. Pair!Acknowledged(seq) = IF v = << >> \/ SeqNumDiff(Head(v).seq, seq) < 0 \/ hits = {}
                               THEN 0 ELSE CHOOSE i \in hits : \A j \in hits : i <= j
  BY PairOperators DEF Pair!Acknowledged
<1> HIDE DEF v, w
<1>3. hits = Hits(w, seq)
  BY <1>1 DEF Hits, Plain
<1>4. v = << >> <=> w = << >>
  BY <1>1, EmptySeq
<1>5. w # << >> => Head(v).seq = Head(w).frame.seq
  <2> HAVE w # << >>
  <2>1. Head(v) = v[1] /\ Head(w) = w[1] /\ 1 \in 1 .. Len(w)
    BY <1>1, <1>4, HeadTailProperties, EmptySeq, LenProperties
  <2> QED  BY <1>1, <2>1 DEF Plain
<1> HIDE DEF hits
<1>6. Pair!Acknowledged(seq) = Acknowledged(w, seq)
  BY <1>2, <1>3, <1>4, <1>5 DEF Acknowledged, Min
<1> QED  BY <1>6 DEF w

\* Slots are freed at the front.
LEMMA PairWindowFreed ==
  ASSUME TypeInv, NEW k, Freed(Frames, window[Src][Dst], k, window'[Src][Dst])
  PROVE  PairWindow' = SubSeq(PairWindow, k + 1, Len(PairWindow))
<1> DEFINE w == window[Src][Dst]
           r == window'[Src][Dst]
           v == PairWindow
<1>1. /\ w \in Seq(Slots(Frames)) /\ v \in Seq(Plains) /\ Len(v) = Len(w)
      /\ \A i \in 1 .. Len(w) : v[i] = Plain(w[i].frame)
  BY Constants, HostTypes, PairTypes
<1>2. /\ k \in 0 .. Len(w) /\ r \in Seq(Slots(Frames)) /\ Len(r) = Len(w) - k
      /\ \A j \in 1 .. Len(w) - k : r[j].frame = w[k + j].frame
  BY DEF Freed
<1>3. PairWindow' = [i \in DOMAIN r |-> Plain(r[i].frame)]
  BY DEF PairWindow
<1> HIDE DEF w, r, v
<1>4. Len(w) \in Nat /\ DOMAIN r = 1 .. Len(r)
  BY <1>1, <1>2, LenProperties
<1>5. SubSeq(v, k + 1, Len(v)) = [i \in 1 .. Len(w) - k |-> v[k + i]]
  BY <1>1, <1>2, <1>4
<1>6. \A i \in 1 .. Len(w) - k : v[k + i] = Plain(r[i].frame)
  BY <1>1, <1>2, <1>4
<1> QED  BY <1>2, <1>3, <1>4, <1>5, <1>6 DEF v

\* handle_incoming_acks, one acknowledgement.
LEMMA AckStep ==
  ASSUME FlowInv, HandleIncomingAck
  PROVE  PairSame \/ Pair!HandleAck
<1> DEFINE ack  == Head(incoming[cur])
           p    == ack.src
           mine == cur = Src /\ p = Dst
           k    == Acknowledged(window[Src][Dst], ack.seq)
<1>1. TypeInv /\ WindowInv /\ IncomingInv /\ Src \in Hosts /\ Dst \in Hosts
  BY Constants DEF FlowInv, QueueInv
<1>2. /\ phase = "acks" /\ cur \in Hosts /\ incoming[cur] # << >>
      /\ incoming[cur] \in Seq(Frames)
      /\ ack \in Frames /\ p \in Hosts /\ ack.seq \in SeqNums /\ ack.kind = "ack"
  BY <1>1, AckTyped
<1>3. ack.dst = cur
  <2>1. incoming[cur] \in Seq(AcksFor(cur))
    BY <1>1, <1>2 DEF IncomingInv, InAcks, Before, Senders
  <2>2. ack \in AcksFor(cur)
    <3> DEFINE q == incoming[cur]
    <3>1. q \in Seq(AcksFor(cur)) /\ q # << >>  BY <1>2, <2>1
    <3> HIDE DEF q
    <3>2. Head(q) \in AcksFor(cur)  BY <3>1, HeadTailProperties
    <3> QED  BY <3>2 DEF q
  <2> QED  BY <1>2, <2>2 DEF AcksFor
<1>4. /\ Takes(cur)
      /\ UNCHANGED <<buffered, submitted, currSeq, recvWindow, lfr, handed>>
  BY <1>2 DEF HandleIncomingAck, Takes, recving, history
<1>5. \/ outgoing' = outgoing
      \/ Sends(cur, Copy(window[cur][p], SeqInc(ack.seq)))
  BY DEF HandleIncomingAck, Sends
<1>6. PairReceiverSame /\ UNCHANGED <<submitted[Src][Dst], currSeq[Src][Dst], PairBuffered>>
  BY <1>4 DEF PairReceiverSame, PairBuffered, PairSlots
<1>7. IF mine THEN PairWindow' = SubSeq(PairWindow, k + 1, Len(PairWindow))
      ELSE PairWindow' = PairWindow
  <2>1. window[Src][Dst] \in Seq(Slots(Frames))
    BY <1>1, HostTypes
  <2>2. IF Src = cur /\ Dst = p THEN Freed(Frames, window[Src][Dst], k, window'[Src][Dst])
        ELSE window'[Src][Dst] = window[Src][Dst]
    BY <1>1, <2>1, AckPair
  <2>3. CASE mine
    <3>1. Freed(Frames, window[Src][Dst], k, window'[Src][Dst])  BY <2>2, <2>3
    <3> HIDE DEF k
    <3>2. PairWindow' = SubSeq(PairWindow, k + 1, Len(PairWindow))
      BY <1>1, <3>1, PairWindowFreed
    <3> QED  BY <2>3, <3>2
  <2>4. CASE ~mine
    BY <2>2, <2>4 DEF PairWindow
  <2> QED  BY <2>3, <2>4
<1> HIDE DEF ack, p, k
<1>8. ASSUME NEW kind, NEW from \in Hosts, NEW to \in Hosts
      PROVE  LET old == Selected(outgoing[from], kind, from, to)
                 new == Selected(outgoing'[from], kind, from, to)
             IN  \/ new = old
                 \/ /\ kind = "data" /\ from = cur /\ to = p
                    /\ Longer(old, new, window[cur][p], SeqInc(ack.seq))
  <2>1. CASE outgoing' = outgoing
    BY <2>1
  <2>2. CASE Sends(cur, Copy(window[cur][p], SeqInc(ack.seq)))
    <3>1. TypeInv /\ WindowInv /\ cur \in Hosts /\ p \in Hosts  BY <1>1, <1>2
    <3>2. PICK q : q = SeqInc(ack.seq)  OBVIOUS
    <3>3. Sends(cur, Copy(window[cur][p], q))  BY <2>2, <3>2
    <3>4. LET old == Selected(outgoing[from], kind, from, to)
              new == Selected(outgoing'[from], kind, from, to)
          IN  /\ kind = "data" /\ from = cur /\ to = p => Longer(old, new, window[cur][p], q)
              /\ ~(kind = "data" /\ from = cur /\ to = p) => new = old
      BY <3>1, <3>3, CopySent
    <3> QED  BY <3>2, <3>4
  <2> QED  BY <1>5, <2>1, <2>2
<1>9. \E more \in Seq(Plains) :
         /\ PairData' = PairData \o more
         /\ more = << >> \/ (mine /\ Repeats(window[cur][p], SeqInc(ack.seq), more))
  <2> DEFINE old == Selected(outgoing[Src], "data", Src, Dst)
             new == Selected(outgoing'[Src], "data", Src, Dst)
  <2>1. PICK more \in Seq(Plains) :
             /\ new = old \o more
             /\ more = << >> \/ (mine /\ Repeats(window[cur][p], SeqInc(ack.seq), more))
    <3>1. new = old \/ (mine /\ Longer(old, new, window[cur][p], SeqInc(ack.seq)))
      BY <1>1, <1>8
    <3>2. old \in Seq(Plains)  BY <1>1, InFlightParts
    <3> HIDE DEF old, new, mine
    <3> DEFINE e == << >>
    <3>3. e \in Seq(Plains) /\ old \o e = old  BY <3>2, EmptySeq, ConcatEmptySeq
    <3>4. CASE new = old
      <4> WITNESS e \in Seq(Plains)
      <4> QED  BY <3>3, <3>4
    <3>5. CASE mine /\ Longer(old, new, window[cur][p], SeqInc(ack.seq))
      BY <3>5 DEF Longer
    <3> QED  BY <3>1, <3>4, <3>5
  <2>2. LET f      == Head(incoming[cur])
            flight == InFlight(incoming, outgoing, "data", Src, Dst)
            next   == InFlight(incoming', outgoing', "data", Src, Dst)
        IN  IF cur = Dst /\ Goes(f, "data", Src, Dst)
            THEN flight # << >> /\ Head(flight) = Plain(f) /\ next = Tail(flight) \o more
            ELSE next = flight \o more
    <3>1. TypeInv /\ Src \in Hosts /\ Dst \in Hosts /\ cur \in Hosts /\ Takes(cur)
      BY <1>1, <1>2, <1>4
    <3>2. Selected(outgoing'[Src], "data", Src, Dst)
            = Selected(outgoing[Src], "data", Src, Dst) \o more
      BY <2>1
    <3> QED  BY <3>1, <3>2, InFlightTaken
  <2>3. ~Goes(ack, "data", Src, Dst)  BY <1>2 DEF Goes
  <2>4. PairData' = PairData \o more  BY <2>2, <2>3 DEF PairData, ack
  <2> QED  BY <2>1, <2>4
<1>10. IF mine THEN PairAcks # << >> /\ Head(PairAcks) = Plain(ack) /\ PairAcks' = Tail(PairAcks)
       ELSE PairAcks' = PairAcks
  <2> DEFINE e == << >>
             fl == InFlight(incoming, outgoing, "ack", Dst, Src)
  <2>1. /\ e \in Seq(Plains)
        /\ Selected(outgoing'[Dst], "ack", Dst, Src)
             = Selected(outgoing[Dst], "ack", Dst, Src) \o e
    <3> DEFINE old == Selected(outgoing[Dst], "ack", Dst, Src)
               new == Selected(outgoing'[Dst], "ack", Dst, Src)
    <3>1. new = old  BY <1>1, <1>8
    <3>2. old \in Seq(Plains) /\ e \in Seq(Plains)  BY <1>1, InFlightParts, EmptySeq
    <3> HIDE DEF old, new
    <3>3. old \o e = old  BY <3>2, ConcatEmptySeq
    <3> QED  BY <3>1, <3>2, <3>3 DEF old, new
  <2> HIDE DEF e
  <2>2. LET f      == Head(incoming[cur])
            flight == InFlight(incoming, outgoing, "ack", Dst, Src)
            next   == InFlight(incoming', outgoing', "ack", Dst, Src)
        IN  IF cur = Src /\ Goes(f, "ack", Dst, Src)
            THEN flight # << >> /\ Head(flight) = Plain(f) /\ next = Tail(flight) \o e
            ELSE next = flight \o e
    <3>1. TypeInv /\ Src \in Hosts /\ Dst \in Hosts /\ cur \in Hosts /\ Takes(cur)
      BY <1>1, <1>2, <1>4
    <3> QED  BY <2>1, <3>1, InFlightTaken, ZenonT(40)
  <2>3. cur = Src /\ Goes(ack, "ack", Dst, Src) <=> mine
    BY <1>2, <1>3 DEF Goes, p
  <2>4. fl \in Seq(Plains)  BY <1>1, InFlightParts
  <2>5. PairAcks = fl /\ PairAcks' = InFlight(incoming', outgoing', "ack", Dst, Src)
    BY DEF PairAcks
  <2> HIDE DEF fl, mine
  <2>6. fl \o e = fl  BY <2>4, ConcatEmptySeq DEF e
  <2>7. fl # << >> => Tail(fl) \o e = Tail(fl)
    <3> HAVE fl # << >>
    <3> DEFINE s == Tail(fl)
    <3>1. s \in Seq(Plains)  BY <2>4, HeadTailProperties
    <3> HIDE DEF s
    <3>2. s \o e = s  BY <3>1, ConcatEmptySeq DEF e
    <3> QED  BY <3>2 DEF s
  <2>8. CASE mine
    <3>1. fl # << >> /\ Head(fl) = Plain(ack) /\ PairAcks' = Tail(fl) \o e
      BY <2>2, <2>3, <2>5, <2>8 DEF fl, ack
    <3> QED  BY <2>5, <2>7, <2>8, <3>1
  <2>9. CASE ~mine
    <3>1. PairAcks' = fl \o e
      BY <2>2, <2>3, <2>5, <2>9 DEF fl, ack
    <3> QED  BY <2>5, <2>6, <2>9, <3>1
  <2> QED  BY <2>8, <2>9
<1>11. PICK more \in Seq(Plains) :
         /\ PairData' = PairData \o more
         /\ more = << >> \/ (mine /\ Repeats(window[cur][p], SeqInc(ack.seq), more))
  BY <1>9
<1>12. PairData \o << >> = PairData
  <2> DEFINE d == PairData
  <2>1. d \in Seq(Plains)  BY <1>1, PairTypes
  <2> HIDE DEF d
  <2>2. d \o << >> = d  BY <2>1, ConcatEmptySeq
  <2> QED  BY <2>2 DEF d
<1>13. CASE ~mine
  <2>1. PairData' = PairData  BY <1>11, <1>12, <1>13
  <2> QED  BY <1>6, <1>7, <1>10, <1>13, <2>1 DEF PairSame, PairSenderSame
<1>14. CASE mine
  <2>1. PairAcks # << >> /\ Head(PairAcks) = Plain(ack) /\ PairAcks' = Tail(PairAcks)
    BY <1>10, <1>14
  <2>2. Head(PairAcks).seq = ack.seq  BY <2>1 DEF Plain
  <2>3. /\ PairWindow \in Seq(Plains) /\ PairData \in Seq(Plains)
        /\ DOMAIN PairWindow = 1 .. Len(window[Src][Dst])
        /\ \A i \in 1 .. Len(window[Src][Dst]) :
              PairWindow[i] = Plain(window[Src][Dst][i].frame)
    BY <1>1, PairTypes
  <2>4. \/ PairData' = PairData
        \/ \E i \in DOMAIN PairWindow : /\ PairWindow[i].seq = SeqInc(ack.seq)
                                       /\ PairData' = PairData \o <<PairWindow[i]>>
    <3>1. CASE more = << >>
      BY <1>11, <1>12, <3>1
    <3>2. CASE Repeats(window[Src][Dst], SeqInc(ack.seq), more)
      <4>1. CASE more = << >>  BY <1>11, <1>12, <4>1
      <4>2. ASSUME NEW j \in 1 .. Len(window[Src][Dst]),
                   more = <<Plain(window[Src][Dst][j].frame)>>,
                   window[Src][Dst][j].frame.seq = SeqInc(ack.seq)
            PROVE  \E i \in DOMAIN PairWindow : /\ PairWindow[i].seq = SeqInc(ack.seq)
                                       /\ PairData' = PairData \o <<PairWindow[i]>>
        <5>1. j \in DOMAIN PairWindow /\ PairWindow[j] = Plain(window[Src][Dst][j].frame)
          BY <2>3
        <5>2. PairWindow[j].seq = SeqInc(ack.seq)  BY <4>2, <5>1 DEF Plain
        <5> QED  BY <1>11, <4>2, <5>1, <5>2
      <4> QED  BY <3>2, <4>1, <4>2 DEF Repeats
    <3> QED  BY <1>11, <1>14, <3>1, <3>2
  <2>5. PairWindow' = SubSeq(PairWindow, Pair!Acknowledged(ack.seq) + 1, Len(PairWindow))
    <3>1. Pair!Acknowledged(ack.seq) = k  BY <1>1, PairAcknowledged DEF k
    <3> QED  BY <1>7, <1>14, <3>1
  <2>6. Pair!HandleAck
    BY <1>6, <2>1, <2>2, <2>3, <2>4, <2>5, PairHandleAck
  <2> QED  BY <2>6
<1> QED  BY <1>13, <1>14

\* handle_outgoing_frames sends a frame of the window again.
LEMMA ResendStep ==
  ASSUME FlowInv, ResendFrame
  PROVE  PairSame \/ Pair!SendFrames
<1> DEFINE p    == Min(Resendable)
           seq  == window[cur][p][Min(Idle(p))].frame.seq
           mine == cur = Src /\ p = Dst
<1>1. TypeInv /\ WindowInv /\ Src \in Hosts /\ Dst \in Hosts
  BY Constants DEF FlowInv, QueueInv
<1>2. cur \in Hosts /\ p \in Hosts /\ Hits(window[cur][p], seq) # {}
  BY <1>1, ResendTyped
<1>3. /\ Sends(cur, Copy(window[cur][p], seq)) /\ incoming' = incoming
      /\ UNCHANGED <<buffered, submitted, currSeq, recvWindow, lfr, handed>>
  BY DEF ResendFrame, Sends, recving, history
<1>4. window[Src][Dst] \in Seq(Slots(Frames))
  BY <1>1, HostTypes
<1>5. PairWindow' = PairWindow
  <2>1. IF Src = cur /\ Dst = p
          THEN /\ window'[Src][Dst] \in Seq(Slots(Frames))
               /\ SameFrames(window[Src][Dst], window'[Src][Dst])
        ELSE window'[Src][Dst] = window[Src][Dst]
    BY <1>1, <1>4, ResendPair
  <2>2. CASE Src = cur /\ Dst = p
    BY <1>1, <2>1, <2>2, PairWindowSame
  <2>3. CASE ~(Src = cur /\ Dst = p)
    BY <2>1, <2>3 DEF PairWindow
  <2> QED  BY <2>2, <2>3
<1> HIDE DEF p, seq
<1>6. PairReceiverSame /\ PairSenderSame
  BY <1>3, <1>5 DEF PairReceiverSame, PairSenderSame, PairBuffered, PairSlots
<1>7. ASSUME NEW kind, NEW from \in Hosts, NEW to \in Hosts
      PROVE  LET old == Selected(outgoing[from], kind, from, to)
                 new == Selected(outgoing'[from], kind, from, to)
             IN  \/ new = old
                 \/ /\ kind = "data" /\ from = cur /\ to = p
                    /\ Longer(old, new, window[cur][p], seq)
  <2>1. PICK h \in Hosts, d \in Hosts : h = cur /\ d = p
    BY <1>2
  <2>5. PICK x : x = seq
    OBVIOUS
  <2>2. TypeInv /\ WindowInv  BY <1>1
  <2>3. Sends(h, Copy(window[h][d], x))  BY <1>3, <2>1, <2>5
  <2>4. LET old == Selected(outgoing[from], kind, from, to)
            new == Selected(outgoing'[from], kind, from, to)
        IN  /\ kind = "data" /\ from = h /\ to = d => Longer(old, new, window[h][d], x)
            /\ ~(kind = "data" /\ from = h /\ to = d) => new = old
    BY <2>2, <2>3, CopySent
  <2> QED  BY <2>1, <2>4, <2>5
<1>8. PairAcks' = PairAcks
  <2>1. Selected(outgoing'[Dst], "ack", Dst, Src) = Selected(outgoing[Dst], "ack", Dst, Src)
    BY <1>1, <1>7
  <2> QED  BY <1>3, <2>1 DEF PairAcks, InFlight
<1> DEFINE old == Selected(outgoing[Src], "data", Src, Dst)
           new == Selected(outgoing'[Src], "data", Src, Dst)
<1>9. CASE new = old
  <2>1. PairData' = PairData
    BY <1>3, <1>9 DEF PairData, InFlight
  <2> QED  BY <1>6, <1>8, <2>1 DEF PairSame
<1>10. CASE mine /\ Longer(old, new, window[Src][Dst], seq)
  <2>1. Longer(old, new, window[Src][Dst], seq)
    BY <1>10
  <2>2. PICK more \in Seq(Plains) : new = old \o more /\ Repeats(window[Src][Dst], seq, more)
    BY <2>1 DEF Longer
  <2>3. PairData' = PairData \o more
    <3>1. incoming' = incoming  BY <1>3
    <3>2. new = old \o more  BY <2>2
    <3> QED  BY <1>1, <3>1, <3>2, InFlightMore DEF PairData
  <2>4. PICK j \in 1 .. Len(window[Src][Dst]) : more = <<Plain(window[Src][Dst][j].frame)>>
    BY <1>2, <1>10, <2>2 DEF Repeats
  <2>5. /\ PairBuffered \in Seq(Plains) /\ PairData \in Seq(Plains)
        /\ PairWindow \in Seq(Plains) /\ Len(PairWindow) <= W
        /\ j \in DOMAIN PairWindow /\ PairWindow[j] = Plain(window[Src][Dst][j].frame)
    BY <1>1, PairTypes
  <2>6. PairData' = PairData \o <<PairWindow[j]>>
    BY <2>3, <2>4, <2>5
  <2>7. Pair!SendFrames
    BY <1>6, <1>8, <2>5, <2>6, PairResend
  <2> QED  BY <2>7
<1>11. new = old \/ (mine /\ Longer(old, new, window[Src][Dst], seq))
  BY <1>1, <1>7
<1> QED  BY <1>9, <1>10, <1>11

\* It lets the next new frame into its window.
LEMMA ReleaseStep ==
  ASSUME FlowInv, ReleaseFrame
  PROVE  PairSame \/ Pair!SendFrames
<1> DEFINE i    == Min(Releasable)
           b    == buffered[cur]
           f    == b[i]
           one  == <<f>>
           mine == cur = Src /\ f.dst = Dst
<1>1. TypeInv /\ BufferedInv /\ Src \in Hosts /\ Dst \in Hosts
  BY Constants DEF FlowInv, QueueInv
<1>2. /\ cur \in Hosts /\ b \in Seq(Frames) /\ i \in 1 .. Len(b)
      /\ f \in Frames /\ f.dst \in Hosts /\ Len(window[cur][f.dst]) < W
      /\ \A j \in 1 .. i - 1 : b[j].dst # f.dst
  BY <1>1, ReleaseTyped
<1>3. f.kind = "data" /\ f.src = cur
  <2>1. b \in Seq(DataFrom(cur))  BY <1>1, <1>2 DEF BufferedInv
  <2>2. f \in DataFrom(cur)
    <3> HIDE DEF b, i
    <3> QED  BY <1>2, <2>1, ElementOfSeq
  <2> QED  BY <2>2 DEF DataFrom
<1>4. one \in Seq(Frames) /\ Sends(cur, one)
  <2>1. outgoing' = [outgoing EXCEPT ![cur] = Append(outgoing[cur], f)]
    BY DEF ReleaseFrame
  <2>2. one \in Seq(Frames)  BY <1>2
  <2>3. Append(outgoing[cur], f) = outgoing[cur] \o one
    <3> DEFINE q == outgoing[cur]
    <3>1. q \in Seq(Frames)  BY <1>1, <1>2, HostTypes
    <3> HIDE DEF q, f
    <3> QED  BY <1>2, <3>1, AppendIsConcat
  <2> QED  BY <2>1, <2>2, <2>3 DEF Sends
<1>5. /\ incoming' = incoming /\ buffered' = [buffered EXCEPT ![cur] = RemoveAt(b, i)]
      /\ UNCHANGED <<submitted, currSeq, recvWindow, lfr, handed>>
  BY DEF ReleaseFrame, recving, history
<1>6. PairReceiverSame /\ UNCHANGED <<submitted[Src][Dst], currSeq[Src][Dst]>>
  BY <1>5 DEF PairReceiverSame, PairSlots
<1>7. buffered'[Src] = IF cur = Src THEN RemoveAt(b, i) ELSE buffered[Src]
  <2>1. buffered \in [Hosts -> Seq(Frames)]  BY <1>1 DEF TypeInv, TypeOK
  <2> QED  BY <1>1, <1>5, <2>1
<1>8. window'[Src][Dst] = IF mine THEN Append(window[Src][Dst],
                                              [frame |-> f, timeout |-> base + TIMEOUT])
                          ELSE window[Src][Dst]
  <2>1. window[Src][Dst] \in Seq(Slots(Frames))
    BY <1>1, HostTypes
  <2>2. LET g == buffered[cur][Min(Releasable)]
        IN  IF Src = cur /\ Dst = g.dst
              THEN window'[Src][Dst] = Append(window[Src][Dst],
                                              [frame |-> g, timeout |-> base + TIMEOUT])
            ELSE window'[Src][Dst] = window[Src][Dst]
    BY <1>1, <2>1, ReleasePair
  <2> QED  BY <2>2
<1> HIDE DEF i, b, f, one
<1>9. ASSUME NEW kind, NEW from \in Hosts, NEW to \in Hosts
      PROVE  InFlight(incoming', outgoing', kind, from, to)
               = IF kind = "data" /\ from = cur /\ to = f.dst
                 THEN Append(InFlight(incoming, outgoing, kind, from, to), Plain(f))
                 ELSE InFlight(incoming, outgoing, kind, from, to)
  <2> DEFINE old  == Selected(outgoing[from], kind, from, to)
             new  == Selected(outgoing'[from], kind, from, to)
             fl   == InFlight(incoming, outgoing, kind, from, to)
             own  == kind = "data" /\ from = cur /\ to = f.dst
             more == IF own THEN <<Plain(f)>> ELSE << >>
  <2>1. /\ cur = from => new = old \o Selected(one, kind, from, to)
        /\ cur # from => new = old \o << >>
    <3>1. TypeInv /\ cur \in Hosts /\ one \in Seq(Frames) /\ Sends(cur, one)
      BY <1>1, <1>2, <1>4
    <3> QED  BY <3>1, SelectedSent
  <2>2. Selected(one, kind, from, to) = IF Goes(f, kind, from, to) THEN <<Plain(f)>> ELSE << >>
    BY <1>2, SelectedOne DEF one
  <2>3. Goes(f, kind, from, to) <=> own
    BY <1>3 DEF Goes
  <2>4. new = old \o more
    <3> HIDE DEF old, new
    <3>1. CASE own
      BY <2>1, <2>2, <2>3, <3>1
    <3>2. CASE ~own
      BY <2>1, <2>2, <2>3, <3>2
    <3> QED  BY <3>1, <3>2
  <2>5. Plain(f) \in Plains  BY <1>2, PlainType
  <2>6. more \in Seq(Plains) /\ fl \in Seq(Plains)
    <3>1. fl \in Seq(Plains)  BY <1>1, InFlightParts
    <3>2. more \in Seq(Plains)  BY <2>5, EmptySeq
    <3> QED  BY <3>1, <3>2
  <2>7. InFlight(incoming', outgoing', kind, from, to) = fl \o more
    <3>1. more \in Seq(Plains)  BY <2>6
    <3> HIDE DEF more
    <3>2. TypeInv /\ incoming' = incoming  BY <1>1, <1>5
    <3> QED  BY <2>4, <3>1, <3>2, InFlightMore
  <2> DEFINE x == Plain(f)
  <2> HIDE DEF fl, own, x
  <2>8. fl \o <<x>> = Append(fl, x) /\ fl \o << >> = fl
    BY <2>5, <2>6, AppendIsConcat, ConcatEmptySeq DEF x
  <2>9. InFlight(incoming', outgoing', kind, from, to) = IF own THEN Append(fl, x) ELSE fl
    BY <2>7, <2>8 DEF x
  <2> QED  BY <2>9 DEF fl, own, x
<1>10. PairAcks' = PairAcks
  BY <1>1, <1>9 DEF PairAcks
<1>11. PairData' = IF mine THEN Append(PairData, Plain(f)) ELSE PairData
  <2>1. InFlight(incoming', outgoing', "data", Src, Dst)
          = IF "data" = "data" /\ Src = cur /\ Dst = f.dst
            THEN Append(InFlight(incoming, outgoing, "data", Src, Dst), Plain(f))
            ELSE InFlight(incoming, outgoing, "data", Src, Dst)
    BY <1>1, <1>9
  <2> QED  BY <2>1 DEF PairData
<1>12. CASE ~mine
  <2>1. PairWindow' = PairWindow  BY <1>8, <1>12 DEF PairWindow
  <2>2. PairBuffered' = PairBuffered
    <3>1. CASE cur = Src
      <4>1. ~Goes(f, "data", Src, Dst)  BY <1>12, <3>1 DEF Goes
      <4>2. Selected(RemoveAt(b, i), "data", Src, Dst) = Selected(b, "data", Src, Dst)
        BY <1>2, <4>1, SelectedRemoveAt DEF f
      <4> QED  BY <1>7, <3>1, <4>2 DEF PairBuffered, b
    <3>2. CASE cur # Src
      BY <1>7, <3>2 DEF PairBuffered
    <3> QED  BY <3>1, <3>2
  <2> QED  BY <1>6, <1>10, <1>11, <1>12, <2>1, <2>2 DEF PairSame, PairSenderSame
<1>13. CASE mine
  <2>1. /\ PairBuffered \in Seq(Plains) /\ PairData \in Seq(Plains)
        /\ PairWindow \in Seq(Plains) /\ Len(PairWindow) < W
    BY <1>1, <1>2, <1>13, PairTypes
  <2>2. PairBuffered # << >> /\ Head(PairBuffered) = Plain(f) /\ Tail(PairBuffered) = PairBuffered'
    <3>1. Goes(b[i], "data", Src, Dst)  BY <1>3, <1>13 DEF Goes, f
    <3>2. \A j \in 1 .. i - 1 : ~Goes(b[j], "data", Src, Dst)
      BY <1>2, <1>13 DEF Goes
    <3>3. LET all  == Selected(b, "data", Src, Dst)
              rest == Selected(RemoveAt(b, i), "data", Src, Dst)
          IN  all # << >> /\ Head(all) = Plain(b[i]) /\ Tail(all) = rest
      BY <1>2, <3>1, <3>2, SelectedRemoveAt
    <3> QED  BY <1>7, <1>13, <3>3 DEF PairBuffered, b, f
  <2>3. PairWindow' = Append(PairWindow, Plain(f))
    <3> DEFINE w == window[Src][Dst]
               s == [frame |-> f, timeout |-> base + TIMEOUT]
               r == window'[Src][Dst]
    <3>1. w \in Seq(Slots(Frames)) /\ r = Append(w, s)
      BY <1>1, <1>8, <1>13, HostTypes
    <3>2. /\ PairWindow = [j \in DOMAIN w |-> Plain(w[j].frame)]
          /\ PairWindow' = [j \in DOMAIN r |-> Plain(r[j].frame)]
      BY DEF PairWindow
    <3>3. s.frame = f  OBVIOUS
    <3> HIDE DEF w, s, r
    <3>4. /\ DOMAIN w = 1 .. Len(w) /\ Len(w) \in Nat /\ DOMAIN r = 1 .. Len(w) + 1
          /\ r[Len(w) + 1] = s /\ \A j \in 1 .. Len(w) : r[j] = w[j]
      BY <3>1, LenProperties
    <3> DEFINE v == PairWindow
               x == Plain(f)
    <3>5. v \in Seq(Plains) /\ Len(v) = Len(w) /\ \A j \in 1 .. Len(w) : v[j] = Plain(w[j].frame)
      BY <2>1, <3>2, <3>4
    <3>6. PairWindow' = [j \in 1 .. Len(w) + 1 |-> IF j = Len(w) + 1 THEN x ELSE v[j]]
      BY <3>2, <3>3, <3>4, <3>5
    <3> HIDE DEF v, x
    <3>7. Append(v, x) = [j \in 1 .. Len(w) + 1 |-> IF j = Len(w) + 1 THEN x ELSE v[j]]
      <4>1. v \in Seq(Plains) /\ Len(v) \in Nat  BY <3>4, <3>5
      <4> DEFINE a == Append(v, x)
                 n == Len(v)
      <4>2. x \in Plains  BY <1>2, PlainType DEF x
      <4>3. /\ a \in Seq(Plains) /\ Len(a) = n + 1 /\ a[n + 1] = x
            /\ \A j \in 1 .. n : a[j] = v[j]
        BY <4>1, <4>2, AppendProperties
      <4>4. a = [j \in 1 .. Len(a) |-> a[j]]
        <5> HIDE DEF a
        <5> QED  BY <4>3
      <4> HIDE DEF a, n
      <4>5. a = [j \in 1 .. n + 1 |-> IF j = n + 1 THEN x ELSE v[j]]
        BY <4>1, <4>3, <4>4 DEF n
      <4> QED  BY <3>5, <4>5 DEF a, n
    <3> QED  BY <3>6, <3>7 DEF v, x
  <2>4. UNCHANGED <<submitted[Src][Dst], currSeq[Src][Dst], PairAcks>>
    BY <1>6, <1>10
  <2>5. PairData' = Append(PairData, Head(PairBuffered)) /\ PairWindow' = Append(PairWindow, Head(PairBuffered))
    BY <1>11, <1>13, <2>2, <2>3
  <2>6. Pair!SendFrames
    BY <1>6, <2>1, <2>2, <2>4, <2>5, PairRelease
  <2> QED  BY <2>6
<1> QED  BY <1>12, <1>13

LEMMA SwitchStep ==
  ASSUME TypeInv, NEW h \in Hosts, NEW f, Switched(h, f), f.kind \in {"data", "ack"},
         UNCHANGED <<buffered, window, submitted, currSeq, recvWindow, lfr, handed>>
  PROVE  PairSame \/ Pair!LoseData \/ Pair!LoseAck
<1>1. Src \in Hosts /\ Dst \in Hosts
  BY Constants
<1>2. ASSUME NEW kind, kind # "corrupt", NEW from \in Hosts, NEW to \in Hosts
      PROVE  LET flight == InFlight(incoming, outgoing, kind, from, to)
                 next   == InFlight(incoming', outgoing', kind, from, to)
             IN  \/ next = flight
                 \/ /\ Goes(f, kind, from, to)
                    /\ \E i \in DOMAIN flight : next = RemoveAt(flight, i)
  BY <1>2, InFlightSent
<1>3. \/ PairData' = PairData
      \/ f.kind = "data" /\ \E i \in DOMAIN PairData : PairData' = RemoveAt(PairData, i)
  BY <1>1, <1>2 DEF PairData, Goes
<1>4. \/ PairAcks' = PairAcks
      \/ f.kind = "ack" /\ \E i \in DOMAIN PairAcks : PairAcks' = RemoveAt(PairAcks, i)
  BY <1>1, <1>2 DEF PairAcks, Goes
<1>5. PairSenderSame /\ PairReceiverSame
  BY DEF PairSenderSame, PairReceiverSame, PairBuffered, PairWindow, PairSlots
<1>6. CASE PairData' = PairData /\ PairAcks' = PairAcks
  BY <1>5, <1>6 DEF PairSame
<1>7. CASE f.kind = "data" /\ \E i \in DOMAIN PairData : PairData' = RemoveAt(PairData, i)
  <2>1. PairAcks' = PairAcks  BY <1>4, <1>7
  <2> QED  BY <1>5, <1>7, <2>1, PairLoseData
<1>8. CASE f.kind = "ack" /\ \E i \in DOMAIN PairAcks : PairAcks' = RemoveAt(PairAcks, i)
  <2>1. PairData' = PairData  BY <1>3, <1>8
  <2> QED  BY <1>5, <1>8, <2>1, PairLoseAck
<1> QED  BY <1>3, <1>4, <1>6, <1>7, <1>8

LEMMA HeadIn ==
  ASSUME NEW S, NEW q \in Seq(S), q # << >>
  PROVE  Head(q) \in S
  BY HeadTailProperties

\* What the switch makes of a frame.
LEMMA SendFrameResult ==
  ASSUME NEW f, SendFrame(f)
  PROVE  \/ incoming' = [incoming EXCEPT ![f.dst] = Append(@, f)]
         \/ incoming' = [incoming EXCEPT ![f.dst] = Append(@, Corrupt)]
  BY DEF SendFrame

\* send_data_frames and send_ack_frames.
LEMMA SendDataStep ==
  ASSUME FlowInv, SendDataFrame
  PROVE  PairSame \/ Pair!LoseData \/ Pair!LoseAck
<1>1. TypeInv /\ OutgoingInv
  BY DEF FlowInv, QueueInv
<1>2. PICK h \in Hosts :
         LET f == Head(outgoing[h])
         IN  /\ outgoing[h] \in Seq(Frames) /\ outgoing[h] # << >> /\ f \in Frames
             /\ todo' \subseteq Hosts
             /\ outgoing' = [outgoing EXCEPT ![h] = Tail(outgoing[h])]
             /\ \/ f.src = f.dst /\ phase' = "aborted"
                   /\ UNCHANGED <<accepted, incoming, faults>>
                \/ UNCHANGED <<phase, accepted, incoming, faults>>
                \/ /\ accepted[f.dst] < RecvAcceptRate
                   /\ accepted' = [accepted EXCEPT ![f.dst] = accepted[f.dst] + 1]
                   /\ f.src # f.dst /\ SendFrame(f) /\ UNCHANGED phase
  BY <1>1, SendDataTyped
<1> DEFINE f == Head(outgoing[h])
<1>3. f \in DataFrom(h)
  <2>1. outgoing[h] \in Seq(DataFrom(h))
    BY <1>1, SendDataTyped DEF OutgoingInv, OutData
  <2> QED  BY <1>2, <2>1, HeadIn
<1>4. \/ incoming' = incoming
      \/ incoming' = [incoming EXCEPT ![f.dst] = Append(@, f)]
      \/ incoming' = [incoming EXCEPT ![f.dst] = Append(@, Corrupt)]
  BY <1>2, SendFrameResult
<1>5. f.src = h /\ f.kind = "data"
  BY <1>3 DEF DataFrom
<1>6. Switched(h, f)
  BY <1>2, <1>4, <1>5 DEF Switched
<1>7. UNCHANGED <<buffered, window, submitted, currSeq, recvWindow, lfr, handed>>
  BY DEF SendDataFrame, sending, recving, history
<1> HIDE DEF f
<1> QED  BY <1>1, <1>5, <1>6, <1>7, SwitchStep

LEMMA SendAckStep ==
  ASSUME FlowInv, SendAckFrame
  PROVE  PairSame \/ Pair!LoseData \/ Pair!LoseAck
<1> DEFINE h == Min(Pending(outgoing))
           f == Head(outgoing[h])
<1>1. TypeInv /\ OutgoingInv
  BY DEF FlowInv, QueueInv
<1>2. /\ phase = "sendacks" /\ h \in Hosts
      /\ outgoing[h] \in Seq(Frames) /\ outgoing[h] # << >>
      /\ outgoing' = [outgoing EXCEPT ![h] = Tail(outgoing[h])] /\ SendFrame(f)
  BY <1>1, SendAckTyped
<1>3. f \in AcksFrom(h)
  <2>1. outgoing[h] \in Seq(AcksFrom(h))
    BY <1>1, <1>2 DEF OutgoingInv, OutAcks
  <2> HIDE DEF h
  <2> QED  BY <1>2, <2>1, HeadIn
<1>4. \/ incoming' = [incoming EXCEPT ![f.dst] = Append(@, f)]
      \/ incoming' = [incoming EXCEPT ![f.dst] = Append(@, Corrupt)]
  BY <1>2, SendFrameResult
<1>5. f.src = h /\ f.kind = "ack"
  BY <1>3 DEF AcksFrom
<1> HIDE DEF h
<1>6. Switched(h, f)
  BY <1>2, <1>4, <1>5 DEF Switched
<1>7. UNCHANGED <<buffered, window, submitted, currSeq, recvWindow, lfr, handed>>
  BY DEF SendAckFrame, sending, recving, history
<1> HIDE DEF f
<1> QED  BY <1>1, <1>2, <1>5, <1>6, <1>7, SwitchStep

\* The slots with plain frames are empty where the slots are.
LEMMA PlainSlotsFacts ==
  ASSUME NEW slots \in [1 .. W -> Frames \cup {NoFrame}]
  PROVE  /\ \A i \in 1 .. W : PlainSlots(slots)[i] = NoFrame <=> slots[i] = NoFrame
         /\ \A i \in 1 .. W : slots[i] # NoFrame => PlainSlots(slots)[i] = Plain(slots[i])
         /\ Run(PlainSlots(slots)) = Run(slots)
<1> DEFINE plain == PlainSlots(slots)
<1>1. \A i \in 1 .. W : plain[i] = IF slots[i] = NoFrame THEN NoFrame ELSE Plain(slots[i])
  BY DEF PlainSlots
<1>2. \A i \in 1 .. W : slots[i] # NoFrame => Plain(slots[i]) # NoFrame
  BY PlainType, PlainAssumption DEF Plains
<1> HIDE DEF plain
<1>3. /\ \A i \in 1 .. W : plain[i] = NoFrame <=> slots[i] = NoFrame
      /\ \A i \in 1 .. W : slots[i] # NoFrame => plain[i] = Plain(slots[i])
  BY <1>1, <1>2
<1> DEFINE m == Run(plain)
           n == Run(slots)
<1>4. /\ m \in 0 .. W /\ (\A i \in 1 .. m : plain[i] # NoFrame) /\ (m < W => plain[m + 1] = NoFrame)
      /\ n \in 0 .. W /\ (\A i \in 1 .. n : slots[i] # NoFrame) /\ (n < W => slots[n + 1] = NoFrame)
  BY RunFacts
<1> HIDE DEF m, n
<1>5. m = n
  BY <1>3, <1>4, Constants
<1> QED  BY <1>3, <1>5 DEF plain, m, n

\* The frame is put into its slot, and the window moves.
LEMMA PlainSlotsPut ==
  ASSUME NEW w \in [1 .. W -> Frames \cup {NoFrame}], NEW place \in 1 .. W, NEW f \in Frames
  PROVE  PlainSlots([w EXCEPT ![place] = f]) = [PlainSlots(w) EXCEPT ![place] = Plain(f)]
  BY Constants DEF PlainSlots

LEMMA PlainSlotsMoved ==
  ASSUME NEW slots \in [1 .. W -> Frames \cup {NoFrame}], NEW run \in 0 .. W
  PROVE  PlainSlots(Moved(slots, run))
           = [i \in 1 .. W |-> IF i + run <= W THEN PlainSlots(slots)[i + run] ELSE NoFrame]
  BY Constants DEF PlainSlots, Moved

\* A frame joins the others of its host.
Joins(h, f) == f.src = h /\ outgoing' = [outgoing EXCEPT ![h] = Append(@, f)]

LEMMA FrameSent ==
  ASSUME TypeInv, NEW h \in Hosts, NEW f \in Frames, Joins(h, f),
         NEW kind, NEW from \in Hosts, NEW to \in Hosts
  PROVE  LET old == Selected(outgoing[from], kind, from, to)
             new == Selected(outgoing'[from], kind, from, to)
         IN  /\ Goes(f, kind, from, to) => new = old \o <<Plain(f)>>
             /\ ~Goes(f, kind, from, to) => new = old \o << >>
<1> DEFINE old == Selected(outgoing[from], kind, from, to)
           new == Selected(outgoing'[from], kind, from, to)
           one == <<f>>
           sel == Selected(one, kind, from, to)
<1>1. one \in Seq(Frames)
  OBVIOUS
<1>2. sel = IF Goes(f, kind, from, to) THEN <<Plain(f)>> ELSE << >>
  BY SelectedOne
<1>3. Goes(f, kind, from, to) => from = h
  BY DEF Goes, Joins
<1>4. Sends(h, one)
  <2> DEFINE q == outgoing[h]
  <2>1. q \in Seq(Frames)  BY HostTypes
  <2>2. Append(q, f) = q \o one
    <3> HIDE DEF q
    <3> QED  BY <2>1, AppendIsConcat
  <2> QED  BY <2>2 DEF Joins, Sends
<1> HIDE DEF one
<1>5. (h = from => new = old \o sel) /\ (h # from => new = old \o << >>)
  BY <1>1, <1>4, SelectedSent
<1> HIDE DEF old, new, sel
<1>6. Goes(f, kind, from, to) => new = old \o <<Plain(f)>>
  BY <1>2, <1>3, <1>5
<1>7. ~Goes(f, kind, from, to) => new = old \o << >>
  BY <1>2, <1>5
<1> QED  BY <1>6, <1>7 DEF old, new

\* handle_incoming_frames, one frame.
LEMMA FrameStep ==
  ASSUME FlowInv, HandleIncomingFrame
  PROVE  PairSame \/ Pair!HandleFrame
<1>1. TypeInv /\ ReceivedInv /\ IncomingInv /\ Src \in Hosts /\ Dst \in Hosts
  BY Constants DEF FlowInv, QueueInv
<1>2. phase = "receivers"
  BY <1>1, FrameTyped
<1>3. PICK h \in Hosts, slots \in [1 .. W -> Frames \cup {NoFrame}], run \in 0 .. W :
        Receives(h, slots, run)
  BY <1>1, FrameTyped
<1> DEFINE f    == Head(incoming[h])
           ack  == [kind |-> "ack", src |-> h, dst |-> f.src, seq |-> SeqAdd(lfr[h][f.src], run),
                    rem |-> 0, id |-> Len(handed[h][f.src]) + run]
           mine == h = Dst /\ f.src = Src
<1>4. f \in Between(f.src, h)
  BY <1>1, <1>2, <1>3, ReceivedFrame
<1>5. /\ f \in Frames /\ f.kind = "data" /\ f.dst = h /\ f.src \in Hosts
      /\ incoming[h] \in Seq(Frames) /\ incoming[h] # << >>
      /\ ack \in Frames
      /\ incoming' = [incoming EXCEPT ![h] = Tail(incoming[h])]
      /\ outgoing' = [outgoing EXCEPT ![h] = Append(outgoing[h], ack)]
  BY <1>3, <1>4 DEF Receives, Between, DataFrom
<1>6. PairSenderSame
  BY DEF HandleIncomingFrame, sending, PairSenderSame, PairBuffered, PairWindow
<1>7. Takes(h)
  BY <1>5 DEF Takes
<1>8. Joins(h, ack)
  <2>1. ack.src = h  OBVIOUS
  <2> HIDE DEF ack
  <2> QED  BY <1>5, <2>1 DEF Joins
<1>9. ack.kind = "ack" /\ ack.src = h /\ ack.dst = f.src
      /\ Plain(ack) = [id |-> Len(handed[h][f.src]) + run, seq |-> SeqAdd(lfr[h][f.src], run)]
  BY DEF Plain
<1> HIDE DEF f, ack, mine
<1>10. ASSUME NEW kind, NEW from \in Hosts, NEW to \in Hosts
       PROVE  LET old == Selected(outgoing[from], kind, from, to)
                  new == Selected(outgoing'[from], kind, from, to)
              IN  /\ Goes(ack, kind, from, to) => new = old \o <<Plain(ack)>>
                  /\ ~Goes(ack, kind, from, to) => new = old \o << >>
  <2>1. PICK a \in Frames : a = ack  BY <1>5
  <2>2. TypeInv /\ h \in Hosts /\ Joins(h, a)
    BY <1>1, <1>8, <2>1
  <2>3. LET old == Selected(outgoing[from], kind, from, to)
            new == Selected(outgoing'[from], kind, from, to)
        IN  /\ Goes(a, kind, from, to) => new = old \o <<Plain(a)>>
            /\ ~Goes(a, kind, from, to) => new = old \o << >>
    BY <2>2, FrameSent
  <2> QED  BY <2>1, <2>3
<1>11. IF mine THEN PairData # << >> /\ Head(PairData) = Plain(f) /\ PairData' = Tail(PairData)
       ELSE PairData' = PairData
  <2> DEFINE e == << >>
             fl == InFlight(incoming, outgoing, "data", Src, Dst)
  <2>1. e \in Seq(Plains)  BY EmptySeq
  <2> HIDE DEF e
  <2>2. Selected(outgoing'[Src], "data", Src, Dst) = Selected(outgoing[Src], "data", Src, Dst) \o e
    <3>1. Selected(outgoing'[Src], "data", Src, Dst)
            = Selected(outgoing[Src], "data", Src, Dst) \o << >>
      <4>1. ~Goes(ack, "data", Src, Dst)  BY <1>9 DEF Goes
      <4> QED  BY <1>1, <1>10, <4>1
    <3> QED  BY <3>1 DEF e
  <2>3. LET g      == Head(incoming[h])
            flight == InFlight(incoming, outgoing, "data", Src, Dst)
            next   == InFlight(incoming', outgoing', "data", Src, Dst)
        IN  IF h = Dst /\ Goes(g, "data", Src, Dst)
            THEN flight # << >> /\ Head(flight) = Plain(g) /\ next = Tail(flight) \o e
            ELSE next = flight \o e
    <3>1. TypeInv /\ Src \in Hosts /\ Dst \in Hosts /\ Takes(h)  BY <1>1, <1>7
    <3> QED  BY <2>1, <2>2, <3>1, InFlightTaken
  <2>4. h = Dst /\ Goes(f, "data", Src, Dst) <=> mine
    BY <1>5 DEF Goes, mine
  <2>5. fl \in Seq(Plains)  BY <1>1, InFlightParts
  <2>6. PairData = fl /\ PairData' = InFlight(incoming', outgoing', "data", Src, Dst)
    BY DEF PairData
  <2> HIDE DEF fl
  <2>7. fl \o e = fl  BY <2>5, ConcatEmptySeq DEF e
  <2>8. fl # << >> => Tail(fl) \o e = Tail(fl)
    <3> HAVE fl # << >>
    <3> DEFINE s == Tail(fl)
    <3>1. s \in Seq(Plains)  BY <2>5, HeadTailProperties
    <3> HIDE DEF s
    <3>2. s \o e = s  BY <3>1, ConcatEmptySeq DEF e
    <3> QED  BY <3>2 DEF s
  <2>9. CASE mine
    <3>1. fl # << >> /\ Head(fl) = Plain(f) /\ PairData' = Tail(fl) \o e
      BY <2>3, <2>4, <2>6, <2>9 DEF fl, f
    <3> QED  BY <2>6, <2>8, <2>9, <3>1
  <2>10. CASE ~mine
    <3>1. PairData' = fl \o e
      BY <2>3, <2>4, <2>6, <2>10 DEF fl, f
    <3> QED  BY <2>6, <2>7, <2>10, <3>1
  <2> QED  BY <2>9, <2>10
<1>12. PairAcks' = IF mine THEN Append(PairAcks, Plain(ack)) ELSE PairAcks
  <2> DEFINE x    == Plain(ack)
             more == IF mine THEN <<x>> ELSE << >>
             fl   == InFlight(incoming, outgoing, "ack", Dst, Src)
  <2>1. x \in Plains  BY <1>5, PlainType
  <2>2. Selected(outgoing'[Dst], "ack", Dst, Src) = Selected(outgoing[Dst], "ack", Dst, Src) \o more
    <3> DEFINE old == Selected(outgoing[Dst], "ack", Dst, Src)
               new == Selected(outgoing'[Dst], "ack", Dst, Src)
    <3>1. /\ Goes(ack, "ack", Dst, Src) => new = old \o <<Plain(ack)>>
          /\ ~Goes(ack, "ack", Dst, Src) => new = old \o << >>
      BY <1>1, <1>10
    <3> HIDE DEF old, new, x
    <3>2. mine <=> Goes(ack, "ack", Dst, Src)  BY <1>9 DEF mine, Goes
    <3>3. new = old \o more
      <4>1. CASE mine
        BY <3>1, <3>2, <4>1 DEF x
      <4>2. CASE ~mine
        BY <3>1, <3>2, <4>2
      <4> QED  BY <4>1, <4>2
    <3> QED  BY <3>3 DEF old, new
  <2>3. more \in Seq(Plains)
    <3> HIDE DEF x
    <3> QED  BY <2>1, EmptySeq
  <2> HIDE DEF more
  <2>4. InFlight(incoming', outgoing', "ack", Dst, Src) = fl \o more
    <3>1. LET g      == Head(incoming[h])
              flight == InFlight(incoming, outgoing, "ack", Dst, Src)
              next   == InFlight(incoming', outgoing', "ack", Dst, Src)
          IN  IF h = Src /\ Goes(g, "ack", Dst, Src)
              THEN flight # << >> /\ Head(flight) = Plain(g) /\ next = Tail(flight) \o more
              ELSE next = flight \o more
      <4>1. TypeInv /\ Src \in Hosts /\ Dst \in Hosts /\ Takes(h)  BY <1>1, <1>7
      <4> QED  BY <2>2, <2>3, <4>1, InFlightTaken
    <3>2. ~Goes(f, "ack", Dst, Src)  BY <1>5 DEF Goes
    <3> QED  BY <3>1, <3>2 DEF f
  <2>5. fl \in Seq(Plains)  BY <1>1, InFlightParts
  <2>6. PairAcks = fl /\ PairAcks' = InFlight(incoming', outgoing', "ack", Dst, Src)
    BY DEF PairAcks
  <2> HIDE DEF fl, x
  <2>7. fl \o <<x>> = Append(fl, x) /\ fl \o << >> = fl
    BY <2>1, <2>5, AppendIsConcat, ConcatEmptySeq
  <2>8. CASE mine
    BY <2>4, <2>6, <2>7, <2>8 DEF more, x
  <2>9. CASE ~mine
    BY <2>4, <2>6, <2>7, <2>9 DEF more
  <2> QED  BY <2>8, <2>9
<1>13. IF mine
         THEN /\ recvWindow'[Dst][Src] = Moved(slots, run)
              /\ handed'[Dst][Src] = handed[Dst][Src] \o [i \in 1 .. run |-> slots[i].id]
              /\ lfr'[Dst][Src] = SeqAdd(lfr[Dst][Src], run)
       ELSE /\ recvWindow'[Dst][Src] = recvWindow[Dst][Src]
            /\ handed'[Dst][Src] = handed[Dst][Src] /\ lfr'[Dst][Src] = lfr[Dst][Src]
  <2> DEFINE x == handed[h][f.src] \o [i \in 1 .. run |-> slots[i].id]
  <2>1. mine <=> Dst = h /\ Src = f.src  BY DEF mine
  <2>2. /\ recvWindow' = [recvWindow EXCEPT ![h][f.src] = Moved(slots, run)]
        /\ lfr' = [lfr EXCEPT ![h][f.src] = SeqAdd(lfr[h][f.src], run)]
        /\ handed' = [handed EXCEPT ![h][f.src] = x]
    BY <1>3 DEF Receives, f
  <2>3. /\ handed \in [Hosts -> [Hosts -> Seq(Nat)]] /\ lfr \in [Hosts -> [Hosts -> SeqNums]]
        /\ recvWindow \in [Hosts -> [Hosts -> [1 .. W -> Frames \cup {NoFrame}]]]
    BY <1>1 DEF TypeInv, TypeOK, HistoryOK
  <2> HIDE DEF x
  <2>4. /\ recvWindow'[Dst][Src] = IF mine THEN Moved(slots, run) ELSE recvWindow[Dst][Src]
        /\ lfr'[Dst][Src] = IF mine THEN SeqAdd(lfr[h][f.src], run) ELSE lfr[Dst][Src]
        /\ handed'[Dst][Src] = IF mine THEN x ELSE handed[Dst][Src]
    BY <1>1, <1>5, <2>1, <2>2, <2>3
  <2>5. CASE mine
    BY <2>1, <2>4, <2>5 DEF x
  <2>6. CASE ~mine
    BY <2>4, <2>6
  <2> QED  BY <2>5, <2>6
<1>14. CASE ~mine
  <2>1. PairReceiverSame
    BY <1>13, <1>14 DEF PairReceiverSame, PairSlots
  <2> QED  BY <1>6, <1>11, <1>12, <1>14, <2>1 DEF PairSame
<1>15. CASE mine
  <2> DEFINE w     == recvWindow[Dst][Src]
             place == SeqNumDiff(lfr[Dst][Src], f.seq)
             plain == PlainSlots(slots)
  <2>1. /\ slots = IF place \in 1 .. W THEN [w EXCEPT ![place] = f] ELSE w
        /\ run = IF place \in 1 .. W THEN Run(slots) ELSE 0
        /\ \A i \in 1 .. run : slots[i] # NoFrame
    BY <1>3, <1>15 DEF Receives, mine, f
  <2>2. /\ w \in [1 .. W -> Frames \cup {NoFrame}] /\ lfr[Dst][Src] \in SeqNums
        /\ handed[Dst][Src] \in Seq(Nat)
    BY <1>1, HostTypes
  <2>3. PairSlots = PlainSlots(w) /\ PairSlots' = PlainSlots(Moved(slots, run))
    BY <1>13, <1>15 DEF PairSlots
  <2>4. /\ \A i \in 1 .. W : slots[i] # NoFrame => plain[i] = Plain(slots[i])
        /\ Run(plain) = Run(slots)
    BY <1>3, PlainSlotsFacts
  <2>5. PairSlots' = [i \in 1 .. W |-> IF i + run <= W THEN plain[i + run] ELSE NoFrame]
    BY <1>3, <2>3, PlainSlotsMoved
  <2>6. Plain(f).seq = f.seq  BY DEF Plain
  <2>16. \A i \in 1 .. run : i \in 1 .. W /\ slots[i] # NoFrame /\ slots[i] \in Frames
    <3>1. \A i \in 1 .. run : slots[i] # NoFrame  BY <2>1
    <3>2. W \in Nat /\ run \in 0 .. W  BY <1>3, Constants
    <3>3. \A i \in 1 .. run : i \in 1 .. W  BY <3>2
    <3> QED  BY <1>3, <3>1, <3>3
  <2>7. \A i \in 1 .. run : plain[i].id = slots[i].id
    <3> DEFINE s == slots
    <3>1. \A i \in 1 .. run : i \in 1 .. W /\ s[i] # NoFrame  BY <2>16
    <3>2. \A i \in 1 .. W : s[i] # NoFrame => plain[i] = Plain(s[i])  BY <2>4
    <3> HIDE DEF plain, s
    <3>3. \A i \in 1 .. run : plain[i] = Plain(s[i])  BY <3>1, <3>2
    <3>4. \A x : Plain(x).id = x.id  BY DEF Plain
    <3>5. \A i \in 1 .. run : plain[i].id = s[i].id  BY <3>3, <3>4
    <3> QED  BY <3>5 DEF s
  <2> DEFINE new == [i \in 1 .. run |-> slots[i].id]
  <2>8. [i \in 1 .. run |-> plain[i].id] = new
    <3> HIDE DEF plain
    <3> QED  BY <2>7
  <2>9. /\ handed'[Dst][Src] = handed[Dst][Src] \o new
        /\ lfr'[Dst][Src] = SeqAdd(lfr[Dst][Src], run)
    BY <1>13, <1>15
  <2>10. Len(handed'[Dst][Src]) = Len(handed[Dst][Src]) + run
    <3>1. \A i \in 1 .. run : slots[i].id \in Nat
      BY <2>16 DEF Frames
    <3>2. new \in Seq(Nat) /\ Len(new) = run
      BY <1>3, <3>1, Constants
    <3> DEFINE d == handed[Dst][Src]
    <3>3. d \in Seq(Nat)  BY <2>2
    <3> HIDE DEF new, d
    <3>4. Len(d \o new) = Len(d) + Len(new)  BY <3>2, <3>3, ConcatProperties
    <3> QED  BY <2>9, <3>2, <3>4 DEF d
  <2>11. PairAcks' = Append(PairAcks, [id |-> Len(handed'[Dst][Src]), seq |-> lfr'[Dst][Src]])
    <3>1. Plain(ack) = [id |-> Len(handed'[Dst][Src]), seq |-> lfr'[Dst][Src]]
      BY <1>9, <1>15, <2>9, <2>10 DEF mine
    <3> QED  BY <1>12, <1>15, <3>1
  <2>12. PairData # << >> /\ Head(PairData) = Plain(f) /\ PairData' = Tail(PairData)
    BY <1>11, <1>15
  <2> DEFINE x  == Head(PairData)
             at == SeqNumDiff(lfr[Dst][Src], x.seq)
             ps == [PairSlots EXCEPT ![at] = x]
             n  == Run(ps)
  <2>13. at = place  BY <2>6, <2>12
  <2>14. CASE place \in 1 .. W
    <3>1. slots = [w EXCEPT ![place] = f] /\ run = Run(slots)  BY <2>1, <2>14
    <3>2. ps = plain
      <4>1. PlainSlots([w EXCEPT ![place] = f]) = [PlainSlots(w) EXCEPT ![place] = Plain(f)]
        BY <1>5, <2>2, <2>14, PlainSlotsPut
      <4>2. plain = [PairSlots EXCEPT ![place] = Plain(f)]
        BY <2>3, <3>1, <4>1
      <4> HIDE DEF place, plain
      <4> QED  BY <2>12, <2>13, <4>2
    <3>3. n = run
      <4> HIDE DEF ps, plain
      <4> QED  BY <2>4, <3>1, <3>2
    <3>4. /\ at \in 1 .. W
          /\ PairSlots' = [i \in 1 .. W |-> IF i + n <= W THEN ps[i + n] ELSE NoFrame]
          /\ handed'[Dst][Src] = handed[Dst][Src] \o [i \in 1 .. n |-> ps[i].id]
          /\ lfr'[Dst][Src] = SeqAdd(lfr[Dst][Src], n)
      <4> HIDE DEF at, n, ps, plain, place
      <4> QED  BY <2>5, <2>8, <2>9, <2>13, <2>14, <3>2, <3>3
    <3>5. IF at \in 1 .. W
          THEN /\ PairSlots' = [i \in 1 .. W |-> IF i + n <= W THEN ps[i + n] ELSE NoFrame]
               /\ handed'[Dst][Src] = handed[Dst][Src] \o [i \in 1 .. n |-> ps[i].id]
               /\ lfr'[Dst][Src] = SeqAdd(lfr[Dst][Src], n)
          ELSE PairReceiverSame
      <4> HIDE DEF at, n, ps
      <4> QED  BY <3>4
    <3> QED  BY <1>6, <2>11, <2>12, <3>5, PairHandleFrame, Zenon
  <2>15. CASE ~(place \in 1 .. W)
    <3>1. slots = w /\ run = 0  BY <2>1, <2>15
    <3>2. PairSlots' = PairSlots
      <4>1. Moved(slots, run) = w
        BY <2>2, <3>1, Constants DEF Moved
      <4> QED  BY <2>3, <4>1
    <3>3. lfr'[Dst][Src] = lfr[Dst][Src]
      <4>1. \A y \in SeqNums : SeqAdd(y, 0) = y
        BY SeqNumAssumption DEF SeqAdd, SeqNums
      <4> QED  BY <2>2, <2>9, <3>1, <4>1
    <3>4. handed'[Dst][Src] = handed[Dst][Src]
      <4> DEFINE d == handed[Dst][Src]
      <4>1. d \in Seq(Nat) /\ handed'[Dst][Src] = d \o new /\ new = << >>
        BY <2>2, <2>9, <3>1
      <4> HIDE DEF d, new
      <4>2. d \o << >> = d  BY <4>1, ConcatEmptySeq
      <4> QED  BY <4>1, <4>2 DEF d
    <3>5. PairReceiverSame
      BY <3>2, <3>3, <3>4 DEF PairReceiverSame
    <3>6. IF at \in 1 .. W
          THEN /\ PairSlots' = [i \in 1 .. W |-> IF i + n <= W THEN ps[i + n] ELSE NoFrame]
               /\ handed'[Dst][Src] = handed[Dst][Src] \o [i \in 1 .. n |-> ps[i].id]
               /\ lfr'[Dst][Src] = SeqAdd(lfr[Dst][Src], n)
          ELSE PairReceiverSame
      <4>1. ~(at \in 1 .. W)  BY <2>13, <2>15
      <4> HIDE DEF at, n, ps
      <4> QED  BY <3>5, <4>1
    <3> QED  BY <1>6, <2>11, <2>12, <3>6, PairHandleFrame, Zenon
  <2> QED  BY <2>14, <2>15
<1> QED  BY <1>14, <1>15

\* Every other step leaves the pair's frames alone.
LEMMA OtherSteps ==
  [Next]_vars =>
    \/ HandleInputCmds \/ Tick \/ HandleTimedoutFrames \/ DropCorruptAck
    \/ DropCorruptFrame \/ HandleIncomingAck \/ ResendFrame \/ ReleaseFrame
    \/ SendDataFrame \/ HandleIncomingFrame \/ SendAckFrame
    \/ UNCHANGED <<buffered, window, incoming, outgoing, submitted, currSeq,
                   recvWindow, lfr, handed>>
  BY DEF Next, Turn, vars, control, queues, sending, recving, history,
     AcceptMessage, StartTurn, BeginSenders, ExitCommand, InputError, RunSender,
     SenderDone, OutgoingDone, DataSent, PrintMessage, FramesReceived, EndTurn, Terminated

LEMMA PairNext == FlowInv /\ [Next]_vars => [Pair!Next]_(Pair!vars)
<1> SUFFICES ASSUME FlowInv, [Next]_vars
             PROVE  Pair!Next \/ UNCHANGED Pair!vars
  OBVIOUS
<1>1. TypeInv
  BY DEF FlowInv
<1>2. CASE HandleInputCmds
  BY <1>2, SubmitStep, PairStutter DEF Pair!Next
<1>3. CASE Tick \/ HandleTimedoutFrames
  BY <1>1, <1>3, TimerStep, PairStutter
<1>4. CASE DropCorruptAck \/ DropCorruptFrame
  BY <1>1, <1>4, DropStep, PairStutter
<1>5. CASE HandleIncomingAck
  BY <1>5, AckStep, PairStutter DEF Pair!Next
<1>6. CASE ResendFrame \/ ReleaseFrame
  BY <1>6, ResendStep, ReleaseStep, PairStutter DEF Pair!Next
<1>7. CASE SendDataFrame \/ SendAckFrame
  BY <1>7, SendDataStep, SendAckStep, PairStutter DEF Pair!Next
<1>8. CASE HandleIncomingFrame
  BY <1>8, FrameStep, PairStutter DEF Pair!Next
<1>9. CASE UNCHANGED <<buffered, window, incoming, outgoing, submitted, currSeq,
                       recvWindow, lfr, handed>>
  BY <1>9, QuietStep, PairStutter
<1> QED  BY <1>2, <1>3, <1>4, <1>5, <1>6, <1>7, <1>8, <1>9, OtherSteps

LEMMA PairInit == Init => Pair!Init
<1> SUFFICES ASSUME Init PROVE Pair!Init
  OBVIOUS
<1>1. Src \in Hosts /\ Dst \in Hosts /\ W \in Nat
  BY Constants
<1>2. /\ submitted[Src][Dst] = << >> /\ currSeq[Src][Dst] = 0 /\ window[Src][Dst] = << >>
      /\ lfr[Dst][Src] = MAX_SEQ_NUM /\ handed[Dst][Src] = << >>
      /\ recvWindow[Dst][Src] = [i \in 1 .. W |-> NoFrame]
      /\ buffered[Src] = << >>
      /\ \A h \in Hosts : incoming[h] = << >> /\ outgoing[h] = << >>
  BY <1>1 DEF Init, Each
<1>3. PairWindow = << >>
  BY <1>2 DEF PairWindow
<1>4. PairSlots = [i \in 1 .. W |-> NoFrame]
  BY <1>2 DEF PairSlots, PlainSlots
<1>5. ASSUME NEW kind, NEW from, NEW to, NEW q \in Seq(Frames), q = << >>
      PROVE  Selected(q, kind, from, to) = << >>
  <2>1. \A i \in DOMAIN q : ~Goes(q[i], kind, from, to)  BY <1>5
  <2> QED  BY <2>1, SelectedNone
<1> DEFINE e == << >>
<1>6. e \in Seq(Frames) /\ e \o e = e
  <2>1. e \in Seq(Frames)  BY EmptySeq
  <2> QED  BY <2>1, ConcatEmptySeq
<1>7. PairBuffered = << >>
  <2>1. Selected(e, "data", Src, Dst) = e  BY <1>5, <1>6
  <2> QED  BY <1>2, <2>1 DEF PairBuffered
<1>8. ASSUME NEW kind, NEW from \in Hosts, NEW to \in Hosts
      PROVE  InFlight(incoming, outgoing, kind, from, to) = << >>
  <2>1. Selected(e, kind, from, to) = e  BY <1>5, <1>6
  <2>2. incoming[to] = e /\ outgoing[from] = e  BY <1>2
  <2> HIDE DEF e
  <2>3. InFlight(incoming, outgoing, kind, from, to) = e \o e
    BY <2>1, <2>2 DEF InFlight
  <2> QED  BY <1>6, <2>3 DEF e
<1>9. PairData = << >> /\ PairAcks = << >>
  BY <1>1, <1>8 DEF PairData, PairAcks
<1> QED  BY <1>2, <1>3, <1>4, <1>7, <1>9 DEF Pair!Init

\* Every turn of the program is a run of the window protocol between Src and
\* Dst, whatever the other hosts, the timers, the congestion control, the rate
\* limit and the order of the hosts do: every theorem on SlidingWindow holds of
\* every pair of hosts.
THEOREM PairRefined == Spec => PairSpec
  BY FlowInvariance, PairInit, PairNext, PTL DEF Spec, PairSpec, Pair!Spec
------------------------------------------------------------------------------
\* The protocol's theorems, of the pair.
Window == INSTANCE SlidingWindowProofs WITH
  MaxFrames   <- Unbounded,
  MaxInFlight <- Unbounded,
  submitted   <- submitted[Src][Dst],
  currSeq     <- currSeq[Src][Dst],
  buffered    <- PairBuffered,
  window      <- PairWindow,
  data        <- PairData,
  recvWindow  <- PairSlots,
  lfr         <- lfr[Dst][Src],
  delivered   <- handed[Dst][Src],
  acks        <- PairAcks

LEMMA WindowConstants == Window!WindowAssumption
  BY SeqNumAssumption, CongestionAssumption, TransportAssumption, PlainAssumption
  DEF Window!WindowAssumption, Window!Frame, Window!SeqNums, SeqNums, Window!Unbounded, Unbounded

LEMMA WindowInit == Pair!Init => Window!Init
  BY DEF Pair!Init, Window!Init

LEMMA WindowOperators ==
  /\ \A x, n : Window!SeqAdd(x, n) = Pair!SeqAdd(x, n)
  /\ \A x : Window!SeqInc(x) = Pair!SeqInc(x)
  /\ \A x, y : Window!SeqNumDiff(x, y) = Pair!SeqNumDiff(x, y)
  /\ \A n, b : Window!Within(n, b) <=> Pair!Within(n, b)
  /\ \A s : Window!Run(s) = Pair!Run(s)
  /\ \A s, i : Window!RemoveAt(s, i) = Pair!RemoveAt(s, i)
  /\ \A s : Window!Range(s) = Pair!Range(s)
<1>1. /\ \A x, n : Window!SeqAdd(x, n) = Pair!SeqAdd(x, n)
      /\ \A x : Window!SeqInc(x) = Pair!SeqInc(x)
  BY DEF Pair!SeqInc, Pair!SeqAdd, Window!SeqInc, Window!SeqAdd
<1>2. \A x, y : Window!SeqNumDiff(x, y) = Pair!SeqNumDiff(x, y)
  BY DEF Pair!SeqNumDiff, Pair!HALF, Window!SeqNumDiff, Window!HALF
<1>3. \A n, b : Window!Within(n, b) <=> Pair!Within(n, b)
  BY DEF Pair!Within, Pair!Unbounded, Window!Within, Window!Unbounded
<1>4. \A s : Window!Run(s) = Pair!Run(s)
  BY DEF Pair!Run, Window!Run
<1>5. \A s, i : Window!RemoveAt(s, i) = Pair!RemoveAt(s, i)
  BY DEF Pair!RemoveAt, Window!RemoveAt
<1>6. \A s : Window!Range(s) = Pair!Range(s)
  BY DEF Pair!Range, Window!Range
<1> QED  BY <1>1, <1>2, <1>3, <1>4, <1>5, <1>6

LEMMA WindowVars ==
  /\ UNCHANGED Pair!vars => UNCHANGED Window!vars
  /\ UNCHANGED Pair!senderVars => UNCHANGED Window!senderVars
  /\ UNCHANGED Pair!receiverVars => UNCHANGED Window!receiverVars
  BY DEF Window!vars, Pair!vars, Window!senderVars, Pair!senderVars,
         Window!receiverVars, Pair!receiverVars

LEMMA WindowNext == [Pair!Next]_(Pair!vars) => [Window!Next]_(Window!vars)
<1>1. Pair!Submit => Window!Submit
  BY WindowOperators DEF Pair!Submit, Window!Submit, Pair!receiverVars, Window!receiverVars, Pair!Unbounded, Window!Unbounded
<1>2. Pair!SendFrames => Window!SendFrames
  BY WindowOperators, Zenon DEF Pair!SendFrames, Window!SendFrames, Pair!receiverVars, Window!receiverVars
<1>3. Pair!HandleAck => Window!HandleAck
  <2>1. \A seq : Window!Acknowledged(seq) = Pair!Acknowledged(seq)
    BY WindowOperators DEF Window!Acknowledged, Pair!Acknowledged
  <2>2. \A seq : Window!FastRetransmit(seq) = Pair!FastRetransmit(seq)
    BY WindowOperators DEF Window!FastRetransmit, Pair!FastRetransmit
  <2> QED  BY <2>1, <2>2, WindowOperators, Zenon DEF Pair!HandleAck, Window!HandleAck, Pair!receiverVars, Window!receiverVars
<1>4. Pair!HandleFrame => Window!HandleFrame
  <2> DEFINE f == Head(PairData)
             place == Pair!SeqNumDiff(lfr[Dst][Src], f.seq)
             slots == [PairSlots EXCEPT ![place] = f]
             run   == Pair!Run(slots)
             place2 == Window!SeqNumDiff(lfr[Dst][Src], f.seq)
             slots2 == [PairSlots EXCEPT ![place2] = f]
             run2   == Window!Run(slots2)
  <2> SUFFICES ASSUME Pair!HandleFrame PROVE Window!HandleFrame
    OBVIOUS
  <2>1. /\ PairData # << >> /\ PairData' = Tail(PairData)
        /\ Window!Within(Len(PairAcks) + 1, Unbounded)
        /\ PairAcks' = Append(PairAcks, [id |-> Len(handed'[Dst][Src]), seq |-> lfr'[Dst][Src]])
    BY WindowOperators DEF Pair!HandleFrame
  <2>2. UNCHANGED Window!senderVars
    BY WindowVars DEF Pair!HandleFrame
  <2>3. /\ place \in 1 .. W => 
             /\ PairSlots' = [i \in 1 .. W |-> IF i + run <= W THEN slots[i + run] ELSE NoFrame]
             /\ handed'[Dst][Src] = handed[Dst][Src] \o [i \in 1 .. run |-> slots[i].id]
             /\ lfr'[Dst][Src] = Pair!SeqAdd(lfr[Dst][Src], run)
        /\ ~(place \in 1 .. W) => UNCHANGED Pair!receiverVars
    BY DEF Pair!HandleFrame
  <2>4. place2 = place  BY WindowOperators
  <2>5. slots2 = slots
    <3> HIDE DEF place2, place
    <3> QED  BY <2>4
  <2>6. run2 = run
    <3> HIDE DEF slots2, slots
    <3> QED  BY <2>5, WindowOperators
  <2>7. Window!SeqAdd(lfr[Dst][Src], run) = Pair!SeqAdd(lfr[Dst][Src], run)
    BY WindowOperators
  <2>8. CASE place \in 1 .. W
    <3>1. /\ place2 \in 1 .. W
          /\ PairSlots' = [i \in 1 .. W |-> IF i + run2 <= W THEN slots2[i + run2] ELSE NoFrame]
          /\ handed'[Dst][Src] = handed[Dst][Src] \o [i \in 1 .. run2 |-> slots2[i].id]
          /\ lfr'[Dst][Src] = Window!SeqAdd(lfr[Dst][Src], run2)
      <4> HIDE DEF place, slots, run, place2, slots2, run2
      <4> QED  BY <2>3, <2>4, <2>5, <2>6, <2>7, <2>8
    <3> QED  BY <2>1, <2>2, <3>1, Zenon DEF Window!HandleFrame
  <2>9. CASE ~(place \in 1 .. W)
    <3>1. ~(place2 \in 1 .. W) /\ UNCHANGED Window!receiverVars
      BY <2>3, <2>4, <2>9, WindowVars
    <3> QED  BY <2>1, <2>2, <3>1, Zenon DEF Window!HandleFrame
  <2> QED  BY <2>8, <2>9
<1>5. Pair!LoseData \/ Pair!LoseAck => Window!LoseData \/ Window!LoseAck
  BY WindowOperators DEF Pair!LoseData, Pair!LoseAck, Window!LoseData, Window!LoseAck, Pair!receiverVars, Window!receiverVars,
     Pair!senderVars, Window!senderVars
<1>6. Pair!Next => Window!Next
  BY <1>1, <1>2, <1>3, <1>4, <1>5 DEF Pair!Next, Window!Next
<1>7. UNCHANGED Pair!vars => UNCHANGED Window!vars
  BY WindowVars
<1> QED  BY <1>6, <1>7

\* The pair keeps the inductive invariant of the window protocol.
LEMMA PairInvariance == Spec => []Window!IInv
<1>1. Window!SeqNumAssumption
  BY SeqNumAssumption DEF Window!SeqNumAssumption
<1>2. Window!Init => Window!IInv
  BY <1>1, WindowConstants, Window!InitIInv
<1>3. Window!IInv /\ [Window!Next]_(Window!vars) => Window!IInv'
  BY <1>1, WindowConstants, Window!NextIInv
<1>4. Pair!Init => Window!IInv
  BY <1>2, WindowInit
<1>5. Window!IInv /\ [Pair!Next]_(Pair!vars) => Window!IInv'
  BY <1>3, WindowNext
<1> QED  BY <1>4, <1>5, PairRefined, PTL DEF PairSpec, Pair!Spec

------------------------------------------------------------------------------
\* What was printed, and what waits for the rest of its message, is what was
\* handed over: messages that end at `ends`, ids handed over, frames that wait,
\* messages printed.
MessageOf(ends, m) ==
  LET before == IF m = 1 THEN 0 ELSE ends[m - 1]
  IN  [i \in 1 .. ends[m] - before |-> before + i]
PrintedEnd(ends, out) == IF Len(out) = 0 THEN 0 ELSE ends[Len(out)]
StreamOK(ends, ids, frames, out) ==
  LET e == PrintedEnd(ends, out)
  IN  /\ Len(out) <= Len(ends)
      /\ \A m \in DOMAIN out : out[m] = MessageOf(ends, m)
      /\ Len(ids) = e + Len(frames)
      /\ \A j \in DOMAIN frames : frames[j].id = ids[e + j]
StreamInv ==
  StreamOK(sent[Src][Dst], handed[Dst][Src], recvMsg[Dst][Src], printed[Dst][Src])

\* Where the printed messages end.
LEMMA PrintedEndType ==
  ASSUME NEW ends \in Seq(Nat), NEW out \in Seq(Seq(Nat)), Len(out) <= Len(ends)
  PROVE  /\ PrintedEnd(ends, out) \in Nat
         /\ Len(out) \in Nat /\ DOMAIN out = 1 .. Len(out)
         /\ Len(ends) \in Nat /\ DOMAIN ends = 1 .. Len(ends)
         /\ Len(out) # 0 => Len(out) \in 1 .. Len(ends)
<1>1. /\ Len(out) \in Nat /\ DOMAIN out = 1 .. Len(out)
      /\ Len(ends) \in Nat /\ DOMAIN ends = 1 .. Len(ends)
  BY LenProperties
<1>2. Len(out) # 0 => Len(out) \in 1 .. Len(ends)
  BY <1>1
<1>3. Len(out) # 0 => ends[Len(out)] \in Nat
  BY <1>2, ElementOfSeq
<1> QED  BY <1>1, <1>2, <1>3 DEF PrintedEnd

\* The items of two sequences, one after the other.
LEMMA ConcatItems ==
  ASSUME NEW S, NEW q \in Seq(S), NEW r \in Seq(S)
  PROVE  /\ Len(q \o r) = Len(q) + Len(r)
         /\ \A i \in 1 .. Len(q) : (q \o r)[i] = q[i]
         /\ \A i \in 1 .. Len(r) : (q \o r)[Len(q) + i] = r[i]
<1> DEFINE n == Len(q)
           m == Len(r)
           all == q \o r
<1>1. n \in Nat /\ m \in Nat
  BY LenProperties
<1>2. /\ Len(all) = n + m
      /\ \A i \in 1 .. n + m : all[i] = IF i <= n THEN q[i] ELSE r[i - n]
  BY ConcatProperties
<1> HIDE DEF n, m, all
<1>3. \A i \in 1 .. n : all[i] = q[i]
  BY <1>1, <1>2
<1>4. \A i \in 1 .. m : all[n + i] = r[i]
  <2> TAKE i \in 1 .. m
  <2>1. n + i \in 1 .. n + m /\ ~(n + i <= n) /\ (n + i) - n = i
    BY <1>1
  <2> QED  BY <1>2, <2>1
<1> QED  BY <1>2, <1>3, <1>4 DEF n, m, all

\* The user types a message.
LEMMA StreamTyped ==
  ASSUME NEW ends \in Seq(Nat), NEW ids \in Seq(Nat), NEW frames \in Seq(Frames),
         NEW out \in Seq(Seq(Nat)), StreamOK(ends, ids, frames, out), NEW x \in Nat
  PROVE  StreamOK(Append(ends, x), ids, frames, out)
<1> DEFINE more == Append(ends, x)
<1>1. Len(out) <= Len(ends)
  BY DEF StreamOK
<1>2. /\ Len(out) \in Nat /\ DOMAIN out = 1 .. Len(out) /\ Len(ends) \in Nat
      /\ Len(out) # 0 => Len(out) \in 1 .. Len(ends)
  BY <1>1, PrintedEndType
<1>3. Len(more) = Len(ends) + 1 /\ \A m \in 1 .. Len(ends) : more[m] = ends[m]
  BY AppendProperties
<1> HIDE DEF more
<1>4. PrintedEnd(more, out) = PrintedEnd(ends, out)
  BY <1>2, <1>3 DEF PrintedEnd
<1>5. \A m \in 1 .. Len(ends) : MessageOf(more, m) = MessageOf(ends, m)
  <2> SUFFICES ASSUME NEW m \in 1 .. Len(ends) PROVE MessageOf(more, m) = MessageOf(ends, m)
    OBVIOUS
  <2>1. m # 1 => m - 1 \in 1 .. Len(ends)
    BY <1>2
  <2>2. more[m] = ends[m] /\ (m # 1 => more[m - 1] = ends[m - 1])
    BY <1>3, <2>1
  <2> QED  BY <2>2 DEF MessageOf
<1>6. Len(out) <= Len(more) /\ \A m \in DOMAIN out : out[m] = MessageOf(more, m)
  BY <1>1, <1>2, <1>3, <1>5 DEF StreamOK
<1> QED  BY <1>4, <1>6 DEF StreamOK, more

\* Frames are handed over.
LEMMA StreamReceived ==
  ASSUME NEW ends \in Seq(Nat), NEW ids \in Seq(Nat), NEW frames \in Seq(Frames),
         NEW out \in Seq(Seq(Nat)), StreamOK(ends, ids, frames, out),
         NEW new \in Seq(Frames), NEW n \in Seq(Nat), Len(n) = Len(new),
         \A i \in 1 .. Len(new) : n[i] = new[i].id
  PROVE  StreamOK(ends, ids \o n, frames \o new, out)
<1> DEFINE e == PrintedEnd(ends, out)
           allIds == ids \o n
           all == frames \o new
<1>1. Len(out) <= Len(ends) /\ Len(ids) = e + Len(frames)
  BY DEF StreamOK
<1>2. /\ e \in Nat /\ Len(ids) \in Nat /\ Len(frames) \in Nat /\ Len(new) \in Nat
      /\ DOMAIN frames = 1 .. Len(frames)
  BY <1>1, PrintedEndType, LenProperties
<1>3. /\ Len(allIds) = Len(ids) + Len(n)
      /\ \A i \in 1 .. Len(ids) : allIds[i] = ids[i]
      /\ \A i \in 1 .. Len(n) : allIds[Len(ids) + i] = n[i]
  <2>1. ASSUME NEW q \in Seq(Nat), NEW r \in Seq(Nat)
        PROVE  /\ Len(q \o r) = Len(q) + Len(r)
               /\ \A i \in 1 .. Len(q) : (q \o r)[i] = q[i]
               /\ \A i \in 1 .. Len(r) : (q \o r)[Len(q) + i] = r[i]
    BY ConcatItems
  <2> QED  BY <2>1, Zenon
<1>4. /\ all \in Seq(Frames) /\ Len(all) = Len(frames) + Len(new)
      /\ DOMAIN all = 1 .. Len(frames) + Len(new)
      /\ \A i \in 1 .. Len(frames) : all[i] = frames[i]
      /\ \A i \in 1 .. Len(new) : all[Len(frames) + i] = new[i]
  BY ConcatItems, ConcatProperties, LenProperties
<1> HIDE DEF allIds, all, e
<1>5. Len(allIds) = e + Len(all)
  BY <1>1, <1>2, <1>3, <1>4
<1>6. ASSUME NEW j \in DOMAIN all PROVE all[j].id = allIds[e + j]
  <2>1. CASE j <= Len(frames)
    <3>1. j \in 1 .. Len(frames) /\ e + j \in 1 .. Len(ids)
      BY <1>1, <1>2, <1>4, <2>1, SMTT(40)
    <3>2. frames[j].id = ids[e + j]
      BY <1>2, <3>1 DEF StreamOK, e
    <3> QED  BY <1>3, <1>4, <3>1, <3>2
  <2>2. CASE ~(j <= Len(frames))
    <3> DEFINE i == j - Len(frames)
    <3>1. i \in 1 .. Len(new) /\ j = Len(frames) + i /\ e + j = Len(ids) + i
      BY <1>1, <1>2, <1>4, <2>2
    <3> HIDE DEF i
    <3> QED  BY <1>3, <1>4, <3>1
  <2> QED  BY <2>1, <2>2
<1>7. Len(out) <= Len(ends) /\ \A m \in DOMAIN out : out[m] = MessageOf(ends, m)
  BY DEF StreamOK
<1> QED  BY <1>5, <1>6, <1>7 DEF StreamOK, allIds, all, e

\* The first frame that ends a message ends the next one to print.
LEMMA NextEnd ==
  ASSUME NEW ends \in Seq(Nat), NEW ids \in Seq(Nat), NEW frames \in Seq(Frames),
         NEW out \in Seq(Seq(Nat)), StreamOK(ends, ids, frames, out), Complete(frames),
         \A m, k \in DOMAIN ends : m < k => ends[m] < ends[k],
         \A m \in DOMAIN ends : ends[m] > 0,
         \A i \in DOMAIN ids : ids[i] = i,
         \A j \in DOMAIN frames : frames[j].rem = 0 <=>
                                    \E m \in DOMAIN ends : ends[m] = frames[j].id
  PROVE  /\ Len(out) + 1 \in DOMAIN ends
         /\ ends[Len(out) + 1] = PrintedEnd(ends, out) + LastFragment(frames)
         /\ \A j \in DOMAIN frames : frames[j].id = PrintedEnd(ends, out) + j
<1> DEFINE e == PrintedEnd(ends, out)
           n == LastFragment(frames)
           p == Len(out)
<1>1. p <= Len(ends) /\ Len(ids) = e + Len(frames)
  BY DEF StreamOK
<1>2. /\ e \in Nat /\ p \in Nat /\ Len(ends) \in Nat /\ DOMAIN ends = 1 .. Len(ends)
      /\ p # 0 => p \in 1 .. Len(ends)
  BY <1>1, PrintedEndType
<1>3. /\ Len(frames) \in Nat /\ DOMAIN frames = 1 .. Len(frames)
      /\ Len(ids) \in Nat /\ DOMAIN ids = 1 .. Len(ids)
      /\ \A m \in 1 .. Len(ends) : ends[m] \in Nat
  BY LenProperties, ElementOfSeq
<1>4. /\ n \in 1 .. Len(frames) /\ frames[n].rem = 0
      /\ \A j \in 1 .. n - 1 : frames[j].rem # 0
  BY CompleteFacts
<1>5. e = IF p = 0 THEN 0 ELSE ends[p]
  BY DEF PrintedEnd
<1> HIDE DEF e, n, p
<1>6. \A j \in DOMAIN frames : frames[j].id = e + j
  <2> SUFFICES ASSUME NEW j \in DOMAIN frames PROVE frames[j].id = e + j
    OBVIOUS
  <2>1. e + j \in DOMAIN ids
    BY <1>1, <1>2, <1>3
  <2>2. frames[j].id = ids[e + j]
    BY DEF StreamOK, e
  <2> QED  BY <2>1, <2>2
<1>7. PICK k \in DOMAIN ends : ends[k] = e + n
  BY <1>3, <1>4, <1>6
<1>8. \A j \in 1 .. n - 1 : \A m \in DOMAIN ends : ends[m] # e + j
  <2> TAKE j \in 1 .. n - 1
  <2>1. j \in DOMAIN frames
    BY <1>3, <1>4
  <2> QED  BY <1>4, <1>6, <2>1
<1>9. k > p
  <2> SUFFICES ASSUME k <= p PROVE FALSE
    BY <1>2
  <2>1. p \in DOMAIN ends /\ e = ends[p]
    BY <1>2, <1>5
  <2>2. ends[k] \in Nat /\ ends[p] \in Nat
    BY <1>2, <1>3, <2>1
  <2>3. ends[k] <= ends[p]
    <3>1. CASE k = p  BY <2>2, <3>1
    <3>2. CASE k < p  BY <2>1, <2>2, <3>2
    <3> QED  BY <1>2, <3>1, <3>2
  <2> QED  BY <1>2, <1>3, <1>4, <1>7, <2>1, <2>2, <2>3
<1>10. p + 1 \in DOMAIN ends
  BY <1>2, <1>9
<1>11. ends[p + 1] > e
  <2>1. CASE p = 0
    BY <1>5, <1>10, <2>1
  <2>2. CASE p # 0
    <3>1. p \in DOMAIN ends /\ p < p + 1 /\ ends[p] \in Nat /\ ends[p + 1] \in Nat
      BY <1>2, <1>3, <1>10, <2>2
    <3>2. ends[p] < ends[p + 1]
      BY <1>10, <3>1
    <3> QED  BY <1>5, <2>2, <3>1, <3>2
  <2> QED  BY <2>1, <2>2
<1>12. ~(p + 1 < k)
  <2> SUFFICES ASSUME p + 1 < k PROVE FALSE
    OBVIOUS
  <2>1. ends[p + 1] < e + n /\ ends[p + 1] \in Nat
    BY <1>2, <1>3, <1>7, <1>10
  <2> DEFINE j == ends[p + 1] - e
  <2>2. j \in 1 .. n - 1 /\ ends[p + 1] = e + j
    BY <1>2, <1>3, <1>4, <1>11, <2>1, SMTT(40)
  <2> HIDE DEF j
  <2> QED  BY <1>8, <1>10, <2>2
<1>13. k = p + 1
  BY <1>2, <1>9, <1>12
<1> QED  BY <1>6, <1>7, <1>10, <1>13 DEF e, n, p

\* A message is printed.
LEMMA StreamPrinted ==
  ASSUME NEW ends \in Seq(Nat), NEW ids \in Seq(Nat), NEW frames \in Seq(Frames),
         NEW out \in Seq(Seq(Nat)), StreamOK(ends, ids, frames, out), Complete(frames),
         Len(out) + 1 \in DOMAIN ends,
         ends[Len(out) + 1] = PrintedEnd(ends, out) + LastFragment(frames),
         \A j \in DOMAIN frames : frames[j].id = PrintedEnd(ends, out) + j,
         Message(frames) \in Seq(Nat)
  PROVE  StreamOK(ends, ids, Remainder(frames), Append(out, Message(frames)))
<1> DEFINE e == PrintedEnd(ends, out)
           n == LastFragment(frames)
           p == Len(out)
           rest == Remainder(frames)
           text == Message(frames)
           all == Append(out, text)
<1>1. p <= Len(ends) /\ Len(ids) = e + Len(frames)
  BY DEF StreamOK
<1>2. /\ e \in Nat /\ p \in Nat /\ Len(ends) \in Nat /\ DOMAIN ends = 1 .. Len(ends)
      /\ p # 0 => p \in 1 .. Len(ends)
      /\ DOMAIN out = 1 .. p
  BY <1>1, PrintedEndType
<1>3. Len(frames) \in Nat /\ DOMAIN frames = 1 .. Len(frames)
  BY LenProperties
<1>4. /\ n \in 1 .. Len(frames)
      /\ rest \in Seq(Frames) /\ Len(rest) = Len(frames) - n
      /\ \A j \in 1 .. Len(frames) - n : rest[j] = frames[n + j]
  BY CompleteFacts
<1>5. text = [i \in 1 .. n |-> frames[i].id]
  BY DEF Message
<1>6. /\ p + 1 \in 1 .. Len(ends) /\ ends[p + 1] = e + n
      /\ \A j \in 1 .. Len(frames) : frames[j].id = e + j
  BY <1>2, <1>3
<1>7. e = IF p = 0 THEN 0 ELSE ends[p]
  BY DEF PrintedEnd
<1>8. /\ Len(all) = p + 1 /\ DOMAIN all = 1 .. p + 1 /\ all[p + 1] = text
      /\ \A m \in 1 .. p : all[m] = out[m]
  BY AppendProperties, LenProperties
<1>9. \A j \in 1 .. Len(frames) : frames[j].id = ids[e + j]
  BY <1>3 DEF StreamOK
<1>10. DOMAIN rest = 1 .. Len(rest)
  BY <1>4, LenProperties
<1>11. \A m \in 1 .. p : out[m] = MessageOf(ends, m)
  BY <1>2 DEF StreamOK
<1> HIDE DEF e, n, p, rest, text
<1>12. text = MessageOf(ends, p + 1)
  <2>1. text = [i \in 1 .. n |-> e + i]
    BY <1>3, <1>4, <1>5, <1>6
  <2>3. ends[p + 1] - e = n
    BY <1>2, <1>3, <1>4, <1>6
  <2> DEFINE k == p + 1
             b == IF k = 1 THEN 0 ELSE ends[k - 1]
  <2>2. b = e
    <3>1. k - 1 = p /\ (k = 1 <=> p = 0)
      BY <1>2
    <3> HIDE DEF k
    <3> QED  BY <1>7, <3>1
  <2>4. MessageOf(ends, k) = [i \in 1 .. ends[k] - b |-> b + i]
    BY DEF MessageOf
  <2> HIDE DEF b
  <2> QED  BY <2>1, <2>2, <2>3, <2>4
<1> HIDE DEF all
<1>13. PrintedEnd(ends, all) = e + n
  BY <1>2, <1>6, <1>8 DEF PrintedEnd
<1>14. \A m \in DOMAIN all : all[m] = MessageOf(ends, m)
  <2>1. ASSUME NEW m \in 1 .. p + 1 PROVE all[m] = MessageOf(ends, m)
    <3>1. CASE m = p + 1  BY <1>8, <1>12, <3>1
    <3>2. CASE m \in 1 .. p  BY <1>8, <1>11, <3>2
    <3> QED  BY <1>2, <3>1, <3>2
  <2> QED  BY <1>8, <2>1
<1>15. Len(all) <= Len(ends) /\ Len(ids) = (e + n) + Len(rest)
  BY <1>1, <1>2, <1>3, <1>4, <1>6, <1>8
<1>16. \A j \in DOMAIN rest : rest[j].id = ids[(e + n) + j]
  <2> SUFFICES ASSUME NEW j \in 1 .. Len(rest) PROVE rest[j].id = ids[(e + n) + j]
    BY <1>10
  <2>1. n + j \in 1 .. Len(frames) /\ e + (n + j) = (e + n) + j /\ j \in 1 .. Len(frames) - n
    BY <1>2, <1>3, <1>4
  <2>2. frames[n + j].id = ids[e + (n + j)]
    BY <1>9, <2>1
  <2> QED  BY <1>4, <2>1, <2>2
<1>17. StreamOK(ends, ids, rest, all)
  BY <1>13, <1>14, <1>15, <1>16 DEF StreamOK
<1> QED  BY <1>17 DEF rest, all, text

\* A message that was put together is a sequence of ids.
LEMMA MessageType ==
  ASSUME NEW frames \in Seq(Frames), Complete(frames)
  PROVE  Message(frames) \in Seq(Nat)
<1> DEFINE n == LastFragment(frames)
<1>1. n \in 1 .. Len(frames) /\ Len(frames) \in Nat
  BY CompleteFacts, LenProperties
<1>2. Message(frames) = [i \in 1 .. n |-> frames[i].id]
  BY DEF Message
<1> HIDE DEF n
<1>3. \A i \in 1 .. n : frames[i] \in Frames
  BY <1>1, ElementOfSeq
<1>4. [i \in 1 .. n |-> frames[i].id] \in [1 .. n -> Nat]
  BY <1>3 DEF Frames
<1> QED  BY <1>1, <1>2, <1>4, SameLength

\* What the window protocol says of the pair: fragments are handed over in the
\* order they were numbered, and all of them are when none is kept any more.
LEMMA PairDelivered ==
  ASSUME TypeInv, Window!IInv
  PROVE  /\ \A i \in DOMAIN handed[Dst][Src] : handed[Dst][Src][i] = i
         /\ PairBuffered = << >> /\ PairWindow = << >> =>
              Len(handed[Dst][Src]) = Len(submitted[Src][Dst])
<1>1. Len(handed[Dst][Src]) \in Nat /\ Len(submitted[Src][Dst]) \in Nat
  <2>1. handed[Dst][Src] \in Seq(Nat) /\ submitted[Src][Dst] \in Seq(SeqNums)
    BY Constants, HostTypes
  <2> QED  BY <2>1, LenProperties
<1>2. \A i \in DOMAIN handed[Dst][Src] : handed[Dst][Src][i] = i
  BY DEF Window!IInv
<1>3. Len(<< >>) = 0
  OBVIOUS
<1>4. Window!Forgotten <= Window!Received /\ Window!Received <= Window!Forgotten + Len(PairWindow)
  BY DEF Window!IInv, Window!ReceiverInv
<1>5. /\ Window!Forgotten = Len(submitted[Src][Dst]) - Len(PairBuffered) - Len(PairWindow)
      /\ Window!Received = Len(handed[Dst][Src])
  BY DEF Window!Forgotten, Window!Received
<1> QED  BY <1>1, <1>2, <1>3, <1>4, <1>5

\* What the user typed for the pair ends where its messages do.
LEMMA PairEnds ==
  ASSUME FlowInv
  PROVE  /\ \A m, k \in DOMAIN sent[Src][Dst] : m < k => sent[Src][Dst][m] < sent[Src][Dst][k]
         /\ \A m \in DOMAIN sent[Src][Dst] : sent[Src][Dst][m] > 0
<1>1. CommandsOK(cmds[Src], Dst, Len(submitted[Src][Dst]), sent[Src][Dst])
  BY Constants DEF FlowInv, CommandInv
<1> QED  BY <1>1 DEF CommandsOK

\* The messages of the pair do not change but by these steps.
LEMMA StreamKept ==
  [Next]_vars => \/ AcceptMessage \/ PrintMessage \/ HandleIncomingFrame
                 \/ UNCHANGED <<sent, handed, recvMsg, printed>>
  BY ReceivedKept, CommandsKept DEF HandleInputCmds

LEMMA NextStreamInv ==
  FlowInv /\ Window!IInv /\ StreamInv /\ [Next]_vars => StreamInv'
<1> SUFFICES ASSUME FlowInv, Window!IInv, StreamInv, [Next]_vars PROVE StreamInv'
  OBVIOUS
<1> DEFINE ends   == sent[Src][Dst]
           ids    == handed[Dst][Src]
           frames == recvMsg[Dst][Src]
           out    == printed[Dst][Src]
<1>1. TypeInv /\ Src \in Hosts /\ Dst \in Hosts
  BY Constants DEF FlowInv
<1>2. /\ ends \in Seq(Nat) /\ ids \in Seq(Nat) /\ frames \in Seq(Frames)
      /\ out \in Seq(Seq(Nat))
  BY <1>1, HostTypes
<1>3. StreamOK(ends, ids, frames, out)
  BY DEF StreamInv
<1>4. CASE UNCHANGED <<sent, handed, recvMsg, printed>>
  BY <1>4 DEF StreamInv
<1>5. CASE AcceptMessage
  <2>1. UNCHANGED <<handed, recvMsg, printed>>
    BY <1>5 DEF AcceptMessage, recving
  <2>2. ends' = ends \/ \E x \in Nat : ends' = Append(ends, x)
    <3>1. PICK s \in Hosts, d \in Hosts, n \in Nat \ {0} :
            /\ sent'[s][d] = Append(sent[s][d], EndOf(sent[s][d]) + n)
            /\ \A h, p \in Hosts : h # s \/ p # d => sent'[h][p] = sent[h][p]
            /\ EndOf(sent[s][d]) \in Nat
      BY <1>1, <1>5, NewMessage
    <3>2. EndOf(sent[s][d]) + n \in Nat
      BY <3>1
    <3> QED  BY <1>1, <3>1, <3>2
  <2> HIDE DEF ends, ids, frames, out
  <2>3. \A x \in Nat : StreamOK(Append(ends, x), ids, frames, out)
    BY <1>2, <1>3, StreamTyped
  <2>4. StreamOK(ends', ids, frames, out)
    BY <1>3, <2>2, <2>3
  <2> QED  BY <2>1, <2>4 DEF StreamInv, ends, ids, frames, out
<1>6. CASE HandleIncomingFrame
  <2>1. UNCHANGED <<sent, printed>>
    BY <1>6 DEF HandleIncomingFrame
  <2>2. PICK g \in Hosts, slots \in [1 .. W -> Frames \cup {NoFrame}], run \in 0 .. W :
          Receives(g, slots, run)
    BY <1>1, <1>6, FrameTyped
  <2>3. \A i \in 1 .. run : slots[i] # NoFrame
    BY <2>2 DEF Receives
  <2> DEFINE new == SubSeq(slots, 1, run)
             n   == [i \in 1 .. run |-> slots[i].id]
  <2>4. \/ recvMsg'[Dst][Src] = frames \o new /\ handed'[Dst][Src] = ids \o n
        \/ recvMsg'[Dst][Src] = frames /\ handed'[Dst][Src] = ids
    <3> DEFINE d == Head(incoming[g]).src
               m == recvMsg[g][d] \o new
               k == handed[g][d] \o n
    <3>1. /\ d \in Hosts /\ recvMsg' = [recvMsg EXCEPT ![g][d] = m]
          /\ handed' = [handed EXCEPT ![g][d] = k]
      BY <2>2 DEF Receives
    <3> HIDE DEF d, m, k, new, n
    <3>2. /\ recvMsg \in [Hosts -> [Hosts -> Seq(Frames)]]
          /\ handed \in [Hosts -> [Hosts -> Seq(Nat)]]
      BY <1>1 DEF TypeInv, TypeOK, HistoryOK
    <3>3. recvMsg'[g][d] = m /\ handed'[g][d] = k
      BY <3>1, <3>2
    <3>4. ~(g = Dst /\ d = Src) => recvMsg'[Dst][Src] = frames /\ handed'[Dst][Src] = ids
      BY <1>1, <3>1, <3>2
    <3>5. g = Dst /\ d = Src => m = frames \o new /\ k = ids \o n
      BY DEF m, k
    <3> QED  BY <3>3, <3>4, <3>5
  <2>5. new \in Seq(Frames) /\ Len(new) = run /\ \A i \in 1 .. run : new[i] = slots[i]
    BY <2>3, FrontFrames
  <2>6. run \in Nat /\ \A i \in 1 .. run : slots[i] \in Frames
    BY <2>3, Constants
  <2>7. n \in Seq(Nat) /\ Len(n) = run /\ \A i \in 1 .. run : n[i] = slots[i].id
    <3>1. \A i \in 1 .. run : slots[i].id \in Nat
      BY <2>6 DEF Frames
    <3>2. n \in [1 .. run -> Nat]
      BY <3>1
    <3> QED  BY <2>6, <3>2, SameLength
  <2> HIDE DEF ends, ids, frames, out, new, n
  <2>8. \A i \in 1 .. Len(new) : n[i] = new[i].id
    BY <2>5, <2>7
  <2>9. StreamOK(ends, ids \o n, frames \o new, out)
    BY <1>2, <1>3, <2>5, <2>7, <2>8, StreamReceived
  <2>10. StreamOK(ends, handed'[Dst][Src], recvMsg'[Dst][Src], out)
    BY <1>3, <2>4, <2>9
  <2> QED  BY <2>1, <2>10 DEF StreamInv, ends, out
<1>7. CASE PrintMessage
  <2>1. PICK g \in Hosts, d \in Hosts :
           /\ Complete(recvMsg[g][d])
           /\ recvMsg'[g][d] = Remainder(recvMsg[g][d])
           /\ printed'[g][d] = Append(printed[g][d], Message(recvMsg[g][d]))
           /\ \A h, p \in Hosts : h # g \/ p # d =>
                recvMsg'[h][p] = recvMsg[h][p] /\ printed'[h][p] = printed[h][p]
           /\ UNCHANGED <<handed, sent>>
    BY <1>1, <1>7, PrintPair
  <2>2. CASE ~(g = Dst /\ d = Src)
    BY <1>1, <1>3, <2>1, <2>2 DEF StreamInv
  <2>3. CASE g = Dst /\ d = Src
    <3>1. \A m, k \in DOMAIN ends : m < k => ends[m] < ends[k]
      BY PairEnds
    <3>2. \A m \in DOMAIN ends : ends[m] > 0
      BY PairEnds
    <3>3. \A i \in DOMAIN ids : ids[i] = i
      BY <1>1, PairDelivered
    <3>4. \A j \in DOMAIN frames : frames[j].rem = 0 <=>
                                    \E m \in DOMAIN ends : ends[m] = frames[j].id
      <4>1. frames \in Seq(Between(Src, Dst))
        BY <1>1 DEF FlowInv, QueueInv, ReceivedInv
      <4>2. \A j \in DOMAIN frames : frames[j] \in Between(Src, Dst)
        BY <4>1, LenProperties, ElementOfSeq
      <4>3. \A f \in Between(Src, Dst) : f.rem = 0 <=> \E m \in DOMAIN ends : ends[m] = f.id
        BY DEF Between, DataFrom, Genuine
      <4> HIDE DEF ends, frames
      <4> QED  BY <4>2, <4>3
    <3>5. Complete(frames)
      BY <2>1, <2>3
    <3>6. Message(frames) \in Seq(Nat)
      BY <1>2, <3>5, MessageType
    <3> HIDE DEF ends, ids, frames, out
    <3>7. /\ Len(out) + 1 \in DOMAIN ends
          /\ ends[Len(out) + 1] = PrintedEnd(ends, out) + LastFragment(frames)
          /\ \A j \in DOMAIN frames : frames[j].id = PrintedEnd(ends, out) + j
      BY <1>2, <1>3, <3>1, <3>2, <3>3, <3>4, <3>5, NextEnd, ZenonT(40)
    <3>8. StreamOK(ends, ids, Remainder(frames), Append(out, Message(frames)))
      BY <1>2, <1>3, <3>5, <3>6, <3>7, StreamPrinted
    <3> QED  BY <2>1, <2>3, <3>8 DEF StreamInv, ends, ids, frames, out
  <2> QED  BY <2>2, <2>3
<1> QED  BY <1>4, <1>5, <1>6, <1>7, StreamKept

LEMMA StreamInvariance == Spec => []StreamInv
<1>1. Init => StreamInv
  <2> SUFFICES ASSUME Init PROVE StreamInv
    OBVIOUS
  <2>1. /\ sent[Src][Dst] = << >> /\ handed[Dst][Src] = << >>
        /\ recvMsg[Dst][Src] = << >> /\ printed[Dst][Src] = << >>
    BY Constants DEF Init, Each
  <2>2. StreamOK(<< >>, << >>, << >>, << >>)
    BY DEF StreamOK, PrintedEnd
  <2> QED  BY <2>1, <2>2 DEF StreamInv
<1> QED  BY <1>1, NextStreamInv, FlowInvariance, PairInvariance, PTL DEF Spec

\* Dst prints the messages of Src whole, in the order they were typed, each
\* once, none invented, whatever the switch drops or corrupts and however often
\* fragments are sent again (reassemble_message, handle_incoming_frames).
THEOREM MessagesInOrder == Spec => []InOrderDelivery
<1>1. StreamInv => InOrderDelivery
  <2>1. \A m : MessageOf(sent[Src][Dst], m) = Fragments(Src, Dst, m)
    BY DEF MessageOf, Fragments
  <2> QED  BY <2>1 DEF StreamInv, StreamOK, InOrderDelivery
<1> QED  BY <1>1, StreamInvariance, PTL

------------------------------------------------------------------------------
\* The end of the program.  Only run_senders decides which hosts are active.
LEMMA ActiveChanges ==
  [Next]_vars => \/ UNCHANGED active
                 \/ /\ OutgoingDone \/ RunSender
                    /\ UNCHANGED <<buffered, window>>
                    /\ \E h : SenderDone(h) /\ (OutgoingDone => h = cur)
<1> USE DEF control, queues, sending, recving, history
<1> SUFFICES ASSUME [Next]_vars, ~OutgoingDone, ~RunSender PROVE UNCHANGED active
  <2>1. OutgoingDone => SenderDone(cur) /\ UNCHANGED <<buffered, window>>
    BY DEF OutgoingDone
  <2>2. RunSender => \/ UNCHANGED active
                     \/ (\E h : SenderDone(h)) /\ UNCHANGED <<buffered, window>>
    BY DEF RunSender
  <2>3. ~(OutgoingDone /\ RunSender)
    BY DEF OutgoingDone, RunSender
  <2> QED  BY <2>1, <2>2, <2>3
<1>1. CASE \/ StartTurn \/ ExitCommand \/ InputError \/ DataSent \/ FramesReceived
           \/ EndTurn \/ Terminated \/ Tick \/ AcceptMessage
  BY <1>1 DEF StartTurn, ExitCommand, BeginSenders, InputError, DataSent, FramesReceived,
              EndTurn, Terminated, Tick, AcceptMessage, vars
<1>2. CASE HandleInputCmds \/ DropCorruptAck \/ HandleIncomingAck
  BY <1>2 DEF HandleInputCmds, DropCorruptAck, HandleIncomingAck
<1>3. CASE HandleTimedoutFrames \/ ResendFrame \/ ReleaseFrame
  BY <1>3 DEF HandleTimedoutFrames, ResendFrame, ReleaseFrame
<1>4. CASE SendDataFrame \/ DropCorruptFrame \/ PrintMessage \/ SendAckFrame
  BY <1>4 DEF SendDataFrame, DropCorruptFrame, PrintMessage, SendAckFrame
<1>5. CASE HandleIncomingFrame
  BY <1>5 DEF HandleIncomingFrame
<1>6. CASE UNCHANGED vars
  BY <1>6 DEF vars
<1> QED  BY <1>1, <1>2, <1>3, <1>4, <1>5, <1>6 DEF Next, Turn

\* Whether a host has frames to send or to see acknowledged.
Busy(h) == buffered[h] # << >> \/ \E p \in Hosts : window[h][p] # << >>

LEMMA TickBusy ==
  ASSUME TypeInv, Tick, NEW h \in Hosts
  PROVE  Busy(h)' <=> Busy(h)
<1>1. UNCHANGED buffered
  BY DEF Tick, queues
<1>2. ASSUME NEW p \in Hosts PROVE window'[h][p] # << >> <=> window[h][p] # << >>
  <2>1. window[h][p] \in Seq(Slots(Frames))
    BY HostTypes
  <2>2. window'[h][p] \in Seq(Slots(Frames)) /\ Len(window'[h][p]) = Len(window[h][p])
    BY <2>1, TickPair DEF SameFrames
  <2> QED  BY <2>1, <2>2, EmptySeq
<1> QED  BY <1>1, <1>2 DEF Busy

\* What SenderDone leaves of active.
LEMMA DoneActive ==
  ASSUME TypeInv, NEW h, SenderDone(h), NEW g \in Hosts
  PROVE  IF g = h THEN active'[g] <=> Busy(g)' ELSE active'[g] = active[g]
<1> DEFINE b == buffered'[h] # << >> \/ \E p \in Hosts : window'[h][p] # << >>
<1>1. active' = [active EXCEPT ![h] = b] /\ active \in [Hosts -> BOOLEAN]
  BY DEF SenderDone, TypeInv, TypeOK
<1> HIDE DEF b
<1>2. g = h => active'[g] = b
  BY <1>1
<1>3. g # h => active'[g] = active[g]
  BY <1>1
<1> QED  BY <1>2, <1>3 DEF Busy, b

LEMMA NextActiveInv == TypeInv /\ ActiveInv /\ [Next]_vars => ActiveInv'
<1> SUFFICES ASSUME TypeInv, ActiveInv, [Next]_vars, NEW g \in Hosts, g # cur'
             PROVE  active'[g] <=> Busy(g)'
  BY DEF ActiveInv, Busy
<1>1. g # cur => (active[g] <=> Busy(g))
  BY DEF ActiveInv, Busy
<1>2. CASE Tick
  <2>1. UNCHANGED <<cur, active>>
    BY <1>2 DEF Tick, control
  <2> QED  BY <1>1, <1>2, <2>1, TickBusy
<1>3. CASE ~Tick /\ UNCHANGED active
  <2>1. CASE g # cur
    <3>1. Busy(g)' <=> Busy(g)
      BY <1>3, <2>1, RowsKept DEF Busy
    <3> QED  BY <1>1, <1>3, <2>1, <3>1
  <2>2. CASE g = cur
    <3>1. OutgoingDone
      BY <2>2, TurnOfHost, Constants
    <3>2. SenderDone(g)
      BY <2>2, <3>1 DEF OutgoingDone
    <3> QED  BY <3>2, DoneActive
  <2> QED  BY <2>1, <2>2
<1>4. CASE \E h : /\ SenderDone(h) /\ (OutgoingDone => h = cur)
                  /\ OutgoingDone \/ RunSender
                  /\ UNCHANGED <<buffered, window>>
  <2>1. PICK h : SenderDone(h) /\ (OutgoingDone => h = cur) /\ (OutgoingDone \/ RunSender)
                  /\ UNCHANGED <<buffered, window>>
    BY <1>4
  <2>2. CASE g = h
    BY <2>1, <2>2, DoneActive
  <2>3. CASE g # h
    <3>1. active'[g] = active[g]
      BY <2>1, <2>3, DoneActive
    <3>2. g # cur
      <4>1. g = cur => OutgoingDone
        BY TurnOfHost, Constants
      <4> QED  BY <2>1, <2>3, <4>1
    <3>3. Busy(g)' <=> Busy(g)
      BY <2>1 DEF Busy
    <3> QED  BY <1>1, <3>1, <3>2, <3>3
  <2> QED  BY <2>2, <2>3
<1> QED  BY <1>2, <1>3, <1>4, ActiveChanges

\* handle_incoming_frames does not end before every message is put together.
LEMMA NextPrintInv == PrintInv /\ [Next]_vars => PrintInv'
<1> USE DEF control, queues, sending, recving, history
<1> SUFFICES ASSUME PrintInv, [Next]_vars, phase' # "receivers" PROVE Reassembled'
  BY DEF PrintInv
<1>1. UNCHANGED recvMsg
  <2>1. PrintMessage \/ HandleIncomingFrame => phase' = "receivers"
    BY DEF PrintMessage, HandleIncomingFrame
  <2> QED  BY <2>1, ReceivedKept
<1>2. Reassembled
  <2>1. CASE FramesReceived
    BY <2>1 DEF FramesReceived
  <2>2. CASE ~FramesReceived
    <3>1. phase # "receivers"
      <4>1. CASE \/ StartTurn \/ ExitCommand \/ InputError \/ DataSent
                 \/ EndTurn \/ Tick \/ AcceptMessage
        BY <4>1 DEF StartTurn, ExitCommand, InputError, DataSent, EndTurn, Tick, AcceptMessage
      <4>2. CASE \/ HandleInputCmds \/ DropCorruptAck \/ HandleIncomingAck
                 \/ HandleTimedoutFrames \/ RunSender
        BY <4>2 DEF HandleInputCmds, DropCorruptAck, HandleIncomingAck,
                    HandleTimedoutFrames, RunSender
      <4>3. CASE ResendFrame \/ ReleaseFrame \/ OutgoingDone
        BY <4>3 DEF ResendFrame, ReleaseFrame, OutgoingDone
      <4>4. CASE SendDataFrame \/ SendAckFrame
        BY <4>4 DEF SendDataFrame, SendAckFrame
      <4>5. CASE DropCorruptFrame \/ PrintMessage \/ HandleIncomingFrame
        BY <4>5 DEF DropCorruptFrame, PrintMessage, HandleIncomingFrame
      <4>6. CASE Terminated \/ UNCHANGED vars
        BY <4>6 DEF Terminated, vars
      <4> QED  BY <2>2, <4>1, <4>2, <4>3, <4>4, <4>5, <4>6 DEF Next, Turn
    <3> QED  BY <3>1 DEF PrintInv
  <2> QED  BY <2>1, <2>2
<1> QED  BY <1>1, <1>2 DEF Reassembled

\* graceful_exit waits for every host.
ExitInv == phase = "exited" => \A h \in Hosts : ~active[h]

LEMMA NextExitInv == ExitInv /\ [Next]_vars => ExitInv'
<1> USE DEF control, queues, sending, recving, history
<1> SUFFICES ASSUME ExitInv, [Next]_vars, phase' = "exited", NEW h \in Hosts PROVE ~active'[h]
  BY DEF ExitInv
<1>1. EndTurn \/ UNCHANGED vars
  <2>1. CASE StartTurn \/ ExitCommand \/ InputError \/ Tick \/ AcceptMessage
    BY <2>1 DEF StartTurn, ExitCommand, BeginSenders, InputError, Tick, AcceptMessage
  <2>2. CASE DataSent \/ FramesReceived \/ Terminated
    BY <2>2 DEF DataSent, FramesReceived, Terminated
  <2>3. CASE RunSender \/ OutgoingDone
    BY <2>3 DEF RunSender, OutgoingDone, SenderDone, AcksOrTimeouts
  <2>4. CASE HandleInputCmds \/ DropCorruptAck \/ HandleIncomingAck
    BY <2>4 DEF HandleInputCmds, DropCorruptAck, HandleIncomingAck, AcksOrTimeouts
  <2>5. CASE HandleTimedoutFrames \/ ResendFrame \/ ReleaseFrame
    BY <2>5 DEF HandleTimedoutFrames, ResendFrame, ReleaseFrame
  <2>6. CASE SendDataFrame \/ DropCorruptFrame \/ PrintMessage \/ SendAckFrame
    BY <2>6 DEF SendDataFrame, DropCorruptFrame, PrintMessage, SendAckFrame
  <2>7. CASE HandleIncomingFrame
    BY <2>7 DEF HandleIncomingFrame
  <2> QED  BY <2>1, <2>2, <2>3, <2>4, <2>5, <2>6, <2>7 DEF Next, Turn
<1>2. CASE EndTurn
  BY <1>2 DEF EndTurn
<1>3. CASE UNCHANGED vars
  BY <1>3 DEF vars, ExitInv
<1> QED  BY <1>1, <1>2, <1>3

\* A pair that has nothing left to send has printed everything.
LEMMA AllPrinted ==
  ASSUME FlowInv, Window!IInv, StreamInv, Reassembled,
         cmds[Src] = << >>, buffered[Src] = << >>, window[Src][Dst] = << >>
  PROVE  Len(printed[Dst][Src]) = Len(sent[Src][Dst])
<1> DEFINE ends   == sent[Src][Dst]
           ids    == handed[Dst][Src]
           frames == recvMsg[Dst][Src]
           out    == printed[Dst][Src]
           e      == PrintedEnd(ends, out)
           last   == Len(ends)
<1>1. TypeInv /\ Src \in Hosts /\ Dst \in Hosts
  BY Constants DEF FlowInv
<1>2. /\ ends \in Seq(Nat) /\ ids \in Seq(Nat) /\ frames \in Seq(Frames)
      /\ out \in Seq(Seq(Nat))
  BY <1>1, HostTypes
<1>3. /\ Len(out) <= Len(ends) /\ Len(ids) = e + Len(frames)
      /\ \A j \in DOMAIN frames : frames[j].id = ids[e + j]
  BY DEF StreamInv, StreamOK
<1>4. Len(ids) = EndOf(ends)
  <2>1. PairWindow = << >>
    BY DEF PairWindow
  <2>2. PairBuffered = << >>
    <3> DEFINE q == buffered[Src]
    <3>1. q \in Seq(Frames) /\ \A i \in DOMAIN q : ~Goes(q[i], "data", Src, Dst)
      BY <1>1, HostTypes
    <3> HIDE DEF q
    <3> QED  BY <3>1, SelectedNone DEF PairBuffered, q
  <2>3. Len(submitted[Src][Dst]) = EndOf(ends)
    <3>1. CommandsOK(cmds[Src], Dst, Len(submitted[Src][Dst]), ends)
      BY <1>1 DEF FlowInv, CommandInv
    <3> HIDE DEF ends
    <3> QED  BY <3>1 DEF CommandsOK, EndOf
  <2> QED  BY <1>1, <2>1, <2>2, <2>3, PairDelivered
<1>5. /\ \A m, k \in DOMAIN ends : m < k => ends[m] < ends[k]
      /\ \A m \in DOMAIN ends : ends[m] > 0
  BY PairEnds
<1>6. \A i \in DOMAIN ids : ids[i] = i
  BY <1>1, PairDelivered
<1>7. \A f \in Between(Src, Dst) : f.rem = 0 <=> \E m \in DOMAIN ends : ends[m] = f.id
  BY DEF Between, DataFrom, Genuine
<1>8. frames \in Seq(Between(Src, Dst))
  BY <1>1 DEF FlowInv, QueueInv, ReceivedInv
<1>9. ~Complete(frames)
  BY <1>1 DEF Reassembled
<1> HIDE DEF ends, ids, frames, out
<1>10. /\ e \in Nat /\ Len(out) \in Nat /\ DOMAIN out = 1 .. Len(out)
       /\ Len(ends) \in Nat /\ DOMAIN ends = 1 .. Len(ends)
       /\ Len(out) # 0 => Len(out) \in 1 .. Len(ends)
  BY <1>2, <1>3, PrintedEndType
<1>11. /\ Len(frames) \in Nat /\ DOMAIN frames = 1 .. Len(frames)
       /\ Len(ids) \in Nat /\ DOMAIN ids = 1 .. Len(ids)
       /\ \A m \in 1 .. Len(ends) : ends[m] \in Nat
       /\ \A j \in 1 .. Len(frames) : frames[j] \in Between(Src, Dst)
  BY <1>2, <1>8, LenProperties, ElementOfSeq
<1>12. e = IF Len(out) = 0 THEN 0 ELSE ends[Len(out)]
  BY DEF PrintedEnd
<1> SUFFICES ASSUME Len(out) # last PROVE FALSE
  BY DEF out, ends
<1> HIDE DEF e
<1>13. last \in DOMAIN ends /\ Len(out) < last
  <2> DEFINE p == Len(out)
  <2>1. p <= last /\ p \in Nat /\ last \in Nat /\ DOMAIN ends = 1 .. last /\ p # last
    BY <1>3, <1>10
  <2> HIDE DEF p, last
  <2> QED  BY <2>1 DEF p
<1>14. e < ends[last] /\ ends[last] \in Nat
  <2>1. CASE Len(out) = 0
    BY <1>5, <1>10, <1>11, <1>12, <1>13, <2>1
  <2>2. CASE Len(out) # 0
    BY <1>5, <1>10, <1>11, <1>12, <1>13, <2>2
  <2> QED  BY <2>1, <2>2
<1>15. EndOf(ends) = ends[last]
  <2>1. ends # << >>
    <3>1. DOMAIN << >> = {}
      OBVIOUS
    <3> QED  BY <1>13, <3>1
  <2> QED  BY <2>1 DEF EndOf
<1> DEFINE j == Len(frames)
<1>16. e + j = ends[last] /\ j \in 1 .. Len(frames) /\ e + j \in DOMAIN ids
  <2> DEFINE x == ends[last]
             k == Len(ids)
  <2>1. k = e + j /\ k = x /\ e \in Nat /\ j \in Nat /\ k \in Nat /\ x \in Nat /\ e < x
    BY <1>3, <1>4, <1>10, <1>11, <1>14, <1>15
  <2> HIDE DEF x, k, j
  <2>2. e + j = x /\ j \in 1 .. j /\ e + j \in 1 .. k
    BY <2>1
  <2> QED  BY <1>11, <2>2 DEF x, k, j
<1>17. frames[j].id = ends[last]
  BY <1>3, <1>6, <1>11, <1>16
<1>18. frames[j].rem = 0
  BY <1>7, <1>11, <1>13, <1>16, <1>17
<1> QED  BY <1>9, <1>11, <1>16, <1>18 DEF Complete

\* When graceful_exit ends the program, every message the user typed has been
\* printed: no host is done before all its frames are acknowledged, no frame is
\* acknowledged that was not handed over, and no message that is complete waits.
THEOREM NothingLostAtExit == Spec => []ExitLosesNothing
<1> DEFINE Inv == ActiveInv /\ PrintInv /\ ExitInv
<1>1. Init => Inv
  <2> SUFFICES ASSUME Init PROVE Inv
    OBVIOUS
  <2>1. ActiveInv
    <3>1. \A h \in Hosts : buffered[h] = << >> /\ active[h] = FALSE
                          /\ \A p \in Hosts : window[h][p] = << >>
      BY DEF Init, Each
    <3> QED  BY <3>1 DEF ActiveInv
  <2>2. PrintInv
    <3>1. \A h, p \in Hosts : recvMsg[h][p] = << >>
      BY DEF Init, Each
    <3>2. DOMAIN << >> = {}
      OBVIOUS
    <3> QED  BY <3>1, <3>2 DEF PrintInv, Reassembled, Complete
  <2>3. ExitInv
    BY DEF Init, ExitInv
  <2> QED  BY <2>1, <2>2, <2>3
<1>2. TypeInv /\ Inv /\ [Next]_vars => Inv'
  BY NextActiveInv, NextPrintInv, NextExitInv
<1>3. FlowInv => TypeInv
  BY DEF FlowInv
<1>4. FlowInv /\ Window!IInv /\ StreamInv /\ Inv => ExitLosesNothing
  <2> SUFFICES ASSUME FlowInv, Window!IInv, StreamInv, Inv, phase = "exited"
               PROVE  Len(printed[Dst][Src]) = Len(sent[Src][Dst])
    BY DEF ExitLosesNothing
  <2>1. TypeInv /\ Src \in Hosts /\ Dst \in Hosts
    BY Constants DEF FlowInv
  <2>2. cur = NoHost
    BY <2>1 DEF TypeInv, TypeOK, Senders
  <2>3. Src # cur
    BY <2>1, <2>2, Constants
  <2>4. ~active[Src]
    BY <2>1 DEF ExitInv
  <2>5. buffered[Src] = << >> /\ window[Src][Dst] = << >>
    BY <2>1, <2>3, <2>4 DEF ActiveInv
  <2>6. Reassembled /\ cmds[Src] = << >>
    BY <2>1 DEF PrintInv, TypeInv, TurnInv
  <2> QED  BY <2>5, <2>6, AllPrinted
<1> QED  BY <1>1, <1>2, <1>3, <1>4, FlowInvariance, PairInvariance, StreamInvariance, PTL DEF Spec
=============================================================================
