-------------------------- MODULE CongestionProofs --------------------------
(***************************************************************************)
(* The congestion control never stalls a sender and keeps fast recovery    *)
(* inflated, for every grid, window size and sequence of acknowledgements. *)
(***************************************************************************)
EXTENDS CongestionSpec, SeqNumTheorems

\* The states, by themselves and together: what OnAck and OnTimeout preserve.
Good(c) == /\ c \in CC
           /\ c.cwnd >= SCALE
           /\ c.state = "FRFT" => /\ c.cwnd >= c.ssthresh + 3 * SCALE
                                  /\ c.ssthresh >= 2 * SCALE
                                  /\ c.dup # 0
           /\ c.state = "SS" => c.cwnd <= Atleast(c.ssthresh, SCALE)

\* What may shrink the window, as ShrinksOnlyOnLoss lists it.
Loss(a, b) == \/ b.state = "SS" /\ b.cwnd = SCALE
              \/ a.state = "AIMD" /\ b.state = "FRFT" /\ b.dup = 3
              \/ a.state = "FRFT" /\ b.state = "AIMD" /\ b.dup = 0

CCInv == Good(cc)

\* The constants, as the provers use them.
LEMMA Constants ==
  /\ SCALE \in Nat /\ SCALE >= 1 /\ W \in Nat /\ W >= 1
  /\ DUP_MODULUS \in Nat /\ DUP_MODULUS > 4
  /\ MAX_SEQ_NUM \in Nat /\ MAX_SEQ_NUM \in SeqNums
  BY CongestionAssumption, SeqNumAssumption DEF SeqNums

\* Integer division of naturals stays in the naturals.
LEMMA DivNat ==
  ASSUME NEW a \in Nat, NEW b \in Nat, b >= 1
  PROVE  a \div b \in Nat
  OBVIOUS

\* Counting an acknowledgement changes the counters, and only inflates cwnd.
LEMMA CountAckFacts ==
  ASSUME NEW c \in CC, NEW seq \in SeqNums
  PROVE  LET d == CountAck(c, seq)
         IN  /\ d \in CC /\ d.state = c.state /\ d.ssthresh = c.ssthresh
             /\ d.cwnd >= c.cwnd
             /\ c.state # "FRFT" => d.cwnd = c.cwnd
<1>1. CASE SeqNumDiff(c.dupSeq, seq) > 0
  <2> DEFINE e == [c EXCEPT !.dupSeq = seq]
  <2>1. CountAck(c, seq) = [e EXCEPT !.dup = 0]
    BY <1>1, Zenon DEF CountAck
  <2>2. e \in CC /\ e.state = c.state /\ e.ssthresh = c.ssthresh /\ e.cwnd = c.cwnd
    BY DEF CC
  <2>3. c.cwnd \in Nat  BY DEF CC
  <2> HIDE DEF e
  <2> QED  BY <2>1, <2>2, <2>3, Constants DEF CC
<1>2. CASE ~(SeqNumDiff(c.dupSeq, seq) > 0) /\ c.dupSeq = seq
  <2> DEFINE e == [c EXCEPT !.dup = (c.dup + 1) % DUP_MODULUS]
             w == IF c.state = "FRFT" THEN c.cwnd + SCALE ELSE c.cwnd
  <2>1. CountAck(c, seq) = [e EXCEPT !.cwnd = w]
    BY <1>2, Zenon DEF CountAck
  <2>2. (c.dup + 1) % DUP_MODULUS \in 0 .. DUP_MODULUS - 1
    BY Constants DEF CC
  <2>3. e \in CC /\ e.state = c.state /\ e.ssthresh = c.ssthresh /\ e.cwnd = c.cwnd
    BY <2>2 DEF CC
  <2>4. w \in Nat /\ w >= c.cwnd /\ (c.state # "FRFT" => w = c.cwnd)
    BY Constants DEF CC
  <2> HIDE DEF e, w
  <2> QED  BY <2>1, <2>3, <2>4 DEF CC
<1>3. CASE ~(SeqNumDiff(c.dupSeq, seq) > 0) /\ c.dupSeq # seq
  BY <1>3 DEF CountAck, CC
<1> QED  BY <1>1, <1>2, <1>3

\* Halving, with the lower limit of two frames.
LEMMA AtleastFacts ==
  ASSUME NEW x \in Nat
  PROVE  LET h == Atleast(x \div 2, 2 * SCALE)
         IN  h \in Nat /\ h >= 2 * SCALE
<1>1. x \div 2 \in Nat /\ 2 * SCALE \in Nat  BY Constants
<1> QED  BY <1>1 DEF Atleast

\* An acknowledgement keeps the invariant, in each of its branches.
LEMMA OnAckGood ==
  ASSUME NEW a, Good(a), NEW seq \in SeqNums, NEW b, b = OnAck(a, seq)
  PROVE  Good(b) /\ (b.cwnd < a.cwnd => Loss(a, b))
<1> DEFINE c == CountAck(a, seq)
           half == Atleast(c.cwnd \div 2, 2 * SCALE)
<1>1. /\ a \in CC /\ a.cwnd >= SCALE
      /\ c \in CC /\ c.state = a.state /\ c.ssthresh = a.ssthresh
      /\ c.cwnd >= a.cwnd
      /\ c.state # "FRFT" => c.cwnd = a.cwnd
  BY CountAckFacts DEF Good
<1>2. /\ a.cwnd \in Nat /\ c.cwnd \in Nat /\ c.ssthresh \in Nat /\ c.cwnd >= SCALE
      /\ c.state \in {"SS", "AIMD", "FRFT"} /\ c.dup \in Nat
      /\ c.cwnd >= 1
  BY <1>1, Constants DEF CC
<1>3. half \in Nat /\ half >= 2 * SCALE
  BY <1>2, AtleastFacts
<1>4. c.state = "FRFT" => c.cwnd >= c.ssthresh + 3 * SCALE /\ c.ssthresh >= 2 * SCALE
  BY <1>1, <1>2, Constants DEF Good
<1>5. c.state = "SS" => c.cwnd <= Atleast(c.ssthresh, SCALE)
  BY <1>1 DEF Good
<1> HIDE DEF c
<1>6. CASE c.state = "SS"
  <2> DEFINE e == [c EXCEPT !.cwnd = c.cwnd + SCALE]
             s == IF c.cwnd + SCALE > c.ssthresh THEN "AIMD" ELSE c.state
  <2>1. b = [e EXCEPT !.state = s]
    <3>1. b = [[c EXCEPT !.cwnd = c.cwnd + SCALE] EXCEPT
                    !.state = IF c.cwnd + SCALE > c.ssthresh THEN "AIMD" ELSE c.state]
      <4>1. /\ ~(c.state = "AIMD" /\ c.dup = 0) /\ ~(c.state = "FRFT" /\ c.dup = 0)
            /\ ~EntersFRFT(c)
        BY <1>6 DEF EntersFRFT
      <4> QED  BY <1>6, <4>1, Zenon DEF OnAck, c
    <3> QED  BY <3>1
  <2>2. /\ e \in CC /\ e.cwnd = c.cwnd + SCALE /\ e.ssthresh = c.ssthresh
        /\ e.dup = c.dup /\ s \in {"SS", "AIMD"}
    BY <1>1, <1>2, <1>6, Constants DEF CC
  <2>3. s = "SS" => c.cwnd + SCALE <= c.ssthresh
    BY <1>2, <1>6, Constants
  <2> HIDE DEF e, s
  <2>4. /\ b \in CC /\ b.state = s /\ b.cwnd = c.cwnd + SCALE
        /\ b.ssthresh = c.ssthresh
    BY <2>1, <2>2 DEF CC
  <2>5. Good(b)
    BY <2>2, <2>3, <2>4, <1>2, Constants DEF Good, Atleast
  <2>6. ~(b.cwnd < a.cwnd)
    BY <2>4, <1>1, <1>2, Constants
  <2> QED  BY <2>5, <2>6
<1>7. CASE c.state = "AIMD" /\ c.dup = 0
  <2>1. b = [c EXCEPT !.cwnd = c.cwnd + (SCALE * SCALE) \div c.cwnd]
    <3>1. c.state # "SS" /\ ~(c.state = "FRFT" /\ c.dup = 0) /\ ~EntersFRFT(c)
      BY <1>7 DEF EntersFRFT
    <3> QED  BY <1>7, <3>1, Zenon DEF OnAck, c
  <2>2. SCALE * SCALE \in Nat  BY Constants
  <2>3. (SCALE * SCALE) \div c.cwnd \in Nat
    BY <2>2, <1>2, DivNat
  <2> DEFINE w == (SCALE * SCALE) \div c.cwnd
  <2> HIDE DEF w
  <2>4. b = [c EXCEPT !.cwnd = c.cwnd + w] /\ w \in Nat
    BY <2>1, <2>3 DEF w
  <2>5. /\ b \in CC /\ b.state = "AIMD" /\ b.cwnd = c.cwnd + w
    BY <2>4, <1>1, <1>2, <1>7 DEF CC
  <2>6. Good(b)
    BY <2>4, <2>5, <1>2, Constants DEF Good
  <2>7. ~(b.cwnd < a.cwnd)
    BY <2>4, <2>5, <1>1, <1>2
  <2> QED  BY <2>6, <2>7
<1>8. CASE c.state = "FRFT" /\ c.dup = 0
  <2> DEFINE e == [c EXCEPT !.state = "AIMD"]
  <2>1. b = [e EXCEPT !.cwnd = c.ssthresh]
    <3>1. c.state # "SS" /\ ~(c.state = "AIMD" /\ c.dup = 0) /\ ~EntersFRFT(c)
      BY <1>8 DEF EntersFRFT
    <3> QED  BY <1>8, <3>1, Zenon DEF OnAck, c
  <2>2. e \in CC /\ e.state = "AIMD"
    BY <1>1 DEF CC
  <2> HIDE DEF e
  <2>3. /\ b \in CC /\ b.state = "AIMD" /\ b.cwnd = c.ssthresh
        /\ e.dup = c.dup /\ b.dup = e.dup
    BY <2>1, <2>2, <1>1, <1>2 DEF CC, e
  <2>4. Good(b)
    BY <2>3, <1>2, <1>4, <1>8, Constants DEF Good
  <2>5. Loss(a, b)
    BY <2>3, <1>1, <1>8 DEF Loss
  <2> QED  BY <2>4, <2>5
<1>9. CASE EntersFRFT(c)
  <2>0. c.state = "AIMD" /\ c.dup = 3  BY <1>9 DEF EntersFRFT
  <2> DEFINE e == [c EXCEPT !.state = "FRFT"]
             f == [e EXCEPT !.ssthresh = half]
  <2>1. b = [f EXCEPT !.cwnd = half + 3 * SCALE]
    <3>1. /\ c.state # "SS" /\ ~(c.state = "AIMD" /\ c.dup = 0)
          /\ ~(c.state = "FRFT" /\ c.dup = 0)
      BY <2>0
    <3> QED  BY <1>9, <3>1, Zenon DEF OnAck, c
  <2>2. e \in CC /\ e.dup = 3 /\ e.state = "FRFT"
    BY <2>0, <1>1 DEF CC
  <2> HIDE DEF half, e
  <2>3. f \in CC /\ f.dup = 3 /\ f.state = "FRFT" /\ f.ssthresh = half
    BY <2>2, <1>3 DEF CC
  <2>4. half + 3 * SCALE \in Nat  BY <1>3, Constants
  <2> HIDE DEF f
  <2>5. /\ b \in CC /\ b.dup = 3 /\ b.state = "FRFT" /\ b.ssthresh = half
        /\ b.cwnd = half + 3 * SCALE
    BY <2>1, <2>3, <2>4 DEF CC
  <2>6. Good(b)
    BY <2>5, <1>3, Constants DEF Good
  <2>7. Loss(a, b)
    BY <2>0, <2>5, <1>1 DEF Loss
  <2> QED  BY <2>6, <2>7
<1>10. CASE /\ c.state # "SS" /\ ~(c.state = "AIMD" /\ c.dup = 0)
            /\ ~(c.state = "FRFT" /\ c.dup = 0) /\ ~EntersFRFT(c)
  <2>1. b = c
    BY <1>10, Zenon DEF OnAck, c
  <2> QED  BY <2>1, <1>1, <1>2, <1>4, <1>10
           DEF Good, Loss
<1> QED  BY <1>6, <1>7, <1>8, <1>9, <1>10

\* A timeout restarts from one frame.
LEMMA OnTimeoutGood ==
  ASSUME NEW a, Good(a), NEW b, b = OnTimeout(a)
  PROVE  Good(b) /\ Loss(a, b)
<1> DEFINE e == [a EXCEPT !.state = "SS"]
           f == [e EXCEPT !.ssthresh = a.cwnd \div 2]
<1>1. b = [f EXCEPT !.cwnd = SCALE]
  BY Zenon DEF OnTimeout
<1>2. a.cwnd \div 2 \in Nat  BY DEF Good, CC
<1>3. e \in CC /\ e.state = "SS"  BY DEF Good, CC
<1> HIDE DEF e
<1>4. f \in CC /\ f.state = "SS"  BY <1>2, <1>3 DEF CC
<1> HIDE DEF f
<1>5. b \in CC /\ b.state = "SS" /\ b.cwnd = SCALE
  BY <1>1, <1>4, Constants DEF CC
<1>6. b.ssthresh \in Nat  BY <1>5 DEF CC
<1>7. b.cwnd <= Atleast(b.ssthresh, SCALE)
  BY <1>5, <1>6, Constants DEF Atleast
<1> QED  BY <1>5, <1>7, Constants
         DEF Good, Loss

\* A sender starts from one frame.
LEMMA InitGood == Good(InitCC)
<1>1. W * SCALE \in Nat /\ SCALE <= W * SCALE
  BY Constants
<1>2. /\ InitCC \in CC /\ InitCC.state = "SS" /\ InitCC.cwnd = SCALE
      /\ InitCC.ssthresh = W * SCALE
  BY <1>1, Constants DEF InitCC, CC
<1> QED  BY <1>1, <1>2, Constants DEF Good, Atleast

\* (int) cwnd in handle_outgoing_frames is never 0.
LEMMA GoodShare ==
  ASSUME NEW c, Good(c)
  PROVE  FramesPerTurn(c) \in Nat /\ FramesPerTurn(c) >= 1
<1>1. c.cwnd \in Nat /\ c.cwnd >= SCALE  BY DEF Good, CC
<1> QED  BY <1>1, Constants DEF FramesPerTurn

\* The invariant of the congestion control.
THEOREM Invariance == Spec => []CCInv
<1>1. Init => CCInv
  BY InitGood DEF Init, CCInv
<1>2. CCInv /\ [Next]_cc => CCInv'
  <2> SUFFICES ASSUME CCInv, [Next]_cc PROVE CCInv'
    OBVIOUS
  <2>1. CASE Ack
    <3>1. PICK seq \in SeqNums : cc' = OnAck(cc, seq)  BY <2>1 DEF Ack
    <3> QED  BY <3>1, OnAckGood DEF CCInv
  <2>2. CASE Timeout       BY <2>2, OnTimeoutGood DEF Timeout, CCInv
  <2>3. CASE UNCHANGED cc  BY <2>3 DEF CCInv
  <2> QED  BY <2>1, <2>2, <2>3 DEF Next
<1> QED  BY <1>1, <1>2, PTL DEF Spec

\* The record keeps the types of struct cc_state_t, whatever is acknowledged.
THEOREM CongestionTypes == Spec => []TypeOK
<1>1. CCInv => TypeOK  BY DEF CCInv, Good, TypeOK
<1> QED  BY <1>1, Invariance, PTL

\* A host that wakes up is always allowed at least one frame per receiver:
\* (int) cwnd in handle_outgoing_frames is never 0.
THEOREM NeverStalled == Spec => []CwndAtLeastOne
<1>1. CCInv => CwndAtLeastOne  BY GoodShare DEF CCInv, CwndAtLeastOne
<1> QED  BY <1>1, Invariance, PTL

\* In fast recovery cwnd is at least ssthresh + 3 and ssthresh at least 2,
\* whatever acknowledgements inflate it in between.
THEOREM FastRecovery == Spec => []FastRecoveryInflated
<1>1. CCInv => FastRecoveryInflated  BY DEF CCInv, Good, FastRecoveryInflated
<1> QED  BY <1>1, Invariance, PTL

\* Slow start never runs past ssthresh.
THEOREM SlowStart == Spec => []SlowStartBelowThreshold
<1>1. CCInv => SlowStartBelowThreshold
  BY DEF CCInv, Good, SlowStartBelowThreshold
<1> QED  BY <1>1, Invariance, PTL

\* Only a timeout and the two ends of fast recovery shrink cwnd, whatever the
\* acknowledgements say.
THEOREM OnlyLossShrinks == Spec => ShrinksOnlyOnLoss
<1> DEFINE Allowed == cc'.cwnd < cc.cwnd => Loss(cc, cc')
<1>1. CCInv /\ [Next]_cc => [Allowed]_cc
  <2> SUFFICES ASSUME CCInv, Next PROVE Allowed
    OBVIOUS
  <2>1. CASE Ack
    <3>1. PICK seq \in SeqNums : cc' = OnAck(cc, seq)  BY <2>1 DEF Ack
    <3> QED  BY <3>1, OnAckGood DEF CCInv
  <2>2. CASE Timeout  BY <2>2, OnTimeoutGood DEF Timeout, CCInv
  <2> QED  BY <2>1, <2>2 DEF Next
<1> QED  BY <1>1, Invariance, PTL DEF Spec, ShrinksOnlyOnLoss, Loss
=============================================================================
