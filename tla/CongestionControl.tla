-------------------------- MODULE CongestionControl --------------------------
(***************************************************************************)
(* The congestion control a sender keeps for one receiver (struct          *)
(* CongestionControl and dup_acks_seq_num), as operators on a record.      *)
(* cwnd and ssthresh are doubles in the code and multiples of 1/SCALE      *)
(* here, divisions truncated to that grid.                                 *)
(***************************************************************************)
EXTENDS SeqNum

CONSTANTS SCALE,        \* how many grid steps make one frame
          DUP_MODULUS,  \* dup_acks is a uint8_t: 256
          W             \* glb_sysconfig.window_size, the first ssthresh

ASSUME CongestionAssumption ==
  /\ SCALE \in Nat \ {0}
  /\ DUP_MODULUS \in Nat /\ DUP_MODULUS > 4
  /\ W \in Nat \ {0}

CC == [state : {"SS", "AIMD", "FRFT"}, cwnd : Nat, ssthresh : Nat,
       dup : 0 .. DUP_MODULUS - 1, dupSeq : SeqNums]

InitCC == [state |-> "SS", cwnd |-> SCALE, ssthresh |-> W * SCALE,
           dup |-> 0, dupSeq |-> MAX_SEQ_NUM]

\* The duplicate counter, and the inflation of cwnd in fast recovery.
CountAck(cc, seq) ==
  IF SeqNumDiff(cc.dupSeq, seq) > 0
    THEN [cc EXCEPT !.dupSeq = seq, !.dup = 0]
  ELSE IF cc.dupSeq = seq
    THEN [cc EXCEPT !.dup = (@ + 1) % DUP_MODULUS,
                    !.cwnd = IF cc.state = "FRFT" THEN @ + SCALE ELSE @]
  ELSE cc

\* Slow start and congestion avoidance never see the third duplicate of the
\* other: the branches are tried in this order.
EntersFRFT(c) == c.state = "AIMD" /\ c.dup = 3

\* Mutant: no lower limit for ssthresh.
AtleastUnlimited(x, bound) == x

Atleast(x, bound) == IF x < bound THEN bound ELSE x

\* What one acknowledgement does, whatever it acknowledges.
OnAck(cc, seq) ==
  LET c    == CountAck(cc, seq)
      half == Atleast(c.cwnd \div 2, 2 * SCALE)
  IN  CASE c.state = "SS" ->
             [c EXCEPT !.cwnd = @ + SCALE,
                       !.state = IF c.cwnd + SCALE > c.ssthresh THEN "AIMD" ELSE @]
        [] c.state = "AIMD" /\ c.dup = 0 ->
             [c EXCEPT !.cwnd = @ + (SCALE * SCALE) \div @]
        [] c.state = "FRFT" /\ c.dup = 0 ->
             [c EXCEPT !.state = "AIMD", !.cwnd = c.ssthresh]
        [] EntersFRFT(c) ->
             [c EXCEPT !.state = "FRFT", !.ssthresh = half,
                       !.cwnd = half + 3 * SCALE]
        [] OTHER -> c

\* Whether it also makes the sender retransmit the frame after seq.
FastRetransmitOn(cc, seq) == EntersFRFT(CountAck(cc, seq))

\* Mutants: cwnd is halved as well, not reset; the state is kept.
OnTimeoutHalves(cc) == [cc EXCEPT !.state = "SS", !.ssthresh = cc.cwnd \div 2,
                                  !.cwnd = @ \div 2]
OnTimeoutKeepsState(cc) == [cc EXCEPT !.ssthresh = cc.cwnd \div 2, !.cwnd = SCALE]

\* A frame for this receiver timed out.
OnTimeout(cc) == [cc EXCEPT !.state = "SS", !.ssthresh = cc.cwnd \div 2,
                            !.cwnd = SCALE]

\* Mutant: the first frame of the window is not counted.
FramesPerTurnOneLess(cc) == (cc.cwnd - 1) \div SCALE

\* frames_per_rtt: how many frames one turn may send to the receiver.
FramesPerTurn(cc) == cc.cwnd \div SCALE
=============================================================================
