--------------------------- MODULE CongestionSpec ---------------------------
(***************************************************************************)
(* The congestion control of one sender and one receiver under any         *)
(* sequence of acknowledgements and timeouts.                              *)
(***************************************************************************)
EXTENDS CongestionControl

CONSTANT MaxCwnd   \* bound: no acknowledgement is handled above it

VARIABLE cc

Init == cc = InitCC

Ack == /\ Within(cc.cwnd, MaxCwnd)
       /\ \E seq \in SeqNums : cc' = OnAck(cc, seq)

Timeout == cc' = OnTimeout(cc)

Next == Ack \/ Timeout

Spec == Init /\ [][Next]_cc
------------------------------------------------------------------------------
\* The shape of the record; the states are those of enum cc_state.
TypeOK == cc \in CC

\* A host that wakes up may always send: cwnd never falls below one frame,
\* although a timeout halves ssthresh without a lower limit.
CwndAtLeastOne == FramesPerTurn(cc) >= 1

\* Fast recovery keeps the window inflated by the three duplicates that
\* started it, over a threshold of at least two frames.
FastRecoveryInflated ==
  cc.state = "FRFT" => /\ cc.cwnd >= cc.ssthresh + 3 * SCALE
                       /\ cc.ssthresh >= 2 * SCALE
                       /\ cc.dup # 0

\* Slow start ends as soon as cwnd passes ssthresh; only the single frame it
\* restarts from after a timeout may lie above.
SlowStartBelowThreshold ==
  cc.state = "SS" => cc.cwnd <= Atleast(cc.ssthresh, SCALE)

\* Nothing but a timeout or the two ends of fast recovery shrinks the window.
ShrinksOnlyOnLoss ==
  [][cc'.cwnd < cc.cwnd =>
       \/ cc'.state = "SS" /\ cc'.cwnd = SCALE
       \/ cc.state = "AIMD" /\ cc'.state = "FRFT" /\ cc'.dup = 3
       \/ cc.state = "FRFT" /\ cc'.state = "AIMD" /\ cc'.dup = 0]_cc
=============================================================================
