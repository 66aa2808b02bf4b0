------------------------- MODULE TransportProperties -------------------------
(***************************************************************************)
(* What the transport program promises.                                    *)
(***************************************************************************)
EXTENDS Transport

\* Any two hosts: what is said of one pair is said of every pair.
CONSTANTS Src, Dst

ASSUME PairAssumption == Src \in Hosts /\ Dst \in Hosts

Timeouts == Nat \cup {NoTimer}

\* The shapes of the state; windows hold at most W frames.
TypeOK ==
  /\ phase \in {"input", "senders", "data", "receivers", "sendacks"}
                 \cup Senders \cup Finished
  /\ phase # "crashed" => (phase \in Senders <=> cur # NoHost)
  /\ cur \in Hosts \cup {NoHost} /\ todo \subseteq Hosts /\ exiting \in BOOLEAN
  /\ accepted \in [Hosts -> 0 .. RecvAcceptRate]
  /\ cmds \in [Hosts -> Seq([dst : Hosts, left : Nat \ {0}, last : Nat])]
  /\ buffered \in [Hosts -> Seq(Frames)]
  /\ outgoing \in [Hosts -> Seq(Frames)]
  /\ incoming \in [Hosts -> Seq(Frames)]
  /\ active \in [Hosts -> BOOLEAN] /\ latest \in [Hosts -> Nat]
  /\ share \in [Hosts -> Nat] /\ base \in Nat
  /\ window \in [Hosts -> [Hosts -> Seq([frame : Frames, timeout : Timeouts])]]
  /\ \A h, p \in Hosts : Len(window[h][p]) <= W
  /\ currSeq \in [Hosts -> [Hosts -> SeqNums]]
  /\ lfr \in [Hosts -> [Hosts -> SeqNums]]
  /\ cc \in [Hosts -> [Hosts -> CC]]
  /\ recvWindow \in [Hosts -> [Hosts -> [1 .. W -> Frames \cup {NoFrame}]]]
  /\ recvMsg \in [Hosts -> [Hosts -> Seq(Frames)]]

\* The fragments of the m-th message from s to d.
Fragments(s, d, m) ==
  LET before == IF m = 1 THEN 0 ELSE sent[s][d][m - 1]
  IN  [i \in 1 .. sent[s][d][m] - before |-> before + i]

\* Dst prints the messages of Src whole, in the order they were typed, each
\* once, whatever the switch drops or corrupts.
InOrderDelivery ==
  /\ Len(printed[Dst][Src]) <= Len(sent[Src][Dst])
  /\ \A m \in DOMAIN printed[Dst][Src] : printed[Dst][Src][m] = Fragments(Src, Dst, m)

\* handle_incoming_frames never looks at is_ack, handle_incoming_acks skips
\* data frames, and one queue serves both kinds: the turns keep them apart.
PhasesSeparate ==
  LET kinds(q) == UNION {{q[h][i].kind : i \in DOMAIN q[h]} : h \in Hosts}
      before   == {"input", "senders"} \cup Senders
  IN  /\ phase \in before => "data" \notin kinds(incoming)
      /\ phase \in {"data", "receivers"} => "ack" \notin kinds(incoming)
      /\ phase \in before \cup {"data"} => "ack" \notin kinds(outgoing)
      /\ phase \in {"receivers", "sendacks"} => "data" \notin kinds(outgoing)

\* Between turns a timer is running for every receiver that is owed a frame:
\* otherwise nothing would wake the sender again.
NoStall ==
  phase = "input" =>
    \A s, d \in Hosts :
      (window[s][d] # << >> \/ \E i \in DOMAIN buffered[s] : buffered[s][i].dst = d)
        => Timers(s, d) \ {NoTimer} # {}

\* graceful_exit leaves no accepted message undelivered.
ExitLosesNothing ==
  phase = "exited" => Len(printed[Dst][Src]) = Len(sent[Src][Dst])

\* A fast retransmit finds its frame in the window (retransmit_frame reports
\* "cannot find frame" otherwise, after which it uses a wild pointer).
RetransmitFindsFrame ==
  phase = "acks" /\ Head(incoming[cur]).kind = "ack" =>
    LET ack == Head(incoming[cur])
    IN  FastRetransmitOn(cc[cur][ack.src], ack.seq) =>
          Hits(window[cur][ack.src], SeqInc(ack.seq)) # {}

\* Every message that was accepted is printed in the end, with all its fragments,
\* as long as the program is not made to stop by its input.
EventuallyPrinted ==
  \A pair \in Sessions, n \in 1 .. MaxMessages :
    Len(sent[pair[1]][pair[2]]) >= n ~>
      LET out == printed[pair[2]][pair[1]]
      IN  Len(out) >= n /\ out[n] = Fragments(pair[1], pair[2], n)

\* Once the user asked for it, the program ends.
EventuallyExits == exiting ~> phase = "exited"
=============================================================================
