------------------------- MODULE TransportRefinement -------------------------
(***************************************************************************)
(* The transport program, seen from one pair of hosts, is the window       *)
(* protocol of SlidingWindow and the congestion control of CongestionSpec: *)
(* whatever the other hosts, the timers and the order of the turns do.     *)
(***************************************************************************)
EXTENDS TransportProperties

Plain(f) == [id |-> f.id, seq |-> f.seq]

\* NULL is no frame, plain or not.
ASSUME PlainAssumption == NoFrame \notin [id : Nat, seq : SeqNums]

Goes(f, kind, from, to) == f.kind = kind /\ f.src = from /\ f.dst = to

\* The frames of one kind between two hosts, among the first n of a queue.
SelectedUpTo(q, kind, from, to) ==
  LET upTo[n \in 0 .. Len(q)] ==
        IF n = 0 THEN << >>
        ELSE IF Goes(q[n], kind, from, to) THEN Append(upTo[n - 1], Plain(q[n]))
        ELSE upTo[n - 1]
  IN  upTo

Selected(q, kind, from, to) == SelectedUpTo(q, kind, from, to)[Len(q)]

\* What the pair sees of the program: the sender's queue and window, ...
PairBuffered == Selected(buffered[Src], "data", Src, Dst)
PairWindow   == [i \in DOMAIN window[Src][Dst] |-> Plain(window[Src][Dst][i].frame)]

\* ... the frames and the acknowledgements between the two hosts, those that
\* are past the switch first, ...
InFlight(in, out, kind, from, to) == Selected(in[to], kind, from, to)
                                       \o Selected(out[from], kind, from, to)
PairData == InFlight(incoming, outgoing, "data", Src, Dst)
PairAcks == InFlight(incoming, outgoing, "ack", Dst, Src)

\* ... and the slots of the receiver.
PlainSlots(slots) ==
  [i \in 1 .. W |-> IF slots[i] = NoFrame THEN NoFrame ELSE Plain(slots[i])]
PairSlots == PlainSlots(recvWindow[Dst][Src])

Pair == INSTANCE SlidingWindow WITH
  MaxFrames   <- Unbounded,
  MaxInFlight <- Unbounded,
  submitted   <- submitted[Src][Dst],
  currSeq     <- currSeq[Src][Dst],
  buffered    <- PairBuffered,
  window      <- PairWindow,
  data        <- PairData,
  recvWindow  <- PairSlots,
  lfr         <- lfr[Dst][Src],
  delivered   <- handed[Dst][Src],
  acks        <- PairAcks

Control == INSTANCE CongestionSpec WITH cc <- cc[Src][Dst], MaxCwnd <- Unbounded

\* Every turn of the program is a run of the window protocol between Src and Dst.
PairSpec == Pair!Spec

\* Src changes the congestion control for Dst only as OnAck and OnTimeout do,
\* with sequence numbers an acknowledgement may carry.
ControlSpec == Control!Spec
=============================================================================
