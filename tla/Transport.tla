----------------------------- MODULE Transport ------------------------------
(***************************************************************************)
(* The whole transport program of tcp/src: the hosts, the switch and the   *)
(* main loop, which runs in turns                                          *)
(*                                                                         *)
(*   handle_input; run_senders; send_data_frames; run_receivers;           *)
(*   send_ack_frames; graceful_exit                                        *)
(*                                                                         *)
(* `phase` says where the loop is.  Loops over commands, frames, slots,    *)
(* acknowledgements and messages take one step per element.  Time is       *)
(* counted in ticks of 10 ms and passes between turns; a timer holds the   *)
(* ticks left.                                                             *)
(*                                                                         *)
(* The fragments a user sends from src to dst are numbered 1, 2, ...  A    *)
(* frame carries the number `id` of its fragment, which stands for the     *)
(* payload, and `rem`, how many fragments of its message follow it         *)
(* (remaining_msg_bytes).                                                  *)
(***************************************************************************)
EXTENDS CongestionControl, SequencesExt

CONSTANTS NumHosts,        \* glb_num_hosts
          RecvAcceptRate,  \* glb_sysconfig.recv_accept_rate
          TIMEOUT,         \* TIMEOUT_INTERVAL_USEC, in ticks
          Sessions,        \* bound: pairs <<src, dst>> the user sends between
          MaxMessages,     \* bound: messages the user sends
          MaxFragments,    \* bound: fragments of a message
          MaxFaults,       \* bound: frames the switch corrupts
          EndOfInput,      \* whether the input may end without `exit`
          NoFrame          \* NULL in recv_window

Hosts    == 0 .. NumHosts - 1
NoTimer  == -1             \* timeout = NULL
NoHost   == -1

Frames == [kind : {"data", "ack", "corrupt"}, src : Hosts, dst : Hosts,
           seq : SeqNums, rem : Nat, id : Nat]

\* Any number of hosts; a window of at most half of the sequence numbers.
ASSUME TransportAssumption ==
  /\ NumHosts \in Nat \ {0}
  /\ RecvAcceptRate \in Nat /\ TIMEOUT \in Nat
  /\ 2 * W <= MAX_SEQ_NUM + 1
  /\ Sessions \subseteq Hosts \X Hosts
  /\ MaxMessages \in Nat /\ MaxFragments \in Nat /\ MaxFaults \in Nat
  /\ EndOfInput \in BOOLEAN
  /\ NoFrame \notin Frames

Senders  == {"cmds", "acks", "timeouts", "outgoing"}
Finished == {"exited", "failed", "aborted", "crashed"}

VARIABLES
  phase,       \* where the main loop is
  cur,         \* the host whose turn run_senders executes
  todo,        \* hosts left in run_senders, or in a sweep of send_data_frames
  exiting,     \* glb_exit_main
  accepted,    \* incoming_frames_accept of send_data_frames
  faults,      \* frames corrupted so far
  cmds,        \* input_cmdlist_head: what is left to fragment
  buffered,    \* buffered_outframes_head
  outgoing,    \* outgoing_frames_head
  incoming,    \* incoming_frames_head
  active,      \* host->active
  latest,      \* latest_timeout, in ticks from now
  window,      \* send_window of each receiver: frames and their timers
  currSeq,     \* curr_seq_num
  cc,          \* cc and dup_acks_seq_num
  share,       \* frames_per_rtt of handle_outgoing_frames: what is left of it
  base,        \* curr_timeval + additional_ts of handle_outgoing_frames
  recvWindow,  \* recv_window
  lfr,         \* recv_lfr
  recvMsg,     \* recv_msg_head
  sent,        \* history: the last fragment of each message the user sent
  submitted,   \* history: the sequence number given to each fragment
  handed,      \* history: the ids appended to recv_msg_head
  printed      \* history: the ids of each message printed

control  == <<phase, cur, todo, exiting, accepted, faults>>
queues   == <<cmds, buffered, outgoing, incoming>>
sending  == <<active, latest, window, currSeq, cc, share, base>>
recving  == <<recvWindow, lfr, recvMsg>>
history  == <<sent, submitted, handed, printed>>
vars     == <<control, queues, sending, recving, history>>

Each(x) == [h \in Hosts |-> [p \in Hosts |-> x]]

Init == /\ phase = "input" /\ cur = NoHost /\ todo = {}
        /\ exiting = FALSE /\ accepted = [h \in Hosts |-> 0] /\ faults = 0
        /\ cmds = [h \in Hosts |-> << >>]
        /\ buffered = [h \in Hosts |-> << >>]
        /\ outgoing = [h \in Hosts |-> << >>]
        /\ incoming = [h \in Hosts |-> << >>]
        /\ active = [h \in Hosts |-> FALSE]
        /\ latest = [h \in Hosts |-> 0]
        /\ window = Each(<< >>)
        /\ currSeq = Each(0)
        /\ cc = Each(InitCC)
        /\ share = [p \in Hosts |-> 0] /\ base = 0
        /\ recvWindow = Each([i \in 1 .. W |-> NoFrame])
        /\ lfr = Each(MAX_SEQ_NUM)
        /\ recvMsg = Each(<< >>)
        /\ sent = Each(<< >>)
        /\ submitted = Each(<< >>)
        /\ handed = Each(<< >>)
        /\ printed = Each(<< >>)

\* What a corrupted byte leaves: CRC-8 detects every such frame, and its
\* contents are never used.
Corrupt == [kind |-> "corrupt", src |-> 0, dst |-> 0, seq |-> 0, rem |-> 0, id |-> 0]
------------------------------------------------------------------------------
\* How many fragments the user has sent from s to d.
Typed(s, d) == IF sent[s][d] = << >> THEN 0 ELSE sent[s][d][Len(sent[s][d])]

\* check_input accepts a message, also one from a host to itself.
AcceptMessage ==
  /\ phase = "input" /\ ~exiting
  /\ FoldFunction(LAMBDA row, k : k + FoldFunction(LAMBDA q, m : m + Len(q), 0, row),
                  0, sent) < MaxMessages
  /\ \E s, d \in Hosts, n \in 1 .. MaxFragments :
       /\ <<s, d>> \in Sessions
       /\ cmds' = [cmds EXCEPT ![s] =
            Append(@, [dst |-> d, left |-> n, last |-> Typed(s, d) + n])]
       /\ sent' = [sent EXCEPT ![s][d] = Append(@, Typed(s, d) + n)]
  /\ UNCHANGED <<control, buffered, outgoing, incoming, sending, recving,
                 submitted, handed, printed>>

BeginSenders == /\ phase' = "senders" /\ todo' = Hosts
                /\ UNCHANGED <<cur, accepted, faults, queues, sending, recving,
                               history>>

\* Nothing (more) to read: the turn begins.
StartTurn == phase = "input" /\ UNCHANGED exiting /\ BeginSenders

\* The user typed exit.
ExitCommand == phase = "input" /\ ~exiting /\ exiting' = TRUE /\ BeginSenders

\* handle_input exits with status 1 at the end of the input.
InputError ==
  /\ phase = "input" /\ ~exiting /\ EndOfInput
  /\ phase' = "failed"
  /\ UNCHANGED <<cur, todo, exiting, accepted, faults, queues, sending, recving,
                 history>>

Countdown(t) == IF t > 0 THEN t - 1 ELSE t

\* 10 ms pass between two turns.
Tick ==
  /\ phase = "input"
  /\ latest' = [h \in Hosts |-> Countdown(latest[h])]
  /\ window' = [h \in Hosts |-> [p \in Hosts |->
                  [i \in DOMAIN window[h][p] |->
                     [window[h][p][i] EXCEPT !.timeout = Countdown(@)]]]]
  /\ <<latest', window'>> # <<latest, window>>
  /\ UNCHANGED <<control, queues, active, currSeq, cc, share, base, recving,
                 history>>
------------------------------------------------------------------------------
Timers(h, p) == {window[h][p][i].timeout : i \in DOMAIN window[h][p]}

Expired(h, p) == p # h /\ 0 \in Timers(h, p)

\* The wake-up condition of run_senders.
Wakes(h) == \/ cmds[h] # << >>
            \/ incoming[h] # << >>
            \/ \E p \in Hosts : Expired(h, p)

\* Mutant: buffered frames count, frames in the window do not.
SenderDoneNotAwaiting(h) == /\ active' = [active EXCEPT ![h] = buffered'[h] # << >>]
                            /\ todo' = todo \ {h}
                            /\ cur' = NoHost
                            /\ phase' = IF todo' = {} THEN "data" ELSE "senders"
                            /\ UNCHANGED <<exiting, accepted, faults>>

\* Mutant: active is never reset.
SenderDoneNoReset(h) == /\ active' = [active EXCEPT ![h] = @ \/ buffered'[h] # << >>]
                        /\ todo' = todo \ {h}
                        /\ cur' = NoHost
                        /\ phase' = IF todo' = {} THEN "data" ELSE "senders"
                        /\ UNCHANGED <<exiting, accepted, faults>>

\* The end of a host's part of run_senders: it stays active while it has frames
\* to acknowledge (awaiting_ack) or to send.
SenderDone(h) == /\ active' = [active EXCEPT ![h] =
                      buffered'[h] # << >> \/ \E p \in Hosts : window'[h][p] # << >>]
                 /\ todo' = todo \ {h}
                 /\ cur' = NoHost
                 /\ phase' = IF todo' = {} THEN "data" ELSE "senders"
                 /\ UNCHANGED <<exiting, accepted, faults>>

\* Mutant: only the first acknowledgement is handled.
AcksOrTimeoutsFirst(queue) == IF Len(queue) > 1 THEN "acks" ELSE "timeouts"

AcksOrTimeouts(queue) == IF queue # << >> THEN "acks" ELSE "timeouts"

\* run_senders: the next host, in any order.
RunSender ==
  /\ phase = "senders"
  /\ \E h \in todo :
       IF Wakes(h)
         THEN /\ cur' = h
              /\ phase' = IF cmds[h] # << >> THEN "cmds"
                          ELSE AcksOrTimeouts(incoming[h])
              /\ UNCHANGED <<todo, exiting, accepted, faults, queues, sending,
                             recving, history>>
         ELSE /\ UNCHANGED <<queues, latest, window, currSeq, cc, share, base,
                             recving, history>>
              /\ SenderDone(h)

\* handle_input_cmds: the next fragment of the first command.
HandleInputCmds ==
  /\ phase = "cmds"
  /\ LET c == Head(cmds[cur])
         d == c.dst
     IN  /\ buffered' = [buffered EXCEPT ![cur] =
              Append(@, [kind |-> "data", src |-> cur, dst |-> d,
                         seq |-> currSeq[cur][d], rem |-> c.left - 1,
                         id |-> c.last - c.left + 1])]
         /\ currSeq' = [currSeq EXCEPT ![cur][d] = SeqInc(@)]
         /\ submitted' = [submitted EXCEPT ![cur][d] = Append(@, currSeq[cur][d])]
         /\ cmds' = [cmds EXCEPT ![cur] =
              IF c.left = 1 THEN Tail(@) ELSE [@ EXCEPT ![1].left = c.left - 1]]
  /\ phase' = IF cmds'[cur] # << >> THEN "cmds" ELSE AcksOrTimeouts(incoming[cur])
  /\ UNCHANGED <<cur, todo, exiting, accepted, faults, outgoing, incoming, active,
                 latest, window, cc, share, base, recving, sent, handed, printed>>

\* The slots of a window whose frame has sequence number seq.
Hits(slots, seq) == {i \in DOMAIN slots : slots[i].frame.seq = seq}

\* The slot retransmit_frame rearms: the one of the frame, or the last one it
\* looked at when the frame is not there.
RearmedSlot(slots, seq) ==
  IF Hits(slots, seq) = {} THEN Len(slots) ELSE Min(Hits(slots, seq))

\* retransmit_frame, on a window that is not empty: the window, its timer set
\* from `now`, and the copy of the frame for outgoing_frames.
Rearmed(slots, seq, now) ==
  [slots EXCEPT ![RearmedSlot(slots, seq)].timeout = now + TIMEOUT]
Copy(slots, seq) ==
  IF Hits(slots, seq) = {} THEN << >> ELSE <<slots[RearmedSlot(slots, seq)].frame>>

\* How many slots an acknowledgement of seq frees.
Acknowledged(slots, seq) ==
  IF slots = << >> \/ SeqNumDiff(Head(slots).frame.seq, seq) < 0
     \/ Hits(slots, seq) = {}
    THEN 0 ELSE Min(Hits(slots, seq))

\* Mutant: one slot too many is freed.
DequeueOneMore(slots, seq) ==
  SubSeq(slots, Acknowledged(slots, seq) + 2, Len(slots))

\* What handle_incoming_acks leaves of a window.
Dequeue(slots, seq) ==
  SubSeq(slots, Acknowledged(slots, seq) + 1, Len(slots))

\* handle_incoming_acks drops a corrupted acknowledgement.
DropCorruptAck ==
  /\ phase = "acks" /\ Head(incoming[cur]).kind = "corrupt"
  /\ incoming' = [incoming EXCEPT ![cur] = Tail(@)]
  /\ phase' = AcksOrTimeouts(incoming'[cur])
  /\ UNCHANGED <<cur, todo, exiting, accepted, faults, cmds, buffered, outgoing,
                 sending, recving, history>>

\* handle_incoming_acks, one acknowledgement: count it, adapt cwnd, perhaps
\* retransmit the next frame, free the slots it covers.
HandleIncomingAck ==
  /\ phase = "acks" /\ Head(incoming[cur]).kind = "ack"
  /\ LET ack   == Head(incoming[cur])
         p     == ack.src
         slots == window[cur][p]
         fast  == FastRetransmitOn(cc[cur][p], ack.seq)
         next  == SeqInc(ack.seq)
     IN  /\ cc' = [cc EXCEPT ![cur][p] = OnAck(@, ack.seq)]
         /\ latest' = [latest EXCEPT ![cur] = @ + (IF fast THEN 1 ELSE 0)]
         /\ incoming' = [incoming EXCEPT ![cur] = Tail(@)]
         /\ IF fast /\ slots # << >>
              THEN /\ outgoing' = [outgoing EXCEPT ![cur] = @ \o Copy(slots, next)]
                   /\ window' = [window EXCEPT ![cur][p] =
                        Dequeue(Rearmed(@, next, latest[cur]), ack.seq)]
              ELSE /\ UNCHANGED outgoing
                   /\ window' = [window EXCEPT ![cur][p] = Dequeue(@, ack.seq)]
         \* With an empty window retransmit_frame uses an uninitialised pointer
         \* to a slot: the program crashes, or writes a timer no frame depends on.
         /\ phase' \in {AcksOrTimeouts(incoming'[cur])}
                        \cup (IF fast /\ slots = << >> THEN {"crashed"} ELSE {})
  /\ UNCHANGED <<cur, todo, exiting, accepted, faults, cmds, buffered, active,
                 currSeq, share, base, recving, history>>

\* Mutant: the state stays what it was.
AfterTimeoutsNoSlowStart(h, p) ==
  IF Expired(h, p) THEN [cc[h][p] EXCEPT !.cwnd = SCALE] ELSE cc[h][p]

\* The congestion control of h for p, if frames to p have timed out.
AfterTimeouts(h, p) == IF Expired(h, p) THEN OnTimeout(cc[h][p]) ELSE cc[h][p]

\* handle_timedout_frames: one expired frame of a receiver stops the timers of
\* all its frames.  Then handle_outgoing_frames begins.
HandleTimedoutFrames ==
  /\ phase = "timeouts"
  /\ window' = [window EXCEPT ![cur] = [p \in Hosts |->
        IF Expired(cur, p)
          THEN [i \in DOMAIN @[p] |-> [@[p][i] EXCEPT !.timeout = NoTimer]]
          ELSE @[p]]]
  /\ cc' = [cc EXCEPT ![cur] = [p \in Hosts |-> AfterTimeouts(cur, p)]]
  /\ share' = [p \in Hosts |-> FramesPerTurn(cc'[cur][p])]
  /\ base' = latest[cur]
  /\ phase' = "outgoing"
  /\ UNCHANGED <<cur, todo, exiting, accepted, faults, queues, active, latest,
                 currSeq, recving, history>>

\* The slots of receiver p that wait for a retransmission.
Idle(p) == {i \in DOMAIN window[cur][p] : window[cur][p][i].timeout = NoTimer}

\* Mutant: the last frame of the share is not used.
ResendableOneLess == {p \in Hosts \ {cur} : share[p] > 1 /\ Idle(p) # {}}

\* The receivers whose share of this turn is left for one.
Resendable == {p \in Hosts \ {cur} : share[p] > 0 /\ Idle(p) # {}}

\* handle_outgoing_frames, first loop: retransmit_frame for the next frame
\* without a timer.
ResendFrame ==
  /\ phase = "outgoing" /\ Resendable # {}
  /\ LET p   == Min(Resendable)
         seq == window[cur][p][Min(Idle(p))].frame.seq
     IN  /\ outgoing' = [outgoing EXCEPT ![cur] = @ \o Copy(window[cur][p], seq)]
         /\ window' = [window EXCEPT ![cur][p] = Rearmed(@, seq, latest[cur])]
         /\ share' = [share EXCEPT ![p] = @ - 1]
  /\ latest' = [latest EXCEPT ![cur] = @ + 1]
  /\ UNCHANGED <<control, cmds, buffered, incoming, active, currSeq, cc, base,
                 recving, history>>

\* Mutant: a full window takes one more frame.
ReleasableOneMore ==
  {i \in DOMAIN buffered[cur] : LET d == buffered[cur][i].dst
                               IN  share[d] > 0 /\ Len(window[cur][d]) <= W}

\* The buffered frames that fit in the share and in the window of their receiver.
Releasable ==
  {i \in DOMAIN buffered[cur] : LET d == buffered[cur][i].dst
                               IN  share[d] > 0 /\ Len(window[cur][d]) < W}

\* Its second loop: the next new frame enters its window and leaves.  The timers
\* of new frames start again from where those of the retransmitted ones did.
ReleaseFrame ==
  /\ phase = "outgoing" /\ Resendable = {} /\ Releasable # {}
  /\ LET i == Min(Releasable)
         f == buffered[cur][i]
     IN  /\ buffered' = [buffered EXCEPT ![cur] = RemoveAt(@, i)]
         /\ outgoing' = [outgoing EXCEPT ![cur] = Append(@, f)]
         /\ window' = [window EXCEPT ![cur][f.dst] =
              Append(@, [frame |-> f, timeout |-> base + TIMEOUT])]
         /\ share' = [share EXCEPT ![f.dst] = @ - 1]
  /\ base' = base + 1
  /\ UNCHANGED <<control, cmds, incoming, active, latest, currSeq, cc, recving,
                 history>>

\* The end of handle_outgoing_frames: latest_timeout is overwritten.
OutgoingDone ==
  /\ phase = "outgoing" /\ Resendable = {} /\ Releasable = {}
  /\ latest' = [latest EXCEPT ![cur] = base]
  /\ base' = 0 /\ share' = [p \in Hosts |-> 0]
  /\ UNCHANGED <<queues, window, currSeq, cc, recving, history>>
  /\ SenderDone(cur)
------------------------------------------------------------------------------
Pending(queue) == {h \in Hosts : queue[h] # << >>}

\* send_frame: the switch passes a frame on, or corrupts it.
SendFrame(f) ==
  \/ /\ incoming' = [incoming EXCEPT ![f.dst] = Append(@, f)]
     /\ UNCHANGED faults
  \/ /\ faults < MaxFaults
     /\ incoming' = [incoming EXCEPT ![f.dst] = Append(@, Corrupt)]
     /\ faults' = faults + 1

\* send_data_frames: a host that has not had its turn in this sweep sends its
\* first frame, which an ingress port over its rate drops (its queue has
\* INGRESS_PORT_QUEUE_CAPACITY = 0 places).
SendDataFrame ==
  /\ phase = "data"
  /\ LET left  == Pending(outgoing) \cap todo
         sweep == IF left # {} THEN todo ELSE Hosts
     IN  \E h \in Pending(outgoing) \cap sweep :
           LET f == Head(outgoing[h])
           IN  /\ todo' = sweep \ {h}
               /\ outgoing' = [outgoing EXCEPT ![h] = Tail(@)]
               /\ IF f.src = f.dst                   \* frame_sanity_check
                    THEN phase' = "aborted" /\ UNCHANGED <<accepted, incoming, faults>>
                  ELSE IF accepted[f.dst] >= RecvAcceptRate
                    THEN UNCHANGED <<phase, accepted, incoming, faults>>
                  ELSE /\ accepted' = [accepted EXCEPT ![f.dst] = @ + 1]
                       /\ SendFrame(f)
                       /\ UNCHANGED phase
  /\ UNCHANGED <<cur, exiting, cmds, buffered, sending, recving, history>>

DataSent ==
  /\ phase = "data" /\ Pending(outgoing) = {}
  /\ phase' = "receivers" /\ todo' = {}
  /\ accepted' = [h \in Hosts |-> 0]
  /\ UNCHANGED <<cur, exiting, faults, queues, sending, recving, history>>
------------------------------------------------------------------------------
\* How many frames at the front of a receive window have arrived.
Run(slots) ==
  CHOOSE n \in 0 .. W : /\ \A i \in 1 .. n : slots[i] # NoFrame
                        /\ n < W => slots[n + 1] = NoFrame

\* reassemble_message succeeds on a list of frames that holds the last one of a
\* message.
Complete(frames) == \E i \in DOMAIN frames : frames[i].rem = 0
LastFragment(frames) == Min({i \in DOMAIN frames : frames[i].rem = 0})

\* Mutant: frames of the next message are freed, too.
RemainderFreed(frames) == << >>

\* The message it finds, and the frames it leaves.
Message(frames)   == [i \in 1 .. LastFragment(frames) |-> frames[i].id]
Remainder(frames) == SubSeq(frames, LastFragment(frames) + 1, Len(frames))

\* The last loop of handle_incoming_frames: reassemble_message, as often as it
\* succeeds.
PrintMessage ==
  /\ phase = "receivers"
  /\ \E h, p \in Hosts :
       /\ Complete(recvMsg[h][p])
       /\ recvMsg' = [recvMsg EXCEPT ![h][p] = Remainder(@)]
       /\ printed' = [printed EXCEPT ![h][p] = Append(@, Message(recvMsg[h][p]))]
  /\ UNCHANGED <<control, queues, sending, recvWindow, lfr, sent, submitted, handed>>

\* That loop is over.
Reassembled == \A h, p \in Hosts : ~Complete(recvMsg[h][p])

DropCorruptFrame ==
  /\ phase = "receivers" /\ Reassembled
  /\ \E h \in Pending(incoming) :
       /\ Head(incoming[h]).kind = "corrupt"
       /\ incoming' = [incoming EXCEPT ![h] = Tail(@)]
  /\ UNCHANGED <<control, cmds, buffered, outgoing, sending, recving, history>>

\* handle_incoming_frames, one frame: store it if it lies in the window, move
\* what is contiguous to recv_msg_head, acknowledge.
HandleIncomingFrame ==
  /\ phase = "receivers" /\ Reassembled
  /\ \E h \in Pending(incoming) :
       LET f     == Head(incoming[h])
           p     == f.src
           place == SeqNumDiff(lfr[h][p], f.seq)
           slots == IF place \in 1 .. W
                      THEN [recvWindow[h][p] EXCEPT ![place] = f]
                      ELSE recvWindow[h][p]
           run   == IF place \in 1 .. W THEN Run(slots) ELSE 0
       IN  /\ f.kind # "corrupt"
           /\ incoming' = [incoming EXCEPT ![h] = Tail(@)]
           /\ recvWindow' = [recvWindow EXCEPT ![h][p] =
                [i \in 1 .. W |-> IF i + run <= W THEN slots[i + run] ELSE NoFrame]]
           /\ lfr' = [lfr EXCEPT ![h][p] = SeqAdd(@, run)]
           /\ recvMsg' = [recvMsg EXCEPT ![h][p] = @ \o SubSeq(slots, 1, run)]
           /\ handed' = [handed EXCEPT ![h][p] =
                @ \o [i \in 1 .. run |-> slots[i].id]]
           /\ outgoing' = [outgoing EXCEPT ![h] =
                Append(@, [kind |-> "ack", src |-> h, dst |-> p,
                           seq |-> SeqAdd(lfr[h][p], run), rem |-> 0,
                           id |-> Len(handed[h][p]) + run])]
  /\ UNCHANGED <<control, cmds, buffered, sending, sent, submitted, printed>>

FramesReceived ==
  /\ phase = "receivers" /\ Reassembled /\ Pending(incoming) = {}
  /\ phase' = "sendacks"
  /\ UNCHANGED <<cur, todo, exiting, accepted, faults, queues, sending, recving,
                 history>>

\* send_ack_frames: the hosts in the order of their ids, no rate limit.
SendAckFrame ==
  /\ phase = "sendacks" /\ Pending(outgoing) # {}
  /\ LET h == Min(Pending(outgoing))
     IN  /\ outgoing' = [outgoing EXCEPT ![h] = Tail(@)]
         /\ SendFrame(Head(outgoing[h]))
  /\ UNCHANGED <<phase, cur, todo, exiting, accepted, cmds, buffered, sending,
                 recving, history>>

\* graceful_exit at the end of the turn.
EndTurn ==
  /\ phase = "sendacks" /\ Pending(outgoing) = {}
  /\ phase' = IF exiting /\ \A h \in Hosts : ~active[h] THEN "exited" ELSE "input"
  /\ UNCHANGED <<cur, todo, exiting, accepted, faults, queues, sending, recving,
                 history>>

\* The process is gone.
Terminated == phase \in Finished /\ UNCHANGED vars

Turn == \/ StartTurn \/ RunSender \/ HandleInputCmds
        \/ DropCorruptAck \/ HandleIncomingAck
        \/ HandleTimedoutFrames \/ ResendFrame \/ ReleaseFrame \/ OutgoingDone
        \/ SendDataFrame \/ DataSent
        \/ DropCorruptFrame \/ HandleIncomingFrame \/ PrintMessage \/ FramesReceived
        \/ SendAckFrame \/ EndTurn

Next == Turn \/ AcceptMessage \/ ExitCommand \/ InputError \/ Tick \/ Terminated

Spec == Init /\ [][Next]_vars

\* The main loop never stops, and the clock advances again and again.
FairSpec == Spec /\ WF_vars(Turn) /\ SF_vars(Tick)
=============================================================================
