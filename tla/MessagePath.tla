----------------------------- MODULE MessagePath -----------------------------
(***************************************************************************)
(* What happens to the text of a message between one host's command line   *)
(* and the other's output: it is cut into frames (handle_input_cmds), each *)
(* gets a checksum, the frames pass through the lists of the two hosts and *)
(* through the switch, which may invert a byte, are tested, and put        *)
(* together again (reassemble_message).  Two hosts, one direction, one frame *)
(* under way whose acknowledgement arrives: the window protocol itself is  *)
(* SlidingWindow.  Of the header of a frame there are the two fields that  *)
(* the text needs, remaining_msg_bytes, here of one byte, and length.      *)
(***************************************************************************)
EXTENDS Crc8, LinkedLists

CONSTANTS
    PAYLOAD,    \* FRAME_PAYLOAD_SIZE
    REM,        \* the values of remaining_msg_bytes: 0 .. REM - 1
    ByteOf,     \* how a byte holds a number
    Texts,      \* the texts that may be typed
    Garbage,    \* what malloc leaves in the unused part of a frame
    MaxMsgs,    \* bound: messages
    MaxFaults   \* bound: bytes the switch inverts

\* A fragment that REM bytes follow would look like the last one of its message.
ASSUME PathAssumption ==
    /\ REM \in Nat /\ ByteOf \in [0 .. REM - 1 -> Byte]
    /\ \A m, n \in 0 .. REM - 1 : ByteOf[m] = ByteOf[n] => m = n
    /\ Texts \cup Frames \subseteq Values /\ NULL \notin Frames
    /\ PAYLOAD \in Nat \ {0} /\ N = PAYLOAD + 3 /\ PAYLOAD < REM
    /\ Garbage \subseteq Byte /\ Garbage # {}
    /\ Texts \subseteq Seq(Byte \ {{}})
    /\ \A t \in Texts : t # <<>> /\ Len(t) + 1 < REM + PAYLOAD
    /\ MaxMsgs \in Nat /\ MaxFaults \in Nat
    /\ Lists = {"input", "buffered", "outgoing", "incoming", "received"}

VARIABLES
    lists,      \* the lists of the two hosts
    slot,       \* the frame in the send window, or NULL
    cmd, start, \* handle_input_cmds: the message and how much of it has been cut
    left, msg,  \* reassemble_message: frames of the message still to take, its bytes
    pc,         \* the phase of the main loop
    typed, printed, faults

reasm == <<left, msg>>
path_vars == <<lists, slot, cmd, start, reasm, pc, typed, printed, faults, crc_vars>>

NumOf(s) == CHOOSE n \in 0 .. REM - 1 : ByteOf[n] = s

Remaining(f) == NumOf(f[1])
Data(f) == SubSeq(f, 3, 2 + NumOf(f[2]))

PathInit ==
    /\ CrcInit
    /\ lists = EmptyHeap /\ slot = NULL
    /\ cmd = <<>> /\ start = 0 /\ left = 0 /\ msg = <<>> /\ pc = "main"
    /\ typed = <<>> /\ printed = <<>> /\ faults = 0

\* The bound on the nodes of the heap.
HasRoom == Used(lists) # Nodes

\* check_input: a message command.
Type(t) ==
    /\ pc = "main" /\ Len(typed) < MaxMsgs /\ HasRoom
    /\ lists' = AppendNode(lists, "input", t)
    /\ typed' = Append(typed, t)
    /\ UNCHANGED <<reasm, slot, cmd, start, pc, printed, faults, crc_vars>>

InputDone ==
    /\ pc = "main" /\ pc' = "commands"
    /\ UNCHANGED <<lists, slot, cmd, start, reasm, typed, printed, faults, crc_vars>>

\* The next command, with the terminator that strlen + 1 counts.
PopCommand ==
    /\ pc = "commands" /\ cmd = <<>> /\ lists.head["input"] # NULL
    /\ cmd' = Append(PeekNode(lists, "input"), {}) /\ start' = 0
    /\ lists' = PopNode(lists, "input")
    /\ UNCHANGED <<slot, pc, reasm, typed, printed, faults, crc_vars>>

End == IF start + PAYLOAD > Len(cmd) THEN Len(cmd) ELSE start + PAYLOAD

FrameRemainingWhole(pad) ==  \* Mutant: the bytes of this fragment are counted too.
    <<ByteOf[(Len(cmd) - start) % REM], ByteOf[End - start]>> \o SubSeq(cmd, start + 1, End)
       \o [n \in 1 .. PAYLOAD - (End - start) |-> pad] \o <<pad>>

\* The conversion of the count to the type of remaining_msg_bytes.
Frame(pad) ==
    <<ByteOf[(Len(cmd) - End) % REM], ByteOf[End - start]>> \o SubSeq(cmd, start + 1, End)
       \o [n \in 1 .. PAYLOAD - (End - start) |-> pad] \o <<pad>>

Fragment ==
    /\ pc = "commands" /\ cmd # <<>>
    /\ \E pad \in Garbage : SetChecksum(Frame(pad))
    /\ UNCHANGED <<lists, slot, cmd, start, pc, reasm, typed, printed, faults>>

Checksum ==
    /\ NextBit \/ StoreChecksum
    /\ UNCHANGED <<lists, slot, cmd, start, pc, reasm, typed, printed, faults>>

\* The frame, which was tested, is queued; after the last one the command is freed.
QueueFrame ==
    /\ Tested /\ HasRoom
    /\ lists' = AppendNode(lists, "buffered", buf)
    /\ start' = End
    /\ cmd' = IF End = Len(cmd) THEN <<>> ELSE cmd
    /\ UNCHANGED <<slot, pc, reasm, typed, printed, faults>>

CommandsDone ==
    /\ pc = "commands" /\ cmd = <<>> /\ lists.head["input"] = NULL
    /\ pc' = "outgoing"
    /\ UNCHANGED <<lists, slot, cmd, start, reasm, typed, printed, faults, crc_vars>>

\* handle_outgoing_frames: a copy of the frame in the window, or of the next one,
\* which enters the window.
HandleOutgoing ==
    /\ pc = "outgoing" /\ HasRoom
    /\ \/ /\ slot # NULL
          /\ lists' = AppendNode(lists, "outgoing", slot)
          /\ pc' = "switch" /\ UNCHANGED slot
       \/ /\ slot = NULL /\ lists.head["buffered"] # NULL
          /\ slot' = PeekNode(lists, "buffered")
          /\ lists' = AppendNode(PopNode(lists, "buffered"), "outgoing", slot')
          /\ pc' = "switch"
       \/ /\ slot = NULL /\ lists.head["buffered"] = NULL
          /\ pc' = "main" /\ UNCHANGED <<lists, slot>>
    /\ UNCHANGED <<cmd, start, reasm, typed, printed, faults, crc_vars>>

\* send_data_frames and send_frame.
SendFrame ==
    /\ pc = "switch"
    /\ \E p \in 0 .. N :
          /\ p # 0 => faults < MaxFaults
          /\ faults' = IF p = 0 THEN faults ELSE faults + 1
          /\ lists' = AppendNode(PopNode(lists, "outgoing"), "incoming",
                                 Corrupted(PeekNode(lists, "outgoing"), p))
    /\ pc' = "incoming"
    /\ UNCHANGED <<slot, cmd, start, reasm, typed, printed, crc_vars>>

\* handle_incoming_frames takes a frame and calls frame_valid.
PopIncoming ==
    /\ pc = "incoming" /\ lists.head["incoming"] # NULL
    /\ \E p \in 0 .. N :
          /\ Corrupted(slot, p) = PeekNode(lists, "incoming")
          /\ Receive(slot, p)
    /\ lists' = PopNode(lists, "incoming")
    /\ UNCHANGED <<slot, cmd, start, pc, reasm, typed, printed, faults>>

\* It is kept, and the acknowledgement frees the window, or dropped.  Frames that
\* waited for an earlier one reach the list together, before reassembly is tried.
TakeFrame ==
    /\ Received
    /\ \/ /\ remainder = {}
          /\ lists' = AppendNode(lists, "received", buf)
          /\ slot' = NULL
          /\ \/ pc' = "reassemble"
             \/ lists.head["buffered"] # NULL /\ pc' = "main"
       \/ /\ remainder # {}
          /\ pc' = "main" /\ UNCHANGED <<lists, slot>>
    /\ UNCHANGED <<cmd, start, reasm, typed, printed, faults>>

\* The number of frames of the first message, if its last frame is there.
Lasts == {k \in 1 .. Length(lists, "received") : Remaining(Contents(lists, "received")[k]) = 0}

FindMessageEager ==  \* Mutant: the frames that are there are taken for a message.
    /\ pc = "reassemble" /\ left = 0
    /\ \/ lists.head["received"] # NULL /\ left' = Length(lists, "received") /\ UNCHANGED pc
       \/ lists.head["received"] = NULL /\ pc' = "main" /\ UNCHANGED left
    /\ UNCHANGED <<lists, slot, cmd, start, msg, typed, printed, faults, crc_vars>>

\* reassemble_message: the for loop.  It is called until it returns NULL.
FindMessage ==
    /\ pc = "reassemble" /\ left = 0
    /\ \/ \E k \in Lasts : (\A n \in Lasts : k <= n) /\ left' = k /\ UNCHANGED pc
       \/ Lasts = {} /\ pc' = "main" /\ UNCHANGED left
    /\ UNCHANGED <<lists, slot, cmd, start, msg, typed, printed, faults, crc_vars>>

\* What printf shows of the bytes: those before the terminator.
Shown(s) ==
    LET ends == {k \in DOMAIN s : s[k] = {}}
    IN  IF ends = {} THEN s ELSE SubSeq(s, 1, Min(ends) - 1)

\* The while loop in it, and printf after the last frame.
TakeData ==
    /\ left > 0 /\ left' = left - 1
    /\ lists' = PopNode(lists, "received")
    /\ LET all == msg \o Data(PeekNode(lists, "received")) IN
       IF left = 1
       THEN msg' = <<>> /\ printed' = Append(printed, Shown(all))
       ELSE msg' = all /\ UNCHANGED printed
    /\ UNCHANGED <<slot, cmd, start, pc, typed, faults, crc_vars>>

Main ==
    \/ InputDone \/ PopCommand \/ Fragment \/ Checksum \/ QueueFrame \/ CommandsDone
    \/ HandleOutgoing \/ SendFrame \/ PopIncoming \/ TakeFrame \/ FindMessage
    \/ TakeData

PathNext == Main \/ \E t \in Texts : Type(t)

\* The main loop goes on for ever; nobody has to type.
PathSpec == PathInit /\ [][PathNext]_path_vars /\ WF_path_vars(Main)

-----------------------------------------------------------------------------

\* The types, and where in the loop a checksum is being computed.
PathTypeOK ==
    /\ CrcTypeOK
    /\ pc \in {"main", "commands", "outgoing", "switch", "incoming", "reassemble"}
    /\ slot \in {NULL} \cup Frames
    /\ \A n \in DOMAIN cmd : cmd[n] \in Byte
    /\ start \in 0 .. Len(cmd) \/ cmd = <<>>
    /\ left \in Nat /\ (left > 0 => pc = "reassemble")
    /\ call \in {"set", "test"} => pc = "commands" /\ cmd # <<>>
    /\ call = "receive" => pc = "incoming"
    /\ \A t \in {typed[n] : n \in DOMAIN typed} : t \in Texts
    /\ Len(typed) <= MaxMsgs /\ faults \in 0 .. MaxFaults

\* ll_append_node and ll_pop_node keep every list a ring in both directions, whatever
\* the order in which the parts of the program append and pop.
ListsLinked == WellLinked(lists)

\* What is printed is what was typed, whole, in the order it was typed: fragments
\* of two messages are never mixed and no corrupted one is used.
DeliveredWhole == IsPrefix(printed, typed)

\* Every message that was typed is printed, however often the switch corrupts its
\* frames, as long as it stops.
EveryMessagePrinted == []<>(printed = typed)
=============================================================================
