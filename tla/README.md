# TLA+ models of network-sim

The repository holds two independent programs.

* `src/tcp` (tritontalk): one single-threaded process that simulates hosts which
  send messages to each other over a lossy switch, with a selective-repeat
  sliding window, timeouts and TCP-like congestion control.
* `src/router` (sr): a user-space IP router for mininet with two threads, the
  packet loop and the ARP timeout thread.

Both are modelled and model-checked, and what matters most in them is proved. What
is left out, and why, is under "Not modelled".

## Inventory

### Transport program (`src/tcp/src`)

`main.c` runs turns: `handle_input` (until the user typed `exit`), then
`run_hosts` = `run_senders`, `send_data_frames`, `run_receivers`,
`send_ack_frames`, then `graceful_exit`. Components share the global arrays of
hosts and ports and call each other; there is no other thread, so what is hard
is the order of steps between hosts, turns and timers.

| component | state | operations | what makes it correct |
|---|---|---|---|
| sender (`sender.c`) | per receiver: `curr_seq_num`, `send_window`; per host: `buffered_outframes`, `latest_timeout`, `active` | `handle_input_cmds`, `handle_incoming_acks`, `handle_timedout_frames`, `handle_outgoing_frames` | forgets only what was delivered; never waits without a timer |
| receiver (`receiver.c`) | per sender: `recv_window`, `recv_lfr`, `recv_msg_head` | `handle_incoming_frames`, `reassemble_message` | each message once, whole, in order |
| sequence numbers (`util.c`) | none | `seq_num_diff`, `uint8_t` increments | no confusion of two windows when numbers wrap |
| congestion control (`sender.c`) | per receiver: `cc`, `dup_acks_seq_num` | new and duplicate acknowledgements, timeouts | at least one frame per turn; fast recovery entered and left correctly |
| timers (`sender.c`, `util.c`) | timeouts of window slots, `latest_timeout` | `retransmit_frame`, expiry | every unacknowledged frame is sent again |
| switch (`switch.c`) | ingress ports | rate limit, random order, corruption | may lose, never reorders one sender's frames |
| main loop (`main.c`, `host.c`, `run_main.c`) | `glb_exit_main` | turn, exit | exit loses nothing |
| input (`input.c`) | stdin | `check_input` | accepts only what the hosts can handle |
| fragmentation, reassembly (`sender.c`, `receiver.c`) | `recv_msg_head` | `handle_input_cmds`, `reassemble_message` | the text printed is the text typed |
| checksum (`util.c`) | none | `compute_crc8`, `set_checksum`, `frame_valid` | every inverted byte is found |
| circular queues (`util.c`) | starts and lengths in the array of windows | `cq_*` | a queue and a window for each peer |
| linked lists (`util.c`) | nodes on the heap | `ll_*` | rings in both directions |

Hard behaviours: frames lost by the rate limit or corrupted in either
direction; numbers that wrap; acknowledgements and timeouts of the same frames
in one turn; duplicates that arrive after the window has emptied; several
senders at one port; exit while frames are under way.

### Router (`src/router`)

| component | state | operations | what makes it correct |
|---|---|---|---|
| packet handling (`sr_router.c`) | none of its own | `sr_handlepacket`, forwarding, ICMP, ARP | every packet sent once or answered once |
| ARP cache (`sr_arpcache.c`) | entries, requests with queued packets, recursive lock | lookup, insert, queue, sweep, expiry | a request is answered or given up; nobody waits for a known address |
| routing table (`sr_rt.c`) | list of routes | load, `sr_rt_lookup_ip` | longest prefix |
| interfaces (`sr_if.c`) | list | add, lookup | complete before the first packet |
| VNS session (`sr_vns_comm.c`, `sr_main.c`) | socket, options | handshake, read, send | messages found in the stream; no packet before table and interfaces agree |

The packet thread and the timeout thread share the cache and its requests. The
lock protects one call of the cache at a time in the packet thread and a whole
sweep in the other, so what is hard is what happens between two calls that
belong together: a lookup that missed and the queueing that follows, a reply
looked up and then inserted, a request sent outside the lock. A sweep that gives
up a request forwards errors of its own through the same cache. The cache can be
full, a gateway may never answer or answer unasked, entries age while in use.
The session is sequential; what is hard there is the server: its messages come in
pieces and in an order of its own, or stop.

## Modules

| module | models | source |
|---|---|---|
| `SeqNum` | sequence-number arithmetic, the modulus a parameter | `util.c`, `common.h` |
| `ReliableDelivery` | abstract: what one sender promises one receiver | |
| `SlidingWindow` | the window protocol between two hosts over lossy first-in first-out channels | `sender.c`, `receiver.c` |
| `CongestionControl` | the congestion control record and what acknowledgements and timeouts do to it | `sender.c` 78-121, 215-218 |
| `CongestionSpec` | the same under any sequence of acknowledgements and timeouts | |
| `Transport` | the whole program: hosts, switch, main loop, timers, fragmentation | `main.c`, `sender.c`, `receiver.c`, `switch.c`, `run_main.c` |
| `TransportProperties`, `TransportRefinement` | its properties; its refinement of `SlidingWindow` and `CongestionSpec` for one pair of hosts | |
| `PeerWindows` | abstract: a bounded queue and a window for each peer | |
| `CircularQueue` | the two arrays of windows with starts and lengths; implements `PeerWindows` | `util.c` 275-333, `host.c` |
| `Crc8` | the checksum, bit by bit, and the fault of the switch | `util.c` 198-233, `switch.c` |
| `LinkedLists` | the linked lists on a heap of nodes, as operations on a record | `util.c` 4-85 |
| `MessagePath` | the bytes of a message from command line to output | `sender.c`, `receiver.c`, `switch.c` |
| `Router` | both threads of the router, the ARP cache and its requests | `sr_router.c`, `sr_arpcache.c` |
| `RoutingTable` | the table, its rows and the loop of its lookup | `sr_rt.c`, `sr_router.c` 362-384 |
| `RouterSession` | the router program: command line, handshake, interfaces, message loop | `sr_main.c`, `sr_vns_comm.c`, `sr_if.c`, `vnscommand.h` |
| `SeqNumTheorems`, `SlidingWindowProofs`, `CongestionProofs`, `TransportProofs`, `CircularQueueProofs`, `MessagePathProofs`, `RouterProofs`, `RouterSessionProofs` | theorems | |
| `MC*` | instances for TLC | |

    Transport --(TransportRefinement)--> SlidingWindow --> ReliableDelivery
        \--------------------------------> CongestionSpec
    CircularQueue --> PeerWindows
    MessagePath = Crc8 + LinkedLists + fragmentation and reassembly
    RouterSession --> RoutingTable   (extends it, and implements its Spec)
    Router (constant Route: a table looked up as in RoutingTable)

Definitions marked `Mutant:` are the code with one plausible mistake. They are
used by no specification; each stands before the definition it varies, and
replacing that definition by it makes the property PROJECT.json names fail.

### How the models correspond to the code

`SlidingWindow`. `submitted` and `delivered` are histories; `id`, the place of a
frame in the stream, stands for its payload, which no code looks at. `Submit` is
one fragment in `handle_input_cmds`; `SendFrames` is `handle_outgoing_frames`
with any retransmissions and any number of new frames the window has room for;
`HandleAck` and `HandleFrame` are one iteration of the two receiving loops;
`LoseData` and `LoseAck` are the rate limit and a failed checksum. Sequence
numbers count modulo `MAX_SEQ_NUM + 1`. The two channels are the linked lists
from `outgoing_frames_head` to `incoming_frames_head`: frames of one pair stay
in order. `MaxFrames` and `MaxInFlight` bound the runs, as `MaxCwnd` does in
`CongestionSpec`; for the theorems each may be `Unbounded`.

`CongestionControl`. `cwnd` and `ssthresh` are doubles in the code and multiples
of `1/SCALE` in the model, divisions truncated; `frames_per_rtt` truncates them
to whole frames anyway. `dup` is the `uint8_t` counter, modulo `DUP_MODULUS`.

`Transport`. `phase` and `cur` are the program counter; one action is one
iteration of a loop over commands, frames, acknowledgements, messages or hosts.

* `handle_outgoing_frames` is `ResendFrame`, once for every frame that waits for a
  retransmission, `ReleaseFrame`, once for every new frame, and `OutgoingDone`.
  `share` is what its `frames_per_rtt` leaves for each receiver and `base` the
  timer of the next new frame. Both belong to that call and are 0 outside it.
* `PrintMessage` is one round of the loop around `reassemble_message`; the next
  frame is looked at when no message is complete.

* Time. A tick is the 10 ms by which consecutive timers differ; `TIMEOUT` is
  `TIMEOUT_INTERVAL_USEC` in ticks. Time passes between turns. Timers and
  `latest_timeout` are stored relative to now and never below 0, which is all
  that the code's comparisons (`<= 0`, maximum of now and `latest_timeout`)
  tell apart.
* A corrupted frame is one value: a frame with one inverted byte never divides
  by the CRC polynomial, both receivers drop it before they read it.
* `SendDataFrame` keeps the sweeps of `send_data_frames`: a host sends its next
  frame when every other host with frames has had its turn, in random order.
  The ingress queue has capacity 0, so a frame over the rate is lost.
* Undefined behaviour. `retransmit_frame` with an empty window uses a pointer it
  never set: `HandleIncomingAck` either ends in phase `crashed` or goes on with
  no effect on a slot.
* Left out: csv diagnostics, `round_trip_num`, memory management, command line
  and configuration, the bytes of a message (fragments are counted; the bytes are
  `MessagePath`'s).

`TransportProperties` speaks of a pair of hosts `Src` and `Dst`, any pair
(`PairAssumption`). `TransportRefinement` names what that pair sees of the program:
the frames between the two in each queue, in order, those past the switch first.

`CircularQueue`. One action for each `cq_*` function that changes something, for
any caller: the numbers to dequeue also exceed the lengths, since the code caps
them. Starts and lengths are `uint8_t`; `CircularQueueAssumption` names what they
need, a window smaller than `BYTE`. The refinement reads the queue of a peer from
its slots, in order; freed slots count as empty.

`Crc8`. A byte is the set of its bits that are 1, so `^` is the symmetric
difference. `NextBit` is one turn of the inner loop; `i` counts the bytes read.
`Compute` is the call, from `set_checksum`, from the test in `handle_input_cmds`
or from `frame_valid`; `call` says which. Width, length and generator are
constants: 8, 64 and 0x07 in the code. `trace`, `base`, `past` and `sent` are
histories, the ones the proof compares two sums with.

`LinkedLists`. `h.next`, `h.prev` and `h.value` are the heap, `h.head` the variables
that hold head pointers; a node that is not in use points nowhere. Each operation
maps a heap to the next one, so an action of `MessagePath` is a composition of the
calls its code makes. `Values` is what the nodes may point at; `MaxNodes` bounds the
heap, and `HasRoom` keeps `MessagePath` within that bound.

`MessagePath` is one host sending to another, one frame in the window, whose
acknowledgement arrives: order and loss are `SlidingWindow`'s subject. Frames have
the two fields the text depends on, `remaining_msg_bytes` (one byte wide) and
`length`, the data, and the checksum. Bytes being sets of bits, `ByteOf` says how one
holds a number; `remaining_msg_bytes` counts modulo `REM`. `Frame` is the frame before its checksum, its
unused part holding what `malloc` left there; `TakeFrame` may keep further frames
before reassembly, as frames that waited for an earlier one do. `FindMessage` and
`TakeData` are the two loops of `reassemble_message`; its second list holds the same
frames as a prefix of the first and is counted by `left`.

`Router`. `pc`, `hop` and `held` are the packet thread's place in a call, the
gateway it is about and the messages it carries; `sweep`, `todo`, `at` and `rest`
those of the sweep. A step of the packet thread is what it does in one hold of
the lock, or between two:

| code | actions |
|---|---|
| `sr_handlepacket`, the branches that answer or drop | `Answer` |
| `sr_forward_packet` | `Forward` (lookup; sends when it hits), `QueueRequest`, `SendRequest` |
| `sr_handle_arp_reply` | `Reply` (lookup), then `InsertEntry` and `SendQueuedPackets`, or `ResendPackets` |
| `sr_arpcache_timeout` | `Tick` (the second it sleeps), `BeginSweep` (expiry), `EndSweep` |
| `sr_arpcache_sweepreqs`, `handle_arpreq` | `ResendRequest`, `GiveUp` |
| `sr_send_icmp_host_unreachable`, `sr_arpreq_destroy` | `Refuse`, one per message; `DestroyRequest` |

* The sweep holds the recursive lock from `BeginSweep` to `EndSweep`; its calls
  of `sr_forward_packet` take it again. `LockFree` is the packet thread's turn.
* The lists of requests and of packets are sets: the code walks them to the end
  and no order is promised. MAC addresses are left out; an entry is a gateway
  and its age, a free slot is room in a set of `CacheSize`.
* Time is in seconds. At least one passes between two sweeps, so the test that
  the last request is a second old is `ago`, 1 for a second or more.
* A packet has a source, a destination, a time to live (a byte: 0 wraps to 255), a
  bit for its checksum and length tests, and the kind of payload the code
  tells apart. Replies sent at once are recorded in `answered` with their kind.
* A host-unreachable message is a message one level up, from the interface it
  leaves by to the source of the message it is about. Its route is used
  without a test: none is a null pointer, and the model's `crashed`.
* `answered`, `asked`, `delivered`, `refused` and `lost` are histories.

`RoutingTable`. `rt_walker` is the row of the loop. Addresses and masks are sets
of bits, so `&` is intersection and `popcount` is `Cardinality`; any mask may be
in the table. `FirstEntry` replaces the table, as the first row of a file does.
The gateway column and the text of the file are left out.

`RouterSession`. `pc` is the place in `main` or in the handshake; the main loop is
`run`. The stream is a sequence of units, `LenUnits` of length and `Body` of the
rest; `Recv` takes any part of what the code asks for, and `buf` is what
`bytes_read` counts. A message is handled in the step that follows its last unit:

| code | actions |
|---|---|
| `sr_load_rt`, called before and after the handshake | `LoadLine`, `LoadEnds`, `SetupFails` |
| `sr_connect_to_server` | `Connect`, `SendOpen`, and `Succeeds` from one expected command to the next |
| `sr_read_from_server_expect`, the two loops | `Recv`, `RecvFails` |
| its `switch` | `Discard`, `HandleAuthRequest`, `HandleAuthStatus`, `HandleRtable`, `HandleHwInfo`, `HandlePacket` |
| `sr_forward_packet`, as far as the table | `Lookup`, `ForwardFound` |

* The server is not in the repository. `Send` gives it the freedom the router's code
  leaves it: the challenge comes first, a verdict follows a reply, tables, hardware
  and packets follow an open; banners, closes and messages that are too long come at
  any time. `Drop` is a connection lost in the middle of a message.
* A hardware description is of the interfaces there are: an entry about an address
  gives the address of the interface named last before it (`About`).
* `origin` and `written` are histories: whose rows the table has, and whether the
  table of this session was written. Keys, digests and names are left out; the reply
  is made, or there is no key.
* A packet or a row by an interface that does not exist ends the program in an
  assertion (`aborted`).

## Runs

| run | constants | checks |
|---|---|---|
| `window` | W = 3 of 6 numbers, 7 frames, 4 in flight | in-order delivery, no early forgetting, the inductive invariant, refinement of `ReliableDelivery` |
| `congestion` | W = 4, grid 1/6, counter modulo 6, cwnd up to 10 frames | `cwnd >= 1`, fast recovery, what may shrink cwnd |
| `both_ways` | 2 hosts, W = 2 of 4 numbers, 2 messages of up to 3 fragments, 2 corruptions, rate 2 | types, message delivery, separation of data and acknowledgements, no stall, exit loses nothing, refinement of `SlidingWindow` |
| `contention` | 3 hosts, two of them sending to the third at rate 1, 1 corruption | every message printed, exit ends the program |
| `fast_retransmit` | W = 7 of 16 numbers, 9 fragments, 3 corruptions | no stall, refinement of `CongestionSpec` through fast retransmit and recovery, the empty-window case included |
| `circular_queue` | 2 peers, W = 2, bytes modulo 4, 2 frames | slots outside the queues empty, refinement of `PeerWindows` |
| `message_path` | bytes of 3 bits, 2 of them in a frame of 5, 2 messages of up to 8 bytes, 2 inverted bytes | types, detection of inverted bytes, lists well linked, text delivered whole, every message printed |
| `router` | table `rtable2`, cache of 1 slot and 1 second, 4 tries, 3 packets of every kind | nobody waits for a cached address, no accepted packet lost, one fate for every packet, one mapping for a gateway, a request has packets, nobody refused early, and every packet sent or refused in the end |
| `session` | 2 interfaces, tables of up to 2 of 4 rows, addresses of 2 bits, 5 messages | types, longest match, framing of the stream, forwarding only when ready, addresses, admission, whose table is used, refinement of `RoutingTable`, every message handled |

In `window` the types are a part of `IInv`; in `router`, `congestion` and
`circular_queue` they are left to the theorems. So is `SentFramesValid`, which follows
from `CorruptionDetected` for a frame that was not corrupted.

Bounds. `window` submits more frames than there are numbers and uses the largest
window the numbers allow, so wrap-around and full windows of both kinds meet.
`both_ways` sends up to 6 frames with 4 numbers. In `fast_retransmit`
the window is wide enough for three duplicates to follow the acknowledgement
that empties it (with W = 6 and as many frames none do). Faults are bounded by
`MaxFaults`, which also stands for the fact that a switch that corrupts everything
delivers nothing; the rate limit loses frames without bound.

`circular_queue` wraps both kinds of start and fills the queues of both peers,
which share the array. In `message_path` a message of eight bytes and its terminator
is the longest that three bits can count (`PathAssumption`): five fragments, the
last with room left over; the other texts fill one frame together with their
terminator, or leave the terminator to a frame of its own. Two
messages may be typed at once, wait in the lists together and be reassembled in one
call; a fault may hit every byte, checksum and count included, and may hit the
retransmission too. What `printf` shows of the bytes ends before the terminator
(`Shown`). Any of the five lists grows past one node and empties again.

In the router, `Tries` is the 4 of the code. One slot is enough for a full cache
with two gateways; an age of one second lets entries expire between any two steps.
Two packets meet in the queue of one request, one joins a request about to be given
up, and an error of the first queues behind the second; the third is handled beside
them. `MaxAsked` caps a history counter above what the properties compare it with.
In `session`, five messages are those of a handshake with a template, a hardware
description and a packet, or a description that does not fit, a close, a banner or
an oversized message in any place. A unit is the smallest piece `recv` may return;
two for the length and up to two for the body split every message at, before and
after the border between them. In two bits a table holds masks of every relation,
rows that repeat and the default route.

`CHECK_DEADLOCK FALSE` is set for `window`, where `MaxFrames` stops the model, for
`router`, where a null pointer stops the program (`crashed`), and for `session`, where
the program ends. `Transport` stops only in `Terminated`.

Fairness. `FairSpec` asks for `WF_vars(Turn)`: the process runs and its loop has
no step that waits; and for `SF_vars(Tick)`: the clock advances between turns.
Nothing is assumed of the user (`AcceptMessage`, `ExitCommand`) or of the switch.
`Router`'s `FairSpec` asks for `WF_vars(Tick)`, `WF_vars(Sweeper)` (the thread runs;
the packet thread holds the lock for one step at a time) and `SF_vars(PacketThread)`:
its calls may find the lock taken, but the other thread sleeps a second without
it. Nothing is assumed of the gateways: `ArpReply` may never happen. `PathSpec` asks
for `WF_path_vars(Main)` and `SessionSpec` for `WF_session_vars(Router)`: a process
runs as long as it has a step, and neither the user nor the server owes it one.

Disagreements between the code and what it says of itself, each a run of its own:

* `retransmit_crash`: a fast retransmit is asked for a frame that is not in the
  window, with three corrupted frames and a window of 7.
* `six_requests`: `sr_forward_packet` sends an ARP request for every packet it
  queues and does not count it: more than the five of `sr_arpcache.h` leave.
* `no_route_back`: with `rtable`, an error of the router's own may have to be
  refused, and there is no route to the router's own address.

Four limits of the models are limits of the code too. `run_config` accepts any
window, but with more than half of the numbers in it, which `WindowAssumption`
excludes, `seq_num_diff` takes new acknowledgements for old ones. A command that
sends a message from a host to itself is accepted and ends the program in the
switch (phase `aborted`, reached in `both_ways`). An error for a sender behind
the very gateway that is being given up is queued on the request about to be
destroyed and freed with it: `lost` holds those, and `NoPacketLost` says that it
holds nothing else. And a fragment that 65536 bytes follow (`REM` in the model) has
the count 0 of a last one: `PathAssumption` keeps messages shorter.

## Proofs

Assumptions on the constants. Numbers and windows: `SeqNumAssumption` (an even number
of sequence numbers), `WindowAssumption` (two windows fit in them),
`CongestionAssumption` (the counter can reach 3 and pass it),
`CircularQueueAssumption` (a window smaller than a byte can count). The transport
program: `TransportAssumption` (at least one host; two windows fit in the numbers; any
rate, timeout and sessions), `PairAssumption` (`Src` and `Dst` are hosts, any two),
`PlainAssumption` (a null pointer is not a frame). The router: `RouterAssumption`
(routes lead to gateways, errors leave by interfaces; any cache size, timeout and
number of tries), `RoutingTableAssumption` (finitely many bits), `SessionAssumption`
(the messages and rows are of their types; a description begins with an interface, as
the assertion of `sr_set_ether_addr` requires), `HwAssumption` (the server describes
interfaces that exist and gives them their addresses). The path of a message: `CrcAssumption`
(at least two bytes, a generator with a last term), `HeapAssumption` (a null pointer is
not a node) and `PathAssumption` (a byte holds every count below `REM` and no two of
them alike; a fragment fits in what a frame counts; a text is shorter than the count
can express, has no terminator inside and is not empty, as `check_input` requires).

`SlidingWindowProofs` proves, for every number of frames and every such window,
`Spec => []IInv` and from it type correctness, in-order delivery
(`InOrderDelivery`), `ForgetsOnlyDelivered`, and `Spec => RDSpec`.
In-order delivery is not inductive: `HandleFrame` trusts a number. `IInv`
therefore says of everything in flight how far it is from both ends. Numbers
along the stream are consecutive (`Consecutive`); window and buffer are the
frames after the forgotten ones (`SenderInv`); the receiver is inside the
sender's window (`ReceiverInv`); a data frame lies less than W behind anything
received before it (`DataInv`); acknowledgements are monotonic (`AckInv`). Then
a frame and the last frame received are less than half the number space apart,
where `seq_num_diff` is exact (`DiffAhead`, `DiffBehind` in `SeqNumTheorems`),
so the slot it gets is the slot of its place (`PlaceInWindow`) and an
acknowledgement frees exactly the frames it names (`AcknowledgedExactly`).

`CongestionProofs` proves `Spec => []CCInv`, which joins the relations of the
three states; in particular slow start is never left downwards and fast
recovery never entered below five frames, from which `cwnd >= 1` follows, and that
`cwnd` shrinks only on a loss (`OnlyLossShrinks`).

`TransportProofs` is about the whole program, for any number of hosts, in these
layers, each invariant used by the next.

* `TypeInv`: the types, and what the order of the turn leaves behind (`TurnInv`): a
  host that has had its turn has no command and no acknowledgement left. The
  congestion control of every pair keeps the invariant of `CongestionProofs`, so a
  share is never empty. Hence `TransportTypes`.
* `CommandInv`: what a host still has to cut continues the stream behind its last
  fragment, and a message ends where a command does. So a frame counts 0 bytes left
  exactly when it is the last of a message (`Genuine`).
* `QueueInv`: what each queue holds in each phase. One queue serves fragments and
  acknowledgements; they never meet because a phase ends only when the queue it
  empties is empty. Hence `KindsSeparate`. The three together are `FlowInv`.
* Timers. `NoStall` is about the time between turns; within one, a timeout stops
  every timer of a receiver, and the retransmissions start them again one by one.
  The invariant says that only the host at work may owe a frame without a timer
  (`OwedAwake`), and that while it sends each receiver has a timer or a part of its
  share left (`ShareOrWake`). No loop visits what a host sends to itself; nothing stops
  those timers either (`SelfTimers`). Hence `NeverStalls`.
* `PairRefined`: what two hosts see of the program is a run of `SlidingWindow`, each
  step of it or a stutter. Other hosts' frames come between those of the pair in the
  same queues: `Selected` picks a pair's frames from a queue, and lemmas say what it
  makes of a queue that is appended to, loses its head or an inner frame, or is
  joined to another. A fast retransmit and the acknowledgement that asks for it are
  one step of the program and one of the protocol; a frame sent again is one the
  protocol may send. With it every theorem on `SlidingWindow` holds of every pair.
  `ControlRefined` says the same of `CongestionSpec`.
* `MessagesInOrder`: the protocol hands over a prefix of the stream. `StreamInv` splits
  that prefix: the messages printed end where the messages typed do, what waits for
  the rest of its message comes behind them, and by `Genuine` the next frame with
  nothing left to follow is where the next message ends.
* `NothingLostAtExit`: a host that is not active has nothing buffered and an empty window
  (`ActiveInv`), so everything it sent was forgotten and hence delivered
  (`ForgetsOnlyDelivered`, from the refinement); a complete message does not wait
  (`PrintInv`); so the messages printed are all there are.

`RouterProofs` proves type correctness, `CachedNotRequested`, `OneEntryPerHop`,
`RequestHasPackets` and `GivesUpAfterAll` for every table and every size. None is
inductive alone: between a miss and the call that acts on it the lock is free.
What saves the code is that only the packet thread inserts, and that the sweep
queues only after a lookup under the same hold: the gateway of a call between a
miss and its queueing or insertion stays out of the cache (`LookupInv`), and has
one mapping at most afterwards (`UniqueInv`, `SlotsInv`). Outside a sweep there is
nothing to visit, and the request being given up is not visited again
(`SweepInv`); what is about to be queued is not empty (`HeldInv`); and a request
has been sent once more than the sweep counts, except while the packet thread is
about to send its own (`AskedInv`).

`NoPacketLost` and `OneFate` are about where a message is: with the packet thread, on
a request, delivered, refused or lost. That no message is in two places is not
inductive alone: the sweep makes errors and queues them, perhaps on the very request
it is giving up, and an error that equalled a message already there would join it.
`FateInv` rules that out. Identity and level name one message (`Unique`); an error is
about a message that was refused (`Family`), and a message is refused once, so a new
error is new. The places are disjoint (`Apart`); the messages of the request being
given up are still to be refused, refused, or errors made meanwhile (`GivingUp`), so
what is freed with it is refused or an error; and no accepted packet is out of every
place (`Covered`).

`RouterSessionProofs` proves, for every server within the two assumptions:

* of the table, that the lookup finds the longest match, the first of several, for
  every table and every address (`LongestMatchFound`);
* `OpensWhenAdmitted`, `ForwardsWhenReady`, `RunsServersTable` and
  `SessionSpec => TableSpec`, from which `LongestMatch` follows for the whole program
  (`SessionFindsLongestMatch`). `Stream` says that what is read and on its way are
  messages the server sent, so that an accepted verdict in the stream is the server's
  verdict; `Admitted` follows it through the handshake; `Ready` says that once the main
  loop looks a packet up the interfaces of all rows exist, which lasts because nothing
  loads a table after the handshake and interfaces are never removed; `FromServer`
  follows the table that was written to the load after it;
* `MessagesFramed`: what is read and what is on its way form a chain of whole messages,
  the last one perhaps cut off by a lost connection (`FrameInv`). A read takes units off
  the front of one and puts them at the end of the other, which leaves the chain as it
  is, so a message that is complete in the buffer is one the server sent, all of it;
* `SessionTypes` and `AddressesRight`: the loop over a hardware description is a fold. Its
  steps are taken one by one (`FoldSteps`), so that what an entry does to the list of
  interfaces (`EntryKeeps`) can be said of all of them; the interface an entry is about
  is the last in the list, which is the one announced last.

`MessagePathProofs` is about the path of a message, for every size of a byte, of a
frame and of the heap, every text shorter than the count of remaining bytes can
express, and every byte the switch inverts. It has three parts.

* The lists. A heap shows some sequences (`Shows`) when there is for each list the
  sequence of its nodes, next and prev run through it in opposite order and close, no
  node stands in two places and none in use is out of reach. `ll_append_node` and
  `ll_pop_node` keep that and are `Append` and `Tail` of what the list holds;
  `ll_get_length` counts it. A heap that shows what `Contents` reads from it is `Good`,
  and then every list is a ring (`GoodLinked`). The program's heap is always good,
  whence `ListsAreLinked`; everything after that reasons about sequences.
* The checksum. A frame with its checksum leaves no remainder and one inverted byte
  always leaves one, for every generator whose last term is 1. The sum of a list of
  bytes is not defined anywhere as a function of the list: the proof compares two runs
  of the same loop, `trace` of the one under way and `past` of the one before, of the
  same frame uncorrupted. Up to the byte that differs they agree. While it is read the
  difference is the part of the change read so far; that never reaches the top bit, so
  the generator does not enter. Afterwards both sums take in the same bits, and a
  difference that is not empty stays so: the register shifts out its top bit only when
  it subtracts the generator, whose last term puts a bit back. The path takes part in
  the checksum only by steps of `CrcSpec` (`PathComputesCrc`), so `CorruptionDetected`
  holds of the program's frames (`PathDetects`).
* The text (`MessagesDeliveredWhole`). The frames between `handle_input_cmds` and
  `reassemble_message` - received, in the window, buffered - carry the text without a
  gap (`Stream`): each has a place, a message and an offset in it; the first lies where
  the assembled bytes end (`Reader`), and behind the last is where `handle_input_cmds`
  goes on (`Writer`). A frame counts 0 remaining bytes exactly when it is the last of
  its message (`Fits`), since a message is shorter than what wraps that count; so
  `FindMessage` stops at the end of a message, not before it and not in the next one
  (`Assembling`). A retransmission is the frame in the window, and what the
  receiver keeps equals it because its checksum passed (`Making`, `PathDetects`).

`CircularQueueProofs` proves that the flat arrays implement `PeerWindows` for any
number of peers and any window. What it rests on is arithmetic: the wrap of an index
stays in the share of its peer (`Wrap`, `Share`), two positions of a window, or two
peers, never share a slot (`SlotsDistinct`), and after the start moved on position k
is where k + n was (`SlotShifted`). With the invariant that a slot holds a frame
exactly inside the queue, each operation becomes one of `PeerWindows` or a stutter.

`SeqNumTheorems` also holds what these proofs need beyond the library: induction as a
statement about sets of numbers (`SetInduction`), from which it follows that a function
may be defined by its first value and its steps (`Recursion`), and what removing an
element or joining two lists does to a sequence (`RemoveAtProperties`, `TwoLists`).

Every invariant, action property and refinement that the passing runs check is stated
by a theorem. Only model-checked are the liveness properties (`EventuallyPrinted`,
`EventuallyExits`, `EveryPacketSettled`, `EveryMessageHandled`, `EveryMessagePrinted`),
which are out of the proof system's reach, and what the three violation runs show.

## Not modelled

* Diagnostics, packet dumps, header layout, SHA-1 (a copy of a library): printing and
  pure functions of bytes. `sr_send_packet` writes to the socket and its result is
  used nowhere; for the models a packet handed to it is sent.
* Command line and configuration files of both programs: they set the constants.
* `select` against `getline` in `input.c`: which lines wait in the buffer of stdio is
  decided by the C library. To the program it is a line typed later.
* MAC addresses in the ARP cache: an entry is its gateway. A reply with a new address
  for a cached gateway changes nothing in the code.
* Half a message at the end of the stream: `recv` returns 0 and the loop spins. The
  model stops there; no statement of the repository says what should happen.
* The pop from the middle of `buffered_outframes` (several receivers at one sender):
  in `Transport`, whose lists are sequences, not in `LinkedLists`.

## Plan

1. What the router promises for one packet as an abstract specification that
   `Router` implements, and `RouterSession` composed with it.
