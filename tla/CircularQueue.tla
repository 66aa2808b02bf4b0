--------------------------- MODULE CircularQueue ---------------------------
(***************************************************************************)
(* The windows of one host as util.c keeps them: for all its peers one     *)
(* array of send slots and one of received frames, W places for each peer, *)
(* used as circular queues.  Indices are those of the code, from 0; starts *)
(* and lengths are uint8_t, counted modulo BYTE.                           *)
(***************************************************************************)
EXTENDS Integers

CONSTANTS
    N,          \* peers: glb_num_hosts
    W,          \* glb_sysconfig.window_size
    BYTE,       \* the values of a uint8_t
    Items,      \* frames
    NULL

ASSUME CircularQueueAssumption ==
    /\ N \in Nat \ {0} /\ W \in Nat \ {0}
    /\ BYTE \in Nat /\ W < BYTE
    /\ NULL \notin Items

Peers == 0 .. N - 1

VARIABLES
    send_window, send_window_start, send_window_length,
    recv_window, recv_window_start

sendVars == <<send_window, send_window_start, send_window_length>>
recvVars == <<recv_window, recv_window_start>>
vars == <<sendVars, recvVars>>

Slots == 0 .. N * W - 1

Init ==
    /\ send_window = [s \in Slots |-> NULL]
    /\ send_window_start = [p \in Peers |-> 0]
    /\ send_window_length = [p \in Peers |-> 0]
    /\ recv_window = [s \in Slots |-> NULL]
    /\ recv_window_start = [p \in Peers |-> 0]

\* The place in the array of item i of the queue of peer id that starts at start.
SlotNoBase(id, start, i) == (start + i) % W  \* Mutant: one queue for all peers.
Slot(id, start, i) == (id * W) + ((start + i) % W)

SendSlot(id, i) == Slot(id, send_window_start[id], i)
RecvSlot(id, i) == Slot(id, recv_window_start[id], i)

Min2(a, b) == IF a <= b THEN a ELSE b

\* cq_append_item_send; with a full window it only complains.
AppendItemSend(id, x) ==
    /\ send_window_length[id] # W
    /\ send_window' = [send_window EXCEPT ![SendSlot(id, send_window_length[id])] = x]
    /\ send_window_length' = [send_window_length EXCEPT ![id] = (@ + 1) % BYTE]
    /\ UNCHANGED <<send_window_start, recvVars>>

NdequeueSendKeepsItems(id, n) ==  \* Mutant: the slots are freed but not cleared.
    LET m == Min2(n, send_window_length[id]) IN
    /\ send_window' = send_window
    /\ send_window_length' = [send_window_length EXCEPT ![id] = @ - m]
    /\ send_window_start' = [send_window_start EXCEPT ![id] = ((@ + m) % W) % BYTE]
    /\ UNCHANGED recvVars

NdequeueSend(id, n) ==
    LET m == Min2(n, send_window_length[id]) IN
    /\ send_window' = [s \in Slots |->
          IF \E i \in 0 .. m - 1 : s = SendSlot(id, i) THEN NULL ELSE send_window[s]]
    /\ send_window_length' = [send_window_length EXCEPT ![id] = @ - m]
    /\ send_window_start' = [send_window_start EXCEPT ![id] = ((@ + m) % W) % BYTE]
    /\ UNCHANGED recvVars

SetItemRecv(id, i, x) ==
    /\ recv_window' = [recv_window EXCEPT ![RecvSlot(id, i)] = x]
    /\ UNCHANGED <<sendVars, recv_window_start>>

NdequeueRecv(id, n) ==
    LET m == Min2(n, W) IN
    /\ recv_window' = [s \in Slots |->
          IF \E i \in 0 .. m - 1 : s = RecvSlot(id, i) THEN NULL ELSE recv_window[s]]
    /\ recv_window_start' = [recv_window_start EXCEPT ![id] = ((@ + m) % W) % BYTE]
    /\ UNCHANGED sendVars

Next == \E id \in Peers :
    \/ \E x \in Items : AppendItemSend(id, x) \/ \E i \in 0 .. W - 1 : SetItemRecv(id, i, x)
    \/ \E n \in 0 .. W + 1 : NdequeueSend(id, n) \/ NdequeueRecv(id, n)

Spec == Init /\ [][Next]_vars

-----------------------------------------------------------------------------

\* The types, and starts that are places of the queue.
TypeOK ==
    /\ send_window \in [Slots -> Items \cup {NULL}]
    /\ recv_window \in [Slots -> Items \cup {NULL}]
    /\ send_window_start \in [Peers -> 0 .. W - 1]
    /\ send_window_length \in [Peers -> 0 .. W]
    /\ recv_window_start \in [Peers -> 0 .. W - 1]

\* A slot holds a frame exactly when it is in the queue of its peer: run_senders
\* finds out whether a host is active by walking over all slots of the array.
OccupiedInQueue ==
    \A s \in Slots : send_window[s] # NULL <=>
        \E p \in Peers : \E i \in 0 .. send_window_length[p] - 1 : s = SendSlot(p, i)

\* Each peer's share of the arrays is a queue and a window of its own.
Windows == INSTANCE PeerWindows WITH
    send <- [p \in Peers |-> [i \in 1 .. send_window_length[p] |-> send_window[SendSlot(p, i - 1)]]],
    recv <- [p \in Peers |-> [i \in 0 .. W - 1 |-> recv_window[RecvSlot(p, i)]]]

\* The arrays of util.c implement the windows the program works with.
WindowsSpec == Windows!Spec
=============================================================================
