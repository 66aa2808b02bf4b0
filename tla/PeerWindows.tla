---------------------------- MODULE PeerWindows ----------------------------
(***************************************************************************)
(* What the rest of the transport program takes the windows of a host for: *)
(* for each peer a bounded queue of sent frames, and W places for frames   *)
(* received ahead of their turn.                                           *)
(***************************************************************************)
EXTENDS Integers, Sequences

CONSTANTS Peers, Items, NULL, W

VARIABLES send, recv

Init ==
    /\ send = [p \in Peers |-> <<>>]
    /\ recv = [p \in Peers |-> [i \in 0 .. W - 1 |-> NULL]]

Append1(p, x) ==
    /\ Len(send[p]) < W
    /\ send' = [send EXCEPT ![p] = Append(@, x)]
    /\ UNCHANGED recv

\* The first n frames, or as many as there are.
Dequeue(p, n) ==
    /\ send' = [send EXCEPT ![p] = SubSeq(@, n + 1, Len(@))]
    /\ UNCHANGED recv

Set(p, i, x) ==
    /\ recv' = [recv EXCEPT ![p][i] = x]
    /\ UNCHANGED send

\* The first n places are left behind, and n empty ones join at the end.
Shift(p, n) ==
    /\ recv' = [recv EXCEPT ![p] = [i \in 0 .. W - 1 |-> IF i + n < W THEN @[i + n] ELSE NULL]]
    /\ UNCHANGED send

Next == \E p \in Peers :
    \/ \E x \in Items : Append1(p, x) \/ \E i \in 0 .. W - 1 : Set(p, i, x)
    \/ \E n \in 0 .. W : Dequeue(p, n) \/ Shift(p, n)

Spec == Init /\ [][Next]_<<send, recv>>
=============================================================================
