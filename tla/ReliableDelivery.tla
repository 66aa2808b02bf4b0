-------------------------- MODULE ReliableDelivery --------------------------
(***************************************************************************)
(* What one sender promises one receiver, with no sequence number, window, *)
(* channel or timer: frames are numbered 1, 2, ... as the sender's user    *)
(* submits them; the receiver hands them over in that order, each exactly  *)
(* once; the sender forgets a frame only after it was handed over.         *)
(***************************************************************************)
EXTENDS Naturals, Sequences

VARIABLES submitted,   \* how many frames were submitted
          delivered,   \* the frames handed over, in the order they were
          forgotten    \* how many frames the sender no longer keeps

vars == <<submitted, delivered, forgotten>>

Init == submitted = 0 /\ delivered = << >> /\ forgotten = 0

Submit == /\ submitted' = submitted + 1
          /\ UNCHANGED <<delivered, forgotten>>

\* A frame that fills the gap may free several frames at once.
Deliver == /\ \E n \in Len(delivered) + 1 .. submitted :
                delivered' = delivered \o
                  [i \in 1 .. n - Len(delivered) |-> Len(delivered) + i]
           /\ UNCHANGED <<submitted, forgotten>>

Forget == /\ \E n \in forgotten + 1 .. Len(delivered) : forgotten' = n
          /\ UNCHANGED <<submitted, delivered>>

Next == Submit \/ Deliver \/ Forget

Spec == Init /\ [][Next]_vars
=============================================================================
