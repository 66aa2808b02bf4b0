-------------------------- MODULE MCCircularQueue --------------------------
(* Two peers, two places each, two frames to tell the order by.            *)
EXTENDS CircularQueue
=============================================================================
