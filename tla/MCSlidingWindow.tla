-------------------------- MODULE MCSlidingWindow --------------------------
(* Instance of SlidingWindow for TLC; the values are in the cfg files.      *)
EXTENDS SlidingWindow
=============================================================================
