----------------------------- MODULE MCCongestion -----------------------------
(* Instance of CongestionSpec for TLC; the values are in the cfg file.       *)
EXTENDS CongestionSpec
=============================================================================
