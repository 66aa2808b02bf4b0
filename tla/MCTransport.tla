----------------------------- MODULE MCTransport ------------------------------
(* Instances of Transport for TLC; the other values are in the cfg files.    *)
EXTENDS TransportRefinement

\* One sender and one receiver.
OneWay == {<<0, 1>>}

\* Two hosts that send to each other.
BothWays == {<<0, 1>>, <<1, 0>>}

\* Two senders share the ingress port of one receiver.
TwoToOne == {<<0, 2>>, <<1, 2>>}

\* A user that also sends from a host to itself.
BothWaysAndSelf == BothWays \cup {<<0, 0>>}
=============================================================================
