----------------------------- MODULE MCSession -----------------------------
(* Two interfaces; tables of up to two of four rows over addresses of two  *)
(* bits, the default route among them; a hardware description that leaves  *)
(* out an interface; packets for the router, for others and by an unknown  *)
(* interface.                                                              *)
EXTENDS RouterSession

MCBits == {0, 1}
MCInterfaces == {"eth1", "eth2"}
MCIp == [i \in MCInterfaces |-> IF i = "eth1" THEN {0} ELSE {}]
MCEther == [i \in MCInterfaces |-> IF i = "eth1" THEN {1} ELSE {0, 1}]
MCNoAddr == {2}

E(k, v) == [key |-> k, value |-> v]
Eth1 == <<E("interface", "eth1"), E("addr", {1}), E("ip", {0})>>
Eth2 == <<E("interface", "eth2"), E("speed", {}), E("ip", {}), E("addr", {0, 1})>>
MCHwInfos == {Eth2 \o Eth1, Eth1}

R(d, m, i) == [dest |-> d, mask |-> m, interface |-> i]
MCLines == {R({}, {}, "eth2"), R({1}, {1}, "eth2"), R({0, 1}, {0, 1}, "eth1"),
            R({0}, {0}, "eth1")}

MCOptions == {[template |-> FALSE, vrhost |-> FALSE], [template |-> TRUE, vrhost |-> FALSE],
              [template |-> TRUE, vrhost |-> TRUE]}

P(i, o, d) == [type |-> "packet", interface |-> i, op |-> o, dst |-> d]
MCPackets == {P("eth1", "ip", {0, 1}), P("eth1", "ip", {0}), P("eth2", "arp_request", {})}
=============================================================================
