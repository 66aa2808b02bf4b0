----------------------------- MODULE MCRouter -----------------------------
(* Host is like rtable: a host on each interface, no route for the         *)
(* router's own addresses.  Net is like rtable2: a host, and the rest      *)
(* behind one gateway, but only one of the router's addresses too.         *)
EXTENDS Router

HostAddrs == {"client", "server", "eth1", "eth3"}
HostMine == {"eth1", "eth3"}
HostHops == {"client", "server"}
HostRoute == [a \in HostAddrs |-> IF a \in HostHops THEN a ELSE NoRoute]
HostOut == [h \in HostHops |-> IF h = "client" THEN "eth3" ELSE "eth1"]

NetAddrs == {"host", "far", "absent", "eth1", "eth2"}
NetMine == {"eth1", "eth2"}
NetHops == {"host", "gateway"}
NetRoute == [a \in NetAddrs |-> IF a \in {"absent", "eth2"} THEN NoRoute
                                ELSE IF a = "host" THEN "host" ELSE "gateway"]
NetOut == [h \in NetHops |-> IF h = "host" THEN "eth1" ELSE "eth2"]

P(s, d, t, i, q) == [src |-> s, dst |-> d, ttl |-> t, intact |-> i, proto |-> q]
Data(s, d) == P(s, d, 64, TRUE, "other")

HostTransit == {Data("client", "server"), Data("server", "client")}

NetArrivals ==
    {Data("host", "far"), Data("far", "host"), Data("far", "far"),
     P("host", "far", 1, TRUE, "other"), P("host", "far", 64, FALSE, "other"),
     P("host", "absent", 64, TRUE, "other"),
     P("host", "eth1", 64, TRUE, "echo_request"), P("host", "eth1", 64, TRUE, "tcp_udp"),
     P("host", "eth1", 64, FALSE, "echo_request"), P("host", "eth1", 64, TRUE, "arp_request"),
     P("host", "far", 64, TRUE, "arp_request")}
=============================================================================
