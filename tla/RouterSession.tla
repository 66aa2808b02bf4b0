---------------------------- MODULE RouterSession ----------------------------
(***************************************************************************)
(* The life of the router program (sr_main.c): it loads its routing table, *)
(* opens a session with the server that holds the network (the handshake   *)
(* of sr_vns_comm.c), learns its interfaces (sr_if.c), and from then on    *)
(* handles what the server sends.  The connection is a stream: recv returns *)
(* any part of what has arrived.  The server is not in the repository; what *)
(* it may send is taken from what the router does with it.                 *)
(***************************************************************************)
EXTENDS RoutingTable, SequencesExt

CONSTANTS
    NoAddr,         \* what a field of a new interface holds
    IpOf, EtherOf,  \* the addresses of each interface, both as sets of bits
    HwInfos,        \* the hardware descriptions: sequences of entries
    Packets,        \* the packets the server may pass on
    Lines,          \* the rows a routing table file may have
    Options,        \* the command lines
    MaxMessages     \* bound: messages of the server

\* sizeof(len) and the bodies of the messages, in units that recv does not split.
\* The body of a message that is too long is never read.
LenUnits == 2
Body(m) == IF m.type \in {"hwinfo", "packet"} THEN 2 ELSE IF m.type = "oversized" THEN 0 ELSE 1

Plain == [type : {"auth_request", "rtable", "banner", "close", "oversized"}]
AuthStatus == [type : {"auth_status"}, auth_ok : BOOLEAN]
HwInfo == [type : {"hwinfo"}, entries : HwInfos]
Messages == Plain \cup AuthStatus \cup HwInfo \cup Packets

ASSUME SessionAssumption ==
    /\ IpOf \in [Interfaces -> Addr] /\ EtherOf \in [Interfaces -> Addr]
    /\ NoAddr \notin Addr
    /\ Packets \subseteq [type : {"packet"}, interface : Interfaces,
                          op : {"arp_request", "ip"}, dst : Addr]
    /\ Lines \subseteq Routes /\ MaxMessages \in Nat
    /\ Options \subseteq [template : BOOLEAN, vrhost : BOOLEAN]
    /\ \A h \in HwInfos : h # <<>> /\ h[1].key = "interface"

\* The k-th entry of a description is about the last interface named before it.
About(h, k, n) ==
    \E j \in 1 .. k : /\ h[j].key = "interface" /\ h[j].value = n
                      /\ \A i \in j + 1 .. k : h[i].key # "interface"

\* The server describes the interfaces there are, and gives them their addresses.
ASSUME HwAssumption ==
    \A h \in HwInfos :
        /\ Len(h) \in Nat /\ DOMAIN h = 1 .. Len(h)
        /\ \A k \in DOMAIN h : h[k].key = "interface" => h[k].value \in Interfaces
        /\ \A k \in DOMAIN h, n \in Interfaces : About(h, k, n) =>
              /\ h[k].key = "addr" => h[k].value = EtherOf[n]
              /\ h[k].key = "ip" => h[k].value = IpOf[n]

VARIABLES
    template, vrhost,   \* the options -T and -r rtable.vrhost
    pc,                 \* where main is
    clear,              \* clear_routing_table
    origin,             \* history: whose rows the table has
    written,            \* rtable.vrhost was written in this session
    if_list,            \* the interfaces, in the order they were announced
    handling,           \* sr_forward_packet looks the table up
    buf,                \* the part of a message that was read
    handled,            \* messages read to the end
    wire, sent,         \* units on their way, messages sent
    conn,               \* the connection: up, ended or reset by the server
    auth,               \* what the server decided
    said                \* what the router sent in the handshake

table   == <<routing_table, ip, rt_walker, match_bits, entry>>
setup   == <<template, vrhost, clear, origin, written>>
reader  == <<buf, handled>>
network == <<wire, sent, conn, auth>>
session_vars == <<table, setup, pc, if_list, handling, reader, network, said>>

Over == pc \in {"ended", "aborted"}

-----------------------------------------------------------------------------
(* Interfaces.                                                             *)

Names == {if_list[i].name : i \in DOMAIN if_list}

SetFirst(l, field, v) == [l EXCEPT ![1] = [@ EXCEPT ![field] = v]]  \* Mutant: not the end of the list.

\* sr_set_ether_addr and sr_set_ether_ip: the last interface of the list.
SetLast(l, field, v) == [l EXCEPT ![Len(l)] = [@ EXCEPT ![field] = v]]

AddInterface(l, n) == Append(l, [name |-> n, addr |-> NoAddr, ip |-> NoAddr])

\* One entry of a hardware description.
AddHwEntry(l, e) ==
    IF e.key = "interface" THEN AddInterface(l, e.value)
    ELSE IF e.key \in {"addr", "ip"} THEN SetLast(l, e.key, e.value)
    ELSE l

\* sr_verify_routing_table.
Verified(l) ==
    /\ l # <<>> /\ routing_table # <<>>
    /\ \A r \in DOMAIN routing_table : \E i \in DOMAIN l : routing_table[r].interface = l[i].name

-----------------------------------------------------------------------------
(* Loading the table, before and after the handshake.                      *)

SessionInit ==
    /\ Init
    /\ \E o \in Options : template = o.template /\ vrhost = o.vrhost
    /\ pc = IF template THEN "connect" ELSE "load"
    /\ clear = FALSE /\ origin = "none" /\ written = FALSE
    /\ if_list = <<>> /\ handling = FALSE
    /\ buf = <<>> /\ handled = 0
    /\ wire = <<>> /\ sent = 0 /\ conn = "up" /\ auth = "none" /\ said = {}

LoadLinePrepends ==  \* Mutant: the row goes before the others.
    /\ pc \in {"load", "reload"}
    /\ \E r \in Lines :
          IF clear
          THEN /\ rt_walker = 1 /\ Len(routing_table) < MaxRoutes
               /\ routing_table' = <<r>> \o routing_table
               /\ UNCHANGED <<ip, rt_walker, match_bits, entry>>
          ELSE FirstEntry(r)
    /\ clear' = TRUE
    /\ origin' = IF vrhost /\ written THEN "server" ELSE "local"
    /\ UNCHANGED <<template, vrhost, written, pc, if_list, handling, reader, network, said>>

\* A line of the file.  A blank line repeats the one before it.
LoadLine ==
    /\ pc \in {"load", "reload"}
    /\ \E r \in Lines : IF clear THEN AddEntry(r) ELSE FirstEntry(r)
    /\ clear' = TRUE
    /\ origin' = IF vrhost /\ written THEN "server" ELSE "local"
    /\ UNCHANGED <<template, vrhost, written, pc, if_list, handling, reader, network, said>>

\* The end of the file.
LoadEnds ==
    /\ pc \in {"load", "reload"}
    /\ pc' = IF pc = "load" THEN "connect" ELSE "init"
    /\ clear' = FALSE
    /\ UNCHANGED <<table, template, vrhost, origin, written, if_list, handling, reader, network, said>>

\* The file cannot be read, a line has no address, or there is no server.
SetupFails ==
    /\ pc \in {"load", "reload", "connect"}
    /\ pc' = "ended"
    /\ UNCHANGED <<table, setup, if_list, handling, reader, network, said>>

Connect ==
    /\ pc = "connect" /\ pc' = "auth_request"
    /\ UNCHANGED <<table, setup, if_list, handling, reader, network, said>>

\* sr_init: the cache and the sweeping thread.
SrInit ==
    /\ pc = "init" /\ pc' = "run"
    /\ UNCHANGED <<table, setup, if_list, handling, reader, network, said>>

-----------------------------------------------------------------------------
(* sr_read_from_server_expect.                                             *)

Reading == pc \in {"auth_request", "auth_status", "rtable", "run"} /\ ~ handling

WantedWithLength ==  \* Mutant: the body is read without taking off the length field.
    IF Len(buf) < LenUnits THEN LenUnits - Len(buf)
    ELSE 2 * LenUnits + Body(buf[1].msg) - Len(buf)

\* What the two loops ask recv and read for.
Wanted ==
    IF Len(buf) < LenUnits THEN LenUnits - Len(buf)
    ELSE LenUnits + Body(buf[1].msg) - Len(buf)

RecvDropsRest ==  \* Mutant: what recv returned beyond the first unit is not counted.
    /\ Reading /\ Wanted > 0
    /\ \E n \in 1 .. Wanted :
          /\ n <= Len(wire)
          /\ buf' = Append(buf, wire[1])
          /\ wire' = SubSeq(wire, n + 1, Len(wire))
    /\ UNCHANGED <<table, setup, pc, if_list, handling, handled, sent, conn, auth, said>>

\* Any part of what is asked for.  A recv interrupted by a signal changes nothing;
\* at the end of the stream recv returns 0 and the loop goes on for ever.
Recv ==
    /\ Reading /\ Wanted > 0
    /\ \E n \in 1 .. Wanted :
          /\ n <= Len(wire)
          /\ buf' = buf \o SubSeq(wire, 1, n)
          /\ wire' = SubSeq(wire, n + 1, Len(wire))
    /\ UNCHANGED <<table, setup, pc, if_list, handling, handled, sent, conn, auth, said>>

RecvFails ==
    /\ Reading /\ Wanted > 0 /\ conn = "reset"
    /\ pc' = "ended"
    /\ UNCHANGED <<table, setup, if_list, handling, reader, network, said>>

Complete == Reading /\ Wanted = 0
Msg == buf[1].msg

AcceptsAnything == TRUE  \* Mutant: the expected command is not checked.

\* A close is always accepted; the main loop accepts anything.
Accepts == pc = "run" \/ Msg.type = pc \/ Msg.type = "close"

FinishedNoReset ==  \* Mutant: bytes_read keeps its value.
    UNCHANGED buf /\ handled' = handled + 1

\* The message was read to the end; what comes next depends on its result.
Finished == buf' = <<>> /\ handled' = handled + 1

Succeeds ==
    /\ Finished
    /\ pc' = CASE pc = "auth_request" -> "auth_status"
               [] pc = "auth_status" -> "open"
               [] pc = "rtable" -> "reload"
               [] OTHER -> "run"

Fails == Finished /\ pc' = "ended"

\* The handlers that change nothing but the course of the session: a command that
\* was not expected or is too long, a close, a banner.
Discard ==
    /\ Complete
    /\ \/ ~ Accepts /\ Fails
       \/ Accepts /\ Msg.type \in {"close", "oversized"} /\ Fails
       \/ Accepts /\ Msg.type = "banner" /\ Succeeds
    /\ UNCHANGED <<table, setup, if_list, handling, network, said>>

\* sr_handle_auth_request: the reply is sent, or there is no key to make it from.
HandleAuthRequest ==
    /\ Complete /\ Accepts /\ Msg.type = "auth_request"
    /\ \/ Succeeds /\ said' = said \cup {"auth_reply"}
       \/ Fails /\ UNCHANGED said
    /\ UNCHANGED <<table, setup, if_list, handling, network>>

HandleAuthStatus ==
    /\ Complete /\ Accepts /\ Msg.type = "auth_status"
    /\ IF Msg.auth_ok THEN Succeeds ELSE Fails
    /\ UNCHANGED <<table, setup, if_list, handling, network, said>>

SendOpenNoTable ==  \* Mutant: the table of the template is not waited for.
    /\ pc = "open"
    /\ \/ said' = said \cup {"open"} /\ pc' = "reload"
       \/ conn # "up" /\ pc' = "ended" /\ UNCHANGED said
    /\ UNCHANGED <<table, setup, if_list, handling, reader, network>>

\* The end of sr_connect_to_server: the open is sent, or send fails.
SendOpen ==
    /\ pc = "open"
    /\ \/ said' = said \cup {"open"} /\ pc' = IF template THEN "rtable" ELSE "reload"
       \/ conn # "up" /\ pc' = "ended" /\ UNCHANGED said
    /\ UNCHANGED <<table, setup, if_list, handling, reader, network>>

\* sr_handle_rtable writes the file, or cannot.
HandleRtable ==
    /\ Complete /\ Accepts /\ Msg.type = "rtable"
    /\ \/ Succeeds /\ written' = TRUE
       \/ Fails /\ UNCHANGED written
    /\ UNCHANGED <<table, template, vrhost, clear, origin, if_list, handling, network, said>>

HandleHwInfoAnyway ==  \* Mutant: the result of the verification is not returned.
    /\ Complete /\ Accepts /\ Msg.type = "hwinfo"
    /\ if_list' = FoldLeft(AddHwEntry, if_list, Msg.entries)
    /\ Succeeds
    /\ UNCHANGED <<table, setup, handling, network, said>>

\* sr_handle_hwinfo, and the main loop ends unless the table names only interfaces
\* there are.  A second description adds to the list.
HandleHwInfo ==
    /\ Complete /\ Accepts /\ Msg.type = "hwinfo"
    /\ LET l == FoldLeft(AddHwEntry, if_list, Msg.entries) IN
       /\ if_list' = l
       /\ IF Verified(l) THEN Succeeds ELSE Fails
    /\ UNCHANGED <<table, setup, handling, network, said>>

\* A packet by an interface the router does not know ends the program.
HandlePacket ==
    /\ Complete /\ Accepts /\ Msg.type = "packet"
    /\ \/ /\ Msg.interface \notin Names
          /\ Finished /\ pc' = "aborted"
          /\ UNCHANGED <<table, handling>>
       \/ /\ Msg.interface \in Names
          /\ \/ Msg.op = "arp_request"      \* answered, or not for us
             \/ \E i \in DOMAIN if_list : if_list[i].ip = Msg.dst
          /\ Succeeds
          /\ UNCHANGED <<table, handling>>
       \/ /\ Msg.interface \in Names
          /\ Msg.op = "ip" /\ \A i \in DOMAIN if_list : if_list[i].ip # Msg.dst
          /\ Succeeds
          /\ BeginLookup(Msg.dst) /\ handling' = TRUE
    /\ UNCHANGED <<setup, if_list, network, said>>

Lookup ==
    /\ handling /\ Step
    /\ UNCHANGED <<setup, pc, if_list, handling, reader, network, said>>

\* The packet leaves by the interface of the row found, which must exist.
ForwardFound ==
    /\ handling /\ Done
    /\ handling' = FALSE
    /\ pc' = IF entry # 0 /\ routing_table[entry].interface \notin Names THEN "aborted" ELSE pc
    /\ UNCHANGED <<table, setup, if_list, reader, network, said>>

-----------------------------------------------------------------------------
(* The server.                                                             *)

UnitsOf(m) == [i \in 1 .. LenUnits + Body(m) |-> [id |-> sent + 1, at |-> i, msg |-> m]]

\* It challenges, judges the reply, and serves what was opened; it may say anything
\* else it has to say, or close, at any time.
Send(m) ==
    /\ conn = "up" /\ sent < MaxMessages
    /\ pc \notin {"load", "connect"} /\ ~ Over
    /\ m.type = "auth_request" => sent = 0
    /\ m.type = "auth_status" => "auth_reply" \in said /\ auth = "none"
    /\ m.type \in {"rtable", "hwinfo", "packet"} => "open" \in said
    /\ wire' = wire \o UnitsOf(m) /\ sent' = sent + 1
    /\ auth' = IF m.type # "auth_status" THEN auth ELSE IF m.auth_ok THEN "ok" ELSE "refused"
    /\ conn' = IF m.type = "close" THEN "ended" ELSE "up"
    /\ UNCHANGED <<table, setup, pc, if_list, handling, reader, said>>

\* The server is gone, perhaps in the middle of a message.
Drop ==
    /\ conn = "up" /\ sent < MaxMessages
    /\ pc \notin {"load", "connect"} /\ ~ Over
    /\ conn' \in {"ended", "reset"}
    /\ LET u == UnitsOf([type |-> "banner"]) IN
       \E n \in 0 .. Len(u) - 1 : wire' = wire \o SubSeq(u, 1, n)
    /\ UNCHANGED <<table, setup, pc, if_list, handling, reader, sent, auth, said>>

Server == Drop \/ \E m \in Messages : Send(m)

Router ==
    \/ LoadLine \/ LoadEnds \/ SetupFails \/ Connect \/ SendOpen \/ SrInit
    \/ Recv \/ RecvFails \/ Discard
    \/ HandleAuthRequest \/ HandleAuthStatus \/ HandleRtable \/ HandleHwInfo
    \/ HandlePacket \/ Lookup \/ ForwardFound

SessionNext == Router \/ Server

\* The program runs; the server owes it nothing.
SessionSpec == SessionInit /\ [][SessionNext]_session_vars /\ WF_session_vars(Router)

-----------------------------------------------------------------------------

Units == [id : 1 .. MaxMessages + 1, at : 1 .. LenUnits + 2, msg : Messages]

\* The types of struct sr_instance and of what is read and sent.
SessionTypeOK ==
    /\ TypeOK
    /\ template \in BOOLEAN /\ vrhost \in BOOLEAN /\ clear \in BOOLEAN /\ written \in BOOLEAN
    /\ pc \in {"load", "connect", "auth_request", "auth_status", "open", "rtable",
               "reload", "init", "run", "ended", "aborted"}
    /\ origin \in {"none", "local", "server"}
    /\ Range(if_list) \subseteq [name : Interfaces, addr : {NoAddr} \cup Addr,
                                 ip : {NoAddr} \cup Addr]
    /\ handling \in BOOLEAN
    /\ Range(buf) \subseteq Units /\ Range(wire) \subseteq Units
    /\ Len(buf) <= LenUnits + 2
    /\ sent \in 0 .. MaxMessages /\ handled \in 0 .. sent
    /\ conn \in {"up", "ended", "reset"} /\ auth \in {"none", "ok", "refused"}
    /\ said \subseteq {"auth_reply", "open"}

\* sr_read_from_server_expect finds the bounds of the messages however the stream
\* is split: what it has read is the beginning of the next message, and nothing
\* that was sent is skipped.
Framed ==
    /\ \A i \in DOMAIN buf : buf[i].id = handled + 1 /\ buf[i].at = i
    /\ wire # <<>> => LET u == wire[1] IN
          IF buf = <<>> THEN u.id = handled + 1 /\ u.at = 1
          ELSE IF Wanted = 0 THEN u.id = handled + 2 /\ u.at = 1
          ELSE u.id = handled + 1 /\ u.at = Len(buf) + 1

\* A packet reaches sr_forward_packet only in the main loop, after sr_init, when the
\* server has admitted the router, and every interface the routing table names
\* exists, so that its assertion cannot fail.
ForwardsWhenReady ==
    handling =>
        /\ pc = "run" /\ auth = "ok"
        /\ \A r \in DOMAIN routing_table : routing_table[r].interface \in Names

\* Every interface has the addresses the server announced for it: those of an entry
\* go to the last interface of the list (sr_set_ether_addr, sr_set_ether_ip).
AddressesAsAnnounced ==
    \A i \in DOMAIN if_list :
        LET f == if_list[i] IN f.ip \in {NoAddr, IpOf[f.name]} /\ f.addr \in {NoAddr, EtherOf[f.name]}

\* sr_connect_to_server asks for a topology only after the server accepted the reply.
OpensWhenAdmitted == "open" \in said => auth = "ok"

\* "we've recv'd the rtable now, so read it in" (sr_main.c): with a template and
\* rtable.vrhost, packets are routed by the table the server sent.
RunsServersTable ==
    pc = "run" /\ template /\ vrhost /\ routing_table # <<>> => origin = "server"

\* Whatever recv returns, and whatever the router is doing, what the server sent is
\* read and handled, or the program is over: a close therefore ends it.
EveryMessageHandled == []<>(handled = sent \/ Over)

\* What main and the reader do with the table is what RoutingTable allows.
TableSpec == Spec
=============================================================================
