------------------------- MODULE RouterSessionProofs -------------------------
(***************************************************************************)
(* What the session guarantees for every table, every network and any way  *)
(* recv splits the stream: the router opens a topology when it has been    *)
(* admitted, forwards when its table fits its interfaces, and what it does *)
(* to the table is what RoutingTable allows, whose theorems it inherits.   *)
(* Those come first: the lookup returns the longest match for every table  *)
(* and every address, by the invariant of the loop of sr_rt_lookup_ip.     *)
(***************************************************************************)
EXTENDS RouterSession, FiniteSetTheorems, SequenceTheorems, WellFoundedInduction,
        TLAPS

\* The length of a mask is a number, and 0 only for the empty mask.
LEMMA MaskLength ==
    ASSUME NEW r \in Routes
    PROVE  Cardinality(r.mask) \in Nat /\ (Cardinality(r.mask) = 0 <=> r.mask = {})
<1>1. r.mask \subseteq Bits
  BY DEF Routes, Addr
<1>2. IsFiniteSet(r.mask)
  BY <1>1, RoutingTableAssumption, FS_Subset
<1> QED
  BY <1>2, FS_CardinalityType, FS_EmptySet

\* The row the loop is at is a row of the table.
LEMMA RowAt == ASSUME TypeOK, ~ Done PROVE routing_table[rt_walker] \in Routes /\ rt_walker \in 1 .. Len(routing_table)
  BY DEF TypeOK, Done

\* TypeOK is an invariant of the table and its lookup.
THEOREM TableTypes == Spec => []TypeOK
<1>1. Init => TypeOK
  BY DEF Init, TypeOK, Addr
<1>2. TypeOK /\ [Next]_vars => TypeOK'
  <2> SUFFICES ASSUME TypeOK, [Next]_vars PROVE TypeOK'
    OBVIOUS
  <2>1. CASE Step
    <3>1. routing_table[rt_walker] \in Routes /\ rt_walker \in 1 .. Len(routing_table)
      BY <2>1, RowAt DEF Step
    <3>2. routing_table' = routing_table /\ ip' = ip /\ rt_walker' = rt_walker + 1
      BY <2>1 DEF Step
    <3>3. \/ entry' = entry /\ match_bits' = match_bits
          \/ entry' = rt_walker /\ match_bits' = Cardinality(routing_table[rt_walker].mask)
      BY <2>1 DEF Step
    <3> QED
      BY <3>1, <3>2, <3>3 DEF TypeOK
  <2>2. ASSUME NEW r \in Routes, FirstEntry(r) \/ AddEntry(r) PROVE TypeOK'
    <3>1. CASE FirstEntry(r)
      <4>1. routing_table' = <<r>> /\ rt_walker = 1 /\ entry = 0 /\ match_bits = 0
        BY <3>1 DEF FirstEntry, TypeOK
      <4> QED
        BY <3>1, <4>1 DEF FirstEntry, TypeOK
    <3>2. CASE AddEntry(r)
      BY <3>2 DEF AddEntry, TypeOK
    <3> QED
      BY <2>2, <3>1, <3>2
  <2>3. ASSUME NEW a \in Addr, BeginLookup(a) PROVE TypeOK'
    BY <2>3 DEF BeginLookup, TypeOK
  <2>4. CASE UNCHANGED vars
    BY <2>4 DEF TypeOK, vars
  <2> QED
    BY <2>1, <2>2, <2>3, <2>4 DEF Next
<1> QED
  BY <1>1, <1>2, PTL DEF Spec

\* sr_rt_lookup_ip returns the longest match, for every table.
THEOREM LongestMatchFound == Spec => []LongestMatch
<1>1. Init => LongestMatch
  BY DEF Init, LongestMatch
<1>2. TypeOK /\ LongestMatch /\ [Next]_vars => LongestMatch'
  <2> SUFFICES ASSUME TypeOK, LongestMatch, [Next]_vars PROVE LongestMatch'
    OBVIOUS
  <2>1. CASE Step
    <3> DEFINE w == rt_walker
               row == routing_table[w]
    <3>1. row \in Routes /\ w \in 1 .. Len(routing_table)
      BY <2>1, RowAt DEF Step
    <3>2. routing_table' = routing_table /\ ip' = ip /\ rt_walker' = w + 1
      BY <2>1 DEF Step
    <3>3. \A q \in 1 .. w : routing_table[q] \in Routes
      BY <3>1 DEF TypeOK
    <3>4. \A q \in 1 .. w : /\ Cardinality(routing_table[q].mask) \in Nat
                            /\ Cardinality(routing_table[q].mask) = 0 <=> routing_table[q].mask = {}
      BY <3>3, MaskLength
    <3>5. CASE Matches(row, ip) /\ match_bits < Cardinality(row.mask)
      <4>1. entry' = w
        BY <2>1, <3>5 DEF Step
      <4>2. match_bits \in Nat
        BY <3>1, <3>4 DEF TypeOK
      <4>3. row.mask # {}
        BY <3>1, <3>4, <3>5, <4>2
      <4>4. ASSUME NEW q \in 1 .. w - 1, Matches(routing_table[q], ip)
            PROVE  Cardinality(routing_table[q].mask) < Cardinality(row.mask)
        <5>1. q \in 1 .. w /\ w \in 1 .. w /\ w \in Nat
          BY <3>1
        <5>2. Cardinality(routing_table[q].mask) <= match_bits
          <6>1. CASE entry = 0
            BY <3>1, <3>4, <4>2, <4>4, <5>1, <6>1 DEF TypeOK, LongestMatch
          <6>2. CASE entry # 0
            <7>1. /\ entry \in 1 .. w /\ Best(entry, w - 1, ip)
                  /\ match_bits = Cardinality(routing_table[entry].mask)
              BY <3>1, <6>2 DEF TypeOK, LongestMatch
            <7>2. /\ Cardinality(routing_table[q].mask) \in Nat
                  /\ Cardinality(routing_table[entry].mask) \in Nat
              BY <3>4, <5>1, <7>1
            <7> QED
              BY <4>4, <7>1, <7>2 DEF Best
          <6> QED
            BY <6>1, <6>2
        <5> QED
          BY <3>4, <3>5, <4>2, <5>1, <5>2
      <4>5. Best(w, w, ip)
        BY <3>1, <3>4, <3>5, <4>4 DEF Best
      <4> QED
        BY <3>1, <3>2, <4>1, <4>3, <4>5 DEF LongestMatch, Best, Matches
    <3>6. CASE ~ (Matches(row, ip) /\ match_bits < Cardinality(row.mask))
      <4>1. entry' = entry
        BY <2>1, <3>6 DEF Step
      <4>2. w \in Nat /\ entry \in 0 .. w - 1 /\ match_bits \in Nat
        BY <3>1, <3>4 DEF TypeOK
      <4>3. CASE entry = 0
        <5>1. match_bits = 0
          BY <4>3 DEF TypeOK
        <5>2. Matches(row, ip) => row.mask = {}
          BY <3>1, <3>4, <3>6, <5>1
        <5>3. \A q \in 1 .. w - 1 : Matches(routing_table[q], ip) => routing_table[q].mask = {}
          BY <4>3 DEF LongestMatch
        <5>4. \A q \in 1 .. w : Matches(routing_table[q], ip) => routing_table[q].mask = {}
          BY <4>2, <5>2, <5>3
        <5> QED
          BY <3>2, <4>1, <4>2, <4>3, <5>4 DEF LongestMatch, Matches
      <4>4. CASE entry # 0
        <5>1. match_bits = Cardinality(routing_table[entry].mask)
          BY <4>4 DEF TypeOK
        <5>2. routing_table[entry].mask # {} /\ Best(entry, w - 1, ip)
          BY <4>2, <4>4 DEF LongestMatch
        <5>3. Matches(row, ip) => Cardinality(row.mask) <= Cardinality(routing_table[entry].mask)
          BY <3>1, <3>4, <3>6, <4>2, <5>1
        <5>4. Best(entry, w, ip)
          BY <4>2, <4>4, <5>2, <5>3 DEF Best
        <5> QED
          BY <3>2, <4>1, <4>2, <4>4, <5>2, <5>4 DEF LongestMatch, Best, Matches
      <4> QED
        BY <4>3, <4>4
    <3> QED
      BY <3>5, <3>6
  <2>2. ASSUME NEW r \in Routes, FirstEntry(r) \/ AddEntry(r) PROVE LongestMatch'
    <3>1. rt_walker' = 1 /\ entry' = entry /\ entry = 0
      BY <2>2 DEF FirstEntry, AddEntry, TypeOK
    <3> QED
      BY <3>1 DEF LongestMatch
  <2>3. ASSUME NEW a \in Addr, BeginLookup(a) PROVE LongestMatch'
    BY <2>3 DEF BeginLookup, LongestMatch
  <2>4. CASE UNCHANGED vars
    BY <2>4 DEF LongestMatch, Best, Matches, vars
  <2> QED
    BY <2>1, <2>2, <2>3, <2>4 DEF Next
<1> QED
  BY <1>1, <1>2, TableTypes, PTL DEF Spec

-----------------------------------------------------------------------------

\* The units of the stream, and what one that carries the server's decision says.
Things == [id : Nat, at : Nat, msg : Messages]
Honest(u, a) == u.msg.type = "auth_status" => a # "none" /\ (u.msg.auth_ok => a = "ok")

Stream ==
    /\ wire \in Seq(Things) /\ buf \in Seq(Things) /\ sent \in Nat
    /\ \A i \in 1 .. Len(wire) : Honest(wire[i], auth)
    /\ \A i \in 1 .. Len(buf) : Honest(buf[i], auth)

\* After the handshake the router is admitted.
Admitted ==
    /\ pc \in {"open", "rtable", "reload", "init", "run"} => auth = "ok"
    /\ "open" \in said => auth = "ok"

\* In the main loop interfaces come with a table that names no others.
Ready ==
    /\ if_list # <<>> => pc \in {"run", "ended", "aborted"}
    /\ pc = "run" /\ if_list # <<>> =>
          \A r \in DOMAIN routing_table : routing_table[r].interface \in Names
    /\ handling => pc = "run" /\ if_list # <<>>

\* With a template nothing is loaded before the server's table is written.
FromServer ==
    /\ template => pc # "load"
    /\ template /\ pc \in {"reload", "init", "run"} => written
    /\ template /\ vrhost /\ routing_table # <<>> => origin = "server"

\* The units a message is sent in.
Size(m) == LenUnits + Body(m)

\* What a stream S of which n messages were sent looks like: where a message begins
\* its units follow one another, the next message begins behind them, and only
\* the last one may be incomplete, when the server is gone.
Chained(S, c, n) ==
    \A i \in 1 .. Len(S) : S[i].at = 1 =>
        LET e == i + Size(S[i].msg) IN
        /\ \A j \in i .. e - 1 : j <= Len(S) =>
              S[j].id = S[i].id /\ S[j].at = j - i + 1 /\ S[j].msg = S[i].msg
        /\ e <= Len(S) => S[e].at = 1 /\ S[e].id = S[i].id + 1
        /\ e - 1 = Len(S) => S[i].id = n
        /\ e - 1 <= Len(S) => S[i].id <= n
        /\ e - 1 > Len(S) => c # "up" /\ S[i].id = n + 1

\* Where S begins, after h messages were handled.
Heads(S, h, n) ==
    IF S = <<>> THEN h = n ELSE S[1].at = 1 /\ S[1].id = h + 1

\* What was read and what is on its way are one stream, of which the router holds
\* no more than the first message.
FrameInv ==
    /\ handled \in Nat
    /\ Chained(buf \o wire, conn, sent)
    /\ Heads(buf \o wire, handled, sent)
    /\ buf # <<>> => Len(buf) <= Size(buf[1].msg)

SessionInv == Stream /\ Admitted /\ Ready /\ FromServer /\ FrameInv

-----------------------------------------------------------------------------

\* The two parts of a sequence.
LEMMA Parts ==
    ASSUME NEW S, NEW s \in Seq(S), NEW n \in 0 .. Len(s)
    PROVE  /\ SubSeq(s, 1, n) \in Seq(S) /\ Len(SubSeq(s, 1, n)) = n
           /\ \A i \in 1 .. n : SubSeq(s, 1, n)[i] = s[i]
           /\ SubSeq(s, n + 1, Len(s)) \in Seq(S) /\ Len(SubSeq(s, n + 1, Len(s))) = Len(s) - n
           /\ \A i \in 1 .. Len(s) - n : SubSeq(s, n + 1, Len(s))[i] = s[n + i]
OBVIOUS

\* A message as the units it is sent in.
LEMMA UnitsTyped ==
    ASSUME NEW m \in Messages, sent \in Nat
    PROVE  /\ UnitsOf(m) \in Seq(Things)
           /\ \A i \in 1 .. Len(UnitsOf(m)) : UnitsOf(m)[i].msg = m
<1>1. LenUnits + Body(m) \in Nat
  BY DEF LenUnits, Body
<1>2. \A i \in 1 .. LenUnits + Body(m) : [id |-> sent + 1, at |-> i, msg |-> m] \in Things
  BY <1>1 DEF Things
<1> DEFINE k == LenUnits + Body(m)
<1>3. k \in Nat
  BY <1>1
<1> HIDE DEF k
<1> QED BY <1>2, <1>3 DEF UnitsOf, k

\* At the start nothing was read and nothing loaded.
LEMMA SessionStart == SessionInit => SessionInv
<1> SUFFICES ASSUME SessionInit PROVE SessionInv
  OBVIOUS
<1>1. Stream
  BY DEF SessionInit, Stream
<1>2. Admitted /\ Ready
  BY DEF SessionInit, Admitted, Ready
<1>3. FromServer
  BY DEF SessionInit, Init, FromServer
<1>4. FrameInv
  BY DEF SessionInit, FrameInv, Chained, Heads
<1> QED BY <1>1, <1>2, <1>3, <1>4 DEF SessionInv

\* What is sent joins the stream, and is as honest as the server.
LEMMA StreamSend == ASSUME Stream, NEW m \in Messages, Send(m) PROVE Stream'
<1>1. PICK v : v = UnitsOf(m)
  OBVIOUS
<1>2. /\ v \in Seq(Things) /\ \A i \in 1 .. Len(v) : v[i].msg = m
      /\ wire' = wire \o v /\ sent' = sent + 1 /\ buf' = buf
  BY <1>1, UnitsTyped DEF Stream, Send, reader
<1>3. m.type = "auth_status" => auth = "none" /\ auth' # "none" /\ (m.auth_ok => auth' = "ok")
  BY DEF Send
<1>4. m.type # "auth_status" => auth' = auth
  BY DEF Send
<1>5. \A u \in Things : Honest(u, auth) => Honest(u, auth')
  BY <1>3, <1>4 DEF Honest
<1>6. \A i \in 1 .. Len(v) : Honest(v[i], auth')
  BY <1>2, <1>3, <1>4 DEF Honest
<1>7. wire' \in Seq(Things) /\ buf' \in Seq(Things) /\ sent' \in Nat
  BY <1>2 DEF Stream
<1>8. \A i \in 1 .. Len(wire') : Honest(wire'[i], auth')
  <2>1. ASSUME NEW i \in 1 .. Len(wire) PROVE wire'[i] = wire[i] /\ wire[i] \in Things /\ Honest(wire[i], auth)
    BY <1>2 DEF Stream
  <2>2. ASSUME NEW i \in 1 .. Len(wire'), i \notin 1 .. Len(wire)
        PROVE  wire'[i] = v[i - Len(wire)] /\ i - Len(wire) \in 1 .. Len(v)
    BY <1>2, <2>2 DEF Stream
  <2> QED BY <1>5, <1>6, <2>1, <2>2
<1>9. \A i \in 1 .. Len(buf') : Honest(buf'[i], auth')
  <2>1. \A i \in 1 .. Len(buf) : buf[i] \in Things /\ Honest(buf[i], auth)
    BY DEF Stream
  <2> QED BY <1>2, <1>5, <2>1
<1> QED BY <1>7, <1>8, <1>9 DEF Stream

\* What the server sends before it is gone is the beginning of a message.
LEMMA StreamDrop == ASSUME Stream, Drop PROVE Stream'
<1> DEFINE m == [type |-> "banner"]
<1>1. m \in Messages
  BY DEF Messages, Plain
<1>2. PICK u : u = UnitsOf(m)
  OBVIOUS
<1>3. u \in Seq(Things) /\ \A i \in 1 .. Len(u) : u[i].msg = m
  BY <1>1, <1>2, UnitsTyped DEF Stream
<1>4. PICK n \in 0 .. Len(u) - 1 : wire' = wire \o SubSeq(u, 1, n)
  BY <1>2 DEF Drop
<1>5. UNCHANGED <<buf, sent, auth>>
  BY DEF Drop, reader
<1>6. PICK v : v = SubSeq(u, 1, n)
  OBVIOUS
<1>7. v \in Seq(Things) /\ \A i \in 1 .. Len(v) : v[i].msg.type = "banner"
  <2>1. n \in 0 .. Len(u)
    BY <1>3, <1>4
  <2>2. v \in Seq(Things) /\ Len(v) = n /\ \A i \in 1 .. n : v[i] = u[i]
    BY <1>3, <1>6, <2>1, Parts
  <2> QED BY <1>3, <2>1, <2>2
<1>8. wire' \in Seq(Things)
  BY <1>4, <1>6, <1>7 DEF Stream
<1>9. \A i \in 1 .. Len(wire') : Honest(wire'[i], auth')
  <2>1. ASSUME NEW i \in 1 .. Len(wire) PROVE wire'[i] = wire[i] /\ Honest(wire[i], auth)
    BY <1>4, <1>6, <1>7 DEF Stream
  <2>2. ASSUME NEW i \in 1 .. Len(wire'), i \notin 1 .. Len(wire)
        PROVE  wire'[i] = v[i - Len(wire)] /\ i - Len(wire) \in 1 .. Len(v)
    BY <1>4, <1>6, <1>7, <2>2 DEF Stream
  <2>3. \A i \in 1 .. Len(v) : Honest(v[i], auth')
    BY <1>7 DEF Honest
  <2> QED BY <1>5, <2>1, <2>2, <2>3
<1> QED BY <1>5, <1>8, <1>9 DEF Stream

\* The router reads a part of the stream.
LEMMA StreamRecv == ASSUME Stream, Recv PROVE Stream'
<1>1. UNCHANGED <<sent, auth>>
  BY DEF Recv
<1>2. PICK n \in 1 .. Wanted :
         /\ n <= Len(wire)
         /\ buf' = buf \o SubSeq(wire, 1, n)
         /\ wire' = SubSeq(wire, n + 1, Len(wire))
  BY DEF Recv
<1>3. n \in 0 .. Len(wire)
  <2>1. Len(wire) \in Nat
    BY DEF Stream
  <2> QED BY <1>2, <2>1
<1>4. PICK v : v = SubSeq(wire, 1, n)
  OBVIOUS
<1>5. /\ v \in Seq(Things) /\ Len(v) = n /\ \A i \in 1 .. n : v[i] = wire[i]
      /\ wire' \in Seq(Things) /\ Len(wire') = Len(wire) - n
      /\ \A i \in 1 .. Len(wire) - n : wire'[i] = wire[n + i]
  BY <1>2, <1>3, <1>4, Parts DEF Stream
<1>6. \A i \in 1 .. Len(v) : Honest(v[i], auth)
  <2>1. \A i \in 1 .. n : i \in 1 .. Len(wire)
    BY <1>3 DEF Stream
  <2> QED BY <1>5, <2>1 DEF Stream
<1>7. \A i \in 1 .. Len(wire') : Honest(wire'[i], auth)
  BY <1>3, <1>5 DEF Stream
<1>8. buf' \in Seq(Things)
  BY <1>2, <1>4, <1>5 DEF Stream
<1>9. \A i \in 1 .. Len(buf') : Honest(buf'[i], auth)
  <2>1. ASSUME NEW i \in 1 .. Len(buf) PROVE buf'[i] = buf[i] /\ Honest(buf[i], auth)
    BY <1>2, <1>4, <1>5 DEF Stream
  <2>2. ASSUME NEW i \in 1 .. Len(buf'), i \notin 1 .. Len(buf)
        PROVE  buf'[i] = v[i - Len(buf)] /\ i - Len(buf) \in 1 .. Len(v)
    BY <1>2, <1>4, <1>5, <2>2 DEF Stream
  <2> QED BY <1>6, <2>1, <2>2
<1> QED BY <1>1, <1>5, <1>7, <1>8, <1>9 DEF Stream

\* The other steps read nothing new; what was read may be finished with.
LEMMA StreamKept ==
    ASSUME Stream, UNCHANGED <<wire, sent, auth>>, buf' = buf \/ buf' = <<>>
    PROVE  Stream'
<1>1. CASE buf' = buf
  BY <1>1 DEF Stream
<1>2. CASE buf' = <<>>
  BY <1>2 DEF Stream
<1> QED BY <1>1, <1>2

\* A message that was read to the end is one the server sent.
LEMMA MessageRead ==
    ASSUME Stream, Complete
    PROVE  Msg \in Messages /\ (Msg.type = "auth_status" /\ Msg.auth_ok => auth = "ok")
<1>1. Len(buf) \in Nat /\ Len(buf) >= LenUnits
  BY DEF Stream, Complete, Wanted, LenUnits
<1>2. buf[1] \in Things /\ Honest(buf[1], auth)
  BY <1>1 DEF Stream, LenUnits
<1> QED BY <1>2 DEF Things, Honest, Msg

-----------------------------------------------------------------------------

\* Where main goes after a message that was expected, or was not.
LEMMA Course ==
    ASSUME Complete, Accepts, Succeeds
    PROVE  \/ pc = "auth_request" /\ pc' = "auth_status" /\ Msg.type \in {"auth_request", "close"}
           \/ pc = "auth_status" /\ pc' = "open" /\ Msg.type \in {"auth_status", "close"}
           \/ pc = "rtable" /\ pc' = "reload" /\ Msg.type \in {"rtable", "close"}
           \/ pc = "run" /\ pc' = "run"
BY DEF Complete, Reading, Accepts, Succeeds

\* Only a status that accepts the router leads past the handshake.
LEMMA StepAdmitted == ASSUME Stream, Admitted, [SessionNext]_session_vars PROVE Admitted'
<1>1. ASSUME NEW m \in Messages, Send(m) PROVE Admitted'
  BY <1>1 DEF Send, setup, Admitted
<1>2. CASE Drop \/ Recv
  BY <1>2 DEF Drop, Recv, setup, Admitted
<1>3. CASE LoadLine \/ LoadEnds \/ SetupFails \/ Connect \/ SrInit \/ RecvFails
  BY <1>3 DEF LoadLine, LoadEnds, SetupFails, Connect, SrInit, RecvFails, network, Admitted
<1>4. CASE Discard
  BY <1>4, Course DEF Discard, Fails, network, Admitted
<1>5. CASE HandleAuthRequest
  BY <1>5, Course DEF HandleAuthRequest, Fails, network, Admitted
<1>6. CASE HandleAuthStatus
  BY <1>6, Course, MessageRead DEF HandleAuthStatus, Fails, network, Admitted
<1>7. CASE SendOpen
  BY <1>7 DEF SendOpen, network, Admitted
<1>8. CASE HandleRtable
  BY <1>8, Course DEF HandleRtable, Fails, network, Admitted
<1>9. CASE HandleHwInfo
  BY <1>9, Course DEF HandleHwInfo, Fails, network, Admitted
<1>10. CASE HandlePacket
  BY <1>10, Course DEF HandlePacket, network, Admitted
<1>11. CASE Lookup \/ ForwardFound
  BY <1>11 DEF Lookup, ForwardFound, network, Admitted
<1>12. CASE UNCHANGED session_vars
  BY <1>12 DEF session_vars, network, Admitted
<1> QED
  BY <1>1, <1>2, <1>3, <1>4, <1>5, <1>6, <1>7, <1>8, <1>9, <1>10, <1>11, <1>12
     DEF SessionNext, Router, Server

\* A step that reads no hardware description and loads no row keeps what is ready.
LEMMA ReadyKept ==
    ASSUME Ready, UNCHANGED <<if_list, routing_table>>,
           pc' = pc \/ pc' \in {"ended", "aborted"} \/ (pc # "run" /\ if_list = <<>>),
           handling' => pc' = "run" /\ if_list # <<>>
    PROVE  Ready'
BY DEF Ready, Names

\* A hardware description is checked against the table before the loop goes on.
LEMMA StepReady == ASSUME Ready, [SessionNext]_session_vars PROVE Ready'
<1>1. pc \in {"run", "ended", "aborted"} \/ if_list = <<>>
  BY DEF Ready
<1>2. ASSUME NEW m \in Messages, Send(m) PROVE Ready'
  BY <1>2 DEF Send, setup, table, Ready, Names
<1>3. CASE Drop \/ Recv
  BY <1>3 DEF Drop, Recv, setup, table, Ready, Names
<1>4. CASE LoadLine \/ LoadEnds \/ SetupFails \/ Connect \/ SrInit \/ SendOpen
  <2>1. if_list = <<>> /\ if_list' = if_list /\ ~ handling /\ ~ handling'
    BY <1>1, <1>4 DEF LoadLine, LoadEnds, SetupFails, Connect, SrInit, SendOpen, Ready
  <2> QED BY <2>1 DEF Ready
<1>5. CASE RecvFails
  BY <1>5, ReadyKept DEF RecvFails, setup, table, Reading
<1>6. CASE Discard \/ HandleAuthRequest \/ HandleAuthStatus \/ HandleRtable
  <2>1. UNCHANGED <<if_list, routing_table>> /\ ~ handling'
    BY <1>6 DEF Discard, HandleAuthRequest, HandleAuthStatus, HandleRtable, setup, table,
                Complete, Reading
  <2>2. pc' = "ended" \/ pc' = pc \/ (pc # "run" /\ if_list = <<>>)
    BY <1>1, <1>6, Course DEF Discard, HandleAuthRequest, HandleAuthStatus, HandleRtable, Fails
  <2> QED BY <2>1, <2>2, ReadyKept
<1>7. CASE HandleHwInfo
  <2>1. ~ handling' /\ routing_table' = routing_table /\ pc = "run"
    BY <1>7, Course DEF HandleHwInfo, table, Complete, Reading, Accepts
  <2>2. pc' = "ended" \/ (pc' = "run" /\ Verified(if_list'))
    BY <1>7, Course DEF HandleHwInfo, Fails
  <2> QED BY <2>1, <2>2 DEF Ready, Verified, Names
<1>8. CASE HandlePacket
  <2>1. if_list' = if_list /\ routing_table' = routing_table /\ pc = "run" /\ ~ handling
    BY <1>8, Course, MessageRead
       DEF HandlePacket, table, BeginLookup, Complete, Reading, Accepts
  <2>2. (pc' = "aborted" /\ handling' = handling) \/ (pc' = "run" /\ Msg.interface \in Names)
    BY <1>8, <2>1, Course DEF HandlePacket
  <2>3. Names # {} => if_list # <<>>
    BY DEF Names
  <2> QED BY <2>1, <2>2, <2>3, ReadyKept
<1>9. CASE Lookup
  BY <1>9 DEF Lookup, Step, Ready, Names
<1>10. CASE ForwardFound
  BY <1>10 DEF ForwardFound, table, Ready, Names
<1>11. CASE UNCHANGED session_vars
  BY <1>11 DEF session_vars, table, Ready, Names
<1> QED
  BY <1>2, <1>3, <1>4, <1>5, <1>6, <1>7, <1>8, <1>9, <1>10, <1>11 DEF SessionNext, Router, Server

\* The table of a template is read after it was written.
LEMMA StepFromServer == ASSUME FromServer, [SessionNext]_session_vars PROVE FromServer'
<1>1. ASSUME NEW m \in Messages, Send(m) PROVE FromServer'
  BY <1>1 DEF Send, setup, table, FromServer
<1>2. CASE Drop \/ Recv \/ SetupFails \/ Connect \/ SrInit \/ RecvFails \/ SendOpen
  BY <1>2 DEF Drop, Recv, SetupFails, Connect, SrInit, RecvFails, SendOpen, setup, table, FromServer
<1>3. CASE LoadLine
  BY <1>3 DEF LoadLine, FirstEntry, AddEntry, FromServer
<1>4. CASE LoadEnds
  BY <1>4 DEF LoadEnds, table, FromServer
<1>5. CASE Discard \/ HandleAuthRequest \/ HandleAuthStatus \/ HandleHwInfo
  BY <1>5, Course DEF Discard, HandleAuthRequest, HandleAuthStatus, HandleHwInfo, Fails, setup, table, FromServer
<1>6. CASE HandleRtable
  BY <1>6, Course DEF HandleRtable, Fails, table, FromServer
<1>7. CASE HandlePacket
  BY <1>7, Course DEF HandlePacket, BeginLookup, setup, table, FromServer
<1>8. CASE Lookup \/ ForwardFound
  BY <1>8 DEF Lookup, Step, ForwardFound, setup, table, FromServer
<1>9. CASE UNCHANGED session_vars
  BY <1>9 DEF session_vars, setup, table, FromServer
<1> QED
  BY <1>1, <1>2, <1>3, <1>4, <1>5, <1>6, <1>7, <1>8, <1>9 DEF SessionNext, Router, Server

\* Every step keeps the stream, and what is known of it.
LEMMA StepStream == ASSUME Stream, [SessionNext]_session_vars PROVE Stream'
<1>1. ASSUME NEW m \in Messages, Send(m) PROVE Stream'
  BY <1>1, StreamSend
<1>2. CASE Drop
  BY <1>2, StreamDrop
<1>3. CASE Recv
  BY <1>3, StreamRecv
<1>4. CASE LoadLine \/ LoadEnds \/ SetupFails \/ Connect \/ SrInit \/ SendOpen \/ RecvFails
           \/ Lookup \/ ForwardFound \/ UNCHANGED session_vars
  BY <1>4, StreamKept DEF LoadLine, LoadEnds, SetupFails, Connect, SrInit, SendOpen, RecvFails, Lookup,
                          ForwardFound, session_vars, reader, network
<1>5. CASE Discard \/ HandleAuthRequest \/ HandleAuthStatus \/ HandleRtable \/ HandleHwInfo \/ HandlePacket
  BY <1>5, StreamKept DEF Discard, HandleAuthRequest, HandleAuthStatus, HandleRtable, HandleHwInfo,
                          HandlePacket, Succeeds, Fails, Finished, network
<1> QED
  BY <1>1, <1>2, <1>3, <1>4, <1>5 DEF SessionNext, Router, Server

-----------------------------------------------------------------------------

\* Bodies are shorter than two units, and every message has a length field.
LEMMA SizeRange == ASSUME NEW m PROVE Size(m) \in 2 .. 4
  BY DEF Size, LenUnits, Body

\* What the reader asks for: the length, then the rest of the message.
LEMMA WantedIs ==
    ASSUME NEW k \in Nat, Len(buf) = k
    PROVE  /\ k < 2 => Wanted = 2 - k
           /\ k >= 2 => Wanted = Size(buf[1].msg) - k
           /\ Wanted = 0 <=> k = Size(buf[1].msg)
<1>1. k < 2 => Wanted = 2 - k
  BY DEF Wanted, LenUnits
<1>2. k >= 2 => Wanted = Size(buf[1].msg) - k
  <2> SUFFICES ASSUME k >= 2 PROVE Wanted = Size(buf[1].msg) - k
    OBVIOUS
  <2>1. ~ (k < LenUnits)
    BY DEF LenUnits
  <2>2. Wanted = LenUnits + Body(buf[1].msg) - k
    BY <2>1 DEF Wanted
  <2>3. Body(buf[1].msg) \in Nat
    BY DEF Body
  <2> QED BY <2>2, <2>3 DEF Size, LenUnits
<1>3. Size(buf[1].msg) \in 2 .. 4
  BY SizeRange
<1> HIDE DEF Wanted
<1> QED BY <1>1, <1>2, <1>3

\* What is appended to a stream that is whole is the next message, or the beginning of
\* it when the server is gone.
LEMMA ChainAppend ==
    ASSUME NEW s \in Seq(Things), NEW n \in Nat, NEW h, Chained(s, "up", n), Heads(s, h, n),
           NEW u \in Seq(Things), NEW m \in Messages, NEW c, NEW l \in Nat,
           \A i \in 1 .. Len(u) : u[i].id = n + 1 /\ u[i].at = i /\ u[i].msg = m,
           \/ Len(u) = Size(m) /\ l = n + 1
           \/ Len(u) < Size(m) /\ l = n /\ c # "up"
    PROVE  Chained(s \o u, c, l) /\ Heads(s \o u, h, l)
<1> DEFINE t == s \o u
<1>1. /\ t \in Seq(Things) /\ Len(t) = Len(s) + Len(u) /\ Len(s) \in Nat /\ Len(u) \in Nat
      /\ \A i \in 1 .. Len(s) : t[i] = s[i]
      /\ \A i \in 1 .. Len(u) : t[Len(s) + i] = u[i]
  OBVIOUS
<1>2. Size(m) \in 2 .. 4 /\ \A i \in 1 .. Len(s) : Size(s[i].msg) \in 2 .. 4
  BY SizeRange
<1>3. \A i \in 1 .. Len(s) : s[i].id \in Nat
  <2>1. \A i \in 1 .. Len(s) : s[i] \in Things
    OBVIOUS
  <2> QED BY <2>1 DEF Things
<1> HIDE DEF t
<1>4. ASSUME NEW i \in 1 .. Len(t), t[i].at = 1, NEW e, e = i + Size(t[i].msg)
      PROVE  /\ \A j \in i .. e - 1 : j <= Len(t) =>
                   t[j].id = t[i].id /\ t[j].at = j - i + 1 /\ t[j].msg = t[i].msg
             /\ e <= Len(t) => t[e].at = 1 /\ t[e].id = t[i].id + 1
             /\ e - 1 = Len(t) => t[i].id = l
             /\ e - 1 <= Len(t) => t[i].id <= l
             /\ e - 1 > Len(t) => c # "up" /\ t[i].id = l + 1
  <2>1. CASE i \in 1 .. Len(s)
    <3>1. t[i] = s[i] /\ s[i].at = 1 /\ e = i + Size(s[i].msg) /\ e \in Nat
      <4>1. t[i] = s[i]
        BY <1>1, <2>1
      <4>2. PICK z \in 2 .. 4 : z = Size(s[i].msg)
        BY <1>2, <2>1
      <4>3. e = i + z
        BY <1>4, <4>1, <4>2
      <4>4. i + z \in Nat
        BY <2>1, <4>2
      <4> QED BY <1>4, <4>1, <4>2, <4>3, <4>4
    <3>2. /\ e - 1 <= Len(s) /\ s[i].id <= n
          /\ \A j \in i .. e - 1 : s[j].id = s[i].id /\ s[j].at = j - i + 1 /\ s[j].msg = s[i].msg
          /\ e <= Len(s) => s[e].at = 1 /\ s[e].id = s[i].id + 1
          /\ e - 1 = Len(s) => s[i].id = n
      <4>1. /\ \A j \in i .. e - 1 : j <= Len(s) =>
                  s[j].id = s[i].id /\ s[j].at = j - i + 1 /\ s[j].msg = s[i].msg
            /\ e <= Len(s) => s[e].at = 1 /\ s[e].id = s[i].id + 1
            /\ e - 1 = Len(s) => s[i].id = n
            /\ e - 1 <= Len(s) => s[i].id <= n
            /\ ~ (e - 1 > Len(s))
        BY <2>1, <3>1 DEF Chained
      <4>2. e - 1 <= Len(s) /\ \A j \in i .. e - 1 : j <= Len(s)
        BY <1>1, <2>1, <3>1, <4>1
      <4> QED BY <4>1, <4>2
    <3>3. \A j \in i .. e - 1 : j \in 1 .. Len(s) /\ t[j] = s[j]
      BY <1>1, <2>1, <3>1, <3>2
    <3>4. e <= Len(t) => t[e].at = 1 /\ t[e].id = t[i].id + 1
      <4>1. CASE e <= Len(s)
        <5>1. e \in 1 .. Len(s)
          BY <1>2, <2>1, <3>1, <4>1
        <5> QED BY <1>1, <3>1, <3>2, <4>1, <5>1
      <4>2. CASE e = Len(s) + 1 /\ e <= Len(t)
        <5>1. 1 \in 1 .. Len(u)
          BY <1>1, <4>2
        <5>2. t[e] = u[1]
          BY <1>1, <4>2, <5>1
        <5> QED BY <3>1, <3>2, <4>2, <5>1, <5>2, <1>1
      <4> QED BY <1>1, <3>1, <3>2, <4>1, <4>2
    <3>5. s[i].id <= l /\ (e - 1 = Len(t) => s[i].id = l)
      <4>1. s[i].id \in Nat
        BY <1>3, <2>1
      <4>2. Len(u) # 0 => l = n + 1 \/ Len(t) > Len(s)
        BY <1>1
      <4>3. Len(t) = Len(s) => l = n
        BY <1>1, <1>2
      <4>4. l = n \/ l = n + 1
        OBVIOUS
      <4>5. e - 1 = Len(t) => e - 1 = Len(s) /\ Len(t) = Len(s)
        BY <1>1, <3>1, <3>2
      <4> QED BY <3>2, <4>1, <4>3, <4>4, <4>5
    <3>6. ~ (e - 1 > Len(t))
      BY <1>1, <3>1, <3>2
    <3> QED BY <3>1, <3>2, <3>3, <3>4, <3>5, <3>6
  <2>2. CASE i \notin 1 .. Len(s)
    <3>1. PICK k \in 1 .. Len(u) : i = Len(s) + k
      <4>1. i - Len(s) \in 1 .. Len(u) /\ i = Len(s) + (i - Len(s))
        BY <1>1, <2>2
      <4> QED BY <4>1
    <3>2. t[i] = u[k] /\ u[k].id = n + 1 /\ u[k].at = k /\ u[k].msg = m
      BY <1>1, <3>1
    <3>3. k = 1 /\ i = Len(s) + 1 /\ e = Len(s) + 1 + Size(m)
      BY <1>4, <3>1, <3>2
    <3>4. \A j \in i .. e - 1 : j <= Len(t) => j - Len(s) \in 1 .. Len(u) /\ j = Len(s) + (j - Len(s))
      BY <1>1, <1>2, <3>3
    <3>5. ASSUME NEW j \in i .. e - 1, j <= Len(t)
          PROVE  t[j].id = t[i].id /\ t[j].at = j - i + 1 /\ t[j].msg = t[i].msg
      <4>1. j - Len(s) \in 1 .. Len(u) /\ j = Len(s) + (j - Len(s)) /\ j - Len(s) = j - i + 1
        BY <1>1, <3>3, <3>4, <3>5
      <4>2. t[j] = u[j - Len(s)]
        BY <1>1, <4>1
      <4> QED BY <3>2, <4>1, <4>2
    <3>6. e - 1 = Len(s) + Size(m) /\ e - 1 >= Len(t)
      <4>1. PICK z \in 2 .. 4 : z = Size(m)
        BY <1>2
      <4>2. Len(u) <= z
        BY <4>1
      <4> QED BY <1>1, <3>3, <4>1, <4>2
    <3>7. ~ (e <= Len(t))
      BY <1>1, <1>2, <3>3, <3>6
    <3>8. e - 1 = Len(t) => l = n + 1
      BY <1>1, <1>2, <3>3, <3>6
    <3>9. e - 1 > Len(t) => c # "up" /\ l = n
      BY <1>1, <1>2, <3>3, <3>6
    <3>10. e - 1 <= Len(t) => e - 1 = Len(t)
      BY <1>1, <1>2, <3>3, <3>6
    <3> QED BY <3>2, <3>5, <3>7, <3>8, <3>9, <3>10
  <2> QED BY <2>1, <2>2
<1>5. Chained(t, c, l)
  BY <1>4 DEF Chained
<1>6. Heads(t, h, l)
  <2>1. CASE s # <<>>
    <3>1. 1 \in 1 .. Len(s) /\ t # <<>>
      BY <1>1, <2>1
    <3> QED BY <1>1, <2>1, <3>1 DEF Heads
  <2>2. CASE s = <<>> /\ u # <<>>
    <3>1. 1 \in 1 .. Len(u) /\ Len(s) = 0 /\ h = n
      BY <2>2 DEF Heads
    <3>2. t[1] = u[1] /\ t # <<>>
      BY <1>1, <3>1
    <3> QED BY <3>1, <3>2 DEF Heads
  <2>3. CASE s = <<>> /\ u = <<>>
    <3>1. Len(s) = 0 /\ Len(u) = 0 /\ h = n
      BY <2>3 DEF Heads
    <3>2. t = <<>> /\ l = n
      BY <1>1, <1>2, <3>1
    <3> QED BY <3>1, <3>2 DEF Heads
  <2> QED BY <2>1, <2>2, <2>3
<1> QED BY <1>5, <1>6 DEF t

\* Places in a stream keep their order when it begins further on.
LEMMA Shifted ==
    ASSUME NEW a \in Int, NEW b \in Int, NEW k \in Int
    PROVE  (a = b => a + k = b + k) /\ (a <= b => a + k <= b + k) /\ (a > b => a + k > b + k)
OBVIOUS

\* When its first message is taken off, a stream begins with the next one.
LEMMA ChainRest ==
    ASSUME NEW s \in Seq(Things), NEW n \in Nat, NEW h \in Nat, NEW c, Chained(s, c, n), Heads(s, h, n),
           s # <<>>, NEW k, k = Size(s[1].msg), k <= Len(s),
           NEW r \in Seq(Things), Len(r) = Len(s) - k, \A i \in 1 .. Len(r) : r[i] = s[i + k]
    PROVE  Chained(r, c, n) /\ Heads(r, h + 1, n) /\ h + 1 <= n
<1>1. k \in 2 .. 4 /\ Len(s) \in Nat /\ 1 \in 1 .. Len(s) /\ Len(r) \in Nat
  BY SizeRange
<1>2. \A i \in 1 .. Len(s) : Size(s[i].msg) \in 2 .. 4
  BY SizeRange
<1>3. s[1].at = 1 /\ s[1].id = h + 1
  BY DEF Heads
<1>4. /\ 1 + k <= Len(s) => s[1 + k].at = 1 /\ s[1 + k].id = s[1].id + 1
      /\ k = Len(s) => s[1].id = n
      /\ s[1].id <= n
  <2>1. PICK e : e = 1 + Size(s[1].msg)
    OBVIOUS
  <2>2. e = 1 + k /\ e - 1 = k
    BY <1>1, <2>1
  <2>3. /\ e <= Len(s) => s[e].at = 1 /\ s[e].id = s[1].id + 1
        /\ e - 1 = Len(s) => s[1].id = n
        /\ e - 1 <= Len(s) => s[1].id <= n
    BY <1>1, <1>3, <2>1 DEF Chained
  <2> QED BY <1>1, <2>2, <2>3
<1>5. Heads(r, h + 1, n)
  <2>1. CASE r = <<>>
    <3>1. Len(s) = k
      BY <1>1, <2>1
    <3> QED BY <1>3, <1>4, <2>1, <3>1 DEF Heads
  <2>2. CASE r # <<>>
    <3>1. 1 \in 1 .. Len(r) /\ 1 + k <= Len(s)
      BY <1>1, <2>2
    <3> QED BY <1>3, <1>4, <2>2, <3>1 DEF Heads
  <2> QED BY <2>1, <2>2
<1>6. ASSUME NEW i \in 1 .. Len(r), r[i].at = 1, NEW e, e = i + Size(r[i].msg)
      PROVE  /\ \A j \in i .. e - 1 : j <= Len(r) =>
                   r[j].id = r[i].id /\ r[j].at = j - i + 1 /\ r[j].msg = r[i].msg
             /\ e <= Len(r) => r[e].at = 1 /\ r[e].id = r[i].id + 1
             /\ e - 1 = Len(r) => r[i].id = n
             /\ e - 1 <= Len(r) => r[i].id <= n
             /\ e - 1 > Len(r) => c # "up" /\ r[i].id = n + 1
  <2>1. PICK p : p = i + k
    OBVIOUS
  <2>2. PICK f : f = e + k
    OBVIOUS
  <2>3. p \in 1 .. Len(s) /\ s[p] = r[i] /\ s[p].at = 1
    <3>1. i \in Nat /\ i + k \in 1 .. Len(s)
      BY <1>1
    <3> QED BY <1>6, <2>1, <3>1
  <2>9. PICK z \in 2 .. 4 : z = Size(s[p].msg)
    BY <2>3, SizeRange
  <2>10. e = i + z /\ i \in Nat /\ k \in Nat /\ z \in Nat /\ z >= 2
    BY <1>1, <1>6, <2>3, <2>9, SMTT(40)
  <2>11. f = p + z /\ f \in Nat /\ e \in Nat /\ p \in Nat /\ f >= 1 /\ e >= 1
    <3>1. f = (i + z) + k /\ p = i + k
      BY <2>1, <2>2, <2>10
    <3> QED BY <2>10, <3>1, SMTT(40)
  <2>4. f = p + Size(s[p].msg) /\ f \in Nat /\ e \in Nat /\ e >= 1
    BY <2>9, <2>11
  <2>5. /\ \A j \in p .. f - 1 : j <= Len(s) =>
              s[j].id = s[p].id /\ s[j].at = j - p + 1 /\ s[j].msg = s[p].msg
        /\ f <= Len(s) => s[f].at = 1 /\ s[f].id = s[p].id + 1
        /\ f - 1 = Len(s) => s[p].id = n
        /\ f - 1 <= Len(s) => s[p].id <= n
        /\ f - 1 > Len(s) => c # "up" /\ s[p].id = n + 1
    BY <2>3, <2>4 DEF Chained
  <2>6. ASSUME NEW j \in i .. e - 1, j <= Len(r)
        PROVE  r[j].id = r[i].id /\ r[j].at = j - i + 1 /\ r[j].msg = r[i].msg
    <3>1. j \in 1 .. Len(r) /\ j \in Nat /\ i \in Nat
      BY <1>1, <2>4, <2>6
    <3>2. j + k \in p .. f - 1 /\ j + k <= Len(s) /\ (j + k) - p + 1 = j - i + 1
      <4>1. i <= j /\ j <= e - 1 /\ j <= Len(r)
        BY <2>4, <2>6, <3>1
      <4>2. p = i + k /\ f = e + k /\ p \in Nat /\ f \in Nat
        BY <2>1, <2>2, <2>11
      <4>3. k \in Nat /\ Len(r) \in Nat /\ e \in Nat /\ Len(r) + k = Len(s)
        BY <1>1, <2>4, SMTT(40)
      <4>4. j + k >= p /\ j + k <= f - 1 /\ j + k <= Len(s) /\ j + k \in Nat
        <5>1. j + k \in Nat /\ j + k >= i + k
          <6>1. i \in Nat /\ j \in Nat /\ k \in Nat /\ i <= j
            BY <3>1, <4>1, <4>3
          <6> QED BY <6>1
        <5>2. j + k <= (e + k) - 1
          BY <3>1, <4>1, <4>3
        <5>3. j + k <= Len(r) + k
          BY <3>1, <4>1, <4>3
        <5> QED BY <4>2, <4>3, <5>1, <5>2, <5>3
      <4>5. (j + k) - p + 1 = j - i + 1
        <5>1. k \in Nat
          BY <4>3
        <5>2. (j + k) - (i + k) + 1 = j - i + 1
          BY <3>1, <5>1
        <5> QED BY <4>2, <5>2
      <4> QED BY <4>2, <4>4, <4>5
    <3>3. r[j] = s[j + k]
      BY <3>1
    <3>4. s[j + k].id = s[p].id /\ s[j + k].at = (j + k) - p + 1 /\ s[j + k].msg = s[p].msg
      BY <2>5, <3>2
    <3> QED BY <2>3, <3>2, <3>3, <3>4
  <2>7. e <= Len(r) => f <= Len(s) /\ r[e] = s[f]
    <3>1. e <= Len(r) => e \in 1 .. Len(r)
      BY <1>1, <2>4
    <3> QED BY <1>1, <2>2, <2>4, <3>1
  <2>8. /\ e - 1 = Len(r) => f - 1 = Len(s)
        /\ e - 1 <= Len(r) => f - 1 <= Len(s)
        /\ e - 1 > Len(r) => f - 1 > Len(s)
    <3>1. k \in Nat /\ Len(s) \in Nat /\ Len(r) \in Nat /\ Len(r) + k = Len(s)
      BY <1>1
    <3>2. PICK a \in Int : a = e - 1
      BY <2>4
    <3>3. f - 1 = a + k
      BY <2>2, <2>4, <3>1, <3>2
    <3>4. PICK b \in Nat : b = Len(r)
      BY <3>1
    <3>5. Len(s) = b + k
      BY <3>1, <3>4
    <3>6. (a = b => a + k = b + k) /\ (a <= b => a + k <= b + k) /\ (a > b => a + k > b + k)
      <4>1. a \in Int /\ b \in Int /\ k \in Int
        BY <3>1, <3>2, <3>4
      <4> QED BY <4>1, Shifted, Zenon
    <3> QED BY <3>2, <3>3, <3>4, <3>5, <3>6
  <2> QED BY <2>3, <2>5, <2>6, <2>7, <2>8
<1>7. Chained(r, c, n)
  BY <1>6 DEF Chained
<1> QED BY <1>3, <1>4, <1>5, <1>7

\* What a message was sent as.
LEMMA UnitsAre ==
    ASSUME NEW m \in Messages, sent \in Nat
    PROVE  /\ UnitsOf(m) \in Seq(Things) /\ Len(UnitsOf(m)) = Size(m)
           /\ \A i \in 1 .. Len(UnitsOf(m)) :
                 UnitsOf(m)[i].id = sent + 1 /\ UnitsOf(m)[i].at = i /\ UnitsOf(m)[i].msg = m
<1>1. Size(m) \in Nat
  BY SizeRange
<1>2. UnitsOf(m) = [i \in 1 .. Size(m) |-> [id |-> sent + 1, at |-> i, msg |-> m]]
  BY DEF UnitsOf, Size
<1>3. \A i \in 1 .. Size(m) : [id |-> sent + 1, at |-> i, msg |-> m] \in Things
  BY <1>1 DEF Things
<1> QED BY <1>1, <1>2, <1>3

\* The messages follow one another in the stream whatever is sent.
LEMMA FrameSend == ASSUME Stream, FrameInv, NEW m \in Messages, Send(m) PROVE FrameInv'
<1>1. PICK v : v = UnitsOf(m)
  OBVIOUS
<1>2. PICK s : s = buf \o wire
  OBVIOUS
<1>3. /\ v \in Seq(Things) /\ Len(v) = Size(m)
      /\ \A i \in 1 .. Len(v) : v[i].id = sent + 1 /\ v[i].at = i /\ v[i].msg = m
  BY <1>1, UnitsAre DEF Stream
<1>4. conn = "up" /\ wire' = wire \o v /\ sent' = sent + 1 /\ UNCHANGED <<buf, handled>>
  BY <1>1 DEF Send, reader
<1>5. s \in Seq(Things) /\ buf' \o wire' = s \o v /\ sent \in Nat
  BY <1>2, <1>3, <1>4 DEF Stream
<1>6. Chained(s, "up", sent) /\ Heads(s, handled, sent)
  BY <1>2, <1>4 DEF FrameInv
<1>7. Chained(s \o v, conn', sent + 1) /\ Heads(s \o v, handled, sent + 1)
  <2>1. Len(v) = Size(m) /\ sent + 1 \in Nat
    BY <1>3, <1>5
  <2>2. PICK k \in Nat : k = sent
    BY <1>5
  <2>3. /\ Chained(s, "up", k) /\ Heads(s, handled, k) /\ k + 1 \in Nat /\ sent + 1 = k + 1
        /\ \A i \in 1 .. Len(v) : v[i].id = k + 1 /\ v[i].at = i /\ v[i].msg = m
    BY <1>3, <1>6, <2>2
  <2>4. s \in Seq(Things) /\ v \in Seq(Things)
    BY <1>3, <1>5
  <2> QED BY <2>1, <2>3, <2>4, ChainAppend
<1> QED BY <1>4, <1>5, <1>7 DEF FrameInv

\* Neither does the beginning of a message that a server leaves behind break it.
LEMMA FrameDrop == ASSUME Stream, FrameInv, Drop PROVE FrameInv'
<1> DEFINE m == [type |-> "banner"]
<1>1. m \in Messages
  BY DEF Messages, Plain
<1>2. PICK u : u = UnitsOf(m)
  OBVIOUS
<1>3. /\ u \in Seq(Things) /\ Len(u) = Size(m)
      /\ \A i \in 1 .. Len(u) : u[i].id = sent + 1 /\ u[i].at = i /\ u[i].msg = m
  BY <1>1, <1>2, UnitsAre DEF Stream
<1>4. PICK n \in 0 .. Len(u) - 1 : wire' = wire \o SubSeq(u, 1, n)
  BY <1>2 DEF Drop
<1>5. UNCHANGED <<buf, handled, sent>> /\ conn = "up" /\ conn' # "up"
  BY DEF Drop, reader
<1>6. PICK v : v = SubSeq(u, 1, n)
  OBVIOUS
<1>7. /\ v \in Seq(Things) /\ Len(v) < Size(m)
      /\ \A i \in 1 .. Len(v) : v[i].id = sent + 1 /\ v[i].at = i /\ v[i].msg = m
  <2>1. n \in 0 .. Len(u) /\ n < Len(u)
    BY <1>3, <1>4
  <2>2. v \in Seq(Things) /\ Len(v) = n /\ \A i \in 1 .. n : v[i] = u[i]
    BY <1>3, <1>6, <2>1, Parts
  <2> QED BY <1>3, <2>1, <2>2
<1>8. PICK s : s = buf \o wire
  OBVIOUS
<1>9. s \in Seq(Things) /\ buf' \o wire' = s \o v /\ sent \in Nat
  <2>1. buf \in Seq(Things) /\ wire \in Seq(Things) /\ sent \in Nat
    BY DEF Stream
  <2>2. buf' \o wire' = buf \o (wire \o v)
    BY <1>4, <1>5, <1>6
  <2>3. buf \o (wire \o v) = (buf \o wire) \o v
    BY <1>7, <2>1
  <2> QED BY <1>8, <2>1, <2>2, <2>3
<1>10. Chained(s, "up", sent) /\ Heads(s, handled, sent)
  BY <1>5, <1>8 DEF FrameInv
<1>11. Chained(s \o v, conn', sent) /\ Heads(s \o v, handled, sent)
  <2> HIDE DEF m
  <2> QED BY <1>1, <1>5, <1>7, <1>9, <1>10, ChainAppend
<1> QED BY <1>5, <1>9, <1>11 DEF FrameInv

\* Reading moves units from one part of the stream to the other, and no more than
\* the message that was begun.
LEMMA FrameRecv == ASSUME Stream, FrameInv, Recv PROVE FrameInv'
<1>1. UNCHANGED <<sent, conn, handled>>
  BY DEF Recv
<1>2. PICK n \in 1 .. Wanted :
         /\ n <= Len(wire)
         /\ buf' = buf \o SubSeq(wire, 1, n)
         /\ wire' = SubSeq(wire, n + 1, Len(wire))
  BY DEF Recv
<1>3. n \in 0 .. Len(wire) /\ Len(wire) \in Nat
  <2>1. Len(wire) \in Nat
    BY DEF Stream
  <2> QED BY <1>2, <2>1
<1>4. PICK v : v = SubSeq(wire, 1, n)
  OBVIOUS
<1>5. /\ v \in Seq(Things) /\ Len(v) = n /\ \A i \in 1 .. n : v[i] = wire[i]
      /\ wire' \in Seq(Things) /\ Len(wire') = Len(wire) - n
      /\ \A i \in 1 .. Len(wire) - n : wire'[i] = wire[n + i]
  BY <1>2, <1>3, <1>4, Parts DEF Stream
<1>6. v \o wire' = wire
  <2>1. v \o wire' \in Seq(Things) /\ Len(v \o wire') = Len(wire)
    BY <1>3, <1>5
  <2>2. ASSUME NEW i \in 1 .. Len(wire) PROVE (v \o wire')[i] = wire[i]
    <3>1. CASE i <= n
      <4>1. i \in 1 .. Len(v)
        BY <1>3, <1>5, <3>1
      <4>2. (v \o wire')[i] = v[i]
        BY <1>5, <4>1
      <4> QED BY <1>5, <4>1, <4>2
    <3>2. CASE i > n
      <4>1. i - n \in 1 .. Len(wire) - n /\ n + (i - n) = i
        BY <1>3, <3>2
      <4>2. (v \o wire')[i] = wire'[i - n]
        BY <1>3, <1>5, <3>2
      <4>3. wire'[i - n] = wire[n + (i - n)]
        BY <1>5, <4>1
      <4>4. wire[n + (i - n)] = wire[i]
        BY <4>1
      <4> QED BY <4>2, <4>3, <4>4
    <3>3. i <= n \/ i > n
      BY <1>3, <2>2
    <3> QED BY <3>1, <3>2, <3>3
  <2>3. wire \in Seq(Things)
    BY DEF Stream
  <2> QED BY <2>1, <2>2, <2>3, SeqEqual
<1>7. buf' \o wire' = buf \o wire
  <2>1. buf \in Seq(Things) /\ buf' = buf \o v
    BY <1>2, <1>4 DEF Stream
  <2>2. (buf \o v) \o wire' = buf \o (v \o wire')
    BY <1>5, <2>1
  <2> QED BY <1>6, <2>1, <2>2
<1>8. Len(buf') <= Size(buf'[1].msg)
  <2>1. buf \in Seq(Things) /\ Len(buf) \in Nat /\ Len(buf') = Len(buf) + n
    BY <1>2, <1>4, <1>5 DEF Stream
  <2>2. CASE Len(buf) < LenUnits
    <3>1. n <= LenUnits - Len(buf)
      BY <1>2, <2>1, <2>2 DEF Wanted, LenUnits
    <3>2. Len(buf') <= LenUnits
      BY <1>3, <2>1, <3>1 DEF LenUnits
    <3> QED BY <2>1, <1>3, <3>2, SizeRange DEF LenUnits
  <2>3. CASE ~ (Len(buf) < LenUnits)
    <3>1. Wanted = Size(buf[1].msg) - Len(buf) /\ Size(buf[1].msg) \in 2 .. 4
      BY <2>1, <2>3, WantedIs, SizeRange DEF LenUnits
    <3>2. buf'[1] = buf[1]
      <4>1. 1 \in 1 .. Len(buf)
        BY <2>1, <2>3 DEF LenUnits
      <4> QED BY <1>2, <1>4, <1>5, <2>1, <4>1
    <3> QED BY <1>2, <1>3, <2>1, <3>1, <3>2
  <2> QED BY <2>2, <2>3
<1> QED BY <1>1, <1>7, <1>8 DEF FrameInv

\* The handler of a message takes the whole of it, and nothing else, off the stream.
LEMMA FrameFinished ==
    ASSUME Stream, FrameInv, Complete, Finished, UNCHANGED <<wire, sent, conn>>
    PROVE  FrameInv' /\ handled' <= sent
<1>1. PICK s : s = buf \o wire
  OBVIOUS
<1>2. /\ buf \in Seq(Things) /\ wire \in Seq(Things) /\ s \in Seq(Things) /\ sent \in Nat
      /\ Len(buf) \in Nat /\ Len(wire) \in Nat /\ Len(s) = Len(buf) + Len(wire)
      /\ \A i \in 1 .. Len(wire) : wire[i] = s[i + Len(buf)]
      /\ buf # <<>> => s # <<>> /\ s[1] = buf[1]
  BY <1>1 DEF Stream
<1>3. ~ (Len(buf) < LenUnits)
  BY <1>2, WantedIs, SizeRange DEF Complete, LenUnits
<1>4. buf # <<>> /\ Len(buf) = Size(buf[1].msg)
  <2>1. Len(buf) = Size(buf[1].msg)
    BY <1>2, WantedIs DEF Complete
  <2>2. Size(buf[1].msg) \in 2 .. 4
    BY SizeRange
  <2> QED BY <2>1, <2>2
<1>5. Chained(s, conn, sent) /\ Heads(s, handled, sent) /\ handled \in Nat
  BY <1>1 DEF FrameInv
<1>6. Chained(wire, conn, sent) /\ Heads(wire, handled + 1, sent) /\ handled + 1 <= sent
  <2>1. PICK k : k = Len(buf)
    OBVIOUS
  <2>2. k = Size(s[1].msg) /\ k <= Len(s) /\ Len(wire) = Len(s) - k /\ s # <<>>
    BY <1>2, <1>4, <2>1
  <2>3. \A i \in 1 .. Len(wire) : wire[i] = s[i + k]
    BY <1>2, <2>1
  <2> QED BY <1>2, <1>5, <2>2, <2>3, ChainRest
<1>7. buf' = <<>> /\ handled' = handled + 1 /\ <<>> \o wire = wire
  BY <1>2 DEF Finished
<1> QED BY <1>5, <1>6, <1>7 DEF FrameInv

\* So every step keeps the stream whole.
LEMMA StepFrame == ASSUME Stream, FrameInv, [SessionNext]_session_vars PROVE FrameInv'
<1>1. ASSUME NEW m \in Messages, Send(m) PROVE FrameInv'
  BY <1>1, FrameSend
<1>2. CASE Drop
  BY <1>2, FrameDrop
<1>3. CASE Recv
  BY <1>3, FrameRecv
<1>4. CASE LoadLine \/ LoadEnds \/ SetupFails \/ Connect \/ SrInit \/ SendOpen \/ RecvFails
           \/ Lookup \/ ForwardFound \/ UNCHANGED session_vars
  <2>1. UNCHANGED <<buf, handled, wire, sent, conn>>
    BY <1>4 DEF LoadLine, LoadEnds, SetupFails, Connect, SrInit, SendOpen, RecvFails, Lookup,
                ForwardFound, session_vars, reader, network
  <2> QED BY <2>1 DEF FrameInv
<1>5. CASE Discard \/ HandleAuthRequest \/ HandleAuthStatus \/ HandleRtable \/ HandleHwInfo \/ HandlePacket
  <2>1. Complete /\ Finished /\ UNCHANGED <<wire, sent, conn>>
    BY <1>5 DEF Discard, HandleAuthRequest, HandleAuthStatus, HandleRtable, HandleHwInfo,
                HandlePacket, Succeeds, Fails, network
  <2> QED BY <2>1, FrameFinished
<1> QED
  BY <1>1, <1>2, <1>3, <1>4, <1>5 DEF SessionNext, Router, Server

\* Whatever recv returns, the router reads the messages as they were sent.
LEMMA FrameHolds == ASSUME Stream, FrameInv PROVE Framed
<1>1. PICK s : s = buf \o wire
  OBVIOUS
<1>2. /\ buf \in Seq(Things) /\ wire \in Seq(Things) /\ s \in Seq(Things)
      /\ Len(buf) \in Nat /\ Len(wire) \in Nat /\ Len(s) = Len(buf) + Len(wire)
      /\ \A i \in 1 .. Len(buf) : buf[i] = s[i]
      /\ wire # <<>> => wire[1] = s[Len(buf) + 1] /\ Len(wire) >= 1
  BY <1>1 DEF Stream
<1>3. Chained(s, conn, sent) /\ Heads(s, handled, sent) /\ handled \in Nat
  BY <1>1 DEF FrameInv
<1>4. CASE buf = <<>>
  <2>1. Len(buf) = 0 /\ \A i \in DOMAIN buf : FALSE
    BY <1>4
  <2>2. wire # <<>> => s # <<>> /\ wire[1] = s[1]
    BY <1>2, <2>1
  <2> QED BY <1>3, <1>4, <2>1, <2>2 DEF Framed, Heads
<1>5. CASE buf # <<>>
  <2>1. Len(buf) >= 1 /\ s # <<>> /\ 1 \in 1 .. Len(s) /\ s[1] = buf[1]
    BY <1>2, <1>5
  <2>2. PICK k : k = Size(s[1].msg)
    OBVIOUS
  <2>3. k \in Nat /\ k >= LenUnits /\ Len(buf) <= k
    BY <2>1, <2>2, SizeRange, <1>5 DEF FrameInv, LenUnits
  <2>4. s[1].at = 1 /\ s[1].id = handled + 1
    BY <1>3, <2>1 DEF Heads
  <2>5. /\ \A j \in 1 .. k : j <= Len(s) => s[j].id = handled + 1 /\ s[j].at = j
        /\ 1 + k <= Len(s) => s[1 + k].at = 1 /\ s[1 + k].id = handled + 2
    <3>1. s[1].id + 1 = handled + 2 /\ 1 + k - 1 = k /\ \A j \in 1 .. k : j - 1 + 1 = j
      BY <1>3, <2>3, <2>4
    <3>2. /\ \A j \in 1 .. 1 + k - 1 : j <= Len(s) =>
                s[j].id = s[1].id /\ s[j].at = j - 1 + 1 /\ s[j].msg = s[1].msg
          /\ 1 + k <= Len(s) => s[1 + k].at = 1 /\ s[1 + k].id = s[1].id + 1
      <4>1. PICK e : e = 1 + Size(s[1].msg)
        OBVIOUS
      <4>2. 1 + k = 1 + Size(s[1].msg)
        BY <2>2
      <4>3. e = 1 + k
        BY <4>1, <4>2
      <4>4. /\ \A j \in 1 .. e - 1 : j <= Len(s) =>
                  s[j].id = s[1].id /\ s[j].at = j - 1 + 1 /\ s[j].msg = s[1].msg
            /\ e <= Len(s) => s[e].at = 1 /\ s[e].id = s[1].id + 1
        BY <1>3, <2>1, <2>4, <4>1 DEF Chained
      <4>5. 1 + k - 1 = e - 1
        BY <2>3, <4>3
      <4> QED BY <4>3, <4>4, <4>5
    <3> QED BY <2>4, <3>1, <3>2
  <2>6. \A i \in DOMAIN buf : buf[i].id = handled + 1 /\ buf[i].at = i
    <3>1. \A i \in 1 .. Len(buf) : i \in 1 .. k /\ i <= Len(s)
      BY <1>2, <2>3
    <3> QED BY <1>2, <2>5, <3>1
  <2>7. Wanted = 0 <=> Len(buf) = k
    BY <1>2, <2>1, <2>2, WantedIs
  <2>8. ASSUME wire # <<>>
        PROVE  IF Wanted = 0 THEN wire[1].id = handled + 2 /\ wire[1].at = 1
               ELSE wire[1].id = handled + 1 /\ wire[1].at = Len(buf) + 1
    <3>1. Len(buf) + 1 <= Len(s) /\ wire[1] = s[Len(buf) + 1]
      BY <1>2, <2>8
    <3>2. CASE Wanted = 0
      <4>1. Len(buf) + 1 = 1 + k
        BY <1>2, <2>7, <3>2
      <4> QED BY <2>5, <3>1, <3>2, <4>1
    <3>3. CASE Wanted # 0
      <4>1. Len(buf) + 1 \in 1 .. k
        BY <1>2, <2>3, <2>7, <3>3
      <4> QED BY <2>5, <3>1, <3>3, <4>1
    <3> QED BY <3>2, <3>3
  <2> QED BY <1>5, <2>6, <2>8 DEF Framed
<1> QED BY <1>4, <1>5

-----------------------------------------------------------------------------

\* The session's invariant.
LEMMA SessionInvariant == SessionSpec => []SessionInv
<1>1. SessionInv /\ [SessionNext]_session_vars => SessionInv'
  BY StepStream, StepAdmitted, StepReady, StepFromServer, StepFrame DEF SessionInv
<1> QED
  BY <1>1, SessionStart, PTL DEF SessionSpec

\* A topology is opened only by a router the server has accepted.
THEOREM TopologyIsGranted == SessionSpec => []OpensWhenAdmitted
<1>1. SessionInv => OpensWhenAdmitted
  BY DEF SessionInv, Admitted, OpensWhenAdmitted
<1> QED
  BY <1>1, SessionInvariant, PTL

\* When a packet is forwarded every interface the table names exists, for any
\* table and any hardware description: the assertion of the driver holds.
THEOREM TableFitsInterfaces == SessionSpec => []ForwardsWhenReady
<1>1. SessionInv => ForwardsWhenReady
  BY DEF SessionInv, Admitted, Ready, ForwardsWhenReady
<1> QED
  BY <1>1, SessionInvariant, PTL

\* With a template, packets are routed by the table the server sent.
THEOREM ServersTableIsUsed == SessionSpec => []RunsServersTable
<1>1. SessionInv => RunsServersTable
  BY DEF SessionInv, FromServer, RunsServersTable
<1> QED
  BY <1>1, SessionInvariant, PTL

\* However recv splits the stream, what was read is the beginning of the next message,
\* and the reader asks for no more than the rest of it.
THEOREM MessagesFramed == SessionSpec => []Framed
<1>1. SessionInv => Framed
  BY FrameHolds DEF SessionInv
<1> QED
  BY <1>1, SessionInvariant, PTL

\* What the program does with the table is what RoutingTable allows: loading a
\* line, looking an address up, or nothing.
THEOREM SessionImplementsTable == SessionSpec => TableSpec
<1>1. SessionInit => Init
  BY DEF SessionInit
<1>2. SessionInv /\ [SessionNext]_session_vars => [Next]_vars
  <2> SUFFICES ASSUME SessionInv, [SessionNext]_session_vars, ~ UNCHANGED vars PROVE Next
    OBVIOUS
  <2>1. CASE LoadLine
    BY <2>1, SessionAssumption DEF LoadLine, Next
  <2>2. CASE HandlePacket
    <3>1. Msg \in Messages /\ Msg.type = "packet"
      BY <2>2, MessageRead DEF HandlePacket, SessionInv
    <3>2. Msg.dst \in Addr
      BY <3>1, SessionAssumption DEF Messages, Plain, AuthStatus, HwInfo
    <3>3. BeginLookup(Msg.dst)
      BY <2>2 DEF HandlePacket, table, vars
    <3> QED BY <3>2, <3>3 DEF Next
  <2>3. CASE Lookup
    BY <2>3 DEF Lookup, Next
  <2>4. LoadLine \/ HandlePacket \/ Lookup
    BY DEF SessionNext, Router, Server, Drop, Send, LoadEnds, SetupFails, Connect, SendOpen, SrInit,
           Recv, RecvFails, Discard, HandleAuthRequest, HandleAuthStatus, HandleRtable, HandleHwInfo,
           ForwardFound, session_vars, table, vars
  <2> QED BY <2>1, <2>2, <2>3, <2>4
<1> QED
  BY <1>1, <1>2, SessionInvariant, PTL DEF SessionSpec, TableSpec, Spec

\* So every lookup of the running router finds the longest match.
THEOREM SessionFindsLongestMatch == SessionSpec => []LongestMatch
  BY SessionImplementsTable, LongestMatchFound DEF TableSpec

-----------------------------------------------------------------------------
(* The list of the interfaces, and the types.                              *)

\* A set of naturals that holds 0 and is closed under successor holds all of them.
LEMMA NatSet ==
    ASSUME NEW T, 0 \in T, \A n \in Nat : n \in T => n + 1 \in T
    PROVE  Nat \subseteq T
<1> SUFFICES ASSUME Nat \ T # {} PROVE FALSE
  OBVIOUS
<1> DEFINE R == OpToRel(<, Nat)
           U == Nat \ T
<1>1. IsWellFoundedOn(R, Nat)
  BY NatLessThanWellFounded
<1>2. U \subseteq Nat /\ U # {}
  OBVIOUS
<1>3. PICK x \in U : \A y \in U : ~(<<y, x>> \in R)
  <2> HIDE DEF R, U
  <2> QED BY <1>1, <1>2, WFMin, Zenon
<1>4. \A y \in U : ~(y < x)
  BY <1>3 DEF OpToRel
<1>5. x # 0 /\ x - 1 \in Nat /\ x - 1 < x /\ x - 1 + 1 = x
  <2>1. x \in Nat /\ x # 0
    BY <1>3
  <2> HIDE DEF U
  <2> QED BY <2>1
<1>6. x - 1 \in T
  BY <1>4, <1>5
<1> QED BY <1>3, <1>5, <1>6

\* The last element of a set of naturals up to n + 1 that has n + 1.
LEMMA MaxUpTo == ASSUME NEW n \in Nat, NEW s \in SUBSET (1 .. n + 1), n + 1 \in s PROVE Max(s) = n + 1
<1>1. \A y \in s : n + 1 >= y
  OBVIOUS
<1>2. \A x \in s : (\A y \in s : x >= y) => x = n + 1
  OBVIOUS
<1> QED BY <1>1, <1>2 DEF Max

\* The fold of the community modules takes the last element of each prefix of a domain.
Entered(g, n, l, h) ==
    g = [s \in SUBSET (1 .. n) |-> IF s = {} THEN l ELSE AddHwEntry(g[s \ {Max(s)}], h[Max(s)])]

Described(l, h) == FoldLeft(AddHwEntry, l, h)

\* What FoldLeft is, as a function of the set of the entries already taken.
LEMMA FoldIs ==
    ASSUME NEW l, NEW h, NEW n, DOMAIN h = 1 .. n
    PROVE  Described(l, h) = (CHOOSE g : Entered(g, n, l, h))[1 .. n]
  BY DEF Described, FoldLeft, MapThenFoldSet, Entered

\* There is such a function, however long the description is.
LEMMA EnteredExists == ASSUME NEW l, NEW h, NEW n \in Nat PROVE \E g : Entered(g, n, l, h)
<1> DEFINE T == {m \in Nat : \E g : Entered(g, m, l, h)}
<1>1. 0 \in T
  <2> DEFINE g == [s \in SUBSET (1 .. 0) |-> l]
  <2>1. \A s \in SUBSET (1 .. 0) : s = {}
    OBVIOUS
  <2>2. g = [s \in SUBSET (1 .. 0) |-> IF s = {} THEN l ELSE AddHwEntry(g[s \ {Max(s)}], h[Max(s)])]
    BY <2>1
  <2> QED BY <2>2 DEF Entered
<1>2. ASSUME NEW m \in Nat, m \in T PROVE m + 1 \in T
  <2>1. PICK f : Entered(f, m, l, h)
    BY <1>2
  <2> DEFINE S == SUBSET (1 .. m + 1)
             g == [s \in S |-> IF m + 1 \in s THEN AddHwEntry(f[s \ {m + 1}], h[m + 1]) ELSE f[s]]
             Next1(s) == IF s = {} THEN l ELSE AddHwEntry(g[s \ {Max(s)}], h[Max(s)])
  <2>2. \A s \in SUBSET (1 .. m) :
           f[s] = IF s = {} THEN l ELSE AddHwEntry(f[s \ {Max(s)}], h[Max(s)])
    BY <2>1 DEF Entered
  <2>3. \A s \in S : m + 1 \notin s => s \in SUBSET (1 .. m)
    OBVIOUS
  <2>4. ASSUME NEW s \in S PROVE g[s] = Next1(s)
    <3>1. CASE m + 1 \in s
      <4>1. Max(s) = m + 1 /\ s # {}
        BY <3>1, MaxUpTo
      <4>2. s \ {m + 1} \in S /\ m + 1 \notin s \ {m + 1}
        OBVIOUS
      <4>3. g[s \ {m + 1}] = f[s \ {m + 1}]
        BY <4>2
      <4>4. g[s] = AddHwEntry(f[s \ {m + 1}], h[m + 1])
        BY <3>1
      <4> HIDE DEF g
      <4> QED BY <4>1, <4>3, <4>4
    <3>2. CASE m + 1 \notin s
      <4>1. s \ {Max(s)} \in S /\ m + 1 \notin s \ {Max(s)} /\ s \in SUBSET (1 .. m)
        BY <2>3, <3>2
      <4>2. g[s \ {Max(s)}] = f[s \ {Max(s)}] /\ g[s] = f[s]
        BY <3>2, <4>1
      <4> HIDE DEF g
      <4> QED BY <2>2, <4>1, <4>2
    <3> QED BY <3>1, <3>2
  <2>5. g = [s \in S |-> g[s]] /\ [s \in S |-> Next1(s)] = [s \in S |-> g[s]]
    <3>1. g = [s \in S |-> g[s]]
      OBVIOUS
    <3> HIDE DEF g, Next1, S
    <3> QED BY <2>4, <3>1, Zenon
  <2>6. g = [s \in S |-> Next1(s)]
    <3> HIDE DEF g, Next1
    <3> QED BY <2>5
  <2>7. Entered(g, m + 1, l, h)
    <3> HIDE DEF g
    <3> QED BY <2>6 DEF Entered
  <2> QED BY <2>7
<1> HIDE DEF T
<1>3. Nat \subseteq T
  BY <1>1, <1>2, NatSet
<1> QED BY <1>3 DEF T

\* A hardware description is entered one entry after another.
LEMMA FoldSteps ==
    ASSUME NEW l, NEW h, NEW n \in Nat, DOMAIN h = 1 .. n
    PROVE  \E f : /\ f[0] = l
                  /\ \A k \in 1 .. n : f[k] = AddHwEntry(f[k - 1], h[k])
                  /\ Described(l, h) = f[n]
<1>1. PICK g : g = CHOOSE a : Entered(a, n, l, h)
  OBVIOUS
<1>2. Entered(g, n, l, h)
  BY <1>1, EnteredExists
<1>3. Described(l, h) = g[1 .. n]
  BY <1>1, FoldIs
<1> DEFINE f == [k \in 0 .. n |-> g[1 .. k]]
<1>4. f[0] = l
  <2>1. 1 .. 0 = {} /\ {} \in SUBSET (1 .. n)
    OBVIOUS
  <2>2. g[{}] = l
    BY <1>2, <2>1 DEF Entered
  <2> QED BY <2>1, <2>2
<1>5. ASSUME NEW k \in 1 .. n PROVE f[k] = AddHwEntry(f[k - 1], h[k])
  <2>1. PICK m \in Nat : k = m + 1 /\ k - 1 = m
    <3>1. k - 1 \in Nat /\ k = k - 1 + 1
      OBVIOUS
    <3> QED BY <3>1
  <2>2. 1 .. k \in SUBSET (1 .. n) /\ 1 .. k # {} /\ k \in 1 .. k
    OBVIOUS
  <2>3. Max(1 .. k) = k
    BY <2>1, <2>2, MaxUpTo
  <2>4. (1 .. k) \ {k} = 1 .. k - 1
    OBVIOUS
  <2>5. g[1 .. k] = AddHwEntry(g[(1 .. k) \ {Max(1 .. k)}], h[Max(1 .. k)])
    BY <1>2, <2>2 DEF Entered
  <2>6. g[1 .. k] = AddHwEntry(g[1 .. k - 1], h[k])
    BY <2>3, <2>4, <2>5
  <2>7. f[k] = g[1 .. k] /\ f[k - 1] = g[1 .. k - 1]
    OBVIOUS
  <2> HIDE DEF f
  <2> QED BY <2>6, <2>7
<1>6. f[n] = g[1 .. n]
  OBVIOUS
<1> HIDE DEF f
<1> QED BY <1>3, <1>4, <1>5, <1>6

\* An interface with no addresses but those the server announced for it.
Announced ==
    {f \in [name : Interfaces, addr : {NoAddr} \cup Addr, ip : {NoAddr} \cup Addr] :
        f.ip \in {NoAddr, IpOf[f.name]} /\ f.addr \in {NoAddr, EtherOf[f.name]}}

\* The list after k entries of h.
Entering(l, h, k) ==
    /\ l \in Seq(Announced)
    /\ k > 0 => l # <<>> /\ About(h, k, l[Len(l)].name)

\* The last interface gets an address.
LEMMA SetLastKeeps ==
    ASSUME NEW l \in Seq(Announced), l # <<>>, NEW v,
           NEW field \in {"addr", "ip"},
           field = "addr" => v = EtherOf[l[Len(l)].name],
           field = "ip" => v = IpOf[l[Len(l)].name]
    PROVE  /\ SetLast(l, field, v) \in Seq(Announced) /\ Len(SetLast(l, field, v)) = Len(l)
           /\ SetLast(l, field, v)[Len(l)].name = l[Len(l)].name
<1> DEFINE e == l[Len(l)]
           a == [e EXCEPT ![field] = v]
<1>1. Len(l) \in 1 .. Len(l) /\ DOMAIN l = 1 .. Len(l) /\ Len(l) \in Nat
  OBVIOUS
<1>2. e \in Announced
  BY <1>1
<1>3. a \in Announced /\ a.name = e.name
  <2>1. /\ e \in [name : Interfaces, addr : {NoAddr} \cup Addr, ip : {NoAddr} \cup Addr]
        /\ e.ip \in {NoAddr, IpOf[e.name]} /\ e.addr \in {NoAddr, EtherOf[e.name]}
        /\ IpOf[e.name] \in Addr /\ EtherOf[e.name] \in Addr
    BY <1>2, SessionAssumption DEF Announced
  <2> HIDE DEF e
  <2>2. CASE field = "addr"
    <3>1. v = EtherOf[e.name] /\ a = [e EXCEPT !.addr = v]
      BY <2>2 DEF e
    <3> QED BY <2>1, <3>1 DEF Announced
  <2>3. CASE field = "ip"
    <3>1. v = IpOf[e.name] /\ a = [e EXCEPT !.ip = v]
      BY <2>3 DEF e
    <3> QED BY <2>1, <3>1 DEF Announced
  <2> QED BY <2>2, <2>3
<1>4. SetLast(l, field, v) = [l EXCEPT ![Len(l)] = a]
  BY DEF SetLast
<1> HIDE DEF a, e
<1>5. [l EXCEPT ![Len(l)] = a] \in Seq(Announced) /\ Len([l EXCEPT ![Len(l)] = a]) = Len(l)
  BY <1>1, <1>3
<1>6. [l EXCEPT ![Len(l)] = a][Len(l)] = a
  BY <1>1
<1> QED BY <1>3, <1>4, <1>5, <1>6 DEF e

\* An entry that names no interface is about the same one as the entry before it.
LEMMA AboutNext ==
    ASSUME NEW h, NEW k \in Nat, NEW n, About(h, k, n), h[k + 1].key # "interface"
    PROVE  About(h, k + 1, n)
<1>1. PICK j \in 1 .. k : /\ h[j].key = "interface" /\ h[j].value = n
                          /\ \A i \in j + 1 .. k : h[i].key # "interface"
  BY DEF About
<1>2. j \in 1 .. k + 1 /\ \A i \in j + 1 .. k + 1 : i \in j + 1 .. k \/ i = k + 1
  BY <1>1
<1>3. \A i \in j + 1 .. k + 1 : h[i].key # "interface"
  BY <1>1, <1>2
<1> QED BY <1>1, <1>2, <1>3 DEF About

\* Each entry of a description goes to the interface it is about.
LEMMA EntryKeeps ==
    ASSUME NEW h \in HwInfos, NEW k \in Nat, k < Len(h), NEW l, Entering(l, h, k)
    PROVE  Entering(AddHwEntry(l, h[k + 1]), h, k + 1)
<1> DEFINE e == h[k + 1]
           m == AddHwEntry(l, e)
<1>1. Len(h) \in Nat /\ DOMAIN h = 1 .. Len(h) /\ k + 1 \in DOMAIN h /\ k + 1 > 0
  BY HwAssumption
<1>2. l \in Seq(Announced) /\ (k > 0 => l # <<>> /\ About(h, k, l[Len(l)].name))
  BY DEF Entering
<1>3. CASE e.key = "interface"
  <2>1. PICK b : b = [name |-> e.value, addr |-> NoAddr, ip |-> NoAddr]
    OBVIOUS
  <2>2. b \in Announced /\ b.name = e.value
    <3>1. e.value \in Interfaces
      BY <1>1, <1>3, HwAssumption
    <3> HIDE DEF e
    <3> QED BY <2>1, <3>1 DEF Announced
  <2>3. m = Append(l, b)
    BY <1>3, <2>1 DEF AddHwEntry, AddInterface
  <2>4. m \in Seq(Announced) /\ Len(m) = Len(l) + 1 /\ m[Len(m)] = b /\ m # <<>>
    BY <1>2, <2>2, <2>3
  <2>5. About(h, k + 1, e.value)
    <3>1. k + 1 \in 1 .. k + 1 /\ \A i \in (k + 1) + 1 .. k + 1 : FALSE
      OBVIOUS
    <3> QED BY <1>3, <3>1 DEF About
  <2> QED BY <2>2, <2>4, <2>5 DEF Entering
<1>4. CASE e.key # "interface"
  <2>1. k > 0 /\ l # <<>> /\ About(h, k, l[Len(l)].name)
    <3>1. k # 0
      <4>1. h[1].key = "interface"
        BY SessionAssumption
      <4> QED BY <1>4, <4>1
    <3> QED BY <1>2, <3>1
  <2>2. PICK n \in Interfaces : n = l[Len(l)].name
    <3>1. l[Len(l)] \in Announced
      BY <1>2, <2>1
    <3> QED BY <3>1 DEF Announced
  <2>3. About(h, k + 1, n)
    BY <1>4, <2>1, <2>2, AboutNext
  <2>4. (e.key = "addr" => e.value = EtherOf[n]) /\ (e.key = "ip" => e.value = IpOf[n])
    BY <1>1, <2>3, HwAssumption
  <2>5. CASE e.key \in {"addr", "ip"}
    <3>1. m = SetLast(l, e.key, e.value)
      BY <1>4, <2>5 DEF AddHwEntry
    <3>2. PICK field \in {"addr", "ip"} : field = e.key
      BY <2>5
    <3>3. PICK v : v = e.value
      OBVIOUS
    <3>4. (field = "addr" => v = EtherOf[l[Len(l)].name]) /\ (field = "ip" => v = IpOf[l[Len(l)].name])
      BY <2>2, <2>4, <3>2, <3>3
    <3> HIDE DEF m, e
    <3>5. m \in Seq(Announced) /\ Len(m) = Len(l) /\ m[Len(l)].name = l[Len(l)].name
      BY <1>2, <2>1, <3>1, <3>2, <3>3, <3>4, SetLastKeeps
    <3>6. m # <<>>
      BY <1>2, <2>1, <3>5
    <3>7. Entering(m, h, k + 1)
      BY <2>2, <2>3, <3>5, <3>6 DEF Entering
    <3> QED BY <3>7 DEF m, e
  <2>6. CASE e.key \notin {"addr", "ip"}
    <3>1. m = l
      BY <1>4, <2>6 DEF AddHwEntry
    <3> QED BY <1>2, <2>1, <2>2, <2>3, <3>1 DEF Entering
  <2> QED BY <2>5, <2>6
<1> QED BY <1>3, <1>4

\* So does a whole description.
LEMMA DescriptionKeeps ==
    ASSUME NEW l \in Seq(Announced), NEW h \in HwInfos
    PROVE  Described(l, h) \in Seq(Announced)
<1>1. Len(h) \in Nat /\ DOMAIN h = 1 .. Len(h)
  BY HwAssumption
<1>2. PICK n \in Nat : n = Len(h)
  BY <1>1
<1>3. PICK f : /\ f[0] = l
               /\ \A k \in 1 .. n : f[k] = AddHwEntry(f[k - 1], h[k])
               /\ Described(l, h) = f[n]
  <2>1. DOMAIN h = 1 .. n
    BY <1>1, <1>2
  <2> QED BY <1>2, <2>1, FoldSteps
<1> DEFINE T == {k \in Nat : k <= n => Entering(f[k], h, k)}
<1>4. 0 \in T
  BY <1>3 DEF Entering
<1>5. ASSUME NEW k \in Nat, k \in T PROVE k + 1 \in T
  <2> SUFFICES ASSUME k + 1 <= n PROVE Entering(f[k + 1], h, k + 1)
    OBVIOUS
  <2>1. k < Len(h) /\ Entering(f[k], h, k)
    BY <1>2, <1>5
  <2>2. k + 1 \in 1 .. n /\ k + 1 - 1 = k
    OBVIOUS
  <2>3. f[k + 1] = AddHwEntry(f[k], h[k + 1])
    BY <1>3, <2>2
  <2> QED BY <2>1, <2>3, EntryKeeps
<1> HIDE DEF T
<1>6. n \in T
  BY <1>4, <1>5, NatSet
<1> QED BY <1>3, <1>6 DEF T, Entering

-----------------------------------------------------------------------------
\* The list of the interfaces and the bounds of the counters.
Kept ==
    /\ if_list \in Seq(Announced)
    /\ sent <= MaxMessages /\ handled <= sent
    /\ \A i \in 1 .. Len(wire) : wire[i] \in Units
    /\ \A i \in 1 .. Len(buf) : buf[i] \in Units

\* What holds of the units of two sequences holds of both together.
LEMMA Joined ==
    ASSUME NEW s \in Seq(Things), NEW t \in Seq(Things),
           \A i \in 1 .. Len(s) : s[i] \in Units, \A i \in 1 .. Len(t) : t[i] \in Units
    PROVE  \A i \in 1 .. Len(s \o t) : (s \o t)[i] \in Units
OBVIOUS

\* The units of a message, within the bounds.
LEMMA UnitsBounded ==
    ASSUME NEW m \in Messages, sent \in Nat, sent <= MaxMessages
    PROVE  \A i \in 1 .. Len(UnitsOf(m)) : UnitsOf(m)[i] \in Units
<1>1. Size(m) \in 2 .. 4 /\ MaxMessages \in Nat
  BY SizeRange, SessionAssumption
<1>2. /\ UnitsOf(m) = [i \in 1 .. Size(m) |-> [id |-> sent + 1, at |-> i, msg |-> m]]
      /\ Len(UnitsOf(m)) = Size(m)
  BY UnitsAre DEF UnitsOf, Size
<1>3. ASSUME NEW i \in 1 .. Size(m) PROVE [id |-> sent + 1, at |-> i, msg |-> m] \in Units
  <2>1. i \in 1 .. LenUnits + 2 /\ sent + 1 \in 1 .. MaxMessages + 1
    BY <1>1 DEF LenUnits
  <2> QED BY <2>1 DEF Units
<1> QED BY <1>2, <1>3

\* What is sent, read and entered stays within its bounds.
LEMMA StepKept == ASSUME Stream, FrameInv, Kept, [SessionNext]_session_vars PROVE Kept'
<1>1. ASSUME NEW m \in Messages, Send(m) PROVE Kept'
  <2>1. PICK u : u = UnitsOf(m)
    OBVIOUS
  <2>2. /\ u \in Seq(Things) /\ wire \in Seq(Things) /\ sent \in Nat /\ sent < MaxMessages
        /\ wire' = wire \o u /\ sent' = sent + 1 /\ UNCHANGED <<buf, handled, if_list>>
        /\ handled \in Nat
    BY <1>1, <2>1, UnitsTyped DEF Send, Stream, FrameInv, reader
  <2>3. \A i \in 1 .. Len(u) : u[i] \in Units
    BY <2>1, <2>2, UnitsBounded, SessionAssumption DEF Kept
  <2>4. sent' <= MaxMessages /\ handled' <= sent'
    BY <2>2, SessionAssumption DEF Kept
  <2>5. \A i \in 1 .. Len(wire') : wire'[i] \in Units
    BY <2>2, <2>3, Joined DEF Kept
  <2> QED BY <2>2, <2>4, <2>5 DEF Kept
<1>2. CASE Drop
  <2>1. PICK u : u = UnitsOf([type |-> "banner"])
    OBVIOUS
  <2>2. [type |-> "banner"] \in Messages
    BY DEF Messages, Plain
  <2>3. u \in Seq(Things) /\ wire \in Seq(Things) /\ sent \in Nat /\ sent <= MaxMessages
    BY <2>1, <2>2, UnitsTyped DEF Stream, Kept
  <2>4. \A i \in 1 .. Len(u) : u[i] \in Units
    BY <2>1, <2>2, <2>3, UnitsBounded
  <2>5. PICK n \in 0 .. Len(u) - 1 : wire' = wire \o SubSeq(u, 1, n)
    BY <1>2, <2>1 DEF Drop
  <2>6. PICK v : v = SubSeq(u, 1, n)
    OBVIOUS
  <2>7. v \in Seq(Things) /\ Len(v) = n /\ \A i \in 1 .. n : v[i] = u[i] /\ i \in 1 .. Len(u)
    <3>1. n \in 0 .. Len(u) /\ \A i \in 1 .. n : i \in 1 .. Len(u)
      BY <2>3, <2>5
    <3> QED BY <2>3, <2>6, <3>1, Parts
  <2>8. \A i \in 1 .. Len(v) : v[i] \in Units
    BY <2>4, <2>7
  <2>9. \A i \in 1 .. Len(wire') : wire'[i] \in Units
    BY <2>3, <2>5, <2>6, <2>7, <2>8, Joined DEF Kept
  <2> QED BY <1>2, <2>9 DEF Drop, Kept, reader
<1>3. CASE Recv
  <2>1. PICK n \in 1 .. Wanted :
           /\ n <= Len(wire)
           /\ buf' = buf \o SubSeq(wire, 1, n)
           /\ wire' = SubSeq(wire, n + 1, Len(wire))
    BY <1>3 DEF Recv
  <2>2. buf \in Seq(Things) /\ wire \in Seq(Things) /\ n \in 0 .. Len(wire) /\ Len(wire) \in Nat
    BY <2>1 DEF Stream
  <2>3. PICK v : v = SubSeq(wire, 1, n)
    OBVIOUS
  <2>4. /\ v \in Seq(Things) /\ Len(v) = n /\ \A i \in 1 .. n : v[i] = wire[i]
        /\ Len(wire') = Len(wire) - n /\ \A i \in 1 .. Len(wire) - n : wire'[i] = wire[n + i]
    BY <2>1, <2>2, <2>3, Parts
  <2>5. (\A i \in 1 .. n : i \in 1 .. Len(wire)) /\ \A i \in 1 .. Len(wire) - n : n + i \in 1 .. Len(wire)
    BY <2>2
  <2>6. (\A i \in 1 .. Len(v) : v[i] \in Units) /\ \A i \in 1 .. Len(wire') : wire'[i] \in Units
    BY <2>4, <2>5 DEF Kept
  <2>7. \A i \in 1 .. Len(buf') : buf'[i] \in Units
    BY <2>1, <2>2, <2>3, <2>4, <2>6, Joined DEF Kept
  <2> QED BY <1>3, <2>6, <2>7 DEF Recv, Kept
<1>4. CASE LoadLine \/ LoadEnds \/ SetupFails \/ Connect \/ SrInit \/ SendOpen \/ RecvFails
           \/ Lookup \/ ForwardFound \/ UNCHANGED session_vars
  <2>1. UNCHANGED <<buf, handled, wire, sent, if_list>>
    BY <1>4 DEF LoadLine, LoadEnds, SetupFails, Connect, SrInit, SendOpen, RecvFails, Lookup,
                ForwardFound, session_vars, reader, network
  <2> QED BY <2>1 DEF Kept
<1>5. CASE Discard \/ HandleAuthRequest \/ HandleAuthStatus \/ HandleRtable \/ HandlePacket
  <2>1. Complete /\ Finished /\ UNCHANGED <<wire, sent, conn, if_list>>
    BY <1>5 DEF Discard, HandleAuthRequest, HandleAuthStatus, HandleRtable, HandlePacket,
                Succeeds, Fails, network
  <2>2. buf' = <<>> /\ handled' <= sent
    BY <2>1, FrameFinished DEF Finished
  <2> QED BY <2>1, <2>2 DEF Kept
<1>6. CASE HandleHwInfo
  <2>1. Complete /\ Finished /\ UNCHANGED <<wire, sent, conn>> /\ if_list' = Described(if_list, Msg.entries)
    BY <1>6 DEF HandleHwInfo, Succeeds, Fails, network, Described
  <2>2. Msg \in Messages /\ Msg.type = "hwinfo"
    BY <1>6, MessageRead DEF HandleHwInfo
  <2>3. Msg.entries \in HwInfos
    BY <2>2, SessionAssumption DEF Messages, Plain, AuthStatus, HwInfo
  <2>4. if_list' \in Seq(Announced)
    BY <2>1, <2>3, DescriptionKeeps DEF Kept
  <2>5. buf' = <<>> /\ handled' <= sent
    BY <2>1, FrameFinished DEF Finished
  <2> QED BY <2>1, <2>4, <2>5 DEF Kept
<1> QED
  BY <1>1, <1>2, <1>3, <1>4, <1>5, <1>6 DEF SessionNext, Router, Server

\* The types of what main and the server remember.
Places == {"load", "connect", "auth_request", "auth_status", "open", "rtable",
           "reload", "init", "run", "ended", "aborted"}
Memory ==
    /\ template \in BOOLEAN /\ vrhost \in BOOLEAN /\ clear \in BOOLEAN /\ written \in BOOLEAN
    /\ origin \in {"none", "local", "server"}
Talk ==
    /\ conn \in {"up", "ended", "reset"} /\ auth \in {"none", "ok", "refused"}
    /\ said \in SUBSET {"auth_reply", "open"}

Control == pc \in Places /\ handling \in BOOLEAN /\ Memory /\ Talk

\* Every step keeps them within their types.
LEMMA StepControl == ASSUME Control, [SessionNext]_session_vars PROVE Control'
<1>1. pc \in Places /\ handling \in BOOLEAN /\ Memory /\ Talk
  BY DEF Control
<1>2. ASSUME NEW m \in Messages, Send(m) PROVE Control'
  <2>1. UNCHANGED <<pc, handling, template, vrhost, clear, origin, written, said>>
    BY <1>2 DEF Send, setup
  <2>2. Talk'
    BY <1>1, <1>2 DEF Send, Talk
  <2> QED BY <1>1, <2>1, <2>2 DEF Control, Memory
<1>3. CASE Drop
  <2>1. /\ UNCHANGED <<pc, handling, template, vrhost, clear, origin, written, auth, said>>
        /\ conn' \in {"ended", "reset"}
    BY <1>3 DEF Drop, setup
  <2> QED BY <1>1, <2>1 DEF Control, Memory, Talk
<1>4. CASE Recv \/ RecvFails \/ SetupFails \/ Connect \/ SrInit \/ Lookup \/ ForwardFound \/ UNCHANGED session_vars
  <2>1. UNCHANGED <<template, vrhost, clear, origin, written, conn, auth, said>>
    BY <1>4 DEF Recv, RecvFails, SetupFails, Connect, SrInit, Lookup, ForwardFound, session_vars, setup, network
  <2>2. pc' \in Places /\ handling' \in BOOLEAN
    BY <1>1, <1>4 DEF Recv, RecvFails, SetupFails, Connect, SrInit, Lookup, ForwardFound, session_vars, Places
  <2> QED BY <1>1, <2>1, <2>2 DEF Control, Memory, Talk
<1>5. CASE LoadLine \/ LoadEnds
  <2>1. UNCHANGED <<handling, conn, auth, said>>
    BY <1>5 DEF LoadLine, LoadEnds, network
  <2>2. pc' \in Places
    BY <1>1, <1>5 DEF LoadLine, LoadEnds, Places
  <2>3. Memory'
    BY <1>1, <1>5 DEF LoadLine, LoadEnds, Memory
  <2> QED BY <1>1, <2>1, <2>2, <2>3 DEF Control, Talk
<1>6. CASE SendOpen
  <2>1. UNCHANGED <<handling, template, vrhost, clear, origin, written, conn, auth>>
    BY <1>6 DEF SendOpen, setup, network
  <2>2. pc' \in Places
    BY <1>6 DEF SendOpen, Places
  <2>3. said' \in SUBSET {"auth_reply", "open"}
    BY <1>1, <1>6 DEF SendOpen, Talk
  <2> QED BY <1>1, <2>1, <2>2, <2>3 DEF Control, Memory, Talk
<1>7. CASE Discard \/ HandleAuthRequest \/ HandleAuthStatus \/ HandleRtable \/ HandleHwInfo \/ HandlePacket
  <2>1. UNCHANGED <<template, vrhost, clear, origin, conn, auth>>
    BY <1>7 DEF Discard, HandleAuthRequest, HandleAuthStatus, HandleRtable, HandleHwInfo, HandlePacket,
                setup, network
  <2>2. pc' \in Places
    <3>1. Succeeds \/ Fails \/ pc' = "aborted"
      BY <1>7 DEF Discard, HandleAuthRequest, HandleAuthStatus, HandleRtable, HandleHwInfo, HandlePacket
    <3> QED BY <3>1 DEF Succeeds, Fails, Places
  <2>3. handling' \in BOOLEAN
    BY <1>1, <1>7 DEF Discard, HandleAuthRequest, HandleAuthStatus, HandleRtable, HandleHwInfo, HandlePacket
  <2>4. written' \in BOOLEAN
    BY <1>1, <1>7 DEF Discard, HandleAuthRequest, HandleAuthStatus, HandleRtable, HandleHwInfo, HandlePacket,
                      setup, Memory
  <2>5. said' \in SUBSET {"auth_reply", "open"}
    BY <1>1, <1>7 DEF Discard, HandleAuthRequest, HandleAuthStatus, HandleRtable, HandleHwInfo, HandlePacket,
                      Talk
  <2> QED BY <1>1, <2>1, <2>2, <2>3, <2>4, <2>5 DEF Control, Memory, Talk
<1> QED
  BY <1>2, <1>3, <1>4, <1>5, <1>6, <1>7 DEF SessionNext, Router, Server

\* Both parts of the invariant, for every step.
LEMMA SessionKept == SessionSpec => [](Stream /\ FrameInv /\ Kept /\ Control)
<1>1. SessionInit => Kept /\ Control
  <2> SUFFICES ASSUME SessionInit PROVE Kept /\ Control
    OBVIOUS
  <2>1. Kept
    BY SessionAssumption DEF SessionInit, Kept
  <2>2. template \in BOOLEAN /\ vrhost \in BOOLEAN
    BY SessionAssumption DEF SessionInit
  <2>3. Control
    BY <2>2 DEF SessionInit, Control, Places, Memory, Talk
  <2> QED BY <2>1, <2>3
<1>2. SessionInv /\ Kept /\ Control /\ [SessionNext]_session_vars => Kept' /\ Control'
  BY StepKept, StepControl DEF SessionInv
<1>3. SessionInv => Stream /\ FrameInv
  BY DEF SessionInv
<1> QED
  BY <1>1, <1>2, <1>3, SessionInvariant, PTL DEF SessionSpec

\* The types of struct sr_instance, and no more than one message is read ahead.
THEOREM SessionTypes == SessionSpec => []SessionTypeOK
<1>1. ASSUME TypeOK, Stream, FrameInv, Kept, Control PROVE SessionTypeOK
  <2>1. Range(buf) \subseteq Units /\ Range(wire) \subseteq Units
    <3>1. DOMAIN buf = 1 .. Len(buf) /\ DOMAIN wire = 1 .. Len(wire)
      BY <1>1 DEF Stream
    <3> QED BY <1>1, <3>1 DEF Kept, Range
  <2>2. Range(if_list) \subseteq [name : Interfaces, addr : {NoAddr} \cup Addr, ip : {NoAddr} \cup Addr]
    <3>1. \A i \in DOMAIN if_list : if_list[i] \in Announced
      BY <1>1 DEF Kept
    <3> QED BY <3>1 DEF Range, Announced
  <2>3. Len(buf) <= LenUnits + 2
    <3>1. Len(buf) \in Nat /\ (buf = <<>> => Len(buf) = 0)
      BY <1>1 DEF Stream
    <3>2. buf # <<>> => Len(buf) <= 4
      <4>1. Size(buf[1].msg) \in 2 .. 4
        BY SizeRange
      <4> QED BY <1>1, <3>1, <4>1 DEF FrameInv
    <3> QED BY <3>1, <3>2 DEF LenUnits
  <2>4. sent \in 0 .. MaxMessages /\ handled \in 0 .. sent
    BY <1>1, SessionAssumption DEF Stream, FrameInv, Kept
  <2> QED BY <1>1, <2>1, <2>2, <2>3, <2>4 DEF SessionTypeOK, Control, Places, Memory, Talk
<1>2. SessionSpec => []TypeOK
  BY SessionImplementsTable, TableTypes DEF TableSpec
<1> QED
  BY <1>1, <1>2, SessionKept, PTL

\* Whatever descriptions arrive, and however often, an address goes to the interface
\* it was announced for.
THEOREM AddressesRight == SessionSpec => []AddressesAsAnnounced
<1>1. Kept => AddressesAsAnnounced
  <2> SUFFICES ASSUME Kept, NEW i \in DOMAIN if_list PROVE if_list[i] \in Announced
    BY DEF AddressesAsAnnounced, Announced
  <2> QED BY DEF Kept
<1> QED
  BY <1>1, SessionKept, PTL
=============================================================================
