------------------------------- MODULE Router -------------------------------
(***************************************************************************)
(* The router: the thread that handles the packets the server passes on    *)
(* (sr_router.c), the thread that wakes every second to age the ARP cache  *)
(* and repeat or give up its requests (sr_arpcache.c), and the cache and   *)
(* requests they share under one lock.                                     *)
(*                                                                         *)
(* The packet thread takes the lock for one call at a time: what it does   *)
(* between two calls (send, or decide from the copy a lookup returned) is  *)
(* a step of its own.  The other thread holds the lock for a whole sweep.  *)
(***************************************************************************)
EXTENDS Integers, FiniteSets

CONSTANTS
    Addrs,          \* the IP addresses packets carry
    Mine,           \* those of the router's interfaces
    Hops,           \* the gateways of the routing table
    NoRoute,        \* what the lookup of the routing table returns for none
    Route,          \* the gateway for each address, or NoRoute
    OutAddr,        \* the address of the interface towards each gateway
    Arrivals,       \* the packets that may arrive
    CacheSize,      \* SR_ARPCACHE_SZ
    CacheTimeout,   \* SR_ARPCACHE_TO, in seconds
    Tries,          \* the requests a sweep sends before it gives up (4)
    MaxPackets,     \* bound: packets that arrive
    MaxAsked        \* bound: requests counted per gateway

Protocols == {"echo_request", "tcp_udp", "other", "arp_request"}

ASSUME RouterAssumption ==
    /\ Mine \subseteq Addrs
    /\ NoRoute \notin Hops
    /\ Route \in [Addrs -> Hops \cup {NoRoute}]
    /\ OutAddr \in [Hops -> Mine]
    /\ Arrivals \subseteq [src : Addrs, dst : Addrs, ttl : 0 .. 255,
                           intact : BOOLEAN, proto : Protocols]
    /\ CacheSize \in Nat /\ CacheTimeout \in Nat
    /\ Tries \in Nat /\ MaxPackets \in Nat
    /\ MaxAsked \in Nat /\ MaxAsked > Tries

VARIABLES
    handled,        \* packets taken from the server so far
    answered,       \* history: those the packet thread answered at once, or dropped
    pc, hop, held,  \* packet thread: what is left of a call, and its arguments
    cache,          \* the valid entries, each with the seconds since it was added
    requests,       \* the gateways with an ARP request on the list
    packets,        \* the messages queued on each request
    times,          \* times_sent
    ago,            \* seconds since sent, 1 for more or never
    sweep,          \* what the sweeping thread does
    todo,           \* the requests its sweep has still to visit
    at, rest,       \* the request it gives up, and the messages left to refuse
    slept,          \* a second has passed since its last sweep
    asked,          \* history: ARP requests sent for each request
    delivered,      \* history: messages sent to a gateway
    refused,        \* history: messages answered with host unreachable
    lost            \* history: messages freed with nothing sent

input   == <<handled, answered>>
thread  == <<pc, hop, held>>
queues  == <<requests, packets, times, ago, asked>>
sweeper == <<sweep, todo, at, rest, slept>>
history == <<delivered, refused, lost>>
vars    == <<input, thread, cache, queues, sweeper, history>>

-----------------------------------------------------------------------------

\* A packet that is forwarded (level 0) or an ICMP error about a message.
Messages == [id : Nat, level : Nat, src : Addrs, dst : Addrs]

\* The host-unreachable message about m that leaves towards n: its source is
\* the address of the interface it leaves by.
Error(m, n) == [id |-> m.id, level |-> m.level + 1, src |-> OutAddr[n], dst |-> m.src]

Running == sweep # "crashed"

\* The packet thread can take the lock.
LockFreeAlways == TRUE  \* Mutant: sr_arpcache_sweepreqs without the lock.
LockFree == sweep = "sleep"

Cached(h) == \E e \in cache : e.ip = h

-----------------------------------------------------------------------------
(* What sr_handlepacket does with a packet: a type of reply it sends at    *)
(* once, nothing, or "forward".                                            *)

\* The driver drops an ARP request for another address than that of the interface
\* it came by, which Mine stands for here.
ArpReqNotForUs(p) == p.proto = "arp_request" /\ p.dst \notin Mine

IpToUs(p) == p.proto # "arp_request" /\ p.dst \in Mine

ToUs(p) ==
    IF p.proto = "echo_request" /\ p.intact THEN "echo_reply"
    ELSE IF p.proto = "tcp_udp" THEN "port_unreachable"
    ELSE "none"

\* The time to live is a byte.
InTransit(p) ==
    IF ~ p.intact THEN "none"
    ELSE IF (p.ttl - 1) % 256 = 0 THEN "time_exceeded"
    ELSE IF Route[p.dst] = NoRoute THEN "net_unreachable"
    ELSE "forward"

Outcome(p) ==
    IF ArpReqNotForUs(p) THEN "none"
    ELSE IF p.proto = "arp_request" THEN "arp_reply"
    ELSE IF IpToUs(p) THEN ToUs(p)
    ELSE InTransit(p)

-----------------------------------------------------------------------------

Init ==
    /\ handled = 0 /\ answered = {}
    /\ pc = "idle" /\ hop = NoRoute /\ held = {}
    /\ cache = {}
    /\ requests = {} /\ packets = [h \in Hops |-> {}]
    /\ times = [h \in Hops |-> 0] /\ ago = [h \in Hops |-> 1]
    /\ asked = [h \in Hops |-> 0]
    /\ sweep = "sleep" /\ todo = {} /\ at = NoRoute /\ rest = {} /\ slept = FALSE
    /\ delivered = {} /\ refused = {} /\ lost = {}

\* One more ARP request for h leaves.
Asked(h) == [asked EXCEPT ![h] = IF @ < MaxAsked THEN @ + 1 ELSE @]

\* sr_arpcache_queuereq: m joins the request for h, which is made if need be.
QueueReq(h, m) ==
    /\ requests' = requests \cup {h}
    /\ packets' = [packets EXCEPT ![h] = @ \cup {m}]

\* The request for h leaves the list; a new one would start from zero.
RemoveReqKeepsTimes(h) ==  \* Mutant: the record of the request is reused.
    /\ requests' = requests \ {h}
    /\ packets' = [packets EXCEPT ![h] = {}]
    /\ times' = times
    /\ ago' = [ago EXCEPT ![h] = 1]
    /\ asked' = [asked EXCEPT ![h] = 0]

RemoveReqStaysOnList(h) ==  \* Mutant: its packets are freed, but it is not unlinked.
    /\ requests' = requests
    /\ packets' = [packets EXCEPT ![h] = {}]
    /\ times' = [times EXCEPT ![h] = 0]
    /\ ago' = [ago EXCEPT ![h] = 1]
    /\ asked' = [asked EXCEPT ![h] = 0]

RemoveReqKeepsPackets(h) ==  \* Mutant: the request is not taken off the list.
    UNCHANGED queues

RemoveReq(h) ==
    /\ requests' = requests \ {h}
    /\ packets' = [packets EXCEPT ![h] = {}]
    /\ times' = [times EXCEPT ![h] = 0]
    /\ ago' = [ago EXCEPT ![h] = 1]
    /\ asked' = [asked EXCEPT ![h] = 0]

Return == pc' = "idle" /\ hop' = NoRoute /\ held' = {}

-----------------------------------------------------------------------------
(* The packet thread.                                                      *)

\* A packet arrives that is answered at once, or dropped.
Answer(p) ==
    /\ pc = "idle" /\ Running /\ handled < MaxPackets
    /\ Outcome(p) # "forward"
    /\ handled' = handled + 1
    /\ answered' = answered \cup {handled + 1}
    /\ UNCHANGED <<thread, cache, queues, sweeper, history>>

\* A packet arrives for a gateway whose address the cache holds (the lookup
\* returns a copy), or does not.
Forward(p) ==
    /\ pc = "idle" /\ LockFree /\ handled < MaxPackets
    /\ Outcome(p) = "forward"
    /\ handled' = handled + 1
    /\ LET m == [id |-> handled + 1, level |-> 0, src |-> p.src, dst |-> p.dst]
           h == Route[p.dst]
       IN  \/ /\ Cached(h)
              /\ delivered' = delivered \cup {m}
              /\ UNCHANGED thread
           \/ /\ ~ Cached(h)
              /\ pc' = "queue" /\ hop' = h /\ held' = {m}
              /\ UNCHANGED delivered
    /\ UNCHANGED <<answered, cache, queues, sweeper, refused, lost>>

QueueRequest ==
    /\ pc = "queue" /\ LockFree
    /\ \E m \in held : QueueReq(hop, m)
    /\ pc' = "ask" /\ held' = {}
    /\ UNCHANGED <<input, hop, cache, times, ago, asked, sweeper, history>>

\* The request is sent without the lock, and not counted in times_sent.
SendRequest ==
    /\ pc = "ask" /\ Running
    /\ asked' = IF hop \in requests THEN Asked(hop) ELSE asked
    /\ Return
    /\ UNCHANGED <<input, cache, requests, packets, times, ago, sweeper, history>>

\* An ARP reply from h arrives, asked for or not: sr_handle_arp_reply looks h up.
Reply(h) ==
    /\ pc = "idle" /\ LockFree
    /\ pc' = IF Cached(h) THEN "resend" ELSE "insert"
    /\ hop' = h
    /\ UNCHANGED <<input, held, cache, queues, sweeper, history>>

\* sr_arpcache_insert: the request comes off the list, the mapping goes in if a
\* slot is free.
InsertEntryIfRoom ==  \* Mutant: with a full cache the queued packets are dropped.
    /\ pc = "insert" /\ LockFree
    /\ cache' = IF Cardinality(cache) < CacheSize
                THEN cache \cup {[ip |-> hop, age |-> 0]} ELSE cache
    /\ RemoveReq(hop)
    /\ IF hop \in requests /\ Cardinality(cache) < CacheSize
       THEN pc' = "flush" /\ held' = packets[hop] /\ UNCHANGED hop
       ELSE Return
    /\ UNCHANGED <<input, sweeper, history>>

InsertEntryAnywhere ==  \* Mutant: no slot has to be free.
    /\ pc = "insert" /\ LockFree
    /\ cache' = cache \cup {[ip |-> hop, age |-> 0]}
    /\ RemoveReq(hop)
    /\ IF hop \in requests
       THEN pc' = "flush" /\ held' = packets[hop] /\ UNCHANGED hop
       ELSE Return
    /\ UNCHANGED <<input, sweeper, history>>

InsertEntry ==
    /\ pc = "insert" /\ LockFree
    /\ cache' = IF Cardinality(cache) < CacheSize
                THEN cache \cup {[ip |-> hop, age |-> 0]} ELSE cache
    /\ RemoveReq(hop)
    /\ IF hop \in requests
       THEN pc' = "flush" /\ held' = packets[hop] /\ UNCHANGED hop
       ELSE Return
    /\ UNCHANGED <<input, sweeper, history>>

\* Its packets are sent without the lock.
SendQueuedPackets ==
    /\ pc = "flush" /\ Running
    /\ delivered' = delivered \cup held
    /\ Return
    /\ UNCHANGED <<input, cache, queues, sweeper, refused, lost>>

\* sr_arp_send_packets: the mapping was known when the reply came.
ResendPackets ==
    /\ pc = "resend" /\ LockFree
    /\ \/ /\ hop \in requests
          /\ delivered' = delivered \cup packets[hop]
          /\ RemoveReq(hop)
       \/ hop \notin requests /\ UNCHANGED <<delivered, queues>>
    /\ Return
    /\ UNCHANGED <<input, cache, sweeper, refused, lost>>

-----------------------------------------------------------------------------
(* The sweeping thread.                                                    *)

\* A second passes.
Tick ==
    /\ Running
    /\ cache' = {[ip |-> e.ip,
                  age |-> IF e.age > CacheTimeout THEN e.age ELSE e.age + 1] : e \in cache}
    /\ ago' = [h \in Hops |-> 1]
    /\ slept' = TRUE
    /\ UNCHANGED <<input, thread, requests, packets, times, asked,
                   sweep, todo, at, rest, history>>

\* The thread wakes, takes the lock, drops the old entries, and looks at the
\* requests that were not sent within the last second.
BeginSweep ==
    /\ sweep = "sleep" /\ slept
    /\ cache' = {e \in cache : e.age <= CacheTimeout}
    /\ sweep' = "visit"
    /\ todo' = {h \in requests : ago[h] >= 1}
    /\ UNCHANGED <<input, thread, queues, at, rest, slept, history>>

ResendRequest(h) ==
    /\ sweep = "visit" /\ h \in todo /\ times[h] < Tries
    /\ times' = [times EXCEPT ![h] = @ + 1]
    /\ ago' = [ago EXCEPT ![h] = 0]
    /\ asked' = Asked(h)
    /\ todo' = todo \ {h}
    /\ UNCHANGED <<input, thread, cache, requests, packets,
                   sweep, at, rest, slept, history>>

GiveUp(h) ==
    /\ sweep = "visit" /\ h \in todo /\ times[h] >= Tries
    /\ sweep' = "refuse" /\ at' = h /\ rest' = packets[h]
    /\ todo' = todo \ {h}
    /\ UNCHANGED <<input, thread, cache, queues, slept, history>>

RefuseAlwaysQueues(m) ==  \* Mutant: the cache is not looked up for the error.
    /\ sweep = "refuse" /\ m \in rest
    /\ rest' = rest \ {m}
    /\ LET n == Route[m.src] IN
       /\ n # NoRoute
       /\ QueueReq(n, Error(m, n))
       /\ asked' = Asked(n)
       /\ refused' = refused \cup {m}
    /\ UNCHANGED <<input, thread, cache, times, ago, sweep, todo, at, slept, delivered, lost>>

\* sr_send_icmp_host_unreachable: the error is itself a packet to forward, and
\* the route to its destination is not checked.
Refuse(m) ==
    /\ sweep = "refuse" /\ m \in rest
    /\ rest' = rest \ {m}
    /\ LET n == Route[m.src] IN
       \/ /\ n = NoRoute
          /\ sweep' = "crashed"
          /\ UNCHANGED <<queues, history>>
       \/ /\ n # NoRoute /\ Cached(n)
          /\ delivered' = delivered \cup {Error(m, n)}
          /\ refused' = refused \cup {m}
          /\ UNCHANGED <<sweep, queues, lost>>
       \/ /\ n # NoRoute /\ ~ Cached(n)
          /\ QueueReq(n, Error(m, n))
          /\ asked' = Asked(n)
          /\ refused' = refused \cup {m}
          /\ UNCHANGED <<sweep, times, ago, delivered, lost>>
    /\ UNCHANGED <<input, thread, cache, todo, at, slept>>

\* sr_arpreq_destroy frees what is queued on the request, read or not.
DestroyRequest ==
    /\ sweep = "refuse" /\ rest = {}
    /\ lost' = lost \cup (packets[at] \ refused)
    /\ RemoveReq(at)
    /\ sweep' = "visit" /\ at' = NoRoute
    /\ UNCHANGED <<input, thread, cache, todo, rest, slept, delivered, refused>>

\* The lock is released and the thread sleeps.
EndSweep ==
    /\ sweep = "visit" /\ todo = {}
    /\ sweep' = "sleep" /\ slept' = FALSE
    /\ UNCHANGED <<input, thread, cache, queues, todo, at, rest, history>>

-----------------------------------------------------------------------------

Arrive == \E p \in Arrivals : Answer(p) \/ Forward(p)
ArpReply == \E h \in Hops : Reply(h)
PacketThread == QueueRequest \/ SendRequest \/ InsertEntry \/ SendQueuedPackets \/ ResendPackets
Sweeper ==
    \/ BeginSweep \/ DestroyRequest \/ EndSweep
    \/ \E h \in todo : ResendRequest(h) \/ GiveUp(h)
    \/ \E m \in rest : Refuse(m)

Next == Arrive \/ ArpReply \/ PacketThread \/ Tick \/ Sweeper

Spec == Init /\ [][Next]_vars

\* Time passes and both threads run.  The packet thread needs a lock that comes
\* and goes: strong fairness, because the other thread sleeps a second without it.
Fairness == WF_vars(Tick) /\ WF_vars(Sweeper) /\ SF_vars(PacketThread)

FairSpec == Spec /\ Fairness

-----------------------------------------------------------------------------

\* Where a message can be while the router is responsible for it.  The messages
\* of a request that is being given up stay on it until it is destroyed.
Queued == (UNION {packets[h] : h \in Hops}) \ refused

\* The types of the variables: sr_arpcache.h and the arguments of the calls in
\* progress; a request carries at most Tries resends.
TypeOK ==
    /\ handled \in 0 .. MaxPackets
    /\ answered \subseteq 1 .. handled
    /\ pc \in {"idle", "queue", "ask", "insert", "flush", "resend"}
    /\ hop \in Hops \cup {NoRoute} /\ (pc # "idle" => hop \in Hops)
    /\ held \subseteq Messages
    /\ cache \subseteq [ip : Hops, age : 0 .. CacheTimeout + 1]
    /\ requests \subseteq Hops
    /\ packets \in [Hops -> SUBSET Messages]
    /\ times \in [Hops -> 0 .. Tries] /\ ago \in [Hops -> 0 .. 1]
    /\ asked \in [Hops -> 0 .. MaxAsked]
    /\ sweep \in {"sleep", "visit", "refuse", "crashed"}
    /\ todo \subseteq requests
    /\ at \in Hops \cup {NoRoute} /\ (sweep = "refuse" => at \in requests)
    /\ rest \subseteq Messages
    /\ slept \in BOOLEAN
    /\ delivered \subseteq Messages /\ refused \subseteq Messages /\ lost \subseteq Messages

\* No packet waits for an address the cache holds: between a lookup that misses
\* and the call that queues (sr_forward_packet) or inserts (sr_handle_arp_reply)
\* the lock is free, and still neither thread can add the mapping or the request.
CachedNotRequested == \A e \in cache : e.ip \notin requests

\* The cache holds one mapping for a gateway, in at most SR_ARPCACHE_SZ slots:
\* sr_handle_arp_reply looks up and inserts under two holds of the lock.
OneEntryPerHop ==
    /\ \A e, f \in cache : e.ip = f.ip => e = f
    /\ Cardinality(cache) <= CacheSize

\* Every packet is answered, or in exactly one place: held by the packet thread,
\* queued, sent, refused or lost.  No packet is both sent and refused, and none
\* is sent twice, whichever thread comes first.
OneFate ==
    LET places == <<IF pc \in {"queue", "flush"} THEN held ELSE {}, Queued, delivered, refused, lost>>
    IN  /\ \A i, j \in DOMAIN places : i # j => places[i] \cap places[j] = {}
        /\ \A g, h \in Hops : g # h => packets[g] \cap packets[h] = {}
        /\ Running => \A i \in 1 .. handled :
              \/ i \in answered
              \/ \E j \in DOMAIN places : \E m \in places[j] : m.id = i /\ m.level = 0

\* The messages freed unread are errors the router made itself: a packet that
\* was accepted is never queued on a request that is being destroyed.
NoPacketLost == \A m \in lost : m.level > 0

\* A request on the list has a packet, as sr_arpcache_sweepreqs asserts before
\* it sends the request again by the interface of the first one.
RequestHasPackets == \A h \in requests : packets[h] # {}

\* Nobody is told that a host is unreachable before one request more than the
\* sweeps count has left, unless the packet thread has not yet sent its own.
GivesUpAfterAll ==
    sweep = "refuse" => asked[at] > Tries \/ (pc = "ask" /\ hop = at)

\* "ARP requests are sent every second until we send 5 ARP requests"
\* (sr_arpcache.h): no more than that are sent for a request.
AtMostFiveRequests == \A h \in Hops : asked[h] <= Tries + 1

\* "send icmp host unreachable to source addr of all pkts waiting on this
\* request" (sr_arpcache.h): the sweep can send it for each of them.
SourcesReachable == sweep = "refuse" => \A m \in rest : Route[m.src] # NoRoute

Settled(i) ==
    \/ i \in answered
    \/ \E m \in delivered \cup refused : m.id = i /\ m.level = 0

\* Whatever the gateways answer, a packet does not wait for ever: it is sent or
\* its sender is told (sr_arpcache_sweepreqs ends every request), unless the router
\* was killed by a message it could not refuse.
EveryPacketSettled == \A i \in 1 .. MaxPackets : handled >= i ~> Settled(i) \/ ~ Running
=============================================================================
