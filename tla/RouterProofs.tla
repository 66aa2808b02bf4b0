---------------------------- MODULE RouterProofs ----------------------------
(***************************************************************************)
(* What holds of the router for any routing table, any number of packets   *)
(* and any cache: types, the relation between the cache and the requests,  *)
(* how long a request is kept, and what becomes of a packet.  The          *)
(* invariants are proved one upon the other: each may use those before it. *)
(***************************************************************************)
EXTENDS Router, FiniteSetTheorems, TLAPS

\* The sweep visits requests that are on the list, each once.
SweepInv ==
    /\ sweep = "sleep" => todo = {}
    /\ sweep = "refuse" => at \notin todo

TypeInv == TypeOK /\ SweepInv

\* The types, with what the sweep knows of its requests.
LEMMA TypesAndSweep == Spec => []TypeInv
<1> USE RouterAssumption
<1>1. Init => TypeInv
  <2> SUFFICES ASSUME Init PROVE TypeInv
    OBVIOUS
  <2>1. /\ packets \in [Hops -> SUBSET Messages]
        /\ times \in [Hops -> 0 .. Tries] /\ ago \in [Hops -> 0 .. 1]
        /\ asked \in [Hops -> 0 .. MaxAsked]
    BY DEF Init
  <2>2. handled \in 0 .. MaxPackets
    BY DEF Init
  <2>3. slept \in BOOLEAN
    BY Zenon DEF Init
  <2> QED
    BY <2>1, <2>2, <2>3 DEF Init, TypeInv, TypeOK, SweepInv
<1>2. TypeInv /\ [Next]_vars => TypeInv'
  <2> SUFFICES ASSUME TypeInv, [Next]_vars PROVE TypeInv'
    OBVIOUS
  <2> USE DEF TypeInv, TypeOK, SweepInv, Messages, LockFree, Running
  <2>1. ASSUME NEW p \in Arrivals, Answer(p) PROVE TypeInv'
    BY <2>1 DEF Answer, thread, queues, sweeper, history
  <2>2. ASSUME NEW p \in Arrivals, Forward(p) PROVE TypeInv'
    <3>1. Route[p.dst] \in Hops /\ p.src \in Addrs /\ p.dst \in Addrs
      BY <2>2 DEF Forward, Outcome, ToUs, InTransit
    <3>2. [id |-> handled + 1, level |-> 0, src |-> p.src, dst |-> p.dst] \in Messages
      BY <3>1
    <3> QED
      BY <2>2, <3>1, <3>2 DEF Forward, thread, queues, sweeper
  <2>3. CASE QueueRequest
    BY <2>3 DEF QueueRequest, QueueReq, input, sweeper, history
  <2>4. CASE SendRequest
    BY <2>4 DEF SendRequest, Asked, Return, input, sweeper, history
  <2>5. ASSUME NEW h \in Hops, Reply(h) PROVE TypeInv'
    BY <2>5 DEF Reply, input, queues, sweeper, history
  <2>6. CASE InsertEntry
    BY <2>6 DEF InsertEntry, RemoveReq, Return, input, sweeper, history
  <2>7. CASE SendQueuedPackets
    BY <2>7 DEF SendQueuedPackets, Return, input, queues, sweeper
  <2>8. CASE ResendPackets
    BY <2>8 DEF ResendPackets, RemoveReq, Return, input, queues, sweeper
  <2>9. CASE Tick
    BY <2>9 DEF Tick, input, thread, history
  <2>10. CASE BeginSweep
    BY <2>10 DEF BeginSweep, input, thread, queues, history
  <2>11. CASE DestroyRequest
    BY <2>11 DEF DestroyRequest, RemoveReq, input, thread
  <2>12. CASE EndSweep
    BY <2>12 DEF EndSweep, input, thread, queues, history
  <2>13. ASSUME NEW h \in todo, ResendRequest(h) PROVE TypeInv'
    BY <2>13 DEF ResendRequest, Asked, input, thread, history
  <2>14. ASSUME NEW h \in todo, GiveUp(h) PROVE TypeInv'
    BY <2>14 DEF GiveUp, input, thread, queues, history
  <2>15. ASSUME NEW m \in rest, Refuse(m) PROVE TypeInv'
    <3>1. Route[m.src] # NoRoute => Route[m.src] \in Hops /\ Error(m, Route[m.src]) \in Messages
      BY DEF Error
    <3> QED
      BY <2>15, <3>1 DEF Refuse, QueueReq, Asked, input, thread, queues, history
  <2>16. CASE UNCHANGED vars
    BY <2>16 DEF vars, input, thread, queues, sweeper, history
  <2> QED
    BY <2>1, <2>2, <2>3, <2>4, <2>5, <2>6, <2>7, <2>8, <2>9, <2>10, <2>11, <2>12, <2>13,
       <2>14, <2>15, <2>16 DEF Next, Arrive, ArpReply, PacketThread, Sweeper
<1> QED
  BY <1>1, <1>2, PTL DEF Spec

\* TypeOK is an invariant of the router for every routing table and every bound.
THEOREM TypeCorrect == Spec => []TypeOK
  BY TypesAndSweep, PTL DEF TypeInv

-----------------------------------------------------------------------------

\* Between a lookup that misses and the call that follows, the mapping does not
\* appear: only the packet thread inserts.
LookupInv == pc \in {"queue", "insert"} => ~ Cached(hop)

\* The number of entries is meaningful, and at most the slots.
SlotsInv == IsFiniteSet(cache) /\ Cardinality(cache) <= CacheSize

UniqueInv == \A e, f \in cache : e.ip = f.ip => e = f

CacheInv == CachedNotRequested /\ LookupInv /\ UniqueInv

\* A tick keeps the number of entries, or less.
LEMMA TickKeepsSlots == ASSUME TypeOK, SlotsInv, Tick PROVE SlotsInv'
<1> DEFINE Older(e) == [ip |-> e.ip, age |-> IF e.age > CacheTimeout THEN e.age ELSE e.age + 1]
<1> DEFINE f == [e \in cache |-> Older(e)]
<1>1. f \in Surjection(cache, cache')
  BY DEF Tick, Surjection
<1>2. IsFiniteSet(cache') /\ Cardinality(cache') <= Cardinality(cache)
  <2> HIDE DEF f
  <2> QED BY <1>1, FS_Surjection DEF SlotsInv
<1>3. Cardinality(cache) \in Nat /\ Cardinality(cache') \in Nat
  BY <1>2, FS_CardinalityType DEF SlotsInv
<1> QED
  BY <1>2, <1>3, RouterAssumption DEF SlotsInv

\* An insertion fills a slot that is free, or none.
LEMMA InsertKeepsSlots == ASSUME SlotsInv, InsertEntry PROVE SlotsInv'
<1> DEFINE e == [ip |-> hop, age |-> 0]
<1>1. Cardinality(cache) \in Nat
  BY FS_CardinalityType DEF SlotsInv
<1>2. /\ IsFiniteSet(cache \cup {e})
      /\ Cardinality(cache \cup {e}) = Cardinality(cache) \/ Cardinality(cache \cup {e}) = Cardinality(cache) + 1
  BY FS_AddElement DEF SlotsInv
<1>3. cache' = cache \/ (Cardinality(cache) < CacheSize /\ cache' = cache \cup {e})
  BY DEF InsertEntry
<1>4. CacheSize \in Nat
  BY RouterAssumption
<1> HIDE DEF e
<1>5. CASE cache' = cache
  BY <1>5 DEF SlotsInv
<1>6. CASE Cardinality(cache) < CacheSize /\ cache' = cache \cup {e}
  BY <1>1, <1>2, <1>4, <1>6 DEF SlotsInv
<1> QED
  BY <1>3, <1>5, <1>6

\* A sweep only takes entries away.
LEMMA SweepKeepsSlots == ASSUME SlotsInv, BeginSweep PROVE SlotsInv'
<1>1. cache' \subseteq cache
  BY DEF BeginSweep
<1>2. IsFiniteSet(cache') /\ Cardinality(cache') <= Cardinality(cache)
  BY <1>1, FS_Subset DEF SlotsInv
<1>3. Cardinality(cache) \in Nat /\ Cardinality(cache') \in Nat
  BY <1>2, FS_CardinalityType DEF SlotsInv
<1> QED
  BY <1>2, <1>3, RouterAssumption DEF SlotsInv

\* The entries never outnumber the slots: sr_arpcache_insert looks for a free one.
LEMMA SlotsSuffice == Spec => []SlotsInv
<1>1. Init => SlotsInv
  BY FS_EmptySet, RouterAssumption DEF Init, SlotsInv
<1>2. TypeOK /\ SlotsInv /\ [Next]_vars => SlotsInv'
  <2> SUFFICES ASSUME TypeOK, SlotsInv, [Next]_vars PROVE SlotsInv'
    OBVIOUS
  <2>1. CASE InsertEntry
    BY <2>1, InsertKeepsSlots
  <2>2. CASE Tick
    BY <2>2, TickKeepsSlots
  <2>3. CASE BeginSweep
    BY <2>3, SweepKeepsSlots
  <2>4. CASE UNCHANGED cache
    BY <2>4 DEF SlotsInv
  <2>5. InsertEntry \/ Tick \/ BeginSweep \/ UNCHANGED cache
    BY DEF Next, Arrive, ArpReply, PacketThread, Sweeper, Answer, Forward, QueueRequest,
           SendRequest, Reply, SendQueuedPackets, ResendPackets, DestroyRequest, EndSweep,
           ResendRequest, GiveUp, Refuse, vars
  <2> QED
    BY <2>1, <2>2, <2>3, <2>4, <2>5
<1> QED
  BY <1>1, <1>2, TypeCorrect, PTL DEF Spec

\* The steps that may change the cache, the requests or a pending call.
LEMMA CacheInvariant == Spec => []CacheInv
<1>1. Init => CacheInv
  BY DEF Init, CacheInv, CachedNotRequested, UniqueInv, LookupInv
<1>2. TypeOK /\ CacheInv /\ [Next]_vars => CacheInv'
  <2> SUFFICES ASSUME TypeOK, CacheInv, [Next]_vars PROVE CacheInv'
    OBVIOUS
  <2> USE DEF CacheInv, CachedNotRequested, UniqueInv, LookupInv, Cached
  <2>1. ASSUME NEW p \in Arrivals, Forward(p) PROVE CacheInv'
    BY <2>1 DEF Forward, queues, thread
  <2>2. CASE QueueRequest
    BY <2>2 DEF QueueRequest, QueueReq
  <2>3. ASSUME NEW h \in Hops, Reply(h) PROVE CacheInv'
    BY <2>3 DEF Reply, queues
  <2>4. CASE InsertEntry
    <3>1. cache' \subseteq cache \cup {[ip |-> hop, age |-> 0]} /\ requests' = requests \ {hop}
      BY <2>4 DEF InsertEntry, RemoveReq
    <3>2. pc' \in {"flush", "idle"} /\ pc = "insert"
      BY <2>4 DEF InsertEntry, Return
    <3> QED
      BY <3>1, <3>2
  <2>5. CASE ResendPackets
    BY <2>5 DEF ResendPackets, RemoveReq, Return, queues
  <2>6. CASE Tick
    <3>1. \A e \in cache' : \E f \in cache : e.ip = f.ip
      BY <2>6 DEF Tick
    <3>2. UniqueInv'
      BY <2>6 DEF Tick
    <3> QED
      BY <2>6, <3>1, <3>2 DEF Tick, thread
  <2>7. CASE BeginSweep
    BY <2>7 DEF BeginSweep, thread, queues
  <2>8. CASE DestroyRequest
    BY <2>8 DEF DestroyRequest, RemoveReq, thread
  <2>9. ASSUME NEW m \in rest, Refuse(m) PROVE CacheInv'
    BY <2>9 DEF Refuse, QueueReq, thread, queues
  <2>10. CASE SendRequest \/ SendQueuedPackets
    BY <2>10 DEF SendRequest, SendQueuedPackets, Return, queues
  <2>11. CASE UNCHANGED <<cache, requests, pc, hop>>
    BY <2>11
  <2>12. (\E p \in Arrivals : Answer(p)) \/ EndSweep \/ (\E h \in todo : ResendRequest(h) \/ GiveUp(h))
         \/ UNCHANGED vars => UNCHANGED <<cache, requests, pc, hop>>
    BY DEF Answer, EndSweep, ResendRequest, GiveUp, vars, thread, queues
  <2> QED
    BY <2>1, <2>2, <2>3, <2>4, <2>5, <2>6, <2>7, <2>8, <2>9, <2>10, <2>11, <2>12
       DEF Next, Arrive, ArpReply, PacketThread, Sweeper
<1> QED
  BY <1>1, <1>2, TypeCorrect, PTL DEF Spec

\* No packet waits for an address the cache holds, for every routing table.
THEOREM KnownIsNotRequested == Spec => []CachedNotRequested
  BY CacheInvariant, PTL DEF CacheInv

\* The cache holds one mapping for a gateway, within its slots.
THEOREM CacheConsistent == Spec => []OneEntryPerHop
<1>1. CacheInv /\ SlotsInv => OneEntryPerHop
  BY DEF CacheInv, UniqueInv, SlotsInv, OneEntryPerHop
<1> QED
  BY <1>1, CacheInvariant, SlotsSuffice, PTL

-----------------------------------------------------------------------------

\* The packet thread never queues an empty call.
HeldInv == pc = "queue" => held # {}

\* A request on the list has a packet: the assertion of sr_arpcache_sweepreqs.
THEOREM RequestsHavePackets == Spec => []RequestHasPackets
<1> DEFINE I == RequestHasPackets /\ HeldInv
<1>1. Init => I
  BY DEF Init, RequestHasPackets, HeldInv
<1>2. TypeOK /\ I /\ [Next]_vars => I'
  <2> SUFFICES ASSUME TypeOK, I, [Next]_vars PROVE I'
    OBVIOUS
  <2> USE DEF RequestHasPackets, HeldInv, TypeOK
  <2>1. ASSUME NEW p \in Arrivals, Forward(p) PROVE I'
    BY <2>1 DEF Forward, queues, thread
  <2>2. CASE QueueRequest
    BY <2>2 DEF QueueRequest, QueueReq
  <2>3. CASE InsertEntry
    BY <2>3 DEF InsertEntry, RemoveReq, Return
  <2>4. CASE ResendPackets
    BY <2>4 DEF ResendPackets, RemoveReq, Return, queues
  <2>5. CASE DestroyRequest
    BY <2>5 DEF DestroyRequest, RemoveReq, thread
  <2>6. ASSUME NEW m \in rest, Refuse(m) PROVE I'
    <3>1. Route[m.src] # NoRoute => Route[m.src] \in Hops
      BY RouterAssumption DEF Messages
    <3> QED
      BY <2>6, <3>1 DEF Refuse, QueueReq, thread, queues
  <2>7. CASE UNCHANGED <<requests, packets>> /\ (UNCHANGED <<pc, held>> \/ pc' # "queue")
    BY <2>7
  <2>8. (\E p \in Arrivals : Answer(p)) \/ (\E h \in Hops : Reply(h)) \/ SendRequest
        \/ SendQueuedPackets \/ Tick \/ BeginSweep \/ EndSweep
        \/ (\E h \in todo : ResendRequest(h) \/ GiveUp(h)) \/ UNCHANGED vars
        => UNCHANGED <<requests, packets>> /\ (UNCHANGED <<pc, held>> \/ pc' # "queue")
    BY DEF Answer, Reply, SendRequest, SendQueuedPackets, Tick, BeginSweep, EndSweep,
           ResendRequest, GiveUp, Return, vars, thread, queues
  <2> QED
    BY <2>1, <2>2, <2>3, <2>4, <2>5, <2>6, <2>7, <2>8
       DEF Next, Arrive, ArpReply, PacketThread, Sweeper
<1> QED
  BY <1>1, <1>2, TypeCorrect, PTL DEF Spec

-----------------------------------------------------------------------------

\* For a request on the list, one ARP request more has left than the sweeps
\* count, except while the packet thread has still to send its own.
AskedInv ==
    /\ \A h \in Hops \ requests : times[h] = 0 /\ asked[h] = 0
    /\ \A h \in requests :
          asked[h] > times[h] \/ (pc = "ask" /\ hop = h /\ asked[h] >= times[h])
    /\ sweep = "refuse" => times[at] >= Tries

\* Host unreachable is not sent before all the ARP requests have been.
THEOREM PatientSweep == Spec => []GivesUpAfterAll
<1>1. Init => AskedInv
  BY DEF Init, AskedInv
<1>2. TypeOK /\ AskedInv /\ [Next]_vars => AskedInv'
  <2> SUFFICES ASSUME TypeOK, AskedInv, [Next]_vars PROVE AskedInv'
    OBVIOUS
  <2>a. Tries \in Nat /\ MaxAsked \in Nat /\ MaxAsked > Tries
    BY RouterAssumption
  <2> USE <2>a DEF AskedInv, TypeOK
  <2>1. ASSUME NEW p \in Arrivals, Forward(p) PROVE AskedInv'
    BY <2>1 DEF Forward, queues, sweeper
  <2>2. CASE QueueRequest
    BY <2>2 DEF QueueRequest, QueueReq, sweeper
  <2>3. CASE SendRequest
    BY <2>3 DEF SendRequest, Asked, Return, sweeper
  <2>4. CASE InsertEntry
    BY <2>4 DEF InsertEntry, RemoveReq, Return, LockFree, sweeper
  <2>5. CASE ResendPackets
    BY <2>5 DEF ResendPackets, RemoveReq, Return, LockFree, queues, sweeper
  <2>6. CASE DestroyRequest
    BY <2>6 DEF DestroyRequest, RemoveReq, thread
  <2>7. ASSUME NEW h \in todo, ResendRequest(h) PROVE AskedInv'
    BY <2>7 DEF ResendRequest, Asked, thread
  <2>8. ASSUME NEW h \in todo, GiveUp(h) PROVE AskedInv'
    BY <2>8 DEF GiveUp, thread, queues
  <2>9. ASSUME NEW m \in rest, Refuse(m) PROVE AskedInv'
    <3>1. Route[m.src] # NoRoute => Route[m.src] \in Hops
      BY RouterAssumption DEF Messages
    <3> QED
      BY <2>9, <3>1 DEF Refuse, QueueReq, Asked, thread, queues
  <2>10. CASE Tick \/ BeginSweep \/ EndSweep
    BY <2>10 DEF Tick, BeginSweep, EndSweep, thread, queues
  <2>11. CASE UNCHANGED <<requests, times, asked, sweep, at>> /\ (UNCHANGED <<pc, hop>> \/ pc # "ask")
    BY <2>11
  <2>12. (\E p \in Arrivals : Answer(p)) \/ (\E h \in Hops : Reply(h)) \/ SendQueuedPackets \/ UNCHANGED vars
         => UNCHANGED <<requests, times, asked, sweep, at>> /\ (UNCHANGED <<pc, hop>> \/ pc # "ask")
    BY DEF Answer, Reply, SendQueuedPackets, vars, thread, queues, sweeper
  <2> QED
    BY <2>1, <2>2, <2>3, <2>4, <2>5, <2>6, <2>7, <2>8, <2>9, <2>10, <2>11, <2>12
       DEF Next, Arrive, ArpReply, PacketThread, Sweeper
<1>3. TypeOK /\ AskedInv => GivesUpAfterAll
  BY RouterAssumption DEF TypeOK, AskedInv, GivesUpAfterAll
<1> QED
  BY <1>1, <1>2, <1>3, TypeCorrect, PTL DEF Spec

-----------------------------------------------------------------------------
(* What becomes of a packet the router has accepted: it is in one place,   *)
(* and is sent or refused once.  The messages of one packet, the packet    *)
(* itself and the errors about it, are told apart by their levels, and an  *)
(* error is only made when the message it is about is refused, which       *)
(* happens once: so a new message is never one the router has already.     *)


\* All the messages the router has or has had.
Waiting == UNION {packets[h] : h \in Hops}
All == held \cup Waiting \cup delivered \cup refused \cup lost

\* One message of each level about each packet.
Unique == \A x, y \in All : x.id = y.id /\ x.level = y.level => x = y

\* An error is about a message that was refused.
Family ==
    \A x \in All :
        /\ x \in Messages /\ x.id \in 1 .. handled
        /\ x.level > 0 => \E p \in refused : p.id = x.id /\ p.level + 1 = x.level

\* What the packet thread holds between two holds of the lock.
Holding ==
    /\ pc \notin {"queue", "flush"} => held = {}
    /\ pc = "queue" => \E m \in held : held = {m}

\* The places of a message.  Those of the request that is given up stay on it.
Apart ==
    /\ \A m \in held : m \notin Waiting /\ m \notin delivered /\ m \notin refused /\ m \notin lost
    /\ \A m \in Waiting : m \notin delivered /\ m \notin lost
    /\ \A m \in delivered : m \notin refused /\ m \notin lost
    /\ \A m \in refused : m \notin lost
    /\ \A g, h \in Hops : \A m \in packets[g] : m \in packets[h] => g = h
    /\ \A h \in Hops : \A m \in packets[h] :
          m \in refused => h = at /\ sweep \in {"refuse", "crashed"}

\* The messages of that request: to be refused, refused, or errors made meanwhile.
GivingUp ==
    /\ sweep \notin {"refuse", "crashed"} => rest = {}
    /\ \A m \in rest : m \notin refused
    /\ sweep = "refuse" =>
          /\ rest \subseteq packets[at]
          /\ \A m \in packets[at] : m \in rest \/ m \in refused \/ m.level > 0

\* Only requests on the list have messages.
Listed == \A h \in Hops : packets[h] # {} => h \in requests

\* No packet is forgotten.
Covered == Running => \A k \in 1 .. handled : k \in answered \/ \E m \in All : m.id = k /\ m.level = 0

FateInv ==
    /\ Unique /\ Family /\ Holding /\ Apart /\ GivingUp /\ Listed /\ Covered
    /\ NoPacketLost

-----------------------------------------------------------------------------

\* What is queued: the messages that wait and were not refused.
LEMMA QueuedDef == Queued = Waiting \ refused
BY DEF Queued, Waiting

\* Who waits is queued somewhere.
LEMMA WaitingDef == \A m : m \in Waiting <=> \E h \in Hops : m \in packets[h]
BY DEF Waiting

\* A step that only moves messages keeps what is known of them.
LEMMA Moved ==
    ASSUME Unique, Family, All' \subseteq All, refused \subseteq refused', handled' = handled
    PROVE  Unique' /\ Family'
BY DEF Unique, Family

\* A step that makes a message no message of its packet and level was there before.
LEMMA Created ==
    ASSUME NEW e \in Messages, Unique, Family, All' \subseteq All \cup {e},
           refused \subseteq refused', handled \in Nat, handled' \in Nat, handled <= handled',
           \A x \in All : ~ (x.id = e.id /\ x.level = e.level), e.id \in 1 .. handled',
           e.level > 0 => \E p \in refused' : p.id = e.id /\ p.level + 1 = e.level
    PROVE  Unique' /\ Family'
<1>1. Unique'
  BY DEF Unique
<1>2. \A x \in All : x.id \in 1 .. handled'
  BY DEF Family
<1>3. Family'
  BY <1>2 DEF Family
<1> QED BY <1>1, <1>3

\* The router starts with nothing.
LEMMA FateInit == Init => FateInv
<1> SUFFICES ASSUME Init PROVE FateInv
  OBVIOUS
<1>1. Waiting = {} /\ All = {}
  BY DEF Init, Waiting, All
<1> QED
  BY <1>1 DEF Init, FateInv, Unique, Family, Holding, Apart, GivingUp, Listed, Covered, NoPacketLost

\* A packet arrives for a gateway: it is sent at once, or held.
LEMMA FateForward == ASSUME TypeOK, FateInv, NEW p \in Arrivals, Forward(p) PROVE FateInv'
<1> USE DEF FateInv
<1> DEFINE m == [id |-> handled + 1, level |-> 0, src |-> p.src, dst |-> p.dst]
<1>1. /\ pc = "idle" /\ sweep = "sleep" /\ handled' = handled + 1 /\ handled \in Nat
      /\ UNCHANGED <<answered, packets, requests, refused, lost, sweep, at, rest>>
      /\ \/ delivered' = delivered \cup {m} /\ UNCHANGED <<pc, held>>
         \/ pc' = "queue" /\ held' = {m} /\ UNCHANGED delivered
  BY DEF Forward, LockFree, thread, queues, sweeper, TypeOK
<1>2. held = {} /\ Waiting' = Waiting
  BY <1>1 DEF Holding, Waiting
<1>3. m \in Messages /\ m.id = handled + 1 /\ m.level = 0
  <2>1. p.src \in Addrs /\ p.dst \in Addrs
    BY RouterAssumption
  <2> QED BY <1>1, <2>1 DEF Messages
<1> HIDE DEF m
<1>4. \A x \in All : x.id # m.id
  BY <1>1, <1>3 DEF Family
<1>5. All' = All \cup {m}
  BY <1>1, <1>2 DEF All
<1>6. Unique' /\ Family'
  BY <1>1, <1>3, <1>4, <1>5, Created
<1>7. m \notin All
  BY <1>4
<1>8. Apart' /\ Holding'
  BY <1>1, <1>2, <1>7 DEF Apart, Holding, All
<1>9. GivingUp' /\ Listed' /\ NoPacketLost'
  BY <1>1 DEF GivingUp, Listed, NoPacketLost
<1>10. Covered'
  BY <1>1, <1>3, <1>5 DEF Covered, Running
<1> QED BY <1>6, <1>8, <1>9, <1>10
\* The packet thread queues what it holds.
LEMMA FateQueue == ASSUME TypeOK, FateInv, QueueRequest PROVE FateInv'
<1> USE DEF FateInv
<1>1. PICK m : held = {m}
  BY DEF QueueRequest, Holding
<1>2. /\ pc = "queue" /\ pc' = "ask" /\ sweep = "sleep" /\ hop \in Hops /\ held' = {}
      /\ UNCHANGED <<handled, answered, delivered, refused, lost, sweep, at, rest>>
      /\ requests' = requests \cup {hop}
      /\ packets' = [packets EXCEPT ![hop] = @ \cup {m}]
  BY <1>1 DEF QueueRequest, QueueReq, LockFree, input, sweeper, history, TypeOK
<1>3. \A h \in Hops : packets'[h] = IF h = hop THEN packets[h] \cup {m} ELSE packets[h]
  BY <1>2 DEF TypeOK
<1>4. Waiting' = Waiting \cup held
  BY <1>1, <1>2, <1>3 DEF Waiting
<1>5. All' = All
  BY <1>2, <1>4 DEF All
<1>6. Unique' /\ Family'
  BY <1>2, <1>5, Moved
<1>7. Apart' /\ Holding'
  <2>1. m \notin Waiting /\ m \notin delivered /\ m \notin refused /\ m \notin lost
    BY <1>1 DEF Apart
  <2>2. \A h \in Hops : m \notin packets[h]
    BY <2>1, WaitingDef
  <2>3. ASSUME NEW g \in Hops, NEW h \in Hops, NEW x \in packets'[g], x \in packets'[h] PROVE g = h
    <3>1. \A i, j \in Hops : \A y \in packets[i] : y \in packets[j] => i = j
      BY DEF Apart
    <3> QED BY <1>3, <2>2, <2>3, <3>1
  <2>4. \A h \in Hops : \A x \in packets'[h] : x \notin refused
    BY <1>2, <1>3, <2>1 DEF Apart
  <2> QED
    BY <1>1, <1>2, <1>4, <2>1, <2>3, <2>4 DEF Apart, Holding
<1>8. GivingUp' /\ Listed' /\ NoPacketLost'
  BY <1>2, <1>3 DEF GivingUp, Listed, NoPacketLost
<1>9. Covered'
  BY <1>2, <1>5 DEF Covered, Running
<1> QED BY <1>6, <1>7, <1>8, <1>9

\* The messages of a request leave it: the others stay where they are.
LEMMA Emptied ==
    ASSUME NEW h \in Hops, TypeOK, Apart, packets' = [packets EXCEPT ![h] = {}]
    PROVE  /\ \A g \in Hops : packets'[g] = IF g = h THEN {} ELSE packets[g]
           /\ Waiting' = Waiting \ packets[h]
<1>1. \A g \in Hops : packets'[g] = IF g = h THEN {} ELSE packets[g]
  BY DEF TypeOK
<1>2. \A m : m \in Waiting' <=> \E g \in Hops : m \in packets'[g]
  BY DEF Waiting
<1>3. \A m : m \in Waiting' <=> m \in Waiting /\ m \notin packets[h]
  BY <1>1, <1>2, WaitingDef DEF Apart
<1> QED BY <1>1, <1>3

\* The mapping goes into the cache, and the messages to the packet thread.
LEMMA FateInsert == ASSUME TypeOK, FateInv, InsertEntry PROVE FateInv'
<1> USE DEF FateInv
<1>1. /\ pc = "insert" /\ sweep = "sleep" /\ hop \in Hops
      /\ UNCHANGED <<handled, answered, delivered, refused, lost, sweep, at, rest>>
      /\ requests' = requests \ {hop}
      /\ packets' = [packets EXCEPT ![hop] = {}]
      /\ \/ pc' = "flush" /\ held' = packets[hop]
         \/ hop \notin requests /\ pc' = "idle" /\ held' = {}
  BY DEF InsertEntry, RemoveReq, Return, LockFree, input, sweeper, history, TypeOK
<1>2. held = {} /\ held' = packets[hop]
  BY <1>1 DEF Holding, Listed
<1>3. /\ \A g \in Hops : packets'[g] = IF g = hop THEN {} ELSE packets[g]
      /\ Waiting' = Waiting \ packets[hop]
  BY <1>1, Emptied
<1>4. packets[hop] \subseteq Waiting /\ \A m \in packets[hop] : m \notin refused
  BY <1>1, WaitingDef DEF Apart
<1>5. All' = All
  BY <1>1, <1>2, <1>3, <1>4 DEF All
<1>6. Unique' /\ Family'
  BY <1>1, <1>5, Moved
<1>7. Apart' /\ Holding'
  BY <1>1, <1>2, <1>3, <1>4 DEF Apart, Holding
<1>8. GivingUp' /\ Listed' /\ NoPacketLost'
  BY <1>1, <1>3 DEF GivingUp, Listed, NoPacketLost
<1>9. Covered'
  BY <1>1, <1>5 DEF Covered, Running
<1> QED BY <1>6, <1>7, <1>8, <1>9

\* The packet thread sends what it took from a request.
LEMMA FateFlush == ASSUME TypeOK, FateInv, SendQueuedPackets PROVE FateInv'
<1> USE DEF FateInv
<1>1. /\ pc = "flush" /\ pc' = "idle" /\ held' = {} /\ delivered' = delivered \cup held
      /\ UNCHANGED <<handled, answered, requests, packets, refused, lost, sweep, at, rest>>
  BY DEF SendQueuedPackets, Return, input, queues, sweeper
<1>2. Waiting' = Waiting
  BY <1>1 DEF Waiting
<1>3. All' = All
  BY <1>1, <1>2 DEF All
<1>4. Unique' /\ Family'
  BY <1>1, <1>3, Moved
<1>5. Apart' /\ Holding'
  BY <1>1, <1>2 DEF Apart, Holding
<1>6. GivingUp' /\ Listed' /\ NoPacketLost'
  BY <1>1 DEF GivingUp, Listed, NoPacketLost
<1>7. Covered'
  BY <1>1, <1>3 DEF Covered, Running
<1> QED BY <1>4, <1>5, <1>6, <1>7

\* A reply for a mapping the cache had: the messages of the request are sent.
LEMMA FateResend == ASSUME TypeOK, FateInv, ResendPackets PROVE FateInv'
<1> USE DEF FateInv
<1>1. /\ pc = "resend" /\ sweep = "sleep" /\ hop \in Hops /\ pc' = "idle" /\ held' = {}
      /\ UNCHANGED <<handled, answered, refused, lost, sweep, at, rest>>
      /\ \/ /\ delivered' = delivered \cup packets[hop] /\ requests' = requests \ {hop}
            /\ packets' = [packets EXCEPT ![hop] = {}]
         \/ UNCHANGED <<delivered, requests, packets>>
  BY DEF ResendPackets, RemoveReq, Return, LockFree, input, queues, sweeper, TypeOK
<1>2. held = {}
  BY <1>1 DEF Holding
<1>3. CASE /\ delivered' = delivered \cup packets[hop] /\ requests' = requests \ {hop}
           /\ packets' = [packets EXCEPT ![hop] = {}]
  <2>1. /\ \A g \in Hops : packets'[g] = IF g = hop THEN {} ELSE packets[g]
        /\ Waiting' = Waiting \ packets[hop]
    BY <1>1, <1>3, Emptied
  <2>2. packets[hop] \subseteq Waiting /\ \A m \in packets[hop] : m \notin refused
    BY <1>1, WaitingDef DEF Apart
  <2>3. All' = All
    BY <1>1, <1>2, <1>3, <2>1, <2>2 DEF All
  <2>4. Unique' /\ Family'
    BY <1>1, <2>3, Moved
  <2>5. Apart' /\ Holding'
    BY <1>1, <1>2, <1>3, <2>1, <2>2 DEF Apart, Holding
  <2>6. GivingUp' /\ Listed' /\ NoPacketLost'
    BY <1>1, <1>3, <2>1 DEF GivingUp, Listed, NoPacketLost
  <2>7. Covered'
    BY <1>1, <2>3 DEF Covered, Running
  <2> QED BY <2>4, <2>5, <2>6, <2>7
<1>4. CASE UNCHANGED <<delivered, requests, packets>>
  <2>1. Waiting' = Waiting
    BY <1>4 DEF Waiting
  <2>2. All' = All
    BY <1>1, <1>2, <1>4, <2>1 DEF All
  <2>3. Unique' /\ Family'
    BY <1>1, <2>2, Moved
  <2>4. Apart' /\ Holding' /\ GivingUp' /\ Listed' /\ NoPacketLost'
    BY <1>1, <1>2, <1>4, <2>1 DEF Apart, Holding, GivingUp, Listed, NoPacketLost
  <2>5. Covered'
    BY <1>1, <2>2 DEF Covered, Running
  <2> QED BY <2>3, <2>4, <2>5
<1> QED BY <1>1, <1>3, <1>4

-----------------------------------------------------------------------------

\* The sweep takes up a request that has waited long enough.
LEMMA FateGiveUp == ASSUME TypeOK, SweepInv, FateInv, NEW h \in todo, GiveUp(h) PROVE FateInv'
<1> USE DEF FateInv
<1>1. /\ sweep = "visit" /\ sweep' = "refuse" /\ at' = h /\ rest' = packets[h] /\ h \in Hops
      /\ UNCHANGED <<handled, answered, pc, held, requests, packets, delivered, refused, lost>>
  BY DEF GiveUp, input, thread, queues, history, TypeOK
<1>2. Waiting' = Waiting
  BY <1>1 DEF Waiting
<1>3. All' = All
  BY <1>1, <1>2 DEF All
<1>4. Unique' /\ Family'
  BY <1>1, <1>3, Moved
<1>5. Apart' /\ Holding'
  BY <1>1, <1>2 DEF Apart, Holding
<1>6. GivingUp' /\ Listed' /\ NoPacketLost'
  BY <1>1 DEF Apart, GivingUp, Listed, NoPacketLost
<1>7. Covered'
  BY <1>1, <1>3 DEF Covered, Running
<1> QED BY <1>4, <1>5, <1>6, <1>7

\* Every message of the request has been refused but the errors queued on it
\* since: those are freed with it.
LEMMA FateDestroy == ASSUME TypeOK, FateInv, DestroyRequest PROVE FateInv'
<1> USE DEF FateInv
<1>1. /\ sweep = "refuse" /\ sweep' = "visit" /\ rest = {} /\ rest' = {} /\ at \in Hops
      /\ UNCHANGED <<handled, answered, pc, held, delivered, refused>>
      /\ lost' = lost \cup (packets[at] \ refused)
      /\ requests' = requests \ {at}
      /\ packets' = [packets EXCEPT ![at] = {}]
  BY DEF DestroyRequest, RemoveReq, input, thread, TypeOK
<1>2. /\ \A g \in Hops : packets'[g] = IF g = at THEN {} ELSE packets[g]
      /\ Waiting' = Waiting \ packets[at]
  BY <1>1, Emptied
<1>3. packets[at] \subseteq Waiting
  BY <1>1, WaitingDef
<1>4. All' = All
  BY <1>1, <1>2, <1>3 DEF All
<1>5. Unique' /\ Family'
  BY <1>1, <1>4, Moved
<1>6. Apart' /\ Holding'
  <2>1. \A g \in Hops : \A m \in packets'[g] : m \notin refused'
    BY <1>1, <1>2 DEF Apart
  <2> QED BY <1>1, <1>2, <1>3, <2>1 DEF Apart, Holding
<1>7. NoPacketLost'
  BY <1>1 DEF GivingUp, NoPacketLost
<1>8. GivingUp' /\ Listed'
  BY <1>1, <1>2 DEF GivingUp, Listed
<1>9. Covered'
  BY <1>1, <1>4 DEF Covered, Running
<1> QED BY <1>5, <1>6, <1>7, <1>8, <1>9

\* A message is refused: its error is sent or queued, and is new.
LEMMA FateRefuse == ASSUME TypeOK, FateInv, NEW m \in rest, Refuse(m) PROVE FateInv'
<1> USE DEF FateInv
<1> DEFINE n == Route[m.src]
           e == Error(m, n)
<1>1. /\ sweep = "refuse" /\ rest' = rest \ {m} /\ at \in Hops /\ handled \in Nat
      /\ UNCHANGED <<handled, answered, pc, held, at, lost>>
      /\ \/ n = NoRoute /\ sweep' = "crashed" /\ UNCHANGED <<requests, packets, delivered, refused>>
         \/ n # NoRoute /\ delivered' = delivered \cup {e} /\ refused' = refused \cup {m}
            /\ UNCHANGED <<sweep, requests, packets>>
         \/ n # NoRoute /\ QueueReq(n, e) /\ refused' = refused \cup {m} /\ UNCHANGED <<sweep, delivered>>
  BY DEF Refuse, input, thread, queues, history, TypeOK
<1>2. m \in packets[at] /\ m \in Waiting /\ m \in All /\ m \notin refused /\ m \in Messages
      /\ m \notin held /\ m \notin delivered /\ m \notin lost
  BY <1>1, WaitingDef DEF GivingUp, Apart, All, TypeOK
<1>3. CASE n = NoRoute /\ sweep' = "crashed" /\ UNCHANGED <<requests, packets, delivered, refused>>
  <2>1. Waiting' = Waiting
    BY <1>3 DEF Waiting
  <2>2. All' = All
    BY <1>1, <1>3, <2>1 DEF All
  <2>3. Unique' /\ Family'
    BY <1>1, <1>3, <2>2, Moved
  <2>4. Apart' /\ Holding'
    BY <1>1, <1>3, <2>1 DEF Apart, Holding
  <2>5. GivingUp' /\ Listed' /\ NoPacketLost' /\ Covered'
    BY <1>1, <1>3 DEF GivingUp, Listed, NoPacketLost, Covered, Running
  <2> QED BY <2>3, <2>4, <2>5
<1>4. ASSUME n # NoRoute
      PROVE  /\ n \in Hops /\ e \in Messages /\ e.id = m.id /\ e.level = m.level + 1
             /\ m.level \in Nat /\ m.id \in 1 .. handled
  <2>1. n \in Hops /\ m.src \in Addrs
    BY <1>2, <1>4, RouterAssumption DEF Messages
  <2>2. OutAddr[n] \in Addrs
    BY <2>1, RouterAssumption
  <2>3. m.id \in Nat /\ m.level \in Nat
    BY <1>2 DEF Messages
  <2>4. m.id \in 1 .. handled
    BY <1>2 DEF Family
  <2> QED BY <2>1, <2>2, <2>3, <2>4 DEF Error, Messages
<1> HIDE DEF e, n
<1>5. ASSUME n # NoRoute
      PROVE  \A x \in All : ~ (x.id = e.id /\ x.level = e.level)
  <2> SUFFICES ASSUME NEW x \in All, x.id = e.id, x.level = e.level PROVE FALSE
    OBVIOUS
  <2>1. PICK p \in refused : p.id = x.id /\ p.level + 1 = x.level
    BY <1>4, <1>5 DEF Family
  <2>2. p \in All /\ p.level \in Nat
    BY <2>1 DEF All, Family, TypeOK, Messages
  <2>3. p.id = m.id /\ p.level = m.level
    BY <1>4, <1>5, <2>1, <2>2
  <2>4. p = m
    BY <1>2, <2>2, <2>3 DEF Unique
  <2> QED BY <1>2, <2>1, <2>4
<1>6. ASSUME n # NoRoute PROVE e \notin All /\ e # m /\ e.level > 0
  BY <1>2, <1>4, <1>5, <1>6
<1>7. CASE n # NoRoute /\ delivered' = delivered \cup {e} /\ refused' = refused \cup {m}
           /\ UNCHANGED <<sweep, requests, packets>>
  <2>1. Waiting' = Waiting
    BY <1>7 DEF Waiting
  <2>2. All' = All \cup {e}
    BY <1>1, <1>2, <1>7, <2>1 DEF All
  <2>3. Unique' /\ Family'
    BY <1>1, <1>4, <1>5, <1>7, <2>2, Created
  <2>4. Apart' /\ Holding'
    <3>1. \A h \in Hops : \A x \in packets[h] : x \in refused' => h = at
      BY <1>1, <1>2, <1>7 DEF Apart
    <3>2. e \notin held /\ e \notin Waiting /\ e \notin refused' /\ e \notin lost
      BY <1>6, <1>7 DEF All
    <3> QED BY <1>1, <1>2, <1>7, <2>1, <3>1, <3>2 DEF Apart, Holding
  <2>5. GivingUp' /\ Listed' /\ NoPacketLost'
    BY <1>1, <1>7 DEF GivingUp, Listed, NoPacketLost
  <2>6. Covered'
    BY <1>1, <1>7, <2>2 DEF Covered, Running
  <2> QED BY <2>3, <2>4, <2>5, <2>6
<1>8. CASE n # NoRoute /\ QueueReq(n, e) /\ refused' = refused \cup {m} /\ UNCHANGED <<sweep, delivered>>
  <2>1. /\ \A h \in Hops : packets'[h] = IF h = n THEN packets[h] \cup {e} ELSE packets[h]
        /\ requests' = requests \cup {n}
    BY <1>4, <1>8 DEF QueueReq, TypeOK
  <2>2. Waiting' = Waiting \cup {e}
    <3>1. \A x : x \in Waiting' <=> \E h \in Hops : x \in packets'[h]
      BY DEF Waiting
    <3> QED BY <1>4, <1>8, <2>1, <3>1, WaitingDef
  <2>3. All' = All \cup {e}
    BY <1>1, <1>2, <1>8, <2>2 DEF All
  <2>4. Unique' /\ Family'
    BY <1>1, <1>4, <1>5, <1>8, <2>3, Created
  <2>5. e \notin held /\ e \notin Waiting /\ e \notin delivered /\ e \notin refused' /\ e \notin lost
    BY <1>6, <1>8 DEF All
  <2>6. \A h \in Hops : e \notin packets[h]
    BY <2>5, WaitingDef
  <2>7. Apart' /\ Holding'
    <3>1. \A h \in Hops : \A x \in packets'[h] : x \in refused' => h = at
      <4>1. \A h \in Hops : \A x \in packets[h] : x \in refused' => h = at
        BY <1>1, <1>2, <1>8 DEF Apart
      <4> QED BY <2>1, <2>5, <4>1
    <3>2. ASSUME NEW g \in Hops, NEW h \in Hops, NEW x \in packets'[g], x \in packets'[h] PROVE g = h
      <4>1. \A i, j \in Hops : \A y \in packets[i] : y \in packets[j] => i = j
        BY DEF Apart
      <4> QED BY <2>1, <2>6, <3>2, <4>1
    <3>3. sweep' = "refuse" /\ at' = at
      BY <1>1, <1>8
    <3> QED BY <1>1, <1>2, <1>8, <2>2, <2>5, <3>1, <3>2, <3>3 DEF Apart, Holding
  <2>8. GivingUp'
    BY <1>1, <1>2, <1>6, <1>8, <2>1, <2>5 DEF GivingUp
  <2>9. Listed' /\ NoPacketLost'
    BY <1>1, <1>8, <2>1 DEF Listed, NoPacketLost
  <2>10. Covered'
    BY <1>1, <1>8, <2>3 DEF Covered, Running
  <2> QED BY <2>4, <2>7, <2>8, <2>9, <2>10
<1> QED BY <1>1, <1>3, <1>7, <1>8

-----------------------------------------------------------------------------

\* The other steps move no message.
Still ==
    /\ UNCHANGED <<packets, delivered, refused, lost, held>>
    /\ requests' = requests
    /\ UNCHANGED <<rest, at>>
    /\ sweep' = sweep \/ (sweep \notin {"refuse", "crashed"} /\ sweep' \in {"sleep", "visit"})
    /\ pc' = pc \/ (pc' \notin {"queue", "flush"} /\ held = {})
    /\ \/ UNCHANGED <<handled, answered>>
       \/ handled' = handled + 1 /\ answered' = answered \cup {handled + 1}

\* Such a step keeps the invariant: at most it answers a packet, or drops it.
LEMMA FateStill == ASSUME TypeOK, FateInv, Still PROVE FateInv'
<1> USE DEF FateInv, Still
<1>1. Waiting' = Waiting
  BY DEF Waiting
<1>2. All' = All
  BY <1>1 DEF All
<1>3. handled \in Nat /\ handled' \in Nat /\ handled <= handled'
  BY DEF TypeOK
<1>4. Unique' /\ Family'
  <2>1. Unique'
    BY <1>2 DEF Unique
  <2>2. \A x \in All : x.id \in 1 .. handled'
    BY <1>3 DEF Family
  <2>3. Family'
    BY <1>2, <2>2 DEF Family
  <2> QED BY <2>1, <2>3
<1>5. Apart' /\ Holding'
  BY <1>1 DEF Apart, Holding
<1>6. GivingUp' /\ Listed' /\ NoPacketLost'
  BY DEF GivingUp, Listed, NoPacketLost
<1>7. Covered'
  <2>1. \A k \in 1 .. handled' : k \in 1 .. handled \/ k \in answered'
    BY <1>3
  <2>2. answered \subseteq answered' /\ (Running' => Running)
    BY DEF Running
  <2> QED BY <1>2, <2>1, <2>2 DEF Covered
<1> QED BY <1>4, <1>5, <1>6, <1>7

\* Which steps they are.
LEMMA StillSteps ==
    ASSUME TypeOK, SweepInv, FateInv,
           (\E p \in Arrivals : Answer(p)) \/ SendRequest \/ (\E h \in Hops : Reply(h)) \/ Tick
           \/ BeginSweep \/ EndSweep \/ (\E h \in todo : ResendRequest(h)) \/ UNCHANGED vars
    PROVE  Still
<1>1. pc # "queue" /\ pc # "flush" => held = {}
  BY DEF FateInv, Holding
<1>2. ASSUME NEW p \in Arrivals, Answer(p) PROVE Still
  BY <1>2 DEF Still, Answer, thread, queues, sweeper, history
<1>3. CASE SendRequest
  BY <1>1, <1>3 DEF Still, SendRequest, Return, input, sweeper, history
<1>4. ASSUME NEW h \in Hops, Reply(h) PROVE Still
  BY <1>1, <1>4 DEF Still, Reply, input, queues, sweeper, history
<1>5. CASE Tick \/ BeginSweep \/ EndSweep
  BY <1>5 DEF Still, Tick, BeginSweep, EndSweep, input, thread, queues, history
<1>6. ASSUME NEW h \in todo, ResendRequest(h) PROVE Still
  BY <1>6 DEF Still, ResendRequest, input, thread, history
<1>7. CASE UNCHANGED vars
  BY <1>7 DEF Still, vars, input, thread, queues, sweeper, history
<1> QED BY <1>2, <1>3, <1>4, <1>5, <1>6, <1>7

\* The invariant holds, for every routing table and number of packets.
LEMMA FateInvariant == Spec => []FateInv
<1>1. TypeOK /\ SweepInv /\ FateInv /\ [Next]_vars => FateInv'
  <2> SUFFICES ASSUME TypeOK, SweepInv, FateInv, [Next]_vars PROVE FateInv'
    OBVIOUS
  <2>1. ASSUME NEW p \in Arrivals, Forward(p) PROVE FateInv'
    BY <2>1, FateForward
  <2>2. CASE QueueRequest
    BY <2>2, FateQueue
  <2>3. CASE InsertEntry
    BY <2>3, FateInsert
  <2>4. CASE SendQueuedPackets
    BY <2>4, FateFlush
  <2>5. CASE ResendPackets
    BY <2>5, FateResend
  <2>6. ASSUME NEW h \in todo, GiveUp(h) PROVE FateInv'
    BY <2>6, FateGiveUp
  <2>7. CASE DestroyRequest
    BY <2>7, FateDestroy
  <2>8. ASSUME NEW m \in rest, Refuse(m) PROVE FateInv'
    BY <2>8, FateRefuse
  <2>9. CASE (\E p \in Arrivals : Answer(p)) \/ SendRequest \/ (\E h \in Hops : Reply(h)) \/ Tick
             \/ BeginSweep \/ EndSweep \/ (\E h \in todo : ResendRequest(h)) \/ UNCHANGED vars
    BY <2>9, StillSteps, FateStill
  <2> QED
    BY <2>1, <2>2, <2>3, <2>4, <2>5, <2>6, <2>7, <2>8, <2>9
       DEF Next, Arrive, ArpReply, PacketThread, Sweeper
<1> QED
  BY <1>1, FateInit, TypesAndSweep, PTL DEF Spec, TypeInv

\* A packet the router accepted is never freed unread: what is freed with a
\* request (sr_arpreq_destroy) are errors the router made itself.
THEOREM NoPacketIsLost == Spec => []NoPacketLost
  BY FateInvariant, PTL DEF FateInv

\* Every packet is answered or in exactly one place: no interleaving of the two
\* threads sends a packet twice, or both sends and refuses it.
THEOREM OneFateForAll == Spec => []OneFate
<1>1. FateInv => OneFate
  <2> SUFFICES ASSUME FateInv PROVE OneFate
    OBVIOUS
  <2> USE DEF FateInv
  <2> DEFINE h0 == IF pc \in {"queue", "flush"} THEN held ELSE {}
             places == <<h0, Queued, delivered, refused, lost>>
  <2>1. h0 = held
    BY DEF Holding
  <2>2. Queued = Waiting \ refused
    BY QueuedDef
  <2>3. /\ held \cap Queued = {} /\ held \cap delivered = {} /\ held \cap refused = {}
        /\ held \cap lost = {} /\ Queued \cap delivered = {} /\ Queued \cap refused = {}
        /\ Queued \cap lost = {} /\ delivered \cap refused = {} /\ delivered \cap lost = {}
        /\ refused \cap lost = {}
    BY <2>2 DEF Apart
  <2>4. DOMAIN places = 1 .. 5
    OBVIOUS
  <2>5. \A i, j \in 1 .. 5 : i # j => places[i] \cap places[j] = {}
    BY <2>1, <2>3
  <2>6. \A g, h \in Hops : g # h => packets[g] \cap packets[h] = {}
    BY DEF Apart
  <2>7. \A m \in All : \E j \in 1 .. 5 : m \in places[j]
    <3>1. \A m \in All : m \in places[1] \/ m \in places[2] \/ m \in places[3] \/ m \in places[4]
                         \/ m \in places[5]
      BY <2>1, <2>2 DEF All
    <3> QED BY <3>1
  <2>8. Running => \A i \in 1 .. handled :
            i \in answered \/ \E j \in 1 .. 5 : \E m \in places[j] : m.id = i /\ m.level = 0
    BY <2>7 DEF Covered
  <2> HIDE DEF h0
  <2> QED BY <2>4, <2>5, <2>6, <2>8 DEF OneFate, h0
<1> QED
  BY <1>1, FateInvariant, PTL
=============================================================================
