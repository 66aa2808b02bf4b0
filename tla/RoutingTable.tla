---------------------------- MODULE RoutingTable ----------------------------
(***************************************************************************)
(* The routing table and its lookup (sr_rt.c, sr_rt_lookup_ip).  An        *)
(* address or a mask is the set of its bits that are 1: & is intersection, *)
(* and popcount is Cardinality.  Any mask may be in the file, not only     *)
(* those of a prefix.  RouterSession adds what the program does around it. *)
(***************************************************************************)
EXTENDS Integers, FiniteSets, Sequences

CONSTANTS
    Bits,       \* the bits of an address
    Interfaces, \* the names of interfaces
    MaxRoutes   \* bound: rows of the table

ASSUME RoutingTableAssumption == IsFiniteSet(Bits) /\ MaxRoutes \in Nat

Addr == SUBSET Bits
Routes == [dest : Addr, mask : Addr, interface : Interfaces]

VARIABLES
    routing_table,
    ip,             \* the address looked up
    rt_walker,      \* the row the loop is at; past the end when it is done
    match_bits,
    entry           \* the row found so far, 0 for none

vars == <<routing_table, ip, rt_walker, match_bits, entry>>

Matches(r, a) == r.dest \cap r.mask = a \cap r.mask

Init ==
    /\ routing_table = <<>>
    /\ ip = {} /\ rt_walker = 1 /\ match_bits = 0 /\ entry = 0

Done == rt_walker > Len(routing_table)

\* sr_load_rt, a line of the file: before the first lookup.  The first line that
\* is read replaces the table, the others add to it.
FirstEntry(r) ==
    /\ rt_walker = 1 /\ MaxRoutes > 0
    /\ routing_table' = <<r>>
    /\ UNCHANGED <<ip, rt_walker, match_bits, entry>>

AddEntry(r) ==
    /\ rt_walker = 1 /\ Len(routing_table) < MaxRoutes
    /\ routing_table' = Append(routing_table, r)
    /\ UNCHANGED <<ip, rt_walker, match_bits, entry>>

\* A call of sr_rt_lookup_ip.
BeginLookup(a) ==
    /\ Done \/ rt_walker = 1
    /\ ip' = a /\ rt_walker' = 1 /\ match_bits' = 0 /\ entry' = 0
    /\ UNCHANGED routing_table

StepTakesLast ==  \* Mutant: <= in place of <.
    /\ ~ Done
    /\ LET r == routing_table[rt_walker] IN
       IF Matches(r, ip) /\ match_bits <= Cardinality(r.mask)
       THEN match_bits' = Cardinality(r.mask) /\ entry' = rt_walker
       ELSE UNCHANGED <<match_bits, entry>>
    /\ rt_walker' = rt_walker + 1
    /\ UNCHANGED <<routing_table, ip>>

Step ==
    /\ ~ Done
    /\ LET r == routing_table[rt_walker] IN
       IF Matches(r, ip) /\ match_bits < Cardinality(r.mask)
       THEN match_bits' = Cardinality(r.mask) /\ entry' = rt_walker
       ELSE UNCHANGED <<match_bits, entry>>
    /\ rt_walker' = rt_walker + 1
    /\ UNCHANGED <<routing_table, ip>>

Next == Step \/ (\E r \in Routes : FirstEntry(r) \/ AddEntry(r)) \/ (\E a \in Addr : BeginLookup(a))

Spec == Init /\ [][Next]_vars

-----------------------------------------------------------------------------

\* The loop of sr_rt_lookup_ip stays within the table, and match_bits is the
\* length of the mask of the row found.
TypeOK ==
    /\ routing_table \in Seq(Routes) /\ ip \in Addr
    /\ rt_walker \in 1 .. Len(routing_table) + 1
    /\ entry \in 0 .. rt_walker - 1
    /\ match_bits = IF entry = 0 THEN 0 ELSE Cardinality(routing_table[entry].mask)

\* The row r of the table is the best of its first n rows for a: it matches, no
\* row has a longer mask that matches, and no earlier row has one as long.
Best(r, n, a) ==
    /\ Matches(routing_table[r], a)
    /\ \A q \in 1 .. n : Matches(routing_table[q], a) =>
          IF q < r THEN Cardinality(routing_table[q].mask) < Cardinality(routing_table[r].mask)
          ELSE Cardinality(routing_table[q].mask) <= Cardinality(routing_table[r].mask)

\* The lookup of sr_rt_lookup_ip returns the longest match, the first of several,
\* and none only when no row with a mask of at least one bit matches: a default
\* route, whose mask is 0.0.0.0, is never returned.
LongestMatch ==
    LET n == rt_walker - 1 IN
    IF entry = 0
    THEN \A q \in 1 .. n : Matches(routing_table[q], ip) => routing_table[q].mask = {}
    ELSE routing_table[entry].mask # {} /\ Best(entry, n, ip)
=============================================================================
