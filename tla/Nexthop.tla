------------------------------ MODULE Nexthop ------------------------------
(***************************************************************************)
(* bgpd's nexthop tracking (api_bgp_nh_update.py): a table of RIB entries, *)
(* which stays as it is, a cache of the nexthops they use, and the call    *)
(* api_bgp_nh_update, by which zebra reports that a nexthop changed and    *)
(* which answers with the routes to install or withdraw.                   *)
(*                                                                         *)
(* The tables (NexthopTables) are lists, as in the code.  The messages of  *)
(* one call are a set: DownstreamMsgs lists them newest first, which       *)
(* nobody can tell as long as they are about distinct prefixes             *)
(* (MessagesSound).  Zebra is not in the repository; it applies each       *)
(* message to its table of routes.                                         *)
(***************************************************************************)
EXTENDS NexthopTables

(***************************************************************************)
(* The helpers of the transition                                           *)
(***************************************************************************)
Valid(c) == {c[i].endpoint : i \in {j \in DOMAIN c : c[j].valid}}

is_valid_nh(c, nh) == \E i \in DOMAIN c : c[i].endpoint = nh /\ c[i].valid
is_invalid_nh(c, nh) == \A i \in DOMAIN c : c[i].endpoint # nh \/ ~c[i].valid
all_nhs_down(c, r) == \A nh \in Members(r.nexthops) : is_invalid_nh(c, nh)

(* The loop over the cache stops at the first entry of the endpoint.       *)
EntryOf(c, e) ==
  CHOOSE i \in DOMAIN c :
    c[i].endpoint = e /\ \A j \in DOMAIN c : c[j].endpoint = e => i <= j

Changes(c, api) ==
  /\ api.endpoint \in Tracked(c)
  /\ LET entry == c[EntryOf(c, api.endpoint)]
     IN  entry.resolved # api.resolved \/ entry.valid # api.status_up

(* A plausible bug of Refreshed: the entry is filed under its resolution.  *)
RefreshedRekeyed(c, api) ==
  [c EXCEPT ![EntryOf(c, api.endpoint)] =
     [endpoint |-> api.resolved, resolved |-> api.resolved, valid |-> api.status_up]]

Refreshed(c, api) ==
  [c EXCEPT ![EntryOf(c, api.endpoint)] =
     [@ EXCEPT !.valid = api.status_up, !.resolved = api.resolved]]

(* A plausible bug of Evaluated: a route with nothing up is announced.     *)
EvaluatedAlwaysSet(c, r) ==
  [op |-> "SET", prefix |-> r.prefix,
   nexthops |-> {nh \in Members(r.nexthops) : is_valid_nh(c, nh)}]

(* A plausible bug of Evaluated: nexthops that are down are announced too. *)
EvaluatedUnfiltered(c, r) ==
  IF all_nhs_down(c, r)
  THEN [op |-> "DEL", prefix |-> r.prefix, nexthops |-> {}]
  ELSE [op |-> "SET", prefix |-> r.prefix, nexthops |-> Members(r.nexthops)]

(* emit_del or emit_add for an entry of the RIB.                           *)
Evaluated(c, r) ==
  IF all_nhs_down(c, r)
  THEN [op |-> "DEL", prefix |-> r.prefix, nexthops |-> {}]
  ELSE [op |-> "SET", prefix |-> r.prefix,
        nexthops |-> {nh \in Members(r.nexthops) : is_valid_nh(c, nh)}]

(* Zebra: a message replaces the route of its prefix.                      *)
Applied(ms, routes) ==
  [p \in Prefixes |->
     IF \E m \in ms : m.prefix = p THEN (CHOOSE m \in ms : m.prefix = p).nexthops
     ELSE routes[p]]

(***************************************************************************)
(* The state machine                                                       *)
(***************************************************************************)
VARIABLES
  rib,
  nexthop_cache_table,
  msgs,                   \* what the last call answered
  fib                     \* zebra: the nexthops of the route of each prefix

vars == <<rib, nexthop_cache_table, msgs, fib>>

NexthopsOf(p) == UNION {Members(rib[i].nexthops) : i \in {j \in DOMAIN rib : rib[j].prefix = p}}

(* A state the precondition admits, with what zebra was told of it.        *)
Init ==
  /\ rib \in Lists(BgpRibEntry, MaxEntries)
  /\ RibSound(rib)
  /\ nexthop_cache_table \in Lists(BgpNexthopCache, MaxEndpoints)
  /\ invariant(rib, nexthop_cache_table)
  /\ msgs = {}
  /\ fib = [p \in Prefixes |-> NexthopsOf(p) \cap Valid(nexthop_cache_table)]

(* The endpoint is not tracked, or it is as the cache has it.              *)
Nothing(api) ==
  /\ ~Changes(nexthop_cache_table, api)
  /\ msgs' = {}
  /\ UNCHANGED <<rib, nexthop_cache_table, fib>>

Reevaluate(api) ==
  /\ Changes(nexthop_cache_table, api)
  /\ nexthop_cache_table' = Refreshed(nexthop_cache_table, api)
  /\ msgs' = {Evaluated(nexthop_cache_table', rib[i]) :
                i \in {j \in DOMAIN rib : api.endpoint \in Members(rib[j].nexthops)}}
  /\ fib' = Applied(msgs', fib)
  /\ UNCHANGED rib

api_bgp_nh_update(api) == Nothing(api) \/ Reevaluate(api)

Next == \E api \in BApiNexthopUpdate : api_bgp_nh_update(api)

Spec == Init /\ [][Next]_vars

(***************************************************************************)
(* Properties                                                              *)
(***************************************************************************)

(* The tables and the answer hold what their declarations say.             *)
TypeOK ==
  /\ rib \in Lists(BgpRibEntry, MaxEntries)
  /\ nexthop_cache_table \in Lists(BgpNexthopCache, MaxEndpoints)
  /\ msgs \subseteq BgpdRouteEvent
  /\ fib \in [Prefixes -> SUBSET Addrs]

(* The claim of api_bgp_nh_update.py:150-151, which every generated test   *)
(* asserts: the call keeps the invariant, above all that the cache is just *)
(* the union of the nexthops of the RIB.                                   *)
Invariant == invariant(rib, nexthop_cache_table)

(* Zebra can apply the answer of a call in any order, since it has one     *)
(* message for a prefix, and can tell a withdrawal from an announcement:   *)
(* an announcement has a nexthop, each of them valid.                      *)
MessagesSound ==
  /\ \A m, n \in msgs : m.prefix = n.prefix => m = n
  /\ \A m \in msgs :
       /\ m.op = "SET" <=> m.nexthops # {}
       /\ m.nexthops \subseteq NexthopsOf(m.prefix) \cap Valid(nexthop_cache_table)

(* The calls keep the promise: zebra's routes follow the nexthops that are *)
(* up, although a call answers only for the entries it re-evaluated and    *)
(* returns early when it sees no change.                                   *)
Promise == INSTANCE NexthopPromise WITH
  uses <- [p \in Prefixes |-> NexthopsOf(p)],
  up <- Valid(nexthop_cache_table),
  installed <- fib

KeepsPromise == Promise!PSpec

=============================================================================
