---------------------------- MODULE NexthopSeeds ----------------------------
(***************************************************************************)
(* How a generated input becomes a test case of nexthop tracking: CrossHair*)
(* invents any two lists, and crosshair_target.py coerces them to a RIB    *)
(* and a cache the model admits.  format_tests.py coerces the same way,    *)
(* keeps the first input of each outcome, and runs the model on what it    *)
(* kept as it is.                                                          *)
(*                                                                         *)
(* The two lists grow entry by entry; the claims are about every pair of   *)
(* lists met on the way.                                                   *)
(***************************************************************************)
EXTENDS NexthopTables, FiniteSetsExt

SequencesLib == INSTANCE SequencesExt

CONSTANT MaxCacheSeeds       \* bound: tuples of the cache seed

VARIABLES
  rib_seed,
  cache_seed

seeds == <<rib_seed, cache_seed>>

(* A plausible bug of Deduped: it prepends, as the model's messages do.    *)
DedupedNewestFirst(nhs) ==
  SequencesLib!FoldLeft(
    LAMBDA out, nh : IF nh \in Members(out) THEN out ELSE <<nh>> \o out, <<>>, nhs)

Deduped(nhs) ==
  SequencesLib!FoldLeft(LAMBDA out, nh : IF nh \in Members(out) THEN out ELSE Append(out, nh),
           <<>>, nhs)

(* A plausible bug of Keeps: a prefix may be kept twice.                   *)
KeepsTwice(out, entry) == entry.nexthops # <<>>

(* An entry is kept if it has a nexthop and its prefix is not there yet.   *)
Keeps(out, entry) ==
  /\ \A i \in DOMAIN out : out[i].prefix # entry.prefix
  /\ entry.nexthops # <<>>

dedup_rib_seed(seed) ==
  SequencesLib!FoldLeft(LAMBDA out, entry :
             IF Keeps(out, entry)
             THEN Append(out, [entry EXCEPT !.nexthops = Deduped(@)]) ELSE out,
           <<>>, seed)

(* A plausible bug of Match: the last tuple of the endpoint wins.          *)
MatchLast(seed, e) ==
  LET known == {i \in DOMAIN seed : seed[i].endpoint = e}
  IN  IF known = {} THEN [endpoint |-> e, resolved |-> e, valid |-> FALSE]
      ELSE seed[Max(known)]

(* (resolved, valid) of the first tuple of the endpoint, if there is one.  *)
Match(seed, e) ==
  LET known == {i \in DOMAIN seed : seed[i].endpoint = e}
  IN  IF known = {} THEN [endpoint |-> e, resolved |-> e, valid |-> FALSE]
      ELSE seed[Min(known)]

build_cache_seed(t, seed) ==
  LET endpoints == Deduped(SequencesLib!FlattenSeq([i \in DOMAIN t |-> t[i].nexthops]))
  IN  [i \in DOMAIN endpoints |-> Match(seed, endpoints[i])]

(* canonicalize of format_tests.py, and the state that _build_state_and_api*)
(* makes of it, are these two tables.                                      *)
Rib == dedup_rib_seed(rib_seed)
Cache == build_cache_seed(Rib, cache_seed)

SInit == rib_seed = <<>> /\ cache_seed = <<>>

AddEntry(entry) ==
  /\ Len(rib_seed) < MaxEntries
  /\ rib_seed' = Append(rib_seed, entry)
  /\ UNCHANGED cache_seed

AddTuple(tuple) ==
  /\ Len(cache_seed) < MaxCacheSeeds
  /\ cache_seed' = Append(cache_seed, tuple)
  /\ UNCHANGED rib_seed

SNext ==
  \/ \E entry \in BgpRibEntry : AddEntry(entry)
  \/ \E tuple \in BgpNexthopCache : AddTuple(tuple)

SSpec == SInit /\ [][SNext]_seeds

(***************************************************************************)
(* Properties                                                              *)
(***************************************************************************)

(* Every coerced input satisfies the precondition of api_bgp_nh_update     *)
(* (the first assertion of evaluate, format_tests.py:136-138).             *)
Admissible == invariant(Rib, Cache)

(* Coercing twice is coercing once: the case that format_tests.py keeps    *)
(* and runs as it is (evaluate, line 135) is the case the wrapper of       *)
(* CrossHair (crosshair_target.py:112-113) would run on the same input.    *)
Idempotent ==
  /\ dedup_rib_seed(Rib) = Rib
  /\ build_cache_seed(Rib, Cache) = Cache

(* Where x is first met in a list.                                         *)
FirstAt(l, x) == CHOOSE i \in DOMAIN l : l[i] = x /\ \A j \in DOMAIN l : l[j] = x => i <= j

(* The coercion loses no more than it must: a prefix is kept if one of its *)
(* entries has a nexthop, with all nexthops of the first such entry in the *)
(* order they are met (an empty entry does not use up its prefix), and an  *)
(* endpoint has the (resolved, valid) of its first tuple.                  *)
FirstWins ==
  /\ \A p \in Prefixes :
       LET offers == {i \in DOMAIN rib_seed :
                        rib_seed[i].prefix = p /\ rib_seed[i].nexthops # <<>>}
           kept == {i \in DOMAIN Rib : Rib[i].prefix = p}
       IN  IF offers = {} THEN kept = {}
           ELSE LET offered == rib_seed[Min(offers)].nexthops
                IN  \A i \in kept :
                      LET nhs == Rib[i].nexthops
                      IN  /\ Members(nhs) = Members(offered)
                          /\ \A a, b \in DOMAIN nhs :
                               a < b => FirstAt(offered, nhs[a]) < FirstAt(offered, nhs[b])
  /\ Members([i \in DOMAIN Rib |-> Rib[i].prefix])
       = {rib_seed[i].prefix : i \in {j \in DOMAIN rib_seed : rib_seed[j].nexthops # <<>>}}
  /\ \A i \in DOMAIN Cache : \A j \in DOMAIN cache_seed :
       /\ cache_seed[j].endpoint = Cache[i].endpoint
       /\ \A k \in 1 .. j - 1 : cache_seed[k].endpoint # Cache[i].endpoint
       => Cache[i] = cache_seed[j]

=============================================================================
