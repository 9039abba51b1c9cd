--------------------------- MODULE NexthopTables ---------------------------
(***************************************************************************)
(* The tables of bgpd's nexthop tracking and the invariant the model puts  *)
(* on them (api_bgp_nh_update.py:33-129), without any behaviour.           *)
(***************************************************************************)
EXTENDS Naturals, Sequences

CONSTANTS
  Prefixes,
  Addrs,
  MaxEntries,      \* bound: entries of the RIB
  MaxNexthops,     \* bound: nexthops of an entry
  MaxEndpoints     \* bound: entries of the cache

ASSUME NexthopAssumption ==
  MaxEntries \in Nat /\ MaxNexthops \in Nat /\ MaxEndpoints \in Nat

Lists(S, n) == UNION {[1 .. k -> S] : k \in 0 .. n}
Members(l) == {l[i] : i \in DOMAIN l}

BgpRibEntry == [prefix : Prefixes, nexthops : Lists(Addrs, MaxNexthops)]
BgpNexthopCache == [endpoint : Addrs, resolved : Addrs, valid : BOOLEAN]
BApiNexthopUpdate == [endpoint : Addrs, resolved : Addrs, status_up : BOOLEAN]
BgpdRouteEvent ==
  [op : {"SET", "DEL"}, prefix : Prefixes, nexthops : SUBSET Addrs]

(***************************************************************************)
(* BgpdNexthopState.invariant                                              *)
(***************************************************************************)
no_dup(l) == \A i, j \in DOMAIN l : l[i] = l[j] => i = j

Tracked(c) == {c[i].endpoint : i \in DOMAIN c}
Used(t)    == UNION {Members(t[i].nexthops) : i \in DOMAIN t}

cache_unique(c) == no_dup([i \in DOMAIN c |-> c[i].endpoint])
rib_keys_unique(t) == no_dup([i \in DOMAIN t |-> t[i].prefix])
rib_nhs_dedup(t) == \A i \in DOMAIN t : no_dup(t[i].nexthops)
rib_nonempty(t) == \A i \in DOMAIN t : t[i].nexthops # <<>>
all_rib_nhs_cached(t, c) == Used(t) \subseteq Tracked(c)
cache_is_referenced(t, c) == Tracked(c) \subseteq Used(t)

RibSound(t) == rib_keys_unique(t) /\ rib_nhs_dedup(t) /\ rib_nonempty(t)

invariant(t, c) ==
  /\ cache_unique(c)
  /\ RibSound(t)
  /\ all_rib_nhs_cached(t, c)
  /\ cache_is_referenced(t, c)

=============================================================================
