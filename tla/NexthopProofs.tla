--------------------------- MODULE NexthopProofs ---------------------------
(***************************************************************************)
(* Proofs about nexthop tracking, for any prefixes, addresses and bounds:  *)
(* the invariant of the tables, the soundness of the answers, and that     *)
(* api_bgp_nh_update keeps the promise of NexthopPromise; and, for inputs  *)
(* of any length, what the coercion to a test case makes of them.          *)
(***************************************************************************)
EXTENDS Nexthop, NexthopSeeds, SequenceTheorems, WellFoundedInduction, TLAPS

Caches == Lists(BgpNexthopCache, MaxEndpoints)

(***************************************************************************)
(* The tables                                                              *)
(***************************************************************************)

(* A cache is a function over some 1 .. k with records for values.         *)
LEMMA CacheShape ==
  ASSUME NEW c \in Caches
  PROVE  /\ \A i \in DOMAIN c : i \in Nat /\ c[i] \in BgpNexthopCache
         /\ \A i \in DOMAIN c, x \in BgpNexthopCache : [c EXCEPT ![i] = x] \in Caches
BY NexthopAssumption DEF Lists, Caches

(* An entry of the RIB is about a prefix and has addresses for nexthops.   *)
LEMMA RibShape ==
  ASSUME rib \in Lists(BgpRibEntry, MaxEntries)
  PROVE  /\ \A i \in DOMAIN rib :
              /\ rib[i].prefix \in Prefixes
              /\ Members(rib[i].nexthops) \subseteq NexthopsOf(rib[i].prefix)
         /\ \A p : NexthopsOf(p) \subseteq Addrs
<1>1. \A i \in DOMAIN rib : rib[i] \in BgpRibEntry
  BY DEF Lists
<1>2. \A i \in DOMAIN rib : rib[i].prefix \in Prefixes
                         /\ rib[i].nexthops \in Lists(Addrs, MaxNexthops)
  BY <1>1 DEF BgpRibEntry
<1>3. \A i \in DOMAIN rib : Members(rib[i].nexthops) \subseteq Addrs
  BY <1>2 DEF Members, Lists
<1>4. \A i \in DOMAIN rib : Members(rib[i].nexthops) \subseteq NexthopsOf(rib[i].prefix)
  BY DEF NexthopsOf
<1>5. \A p : NexthopsOf(p) \subseteq Addrs
  BY <1>3 DEF NexthopsOf
<1> QED
  BY <1>2, <1>4, <1>5

(* The loop of api_bgp_nh_update finds the one entry of a tracked endpoint.*)
LEMMA EntryExists ==
  ASSUME NEW c \in Caches, cache_unique(c), NEW e \in Tracked(c)
  PROVE  /\ EntryOf(c, e) \in DOMAIN c
         /\ c[EntryOf(c, e)].endpoint = e
         /\ \A j \in DOMAIN c : c[j].endpoint = e => j = EntryOf(c, e)
<1>1. PICK i \in DOMAIN c : c[i].endpoint = e
  BY DEF Tracked
<1>2. \A j \in DOMAIN c : c[j].endpoint = e => j = i
  BY <1>1 DEF cache_unique, no_dup
<1>3. i <= i
  BY CacheShape
<1>4. EntryOf(c, e) \in DOMAIN c /\ c[EntryOf(c, e)].endpoint = e
  BY <1>1, <1>2, <1>3 DEF EntryOf
<1> QED
  BY <1>2, <1>4

(* Refreshing an entry keeps the endpoints of the cache, and changes the   *)
(* reachability of the one that was reported.                              *)
LEMMA RefreshedCache ==
  ASSUME NEW c \in Caches, cache_unique(c),
         NEW api \in BApiNexthopUpdate, api.endpoint \in Tracked(c)
  PROVE  /\ Refreshed(c, api) \in Caches
         /\ cache_unique(Refreshed(c, api))
         /\ Tracked(Refreshed(c, api)) = Tracked(c)
         /\ Valid(Refreshed(c, api)) = IF api.status_up THEN Valid(c) \cup {api.endpoint}
                                       ELSE Valid(c) \ {api.endpoint}
<1> DEFINE e == EntryOf(c, api.endpoint)
           d == Refreshed(c, api)
<1>1. /\ e \in DOMAIN c /\ c[e].endpoint = api.endpoint
      /\ \A j \in DOMAIN c : c[j].endpoint = api.endpoint => j = e
  BY EntryExists
<1>2. c[e] \in BgpNexthopCache
  BY <1>1, CacheShape
<1> DEFINE x == [c[e] EXCEPT !.valid = api.status_up, !.resolved = api.resolved]
<1>3. /\ x \in BgpNexthopCache
      /\ x.endpoint = api.endpoint
      /\ x.valid = api.status_up
  BY <1>1, <1>2 DEF BgpNexthopCache, BApiNexthopUpdate
<1>4. d = [c EXCEPT ![e] = x]
  BY DEF Refreshed
<1> HIDE DEF x, e
<1>5. d \in Caches
  <2>1. [c EXCEPT ![e] = x] \in Caches
    BY <1>1, <1>3, CacheShape
  <2> QED
    BY <2>1, <1>4
<1>6. /\ DOMAIN d = DOMAIN c
      /\ d[e] = x
      /\ \A i \in DOMAIN c : i # e => d[i] = c[i]
  BY <1>1, <1>4 DEF Caches, Lists
<1> HIDE DEF d
<1>7. \A i \in DOMAIN c : d[i].endpoint = c[i].endpoint
  BY <1>1, <1>3, <1>6
<1>8. Tracked(d) = Tracked(c)
  BY <1>6, <1>7 DEF Tracked
<1>9. cache_unique(d)
  BY <1>6, <1>7 DEF cache_unique, no_dup
<1>10. Valid(d) = IF api.status_up THEN Valid(c) \cup {api.endpoint}
                  ELSE Valid(c) \ {api.endpoint}
  <2>1. CASE api.status_up
    BY <1>1, <1>3, <1>6, <2>1 DEF Valid
  <2>2. CASE ~api.status_up
    BY <1>1, <1>3, <1>6, <1>7, <2>2 DEF Valid
  <2> QED
    BY <2>1, <2>2
<1> QED
  BY <1>5, <1>8, <1>9, <1>10 DEF d

(* The entries of a RIB have distinct prefixes, so an entry has all of the *)
(* nexthops of its prefix.                                                 *)
LEMMA EntryNexthops ==
  ASSUME rib_keys_unique(rib), NEW i \in DOMAIN rib
  PROVE  NexthopsOf(rib[i].prefix) = Members(rib[i].nexthops)
<1>1. \A j \in DOMAIN rib : rib[j].prefix = rib[i].prefix => j = i
  BY DEF rib_keys_unique, no_dup
<1> QED
  BY <1>1 DEF NexthopsOf

(* Re-evaluating an entry answers with its valid nexthops, as a withdrawal *)
(* just when there are none (all_nhs_down is the complement of the filter).*)
LEMMA EvaluatedEntry ==
  ASSUME NEW c, NEW r, \A i \in DOMAIN c : c[i].valid \in BOOLEAN
  PROVE  /\ Evaluated(c, r).prefix = r.prefix
         /\ Evaluated(c, r).nexthops = Members(r.nexthops) \cap Valid(c)
         /\ Evaluated(c, r).op = "SET" <=> Members(r.nexthops) \cap Valid(c) # {}
         /\ Evaluated(c, r) \in [op : {"SET", "DEL"}, prefix : {r.prefix},
                                 nexthops : SUBSET Members(r.nexthops)]
<1>1. \A nh : is_valid_nh(c, nh) <=> nh \in Valid(c)
  BY DEF is_valid_nh, Valid
<1>2. \A nh : is_invalid_nh(c, nh) <=> nh \notin Valid(c)
  BY DEF is_invalid_nh, Valid
<1>3. all_nhs_down(c, r) <=> Members(r.nexthops) \cap Valid(c) = {}
  BY <1>2 DEF all_nhs_down
<1>4. {nh \in Members(r.nexthops) : is_valid_nh(c, nh)} = Members(r.nexthops) \cap Valid(c)
  BY <1>1
<1>5. CASE all_nhs_down(c, r)
  BY <1>3, <1>5 DEF Evaluated
<1>6. CASE ~all_nhs_down(c, r)
  BY <1>3, <1>4, <1>6 DEF Evaluated
<1> QED
  BY <1>5, <1>6

(***************************************************************************)
(* The call                                                                *)
(***************************************************************************)

(* Zebra has the valid nexthops of every prefix.                           *)
FibAgrees ==
  fib = [p \in Prefixes |-> NexthopsOf(p) \cap Valid(nexthop_cache_table)]

Inv ==
  /\ rib \in Lists(BgpRibEntry, MaxEntries)
  /\ nexthop_cache_table \in Caches
  /\ Invariant
  /\ FibAgrees

(* The answer of a call that re-evaluates, entry by entry.                 *)
LEMMA Answer ==
  ASSUME Inv, NEW api \in BApiNexthopUpdate, Reevaluate(api)
  PROVE  LET hit == {j \in DOMAIN rib : api.endpoint \in Members(rib[j].nexthops)} IN
         /\ nexthop_cache_table' = Refreshed(nexthop_cache_table, api)
         /\ api.endpoint \in Tracked(nexthop_cache_table)
         /\ \A i \in hit :
              /\ Evaluated(nexthop_cache_table', rib[i]) \in msgs'
              /\ Evaluated(nexthop_cache_table', rib[i]).prefix = rib[i].prefix
              /\ Evaluated(nexthop_cache_table', rib[i]).nexthops
                   = NexthopsOf(rib[i].prefix) \cap Valid(nexthop_cache_table')
              /\ Evaluated(nexthop_cache_table', rib[i]).op = "SET"
                   <=> Evaluated(nexthop_cache_table', rib[i]).nexthops # {}
              /\ Evaluated(nexthop_cache_table', rib[i]) \in BgpdRouteEvent
         /\ \A m \in msgs' : \E i \in hit : m = Evaluated(nexthop_cache_table', rib[i])
<1> DEFINE hit == {j \in DOMAIN rib : api.endpoint \in Members(rib[j].nexthops)}
           c == nexthop_cache_table'
<1>1. /\ c = Refreshed(nexthop_cache_table, api)
      /\ api.endpoint \in Tracked(nexthop_cache_table)
      /\ msgs' = {Evaluated(c, rib[i]) : i \in hit}
  BY DEF Reevaluate, Changes
<1>2. c \in Caches
  BY <1>1, RefreshedCache DEF Inv, Invariant, invariant
<1>3. \A i \in DOMAIN c : c[i].valid \in BOOLEAN
  BY <1>2, CacheShape DEF BgpNexthopCache
<1>4. ASSUME NEW i \in hit
      PROVE  /\ Evaluated(c, rib[i]).prefix = rib[i].prefix
             /\ Evaluated(c, rib[i]).nexthops = NexthopsOf(rib[i].prefix) \cap Valid(c)
             /\ Evaluated(c, rib[i]).op = "SET" <=> Evaluated(c, rib[i]).nexthops # {}
             /\ Evaluated(c, rib[i]) \in BgpdRouteEvent
  <2>1. NexthopsOf(rib[i].prefix) = Members(rib[i].nexthops)
    BY EntryNexthops DEF Inv, Invariant, invariant, RibSound
  <2>2. rib[i].prefix \in Prefixes /\ Members(rib[i].nexthops) \subseteq Addrs
    BY DEF Inv, Lists, BgpRibEntry, Members
  <2>3. /\ Evaluated(c, rib[i]).prefix = rib[i].prefix
        /\ Evaluated(c, rib[i]).nexthops = Members(rib[i].nexthops) \cap Valid(c)
        /\ Evaluated(c, rib[i]).op = "SET" <=> Members(rib[i].nexthops) \cap Valid(c) # {}
        /\ Evaluated(c, rib[i]) \in [op : {"SET", "DEL"}, prefix : {rib[i].prefix},
                                      nexthops : SUBSET Members(rib[i].nexthops)]
    BY <1>3, EvaluatedEntry
  <2> HIDE DEF c
  <2> QED
    BY <2>1, <2>2, <2>3 DEF BgpdRouteEvent
<1> HIDE DEF c
<1> QED
  BY <1>1, <1>4 DEF c

(* A call changes the reachability of at most the nexthop it reports.      *)
LEMMA FibFollows ==
  ASSUME Inv, NEW api \in BApiNexthopUpdate, Reevaluate(api)
  PROVE  FibAgrees'
<1> DEFINE hit == {j \in DOMAIN rib : api.endpoint \in Members(rib[j].nexthops)}
           c == nexthop_cache_table'
<1>1. /\ fib' = Applied(msgs', fib)
      /\ rib' = rib
  BY DEF Reevaluate
<1>2. \A p : NexthopsOf(p)' = NexthopsOf(p)
  BY <1>1 DEF NexthopsOf
<1>3. \A i \in hit :
        /\ Evaluated(c, rib[i]) \in msgs'
        /\ Evaluated(c, rib[i]).prefix = rib[i].prefix
        /\ Evaluated(c, rib[i]).nexthops = NexthopsOf(rib[i].prefix) \cap Valid(c)
  BY Answer
<1>4. \A m \in msgs' : \E i \in hit : m = Evaluated(c, rib[i])
  BY Answer
<1>5. ASSUME NEW p \in Prefixes
      PROVE  Applied(msgs', fib)[p] = NexthopsOf(p) \cap Valid(c)
  <2>1. CASE \E m \in msgs' : m.prefix = p
    <3>1. \A m \in msgs' : m.prefix = p => m.nexthops = NexthopsOf(p) \cap Valid(c)
      BY <1>3, <1>4
    <3>2. Applied(msgs', fib)[p] = (CHOOSE m \in msgs' : m.prefix = p).nexthops
      BY <2>1 DEF Applied
    <3> QED
      BY <2>1, <3>1, <3>2
  <2>2. CASE ~\E m \in msgs' : m.prefix = p
    <3>1. Applied(msgs', fib)[p] = fib[p]
      BY <2>2 DEF Applied
    <3>2. fib[p] = NexthopsOf(p) \cap Valid(nexthop_cache_table)
      BY DEF Inv, FibAgrees
    <3>3. api.endpoint \notin NexthopsOf(p)
      <4>1. \A i \in DOMAIN rib : rib[i].prefix = p => i \notin hit
        BY <1>3, <2>2
      <4> QED
        BY <4>1 DEF NexthopsOf
    <3>4. Valid(c) = IF api.status_up THEN Valid(nexthop_cache_table) \cup {api.endpoint}
                     ELSE Valid(nexthop_cache_table) \ {api.endpoint}
      <4>1. /\ c = Refreshed(nexthop_cache_table, api)
            /\ api.endpoint \in Tracked(nexthop_cache_table)
        BY Answer
      <4> QED
        BY <4>1, RefreshedCache DEF Inv, Invariant, invariant
    <3> HIDE DEF c
    <3> QED
      BY <3>1, <3>2, <3>3, <3>4
  <2> QED
    BY <2>1, <2>2
<1>6. Applied(msgs', fib) = [p \in Prefixes |-> NexthopsOf(p) \cap Valid(c)]
  BY <1>5 DEF Applied
<1> QED
  BY <1>1, <1>2, <1>6 DEF FibAgrees

(* The invariant of the tables and the agreement of zebra are inductive.   *)
LEMMA InvStep == Inv /\ [Next]_vars => Inv'
<1> SUFFICES ASSUME Inv, [Next]_vars
             PROVE  Inv'
  OBVIOUS
<1>1. ASSUME NEW api \in BApiNexthopUpdate, Nothing(api)
      PROVE  Inv'
  BY <1>1 DEF Nothing, Inv, Invariant, FibAgrees, NexthopsOf
<1>2. ASSUME NEW api \in BApiNexthopUpdate, Reevaluate(api)
      PROVE  Inv'
  <2>1. /\ nexthop_cache_table' = Refreshed(nexthop_cache_table, api)
        /\ api.endpoint \in Tracked(nexthop_cache_table)
        /\ rib' = rib
    BY <1>2 DEF Reevaluate, Changes
  <2>2. /\ nexthop_cache_table' \in Caches
        /\ cache_unique(nexthop_cache_table')
        /\ Tracked(nexthop_cache_table') = Tracked(nexthop_cache_table)
    BY <2>1, RefreshedCache DEF Inv, Invariant, invariant
  <2>3. Invariant'
    BY <2>1, <2>2 DEF Inv, Invariant, invariant, all_rib_nhs_cached, cache_is_referenced
  <2>4. FibAgrees'
    BY <1>2, FibFollows
  <2> QED
    BY <2>1, <2>2, <2>3, <2>4 DEF Inv
<1>3. CASE UNCHANGED vars
  BY <1>3 DEF vars, Inv, Invariant, FibAgrees, NexthopsOf
<1> QED
  BY <1>1, <1>2, <1>3 DEF Next, api_bgp_nh_update

(* Inv holds in every reachable state.                                     *)
LEMMA InvHolds == Spec => []Inv
<1>1. Init => Inv
  BY DEF Init, Inv, Invariant, FibAgrees, Caches
<1> QED
  BY <1>1, InvStep, PTL DEF Spec

(* Every call leaves the state with the invariant that evaluate() asserts  *)
(* of each generated test (format_tests.py:122-144).                       *)
THEOREM InvariantHolds == Spec => []Invariant
<1>1. Inv => Invariant
  BY DEF Inv
<1> QED
  BY <1>1, InvHolds, PTL

(***************************************************************************)
(* The answers                                                             *)
(***************************************************************************)

(* The answers to zebra are sound in every reachable state: one message    *)
(* for a prefix, withdrawals and announcements told apart, and never a     *)
(* nexthop that is down (api_bgp_nh_update.py:139-170).                    *)
THEOREM AnswersAreSound == Spec => []MessagesSound
<1>1. Init => MessagesSound
  BY DEF Init, MessagesSound
<1>2. Inv /\ MessagesSound /\ [Next]_vars => MessagesSound'
  <2> SUFFICES ASSUME Inv, MessagesSound, [Next]_vars
               PROVE  MessagesSound'
    OBVIOUS
  <2>1. ASSUME NEW api \in BApiNexthopUpdate, Nothing(api)
        PROVE  MessagesSound'
    BY <2>1 DEF Nothing, MessagesSound
  <2>2. ASSUME NEW api \in BApiNexthopUpdate, Reevaluate(api)
        PROVE  MessagesSound'
    <3> DEFINE hit == {j \in DOMAIN rib : api.endpoint \in Members(rib[j].nexthops)}
               c == nexthop_cache_table'
    <3>1. \A i \in hit :
            /\ Evaluated(c, rib[i]).prefix = rib[i].prefix
            /\ Evaluated(c, rib[i]).nexthops = NexthopsOf(rib[i].prefix) \cap Valid(c)
            /\ Evaluated(c, rib[i]).op = "SET" <=> Evaluated(c, rib[i]).nexthops # {}
      BY <2>2, Answer
    <3>2. \A m \in msgs' : \E i \in hit : m = Evaluated(c, rib[i])
      BY <2>2, Answer
    <3>3. \A i, j \in hit : rib[i].prefix = rib[j].prefix => i = j
      BY DEF Inv, Invariant, invariant, RibSound, rib_keys_unique, no_dup
    <3>4. \A p : NexthopsOf(p)' = NexthopsOf(p)
      BY <2>2 DEF Reevaluate, NexthopsOf
    <3> HIDE DEF hit
    <3>5. \A m, n \in msgs' : m.prefix = n.prefix => m = n
      BY <3>1, <3>2, <3>3
    <3>6. \A m \in msgs' : m.op = "SET" <=> m.nexthops # {}
      BY <3>1, <3>2
    <3>7. \A m \in msgs' : m.nexthops \subseteq NexthopsOf(m.prefix) \cap Valid(c)
      BY <3>1, <3>2
    <3> QED
      BY <3>4, <3>5, <3>6, <3>7 DEF MessagesSound
  <2>3. CASE UNCHANGED vars
    BY <2>3 DEF vars, MessagesSound, NexthopsOf
  <2> QED
    BY <2>1, <2>2, <2>3 DEF Next, api_bgp_nh_update
<1> QED
  BY <1>1, <1>2, InvHolds, PTL DEF Spec

(* Every declared type holds in every reachable state.                     *)
THEOREM TypeCorrect == Spec => []TypeOK
<1>1. Init => TypeOK
  <2>1. \A p \in Prefixes : Init => NexthopsOf(p) \subseteq Addrs
    BY RibShape DEF Init
  <2> QED
    BY <2>1 DEF Init, TypeOK
<1>2. Inv /\ TypeOK /\ [Next]_vars /\ Inv' => TypeOK'
  <2> SUFFICES ASSUME Inv, TypeOK, [Next]_vars, Inv'
               PROVE  TypeOK'
    OBVIOUS
  <2>1. rib' \in Lists(BgpRibEntry, MaxEntries) /\ nexthop_cache_table' \in Caches
    BY DEF Inv
  <2>2. fib' \in [Prefixes -> SUBSET Addrs]
    <3>1. rib' = rib
      BY DEF Next, api_bgp_nh_update, Nothing, Reevaluate, vars
    <3>2. \A p \in Prefixes : NexthopsOf(p) \subseteq Addrs
      BY RibShape DEF Inv
    <3>3. \A p \in Prefixes : NexthopsOf(p)' \subseteq Addrs
      BY <3>1, <3>2 DEF NexthopsOf
    <3> QED
      BY <3>3 DEF Inv, FibAgrees
  <2>3. msgs' \subseteq BgpdRouteEvent
    <3>1. ASSUME NEW api \in BApiNexthopUpdate, Nothing(api)
          PROVE  msgs' \subseteq BgpdRouteEvent
      BY <3>1 DEF Nothing
    <3>2. ASSUME NEW api \in BApiNexthopUpdate, Reevaluate(api)
          PROVE  msgs' \subseteq BgpdRouteEvent
      BY <3>2, Answer
    <3>3. CASE UNCHANGED vars
      BY <3>3 DEF vars, TypeOK
    <3> QED
      BY <3>1, <3>2, <3>3 DEF Next, api_bgp_nh_update
  <2> QED
    BY <2>1, <2>2, <2>3 DEF TypeOK, Caches
<1> QED
  BY <1>1, <1>2, InvHolds, PTL DEF Spec

(***************************************************************************)
(* The promise                                                             *)
(***************************************************************************)

(* Whatever nexthop changes, zebra's routes follow: nexthop tracking       *)
(* implements NexthopPromise, for which the RIB, the reachable nexthops    *)
(* and the routes of zebra are all there is.                               *)
THEOREM ThePromiseIsKept == Spec => KeepsPromise
<1>1. Init => Promise!PInit
  <2> SUFFICES ASSUME Init
               PROVE  Promise!PInit
    OBVIOUS
  <2> DEFINE uses == [p \in Prefixes |-> NexthopsOf(p)]
  <2>1. uses \in [Prefixes -> SUBSET Addrs]
    BY RibShape DEF Init
  <2>2. Valid(nexthop_cache_table) \subseteq UNION {uses[p] : p \in Prefixes}
    <3>1. Valid(nexthop_cache_table) \subseteq Tracked(nexthop_cache_table)
      BY DEF Valid, Tracked
    <3>2. Tracked(nexthop_cache_table) \subseteq Used(rib)
      BY DEF Init, invariant, cache_is_referenced
    <3>3. \A i \in DOMAIN rib : rib[i].prefix \in Prefixes
                             /\ Members(rib[i].nexthops) \subseteq NexthopsOf(rib[i].prefix)
      BY RibShape DEF Init
    <3> QED
      BY <3>1, <3>2, <3>3 DEF Used
  <2>3. fib = [p \in Prefixes |-> uses[p] \cap Valid(nexthop_cache_table)]
    BY DEF Init
  <2> QED
    BY <2>1, <2>2, <2>3 DEF Promise!PInit, Promise!Usable
<1>2. Inv /\ Inv' /\ [Next]_vars => [Promise!PNext]_(Promise!pvars)
  <2> SUFFICES ASSUME Inv, Inv', [Next]_vars
               PROVE  [Promise!PNext]_(Promise!pvars)
    OBVIOUS
  <2> DEFINE uses == [p \in Prefixes |-> NexthopsOf(p)]
             up == Valid(nexthop_cache_table)
  <2>1. rib' = rib
    BY DEF Next, api_bgp_nh_update, Nothing, Reevaluate, vars
  <2>2. uses' = uses
    BY <2>1 DEF NexthopsOf
  <2>3. /\ fib = [p \in Prefixes |-> uses[p] \cap up]
        /\ fib' = [p \in Prefixes |-> uses[p] \cap up']
    BY <2>2 DEF Inv, FibAgrees
  <2>4. CASE up' = up
    <3>1. fib' = fib
      BY <2>3, <2>4
    <3> QED
      BY <2>2, <2>4, <3>1 DEF Promise!pvars
  <2>5. CASE up' # up
    <3>1. PICK api \in BApiNexthopUpdate : Reevaluate(api)
      BY <2>5 DEF Next, api_bgp_nh_update, Nothing, Valid, vars
    <3>2. /\ nexthop_cache_table' = Refreshed(nexthop_cache_table, api)
          /\ api.endpoint \in Tracked(nexthop_cache_table)
      BY <3>1 DEF Reevaluate, Changes
    <3>3. up' = IF api.status_up THEN up \cup {api.endpoint} ELSE up \ {api.endpoint}
      BY <3>2, RefreshedCache DEF Inv, Invariant, invariant
    <3>4. up' = IF api.endpoint \in up THEN up \ {api.endpoint} ELSE up \cup {api.endpoint}
      BY <2>5, <3>3
    <3>5. \E p \in Prefixes : api.endpoint \in uses[p]
      <4>1. api.endpoint \in Used(rib)
        BY <3>2 DEF Inv, Invariant, invariant, cache_is_referenced
      <4>2. PICK i \in DOMAIN rib : api.endpoint \in Members(rib[i].nexthops)
        BY <4>1 DEF Used
      <4>3. rib[i].prefix \in Prefixes /\ api.endpoint \in NexthopsOf(rib[i].prefix)
        BY <4>2, RibShape DEF Inv
      <4> QED
        BY <4>3
    <3>6. api.endpoint \in Addrs
      BY DEF BApiNexthopUpdate
    <3> QED
      BY <2>2, <2>3, <3>4, <3>5, <3>6 DEF Promise!PNext, Promise!Turn, Promise!Usable
  <2> QED
    BY <2>4, <2>5
<1> QED
  BY <1>1, <1>2, InvHolds, PTL DEF Spec, KeepsPromise, Promise!PSpec

(***************************************************************************)
(* The loops of the coercion                                               *)
(***************************************************************************)

(* Induction on natural numbers, as a property of sets of them.            *)
LEMMA Induction ==
  ASSUME NEW T \in SUBSET Nat, 0 \in T, \A n \in T : n + 1 \in T
  PROVE  T = Nat
<1> DEFINE Less == OpToRel(<, Nat)
           U == Nat \ T
<1> SUFFICES ASSUME U # {} PROVE FALSE
  OBVIOUS
<1>1. IsWellFoundedOn(Less, Nat)
  BY NatLessThanWellFounded
<1>2. \A x, y \in Nat : <<x, y>> \in Less <=> x < y
  BY DEF OpToRel
<1> HIDE DEF Less
<1>3. PICK m \in U : \A k \in U : ~ (<<k, m>> \in Less)
  <2>1. U \subseteq Nat
    OBVIOUS
  <2> HIDE DEF U
  <2> QED
    BY <1>1, <2>1, WFMin
<1>4. m \in Nat /\ m # 0 /\ m - 1 \in Nat /\ m - 1 < m
  BY <1>3
<1>5. m - 1 \in T
  BY <1>2, <1>3, <1>4
<1>6. (m - 1) + 1 \in T
  BY <1>5
<1> QED
  BY <1>3, <1>4, <1>6

(* A set of natural numbers has a least one.                               *)
LEMMA Least ==
  ASSUME NEW s \in SUBSET Nat, s # {}
  PROVE  Min(s) \in s /\ \A y \in s : Min(s) <= y
<1> DEFINE Less == OpToRel(<, Nat)
<1>1. IsWellFoundedOn(Less, Nat)
  BY NatLessThanWellFounded
<1>2. \A x, y \in Nat : <<x, y>> \in Less <=> x < y
  BY DEF OpToRel
<1> HIDE DEF Less
<1>3. PICK m \in s : \A k \in s : ~ (<<k, m>> \in Less)
  BY <1>1, WFMin
<1>4. ASSUME NEW k \in s PROVE m =< k
  <2>1. k \in Nat /\ m \in Nat /\ ~(k < m)
    BY <1>2, <1>3
  <2> QED
    BY <2>1
<1> QED
  BY <1>3, <1>4 DEF Min

(* A set of natural numbers with a bound has a greatest one.               *)
LEMMA Greatest ==
  ASSUME NEW n \in Nat, NEW s \in SUBSET (1 .. n), s # {}
  PROVE  Max(s) \in s /\ \A y \in s : y <= Max(s)
<1> DEFINE B == {b \in Nat : \A y \in s : y <= b}
           b == Min(B)
<1>1. n \in B /\ B \in SUBSET Nat
  OBVIOUS
<1>2. b \in B /\ \A y \in B : b <= y
  BY <1>1, Least
<1> HIDE DEF b
<1>3. b \in s
  <2> SUFFICES ASSUME b \notin s PROVE FALSE
    OBVIOUS
  <2>1. PICK x \in s : TRUE
    OBVIOUS
  <2>2. b - 1 \in B
    BY <1>2, <2>1
  <2> QED
    BY <1>2, <2>2
<1>4. \A y \in s : b >= y
  BY <1>2
<1> QED
  BY <1>3, <1>4 DEF Max

(* What a round of either loop does, for the nexthops of an entry and for  *)
(* the entries of a RIB.                                                   *)
Round(loop, out, x) ==
  IF loop = "nexthops" THEN IF x \in Members(out) THEN out ELSE Append(out, x)
  ELSE IF Keeps(out, x) THEN Append(out, [x EXCEPT !.nexthops = Deduped(@)]) ELSE out

(* The fold of the library: it takes off the last index, f being the rest. *)
Folded(loop, l, f, s) ==
  IF s = {} THEN <<>> ELSE Round(loop, f[s \ {Max(s)}], l[Max(s)])
Iter(loop, l, S) == CHOOSE iter : iter = [s \in SUBSET S |-> Folded(loop, l, iter, s)]

(* The loops are folds.                                                    *)
LEMMA LoopsAreFolds ==
  ASSUME NEW l
  PROVE  /\ Deduped(l) = Iter("nexthops", l, DOMAIN l)[DOMAIN l]
         /\ dedup_rib_seed(l) = Iter("entries", l, DOMAIN l)[DOMAIN l]
<1>1. Deduped(l) = Iter("nexthops", l, DOMAIN l)[DOMAIN l]
  BY DEF Deduped, SequencesLib!FoldLeft, SequencesLib!MapThenFoldSet, SequencesLib!Max, Max,
         Iter, Folded, Round
<1>2. dedup_rib_seed(l) = Iter("entries", l, DOMAIN l)[DOMAIN l]
  BY DEF dedup_rib_seed, SequencesLib!FoldLeft, SequencesLib!MapThenFoldSet, SequencesLib!Max,
         Max, Iter, Folded, Round
<1> QED
  BY <1>1, <1>2

(* The folds are defined, for lists of any length, by induction on it.     *)
LEMMA IterWorks ==
  ASSUME NEW loop, NEW l, NEW k \in Nat
  PROVE  \A s \in SUBSET (1 .. k) :
           Iter(loop, l, 1 .. k)[s] = Folded(loop, l, Iter(loop, l, 1 .. k), s)
<1> DEFINE T == {n \in Nat : \E f : f = [s \in SUBSET (1 .. n) |-> Folded(loop, l, f, s)]}
<1>1. 0 \in T
  <2> DEFINE f == [s \in SUBSET (1 .. 0) |-> <<>>]
  <2>1. \A s \in SUBSET (1 .. 0) : s = {}
    OBVIOUS
  <2>2. f = [s \in SUBSET (1 .. 0) |-> Folded(loop, l, f, s)]
    BY <2>1 DEF Folded
  <2> QED
    BY <2>2
<1>2. ASSUME NEW n \in T PROVE n + 1 \in T
  <2>1. PICK f : f = [s \in SUBSET (1 .. n) |-> Folded(loop, l, f, s)]
    OBVIOUS
  <2> DEFINE g == [s \in SUBSET (1 .. n + 1) |-> Folded(loop, l, f, s)]
  <2>2. ASSUME NEW s \in SUBSET (1 .. n + 1)
        PROVE  Folded(loop, l, f, s) = Folded(loop, l, g, s)
    <3>1. CASE s = {}
      BY <3>1 DEF Folded
    <3>2. CASE s # {}
      <4> DEFINE t == s \ {Max(s)}
      <4>1. n + 1 \in Nat /\ n \in Nat
        OBVIOUS
      <4>2. Max(s) \in s /\ \A y \in s : y <= Max(s)
        BY <3>2, <4>1, Greatest
      <4>3. ASSUME NEW y \in t PROVE y \in 1 .. n
        <5>1. /\ y \in 1 .. n + 1 /\ Max(s) \in 1 .. n + 1
              /\ y # Max(s) /\ y <= Max(s)
          BY <4>2
        <5> QED
          BY <4>1, <5>1
      <4>4. t \in SUBSET (1 .. n) /\ t \in SUBSET (1 .. n + 1)
        BY <4>3
      <4>5. f[t] = Folded(loop, l, f, t) /\ g[t] = Folded(loop, l, f, t)
        BY <2>1, <4>4
      <4> QED
        BY <3>2, <4>5 DEF Folded
    <3> QED
      BY <3>1, <3>2
  <2>3. g = [s \in SUBSET (1 .. n + 1) |-> Folded(loop, l, g, s)]
    BY <2>2
  <2>4. n + 1 \in Nat
    OBVIOUS
  <2> HIDE DEF g
  <2> QED
    BY <2>3, <2>4
<1>3. k \in T
  <2>1. T \in SUBSET Nat /\ \A n \in T : n + 1 \in T
    BY <1>2
  <2> HIDE DEF T
  <2>2. T = Nat
    BY <1>1, <2>1, Induction
  <2> QED
    BY <2>2
<1>4. \E f : f = [s \in SUBSET (1 .. k) |-> Folded(loop, l, f, s)]
  BY <1>3
<1>5. Iter(loop, l, 1 .. k) =
        [s \in SUBSET (1 .. k) |-> Folded(loop, l, Iter(loop, l, 1 .. k), s)]
  BY <1>4 DEF Iter
<1> QED
  BY <1>5

(* Such a loop goes through its list from the first element to the last.   *)
LEMMA Rounds ==
  ASSUME NEW loop, NEW S, NEW l \in Seq(S)
  PROVE  \E d : /\ d[0] = <<>>
                /\ \A n \in 1 .. Len(l) : d[n] = Round(loop, d[n - 1], l[n])
                /\ d[Len(l)] = Iter(loop, l, DOMAIN l)[DOMAIN l]
<1> DEFINE k == Len(l)
           f == Iter(loop, l, 1 .. k)
           d == [n \in 0 .. k |-> f[1 .. n]]
<1>1. k \in Nat /\ DOMAIN l = 1 .. k
  OBVIOUS
<1>2. \A s \in SUBSET (1 .. k) : f[s] = Folded(loop, l, f, s)
  BY <1>1, IterWorks
<1> HIDE DEF f, k
<1>3. d[0] = <<>>
  <2>1. 0 \in 0 .. k /\ 1 .. 0 = {} /\ 1 .. 0 \in SUBSET (1 .. k)
    BY <1>1
  <2>2. d[0] = f[1 .. 0]
    BY <2>1
  <2>3. f[1 .. 0] = Folded(loop, l, f, 1 .. 0)
    BY <1>2, <2>1
  <2> QED
    BY <2>1, <2>2, <2>3 DEF Folded
<1>4. ASSUME NEW n \in 1 .. k PROVE d[n] = Round(loop, d[n - 1], l[n])
  <2>1. /\ n \in Nat /\ n - 1 \in 0 .. k /\ n \in 0 .. k
        /\ 1 .. n \in SUBSET (1 .. k) /\ n \in 1 .. n
    BY <1>1
  <2>2. Max(1 .. n) = n
    <3>1. Max(1 .. n) \in 1 .. n /\ \A y \in 1 .. n : y <= Max(1 .. n)
      BY <2>1, Greatest
    <3> QED
      BY <2>1, <3>1
  <2>3. (1 .. n) \ {n} = 1 .. n - 1
    BY <2>1
  <2>4. f[1 .. n] = Folded(loop, l, f, 1 .. n)
    BY <1>2, <2>1
  <2>5. f[1 .. n] = Round(loop, f[1 .. n - 1], l[n])
    BY <2>1, <2>2, <2>3, <2>4 DEF Folded
  <2> QED
    BY <2>1, <2>5
<1>5. d[k] = Iter(loop, l, DOMAIN l)[DOMAIN l]
  <2>1. d[k] = f[1 .. k]
    BY <1>1
  <2> QED
    BY <1>1, <2>1 DEF f
<1> HIDE DEF d
<1> QED
  BY <1>3, <1>4, <1>5 DEF k

(***************************************************************************)
(* The nexthops of an entry                                                *)
(***************************************************************************)

(* An element of a list is first met somewhere.                            *)
LEMMA FirstAtIs ==
  ASSUME NEW S, NEW l \in Seq(S), NEW x \in Members(l)
  PROVE  /\ FirstAt(l, x) \in DOMAIN l /\ l[FirstAt(l, x)] = x
         /\ \A j \in DOMAIN l : l[j] = x => FirstAt(l, x) <= j
<1> DEFINE at == {i \in DOMAIN l : l[i] = x}
<1>1. at \in SUBSET Nat /\ at # {}
  BY DEF Members
<1>2. Min(at) \in at /\ \A y \in at : Min(at) <= y
  BY <1>1, Least
<1>3. \E i \in DOMAIN l : l[i] = x /\ \A j \in DOMAIN l : l[j] = x => i <= j
  BY <1>2
<1> QED
  BY <1>3 DEF FirstAt

(* A list that is made longer.                                             *)
LEMMA Longer ==
  ASSUME NEW S, NEW l \in Seq(S), NEW x \in S
  PROVE  /\ Append(l, x) \in Seq(S)
         /\ DOMAIN l = 1 .. Len(l) /\ Len(l) \in Nat
         /\ DOMAIN Append(l, x) = 1 .. Len(l) + 1
         /\ \A i \in 1 .. Len(l) : Append(l, x)[i] = l[i]
         /\ Append(l, x)[Len(l) + 1] = x
         /\ \A y : y \in Members(Append(l, x)) <=> y \in Members(l) \/ y = x
<1>1. /\ Append(l, x) \in Seq(S)
      /\ DOMAIN l = 1 .. Len(l) /\ Len(l) \in Nat
      /\ DOMAIN Append(l, x) = 1 .. Len(l) + 1
      /\ \A i \in 1 .. Len(l) : Append(l, x)[i] = l[i]
      /\ Append(l, x)[Len(l) + 1] = x
  OBVIOUS
<1>2. 1 .. Len(l) + 1 = (1 .. Len(l)) \cup {Len(l) + 1}
  BY <1>1
<1>3. \A y : y \in Members(Append(l, x)) <=> y \in Members(l) \/ y = x
  BY <1>1, <1>2, Zenon DEF Members
<1> QED
  BY <1>1, <1>3

(* What the loop has, after the first n elements.                          *)
Deduping(l, out, n) ==
  /\ no_dup(out)
  /\ \A x : x \in Members(out) <=> \E j \in 1 .. n : l[j] = x
  /\ \A a, b \in DOMAIN out : a < b => FirstAt(l, out[a]) < FirstAt(l, out[b])
  /\ no_dup(l) => out = [i \in 1 .. n |-> l[i]]

(* One round more.                                                         *)
LEMMA DedupingStep ==
  ASSUME NEW S, NEW l \in Seq(S), NEW n \in 1 .. Len(l), NEW out \in Seq(S),
         Deduping(l, out, n - 1)
  PROVE  /\ Round("nexthops", out, l[n]) \in Seq(S)
         /\ Deduping(l, Round("nexthops", out, l[n]), n)
<1> DEFINE x == l[n]
           k == Len(out)
<1>1. /\ n \in Nat /\ n - 1 \in Nat /\ Len(l) \in Nat /\ k \in Nat
      /\ DOMAIN l = 1 .. Len(l) /\ DOMAIN out = 1 .. k
      /\ x \in S /\ n \in DOMAIN l
  OBVIOUS
<1>2. 1 .. n = (1 .. n - 1) \cup {n} /\ n \notin 1 .. n - 1 /\ 1 .. n \subseteq DOMAIN l
  BY <1>1
<1>3. \A i \in DOMAIN out : out[i] \in Members(out)
  BY DEF Members
<1>4. \A i \in DOMAIN out : \E j \in 1 .. n - 1 : l[j] = out[i]
  BY <1>3 DEF Deduping
<1>5. CASE x \in Members(out)
  <2>1. Round("nexthops", out, x) = out
    BY <1>5 DEF Round
  <2>2. PICK j \in 1 .. n - 1 : l[j] = x
    BY <1>5 DEF Deduping
  <2>3. \A y : y \in Members(out) <=> \E m \in 1 .. n : l[m] = y
    BY <1>2, <2>2 DEF Deduping
  <2>4. ~no_dup(l)
    BY <1>1, <1>2, <2>2 DEF no_dup
  <2> QED
    BY <2>1, <2>3, <2>4 DEF Deduping
<1>6. CASE x \notin Members(out)
  <2> DEFINE new == Append(out, x)
  <2>1. Round("nexthops", out, x) = new
    BY <1>6 DEF Round
  <2>2. /\ new \in Seq(S)
        /\ DOMAIN new = 1 .. k + 1
        /\ \A i \in 1 .. k : new[i] = out[i]
        /\ new[k + 1] = x
        /\ \A y : y \in Members(new) <=> y \in Members(out) \/ y = x
    BY <1>1, Longer
  <2>3. 1 .. k + 1 = (1 .. k) \cup {k + 1} /\ k + 1 \notin 1 .. k
    BY <1>1
  <2>4. \A i \in 1 .. k : out[i] # x
    BY <1>1, <1>3, <1>6
  <2> HIDE DEF new, x, k
  <2>5. no_dup(new)
    <3>1. \A i, j \in 1 .. k : out[i] = out[j] => i = j
      BY <1>1 DEF Deduping, no_dup
    <3> QED
      BY <2>2, <2>3, <2>4, <3>1 DEF no_dup
  <2>6. \A y : y \in Members(new) <=> \E j \in 1 .. n : l[j] = y
    <3>1. \A y : y \in Members(out) <=> \E j \in 1 .. n - 1 : l[j] = y
      BY DEF Deduping
    <3>2. l[n] = x
      BY DEF x
    <3> QED
      BY <1>2, <2>2, <3>1, <3>2
  <2>7. ASSUME NEW a \in DOMAIN new, NEW b \in DOMAIN new, a < b
        PROVE  FirstAt(l, new[a]) < FirstAt(l, new[b])
    <3>1. a \in 1 .. k
      BY <1>1, <2>2, <2>7
    <3>2. CASE b \in 1 .. k
      BY <1>1, <2>2, <2>7, <3>1, <3>2 DEF Deduping
    <3>3. CASE b = k + 1
      <4>1. PICK j \in 1 .. n - 1 : l[j] = new[a]
        BY <1>1, <1>4, <2>2, <3>1
      <4>2. j \in DOMAIN l /\ new[a] \in Members(l)
        BY <1>2, <4>1 DEF Members
      <4>3. FirstAt(l, new[a]) \in DOMAIN l /\ FirstAt(l, new[a]) <= j
        BY <4>1, <4>2, FirstAtIs
      <4>4. x \in Members(l)
        BY <1>1 DEF Members, x
      <4>5. FirstAt(l, x) \in DOMAIN l /\ l[FirstAt(l, x)] = x
        BY <4>4, FirstAtIs
      <4>6. FirstAt(l, x) \notin 1 .. n - 1
        BY <1>6, <4>5 DEF Deduping
      <4>7. /\ FirstAt(l, new[a]) \in Nat /\ FirstAt(l, x) \in Nat /\ FirstAt(l, x) >= 1
            /\ j \in Nat /\ j <= n - 1
        BY <1>1, <4>1, <4>3, <4>5
      <4>8. FirstAt(l, x) >= n
        BY <1>1, <4>6, <4>7
      <4>9. FirstAt(l, new[a]) < FirstAt(l, x)
        BY <1>1, <4>3, <4>7, <4>8
      <4> QED
        BY <2>2, <3>3, <4>9
    <3> QED
      BY <2>2, <2>3, <3>2, <3>3
  <2>8. ASSUME no_dup(l) PROVE new = [i \in 1 .. n |-> l[i]]
    <3>1. out = [i \in 1 .. n - 1 |-> l[i]]
      BY <2>8 DEF Deduping
    <3>2. k = n - 1
      <4>1. Len(out) = n - 1
        BY <1>1, <3>1
      <4> QED
        BY <4>1 DEF k
    <3>3. \A i \in 1 .. n : new[i] = l[i]
      <4>1. \A i \in 1 .. n - 1 : new[i] = l[i]
        BY <2>2, <3>1, <3>2
      <4>2. new[n] = l[n]
        BY <1>1, <2>2, <3>2 DEF x
      <4> QED
        BY <1>2, <4>1, <4>2
    <3>4. DOMAIN new = 1 .. n
      BY <1>1, <2>2, <3>2
    <3>5. new = [i \in DOMAIN new |-> new[i]]
      BY <2>2
    <3> QED
      BY <3>3, <3>4, <3>5
  <2>9. Deduping(l, new, n)
    BY <2>5, <2>6, <2>7, <2>8 DEF Deduping
  <2> QED
    BY <2>1, <2>2, <2>9 DEF x
<1> QED
  BY <1>5, <1>6

(* Deduped keeps the first of each, in their order, and all if it may.     *)
LEMMA DedupedIs ==
  ASSUME NEW S, NEW l \in Seq(S)
  PROVE  LET u == Deduped(l)
         IN  /\ u \in Seq(S) /\ no_dup(u) /\ Members(u) = Members(l)
             /\ \A a, b \in DOMAIN u : a < b => FirstAt(l, u[a]) < FirstAt(l, u[b])
             /\ no_dup(l) => u = l
<1>1. PICK d : /\ d[0] = <<>>
               /\ \A n \in 1 .. Len(l) : d[n] = Round("nexthops", d[n - 1], l[n])
               /\ d[Len(l)] = Deduped(l)
  <2>1. Deduped(l) = Iter("nexthops", l, DOMAIN l)[DOMAIN l]
    BY LoopsAreFolds, Zenon
  <2> QED
    BY <2>1, Rounds
<1> DEFINE T == {n \in Nat : n <= Len(l) => d[n] \in Seq(S) /\ Deduping(l, d[n], n)}
<1>2. Len(l) \in Nat /\ DOMAIN l = 1 .. Len(l) /\ l = [i \in 1 .. Len(l) |-> l[i]]
  OBVIOUS
<1>3. 0 \in T
  <2>1. <<>> \in Seq(S) /\ DOMAIN <<>> = {} /\ 1 .. 0 = {}
    OBVIOUS
  <2>2. <<>> = [i \in 1 .. 0 |-> l[i]]
    OBVIOUS
  <2>3. Members(<<>>) = {}
    BY <2>1 DEF Members
  <2>4. Deduping(l, <<>>, 0)
    BY <2>1, <2>2, <2>3 DEF Deduping, no_dup
  <2> QED
    BY <1>1, <2>1, <2>4
<1>4. ASSUME NEW n \in T PROVE n + 1 \in T
  <2> SUFFICES ASSUME n + 1 <= Len(l)
               PROVE  d[n + 1] \in Seq(S) /\ Deduping(l, d[n + 1], n + 1)
    OBVIOUS
  <2>1. /\ n \in Nat /\ n <= Len(l) /\ n + 1 \in 1 .. Len(l) /\ (n + 1) - 1 = n
    BY <1>2
  <2>2. d[n] \in Seq(S) /\ Deduping(l, d[n], n)
    BY <2>1
  <2>3. d[n + 1] = Round("nexthops", d[n], l[n + 1])
    BY <1>1, <2>1
  <2> QED
    BY <2>1, <2>2, <2>3, DedupingStep
<1>5. d[Len(l)] \in Seq(S) /\ Deduping(l, d[Len(l)], Len(l))
  <2>1. T \in SUBSET Nat /\ \A n \in T : n + 1 \in T
    BY <1>4
  <2> HIDE DEF T
  <2>2. T = Nat
    BY <1>3, <2>1, Induction
  <2>3. Len(l) \in T
    BY <1>2, <2>2
  <2> QED
    BY <1>2, <2>3 DEF T
<1>6. \A x : x \in Members(l) <=> \E j \in 1 .. Len(l) : l[j] = x
  BY <1>2 DEF Members
<1>7. Members(Deduped(l)) = Members(l)
  BY <1>1, <1>5, <1>6 DEF Deduping
<1> QED
  BY <1>1, <1>2, <1>5, <1>7 DEF Deduping

(***************************************************************************)
(* The entries of a RIB                                                    *)
(***************************************************************************)
Entry == [prefix : Prefixes, nexthops : Seq(Addrs)]

(* The entry j of l is the first of its prefix that has a nexthop, among n.*)
FirstOffer(l, j, n) ==
  /\ l[j].nexthops # <<>>
  /\ \A m \in 1 .. n : l[m].prefix = l[j].prefix /\ l[m].nexthops # <<>> => j <= m

(* What the loop has, after the first n entries.                           *)
Offering(l, out, n) ==
  /\ \A i, j \in DOMAIN out : out[i].prefix = out[j].prefix => i = j
  /\ \A i \in DOMAIN out : \E j \in 1 .. n :
       /\ FirstOffer(l, j, n)
       /\ out[i].prefix = l[j].prefix /\ out[i].nexthops = Deduped(l[j].nexthops)
  /\ \A j \in 1 .. n :
       l[j].nexthops # <<>> => \E i \in DOMAIN out : out[i].prefix = l[j].prefix
  /\ RibSound(l) => out = [i \in 1 .. n |-> l[i]]

(* The tables are sound, entry by entry.                                   *)
LEMMA SoundIs ==
  ASSUME NEW l
  PROVE  RibSound(l) <=> /\ \A i, j \in DOMAIN l : l[i].prefix = l[j].prefix => i = j
                         /\ \A i \in DOMAIN l : no_dup(l[i].nexthops) /\ l[i].nexthops # <<>>
BY DEF RibSound, rib_keys_unique, rib_nhs_dedup, rib_nonempty, no_dup

(* A coerced entry.                                                        *)
LEMMA EntryIs ==
  ASSUME NEW x \in Entry
  PROVE  LET y == [x EXCEPT !.nexthops = Deduped(@)]
         IN  /\ y \in Entry /\ y.prefix = x.prefix /\ y.nexthops = Deduped(x.nexthops)
             /\ no_dup(x.nexthops) => y = x
<1>1. x.nexthops \in Seq(Addrs) /\ x.prefix \in Prefixes
  BY DEF Entry
<1>2. Deduped(x.nexthops) \in Seq(Addrs) /\ (no_dup(x.nexthops) => Deduped(x.nexthops) = x.nexthops)
  BY <1>1, DedupedIs
<1>3. x = [prefix |-> x.prefix, nexthops |-> x.nexthops]
  BY DEF Entry
<1> QED
  BY <1>1, <1>2, <1>3 DEF Entry

(* One round more.                                                         *)
LEMMA OfferingStep ==
  ASSUME NEW l \in Seq(Entry), NEW n \in 1 .. Len(l), NEW out \in Seq(Entry),
         Offering(l, out, n - 1)
  PROVE  /\ Round("entries", out, l[n]) \in Seq(Entry)
         /\ Offering(l, Round("entries", out, l[n]), n)
<1> DEFINE x == l[n]
           y == [x EXCEPT !.nexthops = Deduped(@)]
           k == Len(out)
<1>1. /\ n \in Nat /\ n - 1 \in Nat /\ Len(l) \in Nat /\ k \in Nat
      /\ DOMAIN l = 1 .. Len(l) /\ DOMAIN out = 1 .. k
      /\ x \in Entry /\ n \in DOMAIN l
  OBVIOUS
<1>2. 1 .. n = (1 .. n - 1) \cup {n} /\ n \notin 1 .. n - 1 /\ 1 .. n \subseteq DOMAIN l
  BY <1>1
<1>3. /\ y \in Entry /\ y.prefix = x.prefix /\ y.nexthops = Deduped(x.nexthops)
      /\ no_dup(x.nexthops) => y = x
  BY <1>1, EntryIs
<1>4. Round("entries", out, x) = IF Keeps(out, x) THEN Append(out, y) ELSE out
  BY DEF Round
<1>5. \A j \in 1 .. n - 1 : j \in Nat /\ j <= n
  BY <1>1
<1> HIDE DEF y
<1>6. CASE ~Keeps(out, x)
  <2>1. x.nexthops = <<>> \/ \E i \in DOMAIN out : out[i].prefix = x.prefix
    BY <1>6 DEF Keeps
  <2>2. \A j \in 1 .. n - 1 : FirstOffer(l, j, n - 1) => FirstOffer(l, j, n)
    BY <1>2, <1>5 DEF FirstOffer
  <2>3. ~RibSound(l)
    <3> SUFFICES ASSUME RibSound(l) PROVE FALSE
      OBVIOUS
    <3>1. x.nexthops # <<>>
      BY <1>1, SoundIs
    <3>2. PICK i \in DOMAIN out : out[i].prefix = x.prefix
      BY <2>1, <3>1
    <3>3. out = [m \in 1 .. n - 1 |-> l[m]]
      BY DEF Offering
    <3>4. i \in 1 .. n - 1 /\ l[i].prefix = l[n].prefix
      BY <3>2, <3>3
    <3> QED
      BY <1>1, <1>2, <3>4, SoundIs
  <2>4. \A j \in 1 .. n :
          l[j].nexthops # <<>> => \E i \in DOMAIN out : out[i].prefix = l[j].prefix
    BY <1>2, <2>1 DEF Offering
  <2>5. \A i \in DOMAIN out : \E j \in 1 .. n :
          /\ FirstOffer(l, j, n)
          /\ out[i].prefix = l[j].prefix /\ out[i].nexthops = Deduped(l[j].nexthops)
    BY <1>2, <2>2 DEF Offering
  <2>6. Offering(l, out, n)
    BY <2>3, <2>4, <2>5 DEF Offering
  <2> QED
    BY <1>4, <1>6, <2>6
<1>7. CASE Keeps(out, x)
  <2> DEFINE new == Append(out, y)
  <2>1. x.nexthops # <<>> /\ \A i \in DOMAIN out : out[i].prefix # x.prefix
    BY <1>7 DEF Keeps
  <2>2. /\ new \in Seq(Entry)
        /\ DOMAIN new = 1 .. k + 1
        /\ \A i \in 1 .. k : new[i] = out[i]
        /\ new[k + 1] = y
    BY <1>1, <1>3, Longer
  <2>3. 1 .. k + 1 = (1 .. k) \cup {k + 1} /\ k + 1 \notin 1 .. k
    BY <1>1
  <2> HIDE DEF new, k
  <2>4. \A j \in 1 .. n - 1 : ~(l[j].prefix = x.prefix /\ l[j].nexthops # <<>>)
    BY <2>1 DEF Offering
  <2>5. FirstOffer(l, n, n)
    <3>1. n <= n
      BY <1>1
    <3> QED
      BY <1>2, <2>1, <2>4, <3>1 DEF FirstOffer
  <2>6. \A j \in 1 .. n - 1 : FirstOffer(l, j, n - 1) => FirstOffer(l, j, n)
    BY <1>2, <1>5 DEF FirstOffer
  <2>7. \A i, j \in DOMAIN new : new[i].prefix = new[j].prefix => i = j
    <3>1. \A i \in 1 .. k : new[i].prefix # new[k + 1].prefix
      BY <1>1, <1>3, <2>1, <2>2
    <3>2. \A i, j \in 1 .. k : new[i].prefix = new[j].prefix => i = j
      BY <1>1, <2>2 DEF Offering
    <3> QED
      BY <2>2, <2>3, <3>1, <3>2
  <2>8. ASSUME NEW i \in DOMAIN new
        PROVE  \E j \in 1 .. n :
                 /\ FirstOffer(l, j, n)
                 /\ new[i].prefix = l[j].prefix /\ new[i].nexthops = Deduped(l[j].nexthops)
    <3>1. CASE i \in 1 .. k
      <4>1. PICK j \in 1 .. n - 1 :
              /\ FirstOffer(l, j, n - 1)
              /\ out[i].prefix = l[j].prefix /\ out[i].nexthops = Deduped(l[j].nexthops)
        BY <1>1, <3>1 DEF Offering
      <4> QED
        BY <1>2, <2>2, <2>6, <3>1, <4>1
    <3>2. CASE i = k + 1
      BY <1>2, <1>3, <2>2, <2>5, <3>2
    <3> QED
      BY <2>2, <2>3, <3>1, <3>2
  <2>9. ASSUME NEW j \in 1 .. n, l[j].nexthops # <<>>
        PROVE  \E i \in DOMAIN new : new[i].prefix = l[j].prefix
    <3>1. CASE j \in 1 .. n - 1
      <4>1. PICK i \in DOMAIN out : out[i].prefix = l[j].prefix
        BY <2>9, <3>1 DEF Offering
      <4> QED
        BY <1>1, <2>2, <2>3, <4>1
    <3>2. CASE j = n
      BY <1>3, <2>2, <2>3, <3>2
    <3> QED
      BY <1>2, <3>1, <3>2
  <2>10. ASSUME RibSound(l) PROVE new = [i \in 1 .. n |-> l[i]]
    <3>1. out = [i \in 1 .. n - 1 |-> l[i]]
      BY <2>10 DEF Offering
    <3>2. k = n - 1
      <4>1. Len(out) = n - 1
        BY <1>1, <3>1
      <4> QED
        BY <4>1 DEF k
    <3>3. y = l[n]
      <4>1. no_dup(l[n].nexthops)
        BY <1>1, <2>10, SoundIs
      <4> QED
        BY <1>3, <4>1
    <3>4. \A i \in 1 .. n : new[i] = l[i]
      <4>1. \A i \in 1 .. n - 1 : new[i] = l[i]
        BY <2>2, <3>1, <3>2
      <4>2. new[n] = l[n]
        BY <1>1, <2>2, <3>2, <3>3
      <4> QED
        BY <1>2, <4>1, <4>2
    <3>5. DOMAIN new = 1 .. n
      BY <1>1, <2>2, <3>2
    <3>6. new = [i \in DOMAIN new |-> new[i]]
      BY <2>2
    <3> QED
      BY <3>4, <3>5, <3>6
  <2>11. Offering(l, new, n)
    BY <2>7, <2>8, <2>9, <2>10 DEF Offering
  <2> QED
    BY <1>4, <1>7, <2>2, <2>11 DEF new
<1> QED
  BY <1>6, <1>7

(* The RIB of a seed is sound, keeps the first offer of each prefix, and   *)
(* all of a sound seed.                                                    *)
LEMMA RibIs ==
  ASSUME NEW l \in Seq(Entry)
  PROVE  LET r == dedup_rib_seed(l)
         IN  /\ r \in Seq(Entry) /\ RibSound(r)
             /\ Offering(l, r, Len(l))
             /\ RibSound(l) => r = l
<1> DEFINE r == dedup_rib_seed(l)
<1>1. PICK d : /\ d[0] = <<>>
               /\ \A n \in 1 .. Len(l) : d[n] = Round("entries", d[n - 1], l[n])
               /\ d[Len(l)] = r
  <2>1. r = Iter("entries", l, DOMAIN l)[DOMAIN l]
    BY LoopsAreFolds, Zenon
  <2> QED
    BY <2>1, Rounds
<1> DEFINE T == {n \in Nat : n <= Len(l) => d[n] \in Seq(Entry) /\ Offering(l, d[n], n)}
<1>2. Len(l) \in Nat /\ DOMAIN l = 1 .. Len(l) /\ l = [i \in 1 .. Len(l) |-> l[i]]
  OBVIOUS
<1>3. 0 \in T
  <2>1. <<>> \in Seq(Entry) /\ DOMAIN <<>> = {} /\ 1 .. 0 = {}
    OBVIOUS
  <2>2. <<>> = [i \in 1 .. 0 |-> l[i]]
    OBVIOUS
  <2>3. Offering(l, <<>>, 0)
    BY <2>1, <2>2 DEF Offering
  <2> QED
    BY <1>1, <2>1, <2>3
<1>4. ASSUME NEW n \in T PROVE n + 1 \in T
  <2> SUFFICES ASSUME n + 1 <= Len(l)
               PROVE  d[n + 1] \in Seq(Entry) /\ Offering(l, d[n + 1], n + 1)
    OBVIOUS
  <2>1. n \in Nat /\ n <= Len(l) /\ n + 1 \in 1 .. Len(l) /\ (n + 1) - 1 = n
    BY <1>2
  <2>2. d[n] \in Seq(Entry) /\ Offering(l, d[n], n)
    BY <2>1
  <2>3. d[n + 1] = Round("entries", d[n], l[n + 1])
    BY <1>1, <2>1
  <2> QED
    BY <2>1, <2>2, <2>3, OfferingStep
<1>5. r \in Seq(Entry) /\ Offering(l, r, Len(l))
  <2>1. T \in SUBSET Nat /\ \A n \in T : n + 1 \in T
    BY <1>4
  <2> HIDE DEF T
  <2>2. T = Nat
    BY <1>3, <2>1, Induction
  <2>3. Len(l) \in T
    BY <1>2, <2>2
  <2> QED
    BY <1>1, <1>2, <2>3 DEF T
<1> HIDE DEF r
<1>6. ASSUME NEW i \in DOMAIN r PROVE no_dup(r[i].nexthops) /\ r[i].nexthops # <<>>
  <2>1. PICK j \in 1 .. Len(l) : FirstOffer(l, j, Len(l)) /\ r[i].nexthops = Deduped(l[j].nexthops)
    BY <1>5 DEF Offering
  <2>2. l[j].nexthops \in Seq(Addrs) /\ l[j].nexthops # <<>>
    <3>1. l[j] \in Entry
      BY <1>2, <2>1
    <3>2. l[j].nexthops \in Seq(Addrs)
      BY <3>1 DEF Entry
    <3> QED
      BY <2>1, <3>2 DEF FirstOffer
  <2> DEFINE u == l[j].nexthops
  <2>3. no_dup(Deduped(u)) /\ Members(Deduped(u)) = Members(u)
    BY <2>2, DedupedIs
  <2>4. u[1] \in Members(u)
    BY <2>2 DEF Members
  <2>5. Members(<<>>) = {}
    BY DEF Members
  <2> QED
    BY <2>1, <2>3, <2>4, <2>5
<1>7. RibSound(r)
  BY <1>5, <1>6, SoundIs DEF Offering
<1>8. RibSound(l) => r = l
  BY <1>2, <1>5 DEF Offering
<1> QED
  BY <1>5, <1>7, <1>8 DEF r

(***************************************************************************)
(* The entries of a cache                                                  *)
(***************************************************************************)

(* The library's FlattenSeq, by how many lists it has put together.        *)
Flattened(t, f, i) == IF i = 1 THEN t[i] ELSE f[i - 1] \o t[i]
Flattening(t) == CHOOSE f : f = [i \in 1 .. Len(t) |-> Flattened(t, f, i)]

(* It is defined, for any number of lists, by induction on the number.     *)
LEMMA FlatteningWorks ==
  ASSUME NEW t, Len(t) \in Nat
  PROVE  \A i \in 1 .. Len(t) : Flattening(t)[i] = Flattened(t, Flattening(t), i)
<1> DEFINE T == {n \in Nat : \E f : f = [i \in 1 .. n |-> Flattened(t, f, i)]}
<1>1. 0 \in T
  <2> DEFINE f == [i \in 1 .. 0 |-> <<>>]
  <2>1. f = [i \in 1 .. 0 |-> Flattened(t, f, i)]
    OBVIOUS
  <2> QED
    BY <2>1
<1>2. ASSUME NEW n \in T PROVE n + 1 \in T
  <2>1. PICK f : f = [i \in 1 .. n |-> Flattened(t, f, i)]
    OBVIOUS
  <2> DEFINE g == [i \in 1 .. n + 1 |-> Flattened(t, f, i)]
  <2>2. ASSUME NEW i \in 1 .. n + 1 PROVE Flattened(t, f, i) = Flattened(t, g, i)
    <3>1. CASE i = 1
      BY <3>1 DEF Flattened
    <3>2. CASE i # 1
      <4>1. i - 1 \in 1 .. n /\ i - 1 \in 1 .. n + 1
        BY <3>2
      <4>2. f[i - 1] = Flattened(t, f, i - 1) /\ g[i - 1] = Flattened(t, f, i - 1)
        BY <2>1, <4>1
      <4> QED
        BY <4>2 DEF Flattened
    <3> QED
      BY <3>1, <3>2
  <2>3. g = [i \in 1 .. n + 1 |-> Flattened(t, g, i)]
    BY <2>2
  <2>4. n + 1 \in Nat
    OBVIOUS
  <2> HIDE DEF g
  <2> QED
    BY <2>3, <2>4
<1>3. Len(t) \in T
  <2>1. T \in SUBSET Nat /\ \A n \in T : n + 1 \in T
    BY <1>2
  <2> HIDE DEF T
  <2>2. T = Nat
    BY <1>1, <2>1, Induction
  <2> QED
    BY <2>2
<1>4. \E f : f = [i \in 1 .. Len(t) |-> Flattened(t, f, i)]
  BY <1>3
<1>5. Flattening(t) = [i \in 1 .. Len(t) |-> Flattened(t, Flattening(t), i)]
  BY <1>4 DEF Flattening
<1> QED
  BY <1>5

(* Two lists put together have the elements of both.                       *)
LEMMA Together ==
  ASSUME NEW S, NEW a \in Seq(S), NEW b \in Seq(S)
  PROVE  a \o b \in Seq(S) /\ Members(a \o b) = Members(a) \cup Members(b)
<1>1. /\ a \o b \in Seq(S) /\ Len(a) \in Nat /\ Len(b) \in Nat
      /\ DOMAIN a = 1 .. Len(a) /\ DOMAIN b = 1 .. Len(b)
      /\ DOMAIN (a \o b) = 1 .. Len(a) + Len(b)
      /\ \A i \in 1 .. Len(a) : (a \o b)[i] = a[i]
      /\ \A i \in 1 .. Len(b) : (a \o b)[Len(a) + i] = b[i]
  OBVIOUS
<1>2. ASSUME NEW x \in Members(a \o b) PROVE x \in Members(a) \/ x \in Members(b)
  <2>1. PICK i \in 1 .. Len(a) + Len(b) : x = (a \o b)[i]
    BY <1>1 DEF Members
  <2>2. CASE i \in 1 .. Len(a)
    BY <1>1, <2>1, <2>2 DEF Members
  <2>3. CASE i \notin 1 .. Len(a)
    <3>1. i - Len(a) \in 1 .. Len(b) /\ i = Len(a) + (i - Len(a))
      BY <1>1, <2>3
    <3>2. x = b[i - Len(a)]
      BY <1>1, <2>1, <3>1
    <3> QED
      BY <1>1, <3>1, <3>2 DEF Members
  <2> QED
    BY <2>2, <2>3
<1>3. ASSUME NEW x \in Members(a) PROVE x \in Members(a \o b)
  <2>1. PICK i \in 1 .. Len(a) : x = a[i]
    BY <1>1 DEF Members
  <2>2. i \in 1 .. Len(a) + Len(b)
    BY <1>1
  <2> QED
    BY <1>1, <2>1, <2>2 DEF Members
<1>4. ASSUME NEW x \in Members(b) PROVE x \in Members(a \o b)
  <2>1. PICK i \in 1 .. Len(b) : x = b[i]
    BY <1>1 DEF Members
  <2>2. Len(a) + i \in 1 .. Len(a) + Len(b)
    BY <1>1
  <2> QED
    BY <1>1, <2>1, <2>2 DEF Members
<1> QED
  BY <1>1, <1>2, <1>3, <1>4

(* All the lists put together have the elements of all.                    *)
LEMMA FlattenSeqIs ==
  ASSUME NEW S, NEW t \in Seq(Seq(S))
  PROVE  LET f == SequencesLib!FlattenSeq(t)
         IN  f \in Seq(S) /\ Members(f) = UNION {Members(t[i]) : i \in DOMAIN t}
<1>1. Len(t) \in Nat /\ DOMAIN t = 1 .. Len(t)
  OBVIOUS
<1>2. CASE Len(t) = 0
  <2>1. SequencesLib!FlattenSeq(t) = t
    BY <1>2 DEF SequencesLib!FlattenSeq
  <2>2. t = <<>> /\ DOMAIN t = {} /\ t \in Seq(S)
    BY <1>1, <1>2
  <2>3. Members(t) = {} /\ UNION {Members(t[i]) : i \in DOMAIN t} = {}
    BY <2>2, Zenon DEF Members
  <2> QED
    BY <2>1, <2>2, <2>3
<1>3. CASE Len(t) # 0
  <2> DEFINE k == Len(t)
             f == Flattening(t)
  <2>1. SequencesLib!FlattenSeq(t) = f[k]
    BY <1>3 DEF SequencesLib!FlattenSeq, Flattening, Flattened
  <2>2. \A i \in 1 .. k : f[i] = Flattened(t, f, i)
    BY <1>1, FlatteningWorks
  <2> HIDE DEF f
  <2> DEFINE T == {n \in Nat : n + 1 <= k =>
                     /\ f[n + 1] \in Seq(S)
                     /\ \A x : x \in Members(f[n + 1])
                                 <=> \E i \in 1 .. n + 1 : x \in Members(t[i])}
  <2>3. 0 \in T
    <3>1. 1 \in 1 .. k /\ 1 \in DOMAIN t
      BY <1>1, <1>3
    <3>2. f[1] = t[1] /\ t[1] \in Seq(S)
      BY <2>2, <3>1 DEF Flattened
    <3>3. 0 + 1 = 1 /\ 1 .. 1 = {1}
      OBVIOUS
    <3> QED
      BY <3>2, <3>3
  <2>4. ASSUME NEW n \in T PROVE n + 1 \in T
    <3> SUFFICES ASSUME (n + 1) + 1 <= k
                 PROVE  /\ f[(n + 1) + 1] \in Seq(S)
                        /\ \A x : x \in Members(f[(n + 1) + 1])
                                    <=> \E i \in 1 .. (n + 1) + 1 : x \in Members(t[i])
      OBVIOUS
    <3> DEFINE m == (n + 1) + 1
    <3>1. /\ n \in Nat /\ m \in 1 .. k /\ m # 1 /\ m - 1 = n + 1 /\ n + 1 <= k
          /\ m \in DOMAIN t
      BY <1>1
    <3>2. /\ f[n + 1] \in Seq(S)
          /\ \A x : x \in Members(f[n + 1]) <=> \E i \in 1 .. n + 1 : x \in Members(t[i])
      BY <3>1
    <3>3. f[m] = f[n + 1] \o t[m]
      BY <2>2, <3>1 DEF Flattened
    <3>4. t[m] \in Seq(S)
      BY <3>1
    <3>5. f[m] \in Seq(S) /\ Members(f[m]) = Members(f[n + 1]) \cup Members(t[m])
      BY <3>2, <3>3, <3>4, Together
    <3>6. 1 .. m = (1 .. n + 1) \cup {m}
      BY <3>1
    <3> QED
      BY <3>2, <3>5, <3>6
  <2>5. k - 1 \in T
    <3>1. T \in SUBSET Nat /\ \A n \in T : n + 1 \in T
      BY <2>4
    <3> HIDE DEF T
    <3>2. T = Nat
      BY <2>3, <3>1, Induction
    <3>3. k - 1 \in Nat
      BY <1>1, <1>3
    <3> QED
      BY <3>2, <3>3
  <2>6. /\ f[k] \in Seq(S)
        /\ \A x : x \in Members(f[k]) <=> \E i \in 1 .. k : x \in Members(t[i])
    <3>1. (k - 1) + 1 = k /\ k <= k
      BY <1>1
    <3> QED
      BY <2>5, <3>1
  <2>7. Members(f[k]) = UNION {Members(t[i]) : i \in DOMAIN t}
    BY <1>1, <2>6
  <2> QED
    BY <2>1, <2>6, <2>7
<1> QED
  BY <1>2, <1>3

(* The tuple of an endpoint is the first one there is, if there is one.    *)
LEMMA MatchIs ==
  ASSUME NEW seed \in Seq(BgpNexthopCache), NEW e \in Addrs
  PROVE  LET m == Match(seed, e)
         IN  /\ m \in BgpNexthopCache /\ m.endpoint = e
             /\ \A j \in DOMAIN seed :
                  /\ seed[j].endpoint = e
                  /\ \A k \in 1 .. j - 1 : seed[k].endpoint # e
                  => m = seed[j]
<1> DEFINE known == {i \in DOMAIN seed : seed[i].endpoint = e}
           unknown == [endpoint |-> e, resolved |-> e, valid |-> FALSE]
<1>1. DOMAIN seed = 1 .. Len(seed) /\ Len(seed) \in Nat
  OBVIOUS
<1>2. CASE known = {}
  <2>1. Match(seed, e) = unknown
    BY <1>2 DEF Match
  <2>2. unknown \in BgpNexthopCache /\ unknown.endpoint = e
    BY DEF BgpNexthopCache
  <2>3. \A j \in DOMAIN seed : seed[j].endpoint # e
    BY <1>2
  <2> QED
    BY <2>1, <2>2, <2>3
<1>3. CASE known # {}
  <2>1. Match(seed, e) = seed[Min(known)]
    BY <1>3 DEF Match
  <2>2. Min(known) \in known /\ \A y \in known : Min(known) <= y
    BY <1>3, Least
  <2>3. seed[Min(known)] \in BgpNexthopCache /\ seed[Min(known)].endpoint = e
    BY <2>2
  <2>4. ASSUME NEW j \in DOMAIN seed, seed[j].endpoint = e,
               \A k \in 1 .. j - 1 : seed[k].endpoint # e
        PROVE  j = Min(known)
    <3>1. j \in known /\ j \in Nat /\ Min(known) \in 1 .. Len(seed) /\ Min(known) <= j
      BY <1>1, <2>2, <2>4
    <3>2. Min(known) \notin 1 .. j - 1
      BY <2>2, <2>4
    <3> QED
      BY <3>1, <3>2
  <2> QED
    BY <2>1, <2>3, <2>4
<1> QED
  BY <1>2, <1>3

(* What a cache of the RIB t has entries for.                              *)
EndpointsOf(t) == Deduped(SequencesLib!FlattenSeq([i \in DOMAIN t |-> t[i].nexthops]))

(* The endpoints of a cache are the nexthops of the RIB, each once.        *)
LEMMA EndpointsAre ==
  ASSUME NEW t \in Seq(Entry)
  PROVE  LET u == EndpointsOf(t)
         IN  u \in Seq(Addrs) /\ no_dup(u) /\ Members(u) = Used(t)
<1> DEFINE lists == [i \in DOMAIN t |-> t[i].nexthops]
<1>1. lists \in Seq(Seq(Addrs)) /\ DOMAIN lists = DOMAIN t
  <2>1. \A i \in 1 .. Len(t) : t[i] \in Entry
    OBVIOUS
  <2>2. \A i \in 1 .. Len(t) : t[i].nexthops \in Seq(Addrs)
    BY <2>1 DEF Entry
  <2>3. DOMAIN t = 1 .. Len(t) /\ Len(t) \in Nat
    OBVIOUS
  <2> QED
    BY <2>2, <2>3
<1> DEFINE flat == SequencesLib!FlattenSeq(lists)
<1>2. flat \in Seq(Addrs) /\ Members(flat) = UNION {Members(lists[i]) : i \in DOMAIN lists}
  BY <1>1, FlattenSeqIs
<1>3. Used(t) = UNION {Members(lists[i]) : i \in DOMAIN lists}
  BY DEF Used
<1>4. EndpointsOf(t) = Deduped(flat)
  BY DEF EndpointsOf
<1> HIDE DEF flat, lists
<1>5. /\ Deduped(flat) \in Seq(Addrs) /\ no_dup(Deduped(flat))
      /\ Members(Deduped(flat)) = Members(flat)
  BY <1>2, DedupedIs
<1> QED
  BY <1>2, <1>3, <1>4, <1>5

(* The cache of a RIB and a seed tracks what the RIB uses, each once, and  *)
(* is its own cache.                                                       *)
LEMMA CacheIs ==
  ASSUME NEW t \in Seq(Entry), NEW seed \in Seq(BgpNexthopCache)
  PROVE  LET c == build_cache_seed(t, seed)
         IN  /\ c \in Seq(BgpNexthopCache)
             /\ cache_unique(c) /\ Tracked(c) = Used(t)
             /\ \A i \in DOMAIN c : c[i].endpoint \in Addrs /\ c[i] = Match(seed, c[i].endpoint)
             /\ build_cache_seed(t, c) = c
<1> DEFINE u == EndpointsOf(t)
           c == build_cache_seed(t, seed)
<1>1. u \in Seq(Addrs) /\ no_dup(u) /\ Members(u) = Used(t)
  BY EndpointsAre
<1>2. \A s : build_cache_seed(t, s) = [i \in DOMAIN u |-> Match(s, u[i])]
  BY DEF build_cache_seed, EndpointsOf
<1> HIDE DEF u
<1>3. c = [i \in DOMAIN u |-> Match(seed, u[i])]
  BY <1>2
<1> HIDE DEF c
<1>4. DOMAIN u = 1 .. Len(u) /\ Len(u) \in Nat /\ \A i \in DOMAIN u : u[i] \in Addrs
  BY <1>1
<1>5. DOMAIN c = DOMAIN u
  BY <1>3
<1>6. \A i \in DOMAIN u : c[i] \in BgpNexthopCache /\ c[i].endpoint = u[i]
  BY <1>3, <1>4, MatchIs
<1>7. c \in Seq(BgpNexthopCache)
  BY <1>3, <1>4, <1>6
<1>8. cache_unique(c)
  BY <1>1, <1>5, <1>6 DEF cache_unique, no_dup
<1>9. Tracked(c) = Used(t)
  <2>1. Tracked(c) = {u[i] : i \in DOMAIN u}
    BY <1>5, <1>6 DEF Tracked
  <2> QED
    BY <1>1, <2>1 DEF Members
<1>10. \A i \in DOMAIN c : c[i].endpoint \in Addrs /\ c[i] = Match(seed, c[i].endpoint)
  BY <1>3, <1>4, <1>5, <1>6
<1>11. ASSUME NEW i \in DOMAIN u PROVE Match(c, u[i]) = c[i]
  <2>1. c[i].endpoint = u[i] /\ i \in DOMAIN c /\ i \in Nat /\ u[i] \in Addrs
    BY <1>4, <1>5, <1>6
  <2>2. \A k \in 1 .. i - 1 : c[k].endpoint # u[i]
    <3> SUFFICES ASSUME NEW k \in 1 .. i - 1 PROVE c[k].endpoint # u[i]
      OBVIOUS
    <3>1. k \in 1 .. Len(u) /\ k # i
      BY <1>4, <2>1
    <3> QED
      BY <1>1, <1>4, <1>6, <3>1 DEF no_dup
  <2> QED
    BY <1>7, <2>1, <2>2, MatchIs
<1>12. build_cache_seed(t, c) = c
  <2>1. build_cache_seed(t, c) = [i \in DOMAIN u |-> Match(c, u[i])]
    BY <1>2
  <2>2. build_cache_seed(t, c) = [i \in DOMAIN u |-> c[i]]
    BY <1>11, <2>1
  <2>3. c = [i \in DOMAIN u |-> c[i]]
    BY <1>5, <1>7
  <2> QED
    BY <2>2, <2>3
<1> QED
  BY <1>7, <1>8, <1>9, <1>10, <1>12 DEF c

(***************************************************************************)
(* The claims                                                              *)
(***************************************************************************)

(* Both inputs are lists of what they list.                                *)
Listed == rib_seed \in Seq(BgpRibEntry) /\ cache_seed \in Seq(BgpNexthopCache)

(* They are, however they grow.                                            *)
LEMMA AlwaysListed == SSpec => []Listed
<1>1. SInit => Listed
  BY DEF SInit, Listed
<1>2. Listed /\ [SNext]_seeds => Listed'
  <2> SUFFICES ASSUME Listed, [SNext]_seeds PROVE Listed'
    OBVIOUS
  <2>1. ASSUME NEW entry \in BgpRibEntry, AddEntry(entry) PROVE Listed'
    BY <2>1 DEF Listed, AddEntry
  <2>2. ASSUME NEW tuple \in BgpNexthopCache, AddTuple(tuple) PROVE Listed'
    BY <2>2 DEF Listed, AddTuple
  <2>3. CASE UNCHANGED seeds
    BY <2>3 DEF Listed, seeds
  <2> QED
    BY <2>1, <2>2, <2>3 DEF SNext
<1> QED
  BY <1>1, <1>2, PTL DEF SSpec

(* So what is coerced is what the lemmas above are about.                  *)
LEMMA CoercedIs ==
  ASSUME Listed
  PROVE  /\ rib_seed \in Seq(Entry) /\ Rib \in Seq(Entry)
         /\ RibSound(Rib) /\ Offering(rib_seed, Rib, Len(rib_seed))
         /\ dedup_rib_seed(Rib) = Rib
<1>1. BgpRibEntry \subseteq Entry
  BY DEF BgpRibEntry, Entry, Lists
<1>2. rib_seed \in Seq(Entry)
  BY <1>1 DEF Listed
<1>3. Rib \in Seq(Entry) /\ RibSound(Rib) /\ Offering(rib_seed, Rib, Len(rib_seed))
  BY <1>2, RibIs DEF Rib
<1>4. dedup_rib_seed(Rib) = Rib
  BY <1>3, RibIs
<1> QED
  BY <1>2, <1>3, <1>4

(* Every coerced input satisfies the model's precondition.                 *)
THEOREM EveryCaseIsAdmissible == SSpec => []Admissible
<1>1. Listed => Admissible
  <2> SUFFICES ASSUME Listed PROVE Admissible
    OBVIOUS
  <2>1. Rib \in Seq(Entry) /\ RibSound(Rib)
    BY CoercedIs
  <2>2. cache_unique(Cache) /\ Tracked(Cache) = Used(Rib)
    BY <2>1, CacheIs DEF Listed, Cache
  <2> QED
    BY <2>1, <2>2 DEF Admissible, invariant, all_rib_nhs_cached, cache_is_referenced
<1> QED
  BY <1>1, AlwaysListed, PTL

(* Coercing twice is coercing once.                                        *)
THEOREM CoercingTwiceIsOnce == SSpec => []Idempotent
<1>1. Listed => Idempotent
  <2> SUFFICES ASSUME Listed PROVE Idempotent
    OBVIOUS
  <2>1. Rib \in Seq(Entry) /\ dedup_rib_seed(Rib) = Rib
    BY CoercedIs
  <2>2. build_cache_seed(Rib, Cache) = Cache
    BY <2>1, CacheIs DEF Listed, Cache
  <2> QED
    BY <2>1, <2>2 DEF Idempotent
<1> QED
  BY <1>1, AlwaysListed, PTL

(* The coercion keeps the first offer of each prefix, with its nexthops in *)
(* their order, and the first tuple of each endpoint.                      *)
THEOREM FirstOfEachWins == SSpec => []FirstWins
<1>1. Listed => FirstWins
  <2> SUFFICES ASSUME Listed PROVE FirstWins
    OBVIOUS
  <2> DEFINE n == Len(rib_seed)
             First(i, j) ==
               /\ FirstOffer(rib_seed, j, n)
               /\ Rib[i].prefix = rib_seed[j].prefix
               /\ Rib[i].nexthops = Deduped(rib_seed[j].nexthops)
             OffersOf(p) == {i \in DOMAIN rib_seed :
                               rib_seed[i].prefix = p /\ rib_seed[i].nexthops # <<>>}
             KeptOf(p) == {i \in DOMAIN Rib : Rib[i].prefix = p}
  <2>1. /\ rib_seed \in Seq(Entry) /\ Rib \in Seq(Entry) /\ RibSound(Rib)
        /\ DOMAIN rib_seed = 1 .. n /\ n \in Nat
    BY CoercedIs
  <2>2. /\ \A i \in DOMAIN Rib : \E j \in 1 .. n : First(i, j)
        /\ \A j \in 1 .. n : rib_seed[j].nexthops # <<>>
             => \E i \in DOMAIN Rib : Rib[i].prefix = rib_seed[j].prefix
    BY CoercedIs DEF Offering
  <2>3. ASSUME NEW p \in Prefixes, OffersOf(p) = {} PROVE KeptOf(p) = {}
    BY <2>1, <2>2, <2>3 DEF FirstOffer
  <2>4. ASSUME NEW p \in Prefixes, OffersOf(p) # {}, NEW i \in KeptOf(p)
        PROVE  LET offered == rib_seed[Min(OffersOf(p))].nexthops
                   nhs == Rib[i].nexthops
               IN  /\ Members(nhs) = Members(offered)
                   /\ \A a, b \in DOMAIN nhs :
                        a < b => FirstAt(offered, nhs[a]) < FirstAt(offered, nhs[b])
    <3>1. PICK j \in 1 .. n : First(i, j)
      BY <2>2, <2>4
    <3>2. j \in OffersOf(p) /\ \A m \in OffersOf(p) : j <= m
      BY <2>1, <2>4, <3>1 DEF FirstOffer
    <3>3. Min(OffersOf(p)) \in OffersOf(p) /\ \A m \in OffersOf(p) : Min(OffersOf(p)) <= m
      <4>1. OffersOf(p) \in SUBSET Nat
        BY <2>1
      <4> HIDE DEF OffersOf
      <4> QED
        BY <2>4, <4>1, Least
    <3>4. j = Min(OffersOf(p))
      <4>1. j \in Nat /\ Min(OffersOf(p)) \in Nat
        BY <2>1, <3>3
      <4>2. j <= Min(OffersOf(p)) /\ Min(OffersOf(p)) <= j
        BY <3>2, <3>3
      <4> HIDE DEF OffersOf
      <4> QED
        BY <4>1, <4>2
    <3>5. rib_seed[j].nexthops \in Seq(Addrs)
      <4>1. rib_seed[j] \in Entry
        BY <2>1
      <4> QED
        BY <4>1 DEF Entry
    <3> QED
      BY <3>1, <3>4, <3>5, DedupedIs
  <2>5. Members([i \in DOMAIN Rib |-> Rib[i].prefix])
          = {rib_seed[i].prefix : i \in {j \in DOMAIN rib_seed : rib_seed[j].nexthops # <<>>}}
    <3>1. Members([i \in DOMAIN Rib |-> Rib[i].prefix]) = {Rib[i].prefix : i \in DOMAIN Rib}
      BY DEF Members
    <3>2. \A i \in DOMAIN Rib : \E j \in DOMAIN rib_seed :
            rib_seed[j].nexthops # <<>> /\ Rib[i].prefix = rib_seed[j].prefix
      BY <2>1, <2>2 DEF FirstOffer
    <3>3. \A j \in DOMAIN rib_seed : rib_seed[j].nexthops # <<>>
            => \E i \in DOMAIN Rib : Rib[i].prefix = rib_seed[j].prefix
      BY <2>1, <2>2
    <3> QED
      BY <3>1, <3>2, <3>3
  <2>6. ASSUME NEW i \in DOMAIN Cache, NEW j \in DOMAIN cache_seed,
               cache_seed[j].endpoint = Cache[i].endpoint,
               \A k \in 1 .. j - 1 : cache_seed[k].endpoint # Cache[i].endpoint
        PROVE  Cache[i] = cache_seed[j]
    <3>1. cache_seed \in Seq(BgpNexthopCache)
      BY DEF Listed
    <3>2. Cache[i].endpoint \in Addrs /\ Cache[i] = Match(cache_seed, Cache[i].endpoint)
      BY <2>1, <3>1, CacheIs DEF Cache
    <3> QED
      BY <2>6, <3>1, <3>2, MatchIs
  <2> QED
    BY <2>3, <2>4, <2>5, <2>6 DEF FirstWins
<1> QED
  BY <1>1, AlwaysListed, PTL

=============================================================================
