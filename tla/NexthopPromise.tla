--------------------------- MODULE NexthopPromise ---------------------------
(***************************************************************************)
(* What nexthop tracking promises zebra, without the cache, the messages   *)
(* or the early returns: at all times the route installed for a prefix     *)
(* goes over exactly those of its nexthops that are up, and an update      *)
(* changes the reachability of one nexthop that some route uses.           *)
(***************************************************************************)
CONSTANTS Prefixes, Addrs

VARIABLES
  uses,        \* the nexthops of each prefix; read-only
  up,          \* the nexthops that are up
  installed    \* the nexthops of the route zebra has for each prefix

pvars == <<uses, up, installed>>

Usable(now) == [p \in Prefixes |-> uses[p] \cap now]

PInit ==
  /\ uses \in [Prefixes -> SUBSET Addrs]
  /\ up \subseteq UNION {uses[p] : p \in Prefixes}
  /\ installed = Usable(up)

Turn(a) ==
  /\ \E p \in Prefixes : a \in uses[p]
  /\ up' = IF a \in up THEN up \ {a} ELSE up \cup {a}
  /\ installed' = Usable(up')
  /\ UNCHANGED uses

PNext == \E a \in Addrs : Turn(a)

PSpec == PInit /\ [][PNext]_pvars

=============================================================================
