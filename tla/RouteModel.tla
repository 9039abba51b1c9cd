----------------------------- MODULE RouteModel -----------------------------
(***************************************************************************)
(* The reference model of IPv4 route competition (route_model.py): two     *)
(* established eBGP peers announce and withdraw routes to the same         *)
(* prefixes, and the daemon selects for each prefix the shortest AS path,  *)
(* then the best ORIGIN, then the lower router ID.  A malformed            *)
(* replacement is treated as a withdrawal (RFC 7606, 7.1 and 7.2).         *)
(***************************************************************************)
EXTENDS Integers

CONSTANTS
  Prefixes,
  Lengths,        \* AS_PATH lengths that are announced; {1, 2} in the code
  Origins         \* ORIGIN values that are announced; {0, 2} in the code

ASSUME RouteAssumption == Lengths \subseteq Nat /\ Origins \subseteq Nat

Peers == {0, 1}                   \* peer 0 has the lower router ID

Route == [length : Lengths, origin : Origins]
NoRoute == [length |-> 0 - 1, origin |-> 0 - 1]     \* None
NoPeer == 0 - 1                                     \* None

State == [Prefixes -> [Peers -> Route \cup {NoRoute}]]

NoRoutes == [x \in Prefixes |-> [p \in Peers |-> NoRoute]]      \* State()

(***************************************************************************)
(* State.winner: min of (length, origin, peer) over the candidates.        *)
(***************************************************************************)
eligible(s, x) == {p \in Peers : s[x][p] # NoRoute}

(* A plausible bug of Better: ORIGIN is compared before the length.        *)
BetterOriginFirst(a, p, b, q) ==
  \/ a.origin < b.origin
  \/ a.origin = b.origin /\ a.length < b.length
  \/ a.origin = b.origin /\ a.length = b.length /\ p <= q

Better(a, p, b, q) ==
  \/ a.length < b.length
  \/ a.length = b.length /\ a.origin < b.origin
  \/ a.length = b.length /\ a.origin = b.origin /\ p <= q

winner(s, x) ==
  IF eligible(s, x) = {} THEN NoPeer
  ELSE CHOOSE p \in eligible(s, x) :
         \A q \in eligible(s, x) : Better(s[x][p], p, s[x][q], q)

(***************************************************************************)
(* EVENTS and step                                                         *)
(***************************************************************************)
Removal == {"withdraw", "bad_origin", "bad_aspath"}

EVENTS ==
  [kind : {"announce"}, peer : Peers, prefix : Prefixes, route : Route]
  \cup [kind : Removal, peer : Peers, prefix : Prefixes, route : {NoRoute}]

step(s, e) ==
  [s EXCEPT ![e.prefix][e.peer] = IF e.kind = "announce" THEN e.route ELSE NoRoute]

VARIABLE routes

Init == routes = NoRoutes

Next == \E e \in EVENTS : routes' = step(routes, e)

Spec == Init /\ [][Next]_routes

(* The candidate routes stay in their type (the state of route_model.py).  *)
TypeOK == routes \in State

=============================================================================
