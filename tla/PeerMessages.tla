---------------------------- MODULE PeerMessages ----------------------------
(***************************************************************************)
(* The messages a session of the route lab receives, as Peer.feed and      *)
(* parse_update of route_wire.py tell them apart.                          *)
(***************************************************************************)
EXTENDS Naturals, Sequences

CONSTANTS
  Prefixes,
  Values,         \* of an ORIGIN or an AS_PATH
  None            \* Python's None

ASSUME PeerAssumption == None \notin Values

ORIGIN == 1
AS_PATH == 2
ANOTHER == 3                        \* every other type code

(* An attribute is good if it is framed, and has a value to be retained if *)
(* it is an ORIGIN or an AS_PATH.                                          *)
Attribute == [code : {ORIGIN, AS_PATH, ANOTHER}, good : BOOLEAN, value : Values]

(* The body of an UPDATE; `framed' if its lengths and its NLRI are right.  *)
Body == [framed : BOOLEAN, withdrawn : SUBSET Prefixes,
         attrs : Seq(Attribute), announced : SUBSET Prefixes]

(* BROKEN: the marker or the length field is wrong.  What is good: an OPEN *)
(* of AS 65001 in version 4, a KEEPALIVE without body.                     *)
Message == [kind : {"OPEN", "KEEPALIVE"}, good : BOOLEAN]
           \cup [kind : {"NOTIFICATION", "UNKNOWN", "BROKEN"}]
           \cup [kind : {"UPDATE"}, body : Body]

Opens(m)    == m.kind = "OPEN" /\ m.good
Confirms(m) == m.kind = "KEEPALIVE" /\ m.good

(***************************************************************************)
(* parse_update                                                            *)
(***************************************************************************)

(* origin or path after the loop over the attributes: the last one counts. *)
Value(u, code) ==
  LET those == {i \in 1 .. Len(u.attrs) : u.attrs[i].code = code}
  IN  IF those = {} THEN None
      ELSE u.attrs[CHOOSE i \in those : \A j \in those : j <= i].value

RouteOf(u) == [path |-> Value(u, AS_PATH), origin |-> Value(u, ORIGIN)]

(* A plausible bug of Raises: the attributes are always asked for.         *)
RaisesAlways(u) ==
  \/ ~u.framed
  \/ \E i \in 1 .. Len(u.attrs) : ~u.attrs[i].good
  \/ None \in {Value(u, ORIGIN), Value(u, AS_PATH)}

(* parse_update raises; it does so before it touches the routes.           *)
Raises(u) ==
  \/ ~u.framed
  \/ \E i \in 1 .. Len(u.attrs) : ~u.attrs[i].good
  \/ u.announced # {} /\ None \in {Value(u, ORIGIN), Value(u, AS_PATH)}

(***************************************************************************)
(* What a session ought to hold of the first k messages of s, for the      *)
(* promise of the receiver.                                                *)
(***************************************************************************)
Mentions(m, x) == m.kind = "UPDATE" /\ x \in m.body.withdrawn \cup m.body.announced

(* An UPDATE that withdraws and announces a prefix announces it.           *)
Says(m, x) == IF x \in m.body.announced THEN RouteOf(m.body) ELSE None

LastWord(s, k, x) ==
  LET those == {i \in 1 .. k : Mentions(s[i], x)}
  IN  IF those = {} THEN None
      ELSE Says(s[CHOOSE i \in those : \A j \in those : j <= i], x)

Progress(s, k) ==
  IF \E i, j \in 1 .. k : i < j /\ Opens(s[i]) /\ Confirms(s[j]) THEN "established"
  ELSE IF \E i \in 1 .. k : Opens(s[i]) THEN "opened" ELSE "connected"

Belongs(m, progress) ==
  \/ Opens(m)
  \/ Confirms(m) /\ progress # "connected"
  \/ m.kind = "UPDATE" /\ ~Raises(m.body)

=============================================================================
