---------------------------- MODULE MCPeerStream ----------------------------
(***************************************************************************)
(* PeerStream for TLC: a message of each kind that feed tells apart.       *)
(***************************************************************************)
EXTENDS PeerStream

CONSTANTS x1, x2, v1, v2

An(code, value) == [code |-> code, good |-> TRUE, value |-> value]
Full(value) == <<An(ORIGIN, value), An(AS_PATH, value)>>

Withdraws(xs, attrs) == [framed |-> TRUE, withdrawn |-> xs, attrs |-> attrs, announced |-> {}]
Announces(xs, attrs) == [framed |-> TRUE, withdrawn |-> {}, attrs |-> attrs, announced |-> xs]

Bad == [code |-> ANOTHER, good |-> FALSE, value |-> v1]

(* Withdrawals, announcements, both at once and of the same prefix, an     *)
(* ORIGIN twice, and what parse_update refuses for each of its reasons.    *)
Updates ==
  {Withdraws({x1}, <<>>), Announces({x1, x2}, Full(v1)),
   [Announces({x2}, Full(v2)) EXCEPT !.withdrawn = {x1, x2}],
   Announces({x1}, <<An(ORIGIN, v1), An(AS_PATH, v2), An(ORIGIN, v2), An(ANOTHER, v1)>>),
   Announces({x1}, <<An(ORIGIN, v1), An(ANOTHER, v1)>>),
   Withdraws({x1}, <<Bad>>),
   [Announces({x1}, Full(v1)) EXCEPT !.framed = FALSE]}

Messages ==
  [kind : {"OPEN", "KEEPALIVE"}, good : BOOLEAN]
  \cup [kind : {"NOTIFICATION", "UNKNOWN", "BROKEN"}]
  \cup [kind : {"UPDATE"}, body : Updates]

Handshake == <<[kind |-> "OPEN", good |-> TRUE], [kind |-> "KEEPALIVE", good |-> TRUE]>>

(* Anything from the start, and anything after the handshake.              *)
Upto(n) == UNION {[1 .. k -> Messages] : k \in 0 .. n}
MCScripts == Upto(2) \cup {Handshake \o s : s \in Upto(2)}

MCPrefixes == {x1, x2}
MCValues == {v1, v2}

=============================================================================
