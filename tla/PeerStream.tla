----------------------------- MODULE PeerStream -----------------------------
(***************************************************************************)
(* A session of the route lab (Peer of route_wire.py): the messages of the *)
(* daemon arrive in chunks cut anywhere; Peer.feed appends each chunk to   *)
(* its buffer, handles every message that is whole and raises at the first *)
(* that is wrong, which can be in the middle of a chunk.  Lab.pump gives   *)
(* it the chunks, and the routes of peer 2 are what the lab compares.      *)
(*                                                                         *)
(* Of the number of bytes received only two things can be told apart: how  *)
(* many messages are whole, and whether the 19 bytes of the next header    *)
(* are there, whose marker and length are checked before the rest comes.   *)
(***************************************************************************)
EXTENDS PeerMessages

CONSTANT Scripts          \* what the daemon may send

ASSUME ScriptAssumption == Scripts \subseteq Seq(Message)

VARIABLES
  script,         \* what the daemon sends in this session
  arrived,        \* messages of which every byte was received
  header,         \* the header of the next one was received
  handled,        \* messages cut from the buffer and applied
  opened, established, rib,
  pc,             \* "recv", "feed", "raised"
  error           \* what was raised

stream  == <<script, arrived, header>>
session == <<handled, opened, established, rib>>
vars    == <<stream, session, pc, error>>

Init ==
  /\ script \in Scripts
  /\ arrived = 0 /\ header = FALSE
  /\ handled = 0 /\ opened = FALSE /\ established = FALSE
  /\ rib = [x \in Prefixes |-> None]
  /\ pc = "recv" /\ error = "none"

Raise(what) == pc' = "raised" /\ error' = what /\ UNCHANGED session

(***************************************************************************)
(* Lab.pump                                                                *)
(***************************************************************************)

(* The header of message k alone can have come: a good KEEPALIVE is no     *)
(* longer than its header.                                                 *)
HeaderAlone(k) == k \in 1 .. Len(script) /\ ~Confirms(script[k])

(* A chunk of any length arrives.                                          *)
Receive(k, h) ==
  /\ pc = "recv" /\ pc' = "feed"
  /\ k \in arrived .. Len(script)
  /\ h => HeaderAlone(k + 1)
  /\ k = arrived /\ header => h
  /\ arrived' = k /\ header' = h
  /\ UNCHANGED <<script, session, error>>

(* recv returns no bytes: the daemon is gone, or has closed the session.   *)
ReceiveEnd ==
  /\ pc = "recv"
  /\ Raise("EOF")
  /\ UNCHANGED stream

(***************************************************************************)
(* Peer.feed                                                               *)
(***************************************************************************)
Next1 == script[handled + 1]      \* what the buffer starts with

HeaderThere == handled < arrived \/ (handled = arrived /\ header)
Complete == handled < arrived

(* The buffer holds less than a header, or less than the message.          *)
Return ==
  /\ pc = "feed"
  /\ ~Complete
  /\ HeaderThere => Next1.kind # "BROKEN"
  /\ pc' = "recv"
  /\ UNCHANGED <<stream, session, error>>

(* The marker or the length is wrong, of a message that need not be whole. *)
RaiseBroken ==
  /\ pc = "feed" /\ HeaderThere
  /\ Next1.kind = "BROKEN"
  /\ Raise("ValueError")
  /\ UNCHANGED stream

RaiseNotification ==
  /\ pc = "feed" /\ Complete
  /\ Next1.kind = "NOTIFICATION"
  /\ Raise("ConnectionError")
  /\ UNCHANGED stream

(* A plausible bug of Handle: feed returns after each message.             *)
HandleOne ==
  /\ handled' = handled + 1 /\ pc' = "recv"
  /\ UNCHANGED <<stream, error>>

(* A message is handled; the loop of feed goes on.                         *)
Handle ==
  /\ handled' = handled + 1
  /\ UNCHANGED <<stream, pc, error>>

HandleOpen ==
  /\ pc = "feed" /\ Complete /\ Next1.kind = "OPEN"
  /\ IF Next1.good
     THEN opened' = TRUE /\ Handle /\ UNCHANGED <<established, rib>>
     ELSE Raise("ValueError") /\ UNCHANGED stream

HandleKeepalive ==
  /\ pc = "feed" /\ Complete /\ Next1.kind = "KEEPALIVE"
  /\ IF Next1.good /\ opened
     THEN established' = TRUE /\ Handle /\ UNCHANGED <<opened, rib>>
     ELSE Raise("ValueError") /\ UNCHANGED stream

(* A plausible bug of Apply: announcements first, withdrawals after them.  *)
ApplyWithdrawalsLast(u) ==
  [x \in Prefixes |->
     IF x \in u.withdrawn THEN None ELSE IF x \in u.announced THEN RouteOf(u) ELSE rib[x]]

(* The end of parse_update: withdrawals first, announcements after them.   *)
Apply(u) ==
  [x \in Prefixes |->
     IF x \in u.announced THEN RouteOf(u) ELSE IF x \in u.withdrawn THEN None ELSE rib[x]]

HandleUpdate ==
  /\ pc = "feed" /\ Complete /\ Next1.kind = "UPDATE"
  /\ IF Raises(Next1.body)
     THEN Raise("ValueError") /\ UNCHANGED stream
     ELSE rib' = Apply(Next1.body) /\ Handle /\ UNCHANGED <<opened, established>>

RaiseUnknown ==
  /\ pc = "feed" /\ Complete
  /\ Next1.kind = "UNKNOWN"
  /\ Raise("ValueError")
  /\ UNCHANGED stream

(* The lab gives up and closes its sessions.                               *)
Done == pc = "raised" /\ UNCHANGED vars

Feed ==
  \/ Return \/ RaiseBroken \/ RaiseNotification \/ RaiseUnknown
  \/ HandleOpen \/ HandleKeepalive \/ HandleUpdate

Next ==
  \/ \E k \in 0 .. Len(script), h \in BOOLEAN : Receive(k, h)
  \/ ReceiveEnd \/ Feed \/ Done

Spec == Init /\ [][Next]_vars

(***************************************************************************)
(* Properties                                                              *)
(***************************************************************************)

TypeOK ==
  /\ script \in Scripts
  /\ arrived \in 0 .. Len(script) /\ header \in BOOLEAN
  /\ header => arrived < Len(script)
  /\ handled \in 0 .. arrived
  /\ opened \in BOOLEAN /\ established \in BOOLEAN
  /\ rib \in [Prefixes -> [path : Values, origin : Values] \cup {None}]
  /\ pc \in {"recv", "feed", "raised"}
  /\ error \in {"none", "EOF", "ConnectionError", "ValueError"}
  /\ pc = "raised" <=> error # "none"

(* However the stream is cut ("TCP framing is buffered across reads",      *)
(* route_wire.py:4), no whole message is left behind in the buffer: when   *)
(* feed has returned, the session is what all that arrived makes of it,    *)
(* and nothing that is wrong has arrived.                                  *)
NothingLeft ==
  pc = "recv" =>
    /\ handled = arrived
    /\ header => Next1.kind # "BROKEN"

(* The session as the promise sees it.                                     *)
Session ==
  CASE error = "EOF"                           -> "lost"
    [] error \in {"ConnectionError", "ValueError"} -> "refused"
    [] error = "none" /\ established           -> "established"
    [] error = "none" /\ opened /\ ~established -> "opened"
    [] error = "none" /\ ~opened /\ ~established -> "connected"

Promise == INSTANCE PeerPromise WITH taken <- handled, session <- Session, view <- rib

(* Whatever is cut, and wherever feed raises, the routes and the flags are *)
(* those of a receiver of whole messages: what a chunk holds in front of   *)
(* the wrong message has been applied, nothing of it or behind it has.     *)
KeepsPromise == Promise!PSpec

(* What a daemon that speaks BGP sends: the mandatory attributes come with *)
(* every announcement, and only then.                                      *)
WellFormed(u) ==
  /\ u.framed
  /\ \A i \in 1 .. Len(u.attrs) : u.attrs[i].good
  /\ u.announced # {} =>
       {ORIGIN, AS_PATH} \subseteq {u.attrs[i].code : i \in 1 .. Len(u.attrs)}

Conforming ==
  \A i \in 1 .. Len(script) :
    \/ i = 1 /\ Opens(script[i])
    \/ i > 1 /\ Confirms(script[i])
    \/ i > 2 /\ script[i].kind = "UPDATE" /\ WellFormed(script[i].body)

(* Nothing of a conforming daemon is refused, however it is cut.           *)
NoFalseAlarm == Conforming => error \in {"none", "EOF"}

=============================================================================
