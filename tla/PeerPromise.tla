----------------------------- MODULE PeerPromise -----------------------------
(***************************************************************************)
(* What the receiver of a session promises, without bytes, buffer or       *)
(* flags: it takes the messages of the daemon one by one in their order,   *)
(* stops at the first that does not belong there, and always holds what    *)
(* the messages it took say: of each prefix what the last of them said     *)
(* that mentioned it, and the progress of the handshake.                   *)
(***************************************************************************)
EXTENDS PeerMessages

VARIABLES
  script,         \* the messages of the daemon; they do not change
  taken,          \* how many were taken
  session,
  view            \* the route of each prefix

pvars == <<script, taken, session, view>>

(***************************************************************************)
(* The promise                                                             *)
(***************************************************************************)
PInit ==
  /\ taken = 0 /\ session = "connected"
  /\ view = [x \in Prefixes |-> None]

Open == session \notin {"refused", "lost"}

Take ==
  /\ Open /\ taken < Len(script)
  /\ Belongs(script[taken + 1], session)
  /\ taken' = taken + 1
  /\ session' = Progress(script, taken')
  /\ view' = [x \in Prefixes |-> LastWord(script, taken', x)]
  /\ UNCHANGED script

Refuse ==
  /\ Open /\ taken < Len(script)
  /\ ~Belongs(script[taken + 1], session)
  /\ session' = "refused"
  /\ UNCHANGED <<script, taken, view>>

Lose ==
  /\ Open
  /\ session' = "lost"
  /\ UNCHANGED <<script, taken, view>>

PNext == Take \/ Refuse \/ Lose

PSpec == PInit /\ [][PNext]_pvars

=============================================================================
