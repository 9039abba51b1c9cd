------------------------------ MODULE GrModel ------------------------------
(***************************************************************************)
(* The reference model of a graceful-restart helper (gr_model.py): what    *)
(* the RFC 4724 helper must hold of the routes a restarting peer gave it.  *)
(* Every live probe compares the daemon's RIB with this model.             *)
(*                                                                         *)
(* `step' applies an event to any state at all; `enabled_events' keeps the *)
(* events a live session can really produce.  WalkSpec is every walk of    *)
(* `step' (what check_bounded_invariants explores), Spec the walks along   *)
(* enabled events (what generate_traces explores and the live runs drive). *)
(***************************************************************************)
CONSTANT Routes          \* the routes of the peer; two of them in the code

ASSUME RoutesAssumption == Routes # {}

ABSENT == "ABSENT"
ACTIVE == "ACTIVE"
STALE  == "STALE"
RouteState == {ABSENT, ACTIVE, STALE}

GrState == [routes : [Routes -> RouteState], gr_enabled : BOOLEAN, connected : BOOLEAN]

initial(gr) ==
  [routes |-> [r \in Routes |-> ABSENT], gr_enabled |-> gr, connected |-> TRUE]

present(s, r) == s.routes[r] # ABSENT
AnyPresent(s) == \E r \in Routes : present(s, r)
AnyStale(s)   == \E r \in Routes : s.routes[r] = STALE

(***************************************************************************)
(* step.  What each event leaves of a state, whatever the state is.        *)
(***************************************************************************)

(* A plausible bug of AfterLoss: every route still held is kept stale.     *)
AfterLossKeepingStale(gr, old) == IF gr /\ old # ABSENT THEN STALE ELSE ABSENT

(* What the loss of the session leaves of a route: under graceful restart  *)
(* a fresh route is retained, a route that was already stale is not.       *)
AfterLoss(gr, old) == IF gr /\ old = ACTIVE THEN STALE ELSE ABSENT

(* What End-of-RIB, the restart timer or a cleared forwarding bit leaves.  *)
Sweep(old) == IF old = STALE THEN ABSENT ELSE old

(* announce, refresh *)
Learned(s, r) == IF s.connected THEN [s EXCEPT !.routes[r] = ACTIVE] ELSE s

(* disconnect *)
Disconnected(s) ==
  [s EXCEPT !.routes = IF s.connected
                       THEN [r \in Routes |-> AfterLoss(s.gr_enabled, s.routes[r])]
                       ELSE s.routes,
            !.connected = FALSE]

(* reconnect_f1: the peer kept its forwarding state.                       *)
ReconnectedKeeping(s) == [s EXCEPT !.connected = TRUE]

(* eor, timer *)
Swept(s) == [s EXCEPT !.routes = [r \in Routes |-> Sweep(s.routes[r])]]

(* reconnect_f0: the peer lost its forwarding state.                       *)
ReconnectedClearing(s) == [Swept(s) EXCEPT !.connected = TRUE]

(* notification *)
Notified(s) ==
  [s EXCEPT !.routes = [r \in Routes |-> ABSENT], !.connected = FALSE]

VARIABLE state           \* the expected state of the helper

vars == <<state>>

Init == \E gr \in BOOLEAN : state = initial(gr)

WalkNext ==
  \/ \E r \in Routes : state' = Learned(state, r)
  \/ state' = Disconnected(state)
  \/ state' = ReconnectedKeeping(state)
  \/ state' = ReconnectedClearing(state)
  \/ state' = Swept(state)
  \/ state' = Notified(state)

WalkSpec == Init /\ [][WalkNext]_vars

(***************************************************************************)
(* enabled_events.  The events a helper can see: packets need the session, *)
(* a session is only ended while it has left something to retain, and the  *)
(* timer only runs for a helper that lost its peer.                        *)
(***************************************************************************)
CanAnnounce(s, r) == s.connected /\ ~present(s, r)
CanRefresh(s, r)  == s.connected /\ present(s, r)
CanEndAnyway(s)   == s.connected       \* a plausible bug of CanEnd
CanEnd(s)         == s.connected /\ AnyPresent(s)     \* disconnect, notification
CanEor(s)         == s.connected /\ AnyStale(s)
CanReconnect(s)   == ~s.connected                     \* reconnect_f1
CanExpire(s)      == ~s.connected /\ AnyStale(s)      \* reconnect_f0, timer

Announce(r)  == CanAnnounce(state, r) /\ state' = Learned(state, r)
Refresh(r)   == CanRefresh(state, r) /\ state' = Learned(state, r)
Disconnect   == CanEnd(state) /\ state' = Disconnected(state)
Notification == CanEnd(state) /\ state' = Notified(state)
Eor          == CanEor(state) /\ state' = Swept(state)
ReconnectF1  == CanReconnect(state) /\ state' = ReconnectedKeeping(state)
ReconnectF0  == CanExpire(state) /\ state' = ReconnectedClearing(state)
Timer        == CanExpire(state) /\ state' = Swept(state)

Next ==
  \/ \E r \in Routes : Announce(r) \/ Refresh(r)
  \/ Disconnect
  \/ Notification
  \/ Eor
  \/ ReconnectF1
  \/ ReconnectF0
  \/ Timer

Spec == Init /\ [][Next]_vars

(***************************************************************************)
(* Properties                                                              *)
(***************************************************************************)

(* The state holds the values GrState declares for its fields.             *)
TypeOK == state \in GrState

(* Graceful restart is the only reason to keep a route without a session:  *)
(* a helper whose session is down holds stale routes or none, and a helper *)
(* that did not negotiate it never holds a stale one.                      *)
HeldForAReason ==
  \A r \in Routes :
    /\ state.routes[r] = ACTIVE => state.connected
    /\ state.routes[r] = STALE  => state.gr_enabled

(* Every loss of an enabled trace is visible in the RIB: a disconnect or a *)
(* NOTIFICATION changes what the helper holds of some route.  The live     *)
(* runner relies on it: it polls the RIB, and only the change tells it     *)
(* that the daemon has noticed that the session is gone.                   *)
LossIsObservable ==
  [][state.connected /\ ~state'.connected => state'.routes # state.routes]_vars

=============================================================================
