------------------------------ MODULE GrProofs ------------------------------
(***************************************************************************)
(* Proofs about graceful restart: the model of the helper, for every set   *)
(* of routes, and the live runner of its traces, for any routes, modes,    *)
(* bounds and timing of the daemon.                                        *)
(***************************************************************************)
EXTENDS GrScenarios, GrHistory, SequenceTheorems, TLAPS

(***************************************************************************)
(* The enabled events are steps of the walk.                               *)
(***************************************************************************)

(* Every trace of enabled events is a walk of step, so what holds of the   *)
(* walks (gr_model.py:65) holds of the traces the live runs drive          *)
(* (gr_model.py:159).                                                      *)
LEMMA TracesAreWalks == Spec => WalkSpec
<1>1. Next => WalkNext
  BY DEF Next, WalkNext, Announce, Refresh, Disconnect, Notification, Eor,
         ReconnectF1, ReconnectF0, Timer
<1>2. [Next]_vars => [WalkNext]_vars
  BY <1>1
<1> QED
  BY <1>2, PTL DEF Spec, WalkSpec

(***************************************************************************)
(* Type correctness                                                        *)
(***************************************************************************)

(* Every event takes a state of the helper to a state of the helper.       *)
LEMMA StepTypes ==
  ASSUME NEW s \in GrState
  PROVE  /\ \A r \in Routes : Learned(s, r) \in GrState
         /\ Disconnected(s) \in GrState
         /\ ReconnectedKeeping(s) \in GrState
         /\ Swept(s) \in GrState
         /\ ReconnectedClearing(s) \in GrState
         /\ Notified(s) \in GrState
<1> USE DEF GrState, RouteState, ABSENT, ACTIVE, STALE
<1>1. \A r \in Routes : Learned(s, r) \in GrState
  BY DEF Learned
<1>2. Disconnected(s) \in GrState
  <2>1. [r \in Routes |-> AfterLoss(s.gr_enabled, s.routes[r])] \in [Routes -> RouteState]
    BY DEF AfterLoss
  <2> QED
    BY <2>1 DEF Disconnected
<1>3. ReconnectedKeeping(s) \in GrState
  BY DEF ReconnectedKeeping
<1>4. Swept(s) \in GrState
  <2>1. [r \in Routes |-> Sweep(s.routes[r])] \in [Routes -> RouteState]
    BY DEF Sweep
  <2> QED
    BY <2>1 DEF Swept
<1>5. ReconnectedClearing(s) \in GrState
  BY <1>4 DEF ReconnectedClearing
<1>6. Notified(s) \in GrState
  BY DEF Notified
<1> QED
  BY <1>1, <1>2, <1>3, <1>4, <1>5, <1>6

(* A step of the walk keeps the fields of the state in their types.        *)
LEMMA TypeStep == TypeOK /\ [WalkNext]_vars => TypeOK'
BY StepTypes DEF TypeOK, WalkNext, vars

(* The helper starts in a state of its type.                               *)
LEMMA InitialType == Init => TypeOK
BY DEF Init, initial, TypeOK, GrState, RouteState, ABSENT

(* The helper starts without routes (GrState.initial, gr_model.py:26-28).  *)
LEMMA InitialRoutes == Init => \A r \in Routes : state.routes[r] = ABSENT
<1> SUFFICES ASSUME NEW gr \in BOOLEAN, state = initial(gr), NEW r \in Routes
             PROVE  state.routes[r] = ABSENT
  BY DEF Init
<1>1. state.routes = [q \in Routes |-> ABSENT]
  BY DEF initial
<1> QED
  BY <1>1

(* In every walk of step the fields of the state stay in their types.      *)
THEOREM WalkTypeCorrect == WalkSpec => []TypeOK
BY InitialType, TypeStep, PTL DEF WalkSpec

(* The same of the traces of enabled events.                               *)
THEOREM TypeCorrect == Spec => []TypeOK
BY TracesAreWalks, WalkTypeCorrect, PTL

(***************************************************************************)
(* Why a route is held                                                     *)
(***************************************************************************)

(* A step of the walk keeps the reasons: only a loss makes a route stale,  *)
(* and a loss of a session without graceful restart, or a NOTIFICATION,    *)
(* leaves none.                                                            *)
LEMMA HeldStep == TypeOK /\ HeldForAReason /\ [WalkNext]_vars => HeldForAReason'
<1> SUFFICES ASSUME TypeOK, HeldForAReason, [WalkNext]_vars, NEW r \in Routes
             PROVE  /\ state'.routes[r] = ACTIVE => state'.connected
                    /\ state'.routes[r] = STALE  => state'.gr_enabled
  BY DEF HeldForAReason
<1>0. /\ state.routes[r] = ACTIVE => state.connected
      /\ state.routes[r] = STALE  => state.gr_enabled
  BY DEF HeldForAReason
<1> USE DEF TypeOK, GrState, ABSENT, ACTIVE, STALE
<1>1. ASSUME NEW q \in Routes, state' = Learned(state, q)
      PROVE  /\ state'.routes[r] = ACTIVE => state'.connected
             /\ state'.routes[r] = STALE  => state'.gr_enabled
  BY <1>0, <1>1 DEF Learned
<1>2. CASE state' = Disconnected(state)
  BY <1>0, <1>2 DEF Disconnected, AfterLoss
<1>3. CASE state' = ReconnectedKeeping(state)
  BY <1>0, <1>3 DEF ReconnectedKeeping
<1>4. CASE state' = ReconnectedClearing(state)
  BY <1>0, <1>4 DEF ReconnectedClearing, Swept, Sweep
<1>5. CASE state' = Swept(state)
  BY <1>0, <1>5 DEF Swept, Sweep
<1>6. CASE state' = Notified(state)
  BY <1>0, <1>6 DEF Notified
<1>7. CASE UNCHANGED vars
  BY <1>0, <1>7 DEF vars
<1> QED
  BY <1>1, <1>2, <1>3, <1>4, <1>5, <1>6, <1>7 DEF WalkNext

(* Without a session the helper holds stale routes or none, and without    *)
(* graceful restart it holds no stale route, in every walk of step         *)
(* (gr_model.py:34-62) and so in every trace the live runs drive.          *)
THEOREM RoutesAreHeldForAReason == WalkSpec => []HeldForAReason
<1>1. Init => HeldForAReason
  <2> SUFFICES ASSUME Init PROVE HeldForAReason
    OBVIOUS
  <2> QED
    BY InitialRoutes DEF HeldForAReason, ABSENT, ACTIVE, STALE
<1> QED
  BY <1>1, WalkTypeCorrect, HeldStep, PTL DEF WalkSpec

(***************************************************************************)
(* A loss is observable                                                    *)
(***************************************************************************)

(* A loss of the session never leaves a route as it was: a fresh route     *)
(* becomes stale or goes, a stale one goes.                                *)
LEMMA LossChangesRoute ==
  ASSUME NEW gr \in BOOLEAN, NEW old \in RouteState, old # ABSENT
  PROVE  AfterLoss(gr, old) # old
BY DEF AfterLoss, RouteState, ABSENT, ACTIVE, STALE

(* In a trace of enabled events every end of the session changes what the  *)
(* helper holds of some route (enabled_events, gr_model.py:96-115, ends a  *)
(* session only while a route is present), so that a RIB observation can   *)
(* tell that the daemon noticed it.                                        *)
THEOREM LossesAreObservable == Spec => LossIsObservable
<1>1. TypeOK /\ [Next]_vars =>
        [state.connected /\ ~state'.connected => state'.routes # state.routes]_vars
  <2> SUFFICES ASSUME TypeOK, [Next]_vars, state.connected, ~state'.connected
               PROVE  state'.routes # state.routes
    OBVIOUS
  <2> USE DEF TypeOK, GrState
  <2>1. CASE Disconnect
    <3>1. PICK r \in Routes : state.routes[r] # ABSENT
      BY <2>1 DEF Disconnect, CanEnd, AnyPresent, present
    <3>2. state'.routes[r] = AfterLoss(state.gr_enabled, state.routes[r])
      BY <2>1, <3>1 DEF Disconnect, CanEnd, Disconnected
    <3> QED
      BY <3>1, <3>2, LossChangesRoute
  <2>2. CASE Notification
    <3>1. PICK r \in Routes : state.routes[r] # ABSENT
      BY <2>2 DEF Notification, CanEnd, AnyPresent, present
    <3>2. state'.routes[r] = ABSENT
      BY <2>2, <3>1 DEF Notification, Notified
    <3> QED
      BY <3>1, <3>2
  <2>3. Disconnect \/ Notification
    <3>1. \A r \in Routes : Learned(state, r).connected = state.connected
      BY DEF Learned
    <3>2. Swept(state).connected = state.connected
      BY DEF Swept
    <3>3. ReconnectedKeeping(state).connected /\ ReconnectedClearing(state).connected
      BY DEF ReconnectedKeeping, ReconnectedClearing, Swept
    <3> QED
      BY <3>1, <3>2, <3>3 DEF Next, vars, Announce, Refresh, Eor, ReconnectF1,
                              ReconnectF0, Timer
  <2> QED
    BY <2>1, <2>2, <2>3
<1> QED
  BY <1>1, TypeCorrect, PTL DEF Spec, LossIsObservable

(***************************************************************************)
(* Exact retention                                                         *)
(***************************************************************************)

(* RetentionExact alone is not inductive: from a state where a route is    *)
(* heard but the session is down, a disconnect would leave it active.      *)
HInv == HTypeOK /\ HeardOnlyConnected /\ RetentionExact

(* What HInv says of one route.                                            *)
RouteInv(r) ==
  /\ losses[r] = 0 => state.connected
  /\ state.routes[r] = Held(r)

(* The history variables only watch: every step with history is a step of  *)
(* the walk.                                                               *)
LEMMA HistoryIsAWalk == [HNext]_hvars => [WalkNext]_vars
BY DEF HNext, hvars, WalkNext, vars, HLearn, HDisconnect, HReconnectKeep,
       HReconnectClear, HSweep, HNotification

(* A step with history keeps the types, the losses counted up to NEVER.    *)
LEMMA HistoryTypes == HTypeOK /\ [HNext]_hvars => HTypeOK'
<1> SUFFICES ASSUME HTypeOK, [HNext]_hvars PROVE HTypeOK'
  OBVIOUS
<1>1. TypeOK'
  BY HistoryIsAWalk, TypeStep DEF HTypeOK
<1>2. losses \in [Routes -> 0 .. NEVER] /\ swept \in BOOLEAN
  BY DEF HTypeOK
<1>3. losses' \in [Routes -> 0 .. NEVER]
  <2>1. OneMoreLoss \in [Routes -> 0 .. NEVER]
    BY <1>2 DEF OneMoreLoss, NEVER
  <2>2. ASSUME NEW r \in Routes, HLearn(r)
        PROVE  losses' \in [Routes -> 0 .. NEVER]
    BY <1>2, <2>2 DEF HLearn, NEVER
  <2>3. HDisconnect \/ HNotification => losses' \in {losses, OneMoreLoss}
    BY DEF HDisconnect, HNotification
  <2>4. \/ HReconnectKeep \/ HReconnectClear \/ HSweep \/ UNCHANGED hvars
        => losses' = losses
    BY DEF HReconnectKeep, HReconnectClear, HSweep, hvars
  <2> QED
    BY <1>2, <2>1, <2>2, <2>3, <2>4 DEF HNext
<1>4. swept' \in BOOLEAN
  BY <1>2, Zenon DEF HNext, hvars, HLearn, HDisconnect, HReconnectKeep,
                     HReconnectClear, HSweep, HNotification
<1> QED
  BY <1>1, <1>3, <1>4 DEF HTypeOK

(* A step keeps what HInv says of one route, one case per event.           *)
LEMMA RouteStep ==
  ASSUME HTypeOK, [HNext]_hvars, NEW r \in Routes, RouteInv(r)
  PROVE  RouteInv(r)'
<1> USE DEF RouteInv, Held, HTypeOK, TypeOK, GrState, NEVER, RouteState,
            ABSENT, ACTIVE, STALE
<1>0. losses[r] \in 0 .. 2
  OBVIOUS
<1>1. ASSUME NEW q \in Routes, HLearn(q) PROVE RouteInv(r)'
  BY <1>1 DEF HLearn, Learned
<1>2. CASE HDisconnect
  <2>1. CASE state.connected
    <3>1. losses'[r] = IF losses[r] = 2 THEN 2 ELSE losses[r] + 1
      BY <1>2, <2>1 DEF HDisconnect, OneMoreLoss
    <3>2. state'.routes[r] = AfterLoss(state.gr_enabled, state.routes[r])
      BY <1>2, <2>1 DEF HDisconnect, Disconnected
    <3>3. ~swept' /\ state'.gr_enabled = state.gr_enabled
      BY <1>2, <2>1 DEF HDisconnect, Disconnected
    <3> QED
      BY <1>0, <3>1, <3>2, <3>3 DEF AfterLoss
  <2>2. CASE ~state.connected
    <3>1. state'.routes = state.routes /\ state'.gr_enabled = state.gr_enabled
      BY <1>2, <2>2 DEF HDisconnect, Disconnected
    <3>2. losses' = losses /\ swept' = swept
      BY <1>2, <2>2 DEF HDisconnect
    <3> QED
      BY <2>2, <3>1, <3>2
  <2> QED
    BY <2>1, <2>2
<1>3. CASE HReconnectKeep
  BY <1>3 DEF HReconnectKeep, ReconnectedKeeping
<1>4. CASE HReconnectClear
  BY <1>4 DEF HReconnectClear, ReconnectedClearing, Swept, Sweep
<1>5. CASE HSweep
  BY <1>5 DEF HSweep, Swept, Sweep
<1>6. CASE HNotification
  <2>1. losses'[r] # 0
    BY <1>0, <1>6 DEF HNotification, OneMoreLoss
  <2>2. state'.routes[r] = ABSENT
    BY <1>6 DEF HNotification, Notified
  <2>3. swept'
    BY <1>6 DEF HNotification
  <2> QED
    BY <2>1, <2>2, <2>3
<1>7. CASE UNCHANGED hvars
  BY <1>7 DEF hvars
<1> QED
  BY <1>1, <1>2, <1>3, <1>4, <1>5, <1>6, <1>7 DEF HNext

(* The strengthened invariant holds of every walk with history.            *)
LEMMA HistoryInvariant == HSpec => []HInv
<1>1. HInit => HInv
  <2> SUFFICES ASSUME HInit PROVE HInv
    OBVIOUS
  <2>1. HTypeOK
    <3>1. TypeOK
      BY InitialType DEF HInit
    <3>2. losses \in [Routes -> 0 .. NEVER]
      BY DEF HInit, NEVER
    <3>3. swept \in BOOLEAN
      BY DEF HInit
    <3> QED
      BY <3>1, <3>2, <3>3 DEF HTypeOK
  <2>2. \A r \in Routes : losses[r] = 2 /\ state.routes[r] = ABSENT
    BY InitialRoutes DEF HInit, NEVER
  <2> QED
    BY <2>1, <2>2 DEF HInv, HeardOnlyConnected, RetentionExact, Held
<1>2. HInv /\ [HNext]_hvars => HInv'
  <2> SUFFICES ASSUME HInv, [HNext]_hvars PROVE HInv'
    OBVIOUS
  <2>1. \A r \in Routes : RouteInv(r)
    BY DEF HInv, HeardOnlyConnected, RetentionExact, RouteInv
  <2>2. HTypeOK /\ HTypeOK'
    BY HistoryTypes DEF HInv
  <2>3. \A r \in Routes : RouteInv(r)'
    BY <2>1, <2>2, RouteStep
  <2> QED
    BY <2>2, <2>3 DEF HInv, HeardOnlyConnected, RetentionExact, RouteInv
<1> QED
  BY <1>1, <1>2, PTL DEF HSpec

(* In every walk of step the helper holds exactly the routes RFC 4724 lets *)
(* it hold; no route survives two consecutive losses of the session        *)
(* (gr_model.py:41-46) and no clean-up takes a fresh one.                  *)
THEOREM RetentionIsExact == HSpec => []RetentionExact
BY HistoryInvariant, PTL DEF HInv

(***************************************************************************)
(* The live runner of the traces                                           *)
(*                                                                         *)
(* What the daemon holds lags behind what the runner expects by what is    *)
(* under way in the connection.  The invariant says, for each place the    *)
(* runner can be at, what the messages under way do to the routes: nothing *)
(* between events, the one move of the event while it is observed, and     *)
(* the end of the session once the runner has ended it.                    *)
(***************************************************************************)

(***************************************************************************)
(* Messages and queues                                                     *)
(***************************************************************************)
Routing == [Routes -> RouteState]

Msg == [kind : {"update"}, route : Routes, trace : Nat]
       \cup [kind : {"eor", "cease", "close"}]

(* A message that changes routes and not the session, and what it makes of *)
(* the routes.                                                             *)
Plain(m) == m.kind \in {"update", "eor"}

Cleaned(t) == [r \in Routes |-> Sweep(t[r])]

Moves(m, t) ==
  IF m.kind = "update" THEN [t EXCEPT ![m.route] = ACTIVE] ELSE Cleaned(t)

(* What the routes t become when the session is lost.                      *)
Lost(gr, t) == [r \in Routes |-> AfterLoss(gr, t[r])]

AllPlain(q) == \A i \in 1 .. Len(q) : Plain(q[i])

(* The routes t stay as they are until the session changes.                *)
NoMove(q, t) == \A i \in 1 .. Len(q) : Plain(q[i]) => Moves(q[i], t) = t

(* The last message takes t to u, if any does, and no other moves either.  *)
OneMove(q, t, u) ==
  \A i \in 1 .. Len(q) :
    /\ Moves(q[i], u) = u
    /\ Moves(q[i], t) \in IF i = Len(q) THEN {t, u} ELSE {t}

(* The first that is not plain is of kind k.                               *)
EndsIn(q, k) ==
  \E i \in 1 .. Len(q) : q[i].kind = k /\ \A j \in 1 .. i - 1 : Plain(q[j])

Own(q, n) == \A i \in 1 .. Len(q) : q[i].kind = "update" => q[i].trace = n

Unclosed(q) == \A i \in 1 .. Len(q) : q[i].kind # "close"

(***************************************************************************)
(* The invariant                                                           *)
(***************************************************************************)
(* The places of either suite.                                             *)
GeneratedPc == {"idle", "open", "event", "monitor", "observe", "sleep", "cleanup", "cease",
                "final", "close", "rest", "done"}
DirectedPc == {"idle", "script", "sending", "expire", "finally", "raising", "settle", "done"}

(* A reference state for which HeldForAReason holds.                       *)
Sound(s) ==
  /\ s \in GrState
  /\ \A r \in Routes : /\ s.routes[r] = ACTIVE => s.connected
                       /\ s.routes[r] = STALE  => s.gr_enabled

Generated == ~mode.directed

(* Types, as far as the generated suite needs them.                        *)
NetTypes ==
  /\ link \in BOOLEAN /\ breaks \in Nat /\ inbox \in Seq(Msg)
  /\ up \in BOOLEAN /\ dgr \in BOOLEAN

DaemonTypes ==
  table \in Routing /\ left \subseteq RouteState \ {ABSENT} /\ diverged \in BOOLEAN

Types ==
  /\ mode \in Modes
  /\ mode.directed => pc \in DirectedPc
  /\ Generated =>
       /\ Sound(state) /\ Sound(after)
       /\ pc \in GeneratedPc
       /\ sock \in BOOLEAN /\ pass \in BOOLEAN /\ timed \in BOOLEAN /\ matched \in BOOLEAN
       /\ index \in Nat /\ events \in Nat
       /\ seen \in [Routes -> RouteState \cup {Unread}]
       /\ NetTypes /\ DaemonTypes

(* The two ends of the connection: the daemon can only be ahead of the     *)
(* runner in knowing that it is over, the runner only while the end is still *)
(* under way.                                                              *)
Wired ==
  /\ link => up /\ sock /\ Unclosed(inbox)
  /\ ~up => inbox = <<>>
  /\ up /\ ~link => ~AllPlain(inbox)

Network == Generated => Wired

(* Where the runner is says what it expects and whether it has a socket.   *)
Position ==
  Generated =>
    /\ pc \in {"open", "event", "monitor", "observe", "sleep"} => pass
    /\ pc = "open" => state.connected /\ state.routes = NoRoutes
    /\ pc = "monitor" => state.connected /\ after.connected
    /\ pc = "sleep" => ~state.connected /\ after = Swept(state)
    /\ pc = "observe" /\ state.connected /\ ~after.connected =>
         /\ after.routes \in {NoRoutes, Disconnected(state).routes}
         /\ AnyPresent(state)
    /\ \/ pc \in {"event", "sleep"} /\ ~state.connected
       \/ pc = "observe" /\ ~after.connected
       => ~sock
    /\ pc \in {"event", "monitor", "observe", "sleep"} => dgr = state.gr_enabled
    /\ pc \in {"monitor", "observe", "sleep"} => after.gr_enabled = state.gr_enabled
    /\ pc \in {"monitor", "sleep"} => seen = NothingSeen

(* When the daemon can be expected to be right and in time, when the runner *)
(* would see that it is not, and when nothing moves the routes by itself.  *)
Conforming == PATIENT /\ FAULTS = {} /\ breaks = 0
Watched == COVERAGE => Conforming
Undisturbed == breaks = 0 /\ (timed => PATIENT)

Watching == Generated /\ Watched /\ pass

(* Between events a live session holds the routes of the reference state,  *)
(* and nothing under way moves them.                                       *)
InStep ==
  Watching /\ pc \in {"event", "cleanup"} =>
    /\ up => /\ state.connected /\ table = state.routes
             /\ AllPlain(inbox) /\ NoMove(inbox, table)
    /\ Undisturbed => table = state.routes

(* While the runner sleeps for the restart timer there is no session.      *)
Asleep == Watching /\ pc = "sleep" => ~up

(* While an announcement or an End-of-RIB is observed, the routes are those *)
(* of before or of after, and only the last message under way moves them.  *)
Sending ==
  Watching /\ up /\ pc \in {"monitor", "observe"} /\ state.connected /\ after.connected =>
    /\ table \in {state.routes, after.routes}
    /\ AllPlain(inbox) /\ OneMove(inbox, state.routes, after.routes)

(* While the end of a session is observed and the daemon has not seen it,  *)
(* the routes are those of before, and the end is under way.               *)
Closing ==
  Watching /\ up /\ pc = "observe" /\ state.connected /\ ~after.connected =>
    /\ table = state.routes /\ NoMove(inbox, table)
    /\ \/ EndsIn(inbox, "cease") /\ after.routes = NoRoutes
       \/ EndsIn(inbox, "close") /\ after.routes = Disconnected(state).routes

(* While a reconnection is observed nothing is under way.                  *)
Reconnected ==
  Watching /\ up /\ pc = "observe" /\ ~state.connected => after.connected /\ inbox = <<>>

(* A prefix that was read as wanted stays as wanted.                       *)
Agreeing ==
  Watching /\ ~COVERAGE /\ pc = "observe" /\ (up \/ Undisturbed) =>
    \A r \in Routes : seen[r] = after.routes[r] => table[r] = after.routes[r]

(* At the end of a trace nothing under way moves the routes, but the CEASE *)
(* that a live session is still to see.                                    *)
Ending ==
  Watching /\ pc \in {"cease", "final", "close", "rest", "idle", "open", "done"} =>
    /\ NoMove(inbox, table)
    /\ pc = "cease" /\ up => AllPlain(inbox)
    /\ pc # "cease" /\ up => EndsIn(inbox, "cease")

(* A prefix that was read as gone stays gone.                              *)
Finishing ==
  Watching /\ pc = "final" => \A r \in Routes : seen[r] = ABSENT => table[r] = ABSENT

(* Between traces there are no routes.                                     *)
Cleared ==
  Watching /\ (pc \in {"idle", "open"} \/ (pc \in {"close", "rest"} /\ ~COVERAGE)) =>
    table = NoRoutes

(* There are no routes of earlier traces, and nothing under way about them. *)
Clean == Generated /\ Watched => left = {} /\ Own(inbox, index)

(* While no connection breaks, the daemon has the session that the runner  *)
(* has.                                                                    *)
Online ==
  Watching /\ breaks = 0 =>
    /\ pc = "event" /\ state.connected => up
    /\ pc \in {"monitor", "observe"} /\ after.connected => up
    /\ pc = "cleanup" /\ sock => up
    /\ pc = "cease" => up

(* Behind the clean-up a daemon without a session has no routes.           *)
Down ==
  Watching /\ Undisturbed /\ pc \in {"final", "close", "rest"} /\ ~up => table = NoRoutes

(* What a fault changed stands out until the observation of the event fails. *)
Noticed ==
  Generated /\ ~COVERAGE /\ pass /\ breaks = 0 /\ ~timed /\ diverged =>
    pc \in {"monitor", "observe"} /\ table # after.routes /\ inbox = <<>>

(* A conforming daemon that is in time gets to what is expected of it.     *)
Progress ==
  Generated /\ Conforming =>
    /\ pass
    /\ pc \in {"monitor", "observe"} =>
         \/ table = after.routes
         \/ /\ up /\ inbox # <<>>
            /\ state.connected /\ after.connected =>
                 Moves(inbox[Len(inbox)], state.routes) = after.routes
    /\ pc = "sleep" => table \in {state.routes, after.routes}
    /\ pc \in {"idle", "open"} => ~up

(* In coverage mode the sleeps outlast a session that was closed.          *)
Loss == COVERAGE /\ PATIENT /\ Generated /\ pc = "event" /\ ~state.connected => ~up

(* The invariant.                                                          *)
XInv ==
  /\ Types /\ Network /\ Position /\ InStep /\ Asleep /\ Sending /\ Closing /\ Reconnected
  /\ Agreeing /\ Ending /\ Finishing /\ Cleared /\ Clean /\ Online /\ Down /\ Noticed
  /\ Progress /\ Loss

(***************************************************************************)
(* Lemmas about messages and queues                                        *)
(***************************************************************************)

(* A message that the runner can send is one the daemon can receive.       *)
LEMMA MessageTypes ==
  /\ \A r \in Routes : index \in Nat => Update(r) \in Msg /\ Plain(Update(r))
  /\ \A kind \in {"eor", "cease", "close"} : Message(kind) \in Msg
  /\ Plain(Message("eor")) /\ ~Plain(Message("cease")) /\ ~Plain(Message("close"))
BY DEF Update, Message, Msg, Plain

(* Routes move to routes.                                                  *)
LEMMA MovesType ==
  ASSUME NEW m \in Msg, NEW t \in Routing
  PROVE  Moves(m, t) \in Routing
<1> USE DEF Routing, RouteState, ABSENT, ACTIVE, STALE
<1>1. CASE m.kind = "update"
  BY <1>1 DEF Moves, Msg
<1>2. CASE m.kind # "update"
  BY <1>2 DEF Moves, Cleaned, Sweep
<1> QED
  BY <1>1, <1>2

(* A message repeated moves nothing more.                                  *)
LEMMA MovesOnce ==
  ASSUME NEW m \in Msg, NEW t \in Routing
  PROVE  Moves(m, Moves(m, t)) = Moves(m, t)
<1> USE DEF Routing, RouteState, ABSENT, ACTIVE, STALE
<1>1. CASE m.kind = "update"
  BY <1>1 DEF Moves, Msg
<1>2. CASE m.kind # "update"
  BY <1>2 DEF Moves, Cleaned, Sweep
<1> QED
  BY <1>1, <1>2

(* What did not move the routes does not move them after another message.  *)
LEMMA MovesCommute ==
  ASSUME NEW m \in Msg, NEW n \in Msg, NEW t \in Routing, Moves(m, t) = t
  PROVE  Moves(m, Moves(n, t)) = Moves(n, t)
<1> USE DEF Routing, RouteState, ABSENT, ACTIVE, STALE
<1>1. CASE m.kind = "update"
  <2>1. m.route \in Routes /\ t[m.route] = ACTIVE
    BY <1>1 DEF Moves, Msg
  <2>2. Moves(n, t)[m.route] = ACTIVE
    BY <2>1 DEF Moves, Msg, Cleaned, Sweep
  <2>3. PICK u \in Routing : u = Moves(n, t)
    BY MovesType
  <2>4. [u EXCEPT ![m.route] = ACTIVE] = u
    BY <2>2, <2>3
  <2> QED
    BY <1>1, <2>3, <2>4 DEF Moves
<1>2. CASE m.kind # "update"
  <2>1. \A r \in Routes : t[r] # STALE
    BY <1>2 DEF Moves, Cleaned, Sweep
  <2>2. \A r \in Routes : Moves(n, t)[r] # STALE
    BY <2>1 DEF Moves, Msg, Cleaned, Sweep
  <2> QED
    BY <1>2, <2>2, MovesType DEF Moves, Cleaned, Sweep
<1> QED
  BY <1>1, <1>2

(* The rest of a queue is a queue, and keeps what holds of the whole.      *)
LEMMA TailKeeps ==
  ASSUME NEW q \in Seq(Msg), q # <<>>
  PROVE  /\ Head(q) \in Msg /\ Tail(q) \in Seq(Msg)
         /\ AllPlain(q) <=> Plain(Head(q)) /\ AllPlain(Tail(q))
         /\ \A n : Own(q, n) =>
              Own(Tail(q), n) /\ (Head(q).kind = "update" => Head(q).trace = n)
         /\ \A t : NoMove(q, t) =>
              NoMove(Tail(q), t) /\ (Plain(Head(q)) => Moves(Head(q), t) = t)
         /\ \A t, u : OneMove(q, t, u) =>
              /\ OneMove(Tail(q), t, u) /\ Moves(Head(q), u) = u
              /\ Moves(Head(q), t) \in IF Tail(q) = <<>> THEN {t, u} ELSE {t}
         /\ Unclosed(q) => Head(q).kind # "close" /\ Unclosed(Tail(q))
         /\ Tail(q) # <<>> => Tail(q)[Len(Tail(q))] = q[Len(q)]
         /\ Tail(q) = <<>> => Head(q) = q[Len(q)]
         /\ \A k : EndsIn(q, k) =>
              Head(q).kind = k \/ (Plain(Head(q)) /\ EndsIn(Tail(q), k))
<1>1. /\ Head(q) \in Msg /\ Tail(q) \in Seq(Msg) /\ Len(q) \in Nat /\ Len(q) > 0
      /\ Len(Tail(q)) = Len(q) - 1 /\ Head(q) = q[1]
      /\ \A i \in 1 .. Len(q) - 1 : Tail(q)[i] = q[i + 1]
  BY HeadTailProperties, LenProperties, EmptySeq
<1>e. Tail(q) = <<>> <=> Len(q) = 1
  <2>1. Tail(q) = <<>> => Len(Tail(q)) = 0
    BY EmptySeq
  <2>2. Len(Tail(q)) = 0 => Tail(q) = <<>>
    BY <1>1, EmptySeq
  <2> QED
    BY <1>1, <2>1, <2>2
<1>2. AllPlain(q) <=> Plain(Head(q)) /\ AllPlain(Tail(q))
  <2>1. AllPlain(q) => Plain(Head(q)) /\ AllPlain(Tail(q))
    BY <1>1 DEF AllPlain
  <2>2. ASSUME Plain(Head(q)), AllPlain(Tail(q)), NEW i \in 1 .. Len(q)
        PROVE  Plain(q[i])
    <3>1. i = 1 \/ i - 1 \in 1 .. Len(Tail(q))
      BY <1>1
    <3>2. i - 1 \in 1 .. Len(Tail(q)) => Tail(q)[i - 1] = q[i]
      BY <1>1
    <3> QED
      BY <1>1, <2>2, <3>1, <3>2 DEF AllPlain
  <2> QED
    BY <2>1, <2>2 DEF AllPlain
<1>3. ASSUME NEW n, Own(q, n)
      PROVE  Own(Tail(q), n) /\ (Head(q).kind = "update" => Head(q).trace = n)
  BY <1>1, <1>3 DEF Own
<1>4. ASSUME NEW t, NoMove(q, t)
      PROVE  NoMove(Tail(q), t) /\ (Plain(Head(q)) => Moves(Head(q), t) = t)
  BY <1>1, <1>4 DEF NoMove
<1>5. ASSUME NEW t, NEW u, OneMove(q, t, u)
      PROVE  /\ OneMove(Tail(q), t, u) /\ Moves(Head(q), u) = u
             /\ Moves(Head(q), t) \in IF Tail(q) = <<>> THEN {t, u} ELSE {t}
  <2>1. ASSUME NEW i \in 1 .. Len(Tail(q))
        PROVE  /\ Moves(Tail(q)[i], u) = u
               /\ Moves(Tail(q)[i], t) \in IF i = Len(Tail(q)) THEN {t, u} ELSE {t}
    <3>1. i + 1 \in 1 .. Len(q) /\ (i + 1 = Len(q) <=> i = Len(Tail(q)))
      BY <1>1
    <3> QED
      BY <1>1, <1>5, <3>1 DEF OneMove
  <2>2. OneMove(Tail(q), t, u)
    BY <2>1 DEF OneMove
  <2>3. 1 \in 1 .. Len(q)
    BY <1>1
  <2> QED
    BY <1>1, <1>e, <1>5, <2>2, <2>3 DEF OneMove
<1>6. /\ Tail(q) # <<>> => Tail(q)[Len(Tail(q))] = q[Len(q)]
      /\ Tail(q) = <<>> => Head(q) = q[Len(q)]
  BY <1>1, <1>e
<1>7. ASSUME NEW k, EndsIn(q, k)
      PROVE  Head(q).kind = k \/ (Plain(Head(q)) /\ EndsIn(Tail(q), k))
  <2>1. PICK i \in 1 .. Len(q) : q[i].kind = k /\ \A j \in 1 .. i - 1 : Plain(q[j])
    BY <1>7 DEF EndsIn
  <2>2. CASE i = 1
    BY <1>1, <2>1, <2>2
  <2>3. CASE i # 1
    <3>1. i - 1 \in 1 .. Len(Tail(q)) /\ Tail(q)[i - 1] = q[i]
      BY <1>1, <2>3
    <3>2. \A j \in 1 .. (i - 1) - 1 : Plain(Tail(q)[j])
      BY <1>1, <2>1
    <3>3. Plain(Head(q))
      BY <1>1, <2>1, <2>3
    <3> QED
      BY <2>1, <3>1, <3>2, <3>3 DEF EndsIn
  <2> QED
    BY <2>2, <2>3
<1>8. Unclosed(q) => Head(q).kind # "close" /\ Unclosed(Tail(q))
  BY <1>1 DEF Unclosed
<1> QED
  BY <1>1, <1>2, <1>3, <1>4, <1>5, <1>6, <1>7, <1>8

(* The same of a queue that is longer by one message.                      *)
LEMMA AppendKeeps ==
  ASSUME NEW q \in Seq(Msg), NEW m \in Msg
  PROVE  /\ q \o <<m>> \in Seq(Msg) /\ q \o <<m>> # <<>>
         /\ (q \o <<m>>)[Len(q \o <<m>>)] = m
         /\ ~Plain(m) => ~AllPlain(q \o <<m>>)
         /\ ~AllPlain(q) => ~AllPlain(q \o <<m>>)
         /\ AllPlain(q) /\ Plain(m) => AllPlain(q \o <<m>>)
         /\ \A n : Own(q, n) /\ (m.kind = "update" => m.trace = n) => Own(q \o <<m>>, n)
         /\ Unclosed(q) /\ m.kind # "close" => Unclosed(q \o <<m>>)
         /\ \A t : NoMove(q, t) /\ ~Plain(m) => NoMove(q \o <<m>>, t)
         /\ AllPlain(q) => EndsIn(q \o <<m>>, m.kind)
         /\ \A k : EndsIn(q, k) => EndsIn(q \o <<m>>, k)
         /\ \A t \in Routing : AllPlain(q) /\ NoMove(q, t) => OneMove(q \o <<m>>, t, Moves(m, t))
<1> DEFINE p == q \o <<m>>
<1>1. /\ p \in Seq(Msg) /\ Len(q) \in Nat /\ Len(p) = Len(q) + 1
      /\ \A i \in 1 .. Len(q) : p[i] = q[i]
      /\ p[Len(p)] = m
  BY ConcatProperties, LenProperties
<1>2. p # <<>> /\ Len(p) \in 1 .. Len(p)
  BY <1>1, EmptySeq
<1> HIDE DEF p
<1>3. \A i \in 1 .. Len(p) : i = Len(p) \/ i \in 1 .. Len(q)
  BY <1>1
<1>4. \A i \in 1 .. Len(q) : i \in 1 .. Len(p) /\ i # Len(p)
  BY <1>1
<1>5. /\ ~Plain(m) => ~AllPlain(p)
      /\ ~AllPlain(q) => ~AllPlain(p)
      /\ AllPlain(q) /\ Plain(m) => AllPlain(p)
  BY <1>1, <1>2, <1>3, <1>4 DEF AllPlain
<1>6. \A n : Own(q, n) /\ (m.kind = "update" => m.trace = n) => Own(p, n)
  BY <1>1, <1>3 DEF Own
<1>7. \A t : NoMove(q, t) /\ ~Plain(m) => NoMove(p, t)
  BY <1>1, <1>3 DEF NoMove
<1>8. AllPlain(q) => EndsIn(p, m.kind)
  <2>1. \A j \in 1 .. Len(p) - 1 : j \in 1 .. Len(q)
    BY <1>1
  <2> QED
    BY <1>1, <1>2, <2>1 DEF AllPlain, EndsIn
<1>9. ASSUME NEW k, EndsIn(q, k)
      PROVE  EndsIn(p, k)
  <2>1. PICK i \in 1 .. Len(q) : q[i].kind = k /\ \A j \in 1 .. i - 1 : Plain(q[j])
    BY <1>9 DEF EndsIn
  <2>2. \A j \in 1 .. i - 1 : j \in 1 .. Len(q)
    BY <1>1
  <2> QED
    BY <1>1, <1>4, <2>1, <2>2 DEF EndsIn
<1>10. ASSUME NEW t \in Routing, AllPlain(q), NoMove(q, t)
       PROVE  OneMove(p, t, Moves(m, t))
  <2>1. ASSUME NEW i \in 1 .. Len(q)
        PROVE  Moves(p[i], t) = t /\ Moves(p[i], Moves(m, t)) = Moves(m, t)
    <3>1. q[i] \in Msg
      BY ElementOfSeq
    <3>2. Moves(q[i], t) = t
      BY <1>10 DEF AllPlain, NoMove
    <3> QED
      BY <1>1, <3>1, <3>2, MovesCommute
  <2>2. Moves(p[Len(p)], Moves(m, t)) = Moves(m, t)
    BY <1>1, MovesOnce
  <2>3. ASSUME NEW i \in 1 .. Len(p)
        PROVE  /\ Moves(p[i], Moves(m, t)) = Moves(m, t)
               /\ Moves(p[i], t) \in IF i = Len(p) THEN {t, Moves(m, t)} ELSE {t}
    BY <1>1, <1>3, <1>4, <2>1, <2>2
  <2> QED
    BY <2>3 DEF OneMove
<1>11. Unclosed(q) /\ m.kind # "close" => Unclosed(p)
  BY <1>1, <1>3 DEF Unclosed
<1> QED
  BY <1>1, <1>2, <1>5, <1>6, <1>7, <1>8, <1>9, <1>10, <1>11 DEF p

(* Nothing moves the routes when nothing is under way, and the last move   *)
(* leaves nothing to move.                                                 *)
LEMMA EmptyQueue ==
  ASSUME NEW q, q = <<>>
  PROVE  /\ AllPlain(q)
         /\ \A t : NoMove(q, t)
         /\ \A t, u : OneMove(q, t, u)
         /\ \A n : Own(q, n)
         /\ Unclosed(q)
BY DEF AllPlain, NoMove, OneMove, Own, Unclosed

(* The queue of a connection that only closes.                             *)
LEMMA CloseAlone ==
  ASSUME NEW q, q = <<Message("close")>>
  PROVE  q \in Seq(Msg) /\ ~AllPlain(q) /\ \A n : Own(q, n)
BY MessageTypes DEF AllPlain, Own, Message

(* Behind the one move nothing moves.                                      *)
LEMMA LastMove ==
  ASSUME NEW q, NEW t, NEW u, OneMove(q, t, u)
  PROVE  NoMove(q, u)
BY DEF OneMove, NoMove

(* A queue that ends in something is not empty.                            *)
LEMMA EndsInSomething ==
  ASSUME NEW q \in Seq(Msg), NEW k, EndsIn(q, k)
  PROVE  q # <<>>
BY DEF EndsIn

(***************************************************************************)
(* Lemmas about the reference states and the routes                        *)
(***************************************************************************)

(* Every event takes a sound state to a sound state.                       *)
LEMMA SoundSteps ==
  ASSUME NEW s, Sound(s)
  PROVE  /\ \A gr \in BOOLEAN : Sound(initial(gr))
         /\ \A r \in Routes : Sound(Learned(s, r))
         /\ Sound(Swept(s)) /\ Sound(Notified(s)) /\ Sound(Disconnected(s))
         /\ Sound(ReconnectedKeeping(s)) /\ Sound(ReconnectedClearing(s))
<1> USE DEF Sound, GrState, RouteState, ABSENT, ACTIVE, STALE
<1>1. \A gr \in BOOLEAN : Sound(initial(gr))
  BY DEF initial
<1>2. \A r \in Routes : Sound(Learned(s, r))
  BY DEF Learned
<1>3. Sound(Swept(s))
  BY DEF Swept, Sweep
<1>4. Sound(Notified(s))
  BY DEF Notified
<1>5. Sound(Disconnected(s))
  BY DEF Disconnected, AfterLoss
<1>6. Sound(ReconnectedKeeping(s))
  BY DEF ReconnectedKeeping
<1>7. Sound(ReconnectedClearing(s))
  BY DEF ReconnectedClearing, Swept, Sweep
<1> QED
  BY <1>1, <1>2, <1>3, <1>4, <1>5, <1>6, <1>7

(* What the events do to the session of a reference state.                 *)
LEMMA SessionSteps ==
  ASSUME NEW s, Sound(s)
  PROVE  /\ s.connected \in BOOLEAN /\ s.gr_enabled \in BOOLEAN /\ s.routes \in Routing
         /\ \A gr \in BOOLEAN : initial(gr).connected /\ initial(gr).gr_enabled = gr
         /\ \A r \in Routes : s.connected => Learned(s, r).connected
                              /\ Learned(s, r).gr_enabled = s.gr_enabled
         /\ Swept(s).connected = s.connected /\ Swept(s).gr_enabled = s.gr_enabled
         /\ ~Notified(s).connected /\ Notified(s).gr_enabled = s.gr_enabled
         /\ ~Disconnected(s).connected /\ Disconnected(s).gr_enabled = s.gr_enabled
         /\ ReconnectedKeeping(s).connected
         /\ ReconnectedKeeping(s).gr_enabled = s.gr_enabled
         /\ ReconnectedClearing(s).connected
         /\ ReconnectedClearing(s).gr_enabled = s.gr_enabled
BY DEF Sound, GrState, Routing, initial, Learned, Swept, Notified, Disconnected,
       ReconnectedKeeping, ReconnectedClearing

(* What the events do to its routes is what the messages they stand for,   *)
(* and the loss of a session, do to those of the daemon.                   *)
LEMMA RouteSteps ==
  ASSUME NEW s, Sound(s)
  PROVE  /\ \A gr \in BOOLEAN : initial(gr).routes = NoRoutes
         /\ \A r \in Routes : s.connected => Learned(s, r).routes = Moves(Update(r), s.routes)
         /\ Swept(s).routes = Cleaned(s.routes)
         /\ Cleaned(s.routes) = Moves(Message("eor"), s.routes)
         /\ Notified(s).routes = NoRoutes
         /\ s.connected => Disconnected(s).routes = Lost(s.gr_enabled, s.routes)
         /\ ReconnectedKeeping(s).routes = s.routes
         /\ ReconnectedClearing(s).routes = Cleaned(s.routes)
BY DEF Sound, GrState, initial, NoRoutes, Learned, Swept, Notified, Disconnected,
       ReconnectedKeeping, ReconnectedClearing, Cleaned, Lost, Moves, Update, Message

(* A loss is visible: it takes a state that holds a route to other routes. *)
LEMMA LossIsVisible ==
  ASSUME NEW s, Sound(s), AnyPresent(s)
  PROVE  s.routes # NoRoutes /\ \A gr : Lost(gr, s.routes) # s.routes
BY DEF Sound, GrState, AnyPresent, present, NoRoutes, Lost, AfterLoss,
       RouteState, ABSENT, ACTIVE, STALE

(* Without a session all routes are stale.                                 *)
LEMMA NoSessionSwept ==
  ASSUME NEW s, Sound(s), ~s.connected
  PROVE  Cleaned(s.routes) = NoRoutes /\ (~s.gr_enabled => s.routes = NoRoutes)
BY DEF Sound, GrState, Cleaned, Sweep, NoRoutes, RouteState, ABSENT, ACTIVE, STALE

(* A queue that leaves a peer without routes as it is has no routes.       *)
LEMMA NothingUnderWay ==
  ASSUME NEW q \in Seq(Msg), NoMove(q, NoRoutes)
  PROVE  \A n : Own(q, n)
<1> SUFFICES ASSUME NEW i \in 1 .. Len(q), q[i].kind = "update"
             PROVE  FALSE
  BY DEF Own
<1>1. q[i].route \in Routes
  BY ElementOfSeq DEF Msg
<1>2. [NoRoutes EXCEPT ![q[i].route] = ACTIVE] = NoRoutes
  BY DEF NoMove, Moves, Plain
<1>3. [NoRoutes EXCEPT ![q[i].route] = ACTIVE][q[i].route] = ACTIVE
  BY <1>1 DEF NoRoutes
<1> QED
  BY <1>1, <1>2, <1>3 DEF NoRoutes, ACTIVE, ABSENT

(* What is not read is not taken for a state of a route.                   *)
LEMMA UnreadIsNoState ==
  /\ NothingSeen \in [Routes -> RouteState \cup {Unread}]
  /\ \A r \in Routes : NothingSeen[r] = Unread
  /\ \A t \in Routing, r \in Routes : t[r] # Unread /\ NothingSeen[r] # t[r]
  /\ Unread # ABSENT
BY DEF NothingSeen, Unread, Routing, RouteState, ABSENT, ACTIVE, STALE

(* The routes after a sweep and after a loss.                              *)
LEMMA SweptRoutes ==
  ASSUME NEW t \in Routing
  PROVE  /\ Cleaned(t) \in Routing /\ Cleaned(Cleaned(t)) = Cleaned(t)
         /\ \A r \in Routes : t[r] = ABSENT => Cleaned(t)[r] = ABSENT
         /\ (\A r \in Routes : t[r] # STALE) => Cleaned(t) = t
         /\ (\A r \in Routes : t[r] = ABSENT) => t = NoRoutes
         /\ \A gr : Lost(gr, t) \in Routing
BY DEF Routing, NoRoutes, Cleaned, Sweep, Lost, AfterLoss, RouteState, ABSENT, ACTIVE, STALE

(* No routes stay no routes.                                               *)
LEMMA NothingToLose ==
  /\ NoRoutes \in Routing /\ Cleaned(NoRoutes) = NoRoutes
  /\ \A r \in Routes : NoRoutes[r] = ABSENT
  /\ \A gr : Lost(gr, NoRoutes) = NoRoutes
BY DEF Routing, NoRoutes, Cleaned, Sweep, Lost, AfterLoss, RouteState, ABSENT, ACTIVE, STALE

(* The effects of the daemon's steps.                                      *)
LEMMA Effects ==
  ASSUME DaemonTypes
  PROVE  /\ Affect(Same, Same) => UNCHANGED <<table, left, diverged>>
         /\ Affect(Drop, Drop) =>
              DaemonTypes' /\ table' = Cleaned(table) /\ UNCHANGED diverged
         /\ Affect(Same, Drop) =>
              /\ UNCHANGED <<table, left>> /\ diverged' \in BOOLEAN
              /\ diverged' => diverged \/ Cleaned(table) # table
         /\ Affect(Forget, Forget) =>
              table' = NoRoutes /\ left' = {} /\ UNCHANGED diverged
         /\ Affect(Lose, Lose) =>
              DaemonTypes' /\ table' = Lost(dgr, table) /\ UNCHANGED diverged
         /\ Affect(LoseNothing, Lose) =>
              DaemonTypes' /\ (diverged' => diverged \/ table' # Lost(dgr, table))
         /\ Affect(Drop, Drop) \/ Affect(Lose, Lose) \/ Affect(LoseNothing, Lose) =>
              (left = {} => left' = {})
<1> USE DEF DaemonTypes, Affect, Routing, RouteState, ABSENT, ACTIVE, STALE
<1>s. /\ \A r \in Routes : Same[table[r]] = table[r]
      /\ [r \in Routes |-> Same[table[r]]] = table
      /\ {Same[old] : old \in left} \ {ABSENT} = left
  <2>1. \A old \in RouteState : Same[old] = old
    BY DEF Same
  <2>2. \A r \in Routes : Same[table[r]] = table[r]
    BY <2>1
  <2>3. [r \in Routes |-> Same[table[r]]] = table
    BY <2>2
  <2>4. {Same[old] : old \in left} = left
    BY <2>1
  <2> QED
    BY <2>2, <2>3, <2>4
<1>d. \A r \in Routes : Drop[table[r]] = Cleaned(table)[r]
  BY DEF Drop, Cleaned
<1>1. Affect(Same, Same) => UNCHANGED <<table, left, diverged>>
  BY <1>s
<1>2. Affect(Drop, Drop) => DaemonTypes' /\ table' = Cleaned(table) /\ UNCHANGED diverged
  BY DEF Drop, Sweep, Cleaned
<1>3. Affect(Same, Drop) =>
        /\ UNCHANGED <<table, left>> /\ diverged' \in BOOLEAN
        /\ diverged' => diverged \/ Cleaned(table) # table
  BY <1>s, <1>d
<1>4. Affect(Forget, Forget) => table' = NoRoutes /\ left' = {} /\ UNCHANGED diverged
  BY DEF Forget, NoRoutes
<1>5. Affect(Lose, Lose) => DaemonTypes' /\ table' = Lost(dgr, table) /\ UNCHANGED diverged
  BY DEF Lose, AfterLoss, Lost
<1>6. Affect(LoseNothing, Lose) =>
        DaemonTypes' /\ (diverged' => diverged \/ table' # Lost(dgr, table))
  BY DEF Lose, LoseNothing, AfterLoss, AfterLossKeepingStale, Lost
<1>7. Affect(Drop, Drop) \/ Affect(Lose, Lose) \/ Affect(LoseNothing, Lose) =>
        (left = {} => left' = {})
  OBVIOUS
<1> QED
  BY <1>1, <1>2, <1>3, <1>4, <1>5, <1>6, <1>7

(* What a daemon, faulty or not, makes of its routes when the session fails. *)
LEMMA LosesRoutes ==
  ASSUME DaemonTypes, LoseRoutes
  PROVE  /\ DaemonTypes'
         /\ left = {} => left' = {}
         /\ table = NoRoutes => table' = NoRoutes
         /\ \A r \in Routes :
              table[r] = ABSENT \/ table[r] = Lost(dgr, table)[r] => table'[r] = table[r]
         /\ FAULTS = {} => table' = Lost(dgr, table)
         /\ diverged' => diverged \/ table' # Lost(dgr, table)
<1>1. /\ DaemonTypes'
      /\ left = {} => left' = {}
      /\ FAULTS = {} => table' = Lost(dgr, table)
      /\ diverged' => diverged \/ table' # Lost(dgr, table)
  BY Effects DEF LoseRoutes
<1>2. \A r \in Routes :
        table[r] = ABSENT \/ table[r] = Lost(dgr, table)[r] => table'[r] = table[r]
  <2> USE DEF DaemonTypes, Routing, RouteState, ABSENT, ACTIVE, STALE
  <2>1. CASE Affect(Lose, Lose)
    BY <2>1 DEF Affect, Lose, AfterLoss, Lost
  <2>2. CASE Affect(LoseNothing, Lose)
    BY <2>2 DEF Affect, LoseNothing, AfterLossKeepingStale, AfterLoss, Lost
  <2> QED
    BY <2>1, <2>2 DEF LoseRoutes
<1>3. table = NoRoutes => table' = NoRoutes
  <2>1. table' \in Routing
    BY <1>1 DEF DaemonTypes
  <2> QED
    BY <1>2, <2>1 DEF Routing, NoRoutes
<1> QED
  BY <1>1, <1>2, <1>3

(* A handshake that completes, and one that does not.                      *)
LEMMA Connected ==
  ASSUME NetTypes, DaemonTypes, Wired, NEW gr \in BOOLEAN, NEW forward \in BOOLEAN,
         Connect(gr, forward)
  PROVE  /\ ~up /\ up' = TRUE /\ link' = TRUE /\ sock' = TRUE /\ inbox' = <<>>
         /\ dgr' = gr /\ NetTypes' /\ DaemonTypes' /\ Wired' /\ UNCHANGED <<breaks, diverged>>
         /\ table' = (IF gr /\ forward THEN table ELSE Cleaned(table))
         /\ left = {} => left' = {}
         /\ AllPlain(inbox') /\ (\A t : NoMove(inbox', t)) /\ \A n : Own(inbox', n)
<1>1. /\ ~up /\ up' = TRUE /\ link' = TRUE /\ sock' = TRUE /\ inbox' = <<>>
      /\ dgr' = gr /\ UNCHANGED breaks
  BY DEF Connect, Establish
<1>2. /\ DaemonTypes' /\ UNCHANGED diverged
      /\ table' = (IF gr /\ forward THEN table ELSE Cleaned(table))
      /\ left = {} => left' = {}
  BY Effects DEF Connect, Establish, DaemonTypes
<1>3. AllPlain(inbox') /\ (\A t : NoMove(inbox', t)) /\ \A n : Own(inbox', n)
  BY <1>1, EmptyQueue
<1>4. NetTypes' /\ Wired'
  BY <1>1, EmptyQueue DEF NetTypes, Wired
<1> QED
  BY <1>1, <1>2, <1>3, <1>4

(* A handshake that fails leaves the session of before, or one that ends.  *)
LEMMA NotConnected ==
  ASSUME NetTypes, DaemonTypes, Wired, NEW gr \in BOOLEAN, NEW forward \in BOOLEAN,
         ConnectRaises(gr, forward)
  PROVE  /\ sock' = sock /\ NetTypes' /\ DaemonTypes' /\ Wired'
         /\ left = {} /\ Own(inbox, index) => left' = {} /\ Own(inbox', index)
         /\ breaks' = 0 => breaks = 0 /\ up
<1>1. CASE ConnectRefused
  BY <1>1 DEF ConnectRefused, DaemonTypes, NetTypes, Wired, net, daemon
<1>2. CASE ConnectFails(gr, forward)
  <2>1. /\ breaks' = breaks + 1 /\ dgr' = gr
        /\ up' = TRUE /\ link' = FALSE /\ inbox' = <<Message("close")>> /\ sock' = sock
    BY <1>2 DEF ConnectFails, Establish
  <2>2. DaemonTypes' /\ (left = {} => left' = {})
    BY <1>2, Effects DEF ConnectFails, Establish, DaemonTypes
  <2>3. PICK q : q = <<Message("close")>>
    OBVIOUS
  <2>4. q \in Seq(Msg) /\ ~AllPlain(q) /\ Own(q, index)
    BY <2>3, CloseAlone
  <2>5. inbox' = q
    BY <2>1, <2>3
  <2> HIDE <2>3
  <2>6. NetTypes'
    <3>1. link' \in BOOLEAN /\ up' \in BOOLEAN /\ dgr' \in BOOLEAN
      BY <2>1
    <3>2. breaks' \in Nat
      BY <2>1 DEF NetTypes
    <3> QED
      BY <2>4, <2>5, <3>1, <3>2 DEF NetTypes
  <2>7. Wired'
    BY <2>1, <2>4, <2>5 DEF Wired
  <2>8. breaks' # 0
    BY <2>1 DEF NetTypes
  <2> QED
    BY <2>1, <2>2, <2>4, <2>5, <2>6, <2>7, <2>8
<1> QED
  BY <1>1, <1>2 DEF ConnectRaises


(* What _send puts into the connection, and what closing it does.          *)
LEMMA Delivered ==
  ASSUME NetTypes, NEW m \in Msg, Deliver(<<m>>)
  PROVE  /\ inbox' \in Seq(Msg)
         /\ ~link => inbox' = inbox
         /\ link => /\ inbox' # <<>> /\ inbox'[Len(inbox')] = m
                    /\ AllPlain(inbox) /\ Plain(m) => AllPlain(inbox')
                    /\ AllPlain(inbox) => EndsIn(inbox', m.kind)
                    /\ \A t \in Routing :
                         AllPlain(inbox) /\ NoMove(inbox, t) => OneMove(inbox', t, Moves(m, t))
         /\ Unclosed(inbox) /\ m.kind # "close" => Unclosed(inbox')
         /\ ~AllPlain(inbox) => ~AllPlain(inbox')
         /\ ~Plain(m) /\ link => ~AllPlain(inbox')
         /\ \A t : NoMove(inbox, t) /\ ~Plain(m) => NoMove(inbox', t)
         /\ \A k : EndsIn(inbox, k) => EndsIn(inbox', k)
         /\ \A n : Own(inbox, n) /\ (m.kind = "update" => m.trace = n) => Own(inbox', n)
<1>1. CASE link
  <2>1. inbox' = inbox \o <<m>>
    BY <1>1 DEF Deliver
  <2>2. inbox \in Seq(Msg)
    BY DEF NetTypes
  <2> QED
    BY <1>1, <2>1, <2>2, AppendKeeps
<1>2. CASE ~link
  BY <1>2 DEF Deliver, NetTypes
<1> QED
  BY <1>1, <1>2

(* What closing the connection, with or without a CEASE, leaves under way. *)
LEMMA Closed ==
  ASSUME NetTypes, Wired, NEW ms \in {<<>>, <<Message("cease")>>}, Close(ms)
  PROVE  /\ link' = FALSE /\ sock' = FALSE /\ inbox' \in Seq(Msg)
         /\ ~link => inbox' = inbox
         /\ ~up => inbox' = <<>>
         /\ up => inbox' # <<>> /\ ~AllPlain(inbox')
         /\ up /\ AllPlain(inbox) => EndsIn(inbox', IF ms = <<>> THEN "close" ELSE "cease")
         /\ \A t : NoMove(inbox, t) => NoMove(inbox', t)
         /\ \A k : EndsIn(inbox, k) => EndsIn(inbox', k)
         /\ \A n : Own(inbox, n) => Own(inbox', n)
<1>1. link' = FALSE /\ sock' = FALSE
  BY DEF Close
<1>2. CASE ~link
  BY <1>1, <1>2, EmptyQueue DEF Close, Deliver, NetTypes, Wired
<1>3. CASE link /\ ms = <<>>
  <2>1. PICK m : m = Message("close")
    OBVIOUS
  <2>2. m \in Msg /\ ~Plain(m) /\ m.kind = "close"
    BY <2>1, MessageTypes DEF Message
  <2>3. inbox \in Seq(Msg) /\ inbox' = inbox \o <<m>>
    BY <1>3, <2>1 DEF Close, Deliver, NetTypes
  <2> HIDE <2>1
  <2> QED
    BY <1>1, <1>3, <2>2, <2>3, AppendKeeps DEF Wired
<1>4. CASE link /\ ms # <<>>
  <2>1. PICK m, n : m = Message("cease") /\ n = Message("close")
    OBVIOUS
  <2>2. /\ m \in Msg /\ ~Plain(m) /\ m.kind = "cease"
        /\ n \in Msg /\ ~Plain(n) /\ n.kind = "close"
    BY <2>1, MessageTypes DEF Message
  <2>3. PICK q \in Seq(Msg) : q = inbox \o <<m>>
    BY <2>2, AppendKeeps DEF NetTypes
  <2>4. inbox \in Seq(Msg) /\ inbox' = q \o <<n>>
    <3>1. <<m>> \in Seq(Msg) /\ <<n>> \in Seq(Msg)
      BY <2>2
    <3>2. inbox \o (<<m>> \o <<n>>) = (inbox \o <<m>>) \o <<n>>
      BY <3>1, ConcatAssociative DEF NetTypes
    <3> QED
      BY <1>4, <2>1, <2>3, <3>2 DEF NetTypes, Close, Deliver
  <2> HIDE <2>1
  <2>5. /\ ~AllPlain(q) /\ (AllPlain(inbox) => EndsIn(q, "cease"))
        /\ \A t : NoMove(inbox, t) => NoMove(q, t)
        /\ \A k : EndsIn(inbox, k) => EndsIn(q, k)
        /\ \A i : Own(inbox, i) => Own(q, i)
    BY <2>2, <2>3, <2>4, AppendKeeps
  <2> HIDE <2>3
  <2>6. /\ inbox' \in Seq(Msg) /\ inbox' # <<>> /\ ~AllPlain(inbox')
        /\ EndsIn(q, "cease") => EndsIn(inbox', "cease")
        /\ \A t : NoMove(q, t) => NoMove(inbox', t)
        /\ \A k : EndsIn(q, k) => EndsIn(inbox', k)
        /\ \A i : Own(q, i) => Own(inbox', i)
    BY <2>2, <2>4, <2>5, AppendKeeps
  <2> QED
    BY <1>1, <1>4, <2>5, <2>6 DEF Wired
<1> QED
  BY <1>2, <1>3, <1>4

(* What performing an event does but for its own effect.                   *)
LEMMA Performed ==
  ASSUME NEW e, NEW next, Perform(e, next), events \in Nat
  PROVE  /\ pc = "event" /\ events' \in Nat /\ after' = e /\ pc' = next
         /\ seen' = NothingSeen /\ matched' = FALSE
         /\ UNCHANGED <<mode, state, index, timed>>
BY DEF Perform

(***************************************************************************)
(* The steps                                                               *)
(***************************************************************************)
USE DEF Types, Network, Generated, Position, Conforming, Watched, Undisturbed, Watching,
        InStep, Asleep, Sending, Closing, Reconnected, Agreeing, Ending, Finishing, Cleared,
        NetTypes, DaemonTypes, Wired, Clean, Online, Down, Noticed, Progress, Loss,
        evars, runner, poll, net, daemon, COVERAGE, PATIENT, FAULTS, MaxBreaks,
        GeneratedPc, DirectedPc

(* Nothing changes.                                                        *)
LEMMA Stutter == ASSUME XInv, UNCHANGED evars PROVE XInv'
BY DEF XInv

(* run_generated_scenarios: the next trace.                                *)
LEMMA BeginTraceStep == ASSUME XInv, Generated, BeginTrace PROVE XInv'
<1>1. left' \subseteq RouteState \ {ABSENT} /\ table' = NoRoutes /\ diverged' = FALSE
  BY DEF BeginTrace, OwnPrefixes, Routing, XInv
<1>2. left = {} /\ table = NoRoutes => left' = {}
  BY DEF BeginTrace, OwnPrefixes, NoRoutes
<1>3. inbox \in Seq(Msg) /\ NoMove(inbox, NoRoutes) => Own(inbox, index')
  BY NothingUnderWay
<1>4. /\ Sound(state') /\ state'.connected /\ state'.routes = NoRoutes
  <2>1. PICK gr \in BOOLEAN : state' = initial(gr)
    BY DEF BeginTrace
  <2> QED
    BY <2>1, SoundSteps, SessionSteps, RouteSteps DEF XInv
<1>5. index' \in Nat /\ events' \in Nat
  BY DEF BeginTrace, OwnPrefixes, XInv
<1>6. DaemonTypes'
  BY <1>1, NothingToLose
<1>a. Types' /\ Network' /\ Position' /\ InStep' /\ Asleep' /\ Sending'
  BY <1>1, <1>2, <1>3, <1>4, <1>5, <1>6 DEF BeginTrace, OwnPrefixes, XInv
<1>b. Closing' /\ Reconnected' /\ Agreeing' /\ Ending' /\ Finishing' /\ Cleared'
  BY <1>1, <1>2, <1>3, <1>4, <1>5, <1>6 DEF BeginTrace, OwnPrefixes, XInv
<1>c. Clean' /\ Online' /\ Down' /\ Noticed' /\ Progress' /\ Loss'
  BY <1>1, <1>2, <1>3, <1>4, <1>5, <1>6 DEF BeginTrace, OwnPrefixes, XInv
<1> QED
  BY <1>a, <1>b, <1>c DEF XInv

(* The session of a trace.                                                 *)
LEMMA OpenStep == ASSUME XInv, Generated, OpenOk \/ OpenRaises PROVE XInv'
<1>0. state.gr_enabled \in BOOLEAN /\ TRUE \in BOOLEAN
  BY SessionSteps DEF XInv
<1>1. CASE OpenOk
  <2>a. Types' /\ Network' /\ Position' /\ InStep' /\ Asleep' /\ Sending'
    BY <1>1, <1>0, Connected, NothingToLose DEF OpenOk, XInv
  <2>b. Closing' /\ Reconnected' /\ Agreeing' /\ Ending' /\ Finishing' /\ Cleared'
    BY <1>1, <1>0, Connected, NothingToLose DEF OpenOk, XInv
  <2>c. Clean' /\ Online' /\ Down' /\ Noticed' /\ Progress' /\ Loss'
    BY <1>1, <1>0, Connected, NothingToLose DEF OpenOk, XInv
  <2> QED
    BY <2>a, <2>b, <2>c DEF XInv
<1>2. CASE OpenRaises
  BY <1>2, <1>0, NotConnected DEF OpenRaises, XInv
<1> QED
  BY <1>1, <1>2

(* The end of the suite.                                                   *)
LEMMA FinishStep == ASSUME XInv, Generated, Finish PROVE XInv'
BY DEF Finish, XInv

(* The short recv behind a send.                                           *)
LEMMA MonitorStep == ASSUME XInv, Generated, MonitorOk \/ MonitorRaises PROVE XInv'
<1>1. CASE MonitorOk
  BY <1>1, UnreadIsNoState, SessionSteps DEF MonitorOk, XInv
<1>2. CASE MonitorRaises
  <2>a. Types' /\ Network' /\ Position' /\ InStep' /\ Asleep' /\ Sending'
    BY <1>2 DEF MonitorRaises, XInv
  <2>b. Closing' /\ Reconnected' /\ Agreeing' /\ Ending' /\ Finishing' /\ Cleared'
    BY <1>2 DEF MonitorRaises, XInv
  <2>c. Clean' /\ Online' /\ Down' /\ Noticed' /\ Progress' /\ Loss'
    BY <1>2 DEF MonitorRaises, XInv
  <2> QED
    BY <2>a, <2>b, <2>c DEF XInv
<1> QED
  BY <1>1, <1>2

(* announce and refresh.                                                   *)
LEMMA SendUpdateStep ==
  ASSUME XInv, Generated, NEW r \in Routes, SendUpdate(r)
  PROVE  XInv'
<1>1. /\ pc = "event" /\ events' \in Nat /\ after' = Learned(state, r) /\ pc' = "monitor"
      /\ seen' = NothingSeen /\ matched' = FALSE
      /\ UNCHANGED <<mode, state, index, timed, sock, pass, link, breaks, daemon>>
  BY Performed DEF SendUpdate, XInv
<1>2. state.connected
  BY DEF SendUpdate, CanAnnounce, CanRefresh
<1>3. PICK m : m = Update(r)
  OBVIOUS
<1>4. m \in Msg /\ Plain(m) /\ m.kind = "update" /\ m.trace = index
  BY <1>3, MessageTypes DEF Update, XInv
<1>5. Deliver(<<m>>)
  BY <1>3 DEF SendUpdate
<1>6. Sound(state)
  BY DEF XInv
<1>7. /\ Sound(after') /\ after'.connected /\ after'.gr_enabled = state.gr_enabled
      /\ after'.routes = Moves(m, state.routes) /\ state.routes \in Routing
  <2>1. Sound(after')
    BY <1>1, <1>6, SoundSteps
  <2>2. after'.connected /\ after'.gr_enabled = state.gr_enabled /\ state.routes \in Routing
    BY <1>1, <1>2, <1>6, SessionSteps
  <2>3. after'.routes = Moves(m, state.routes)
    BY <1>1, <1>2, <1>3, <1>6, RouteSteps
  <2> QED
    BY <2>1, <2>2, <2>3
<1> HIDE <1>3
<1>t. Types'
  BY <1>1, <1>4, <1>5, <1>7, Delivered, UnreadIsNoState DEF XInv
<1>8. Network' /\ Position' /\ InStep' /\ Asleep' /\ Sending'
  BY <1>1, <1>2, <1>4, <1>5, <1>7, Delivered, UnreadIsNoState DEF XInv
<1>9. Closing' /\ Reconnected' /\ Agreeing' /\ Ending' /\ Finishing' /\ Cleared'
  BY <1>1, <1>2, <1>4, <1>5, <1>7, Delivered, UnreadIsNoState
<1>10. Clean' /\ Online' /\ Down' /\ Noticed' /\ Progress' /\ Loss'
  BY <1>1, <1>2, <1>4, <1>5, <1>7, Delivered, UnreadIsNoState DEF XInv
<1> QED
  BY <1>t, <1>8, <1>9, <1>10 DEF XInv

(* eor.                                                                    *)
LEMMA SendEorStep == ASSUME XInv, Generated, SendEor PROVE XInv'
<1>1. /\ pc = "event" /\ events' \in Nat /\ after' = Swept(state) /\ pc' = "monitor"
      /\ seen' = NothingSeen /\ matched' = FALSE
      /\ UNCHANGED <<mode, state, index, timed, sock, pass, link, breaks, daemon>>
  BY Performed DEF SendEor, XInv
<1>2. state.connected
  BY DEF SendEor, CanEor
<1>3. PICK m : m = Message("eor")
  OBVIOUS
<1>4. m \in Msg /\ Plain(m) /\ m.kind = "eor"
  BY <1>3, MessageTypes DEF Message
<1>5. Deliver(<<m>>)
  BY <1>3 DEF SendEor
<1>6. Sound(state)
  BY DEF XInv
<1>7. /\ Sound(after') /\ after'.connected /\ after'.gr_enabled = state.gr_enabled
      /\ after'.routes = Moves(m, state.routes) /\ state.routes \in Routing
  <2>1. Sound(after')
    BY <1>1, <1>6, SoundSteps
  <2>2. after'.connected /\ after'.gr_enabled = state.gr_enabled /\ state.routes \in Routing
    BY <1>1, <1>2, <1>6, SessionSteps
  <2>3. after'.routes = Moves(m, state.routes)
    BY <1>1, <1>2, <1>3, <1>6, RouteSteps
  <2> QED
    BY <2>1, <2>2, <2>3
<1> HIDE <1>3
<1>t. Types'
  BY <1>1, <1>4, <1>5, <1>7, Delivered, UnreadIsNoState DEF XInv
<1>8. Network' /\ Position' /\ InStep' /\ Asleep' /\ Sending'
  BY <1>1, <1>2, <1>4, <1>5, <1>7, Delivered, UnreadIsNoState DEF XInv
<1>9. Closing' /\ Reconnected' /\ Agreeing' /\ Ending' /\ Finishing' /\ Cleared'
  BY <1>1, <1>2, <1>4, <1>5, <1>7, Delivered, UnreadIsNoState
<1>10. Clean' /\ Online' /\ Down' /\ Noticed' /\ Progress' /\ Loss'
  BY <1>1, <1>2, <1>4, <1>5, <1>7, Delivered, UnreadIsNoState DEF XInv
<1> QED
  BY <1>t, <1>8, <1>9, <1>10 DEF XInv

(* notification.                                                           *)
LEMMA SendNotificationStep ==
  ASSUME XInv, Generated, SendNotification \/ SendNotificationRaises
  PROVE  XInv'
<1>1. /\ pc = "event" /\ events' \in Nat /\ after' = Notified(state)
      /\ seen' = NothingSeen /\ matched' = FALSE
      /\ UNCHANGED <<mode, state, index, timed, breaks, daemon>>
  BY Performed DEF SendNotification, SendNotificationRaises, XInv
<1>2. state.connected /\ AnyPresent(state)
  BY DEF SendNotification, SendNotificationRaises, CanEnd
<1>3. /\ Sound(after') /\ ~after'.connected /\ after'.gr_enabled = state.gr_enabled
      /\ after'.routes = NoRoutes /\ after'.routes \in Routing
  BY <1>1, SoundSteps, SessionSteps, RouteSteps, NothingToLose DEF XInv
<1>4. CASE SendNotification
  <2>1. pc' = "observe" /\ pass' = pass
    BY <1>4, Performed DEF SendNotification, XInv
  <2>2. PICK ms : ms = <<Message("cease")>>
    OBVIOUS
  <2>3. Close(ms) /\ ms # <<>> /\ ms \in {<<>>, <<Message("cease")>>}
    BY <1>4, <2>2 DEF SendNotification
  <2> HIDE <2>2
  <2>a. Types' /\ Network' /\ Position' /\ InStep' /\ Asleep' /\ Sending'
    BY <1>1, <1>2, <1>3, <2>1, <2>3, Closed, UnreadIsNoState DEF XInv
  <2>b. Closing' /\ Reconnected' /\ Agreeing' /\ Ending' /\ Finishing' /\ Cleared'
    BY <1>1, <1>2, <1>3, <2>1, <2>3, Closed, UnreadIsNoState DEF XInv
  <2>c. Clean' /\ Online' /\ Down' /\ Noticed' /\ Progress' /\ Loss'
    BY <1>1, <1>2, <1>3, <2>1, <2>3, Closed, UnreadIsNoState DEF XInv
  <2> QED
    BY <2>a, <2>b, <2>c DEF XInv
<1>5. CASE SendNotificationRaises
  <2>1. pc' = "cleanup" /\ pass' = FALSE /\ UNCHANGED <<sock, net>>
    BY <1>5, Performed DEF SendNotificationRaises, XInv
  <2>2. ~link /\ pc = "event"
    BY <1>5 DEF SendNotificationRaises, Perform
  <2>a. Types' /\ Network' /\ Position' /\ InStep' /\ Asleep' /\ Sending'
    BY <1>1, <1>2, <1>3, <2>1, <2>2, UnreadIsNoState DEF XInv
  <2>b. Closing' /\ Reconnected' /\ Agreeing' /\ Ending' /\ Finishing' /\ Cleared'
    BY <1>1, <1>2, <1>3, <2>1, <2>2, UnreadIsNoState DEF XInv
  <2>c. Clean' /\ Online' /\ Down' /\ Noticed' /\ Progress' /\ Loss'
    BY <1>1, <1>2, <1>3, <2>1, <2>2, UnreadIsNoState DEF XInv
  <2> QED
    BY <2>a, <2>b, <2>c DEF XInv
<1> QED
  BY <1>4, <1>5

(* disconnect.                                                             *)
LEMMA CloseConnectionStep == ASSUME XInv, Generated, CloseConnection PROVE XInv'
<1>1. /\ pc = "event" /\ events' \in Nat /\ after' = Disconnected(state) /\ pc' = "observe"
      /\ seen' = NothingSeen /\ matched' = FALSE
      /\ UNCHANGED <<mode, state, index, timed, pass, breaks, daemon>>
  BY Performed DEF CloseConnection, XInv
<1>2. state.connected /\ AnyPresent(state)
  BY DEF CloseConnection, CanEnd
<1>3. /\ Sound(after') /\ ~after'.connected /\ after'.gr_enabled = state.gr_enabled
      /\ after'.routes = Disconnected(state).routes /\ after'.routes \in Routing
  BY <1>1, SoundSteps, SessionSteps, RouteSteps DEF XInv
<1>4. PICK ms : ms = <<>>
  OBVIOUS
<1>5. Close(ms) /\ ms = <<>> /\ ms \in {<<>>, <<Message("cease")>>}
  BY <1>4 DEF CloseConnection
<1> HIDE <1>4
<1>a. Types' /\ Network' /\ Position' /\ InStep' /\ Asleep' /\ Sending'
  BY <1>1, <1>2, <1>3, <1>5, Closed, UnreadIsNoState DEF XInv
<1>b. Closing' /\ Reconnected' /\ Agreeing' /\ Ending' /\ Finishing' /\ Cleared'
  BY <1>1, <1>2, <1>3, <1>5, Closed, UnreadIsNoState DEF XInv
<1>c. Clean' /\ Online' /\ Down' /\ Noticed' /\ Progress' /\ Loss'
  BY <1>1, <1>2, <1>3, <1>5, Closed, UnreadIsNoState DEF XInv
<1> QED
  BY <1>a, <1>b, <1>c DEF XInv

(* reconnect_f1 and reconnect_f0.                                          *)
LEMMA ReconnectStep ==
  ASSUME XInv, Generated, ReconnectKeeping \/ ReconnectClearing
  PROVE  XInv'
<1>1. /\ Sound(state) /\ NetTypes /\ DaemonTypes /\ Wired /\ events \in Nat
      /\ state.gr_enabled \in BOOLEAN /\ state.routes \in Routing
  BY SessionSteps DEF XInv
<1>2. ~state.connected
  BY DEF ReconnectKeeping, ReconnectClearing, CanReconnect, CanExpire
<1>3. PICK e \in GrState, forward \in BOOLEAN :
        /\ Reconnect(e, forward)
        /\ Sound(e) /\ e.connected /\ e.gr_enabled = state.gr_enabled /\ e.routes \in Routing
        /\ e.routes = IF forward THEN state.routes ELSE Cleaned(state.routes)
  <2>1. CASE ReconnectKeeping
    <3> DEFINE e == ReconnectedKeeping(state)
    <3>1. /\ Sound(e) /\ e.connected /\ e.gr_enabled = state.gr_enabled
          /\ e.routes = state.routes
      BY <1>1, SoundSteps, SessionSteps, RouteSteps
    <3>2. Reconnect(e, TRUE)
      BY <2>1 DEF ReconnectKeeping
    <3> HIDE DEF e
    <3> QED
      BY <1>1, <3>1, <3>2 DEF Sound
  <2>2. CASE ReconnectClearing
    <3> DEFINE e == ReconnectedClearing(state)
    <3>1. /\ Sound(e) /\ e.connected /\ e.gr_enabled = state.gr_enabled
          /\ e.routes = Cleaned(state.routes) /\ e.routes \in Routing
      BY <1>1, SoundSteps, SessionSteps, RouteSteps, SweptRoutes
    <3>2. Reconnect(e, FALSE)
      BY <2>2 DEF ReconnectClearing
    <3> HIDE DEF e
    <3> QED
      BY <1>1, <3>1, <3>2 DEF Sound
  <2> QED
    BY <2>1, <2>2
<1>4. CASE Perform(e, "observe") /\ Connect(state.gr_enabled, forward) /\ UNCHANGED pass
  <2>1. /\ pc = "event" /\ events' \in Nat /\ after' = e /\ pc' = "observe"
        /\ seen' = NothingSeen /\ matched' = FALSE
        /\ UNCHANGED <<mode, state, index, timed, pass>>
    BY <1>1, <1>4, Performed
  <2>2. /\ ~up /\ up' = TRUE /\ link' = TRUE /\ sock' = TRUE /\ inbox' = <<>>
        /\ dgr' = state.gr_enabled /\ NetTypes' /\ DaemonTypes' /\ Wired'
        /\ UNCHANGED <<breaks, diverged>>
        /\ left = {} => left' = {}
        /\ \A n : Own(inbox', n)
    BY <1>1, <1>4, Connected
  <2>3. table = state.routes => table' = e.routes
    BY <1>1, <1>2, <1>3, <1>4, Connected, NoSessionSwept
  <2>4. \A r \in Routes : NothingSeen[r] # e.routes[r]
    BY <1>3, UnreadIsNoState
  <2>5. Types'
    BY <1>1, <1>3, <2>1, <2>2, UnreadIsNoState DEF XInv
  <2>6. Network' /\ Position' /\ InStep' /\ Asleep' /\ Sending'
    BY <1>2, <1>3, <2>1, <2>2 DEF XInv
  <2>7. Closing' /\ Reconnected' /\ Agreeing' /\ Ending' /\ Finishing' /\ Cleared'
    BY <1>2, <1>3, <2>1, <2>2, <2>4 DEF XInv
  <2>8. Clean' /\ Online' /\ Down' /\ Noticed' /\ Progress' /\ Loss'
    BY <1>2, <1>3, <2>1, <2>2, <2>3 DEF XInv
  <2> QED
    BY <2>5, <2>6, <2>7, <2>8 DEF XInv
<1>5. CASE Perform(e, "cleanup") /\ ConnectRaises(state.gr_enabled, forward) /\ pass' = FALSE
  <2>1. /\ pc = "event" /\ events' \in Nat /\ after' = e /\ pc' = "cleanup"
        /\ seen' = NothingSeen /\ matched' = FALSE
        /\ UNCHANGED <<mode, state, index, timed>>
    BY <1>1, <1>5, Performed
  <2>2. Types'
    BY <1>2, <1>3, <1>5, <2>1, NotConnected, UnreadIsNoState DEF XInv
  <2> QED
    BY <1>2, <1>3, <1>5, <2>1, <2>2, NotConnected DEF XInv
<1> QED
  BY <1>3, <1>4, <1>5 DEF Reconnect

(* timer: to sleep ...                                                     *)
LEMMA SleepForTimerStep == ASSUME XInv, Generated, SleepForTimer PROVE XInv'
<1>1. /\ pc = "event" /\ events' \in Nat /\ after' = Swept(state) /\ pc' = "sleep"
      /\ seen' = NothingSeen /\ matched' = FALSE
      /\ UNCHANGED <<mode, state, index, timed, sock, pass, net, daemon>>
  BY Performed DEF SleepForTimer, XInv
<1>2. Sound(state) /\ ~state.connected
  BY DEF SleepForTimer, CanExpire, XInv
<1>3. Sound(after') /\ after'.gr_enabled = state.gr_enabled
  BY <1>1, <1>2, SoundSteps, SessionSteps
<1> QED
  BY <1>1, <1>2, <1>3, UnreadIsNoState DEF XInv

(* ... and to wake up: by then a conforming daemon has swept its routes.   *)
LEMMA WakeUpStep == ASSUME XInv, Generated, WakeUp PROVE XInv'
<1>1. pc = "sleep" => after.connected = state.connected /\ after.routes = Cleaned(state.routes)
  BY SessionSteps, RouteSteps DEF XInv
<1>2. Conforming /\ pc = "sleep" => table = after.routes
  <2>1. Conforming /\ pc = "sleep" => Cleaned(table) = table
    BY SweptRoutes DEF WakeUp, TimePassed, Settled, Sleeping, XInv
  <2>2. state.routes \in Routing
    BY SessionSteps DEF XInv
  <2> QED
    BY <1>1, <2>1, <2>2, SweptRoutes DEF XInv
<1>3. \A r \in Routes : NothingSeen[r] # after.routes[r]
  <2>1. Sound(after)
    BY DEF XInv
  <2> QED
    <3>1. after.routes \in Routing
      BY <2>1, SessionSteps
    <3> QED
      BY <3>1, UnreadIsNoState
<1> QED
  BY <1>1, <1>2, <1>3 DEF WakeUp, XInv

(* The last event is over.                                                 *)
LEMMA EndOfTraceStep == ASSUME XInv, Generated, EndOfTrace PROVE XInv'
BY DEF EndOfTrace, XInv

(* A query of the RIB.                                                     *)
LEMMA ReadPrefixStep ==
  ASSUME XInv, Generated, NEW r \in Routes, ReadPrefix(r)
  PROVE  XInv'
<1>1. /\ seen \in [Routes -> RouteState \cup {Unread}] /\ table \in Routing
      /\ seen' = [seen EXCEPT ![r] = table[r]]
      /\ UNCHANGED <<runner, matched, net, daemon>>
      /\ pc \in {"observe", "final"}
  BY DEF XInv, ReadPrefix, Observing
<1>2. /\ seen' \in [Routes -> RouteState \cup {Unread}]
      /\ \A q \in Routes : seen'[q] = seen[q] \/ seen'[q] = table[q]
  BY <1>1 DEF Routing
<1> QED
  BY <1>1, <1>2 DEF XInv

(* The next poll.                                                          *)
LEMMA PollAgainStep == ASSUME XInv, Generated, PollAgain PROVE XInv'
<1>1. Sound(after)
  BY DEF XInv
<1>2. after.routes \in Routing
  BY <1>1, SessionSteps
<1>3. matched' \in BOOLEAN /\ pc \in {"observe", "final"}
  BY DEF PollAgain, Observing
<1> QED
  BY <1>2, <1>3, UnreadIsNoState DEF XInv, PollAgain

(* When the runner goes on, the daemon holds what was expected of it.      *)
LEMMA Observed ==
  ASSUME XInv, Watching, ObserveOk, up \/ Undisturbed
  PROVE  table = after.routes
<1>1. Sound(after) /\ table \in Routing /\ pc = "observe"
  BY DEF XInv, ObserveOk
<1>2. after.routes \in Routing
  BY <1>1, SessionSteps
<1>3. CASE ~COVERAGE
  <2>1. seen = after.routes
    BY <1>1, <1>3 DEF ObserveOk, Stable, Wanted
  <2>2. \A r \in Routes : table[r] = after.routes[r]
    BY <1>1, <1>3, <2>1 DEF XInv
  <2> QED
    BY <1>1, <1>2, <2>2 DEF Routing
<1>4. CASE COVERAGE
  BY <1>1, <1>4 DEF XInv, ObserveOk, TimePassed, Settled
<1> QED
  BY <1>3, <1>4

(* The observation agrees.                                                 *)
LEMMA ObserveOkStep == ASSUME XInv, Generated, ObserveOk PROVE XInv'
<1>1. /\ pc = "observe" /\ pc' = "event" /\ state' = after
      /\ UNCHANGED <<mode, after, sock, pass, index, events, timed, poll, net, daemon>>
  BY DEF ObserveOk
<1>2. Watching /\ (up \/ Undisturbed) => table = after.routes
  BY Observed
<1>3. Watching /\ up => after.connected /\ AllPlain(inbox) /\ NoMove(inbox, table)
  <2> SUFFICES ASSUME Watching, up
               PROVE  after.connected /\ AllPlain(inbox) /\ NoMove(inbox, table)
    OBVIOUS
  <2>1. table = after.routes
    BY <1>2
  <2>2. CASE state.connected /\ after.connected
    BY <1>1, <2>1, <2>2, LastMove DEF XInv
  <2>3. CASE state.connected /\ ~after.connected
    <3>1. /\ Sound(state) /\ AnyPresent(state) /\ table = state.routes
          /\ after.routes \in {NoRoutes, Disconnected(state).routes}
      BY <1>1, <2>3 DEF XInv
    <3>2. Disconnected(state).routes = Lost(state.gr_enabled, state.routes)
      BY <2>3, <3>1, RouteSteps
    <3> QED
      BY <2>1, <3>1, <3>2, LossIsVisible
  <2>4. CASE ~state.connected
    BY <1>1, <2>4, EmptyQueue DEF XInv
  <2> QED
    BY <2>2, <2>3, <2>4
<1>4. COVERAGE /\ PATIENT /\ ~after.connected => ~up
  BY <1>1, EmptyQueue DEF XInv, ObserveOk, TimePassed, Settled
<1>5. Sound(after)
  BY DEF XInv
<1> QED
  BY <1>1, <1>2, <1>3, <1>4, <1>5 DEF XInv

(* The observation fails, which a conforming daemon in time does not let   *)
(* happen.                                                                 *)
LEMMA ObserveRaisesStep == ASSUME XInv, Generated, ObserveRaises PROVE XInv'
<1>1. pc = "observe" /\ (PATIENT => Settled /\ table # after.routes)
  BY DEF ObserveRaises, ObservationRaises, Wanted
<1>2. ~Conforming
  BY <1>1 DEF XInv, Settled
<1>a. Types' /\ Network' /\ Position' /\ InStep' /\ Asleep' /\ Sending'
  BY <1>1, <1>2 DEF XInv, ObserveRaises
<1>b. Closing' /\ Reconnected' /\ Agreeing' /\ Ending' /\ Finishing' /\ Cleared'
  BY <1>1, <1>2 DEF XInv, ObserveRaises
<1>c. Clean' /\ Online' /\ Down' /\ Noticed' /\ Progress' /\ Loss'
  BY <1>1, <1>2 DEF XInv, ObserveRaises
<1> QED
  BY <1>a, <1>b, <1>c DEF XInv

(* The clean-up is observed.                                               *)
LEMMA FinalOkStep == ASSUME XInv, Generated, FinalOk PROVE XInv'
<1>1. Watching /\ ~COVERAGE => table = NoRoutes
  <2> SUFFICES ASSUME Watching, ~COVERAGE
               PROVE  table = NoRoutes
    OBVIOUS
  <2>1. pc = "final" /\ seen = NoRoutes /\ table \in Routing
    BY DEF XInv, FinalOk, Stable, Wanted
  <2>2. \A r \in Routes : table[r] = ABSENT
    BY <2>1, NothingToLose DEF XInv
  <2> QED
    BY <2>1, <2>2, SweptRoutes
<1> QED
  BY <1>1 DEF XInv, FinalOk

(* The clean-up is not observed.                                           *)
LEMMA FinalRaisesStep == ASSUME XInv, Generated, FinalRaises PROVE XInv'
<1>1. pc = "final" /\ (PATIENT => Settled /\ table # NoRoutes)
  BY DEF FinalRaises, ObservationRaises, Wanted
<1>2. ~Conforming
  BY <1>1, EndsInSomething DEF XInv, Settled
<1>a. Types' /\ Network' /\ Position' /\ InStep' /\ Asleep' /\ Sending'
  BY <1>1, <1>2 DEF XInv, FinalRaises
<1>b. Closing' /\ Reconnected' /\ Agreeing' /\ Ending' /\ Finishing' /\ Cleared'
  BY <1>1, <1>2 DEF XInv, FinalRaises
<1>c. Clean' /\ Online' /\ Down' /\ Noticed' /\ Progress' /\ Loss'
  BY <1>1, <1>2 DEF XInv, FinalRaises
<1> QED
  BY <1>a, <1>b, <1>c DEF XInv

(* The clean-up connects to clear what is retained.                        *)
LEMMA CleanupConnectStep == ASSUME XInv, Generated, CleanupConnect PROVE XInv'
<1>1. /\ Sound(state) /\ NetTypes /\ DaemonTypes /\ Wired /\ state.gr_enabled \in BOOLEAN
      /\ pc = "cleanup" /\ ~sock
      /\ UNCHANGED <<mode, state, after, index, events, timed, poll>>
  BY SessionSteps DEF XInv, CleanupConnect
<1>2. CASE pc' = "cease" /\ Connect(state.gr_enabled, FALSE) /\ UNCHANGED pass
  <2>a. Types' /\ Network' /\ Position' /\ InStep' /\ Asleep' /\ Sending'
    BY <1>1, <1>2, Connected DEF XInv
  <2>b. Closing' /\ Reconnected' /\ Agreeing' /\ Ending' /\ Finishing' /\ Cleared'
    BY <1>1, <1>2, Connected DEF XInv
  <2>c. Clean' /\ Online' /\ Down' /\ Noticed' /\ Progress' /\ Loss'
    BY <1>1, <1>2, Connected DEF XInv
  <2> QED
    BY <2>a, <2>b, <2>c DEF XInv
<1>3. CASE /\ pc' = "close" /\ ConnectRaises(state.gr_enabled, FALSE) /\ pass' = FALSE
  BY <1>1, <1>3, NotConnected DEF XInv
<1> QED
  BY <1>2, <1>3 DEF CleanupConnect

(* The clean-up uses the session it has, or finds nothing to clear.        *)
LEMMA CleanupNoConnectStep == ASSUME XInv, Generated, CleanupNoConnect PROVE XInv'
<1>1. ~Retained => state.routes = NoRoutes
  <2>1. Sound(state)
    BY DEF XInv
  <2>2. state.routes \in Routing
    BY <2>1, SessionSteps
  <2> QED
    BY <2>2, SweptRoutes DEF Retained, present
<1>a. Types' /\ Network' /\ Position' /\ InStep' /\ Asleep' /\ Sending'
  BY <1>1, EmptyQueue, UnreadIsNoState DEF XInv, CleanupNoConnect
<1>b. Closing' /\ Reconnected' /\ Agreeing' /\ Ending' /\ Finishing' /\ Cleared'
  BY <1>1, EmptyQueue, UnreadIsNoState DEF XInv, CleanupNoConnect
<1>c. Clean' /\ Online' /\ Down' /\ Noticed' /\ Progress' /\ Loss'
  BY <1>1, EmptyQueue, UnreadIsNoState DEF XInv, CleanupNoConnect
<1> QED
  BY <1>a, <1>b, <1>c DEF XInv

(* The CEASE of the clean-up.                                              *)
LEMMA SendCeaseStep == ASSUME XInv, Generated, SendCease \/ SendCeaseRaises PROVE XInv'
<1>1. CASE SendCease
  <2>1. PICK m : m = Message("cease")
    OBVIOUS
  <2>2. m \in Msg /\ ~Plain(m) /\ m.kind = "cease"
    BY <2>1, MessageTypes DEF Message
  <2>3. Deliver(<<m>>)
    BY <1>1, <2>1 DEF SendCease
  <2> HIDE <2>1
  <2>4. NetTypes
    BY DEF XInv
  <2>a. Types' /\ Network' /\ Position' /\ InStep' /\ Asleep' /\ Sending'
    BY <1>1, <2>2, <2>3, <2>4, Delivered, UnreadIsNoState DEF XInv, SendCease
  <2>b. Closing' /\ Reconnected' /\ Agreeing' /\ Ending' /\ Finishing' /\ Cleared'
    BY <1>1, <2>2, <2>3, <2>4, Delivered, UnreadIsNoState DEF XInv, SendCease
  <2>c. Clean' /\ Online' /\ Down' /\ Noticed' /\ Progress' /\ Loss'
    BY <1>1, <2>2, <2>3, <2>4, Delivered, UnreadIsNoState DEF XInv, SendCease
  <2> QED
    BY <2>a, <2>b, <2>c DEF XInv
<1>2. CASE SendCeaseRaises
  <2>a. Types' /\ Network' /\ Position' /\ InStep' /\ Asleep' /\ Sending'
    BY <1>2 DEF XInv, SendCeaseRaises
  <2>b. Closing' /\ Reconnected' /\ Agreeing' /\ Ending' /\ Finishing' /\ Cleared'
    BY <1>2 DEF XInv, SendCeaseRaises
  <2>c. Clean' /\ Online' /\ Down' /\ Noticed' /\ Progress' /\ Loss'
    BY <1>2 DEF XInv, SendCeaseRaises
  <2> QED
    BY <2>a, <2>b, <2>c DEF XInv
<1> QED
  BY <1>1, <1>2

(* The socket is closed.                                                   *)
LEMMA CloseTraceStep == ASSUME XInv, Generated, CloseTrace PROVE XInv'
<1>1. CASE sock
  <2>1. PICK ms : ms = <<>>
    OBVIOUS
  <2>2. Close(ms) /\ ms \in {<<>>, <<Message("cease")>>}
    BY <1>1, <2>1 DEF CloseTrace
  <2>3. NetTypes /\ Wired
    BY DEF XInv
  <2> HIDE <2>1
  <2>a. Types' /\ Network' /\ Position' /\ InStep' /\ Asleep' /\ Sending'
    BY <1>1, <2>2, <2>3, Closed DEF XInv, CloseTrace
  <2>b. Closing' /\ Reconnected' /\ Agreeing' /\ Ending' /\ Finishing' /\ Cleared'
    BY <1>1, <2>2, <2>3, Closed DEF XInv, CloseTrace
  <2>c. Clean' /\ Online' /\ Down' /\ Noticed' /\ Progress' /\ Loss'
    BY <1>1, <2>2, <2>3, Closed DEF XInv, CloseTrace
  <2> QED
    BY <2>a, <2>b, <2>c DEF XInv
<1>2. CASE ~sock
  BY <1>2 DEF XInv, CloseTrace
<1> QED
  BY <1>1, <1>2

(* The pause before the next trace.                                        *)
LEMMA RestStep == ASSUME XInv, Generated, Rest PROVE XInv'
<1>1. Conforming => ~up /\ table = NoRoutes
  BY EndsInSomething DEF XInv, Rest, TimePassed, Settled
<1> QED
  BY <1>1 DEF XInv, Rest

(* The daemon handles a message that does not end the session: it does     *)
(* with its routes what the message says, or, if it is faulty, nothing.    *)
LEMMA PlainStep ==
  ASSUME XInv, Generated, up, inbox # <<>>, Plain(Head(inbox)), inbox' = Tail(inbox),
         UNCHANGED <<runner, poll, link, breaks, up, dgr>>, DaemonTypes',
         Watched => \/ table' = Moves(Head(inbox), table)
                    \/ table' = table /\ FAULTS # {},
         Watched => (left = {} => left' = {}),
         diverged' => diverged \/ (Moves(Head(inbox), table) # table /\ table' = table)
  PROVE  XInv'
<1> DEFINE m == Head(inbox)
<1>1. inbox \in Seq(Msg)
  BY DEF XInv
<1>2. /\ inbox' \in Seq(Msg)
      /\ AllPlain(inbox) <=> AllPlain(inbox')
      /\ Unclosed(inbox) => Unclosed(inbox')
      /\ \A n : Own(inbox, n) => Own(inbox', n)
      /\ \A t : NoMove(inbox, t) => NoMove(inbox', t) /\ Moves(m, t) = t
      /\ \A t, u : OneMove(inbox, t, u) => OneMove(inbox', t, u) /\ Moves(m, u) = u
      /\ \A t, u : OneMove(inbox, t, u) =>
           Moves(m, t) \in IF inbox' = <<>> THEN {t, u} ELSE {t}
      /\ inbox' # <<>> => inbox'[Len(inbox')] = inbox[Len(inbox)]
      /\ inbox' = <<>> => m = inbox[Len(inbox)]
  BY <1>1, TailKeeps
<1>3. \A k \in {"cease", "close"} : EndsIn(inbox, k) => EndsIn(inbox', k) /\ inbox' # <<>>
  BY <1>1, <1>2, TailKeeps, EndsInSomething DEF Plain
<1> HIDE DEF m
<1>a. Types' /\ Network' /\ Position' /\ InStep' /\ Asleep' /\ Sending'
  BY <1>2, <1>3 DEF XInv, m
<1>b. Closing' /\ Reconnected' /\ Agreeing'
  BY <1>2, <1>3 DEF XInv, m
<1>e. Ending' /\ Finishing' /\ Cleared'
  BY <1>2, <1>3 DEF XInv, m
<1>c. Clean' /\ Online' /\ Down' /\ Noticed' /\ Loss'
  BY <1>2, <1>3 DEF XInv, m
<1>d. Progress'
  BY <1>2, <1>3 DEF XInv, m
<1> QED
  BY <1>a, <1>b, <1>c, <1>d, <1>e DEF XInv

(* The daemon handles an UPDATE.                                           *)
LEMMA HandleUpdateStep == ASSUME XInv, Generated, HandleUpdate PROVE XInv'
<1>1. /\ up /\ inbox # <<>> /\ Head(inbox).kind = "update" /\ inbox' = Tail(inbox)
      /\ UNCHANGED <<runner, poll, link, breaks, up, dgr, diverged>>
      /\ DaemonTypes /\ inbox \in Seq(Msg)
  BY DEF XInv, HandleUpdate
<1>2. Head(inbox) \in Msg /\ Plain(Head(inbox))
  BY <1>1, TailKeeps DEF Plain
<1>3. Watched => Head(inbox).trace = index
  BY <1>1, TailKeeps DEF XInv
<1>4. Head(inbox).trace = index => table' = Moves(Head(inbox), table) /\ left' = left
  BY <1>1 DEF HandleUpdate, Moves
<1>5. Head(inbox).trace # index => table' = table /\ left' = left \cup {ACTIVE}
  BY DEF HandleUpdate
<1>6. DaemonTypes'
  <2>1. table' \in Routing
    BY <1>1, <1>2, <1>4, <1>5, MovesType
  <2>2. ACTIVE \in RouteState \ {ABSENT}
    BY DEF RouteState, ABSENT, ACTIVE
  <2> QED
    BY <1>1, <1>4, <1>5, <2>1, <2>2
<1> QED
  BY <1>1, <1>2, <1>3, <1>4, <1>6, PlainStep

(* The daemon handles an End-of-RIB.                                       *)
LEMMA HandleEorStep == ASSUME XInv, Generated, HandleEor PROVE XInv'
<1>1. /\ up /\ inbox # <<>> /\ Head(inbox).kind = "eor" /\ inbox' = Tail(inbox)
      /\ UNCHANGED <<runner, poll, link, breaks, up, dgr>>
      /\ DaemonTypes
  BY DEF XInv, HandleEor
<1>2. Plain(Head(inbox)) /\ Moves(Head(inbox), table) = Cleaned(table)
  BY <1>1 DEF Plain, Moves
<1>3. CASE Affect(Drop, Drop)
  <2>1. DaemonTypes' /\ table' = Cleaned(table) /\ UNCHANGED diverged /\ (left = {} => left' = {})
    BY <1>1, <1>3, Effects
  <2> QED
    BY <1>1, <1>2, <2>1, PlainStep
<1>4. CASE Affect(Same, Drop) /\ FAULTS # {}
  <2>1. /\ DaemonTypes' /\ UNCHANGED <<table, left>>
        /\ diverged' => diverged \/ Cleaned(table) # table
    BY <1>1, <1>4, Effects
  <2> QED
    BY <1>1, <1>2, <1>4, <2>1, PlainStep
<1> QED
  BY <1>3, <1>4 DEF HandleEor

(* A message that ends the session is one that the runner sent to end it.  *)
LEMMA SessionEnds ==
  ASSUME XInv, Watching, up, inbox # <<>>, ~Plain(Head(inbox))
  PROVE  /\ pc \in {"observe", "final", "close", "rest", "idle", "open", "done"}
         /\ pc = "observe" =>
              /\ state.connected /\ ~after.connected /\ table = state.routes
              /\ Head(inbox).kind = "cease" => after.routes = NoRoutes
              /\ Head(inbox).kind = "close" => after.routes = Disconnected(state).routes
         /\ pc # "observe" => Head(inbox).kind = "cease"
<1>1. inbox \in Seq(Msg)
  BY DEF XInv
<1>2. ~AllPlain(inbox) /\ \A k : EndsIn(inbox, k) => Head(inbox).kind = k
  BY <1>1, TailKeeps
<1> QED
  BY <1>2 DEF XInv

(* The daemon handles a CEASE.                                             *)
LEMMA HandleCeaseStep == ASSUME XInv, Generated, HandleCease PROVE XInv'
<1>1. /\ up /\ inbox # <<>> /\ Head(inbox).kind = "cease" /\ ~Plain(Head(inbox))
      /\ up' = FALSE /\ link' = FALSE /\ inbox' = <<>>
      /\ UNCHANGED <<runner, poll, breaks, dgr>>
      /\ DaemonTypes /\ NetTypes
  BY DEF XInv, HandleCease, Plain
<1>2. table' = NoRoutes /\ left' = {} /\ UNCHANGED diverged
  BY <1>1, Effects DEF HandleCease
<1>3. NetTypes' /\ DaemonTypes'
  <2>1. inbox' \in Seq(Msg)
    BY <1>1
  <2> QED
    BY <1>1, <1>2, <2>1, NothingToLose
<1>4. /\ \A t : NoMove(inbox', t)
      /\ \A n : Own(inbox', n)
  BY <1>1, EmptyQueue
<1>5. Watching => /\ pc \in {"observe", "final", "close", "rest", "idle", "open", "done"}
                  /\ pc = "observe" => ~after.connected /\ after.routes = table'
  BY <1>1, <1>2, SessionEnds
<1> QED
  BY <1>1, <1>2, <1>3, <1>4, <1>5, NothingToLose DEF XInv

(* The daemon notices that the connection is closed.                       *)
LEMMA HandleCloseStep == ASSUME XInv, Generated, HandleClose PROVE XInv'
<1>1. /\ up /\ inbox # <<>> /\ Head(inbox).kind = "close" /\ ~Plain(Head(inbox))
      /\ up' = FALSE /\ inbox' = <<>>
      /\ UNCHANGED <<runner, poll, link, breaks, dgr>>
      /\ DaemonTypes /\ NetTypes /\ LoseRoutes
  BY DEF XInv, HandleClose, Plain
<1>2. /\ \A t : NoMove(inbox', t)
      /\ \A n : Own(inbox', n)
  BY <1>1, EmptyQueue
<1>3. Watching => /\ pc = "observe" /\ state.connected /\ ~after.connected
                  /\ table = state.routes /\ after.routes = Lost(dgr, table)
  <2> SUFFICES ASSUME Watching
               PROVE  /\ pc = "observe" /\ state.connected /\ ~after.connected
                      /\ table = state.routes /\ after.routes = Lost(dgr, table)
    OBVIOUS
  <2>1. /\ pc = "observe" /\ state.connected /\ ~after.connected
        /\ table = state.routes /\ after.routes = Disconnected(state).routes
    BY <1>1, SessionEnds
  <2>2. Sound(state) /\ dgr = state.gr_enabled
    BY <2>1 DEF XInv
  <2> QED
    BY <2>1, <2>2, RouteSteps
<1>4. /\ DaemonTypes'
      /\ left = {} => left' = {}
      /\ \A r \in Routes : table[r] = Lost(dgr, table)[r] => table'[r] = table[r]
      /\ FAULTS = {} => table' = Lost(dgr, table)
      /\ diverged' => diverged \/ table' # Lost(dgr, table)
  BY <1>1, LosesRoutes
<1>5. ~link
  BY <1>1, TailKeeps DEF XInv
<1>6. inbox' \in Seq(Msg)
  BY <1>1
<1>7. Types'
  BY <1>1, <1>4, <1>6 DEF XInv
<1>a. Network' /\ Position' /\ InStep' /\ Asleep' /\ Sending'
  BY <1>1, <1>2, <1>3, <1>4, <1>5, <1>6 DEF XInv
<1>b. Closing' /\ Reconnected' /\ Agreeing' /\ Ending' /\ Finishing' /\ Cleared'
  BY <1>1, <1>2, <1>3, <1>4, <1>5, <1>6 DEF XInv
<1>c. Clean' /\ Online' /\ Down' /\ Noticed' /\ Progress' /\ Loss'
  BY <1>1, <1>2, <1>3, <1>4, <1>5, <1>6 DEF XInv
<1> QED
  BY <1>7, <1>a, <1>b, <1>c DEF XInv

(* The restart time passes.                                                *)
LEMMA RestartTimerStep == ASSUME XInv, Generated, RestartTimer PROVE XInv'
<1>1. /\ ~up /\ timed /\ (PATIENT => pc = "sleep")
      /\ UNCHANGED <<runner, poll, net, up, dgr>>
      /\ DaemonTypes /\ Sound(state)
  BY DEF XInv, RestartTimer, Sleeping
<1>2. DaemonTypes' /\ table' = Cleaned(table) /\ UNCHANGED diverged /\ (left = {} => left' = {})
  BY <1>1, Effects DEF RestartTimer
<1>3. /\ table = NoRoutes => table' = NoRoutes
      /\ \A r \in Routes : table[r] = ABSENT => table'[r] = ABSENT
  BY <1>1, <1>2, SweptRoutes, NothingToLose
<1>4. inbox = <<>> /\ \A t : NoMove(inbox, t)
  <2>1. inbox = <<>>
    BY <1>1 DEF XInv
  <2> QED
    BY <2>1, EmptyQueue
<1>5. Generated /\ Conforming /\ pc = "sleep" => table' = after.routes
  <2>1. state.routes \in Routing /\ Swept(state).routes = Cleaned(state.routes)
    BY <1>1, SessionSteps, RouteSteps
  <2>2. Cleaned(Cleaned(state.routes)) = Cleaned(state.routes)
    BY <2>1, SweptRoutes
  <2> QED
    BY <1>2, <2>1, <2>2 DEF XInv
<1> QED
  BY <1>1, <1>2, <1>3, <1>4, <1>5 DEF XInv

(* A connection breaks.                                                    *)
LEMMA BreakStep == ASSUME XInv, Generated, Break PROVE XInv'
<1>1. /\ link /\ link' = FALSE /\ inbox' = <<>> /\ up' = FALSE
      /\ UNCHANGED <<runner, poll, dgr>>
      /\ DaemonTypes /\ NetTypes /\ LoseRoutes
  BY DEF XInv, Break
<1>2. breaks' \in Nat /\ breaks' # 0
  BY <1>1 DEF Break
<1>3. /\ \A t : NoMove(inbox', t)
      /\ \A n : Own(inbox', n)
  BY <1>1, EmptyQueue
<1>4. /\ DaemonTypes'
      /\ left = {} => left' = {}
      /\ table = NoRoutes => table' = NoRoutes
      /\ \A r \in Routes : table[r] = ABSENT => table'[r] = ABSENT
  BY <1>1, LosesRoutes
<1>5. inbox' \in Seq(Msg)
  BY <1>1
<1>6. Types'
  BY <1>1, <1>2, <1>4, <1>5 DEF XInv
<1>a. Network' /\ Position' /\ InStep' /\ Asleep' /\ Sending'
  BY <1>1, <1>2, <1>3, <1>4, <1>5 DEF XInv
<1>b. Closing' /\ Reconnected' /\ Agreeing' /\ Ending' /\ Finishing' /\ Cleared'
  BY <1>1, <1>2, <1>3, <1>4, <1>5 DEF XInv
<1>c. Clean' /\ Online' /\ Down' /\ Noticed' /\ Progress' /\ Loss'
  BY <1>1, <1>2, <1>3, <1>4, <1>5 DEF XInv
<1> QED
  BY <1>6, <1>a, <1>b, <1>c DEF XInv

(* The directed suite has no steps of the generated one but the daemon's.  *)
LEMMA DirectedStep ==
  ASSUME XInv, mode.directed, SNext
  PROVE  XInv'
<1>1. mode \in Modes /\ pc \in DirectedPc
  BY DEF XInv
<1>2. CASE Scenario
  <2>1. mode' = mode
    BY <1>2 DEF Scenario, BeginScenario, Operation, Return, Finally, Settle, FinishScenarios,
            ConnectScenario, SendOp, SendOpOk, SendOpRaises, Pause, EndSession, SleepExpire,
            AwakeExpired, ReconnectScenario, CeaseOp, CeaseOpRaises, CheckHit, CheckMiss,
            CheckSkipped, CheckRaises, Judge, Advance, ErrorOut, OwnPrefixes
  <2>2. pc' \in DirectedPc
    BY <1>1, <1>2
       DEF Scenario, BeginScenario, Operation, Return, Finally, Settle, FinishScenarios,
           ConnectScenario, SendOp, SendOpOk, SendOpRaises, Pause, EndSession, SleepExpire,
           AwakeExpired, ReconnectScenario, CeaseOp, CeaseOpRaises, CheckHit, CheckMiss,
           CheckSkipped, CheckRaises, Judge, Advance, ErrorOut
  <2> QED
    BY <1>1, <2>1, <2>2 DEF XInv
<1>3. CASE ENext
  <2>1. ~Suite
    BY <1>1 DEF Suite, BeginTrace, OpenOk, OpenRaises, Finish
  <2>2. ~Event
    BY <1>1 DEF Event, SendUpdate, SendEor, MonitorOk, MonitorRaises, SendNotification,
           SendNotificationRaises, CloseConnection, ReconnectKeeping, ReconnectClearing,
           Reconnect, SleepForTimer, WakeUp, EndOfTrace, Perform
  <2>3. ~Observe
    BY <1>1 DEF Observe, ReadPrefix, PollAgain, ObserveOk, ObserveRaises, FinalOk, FinalRaises,
           Observing
  <2>4. ~Cleanup
    BY <1>1 DEF Cleanup, CleanupConnect, CleanupNoConnect, SendCease, SendCeaseRaises,
           CloseTrace, Rest
  <2>5. Daemon \/ Break => UNCHANGED runner
    BY DEF Daemon, HandleUpdate, HandleEor, HandleCease, HandleClose, RestartTimer, Break
  <2>6. UNCHANGED <<mode, pc>>
    BY <1>3, <2>1, <2>2, <2>3, <2>4, <2>5 DEF ENext, Done
  <2> QED
    BY <1>1, <2>6 DEF XInv
<1> QED
  BY <1>2, <1>3 DEF SNext

(* The generated suite.                                                    *)
LEMMA GeneratedStep ==
  ASSUME XInv, Generated, SNext
  PROVE  XInv'
<1>1. CASE Suite
  BY <1>1, BeginTraceStep, OpenStep, FinishStep DEF Suite
<1>2. CASE Event
  BY <1>2, SendUpdateStep, SendEorStep, MonitorStep, SendNotificationStep, CloseConnectionStep,
     ReconnectStep, SleepForTimerStep, WakeUpStep, EndOfTraceStep DEF Event
<1>3. CASE Observe
  BY <1>3, ReadPrefixStep, PollAgainStep, ObserveOkStep, ObserveRaisesStep, FinalOkStep,
     FinalRaisesStep DEF Observe
<1>4. CASE Cleanup
  BY <1>4, CleanupConnectStep, CleanupNoConnectStep, SendCeaseStep, CloseTraceStep, RestStep
     DEF Cleanup
<1>5. CASE Daemon \/ Break
  BY <1>5, HandleUpdateStep, HandleEorStep, HandleCeaseStep, HandleCloseStep,
     RestartTimerStep, BreakStep DEF Daemon
<1>6. CASE Done
  BY <1>6, Stutter DEF Done
<1> QED
  BY <1>1, <1>2, <1>3, <1>4, <1>5, <1>6 DEF SNext, ENext, Scenario

(* The invariant holds at the start.                                       *)
LEMMA InitialState == SInit => XInv
<1> SUFFICES ASSUME SInit
             PROVE  XInv
  OBVIOUS
<1>1. /\ mode \in Modes
      /\ state = initial(FALSE) /\ after = initial(FALSE)
      /\ pc = "idle" /\ sock = FALSE /\ pass = TRUE
      /\ index = 0 /\ events = 0 /\ timed = FALSE
      /\ seen = NothingSeen /\ matched = FALSE
      /\ link = FALSE /\ inbox = <<>> /\ breaks = 0
      /\ up = FALSE /\ dgr = FALSE /\ table = NoRoutes /\ left = {} /\ diverged = FALSE
  BY DEF SInit, EInit
<1>2. Sound(state) /\ Sound(after)
  BY <1>1 DEF Sound, initial, GrState, RouteState, ABSENT, ACTIVE, STALE
<1>3. /\ \A t : NoMove(inbox, t)
      /\ \A n : Own(inbox, n)
  BY <1>1, EmptyQueue
<1>4. NetTypes /\ DaemonTypes /\ Wired
  <2>1. inbox \in Seq(Msg)
    BY <1>1
  <2> QED
    BY <1>1, <2>1, NothingToLose
<1> QED
  BY <1>1, <1>2, <1>3, <1>4, UnreadIsNoState DEF XInv

(***************************************************************************)
(* Theorems about the generated suite                                      *)
(***************************************************************************)

(* The invariant holds of every run of the suites.                         *)
THEOREM Invariant == SSpec => []XInv
<1>1. XInv /\ [SNext]_allvars => XInv'
  BY Stutter, DirectedStep, GeneratedStep DEF allvars
<1> QED
  BY InitialState, <1>1, PTL DEF SSpec

(* No routes are left between traces (gr_stateful.py:302): whatever failed *)
(* in the traces before and however slow or faulty the daemon, when the    *)
(* session of a generated trace is established it holds no route of them.  *)
THEOREM TracesStartClean == SSpec => []CleanStart
<1>1. XInv => CleanStart
  BY DEF XInv, CleanStart
<1> QED
  BY <1>1, Invariant, PTL

(* A reconnect does not race the daemon's detection of the loss: the       *)
(* runner has observed a RIB that only the loss explains.                  *)
THEOREM ReconnectsFindNoSession == SSpec => []NoSessionCollision
<1>1. XInv => NoSessionCollision
  BY DEF XInv, NoSessionCollision, Reconnecting
<1> QED
  BY <1>1, Invariant, PTL

(* Between events the daemon agrees with the reference state.              *)
THEOREM ModelsAgree == SSpec => []Agreement
<1>1. XInv => Agreement
  BY DEF XInv, Agreement
<1> QED
  BY <1>1, Invariant, PTL

(***************************************************************************)
(* The directed scenarios                                                  *)
(*                                                                         *)
(* Each script is a list of operations that depends on the scenario, so    *)
(* the proof first says where in it each operation is.  The invariant then *)
(* goes by places: a scenario that goes on (it has not failed, and no      *)
(* connection broke) is in its first session, or behind that session's     *)
(* end, or in the session after a restart, and for each it says what is    *)
(* under way, what the daemon holds and what the reference state holds.    *)
(***************************************************************************)
HIDE DEF Types, Network, Generated, Position, Conforming, Watched, Undisturbed, Watching,
         InStep, Asleep, Sending, Closing, Reconnected, Agreeing, Ending, Finishing, Cleared,
         NetTypes, DaemonTypes, Wired, Clean, Online, Down, Noticed, Progress, Loss,
         evars, runner, poll, net, daemon, COVERAGE, PATIENT, FAULTS, MaxBreaks,
         GeneratedPc, DirectedPc

(***************************************************************************)
(* The places of a script                                                  *)
(***************************************************************************)
(* What becomes of the session: the runner comes back, it waits until the  *)
(* restart time is over, or it ends the session with a NOTIFICATION.       *)
Returning == name \in {"stale-then-eor", "refresh-one-then-eor", "forwarding-bit-cleared"}
Expiring == name = "restart-time-expired"
Notifying == name = "notification-clears-route"

(* Where the first pause, the loss of the session, what follows its check, *)
(* the End-of-RIB and the farewell are, and how long the script is.        *)
PauseAt == IF second_route THEN 4 ELSE 3
LossAt == IF second_route THEN 7 ELSE 5
RestartAt == IF second_route THEN 10 ELSE 8
ResendAt == IF second_route THEN 13 ELSE 11
EorAt == IF second_route THEN 14 ELSE 11
CeaseAt == IF second_route THEN 18 ELSE 14
Length == IF Returning THEN CeaseAt ELSE IF Expiring THEN 9 ELSE 7

(* The route that the last check is about: End-of-RIB takes it.            *)
LastRoute == IF second_route THEN Route2 ELSE Route1

(* The message of the operation at this place was sent.                    *)
Sent(k) == at > k \/ (at = k /\ pc = "sending")

(* What is under way: a message of kind k, an UPDATE for r, no end without *)
(* a CEASE before it, at most one End-of-RIB.                              *)
Has(q, k) == \E i \in 1 .. Len(q) : q[i].kind = k
HasUpdate(q, r) == \E i \in 1 .. Len(q) : q[i].kind = "update" /\ q[i].route = r
CeaseFirst(q) ==
  \A i \in 1 .. Len(q) : q[i].kind = "close" => \E j \in 1 .. i - 1 : q[j].kind = "cease"
OneEor(q) == \A i, j \in 1 .. Len(q) : q[i].kind = "eor" /\ q[j].kind = "eor" => i = j

(* No route of t is in state s.                                            *)
NoneIn(t, s) == \A r \in Routes : t[r] # s

(***************************************************************************)
(* The invariant                                                           *)
(***************************************************************************)

(* Nothing went wrong in this scenario yet, and no connection broke.       *)
Going == pass /\ breaks = 0 /\ index # 0

(* Types, where in the script it is, and what holds of every connection.   *)
ScriptTypes ==
  /\ mode \in Modes /\ pc \in DirectedPc
  /\ index \in 0 .. 6 /\ at \in 1 .. 19
  /\ pc \in {"sending", "expire"} => at <= Length
  /\ sock \in BOOLEAN /\ pass \in BOOLEAN /\ state \in GrState
  /\ NetTypes /\ DaemonTypes /\ Wired
  /\ pc # "idle" => index # 0
  /\ timed \in BOOLEAN /\ (index # 0 => (timed <=> Expiring))

(* Between scenarios no connection is open, a patient runner has outlasted *)
(* the last, and nothing is under way about the routes of the next.        *)
Between ==
  /\ pc \in {"settle", "idle", "done"} => ~link
  /\ PATIENT /\ (pc = "idle" \/ (pc = "script" /\ at = 1)) => ~up
  /\ pc \in {"settle", "idle", "done"} /\ ~failed => pass
  /\ pc \in {"script", "sending", "expire"} /\ at <= PauseAt => pass
  /\ \A i \in 1 .. Len(inbox) :
       inbox[i].kind = "update" =>
         inbox[i].trace <= index /\ (pc = "script" /\ at = 1 => inbox[i].trace # index)
  /\ index = 0 => ~up /\ left = {} /\ table = NoRoutes /\ ~diverged

(* Where a scenario can be that goes on.                                   *)
Place ==
  Going =>
    /\ pc # "raising"
    /\ pc \in {"finally", "settle", "idle", "done"} => at = Length + 1
    /\ pc = "script" => at <= Length + 1
    /\ pc = "sending" =>
         at = 2 \/ (second_route /\ at \in {3, 13}) \/ (Returning /\ at = EorAt)
    /\ pc = "expire" => Expiring /\ at = RestartAt
    /\ at = 1 => table = NoRoutes /\ ~diverged

(* What the reference state holds of the routes at each place.             *)
Reference ==
  Going /\ pc \in {"script", "sending", "expire"} =>
    /\ state.gr_enabled <=> gr_enabled
    /\ state.connected <=> at <= LossAt \/ (Returning /\ at > RestartAt)
    /\ at <= 2 => state.routes[Route1] = ABSENT
    /\ at > 2 /\ at <= LossAt => state.routes[Route1] = ACTIVE
    /\ second_route /\ at > 3 /\ at <= LossAt => state.routes[Route2] = ACTIVE
    /\ at > LossAt /\ (Notifying \/ ~gr_enabled) => state.routes[Route1] = ABSENT
    /\ at > LossAt /\ at <= RestartAt /\ (Returning \/ Expiring) =>
         state.routes[Route1] = STALE
    /\ Expiring /\ at > RestartAt => state.routes[Route1] = ABSENT
    /\ Returning /\ at > RestartAt /\ at <= ResendAt =>
         state.routes[Route1] = IF forwarding THEN STALE ELSE ABSENT
    /\ second_route /\ at > ResendAt => state.routes[Route1] = ACTIVE
    /\ second_route /\ at > LossAt /\ at <= EorAt => state.routes[Route2] = STALE
    /\ Returning /\ at > EorAt => state.routes[LastRoute] = ABSENT

(* The first session and its end: what is under way, and what the daemon   *)
(* holds.                                                                  *)
FirstHalf == Going /\ at > 1 /\ ~(Returning /\ at > RestartAt)

FirstNet ==
  FirstHalf =>
    /\ dgr <=> gr_enabled
    /\ link <=> at <= LossAt
    /\ \A i \in 1 .. Len(inbox) :
         \/ /\ inbox[i].kind = "update" /\ inbox[i].trace = index
            /\ second_route \/ inbox[i].route = Route1
         \/ inbox[i].kind = "cease" /\ Notifying /\ at > LossAt
         \/ inbox[i].kind = "close" /\ at > LossAt
    /\ Notifying => CeaseFirst(inbox)
    /\ PATIENT /\ PauseAt < at /\ at <= LossAt => inbox = <<>>
    /\ PATIENT /\ at > LossAt + 1 => ~up

FirstTable ==
  FirstHalf =>
    /\ ~diverged
    /\ second_route \/ table[Route2] = ABSENT
    /\ up => NoneIn(table, STALE)
    /\ ~up => NoneIn(table, ACTIVE) /\ (Notifying \/ ~gr_enabled => table = NoRoutes)
    /\ at <= LossAt /\ Sent(2) => table[Route1] = ACTIVE \/ HasUpdate(inbox, Route1)
    /\ at <= LossAt /\ second_route /\ Sent(3) =>
         table[Route2] = ACTIVE \/ HasUpdate(inbox, Route2)

(* A route that was seen, or had the time to come, is there and, with      *)
(* graceful restart, outlives the session.                                 *)
Holds(r) ==
  /\ up => table[r] = ACTIVE
  /\ ~up /\ gr_enabled /\ ~Notifying
     /\ (timed => PATIENT /\ at <= RestartAt /\ pc # "expire") => table[r] = STALE

FirstHeld ==
  FirstHalf =>
    /\ (PATIENT /\ at > PauseAt) \/ (~COVERAGE /\ at > PauseAt + 1) => Holds(Route1)
    /\ second_route /\ ~COVERAGE /\ at >= LossAt => Holds(Route2)

(* Where nothing follows the session, nothing is left of it.               *)
FirstOver ==
  FirstHalf =>
    /\ Expiring /\ PATIENT /\ at > RestartAt => table = NoRoutes
    /\ ~Returning /\ at > Length /\ (COVERAGE => PATIENT) => ~up /\ table = NoRoutes

(* The session after a restart.                                            *)
SecondHalf == Going /\ Returning /\ at > RestartAt

SecondNet ==
  SecondHalf =>
    /\ at <= CeaseAt => link /\ ~Has(inbox, "cease")
    /\ at > CeaseAt /\ up => Has(inbox, "cease")
    /\ CeaseFirst(inbox) /\ OneEor(inbox)
    /\ Has(inbox, "eor") => Sent(EorAt)
    /\ \A i \in 1 .. Len(inbox) :
         inbox[i].kind = "update" =>
           /\ inbox[i].trace = index
           /\ second_route /\ inbox[i].route = Route1 /\ Sent(ResendAt)
    /\ PATIENT /\ pc = "script" /\ (at <= ResendAt \/ (EorAt + 1 < at /\ at <= CeaseAt)) =>
         inbox = <<>>

SecondTable ==
  SecondHalf =>
    /\ ~up => table = NoRoutes /\ left = {}
    /\ table[Route2] # ACTIVE
    /\ second_route \/ (table[Route2] = ABSENT /\ table[Route1] # ACTIVE)
    /\ forwarding \/ table[Route1] = ABSENT
    /\ second_route /\ up /\ Sent(ResendAt) =>
         table[Route1] = ACTIVE \/ HasUpdate(inbox, Route1)
    /\ PATIENT /\ forwarding /\ ~Sent(ResendAt) => table[Route1] = STALE
    /\ FAULTS = {} /\ up /\ Sent(EorAt) /\ ~Has(inbox, "eor") => NoneIn(table, STALE)

(* A fault stands out until the last check.                                *)
SecondSeen ==
  SecondHalf /\ ~COVERAGE =>
    /\ second_route /\ up /\ (Sent(EorAt) => Has(inbox, "eor")) => table[Route2] = STALE
    /\ diverged => /\ up /\ Sent(EorAt) /\ ~Has(inbox, "eor") /\ at < CeaseAt
                   /\ table[LastRoute] = STALE
    /\ at >= CeaseAt /\ Has(inbox, "eor") => NoneIn(table, STALE)

(* Behind scenarios that passed, the daemon holds nothing of them once it  *)
(* can take a session.                                                     *)
Isolated ==
  Going /\ ~failed /\ (COVERAGE => PATIENT) =>
    IF at > 1 THEN left = {}
    ELSE IF up THEN Has(inbox, "cease") /\ CeaseFirst(inbox) ELSE left = {}

(* A conforming daemon that is in time passes.                             *)
Passing == Conforming => pass

(* The invariant of the directed suite.                                    *)
DInv ==
  mode.directed =>
    /\ ScriptTypes /\ Between /\ Place /\ Reference
    /\ FirstNet /\ FirstTable /\ FirstHeld /\ FirstOver
    /\ SecondNet /\ SecondTable /\ SecondSeen
    /\ Isolated /\ Passing

(***************************************************************************)
(* The scripts                                                             *)
(***************************************************************************)

(* There are two routes.                                                   *)
LEMMA TheRoutes ==
  /\ Route1 \in Routes /\ Route2 \in Routes /\ Route1 # Route2
  /\ \A r \in Routes : r = Route1 \/ r = Route2
<1>1. PICK r1, r2 \in Routes : r1 # r2 /\ Routes = {r1, r2}
  BY TwoRoutes
<1>2. Route1 \in Routes
  BY RoutesAssumption DEF Route1
<1>3. \E r \in Routes : r # Route1
  BY <1>1
<1>4. Route2 \in Routes /\ Route2 # Route1
  BY <1>3 DEF Route2
<1> QED
  BY <1>1, <1>2, <1>4

(* The operations of scripts.                                              *)
OpNames == {"connect", "announce", "pause", "check", "disconnect", "notify", "timer",
            "reconnect", "refresh", "eor", "cease"}

Ops == [op : OpNames, route : Routes]

(* Every operation is one.                                                 *)
LEMMA OpIs ==
  ASSUME NEW op \in OpNames, NEW r \in Routes
  PROVE  Op(op, r) \in Ops /\ Op(op, r).op = op /\ Op(op, r).route = r
BY DEF Op, Ops

(* The list s is p and then q, of n and m operations.                      *)
Chain(s, p, q, n, m) ==
  /\ s \in Seq(Ops) /\ Len(s) = n + m
  /\ \A i \in 1 .. n : s[i] = p[i]
  /\ \A i \in n + 1 .. n + m : s[i] = q[i - n]

(* One list behind another.                                                *)
LEMMA Joined ==
  ASSUME NEW p \in Seq(Ops), NEW q \in Seq(Ops), NEW n \in Nat, NEW m \in Nat,
         Len(p) = n, Len(q) = m
  PROVE  Chain(p \o q, p, q, n, m)
<1>1. p \o q \in Seq(Ops)
  OBVIOUS
<1>2. Len(p \o q) = n + m
  OBVIOUS
<1>3. \A i \in 1 .. n : (p \o q)[i] = p[i]
  OBVIOUS
<1>4. \A i \in n + 1 .. n + m : (p \o q)[i] = q[i - n]
  OBVIOUS
<1> QED
  BY DEF Chain

(* Short lists.                                                            *)
LEMMA Lists ==
  ASSUME NEW x \in Ops, NEW y \in Ops, NEW z \in Ops
  PROVE  /\ <<x>> \in Seq(Ops) /\ Len(<<x>>) = 1 /\ <<x>>[1] = x
         /\ <<x, y>> \in Seq(Ops) /\ Len(<<x, y>>) = 2
         /\ <<x, y>>[1] = x /\ <<x, y>>[2] = y
         /\ <<x, y, z>> \in Seq(Ops) /\ Len(<<x, y, z>>) = 3
         /\ <<x, y, z>>[1] = x /\ <<x, y, z>>[2] = y /\ <<x, y, z>>[3] = z
OBVIOUS

(* A list of optional operations.                                          *)
LEMMA Optional ==
  ASSUME NEW p \in Seq(Ops), NEW c \in BOOLEAN, NEW q \in Seq(Ops)
  PROVE  p \o Only(c, q) = IF c THEN p \o q ELSE p
BY DEF Only

(* The beginning of a script.                                              *)
LEMMA AnnouncedIs ==
  ASSUME NEW s, s = Announced
  PROVE  /\ s \in Seq(Ops) /\ Len(s) = LossAt - 1
         /\ s[1] = Op("connect", Route1) /\ s[2] = Op("announce", Route1)
         /\ second_route =>
              /\ s[3] = Op("announce", Route2) /\ s[4] = Op("pause", Route1)
              /\ s[5] = Op("check", Route1) /\ s[6] = Op("check", Route2)
         /\ ~second_route => s[3] = Op("pause", Route1) /\ s[4] = Op("check", Route1)
<1>o. /\ Op("connect", Route1) \in Ops /\ Op("announce", Route1) \in Ops
      /\ Op("announce", Route2) \in Ops /\ Op("pause", Route1) \in Ops
      /\ Op("check", Route1) \in Ops /\ Op("check", Route2) \in Ops
  BY TheRoutes DEF Op, Ops, OpNames
<1>b. second_route \in BOOLEAN
  BY DEF second_route
<1>1. PICK a : a = <<Op("connect", Route1), Op("announce", Route1)>>
  OBVIOUS
<1>2. PICK b : b = <<Op("announce", Route2)>>
  OBVIOUS
<1>3. PICK c : c = <<Op("pause", Route1), Op("check", Route1)>>
  OBVIOUS
<1>4. PICK d : d = <<Op("check", Route2)>>
  OBVIOUS
<1>5. s = ((a \o Only(second_route, b)) \o c) \o Only(second_route, d)
  BY <1>1, <1>2, <1>3, <1>4 DEF Announced
<1>6. /\ a \in Seq(Ops) /\ Len(a) = 2
      /\ a[1] = Op("connect", Route1) /\ a[2] = Op("announce", Route1)
      /\ b \in Seq(Ops) /\ Len(b) = 1 /\ b[1] = Op("announce", Route2)
      /\ c \in Seq(Ops) /\ Len(c) = 2
      /\ c[1] = Op("pause", Route1) /\ c[2] = Op("check", Route1)
      /\ d \in Seq(Ops) /\ Len(d) = 1 /\ d[1] = Op("check", Route2)
  BY <1>o, <1>1, <1>2, <1>3, <1>4
<1> HIDE <1>1, <1>2, <1>3, <1>4
<1>7. CASE second_route
  <2>1. PICK p : p = a \o b
    OBVIOUS
  <2>2. PICK q : q = p \o c
    OBVIOUS
  <2>3. Chain(p, a, b, 2, 1)
    BY <1>6, <2>1, Joined
  <2>4. p \in Seq(Ops) /\ Len(p) = 3 /\ p[1] = a[1] /\ p[2] = a[2] /\ p[3] = b[1]
    BY <2>3 DEF Chain
  <2>5. Chain(q, p, c, 3, 2)
    BY <1>6, <2>2, <2>4, Joined
  <2>6. /\ q \in Seq(Ops) /\ Len(q) = 5
        /\ q[1] = p[1] /\ q[2] = p[2] /\ q[3] = p[3] /\ q[4] = c[1] /\ q[5] = c[2]
    BY <2>5 DEF Chain
  <2>7. s = q \o d
    BY <1>5, <1>7, <2>1, <2>2 DEF Only
  <2>8. Chain(s, q, d, 5, 1)
    BY <1>6, <2>6, <2>7, Joined
  <2>9. /\ s \in Seq(Ops) /\ Len(s) = 6 /\ s[1] = q[1] /\ s[2] = q[2] /\ s[3] = q[3]
        /\ s[4] = q[4] /\ s[5] = q[5] /\ s[6] = d[1]
    BY <2>8 DEF Chain
  <2>a. LossAt = 7
    BY <1>7 DEF LossAt
  <2> HIDE <1>5, <2>1, <2>2, <2>7
  <2> QED
    BY <1>6, <1>7, <2>4, <2>6, <2>9, <2>a
<1>8. CASE ~second_route
  <2>1. a \o Only(second_route, b) = a
    BY <1>b, <1>6, <1>8, Optional
  <2>2. PICK q : q = a \o c
    OBVIOUS
  <2>3. Chain(q, a, c, 2, 2)
    BY <1>6, <2>2, Joined
  <2>4. /\ q \in Seq(Ops) /\ Len(q) = 4
        /\ q[1] = a[1] /\ q[2] = a[2] /\ q[3] = c[1] /\ q[4] = c[2]
    BY <2>3 DEF Chain
  <2>5. s = q
    BY <1>b, <1>5, <1>6, <1>8, <2>2, <2>4, Optional
  <2>a. LossAt = 5
    BY <1>8 DEF LossAt
  <2> HIDE <1>5, <2>1, <2>2
  <2> QED
    BY <1>6, <1>8, <2>4, <2>5, <2>a
<1> QED
  BY <1>7, <1>8

(* What follows a restart.                                                 *)
LEMMA RestartsIs ==
  ASSUME NEW s, s = Restarts
  PROVE  /\ s \in Seq(Ops) /\ Len(s) = IF second_route THEN 9 ELSE 7
         /\ s[1] = Op("reconnect", Route1) /\ s[2] = Op("pause", Route1)
         /\ s[3] = Op("check", Route1)
         /\ second_route =>
              /\ s[4] = Op("refresh", Route1) /\ s[5] = Op("eor", Route1)
              /\ s[6] = Op("pause", Route1) /\ s[7] = Op("check", Route1)
              /\ s[8] = Op("check", Route2) /\ s[9] = Op("cease", Route1)
         /\ ~second_route =>
              /\ s[4] = Op("eor", Route1) /\ s[5] = Op("pause", Route1)
              /\ s[6] = Op("check", Route1) /\ s[7] = Op("cease", Route1)
<1>o. /\ Op("reconnect", Route1) \in Ops /\ Op("pause", Route1) \in Ops
      /\ Op("check", Route1) \in Ops /\ Op("check", Route2) \in Ops
      /\ Op("refresh", Route1) \in Ops /\ Op("eor", Route1) \in Ops
      /\ Op("cease", Route1) \in Ops
  BY TheRoutes DEF Op, Ops, OpNames
<1>b. second_route \in BOOLEAN
  BY DEF second_route
<1>1. PICK a : a = <<Op("reconnect", Route1), Op("pause", Route1), Op("check", Route1)>>
  OBVIOUS
<1>2. PICK b : b = <<Op("refresh", Route1)>>
  OBVIOUS
<1>3. PICK c : c = <<Op("eor", Route1), Op("pause", Route1), Op("check", Route1)>>
  OBVIOUS
<1>4. PICK d : d = <<Op("check", Route2)>>
  OBVIOUS
<1>5. PICK e : e = <<Op("cease", Route1)>>
  OBVIOUS
<1>6. s = (((a \o Only(second_route, b)) \o c) \o Only(second_route, d)) \o e
  BY <1>1, <1>2, <1>3, <1>4, <1>5 DEF Restarts, Farewell
<1>7. /\ a \in Seq(Ops) /\ Len(a) = 3 /\ a[1] = Op("reconnect", Route1)
      /\ a[2] = Op("pause", Route1) /\ a[3] = Op("check", Route1)
      /\ b \in Seq(Ops) /\ Len(b) = 1 /\ b[1] = Op("refresh", Route1)
      /\ c \in Seq(Ops) /\ Len(c) = 3 /\ c[1] = Op("eor", Route1)
      /\ c[2] = Op("pause", Route1) /\ c[3] = Op("check", Route1)
      /\ d \in Seq(Ops) /\ Len(d) = 1 /\ d[1] = Op("check", Route2)
      /\ e \in Seq(Ops) /\ Len(e) = 1 /\ e[1] = Op("cease", Route1)
  BY <1>o, <1>1, <1>2, <1>3, <1>4, <1>5
<1> HIDE <1>1, <1>2, <1>3, <1>4, <1>5
<1>8. CASE second_route
  <2>1. PICK p : p = a \o b
    OBVIOUS
  <2>2. PICK q : q = p \o c
    OBVIOUS
  <2>3. PICK t : t = q \o d
    OBVIOUS
  <2>4. Chain(p, a, b, 3, 1)
    BY <1>7, <2>1, Joined
  <2>5. /\ p \in Seq(Ops) /\ Len(p) = 4
        /\ p[1] = a[1] /\ p[2] = a[2] /\ p[3] = a[3] /\ p[4] = b[1]
    BY <2>4 DEF Chain
  <2>6. Chain(q, p, c, 4, 3)
    BY <1>7, <2>2, <2>5, Joined
  <2>7. /\ q \in Seq(Ops) /\ Len(q) = 7
        /\ q[1] = p[1] /\ q[2] = p[2] /\ q[3] = p[3] /\ q[4] = p[4]
        /\ q[5] = c[1] /\ q[6] = c[2] /\ q[7] = c[3]
    BY <2>6 DEF Chain
  <2>8. Chain(t, q, d, 7, 1)
    BY <1>7, <2>3, <2>7, Joined
  <2>9. /\ t \in Seq(Ops) /\ Len(t) = 8
        /\ t[1] = q[1] /\ t[2] = q[2] /\ t[3] = q[3] /\ t[4] = q[4]
        /\ t[5] = q[5] /\ t[6] = q[6] /\ t[7] = q[7] /\ t[8] = d[1]
    BY <2>8 DEF Chain
  <2>10. s = t \o e
    BY <1>6, <1>8, <2>1, <2>2, <2>3 DEF Only
  <2>11. Chain(s, t, e, 8, 1)
    BY <1>7, <2>9, <2>10, Joined
  <2>12. /\ s \in Seq(Ops) /\ Len(s) = 9
         /\ s[1] = t[1] /\ s[2] = t[2] /\ s[3] = t[3] /\ s[4] = t[4]
         /\ s[5] = t[5] /\ s[6] = t[6] /\ s[7] = t[7] /\ s[8] = t[8] /\ s[9] = e[1]
    BY <2>11 DEF Chain
  <2> HIDE <1>6, <2>1, <2>2, <2>3, <2>10
  <2> QED
    BY <1>7, <1>8, <2>5, <2>7, <2>9, <2>12
<1>9. CASE ~second_route
  <2>1. a \o Only(second_route, b) = a
    BY <1>b, <1>7, <1>9, Optional
  <2>2. PICK q : q = a \o c
    OBVIOUS
  <2>3. Chain(q, a, c, 3, 3)
    BY <1>7, <2>2, Joined
  <2>4. /\ q \in Seq(Ops) /\ Len(q) = 6
        /\ q[1] = a[1] /\ q[2] = a[2] /\ q[3] = a[3]
        /\ q[4] = c[1] /\ q[5] = c[2] /\ q[6] = c[3]
    BY <2>3 DEF Chain
  <2>5. q \o Only(second_route, d) = q
    BY <1>b, <1>7, <1>9, <2>4, Optional
  <2>6. s = q \o e
    BY <1>6, <2>1, <2>2, <2>5
  <2>7. Chain(s, q, e, 6, 1)
    BY <1>7, <2>4, <2>6, Joined
  <2>8. /\ s \in Seq(Ops) /\ Len(s) = 7
        /\ s[1] = q[1] /\ s[2] = q[2] /\ s[3] = q[3] /\ s[4] = q[4]
        /\ s[5] = q[5] /\ s[6] = q[6] /\ s[7] = e[1]
    BY <2>7 DEF Chain
  <2> HIDE <1>6, <2>1, <2>2, <2>5, <2>6
  <2> QED
    BY <1>7, <1>9, <2>4, <2>8
<1> QED
  BY <1>8, <1>9

(* The kinds of scenarios.                                                 *)
LEMMA Kinds ==
  ASSUME index \in 1 .. 6
  PROVE  /\ second_route => Returning
         /\ Returning => ~Expiring /\ ~Notifying /\ gr_enabled
         /\ Expiring => ~Notifying /\ gr_enabled
         /\ Notifying => gr_enabled
         /\ ~gr_enabled \/ Notifying \/ Expiring \/ Returning
         /\ forwarding \/ Returning
         /\ second_route => forwarding
<1>1. name \in {"stale-then-eor", "refresh-one-then-eor", "forwarding-bit-cleared",
                "restart-time-expired", "notification-clears-route", "no-gr-control"}
  BY DEF name, SCENARIOS
<1> QED
  BY <1>1 DEF second_route, Returning, Expiring, Notifying, gr_enabled, forwarding

(* The places, in numbers.                                                 *)
LEMMA Figures ==
  /\ second_route => /\ PauseAt = 4 /\ LossAt = 7 /\ RestartAt = 10 /\ ResendAt = 13
                     /\ EorAt = 14 /\ CeaseAt = 18 /\ LastRoute = Route2
  /\ ~second_route => /\ PauseAt = 3 /\ LossAt = 5 /\ RestartAt = 8 /\ ResendAt = 11
                      /\ EorAt = 11 /\ CeaseAt = 14 /\ LastRoute = Route1
  /\ Returning => Length = CeaseAt
  /\ ~Returning /\ Expiring => Length = 9
  /\ ~Returning /\ ~Expiring => Length = 7
BY DEF PauseAt, LossAt, RestartAt, ResendAt, EorAt, CeaseAt, LastRoute, Length

(* The script, in full.                                                    *)
LEMMA ScriptIs ==
  ASSUME NEW s, s = Script, index \in 1 .. 6
  PROVE  /\ s \in Seq(Ops) /\ Len(s) = Length
         /\ s[1] = Op("connect", Route1) /\ s[2] = Op("announce", Route1)
         /\ second_route =>
              /\ s[3] = Op("announce", Route2) /\ s[4] = Op("pause", Route1)
              /\ s[5] = Op("check", Route1) /\ s[6] = Op("check", Route2)
         /\ ~second_route => s[3] = Op("pause", Route1) /\ s[4] = Op("check", Route1)
         /\ s[LossAt] = Op(IF Notifying THEN "notify" ELSE "disconnect", Route1)
         /\ s[LossAt + 1] = Op("pause", Route1) /\ s[LossAt + 2] = Op("check", Route1)
         /\ Expiring => s[8] = Op("timer", Route1) /\ s[9] = Op("check", Route1)
         /\ Returning =>
              /\ s[RestartAt] = Op("reconnect", Route1) /\ s[RestartAt + 1] = Op("pause", Route1)
              /\ s[RestartAt + 2] = Op("check", Route1)
              /\ s[EorAt] = Op("eor", Route1) /\ s[EorAt + 1] = Op("pause", Route1)
              /\ s[EorAt + 2] = Op("check", Route1) /\ s[CeaseAt] = Op("cease", Route1)
         /\ second_route => s[13] = Op("refresh", Route1) /\ s[17] = Op("check", Route2)
<1>1. PICK a : a = Announced
  OBVIOUS
<1>2. PICK d : d = Disconnects
  OBVIOUS
<1>3. PICK e : e = Expires
  OBVIOUS
<1>4. PICK r : r = Restarts
  OBVIOUS
<1>5. PICK p : p = a \o d
  OBVIOUS
<1>6. s = p \o (IF Expiring THEN e ELSE Only(Returning, r))
  <2>1. name \notin {"notification-clears-route", "no-gr-control"} <=> Returning \/ Expiring
    BY Kinds DEF Notifying, gr_enabled
  <2> QED
    BY <1>1, <1>2, <1>3, <1>4, <1>5, <2>1 DEF Script, Expiring, Only
<1>7. LossAt \in {5, 7} /\ (second_route <=> LossAt = 7) /\ second_route \in BOOLEAN
  BY Figures DEF second_route
<1>8. a \in Seq(Ops) /\ Len(a) = LossAt - 1
  BY <1>1, AnnouncedIs
<1>9. /\ d \in Seq(Ops) /\ Len(d) = 3
      /\ d[1] = Op(IF Notifying THEN "notify" ELSE "disconnect", Route1)
      /\ d[2] = Op("pause", Route1) /\ d[3] = Op("check", Route1)
  <2>1. /\ Op(IF Notifying THEN "notify" ELSE "disconnect", Route1) \in Ops
        /\ Op("pause", Route1) \in Ops /\ Op("check", Route1) \in Ops
    BY TheRoutes DEF Op, Ops, OpNames
  <2> QED
    BY <1>2, <2>1, Lists DEF Disconnects, Notifying
<1>10. /\ e \in Seq(Ops) /\ Len(e) = 2
       /\ e[1] = Op("timer", Route1) /\ e[2] = Op("check", Route1)
  <2>1. Op("timer", Route1) \in Ops /\ Op("check", Route1) \in Ops
    BY TheRoutes DEF Op, Ops, OpNames
  <2> QED
    BY <1>3, <2>1, Lists DEF Expires
<1>11. r \in Seq(Ops) /\ Len(r) = IF second_route THEN 9 ELSE 7
  BY <1>4, RestartsIs
<1>12. Chain(p, a, d, LossAt - 1, 3)
  <2>1. LossAt - 1 \in Nat
    BY <1>7
  <2> QED
    BY <1>5, <1>8, <1>9, <2>1, Joined
<1> HIDE <1>1, <1>2, <1>3, <1>4, <1>5
<1>13. /\ p \in Seq(Ops) /\ Len(p) = LossAt + 2
       /\ p[1] = Op("connect", Route1) /\ p[2] = Op("announce", Route1)
       /\ second_route =>
            /\ p[3] = Op("announce", Route2) /\ p[4] = Op("pause", Route1)
            /\ p[5] = Op("check", Route1) /\ p[6] = Op("check", Route2)
       /\ ~second_route => p[3] = Op("pause", Route1) /\ p[4] = Op("check", Route1)
       /\ p[LossAt] = Op(IF Notifying THEN "notify" ELSE "disconnect", Route1)
       /\ p[LossAt + 1] = Op("pause", Route1) /\ p[LossAt + 2] = Op("check", Route1)
  <2>1. /\ a[1] = Op("connect", Route1) /\ a[2] = Op("announce", Route1)
        /\ second_route =>
             /\ a[3] = Op("announce", Route2) /\ a[4] = Op("pause", Route1)
             /\ a[5] = Op("check", Route1) /\ a[6] = Op("check", Route2)
        /\ ~second_route => a[3] = Op("pause", Route1) /\ a[4] = Op("check", Route1)
    BY <1>1, AnnouncedIs
  <2>2. CASE second_route
    <3>1. Chain(p, a, d, 6, 3) /\ LossAt = 7
      BY <1>7, <1>12, <2>2
    <3>2. /\ p \in Seq(Ops) /\ Len(p) = 9
          /\ p[1] = a[1] /\ p[2] = a[2] /\ p[3] = a[3] /\ p[4] = a[4] /\ p[5] = a[5]
          /\ p[6] = a[6] /\ p[7] = d[1] /\ p[8] = d[2] /\ p[9] = d[3]
      BY <3>1 DEF Chain
    <3> QED
      BY <1>9, <2>1, <2>2, <3>1, <3>2
  <2>3. CASE ~second_route
    <3>1. Chain(p, a, d, 4, 3) /\ LossAt = 5
      BY <1>7, <1>12, <2>3
    <3>2. /\ p \in Seq(Ops) /\ Len(p) = 7
          /\ p[1] = a[1] /\ p[2] = a[2] /\ p[3] = a[3] /\ p[4] = a[4]
          /\ p[5] = d[1] /\ p[6] = d[2] /\ p[7] = d[3]
      BY <3>1 DEF Chain
    <3> QED
      BY <1>9, <2>1, <2>3, <3>1, <3>2
  <2> QED
    BY <2>2, <2>3
<1>14. CASE ~Expiring /\ ~Returning
  <2>1. p \o Only(Returning, r) = p
    <3>1. Returning \in BOOLEAN
      BY DEF Returning
    <3> QED
      BY <1>11, <1>13, <1>14, <3>1, Optional
  <2>2. s = p /\ ~second_route /\ Length = 7 /\ LossAt = 5
    BY <1>6, <1>14, <2>1, Kinds, Figures
  <2> HIDE <1>6, <2>1
  <2> QED
    BY <1>13, <1>14, <2>2
<1>15. CASE Expiring
  <2>1. s = p \o e /\ ~second_route /\ ~Returning /\ Length = 9 /\ LossAt = 5
    BY <1>6, <1>15, Kinds, Figures
  <2>2. Chain(s, p, e, 7, 2)
    <3>1. p \in Seq(Ops) /\ Len(p) = 7 /\ e \in Seq(Ops) /\ Len(e) = 2
      BY <1>10, <1>13, <2>1
    <3> HIDE <1>6
    <3> QED
      BY <2>1, <3>1, Joined
  <2> HIDE <1>6
  <2>3. /\ s \in Seq(Ops) /\ Len(s) = 9
        /\ s[1] = p[1] /\ s[2] = p[2] /\ s[3] = p[3] /\ s[4] = p[4] /\ s[5] = p[5]
        /\ s[6] = p[6] /\ s[7] = p[7] /\ s[8] = e[1] /\ s[9] = e[2]
    BY <2>2 DEF Chain
  <2>4. ~second_route /\ ~Returning /\ Length = 9 /\ LossAt = 5
    BY <2>1
  <2> HIDE <2>1
  <2> QED
    BY <1>10, <1>13, <1>15, <2>3, <2>4
<1>16. CASE Returning
  <2>1. s = p \o r /\ ~Expiring /\ Length = CeaseAt
    BY <1>6, <1>16, Kinds, Figures DEF Only
  <2>2. /\ r[1] = Op("reconnect", Route1) /\ r[2] = Op("pause", Route1)
        /\ r[3] = Op("check", Route1)
        /\ second_route =>
             /\ r[4] = Op("refresh", Route1) /\ r[5] = Op("eor", Route1)
             /\ r[6] = Op("pause", Route1) /\ r[7] = Op("check", Route1)
             /\ r[8] = Op("check", Route2) /\ r[9] = Op("cease", Route1)
        /\ ~second_route =>
             /\ r[4] = Op("eor", Route1) /\ r[5] = Op("pause", Route1)
             /\ r[6] = Op("check", Route1) /\ r[7] = Op("cease", Route1)
    BY <1>4, RestartsIs
  <2>3. CASE second_route
    <3>1. /\ LossAt = 7 /\ RestartAt = 10 /\ EorAt = 14 /\ CeaseAt = 18 /\ Length = 18
          /\ ~Expiring
      BY <2>1, <2>3, Figures
    <3>2. Chain(s, p, r, 9, 9)
      <4>1. p \in Seq(Ops) /\ Len(p) = 9 /\ r \in Seq(Ops) /\ Len(r) = 9
        BY <1>11, <1>13, <2>3, <3>1
      <4> HIDE <1>6
      <4> QED
        BY <2>1, <4>1, Joined
    <3> HIDE <1>6, <2>1
    <3>3. /\ s \in Seq(Ops) /\ Len(s) = 18
          /\ s[1] = p[1] /\ s[2] = p[2] /\ s[3] = p[3] /\ s[4] = p[4] /\ s[5] = p[5]
          /\ s[6] = p[6] /\ s[7] = p[7] /\ s[8] = p[8] /\ s[9] = p[9]
      BY <3>2 DEF Chain
    <3>4. /\ s[10] = r[1] /\ s[11] = r[2] /\ s[12] = r[3] /\ s[13] = r[4] /\ s[14] = r[5]
          /\ s[15] = r[6] /\ s[16] = r[7] /\ s[17] = r[8] /\ s[18] = r[9]
      BY <3>2 DEF Chain
    <3> QED
      BY <1>13, <2>2, <2>3, <3>1, <3>3, <3>4
  <2>4. CASE ~second_route
    <3>1. /\ LossAt = 5 /\ RestartAt = 8 /\ EorAt = 11 /\ CeaseAt = 14 /\ Length = 14
          /\ ~Expiring
      BY <2>1, <2>4, Figures
    <3>2. Chain(s, p, r, 7, 7)
      <4>1. p \in Seq(Ops) /\ Len(p) = 7 /\ r \in Seq(Ops) /\ Len(r) = 7
        BY <1>11, <1>13, <2>4, <3>1
      <4> HIDE <1>6
      <4> QED
        BY <2>1, <4>1, Joined
    <3> HIDE <1>6, <2>1
    <3>3. /\ s \in Seq(Ops) /\ Len(s) = 14
          /\ s[1] = p[1] /\ s[2] = p[2] /\ s[3] = p[3] /\ s[4] = p[4] /\ s[5] = p[5]
          /\ s[6] = p[6] /\ s[7] = p[7]
      BY <3>2 DEF Chain
    <3>4. /\ s[8] = r[1] /\ s[9] = r[2] /\ s[10] = r[3] /\ s[11] = r[4] /\ s[12] = r[5]
          /\ s[13] = r[6] /\ s[14] = r[7]
      BY <3>2 DEF Chain
    <3> QED
      BY <1>13, <2>2, <2>4, <3>1, <3>3, <3>4
  <2> QED
    BY <2>3, <2>4
<1> QED
  BY <1>14, <1>15, <1>16

(* The length of a script.                                                 *)
LEMMA ScriptLength == ASSUME index \in 1 .. 6 PROVE Len(Script) = Length
BY ScriptIs

(* Where each operation of a script is.                                    *)
LEMMA Places ==
  ASSUME index \in 1 .. 6, at \in 1 .. 19, at <= Len(Script), NEW o, o = Script[at]
  PROVE  /\ o \in Ops /\ at <= Length
         /\ o.op = "connect" => at = 1
         /\ o.op = "announce" =>
              (at = 2 /\ o.route = Route1) \/ (second_route /\ at = 3 /\ o.route = Route2)
         /\ o.op = "pause" => \/ at \in {PauseAt, LossAt + 1}
                              \/ Returning /\ at \in {RestartAt + 1, EorAt + 1}
         /\ o.op = "disconnect" => at = LossAt /\ ~Notifying
         /\ o.op = "notify" => at = LossAt /\ Notifying
         /\ o.op = "timer" => Expiring /\ at = RestartAt
         /\ o.op = "reconnect" => Returning /\ at = RestartAt
         /\ o.op = "refresh" => second_route /\ at = ResendAt /\ o.route = Route1
         /\ o.op = "eor" => Returning /\ at = EorAt
         /\ o.op = "cease" => Returning /\ at = CeaseAt
         /\ o.op = "check" =>
              \/ /\ o.route = Route1
                 /\ \/ at \in {PauseAt + 1, LossAt + 2}
                    \/ Expiring /\ at = RestartAt + 1
                    \/ Returning /\ at \in {RestartAt + 2, EorAt + 2}
              \/ second_route /\ at \in {LossAt - 1, CeaseAt - 1} /\ o.route = Route2
<1>1. PICK s : s = Script
  OBVIOUS
<1>2. /\ s \in Seq(Ops) /\ Len(s) = Length
      /\ s[1] = Op("connect", Route1) /\ s[2] = Op("announce", Route1)
      /\ second_route =>
           /\ s[3] = Op("announce", Route2) /\ s[4] = Op("pause", Route1)
           /\ s[5] = Op("check", Route1) /\ s[6] = Op("check", Route2)
      /\ ~second_route => s[3] = Op("pause", Route1) /\ s[4] = Op("check", Route1)
      /\ s[LossAt] = Op(IF Notifying THEN "notify" ELSE "disconnect", Route1)
      /\ s[LossAt + 1] = Op("pause", Route1) /\ s[LossAt + 2] = Op("check", Route1)
      /\ Expiring => s[8] = Op("timer", Route1) /\ s[9] = Op("check", Route1)
      /\ Returning =>
           /\ s[RestartAt] = Op("reconnect", Route1) /\ s[RestartAt + 1] = Op("pause", Route1)
           /\ s[RestartAt + 2] = Op("check", Route1)
           /\ s[EorAt] = Op("eor", Route1) /\ s[EorAt + 1] = Op("pause", Route1)
           /\ s[EorAt + 2] = Op("check", Route1) /\ s[CeaseAt] = Op("cease", Route1)
      /\ second_route => s[13] = Op("refresh", Route1) /\ s[17] = Op("check", Route2)
  BY <1>1, ScriptIs
<1>3. o = s[at] /\ at \in 1 .. Length
  BY <1>1, <1>2
<1> HIDE <1>1
<1>4. o \in Ops
  BY <1>2, <1>3
<1>5. CASE second_route
  <2>1. /\ PauseAt = 4 /\ LossAt = 7 /\ RestartAt = 10 /\ ResendAt = 13
        /\ EorAt = 14 /\ CeaseAt = 18 /\ Length = 18 /\ Returning /\ ~Notifying
    BY <1>5, Figures, Kinds
  <2>2. at \in 1 .. 18
    BY <1>3, <2>1
  <2>3. /\ s[1] = Op("connect", Route1) /\ s[2] = Op("announce", Route1)
        /\ s[3] = Op("announce", Route2) /\ s[4] = Op("pause", Route1)
        /\ s[5] = Op("check", Route1) /\ s[6] = Op("check", Route2)
        /\ s[7] = Op("disconnect", Route1) /\ s[8] = Op("pause", Route1)
        /\ s[9] = Op("check", Route1) /\ s[10] = Op("reconnect", Route1)
        /\ s[11] = Op("pause", Route1) /\ s[12] = Op("check", Route1)
        /\ s[13] = Op("refresh", Route1) /\ s[14] = Op("eor", Route1)
        /\ s[15] = Op("pause", Route1) /\ s[16] = Op("check", Route1)
        /\ s[17] = Op("check", Route2) /\ s[18] = Op("cease", Route1)
    BY <1>2, <1>5, <2>1
  <2>4. CASE at \in 1 .. 5
    BY SMTT(20), <1>3, <1>4, <1>5, <2>1, <2>3, <2>4 DEF Op
  <2>6. CASE at \in 6 .. 9
    BY SMTT(20), <1>3, <1>4, <1>5, <2>1, <2>3, <2>6 DEF Op
  <2>5. CASE at \in 10 .. 18
    BY SMTT(20), <1>3, <1>4, <1>5, <2>1, <2>3, <2>5 DEF Op
  <2> QED
    BY <2>2, <2>4, <2>5, <2>6
<1>6. CASE Returning /\ ~second_route
  <2>1. /\ PauseAt = 3 /\ LossAt = 5 /\ RestartAt = 8 /\ ResendAt = 11
        /\ EorAt = 11 /\ CeaseAt = 14 /\ Length = 14 /\ ~Notifying
    BY <1>6, Figures, Kinds
  <2>2. at \in 1 .. 14
    BY <1>3, <2>1
  <2> QED
    BY SMTT(20), <1>2, <1>3, <1>4, <1>6, <2>1 DEF Op
<1>7. CASE ~Returning
  <2>1. /\ PauseAt = 3 /\ LossAt = 5 /\ RestartAt = 8 /\ ~second_route
        /\ Length = IF Expiring THEN 9 ELSE 7
    BY <1>7, Figures, Kinds
  <2>2. at \in 1 .. IF Expiring THEN 9 ELSE 7
    BY <1>3, <2>1
  <2> QED
    BY SMTT(20), <1>2, <1>3, <2>1 DEF Op
<1> QED
  BY <1>3, <1>5, <1>6, <1>7

(* What a step within a script does not change.                            *)
Kept ==
  /\ second_route' <=> second_route
  /\ gr_enabled' <=> gr_enabled
  /\ forwarding' <=> forwarding
  /\ Returning' <=> Returning
  /\ Expiring' <=> Expiring
  /\ Notifying' <=> Notifying
  /\ PauseAt' = PauseAt /\ LossAt' = LossAt /\ RestartAt' = RestartAt
  /\ ResendAt' = ResendAt /\ EorAt' = EorAt /\ CeaseAt' = CeaseAt
  /\ Length' = Length /\ LastRoute' = LastRoute
  /\ COVERAGE' = COVERAGE /\ PATIENT' = PATIENT /\ FAULTS' = FAULTS

(* A script keeps its places.                                              *)
LEMMA Unmoved == ASSUME index' = index, mode' = mode PROVE Kept
<1>1. name' = name /\ Route1' = Route1 /\ Route2' = Route2
  BY DEF name, Route1, Route2
<1>2. (second_route)' <=> second_route
  BY <1>1 DEF second_route
<1>3. PATIENT' = PATIENT /\ COVERAGE' = COVERAGE /\ FAULTS' = FAULTS
  BY DEF PATIENT, COVERAGE, FAULTS
<1>4. /\ gr_enabled' <=> gr_enabled
      /\ forwarding' <=> forwarding
      /\ Returning' <=> Returning
      /\ Expiring' <=> Expiring
      /\ Notifying' <=> Notifying
  BY <1>1 DEF gr_enabled, forwarding, Returning, Expiring, Notifying
<1>5. /\ PauseAt' = PauseAt /\ LossAt' = LossAt /\ RestartAt' = RestartAt
      /\ ResendAt' = ResendAt /\ EorAt' = EorAt /\ CeaseAt' = CeaseAt
      /\ LastRoute' = LastRoute
  BY <1>2 DEF PauseAt, LossAt, RestartAt, ResendAt, EorAt, CeaseAt, LastRoute
<1>6. Length' = Length
  BY <1>4, <1>5 DEF Length
<1> QED
  BY <1>2, <1>3, <1>4, <1>5, <1>6 DEF Kept

(***************************************************************************)
(* What is under way                                                       *)
(***************************************************************************)

(* The messages of p are among those of q.                                 *)
Among(p, q) == \A i \in 1 .. Len(p) : \E j \in 1 .. Len(q) : p[i] = q[j]

(* When the first message is taken out of a queue.                         *)
LEMMA TailHas ==
  ASSUME NEW q \in Seq(Msg), q # <<>>
  PROVE  /\ Among(Tail(q), q)
         /\ \E i \in 1 .. Len(q) : Head(q) = q[i]
         /\ \A k : /\ Has(Tail(q), k) => Has(q, k)
                   /\ Has(q, k) /\ Head(q).kind # k => Has(Tail(q), k)
                   /\ Head(q).kind = k => Has(q, k)
         /\ \A r : /\ HasUpdate(Tail(q), r) => HasUpdate(q, r)
                   /\ HasUpdate(q, r) /\ ~(Head(q).kind = "update" /\ Head(q).route = r) =>
                        HasUpdate(Tail(q), r)
         /\ CeaseFirst(q) =>
              Head(q).kind # "close" /\ (Head(q).kind # "cease" => CeaseFirst(Tail(q)))
         /\ OneEor(q) =>
              OneEor(Tail(q)) /\ (Head(q).kind = "eor" => ~Has(Tail(q), "eor"))
<1>1. /\ Tail(q) \in Seq(Msg) /\ Len(q) \in Nat /\ Len(q) > 0
      /\ Len(Tail(q)) = Len(q) - 1 /\ Head(q) = q[1]
      /\ \A i \in 1 .. Len(q) - 1 : Tail(q)[i] = q[i + 1]
  BY HeadTailProperties, LenProperties, EmptySeq
<1>2. \A i \in 1 .. Len(Tail(q)) : i + 1 \in 1 .. Len(q) /\ Tail(q)[i] = q[i + 1]
  BY <1>1
<1>3. \A i \in 1 .. Len(q) : i # 1 => i - 1 \in 1 .. Len(Tail(q)) /\ Tail(q)[i - 1] = q[i]
  <2> SUFFICES ASSUME NEW i \in 1 .. Len(q), i # 1
               PROVE  i - 1 \in 1 .. Len(Tail(q)) /\ Tail(q)[i - 1] = q[i]
    OBVIOUS
  <2>1. i - 1 \in 1 .. Len(Tail(q)) /\ (i - 1) + 1 = i
    BY <1>1
  <2>2. Tail(q)[i - 1] = q[(i - 1) + 1]
    BY <1>2, <2>1
  <2> QED
    BY <2>1, <2>2
<1>4. 1 \in 1 .. Len(q) /\ Head(q) = q[1]
  BY <1>1
<1>5. Among(Tail(q), q)
  BY <1>2 DEF Among
<1>6. ASSUME NEW k
      PROVE  /\ Has(Tail(q), k) => Has(q, k)
             /\ Has(q, k) /\ Head(q).kind # k => Has(Tail(q), k)
             /\ Head(q).kind = k => Has(q, k)
  BY <1>2, <1>3, <1>4 DEF Has
<1>7. ASSUME NEW r
      PROVE  /\ HasUpdate(Tail(q), r) => HasUpdate(q, r)
             /\ HasUpdate(q, r) /\ ~(Head(q).kind = "update" /\ Head(q).route = r) =>
                  HasUpdate(Tail(q), r)
  <2>1. ASSUME HasUpdate(Tail(q), r)
        PROVE  HasUpdate(q, r)
    <3>1. PICK i \in 1 .. Len(Tail(q)) : Tail(q)[i].kind = "update" /\ Tail(q)[i].route = r
      BY <2>1 DEF HasUpdate
    <3>2. i + 1 \in 1 .. Len(q) /\ q[i + 1].kind = "update" /\ q[i + 1].route = r
      BY <1>2, <3>1
    <3> QED
      BY <3>2 DEF HasUpdate
  <2>2. ASSUME HasUpdate(q, r), ~(Head(q).kind = "update" /\ Head(q).route = r)
        PROVE  HasUpdate(Tail(q), r)
    <3>1. PICK i \in 1 .. Len(q) : q[i].kind = "update" /\ q[i].route = r
      BY <2>2 DEF HasUpdate
    <3>2. i # 1
      BY <1>4, <2>2, <3>1
    <3>3. /\ i - 1 \in 1 .. Len(Tail(q))
          /\ Tail(q)[i - 1].kind = "update" /\ Tail(q)[i - 1].route = r
      BY <1>3, <3>1, <3>2
    <3> QED
      BY <3>3 DEF HasUpdate
  <2> QED
    BY <2>1, <2>2
<1>8. ASSUME CeaseFirst(q)
      PROVE  Head(q).kind # "close" /\ (Head(q).kind # "cease" => CeaseFirst(Tail(q)))
  <2>1. Head(q).kind # "close"
    BY <1>1, <1>4, <1>8 DEF CeaseFirst
  <2>2. ASSUME Head(q).kind # "cease", NEW i \in 1 .. Len(Tail(q)), Tail(q)[i].kind = "close"
        PROVE  \E j \in 1 .. i - 1 : Tail(q)[j].kind = "cease"
    <3>1. i + 1 \in 1 .. Len(q) /\ q[i + 1].kind = "close"
      BY <1>2, <2>2
    <3>2. PICK j \in 1 .. (i + 1) - 1 : q[j].kind = "cease"
      BY <1>8, <3>1 DEF CeaseFirst
    <3>3. j # 1
      BY <1>4, <2>2, <3>2
    <3>4. j \in 1 .. Len(q) /\ j - 1 \in 1 .. i - 1
      BY <1>1, <2>2, <3>2, <3>3
    <3>5. Tail(q)[j - 1] = q[j]
      BY <1>3, <3>3, <3>4
    <3> QED
      BY <3>2, <3>4, <3>5
  <2> QED
    BY <2>1, <2>2 DEF CeaseFirst
<1>9. ASSUME OneEor(q)
      PROVE  OneEor(Tail(q)) /\ (Head(q).kind = "eor" => ~Has(Tail(q), "eor"))
  <2>1. ASSUME NEW i \in 1 .. Len(Tail(q)), NEW j \in 1 .. Len(Tail(q)),
               Tail(q)[i].kind = "eor", Tail(q)[j].kind = "eor"
        PROVE  i = j
    <3>1. i + 1 = j + 1
      BY <1>2, <1>9, <2>1 DEF OneEor
    <3> QED
      BY <3>1
  <2>2. ASSUME Head(q).kind = "eor", NEW i \in 1 .. Len(Tail(q)), Tail(q)[i].kind = "eor"
        PROVE  FALSE
    <3>1. i + 1 = 1
      BY <1>2, <1>4, <1>9, <2>2 DEF OneEor
    <3> QED
      BY <3>1
  <2> QED
    BY <2>1, <2>2 DEF OneEor, Has
<1> QED
  BY <1>5, <1>6, <1>7, <1>8, <1>9

(* When a message is put behind a queue.                                   *)
LEMMA AppendHas ==
  ASSUME NEW q \in Seq(Msg), NEW m \in Msg
  PROVE  /\ q \o <<m>> \in Seq(Msg) /\ q \o <<m>> # <<>>
         /\ \A i \in 1 .. Len(q \o <<m>>) :
              (q \o <<m>>)[i] = m \/ \E j \in 1 .. Len(q) : (q \o <<m>>)[i] = q[j]
         /\ \A k : Has(q \o <<m>>, k) <=> Has(q, k) \/ m.kind = k
         /\ \A r : HasUpdate(q \o <<m>>, r) <=>
                     HasUpdate(q, r) \/ (m.kind = "update" /\ m.route = r)
         /\ CeaseFirst(q) /\ (m.kind # "close" \/ Has(q, "cease")) => CeaseFirst(q \o <<m>>)
         /\ OneEor(q) /\ (m.kind # "eor" \/ ~Has(q, "eor")) => OneEor(q \o <<m>>)
<1> DEFINE p == q \o <<m>>
<1>1. /\ p \in Seq(Msg) /\ Len(q) \in Nat /\ Len(p) = Len(q) + 1
      /\ \A i \in 1 .. Len(q) : p[i] = q[i]
      /\ p[Len(p)] = m
  BY ConcatProperties, LenProperties
<1> HIDE DEF p
<1>2. p # <<>> /\ Len(p) \in 1 .. Len(p)
  BY <1>1, EmptySeq
<1>3. \A i \in 1 .. Len(p) : i = Len(p) \/ i \in 1 .. Len(q)
  BY <1>1
<1>4. \A i \in 1 .. Len(q) : i \in 1 .. Len(p) /\ i # Len(p)
  BY <1>1
<1>5. \A i \in 1 .. Len(p) : p[i] = m \/ \E j \in 1 .. Len(q) : p[i] = q[j]
  BY <1>1, <1>3
<1>6. \A k : Has(p, k) <=> Has(q, k) \/ m.kind = k
  BY <1>1, <1>2, <1>3, <1>4 DEF Has
<1>7. \A r : HasUpdate(p, r) <=> HasUpdate(q, r) \/ (m.kind = "update" /\ m.route = r)
  BY <1>1, <1>2, <1>3, <1>4 DEF HasUpdate
<1>8. ASSUME CeaseFirst(q), m.kind # "close" \/ Has(q, "cease")
      PROVE  CeaseFirst(p)
  <2> SUFFICES ASSUME NEW i \in 1 .. Len(p), p[i].kind = "close"
               PROVE  \E j \in 1 .. i - 1 : p[j].kind = "cease"
    BY DEF CeaseFirst
  <2>1. CASE i \in 1 .. Len(q)
    <3>1. PICK j \in 1 .. i - 1 : q[j].kind = "cease"
      BY <1>1, <1>8, <2>1 DEF CeaseFirst
    <3>2. p[j] = q[j]
      BY <1>1, <2>1, <3>1
    <3> QED
      BY <3>1, <3>2
  <2>2. CASE i = Len(p)
    <3>1. PICK j \in 1 .. Len(q) : q[j].kind = "cease"
      BY <1>1, <1>8, <2>2 DEF Has
    <3>2. j \in 1 .. i - 1 /\ p[j] = q[j]
      BY <1>1, <2>2, <3>1
    <3> QED
      BY <3>1, <3>2
  <2> QED
    BY <1>3, <2>1, <2>2
<1>9. OneEor(q) /\ (m.kind # "eor" \/ ~Has(q, "eor")) => OneEor(p)
  BY <1>1, <1>3 DEF OneEor, Has
<1> QED
  BY <1>6, <1>7, <1>8, <1>9 DEF p

(* When nothing is under way.                                              *)
LEMMA EmptyHas ==
  ASSUME NEW q, q = <<>>
  PROVE  /\ \A k : ~Has(q, k)
         /\ \A r : ~HasUpdate(q, r)
         /\ CeaseFirst(q) /\ OneEor(q)
         /\ Len(q) = 0
BY DEF Has, HasUpdate, CeaseFirst, OneEor

(* What _send puts under way.                                              *)
LEMMA DeliveredHas ==
  ASSUME NetTypes, NEW m \in Msg, Deliver(<<m>>)
  PROVE  /\ ~link => inbox' = inbox
         /\ \A i \in 1 .. Len(inbox') :
              inbox'[i] = m \/ \E j \in 1 .. Len(inbox) : inbox'[i] = inbox[j]
         /\ \A k : /\ Has(inbox', k) => Has(inbox, k) \/ m.kind = k
                   /\ Has(inbox, k) => Has(inbox', k)
         /\ link => Has(inbox', m.kind)
         /\ \A r : /\ HasUpdate(inbox, r) => HasUpdate(inbox', r)
                   /\ HasUpdate(inbox', r) =>
                        HasUpdate(inbox, r) \/ (m.kind = "update" /\ m.route = r)
                   /\ link /\ m.kind = "update" /\ m.route = r => HasUpdate(inbox', r)
         /\ CeaseFirst(inbox) /\ m.kind # "close" => CeaseFirst(inbox')
         /\ OneEor(inbox) /\ (m.kind # "eor" \/ ~Has(inbox, "eor")) => OneEor(inbox')
<1>1. CASE link
  <2>1. inbox' = inbox \o <<m>> /\ inbox \in Seq(Msg)
    BY <1>1 DEF Deliver, NetTypes
  <2>2. /\ inbox' \in Seq(Msg) /\ inbox' # <<>>
        /\ \A i \in 1 .. Len(inbox') :
             inbox'[i] = m \/ \E j \in 1 .. Len(inbox) : inbox'[i] = inbox[j]
        /\ \A k : Has(inbox', k) <=> Has(inbox, k) \/ m.kind = k
        /\ \A r : HasUpdate(inbox', r) <=> HasUpdate(inbox, r) \/ (m.kind = "update" /\ m.route = r)
        /\ CeaseFirst(inbox) /\ (m.kind # "close" \/ Has(inbox, "cease")) => CeaseFirst(inbox')
        /\ OneEor(inbox) /\ (m.kind # "eor" \/ ~Has(inbox, "eor")) => OneEor(inbox')
    BY <2>1, AppendHas
  <2> HIDE <2>1
  <2> QED
    BY <1>1, <2>2
<1>2. CASE ~link
  <2>1. inbox' = inbox
    BY <1>2 DEF Deliver
  <2> QED
    BY <1>2, <2>1
<1> QED
  BY <1>1, <1>2

(* What closing the connection, with or without a CEASE, puts under way.   *)
LEMMA ClosedHas ==
  ASSUME NetTypes, NEW ms \in {<<>>, <<Message("cease")>>}, Close(ms)
  PROVE  /\ ~link => inbox' = inbox
         /\ \A i \in 1 .. Len(inbox') :
              \/ inbox'[i].kind = "close"
              \/ inbox'[i].kind = "cease" /\ ms # <<>>
              \/ \E j \in 1 .. Len(inbox) : inbox'[i] = inbox[j]
         /\ \A k : Has(inbox, k) => Has(inbox', k)
         /\ \A k : k \notin {"cease", "close"} => (Has(inbox', k) <=> Has(inbox, k))
         /\ \A r : HasUpdate(inbox', r) <=> HasUpdate(inbox, r)
         /\ CeaseFirst(inbox) /\ (ms # <<>> \/ Has(inbox, "cease")) => CeaseFirst(inbox')
         /\ OneEor(inbox) => OneEor(inbox')
<1>1. CASE ~link
  <2>1. inbox' = inbox
    BY <1>1 DEF Close, Deliver
  <2> QED
    BY <1>1, <2>1
<1>2. CASE link
  <2>1. PICK n : n = Message("close")
    OBVIOUS
  <2>2. n \in Msg /\ n.kind = "close"
    BY <2>1, MessageTypes DEF Message
  <2>3. CASE ms = <<>>
    <3>1. inbox \in Seq(Msg) /\ inbox' = inbox \o <<n>>
      BY <1>2, <2>1, <2>3 DEF Close, Deliver, NetTypes
    <3>2. /\ inbox' \in Seq(Msg) /\ inbox' # <<>>
          /\ \A i \in 1 .. Len(inbox') :
               inbox'[i] = n \/ \E j \in 1 .. Len(inbox) : inbox'[i] = inbox[j]
          /\ \A k : Has(inbox', k) <=> Has(inbox, k) \/ n.kind = k
          /\ \A r : HasUpdate(inbox', r) <=>
                      HasUpdate(inbox, r) \/ (n.kind = "update" /\ n.route = r)
          /\ CeaseFirst(inbox) /\ (n.kind # "close" \/ Has(inbox, "cease")) => CeaseFirst(inbox')
          /\ OneEor(inbox) /\ (n.kind # "eor" \/ ~Has(inbox, "eor")) => OneEor(inbox')
      BY <2>2, <3>1, AppendHas
    <3> HIDE <2>1, <3>1
    <3> QED
      BY <1>2, <2>2, <2>3, <3>2
  <2>4. CASE ms # <<>>
    <3>1. PICK m : m = Message("cease")
      OBVIOUS
    <3>2. m \in Msg /\ m.kind = "cease"
      BY <3>1, MessageTypes DEF Message
    <3>3. PICK q : q = inbox \o <<m>>
      OBVIOUS
    <3>4. inbox \in Seq(Msg) /\ inbox' = q \o <<n>>
      <4>1. <<m>> \in Seq(Msg) /\ <<n>> \in Seq(Msg) /\ inbox \in Seq(Msg)
        BY <2>2, <3>2 DEF NetTypes
      <4>2. inbox \o (<<m>> \o <<n>>) = (inbox \o <<m>>) \o <<n>>
        BY <4>1, ConcatAssociative
      <4> QED
        BY <1>2, <2>1, <2>4, <3>1, <3>3, <4>1, <4>2 DEF Close, Deliver
    <3> HIDE <2>1, <3>1
    <3>5. /\ q \in Seq(Msg) /\ q # <<>>
          /\ \A i \in 1 .. Len(q) : q[i] = m \/ \E j \in 1 .. Len(inbox) : q[i] = inbox[j]
          /\ \A k : Has(q, k) <=> Has(inbox, k) \/ m.kind = k
          /\ \A r : HasUpdate(q, r) <=> HasUpdate(inbox, r) \/ (m.kind = "update" /\ m.route = r)
          /\ CeaseFirst(inbox) /\ (m.kind # "close" \/ Has(inbox, "cease")) => CeaseFirst(q)
          /\ OneEor(inbox) /\ (m.kind # "eor" \/ ~Has(inbox, "eor")) => OneEor(q)
      BY <3>2, <3>3, <3>4, AppendHas, SMTT(20)
    <3>6. /\ inbox' \in Seq(Msg) /\ inbox' # <<>>
          /\ \A i \in 1 .. Len(inbox') : inbox'[i] = n \/ \E j \in 1 .. Len(q) : inbox'[i] = q[j]
          /\ \A k : Has(inbox', k) <=> Has(q, k) \/ n.kind = k
          /\ \A r : HasUpdate(inbox', r) <=> HasUpdate(q, r) \/ (n.kind = "update" /\ n.route = r)
          /\ CeaseFirst(q) /\ (n.kind # "close" \/ Has(q, "cease")) => CeaseFirst(inbox')
          /\ OneEor(q) /\ (n.kind # "eor" \/ ~Has(q, "eor")) => OneEor(inbox')
      BY <2>2, <3>4, <3>5, AppendHas
    <3>7. \A i \in 1 .. Len(inbox') :
              \/ inbox'[i].kind = "close"
              \/ inbox'[i].kind = "cease" /\ ms # <<>>
              \/ \E j \in 1 .. Len(inbox) : inbox'[i] = inbox[j]
      <4> SUFFICES ASSUME NEW i \in 1 .. Len(inbox')
                   PROVE  \/ inbox'[i].kind = "close"
                          \/ inbox'[i].kind = "cease" /\ ms # <<>>
                          \/ \E j \in 1 .. Len(inbox) : inbox'[i] = inbox[j]
        OBVIOUS
      <4>1. inbox'[i] = n \/ \E j \in 1 .. Len(q) : inbox'[i] = q[j]
        BY <3>6
      <4>2. CASE inbox'[i] = n
        BY <2>2, <4>2
      <4>3. CASE \E j \in 1 .. Len(q) : inbox'[i] = q[j]
        BY <2>4, <3>2, <3>5, <4>3
      <4> QED
        BY <4>1, <4>2, <4>3
    <3> HIDE <3>3, <3>4
    <3> QED
      BY <1>2, <2>2, <3>2, <3>5, <3>6, <3>7
  <2> QED
    BY <2>3, <2>4
<1> QED
  BY <1>1, <1>2

(***************************************************************************)
(* The steps of a script                                                   *)
(***************************************************************************)

(* A scenario that has failed, or whose connection broke, is only kept to  *)
(* its types and to what the next one starts from.                         *)
LEMMA Stopped ==
  ASSUME ScriptTypes', Between', ~Going', Passing'
  PROVE  DInv'
BY DEF DInv, Place, Reference, FirstHalf, FirstNet, FirstTable, FirstHeld, FirstOver,
       SecondHalf, SecondNet, SecondTable, SecondSeen, Isolated

USE DEF Kept, Going, FirstHalf, SecondHalf, Sent, Holds

(* The runner sleeps.                                                      *)
LEMMA PauseStep == ASSUME DInv, mode.directed, Pause PROVE DInv'
<1>1. /\ ScriptTypes /\ Between /\ Place /\ Reference
      /\ FirstNet /\ FirstTable /\ FirstHeld /\ FirstOver
      /\ SecondNet /\ SecondTable /\ SecondSeen /\ Isolated /\ Passing
  BY DEF DInv
<1>2. /\ pc = "script" /\ at <= Len(Script) /\ pc' = "script" /\ at' = at + 1
      /\ PATIENT => (up => inbox = <<>>)
      /\ UNCHANGED <<mode, state, sock, pass, index, timed, failed>>
      /\ UNCHANGED <<link, inbox, breaks, up, dgr, table, left, diverged>>
  BY DEF Pause, Doing, Advance, TimePassed, Settled, net, daemon
<1>3. index \in 1 .. 6 /\ at \in 1 .. 19 /\ breaks \in Nat
  BY <1>1, <1>2 DEF ScriptTypes, NetTypes
<1>4. Kept
  BY <1>2, Unmoved
<1>5. /\ at <= Length
      /\ \/ at \in {PauseAt, LossAt + 1}
         \/ Returning /\ at \in {RestartAt + 1, EorAt + 1}
  BY <1>2, <1>3, Places DEF Pause, Doing
<1>6. at \in 1 .. 16
  BY <1>3, <1>5, Figures
<1>7. inbox = <<>> => AllPlain(inbox) /\ \A r : ~HasUpdate(inbox, r)
  BY EmptyQueue, EmptyHas
<1>a. ScriptTypes'
  BY <1>1, <1>2, <1>4, <1>6 DEF ScriptTypes, NetTypes, DaemonTypes, Wired
<1>b. Between'
  BY <1>1, <1>2, <1>3, <1>4, <1>7, Figures DEF Between
<1>c. Place'
  BY <1>2, <1>4, <1>5, Figures DEF Place
<1>d. Reference'
  BY <1>1, <1>2, <1>3, <1>4, <1>5, <1>7, Figures DEF Reference
<1>e. FirstNet'
  BY <1>1, <1>2, <1>3, <1>4, <1>5, <1>6, <1>7, Figures DEF FirstNet, ScriptTypes, Wired
<1>f. FirstTable'
  BY <1>1, <1>2, <1>4, <1>5, Figures DEF FirstTable
<1>g. FirstHeld'
  BY <1>1, <1>2, <1>4, <1>5, <1>7, Figures DEF FirstHeld, FirstTable, FirstNet, ScriptTypes, Wired
<1>h. FirstOver'
  BY <1>2, <1>4, <1>5, Figures DEF FirstOver
<1>i. SecondNet'
  BY <1>1, <1>2, <1>4, <1>5, <1>7, Figures DEF SecondNet, ScriptTypes, Wired
<1>j. SecondTable'
  BY <1>1, <1>2, <1>4, <1>5, Figures DEF SecondTable
<1>k. SecondSeen'
  BY <1>1, <1>2, <1>4, <1>5, Figures DEF SecondSeen
<1>l. Isolated'
  BY <1>1, <1>2, <1>4, <1>5, Figures DEF Isolated
<1>m. Passing'
  BY <1>1, <1>2, <1>4 DEF Passing, Conforming
<1> QED
  BY <1>a, <1>b, <1>c, <1>d, <1>e, <1>f, <1>g, <1>h, <1>i, <1>j, <1>k, <1>l, <1>m DEF DInv

(* Nothing that the invariant is about changes.                            *)
LEMMA DirectedStutter ==
  ASSUME DInv, mode.directed, UNCHANGED <<evars, at, failed>>
  PROVE  DInv'
<1>1. /\ UNCHANGED <<mode, state, pc, sock, pass, index, timed, at, failed>>
      /\ UNCHANGED <<link, inbox, breaks, up, dgr, table, left, diverged>>
  BY DEF evars, runner, net, daemon
<1>2. Kept
  BY <1>1, Unmoved
<1> QED
  BY <1>1, <1>2
     DEF DInv, ScriptTypes, NetTypes, DaemonTypes, Wired, Between, Place, Reference, FirstNet,
         FirstTable, FirstHeld, FirstOver, SecondNet, SecondTable, SecondSeen, Isolated, Passing,
         Conforming

(* The runner looks for a route, or would.                                 *)
LEMMA CheckStep ==
  ASSUME DInv, mode.directed, CheckHit \/ CheckMiss \/ CheckSkipped, at' # at
  PROVE  DInv'
<1>1. /\ ScriptTypes /\ Between /\ Place /\ Reference
      /\ FirstNet /\ FirstTable /\ FirstHeld /\ FirstOver
      /\ SecondNet /\ SecondTable /\ SecondSeen /\ Isolated /\ Passing
  BY DEF DInv
<1>2. PICK r : r = Script[at].route
  OBVIOUS
<1>3. /\ pc = "script" /\ at <= Len(Script) /\ pc' = "script" /\ at' = at + 1
      /\ UNCHANGED <<mode, state, sock, index, timed, failed>>
      /\ UNCHANGED <<link, inbox, breaks, up, dgr, table, left, diverged>>
      /\ pass' <=> pass /\ (COVERAGE \/ (table[r] # ABSENT <=> state.routes[r] # ABSENT))
      /\ pass' \in BOOLEAN
  <2>1. pass \in BOOLEAN
    BY <1>1 DEF ScriptTypes
  <2>2. CASE CheckHit
    BY <1>2, <2>2 DEF CheckHit, Querying, InTable, Judge, Doing, Advance, present, net, daemon
  <2>3. CASE CheckMiss
    BY <1>2, <2>3 DEF CheckMiss, Querying, InTable, Judge, Doing, Advance, present, net, daemon
  <2>4. CASE CheckSkipped
    BY <2>1, <2>4 DEF CheckSkipped, Doing, Advance, net, daemon
  <2> QED
    BY <2>2, <2>3, <2>4
<1>4. /\ index \in 1 .. 6 /\ at \in 1 .. 19 /\ breaks \in Nat /\ table \in Routing
      /\ pass \in BOOLEAN
  BY <1>1, <1>3 DEF ScriptTypes, NetTypes, DaemonTypes
<1>5. Kept
  BY <1>3, Unmoved
<1>6. /\ at <= Length
      /\ \/ /\ r = Route1
            /\ \/ at \in {PauseAt + 1, LossAt + 2}
               \/ Expiring /\ at = RestartAt + 1
               \/ Returning /\ at \in {RestartAt + 2, EorAt + 2}
         \/ second_route /\ at \in {LossAt - 1, CeaseAt - 1} /\ r = Route2
  <2>1. Script[at].op = "check"
    BY DEF CheckHit, CheckMiss, CheckSkipped, Querying, Doing
  <2> QED
    BY <1>2, <1>3, <1>4, <2>1, Places
<1> HIDE <1>2
<1>7. at \in 1 .. 18
  BY <1>4, <1>6, Figures
<1>p. /\ at' <= LossAt <=> at <= LossAt
      /\ at' > LossAt <=> at > LossAt
      /\ at > PauseAt /\ at > 1 /\ (at' > LossAt + 1 => at > LossAt + 1)
      /\ at' > RestartAt /\ Returning <=> at > RestartAt /\ Returning
  BY <1>3, <1>4, <1>6, Figures, Kinds
<1>q. SecondHalf' =>
        /\ SecondHalf /\ at <= CeaseAt /\ ~(at' > CeaseAt)
        /\ Sent(EorAt) => Sent(EorAt)'
        /\ Sent(ResendAt) => Sent(ResendAt)'
        /\ at' <= ResendAt => at <= ResendAt
        /\ EorAt + 1 < at' => EorAt + 1 < at
  BY <1>3, <1>5, <1>6, Figures, Kinds
<1>8. /\ table \in [Routes -> {"ABSENT", "ACTIVE", "STALE"}]
      /\ ABSENT = "ABSENT" /\ ACTIVE = "ACTIVE" /\ STALE = "STALE"
      /\ table[Route1] = ABSENT /\ table[Route2] = ABSENT => table = NoRoutes
      /\ NoRoutes[Route1] = ABSENT /\ NoRoutes[Route2] = ABSENT
  BY <1>4, TheRoutes DEF Routing, RouteState, NoRoutes, ABSENT, ACTIVE, STALE
<1>9. inbox = <<>> => (\A s : ~HasUpdate(inbox, s)) /\ \A k : ~Has(inbox, k)
  BY EmptyHas
<1>a. ScriptTypes'
  BY <1>1, <1>3, <1>5, <1>7 DEF ScriptTypes, NetTypes, DaemonTypes, Wired
<1>b. Between'
  BY <1>1, <1>3, <1>5, <1>6, Figures, Kinds, TheRoutes DEF Between
<1>c. Place'
  BY <1>3, <1>5, <1>6, Figures DEF Place
<1>d. Reference'
  BY SMTT(20), <1>1, <1>3, <1>5, <1>6, Figures, Kinds DEF Reference
<1>e. FirstNet'
  BY <1>1, <1>3, <1>5, <1>p DEF FirstNet
<1>f. FirstTable'
  BY <1>1, <1>3, <1>5, <1>6, Figures, Kinds DEF FirstTable
<1>g. FirstHeld'
  BY <1>1, <1>3, <1>4, <1>5, <1>6, <1>8, Figures, Kinds, TheRoutes
     DEF FirstHeld, FirstTable, Reference, NoneIn
<1>h. FirstOver'
  BY <1>1, <1>3, <1>4, <1>5, <1>6, <1>8, Figures, Kinds
     DEF FirstOver, FirstTable, FirstNet, FirstHeld, Reference
<1>i. SecondNet'
  BY <1>1, <1>3, <1>5, <1>q DEF SecondNet
<1>j. SecondTable'
  BY SMTT(20), <1>1, <1>3, <1>5, <1>6, Figures DEF SecondTable
<1>k. SecondSeen'
  BY <1>1, <1>3, <1>5, <1>6, <1>8, Figures, TheRoutes
     DEF SecondSeen, Reference, NoneIn, SecondTable
<1>l. Isolated'
  BY <1>1, <1>3, <1>5, <1>6, <1>9, Figures DEF Isolated
<1>m. Passing'
  BY SMTT(20), <1>1, <1>3, <1>5, <1>6, <1>8, <1>9, Figures, Kinds, TheRoutes
     DEF Passing, Conforming, FirstNet, FirstTable, FirstHeld, FirstOver, SecondNet, SecondTable,
         ScriptTypes, Wired, Reference, NoneIn
<1> QED
  BY <1>a, <1>b, <1>c, <1>d, <1>e, <1>f, <1>g, <1>h, <1>i, <1>j, <1>k, <1>l, <1>m DEF DInv

(* The script is over.                                                     *)
LEMMA ReturnStep == ASSUME DInv, mode.directed, Return PROVE DInv'
<1>1. /\ ScriptTypes /\ Between /\ Place /\ Reference
      /\ FirstNet /\ FirstTable /\ FirstHeld /\ FirstOver
      /\ SecondNet /\ SecondTable /\ SecondSeen /\ Isolated /\ Passing
  BY DEF DInv
<1>2. /\ pc = "script" /\ at > Len(Script) /\ pc' = "finally"
      /\ UNCHANGED <<mode, state, sock, pass, index, timed, failed, at>>
      /\ UNCHANGED <<link, inbox, breaks, up, dgr, table, left, diverged>>
  BY DEF Return, svars, net, daemon
<1>3. index \in 0 .. 6 /\ at \in 1 .. 19 /\ breaks \in Nat
  BY <1>1 DEF ScriptTypes, NetTypes
<1>4. Kept
  BY <1>2, Unmoved
<1>5. index # 0 /\ at > Length
  BY <1>1, <1>2, <1>3, ScriptLength DEF ScriptTypes
<1>a. ScriptTypes'
  BY <1>1, <1>2, <1>4 DEF ScriptTypes, NetTypes, DaemonTypes, Wired, DirectedPc
<1>b. Between'
  BY <1>1, <1>2 DEF Between
<1>c. Place'
  BY <1>1, <1>2, <1>3, <1>4, <1>5, Figures DEF Place
<1>d. Reference'
  BY <1>2 DEF Reference
<1>e. FirstNet'
  BY <1>1, <1>2, <1>4 DEF FirstNet
<1>f. FirstTable'
  BY <1>1, <1>2, <1>4 DEF FirstTable
<1>g. FirstHeld'
  BY <1>1, <1>2, <1>4 DEF FirstHeld
<1>h. FirstOver'
  BY <1>1, <1>2, <1>4 DEF FirstOver
<1>i. SecondNet'
  BY <1>1, <1>2, <1>4 DEF SecondNet
<1>j. SecondTable'
  BY <1>1, <1>2, <1>4 DEF SecondTable
<1>k. SecondSeen'
  BY <1>1, <1>2, <1>4 DEF SecondSeen
<1>l. Isolated'
  BY <1>1, <1>2, <1>4 DEF Isolated
<1>m. Passing'
  BY <1>1, <1>2, <1>4 DEF Passing, Conforming
<1> QED
  BY <1>a, <1>b, <1>c, <1>d, <1>e, <1>f, <1>g, <1>h, <1>i, <1>j, <1>k, <1>l, <1>m DEF DInv

(* The runner gives the daemon time before the next scenario.              *)
LEMMA SettleStep == ASSUME DInv, mode.directed, Settle PROVE DInv'
<1>1. /\ ScriptTypes /\ Between /\ Place /\ Reference
      /\ FirstNet /\ FirstTable /\ FirstHeld /\ FirstOver
      /\ SecondNet /\ SecondTable /\ SecondSeen /\ Isolated /\ Passing
  BY DEF DInv
<1>2. /\ pc = "settle" /\ pc' = "idle" /\ (PATIENT => (up => inbox = <<>>))
      /\ UNCHANGED <<mode, state, sock, pass, index, timed, failed, at>>
      /\ UNCHANGED <<link, inbox, breaks, up, dgr, table, left, diverged>>
  BY DEF Settle, TimePassed, Settled, svars, net, daemon
<1>3. index \in 0 .. 6 /\ at \in 1 .. 19 /\ breaks \in Nat
  BY <1>1 DEF ScriptTypes, NetTypes
<1>4. Kept
  BY <1>2, Unmoved
<1>5. ~link /\ (inbox = <<>> => AllPlain(inbox)) /\ index # 0
  BY <1>1, <1>2, EmptyQueue DEF Between, ScriptTypes
<1>a. ScriptTypes'
  BY <1>1, <1>2, <1>4 DEF ScriptTypes, NetTypes, DaemonTypes, Wired, DirectedPc
<1>b. Between'
  BY <1>1, <1>2, <1>4, <1>5 DEF Between, ScriptTypes, Wired
<1>c. Place'
  BY <1>1, <1>2, <1>4 DEF Place
<1>d. Reference'
  BY <1>2 DEF Reference
<1>e. FirstNet'
  BY <1>1, <1>2, <1>4 DEF FirstNet
<1>f. FirstTable'
  BY <1>1, <1>2, <1>4 DEF FirstTable
<1>g. FirstHeld'
  BY <1>1, <1>2, <1>4 DEF FirstHeld
<1>h. FirstOver'
  BY <1>1, <1>2, <1>4 DEF FirstOver
<1>i. SecondNet'
  BY <1>1, <1>2, <1>4 DEF SecondNet
<1>j. SecondTable'
  BY <1>1, <1>2, <1>4 DEF SecondTable
<1>k. SecondSeen'
  BY <1>1, <1>2, <1>4 DEF SecondSeen
<1>l. Isolated'
  BY <1>1, <1>2, <1>4 DEF Isolated
<1>m. Passing'
  BY <1>1, <1>2, <1>4 DEF Passing, Conforming
<1> QED
  BY <1>a, <1>b, <1>c, <1>d, <1>e, <1>f, <1>g, <1>h, <1>i, <1>j, <1>k, <1>l, <1>m DEF DInv

(* The run is over.                                                        *)
LEMMA FinishScenariosStep == ASSUME DInv, mode.directed, FinishScenarios PROVE DInv'
<1>1. /\ ScriptTypes /\ Between /\ Place /\ Reference
      /\ FirstNet /\ FirstTable /\ FirstHeld /\ FirstOver
      /\ SecondNet /\ SecondTable /\ SecondSeen /\ Isolated /\ Passing
  BY DEF DInv
<1>2. /\ pc = "idle" /\ pc' = "done" /\ index = 6
      /\ UNCHANGED <<mode, state, sock, pass, index, timed, failed, at>>
      /\ UNCHANGED <<link, inbox, breaks, up, dgr, table, left, diverged>>
  BY DEF FinishScenarios, SCENARIOS, svars, net, daemon
<1>3. index \in 0 .. 6 /\ at \in 1 .. 19 /\ breaks \in Nat
  BY <1>1 DEF ScriptTypes, NetTypes
<1>4. Kept
  BY <1>2, Unmoved
<1>a. ScriptTypes'
  BY <1>1, <1>2, <1>4 DEF ScriptTypes, NetTypes, DaemonTypes, Wired, DirectedPc
<1>b. Between'
  BY <1>1, <1>2 DEF Between
<1>c. Place'
  BY <1>1, <1>2, <1>4 DEF Place
<1>d. Reference'
  BY <1>2 DEF Reference
<1>e. FirstNet'
  BY <1>1, <1>2, <1>4 DEF FirstNet
<1>f. FirstTable'
  BY <1>1, <1>2, <1>4 DEF FirstTable
<1>g. FirstHeld'
  BY <1>1, <1>2, <1>4 DEF FirstHeld
<1>h. FirstOver'
  BY <1>1, <1>2, <1>4 DEF FirstOver
<1>i. SecondNet'
  BY <1>1, <1>2, <1>4 DEF SecondNet
<1>j. SecondTable'
  BY <1>1, <1>2, <1>4 DEF SecondTable
<1>k. SecondSeen'
  BY <1>1, <1>2, <1>4 DEF SecondSeen
<1>l. Isolated'
  BY <1>1, <1>2, <1>4 DEF Isolated
<1>m. Passing'
  BY <1>1, <1>2, <1>4 DEF Passing, Conforming
<1> QED
  BY <1>a, <1>b, <1>c, <1>d, <1>e, <1>f, <1>g, <1>h, <1>i, <1>j, <1>k, <1>l, <1>m DEF DInv

(* The runner begins to sleep for the restart time.                        *)
LEMMA SleepExpireStep == ASSUME DInv, mode.directed, SleepExpire PROVE DInv'
<1>1. /\ ScriptTypes /\ Between /\ Place /\ Reference
      /\ FirstNet /\ FirstTable /\ FirstHeld /\ FirstOver
      /\ SecondNet /\ SecondTable /\ SecondSeen /\ Isolated /\ Passing
  BY DEF DInv
<1>2. /\ pc = "script" /\ at <= Len(Script) /\ pc' = "expire"
      /\ UNCHANGED <<mode, state, sock, pass, index, timed, failed, at>>
      /\ UNCHANGED <<link, inbox, breaks, up, dgr, table, left, diverged>>
  BY DEF SleepExpire, Doing, svars, net, daemon
<1>3. index \in 0 .. 6 /\ at \in 1 .. 19 /\ breaks \in Nat
  BY <1>1 DEF ScriptTypes, NetTypes
<1>4. Kept
  BY <1>2, Unmoved
<1>5. index \in 1 .. 6 /\ Expiring /\ at = RestartAt /\ at <= Length
  <2>1. index \in 1 .. 6
    BY <1>1, <1>2, <1>3 DEF ScriptTypes
  <2> QED
    BY <1>3, <2>1, Places DEF SleepExpire, Doing
<1>a. ScriptTypes'
  BY <1>1, <1>2, <1>4, <1>5 DEF ScriptTypes, NetTypes, DaemonTypes, Wired, DirectedPc
<1>b. Between'
  BY <1>1, <1>2, <1>4 DEF Between
<1>c. Place'
  BY <1>1, <1>2, <1>4, <1>5 DEF Place
<1>d. Reference'
  BY <1>1, <1>2, <1>4 DEF Reference
<1>e. FirstNet'
  BY <1>1, <1>2, <1>4 DEF FirstNet
<1>f. FirstTable'
  BY <1>1, <1>2, <1>4 DEF FirstTable
<1>g. FirstHeld'
  BY <1>1, <1>2, <1>4 DEF FirstHeld
<1>h. FirstOver'
  BY <1>1, <1>2, <1>4 DEF FirstOver
<1>i. SecondNet'
  BY <1>1, <1>2, <1>4 DEF SecondNet
<1>j. SecondTable'
  BY <1>1, <1>2, <1>4 DEF SecondTable
<1>k. SecondSeen'
  BY <1>1, <1>2, <1>4 DEF SecondSeen
<1>l. Isolated'
  BY <1>1, <1>2, <1>4 DEF Isolated
<1>m. Passing'
  BY <1>1, <1>2, <1>4 DEF Passing, Conforming
<1> QED
  BY <1>a, <1>b, <1>c, <1>d, <1>e, <1>f, <1>g, <1>h, <1>i, <1>j, <1>k, <1>l, <1>m DEF DInv

(* An operation raises.                                                    *)
LEMMA RaisesStep ==
  ASSUME DInv, mode.directed, SendOpRaises \/ CeaseOpRaises \/ CheckRaises
  PROVE  DInv'
<1>1. /\ ScriptTypes /\ Between /\ Place /\ Reference
      /\ FirstNet /\ FirstTable /\ FirstHeld /\ FirstOver
      /\ SecondNet /\ SecondTable /\ SecondSeen /\ Isolated /\ Passing
  BY DEF DInv
<1>2. /\ pc \in {"script", "sending"} /\ pc' \in {"finally", "raising"} /\ pass' = FALSE
      /\ UNCHANGED <<mode, state, sock, index, timed, failed, at>>
      /\ UNCHANGED <<link, inbox, breaks, up, dgr, table, left, diverged>>
  BY DEF SendOpRaises, CeaseOpRaises, CheckRaises, Querying, Doing, ErrorOut, svars, net, daemon
<1>3. index \in 0 .. 6 /\ at \in 1 .. 19 /\ breaks \in Nat
  BY <1>1 DEF ScriptTypes, NetTypes
<1>4. Kept
  BY <1>2, Unmoved
<1>5. index \in 1 .. 6
  BY <1>1, <1>2, <1>3 DEF ScriptTypes
<1>6. ~Going'
  BY <1>2
<1>7. ~Conforming
  <2> SUFFICES ASSUME Conforming
               PROVE  FALSE
    OBVIOUS
  <2>1. Going /\ PATIENT
    BY <1>1, <1>5 DEF Passing, Conforming
  <2>2. CASE SendOpRaises
    BY <1>1, <1>3, <2>1, <2>2, Figures, Kinds DEF SendOpRaises, Place, FirstNet, SecondNet
  <2>3. CASE CeaseOpRaises
    <3>1. /\ ~link /\ at <= Len(Script)
          /\ Script[at].op = "cease" \/ Script[at].op = "notify"
      BY <2>3 DEF CeaseOpRaises, Doing
    <3>2. (at = CeaseAt /\ Returning) \/ (at = LossAt /\ Notifying)
      BY <1>3, <1>5, <3>1, Places
    <3> QED
      BY <1>1, <2>1, <3>1, <3>2, Figures DEF FirstNet, SecondNet
  <2>4. CASE CheckRaises
    BY <2>1, <2>4 DEF CheckRaises
  <2> QED
    BY <2>2, <2>3, <2>4
<1>a. ScriptTypes'
  BY <1>1, <1>2, <1>4 DEF ScriptTypes, NetTypes, DaemonTypes, Wired, DirectedPc
<1>b. Between'
  BY <1>1, <1>2 DEF Between
<1>c. Passing'
  BY <1>2, <1>4, <1>7 DEF Passing, Conforming
<1> QED
  BY <1>6, <1>a, <1>b, <1>c, Stopped

(* The restart time has passed, and more if the runner is patient.         *)
LEMMA AwakeExpiredStep == ASSUME DInv, mode.directed, AwakeExpired PROVE DInv'
<1>1. /\ ScriptTypes /\ Between /\ Place /\ Reference
      /\ FirstNet /\ FirstTable /\ FirstHeld /\ FirstOver
      /\ SecondNet /\ SecondTable /\ SecondSeen /\ Isolated /\ Passing
  BY DEF DInv
<1>2. /\ pc = "expire" /\ pc' = "script" /\ at' = at + 1 /\ state' = Swept(state)
      /\ PATIENT => \A r \in Routes : table[r] # STALE
      /\ UNCHANGED <<mode, sock, pass, index, timed, failed>>
      /\ UNCHANGED <<link, inbox, breaks, up, dgr, table, left, diverged>>
  BY DEF AwakeExpired, TimePassed, Settled, Sleeping, Advance, net, daemon
<1>3. /\ index \in 1 .. 6 /\ at \in 1 .. 18 /\ at <= Length /\ breaks \in Nat
      /\ state \in GrState /\ table \in Routing
  BY <1>1, <1>2, Figures DEF ScriptTypes, NetTypes, DaemonTypes
<1>4. Kept
  BY <1>2, Unmoved
<1>5. Going => Expiring /\ at = RestartAt /\ ~second_route
  BY <1>1, <1>2, <1>3, Kinds DEF Place
<1>6. /\ state' \in GrState /\ state'.gr_enabled = state.gr_enabled
      /\ state'.connected = state.connected
      /\ state.routes[Route1] = STALE => state'.routes[Route1] = ABSENT
  BY <1>2, <1>3, StepTypes, TheRoutes DEF Swept, Sweep
<1>7. (\A r \in Routes : table[r] # STALE) /\ NoneIn(table, ACTIVE) => table = NoRoutes
  BY <1>3, SweptRoutes DEF Routing, RouteState, NoneIn
<1>a. ScriptTypes'
  BY SMTT(20), <1>1, <1>2, <1>3, <1>4, <1>6
     DEF ScriptTypes, NetTypes, DaemonTypes, Wired, DirectedPc
<1>b. Between'
  BY <1>1, <1>2, <1>3, <1>4, <1>5, Figures DEF Between
<1>c. Place'
  BY <1>2, <1>3, <1>4, Figures DEF Place
<1>d. Reference'
  BY <1>1, <1>2, <1>3, <1>4, <1>5, Figures, Kinds, <1>6 DEF Reference
<1>e. FirstNet'
  BY <1>1, <1>2, <1>4, <1>5, Figures DEF FirstNet
<1>f. FirstTable'
  BY <1>1, <1>2, <1>4, <1>5, Figures DEF FirstTable
<1>g. FirstHeld'
  BY <1>1, <1>2, <1>4, <1>5, Figures DEF FirstHeld
<1>h. FirstOver'
  BY <1>1, <1>2, <1>4, <1>5, Figures, <1>7 DEF FirstOver, FirstTable, FirstNet
<1>i. SecondNet'
  BY <1>2, <1>3, <1>4, <1>5, Kinds DEF SecondNet
<1>j. SecondTable'
  BY <1>2, <1>3, <1>4, <1>5, Kinds DEF SecondTable
<1>k. SecondSeen'
  BY <1>2, <1>3, <1>4, <1>5, Kinds DEF SecondSeen
<1>l. Isolated'
  BY <1>1, <1>2, <1>4, <1>5, Figures DEF Isolated
<1>m. Passing'
  BY <1>1, <1>2, <1>4 DEF Passing, Conforming
<1> QED
  BY <1>a, <1>b, <1>c, <1>d, <1>e, <1>f, <1>g, <1>h, <1>i, <1>j, <1>k, <1>l, <1>m DEF DInv

(* What was sent did not raise: the reference state moves.                 *)
LEMMA SendOpOkStep == ASSUME DInv, mode.directed, SendOpOk PROVE DInv'
<1>1. /\ ScriptTypes /\ Between /\ Place /\ Reference
      /\ FirstNet /\ FirstTable /\ FirstHeld /\ FirstOver
      /\ SecondNet /\ SecondTable /\ SecondSeen /\ Isolated /\ Passing
  BY DEF DInv
<1>2. /\ pc = "sending" /\ pc' = "script" /\ at' = at + 1
      /\ state' = IF Script[at].op = "eor" THEN Swept(state) ELSE Learned(state, Script[at].route)
      /\ UNCHANGED <<mode, sock, pass, index, timed, failed>>
      /\ UNCHANGED <<link, inbox, breaks, up, dgr, table, left, diverged>>
  BY DEF SendOpOk, Advance, net, daemon
<1>3. /\ index \in 1 .. 6 /\ at \in 1 .. 18 /\ at <= Length /\ breaks \in Nat
      /\ state \in GrState
  BY <1>1, <1>2, Figures DEF ScriptTypes, NetTypes
<1>4. Kept
  BY <1>2, Unmoved
<1>5. Going => \/ at = 2
               \/ second_route /\ at \in {3, 13}
               \/ Returning /\ at = EorAt
  BY <1>1, <1>2 DEF Place
<1>6. state' \in GrState
  <2>1. Script[at].route \in Routes
    BY <1>3, ScriptLength, Places DEF Ops
  <2> QED
    BY <1>2, <1>3, <2>1, StepTypes
<1>7. /\ state'.gr_enabled = state.gr_enabled /\ state'.connected = state.connected
  BY <1>2 DEF Swept, Learned
<1>8. Going /\ at = 2 => state'.routes[Route1] = ACTIVE
  <2>1. Script[2] = Op("announce", Route1)
    BY <1>3, ScriptIs
  <2> QED
    BY <1>1, <1>2, <1>3, <2>1, Figures, TheRoutes DEF Reference, Op, Learned, GrState
<1>9. Going /\ second_route /\ at = 3 =>
        state'.routes[Route2] = ACTIVE /\ state'.routes[Route1] = state.routes[Route1]
  <2>1. second_route => Script[3] = Op("announce", Route2)
    BY <1>3, ScriptIs
  <2> QED
    BY <1>1, <1>2, <1>3, <2>1, Figures, TheRoutes DEF Reference, Op, Learned, GrState
<1>10. Going /\ second_route /\ at = 13 =>
         state'.routes[Route1] = ACTIVE /\ state'.routes[Route2] = state.routes[Route2]
  <2>1. second_route => Script[13] = Op("refresh", Route1)
    BY <1>3, ScriptIs
  <2> QED
    BY <1>1, <1>2, <1>3, <2>1, Figures, TheRoutes DEF Reference, Op, Learned, GrState
<1>11. Going /\ Returning /\ at = EorAt =>
         /\ state'.routes[LastRoute] = ABSENT
         /\ second_route => state'.routes[Route1] = ACTIVE
  <2>1. Returning => Script[EorAt] = Op("eor", Route1)
    BY <1>3, ScriptIs
  <2>2. ASSUME Going, Returning, at = EorAt
        PROVE  state' = Swept(state)
    BY <1>2, <2>1, <2>2 DEF Op
  <2>3. \A r \in Routes : Swept(state).routes[r] = Sweep(state.routes[r])
    BY <1>3 DEF Swept, GrState
  <2>4. ASSUME Going, Returning, at = EorAt
        PROVE  /\ ~second_route => state.routes[Route1] \in {STALE, ABSENT}
               /\ second_route => state.routes[Route1] = ACTIVE /\ state.routes[Route2] = STALE
    BY <1>1, <1>2, <2>4, Figures DEF Reference
  <2> QED
    BY <2>2, <2>3, <2>4, Figures, TheRoutes DEF Sweep, ACTIVE, STALE
<1>a. ScriptTypes'
  BY <1>1, <1>2, <1>3, <1>4, <1>6 DEF ScriptTypes, NetTypes, DaemonTypes, Wired, DirectedPc
<1>b. Between'
  BY <1>1, <1>2, <1>3, <1>4, Figures DEF Between
<1>c. Place'
  BY <1>2, <1>3, <1>4, Figures DEF Place
<1>d. Reference'
  BY <1>1, <1>2, <1>3, <1>4, <1>5, Figures, Kinds, <1>7, <1>8, <1>9, <1>10, <1>11 DEF Reference
<1>e. FirstNet'
  BY <1>1, <1>2, <1>4, <1>5, Figures DEF FirstNet
<1>f. FirstTable'
  BY <1>1, <1>2, <1>4, <1>5, Figures DEF FirstTable
<1>g. FirstHeld'
  BY <1>1, <1>2, <1>4, <1>5, Figures DEF FirstHeld
<1>h. FirstOver'
  BY <1>1, <1>2, <1>4, <1>5, Figures DEF FirstOver
<1>i. SecondNet'
  BY <1>1, <1>2, <1>4, <1>5, Figures DEF SecondNet
<1>j. SecondTable'
  BY <1>1, <1>2, <1>4, <1>5, Figures DEF SecondTable
<1>k. SecondSeen'
  BY <1>1, <1>2, <1>4, <1>5, Figures DEF SecondSeen
<1>l. Isolated'
  BY <1>1, <1>2, <1>4, <1>5, Figures DEF Isolated
<1>m. Passing'
  BY <1>1, <1>2, <1>4 DEF Passing, Conforming
<1> QED
  BY <1>a, <1>b, <1>c, <1>d, <1>e, <1>f, <1>g, <1>h, <1>i, <1>j, <1>k, <1>l, <1>m DEF DInv

(* The runner sends an announcement or the End-of-RIB.                     *)
LEMMA SendOpStep == ASSUME DInv, mode.directed, SendOp PROVE DInv'
<1>1. /\ ScriptTypes /\ Between /\ Place /\ Reference
      /\ FirstNet /\ FirstTable /\ FirstHeld /\ FirstOver
      /\ SecondNet /\ SecondTable /\ SecondSeen /\ Isolated /\ Passing
  BY DEF DInv
<1>2. /\ pc = "script" /\ pc' = "sending" /\ at <= Len(Script)
      /\ UNCHANGED <<mode, state, sock, pass, index, timed, failed, at>>
      /\ UNCHANGED <<link, breaks, up, dgr, table, left, diverged>>
  BY DEF SendOp, Doing, svars, daemon
<1>3. /\ index \in 1 .. 6 /\ at \in 1 .. 19 /\ at <= Length /\ NetTypes
  BY <1>1, <1>2, ScriptLength DEF ScriptTypes
<1>4. Kept
  BY <1>2, Unmoved
<1>5. PICK m : m = IF Script[at].op = "eor" THEN Message("eor") ELSE Update(Script[at].route)
  OBVIOUS
<1>6. /\ m \in Msg /\ Plain(m) /\ Deliver(<<m>>)
      /\ \/ m.kind = "eor" /\ Returning /\ at = EorAt
         \/ /\ m.kind = "update" /\ m.trace = index
            /\ \/ at = 2 /\ m.route = Route1
               \/ second_route /\ at = 3 /\ m.route = Route2
               \/ second_route /\ at = ResendAt /\ m.route = Route1
  <2>1. PICK o : o = Script[at]
    OBVIOUS
  <2>2. /\ o \in Ops
        /\ o.op = "announce" =>
             (at = 2 /\ o.route = Route1) \/ (second_route /\ at = 3 /\ o.route = Route2)
        /\ o.op = "refresh" => second_route /\ at = ResendAt /\ o.route = Route1
        /\ o.op = "eor" => Returning /\ at = EorAt
    BY <1>2, <1>3, <2>1, Places
  <2>3. o.op \in {"announce", "refresh", "eor"}
    BY <2>1 DEF SendOp, Doing
  <2>4. m = IF o.op = "eor" THEN Message("eor") ELSE Update(o.route)
    BY <1>5, <2>1
  <2>5. Deliver(<<m>>)
    BY <1>5 DEF SendOp
  <2> HIDE <1>5, <2>1
  <2>6. o.route \in Routes /\ index \in Nat
    BY <1>3, <2>2 DEF Ops
  <2>7. CASE o.op = "eor"
    BY <2>2, <2>4, <2>5, <2>7, MessageTypes DEF Message
  <2>8. CASE o.op # "eor"
    <3>1. m = Update(o.route)
      BY <2>4, <2>8
    <3>2. m \in Msg /\ Plain(m)
      BY <2>6, <3>1, MessageTypes
    <3>3. m.kind = "update" /\ m.trace = index /\ m.route = o.route
      BY <3>1 DEF Update
    <3> QED
      BY <2>2, <2>3, <2>5, <2>8, <3>2, <3>3
  <2> QED
    BY <2>7, <2>8
<1> HIDE <1>5
<1>7. /\ ~link => inbox' = inbox
      /\ inbox' \in Seq(Msg)
      /\ Unclosed(inbox) => Unclosed(inbox')
      /\ ~AllPlain(inbox) => ~AllPlain(inbox')
  BY <1>3, <1>6, Delivered
<1>8. /\ \A i \in 1 .. Len(inbox') :
           inbox'[i] = m \/ \E j \in 1 .. Len(inbox) : inbox'[i] = inbox[j]
      /\ \A k : /\ Has(inbox', k) => Has(inbox, k) \/ m.kind = k
                /\ Has(inbox, k) => Has(inbox', k)
      /\ link => Has(inbox', m.kind)
      /\ \A r : /\ HasUpdate(inbox, r) => HasUpdate(inbox', r)
                /\ link /\ m.kind = "update" /\ m.route = r => HasUpdate(inbox', r)
      /\ CeaseFirst(inbox) => CeaseFirst(inbox')
      /\ OneEor(inbox) /\ (m.kind # "eor" \/ ~Has(inbox, "eor")) => OneEor(inbox')
  BY <1>3, <1>6, DeliveredHas
<1>9. /\ at \in {2, 3, 11, 13, 14} /\ (link => up)
  BY <1>1, <1>6, Figures DEF ScriptTypes, Wired
<1>a. ScriptTypes'
  BY <1>1, <1>2, <1>3, <1>4, <1>7 DEF ScriptTypes, NetTypes, DaemonTypes, Wired, DirectedPc
<1>b. Between'
  BY <1>1, <1>2, <1>3, <1>4, <1>6, <1>7, <1>8, <1>9, Figures, Kinds DEF Between
<1>c. Place'
  BY <1>2, <1>4, <1>6, Figures DEF Place
<1>d. Reference'
  BY <1>1, <1>2, <1>4 DEF Reference
<1>e. FirstNet'
  <2>1. FirstHalf' <=> FirstHalf
    BY <1>2, <1>4
  <2>2. ASSUME FirstHalf
        PROVE  /\ at <= PauseAt /\ at <= LossAt /\ ~(at > LossAt + 1) /\ ~(PauseAt < at)
               /\ m.kind = "update" /\ m.trace = index /\ (second_route \/ m.route = Route1)
    BY <1>3, <1>6, <2>2, Figures
  <2>3. ASSUME FirstHalf, NEW i \in 1 .. Len(inbox')
        PROVE  \/ /\ inbox'[i].kind = "update" /\ inbox'[i].trace = index
                  /\ second_route \/ inbox'[i].route = Route1
               \/ inbox'[i].kind = "cease" /\ Notifying /\ at > LossAt
               \/ inbox'[i].kind = "close" /\ at > LossAt
    <3>1. CASE inbox'[i] = m
      BY <2>2, <2>3, <3>1
    <3>2. CASE \E j \in 1 .. Len(inbox) : inbox'[i] = inbox[j]
      BY <1>1, <2>3, <3>2 DEF FirstNet
    <3> QED
      BY <1>8, <2>3, <3>1, <3>2
  <2>4. FirstHalf => (dgr <=> gr_enabled) /\ link /\ (Notifying => CeaseFirst(inbox'))
    BY <1>1, <1>8, <2>2 DEF FirstNet
  <2> QED
    BY <1>2, <1>4, <2>2, <2>3, <2>4 DEF FirstNet
<1>f. FirstTable'
  BY <1>1, <1>2, <1>4, <1>6, <1>8, Figures DEF FirstTable, FirstNet
<1>g. FirstHeld'
  BY <1>1, <1>2, <1>4 DEF FirstHeld
<1>h. FirstOver'
  BY <1>1, <1>2, <1>4 DEF FirstOver
<1>i. SecondNet'
  BY SMTT(20), <1>1, <1>2, <1>3, <1>4, <1>6, <1>8, <1>9, Figures, Kinds DEF SecondNet
<1>j. SecondTable'
  BY <1>1, <1>2, <1>4, <1>6, <1>8, Figures DEF SecondTable, SecondNet
<1>k. SecondSeen'
  BY <1>1, <1>2, <1>4, <1>6, Figures DEF SecondSeen
<1>l. Isolated'
  BY <1>1, <1>2, <1>4, <1>8 DEF Isolated
<1>m. Passing'
  BY <1>1, <1>2, <1>4 DEF Passing, Conforming
<1> QED
  BY <1>a, <1>b, <1>c, <1>d, <1>e, <1>f, <1>g, <1>h, <1>i, <1>j, <1>k, <1>l, <1>m DEF DInv

(* The runner sends a CEASE.                                               *)
LEMMA CeaseOpStep == ASSUME DInv, mode.directed, CeaseOp PROVE DInv'
<1>1. /\ ScriptTypes /\ Between /\ Place /\ Reference
      /\ FirstNet /\ FirstTable /\ FirstHeld /\ FirstOver
      /\ SecondNet /\ SecondTable /\ SecondSeen /\ Isolated /\ Passing
  BY DEF DInv
<1>2. /\ pc = "script" /\ pc' = "script" /\ at <= Len(Script) /\ at' = at + 1
      /\ UNCHANGED <<mode, state, sock, pass, index, timed, failed>>
      /\ UNCHANGED <<link, breaks, up, dgr, table, left, diverged>>
  BY DEF CeaseOp, Doing, Advance, svars, daemon
<1>3. /\ index \in 1 .. 6 /\ at \in 1 .. 19 /\ at <= Length /\ NetTypes
  BY <1>1, <1>2, ScriptLength DEF ScriptTypes
<1>4. Kept
  BY <1>2, Unmoved
<1>5. PICK m : m = Message("cease")
  OBVIOUS
<1>6. /\ m \in Msg /\ m.kind = "cease" /\ ~Plain(m) /\ Deliver(<<m>>)
      /\ Returning /\ at = CeaseAt /\ at \in {14, 18}
  <2>1. Returning /\ at = CeaseAt
    BY <1>2, <1>3, Places DEF CeaseOp, Doing
  <2> QED
    BY <1>5, <2>1, MessageTypes, Figures DEF CeaseOp, Message
<1> HIDE <1>5
<1>7. /\ ~link => inbox' = inbox
      /\ inbox' \in Seq(Msg)
      /\ Unclosed(inbox) => Unclosed(inbox')
      /\ ~AllPlain(inbox) => ~AllPlain(inbox')
  BY <1>3, <1>6, Delivered
<1>8. /\ \A i \in 1 .. Len(inbox') :
           inbox'[i] = m \/ \E j \in 1 .. Len(inbox) : inbox'[i] = inbox[j]
      /\ \A k : /\ Has(inbox', k) => Has(inbox, k) \/ k = "cease"
                /\ Has(inbox, k) => Has(inbox', k)
      /\ link => Has(inbox', "cease")
      /\ \A r : HasUpdate(inbox, r) => HasUpdate(inbox', r)
      /\ CeaseFirst(inbox) => CeaseFirst(inbox')
      /\ OneEor(inbox) => OneEor(inbox')
  BY <1>3, <1>6, DeliveredHas
<1>9. (Has(inbox', "eor") <=> Has(inbox, "eor")) /\ (link => up)
  BY <1>1, <1>8 DEF ScriptTypes, Wired
<1>a. ScriptTypes'
  BY <1>1, <1>2, <1>4, <1>6, <1>7 DEF ScriptTypes, NetTypes, DaemonTypes, Wired
<1>b. Between'
  BY SMTT(20), <1>1, <1>2, <1>4, <1>6, <1>8, Figures DEF Between
<1>c. Place'
  BY <1>2, <1>3, <1>4, Figures DEF Place
<1>d. Reference'
  BY <1>1, <1>2, <1>4, <1>6, Figures DEF Reference
<1>e. FirstNet'
  BY <1>2, <1>4, <1>6, Figures DEF FirstNet
<1>f. FirstTable'
  BY <1>2, <1>4, <1>6, Figures DEF FirstTable
<1>g. FirstHeld'
  BY <1>2, <1>4, <1>6, Figures DEF FirstHeld
<1>h. FirstOver'
  BY <1>4, <1>6 DEF FirstOver
<1>i. SecondNet'
  <2>1. /\ SecondHalf' <=> SecondHalf
        /\ ~(at' <= CeaseAt) /\ ~(at' <= ResendAt) /\ at' > EorAt /\ at' > ResendAt
        /\ at <= CeaseAt /\ (Sent(EorAt))' /\ (Sent(ResendAt))'
    BY <1>2, <1>3, <1>4, <1>6, Figures
  <2> QED
    BY <1>1, <1>2, <1>4, <1>6, <1>8, <2>1 DEF SecondNet
<1>j. SecondTable'
  BY <1>1, <1>2, <1>4, <1>6, <1>8, Figures DEF SecondTable
<1>k. SecondSeen'
  BY <1>1, <1>2, <1>4, <1>6, <1>8, Figures DEF SecondSeen
<1>l. Isolated'
  BY <1>1, <1>2, <1>4, <1>6 DEF Isolated
<1>m. Passing'
  BY <1>1, <1>2, <1>4 DEF Passing, Conforming
<1> QED
  BY <1>a, <1>b, <1>c, <1>d, <1>e, <1>f, <1>g, <1>h, <1>i, <1>j, <1>k, <1>l, <1>m DEF DInv

(* The runner ends the session.                                            *)
LEMMA EndSessionStep == ASSUME DInv, mode.directed, EndSession PROVE DInv'
<1>1. /\ ScriptTypes /\ Between /\ Place /\ Reference
      /\ FirstNet /\ FirstTable /\ FirstHeld /\ FirstOver
      /\ SecondNet /\ SecondTable /\ SecondSeen /\ Isolated /\ Passing
  BY DEF DInv
<1>2. /\ pc = "script" /\ pc' = "script" /\ at <= Len(Script) /\ at' = at + 1
      /\ UNCHANGED <<mode, pass, index, timed, failed>>
      /\ UNCHANGED <<breaks, up, dgr, table, left, diverged>>
      /\ sock' = FALSE
  BY DEF EndSession, Close, Doing, Advance, daemon
<1>3. /\ index \in 1 .. 6 /\ at \in 1 .. 19 /\ at <= Length /\ NetTypes /\ Wired
      /\ state \in GrState
  BY <1>1, <1>2, ScriptLength DEF ScriptTypes
<1>4. Kept
  BY <1>2, Unmoved
<1>5. PICK ms : ms = IF Notifying THEN <<Message("cease")>> ELSE <<>>
  OBVIOUS
<1>6. /\ at = LossAt /\ Close(ms) /\ ms \in {<<>>, <<Message("cease")>>}
      /\ Notifying <=> ms # <<>>
      /\ state' = IF Notifying THEN Notified(state) ELSE Disconnected(state)
  <2>1. CASE Doing("disconnect")
    <3>1. at = LossAt /\ ~Notifying /\ ~Doing("notify")
      BY <1>2, <1>3, <2>1, Places DEF Doing
    <3> QED
      BY <1>5, <2>1, <3>1 DEF EndSession, Advance
  <2>2. CASE Doing("notify")
    <3>1. at = LossAt /\ Notifying /\ ~Doing("disconnect")
      BY <1>2, <1>3, <2>2, Places DEF Doing
    <3> QED
      BY <1>5, <2>2, <3>1 DEF EndSession, Advance
  <2> QED
    BY <2>1, <2>2 DEF EndSession
<1> HIDE <1>5
<1>7. /\ link' = FALSE /\ inbox' \in Seq(Msg)
      /\ ~up => inbox' = <<>>
      /\ up => ~AllPlain(inbox')
  BY <1>3, <1>6, Closed
<1>8. /\ \A i \in 1 .. Len(inbox') :
           \/ inbox'[i].kind = "close"
           \/ inbox'[i].kind = "cease" /\ Notifying
           \/ \E j \in 1 .. Len(inbox) : inbox'[i] = inbox[j]
      /\ \A r : HasUpdate(inbox', r) <=> HasUpdate(inbox, r)
      /\ CeaseFirst(inbox) /\ Notifying => CeaseFirst(inbox')
  BY <1>3, <1>6, ClosedHas
<1>9. /\ state' \in GrState /\ ~state'.connected /\ state'.gr_enabled = state.gr_enabled
      /\ Going /\ (Notifying \/ ~gr_enabled) => state'.routes[Route1] = ABSENT
      /\ Going /\ ~Notifying /\ gr_enabled =>
           /\ state'.routes[Route1] = STALE
           /\ second_route => state'.routes[Route2] = STALE
  <2>1. state' \in GrState /\ ~state'.connected /\ state'.gr_enabled = state.gr_enabled
    <3>1. CASE Notifying
      BY <1>3, <1>6, <3>1, StepTypes DEF Notified, GrState
    <3>2. CASE ~Notifying
      BY <1>3, <1>6, <3>2, StepTypes DEF Disconnected, GrState
    <3> QED
      BY <3>1, <3>2
  <2>2. Going => /\ state.connected /\ (state.gr_enabled <=> gr_enabled)
                 /\ state.routes[Route1] = ACTIVE
                 /\ second_route => state.routes[Route2] = ACTIVE
    BY <1>1, <1>2, <1>6, Figures DEF Reference
  <2>3. Notifying => state'.routes[Route1] = ABSENT
    BY <1>6, TheRoutes DEF Notified
  <2>4. ASSUME Going, ~Notifying, NEW r \in Routes
        PROVE  state'.routes[r] = AfterLoss(state.gr_enabled, state.routes[r])
    BY <1>3, <1>6, <2>2, <2>4 DEF Disconnected
  <2> QED
    BY <2>1, <2>2, <2>3, <2>4, TheRoutes DEF AfterLoss
<1>10. at \in {5, 7} /\ at > PauseAt /\ ~(at' <= PauseAt') /\ at' # 1
  BY <1>2, <1>4, <1>6, Figures
<1>11. state' \in GrState
  BY <1>9
<1>a. ScriptTypes'
  <2>1. NetTypes' /\ DaemonTypes'
    BY <1>1, <1>2, <1>7 DEF ScriptTypes, NetTypes, DaemonTypes
  <2>2. Wired'
    BY <1>2, <1>7 DEF Wired
  <2>3. at' \in 1 .. 19
    BY <1>2, <1>10
  <2> QED
    BY <1>1, <1>2, <1>4, <1>11, <2>1, <2>2, <2>3 DEF ScriptTypes
<1>b. Between'
  BY <1>1, <1>2, <1>3, <1>8, <1>10 DEF Between
<1>c. Place'
  BY <1>2, <1>3, <1>4, Figures DEF Place
<1>d. Reference'
  BY <1>1, <1>2, <1>3, <1>4, <1>6, Figures, Kinds, <1>9 DEF Reference
<1>e. FirstNet'
  <2>1. /\ FirstHalf' <=> FirstHalf
        /\ ~(at' <= LossAt) /\ at' > LossAt /\ ~(at' > LossAt + 1)
    BY <1>2, <1>3, <1>4, <1>6, Figures
  <2>2. ASSUME FirstHalf, NEW i \in 1 .. Len(inbox')
        PROVE  \/ /\ inbox'[i].kind = "update" /\ inbox'[i].trace = index
                  /\ second_route \/ inbox'[i].route = Route1
               \/ inbox'[i].kind = "cease" /\ Notifying
               \/ inbox'[i].kind = "close"
    <3>1. CASE \E j \in 1 .. Len(inbox) : inbox'[i] = inbox[j]
      BY <1>1, <2>2, <3>1 DEF FirstNet
    <3> QED
      BY <1>8, <2>2, <3>1
  <2>3. FirstHalf => (dgr <=> gr_enabled) /\ (Notifying => CeaseFirst(inbox'))
    BY <1>1, <1>8 DEF FirstNet
  <2> QED
    BY <1>2, <1>4, <1>7, <2>1, <2>2, <2>3 DEF FirstNet
<1>f. FirstTable'
  BY <1>1, <1>2, <1>4, <1>6, Figures DEF FirstTable
<1>g. FirstHeld'
  BY <1>1, <1>2, <1>4, <1>6, Figures DEF FirstHeld
<1>h. FirstOver'
  BY <1>2, <1>3, <1>4, <1>6, Figures, Kinds DEF FirstOver
<1>i. SecondNet'
  BY <1>2, <1>4, <1>6, Figures DEF SecondNet
<1>j. SecondTable'
  BY <1>2, <1>4, <1>6, Figures DEF SecondTable
<1>k. SecondSeen'
  BY <1>2, <1>4, <1>6, Figures DEF SecondSeen
<1>l. Isolated'
  BY <1>1, <1>2, <1>4, <1>10 DEF Isolated
<1>m. Passing'
  BY <1>1, <1>2, <1>4 DEF Passing, Conforming
<1> QED
  BY <1>a, <1>b, <1>c, <1>d, <1>e, <1>f, <1>g, <1>h, <1>i, <1>j, <1>k, <1>l, <1>m DEF DInv

(* A scenario closes what it still has.                                    *)
LEMMA FinallyStep == ASSUME DInv, mode.directed, Finally PROVE DInv'
<1>1. /\ ScriptTypes /\ Between /\ Place /\ Reference
      /\ FirstNet /\ FirstTable /\ FirstHeld /\ FirstOver
      /\ SecondNet /\ SecondTable /\ SecondSeen /\ Isolated /\ Passing
  BY DEF DInv
<1>2. /\ pc \in {"finally", "raising"} /\ pc' = IF pc = "finally" THEN "settle" ELSE "done"
      /\ failed' = (failed \/ ~pass)
      /\ UNCHANGED <<mode, state, pass, index, timed, at>>
      /\ UNCHANGED <<breaks, up, dgr, table, left, diverged>>
  BY DEF Finally, daemon
<1>3. /\ index \in 1 .. 6 /\ at \in 1 .. 19 /\ NetTypes /\ Wired /\ sock \in BOOLEAN
  BY <1>1, <1>2 DEF ScriptTypes
<1>4. Kept
  BY <1>2, Unmoved
<1>5. Going => pc = "finally" /\ at = Length + 1
  BY <1>1, <1>2 DEF Place
<1>6. Close(<<>>) \/ (~sock /\ UNCHANGED <<inbox, link, sock>>)
  BY <1>2, <1>3 DEF Finally
<1>7. /\ link' = FALSE /\ sock' = FALSE /\ inbox' \in Seq(Msg)
      /\ ~link => inbox' = inbox
      /\ ~up => inbox' = <<>>
      /\ up => ~AllPlain(inbox')
  BY <1>3, <1>6, Closed DEF Wired, NetTypes
<1>8. /\ \A i \in 1 .. Len(inbox') :
           inbox'[i].kind = "close" \/ \E j \in 1 .. Len(inbox) : inbox'[i] = inbox[j]
      /\ \A k : Has(inbox, k) => Has(inbox', k)
      /\ \A k : k \notin {"cease", "close"} => (Has(inbox', k) <=> Has(inbox, k))
      /\ \A r : HasUpdate(inbox', r) <=> HasUpdate(inbox, r)
      /\ CeaseFirst(inbox) /\ Has(inbox, "cease") => CeaseFirst(inbox')
      /\ OneEor(inbox) => OneEor(inbox')
  <2>1. CASE Close(<<>>)
    BY <1>3, <2>1, ClosedHas
  <2>2. CASE inbox' = inbox
    <3>1. CASE ~link
      BY <1>7, <2>2
    <3>2. CASE link
      BY <2>2
    <3> QED
      BY <2>2
  <2> QED
    BY <1>6, <2>1, <2>2
<1>9. Has(inbox', "eor") <=> Has(inbox, "eor")
  BY <1>8
<1>10. ~failed' => pass
  BY <1>2
<1>a. ScriptTypes'
  BY <1>1, <1>2, <1>4, <1>7 DEF ScriptTypes, NetTypes, DaemonTypes, Wired, DirectedPc
<1>b. Between'
  BY <1>1, <1>2, <1>7, <1>8 DEF Between
<1>c. Place'
  BY <1>1, <1>2, <1>4 DEF Place
<1>d. Reference'
  BY <1>2 DEF Reference
<1>e. FirstNet'
  BY <1>1, <1>2, <1>4, <1>5, <1>7, Figures DEF FirstNet
<1>f. FirstTable'
  BY <1>1, <1>2, <1>4, <1>8 DEF FirstTable
<1>g. FirstHeld'
  BY <1>1, <1>2, <1>4 DEF FirstHeld
<1>h. FirstOver'
  BY <1>1, <1>2, <1>4 DEF FirstOver
<1>i. SecondNet'
  <2>1. /\ SecondHalf' <=> SecondHalf
        /\ SecondHalf => at > CeaseAt /\ ~(at <= CeaseAt) /\ ~(at <= ResendAt)
    BY <1>2, <1>3, <1>4, <1>5, Figures
  <2>2. ASSUME SecondHalf, up
        PROVE  /\ Has(inbox, "cease") /\ Has(inbox', "cease")
               /\ CeaseFirst(inbox') /\ OneEor(inbox')
    BY <1>1, <1>8, <2>1, <2>2 DEF SecondNet
  <2>3. ASSUME SecondHalf, ~up
        PROVE  CeaseFirst(inbox') /\ OneEor(inbox')
    BY <1>7, <2>3, EmptyHas
  <2>4. ASSUME SecondHalf, NEW i \in 1 .. Len(inbox'), inbox'[i].kind = "update"
        PROVE  /\ inbox'[i].trace = index
               /\ second_route /\ inbox'[i].route = Route1 /\ Sent(ResendAt)
    BY <1>1, <1>8, <2>4 DEF SecondNet
  <2>5. SecondHalf => (Sent(EorAt) <=> Sent(EorAt)') /\ (Sent(ResendAt) <=> Sent(ResendAt)')
    BY <1>2, <1>3, <1>4, <1>5, <2>1
  <2>6. pc' # "script"
    BY <1>2
  <2> QED
    BY <1>1, <1>2, <1>4, <1>9, <2>1, <2>2, <2>3, <2>4 DEF SecondNet
<1>j. SecondTable'
  BY <1>1, <1>2, <1>4, <1>8 DEF SecondTable
<1>k. SecondSeen'
  BY <1>1, <1>2, <1>4, <1>8 DEF SecondSeen
<1>l. Isolated'
  BY <1>1, <1>2, <1>4, <1>8 DEF Isolated
<1>m. Passing'
  BY <1>1, <1>2, <1>4 DEF Passing, Conforming
<1> QED
  BY <1>a, <1>b, <1>c, <1>d, <1>e, <1>f, <1>g, <1>h, <1>i, <1>j, <1>k, <1>l, <1>m DEF DInv

(* The session of a scenario is established.                               *)
LEMMA ConnectOkStep ==
  ASSUME DInv, mode.directed, Doing("connect"), Connect(gr_enabled, TRUE), Advance(state),
         UNCHANGED pass
  PROVE  DInv'
<1>1. /\ ScriptTypes /\ Between /\ Place /\ Reference
      /\ FirstNet /\ FirstTable /\ FirstHeld /\ FirstOver
      /\ SecondNet /\ SecondTable /\ SecondSeen /\ Isolated /\ Passing
  BY DEF DInv
<1>2. /\ pc = "script" /\ pc' = "script" /\ at <= Len(Script) /\ at' = at + 1
      /\ UNCHANGED <<mode, state, pass, index, timed, failed>>
  BY DEF Doing, Advance
<1>3. /\ index \in 1 .. 6 /\ at \in 1 .. 19 /\ NetTypes /\ DaemonTypes /\ Wired
      /\ table \in Routing
  BY <1>1, <1>2 DEF ScriptTypes, DaemonTypes
<1>4. Kept
  BY <1>2, Unmoved
<1>5. at = 1 /\ at' = 2
  BY <1>2, <1>3, Places DEF Doing
<1>6. PICK g \in BOOLEAN : g <=> gr_enabled
  OBVIOUS
<1>7. g = gr_enabled
  BY <1>6 DEF gr_enabled
<1>8. /\ ~up /\ up' = TRUE /\ link' = TRUE /\ sock' = TRUE /\ inbox' = <<>>
      /\ dgr' = g /\ NetTypes' /\ DaemonTypes' /\ Wired' /\ UNCHANGED <<breaks, diverged>>
      /\ table' = (IF g THEN table ELSE Cleaned(table))
      /\ left = {} => left' = {}
  <2>1. Connect(g, TRUE)
    BY <1>7
  <2> QED
    BY <1>3, <2>1, Connected
<1> HIDE <1>7
<1>9. /\ \A k : ~Has(inbox', k)
      /\ \A r : ~HasUpdate(inbox', r)
      /\ CeaseFirst(inbox') /\ OneEor(inbox') /\ Len(inbox') = 0
  BY <1>8, EmptyHas
<1>10. Going => /\ ~diverged /\ table' = NoRoutes
                /\ NoneIn(table', STALE) /\ table'[Route2] = ABSENT
  <2>1. Going => table = NoRoutes /\ ~diverged
    BY <1>1, <1>5 DEF Place
  <2>2. Going => table' = NoRoutes
    BY <1>8, <2>1, NothingToLose
  <2> QED
    BY <2>1, <2>2, NothingToLose, TheRoutes DEF NoneIn, ABSENT, STALE
<1>11. /\ FirstHalf' <=> Going
       /\ ~SecondHalf'
       /\ at' <= LossAt /\ at' <= PauseAt /\ at' < RestartAt /\ at' <= Length
       /\ ~(PauseAt < at') /\ ~(at' > LossAt) /\ ~(at' > LossAt + 1)
  BY <1>2, <1>4, <1>5, <1>8, Figures
<1>a. ScriptTypes'
  BY <1>1, <1>2, <1>4, <1>5, <1>8 DEF ScriptTypes
<1>b. Between'
  BY <1>1, <1>2, <1>3, <1>4, <1>8, Figures DEF Between
<1>c. Place'
  BY <1>2, <1>4, <1>5, Figures DEF Place
<1>d. Reference'
  BY <1>1, <1>2, <1>4, <1>5, <1>8, Figures DEF Reference
<1>e. FirstNet'
  BY <1>4, <1>6, <1>8, <1>9, <1>11 DEF FirstNet
<1>f. FirstTable'
  BY <1>2, <1>5, <1>8, <1>10 DEF FirstTable
<1>g. FirstHeld'
  BY <1>4, <1>5, Figures DEF FirstHeld
<1>h. FirstOver'
  BY <1>4, <1>5, Figures DEF FirstOver
<1>i. SecondNet'
  BY <1>11 DEF SecondNet
<1>j. SecondTable'
  BY <1>11 DEF SecondTable
<1>k. SecondSeen'
  BY <1>11 DEF SecondSeen
<1>l. Isolated'
  BY <1>1, <1>2, <1>3, <1>4, <1>8 DEF Isolated
<1>m. Passing'
  BY <1>1, <1>4, <1>8 DEF Passing, Conforming
<1> QED
  BY <1>a, <1>b, <1>c, <1>d, <1>e, <1>f, <1>g, <1>h, <1>i, <1>j, <1>k, <1>l, <1>m DEF DInv

(* The session of a scenario is not established.                           *)
LEMMA ConnectRaisesStep ==
  ASSUME DInv, mode.directed, NEW forward \in BOOLEAN, NEW gr \in BOOLEAN,
         Doing("connect") \/ Doing("reconnect"), ConnectRaises(gr, forward), ErrorOut
  PROVE  DInv'
<1>1. /\ ScriptTypes /\ Between /\ Place /\ Reference
      /\ FirstNet /\ FirstTable /\ FirstHeld /\ FirstOver
      /\ SecondNet /\ SecondTable /\ SecondSeen /\ Isolated /\ Passing
  BY DEF DInv
<1>2. /\ pc = "script" /\ pc' = "finally" /\ at <= Len(Script) /\ pass' = FALSE
      /\ UNCHANGED <<mode, state, index, timed, failed, at>>
  BY DEF Doing, ErrorOut, svars
<1>3. /\ index \in 1 .. 6 /\ at \in 1 .. 19 /\ NetTypes /\ DaemonTypes /\ Wired
  BY <1>1, <1>2 DEF ScriptTypes
<1>4. Kept
  BY <1>2, Unmoved
<1>5. at = 1 \/ (Returning /\ at = RestartAt)
  BY <1>2, <1>3, Places DEF Doing
<1>6. /\ sock' = sock /\ NetTypes' /\ DaemonTypes' /\ Wired'
      /\ breaks' = 0 => breaks = 0 /\ up
  BY <1>3, NotConnected
<1>7. \A i \in 1 .. Len(inbox') :
        inbox'[i].kind = "close" \/ \E j \in 1 .. Len(inbox) : inbox'[i] = inbox[j]
  <2>1. CASE ConnectRefused
    BY <2>1 DEF ConnectRefused, net
  <2>2. CASE ConnectFails(gr, forward)
    <3>1. inbox' = <<Message("close")>>
      BY <2>2 DEF ConnectFails
    <3>2. Len(inbox') = 1 /\ inbox'[1].kind = "close"
      BY <3>1 DEF Message
    <3> QED
      BY <3>2
  <2> QED
    BY <2>1, <2>2 DEF ConnectRaises
<1>8. ~Going'
  BY <1>2
<1>9. ~Conforming'
  <2> SUFFICES ASSUME Conforming'
               PROVE  FALSE
    OBVIOUS
  <2>1. PATIENT /\ breaks = 0 /\ up /\ Conforming
    BY <1>4, <1>6 DEF Conforming
  <2>2. Going
    BY <1>1, <1>3, <2>1 DEF Passing
  <2> QED
    BY <1>1, <1>2, <1>5, <2>1, <2>2, Figures DEF Between, FirstNet
<1>a. ScriptTypes'
  BY <1>1, <1>2, <1>4, <1>6 DEF ScriptTypes, DirectedPc
<1>b. Between'
  BY <1>1, <1>2, <1>3, <1>7 DEF Between
<1>c. Passing'
  BY <1>9 DEF Passing
<1> QED
  BY <1>8, <1>a, <1>b, <1>c, Stopped

(* The session of a scenario is established again.                         *)
LEMMA ReconnectOkStep ==
  ASSUME DInv, mode.directed, Doing("reconnect"), Connect(TRUE, forwarding), UNCHANGED pass,
         Advance(IF forwarding THEN ReconnectedKeeping(state) ELSE ReconnectedClearing(state))
  PROVE  DInv'
<1>1. /\ ScriptTypes /\ Between /\ Place /\ Reference
      /\ FirstNet /\ FirstTable /\ FirstHeld /\ FirstOver
      /\ SecondNet /\ SecondTable /\ SecondSeen /\ Isolated /\ Passing
  BY DEF DInv
<1>2. /\ pc = "script" /\ pc' = "script" /\ at <= Len(Script) /\ at' = at + 1
      /\ state' = IF forwarding THEN ReconnectedKeeping(state) ELSE ReconnectedClearing(state)
      /\ UNCHANGED <<mode, pass, index, timed, failed>>
  BY DEF Doing, Advance
<1>3. /\ index \in 1 .. 6 /\ at \in 1 .. 19 /\ NetTypes /\ DaemonTypes /\ Wired
      /\ table \in Routing /\ state \in GrState
  BY <1>1, <1>2 DEF ScriptTypes, DaemonTypes
<1>4. Kept
  BY <1>2, Unmoved
<1>5. Returning /\ at = RestartAt /\ at \in {8, 10}
  <2>1. Returning /\ at = RestartAt
    BY <1>2, <1>3, Places DEF Doing
  <2> QED
    BY <2>1, Figures
<1>6. PICK f \in BOOLEAN : f <=> forwarding
  OBVIOUS
<1>7. f = forwarding
  BY <1>6 DEF forwarding
<1>8. /\ ~up /\ up' = TRUE /\ link' = TRUE /\ sock' = TRUE /\ inbox' = <<>>
      /\ dgr' = TRUE /\ NetTypes' /\ DaemonTypes' /\ Wired' /\ UNCHANGED <<breaks, diverged>>
      /\ table' = (IF f THEN table ELSE Cleaned(table))
      /\ left = {} => left' = {}
  <2>1. Connect(TRUE, f)
    BY <1>7
  <2> QED
    BY <1>3, <2>1, Connected
<1> HIDE <1>7
<1>9. /\ \A k : ~Has(inbox', k)
      /\ \A r : ~HasUpdate(inbox', r)
      /\ CeaseFirst(inbox') /\ OneEor(inbox') /\ Len(inbox') = 0
  BY <1>8, EmptyHas
<1>10. /\ ~FirstHalf'
       /\ SecondHalf' <=> Going
       /\ Going => FirstHalf
       /\ ~(Sent(EorAt))' /\ ~(Sent(ResendAt))' /\ at' < CeaseAt
  BY <1>2, <1>4, <1>5, <1>8, Figures
<1>11. /\ state' \in GrState /\ state'.connected /\ state'.gr_enabled = state.gr_enabled
       /\ \A r \in Routes :
            state'.routes[r] = IF forwarding THEN state.routes[r] ELSE Sweep(state.routes[r])
  <2>1. CASE forwarding
    BY <1>2, <1>3, <2>1, StepTypes DEF ReconnectedKeeping
  <2>2. CASE ~forwarding
    <3>1. state' = ReconnectedClearing(state) /\ state' \in GrState
      BY <1>2, <1>3, <2>2, StepTypes
    <3>2. /\ state'.connected = TRUE /\ state'.gr_enabled = state.gr_enabled
          /\ state'.routes = [r \in Routes |-> Sweep(state.routes[r])]
      BY <1>3, <3>1 DEF ReconnectedClearing, Swept
    <3> QED
      BY <2>2, <3>1, <3>2
  <2> QED
    BY <2>1, <2>2
<1>12. \A r \in Routes : table'[r] = IF forwarding THEN table[r] ELSE Sweep(table[r])
  BY <1>3, <1>6, <1>8 DEF Cleaned
<1>13. table \in [Routes -> {"ABSENT", "ACTIVE", "STALE"}]
  BY <1>3 DEF Routing, RouteState, ABSENT, ACTIVE, STALE
<1>a. ScriptTypes'
  BY <1>1, <1>2, <1>4, <1>5, <1>8, <1>11 DEF ScriptTypes
<1>b. Between'
  BY <1>1, <1>2, <1>3, <1>4, <1>8, Figures DEF Between
<1>c. Place'
  BY <1>2, <1>4, <1>5, Figures DEF Place
<1>d. Reference'
  BY <1>1, <1>2, <1>3, <1>4, <1>5, <1>8, Figures, Kinds, <1>11, TheRoutes DEF Reference, Sweep
<1>e. FirstNet'
  BY <1>2, <1>4, <1>5 DEF FirstNet
<1>f. FirstTable'
  BY <1>2, <1>4, <1>5 DEF FirstTable
<1>g. FirstHeld'
  BY <1>2, <1>4, <1>5 DEF FirstHeld
<1>h. FirstOver'
  BY <1>4, <1>5 DEF FirstOver
<1>i. SecondNet'
  BY <1>2, <1>4, <1>5, <1>8, <1>9, Figures DEF SecondNet
<1>j. SecondTable'
  <2>1. Going => /\ NoneIn(table, ACTIVE)
                 /\ second_route \/ table[Route2] = ABSENT
    BY <1>1, <1>8, <1>10 DEF FirstTable
  <2>2. ASSUME Going, PATIENT, forwarding
        PROVE  table[Route1] = STALE
    <3>1. timed <=> FALSE
      BY <1>1, <1>3, <1>5, Kinds DEF ScriptTypes
    <3> QED
      BY <1>1, <1>3, <1>5, <1>8, <2>2, <3>1, Figures, Kinds DEF FirstHeld
  <2>3. Going => /\ table'[Route1] # ACTIVE /\ table'[Route2] # ACTIVE
                 /\ second_route \/ table'[Route2] = ABSENT
                 /\ forwarding \/ table'[Route1] = ABSENT
                 /\ PATIENT /\ forwarding => table'[Route1] = STALE
    BY <1>12, <1>13, <2>1, <2>2, TheRoutes DEF NoneIn, Sweep, ABSENT, ACTIVE, STALE
  <2>4. /\ up' /\ (forwarding' <=> forwarding) /\ (second_route' <=> second_route)
        /\ PATIENT' = PATIENT /\ Route1' = Route1 /\ Route2' = Route2
    BY <1>4, <1>8 DEF Route1, Route2
  <2> QED
    BY <1>10, <2>3, <2>4 DEF SecondTable
<1>k. SecondSeen'
  <2>1. Going => ~diverged
    BY <1>1, <1>10 DEF FirstTable
  <2>2. ASSUME Going, ~COVERAGE, second_route
        PROVE  table'[Route2] = STALE
    <3>1. timed <=> FALSE
      BY <1>1, <1>3, <1>5, Kinds DEF ScriptTypes
    <3>2. table[Route2] = STALE
      BY <1>1, <1>3, <1>5, <1>8, <2>2, <3>1, Figures, Kinds DEF FirstHeld
    <3> QED
      BY <1>3, <1>12, <2>2, <3>2, TheRoutes, Kinds
  <2>3. /\ (second_route' <=> second_route) /\ COVERAGE' = COVERAGE /\ Route2' = Route2
        /\ ~Has(inbox', "eor") /\ diverged' = diverged
    BY <1>4, <1>8, <1>9 DEF Route2
  <2> QED
    BY <1>10, <2>1, <2>2, <2>3 DEF SecondSeen
<1>l. Isolated'
  BY <1>1, <1>2, <1>3, <1>4, <1>8 DEF Isolated
<1>m. Passing'
  BY <1>1, <1>4, <1>8 DEF Passing, Conforming
<1> QED
  BY <1>a, <1>b, <1>c, <1>d, <1>e, <1>f, <1>g, <1>h, <1>i, <1>j, <1>k, <1>l, <1>m DEF DInv

(* A scenario begins.                                                      *)
LEMMA BeginScenarioStep == ASSUME DInv, mode.directed, BeginScenario PROVE DInv'
<1>1. /\ ScriptTypes /\ Between /\ Place /\ Reference
      /\ FirstNet /\ FirstTable /\ FirstHeld /\ FirstOver
      /\ SecondNet /\ SecondTable /\ SecondSeen /\ Isolated /\ Passing
  BY DEF DInv
<1>2. /\ pc = "idle" /\ index' = index + 1 /\ pc' = "script" /\ at' = 1 /\ pass' = TRUE
      /\ left' = (left \cup {table[r] : r \in Routes}) \ {ABSENT}
      /\ table' = NoRoutes /\ diverged' = FALSE
      /\ state' = initial(gr_enabled') /\ timed' = (name' = "restart-time-expired")
      /\ UNCHANGED <<mode, sock, link, inbox, breaks, up, dgr, failed>>
  BY DEF BeginScenario, OwnPrefixes, net
<1>3. /\ index \in 0 .. 5 /\ at \in 1 .. 19 /\ NetTypes /\ DaemonTypes /\ Wired
  <2>1. Len(SCENARIOS) = 6
    BY DEF SCENARIOS
  <2> QED
    BY <1>1, <2>1 DEF ScriptTypes, BeginScenario
<1>4. PATIENT' = PATIENT /\ COVERAGE' = COVERAGE /\ FAULTS' = FAULTS
  BY <1>2 DEF PATIENT, COVERAGE, FAULTS
<1>5. /\ LossAt' > 2 /\ PauseAt' > 2 /\ RestartAt' > 2 /\ ResendAt' > 2 /\ EorAt' > 2
      /\ Length' > 2 /\ 1 <= Length' + 1
      /\ LossAt' \in Nat /\ RestartAt' \in Nat /\ ResendAt' \in Nat
      /\ EorAt' \in Nat /\ PauseAt' \in Nat /\ Length' \in Nat
  BY DEF LossAt, PauseAt, RestartAt, ResendAt, EorAt, CeaseAt, Length
<1>6. ~FirstHalf' /\ ~SecondHalf'
  BY <1>2, <1>5
<1>7. PICK g \in BOOLEAN : g <=> gr_enabled'
  OBVIOUS
<1>8. g = gr_enabled'
  BY <1>7 DEF gr_enabled
<1>9. /\ state' \in GrState /\ state'.connected /\ (state'.gr_enabled <=> gr_enabled')
      /\ \A r \in Routes : state'.routes[r] = ABSENT
  <2>1. state' = initial(g)
    BY <1>2, <1>8
  <2> QED
    BY <1>7, <2>1 DEF initial, GrState, RouteState
<1> HIDE <1>8
<1>10. /\ DaemonTypes'
       /\ left = {} /\ table = NoRoutes => left' = {}
  <2>1. \A r \in Routes : table[r] \in RouteState
    BY <1>3 DEF DaemonTypes, Routing
  <2>2. left' \subseteq RouteState \ {ABSENT}
    BY <1>2, <1>3, <2>1 DEF DaemonTypes
  <2>3. left = {} /\ table = NoRoutes => left' = {}
    BY <1>2 DEF NoRoutes
  <2> QED
    BY <1>2, <2>2, <2>3, NothingToLose DEF DaemonTypes
<1>11. ~failed /\ breaks = 0 /\ index # 0 => Going /\ at = Length + 1
  BY <1>1, <1>2 DEF Between, Place
<1>a. ScriptTypes'
  <2>1. index' \in 1 .. 6 /\ at' \in 1 .. 19 /\ index' # 0
    BY <1>2, <1>3
  <2>2. NetTypes' /\ Wired'
    BY <1>2, <1>3 DEF NetTypes, Wired
  <2>3. timed' \in BOOLEAN /\ (timed' <=> Expiring')
    BY <1>2 DEF Expiring
  <2> QED
    BY <1>1, <1>2, <1>9, <1>10, <2>1, <2>2, <2>3 DEF ScriptTypes, DirectedPc
<1>b. Between'
  <2>1. \A i \in 1 .. Len(inbox) :
          inbox[i].kind = "update" => inbox[i].trace <= index /\ inbox[i].trace \in Nat
    BY <1>1, <1>3 DEF Between, NetTypes, Msg
  <2>2. \A i \in 1 .. Len(inbox') :
          inbox'[i].kind = "update" => inbox'[i].trace <= index' /\ inbox'[i].trace # index'
    BY <1>2, <1>3, <2>1
  <2>3. PATIENT => ~up'
    BY <1>1, <1>2 DEF Between
  <2>4. index' # 0
    BY <1>2, <1>3
  <2> QED
    BY <1>2, <1>4, <2>2, <2>3, <2>4 DEF Between
<1>c. Place'
  <2>1. table' = NoRoutes /\ ~diverged' /\ pc' = "script" /\ at' = 1
    BY <1>2
  <2>2. at' <= Length' + 1
    BY <1>5, <2>1
  <2> QED
    BY <2>1, <2>2 DEF Place
<1>d. Reference'
  <2>1. at' = 1 /\ pc' = "script"
    BY <1>2
  <2>2. state'.routes[Route1'] = ABSENT
    BY <1>9, TheRoutes DEF Route1
  <2> QED
    BY <1>5, <1>9, <2>1, <2>2 DEF Reference
<1>e. FirstNet'
  BY <1>6 DEF FirstNet
<1>f. FirstTable'
  BY <1>6 DEF FirstTable
<1>g. FirstHeld'
  BY <1>6 DEF FirstHeld
<1>h. FirstOver'
  BY <1>6 DEF FirstOver
<1>i. SecondNet'
  BY <1>6 DEF SecondNet
<1>j. SecondTable'
  BY <1>6 DEF SecondTable
<1>k. SecondSeen'
  BY <1>6 DEF SecondSeen
<1>l. Isolated'
  <2> SUFFICES ASSUME Going', ~failed', COVERAGE' => PATIENT'
               PROVE  IF up' THEN Has(inbox', "cease") /\ CeaseFirst(inbox') ELSE left' = {}
    BY <1>2 DEF Isolated
  <2>1. CASE index = 0
    BY <1>1, <1>2, <1>10, <2>1 DEF Between
  <2>2. CASE index # 0
    <3>1. /\ Going /\ at = Length + 1 /\ ~failed /\ (COVERAGE => PATIENT)
          /\ index \in 1 .. 6 /\ at > Length /\ at > 1
      BY <1>2, <1>3, <1>4, <1>11, <2>2, Figures
    <3>2. left = {}
      BY <1>1, <3>1 DEF Isolated
    <3>3. CASE Returning
      <4>1. SecondHalf /\ at > CeaseAt
        BY <3>1, <3>3, Figures
      <4> QED
        BY <1>1, <1>2, <1>10, <4>1 DEF SecondNet, SecondTable
    <3>4. CASE ~Returning
      <4>1. FirstHalf
        BY <3>1, <3>4
      <4> QED
        BY <1>1, <1>2, <1>10, <3>1, <3>2, <3>4 DEF FirstOver
    <3> QED
      BY <3>3, <3>4
  <2> QED
    BY <2>1, <2>2
<1>m. Passing'
  BY <1>2 DEF Passing, Conforming
<1> QED
  BY <1>a, <1>b, <1>c, <1>d, <1>e, <1>f, <1>g, <1>h, <1>i, <1>j, <1>k, <1>l, <1>m DEF DInv

(* Routes of one session only are lost in the same way by any daemon.      *)
LEMMA LosesFresh ==
  ASSUME DaemonTypes, LoseRoutes, NoneIn(table, STALE)
  PROVE  table' = Lost(dgr, table) /\ UNCHANGED diverged
<1> USE DEF DaemonTypes, Routing, RouteState, ABSENT, ACTIVE, STALE, NoneIn
<1>1. \A r \in Routes : LoseNothing[table[r]] = Lose[table[r]]
  BY DEF LoseNothing, Lose, AfterLossKeepingStale, AfterLoss
<1>2. \A r \in Routes : Lose[table[r]] = Lost(dgr, table)[r]
  BY DEF Lose, Lost
<1>3. CASE Affect(Lose, Lose)
  BY <1>3, Effects
<1>4. CASE Affect(LoseNothing, Lose)
  BY <1>1, <1>2, <1>4 DEF Affect, Lost
<1> QED
  BY <1>3, <1>4 DEF LoseRoutes

(* The daemon handles an UPDATE.                                           *)
LEMMA UpdateHandled ==
  ASSUME DInv, mode.directed, HandleUpdate, UNCHANGED svars PROVE DInv'
<1>1. /\ ScriptTypes /\ Between /\ Place /\ Reference
      /\ FirstNet /\ FirstTable /\ FirstHeld /\ FirstOver
      /\ SecondNet /\ SecondTable /\ SecondSeen /\ Isolated /\ Passing
  BY DEF DInv
<1>2. /\ up /\ inbox # <<>> /\ Head(inbox).kind = "update" /\ inbox' = Tail(inbox)
      /\ UNCHANGED <<mode, state, pc, sock, pass, index, timed, breaks, dgr>>
      /\ UNCHANGED <<at, failed, link, up, diverged>>
  BY DEF HandleUpdate, runner, svars
<1>3. /\ index \in 1 .. 6 /\ at \in 1 .. 19 /\ NetTypes /\ DaemonTypes /\ Wired
      /\ table \in Routing
  BY <1>1, <1>2 DEF ScriptTypes, Between, DaemonTypes
<1>4. Kept
  BY <1>2, Unmoved
<1>5. Going /\ at = 1 => pc = "script"
  BY <1>1, Figures DEF Place, ScriptTypes, DirectedPc
<1>6. /\ Among(inbox', inbox)
      /\ \E i \in 1 .. Len(inbox) : Head(inbox) = inbox[i]
      /\ \A k :
           /\ Has(inbox', k) => Has(inbox, k)
           /\ Has(inbox, k) /\ k # "update" => Has(inbox', k)
      /\ \A r : HasUpdate(inbox, r) /\ Head(inbox).route # r => HasUpdate(inbox', r)
      /\ CeaseFirst(inbox) => CeaseFirst(inbox')
      /\ OneEor(inbox) => OneEor(inbox')
  BY <1>2, <1>3, TailHas DEF NetTypes
<1>7. /\ Head(inbox) \in Msg /\ inbox' \in Seq(Msg) /\ Head(inbox).route \in Routes
      /\ AllPlain(inbox') => AllPlain(inbox)
      /\ Unclosed(inbox) => Unclosed(inbox')
  <2>1. /\ Head(inbox) \in Msg /\ inbox' \in Seq(Msg)
        /\ AllPlain(inbox') => AllPlain(inbox)
        /\ Unclosed(inbox) => Unclosed(inbox')
    BY <1>2, <1>3, TailKeeps DEF NetTypes, Plain
  <2> QED
    BY <1>2, <2>1 DEF Msg
<1>8. Head(inbox).trace = index =>
        left' = left /\ table' = [table EXCEPT ![Head(inbox).route] = ACTIVE]
  BY DEF HandleUpdate
<1>9. Head(inbox).trace # index => table' = table /\ left' = left \cup {ACTIVE}
  BY DEF HandleUpdate
<1>10. DaemonTypes'
  BY <1>2, <1>3, <1>8, <1>9 DEF DaemonTypes, Routing, RouteState, ABSENT, ACTIVE
<1>11. FirstHalf \/ SecondHalf => Head(inbox).trace = index
  BY <1>1, <1>2, <1>6 DEF FirstNet, SecondNet
<1>12. FirstHalf \/ SecondHalf =>
         /\ left' = left /\ table'[Head(inbox).route] = ACTIVE
         /\ \A r \in Routes : r # Head(inbox).route => table'[r] = table[r]
         /\ \A r \in Routes : table[r] = ACTIVE => table'[r] = ACTIVE
  BY <1>3, <1>7, <1>8, <1>11 DEF Routing
<1>13. /\ FirstHalf => second_route \/ Head(inbox).route = Route1
       /\ SecondHalf => second_route /\ Head(inbox).route = Route1 /\ Sent(ResendAt)
  BY <1>1, <1>2, <1>6 DEF FirstNet, SecondNet
<1>14. /\ FirstHalf' <=> FirstHalf
       /\ SecondHalf' <=> SecondHalf
       /\ Going' <=> Going
       /\ \A k : Sent(k)' <=> Sent(k)
  BY <1>2, <1>4
<1>15. \A i \in 1 .. Len(inbox') : \E j \in 1 .. Len(inbox) : inbox'[i] = inbox[j]
  BY <1>6 DEF Among
<1>16. ABSENT # ACTIVE /\ ACTIVE # STALE
  BY DEF ABSENT, ACTIVE, STALE
<1>a. ScriptTypes'
  BY <1>1, <1>2, <1>4, <1>7, <1>10 DEF ScriptTypes, NetTypes, Wired
<1>b. Between'
  BY <1>1, <1>2, <1>4 DEF Between
<1>c. Place'
  <2>1. Going /\ at = 1 => table' = table
    BY <1>1, <1>2, <1>5, <1>9 DEF Between
  <2> QED
    BY <1>1, <1>2, <1>4, <2>1 DEF Place
<1>d. Reference'
  BY <1>1, <1>2, <1>4 DEF Reference
<1>e. FirstNet'
  BY <1>1, <1>2, <1>4, <1>6 DEF FirstNet
<1>f. FirstTable'
  BY <1>1, <1>2, <1>4, <1>6, <1>12, <1>13, <1>16, TheRoutes DEF FirstTable, NoneIn
<1>g. FirstHeld'
  BY <1>1, <1>2, <1>4, <1>12, TheRoutes DEF FirstHeld
<1>h. FirstOver'
  BY <1>1, <1>2, <1>3, <1>4, Figures, SMTT(20) DEF FirstOver, FirstNet
<1>i. SecondNet'
  BY <1>1, <1>2, <1>4, <1>6 DEF SecondNet
<1>j. SecondTable'
  BY <1>1, <1>2, <1>3, <1>4, <1>6, <1>12, <1>13, <1>16, TheRoutes, Kinds DEF SecondTable, NoneIn
<1>k. SecondSeen'
  BY <1>1, <1>2, <1>4, <1>6, <1>12, <1>13, TheRoutes, Figures DEF SecondSeen, NoneIn
<1>l. Isolated'
  BY <1>1, <1>2, <1>4, <1>6, <1>12 DEF Isolated
<1>m. Passing'
  BY <1>1, <1>2, <1>4 DEF Passing, Conforming
<1> QED
  BY <1>a, <1>b, <1>c, <1>d, <1>e, <1>f, <1>g, <1>h, <1>i, <1>j, <1>k, <1>l, <1>m DEF DInv

(* The daemon handles an End-of-RIB, or ignores it.                        *)
LEMMA EorHandled ==
  ASSUME DInv, mode.directed, HandleEor, UNCHANGED svars PROVE DInv'
<1>1. /\ ScriptTypes /\ Between /\ Place /\ Reference
      /\ FirstNet /\ FirstTable /\ FirstHeld /\ FirstOver
      /\ SecondNet /\ SecondTable /\ SecondSeen /\ Isolated /\ Passing
  BY DEF DInv
<1>2. /\ up /\ inbox # <<>> /\ Head(inbox).kind = "eor" /\ inbox' = Tail(inbox)
      /\ UNCHANGED <<mode, state, pc, sock, pass, index, timed, breaks, dgr>>
      /\ UNCHANGED <<at, failed, link, up>>
  BY DEF HandleEor, runner, svars
<1>3. /\ index \in 1 .. 6 /\ at \in 1 .. 19 /\ NetTypes /\ DaemonTypes /\ Wired
      /\ table \in Routing /\ diverged \in BOOLEAN
  BY <1>1, <1>2 DEF ScriptTypes, Between, DaemonTypes
<1>4. Kept
  BY <1>2, Unmoved
<1>6. /\ Among(inbox', inbox)
      /\ \E i \in 1 .. Len(inbox) : Head(inbox) = inbox[i]
      /\ Has(inbox, "eor")
      /\ \A k :
           /\ Has(inbox', k) => Has(inbox, k)
           /\ Has(inbox, k) /\ k # "eor" => Has(inbox', k)
      /\ \A r : HasUpdate(inbox, r) => HasUpdate(inbox', r)
      /\ CeaseFirst(inbox) => CeaseFirst(inbox')
      /\ OneEor(inbox) => OneEor(inbox') /\ ~Has(inbox', "eor")
  BY <1>2, <1>3, TailHas DEF NetTypes
<1>7. /\ inbox' \in Seq(Msg)
      /\ AllPlain(inbox') => AllPlain(inbox)
      /\ Unclosed(inbox) => Unclosed(inbox')
  BY <1>2, <1>3, TailKeeps DEF NetTypes, Plain
<1>8. \/ /\ DaemonTypes' /\ table' = Cleaned(table) /\ UNCHANGED diverged
         /\ left = {} => left' = {}
      \/ /\ FAULTS # {} /\ DaemonTypes' /\ UNCHANGED <<table, left>>
         /\ diverged' => diverged \/ Cleaned(table) # table
  <2>1. CASE Affect(Drop, Drop)
    BY <1>3, <2>1, Effects
  <2>2. CASE Affect(Same, Drop) /\ FAULTS # {}
    BY <1>3, <2>2, Effects DEF DaemonTypes
  <2> QED
    BY <2>1, <2>2 DEF HandleEor
<1>9. /\ ~FirstHalf
      /\ SecondHalf => ~Has(inbox', "eor") /\ Sent(EorAt) /\ Sent(ResendAt)
      /\ SecondHalf /\ ~COVERAGE => ~diverged
  <2>1. ~FirstHalf
    BY <1>1, <1>2, <1>6 DEF FirstNet
  <2>2. SecondHalf => ~Has(inbox', "eor") /\ Sent(EorAt)
    BY <1>1, <1>6 DEF SecondNet
  <2>3. SecondHalf => Sent(ResendAt)
    BY <1>3, <2>2, Figures
  <2>4. SecondHalf /\ ~COVERAGE => ~diverged
    BY <1>1, <1>3, <1>6 DEF SecondSeen
  <2> QED
    BY <2>1, <2>2, <2>3, <2>4
<1>10. table = NoRoutes => table' = NoRoutes /\ (diverged' => diverged)
  BY <1>3, <1>8, NothingToLose DEF DaemonTypes
<1>11. /\ \A r \in Routes :
            /\ Cleaned(table)[r] = ACTIVE <=> table[r] = ACTIVE
            /\ Cleaned(table)[r] # STALE
            /\ table[r] = ABSENT => Cleaned(table)[r] = ABSENT
       /\ NoneIn(table, STALE) => Cleaned(table) = table
  BY <1>3, SweptRoutes DEF Cleaned, Sweep, NoneIn, ABSENT, ACTIVE, STALE
<1>12. \A r \in Routes :
         /\ table'[r] = ACTIVE <=> table[r] = ACTIVE
         /\ table[r] = ABSENT => table'[r] = ABSENT
         /\ FAULTS = {} => table'[r] # STALE
  <2>1. CASE table' = Cleaned(table)
    BY <1>11, <2>1
  <2>2. CASE FAULTS # {} /\ table' = table
    BY <2>2
  <2> QED
    BY <1>8, <2>1, <2>2
<1>13. left = {} => left' = {}
  BY <1>8
<1>14. /\ ~FirstHalf'
       /\ SecondHalf' <=> SecondHalf
       /\ Going' <=> Going
       /\ \A k : Sent(k)' <=> Sent(k)
  BY <1>2, <1>4, <1>9
<1>15. \A i \in 1 .. Len(inbox') : \E j \in 1 .. Len(inbox) : inbox'[i] = inbox[j]
  BY <1>6 DEF Among
<1>a. ScriptTypes'
  BY <1>1, <1>2, <1>4, <1>7, <1>8 DEF ScriptTypes, NetTypes, Wired
<1>b. Between'
  BY <1>1, <1>2, <1>4 DEF Between
<1>c. Place'
  BY <1>1, <1>2, <1>4, <1>10 DEF Place
<1>d. Reference'
  BY <1>1, <1>2, <1>4 DEF Reference
<1>e. FirstNet'
  BY <1>14 DEF FirstNet
<1>f. FirstTable'
  BY <1>14 DEF FirstTable
<1>g. FirstHeld'
  BY <1>14 DEF FirstHeld
<1>h. FirstOver'
  BY <1>14 DEF FirstOver
<1>i. SecondNet'
  BY <1>1, <1>2, <1>4, <1>6 DEF SecondNet
<1>j. SecondTable'
  BY <1>1, <1>2, <1>4, <1>6, <1>9, <1>12, TheRoutes DEF SecondTable, NoneIn
<1>k. SecondSeen'
  <2> SUFFICES ASSUME SecondHalf, ~COVERAGE, diverged'
               PROVE  at < CeaseAt /\ table'[LastRoute] = STALE
    BY <1>2, <1>4, <1>9, <1>14 DEF SecondSeen
  <2>1. Cleaned(table) # table /\ table' = table
    BY <1>8, <1>9
  <2>2. ~NoneIn(table, STALE)
    BY <1>11, <2>1
  <2>3. at < CeaseAt
    BY <1>1, <1>3, <1>6, <2>2, Figures DEF SecondSeen
  <2>4. second_route => table[Route2] = STALE
    BY <1>1, <1>2, <1>6 DEF SecondSeen
  <2>5. ~second_route => table[Route1] = STALE
    BY <1>1, <2>2, TheRoutes DEF SecondTable, NoneIn, ABSENT, STALE
  <2> QED
    BY <2>1, <2>3, <2>4, <2>5, Figures
<1>l. Isolated'
  BY <1>1, <1>2, <1>4, <1>6, <1>13 DEF Isolated
<1>m. Passing'
  BY <1>1, <1>2, <1>4 DEF Passing, Conforming
<1> QED
  BY <1>a, <1>b, <1>c, <1>d, <1>e, <1>f, <1>g, <1>h, <1>i, <1>j, <1>k, <1>l, <1>m DEF DInv

(* The daemon handles a CEASE.                                             *)
LEMMA CeaseHandled ==
  ASSUME DInv, mode.directed, HandleCease, UNCHANGED svars PROVE DInv'
<1>1. /\ ScriptTypes /\ Between /\ Place /\ Reference
      /\ FirstNet /\ FirstTable /\ FirstHeld /\ FirstOver
      /\ SecondNet /\ SecondTable /\ SecondSeen /\ Isolated /\ Passing
  BY DEF DInv
<1>2. /\ up /\ inbox # <<>> /\ Head(inbox).kind = "cease"
      /\ up' = FALSE /\ link' = FALSE /\ inbox' = <<>>
      /\ UNCHANGED <<mode, state, pc, sock, pass, index, timed, breaks, dgr>>
      /\ UNCHANGED <<at, failed>>
  BY DEF HandleCease, runner, svars
<1>3. /\ index \in 1 .. 6 /\ at \in 1 .. 19 /\ NetTypes /\ DaemonTypes /\ Wired
  BY <1>1, <1>2 DEF ScriptTypes, Between
<1>4. Kept
  BY <1>2, Unmoved
<1>5. table' = NoRoutes /\ left' = {} /\ UNCHANGED diverged
  BY <1>3, Effects DEF HandleCease
<1>6. Has(inbox, "cease") /\ \E i \in 1 .. Len(inbox) : inbox[i].kind = "cease"
  <2>1. Has(inbox, "cease")
    BY <1>2, <1>3, TailHas DEF NetTypes
  <2> QED
    BY <2>1 DEF Has
<1>7. /\ \A k : ~Has(inbox', k)
      /\ \A r : ~HasUpdate(inbox', r)
      /\ CeaseFirst(inbox') /\ OneEor(inbox') /\ Len(inbox') = 0
  BY <1>2, EmptyHas
<1>8. NetTypes' /\ DaemonTypes' /\ Wired'
  <2>1. inbox' \in Seq(Msg)
    BY <1>2
  <2> QED
    BY <1>2, <1>3, <1>5, <2>1, NothingToLose DEF NetTypes, DaemonTypes, Wired
<1>9. /\ FirstHalf => Notifying /\ at > LossAt /\ ~(at <= LossAt)
      /\ SecondHalf => at > CeaseAt /\ ~(at <= CeaseAt) /\ Sent(ResendAt) /\ Sent(EorAt)
  <2>1. FirstHalf => Notifying /\ at > LossAt
    BY <1>1, <1>6 DEF FirstNet
  <2>2. SecondHalf => ~(at <= CeaseAt)
    BY <1>1, <1>6 DEF SecondNet
  <2> QED
    BY <1>3, <2>1, <2>2, Figures
<1>10. /\ FirstHalf' <=> FirstHalf
       /\ SecondHalf' <=> SecondHalf
       /\ Going' <=> Going
       /\ \A k : Sent(k)' <=> Sent(k)
  BY <1>2, <1>4
<1>11. \A r \in Routes : table'[r] = ABSENT
  BY <1>5, NothingToLose
<1>12. ABSENT # ACTIVE /\ ACTIVE # STALE /\ ABSENT # STALE
  BY DEF ABSENT, ACTIVE, STALE
<1>a. ScriptTypes'
  BY <1>1, <1>2, <1>4, <1>8 DEF ScriptTypes
<1>b. Between'
  BY <1>1, <1>2, <1>4 DEF Between
<1>c. Place'
  BY <1>1, <1>2, <1>4, <1>5 DEF Place
<1>d. Reference'
  BY <1>1, <1>2, <1>4 DEF Reference
<1>e. FirstNet'
  BY <1>1, <1>2, <1>4, <1>7, <1>9 DEF FirstNet
<1>f. FirstTable'
  BY <1>1, <1>2, <1>4, <1>5, <1>9, <1>11, <1>12, TheRoutes DEF FirstTable, NoneIn
<1>g. FirstHeld'
  BY <1>2, <1>4, <1>9 DEF FirstHeld
<1>h. FirstOver'
  BY <1>2, <1>5 DEF FirstOver
<1>i. SecondNet'
  BY <1>2, <1>4, <1>7, <1>9 DEF SecondNet
<1>j. SecondTable'
  BY <1>2, <1>4, <1>5, <1>9, <1>11, <1>12, TheRoutes DEF SecondTable
<1>k. SecondSeen'
  <2>1. SecondHalf /\ ~COVERAGE => ~diverged
    BY <1>1, <1>3, <1>9, Figures DEF SecondSeen
  <2>2. NoneIn(table', STALE)
    BY <1>11, <1>12 DEF NoneIn
  <2> QED
    BY <1>2, <1>4, <1>5, <2>1, <2>2 DEF SecondSeen
<1>l. Isolated'
  BY <1>2, <1>5 DEF Isolated
<1>m. Passing'
  BY <1>1, <1>2, <1>4 DEF Passing, Conforming
<1> QED
  BY <1>a, <1>b, <1>c, <1>d, <1>e, <1>f, <1>g, <1>h, <1>i, <1>j, <1>k, <1>l, <1>m DEF DInv

(* The daemon notices that the connection is closed.                       *)
LEMMA CloseHandled ==
  ASSUME DInv, mode.directed, HandleClose, UNCHANGED svars PROVE DInv'
<1>1. /\ ScriptTypes /\ Between /\ Place /\ Reference
      /\ FirstNet /\ FirstTable /\ FirstHeld /\ FirstOver
      /\ SecondNet /\ SecondTable /\ SecondSeen /\ Isolated /\ Passing
  BY DEF DInv
<1>2. /\ up /\ inbox # <<>> /\ Head(inbox).kind = "close"
      /\ up' = FALSE /\ inbox' = <<>> /\ link' = link /\ LoseRoutes
      /\ UNCHANGED <<mode, state, pc, sock, pass, index, timed, breaks, dgr>>
      /\ UNCHANGED <<at, failed>>
  BY DEF HandleClose, runner, svars
<1>3. /\ index \in 1 .. 6 /\ at \in 1 .. 19 /\ NetTypes /\ DaemonTypes /\ Wired
      /\ table \in Routing
  BY <1>1, <1>2 DEF ScriptTypes, Between, DaemonTypes
<1>4. Kept
  BY <1>2, Unmoved
<1>5. /\ DaemonTypes'
      /\ left = {} => left' = {}
      /\ table = NoRoutes => table' = NoRoutes /\ (diverged' => diverged)
      /\ NoneIn(table, STALE) => table' = Lost(dgr, table) /\ diverged' = diverged
  BY <1>2, <1>3, LosesRoutes, LosesFresh, NothingToLose
<1>6. /\ \E i \in 1 .. Len(inbox) : inbox[i].kind = "close"
      /\ ~CeaseFirst(inbox)
  BY <1>2, <1>3, TailHas DEF NetTypes
<1>7. /\ \A k : ~Has(inbox', k)
      /\ \A r : ~HasUpdate(inbox', r)
      /\ CeaseFirst(inbox') /\ OneEor(inbox') /\ Len(inbox') = 0
  BY <1>2, EmptyHas
<1>8. ~link
  BY <1>2, <1>3, <1>6 DEF Wired, Unclosed
<1>9. NetTypes' /\ Wired'
  <2>1. inbox' \in Seq(Msg)
    BY <1>2
  <2> QED
    BY <1>2, <1>3, <1>8, <2>1 DEF NetTypes, Wired
<1>10. /\ ~SecondHalf
       /\ FirstHalf => ~Notifying /\ at > LossAt /\ ~(at <= LossAt) /\ (dgr <=> gr_enabled)
       /\ FirstHalf => ~(PATIENT /\ at > LossAt + 1)
  <2>1. ~SecondHalf
    BY <1>1, <1>6 DEF SecondNet
  <2>2. FirstHalf => ~Notifying /\ at > LossAt /\ (dgr <=> gr_enabled)
    BY <1>1, <1>6 DEF FirstNet
  <2>3. FirstHalf => ~(PATIENT /\ at > LossAt + 1)
    BY <1>1, <1>2 DEF FirstNet
  <2> QED
    BY <1>3, <2>1, <2>2, <2>3, Figures
<1>11. /\ FirstHalf' <=> FirstHalf
       /\ ~SecondHalf'
       /\ Going' <=> Going
  BY <1>2, <1>4, <1>10
<1>12. FirstHalf =>
         /\ ~diverged'
         /\ \A r \in Routes : table'[r] = IF gr_enabled /\ table[r] = ACTIVE THEN STALE ELSE ABSENT
  <2>1. FirstHalf => table' = Lost(dgr, table) /\ ~diverged'
    BY <1>1, <1>2, <1>5 DEF FirstTable
  <2> QED
    BY <1>10, <2>1 DEF Lost, AfterLoss
<1>13. FirstHalf /\ ~gr_enabled => table' = NoRoutes
  <2>1. table' \in Routing
    BY <1>5 DEF DaemonTypes
  <2> QED
    BY <1>12, <2>1, SweptRoutes
<1>14. ABSENT # ACTIVE /\ ACTIVE # STALE /\ ABSENT # STALE
  BY DEF ABSENT, ACTIVE, STALE
<1>a. ScriptTypes'
  BY <1>1, <1>2, <1>4, <1>5, <1>9 DEF ScriptTypes
<1>b. Between'
  BY <1>1, <1>2, <1>4 DEF Between
<1>c. Place'
  BY <1>1, <1>2, <1>4, <1>5 DEF Place
<1>d. Reference'
  BY <1>1, <1>2, <1>4 DEF Reference
<1>e. FirstNet'
  BY <1>1, <1>2, <1>4, <1>10 DEF FirstNet
<1>f. FirstTable'
  BY <1>1, <1>2, <1>4, <1>10, <1>12, <1>13, <1>14, TheRoutes DEF FirstTable, NoneIn
<1>g. FirstHeld'
  BY <1>1, <1>2, <1>4, <1>12, TheRoutes DEF FirstHeld
<1>h. FirstOver'
  BY <1>1, <1>2, <1>3, <1>4, <1>10, Figures DEF FirstOver
<1>i. SecondNet'
  BY <1>11 DEF SecondNet
<1>j. SecondTable'
  BY <1>11 DEF SecondTable
<1>k. SecondSeen'
  BY <1>11 DEF SecondSeen
<1>l. Isolated'
  BY <1>1, <1>2, <1>4, <1>5, <1>6 DEF Isolated
<1>m. Passing'
  BY <1>1, <1>2, <1>4 DEF Passing, Conforming
<1> QED
  BY <1>a, <1>b, <1>c, <1>d, <1>e, <1>f, <1>g, <1>h, <1>i, <1>j, <1>k, <1>l, <1>m DEF DInv

(* A restart time passes.                                                  *)
LEMMA TimerFires ==
  ASSUME DInv, mode.directed, RestartTimer, UNCHANGED svars PROVE DInv'
<1>1. /\ ScriptTypes /\ Between /\ Place /\ Reference
      /\ FirstNet /\ FirstTable /\ FirstHeld /\ FirstOver
      /\ SecondNet /\ SecondTable /\ SecondSeen /\ Isolated /\ Passing
  BY DEF DInv
<1>2. /\ ~up /\ timed /\ (PATIENT => pc \in {"sleep", "expire"})
      /\ \E r \in Routes : table[r] = STALE
      /\ UNCHANGED <<mode, state, pc, sock, pass, index, timed>>
      /\ UNCHANGED <<link, inbox, breaks, up, dgr, at, failed>>
  BY DEF RestartTimer, Sleeping, runner, net, svars
<1>3. /\ index \in 1 .. 6 /\ at \in 1 .. 19 /\ NetTypes /\ DaemonTypes /\ Wired
      /\ table \in Routing /\ Expiring
  <2>1. table # NoRoutes
    BY <1>2, NothingToLose DEF ABSENT, STALE
  <2> QED
    BY <1>1, <1>2, <2>1 DEF ScriptTypes, Between, DaemonTypes
<1>4. Kept
  BY <1>2, Unmoved
<1>5. PATIENT => pc = "expire"
  BY <1>1, <1>2 DEF ScriptTypes, DirectedPc
<1>6. /\ DaemonTypes' /\ table' = Cleaned(table) /\ UNCHANGED diverged
      /\ left = {} => left' = {}
  BY <1>3, Effects DEF RestartTimer
<1>7. /\ table = NoRoutes => table' = NoRoutes
      /\ \A r \in Routes :
              /\ table[r] = ABSENT => table'[r] = ABSENT
              /\ table'[r] = ACTIVE <=> table[r] = ACTIVE
  <2>1. \A r \in Routes :
          /\ table[r] = ABSENT => table'[r] = ABSENT
          /\ table'[r] = ACTIVE <=> table[r] = ACTIVE
    BY <1>6 DEF Cleaned, Sweep, ABSENT, ACTIVE, STALE
  <2> QED
    BY <1>3, <1>6, <2>1, NothingToLose
<1>8. /\ ~SecondHalf
      /\ FirstHalf' <=> FirstHalf
      /\ ~SecondHalf'
      /\ Going' <=> Going
      /\ \A k : Sent(k)' <=> Sent(k)
  BY <1>2, <1>3, <1>4, Kinds
<1>a. ScriptTypes'
  BY <1>1, <1>2, <1>4, <1>6 DEF ScriptTypes, NetTypes, Wired
<1>b. Between'
  BY <1>1, <1>2, <1>3, <1>4 DEF Between
<1>c. Place'
  BY <1>1, <1>2, <1>4, <1>6, <1>7 DEF Place
<1>d. Reference'
  BY <1>1, <1>2, <1>4 DEF Reference
<1>e. FirstNet'
  BY <1>1, <1>2, <1>4 DEF FirstNet
<1>f. FirstTable'
  <2> SUFFICES ASSUME FirstHalf
               PROVE  FirstTable'
    BY <1>8 DEF FirstTable
  <2>1. /\ ~diverged' /\ ~up'
        /\ second_route \/ table'[Route2] = ABSENT
        /\ Notifying \/ ~gr_enabled => table' = NoRoutes
    BY <1>1, <1>2, <1>6, <1>7, TheRoutes DEF FirstTable
  <2>2. NoneIn(table', ACTIVE)
    BY <1>1, <1>2, <1>7 DEF FirstTable, NoneIn
  <2>3. /\ at <= LossAt /\ Sent(2) => table'[Route1] = ACTIVE \/ HasUpdate(inbox, Route1)
        /\ at <= LossAt /\ second_route /\ Sent(3) =>
             table'[Route2] = ACTIVE \/ HasUpdate(inbox, Route2)
    BY <1>1, <1>7, TheRoutes DEF FirstTable
  <2> QED
    BY <1>2, <1>4, <2>1, <2>2, <2>3 DEF FirstTable
<1>g. FirstHeld'
  BY <1>2, <1>4, <1>5 DEF FirstHeld
<1>h. FirstOver'
  BY <1>1, <1>2, <1>4, <1>7 DEF FirstOver
<1>i. SecondNet'
  BY <1>8 DEF SecondNet
<1>j. SecondTable'
  BY <1>8 DEF SecondTable
<1>k. SecondSeen'
  BY <1>8 DEF SecondSeen
<1>l. Isolated'
  BY <1>1, <1>2, <1>4, <1>6 DEF Isolated
<1>m. Passing'
  BY <1>1, <1>2, <1>4 DEF Passing, Conforming
<1> QED
  BY <1>a, <1>b, <1>c, <1>d, <1>e, <1>f, <1>g, <1>h, <1>i, <1>j, <1>k, <1>l, <1>m DEF DInv

(* A connection breaks.                                                    *)
LEMMA ConnectionBreaks ==
  ASSUME DInv, mode.directed, Break, UNCHANGED svars PROVE DInv'
<1>1. /\ ScriptTypes /\ Between /\ Place /\ Reference
      /\ FirstNet /\ FirstTable /\ FirstHeld /\ FirstOver
      /\ SecondNet /\ SecondTable /\ SecondSeen /\ Isolated /\ Passing
  BY DEF DInv
<1>2. /\ link /\ link' = FALSE /\ inbox' = <<>> /\ up' = FALSE /\ LoseRoutes
      /\ breaks' = breaks + 1
      /\ UNCHANGED <<mode, state, pc, sock, pass, index, timed, dgr, at, failed>>
  BY DEF Break, runner, svars
<1>3. /\ index \in 1 .. 6 /\ NetTypes /\ DaemonTypes /\ Wired /\ up
      /\ pc \notin {"settle", "idle", "done"}
  BY <1>1, <1>2 DEF ScriptTypes, Between, Wired
<1>4. Kept
  BY <1>2, Unmoved
<1>5. DaemonTypes'
  BY <1>2, <1>3, LosesRoutes
<1>6. breaks' \in Nat /\ breaks' # 0 /\ Len(inbox') = 0 /\ inbox' \in Seq(Msg)
  BY <1>2, <1>3 DEF NetTypes
<1>7. ~Going' /\ ~Conforming'
  BY <1>6 DEF Conforming
<1>a. ScriptTypes'
  BY <1>1, <1>2, <1>4, <1>5, <1>6 DEF ScriptTypes, NetTypes, Wired
<1>b. Between'
  BY <1>1, <1>2, <1>3, <1>4 DEF Between
<1>c. Passing'
  BY <1>7 DEF Passing
<1> QED
  BY <1>7, <1>a, <1>b, <1>c, Stopped

(* Of the steps of the generated suite, the directed one has those of the  *)
(* daemon and the network.                                                 *)
LEMMA OnlyDaemon ==
  ASSUME mode.directed, pc \in DirectedPc, ENext
  PROVE  Daemon \/ Break \/ Done
<1>1. ~Suite
  BY DEF Suite, BeginTrace, OpenOk, OpenRaises, Finish, DirectedPc
<1>2. ~Event
  BY DEF Event, SendUpdate, SendEor, MonitorOk, MonitorRaises, SendNotification,
         SendNotificationRaises, CloseConnection, ReconnectKeeping, ReconnectClearing,
         Reconnect, SleepForTimer, WakeUp, EndOfTrace, Perform, DirectedPc
<1>3. ~Observe
  BY DEF Observe, ReadPrefix, PollAgain, ObserveOk, ObserveRaises, FinalOk, FinalRaises,
         Observing, DirectedPc
<1>4. ~Cleanup
  BY DEF Cleanup, CleanupConnect, CleanupNoConnect, SendCease, SendCeaseRaises,
         CloseTrace, Rest, DirectedPc
<1> QED
  BY <1>1, <1>2, <1>3, <1>4 DEF ENext

(* The operations of a script.                                             *)
LEMMA OperationStep == ASSUME DInv, mode.directed, Operation PROVE DInv'
<1>1. CASE ConnectScenario
  <2>1. CASE Connect(gr_enabled, TRUE) /\ Advance(state) /\ UNCHANGED <<pass, queries>>
    BY <1>1, <2>1, ConnectOkStep DEF ConnectScenario
  <2>2. CASE ConnectRaises(gr_enabled, TRUE) /\ ErrorOut
    <3>1. gr_enabled \in BOOLEAN
      BY DEF gr_enabled
    <3> QED
      BY <1>1, <2>2, <3>1, ConnectRaisesStep DEF ConnectScenario
  <2> QED
    BY <1>1, <2>1, <2>2 DEF ConnectScenario
<1>2. CASE ReconnectScenario
  <2>1. CASE /\ Connect(TRUE, forwarding)
             /\ Advance(IF forwarding THEN ReconnectedKeeping(state)
                        ELSE ReconnectedClearing(state))
             /\ UNCHANGED <<pass, queries>>
    BY <1>2, <2>1, ReconnectOkStep DEF ReconnectScenario
  <2>2. CASE ConnectRaises(TRUE, forwarding) /\ ErrorOut
    <3>1. forwarding \in BOOLEAN
      BY DEF forwarding
    <3> QED
      BY <1>2, <2>2, <3>1, ConnectRaisesStep DEF ReconnectScenario
  <2> QED
    BY <1>2, <2>1, <2>2 DEF ReconnectScenario
<1>3. CASE CheckHit \/ CheckMiss \/ CheckSkipped
  <2>1. CASE at' # at
    BY <1>3, <2>1, CheckStep
  <2>2. CASE at' = at
    <3>1. at \in 1 .. 19
      BY DEF DInv, ScriptTypes
    <3>2. UNCHANGED <<evars, at, failed>>
      BY <1>3, <2>2, <3>1 DEF CheckHit, CheckMiss, CheckSkipped, Judge, Advance
    <3> QED
      BY <3>2, DirectedStutter
  <2> QED
    BY <2>1, <2>2
<1>4. CASE SendOp \/ SendOpOk \/ SendOpRaises \/ CeaseOp \/ CeaseOpRaises \/ CheckRaises
  BY <1>4, SendOpStep, SendOpOkStep, CeaseOpStep, RaisesStep
<1>5. CASE Pause \/ EndSession \/ SleepExpire \/ AwakeExpired
  BY <1>5, PauseStep, EndSessionStep, SleepExpireStep, AwakeExpiredStep
<1> QED
  BY <1>1, <1>2, <1>3, <1>4, <1>5 DEF Operation

(* The steps of the directed suite.                                        *)
LEMMA ScenarioStep == ASSUME DInv, mode.directed, SNext PROVE DInv'
<1>1. CASE Scenario
  BY <1>1, OperationStep, BeginScenarioStep, ReturnStep, FinallyStep, SettleStep,
     FinishScenariosStep
     DEF Scenario
<1>2. CASE ENext /\ UNCHANGED svars
  <2>1. Daemon \/ Break \/ Done
    BY <1>2, OnlyDaemon DEF DInv, ScriptTypes
  <2>2. CASE Daemon
    BY <1>2, <2>2, UpdateHandled, EorHandled, CeaseHandled, CloseHandled, TimerFires DEF Daemon
  <2>3. CASE Break
    BY <1>2, <2>3, ConnectionBreaks
  <2>4. CASE Done
    BY <1>2, <2>4, DirectedStutter DEF Done, svars
  <2> QED
    BY <2>1, <2>2, <2>3, <2>4
<1> QED
  BY <1>1, <1>2 DEF SNext

(* The mode of a run does not change.                                      *)
LEMMA ModeKept == [SNext]_allvars => mode' = mode
<1>1. Scenario => mode' = mode
  BY DEF Scenario, BeginScenario, Operation, Return, Finally, Settle, FinishScenarios,
         ConnectScenario, SendOp, SendOpOk, SendOpRaises, Pause, EndSession, SleepExpire,
         AwakeExpired, ReconnectScenario, CeaseOp, CeaseOpRaises, CheckHit, CheckMiss,
         CheckSkipped, CheckRaises, Judge, Advance, ErrorOut, OwnPrefixes, evars, runner
<1>2. Suite \/ Observe \/ Cleanup => mode' = mode
  BY DEF Suite, BeginTrace, OpenOk, OpenRaises, Finish, Observe, ReadPrefix, PollAgain,
         ObserveOk, ObserveRaises, FinalOk, FinalRaises, Cleanup, CleanupConnect,
         CleanupNoConnect, SendCease, SendCeaseRaises, CloseTrace, Rest, runner
<1>3. Event => mode' = mode
  BY DEF Event, SendUpdate, SendEor, MonitorOk, MonitorRaises, SendNotification,
         SendNotificationRaises, CloseConnection, ReconnectKeeping, ReconnectClearing,
         Reconnect, SleepForTimer, WakeUp, EndOfTrace, Perform
<1>4. Daemon \/ Break \/ Done => mode' = mode
  BY DEF Daemon, HandleUpdate, HandleEor, HandleCease, HandleClose, RestartTimer, Break,
         Done, evars, runner
<1> QED
  BY <1>1, <1>2, <1>3, <1>4 DEF SNext, ENext, allvars, evars, runner

(* The first scenario has nothing before it.                               *)
LEMMA FirstScenario == SInit => DInv
<1> SUFFICES ASSUME SInit
             PROVE  DInv
  OBVIOUS
<1>1. /\ mode \in Modes /\ pc = "idle" /\ at = 1 /\ sock = FALSE /\ pass = TRUE
      /\ state = initial(FALSE)
      /\ index = 0 /\ timed = FALSE /\ link = FALSE /\ inbox = <<>> /\ breaks = 0
      /\ up = FALSE /\ dgr = FALSE /\ table = NoRoutes /\ left = {} /\ diverged = FALSE
  BY DEF SInit, EInit
<1>2. state \in GrState
  BY <1>1 DEF initial, GrState, RouteState
<1>3. NetTypes /\ DaemonTypes /\ Wired /\ Len(inbox) = 0
  <2>1. inbox \in Seq(Msg) /\ Len(inbox) = 0
    BY <1>1
  <2> QED
    BY <1>1, <2>1, NothingToLose DEF NetTypes, DaemonTypes, Wired
<1>4. ScriptTypes
  <2>1. index \in 0 .. 6 /\ at \in 1 .. 19
    BY <1>1
  <2>2. pc \in DirectedPc /\ pc \notin {"sending", "expire"}
    BY <1>1 DEF DirectedPc
  <2> QED
    BY <1>1, <1>2, <1>3, <2>1, <2>2 DEF ScriptTypes
<1>5. Between /\ Passing
  BY <1>1, <1>3 DEF Between, Passing
<1>6. ~Going
  BY <1>1
<1> QED
  BY <1>4, <1>5, <1>6
     DEF DInv, Place, Reference, FirstNet, FirstTable, FirstHeld, FirstOver, SecondNet,
         SecondTable, SecondSeen, Isolated

(***************************************************************************)
(* Theorems about both suites                                              *)
(***************************************************************************)

(* A generated trace reported as passed is one that the daemon followed.   *)
LEMMA TracesPassFaithfully == ASSUME XInv, ~mode.directed PROVE PassedIsConformant
BY DEF XInv, Types, Noticed, Generated, PassedIsConformant, TraceOver

(* A conforming daemon that is in time never fails a generated trace.      *)
LEMMA TracesPassConforming == ASSUME XInv, ~mode.directed PROVE NoFalseAlarm
BY DEF XInv, Progress, Generated, NoFalseAlarm, Conforming

(* The invariant of the directed suite holds of every run.                 *)
THEOREM DirectedInvariant == SSpec => []DInv
<1>1. DInv /\ [SNext]_allvars => DInv'
  <2> SUFFICES ASSUME DInv, [SNext]_allvars
               PROVE  DInv'
    OBVIOUS
  <2>1. CASE ~mode.directed
    <3>1. ~mode'.directed
      BY <2>1, ModeKept
    <3> QED
      BY <3>1 DEF DInv
  <2>2. CASE mode.directed /\ SNext
    BY <2>2, ScenarioStep
  <2>3. CASE mode.directed /\ UNCHANGED allvars
    BY <2>3, DirectedStutter DEF allvars, svars
  <2> QED
    BY <2>1, <2>2, <2>3
<1> QED
  BY FirstScenario, <1>1, PTL DEF SSpec

(* "Run one isolated sequence" (gr_stateful.py:83): when the session of a  *)
(* directed scenario is established behind scenarios that passed, the      *)
(* daemon holds no route of theirs, whatever its timing and its faults.    *)
THEOREM ScenariosAreIsolated == SSpec => []IsolatedStart
<1>1. XInv /\ DInv => IsolatedStart
  <2> SUFFICES ASSUME XInv, DInv, pc = "script", at = 2, ~failed, breaks = 0,
                      COVERAGE => PATIENT
               PROVE  left = {}
    BY DEF IsolatedStart
  <2>1. mode.directed
    BY DEF XInv, Types, Generated, GeneratedPc
  <2>2. ScriptTypes /\ Between /\ Isolated
    BY <2>1 DEF DInv
  <2>3. pass
    BY <2>2, Figures DEF Between
  <2>4. index # 0
    BY <2>2 DEF ScriptTypes
  <2> QED
    BY <2>2, <2>3, <2>4 DEF Isolated
<1> QED
  BY <1>1, Invariant, DirectedInvariant, PTL

(* A trace or a scenario reported as passed is one that the daemon         *)
(* followed: a fault that changed what it holds would have failed an       *)
(* observation or a check (result['pass'], gr_stateful.py:291-298).        *)
THEOREM FaultsAreNoticed == SSpec => []PassedIsConformant
<1>1. XInv /\ DInv => PassedIsConformant
  <2>1. CASE ~mode.directed
    BY <2>1, TracesPassFaithfully
  <2>2. CASE mode.directed
    <3> SUFFICES ASSUME XInv, DInv, pc \in {"idle", "done"}, pass, breaks = 0, ~COVERAGE
                 PROVE  ~diverged
      BY DEF PassedIsConformant, TraceOver
    <3>1. CASE index = 0
      BY <2>2, <3>1 DEF DInv, Between
    <3>2. CASE index # 0
      <4>1. Going
        BY <3>2
      <4>2. at = Length + 1 /\ index \in 1 .. 6
        BY <2>2, <3>2 DEF DInv, Place, ScriptTypes
      <4>3. CASE Returning
        <5>1. SecondHalf /\ ~(at < CeaseAt)
          BY <4>1, <4>2, <4>3, Figures
        <5> QED
          BY <2>2, <5>1 DEF DInv, SecondSeen
      <4>4. CASE ~Returning
        <5>1. FirstHalf
          BY <4>1, <4>2, <4>4, Figures
        <5> QED
          BY <2>2, <5>1 DEF DInv, FirstTable
      <4> QED
        BY <4>3, <4>4
    <3> QED
      BY <3>1, <3>2
  <2> QED
    BY <2>1, <2>2
<1> QED
  BY <1>1, Invariant, DirectedInvariant, PTL

(* A conforming daemon that is in time never fails a trace or a scenario.  *)
THEOREM NoTraceFailsWrongly == SSpec => []NoFalseAlarm
<1>1. XInv /\ DInv => NoFalseAlarm
  <2>1. CASE ~mode.directed
    BY <2>1, TracesPassConforming
  <2>2. CASE mode.directed
    BY <2>2 DEF DInv, Passing, Conforming, NoFalseAlarm
  <2> QED
    BY <2>1, <2>2
<1> QED
  BY <1>1, Invariant, DirectedInvariant, PTL

=============================================================================
