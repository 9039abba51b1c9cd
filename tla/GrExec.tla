------------------------------- MODULE GrExec -------------------------------
(***************************************************************************)
(* The live runner of the generated graceful-restart traces                *)
(* (run_generated_scenarios, run_generated_trace, observe_gr in            *)
(* gr_stateful.py) against an asynchronous BGP daemon.                     *)
(*                                                                         *)
(* The runner drives the daemon over a TCP connection, one event at a      *)
(* time; after each event it polls the daemon's RIB, one prefix at a time, *)
(* until it agrees with the reference model twice in a row or a deadline   *)
(* passes.  It keeps the reference state (`state' of GrModel) and moves it *)
(* only once the event was observed.  Whatever happens, the trace ends by  *)
(* clearing what the daemon retains.                                       *)
(*                                                                         *)
(* The daemon is not in the repository: it is modelled by what the runner  *)
(* expects of it (GrModel) and, for the runs that ask whether the runner   *)
(* would notice, with faults.  It handles messages in its own time and in  *)
(* order; connections can break, and handshakes fail, a few times.         *)
(***************************************************************************)
EXTENDS GrModel, Naturals, Sequences

CONSTANTS
  Modes,          \* the ways in which the suite may be run, see Mode
  MaxTraces,      \* bound: traces of the suite
  MaxEvents       \* bound: events of a trace

Faults == {"keeps_stale", "ignores_eor"}

Mode == [directed : BOOLEAN,          \* the scenarios of GrScenarios instead
         coverage : BOOLEAN,          \* sleeps instead of RIB observations
         patient  : BOOLEAN,          \* deadlines and sleeps outlast the daemon
         faults   : SUBSET Faults,    \* what it may get wrong now and then
         breaks   : Nat]              \* bound: broken connections, failed handshakes

ASSUME ExecAssumption ==
  /\ Modes # {} /\ \A m \in Modes : m \in Mode
  /\ MaxTraces \in Nat \ {0} /\ MaxEvents \in Nat

VARIABLES
  mode,           \* of this run of the suite, which does not change
  \* the runner; `state' is GrModel's
  pc,             \* where run_generated_trace is
  after,          \* what checked_step expects the event to lead to
  sock,           \* the runner has a socket (sock is not None)
  pass,           \* result['pass'] of the current trace
  index,          \* traces begun
  events,         \* events of the current trace
  timed,          \* the trace has a timer event, so a short restart time
  seen,           \* observe_gr: the prefixes read in this poll
  matched,        \* observe_gr: the last poll was as wanted (stable)
  \* the network
  link,           \* the connection carries packets to the daemon
  inbox,          \* what the daemon has not handled yet of the connection
  breaks,         \* connections broken and handshakes failed so far
  \* the daemon
  up,             \* its session to the runner is established
  dgr,            \* graceful restart was negotiated on its last session
  table,          \* what it holds of the routes of the current trace
  left,           \* the states in which it holds routes of earlier traces
  diverged        \* history: a fault changed `table' in this trace

runner == <<mode, state, pc, after, sock, pass, index, events, timed>>
poll   == <<seen, matched>>
net    == <<link, inbox, breaks>>
daemon == <<up, dgr, table, left, diverged>>
evars  == <<runner, poll, net, daemon>>

COVERAGE  == mode.coverage
PATIENT   == mode.patient
FAULTS    == mode.faults
MaxBreaks == mode.breaks

Unread == "unread"
NothingSeen == [r \in Routes |-> Unread]
NoRoutes == [r \in Routes |-> ABSENT]

EInit ==
  /\ mode \in Modes
  /\ state = initial(FALSE) /\ after = initial(FALSE)
  /\ pc = "idle" /\ sock = FALSE /\ pass = TRUE
  /\ index = 0 /\ events = 0 /\ timed = FALSE
  /\ seen = NothingSeen /\ matched = FALSE
  /\ link = FALSE /\ inbox = <<>> /\ breaks = 0
  /\ up = FALSE /\ dgr = FALSE /\ table = NoRoutes /\ left = {} /\ diverged = FALSE

(***************************************************************************)
(* The daemon                                                              *)
(***************************************************************************)

(* The effect f on every route it holds; `right' is what the effect should *)
(* have been, so that the history sees where the fault changes a route.    *)
Affect(f, right) ==
  /\ table' = [r \in Routes |-> f[table[r]]]
  /\ left' = {f[old] : old \in left} \ {ABSENT}
  /\ diverged' = (diverged \/ \E r \in Routes : f[table[r]] # right[table[r]])

Lose == [old \in RouteState |-> AfterLoss(dgr, old)]
LoseNothing == [old \in RouteState |-> AfterLossKeepingStale(dgr, old)]
Drop == [old \in RouteState |-> Sweep(old)]
Forget == [old \in RouteState |-> ABSENT]
Same == [old \in RouteState |-> old]

(* The session fails; a faulty daemon does not count consecutive restarts. *)
LoseRoutes ==
  \/ Affect(Lose, Lose)
  \/ "keeps_stale" \in FAULTS /\ Affect(LoseNothing, Lose)

HandleUpdate ==
  /\ up /\ inbox # <<>> /\ Head(inbox).kind = "update"
  /\ LET m == Head(inbox) IN
       IF m.trace = index
       THEN table' = [table EXCEPT ![m.route] = ACTIVE] /\ UNCHANGED left
       ELSE left' = left \cup {ACTIVE} /\ UNCHANGED table
  /\ inbox' = Tail(inbox)
  /\ UNCHANGED <<runner, poll, link, breaks, up, dgr, diverged>>

HandleEor ==
  /\ up /\ inbox # <<>> /\ Head(inbox).kind = "eor"
  /\ \/ Affect(Drop, Drop)
     \/ "ignores_eor" \in FAULTS /\ Affect(Same, Drop)
  /\ inbox' = Tail(inbox)
  /\ UNCHANGED <<runner, poll, link, breaks, up, dgr>>

HandleCease ==
  /\ up /\ inbox # <<>> /\ Head(inbox).kind = "cease"
  /\ Affect(Forget, Forget)
  /\ up' = FALSE /\ link' = FALSE /\ inbox' = <<>>
  /\ UNCHANGED <<runner, poll, breaks, dgr>>

HandleClose ==
  /\ up /\ inbox # <<>> /\ Head(inbox).kind = "close"
  /\ LoseRoutes
  /\ up' = FALSE /\ inbox' = <<>>
  /\ UNCHANGED <<runner, poll, link, breaks, dgr>>

Sleeping == pc \in {"sleep", "expire"}

(* The restart time of a trace without a timer event (90s) never passes;   *)
(* a short one passes while the runner sleeps for it, or, if the runner is *)
(* slow, at any time.                                                      *)
RestartTimer ==
  /\ ~up /\ timed
  /\ PATIENT => Sleeping
  /\ \E r \in Routes : table[r] = STALE
  /\ Affect(Drop, Drop)
  /\ UNCHANGED <<runner, poll, net, up, dgr>>

(* The connection breaks: what was under way is lost, the daemon sees its  *)
(* session fail, and the runner still has its socket.                      *)
Break ==
  /\ link /\ breaks < MaxBreaks
  /\ breaks' = breaks + 1
  /\ link' = FALSE /\ inbox' = <<>> /\ up' = FALSE
  /\ LoseRoutes
  /\ UNCHANGED <<runner, poll, dgr>>

Daemon == HandleUpdate \/ HandleEor \/ HandleCease \/ HandleClose \/ RestartTimer

Settled ==
  /\ up => inbox = <<>>
  /\ Sleeping => \A r \in Routes : table[r] # STALE

(* Time the runner gives the daemon, as a deadline or as a sleep, is over. *)
TimePassed == PATIENT => Settled

(***************************************************************************)
(* The runner: sockets                                                     *)
(***************************************************************************)
Deliver(ms) == IF link THEN inbox' = inbox \o ms ELSE UNCHANGED inbox

Message(kind) == [kind |-> kind]
Update(r) == [kind |-> "update", route |-> r, trace |-> index]

(* sock.close(); the daemon learns of it behind all that was sent.         *)
Close(ms) ==
  /\ Deliver(ms \o <<Message("close")>>)
  /\ link' = FALSE
  /\ sock' = FALSE

(* The daemon takes part in a handshake: the OPEN offers graceful restart  *)
(* or not, and a cleared forwarding bit gives up what is retained.         *)
Establish(gr, forwarding) ==
  /\ ~up
  /\ dgr' = gr
  /\ IF gr /\ forwarding THEN Affect(Same, Same) ELSE Affect(Drop, Drop)

(* _connect: the handshake completes.                                      *)
Connect(gr, forwarding) ==
  /\ Establish(gr, forwarding)
  /\ up' = TRUE /\ link' = TRUE /\ inbox' = <<>>
  /\ sock' = TRUE
  /\ UNCHANGED breaks

(* _connect raises: the daemon still holds the session of the connection   *)
(* before; or the handshake fails once the daemon is established, and the  *)
(* runner closes its socket.                                               *)
ConnectRefused == up /\ UNCHANGED <<net, daemon, sock>>

ConnectFails(gr, forwarding) ==
  /\ breaks < MaxBreaks /\ breaks' = breaks + 1
  /\ Establish(gr, forwarding)
  /\ up' = TRUE /\ link' = FALSE /\ inbox' = <<Message("close")>>
  /\ UNCHANGED sock

ConnectRaises(gr, forwarding) == ConnectRefused \/ ConnectFails(gr, forwarding)

(***************************************************************************)
(* The runner: run_generated_scenarios and the start of a trace            *)
(***************************************************************************)

(* A new trace has prefixes of its own; the daemon may still hold some of  *)
(* the earlier ones.                                                       *)
OwnPrefixes ==
  /\ index' = index + 1
  /\ left' = (left \cup {table[r] : r \in Routes}) \ {ABSENT}
  /\ table' = NoRoutes /\ diverged' = FALSE

BeginTrace ==
  /\ pc = "idle" /\ ~mode.directed /\ pass /\ index < MaxTraces
  /\ OwnPrefixes
  /\ \E gr \in BOOLEAN : state' = initial(gr)
  /\ timed' \in BOOLEAN
  /\ events' = 0
  /\ pc' = "open"
  /\ UNCHANGED <<mode, after, sock, pass, poll, net, up, dgr>>

OpenOk ==
  /\ pc = "open" /\ pc' = "event"
  /\ Connect(state.gr_enabled, TRUE)
  /\ UNCHANGED <<mode, state, after, pass, index, events, timed, poll>>

OpenRaises ==
  /\ pc = "open" /\ pc' = "cleanup" /\ pass' = FALSE
  /\ ConnectRaises(state.gr_enabled, TRUE)
  /\ UNCHANGED <<mode, state, after, index, events, timed, poll>>

Finish ==
  /\ pc = "idle" /\ ~mode.directed /\ (~pass \/ index = MaxTraces)
  /\ pc' = "done"
  /\ UNCHANGED <<mode, state, after, sock, pass, index, events, timed, poll, net, daemon>>

(***************************************************************************)
(* The runner: the events of a trace                                       *)
(***************************************************************************)
Perform(expected, next) ==
  /\ pc = "event" /\ events < MaxEvents
  /\ events' = events + 1
  /\ after' = expected
  /\ pc' = next
  /\ seen' = NothingSeen /\ matched' = FALSE
  /\ UNCHANGED <<mode, state, index, timed>>

(* announce, refresh, eor: _send, first sendall ...                        *)
SendUpdate(r) ==
  /\ Perform(Learned(state, r), "monitor")
  /\ CanAnnounce(state, r) \/ CanRefresh(state, r)
  /\ Deliver(<<Update(r)>>)
  /\ UNCHANGED <<sock, pass, link, breaks, daemon>>

SendEor ==
  /\ Perform(Swept(state), "monitor")
  /\ CanEor(state)
  /\ Deliver(<<Message("eor")>>)
  /\ UNCHANGED <<sock, pass, link, breaks, daemon>>

(* ... then a short recv, which can tell that the connection is gone.      *)
MonitorOk ==
  /\ pc = "monitor" /\ pc' = "observe"
  /\ UNCHANGED <<mode, state, after, sock, pass, index, events, timed, poll, net, daemon>>

MonitorRaises ==
  /\ pc = "monitor" /\ ~link /\ pc' = "cleanup" /\ pass' = FALSE
  /\ UNCHANGED <<mode, state, after, sock, index, events, timed, poll, net, daemon>>

SendNotification ==
  /\ Perform(Notified(state), "observe")
  /\ CanEnd(state)
  /\ Close(<<Message("cease")>>)
  /\ UNCHANGED <<pass, breaks, daemon>>

SendNotificationRaises ==
  /\ Perform(Notified(state), "cleanup")
  /\ CanEnd(state) /\ ~link /\ pass' = FALSE
  /\ UNCHANGED <<sock, net, daemon>>

CloseConnection ==
  /\ Perform(Disconnected(state), "observe")
  /\ CanEnd(state)
  /\ Close(<<>>)
  /\ UNCHANGED <<pass, breaks, daemon>>

Reconnect(expected, forwarding) ==
  \/ /\ Perform(expected, "observe")
     /\ Connect(state.gr_enabled, forwarding)
     /\ UNCHANGED pass
  \/ /\ Perform(expected, "cleanup")
     /\ ConnectRaises(state.gr_enabled, forwarding)
     /\ pass' = FALSE

ReconnectKeeping ==
  CanReconnect(state) /\ Reconnect(ReconnectedKeeping(state), TRUE)

ReconnectClearing ==
  CanExpire(state) /\ Reconnect(ReconnectedClearing(state), FALSE)

SleepForTimer ==
  /\ Perform(Swept(state), "sleep")
  /\ timed /\ CanExpire(state)
  /\ UNCHANGED <<sock, pass, net, daemon>>

WakeUp ==
  /\ pc = "sleep" /\ TimePassed /\ pc' = "observe"
  /\ UNCHANGED <<mode, state, after, sock, pass, index, events, timed, poll, net, daemon>>

EndOfTrace ==
  /\ pc = "event" /\ pc' = "cleanup"
  /\ UNCHANGED <<mode, state, after, sock, pass, index, events, timed, poll, net, daemon>>

(***************************************************************************)
(* The runner: observe_gr, after an event and at the end of the trace      *)
(***************************************************************************)
Observing == pc \in {"observe", "final"} /\ ~COVERAGE

Wanted == IF pc = "observe" THEN after.routes ELSE NoRoutes

PollDone == \A r \in Routes : seen[r] # Unread

ReadPrefix(r) ==
  /\ Observing /\ seen[r] = Unread
  /\ seen' = [seen EXCEPT ![r] = table[r]]
  /\ UNCHANGED <<runner, matched, net, daemon>>

(* The poll is not the last: it differs, or it is the first that agrees.   *)
PollAgain ==
  /\ Observing /\ PollDone
  /\ ~(matched /\ seen = Wanted)
  /\ matched' = (seen = Wanted)
  /\ seen' = NothingSeen
  /\ UNCHANGED <<runner, net, daemon>>

Stable == PollDone /\ matched /\ seen = Wanted

(* A plausible bug of ObservationRaises: the poll has no deadline.         *)
NoDeadline == FALSE

(* The deadline, or an error of the RIB query, raises.                     *)
ObservationRaises == Observing /\ (PATIENT => Settled /\ table # Wanted)

(* A plausible bug of ObserveOk: the runner goes on although the deadline  *)
(* passed.                                                                 *)
ObserveAnyway ==
  /\ pc = "observe"
  /\ pc' = "event" /\ state' = after
  /\ UNCHANGED <<mode, after, sock, pass, index, events, timed, poll, net, daemon>>

ObserveOk ==
  /\ pc = "observe"
  /\ IF COVERAGE THEN TimePassed ELSE Stable
  /\ pc' = "event" /\ state' = after
  /\ UNCHANGED <<mode, after, sock, pass, index, events, timed, poll, net, daemon>>

(* A plausible bug of ObserveRaises: the error does not fail the trace.    *)
ObserveGivesUp ==
  /\ pc = "observe" /\ ObservationRaises
  /\ pc' = "cleanup"
  /\ UNCHANGED <<mode, state, after, sock, pass, index, events, timed, poll, net, daemon>>

ObserveRaises ==
  /\ pc = "observe" /\ ObservationRaises
  /\ pc' = "cleanup" /\ pass' = FALSE
  /\ UNCHANGED <<mode, state, after, sock, index, events, timed, poll, net, daemon>>

(***************************************************************************)
(* The runner: the end of a trace (the finally of run_generated_trace)     *)
(***************************************************************************)

(* A plausible bug of Retained: stale routes are taken for gone.           *)
RetainedActive == \E r \in Routes : state.routes[r] = ACTIVE

Retained == \E r \in Routes : present(state, r)

CleanupConnect ==
  /\ pc = "cleanup" /\ ~sock /\ Retained
  /\ \/ pc' = "cease" /\ Connect(state.gr_enabled, FALSE) /\ UNCHANGED pass
     \/ pc' = "close" /\ ConnectRaises(state.gr_enabled, FALSE) /\ pass' = FALSE
  /\ UNCHANGED <<mode, state, after, index, events, timed, poll>>

CleanupNoConnect ==
  /\ pc = "cleanup" /\ (sock \/ ~Retained)
  /\ pc' = IF sock THEN "cease" ELSE "final"
  /\ seen' = NothingSeen /\ matched' = FALSE
  /\ UNCHANGED <<mode, state, after, sock, pass, index, events, timed, net, daemon>>

SendCease ==
  /\ pc = "cease" /\ pc' = "final"
  /\ Deliver(<<Message("cease")>>)
  /\ seen' = NothingSeen /\ matched' = FALSE
  /\ UNCHANGED <<mode, state, after, sock, pass, index, events, timed, link, breaks, daemon>>

SendCeaseRaises ==
  /\ pc = "cease" /\ ~link /\ pc' = "close" /\ pass' = FALSE
  /\ UNCHANGED <<mode, state, after, sock, index, events, timed, poll, net, daemon>>

FinalOk ==
  /\ pc = "final" /\ (COVERAGE \/ Stable)
  /\ pc' = "close"
  /\ UNCHANGED <<mode, state, after, sock, pass, index, events, timed, poll, net, daemon>>

(* A plausible bug of FinalRaises: a failed clean-up does not fail the     *)
(* trace.                                                                  *)
FinalGivesUp ==
  /\ pc = "final" /\ ObservationRaises
  /\ pc' = "close"
  /\ UNCHANGED <<mode, state, after, sock, pass, index, events, timed, poll, net, daemon>>

FinalRaises ==
  /\ pc = "final" /\ ObservationRaises
  /\ pc' = "close" /\ pass' = FALSE
  /\ UNCHANGED <<mode, state, after, sock, index, events, timed, poll, net, daemon>>

CloseTrace ==
  /\ pc = "close" /\ pc' = "rest"
  /\ IF sock THEN Close(<<>>) ELSE UNCHANGED <<inbox, link, sock>>
  /\ UNCHANGED <<mode, state, after, pass, index, events, timed, poll, breaks, daemon>>

Rest ==
  /\ pc = "rest" /\ TimePassed /\ pc' = "idle"
  /\ UNCHANGED <<mode, state, after, sock, pass, index, events, timed, poll, net, daemon>>

(***************************************************************************)
(* The specification                                                       *)
(***************************************************************************)
Suite == BeginTrace \/ OpenOk \/ OpenRaises \/ Finish

Event ==
  \/ \E r \in Routes : SendUpdate(r)
  \/ SendEor \/ MonitorOk \/ MonitorRaises
  \/ SendNotification \/ SendNotificationRaises \/ CloseConnection
  \/ ReconnectKeeping \/ ReconnectClearing
  \/ SleepForTimer \/ WakeUp \/ EndOfTrace

Observe ==
  \/ \E r \in Routes : ReadPrefix(r)
  \/ PollAgain \/ ObserveOk \/ ObserveRaises \/ FinalOk \/ FinalRaises

Cleanup ==
  \/ CleanupConnect \/ CleanupNoConnect \/ SendCease \/ SendCeaseRaises
  \/ CloseTrace \/ Rest

Done == pc = "done" /\ UNCHANGED evars

ENext == Suite \/ Event \/ Observe \/ Cleanup \/ Daemon \/ Break \/ Done

(* The daemon handles what it receives, the runner never blocks for ever   *)
(* (its sockets have timeouts), and deadlines pass.  A send is assumed to  *)
(* end: it reads until a silence of 0.01s (gr_stateful.py:56-59), in the   *)
(* loop that ParityRunner models, with the data that may hold it up.       *)
Fairness ==
  /\ WF_evars(Daemon)
  /\ WF_evars(Suite \/ Event \/ Cleanup)
  /\ WF_evars(Observe)
  /\ WF_evars(ObserveRaises \/ FinalRaises)

ESpec == EInit /\ [][ENext]_evars /\ Fairness

(***************************************************************************)
(* Properties                                                              *)
(***************************************************************************)

TraceOver == pc \in {"idle", "done"}

(* A trace reported as passed is a trace the daemon followed: had its      *)
(* faults changed what it held of a route of the trace, an observation     *)
(* would have failed (result['pass'], gr_stateful.py:291-298).  Out of its *)
(* reach are faults that something else repairs before a poll sees them: a *)
(* broken connection, or a restart time (2s, in traces with a timer event) *)
(* shorter than the deadline of an observation (3s).                       *)
PassedIsConformant ==
  TraceOver /\ pass /\ breaks = 0 /\ ~timed /\ ~COVERAGE => ~diverged

(* No routes left between generated traces (gr_stateful.py:302): when the  *)
(* session of a trace is established the daemon holds no route of an       *)
(* earlier one, whatever failed in those and however slow the daemon is.   *)
(* In coverage mode, which observes nothing, this rests on the sleeps, on  *)
(* a conforming daemon and on connections that hold.                       *)
CleanStart ==
  pc = "event" /\ events = 0 /\ (COVERAGE => PATIENT /\ FAULTS = {} /\ breaks = 0) =>
    left = {}

(* An event that reconnects finds the old session gone: the runner does    *)
(* not race the daemon's detection of the loss, because it observed a RIB  *)
(* that only the loss can explain.                                         *)
Reconnecting == pc = "event" /\ ~state.connected
NoSessionCollision == Reconnecting /\ (COVERAGE => PATIENT) => ~up

(* When the runner goes on to the next event the daemon agrees with the    *)
(* reference state, unless the connection broke since it was observed or a *)
(* short restart time passed meanwhile.                                    *)
Agreement ==
  pc = "event" /\ breaks = 0 /\ ~timed /\ ~COVERAGE => table = state.routes

(* A conforming daemon, undisturbed and with time enough to answer, never  *)
(* fails a trace.                                                          *)
NoFalseAlarm == PATIENT /\ FAULTS = {} /\ breaks = 0 => pass

(* The suite comes to an end, whatever the daemon does.                    *)
SuiteEnds == <>(pc = "done")

=============================================================================
