---------------------------- MODULE GrScenarios ----------------------------
(***************************************************************************)
(* The directed graceful-restart scenarios (run_scenario, run_scenarios in *)
(* gr_stateful.py): six scripts, each a session with routes, its end, and  *)
(* what the helper makes of it.                                            *)
(*                                                                         *)
(* They drive the daemon of GrExec, but unlike its traces they do not wait *)
(* for the RIB to agree: they sleep, look once whether a route is there,   *)
(* note the answer and go on, whatever it is.  The reference state moves   *)
(* with what is sent.                                                      *)
(***************************************************************************)
EXTENDS GrExec

ASSUME TwoRoutes == \E r1, r2 \in Routes : r1 # r2 /\ Routes = {r1, r2}

VARIABLES
  at,             \* the next operation of the script
  queries,        \* check_if_route_installed: queries without the route
  failed          \* a scenario of this run did not pass

svars == <<at, queries, failed>>
allvars == <<evars, svars>>

Route1 == CHOOSE r \in Routes : TRUE
Route2 == CHOOSE r \in Routes : r # Route1

SCENARIOS == <<"stale-then-eor", "refresh-one-then-eor", "forwarding-bit-cleared",
               "restart-time-expired", "notification-clears-route", "no-gr-control">>

name == SCENARIOS[index]
gr_enabled == name # "no-gr-control"
second_route == name = "refresh-one-then-eor"
forwarding == name # "forwarding-bit-cleared"

(***************************************************************************)
(* The script of a scenario                                                *)
(***************************************************************************)
Op(op, r) == [op |-> op, route |-> r]
Only(condition, ops) == IF condition THEN ops ELSE <<>>

Announced ==
  <<Op("connect", Route1), Op("announce", Route1)>>
  \o Only(second_route, <<Op("announce", Route2)>>)
  \o <<Op("pause", Route1), Op("check", Route1)>>
  \o Only(second_route, <<Op("check", Route2)>>)

Disconnects ==
  <<Op(IF name = "notification-clears-route" THEN "notify" ELSE "disconnect", Route1),
    Op("pause", Route1), Op("check", Route1)>>

Expires == <<Op("timer", Route1), Op("check", Route1)>>

(* A plausible bug of Farewell: the session ends without a word.           *)
FarewellSilent == <<>>

Farewell == <<Op("cease", Route1)>>

Restarts ==
  <<Op("reconnect", Route1), Op("pause", Route1), Op("check", Route1)>>
  \o Only(second_route, <<Op("refresh", Route1)>>)
  \o <<Op("eor", Route1), Op("pause", Route1), Op("check", Route1)>>
  \o Only(second_route, <<Op("check", Route2)>>)
  \o Farewell

Script ==
  Announced \o Disconnects \o
  (IF name = "restart-time-expired" THEN Expires
   ELSE Only(name \notin {"notification-clears-route", "no-gr-control"}, Restarts))

Doing(op) == pc = "script" /\ at <= Len(Script) /\ Script[at].op = op

(* The operation is over: its effect on the reference state.               *)
Advance(s) ==
  /\ pc' = "script" /\ at' = at + 1 /\ state' = s
  /\ UNCHANGED <<mode, after, index, events, timed, poll, failed>>

(* OSError or ConnectionError: the result has an error.                    *)
ErrorOut ==
  /\ pc' = "finally" /\ pass' = FALSE
  /\ UNCHANGED <<mode, state, after, index, events, timed, poll, svars>>

(***************************************************************************)
(* The run and its scenarios                                               *)
(***************************************************************************)
SInit == EInit /\ at = 1 /\ queries = 0 /\ failed = FALSE

BeginScenario ==
  /\ pc = "idle" /\ index < Len(SCENARIOS)
  /\ OwnPrefixes
  /\ pc' = "script" /\ at' = 1 /\ pass' = TRUE
  /\ state' = initial(gr_enabled')
  /\ timed' = (name' = "restart-time-expired")
  /\ UNCHANGED <<mode, after, sock, events, poll, net, up, dgr, queries, failed>>

ConnectScenario ==
  /\ Doing("connect")
  /\ \/ Connect(gr_enabled, TRUE) /\ Advance(state) /\ UNCHANGED <<pass, queries>>
     \/ ConnectRaises(gr_enabled, TRUE) /\ ErrorOut

(* _send; the reference state moves only if it does not raise.             *)
SendOp ==
  /\ Doing("announce") \/ Doing("refresh") \/ Doing("eor")
  /\ Deliver(<<IF Script[at].op = "eor" THEN Message("eor") ELSE Update(Script[at].route)>>)
  /\ pc' = "sending"
  /\ UNCHANGED <<mode, state, after, sock, pass, index, events, timed, poll, link, breaks,
                 daemon, svars>>

SendOpOk ==
  /\ pc = "sending"
  /\ Advance(IF Script[at].op = "eor" THEN Swept(state) ELSE Learned(state, Script[at].route))
  /\ UNCHANGED <<sock, pass, net, daemon, queries>>

SendOpRaises ==
  /\ pc = "sending" /\ ~link
  /\ ErrorOut
  /\ UNCHANGED <<sock, net, daemon>>

Pause ==
  /\ Doing("pause") /\ TimePassed
  /\ Advance(state)
  /\ UNCHANGED <<sock, pass, net, daemon, queries>>

(* The end of the session, with or without a NOTIFICATION before it.       *)
EndSession ==
  \/ /\ Doing("disconnect")
     /\ Close(<<>>) /\ Advance(Disconnected(state))
     /\ UNCHANGED <<pass, breaks, daemon, queries>>
  \/ /\ Doing("notify")
     /\ Close(<<Message("cease")>>) /\ Advance(Notified(state))
     /\ UNCHANGED <<pass, breaks, daemon, queries>>

SleepExpire ==
  /\ Doing("timer") /\ pc' = "expire"
  /\ UNCHANGED <<mode, state, after, sock, pass, index, events, timed, poll, net, daemon, svars>>

AwakeExpired ==
  /\ pc = "expire" /\ TimePassed
  /\ Advance(Swept(state))
  /\ UNCHANGED <<sock, pass, net, daemon, queries>>

ReconnectScenario ==
  /\ Doing("reconnect")
  /\ \/ /\ Connect(TRUE, forwarding)
        /\ Advance(IF forwarding THEN ReconnectedKeeping(state) ELSE ReconnectedClearing(state))
        /\ UNCHANGED <<pass, queries>>
     \/ ConnectRaises(TRUE, forwarding) /\ ErrorOut

CeaseOp ==
  /\ Doing("cease")
  /\ Deliver(<<Message("cease")>>)
  /\ Advance(state)
  /\ UNCHANGED <<sock, pass, link, breaks, daemon, queries>>

(* sendall of a NOTIFICATION raises.                                       *)
CeaseOpRaises ==
  /\ (Doing("cease") \/ Doing("notify")) /\ ~link
  /\ ErrorOut
  /\ UNCHANGED <<sock, net, daemon>>

(***************************************************************************)
(* _check: up to three queries                                             *)
(***************************************************************************)
MaxQueries == 3

Querying == Doing("check") /\ ~COVERAGE

InTable == table[Script[at].route] # ABSENT

Judge(actual) ==
  /\ pass' = (pass /\ actual = present(state, Script[at].route))
  /\ queries' = 0
  /\ Advance(state)
  /\ UNCHANGED <<sock, net, daemon>>

CheckHit == Querying /\ InTable /\ Judge(TRUE)

CheckMiss ==
  /\ Querying /\ ~InTable
  /\ IF queries + 1 = MaxQueries THEN Judge(FALSE)
     ELSE queries' = queries + 1 /\ UNCHANGED <<evars, at, failed>>

CheckSkipped ==
  /\ Doing("check") /\ COVERAGE
  /\ Advance(state)
  /\ UNCHANGED <<sock, pass, net, daemon, queries>>

(* The query itself raises, and nothing catches it: the run ends here.     *)
CheckRaises ==
  /\ Querying /\ ~PATIENT
  /\ pc' = "raising" /\ pass' = FALSE
  /\ UNCHANGED <<mode, state, after, sock, index, events, timed, poll, net, daemon, svars>>

(***************************************************************************)
(* The end of a scenario and of the run                                    *)
(***************************************************************************)
Return ==
  /\ pc = "script" /\ at > Len(Script)
  /\ pc' = "finally"
  /\ UNCHANGED <<mode, state, after, sock, pass, index, events, timed, poll, net, daemon, svars>>

Finally ==
  /\ pc \in {"finally", "raising"}
  /\ pc' = IF pc = "finally" THEN "settle" ELSE "done"
  /\ IF sock THEN Close(<<>>) ELSE UNCHANGED <<inbox, link, sock>>
  /\ failed' = (failed \/ ~pass)
  /\ UNCHANGED <<mode, state, after, pass, index, events, timed, poll, breaks, daemon, at, queries>>

Settle ==
  /\ pc = "settle" /\ TimePassed
  /\ pc' = "idle"
  /\ UNCHANGED <<mode, state, after, sock, pass, index, events, timed, poll, net, daemon, svars>>

FinishScenarios ==
  /\ pc = "idle" /\ index = Len(SCENARIOS)
  /\ pc' = "done"
  /\ UNCHANGED <<mode, state, after, sock, pass, index, events, timed, poll, net, daemon, svars>>

Operation ==
  \/ ConnectScenario \/ SendOp \/ SendOpOk \/ SendOpRaises
  \/ Pause \/ EndSession \/ SleepExpire \/ AwakeExpired \/ ReconnectScenario
  \/ CeaseOp \/ CeaseOpRaises
  \/ CheckHit \/ CheckMiss \/ CheckSkipped \/ CheckRaises

Scenario ==
  /\ mode.directed
  /\ \/ BeginScenario \/ Operation \/ Return \/ Finally \/ Settle \/ FinishScenarios

(***************************************************************************)
(* The specification: either suite                                         *)
(***************************************************************************)
SNext == Scenario \/ (ENext /\ UNCHANGED svars)

SSpec == SInit /\ [][SNext]_allvars /\ Fairness /\ WF_allvars(Scenario)

(* "Run one isolated sequence" (gr_stateful.py:83): when the session of a  *)
(* scenario is established, behind scenarios that passed, the daemon holds *)
(* no route of theirs, whatever its timing: each script either looks until *)
(* its routes are gone, or ends with a CEASE that the daemon has to handle *)
(* before it takes the next session.                                       *)
IsolatedStart ==
  pc = "script" /\ at = 2 /\ ~failed /\ breaks = 0 /\ (COVERAGE => PATIENT) => left = {}

=============================================================================
