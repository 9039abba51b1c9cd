------------------------------ MODULE RouteLab ------------------------------
(***************************************************************************)
(* The live runner of the route-competition traces (Lab and run_report in  *)
(* route_stateful.py) against an asynchronous daemon.                      *)
(*                                                                         *)
(* The runner keeps three sessions: peers 0 and 1 announce and withdraw    *)
(* candidate routes, peer 2 observes what the daemon exports.  It sends    *)
(* one event, then polls until the exported routes it has received and,    *)
(* unless it runs for coverage only, the daemon's RIB agree with the       *)
(* reference model twice in a row, or a deadline passes.  Every trace      *)
(* starts by withdrawing all candidates.                                   *)
(*                                                                         *)
(* The daemon is not in the repository; it is modelled as the runner must  *)
(* expect it: it handles what each peer sends in order but peers in any    *)
(* order, selects best paths later, exports later still, and the observer  *)
(* receives later than that.                                               *)
(***************************************************************************)
EXTENDS RouteModel, Sequences, FiniteSets

SequencesLib == INSTANCE SequencesExt

CONSTANT
  Modes           \* the ways in which the lab may be run, see Mode

Faults == {"keeps_malformed", "ignores_origin", "keeps_export"}

Mode == [coverage : BOOLEAN,           \* coverage_only: the RIB is not read
         patient  : BOOLEAN,           \* deadline and stable time outlast the daemon
         faults   : SUBSET Faults,     \* what it may get wrong now and then
         prefixes : SUBSET Prefixes,   \* bound: what traces are about
         offers   : SUBSET Route,      \* bound: the routes they announce
         traces   : Nat,               \* bound: traces of the run
         events   : Nat,               \* bound: events of a trace
         breaks   : Nat]               \* bound: sessions that break

ASSUME LabAssumption ==
  /\ IsFiniteSet(Prefixes)
  /\ Modes # {} /\ \A m \in Modes : m \in Mode

VARIABLES
  mode,           \* of this run of the lab, which does not change
  \* the runner; the reference state is RouteModel's `routes'
  pc,             \* where run_report is
  status,         \* the status of each trace begun
  error,          \* report['error'] is set
  events,         \* events of the current trace
  rib,            \* converge: the prefixes read in this poll
  matched,        \* converge: the last poll agreed
  exports,        \* peers[2].rib: what the observer has received
  \* the connections
  inbox,          \* sent by peers 0 and 1, not handled by the daemon
  outbox,         \* sent by the daemon, not received by the observer
  alive,          \* the sessions that are established
  breaks,
  \* the daemon
  candidates,     \* its candidate routes
  dirty,          \* prefixes whose best path is to be selected again
  best,           \* its best path of each prefix
  exported,       \* what it last sent the observer
  diverged        \* history: a fault changed something in this trace

runner == <<mode, routes, pc, status, error, events>>
poll   == <<rib, matched>>
net    == <<inbox, outbox, alive, breaks>>
daemon == <<candidates, dirty, best, exported, diverged>>
lvars  == <<runner, poll, exports, net, daemon>>

COVERAGE  == mode.coverage
PATIENT   == mode.patient
FAULTS    == mode.faults
MaxTraces == mode.traces
MaxEvents == mode.events
MaxBreaks == mode.breaks

Observer == 2
Sessions == Peers \cup {Observer}

(***************************************************************************)
(* expected_export and expected_rib                                        *)
(***************************************************************************)
NoExport == [peer |-> NoPeer, route |-> NoRoute]

Export(s, w, x) == IF w = NoPeer THEN NoExport ELSE [peer |-> w, route |-> s[x][w]]

expected_export(s) == [x \in Prefixes |-> Export(s, winner(s, x), x)]

(* Candidates and the best flag, which is all that can differ.             *)
RibEntry(s, w, x) == [candidates |-> s[x], best |-> w]
Unread == [candidates |-> [p \in Peers |-> NoRoute], best |-> 0 - 2]

expected_rib(s) == [x \in Prefixes |-> RibEntry(s, winner(s, x), x)]

NothingRead == [x \in Prefixes |-> Unread]

LInit ==
  /\ mode \in Modes
  /\ Init
  /\ pc = "setup" /\ status = <<>> /\ error = FALSE /\ events = 0
  /\ rib = NothingRead /\ matched = FALSE
  /\ exports = [x \in Prefixes |-> NoExport]
  /\ inbox = [p \in Peers |-> <<>>] /\ outbox = <<>>
  /\ alive = {} /\ breaks = 0
  /\ candidates = NoRoutes /\ dirty = {}
  /\ best = [x \in Prefixes |-> NoPeer]
  /\ exported = [x \in Prefixes |-> NoExport] /\ diverged = FALSE

(***************************************************************************)
(* The daemon                                                              *)
(***************************************************************************)

(* An update that changes nothing has no further effect.                   *)
Handle(p) ==
  /\ p \in alive /\ inbox[p] # <<>>
  /\ LET e == Head(inbox[p]) IN
       \/ /\ candidates' = step(candidates, e)
          /\ UNCHANGED diverged
       \/ /\ "keeps_malformed" \in FAULTS /\ e.kind \in {"bad_origin", "bad_aspath"}
          /\ candidates[e.prefix][p] # NoRoute
          /\ diverged' = TRUE
          /\ UNCHANGED candidates
  /\ dirty' = IF candidates' = candidates THEN dirty
              ELSE dirty \cup {Head(inbox[p]).prefix}
  /\ inbox' = [inbox EXCEPT ![p] = Tail(@)]
  /\ UNCHANGED <<runner, poll, exports, outbox, alive, breaks, best, exported>>

(* The decision process of the daemon compares one criterion after the     *)
(* other, each among the candidates that the one before has left.          *)
Shortest(s, x) ==
  {p \in eligible(s, x) : \A q \in eligible(s, x) : s[x][p].length <= s[x][q].length}

BestOrigin(s, x) ==
  {p \in Shortest(s, x) : \A q \in Shortest(s, x) : s[x][p].origin <= s[x][q].origin}

LowestId(ps) == IF ps = {} THEN NoPeer ELSE IF 0 \in ps THEN 0 ELSE 1

Decision(s, x) == LowestId(BestOrigin(s, x))

(* A daemon that does not look at ORIGIN.                                  *)
ByLength(s, x) == LowestId(Shortest(s, x))

Select(x) ==
  /\ x \in dirty
  /\ dirty' = dirty \ {x}
  /\ \/ best' = [best EXCEPT ![x] = Decision(candidates, x)] /\ UNCHANGED diverged
     \/ /\ "ignores_origin" \in FAULTS
        /\ best' = [best EXCEPT ![x] = ByLength(candidates, x)]
        /\ diverged' = (diverged \/ best'[x] # Decision(candidates, x))
  /\ UNCHANGED <<runner, poll, exports, net, candidates, exported>>

Advertise(x) ==
  /\ x \notin dirty /\ Observer \in alive
  /\ LET now == Export(candidates, best[x], x) IN
       /\ now # exported[x]
       /\ exported' = [exported EXCEPT ![x] = now]
       /\ \/ /\ outbox' = Append(outbox, [prefix |-> x, export |-> now])
             /\ UNCHANGED diverged
          \/ /\ "keeps_export" \in FAULTS /\ now = NoExport
             /\ diverged' = TRUE
             /\ UNCHANGED outbox
  /\ UNCHANGED <<runner, poll, exports, inbox, alive, breaks, candidates, dirty, best>>

(* A session breaks; without graceful restart its routes go with it.       *)
Break(p) ==
  /\ p \in alive /\ breaks < MaxBreaks
  /\ breaks' = breaks + 1
  /\ alive' = alive \ {p}
  /\ IF p = Observer
     THEN UNCHANGED <<candidates, dirty, inbox>>
     ELSE /\ candidates' = [x \in Prefixes |-> [candidates[x] EXCEPT ![p] = NoRoute]]
          /\ dirty' = Prefixes
          /\ inbox' = [inbox EXCEPT ![p] = <<>>]
  /\ UNCHANGED <<runner, poll, exports, outbox, best, exported, diverged>>

Daemon ==
  \/ \E p \in Peers : Handle(p)
  \/ \E x \in Prefixes : Select(x) \/ Advertise(x)

(* Nothing is left to handle, select, export or receive.                   *)
Settled ==
  /\ \A p \in Peers \cap alive : inbox[p] = <<>>
  /\ dirty = {} /\ outbox = <<>>
  /\ \A x \in Prefixes : exported[x] = Export(candidates, best[x], x)

(***************************************************************************)
(* The runner: sending                                                     *)
(***************************************************************************)
Withdrawal(p, x) == [kind |-> "withdraw", peer |-> p, prefix |-> x, route |-> NoRoute]

(* reset withdraws every prefix from both peers; one order stands for all. *)
Withdrawals ==
  [p \in Peers |-> SequencesLib!SetToSeq({Withdrawal(p, x) : x \in Prefixes})]

(* A plausible bug of Deliver: what is sent overtakes what was sent.       *)
DeliverFirst(ps, ms) ==
  inbox' = [p \in Peers |-> IF p \in ps \cap alive THEN ms[p] \o inbox[p] ELSE inbox[p]]

(* What sendall has handed over when the peers in `ps' were served: a dead *)
(* session swallows it.                                                    *)
Deliver(ps, ms) ==
  inbox' = [p \in Peers |-> IF p \in ps \cap alive THEN inbox[p] \o ms[p] ELSE inbox[p]]

StartPoll == rib' = NothingRead /\ matched' = FALSE

(* The exception handler of run_report.                                    *)
Fail ==
  /\ error' = TRUE
  /\ pc' = "done"
  /\ status' = IF status # <<>> /\ status[Len(status)] = "running"
               THEN [status EXCEPT ![Len(status)] = "failed"] ELSE status

(***************************************************************************)
(* The runner: run_report                                                  *)
(***************************************************************************)
SetupOk ==
  /\ pc = "setup" /\ pc' = "next"
  /\ alive' = Sessions
  /\ UNCHANGED <<mode, routes, status, error, events, poll, exports, inbox, outbox,
                 breaks, daemon>>

SetupFails ==
  /\ pc = "setup" /\ ~PATIENT
  /\ Fail
  /\ UNCHANGED <<mode, routes, events, poll, exports, net, daemon>>

(* reset, before each trace and after the last one.                        *)
Reset ==
  /\ pc = "next"
  /\ IF Len(status) < MaxTraces
     THEN pc' = "reset" /\ status' = Append(status, "running") /\ diverged' = FALSE
     ELSE pc' = "final" /\ UNCHANGED <<status, diverged>>
  /\ Deliver(Peers, Withdrawals)
  /\ StartPoll
  /\ UNCHANGED <<mode, routes, error, events, exports, outbox, alive, breaks,
                 candidates, dirty, best, exported>>

ResetRaises ==
  /\ pc = "next"
  /\ \E p \in Peers \ alive : Deliver({q \in Peers : q < p}, Withdrawals)
  /\ error' = TRUE /\ pc' = "done"
  /\ status' = IF Len(status) < MaxTraces THEN Append(status, "failed") ELSE status
  /\ UNCHANGED <<mode, routes, events, poll, exports, outbox, alive, breaks, daemon>>

SendEvent(e) ==
  /\ pc = "event" /\ events < MaxEvents
  /\ pc' = "sent"
  /\ events' = events + 1
  /\ routes' = step(routes, e)
  /\ Deliver({e.peer}, [p \in Peers |-> <<e>>])
  /\ StartPoll
  /\ UNCHANGED <<mode, status, error, exports, outbox, alive, breaks, daemon>>

SendEventRaises(e) ==
  /\ pc = "event" /\ events < MaxEvents /\ e.peer \notin alive
  /\ routes' = step(routes, e)
  /\ Fail
  /\ UNCHANGED <<mode, events, poll, exports, net, daemon>>

EndTrace ==
  /\ pc = "event" /\ pc' = "next"
  /\ status' = [status EXCEPT ![Len(status)] = IF COVERAGE THEN "coverage-only"
                                               ELSE "passed"]
  /\ UNCHANGED <<mode, routes, error, events, poll, exports, net, daemon>>

(***************************************************************************)
(* The runner: converge                                                    *)
(***************************************************************************)
Converging == pc \in {"reset", "sent", "final"}

Target == IF pc = "sent" THEN routes ELSE NoRoutes

PollStart == rib = NothingRead

(* pump: the observer receives some of what was sent to it.                *)
Pump ==
  /\ Converging /\ PollStart
  /\ outbox # <<>> /\ Observer \in alive
  /\ exports' = [exports EXCEPT ![Head(outbox).prefix] = Head(outbox).export]
  /\ outbox' = Tail(outbox)
  /\ UNCHANGED <<runner, poll, inbox, alive, breaks, daemon>>

(* pump: a session that ended raises.                                      *)
PumpRaises ==
  /\ Converging /\ PollStart /\ alive # Sessions
  /\ Fail
  /\ UNCHANGED <<mode, routes, events, poll, exports, net, daemon>>

ReadRib(x) ==
  /\ Converging /\ ~COVERAGE /\ rib[x] = Unread
  /\ PATIENT /\ matched => Settled         \* 0.2s after the first agreement
  /\ rib' = [rib EXCEPT ![x] = RibEntry(candidates, best[x], x)]
  /\ UNCHANGED <<runner, matched, exports, net, daemon>>

Polled == COVERAGE \/ \A x \in Prefixes : rib[x] # Unread

(* A plausible bug of Matches: the exported routes are not compared.       *)
MatchesRib == COVERAGE \/ rib = expected_rib(Target)

Matches ==
  /\ exports = expected_export(Target)
  /\ COVERAGE \/ rib = expected_rib(Target)

PollAgain ==
  /\ Converging /\ Polled
  /\ ~(matched /\ Matches)
  /\ matched' = Matches
  /\ rib' = NothingRead
  /\ UNCHANGED <<runner, exports, net, daemon>>

(* A plausible bug of ConvergeOk: agreement once is enough.                *)
ConvergeAtOnce ==
  /\ Converging /\ Polled /\ Matches
  /\ pc' = IF pc = "final" THEN "done" ELSE "event"
  /\ IF pc = "reset" THEN routes' = NoRoutes /\ events' = 0
                     ELSE UNCHANGED <<routes, events>>
  /\ UNCHANGED <<mode, status, error, poll, exports, net, daemon>>

ConvergeOk ==
  /\ Converging /\ Polled /\ matched /\ Matches
  /\ pc' = IF pc = "final" THEN "done" ELSE "event"
  /\ IF pc = "reset" THEN routes' = NoRoutes /\ events' = 0
                     ELSE UNCHANGED <<routes, events>>
  /\ UNCHANGED <<mode, status, error, poll, exports, net, daemon>>

(* A plausible bug of ConvergeRaises: the poll has no deadline.            *)
NoDeadline == FALSE /\ Fail /\ UNCHANGED <<mode, routes, events, poll, exports, net, daemon>>

(* The deadline, or an error of the RIB query.                             *)
ConvergeRaises ==
  /\ Converging
  /\ PATIENT => /\ Settled
                /\ \/ exports # expected_export(Target)
                   \/ [x \in Prefixes |-> RibEntry(candidates, best[x], x)]
                        # expected_rib(Target)
  /\ Fail
  /\ UNCHANGED <<mode, routes, events, poll, exports, net, daemon>>

(***************************************************************************)
(* The specification                                                       *)
(***************************************************************************)
Converge ==
  \/ Pump \/ PumpRaises
  \/ \E x \in Prefixes : ReadRib(x)
  \/ PollAgain \/ ConvergeOk \/ ConvergeRaises

TraceEvents ==
  {e \in EVENTS : e.prefix \in mode.prefixes /\ e.route \in mode.offers \cup {NoRoute}}

Drive ==
  \/ SetupOk \/ SetupFails \/ Reset \/ ResetRaises \/ EndTrace
  \/ \E e \in TraceEvents : SendEvent(e) \/ SendEventRaises(e)

Done == pc = "done" /\ UNCHANGED lvars

LNext == Drive \/ Converge \/ Daemon \/ (\E p \in Sessions : Break(p)) \/ Done

(* The daemon and the runner go on, every poll receives what has come, and *)
(* deadlines pass.                                                         *)
LSpec ==
  /\ LInit /\ [][LNext]_lvars
  /\ WF_lvars(Daemon) /\ WF_lvars(Drive) /\ WF_lvars(Converge)
  /\ SF_lvars(Pump) /\ WF_lvars(ConvergeRaises)

(***************************************************************************)
(* Properties                                                              *)
(***************************************************************************)

(* Whenever the runner goes on, the daemon holds, has selected and has     *)
(* exported just what the reference model says, and the observer has       *)
(* received it: an early agreement of a torn RIB read or of an export that *)
(* is about to change is never taken for convergence.  (A daemon with      *)
(* faults may still fall from agreement, unless it is in time.)            *)
Agreement ==
  pc = "event" /\ breaks = 0 /\ ~COVERAGE /\ (PATIENT \/ FAULTS = {}) =>
    /\ candidates = routes
    /\ \A x \in Prefixes : best[x] = winner(routes, x)
    /\ exports = expected_export(routes)
    /\ outbox = <<>>

(* What a candidate of the daemon will be once it handled all it was sent. *)
Eventually(p, x) ==
  LET mine == {i \in 1 .. Len(inbox[p]) : inbox[p][i].prefix = x}
      last == CHOOSE i \in mine : \A j \in mine : j <= i
  IN  IF mine = {} THEN candidates[x][p] ELSE step(candidates, inbox[p][last])[x][p]

(* Every trace starts from an empty candidate state, also in a run that    *)
(* only sees exports: what an earlier trace announced is gone, or its      *)
(* withdrawal is on its way ahead of all that this trace will send.        *)
Isolation ==
  pc = "event" /\ events = 0 =>
    \A p \in Peers, x \in Prefixes : Eventually(p, x) = NoRoute

(* A trace reported as passed is a trace the daemon followed: an update    *)
(* that kept a malformed route, a best path selected without its ORIGIN or *)
(* a withdrawal that was not exported has made it fail, if the 0.2s of     *)
(* stable agreement are time enough for the daemon to do its worst.        *)
PassedIsConformant ==
  pc = "next" /\ status # <<>> /\ PATIENT /\ breaks = 0 /\ ~COVERAGE => ~diverged

(* A conforming daemon, undisturbed and with time enough, never fails: the *)
(* polls wait for no state it does not come to, and the one sorting key of *)
(* State.winner (route_model.py:38-41) picks what its decision process     *)
(* does, whichever of length, ORIGIN and router ID decides.                *)
NoFalseAlarm == PATIENT /\ FAULTS = {} /\ breaks = 0 => ~error

(* The run comes to an end, whatever the daemon does.                      *)
RunEnds == <>(pc = "done")

=============================================================================
