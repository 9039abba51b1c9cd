------------------------------ MODULE Campaign ------------------------------
(***************************************************************************)
(* A whole run of the parity fuzzer (execute_comprehensive_suite of        *)
(* run_parity_fuzzer.py): the suites of the plan one after the other on    *)
(* one daemon and one tally, up to the report and the exit status.         *)
(*                                                                         *)
(* A case, a scenario or a trace is one step here, with any outcome its    *)
(* suite can have; ParityRunner, Handshake, GrExec and RouteLab model the  *)
(* inside of it.  What the suites share is what can go wrong between them: *)
(* the daemon, which may still hold the session of the suite before, the   *)
(* prefixes, the tally, and the ways in which a failure becomes a result.  *)
(***************************************************************************)
EXTENDS ParityTables, Integers, Sequences, FiniteSetsExt

CONSTANTS
  Runs,           \* the command lines, see Run
  Verdicts,       \* the oracle's, of the UPDATEs
  MaxCases,       \* bound: cases, scenarios or traces of a suite
  Space,          \* prefixes there are; 2^16 in the code
  MpReachPrefix,  \* 10.16.1.0/24, in each MP_REACH_NLRI for IPv4; 4097 in the code
  StateBase,      \* first prefix of the scenarios; 55000 in the code
  GeneratedBase   \* first prefix of the generated traces; 60000 in the code

UpdateSuites   == {"legacy", "aspath", "mpreach", "routerefresh"}
OpenSuites     == {"opencap", "grrestart"}
StatefulSuites == {"grstate", "grgenerated", "routecompetition"}

Order == <<"legacy", "aspath", "mpreach", "routerefresh", "opencap", "grrestart",
           "grstate", "grgenerated", "routecompetition">>

Run == [suite : {"all", "all_no_gr", "all_existing", "generated"} \cup
                UpdateSuites \cup OpenSuites \cup StatefulSuites,
        dry_run : BOOLEAN, coverage_mode : BOOLEAN, fail_on_deviation : BOOLEAN,
        combined : BOOLEAN, local : BOOLEAN,     \* --lab-profile, --frr-local
        route_baseline : BOOLEAN,
        patient : BOOLEAN]             \* the sleeps outlast the daemon

ASSUME CampaignAssumption ==
  /\ Runs \subseteq Run /\ Verdicts \subseteq ParseResult
  /\ MaxCases \in Nat /\ Space \in Nat \ {0}
  /\ StateBase \in Nat /\ GeneratedBase \in Nat
  /\ 0 < StateBase /\ StateBase < GeneratedBase /\ GeneratedBase < Space
  /\ MpReachPrefix \in 1 .. StateBase - 1

VARIABLES
  run,            \* the command line, which does not change
  pc,             \* "start", "suite", "case", "rest", or how it ended
  step,           \* the suite in Order
  left,           \* its cases that are left
  alloc,          \* PrefixAllocator._n
  results, error, \* of a stateful suite: its results, report['error']
  tally, discrepancies,
  sock,           \* BgpSession.sock is not None
  held,           \* the daemon has a session of the runner's address
  \* history
  begun,          \* cases, scenarios and traces, and errors outside of them
  wrong,          \* what went wrong
  collided,       \* a connection was opened while the daemon held a session
  used, reused,   \* prefixes that were announced; one was announced twice
  borrowed        \* the RIB was asked for one that had been announced before

suites    == <<run, step, alloc>>
books     == <<tally, discrepancies, begun>>
announced == <<used, reused, borrowed>>
network   == <<sock, held, collided, announced>>
vars      == <<suites, pc, left, results, error, books, wrong, network>>

LIVE  == ~run.dry_run
Quiet == run.dry_run \/ run.coverage_mode      \* no outcome is judged
Suite == Order[step]

ROWS == [grstate |-> "GR_STATEFUL", grgenerated |-> "GR_GENERATED",
         routecompetition |-> "ROUTE_COMPETITION"]
Rows == ParseResult \cup {ROWS[s] : s \in StatefulSuites}

Init ==
  /\ run \in Runs
  /\ pc = "start" /\ step = 1 /\ left = 0 /\ alloc = 0
  /\ results = <<>> /\ error = FALSE
  /\ tally = [TOTAL_EXECUTED |-> 0, FRR_CRASH |-> 0,
              MATRIX |-> [r \in Rows |-> [TOTAL |-> 0, PASS |-> 0, FAIL |-> 0]]]
  /\ discrepancies = 0
  /\ sock = FALSE /\ held = FALSE
  /\ begun = 0 /\ wrong = {} /\ collided = FALSE /\ used = {}
  /\ reused = FALSE /\ borrowed = FALSE

(***************************************************************************)
(* The plan                                                                *)
(***************************************************************************)
plan ==
  {s \in UpdateSuites \cup {"opencap"} :
     run.suite \in {"all", "all_no_gr", "all_existing", s}}
  \cup {s \in {"grrestart", "grstate"} : run.suite \in {"all", "all_existing", s}}
  \cup {s \in {"grgenerated"} : run.suite \in {"all", "generated", s}}
  \cup {s \in {"routecompetition"} :
          run.suite \in {"generated", s} \/ (run.suite = "all" /\ run.combined)}

Refused ==
  \/ "routecompetition" \in plan /\ LIVE /\ ~(run.combined /\ run.local)
  \/ run.route_baseline /\ run.suite # "routecompetition"

Start ==
  /\ pc = "start"
  /\ pc' = IF Refused THEN "ValueError" ELSE "suite"
  /\ UNCHANGED <<suites, left, results, error, books, wrong, network>>

(* A plausible bug of CloseSession: only the stateful suites close it.     *)
CloseSessionLate == sock' = (sock /\ Suite # "grstate")

(* The session of the UPDATE suites is closed before the OPEN suite, and   *)
(* in any case before the stateful ones.                                   *)
CloseSession ==
  sock' = (sock /\ ~(Suite = "opencap" /\ Suite \in plan) /\ Suite # "grstate")

SkipSuite ==
  /\ pc = "suite" /\ step <= Len(Order) /\ Suite \notin plan
  /\ CloseSession
  /\ step' = step + 1
  /\ UNCHANGED <<run, alloc, pc, left, results, error, books, wrong, held, collided, announced>>

(* A file that is missing gives no cases; the OPEN suites sleep first.     *)
BeginSuite ==
  /\ pc = "suite" /\ step <= Len(Order) /\ Suite \in plan
  /\ CloseSession
  /\ left' \in 0 .. MaxCases
  /\ results' = <<>> /\ error' = FALSE
  /\ pc' = IF LIVE /\ Suite \in OpenSuites THEN "rest" ELSE "case"
  /\ UNCHANGED <<suites, books, wrong, held, collided, announced>>

(***************************************************************************)
(* The tally                                                               *)
(***************************************************************************)
Count(row, total, pass, fail) ==
  /\ tally' = [tally EXCEPT
       !.TOTAL_EXECUTED = @ + total,
       !.MATRIX[row] = [TOTAL |-> @.TOTAL + total, PASS |-> @.PASS + pass, FAIL |-> @.FAIL + fail]]
  /\ discrepancies' = discrepancies + fail

Blame(what, is) == wrong' = IF is THEN wrong \cup {what} ELSE wrong

evaluate_case(verdict, observed, allowed) ==
  /\ IF Quiet THEN Count(verdict, 1, 0, 0)
     ELSE IF observed \in allowed THEN Count(verdict, 1, 1, 0) ELSE Count(verdict, 1, 0, 1)
  /\ Blame("deviation", ~Quiet /\ observed \notin allowed)

ConnectionFails ==
  /\ tally' = [tally EXCEPT !.FRR_CRASH = @ + 1]
  /\ Blame("connection", TRUE)
  /\ UNCHANGED discrepancies

BeginCase ==
  /\ pc = "case" /\ left > 0
  /\ left' = left - 1
  /\ begun' = begun + 1

(***************************************************************************)
(* Sessions, sleeps and prefixes                                           *)
(***************************************************************************)

(* The daemon sees the end of a connection, or ends a session itself.      *)
SessionEnds ==
  /\ held /\ held' = FALSE
  /\ UNCHANGED <<suites, pc, left, results, error, books, wrong, sock, collided, announced>>

Opened == collided' = (collided \/ held)

Rest ==
  /\ pc = "rest" /\ pc' = "case"
  /\ run.patient /\ ~sock => ~held
  /\ UNCHANGED <<suites, left, results, error, books, wrong, network>>

Announces(prefixes, asked) ==
  /\ used' = used \cup prefixes
  /\ reused' = (reused \/ prefixes \cap used # {})
  /\ borrowed' = (borrowed \/ (asked /\ prefixes \cap used # {}))

(***************************************************************************)
(* run_update_suite                                                        *)
(***************************************************************************)
observable == Suite \in {"legacy", "aspath"}       \* the UPDATE has IPv4 NLRI

OracleVerdicts == IF Suite = "routerefresh" THEN {"VALID"} ELSE Verdicts

(* A plausible bug of prefix: every suite counts from the beginning.       *)
PrefixOfSuite == {1 + (begun % MaxCases)}

prefix == {(alloc + 1) % Space}

(* The IPv4 prefixes of an UPDATE: the case's own, or, whatever the case,  *)
(* the one that an MP_REACH_NLRI for IPv4 unicast is given.                *)
Reachable ==
  IF observable THEN {prefix}
  ELSE IF Suite = "mpreach" THEN {{}, {MpReachPrefix}} ELSE {{}}

UpdateDry ==
  /\ BeginCase /\ Suite \in UpdateSuites /\ ~LIVE
  /\ alloc' = alloc + 1
  /\ \E v \in OracleVerdicts : evaluate_case(v, "DRY_RUN", {})
  /\ UNCHANGED <<run, step, pc, results, error, network>>

(* ensure raises: no connection, a collision, or a handshake that fails    *)
(* when the daemon is already established.                                 *)
UpdateCrash ==
  /\ BeginCase /\ Suite \in UpdateSuites /\ LIVE
  /\ alloc' = alloc + 1
  /\ ~sock /\ Opened
  /\ held' \in {held, TRUE}
  /\ ConnectionFails
  /\ pc' = "rest"
  /\ UNCHANGED <<run, step, results, error, sock, announced>>

(* A session that is gone, if the daemon ended it unseen, looks reset.     *)
Update(verdict, observed) ==
  /\ IF sock THEN UNCHANGED collided ELSE Opened
  /\ sock /\ ~held => observed = RESET
  /\ sock' = (observed # RESET)
  /\ IF observed = RESET THEN held' \in {sock => held, FALSE} /\ pc' = "rest"
                         ELSE held' = TRUE /\ UNCHANGED pc
  /\ \E prefixes \in Reachable : Announces(prefixes, observable)
  /\ evaluate_case(verdict, observed, expected_observations(verdict, observable))

UpdateCase ==
  /\ BeginCase /\ Suite \in UpdateSuites /\ LIVE
  /\ alloc' = alloc + 1
  /\ \E v \in OracleVerdicts, observed \in Observations :
       /\ observed = INSTALLED => observable
       /\ Update(v, observed)
  /\ UNCHANGED <<run, step, results, error>>

(***************************************************************************)
(* run_opencap_suite                                                       *)
(***************************************************************************)
OpenVerdicts == {"VALID", "SESSION_RESET"}         \* of parse_capabilities

OpenDry ==
  /\ BeginCase /\ Suite \in OpenSuites /\ ~LIVE
  /\ \E v \in OpenVerdicts : evaluate_case(v, "DRY_RUN", {})
  /\ UNCHANGED <<suites, pc, results, error, network>>

(* connect raises; the next case begins at once.                           *)
OpenRefused ==
  /\ BeginCase /\ Suite \in OpenSuites /\ LIVE
  /\ ConnectionFails
  /\ UNCHANGED <<suites, pc, results, error, network>>

(* A session of its own, closed whatever came of it, and a sleep.          *)
OpenCase ==
  /\ BeginCase /\ Suite \in OpenSuites /\ LIVE
  /\ Opened
  /\ \E v \in OpenVerdicts, established \in BOOLEAN :
       /\ evaluate_case(v, IF established THEN INSTALLED ELSE RESET, ALLOWED_OBSERVATIONS[v])
       /\ held' \in {established, TRUE}
  /\ pc' = "rest"
  /\ UNCHANGED <<suites, results, error, sock, announced>>

(***************************************************************************)
(* run_scenarios, run_generated_scenarios, route_stateful.run_scenarios    *)
(***************************************************************************)
Passed == [pass |-> TRUE, error |-> FALSE]
Failed == [pass : {FALSE}, error : BOOLEAN]        \* a check, or an error

(* A failed scenario is one of six; a failed trace ends its suite.  Dry    *)
(* runs fail where the oracle and the model disagree.                      *)
Trace(result) ==
  /\ pc = "case" /\ left > 0 /\ begun' = begun + 1
  /\ Suite = "grstate" => LIVE \/ result.pass
  /\ Suite # "grstate" => result.pass \/ result.error
  /\ left' = IF Suite = "grstate" \/ result.pass THEN left - 1 ELSE 0
  /\ results' = Append(results, result)
  /\ Blame("trace", ~result.pass)
  /\ UNCHANGED <<suites, error, tally, discrepancies>>

Base == IF Suite = "grstate" THEN StateBase ELSE GeneratedBase

TraceLive ==
  /\ \E result \in {Passed} \cup Failed : Trace(result)
  /\ LIVE /\ Suite \in {"grstate", "grgenerated"}
  /\ Opened
  /\ held' \in BOOLEAN
  /\ LET id == Base + 2 * Len(results)
     IN  Announces({id % Space, (id + 1) % Space}, TRUE)
  /\ pc' = "rest"
  /\ UNCHANGED sock

(* The lab has peers of its own.                                           *)
TraceApart ==
  /\ \E result \in {Passed} \cup Failed : Trace(result)
  /\ Suite \in StatefulSuites /\ ~error
  /\ ~LIVE \/ Suite = "routecompetition"
  /\ UNCHANGED <<pc, network>>

(* The lab cannot be set up, or not be cleaned up behind its last trace.   *)
RouteErrs ==
  /\ pc = "case" /\ Suite = "routecompetition" /\ LIVE
  /\ ~error /\ error' = TRUE
  /\ results = <<>> \/ (left = 0 /\ \A i \in DOMAIN results : results[i].pass)
  /\ left' = 0
  /\ begun' = begun + 1
  /\ Blame("error", TRUE)
  /\ UNCHANGED <<suites, pc, results, tally, discrepancies, network>>

(* An error outside of the traces becomes a result, `setup-or-cleanup'.    *)
Results ==
  IF error /\ \A i \in DOMAIN results : results[i].pass
  THEN Append(results, [pass |-> FALSE, error |-> TRUE]) ELSE results

(***************************************************************************)
(* record_stateful_results, the report and the exit                        *)
(***************************************************************************)
(* A plausible bug of Failing: only an error counts as a failure.          *)
FailingByError == {i \in DOMAIN Results : Results[i].error}

Failing == {i \in DOMAIN Results : Results[i].error \/ ~Results[i].pass}

(* A plausible bug of Passing: only dry runs are not empirical.            *)
PassingUnlessDry == IF run.dry_run THEN 0 ELSE Len(Results) - Cardinality(Failing)

Passing == IF Quiet THEN 0 ELSE Len(Results) - Cardinality(Failing)

record_stateful_results ==
  Count(ROWS[Suite], Len(Results), Passing, Cardinality(Failing))

EndSuite ==
  /\ pc = "case" /\ left = 0
  /\ IF Suite \in StatefulSuites THEN record_stateful_results
                                 ELSE UNCHANGED <<tally, discrepancies>>
  /\ results' = <<>> /\ error' = FALSE
  /\ step' = step + 1 /\ pc' = "suite"
  /\ UNCHANGED <<run, alloc, left, begun, wrong, network>>

(* A query of the RIB or the log raises where nothing catches it.          *)
Abort ==
  /\ pc = "case" /\ left > 0 /\ ~Quiet
  /\ observable \/ Suite \in OpenSuites \cup {"grstate"}
  /\ pc' = "aborted"
  /\ UNCHANGED <<suites, left, results, error, books, wrong, network>>

Exit ==
  /\ pc = "suite" /\ step > Len(Order)
  /\ pc' = IF run.fail_on_deviation /\ (discrepancies > 0 \/ tally.FRR_CRASH > 0)
           THEN "SystemExit" ELSE "returned"
  /\ UNCHANGED <<suites, left, results, error, books, wrong, network>>

Over == pc \in {"ValueError", "aborted", "SystemExit", "returned"}

Done == Over /\ UNCHANGED vars

Cases == UpdateDry \/ UpdateCrash \/ UpdateCase \/ OpenDry \/ OpenRefused \/ OpenCase

Traces == TraceLive \/ TraceApart \/ RouteErrs

Next ==
  \/ Start \/ SkipSuite \/ BeginSuite \/ Cases \/ Traces \/ EndSuite \/ Rest
  \/ SessionEnds \/ Abort \/ Exit \/ Done

Spec == Init /\ [][Next]_vars

(***************************************************************************)
(* Properties                                                              *)
(***************************************************************************)

Sum(field) == MapThenSumSet(LAMBDA r : tally.MATRIX[r][field], Rows)

(* Every case, scenario and trace that was begun is in the report once, as *)
(* an executed one or as a failed connection, in the row of its verdict,   *)
(* and the discrepancies are the failures of the rows; a live outcome      *)
(* passes or fails, and dry and coverage runs "do not count as empirical   *)
(* passes" (README.md of malformed_packets).                                *)
BooksBalance ==
  /\ tally.TOTAL_EXECUTED = Sum("TOTAL") /\ discrepancies = Sum("FAIL")
  /\ begun = tally.TOTAL_EXECUTED + tally.FRR_CRASH + Len(Results)
  /\ IF Quiet THEN Sum("PASS") = 0
     ELSE \A r \in Rows : tally.MATRIX[r].TOTAL = tally.MATRIX[r].PASS + tally.MATRIX[r].FAIL

(* The exit status tells: with --fail-on-deviation a run that went through *)
(* fails just when something went wrong in one of its suites, also where   *)
(* it was outside of the cases, or in a dry or coverage run                *)
(* ("adapter/model failures still fail those runs").                       *)
ExitIsTrue ==
  run.fail_on_deviation =>
    /\ pc = "returned"   => wrong = {}
    /\ pc = "SystemExit" => wrong # {}

(* No suite runs into a session that an earlier one, or the case before,   *)
(* left with the daemon: the sleeps outlast the daemon, and the session of *)
(* the UPDATE suites is closed ("avoid connection-collision against the    *)
(* stale inter-suite peer").                                               *)
NoCollision == run.patient => ~collided

(* The suites keep to their parts of the 2^16 prefixes there are.          *)
InBounds ==
  /\ alloc < StateBase
  /\ StateBase + 2 * MaxCases <= GeneratedBase
  /\ GeneratedBase + 2 * MaxCases <= Space + 1

(* Wherever the RIB is asked for a prefix, no case, scenario or trace      *)
(* before has announced it, so that the answer is about this one: the      *)
(* parts of the suites are disjoint, and the prefix that the UPDATEs with  *)
(* an MP_REACH_NLRI share comes behind all the cases that it could         *)
(* mislead, in the order of execute_comprehensive_suite.                   *)
PrefixIsOwn == InBounds => ~borrowed

(* "every test case sends its own `10.a.b.0/24` prefix" (README.md of      *)
(* malformed_packets).  The UPDATEs of build_mpreach_update do not.        *)
EveryCaseItsOwn == InBounds => ~reused

=============================================================================
