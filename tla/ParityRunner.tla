---------------------------- MODULE ParityRunner ----------------------------
(***************************************************************************)
(* The runner of the malformed-UPDATE suites (run_update_suite in          *)
(* run_parity_fuzzer.py) against an asynchronous daemon.                   *)
(*                                                                         *)
(* For each case the runner makes sure of a session, which it reuses until *)
(* it is torn down, sends one UPDATE with a prefix of its own, listens for *)
(* a while for a NOTIFICATION or an end of the connection, asks the daemon *)
(* for the prefix, and compares what it saw with what the oracle's verdict *)
(* allows.  The oracle itself is not modelled: a case is its verdict.      *)
(*                                                                         *)
(* The daemon is not in the repository; it handles what a session carries  *)
(* in order and in its own time.                                           *)
(***************************************************************************)
EXTENDS ParityTables, Naturals, Sequences

CONSTANT
  Modes           \* the ways in which the suite may be run, see Mode

Mode == [coverage : BOOLEAN,             \* outcomes are not compared
         patient  : BOOLEAN,             \* timeouts and sleeps outlast the daemon
         faults   : BOOLEAN,             \* it does what the verdict does not allow
         verdicts : SUBSET ParseResult,  \* the oracle's, of the cases
         cases    : Nat,                 \* bound: cases of the suite
         breaks   : Nat]                 \* bound: connections that break

ASSUME ParityAssumption ==
  /\ Modes # {}
  /\ \A m \in Modes : m \in Mode /\ m.verdicts # {}

VARIABLES
  mode,           \* of this run of the suite, which does not change
  \* the runner
  pc,             \* where run_update_suite is
  number,         \* of the current case
  case,           \* the verdict of the current case, and if it has IPv4 NLRI
  sock,           \* BgpSession.sock: the number of the connection, or NONE
  active,         \* send_update_and_monitor: the session survived
  polls,          \* check_if_route_installed: polls that are left
  installed,      \* its result
  report,         \* each case that was executed: number, case, observation, pass
  crashes,        \* tally['FRR_CRASH']
  \* the connections
  connections,    \* how many were opened
  inbox,          \* sent on each connection, not read by the daemon
  ended,          \* connections on which the daemon said it was the end
  chat,           \* something else of the daemon's is unread on the current one
  breaks,
  \* the daemon
  peer,           \* the connection of its session, or NONE
  rib,            \* the case that installed each prefix, or NONE
  effect          \* history: what it did of the UPDATE of each case

runner == <<mode, pc, number, case, sock, active, polls, installed, report, crashes>>
net    == <<connections, inbox, ended, chat, breaks>>
daemon == <<peer, rib, effect>>
vars   == <<runner, net, daemon>>

COVERAGE  == mode.coverage
PATIENT   == mode.patient
FAULTS    == mode.faults
Verdicts  == mode.verdicts
MaxCases  == mode.cases
MaxBreaks == mode.breaks

NONE == 0
Cases == 1 .. MaxCases
Case == [verdict : Verdicts, observable : BOOLEAN]

(* A plausible bug of prefix: one prefix for all cases, as it used to be.  *)
PrefixFixed(n) == 1

(* PrefixAllocator and _prefix_bytes, below 2^16 cases.                    *)
prefix(n) == n

Init ==
  /\ mode \in Modes
  /\ pc = "next" /\ number = 0
  /\ case = CHOOSE c \in Case : TRUE
  /\ sock = NONE /\ active = FALSE /\ polls = 0 /\ installed = FALSE
  /\ report = <<>> /\ crashes = 0
  /\ connections = 0 /\ inbox = <<>> /\ ended = {} /\ chat = FALSE /\ breaks = 0
  /\ peer = NONE /\ rib = [n \in Cases |-> NONE]
  /\ effect = [n \in Cases |-> "none"]

(***************************************************************************)
(* The daemon                                                              *)
(***************************************************************************)

(* What RFC 7606 has a daemon do with the UPDATE: keep its routes, drop    *)
(* them, or reset the session.                                             *)
Conforming(v) ==
  CASE v \in {"VALID", "ATTRIBUTE_DISCARD"} -> {"keep"}
    [] v = "TREAT_AS_WITHDRAW"              -> {"drop"}
    [] v = "AFI_SAFI_DISABLE"               -> {"drop", "reset"}
    [] v = "SESSION_RESET"                  -> {"reset"}
    [] v = "IMPL_CHOICE"                    -> {"keep", "drop", "reset"}

NoRoutes == [n \in Cases |-> NONE]

DropSession == peer' = NONE /\ rib' = NoRoutes

Act(message, what) ==
  /\ effect' = [effect EXCEPT ![message.number] = what]
  /\ ended' = IF what = "reset" THEN ended \cup {peer} ELSE ended
  /\ rib' = IF what = "reset" \/ ~message.observable THEN rib
            ELSE [rib EXCEPT ![prefix(message.number)] =
                    IF what = "keep" THEN message.number ELSE NONE]

HandleUpdate ==
  /\ peer # NONE /\ peer \notin ended
  /\ inbox[peer] # <<>> /\ Head(inbox[peer]).kind = "update"
  /\ LET message == Head(inbox[peer]) IN
       \E what \in {"keep", "drop", "reset"} :
         /\ FAULTS \/ what \in Conforming(message.verdict)
         /\ Act(message, what)
  /\ inbox' = [inbox EXCEPT ![peer] = Tail(@)]
  /\ UNCHANGED <<runner, connections, chat, breaks, peer>>

(* The runner has closed the connection.                                   *)
HandleClose ==
  /\ peer # NONE /\ peer \notin ended
  /\ inbox[peer] # <<>> /\ Head(inbox[peer]).kind = "close"
  /\ ended' = ended \cup {peer}
  /\ UNCHANGED <<runner, connections, inbox, chat, breaks, daemon>>

Break ==
  /\ peer # NONE /\ peer \notin ended /\ breaks < MaxBreaks
  /\ breaks' = breaks + 1
  /\ ended' = ended \cup {peer}
  /\ UNCHANGED <<runner, connections, inbox, chat, daemon>>

(* The session goes some time after the NOTIFICATION, and its routes too.  *)
Teardown ==
  /\ peer # NONE /\ peer \in ended
  /\ DropSession
  /\ UNCHANGED <<runner, net, effect>>

(* A KEEPALIVE, an UPDATE or the like, as often as the daemon pleases.     *)
Chat ==
  /\ sock # NONE /\ peer = sock /\ sock \notin ended
  /\ ~chat /\ chat' = TRUE
  /\ UNCHANGED <<runner, connections, inbox, ended, breaks, daemon>>

Daemon == HandleUpdate \/ HandleClose \/ Teardown

(* Time enough for a patient runner: the daemon has done what it will do.  *)
Rested == PATIENT /\ peer # NONE => peer \notin ended /\ inbox[peer] = <<>>

(***************************************************************************)
(* The runner: BgpSession                                                  *)
(***************************************************************************)

(* The daemon has its part of a handshake; the new session takes the place *)
(* of one it has not seen to end.                                          *)
Establish(sent) ==
  /\ connections' = connections + 1
  /\ inbox' = Append(inbox, sent)
  /\ peer' = connections' /\ chat' = FALSE
  /\ IF peer = NONE THEN UNCHANGED <<rib, ended>>
     ELSE rib' = NoRoutes /\ ended' = ended \cup {peer}
  /\ UNCHANGED effect

BeginCase ==
  /\ pc = "next" /\ number < MaxCases
  /\ pc' = "ensure"
  /\ number' = number + 1
  /\ \E c \in Case : case' = c
  /\ UNCHANGED <<mode, sock, active, polls, installed, report, crashes, net, daemon>>

Reuse ==
  /\ pc = "ensure" /\ sock # NONE
  /\ pc' = "send"
  /\ UNCHANGED <<mode, number, case, sock, active, polls, installed, report, crashes, net, daemon>>

Connect ==
  /\ pc = "ensure" /\ sock = NONE
  /\ Establish(<<>>)
  /\ sock' = connections'
  /\ pc' = "send"
  /\ UNCHANGED <<mode, number, case, active, polls, installed, report, crashes, breaks>>

(* ensure raises: no connection, or a collision with the old session ...   *)
ConnectRaises ==
  /\ pc = "ensure" /\ sock = NONE
  /\ PATIENT => peer # NONE
  /\ crashes' = crashes + 1
  /\ pc' = "rest"
  /\ UNCHANGED <<mode, number, case, sock, active, polls, installed, report, net, daemon>>

(* ... or the handshake fails once the daemon is established, and the      *)
(* runner closes its socket.                                               *)
HandshakeFails ==
  /\ pc = "ensure" /\ sock = NONE
  /\ breaks < MaxBreaks /\ breaks' = breaks + 1
  /\ Establish(<<[kind |-> "close"]>>)
  /\ crashes' = crashes + 1
  /\ pc' = "rest"
  /\ UNCHANGED <<mode, number, case, sock, active, polls, installed, report>>

(* A plausible bug of Rest: the next connection is opened at once.         *)
RestInHaste ==
  /\ pc \in {"rest", "settle"}
  /\ pc' = IF pc = "settle" THEN "evaluate" ELSE "next"
  /\ UNCHANGED <<mode, number, case, sock, active, polls, installed, report, crashes, net, daemon>>

(* The sleeps that let the daemon see the end of a connection.             *)
Rest ==
  /\ pc \in {"rest", "settle"} /\ Rested
  /\ pc' = IF pc = "settle" THEN "evaluate" ELSE "next"
  /\ UNCHANGED <<mode, number, case, sock, active, polls, installed, report, crashes, net, daemon>>

(***************************************************************************)
(* The runner: send_update_and_monitor                                     *)
(***************************************************************************)
Update == [kind |-> "update", number |-> number, verdict |-> case.verdict,
           observable |-> case.observable]

(* sendall: what is sent on a connection that ended is lost.               *)
Send ==
  /\ pc = "send"
  /\ inbox' = IF sock \in ended THEN inbox ELSE [inbox EXCEPT ![sock] = Append(@, Update)]
  /\ pc' = "monitor"
  /\ UNCHANGED <<mode, number, case, sock, active, polls, installed, report, crashes,
                 connections, ended, chat, breaks, daemon>>

(* A failed sendall returns (False, False), the inactive session.          *)
SendRaises ==
  /\ pc = "send" /\ sock \in ended
  /\ active' = FALSE
  /\ pc' = "invalidate"
  /\ UNCHANGED <<mode, number, case, sock, polls, installed, report, crashes, net, daemon>>

(* A NOTIFICATION, the end of the connection, or an error.                 *)
MonitorReset ==
  /\ pc = "monitor" /\ sock \in ended
  /\ active' = FALSE
  /\ pc' = "invalidate"
  /\ UNCHANGED <<mode, number, case, sock, polls, installed, report, crashes, net, daemon>>

(* recv returns with something else; the loop goes on, and its wait for    *)
(* 0.3s without data begins anew.                                          *)
MonitorOther ==
  /\ pc = "monitor" /\ chat
  /\ chat' = FALSE
  /\ UNCHANGED <<runner, connections, inbox, ended, breaks, daemon>>

(* A plausible bug of MonitorTimeout: recv waits as long as it takes.      *)
NoTimeout == FALSE /\ UNCHANGED vars

(* Nothing for 0.3s.                                                       *)
MonitorTimeout ==
  /\ pc = "monitor" /\ ~chat
  /\ Rested /\ (PATIENT => sock \notin ended)
  /\ active' = TRUE
  /\ installed' = FALSE
  /\ IF ~COVERAGE /\ case.observable THEN pc' = "check" /\ polls' = 3
                                     ELSE pc' = "evaluate" /\ UNCHANGED polls
  /\ UNCHANGED <<mode, number, case, sock, report, crashes, net, daemon>>

(* session.invalidate(), of a connection that has ended already.           *)
Invalidate ==
  /\ pc = "invalidate"
  /\ sock' = NONE /\ installed' = FALSE
  /\ pc' = "settle"
  /\ UNCHANGED <<mode, number, case, active, polls, report, crashes, net, daemon>>

(***************************************************************************)
(* The runner: check_if_route_installed                                    *)
(***************************************************************************)
PollHit ==
  /\ pc = "check" /\ rib[prefix(number)] # NONE
  /\ installed' = TRUE
  /\ pc' = "evaluate"
  /\ UNCHANGED <<mode, number, case, sock, active, polls, report, crashes, net, daemon>>

(* The prefix is not in the table, yet; it is asked for again.             *)
PollMiss ==
  /\ pc = "check" /\ rib[prefix(number)] = NONE
  /\ polls' = polls - 1
  /\ pc' = IF polls = 1 THEN "evaluate" ELSE "check"
  /\ UNCHANGED <<mode, number, case, sock, active, installed, report, crashes, net, daemon>>

(* A failed query is no observation: the exception ends the whole run.     *)
PollRaises ==
  /\ pc = "check" /\ ~PATIENT
  /\ pc' = "aborted"
  /\ UNCHANGED <<mode, number, case, sock, active, polls, installed, report, crashes, net, daemon>>

(***************************************************************************)
(* The runner: classify_observation and evaluate_case                      *)
(***************************************************************************)

(* A NOTIFICATION makes the session inactive, so that it need not be told. *)
observed == IF ~active THEN RESET ELSE IF installed THEN INSTALLED ELSE NOT_INSTALLED

Verdict ==
  IF COVERAGE THEN "unchecked"
  ELSE IF observed \in expected_observations(case.verdict, case.observable) THEN "PASS"
  ELSE "FAIL"

Evaluate ==
  /\ pc = "evaluate"
  /\ report' = Append(report, [number |-> number, case |-> case,
                               observed |-> observed, result |-> Verdict])
  /\ pc' = "next"
  /\ UNCHANGED <<mode, number, case, sock, active, polls, installed, crashes, net, daemon>>

Done ==
  /\ pc = "aborted" \/ (pc = "next" /\ number = MaxCases)
  /\ UNCHANGED vars

(***************************************************************************)
(* The specification                                                       *)
(***************************************************************************)
Listen == MonitorReset \/ MonitorOther \/ MonitorTimeout

Drive ==
  \/ BeginCase \/ Reuse \/ Connect \/ ConnectRaises \/ HandshakeFails \/ Rest
  \/ Send \/ SendRaises \/ Invalidate
  \/ PollHit \/ PollMiss \/ PollRaises \/ Evaluate

Next == Drive \/ Listen \/ Daemon \/ Chat \/ Break \/ Done

(* The runner and the daemon go on; recv returns, with data, with the end  *)
(* or after 0.3s without either.  Whether those 0.3s ever come is not      *)
(* assumed: the daemon may chat whenever it likes.                         *)
Spec ==
  /\ Init /\ [][Next]_vars
  /\ WF_vars(Drive) /\ WF_vars(Listen) /\ WF_vars(Daemon)

(***************************************************************************)
(* Properties                                                              *)
(***************************************************************************)

(* However late the daemon is and whichever connections break, a route     *)
(* that was seen installed was installed for this case, and not left over  *)
(* by an earlier one ("Isolates RIB state between cases",                  *)
(* run_parity_fuzzer.py:119).                                              *)
InstalledIsOwn ==
  \A i \in 1 .. Len(report) :
    report[i].observed = INSTALLED => effect[report[i].number] = "keep"

(* What the IPv4 table and the session can show of what RFC 7606 asks.     *)
Acceptable(c, what) ==
  IF c.observable THEN what \in Conforming(c.verdict)
  ELSE /\ what = "reset" => "reset" \in Conforming(c.verdict)
       /\ Conforming(c.verdict) = {"reset"} => what = "reset"

(* With time enough and on connections that hold, a case passes just when  *)
(* the daemon did with its UPDATE what the verdict allows, as far as it    *)
(* can be seen: the effects of one case are not blamed on the next.        *)
JudgedRight ==
  PATIENT /\ ~COVERAGE /\ breaks = 0 =>
    \A i \in 1 .. Len(report) :
      report[i].result = "PASS" <=> Acceptable(report[i].case, effect[report[i].number])

(* With time enough the runner never runs into the session that it closed  *)
(* itself, and takes that for a crash of the daemon (the sleeps of         *)
(* run_update_suite, lines 541 and 547).                                   *)
NoCollision == PATIENT /\ breaks = 0 => crashes = 0

(* The suite comes to its end, or to an error, whatever the daemon does    *)
(* and whichever connections break, unless the daemon goes on sending for  *)
(* ever: the loop of send_update_and_monitor has no deadline, and data     *)
(* that keep coming are all that can hold the suite up.                    *)
Ended == pc = "aborted" \/ (pc = "next" /\ number = MaxCases)

SuiteEnds == []<><<Chat>>_vars \/ <>Ended

=============================================================================
