---------------------------- MODULE ParityProofs ----------------------------
(***************************************************************************)
(* Theorems about ParityRunner, for any verdicts, number of cases and of   *)
(* broken connections, and every way to run a suite.                       *)
(***************************************************************************)
EXTENDS ParityRunner, SequenceTheorems, TLAPS

(***************************************************************************)
(* The inductive invariant                                                 *)
(***************************************************************************)
Message ==
  [kind : {"close"}]
  \cup [kind : {"update"}, number : Cases, verdict : Verdicts, observable : BOOLEAN]

Entry == [number : Cases, case : Case, observed : Observations,
          result : {"PASS", "FAIL", "unchecked"}]

RunnerTypes ==
  /\ pc \in {"next", "ensure", "rest", "settle", "send", "monitor", "invalidate", "check",
             "evaluate", "aborted"}
  /\ number \in 0 .. MaxCases /\ (pc # "next" => number > 0)
  /\ case \in Case
  /\ sock \in 0 .. connections
  /\ active \in BOOLEAN /\ installed \in BOOLEAN
  /\ polls \in 0 .. 3 /\ (pc = "check" => polls > 0)
  /\ report \in Seq(Entry) /\ crashes \in Nat

DaemonTypes ==
  /\ breaks \in Nat /\ connections \in Nat /\ ended \subseteq 1 .. connections
  /\ chat \in BOOLEAN
  /\ inbox \in Seq(Seq(Message)) /\ Len(inbox) = connections
  /\ peer \in 0 .. connections
  /\ rib \in [Cases -> 0 .. MaxCases]
  /\ effect \in [Cases -> {"none", "keep", "drop", "reset"}]

Types == mode \in Modes /\ RunnerTypes /\ DaemonTypes

LEMMA ModeTypes ==
  ASSUME mode \in Modes
  PROVE  /\ MaxCases \in Nat /\ MaxBreaks \in Nat
         /\ Verdicts \subseteq ParseResult /\ Verdicts # {}
         /\ PATIENT \in BOOLEAN /\ COVERAGE \in BOOLEAN /\ FAULTS \in BOOLEAN
BY ParityAssumption DEF Mode, MaxCases, MaxBreaks, Verdicts, PATIENT, COVERAGE, FAULTS

LEMMA ModeStays ==
  ASSUME [Next]_vars
  PROVE  mode' = mode
BY DEF Next, vars, runner, Drive, Listen, MonitorOther, Chat, Daemon, Break, Done, BeginCase, Reuse,
  Connect, ConnectRaises, HandshakeFails, Rest, Send, SendRaises, Invalidate, PollHit, PollMiss,
  PollRaises, Evaluate, MonitorReset, MonitorTimeout, HandleUpdate, HandleClose, Teardown

LEMMA InitialTypes == Init => Types
<1> SUFFICES ASSUME Init PROVE Types
  OBVIOUS
<1>1. mode \in Modes
  BY DEF Init
<1>2. case \in Case
  <2>1. \E c \in Case : TRUE
    <3>1. PICK v \in Verdicts : TRUE
      BY <1>1, ModeTypes
    <3>2. [verdict |-> v, observable |-> TRUE] \in Case
      BY DEF Case
    <3> QED BY <3>2
  <2> QED
    BY <2>1 DEF Init
<1>3. RunnerTypes
  <2>1. report \in Seq(Entry)
    BY DEF Init
  <2>2. active \in BOOLEAN /\ installed \in BOOLEAN
    BY DEF Init
  <2>3. number \in 0 .. MaxCases /\ sock \in 0 .. connections /\ polls \in 0 .. 3 /\ crashes \in Nat
    BY <1>1, ModeTypes DEF Init, NONE
  <2>4. pc = "next"
    BY DEF Init
  <2> QED BY <1>2, <2>1, <2>2, <2>3, <2>4 DEF RunnerTypes
<1>4. DaemonTypes
  <2>1. chat \in BOOLEAN
    BY DEF Init
  <2>2. /\ breaks = 0 /\ connections = 0 /\ ended = {} /\ inbox = <<>> /\ peer = 0
        /\ rib = [n \in Cases |-> 0] /\ effect = [n \in Cases |-> "none"]
    BY DEF Init, NONE
  <2> QED
    BY <1>1, <2>1, <2>2, ModeTypes DEF DaemonTypes
<1> QED
  BY <1>1, <1>3, <1>4 DEF Types

(* The connections and the daemon, when one more connection is opened.     *)
LEMMA EstablishTypes ==
  ASSUME Types, NEW sent \in Seq(Message), Establish(sent), mode' = mode, breaks' \in Nat
  PROVE  DaemonTypes'
<1>1. connections' \in Nat /\ inbox' \in Seq(Seq(Message)) /\ Len(inbox') = connections'
  BY DEF Types, DaemonTypes, Establish
<1>2. rib' \in [Cases -> 0 .. MaxCases]
  BY ModeTypes DEF Types, DaemonTypes, Establish, NoRoutes, NONE
<1>3. ended' \subseteq 1 .. connections' /\ peer' \in 0 .. connections'
  <2>1. connections \in Nat /\ connections' = connections + 1 /\ peer' = connections'
    BY DEF Types, DaemonTypes, Establish
  <2>2. ended' \subseteq ended \cup ({peer} \ {0})
    BY DEF Establish, NONE
  <2>3. ended \subseteq 1 .. connections /\ peer \in 0 .. connections
    BY DEF Types, DaemonTypes
  <2> QED BY <2>1, <2>2, <2>3
<1> QED
  BY <1>1, <1>2, <1>3
  DEF Types, DaemonTypes, Establish, Cases, MaxCases, Message, Verdicts

LEMMA TypesStep == Types /\ [Next]_vars => Types'
<1> SUFFICES ASSUME Types, [Next]_vars PROVE Types'
  OBVIOUS
<1>m. mode' = mode /\ mode \in Modes
  BY ModeStays DEF Types
<1>s. Message' = Message /\ Cases' = Cases /\ MaxCases' = MaxCases /\ Entry' = Entry
      /\ Case' = Case
  BY <1>m DEF Message, Cases, MaxCases, Entry, Case, Verdicts
<1> USE DEF Types
<1>a. ASSUME NEW c \in Seq(Message), inbox' = Append(inbox, c) 
      PROVE  inbox' \in Seq(Seq(Message)) /\ Len(inbox') = connections + 1
  BY <1>a DEF DaemonTypes
<1>1. CASE UNCHANGED vars
  BY <1>1, <1>s DEF vars, runner, net, daemon, RunnerTypes, DaemonTypes
<1>2. ASSUME UNCHANGED <<net, daemon>>
      PROVE  DaemonTypes'
  BY <1>2, <1>s DEF net, daemon, DaemonTypes
<1>3. ASSUME UNCHANGED runner, connections' = connections
      PROVE  RunnerTypes'
  BY <1>3, <1>s DEF runner, RunnerTypes
<1>4. CASE BeginCase
  <2>1. RunnerTypes'
    BY <1>4, <1>s, <1>m, ModeTypes DEF BeginCase, RunnerTypes, net
  <2> QED BY <2>1, <1>2, <1>4, <1>m DEF BeginCase
<1>5. CASE Reuse \/ Rest \/ SendRaises \/ MonitorReset \/ MonitorTimeout \/ Invalidate
           \/ PollHit \/ PollRaises \/ ConnectRaises
  <2>1. RunnerTypes'
    <3> USE <1>s DEF RunnerTypes, net
    <3>1. CASE Reuse \/ Rest \/ SendRaises \/ MonitorReset
      BY <3>1 DEF Reuse, Rest, SendRaises, MonitorReset
    <3>2. CASE MonitorTimeout
      <4>1. active' \in BOOLEAN /\ installed' \in BOOLEAN
        BY <3>2 DEF MonitorTimeout
      <4>2. polls' \in 0 .. 3 /\ (pc' = "check" => polls' > 0) /\ pc' \in {"check", "evaluate"}
        BY <3>2 DEF MonitorTimeout
      <4>3. UNCHANGED <<number, case, sock, connections, report, crashes>> /\ number > 0
        BY <3>2 DEF MonitorTimeout
      <4> QED BY <4>1, <4>2, <4>3
    <3>3. CASE Invalidate
      <4>1. active' \in BOOLEAN /\ installed' \in BOOLEAN
        BY <3>3 DEF Invalidate
      <4>2. sock' \in 0 .. connections /\ pc' = "settle" /\ number > 0
        BY <3>3 DEF Invalidate, NONE, DaemonTypes
      <4>3. UNCHANGED <<number, case, connections, polls, report, crashes>>
        BY <3>3 DEF Invalidate
      <4> QED BY <4>1, <4>2, <4>3
    <3>4. CASE PollHit \/ PollRaises
      BY <3>4 DEF PollHit, PollRaises
    <3>5. CASE ConnectRaises
      BY <3>5 DEF ConnectRaises
    <3> QED BY <1>5, <3>1, <3>2, <3>3, <3>4, <3>5
  <2>2. UNCHANGED <<net, daemon>>
    BY <1>5 DEF Reuse, Rest, SendRaises, MonitorReset, MonitorTimeout, Invalidate, PollHit,
                PollRaises, ConnectRaises
  <2> QED BY <2>1, <2>2, <1>2, <1>m
<1>6. CASE PollMiss
  <2>1. RunnerTypes'
    BY <1>6, <1>s DEF PollMiss, RunnerTypes, net
  <2> QED BY <2>1, <1>2, <1>6, <1>m DEF PollMiss
<1>7. CASE Evaluate
  <2>1. observed \in Observations /\ Verdict \in {"PASS", "FAIL", "unchecked"}
    BY DEF observed, Observations, Verdict
  <2>2. number \in Cases
    BY <1>7, <1>m, ModeTypes DEF Evaluate, RunnerTypes, Cases
  <2>3. [number |-> number, case |-> case, observed |-> observed, result |-> Verdict] \in Entry
    BY <2>1, <2>2 DEF Entry, RunnerTypes
  <2>4. report' \in Seq(Entry)
    BY <2>3, <1>7 DEF Evaluate, RunnerTypes
  <2>5. RunnerTypes'
    BY <2>4, <1>7, <1>s DEF Evaluate, RunnerTypes, net
  <2> QED BY <2>5, <1>2, <1>7, <1>m DEF Evaluate
<1>8. CASE Connect
  <2>1. DaemonTypes'
    <3>1. <<>> \in Seq(Message) /\ breaks' \in Nat /\ Establish(<<>>)
      BY <1>8 DEF Connect, DaemonTypes
    <3> QED BY <3>1, <1>m, EstablishTypes
  <2>2. RunnerTypes'
    BY <1>8, <1>s, <2>1 DEF Connect, Establish, RunnerTypes, DaemonTypes
  <2> QED BY <2>1, <2>2, <1>m
<1>9. CASE HandshakeFails
  <2>1. <<[kind |-> "close"]>> \in Seq(Message)
    BY DEF Message
  <2>2. breaks' \in Nat
    BY <1>9 DEF HandshakeFails, DaemonTypes
  <2>3. DaemonTypes'
    BY <1>9, <1>m, <2>1, <2>2, EstablishTypes DEF HandshakeFails
  <2>4. RunnerTypes'
    BY <1>9, <1>s, <2>3 DEF HandshakeFails, Establish, RunnerTypes, DaemonTypes
  <2> QED BY <2>3, <2>4, <1>m
<1>10. CASE Send
  <2>1. Update \in Message
    BY <1>10, <1>m, ModeTypes DEF Send, Update, Message, RunnerTypes, Case, Cases
  <2>2. inbox' \in Seq(Seq(Message)) /\ Len(inbox') = Len(inbox)
    <3>1. CASE sock \in 1 .. Len(inbox) /\ sock \notin ended
      <4>1. inbox[sock] \in Seq(Message)
        BY <3>1 DEF DaemonTypes
      <4>2. Append(inbox[sock], Update) \in Seq(Message)
        BY <4>1, <2>1
      <4>3. inbox' = [inbox EXCEPT ![sock] = Append(inbox[sock], Update)]
        BY <1>10, <3>1 DEF Send
      <4>4. inbox \in Seq(Seq(Message))
        BY DEF DaemonTypes
      <4>5. inbox' \in Seq(Seq(Message))
        BY <3>1, <4>2, <4>3, <4>4
      <4>6. Len(inbox') = Len(inbox)
        BY <4>3, <4>4
      <4> QED BY <4>5, <4>6
    <3>2. CASE ~(sock \in 1 .. Len(inbox) /\ sock \notin ended)
      <4>1. inbox' = inbox
        BY <1>10, <3>2 DEF Send, DaemonTypes
      <4> QED BY <4>1 DEF DaemonTypes
    <3> QED BY <3>1, <3>2
  <2>3. DaemonTypes'
    BY <2>2, <1>10, <1>s DEF Send, DaemonTypes, daemon
  <2>4. RunnerTypes'
    BY <1>10, <1>s DEF Send, RunnerTypes
  <2> QED BY <2>3, <2>4, <1>m
<1>11. CASE HandleUpdate
  <2>1. inbox[peer] \in Seq(Message) /\ Head(inbox[peer]) \in Message
    BY <1>11 DEF HandleUpdate, DaemonTypes, NONE
  <2>2. Head(inbox[peer]).number \in Cases
    BY <2>1, <1>11 DEF HandleUpdate, Message
  <2>3. inbox' \in Seq(Seq(Message)) /\ Len(inbox') = Len(inbox)
    <3>1. Tail(inbox[peer]) \in Seq(Message)
      BY <2>1, <1>11 DEF HandleUpdate
    <3>2. inbox' = [inbox EXCEPT ![peer] = Tail(inbox[peer])]
      BY <1>11 DEF HandleUpdate
    <3>3. inbox \in Seq(Seq(Message))
      BY DEF DaemonTypes
    <3>4. peer \in 1 .. Len(inbox)
      BY <1>11 DEF HandleUpdate, DaemonTypes, NONE
    <3>5. inbox' \in Seq(Seq(Message))
      BY <3>1, <3>2, <3>3, <3>4
    <3> QED BY <3>2, <3>3, <3>5
  <2>4. /\ effect' \in [Cases -> {"none", "keep", "drop", "reset"}]
        /\ rib' \in [Cases -> 0 .. MaxCases]
        /\ ended' \subseteq 1 .. connections
    <3>1. PICK what \in {"keep", "drop", "reset"} : Act(Head(inbox[peer]), what)
      BY <1>11 DEF HandleUpdate
    <3> DEFINE n == Head(inbox[peer]).number
    <3>2. n \in 0 .. MaxCases /\ 0 \in 0 .. MaxCases
      BY <2>2, <1>m, ModeTypes DEF Cases
    <3>3. effect' = [effect EXCEPT ![n] = what]
      BY <3>1 DEF Act
    <3>4. rib' = rib \/ rib' = [rib EXCEPT ![n] = n] \/ rib' = [rib EXCEPT ![n] = 0]
      BY <3>1 DEF Act, prefix, NONE
    <3>5. ended' = ended \/ ended' = ended \cup {peer}
      BY <3>1 DEF Act
    <3>6. peer \in 1 .. connections
      BY <1>11 DEF HandleUpdate, DaemonTypes, NONE
    <3> HIDE DEF n
    <3> QED BY <2>2, <3>2, <3>3, <3>4, <3>5, <3>6 DEF DaemonTypes
  <2>5. DaemonTypes'
    BY <2>3, <2>4, <1>11, <1>s DEF HandleUpdate, DaemonTypes
  <2> QED BY <2>5, <1>3, <1>11, <1>m DEF HandleUpdate, runner
<1>12. CASE HandleClose \/ Break
  <2>1. DaemonTypes'
    <3>1. /\ peer \in 1 .. connections /\ ended' = ended \cup {peer}
          /\ UNCHANGED <<connections, inbox, chat, daemon>> /\ breaks' \in Nat
      BY <1>12 DEF HandleClose, Break, DaemonTypes, NONE
    <3> QED BY <3>1, <1>s DEF DaemonTypes, daemon
  <2>2. RunnerTypes'
    BY <1>12, <1>3 DEF HandleClose, Break
  <2> QED BY <2>1, <2>2, <1>m
<1>13. CASE Teardown
  <2>1. DaemonTypes'
    BY <1>13, <1>s, <1>m, ModeTypes
    DEF Teardown, DropSession, NoRoutes, DaemonTypes, net, NONE
  <2> QED BY <2>1, <1>3, <1>13, <1>m DEF Teardown, net
<1>14. CASE MonitorOther \/ Chat
  <2>1. DaemonTypes'
    BY <1>14, <1>s DEF MonitorOther, Chat, DaemonTypes, daemon
  <2> QED BY <2>1, <1>3, <1>14, <1>m DEF MonitorOther, Chat
<1>15. CASE Done
  BY <1>15, <1>1 DEF Done
<1> QED
  BY <1>1, <1>4, <1>5, <1>6, <1>7, <1>8, <1>9, <1>10, <1>11, <1>12, <1>13, <1>14, <1>15
  DEF Next, Drive, Listen, Daemon

(* The state of the runner and of the daemon stays in its type.            *)
THEOREM TypeCorrect == Spec => []Types
<1> QED
  BY InitialTypes, TypesStep, PTL DEF Spec

(***************************************************************************)
(* A route that is seen is the route of the case                           *)
(***************************************************************************)

(* The cases are reported in order, each one once at most.                 *)
InOrder ==
  /\ \A i \in 1 .. Len(report) :
       report[i].number <= number /\ (pc # "next" => report[i].number < number)
  /\ \A i \in 2 .. Len(report) : report[i - 1].number < report[i].number

(* The UPDATE of a case is on its way once at most, and while it is, and   *)
(* before it was sent, the daemon has done nothing of it.                  *)
IsUpdate(c, i) == inbox[c][i].kind = "update"

Unsent == {"ensure", "send"}

SentOnce ==
  /\ \A c \in 1 .. connections : \A i \in 1 .. Len(inbox[c]) :
       IsUpdate(c, i) =>
         /\ effect[inbox[c][i].number] = "none"
         /\ inbox[c][i].number <= number
         /\ pc \in Unsent => inbox[c][i].number < number
  /\ \A c, d \in 1 .. connections : \A i \in 1 .. Len(inbox[c]), j \in 1 .. Len(inbox[d]) :
       IsUpdate(c, i) /\ IsUpdate(d, j) /\ inbox[c][i].number = inbox[d][j].number
         => c = d /\ i = j
  /\ \A n \in Cases : n > number \/ (n = number /\ pc \in Unsent) => effect[n] = "none"

(* A route is in the RIB because the daemon kept it.                       *)
Kept == \A n \in Cases : rib[n] # NONE => effect[n] = "keep"

(* What the runner saw installed is there, or was.                         *)
Seen ==
  /\ pc \in {"check", "settle"} => ~installed
  /\ pc = "evaluate" /\ installed => effect[number] = "keep"

OwnInv == InOrder /\ SentOnce /\ Kept /\ Seen /\ InstalledIsOwn

LEMMA MessageTypes ==
  ASSUME Types, NEW c \in 1 .. connections, NEW i \in 1 .. Len(inbox[c])
  PROVE  inbox[c][i] \in Message /\ (IsUpdate(c, i) => inbox[c][i].number \in Cases)
BY DEF Types, DaemonTypes, Message, IsUpdate

LEMMA OnlyOne ==
  ASSUME SentOnce, NEW c \in 1 .. connections, NEW d \in 1 .. connections,
         NEW i \in 1 .. Len(inbox[c]), NEW j \in 1 .. Len(inbox[d]),
         IsUpdate(c, i), IsUpdate(d, j), inbox[c][i].number = inbox[d][j].number
  PROVE  c = d /\ i = j
<1>1. \A k, l \in 1 .. connections : \A m \in 1 .. Len(inbox[k]), n \in 1 .. Len(inbox[l]) :
        IsUpdate(k, m) /\ IsUpdate(l, n) /\ inbox[k][m].number = inbox[l][n].number
          => k = l /\ m = n
  BY DEF SentOnce
<1> QED BY <1>1

(* No UPDATE is sent or handled.                                           *)
LEMMA SameUpdates ==
  ASSUME Types, SentOnce, mode' = mode, number' \in Nat, effect' = effect,
         \A c \in 1 .. connections' : \A i \in 1 .. Len(inbox'[c]) :
           IsUpdate(c, i)' =>
             c \in 1 .. connections /\ i \in 1 .. Len(inbox[c]) /\ inbox'[c][i] = inbox[c][i],
         number' >= number,
         pc' \in Unsent => number' > number \/ pc \in Unsent
  PROVE  SentOnce'
<1>1. Cases' = Cases /\ number \in Nat /\ Cases \subseteq Nat
  BY ModeTypes DEF Cases, MaxCases, Types, RunnerTypes
<1>2. ASSUME NEW c \in 1 .. connections', NEW i \in 1 .. Len(inbox'[c]), IsUpdate(c, i)'
      PROVE  /\ c \in 1 .. connections /\ i \in 1 .. Len(inbox[c]) /\ inbox'[c][i] = inbox[c][i]
             /\ IsUpdate(c, i) /\ inbox[c][i].number \in Nat
  BY <1>1, <1>2, MessageTypes DEF IsUpdate
<1>3. ASSUME NEW c \in 1 .. connections', NEW i \in 1 .. Len(inbox'[c]), IsUpdate(c, i)'
      PROVE  /\ effect'[inbox'[c][i].number] = "none"
             /\ inbox'[c][i].number <= number'
             /\ pc' \in Unsent => inbox'[c][i].number < number'
  <2>1. /\ effect[inbox[c][i].number] = "none" /\ inbox[c][i].number <= number
        /\ pc \in Unsent => inbox[c][i].number < number
    BY <1>2, <1>3 DEF SentOnce
  <2>2. inbox'[c][i] = inbox[c][i] /\ inbox[c][i].number \in Nat
    BY <1>2, <1>3
  <2> QED
    BY ONLY <2>1, <2>2, <1>1, effect' = effect, number' \in Nat, number' >= number,
            pc' \in Unsent => number' > number \/ pc \in Unsent
<1>4. ASSUME NEW c \in 1 .. connections', NEW d \in 1 .. connections',
             NEW i \in 1 .. Len(inbox'[c]), NEW j \in 1 .. Len(inbox'[d]),
             IsUpdate(c, i)', IsUpdate(d, j)', inbox'[c][i].number = inbox'[d][j].number
      PROVE  c = d /\ i = j
  <2>1. /\ c \in 1 .. connections /\ d \in 1 .. connections
        /\ i \in 1 .. Len(inbox[c]) /\ j \in 1 .. Len(inbox[d])
        /\ IsUpdate(c, i) /\ IsUpdate(d, j)
        /\ inbox'[c][i] = inbox[c][i] /\ inbox'[d][j] = inbox[d][j]
    BY <1>2, <1>4
  <2>2. inbox[c][i].number = inbox[d][j].number
    BY <2>1, <1>4
  <2> QED BY <2>1, <2>2, OnlyOne
<1>5. ASSUME NEW n \in Cases, n > number' \/ (n = number' /\ pc' \in Unsent)
      PROVE  effect'[n] = "none"
  BY <1>1, <1>5 DEF SentOnce
<1> QED
  BY <1>1, <1>3, <1>4, <1>5 DEF SentOnce

(* The UPDATE of the current case is sent.                                 *)
LEMMA SendOnce == Types /\ Types' /\ SentOnce /\ Send => SentOnce'
<1> SUFFICES ASSUME Types, Types', SentOnce, Send PROVE SentOnce'
  OBVIOUS
<1>1. /\ Cases' = Cases /\ number \in Cases /\ Cases \subseteq Nat /\ number' = number
      /\ effect' = effect /\ connections' = connections /\ pc = "send" /\ pc' = "monitor"
      /\ connections \in Nat /\ inbox \in Seq(Seq(Message)) /\ Len(inbox) = connections
  BY ModeTypes DEF Send, Cases, MaxCases, Types, RunnerTypes, DaemonTypes, daemon
<1>2. CASE inbox' = inbox
  BY <1>1, <1>2, SameUpdates DEF Send, Unsent, IsUpdate
<1>3. CASE inbox' # inbox
  <2>1. /\ sock \in 1 .. connections /\ inbox[sock] \in Seq(Message)
        /\ inbox' = [inbox EXCEPT ![sock] = Append(inbox[sock], Update)]
    BY <1>1, <1>3 DEF Send
  <2> DEFINE L == Len(inbox[sock])
  <2>2. inbox'[sock] = Append(inbox[sock], Update) /\ Len(inbox'[sock]) = L + 1 /\ L \in Nat
    BY <1>1, <2>1
  <2>3. ASSUME NEW c \in 1 .. connections, NEW i \in 1 .. Len(inbox'[c]), ~(c = sock /\ i = L + 1)
        PROVE  i \in 1 .. Len(inbox[c]) /\ inbox'[c][i] = inbox[c][i]
    <3>1. CASE c = sock
      <4>1. i \in 1 .. L + 1 /\ i # L + 1
        BY <2>2, <2>3, <3>1
      <4>2. i \in 1 .. L
        BY <4>1, <2>2
      <4>3. Append(inbox[sock], Update)[i] = inbox[sock][i]
        BY <4>2, <2>1
      <4> QED BY <4>2, <4>3, <2>2, <3>1
    <3>2. CASE c # sock
      BY <1>1, <2>1, <2>3, <3>2
    <3> QED BY <3>1, <3>2
  <2>4. inbox'[sock][L + 1] = Update /\ Update.number = number
    BY <2>1, <2>2 DEF Update
  <2>5. effect[number] = "none"
    BY <1>1 DEF SentOnce, Unsent
  <2>6. ASSUME NEW c \in 1 .. connections, NEW i \in 1 .. Len(inbox[c]), IsUpdate(c, i)
        PROVE  /\ effect[inbox[c][i].number] = "none" /\ inbox[c][i].number < number
               /\ inbox[c][i].number \in Nat
    BY <1>1, <2>6, MessageTypes DEF SentOnce, Unsent
  <2> HIDE DEF L
  <2>7. ASSUME NEW c \in 1 .. connections, NEW i \in 1 .. Len(inbox'[c]), IsUpdate(c, i)'
        PROVE  effect[inbox'[c][i].number] = "none" /\ inbox'[c][i].number <= number
    <3>1. CASE c = sock /\ i = L + 1
      BY <1>1, <2>4, <2>5, <3>1
    <3>2. CASE ~(c = sock /\ i = L + 1)
      <4>1. i \in 1 .. Len(inbox[c]) /\ inbox'[c][i] = inbox[c][i]
        BY <2>3, <3>2
      <4>2. IsUpdate(c, i)
        BY <2>7, <4>1 DEF IsUpdate
      <4>3. effect[inbox[c][i].number] = "none" /\ inbox[c][i].number < number
            /\ inbox[c][i].number \in Nat
        BY <2>6, <4>1, <4>2
      <4> QED BY <1>1, <4>1, <4>3
    <3> QED BY <3>1, <3>2
  <2>8. ASSUME NEW c \in 1 .. connections, NEW d \in 1 .. connections,
               NEW i \in 1 .. Len(inbox'[c]), NEW j \in 1 .. Len(inbox'[d]),
               IsUpdate(c, i)', IsUpdate(d, j)', inbox'[c][i].number = inbox'[d][j].number
        PROVE  c = d /\ i = j
    <3>1. ASSUME NEW a \in 1 .. connections, NEW k \in 1 .. Len(inbox'[a]), IsUpdate(a, k)',
                 ~(a = sock /\ k = L + 1)
          PROVE  /\ k \in 1 .. Len(inbox[a]) /\ inbox'[a][k] = inbox[a][k] /\ IsUpdate(a, k)
                 /\ inbox'[a][k].number # number
      <4>1. k \in 1 .. Len(inbox[a]) /\ inbox'[a][k] = inbox[a][k]
        BY <2>3, <3>1
      <4>2. IsUpdate(a, k)
        BY <3>1, <4>1 DEF IsUpdate
      <4>3. inbox[a][k].number < number /\ inbox[a][k].number \in Nat /\ number \in Nat
        BY <1>1, <2>6, <4>1, <4>2
      <4> QED BY <4>1, <4>2, <4>3
    <3>2. ASSUME NEW a \in 1 .. connections, NEW k \in 1 .. Len(inbox'[a]), IsUpdate(a, k)'
          PROVE  (a = sock /\ k = L + 1) <=> inbox'[a][k].number = number
      BY <2>4, <3>1, <3>2
    <3>3. CASE c = sock /\ i = L + 1
      <4>1. inbox'[d][j].number = number
        BY <2>4, <2>8, <3>3
      <4> QED BY <2>8, <3>2, <3>3, <4>1
    <3>4. CASE d = sock /\ j = L + 1
      <4>1. inbox'[c][i].number = number
        BY <2>4, <2>8, <3>4
      <4> QED BY <2>8, <3>2, <3>4, <4>1
    <3>5. CASE ~(c = sock /\ i = L + 1) /\ ~(d = sock /\ j = L + 1)
      <4>1. /\ i \in 1 .. Len(inbox[c]) /\ j \in 1 .. Len(inbox[d])
            /\ IsUpdate(c, i) /\ IsUpdate(d, j)
            /\ inbox'[c][i] = inbox[c][i] /\ inbox'[d][j] = inbox[d][j]
        BY <2>8, <3>1, <3>5
      <4>2. inbox[c][i].number = inbox[d][j].number
        BY <2>8, <4>1
      <4> QED BY <4>1, <4>2, OnlyOne
    <3> QED BY <3>3, <3>4, <3>5
  <2>9. \A n \in Cases : n > number => effect[n] = "none"
    BY DEF SentOnce
  <2>10. \A n \in Cases' : n > number' \/ (n = number' /\ pc' \in Unsent) => effect'[n] = "none"
    BY <1>1, <2>9 DEF Unsent
  <2>11. /\ connections' = connections /\ pc' \notin Unsent
         /\ number' = number /\ effect' = effect
    BY <1>1 DEF Unsent
  <2>12. \A c \in 1 .. connections' : \A i \in 1 .. Len(inbox'[c]) :
           IsUpdate(c, i)' => /\ effect'[inbox'[c][i].number] = "none"
                              /\ inbox'[c][i].number <= number'
    BY <2>7, <2>11
  <2>13. \A c, d \in 1 .. connections' : \A i \in 1 .. Len(inbox'[c]), j \in 1 .. Len(inbox'[d]) :
           /\ IsUpdate(c, i)' /\ IsUpdate(d, j)'
           /\ inbox'[c][i].number = inbox'[d][j].number
           => c = d /\ i = j
    BY <2>8, <2>11
  <2> QED BY ONLY <2>10, <2>11, <2>12, <2>13, Zenon DEF SentOnce
<1> QED
  BY <1>2, <1>3

(* The daemon takes the first UPDATE of its connection.                    *)
LEMMA HandleOnce == Types /\ SentOnce /\ HandleUpdate => SentOnce'
<1> SUFFICES ASSUME Types, SentOnce, HandleUpdate PROVE SentOnce'
  OBVIOUS
<1> DEFINE head == Head(inbox[peer])
<1>1. /\ Cases' = Cases /\ number' = number /\ pc' = pc /\ connections' = connections
      /\ Cases \subseteq Nat
  BY ModeTypes DEF HandleUpdate, runner, Cases, MaxCases, Types
<1>2. /\ peer \in 1 .. connections /\ inbox \in Seq(Seq(Message)) /\ Len(inbox) = connections
      /\ inbox[peer] \in Seq(Message) /\ inbox[peer] # <<>>
      /\ inbox' = [inbox EXCEPT ![peer] = Tail(inbox[peer])]
  BY DEF HandleUpdate, Types, DaemonTypes, NONE
<1>3. /\ 1 \in 1 .. Len(inbox[peer]) /\ head = inbox[peer][1]
      /\ IsUpdate(peer, 1) /\ head.number \in Cases
  BY <1>2, MessageTypes DEF HandleUpdate, IsUpdate
<1>4. PICK what : effect' = [effect EXCEPT ![head.number] = what]
  BY DEF HandleUpdate, Act
<1>5. effect \in [Cases -> {"none", "keep", "drop", "reset"}]
  BY DEF Types, DaemonTypes
<1> DEFINE at(c, i) == IF c = peer THEN i + 1 ELSE i
<1>6. ASSUME NEW c \in 1 .. connections, NEW i \in 1 .. Len(inbox'[c])
      PROVE  at(c, i) \in 1 .. Len(inbox[c]) /\ inbox'[c][i] = inbox[c][at(c, i)]
  BY <1>2, <1>6
<1> HIDE DEF head
<1>7. ASSUME NEW c \in 1 .. connections, NEW i \in 1 .. Len(inbox'[c]), IsUpdate(c, i)'
      PROVE  /\ IsUpdate(c, at(c, i)) /\ inbox'[c][i].number # head.number
             /\ inbox'[c][i].number \in Cases
  <2>1. IsUpdate(c, at(c, i)) /\ inbox'[c][i].number = inbox[c][at(c, i)].number
    BY <1>6, <1>7 DEF IsUpdate
  <2>2. ~(c = peer /\ at(c, i) = 1)
    OBVIOUS
  <2> QED BY <1>2, <1>3, <1>6, <2>1, <2>2, MessageTypes DEF SentOnce
<1>8. ASSUME NEW c \in 1 .. connections, NEW i \in 1 .. Len(inbox'[c]), IsUpdate(c, i)'
      PROVE  /\ effect'[inbox'[c][i].number] = "none" /\ inbox'[c][i].number <= number
             /\ pc \in Unsent => inbox'[c][i].number < number
  <2>1. /\ effect[inbox'[c][i].number] = "none" /\ inbox'[c][i].number <= number
        /\ pc \in Unsent => inbox'[c][i].number < number
    BY <1>6, <1>7, <1>8 DEF SentOnce
  <2> QED BY <1>4, <1>5, <1>7, <1>8, <2>1
<1>9. ASSUME NEW c \in 1 .. connections, NEW d \in 1 .. connections,
             NEW i \in 1 .. Len(inbox'[c]), NEW j \in 1 .. Len(inbox'[d]),
             IsUpdate(c, i)', IsUpdate(d, j)', inbox'[c][i].number = inbox'[d][j].number
      PROVE  c = d /\ i = j
  <2>1. c = d /\ at(c, i) = at(d, j)
    <3> DEFINE k == at(c, i)
               l == at(d, j)
    <3>1. /\ k \in 1 .. Len(inbox[c]) /\ inbox'[c][i] = inbox[c][k]
          /\ l \in 1 .. Len(inbox[d]) /\ inbox'[d][j] = inbox[d][l]
          /\ IsUpdate(c, k) /\ IsUpdate(d, l)
      BY <1>6, <1>7, <1>9
    <3> HIDE DEF k, l
    <3>2. inbox[c][k].number = inbox[d][l].number
      BY <1>9, <3>1
    <3>3. c = d /\ k = l
      BY <3>1, <3>2, OnlyOne
    <3> QED BY <3>3 DEF k, l
  <2> QED BY <1>2, <1>9, <2>1
<1>10. ASSUME NEW n \in Cases, n > number \/ (n = number /\ pc \in Unsent)
       PROVE  effect'[n] = "none"
  <2>1. effect[n] = "none"
    BY <1>10 DEF SentOnce
  <2>2. head.number <= number /\ (pc \in Unsent => head.number < number)
    BY <1>2, <1>3 DEF SentOnce
  <2>3. n # head.number
    BY <1>1, <1>3, <1>10, <2>2 DEF Types, RunnerTypes
  <2> QED BY <1>4, <1>5, <2>1, <2>3
<1> QED
  BY <1>1, <1>8, <1>9, <1>10 DEF SentOnce

(* The rest of the steps neither send nor handle an UPDATE.                *)
LEMMA UpdatesStep == Types /\ Types' /\ SentOnce /\ [Next]_vars => SentOnce'
<1> SUFFICES ASSUME Types, Types', SentOnce, [Next]_vars PROVE SentOnce'
  OBVIOUS
<1>1. mode' = mode /\ number \in Nat /\ number' \in Nat
  BY ModeStays, ModeTypes DEF Types, RunnerTypes, MaxCases
<1>2. inbox \in Seq(Seq(Message)) /\ Len(inbox) = connections /\ connections \in Nat
  BY DEF Types, DaemonTypes
<1>3. ASSUME UNCHANGED <<inbox, connections, effect>>, number' >= number,
             pc' \in Unsent => number' > number \/ pc \in Unsent
      PROVE  SentOnce'
  BY <1>1, <1>3, SameUpdates
<1>4. ASSUME NEW sent, Establish(sent), sent = <<>> \/ sent = <<[kind |-> "close"]>>,
             number' = number, pc \in Unsent
      PROVE  SentOnce'
  <2>1. inbox' = Append(inbox, sent) /\ connections' = connections + 1 /\ effect' = effect
    BY <1>4 DEF Establish
  <2>2. ASSUME NEW c \in 1 .. connections', NEW i \in 1 .. Len(inbox'[c]), IsUpdate(c, i)'
        PROVE  c \in 1 .. connections /\ i \in 1 .. Len(inbox[c]) /\ inbox'[c][i] = inbox[c][i]
    <3>1. CASE c \in 1 .. connections
      BY <1>2, <2>1, <2>2, <3>1
    <3>2. CASE c = connections + 1
      <4>1. inbox'[c] = sent
        BY <1>2, <2>1, <3>2
      <4>2. i = 1 /\ inbox'[c][i] = [kind |-> "close"]
        <5>1. CASE sent = <<>>
          BY <2>2, <4>1, <5>1
        <5>2. CASE sent = <<[kind |-> "close"]>>
          <6>1. Len(sent) = 1 /\ sent[1] = [kind |-> "close"]
            BY <5>2
          <6> QED BY <2>2, <4>1, <6>1
        <5> QED BY <1>4, <5>1, <5>2
      <4> QED BY <2>2, <4>2 DEF IsUpdate
    <3> QED BY <1>2, <2>1, <2>2, <3>1, <3>2
  <2>3. number' >= number /\ (pc' \in Unsent => number' > number \/ pc \in Unsent)
    BY <1>1, <1>4
  <2> QED BY <1>1, <2>1, <2>2, <2>3, SameUpdates
<1>5. CASE UNCHANGED vars \/ MonitorOther \/ Chat \/ Done
  <2>1. UNCHANGED <<inbox, connections, effect, number, pc>>
    BY <1>5 DEF vars, runner, net, daemon, MonitorOther, Chat, Done
  <2> QED
    BY <1>1, <1>3, <2>1
<1>6. CASE BeginCase
  BY <1>1, <1>3, <1>6 DEF net, BeginCase, daemon
<1>7. CASE Reuse \/ ConnectRaises \/ Rest
  BY <1>1, <1>3, <1>7 DEF net, Reuse, ConnectRaises, Rest, daemon, Unsent
<1>8. CASE SendRaises \/ MonitorReset \/ Invalidate
  BY <1>1, <1>3, <1>8 DEF net, SendRaises, MonitorReset, Invalidate, daemon, Unsent
<1>9. CASE MonitorTimeout
  BY <1>1, <1>3, <1>9 DEF net, MonitorTimeout, daemon, Unsent
<1>10. CASE PollHit \/ PollMiss \/ PollRaises \/ Evaluate
  BY <1>1, <1>3, <1>10 DEF net, PollHit, PollMiss, PollRaises, Evaluate, daemon, Unsent
<1>11. CASE Connect
  BY <1>1, <1>4, <1>11 DEF Connect, Unsent
<1>12. CASE HandshakeFails
  BY <1>1, <1>4, <1>12 DEF HandshakeFails, Unsent
<1>13. CASE Send
  BY <1>13, SendOnce
<1>14. CASE HandleUpdate
  BY <1>14, HandleOnce
<1>15. CASE HandleClose \/ Break \/ Teardown
  <2>1. /\ UNCHANGED <<inbox, connections, effect, number, pc>>
    BY <1>15 DEF HandleClose, Break, Teardown, runner, daemon, net
  <2> QED BY <1>1, <2>1, SameUpdates
<1> QED
  BY <1>5, <1>6, <1>7, <1>8, <1>9, <1>10, <1>11, <1>12, <1>13, <1>14, <1>15
  DEF Next, Drive, Listen, Daemon

(* What the daemon did of an UPDATE it has done for good.                  *)
LEMMA EffectStays ==
  ASSUME Types, SentOnce, [Next]_vars, NEW n \in Cases, effect[n] # "none"
  PROVE  effect'[n] = effect[n]
<1>1. CASE HandleUpdate
  <2>1. /\ peer \in 1 .. connections /\ inbox[peer] \in Seq(Message) /\ inbox[peer] # <<>>
    BY <1>1 DEF HandleUpdate, Types, DaemonTypes, NONE
  <2>2. /\ 1 \in 1 .. Len(inbox[peer]) /\ Head(inbox[peer]) = inbox[peer][1]
        /\ IsUpdate(peer, 1)
    BY <1>1, <2>1 DEF HandleUpdate, IsUpdate
  <2>3. effect[Head(inbox[peer]).number] = "none"
    BY <2>1, <2>2 DEF SentOnce
  <2>4. PICK what : effect' = [effect EXCEPT ![Head(inbox[peer]).number] = what]
    BY <1>1 DEF HandleUpdate, Act
  <2>5. effect \in [Cases -> {"none", "keep", "drop", "reset"}]
    BY DEF Types, DaemonTypes
  <2> QED BY <2>3, <2>4, <2>5
<1>2. CASE ~HandleUpdate
  <2>1. effect' = effect
    BY <1>2
    DEF Next, vars, runner, net, daemon, Drive, Listen, MonitorOther, Chat, Daemon, Break, Done,
        BeginCase, Reuse, Connect, ConnectRaises, HandshakeFails, Rest, Send, SendRaises,
        Invalidate, PollHit, PollMiss, PollRaises, Evaluate, MonitorReset, MonitorTimeout,
        HandleClose, Teardown, Establish
  <2> QED BY <2>1
<1> QED
  BY <1>1, <1>2

LEMMA KeptStep == Types /\ SentOnce /\ Kept /\ [Next]_vars => Kept'
<1> SUFFICES ASSUME Types, SentOnce, Kept, [Next]_vars, NEW n \in Cases, rib'[n] # NONE
             PROVE  effect'[n] = "keep"
  BY ModeStays DEF Kept, Cases, MaxCases
<1>1. CASE rib[n] # NONE
  BY <1>1, EffectStays DEF Kept
<1>2. CASE rib[n] = NONE
  <2>1. rib' # rib /\ rib' # NoRoutes
    BY <1>2 DEF NoRoutes
  <2>2. HandleUpdate
    BY <2>1
    DEF Next, vars, runner, net, daemon, Drive, Listen, MonitorOther, Chat, Daemon, Break, Done,
        BeginCase, Reuse, Connect, ConnectRaises, HandshakeFails, Rest, Send, SendRaises,
        Invalidate, PollHit, PollMiss, PollRaises, Evaluate, MonitorReset, MonitorTimeout,
        HandleClose, Teardown, Establish, DropSession
  <2>3. PICK what \in {"keep", "drop", "reset"} : Act(Head(inbox[peer]), what)
    BY <2>2 DEF HandleUpdate
  <2> DEFINE k == Head(inbox[peer]).number
  <2>4. /\ rib' = [rib EXCEPT ![k] = IF what = "keep" THEN k ELSE NONE]
        /\ effect' = [effect EXCEPT ![k] = what]
    BY <2>1, <2>3 DEF Act, prefix
  <2>5. rib \in [Cases -> 0 .. MaxCases] /\ effect \in [Cases -> {"none", "keep", "drop", "reset"}]
    BY DEF Types, DaemonTypes
  <2> HIDE DEF k
  <2>6. n = k /\ what = "keep"
    BY <1>2, <2>4, <2>5
  <2> QED BY <2>4, <2>5, <2>6
<1> QED
  BY <1>1, <1>2

LEMMA SeenStep == Types /\ SentOnce /\ Kept /\ Seen /\ [Next]_vars => Seen'
<1> SUFFICES ASSUME Types, SentOnce, Kept, Seen, [Next]_vars PROVE Seen'
  OBVIOUS
<1>n. pc # "next" => number \in Cases
  BY ModeTypes DEF Types, RunnerTypes, Cases
<1>1. CASE UNCHANGED runner
  <2>1. pc' = "evaluate" /\ installed' => effect'[number'] = "keep"
    BY <1>1, <1>n, EffectStays DEF Seen, runner
  <2>2. pc' \in {"check", "settle"} => ~installed'
    BY <1>1 DEF Seen, runner
  <2> QED BY <2>1, <2>2 DEF Seen
<1>2. CASE BeginCase \/ Reuse \/ Connect \/ ConnectRaises \/ HandshakeFails \/ Send \/ SendRaises
           \/ MonitorReset \/ PollRaises \/ Evaluate
  <2>1. pc' \notin {"check", "settle", "evaluate"}
    BY <1>2 DEF BeginCase, Reuse, Connect, ConnectRaises, HandshakeFails, Send, SendRaises,
                MonitorReset, PollRaises, Evaluate
  <2> QED BY <2>1 DEF Seen
<1>3. CASE Rest
  BY <1>3 DEF Rest, Seen
<1>4. CASE MonitorTimeout
  BY <1>4 DEF MonitorTimeout, Seen
<1>5. CASE Invalidate
  BY <1>5 DEF Invalidate, Seen
<1>6. CASE PollHit
  <2>1. /\ rib[number] # NONE /\ number \in Cases /\ number' = number /\ pc' = "evaluate"
        /\ effect' = effect
    BY <1>6, <1>n DEF PollHit, prefix, daemon
  <2> QED BY <2>1 DEF Kept, Seen
<1>7. CASE PollMiss
  BY <1>7 DEF PollMiss, Seen
<1>8. CASE \/ MonitorOther \/ Chat \/ HandleUpdate \/ HandleClose \/ Break \/ Teardown \/ Done
           \/ UNCHANGED vars
  BY <1>1, <1>8 DEF MonitorOther, Chat, HandleUpdate, HandleClose, Break, Teardown, Done, vars
<1> QED
  BY <1>2, <1>3, <1>4, <1>5, <1>6, <1>7, <1>8 DEF Next, Drive, Listen, Daemon

(* What is reported stays reported, and what Evaluate adds comes last.     *)
LEMMA ReportStep ==
  ASSUME Types, [Next]_vars
  PROVE  report' = report \/ Evaluate
BY DEF Next, vars, runner, Drive, Listen, MonitorOther, Chat, Daemon, Break, Done,
  BeginCase, Reuse, Connect, ConnectRaises, HandshakeFails, Rest, Send, SendRaises,
  Invalidate, PollHit, PollMiss, PollRaises, MonitorReset, MonitorTimeout,
  HandleUpdate, HandleClose, Teardown

LEMMA OrderStep == Types /\ InOrder /\ [Next]_vars => InOrder'
<1> SUFFICES ASSUME Types, InOrder, [Next]_vars PROVE InOrder'
  OBVIOUS
<1>1. number \in Nat /\ report \in Seq(Entry) /\ \A e \in Entry : e.number \in Nat
  BY ModeTypes DEF Types, RunnerTypes, Entry, Cases
<1>2. CASE Evaluate
  <2> DEFINE e == [number |-> number, case |-> case, observed |-> observed, result |-> Verdict]
  <2>1. report' = Append(report, e) /\ e.number = number /\ number' = number /\ pc' = "next"
        /\ pc = "evaluate"
    BY <1>2 DEF Evaluate
  <2> HIDE DEF e
  <2>2. Len(report') = Len(report) + 1 /\ report'[Len(report) + 1] = e
        /\ \A i \in 1 .. Len(report) : report'[i] = report[i] /\ report[i].number < number
                                       /\ report[i].number \in Nat
    BY <1>1, <2>1 DEF InOrder
  <2>3. \A i \in 1 .. Len(report') : report'[i].number <= number
    BY <1>1, <2>1, <2>2
  <2>4. ASSUME NEW i \in 2 .. Len(report')
        PROVE  report'[i - 1].number < report'[i].number
    <3>1. CASE i = Len(report) + 1
      <4>1. i - 1 \in 1 .. Len(report) /\ report'[i] = e
        BY <1>1, <2>2, <2>4, <3>1
      <4> QED BY <2>1, <2>2, <4>1
    <3>2. CASE i # Len(report) + 1
      <4>1. i \in 2 .. Len(report) /\ i \in 1 .. Len(report) /\ i - 1 \in 1 .. Len(report)
        BY <1>1, <2>2, <2>4, <3>2
      <4> QED BY <2>2, <4>1 DEF InOrder
    <3> QED BY <3>1, <3>2
  <2> QED BY <2>1, <2>3, <2>4 DEF InOrder
<1>3. CASE ~Evaluate
  <2>1. report' = report
    BY <1>3, ReportStep
  <2>2. \/ number' = number /\ (pc' = "next" \/ pc # "next" \/ pc' = pc)
        \/ number' = number + 1
    BY <1>3 DEF Next, vars, runner, Drive, Listen, MonitorOther, Chat, Daemon, Break, Done,
      BeginCase, Reuse, Connect, ConnectRaises, HandshakeFails, Rest, Send, SendRaises,
      Invalidate, PollHit, PollMiss, PollRaises, MonitorReset, MonitorTimeout,
      HandleUpdate, HandleClose, Teardown
  <2>3. \A i \in 1 .. Len(report) : report[i].number \in Nat
    BY <1>1
  <2>4. \A i \in 1 .. Len(report) :
          report[i].number <= number' /\ (pc' # "next" => report[i].number < number')
    BY <1>1, <2>2, <2>3 DEF InOrder
  <2> QED BY <2>1, <2>4 DEF InOrder
<1> QED
  BY <1>2, <1>3

LEMMA OwnStep == Types /\ Types' /\ OwnInv /\ [Next]_vars => OwnInv'
<1> SUFFICES ASSUME Types, Types', OwnInv, [Next]_vars PROVE OwnInv'
  OBVIOUS
<1>1. InOrder' /\ SentOnce' /\ Kept' /\ Seen'
  BY OrderStep, UpdatesStep, KeptStep, SeenStep DEF OwnInv
<1>2. InstalledIsOwn'
  <2>1. ASSUME NEW i \in 1 .. Len(report), report[i].observed = INSTALLED
        PROVE  effect'[report[i].number] = "keep"
    <3>1. report[i].number \in Cases
      <4>1. report[i] \in Entry
        BY DEF Types, RunnerTypes
      <4> QED BY <4>1 DEF Entry
    <3>2. effect[report[i].number] = "keep"
      BY <2>1 DEF OwnInv, InstalledIsOwn
    <3> QED BY <3>1, <3>2, EffectStays DEF OwnInv
  <2>2. CASE report' = report
    BY <2>1, <2>2 DEF InstalledIsOwn
  <2>3. CASE Evaluate
    <3> DEFINE e == [number |-> number, case |-> case, observed |-> observed, result |-> Verdict]
    <3>1. report' = Append(report, e) /\ e.number = number /\ e.observed = observed
          /\ pc = "evaluate" /\ effect' = effect
      BY <2>3 DEF Evaluate, daemon
    <3>2. observed = INSTALLED => effect[number] = "keep"
      BY <3>1 DEF observed, INSTALLED, RESET, NOT_INSTALLED, Seen, OwnInv
    <3> HIDE DEF e
    <3>3. report \in Seq(Entry)
      BY DEF Types, RunnerTypes
    <3>4. ASSUME NEW i \in 1 .. Len(report'), report'[i].observed = INSTALLED
          PROVE  effect'[report'[i].number] = "keep"
      <4>1. CASE i \in 1 .. Len(report)
        BY <2>1, <3>1, <3>3, <3>4, <4>1
      <4>2. CASE i = Len(report) + 1
        BY <3>1, <3>2, <3>3, <3>4, <4>2
      <4> QED BY <3>1, <3>3, <4>1, <4>2
    <3> QED BY <3>4 DEF InstalledIsOwn
  <2> QED BY <2>2, <2>3, ReportStep
<1> QED
  BY <1>1, <1>2 DEF OwnInv

LEMMA OwnInitially == Init => OwnInv
<1> SUFFICES ASSUME Init PROVE OwnInv
  OBVIOUS
<1>1. Types
  BY InitialTypes
<1>2. report = <<>> /\ pc = "next" /\ number = 0 /\ connections = 0 /\ Cases = 1 .. MaxCases
  BY DEF Init, Cases
<1>3. effect = [n \in Cases |-> "none"] /\ rib = [n \in Cases |-> NONE]
  BY DEF Init
<1>4. SentOnce
  BY <1>2, <1>3 DEF SentOnce, Unsent
<1>5. InOrder /\ InstalledIsOwn
  BY <1>2 DEF InOrder, InstalledIsOwn
<1>6. Kept /\ Seen
  BY <1>2, <1>3 DEF Kept, Seen
<1> QED
  BY <1>4, <1>5, <1>6 DEF OwnInv

(* However late the daemon is and whichever connections break, a route     *)
(* that was seen installed was installed for this case.                    *)
THEOREM InstalledIsAlwaysOwn == Spec => []InstalledIsOwn
<1>1. Types /\ OwnInv /\ [Next]_vars => Types' /\ OwnInv'
  BY TypesStep, OwnStep
<1>2. OwnInv => InstalledIsOwn
  BY DEF OwnInv
<1> QED
  BY InitialTypes, OwnInitially, <1>1, <1>2, PTL DEF Spec

(***************************************************************************)
(* With time enough the runner is alone with its session                   *)
(***************************************************************************)
Alone ==
  PATIENT /\ breaks = 0 =>
    /\ crashes = 0 /\ pc # "rest"
    /\ sock # NONE => peer = sock \/ (peer = NONE /\ sock \in ended)
    /\ sock = NONE => peer = NONE \/ (pc = "settle" /\ peer \in ended)
    /\ pc = "invalidate" => sock \in ended

LEMMA AloneStep == Types /\ Alone /\ [Next]_vars => Alone'
<1> SUFFICES ASSUME Types, Alone, [Next]_vars, PATIENT', breaks' = 0
             PROVE  /\ crashes' = 0 /\ pc' # "rest"
                    /\ sock' # NONE => peer' = sock' \/ (peer' = NONE /\ sock' \in ended')
                    /\ sock' = NONE => peer' = NONE \/ (pc' = "settle" /\ peer' \in ended')
                    /\ pc' = "invalidate" => sock' \in ended'
  BY DEF Alone
<1>1. PATIENT /\ breaks \in Nat
  BY ModeStays DEF PATIENT, Types, DaemonTypes
<1>2. ~Break /\ ~HandshakeFails /\ breaks = 0
  <2>1. breaks' # breaks + 1
    BY <1>1
  <2>2. ~Break /\ ~HandshakeFails
    BY <2>1 DEF Break, HandshakeFails
  <2>3. breaks' = breaks
    BY <2>2 DEF Next, vars, runner, net, daemon, Drive, Listen, MonitorOther, Chat, Daemon, Done,
      BeginCase, Reuse, Connect, ConnectRaises, Rest, Send, SendRaises, Invalidate, PollHit,
      PollMiss, PollRaises, Evaluate, MonitorReset, MonitorTimeout, HandleUpdate, HandleClose,
      Teardown
  <2> QED BY <2>2, <2>3
<1>3. /\ crashes = 0 /\ pc # "rest"
      /\ sock # NONE => peer = sock \/ (peer = NONE /\ sock \in ended)
      /\ sock = NONE => peer = NONE \/ (pc = "settle" /\ peer \in ended)
      /\ pc = "invalidate" => sock \in ended
  BY <1>1, <1>2 DEF Alone
<1>4. 0 \notin ended
  BY DEF Types, DaemonTypes
<1>5. CASE UNCHANGED vars \/ MonitorOther \/ Chat \/ Done
  BY <1>3, <1>5 DEF vars, runner, net, daemon, MonitorOther, Chat, Done
<1>6. CASE BeginCase \/ Reuse \/ PollHit \/ PollMiss \/ PollRaises \/ Evaluate
  BY <1>3, <1>6 DEF BeginCase, Reuse, PollHit, PollMiss, PollRaises, Evaluate, net, daemon
<1>7. CASE Connect
  <2>1. peer' = sock' /\ sock' # NONE /\ crashes' = crashes /\ pc' = "send"
    BY <1>7 DEF Connect, Establish, Types, DaemonTypes, NONE
  <2> QED BY <1>3, <2>1
<1>8. CASE ConnectRaises
  BY <1>1, <1>3, <1>8 DEF ConnectRaises
<1>9. CASE Rest
  BY <1>1, <1>3, <1>9 DEF Rest, Rested, net, daemon
<1>10. CASE Send \/ SendRaises \/ MonitorReset \/ MonitorTimeout
  BY <1>3, <1>10 DEF Send, SendRaises, MonitorReset, MonitorTimeout, net, daemon
<1>11. CASE Invalidate
  BY <1>3, <1>4, <1>11 DEF Invalidate, net, daemon, NONE
<1>12. CASE HandleUpdate
  <2>1. UNCHANGED <<crashes, pc, sock, peer>> /\ ended \subseteq ended'
    BY <1>12 DEF HandleUpdate, Act, runner
  <2> QED BY <1>3, <2>1
<1>13. CASE HandleClose \/ Teardown
  BY <1>3, <1>13 DEF HandleClose, Teardown, DropSession, runner, net, daemon
<1> QED
  BY <1>2, <1>5, <1>6, <1>7, <1>8, <1>9, <1>10, <1>11, <1>12, <1>13
  DEF Next, Drive, Listen, Daemon

(* With time enough and on connections that hold, the runner never runs    *)
(* into the session that it closed itself.                                 *)
THEOREM NothingCollides == Spec => []NoCollision
<1>1. Init => Alone
  BY DEF Init, Alone
<1>2. Types /\ Alone /\ [Next]_vars => Types' /\ Alone'
  BY TypesStep, AloneStep
<1>3. Alone => NoCollision
  BY DEF Alone, NoCollision
<1> QED
  BY InitialTypes, <1>1, <1>2, <1>3, PTL DEF Spec

(***************************************************************************)
(* With time enough every case is judged by what was done of it            *)
(***************************************************************************)
Held == PATIENT /\ ~COVERAGE /\ breaks = 0

(* The session is up and the daemon has nothing left to do.                *)
Quiet == peer = sock /\ sock \notin ended /\ inbox[sock] = <<>>

(* The daemon kept or dropped the route of the case, and the RIB shows it. *)
Shown ==
  /\ effect[number] \in {"keep", "drop"}
  /\ effect[number] = "keep" /\ case.observable => rib[number] # NONE

Answered ==
  Held =>
    /\ pc \in {"send", "monitor", "invalidate", "check"} => sock # NONE
    /\ pc \in {"next", "ensure", "send", "check", "evaluate"} /\ sock # NONE => Quiet
    /\ pc = "monitor" =>
         \/ peer = sock /\ sock \notin ended /\ inbox[sock] = <<Update>>
         \/ Quiet /\ Shown
         \/ sock \in ended /\ effect[number] = "reset"
    /\ pc \in {"invalidate", "settle"} => effect[number] = "reset" /\ ~active
    /\ pc = "settle" => sock = NONE
    /\ pc = "check" => active /\ case.observable /\ Shown
    /\ pc = "evaluate" =>
         /\ ~active => effect[number] = "reset"
         /\ active => /\ effect[number] \in {"keep", "drop"}
                      /\ case.observable => (installed <=> effect[number] = "keep")
                      /\ ~case.observable => ~installed

(* JudgedRight, and the daemon has done something of every case.           *)
Judged ==
  Held =>
    \A i \in 1 .. Len(report) :
      /\ effect[report[i].number] # "none"
      /\ report[i].result = "PASS" <=> Acceptable(report[i].case, effect[report[i].number])

(* What can be observed agrees with what can be done.                      *)
LEMMA ObservedRight ==
  ASSUME NEW v \in ParseResult
  PROVE  /\ RESET \in expected_observations(v, TRUE) <=> "reset" \in Conforming(v)
         /\ INSTALLED \in expected_observations(v, TRUE) <=> "keep" \in Conforming(v)
         /\ NOT_INSTALLED \in expected_observations(v, TRUE) <=> "drop" \in Conforming(v)
         /\ RESET \in expected_observations(v, FALSE) <=> "reset" \in Conforming(v)
         /\ NOT_INSTALLED \in expected_observations(v, FALSE) <=> Conforming(v) # {"reset"}
BY DEF ParseResult, expected_observations, ALLOWED_OBSERVATIONS, Conforming, Observations,
  RESET, INSTALLED, NOT_INSTALLED

LEMMA VerdictRight ==
  ASSUME mode \in Modes, ~COVERAGE, case \in Case, active \in BOOLEAN, installed \in BOOLEAN,
         NEW what,
         ~active => what = "reset",
         active => /\ what \in {"keep", "drop"}
                   /\ case.observable => (installed <=> what = "keep")
                   /\ ~case.observable => ~installed
  PROVE  Verdict = "PASS" <=> Acceptable(case, what)
<1>1. case.verdict \in ParseResult /\ case.observable \in BOOLEAN
  BY ModeTypes DEF Case
<1>2. Verdict = "PASS" <=> observed \in expected_observations(case.verdict, case.observable)
  BY DEF Verdict
<1>3. CASE case.observable
  <2>1. case.observable = TRUE
    BY <1>1, <1>3
  <2>2. Acceptable(case, what) <=> what \in Conforming(case.verdict)
    BY <1>3 DEF Acceptable
  <2>3. CASE ~active
    BY <1>1, <1>2, <2>1, <2>2, <2>3, ObservedRight DEF observed
  <2>4. CASE active /\ what = "keep"
    BY <1>1, <1>2, <1>3, <2>1, <2>2, <2>4, ObservedRight DEF observed
  <2>5. CASE active /\ what = "drop"
    BY <1>1, <1>2, <1>3, <2>1, <2>2, <2>5, ObservedRight DEF observed
  <2> QED BY <2>3, <2>4, <2>5
<1>4. CASE ~case.observable
  <2>1. case.observable = FALSE
    BY <1>1, <1>4
  <2>2. Acceptable(case, what) <=>
          /\ what = "reset" => "reset" \in Conforming(case.verdict)
          /\ Conforming(case.verdict) = {"reset"} => what = "reset"
    BY <1>4 DEF Acceptable
  <2>3. CASE ~active
    BY <1>1, <1>2, <2>1, <2>2, <2>3, ObservedRight DEF observed
  <2>4. CASE active
    <3>1. observed = NOT_INSTALLED /\ what # "reset"
      BY <1>4, <2>4 DEF observed
    <3> QED BY <1>1, <1>2, <2>1, <2>2, <3>1, ObservedRight
  <2> QED BY <2>3, <2>4
<1> QED
  BY <1>1, <1>3, <1>4

LEMMA HeldBefore ==
  ASSUME Types, [Next]_vars, Held'
  PROVE  Held /\ ~Break /\ ~HandshakeFails
<1>1. mode' = mode /\ breaks \in Nat /\ breaks' = 0
  BY ModeStays DEF Types, DaemonTypes, Held
<1>2. ~Break /\ ~HandshakeFails
  BY <1>1 DEF Break, HandshakeFails
<1>3. breaks' = breaks
  BY <1>2 DEF Next, vars, runner, net, daemon, Drive, Listen, MonitorOther, Chat, Daemon, Done,
    BeginCase, Reuse, Connect, ConnectRaises, Rest, Send, SendRaises, Invalidate, PollHit,
    PollMiss, PollRaises, Evaluate, MonitorReset, MonitorTimeout, HandleUpdate, HandleClose,
    Teardown
<1> QED
  BY <1>1, <1>2, <1>3 DEF Held, PATIENT, COVERAGE

(* The daemon takes the UPDATE of the current case, and nothing else.      *)
LEMMA AnsweredUpdate ==
  Types /\ SentOnce /\ Alone /\ Answered /\ Held /\ HandleUpdate => Answered'
<1> SUFFICES ASSUME Types, SentOnce, Alone, Answered, Held, HandleUpdate PROVE Answered'
  OBVIOUS
<1>1. /\ peer \in 1 .. connections /\ peer \notin ended /\ inbox[peer] # <<>> /\ peer = sock
      /\ inbox \in Seq(Seq(Message)) /\ connections = Len(inbox)
  BY DEF HandleUpdate, Types, DaemonTypes, NONE, Alone, Held
<1>2. sock # NONE
  BY <1>1 DEF NONE
<1>3. pc \notin {"next", "ensure", "send", "check", "evaluate", "settle"}
  BY <1>1, <1>2 DEF Answered, Quiet
<1>4. pc \notin {"rest", "invalidate"}
  BY <1>1 DEF Alone, Held
<1>5. CASE pc = "monitor"
  <2>1. inbox[sock] = <<Update>> /\ number \in Cases
    BY <1>1, <1>2, <1>5, ModeTypes DEF Answered, Quiet, Types, RunnerTypes, Cases
  <2>2. Head(inbox[sock]) = Update /\ Tail(inbox[sock]) = <<>>
    BY <2>1
  <2>3. inbox'[sock] = <<>> /\ UNCHANGED <<sock, peer, pc, number, case, active, installed>>
    BY <1>1, <2>2 DEF HandleUpdate, runner
  <2>4. PICK what \in {"keep", "drop", "reset"} : Act(Update, what)
    BY <1>1, <2>2 DEF HandleUpdate
  <2>5. effect'[number] = what
    BY <2>1, <2>4 DEF Act, Update, Types, DaemonTypes
  <2>6. CASE what = "reset"
    <3>1. sock' \in ended'
      BY <1>1, <2>3, <2>4, <2>6 DEF Act
    <3> QED BY <1>2, <1>5, <2>3, <2>5, <2>6, <3>1 DEF Answered
  <2>7. CASE what # "reset"
    <3>1. ended' = ended
      BY <2>4, <2>7 DEF Act
    <3>2. what = "keep" /\ case.observable => rib'[number] # NONE
      <4>1. what = "keep" /\ case.observable => rib' = [rib EXCEPT ![number] = number]
        BY <2>4 DEF Act, Update, prefix
      <4>2. number # NONE /\ rib \in [Cases -> 0 .. MaxCases]
        BY <2>1 DEF Cases, NONE, Types, DaemonTypes
      <4> QED BY <2>1, <4>1, <4>2
    <3> QED
      BY <1>1, <1>2, <1>5, <2>3, <2>4, <2>5, <2>7, <3>1, <3>2 DEF Answered, Quiet, Shown
  <2> QED BY <2>6, <2>7
<1>6. CASE pc = "aborted"
  <2>1. pc' = "aborted"
    BY <1>6 DEF HandleUpdate, runner
  <2> QED BY <2>1 DEF Answered
<1> QED
  BY <1>3, <1>4, <1>5, <1>6 DEF Types, RunnerTypes

LEMMA AnsweredStep ==
  Types /\ Types' /\ SentOnce /\ Kept /\ Seen /\ Alone /\ Answered /\ [Next]_vars => Answered'
<1> SUFFICES ASSUME Types, Types', SentOnce, Kept, Seen, Alone, Answered, [Next]_vars, Held'
             PROVE  Answered'
  BY DEF Answered
<1>1. Held /\ ~Break /\ ~HandshakeFails
  BY HeldBefore
<1>2. /\ pc \in {"send", "monitor", "invalidate", "check"} => sock # NONE
      /\ pc \in {"next", "ensure", "send", "check", "evaluate"} /\ sock # NONE => Quiet
      /\ pc \in {"invalidate", "settle"} => effect[number] = "reset" /\ ~active
      /\ pc = "settle" => sock = NONE
      /\ pc = "check" => active /\ case.observable /\ Shown
      /\ pc = "evaluate" =>
           /\ ~active => effect[number] = "reset"
           /\ active => /\ effect[number] \in {"keep", "drop"}
                        /\ case.observable => (installed <=> effect[number] = "keep")
                        /\ ~case.observable => ~installed
  BY <1>1 DEF Answered
<1>3. pc = "monitor" =>
         \/ peer = sock /\ sock \notin ended /\ inbox[sock] = <<Update>>
         \/ Quiet /\ Shown
         \/ sock \in ended /\ effect[number] = "reset"
  BY <1>1 DEF Answered
<1>p. PATIENT /\ ~COVERAGE
  BY <1>1 DEF Held
<1>4. CASE UNCHANGED vars \/ MonitorOther \/ Chat \/ Done
  BY <1>2, <1>3, <1>4
  DEF Answered, vars, runner, net, daemon, MonitorOther, Chat, Done, Quiet, Shown, Update
<1>5. CASE BeginCase
  BY <1>2, <1>5 DEF BeginCase, net, daemon, Answered, Quiet
<1>6. CASE Reuse
  BY <1>2, <1>6 DEF Reuse, net, daemon, Answered, Quiet
<1>7. CASE Connect
  <2>1. peer = NONE
    BY <1>1, <1>7 DEF Connect, Alone, Held
  <2>2. /\ inbox' = Append(inbox, <<>>) /\ connections' = connections + 1 /\ ended' = ended
        /\ peer' = connections' /\ sock' = connections' /\ pc' = "send"
    BY <1>7, <2>1 DEF Connect, Establish
  <2>3. connections \in Nat /\ Len(inbox) = connections /\ inbox \in Seq(Seq(Message))
        /\ ended \subseteq 1 .. connections
    BY DEF Types, DaemonTypes
  <2>4. inbox'[sock'] = <<>> /\ sock' \notin ended' /\ sock' # NONE
    BY <2>2, <2>3 DEF NONE
  <2> QED BY <2>2, <2>4 DEF Answered, Quiet
<1>8. CASE ConnectRaises
  BY <1>8, <1>1, <1>p DEF ConnectRaises, Alone, Held
<1>9. CASE Rest
  <2>1. pc = "settle" /\ pc' = "evaluate"
    BY <1>9, <1>1 DEF Rest, Alone, Held
  <2> QED
    BY <1>2, <1>9, <2>1 DEF Rest, net, daemon, Answered
<1>10. CASE Send
  <2>1. sock # NONE /\ Quiet /\ pc = "send"
    BY <1>2, <1>10 DEF Send
  <2>2. sock \in 1 .. Len(inbox)
    BY <2>1 DEF Types, RunnerTypes, DaemonTypes, NONE
  <2>3. inbox' = [inbox EXCEPT ![sock] = Append(<<>>, Update)]
    BY <1>10, <2>1 DEF Send, Quiet
  <2>4. inbox'[sock] = <<Update>> /\ Update' = Update
    <3>1. number' = number /\ case' = case /\ inbox \in Seq(Seq(Message))
      BY <1>10 DEF Types, DaemonTypes, Send
    <3>2. inbox'[sock] = Append(<<>>, Update)
      BY <2>2, <2>3, <3>1
    <3> QED BY <3>1, <3>2 DEF Update
  <2> QED
    BY <1>10, <2>1, <2>4 DEF Send, daemon, Answered, Quiet
<1>11. CASE SendRaises
  BY <1>2, <1>11 DEF SendRaises, Quiet
<1>12. CASE MonitorReset
  <2>1. effect[number] = "reset" /\ sock # NONE
    BY <1>2, <1>3, <1>12 DEF MonitorReset, Quiet
  <2> QED BY <1>12, <2>1 DEF MonitorReset, net, daemon, Answered
<1>13. CASE MonitorTimeout
  <2>1. sock # NONE /\ sock \notin ended /\ peer = sock
    BY <1>2, <1>1, <1>p, <1>13 DEF MonitorTimeout, Alone, Held
  <2>2. inbox[sock] = <<>>
    BY <1>p, <1>13, <2>1 DEF MonitorTimeout, Rested
  <2>3. Quiet /\ Shown
    <3>1. inbox[sock] # <<Update>>
      BY <2>2
    <3> QED BY <1>3, <1>13, <2>1, <3>1 DEF MonitorTimeout
  <2>4. CASE case.observable
    BY <1>p, <1>13, <2>1, <2>3, <2>4 DEF MonitorTimeout, net, daemon, Answered, Quiet, Shown
  <2>5. CASE ~case.observable
    BY <1>p, <1>13, <2>1, <2>3, <2>5 DEF MonitorTimeout, net, daemon, Answered, Quiet, Shown
  <2> QED BY <2>4, <2>5
<1>14. CASE Invalidate
  BY <1>2, <1>14 DEF Invalidate, net, daemon, Answered
<1>15. CASE PollHit
  <2>1. number \in Cases
    BY <1>15, ModeTypes DEF PollHit, Types, RunnerTypes, Cases
  <2>2. effect[number] = "keep"
    BY <1>15, <2>1 DEF PollHit, Kept, prefix
  <2> QED BY <1>2, <1>15, <2>2 DEF PollHit, net, daemon, Answered, Quiet
<1>16. CASE PollMiss
  <2>1. effect[number] = "drop" /\ active /\ case.observable /\ ~installed
    BY <1>2, <1>16 DEF PollMiss, Shown, prefix, Seen
  <2>2. sock # NONE /\ Quiet
    BY <1>2, <1>16 DEF PollMiss
  <2> QED BY <1>16, <2>1, <2>2 DEF PollMiss, net, daemon, Answered, Quiet, Shown
<1>17. CASE PollRaises
  BY <1>p, <1>17 DEF PollRaises
<1>18. CASE Evaluate
  BY <1>2, <1>18 DEF Evaluate, net, daemon, Answered, Quiet
<1>19. CASE HandleUpdate
  BY <1>1, <1>19, AnsweredUpdate
<1>20. CASE HandleClose
  <2>1. peer # NONE /\ peer \notin ended /\ peer = sock /\ inbox[sock] # <<>> /\ sock # NONE
    BY <1>20, <1>1 DEF HandleClose, Alone, Held
  <2>2. pc # "monitor"
    <3>1. pc = "monitor" => inbox[sock] = <<Update>>
      BY <1>3, <2>1 DEF Quiet
    <3>2. Head(<<Update>>).kind = "update"
      BY DEF Update
    <3> QED BY <1>20, <2>1, <3>1, <3>2 DEF HandleClose
  <2>3. pc \notin {"next", "ensure", "send", "check", "evaluate", "invalidate"}
    BY <1>1, <1>2, <2>1 DEF Quiet, Alone, Held
  <2> QED BY <1>2, <1>20, <2>2, <2>3 DEF HandleClose, runner, daemon, Answered
<1>21. CASE Teardown
  <2>1. peer # NONE /\ peer \in ended
    BY <1>21 DEF Teardown
  <2>2. pc \notin {"next", "ensure", "send", "check", "evaluate"} \/ sock = NONE
    BY <1>2, <2>1 DEF Quiet
  <2>3. UNCHANGED <<pc, sock, number, active, ended, effect, installed, case>>
    BY <1>21 DEF Teardown, runner, net
  <2>4. pc = "monitor" => sock \in ended /\ effect[number] = "reset"
    BY <1>3, <2>1 DEF Quiet
  <2> QED BY <1>2, <2>2, <2>3, <2>4 DEF Answered, Shown
<1> QED
  BY <1>1, <1>4, <1>5, <1>6, <1>7, <1>8, <1>9, <1>10, <1>11, <1>12, <1>13, <1>14, <1>15, <1>16,
     <1>17, <1>18, <1>19, <1>20, <1>21
  DEF Next, Drive, Listen, Daemon

LEMMA JudgedStep ==
  Types /\ SentOnce /\ Answered /\ Judged /\ [Next]_vars => Judged'
<1> SUFFICES ASSUME Types, SentOnce, Answered, Judged, [Next]_vars, Held',
                    NEW i \in 1 .. Len(report')
             PROVE  /\ effect'[report'[i].number] # "none"
                    /\ report'[i].result = "PASS"
                         <=> Acceptable(report'[i].case, effect'[report'[i].number])
  BY DEF Judged, Acceptable, Conforming
<1>1. Held /\ report \in Seq(Entry)
  BY HeldBefore DEF Types, RunnerTypes
<1>2. CASE i \in 1 .. Len(report) /\ report'[i] = report[i]
  <2>1. report[i] \in Entry /\ report[i].number \in Cases
    <3>1. report[i] \in Entry
      BY <1>1, <1>2
    <3> QED BY <3>1 DEF Entry
  <2>2. effect[report[i].number] # "none" /\ (report[i].result = "PASS"
          <=> Acceptable(report[i].case, effect[report[i].number]))
    BY <1>1, <1>2 DEF Judged
  <2>3. effect'[report[i].number] = effect[report[i].number]
    BY <2>1, <2>2, EffectStays
  <2> QED BY <1>2, <2>2, <2>3
<1>3. CASE report' = report
  BY <1>2, <1>3
<1>4. CASE Evaluate
  <2> DEFINE e == [number |-> number, case |-> case, observed |-> observed, result |-> Verdict]
  <2>1. /\ report' = Append(report, e) /\ effect' = effect /\ pc = "evaluate"
        /\ e.number = number /\ e.case = case /\ e.result = Verdict
    BY <1>4 DEF Evaluate, daemon
  <2>2. /\ ~active => effect[number] = "reset"
        /\ active => /\ effect[number] \in {"keep", "drop"}
                     /\ case.observable => (installed <=> effect[number] = "keep")
                     /\ ~case.observable => ~installed
    BY <1>1, <2>1 DEF Answered
  <2>3. Verdict = "PASS" <=> Acceptable(case, effect[number])
    BY <1>1, <2>2, VerdictRight DEF Types, RunnerTypes, Held
  <2>4. effect[number] # "none"
    BY <2>2
  <2> HIDE DEF e
  <2>5. CASE i = Len(report) + 1
    <3>1. report'[i] = e
      BY <1>1, <2>1, <2>5
    <3> QED BY <2>1, <2>3, <2>4, <3>1
  <2>6. CASE i # Len(report) + 1
    <3>1. i \in 1 .. Len(report) /\ report'[i] = report[i]
      BY <1>1, <2>1, <2>6
    <3> QED BY <1>2, <3>1
  <2> QED BY <2>5, <2>6
<1> QED
  BY <1>3, <1>4, ReportStep

(* With time enough and on connections that hold, a case passes just when  *)
(* the daemon did with its UPDATE what the verdict allows.                 *)
THEOREM EveryCaseIsJudgedRight == Spec => []JudgedRight
<1>1. Init => Alone /\ Answered /\ Judged
  BY DEF Init, Alone, Answered, Judged
<1>2. Types /\ OwnInv /\ Alone /\ Answered /\ Judged /\ [Next]_vars
        => Types' /\ OwnInv' /\ Alone' /\ Answered' /\ Judged'
  BY TypesStep, OwnStep, AloneStep, AnsweredStep, JudgedStep DEF OwnInv
<1>3. Judged => JudgedRight
  BY DEF Judged, JudgedRight, Held
<1> QED
  BY InitialTypes, OwnInitially, <1>1, <1>2, <1>3, PTL DEF Spec

=============================================================================
