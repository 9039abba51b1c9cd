----------------------------- MODULE LabProofs -----------------------------
(***************************************************************************)
(* Proofs about the route-competition reference model and the live runner  *)
(* of its traces, for any set of prefixes, path lengths, ORIGINs and       *)
(* modes, any number of traces, events and broken sessions, and a daemon   *)
(* of any timing, with or without its faults: the winner is what the       *)
(* daemon's decision process selects, traces do not leak into each other,  *)
(* whenever the runner goes on the daemon and the observer are where the   *)
(* reference model is, a fault that took effect is noticed, and a          *)
(* conforming daemon is never reported.                                    *)
(***************************************************************************)
EXTENDS RouteLab, SequenceTheorems, FiniteSetTheorems, TLAPS

(***************************************************************************)
(* The reference model                                                     *)
(***************************************************************************)

(* Path lengths and ORIGIN values are numbers.                             *)
LEMMA RouteFields == \A a \in Route : a.length \in Nat /\ a.origin \in Nat
BY RouteAssumption DEF Route

(* step keeps the shape of the candidate state (route_model.step).         *)
LEMMA StepTypes == ASSUME NEW s \in State, NEW e \in EVENTS
                   PROVE  step(s, e) \in State
<1>1. /\ e.prefix \in Prefixes
      /\ e.peer \in Peers
      /\ (IF e.kind = "announce" THEN e.route ELSE NoRoute) \in Route \cup {NoRoute}
  BY DEF EVENTS, Removal
<1> QED
  BY <1>1 DEF step, State

(* The candidate state has its type in every reachable state.              *)
THEOREM TypeCorrect == Spec => []TypeOK
<1>1. Init => TypeOK
  BY DEF Init, NoRoutes, TypeOK, State
<1>2. TypeOK /\ [Next]_routes => TypeOK'
  BY StepTypes DEF TypeOK, Next
<1> QED
  BY <1>1, <1>2, PTL DEF Spec

(* Two candidates for a prefix are ordered, one way or the other: the      *)
(* sorting key of State.winner (route_model.py:37-41) leaves no tie.       *)
LEMMA OneIsBetter ==
  ASSUME NEW a \in Route, NEW b \in Route
  PROVE  /\ Better(a, 0, b, 1) \/ Better(b, 1, a, 0)
         /\ Better(a, 0, a, 0) /\ Better(a, 1, a, 1)
BY RouteFields DEF Better

(* The winner exists, is a candidate, and is better than every candidate.  *)
LEMMA WinnerWins ==
  ASSUME NEW s \in State, NEW x \in Prefixes, eligible(s, x) # {}
  PROVE  /\ winner(s, x) \in eligible(s, x)
         /\ \A q \in eligible(s, x) :
              Better(s[x][winner(s, x)], winner(s, x), s[x][q], q)
<1>1. \A p \in eligible(s, x) : p \in Peers /\ s[x][p] \in Route
  BY DEF eligible, State
<1>2. \E p \in eligible(s, x) :
        \A q \in eligible(s, x) : Better(s[x][p], p, s[x][q], q)
  <2>1. PICK p \in eligible(s, x) : TRUE
    OBVIOUS
  <2>2. CASE eligible(s, x) = {p}
    <3>1. Better(s[x][p], p, s[x][p], p)
      BY <1>1, <2>1, OneIsBetter DEF Peers
    <3> QED
      BY <2>2, <3>1
  <2>3. CASE eligible(s, x) # {p}
    <3>1. eligible(s, x) = {0, 1}
      BY <1>1, <2>3 DEF Peers
    <3>2. s[x][0] \in Route /\ s[x][1] \in Route
      BY <1>1, <3>1
    <3> QED
      BY <3>1, <3>2, OneIsBetter
  <2> QED
    BY <2>2, <2>3
<1> QED
  BY <1>2 DEF winner

(***************************************************************************)
(* Events of a peer                                                        *)
(***************************************************************************)
EventsOf(p) == {e \in EVENTS : e.peer = p}

(***************************************************************************)
(* The invariant                                                           *)
(***************************************************************************)

(* Types, as far as the rest needs them.                                   *)
Types ==
  /\ candidates \in State
  /\ inbox \in [Peers -> Seq(EVENTS)]
  /\ \A p \in Peers : inbox[p] \in Seq(EventsOf(p))
  /\ alive \subseteq Sessions
  /\ events \in Nat

(* A session that is not established has nothing on its way, and the       *)
(* daemon has no candidate of it.                                          *)
Absent(p) == inbox[p] = <<>> /\ \A x \in Prefixes : candidates[x][p] = NoRoute

DeadIsGone == \A p \in Peers \ alive : Absent(p)

(* The trace has sent something before it waits for its effect.            *)
SentIsCounted == pc = "sent" => events # 0

(* Nothing of peer p about x, neither with the daemon nor on its way; or   *)
(* the last word on its way is a withdrawal, which no fault keeps.         *)
Silent(p, x) ==
  /\ candidates[x][p] = NoRoute
  /\ \A i \in 1 .. Len(inbox[p]) : inbox[p][i].prefix # x

LastIsWithdrawal(p, x) ==
  \E i \in 1 .. Len(inbox[p]) :
    /\ inbox[p][i].prefix = x /\ inbox[p][i].kind = "withdraw"
    /\ \A j \in i + 1 .. Len(inbox[p]) : inbox[p][j].prefix # x

Gone(p, x) == Silent(p, x) \/ LastIsWithdrawal(p, x)

Clearing == pc \in {"reset", "final"} \/ (pc = "event" /\ events = 0)

Cleared == Clearing => \A p \in Peers, x \in Prefixes : Gone(p, x)

LInv == Types /\ DeadIsGone /\ SentIsCounted /\ Cleared

(***************************************************************************)
(* Withdrawals                                                             *)
(***************************************************************************)

(* A finite set as a sequence has just its elements.                       *)
LEMMA SequenceOfSet ==
  ASSUME NEW S, IsFiniteSet(S)
  PROVE  /\ SequencesLib!SetToSeq(S) \in Seq(S)
         /\ SequencesLib!IsInjective(SequencesLib!SetToSeq(S))
         /\ \A e \in S : \E i \in 1 .. Len(SequencesLib!SetToSeq(S)) :
                           SequencesLib!SetToSeq(S)[i] = e
<1> DEFINE n == Cardinality(S)
           f == SequencesLib!SetToSeq(S)
<1>1. n \in Nat /\ ExistsBijection(1 .. n, S)
  BY FS_CardinalityType
<1>2. \E g \in [1 .. n -> S] : SequencesLib!IsInjective(g)
  BY <1>1 DEF ExistsBijection, Bijection, Injection, IsInjective, SequencesLib!IsInjective
<1>3. f \in [1 .. n -> S] /\ SequencesLib!IsInjective(f)
  <2>1. SequencesLib!Cardinality(S) = n
    BY DEF SequencesLib!Cardinality, Cardinality
  <2> QED
    BY <1>2, <2>1 DEF SequencesLib!SetToSeq
<1>4. f \in Injection(1 .. n, S)
  BY <1>3 DEF Injection, IsInjective, SequencesLib!IsInjective
<1>5. Cardinality(1 .. n) = n
  <2>1. Cardinality(1 .. n) = IF 1 > n THEN 0 ELSE n - 1 + 1
    BY <1>1, FS_Interval
  <2> QED
    BY <1>1, <2>1
<1>6. f \in Surjection(1 .. n, S)
  BY <1>4, <1>5, FS_Injection
<1>7. f \in Seq(S) /\ Len(f) = n
  BY <1>1, <1>3, SeqDef
<1> QED
  BY <1>3, <1>6, <1>7 DEF Surjection

(* What reset sends of a peer is one withdrawal of each prefix.            *)
LEMMA WithdrawalsOfPeer ==
  ASSUME NEW p \in Peers
  PROVE  /\ Withdrawals[p] \in Seq(EventsOf(p))
         /\ \A i \in 1 .. Len(Withdrawals[p]) : Withdrawals[p][i].kind = "withdraw"
         /\ \A i, j \in 1 .. Len(Withdrawals[p]) :
              Withdrawals[p][i].prefix = Withdrawals[p][j].prefix => i = j
         /\ \A x \in Prefixes : \E i \in 1 .. Len(Withdrawals[p]) :
                                  Withdrawals[p][i].prefix = x
<1> DEFINE S == {Withdrawal(p, x) : x \in Prefixes}
           g == [x \in Prefixes |-> Withdrawal(p, x)]
<1>1. g \in Surjection(Prefixes, S)
  BY DEF Surjection
<1>2. IsFiniteSet(S)
  BY <1>1, FS_Surjection, LabAssumption
<1>3. Withdrawals[p] = SequencesLib!SetToSeq(S)
  BY DEF Withdrawals
<1>5. \A e \in S : e \in EventsOf(p) /\ e.kind = "withdraw"
  BY DEF Withdrawal, EventsOf, EVENTS, Removal
<1>6. \A e, d \in S : e.prefix = d.prefix => e = d
  BY DEF Withdrawal
<1>7. ASSUME NEW x \in Prefixes
      PROVE  Withdrawal(p, x) \in S /\ Withdrawal(p, x).prefix = x
  BY DEF Withdrawal
<1> HIDE DEF S, g
<1>8. /\ Withdrawals[p] \in Seq(S)
      /\ SequencesLib!IsInjective(Withdrawals[p])
      /\ \A e \in S : \E i \in 1 .. Len(Withdrawals[p]) : Withdrawals[p][i] = e
  BY <1>2, <1>3, SequenceOfSet
<1>9. \A i \in 1 .. Len(Withdrawals[p]) : Withdrawals[p][i] \in S
  BY <1>8
<1>10. Withdrawals[p] \in Seq(EventsOf(p))
  BY <1>5, <1>8, SeqDef
<1>11. \A i, j \in 1 .. Len(Withdrawals[p]) : Withdrawals[p][i] = Withdrawals[p][j] => i = j
  BY <1>8 DEF SequencesLib!IsInjective
<1>12. ASSUME NEW i \in 1 .. Len(Withdrawals[p]), NEW j \in 1 .. Len(Withdrawals[p]),
              Withdrawals[p][i].prefix = Withdrawals[p][j].prefix
       PROVE  i = j
  BY <1>6, <1>9, <1>11, <1>12
<1>13. ASSUME NEW x \in Prefixes
       PROVE  \E i \in 1 .. Len(Withdrawals[p]) : Withdrawals[p][i].prefix = x
  BY <1>7, <1>8
<1> QED
  BY <1>5, <1>9, <1>10, <1>12, <1>13

(***************************************************************************)
(* What a step does to the connections and the candidates                  *)
(***************************************************************************)

(* step changes the candidate of one peer for one prefix.                  *)
LEMMA StepAt ==
  ASSUME NEW s \in State, NEW e \in EVENTS, NEW x \in Prefixes, NEW p \in Peers
  PROVE  step(s, e)[x][p] = IF x = e.prefix /\ p = e.peer
                            THEN (IF e.kind = "announce" THEN e.route ELSE NoRoute)
                            ELSE s[x][p]
<1>1. e.prefix \in Prefixes /\ e.peer \in Peers
  BY DEF EVENTS
<1> QED
  BY <1>1 DEF step, State

(* What is on the way is of the peer that sent it.                         *)
LEMMA OnTheWay ==
  ASSUME Types, NEW p \in Peers, NEW i \in 1 .. Len(inbox[p])
  PROVE  inbox[p][i] \in EVENTS /\ inbox[p][i].peer = p
<1>1. inbox[p] \in Seq(EventsOf(p))
  BY DEF Types
<1>2. inbox[p][i] \in EventsOf(p)
  BY <1>1
<1> QED
  BY <1>2 DEF EventsOf

(* A step that leaves the sessions, their messages and the candidates      *)
(* alone keeps the invariant, if no clearing begins with it.               *)
SameWorld == UNCHANGED <<candidates, inbox, alive>>

LEMMA WorldStep ==
  ASSUME LInv, SameWorld, events' \in Nat, SentIsCounted', Clearing' => Clearing
  PROVE  LInv'
<1>1. Types'
  BY DEF LInv, Types, SameWorld
<1>2. DeadIsGone'
  BY DEF LInv, DeadIsGone, Absent, SameWorld
<1>3. \A p \in Peers, x \in Prefixes : Gone(p, x) => Gone(p, x)'
  BY DEF Gone, Silent, LastIsWithdrawal, SameWorld
<1>4. Cleared'
  BY <1>3 DEF LInv, Cleared
<1> QED
  BY <1>1, <1>2, <1>4 DEF LInv

(* Deliver appends to what is on the way, and gives a dead session nothing.*)
LEMMA Delivery ==
  ASSUME Types, DeadIsGone, NEW ps, NEW ms, Deliver(ps, ms),
         \A p \in Peers \cap ps : ms[p] \in Seq(EventsOf(p)),
         candidates' = candidates, alive' = alive, events' \in Nat
  PROVE  Types' /\ DeadIsGone'
<1>1. \A p \in Peers : inbox'[p] = IF p \in ps \cap alive THEN inbox[p] \o ms[p] ELSE inbox[p]
  BY DEF Deliver
<1>2. \A p \in Peers : inbox'[p] \in Seq(EventsOf(p))
  <2> SUFFICES ASSUME NEW p \in Peers PROVE inbox'[p] \in Seq(EventsOf(p))
    OBVIOUS
  <2>1. inbox[p] \in Seq(EventsOf(p))
    BY DEF Types
  <2>2. CASE p \in ps \cap alive
    <3>1. ms[p] \in Seq(EventsOf(p))
      BY <2>2
    <3>2. inbox[p] \o ms[p] \in Seq(EventsOf(p))
      BY ONLY <2>1, <3>1, ConcatProperties
    <3> QED
      BY <1>1, <2>2, <3>2
  <2>3. CASE p \notin ps \cap alive
    BY <1>1, <2>1, <2>3
  <2> QED
    BY <2>2, <2>3
<1>3. \A p \in Peers : inbox'[p] \in Seq(EVENTS)
  <2> SUFFICES ASSUME NEW p \in Peers PROVE inbox'[p] \in Seq(EVENTS)
    OBVIOUS
  <2>1. EventsOf(p) \subseteq EVENTS
    BY DEF EventsOf
  <2> QED
    BY <1>2, <2>1, SeqDef
<1>4. inbox' \in [Peers -> Seq(EVENTS)]
  BY <1>3 DEF Deliver
<1>5. Types'
  BY <1>2, <1>4 DEF Types
<1>6. DeadIsGone'
  BY <1>1 DEF DeadIsGone, Absent
<1> QED
  BY <1>5, <1>6

(***************************************************************************)
(* The steps of the daemon                                                 *)
(***************************************************************************)

(* The effect of a message that is handled: it leaves the queue, and what  *)
(* is not a fault, or no malformed route, takes effect.                    *)
LEMMA Handled ==
  ASSUME Types, NEW p \in Peers, Handle(p)
  PROVE  /\ inbox[p] # <<>>
         /\ inbox' = [inbox EXCEPT ![p] = Tail(inbox[p])]
         /\ Head(inbox[p]) = inbox[p][1]
         /\ inbox[p][1] \in EVENTS /\ inbox[p][1].peer = p
         /\ \/ candidates' = step(candidates, inbox[p][1])
            \/ candidates' = candidates /\ inbox[p][1].kind # "withdraw"
<1>1. inbox[p] # <<>> /\ inbox' = [inbox EXCEPT ![p] = Tail(inbox[p])]
  BY DEF Handle
<1>2. 1 \in 1 .. Len(inbox[p]) /\ Head(inbox[p]) = inbox[p][1]
  BY <1>1 DEF Types
<1>3. inbox[p][1] \in EVENTS /\ inbox[p][1].peer = p
  BY <1>2, OnTheWay
<1>4. \/ candidates' = step(candidates, inbox[p][1])
      \/ candidates' = candidates /\ inbox[p][1].kind # "withdraw"
  BY <1>2 DEF Handle
<1> QED
  BY <1>1, <1>2, <1>3, <1>4

(* A queue behind its first message.                                       *)
LEMMA Rest ==
  ASSUME NEW s \in Seq(EVENTS), s # <<>>
  PROVE  /\ Len(Tail(s)) = Len(s) - 1 /\ Len(s) \in Nat
         /\ \A i \in 1 .. Len(Tail(s)) : Tail(s)[i] = s[i + 1]
OBVIOUS

LEMMA HandleStep ==
  ASSUME LInv, NEW p \in Peers, Handle(p)
  PROVE  LInv'
<1> USE DEF LInv
<1> DEFINE head == inbox[p][1]
<1>1. /\ inbox[p] # <<>> /\ inbox' = [inbox EXCEPT ![p] = Tail(inbox[p])]
      /\ head \in EVENTS /\ head.peer = p
      /\ \/ candidates' = step(candidates, head)
         \/ candidates' = candidates /\ head.kind # "withdraw"
  BY Handled
<1>2. p \in alive /\ alive' = alive /\ events' = events /\ pc' = pc
  BY DEF Handle, runner
<1>3. inbox[p] \in Seq(EVENTS) /\ candidates \in State /\ inbox \in [Peers -> Seq(EVENTS)]
  BY DEF Types
<1>4. /\ Len(inbox'[p]) = Len(inbox[p]) - 1 /\ Len(inbox[p]) \in Nat
      /\ \A i \in 1 .. Len(inbox'[p]) : inbox'[p][i] = inbox[p][i + 1]
  BY <1>1, <1>3, Rest
<1>5. \A x \in Prefixes, q \in Peers : x # head.prefix \/ q # p =>
         candidates'[x][q] = candidates[x][q]
  BY <1>1, <1>3, StepAt
<1>6. \A q \in Peers \ {p} : inbox'[q] = inbox[q]
  BY <1>1, <1>3
<1> HIDE DEF head
<1>7. Types'
  <2>1. candidates' \in State
    BY <1>1, <1>3, StepTypes
  <2>2. Tail(inbox[p]) \in Seq(EventsOf(p)) /\ Tail(inbox[p]) \in Seq(EVENTS)
    BY <1>1, <1>3, HeadTailProperties DEF Types
  <2>3. inbox' \in [Peers -> Seq(EVENTS)] /\ \A q \in Peers : inbox'[q] \in Seq(EventsOf(q))
    BY <1>1, <1>3, <2>2 DEF Types
  <2> QED
    BY <1>2, <2>1, <2>3 DEF Types
<1>8. DeadIsGone'
  BY <1>2, <1>5, <1>6 DEF DeadIsGone, Absent
<1>9. ASSUME NEW q \in Peers, NEW x \in Prefixes, Gone(q, x)
      PROVE  Gone(q, x)'
  <2>1. CASE q # p
    BY <1>5, <1>6, <1>9, <2>1 DEF Gone, Silent, LastIsWithdrawal
  <2>2. CASE q = p /\ Silent(p, x)
    <3>1. head.prefix # x
      BY <1>1, <1>3, <2>2 DEF Silent, head
    <3>2. candidates'[x][p] = NoRoute
      BY <1>5, <2>2, <3>1 DEF Silent
    <3>3. \A i \in 1 .. Len(inbox'[p]) : inbox'[p][i].prefix # x
      BY <1>4, <2>2 DEF Silent
    <3> QED
      BY <2>2, <3>2, <3>3 DEF Gone, Silent
  <2>3. CASE q = p /\ LastIsWithdrawal(p, x)
    <3>1. PICK i \in 1 .. Len(inbox[p]) :
             /\ inbox[p][i].prefix = x /\ inbox[p][i].kind = "withdraw"
             /\ \A j \in i + 1 .. Len(inbox[p]) : inbox[p][j].prefix # x
      BY <2>3 DEF LastIsWithdrawal
    <3>2. CASE i = 1
      <4>1. candidates' = step(candidates, head) /\ head.prefix = x /\ head.kind = "withdraw"
        BY <1>1, <3>1, <3>2 DEF head
      <4>2. candidates'[x][p] = NoRoute
        BY <1>1, <1>3, <4>1, StepAt
      <4>3. \A j \in 1 .. Len(inbox'[p]) : inbox'[p][j].prefix # x
        BY <1>4, <3>1, <3>2
      <4> QED
        BY <2>3, <4>2, <4>3 DEF Gone, Silent
    <3>3. CASE i # 1
      <4>1. i - 1 \in 1 .. Len(inbox'[p]) /\ (i - 1) + 1 = i
        BY <1>4, <3>3
      <4>2. inbox'[p][i - 1] = inbox[p][i]
        BY <1>4, <4>1
      <4>3. \A j \in (i - 1) + 1 .. Len(inbox'[p]) : inbox'[p][j].prefix # x
        <5> SUFFICES ASSUME NEW j \in i .. Len(inbox'[p]) PROVE inbox'[p][j].prefix # x
          BY <4>1
        <5>1. j \in 1 .. Len(inbox'[p]) /\ j + 1 \in i + 1 .. Len(inbox[p])
          BY <1>4
        <5> QED
          BY <1>4, <3>1, <5>1
      <4> QED
        BY <2>3, <3>1, <4>1, <4>2, <4>3 DEF Gone, LastIsWithdrawal
    <3> QED
      BY <3>2, <3>3
  <2> QED
    BY <1>9, <2>1, <2>2, <2>3 DEF Gone
<1>10. SentIsCounted' /\ (Clearing' <=> Clearing)
  BY <1>2 DEF SentIsCounted, Clearing
<1> QED
  BY <1>7, <1>8, <1>9, <1>10 DEF Cleared

(* A session that breaks takes everything of its peer with it.             *)
LEMMA BreakStep ==
  ASSUME LInv, NEW p \in Sessions, Break(p)
  PROVE  LInv'
<1> USE DEF LInv
<1>1. alive' = alive \ {p} /\ events' = events /\ pc' = pc
  BY DEF Break, runner
<1>2. SentIsCounted' /\ (Clearing' <=> Clearing)
  BY <1>1 DEF SentIsCounted, Clearing
<1>3. CASE p = Observer
  <2>1. candidates' = candidates /\ inbox' = inbox /\ Peers \ alive' = Peers \ alive
    BY <1>1, <1>3 DEF Break, Observer, Peers
  <2>2. Types' /\ DeadIsGone'
    BY <1>1, <2>1 DEF Types, DeadIsGone, Absent
  <2>3. \A q \in Peers, x \in Prefixes : Gone(q, x) => Gone(q, x)'
    BY <2>1 DEF Gone, Silent, LastIsWithdrawal
  <2> QED
    BY <1>2, <2>2, <2>3 DEF Cleared
<1>4. CASE p # Observer
  <2>1. /\ p \in Peers
        /\ candidates' = [x \in Prefixes |-> [candidates[x] EXCEPT ![p] = NoRoute]]
        /\ inbox' = [inbox EXCEPT ![p] = <<>>]
    BY <1>4 DEF Break, Sessions
  <2>2. /\ \A x \in Prefixes, q \in Peers :
             candidates'[x][q] = IF q = p THEN NoRoute ELSE candidates[x][q]
        /\ \A q \in Peers : inbox'[q] = IF q = p THEN <<>> ELSE inbox[q]
    BY <2>1 DEF Types, State
  <2>3. Types'
    <3>1. candidates' \in State
      BY <2>1 DEF Types, State
    <3>2. inbox' \in [Peers -> Seq(EVENTS)] /\ \A q \in Peers : inbox'[q] \in Seq(EventsOf(q))
      BY <2>1 DEF Types
    <3> QED
      BY <1>1, <3>1, <3>2 DEF Types
  <2>4. DeadIsGone'
    BY <1>1, <2>2 DEF DeadIsGone, Absent
  <2>5. ASSUME NEW q \in Peers, NEW x \in Prefixes, Gone(q, x)
        PROVE  Gone(q, x)'
    <3>1. CASE q = p
      BY <2>2, <3>1 DEF Gone, Silent
    <3>2. CASE q # p
      BY <2>2, <2>5, <3>2 DEF Gone, Silent, LastIsWithdrawal
    <3> QED
      BY <3>1, <3>2
  <2> QED
    BY <1>2, <2>3, <2>4, <2>5 DEF Cleared
<1> QED
  BY <1>3, <1>4

(***************************************************************************)
(* The steps of the runner                                                 *)
(***************************************************************************)

(* reset sends a withdrawal of everything behind all that was sent.        *)
LEMMA ResetStep ==
  ASSUME LInv, Reset
  PROVE  LInv'
<1> USE DEF LInv
<1>1. /\ Deliver(Peers, Withdrawals) /\ pc' \in {"reset", "final"}
      /\ candidates' = candidates /\ alive' = alive /\ events' = events
  BY DEF Reset
<1>2. \A p \in Peers \cap Peers : Withdrawals[p] \in Seq(EventsOf(p))
  BY WithdrawalsOfPeer
<1>3. Types' /\ DeadIsGone'
  BY <1>1, <1>2, Delivery DEF Types
<1>4. ASSUME NEW p \in Peers, NEW x \in Prefixes
      PROVE  Gone(p, x)'
  <2>1. CASE p \notin alive
    BY <1>1, <1>3, <2>1 DEF DeadIsGone, Absent, Gone, Silent
  <2>2. CASE p \in alive
    <3> DEFINE s == inbox[p]
               w == Withdrawals[p]
    <3>1. inbox'[p] = s \o w
      BY <1>1, <2>2 DEF Deliver
    <3>2. s \in Seq(EventsOf(p)) /\ w \in Seq(EventsOf(p))
      BY <1>2 DEF Types
    <3>3. PICK k \in 1 .. Len(w) : w[k].prefix = x
      BY WithdrawalsOfPeer
    <3>4. w[k].kind = "withdraw" /\ \A j \in 1 .. Len(w) : w[j].prefix = x => j = k
      BY <3>3, WithdrawalsOfPeer
    <3> HIDE DEF s, w
    <3>5. /\ Len(s) \in Nat /\ Len(w) \in Nat /\ Len(s \o w) = Len(s) + Len(w)
          /\ \A i \in 1 .. Len(w) : (s \o w)[Len(s) + i] = w[i]
      BY <3>2
    <3>6. Len(s) + k \in 1 .. Len(s \o w) /\ (s \o w)[Len(s) + k] = w[k]
      BY <3>5
    <3>7. ASSUME NEW j \in Len(s) + k + 1 .. Len(s \o w)
          PROVE  (s \o w)[j].prefix # x
      <4>1. j - Len(s) \in 1 .. Len(w) /\ j = Len(s) + (j - Len(s)) /\ j - Len(s) # k
        BY <3>5
      <4> QED
        BY <3>4, <3>5, <4>1
    <3>8. LastIsWithdrawal(p, x)'
      BY <3>1, <3>3, <3>4, <3>6, <3>7 DEF LastIsWithdrawal
    <3> QED
      BY <3>8 DEF Gone
  <2> QED
    BY <2>1, <2>2
<1>5. SentIsCounted'
  BY <1>1 DEF SentIsCounted
<1> QED
  BY <1>3, <1>4, <1>5 DEF Cleared

(* An event is sent behind what was sent before it.                        *)
LEMMA SendStep ==
  ASSUME LInv, NEW e \in EVENTS, SendEvent(e)
  PROVE  LInv'
<1> USE DEF LInv
<1> DEFINE ms == [p \in Peers |-> <<e>>]
<1>1. /\ Deliver({e.peer}, ms) /\ pc' = "sent" /\ events' = events + 1
      /\ candidates' = candidates /\ alive' = alive /\ events \in Nat
  BY DEF SendEvent, daemon, Types
<1>2. \A p \in Peers \cap {e.peer} : ms[p] \in Seq(EventsOf(p))
  BY DEF EventsOf
<1>3. Types' /\ DeadIsGone'
  <2> HIDE DEF ms
  <2>1. events' \in Nat
    BY <1>1
  <2> QED
    BY <1>1, <1>2, <2>1, Delivery
<1>4. SentIsCounted' /\ ~Clearing'
  BY <1>1 DEF SentIsCounted, Clearing
<1> QED
  BY <1>3, <1>4 DEF Cleared

(* A reset that raises has served some of the peers; the run is over.      *)
LEMMA ResetRaisesStep ==
  ASSUME LInv, ResetRaises
  PROVE  LInv'
<1> USE DEF LInv
<1>1. /\ pc' = "done" /\ events' = events /\ candidates' = candidates /\ alive' = alive
      /\ events \in Nat
  BY DEF ResetRaises, daemon, Types
<1>2. PICK p \in Peers \ alive : Deliver({q \in Peers : q < p}, Withdrawals)
  BY DEF ResetRaises
<1>3. \A q \in Peers \cap {r \in Peers : r < p} : Withdrawals[q] \in Seq(EventsOf(q))
  BY WithdrawalsOfPeer
<1>4. Types' /\ DeadIsGone'
  BY <1>1, <1>2, <1>3, Delivery
<1>5. SentIsCounted' /\ ~Clearing'
  BY <1>1 DEF SentIsCounted, Clearing
<1> QED
  BY <1>4, <1>5 DEF Cleared

(* The sessions are established at once, before anything is sent.          *)
LEMMA SetupStep ==
  ASSUME LInv, SetupOk
  PROVE  LInv'
<1> USE DEF LInv
<1>1. /\ pc' = "next" /\ alive' = Sessions /\ events' = events
      /\ candidates' = candidates /\ inbox' = inbox
  BY DEF SetupOk, daemon
<1>2. Types' /\ DeadIsGone'
  BY <1>1 DEF Types, DeadIsGone, Sessions
<1> QED
  BY <1>1, <1>2 DEF SentIsCounted, Cleared, Clearing

(* Every other step of the runner, and those of the daemon behind its      *)
(* queues, leaves the sessions, their messages and the candidates alone.   *)
LEMMA QuietStep ==
  ASSUME LInv,
         \/ SetupFails \/ EndTrace \/ (\E e \in EVENTS : SendEventRaises(e))
         \/ Pump \/ PumpRaises \/ (\E x \in Prefixes : ReadRib(x))
         \/ PollAgain \/ ConvergeOk \/ ConvergeRaises
         \/ (\E x \in Prefixes : Select(x) \/ Advertise(x))
         \/ Done \/ UNCHANGED lvars
  PROVE  LInv'
<1> SUFFICES SameWorld /\ events' \in Nat /\ SentIsCounted' /\ (Clearing' => Clearing)
  BY WorldStep
<1> USE DEF SameWorld, net, daemon
<1>0. events \in Nat /\ (pc = "sent" => events # 0)
  BY DEF LInv, Types, SentIsCounted
<1>1. CASE SetupFails \/ PumpRaises \/ ConvergeRaises \/ \E e \in EVENTS : SendEventRaises(e)
  <2>1. SameWorld /\ events' = events /\ pc' = "done"
    BY <1>1 DEF SetupFails, PumpRaises, ConvergeRaises, SendEventRaises, Fail
  <2> QED
    BY <1>0, <2>1 DEF SentIsCounted, Clearing
<1>2. CASE EndTrace
  <2>1. SameWorld /\ events' = events /\ pc' = "next"
    BY <1>2 DEF EndTrace
  <2> QED
    BY <1>0, <2>1 DEF SentIsCounted, Clearing
<1>3. CASE ConvergeOk
  <2>1. /\ SameWorld /\ pc \in {"reset", "sent", "final"}
        /\ pc' = IF pc = "final" THEN "done" ELSE "event"
        /\ events' = IF pc = "reset" THEN 0 ELSE events
    BY <1>3 DEF ConvergeOk, Converging
  <2> QED
    BY <1>0, <2>1 DEF SentIsCounted, Clearing
<1>4. CASE \/ Pump \/ PollAgain \/ (\E x \in Prefixes : ReadRib(x))
           \/ (\E x \in Prefixes : Select(x) \/ Advertise(x))
           \/ Done \/ UNCHANGED lvars
  <2>1. SameWorld /\ events' = events /\ pc' = pc
    BY <1>4 DEF Pump, PollAgain, ReadRib, Select, Advertise, Done, lvars, runner
  <2> QED
    BY <1>0, <2>1 DEF SentIsCounted, Clearing
<1> QED
  BY <1>1, <1>2, <1>3, <1>4

(***************************************************************************)
(* The theorem                                                             *)
(***************************************************************************)
LEMMA InitialLab == LInit => LInv
<1> SUFFICES ASSUME LInit PROVE LInv
  OBVIOUS
<1>1. /\ pc = "setup" /\ events = 0 /\ alive = {}
      /\ inbox = [p \in Peers |-> <<>>] /\ candidates = NoRoutes
  BY DEF LInit
<1>2. Types
  BY <1>1 DEF Types, NoRoutes, State
<1>3. DeadIsGone
  BY <1>1 DEF DeadIsGone, Absent, NoRoutes
<1> QED
  BY <1>1, <1>2, <1>3 DEF LInv, SentIsCounted, Cleared, Clearing

LEMMA LabStep == LInv /\ [LNext]_lvars => LInv'
<1> SUFFICES ASSUME LInv, [LNext]_lvars PROVE LInv'
  OBVIOUS
<1>1. CASE Drive
  <2>1. \A e \in TraceEvents : e \in EVENTS
    BY DEF TraceEvents
  <2>2. CASE \E e \in TraceEvents : SendEvent(e)
    BY <2>1, <2>2, SendStep
  <2>3. CASE SetupFails \/ EndTrace \/ \E e \in TraceEvents : SendEventRaises(e)
    BY <2>1, <2>3, QuietStep
  <2> QED
    BY <1>1, <2>2, <2>3, SetupStep, ResetStep, ResetRaisesStep DEF Drive
<1>2. CASE Converge
  BY <1>2, QuietStep DEF Converge
<1>3. CASE Daemon
  BY <1>3, HandleStep, QuietStep DEF Daemon
<1>4. CASE \E p \in Sessions : Break(p)
  BY <1>4, BreakStep
<1>5. CASE Done \/ UNCHANGED lvars
  BY <1>5, QuietStep
<1> QED
  BY <1>1, <1>2, <1>3, <1>4, <1>5 DEF LNext

(* What is gone is eventually no route.                                    *)
LEMMA GoneIsEventuallyGone ==
  ASSUME Types, NEW p \in Peers, NEW x \in Prefixes, Gone(p, x)
  PROVE  Eventually(p, x) = NoRoute
<1> DEFINE mine == {i \in 1 .. Len(inbox[p]) : inbox[p][i].prefix = x}
           last == CHOOSE i \in mine : \A j \in mine : j <= i
<1>1. Eventually(p, x) = IF mine = {} THEN candidates[x][p]
                         ELSE step(candidates, inbox[p][last])[x][p]
  BY DEF Eventually
<1>2. CASE Silent(p, x)
  <2>1. mine = {} /\ candidates[x][p] = NoRoute
    BY <1>2 DEF Silent
  <2> QED
    BY <1>1, <2>1
<1>3. CASE LastIsWithdrawal(p, x)
  <2>1. PICK i \in 1 .. Len(inbox[p]) :
           /\ inbox[p][i].prefix = x /\ inbox[p][i].kind = "withdraw"
           /\ \A j \in i + 1 .. Len(inbox[p]) : inbox[p][j].prefix # x
    BY <1>3 DEF LastIsWithdrawal
  <2>2. inbox[p] \in Seq(EVENTS)
    BY DEF Types
  <2>3. i \in mine /\ \A j \in mine : j <= i /\ j \in Nat
    BY <2>1, <2>2
  <2>4. last = i
    BY <2>1, <2>3
  <2>5. inbox[p][i] \in EVENTS /\ inbox[p][i].peer = p /\ candidates \in State
    BY OnTheWay DEF Types
  <2>6. step(candidates, inbox[p][i])[x][p] = NoRoute
    BY <2>1, <2>5, StepAt
  <2> QED
    BY <1>1, <2>3, <2>4, <2>6
<1> QED
  BY <1>2, <1>3 DEF Gone

(* Every trace starts from an empty candidate state, whatever came before: *)
(* what an earlier trace announced is gone, or its withdrawal is on its    *)
(* way ahead of all that this trace will send (reset, route_stateful.py).  *)
THEOREM TracesAreIsolated == LSpec => []Isolation
<1>1. LInv => Isolation
  BY GoneIsEventuallyGone DEF LInv, Cleared, Clearing, Isolation
<1> QED
  BY <1>1, InitialLab, LabStep, PTL DEF LSpec

(***************************************************************************)
(* Queues                                                                  *)
(***************************************************************************)
Effect(e) == IF e.kind = "announce" THEN e.route ELSE NoRoute

About(q, x) == {i \in 1 .. Len(q) : q[i].prefix = x}

(* The queue q of a peer makes its candidate c for x to t in the end; it   *)
(* is c until it is t, and t from then on.                                 *)
LastWord(q, x, c, t) ==
  \/ About(q, x) = {} /\ c = t
  \/ \E i \in About(q, x) : Effect(q[i]) = t /\ \A j \in About(q, x) : j <= i

Rising(q, x, c, t) ==
  \A i \in About(q, x) :
    /\ Effect(q[i]) \in {c, t}
    /\ Effect(q[i]) = t => \A j \in About(q, x) : i <= j => Effect(q[j]) = t

(* The observer, who has a for x, will have z in the end; t comes last, if *)
(* it comes.                                                               *)
LastExport(q, x, a, z) ==
  \/ About(q, x) = {} /\ a = z
  \/ \E i \in About(q, x) : q[i].export = z /\ \A j \in About(q, x) : j <= i

OnlyLast(q, x, a, t) ==
  /\ a = t => About(q, x) = {}
  /\ \A i \in About(q, x) : q[i].export = t => \A j \in About(q, x) : j <= i

(* Messages of a queue without its first one, and of two in a row.         *)
TailOf(q, x) ==
  /\ About(q, x) \subseteq Nat \ {0} /\ About(Tail(q), x) \subseteq Nat \ {0}
  /\ 1 \in About(q, x) <=> q[1].prefix = x
  /\ \A i \in About(Tail(q), x) : i + 1 \in About(q, x) /\ Tail(q)[i] = q[i + 1]
  /\ \A i \in About(q, x) \ {1} : i - 1 \in About(Tail(q), x) /\ Tail(q)[i - 1] = q[i]

BothOf(q, w, x) ==
  /\ Len(q) \in Nat /\ About(q, x) \subseteq 1 .. Len(q)
  /\ About(w, x) \subseteq Nat \ {0} /\ About(q \o w, x) \subseteq Nat \ {0}
  /\ \A i \in About(q, x) : i \in About(q \o w, x) /\ (q \o w)[i] = q[i]
  /\ \A i \in About(w, x) :
       Len(q) + i \in About(q \o w, x) /\ (q \o w)[Len(q) + i] = w[i]
  /\ \A i \in About(q \o w, x) : i \in About(q, x) \/ i - Len(q) \in About(w, x)

(* What is left of a queue, by the definition of Tail.                     *)
LEMMA AboutTail ==
  ASSUME NEW S, NEW q \in Seq(S), q # <<>>, NEW x
  PROVE  TailOf(q, x)
<1>1. /\ Len(q) \in Nat \ {0} /\ Len(Tail(q)) = Len(q) - 1
      /\ \A i \in 1 .. Len(Tail(q)) : Tail(q)[i] = q[i + 1]
  OBVIOUS
<1>2. ASSUME NEW i \in About(q, x) \ {1}
      PROVE  i - 1 \in About(Tail(q), x) /\ Tail(q)[i - 1] = q[i]
  <2>1. i - 1 \in 1 .. Len(Tail(q)) /\ (i - 1) + 1 = i
    BY <1>1, <1>2 DEF About
  <2> QED
    BY <1>1, <1>2, <2>1 DEF About
<1>3. ASSUME NEW i \in About(Tail(q), x)
      PROVE  i + 1 \in About(q, x) /\ Tail(q)[i] = q[i + 1]
  BY <1>1, <1>3 DEF About
<1> QED
  BY <1>1, <1>2, <1>3 DEF About, TailOf

(* Two queues in a row, by the definition of concatenation.                *)
LEMMA AboutBoth ==
  ASSUME NEW S, NEW q \in Seq(S), NEW w \in Seq(S), NEW x
  PROVE  BothOf(q, w, x)
<1>1. /\ Len(q) \in Nat /\ Len(w) \in Nat /\ Len(q \o w) = Len(q) + Len(w)
      /\ \A i \in 1 .. Len(q) : (q \o w)[i] = q[i]
      /\ \A i \in 1 .. Len(w) : (q \o w)[Len(q) + i] = w[i]
  OBVIOUS
<1>2. ASSUME NEW i \in About(q \o w, x), i \notin About(q, x)
      PROVE  i - Len(q) \in About(w, x)
  <2>1. i \in 1 .. Len(q) + Len(w) /\ (q \o w)[i].prefix = x
    BY <1>1, <1>2 DEF About
  <2>2. i \notin 1 .. Len(q)
    BY <1>1, <1>2, <2>1 DEF About
  <2>3. i - Len(q) \in 1 .. Len(w) /\ Len(q) + (i - Len(q)) = i
    BY <1>1, <2>1, <2>2
  <2> QED
    BY <1>1, <2>1, <2>3 DEF About
<1>3. ASSUME NEW i \in About(w, x)
      PROVE  Len(q) + i \in About(q \o w, x) /\ (q \o w)[Len(q) + i] = w[i]
  BY <1>1, <1>3 DEF About
<1>4. ASSUME NEW i \in About(q, x)
      PROVE  i \in About(q \o w, x) /\ (q \o w)[i] = q[i]
  BY <1>1, <1>4 DEF About
<1> QED
  BY <1>1, <1>2, <1>3, <1>4 DEF About, BothOf

(* The first message is handled: the last word stays the last word.        *)
LEMMA TailLast ==
  ASSUME NEW S, NEW q \in Seq(S), q # <<>>, NEW x, NEW c, NEW t, LastWord(q, x, c, t)
  PROVE  LastWord(Tail(q), x, IF q[1].prefix = x THEN Effect(q[1]) ELSE c, t)
<1>about. TailOf(q, x)
  BY AboutTail
<1>1. CASE About(q, x) = {}
  BY <1>1, <1>about DEF TailOf, LastWord
<1>2. CASE About(q, x) # {}
  <2>1. PICK i \in About(q, x) : Effect(q[i]) = t /\ \A j \in About(q, x) : j <= i
    BY <1>2 DEF LastWord
  <2>2. CASE i = 1
    <3>1. ASSUME NEW j \in About(Tail(q), x) PROVE FALSE
      <4>1. j + 1 <= 1 /\ j \in Nat \ {0}
        BY <2>1, <2>2, <3>1, <1>about DEF TailOf
      <4> QED
        BY <4>1
    <3> QED
      BY <2>1, <2>2, <3>1, <1>about DEF TailOf, LastWord
  <2>3. CASE i # 1
    <3>1. i - 1 \in About(Tail(q), x) /\ Effect(Tail(q)[i - 1]) = t
      BY <2>1, <2>3, <1>about DEF TailOf
    <3>2. ASSUME NEW j \in About(Tail(q), x) PROVE j <= i - 1
      <4>1. j + 1 <= i /\ j \in Nat /\ i \in Nat
        BY <2>1, <3>2, <1>about DEF TailOf
      <4> QED
        BY <4>1
    <3> QED
      BY <3>1, <3>2 DEF LastWord
  <2> QED
    BY <2>2, <2>3
<1> QED
  BY <1>1, <1>2

(* What rises to t goes on rising when its first message is taken.         *)
LEMMA TailRising ==
  ASSUME NEW S, NEW q \in Seq(S), q # <<>>, NEW x, NEW c, NEW t, Rising(q, x, c, t)
  PROVE  Rising(Tail(q), x, IF q[1].prefix = x THEN Effect(q[1]) ELSE c, t)
<1>about. TailOf(q, x)
  BY AboutTail
<1> SUFFICES ASSUME NEW i \in About(Tail(q), x)
             PROVE  /\ Effect(Tail(q)[i]) \in {IF q[1].prefix = x THEN Effect(q[1]) ELSE c, t}
                    /\ Effect(Tail(q)[i]) = t =>
                         \A j \in About(Tail(q), x) : i <= j => Effect(Tail(q)[j]) = t
  BY DEF Rising
<1>1. i + 1 \in About(q, x) /\ Tail(q)[i] = q[i + 1] /\ i \in Nat
  BY <1>about DEF TailOf
<1>2. Effect(q[i + 1]) \in {c, t}
  BY <1>1 DEF Rising
<1>3. q[1].prefix = x => Effect(q[1]) = c \/ Effect(q[i + 1]) = t
  BY <1>1, <1>about DEF TailOf, Rising
<1>4. ASSUME NEW j \in About(Tail(q), x), Effect(Tail(q)[i]) = t, i <= j
      PROVE  Effect(Tail(q)[j]) = t
  <2>1. j + 1 \in About(q, x) /\ Tail(q)[j] = q[j + 1] /\ j \in Nat
    BY <1>4, <1>about DEF TailOf
  <2>2. i + 1 <= j + 1
    BY <1>1, <1>4, <2>1
  <2> QED
    <3>1. Effect(q[i + 1]) = t /\ i + 1 \in About(q, x)
      BY <1>1, <1>4
    <3>2. \A k \in About(q, x) : i + 1 <= k => Effect(q[k]) = t
      BY <3>1 DEF Rising
    <3> QED
      BY <2>1, <2>2, <3>2
<1> QED
  BY <1>1, <1>2, <1>3, <1>4

(* An event is sent: its effect is the last word of its prefix.            *)
LEMMA EventLast ==
  ASSUME NEW S, NEW q \in Seq(S), NEW e \in S, NEW x, NEW c, NEW t, LastWord(q, x, c, t)
  PROVE  LastWord(q \o <<e>>, x, c, IF e.prefix = x THEN Effect(e) ELSE t)
<1>1. /\ <<e>> \in Seq(S) /\ About(<<e>>, x) = IF e.prefix = x THEN {1} ELSE {}
      /\ <<e>>[1] = e
  BY DEF About
<1>about. BothOf(q, <<e>>, x)
  BY <1>1, AboutBoth
<1>2. CASE e.prefix = x
  <2>1. Len(q) + 1 \in About(q \o <<e>>, x) /\ (q \o <<e>>)[Len(q) + 1] = e
    BY <1>1, <1>2, <1>about DEF BothOf
  <2>2. ASSUME NEW j \in About(q \o <<e>>, x) PROVE j <= Len(q) + 1
    <3>1. Len(q) \in Nat /\ (j \in 1 .. Len(q) \/ (j \in Nat /\ j - Len(q) = 1))
      BY <1>1, <1>2, <2>2, <1>about DEF BothOf
    <3> QED
      BY <3>1
  <2> QED
    BY <1>2, <2>1, <2>2 DEF LastWord
<1>3. CASE e.prefix # x
  <2>1. About(q \o <<e>>, x) = About(q, x) /\ \A i \in About(q, x) : (q \o <<e>>)[i] = q[i]
    BY <1>1, <1>3, <1>about DEF BothOf
  <2> QED
    BY <1>3, <2>1 DEF LastWord
<1> QED
  BY <1>2, <1>3

(* What rises to t rises still when a message to t follows.                *)
LEMMA EventRising ==
  ASSUME NEW S, NEW q \in Seq(S), NEW e \in S, NEW x, NEW c, Rising(q, x, c, c)
  PROVE  Rising(q \o <<e>>, x, c, IF e.prefix = x THEN Effect(e) ELSE c)
<1>1. /\ <<e>> \in Seq(S) /\ About(<<e>>, x) = IF e.prefix = x THEN {1} ELSE {}
      /\ <<e>>[1] = e
  BY DEF About
<1>about. BothOf(q, <<e>>, x)
  BY <1>1, AboutBoth
<1>2. \A i \in About(q, x) : Effect(q[i]) = c
  BY DEF Rising
<1>3. CASE e.prefix = x
  <2>1. \A i \in About(q \o <<e>>, x) :
           \/ i \in 1 .. Len(q) /\ Effect((q \o <<e>>)[i]) = c
           \/ i = Len(q) + 1 /\ Effect((q \o <<e>>)[i]) = Effect(e)
    <3> SUFFICES ASSUME NEW i \in About(q \o <<e>>, x), i \notin About(q, x)
                 PROVE  i = Len(q) + 1 /\ Effect((q \o <<e>>)[i]) = Effect(e)
      BY <1>2, <1>about DEF BothOf
    <3>1. i - Len(q) = 1 /\ Len(q) \in Nat /\ i \in Nat
      BY <1>1, <1>3, <1>about DEF BothOf
    <3>2. i = Len(q) + 1
      BY <3>1
    <3> QED
      BY <1>1, <1>3, <3>2, <1>about DEF BothOf
  <2>2. Len(q) \in Nat
    OBVIOUS
  <2> QED
    BY <1>3, <2>1, <2>2 DEF Rising
<1>4. CASE e.prefix # x
  <2>1. About(q \o <<e>>, x) = About(q, x) /\ \A i \in About(q, x) : (q \o <<e>>)[i] = q[i]
    BY <1>1, <1>4, <1>about DEF BothOf
  <2> QED
    BY <1>4, <2>1 DEF Rising
<1> QED
  BY <1>3, <1>4

(* So are the withdrawals of a reset.                                      *)
LEMMA WithdrawalsLast ==
  ASSUME NEW q \in Seq(EVENTS), NEW p \in Peers, NEW x \in Prefixes, NEW c
  PROVE  /\ LastWord(q \o Withdrawals[p], x, c, NoRoute)
         /\ Rising(q, x, c, c) => Rising(q \o Withdrawals[p], x, c, NoRoute)
<1> DEFINE w == Withdrawals[p]
<1>1. /\ w \in Seq(EVENTS)
      /\ \A i \in 1 .. Len(w) : Effect(w[i]) = NoRoute
      /\ \A i, j \in 1 .. Len(w) : w[i].prefix = w[j].prefix => i = j
  <2>1. EventsOf(p) \subseteq EVENTS
    BY DEF EventsOf
  <2> QED
    BY <2>1, WithdrawalsOfPeer, SeqDef DEF Effect
<1>2. PICK k \in 1 .. Len(w) : w[k].prefix = x
  BY WithdrawalsOfPeer
<1> HIDE DEF w
<1>about. BothOf(q, w, x)
  BY <1>1, AboutBoth
<1>3. About(w, x) = {k} /\ k \in Nat \ {0}
  BY <1>1, <1>2 DEF About
<1>4. \A i \in About(q \o w, x) :
         \/ i \in 1 .. Len(q) /\ i \in About(q, x) /\ (q \o w)[i] = q[i]
         \/ i = Len(q) + k /\ Effect((q \o w)[i]) = NoRoute
  <2> SUFFICES ASSUME NEW i \in About(q \o w, x), i \notin About(q, x)
               PROVE  i = Len(q) + k /\ Effect((q \o w)[i]) = NoRoute
    BY <1>1, <1>about DEF BothOf
  <2>1. i - Len(q) = k /\ Len(q) \in Nat /\ i \in Nat
    BY <1>1, <1>3, <1>about DEF BothOf
  <2>2. i = Len(q) + k
    BY <1>3, <2>1
  <2> QED
    BY <1>1, <1>2, <1>3, <2>2, <1>about DEF BothOf
<1>5. Len(q) \in Nat /\ Len(q) + k \in About(q \o w, x) /\ (q \o w)[Len(q) + k] = w[k]
  BY <1>1, <1>3, <1>about DEF BothOf
<1>6. LastWord(q \o w, x, c, NoRoute)
  <2>1. \A j \in About(q \o w, x) : j <= Len(q) + k
    BY <1>3, <1>4, <1>5
  <2> QED
    BY <1>1, <1>5, <2>1 DEF LastWord
<1>7. ASSUME Rising(q, x, c, c) PROVE Rising(q \o w, x, c, NoRoute)
  <2>1. \A i \in About(q, x) : Effect(q[i]) = c
    BY <1>7 DEF Rising
  <2>2. \A i \in About(q \o w, x) :
           \/ i \in 1 .. Len(q) /\ Effect((q \o w)[i]) = c
           \/ i = Len(q) + k /\ Effect((q \o w)[i]) = NoRoute
    BY <1>4, <2>1
  <2> QED
    BY <1>3, <1>5, <2>2 DEF Rising
<1> QED
  BY <1>6, <1>7 DEF w

(* The observer receives an export.                                        *)
LEMMA TailExport ==
  ASSUME NEW S, NEW q \in Seq(S), q # <<>>, NEW x, NEW a, NEW z
  PROVE  LET b == IF q[1].prefix = x THEN q[1].export ELSE a
         IN  /\ LastExport(q, x, a, z) => LastExport(Tail(q), x, b, z)
             /\ OnlyLast(q, x, a, z) => OnlyLast(Tail(q), x, b, z)
<1>about. TailOf(q, x)
  BY AboutTail
<1> DEFINE b == IF q[1].prefix = x THEN q[1].export ELSE a
<1>0. \A i \in About(Tail(q), x) : i \in Nat /\ i + 1 > 1 /\ i # 0
  BY <1>about DEF TailOf
<1>1. CASE About(q, x) = {}
  BY <1>1, <1>about DEF TailOf, LastExport, OnlyLast
<1>2. ASSUME About(q, x) # {}, LastExport(q, x, a, z)
      PROVE  LastExport(Tail(q), x, b, z)
  <2>1. PICK i \in About(q, x) : q[i].export = z /\ \A j \in About(q, x) : j <= i
    BY <1>2 DEF LastExport
  <2>2. CASE i = 1
    <3>1. ASSUME NEW j \in About(Tail(q), x) PROVE FALSE
      <4>1. j + 1 <= 1
        BY <2>1, <2>2, <3>1, <1>about DEF TailOf
      <4> QED
        BY <1>0, <4>1
    <3> QED
      BY <2>1, <2>2, <3>1, <1>about DEF TailOf, LastExport
  <2>3. CASE i # 1
    <3>1. i - 1 \in About(Tail(q), x) /\ Tail(q)[i - 1].export = z
      BY <2>1, <2>3, <1>about DEF TailOf
    <3>2. ASSUME NEW j \in About(Tail(q), x) PROVE j <= i - 1
      <4>1. j + 1 <= i /\ j \in Nat /\ i \in Nat
        BY <2>1, <3>2, <1>about DEF TailOf
      <4> QED
        BY <4>1
    <3> QED
      BY <3>1, <3>2 DEF LastExport
  <2> QED
    BY <2>2, <2>3
<1>3. ASSUME About(q, x) # {}, OnlyLast(q, x, a, z)
      PROVE  OnlyLast(Tail(q), x, b, z)
  <2>1. a # z /\ \A i \in About(q, x) : q[i].export = z => \A j \in About(q, x) : j <= i
    BY <1>3 DEF OnlyLast
  <2>2. ASSUME b = z, NEW j \in About(Tail(q), x) PROVE FALSE
    <3>1. 1 \in About(q, x) /\ q[1].export = z
      BY <2>1, <2>2, <1>about DEF TailOf
    <3>2. j + 1 <= 1
      BY <2>1, <2>2, <3>1, <1>about DEF TailOf
    <3> QED
      BY <1>0, <3>2
  <2>3. ASSUME NEW i \in About(Tail(q), x), Tail(q)[i].export = z,
               NEW j \in About(Tail(q), x)
        PROVE  j <= i
    <3>1. j + 1 <= i + 1 /\ i \in Nat /\ j \in Nat
      BY <2>1, <2>3, <1>about DEF TailOf
    <3> QED
      BY <3>1
  <2> QED
    BY <2>2, <2>3 DEF OnlyLast
<1> QED
  BY <1>1, <1>2, <1>3

(* The daemon sends one; where it is the last one, none like it came       *)
(* before.                                                                 *)
LEMMA SendExport ==
  ASSUME NEW S, NEW q \in Seq(S), NEW m \in S, NEW x, NEW a, NEW z
  PROVE  /\ LastExport(q, x, a, z) =>
              LastExport(q \o <<m>>, x, a, IF m.prefix = x THEN m.export ELSE z)
         /\ \A t : OnlyLast(q, x, a, t) /\ LastExport(q, x, a, z) /\ z # t =>
                     OnlyLast(q \o <<m>>, x, a, t)
         /\ \A t : OnlyLast(q, x, a, t) /\ m.prefix # x => OnlyLast(q \o <<m>>, x, a, t)
<1>1. /\ <<m>> \in Seq(S) /\ About(<<m>>, x) = IF m.prefix = x THEN {1} ELSE {}
      /\ <<m>>[1] = m
  BY DEF About
<1>about. BothOf(q, <<m>>, x)
  BY <1>1, AboutBoth
<1>2. CASE m.prefix = x
  <2>1. /\ Len(q) + 1 \in About(q \o <<m>>, x) /\ (q \o <<m>>)[Len(q) + 1] = m
        /\ Len(q) \in Nat
    BY <1>1, <1>2, <1>about DEF BothOf
  <2>2. \A j \in About(q \o <<m>>, x) :
           \/ j \in 1 .. Len(q) /\ j \in About(q, x) /\ (q \o <<m>>)[j] = q[j]
           \/ j = Len(q) + 1
    <3> SUFFICES ASSUME NEW j \in About(q \o <<m>>, x), j \notin About(q, x)
                 PROVE  j = Len(q) + 1
      BY <1>1, <1>about DEF BothOf
    <3>1. j - Len(q) = 1 /\ Len(q) \in Nat /\ j \in Nat
      BY <1>1, <1>2, <1>about DEF BothOf
    <3> QED
      BY <3>1
  <2>3. \A j \in About(q \o <<m>>, x) : j <= Len(q) + 1
    BY <2>1, <2>2
  <2>4. LastExport(q \o <<m>>, x, a, m.export)
    BY <2>1, <2>3 DEF LastExport
  <2>5. ASSUME NEW t, OnlyLast(q, x, a, t), LastExport(q, x, a, z), z # t
        PROVE  OnlyLast(q \o <<m>>, x, a, t)
    <3>1. a # t
      BY <2>5 DEF OnlyLast, LastExport
    <3>2. \A i \in About(q, x) : q[i].export # t
      <4> SUFFICES ASSUME NEW i \in About(q, x), q[i].export = t PROVE FALSE
        OBVIOUS
      <4>1. \A j \in About(q, x) : j <= i
        BY <2>5 DEF OnlyLast
      <4>2. PICK k \in About(q, x) : q[k].export = z /\ \A j \in About(q, x) : j <= k
        BY <2>5 DEF LastExport
      <4>3. k <= i /\ i <= k /\ i \in Nat /\ k \in Nat
        BY <1>1, <4>1, <4>2, <1>about DEF BothOf
      <4> QED
        BY <2>5, <4>2, <4>3
    <3>3. \A i \in About(q \o <<m>>, x) : (q \o <<m>>)[i].export = t => i = Len(q) + 1
      BY <2>2, <3>2
    <3> QED
      BY <2>3, <3>1, <3>3 DEF OnlyLast
  <2> QED
    BY <1>2, <2>4, <2>5
<1>3. CASE m.prefix # x
  <2>1. About(q \o <<m>>, x) = About(q, x) /\ \A i \in About(q, x) : (q \o <<m>>)[i] = q[i]
    BY <1>1, <1>3, <1>about DEF BothOf
  <2> QED
    BY <1>3, <2>1 DEF LastExport, OnlyLast
<1> QED
  BY <1>2, <1>3

(***************************************************************************)
(* Winners and exports                                                     *)
(***************************************************************************)
Choice == Peers \cup {NoPeer}

Exports == {NoExport} \cup [peer : Peers, route : Route \cup {NoRoute}]

Advert == [prefix : Prefixes, export : Exports]

Now(s, x) == Export(s, winner(s, x), x)

(* No route is not a route.                                                *)
LEMMA NoRouteIsNone == NoRoute \notin Route
BY RouteAssumption DEF Route, NoRoute

(* The winner is a candidate; there is none where there is no candidate.   *)
LEMMA WinnerOf ==
  ASSUME NEW s \in State, NEW x \in Prefixes
  PROVE  /\ winner(s, x) \in Choice
         /\ winner(s, x) = NoPeer <=> \A p \in Peers : s[x][p] = NoRoute
         /\ winner(s, x) # NoPeer => s[x][winner(s, x)] \in Route
<1>1. CASE eligible(s, x) = {}
  BY <1>1 DEF winner, eligible, Choice
<1>2. CASE eligible(s, x) # {}
  <2>1. winner(s, x) \in eligible(s, x)
    BY <1>2, WinnerWins
  <2>2. winner(s, x) \in Peers /\ s[x][winner(s, x)] # NoRoute
    BY <2>1 DEF eligible
  <2>3. winner(s, x) # NoPeer
    BY <2>2 DEF Peers, NoPeer
  <2> QED
    BY <2>2, <2>3 DEF Choice, State
<1> QED
  BY <1>1, <1>2

(* What is better than every candidate is the winner.                      *)
LEMMA WinnerUnique ==
  ASSUME NEW s \in State, NEW x \in Prefixes, NEW w \in eligible(s, x),
         \A q \in eligible(s, x) : Better(s[x][w], w, s[x][q], q)
  PROVE  w = winner(s, x)
<1> DEFINE v == winner(s, x)
<1>1. v \in eligible(s, x) /\ \A q \in eligible(s, x) : Better(s[x][v], v, s[x][q], q)
  BY WinnerWins
<1> HIDE DEF v
<1>2. /\ w \in Peers /\ v \in Peers /\ s[x][w] \in Route /\ s[x][v] \in Route
  BY <1>1 DEF eligible, State
<1> DEFINE a == s[x][w]
           b == s[x][v]
<1>3. /\ a.length \in Nat /\ a.origin \in Nat /\ b.length \in Nat /\ b.origin \in Nat
  BY <1>2, RouteFields
<1>4. Better(a, w, b, v) /\ Better(b, v, a, w)
  BY <1>1
<1> HIDE DEF a, b
<1>5. w <= v /\ v <= w
  BY <1>3, <1>4 DEF Better
<1>6. w = v
  BY <1>2, <1>5 DEF Peers
<1> QED
  BY <1>6 DEF v

(* The decision process of the daemon, one criterion after the other,      *)
(* selects what the one sorting key of State.winner does                   *)
(* (route_model.py:38-41), whatever the candidates are.                    *)
THEOREM DecisionIsWinner ==
  ASSUME NEW s \in State, NEW x \in Prefixes
  PROVE  Decision(s, x) = winner(s, x)
<1> DEFINE E == eligible(s, x)
           S == Shortest(s, x)
           B == BestOrigin(s, x)
<1>1. \A p \in E : /\ p \in Peers
                   /\ s[x][p].length \in Nat /\ s[x][p].origin \in Nat
  BY RouteFields DEF eligible, State
<1>2. /\ S = {p \in E : \A q \in E : s[x][p].length <= s[x][q].length}
      /\ B = {p \in S : \A q \in S : s[x][p].origin <= s[x][q].origin}
  BY DEF Shortest, BestOrigin
<1>3. Decision(s, x) = IF B = {} THEN NoPeer ELSE IF 0 \in B THEN 0 ELSE 1
  BY DEF Decision, LowestId
<1>4. CASE E = {}
  BY <1>2, <1>3, <1>4 DEF winner
<1>5. CASE E # {}
  <2> HIDE DEF E, S, B
  <2>1. E = {0} \/ E = {1} \/ E = {0, 1}
    BY <1>1, <1>5 DEF Peers
  <2>2. S # {} /\ S \subseteq {0, 1}
    BY <1>1, <1>2, <2>1
  <2>3. B # {} /\ B \subseteq {0, 1}
    <3>1. S = {0} \/ S = {1} \/ S = {0, 1}
      BY <2>2
    <3>2. S \subseteq E
      BY <1>2
    <3> QED
      BY <1>1, <1>2, <3>1, <3>2
  <2> DEFINE w == Decision(s, x)
  <2>4. w \in B /\ (w = 1 => 0 \notin B)
    <3>1. B = {0} \/ B = {1} \/ B = {0, 1}
      BY <2>3
    <3> QED
      BY <1>3, <3>1
  <2> HIDE DEF w
  <2>5. w \in E /\ w \in S
    BY <1>2, <2>4
  <2>6. ASSUME NEW q \in E PROVE Better(s[x][w], w, s[x][q], q)
    <3>1. s[x][w].length <= s[x][q].length
      BY <1>2, <2>5
    <3>2. CASE q \notin S
      <4>1. s[x][w].length # s[x][q].length
        BY <1>1, <1>2, <2>5, <3>2
      <4> QED
        BY <1>1, <2>5, <3>1, <4>1 DEF Better
    <3>3. CASE q \in S \ B
      <4>1. s[x][w].origin <= s[x][q].origin /\ s[x][w].origin # s[x][q].origin
        BY <1>1, <1>2, <2>4, <2>5, <3>3
      <4> QED
        BY <1>1, <2>5, <3>1, <4>1 DEF Better
    <3>4. CASE q \in B
      <4>1. s[x][w].origin <= s[x][q].origin
        BY <1>2, <2>4, <2>5, <3>4
      <4>2. w <= q
        BY <2>3, <2>4, <3>4
      <4> QED
        BY <1>1, <2>5, <3>1, <4>1, <4>2 DEF Better
    <3> QED
      BY <1>2, <3>2, <3>3, <3>4
  <2> QED
    BY <2>5, <2>6, WinnerUnique DEF E, w
<1> QED
  BY <1>4, <1>5

(* The winner and its export depend on the candidates of the prefix alone. *)
LEMMA SameWinner ==
  ASSUME NEW s \in State, NEW t \in State, NEW x \in Prefixes, s[x] = t[x]
  PROVE  winner(s, x) = winner(t, x) /\ Now(s, x) = Now(t, x)
<1>1. eligible(s, x) = eligible(t, x)
  BY DEF eligible
<1>2. winner(s, x) = winner(t, x)
  <2>1. CASE eligible(s, x) = {}
    BY <1>1, <2>1 DEF winner
  <2>2. CASE eligible(s, x) # {}
    <3>1. /\ winner(s, x) \in eligible(t, x)
          /\ \A q \in eligible(t, x) :
               Better(t[x][winner(s, x)], winner(s, x), t[x][q], q)
      BY <1>1, <2>2, WinnerWins
    <3> QED
      BY <3>1, WinnerUnique
  <2> QED
    BY <2>1, <2>2
<1> QED
  BY <1>2 DEF Now, Export

(* There is no export just where there is no best path.                    *)
LEMMA ExportOf ==
  ASSUME NEW s, NEW x, NEW w \in Choice
  PROVE  Export(s, w, x) = NoExport <=> w = NoPeer
<1>1. w # NoPeer => w \in Peers /\ Export(s, w, x).peer = w
  BY DEF Choice, Export
<1>2. NoExport.peer = NoPeer
  BY DEF NoExport
<1> QED
  BY <1>1, <1>2 DEF Export

(* What is to be exported is an export, and none where there is no         *)
(* candidate.                                                              *)
LEMMA NowOf ==
  ASSUME NEW s \in State, NEW x \in Prefixes
  PROVE  /\ Now(s, x) \in Exports
         /\ Now(s, x) = NoExport <=> \A p \in Peers : s[x][p] = NoRoute
<1>1. /\ winner(s, x) \in Choice
      /\ winner(s, x) = NoPeer <=> \A p \in Peers : s[x][p] = NoRoute
      /\ winner(s, x) # NoPeer => s[x][winner(s, x)] \in Route
  BY WinnerOf
<1>2. Now(s, x) = NoExport <=> winner(s, x) = NoPeer
  BY <1>1, ExportOf DEF Now
<1>3. Now(s, x) \in Exports
  BY <1>1 DEF Now, Export, Exports, Choice
<1> QED
  BY <1>1, <1>2, <1>3

(* A daemon that does not look at ORIGIN goes wrong only where there are   *)
(* two candidates, and never where there is none.                          *)
LEMMA ByLengthOf ==
  ASSUME NEW s \in State, NEW x \in Prefixes
  PROVE  /\ ByLength(s, x) \in Choice
         /\ ByLength(s, x) = NoPeer => \A p \in Peers : s[x][p] = NoRoute
         /\ (\E p \in Peers : s[x][p] = NoRoute) => ByLength(s, x) = winner(s, x)
<1> DEFINE shortest == {p \in eligible(s, x) :
                          \A q \in eligible(s, x) : s[x][p].length <= s[x][q].length}
<1>1. ByLength(s, x) = IF shortest = {} THEN NoPeer ELSE IF 0 \in shortest THEN 0 ELSE 1
  BY DEF ByLength, Shortest, LowestId
<1>2. \A p \in eligible(s, x) : p \in Peers /\ s[x][p] \in Route /\ s[x][p].length \in Nat
  BY RouteFields DEF eligible, State
<1>3. eligible(s, x) # {} => shortest # {}
  <2> SUFFICES ASSUME NEW p \in eligible(s, x) PROVE shortest # {}
    OBVIOUS
  <2>1. CASE \A q \in eligible(s, x) : s[x][p].length <= s[x][q].length
    BY <2>1
  <2>2. CASE \E q \in eligible(s, x) : ~(s[x][p].length <= s[x][q].length)
    <3>1. PICK q \in eligible(s, x) : ~(s[x][p].length <= s[x][q].length)
      BY <2>2
    <3>2. s[x][q].length <= s[x][p].length /\ s[x][q].length <= s[x][q].length /\ p # q
      BY <1>2, <3>1
    <3>3. eligible(s, x) \subseteq {p, q}
      BY <1>2, <3>2 DEF Peers
    <3>4. q \in shortest
      BY <3>2, <3>3
    <3> QED
      BY <3>4
  <2> QED
    BY <2>1, <2>2
<1>4. shortest \subseteq Peers /\ shortest \subseteq eligible(s, x)
  BY <1>2
<1>5. CASE eligible(s, x) = {}
  BY <1>1, <1>4, <1>5 DEF winner, eligible, Choice
<1>6. CASE eligible(s, x) # {}
  <2>1. ByLength(s, x) \in shortest
    BY <1>1, <1>3, <1>4, <1>6 DEF Peers
  <2> HIDE DEF shortest
  <2>0. ByLength(s, x) \in Peers
    BY <1>4, <2>1
  <2>2. ByLength(s, x) \in Peers /\ ByLength(s, x) # NoPeer
    BY <2>0 DEF Peers, NoPeer
  <2>3. ASSUME NEW p \in Peers, s[x][p] = NoRoute
        PROVE  ByLength(s, x) = winner(s, x)
    <3>1. p \notin eligible(s, x)
      BY <2>3 DEF eligible
    <3>2. winner(s, x) \in eligible(s, x)
      BY <1>6, WinnerWins
    <3>3. winner(s, x) \in Peers /\ ByLength(s, x) \in eligible(s, x)
      BY <1>2, <1>4, <2>1, <3>2
    <3> QED
      BY <2>2, <3>1, <3>2, <3>3 DEF Peers
  <2> QED
    BY <2>2, <2>3 DEF Choice
<1> QED
  BY <1>5, <1>6

(***************************************************************************)
(* The invariant                                                           *)
(***************************************************************************)
AtRest == pc \in {"setup", "event", "next"}

MoreTypes ==
  /\ mode \in Mode /\ routes \in State /\ breaks \in Nat
  /\ pc \in {"setup", "next", "reset", "event", "sent", "final", "done"}
  /\ rib = [x \in Prefixes |-> rib[x]]
  /\ dirty \subseteq Prefixes
  /\ best \in [Prefixes -> Choice]
  /\ exports \in [Prefixes -> Exports]
  /\ exported \in [Prefixes -> Exports]
  /\ outbox \in Seq(Advert)

(* Sessions end only where they break.                                     *)
Undisturbed ==
  breaks = 0 => alive = Sessions \/ (alive = {} /\ pc \in {"setup", "done"})

(* What the daemon has to come to: the state the runner waits for, or the  *)
(* one it has seen.                                                        *)
Goal == IF pc \in {"reset", "final"} THEN NoRoutes ELSE routes

ChainEnd(x) == LastExport(outbox, x, exports[x], exported[x])

Agreed ==
  /\ candidates = routes
  /\ \A x \in Prefixes : best[x] = winner(routes, x) /\ exports[x] = Now(routes, x)
  /\ outbox = <<>>

(* A conforming daemon, seen by any runner.                                *)
Conforms == FAULTS = {} /\ breaks = 0 /\ pc # "done"

ConformsAt(x) ==
  /\ x \notin dirty => best[x] = winner(candidates, x)
  /\ ChainEnd(x)
  /\ \A p \in Peers : LastWord(inbox[p], x, candidates[x][p], Goal[x][p])

Conforming == Conforms => \A x \in Prefixes : ConformsAt(x)

(* A conforming daemon and a runner that reads the RIB: candidates and     *)
(* exports come to the goal without leaving it again.                      *)
Follows == Conforms /\ ~COVERAGE

FollowsAt(x) ==
  /\ \A p \in Peers : Rising(inbox[p], x, candidates[x][p], Goal[x][p])
  /\ OnlyLast(outbox, x, exports[x], Now(Goal, x))
  /\ exported[x] = Now(Goal, x) => Now(candidates, x) = Now(Goal, x)
  /\ rib[x] = RibEntry(Goal, winner(Goal, x), x) =>
       candidates[x] = Goal[x] /\ best[x] = winner(Goal, x)

(* An event changes a prefix for one peer.                                 *)
OneDiffers(x) ==
  \A p, q \in Peers :
    candidates[x][p] # Goal[x][p] /\ candidates[x][q] # Goal[x][q] => p = q

Following ==
  Follows =>
    /\ \A x \in Prefixes : FollowsAt(x) /\ (pc = "sent" => OneDiffers(x))
    /\ AtRest => Agreed

(* A daemon that is in time, with or without faults: what no later step of *)
(* it makes good.                                                          *)
Timely == PATIENT /\ breaks = 0 /\ ~COVERAGE /\ pc # "done"

Still ==
  /\ \A p \in Peers : inbox[p] = <<>>
  /\ dirty = {} /\ outbox = <<>>
  /\ \A x \in Prefixes : exported[x] = Export(candidates, best[x], x)

KeptCandidate(p, x) == About(inbox[p], x) = {} /\ candidates[x][p] # Goal[x][p]

Chosen(x) == candidates[x] = Goal[x] /\ x \notin dirty

WrongBest(x) == Chosen(x) /\ best[x] # winner(Goal, x)

KeptExport(x) ==
  /\ Chosen(x) /\ best[x] = NoPeer /\ exported[x] = NoExport
  /\ \E z \in Exports \ {NoExport} : LastExport(outbox, x, exports[x], z)

SpoiltAt(x) == (\E p \in Peers : KeptCandidate(p, x)) \/ WrongBest(x) \/ KeptExport(x)

Spoilt == \E x \in Prefixes : SpoiltAt(x)

(* While it is waited for: each peer has one message of a prefix at most,  *)
(* which is of the goal, and one in all behind an event.                   *)
OneEach(p) ==
  /\ \A i, j \in 1 .. Len(inbox[p]) : inbox[p][i].prefix = inbox[p][j].prefix => i = j
  /\ \A i \in 1 .. Len(inbox[p]) : Effect(inbox[p][i]) = Goal[inbox[p][i].prefix][p]

Unanswered(x) == \E p \in Peers : About(inbox[p], x) # {}

WorksAt(x) ==
  /\ x \in dirty => \/ ~Unanswered(x)
                    \/ pc # "sent" /\ \E p \in Peers : candidates[x][p] = NoRoute
  /\ x \notin dirty /\ best[x] = NoPeer => \A p \in Peers : candidates[x][p] = NoRoute
  /\ pc = "sent" /\ x \notin dirty /\ Unanswered(x) =>
       exported[x] = Export(candidates, best[x], x)
  /\ ChainEnd(x) \/ Spoilt

OneInAll == \A p, q \in Peers : inbox[p] # <<>> /\ inbox[q] # <<>> => p = q

ReadStill ==
  matched => \A x \in Prefixes :
               rib[x] # Unread => Still /\ rib[x] = RibEntry(candidates, best[x], x)

Working ==
  /\ \A p \in Peers : OneEach(p)
  /\ pc = "sent" => OneInAll
  /\ \A x \in Prefixes : WorksAt(x)
  /\ diverged => Spoilt
  /\ ReadStill

Watched == Timely => IF AtRest THEN Agreed /\ Still /\ ~diverged ELSE Working

Unfailing == PATIENT /\ FAULTS = {} /\ breaks = 0 => ~error

AInv ==
  LInv /\ MoreTypes /\ Undisturbed /\ Conforming /\ Following /\ Watched /\ Unfailing

(***************************************************************************)
(* Types, sessions                                                         *)
(***************************************************************************)

(* The steps by what they leave alone.                                     *)
Failing ==
  \/ SetupFails \/ ResetRaises \/ (\E e \in EVENTS : SendEventRaises(e))
  \/ PumpRaises \/ ConvergeRaises

Idle == EndTrace \/ Done \/ UNCHANGED lvars

(* Every step is of one of these kinds.                                    *)
LEMMA StepKinds ==
  ASSUME [LNext]_lvars
  PROVE  \/ Failing \/ Idle \/ SetupOk \/ Reset \/ (\E e \in EVENTS : SendEvent(e))
         \/ Pump \/ (\E x \in Prefixes : ReadRib(x)) \/ PollAgain \/ ConvergeOk
         \/ (\E p \in Peers : Handle(p))
         \/ (\E x \in Prefixes : Select(x)) \/ (\E x \in Prefixes : Advertise(x))
         \/ (\E p \in Sessions : Break(p))
<1>1. \A e \in TraceEvents : e \in EVENTS
  BY DEF TraceEvents
<1> QED
  BY <1>1 DEF LNext, Drive, Converge, Daemon, Failing, Idle

(* Every exception ends the run.                                           *)
LEMMA FailingEnds ==
  ASSUME Failing
  PROVE  /\ pc' = "done" /\ UNCHANGED <<mode, alive, breaks, exports, outbox, daemon, rib>>
         /\ routes' = routes \/ \E e \in EVENTS : routes' = step(routes, e)
<1>1. CASE SetupFails
  BY <1>1 DEF SetupFails, Fail, poll, net, daemon
<1>2. CASE ResetRaises
  BY <1>2 DEF ResetRaises, poll, net, daemon
<1>3. CASE \E e \in EVENTS : SendEventRaises(e)
  BY <1>3 DEF SendEventRaises, Fail, poll, net, daemon
<1>4. CASE PumpRaises
  BY <1>4 DEF PumpRaises, Fail, poll, net, daemon
<1>5. CASE ConvergeRaises
  BY <1>5 DEF ConvergeRaises, Fail, poll, net, daemon
<1> QED
  BY <1>1, <1>2, <1>3, <1>4, <1>5 DEF Failing

(* Every step keeps the types.                                             *)
LEMMA MoreTypesStep ==
  ASSUME LInv, MoreTypes, [LNext]_lvars
  PROVE  MoreTypes'
<1>1. candidates \in State
  BY DEF LInv, Types
<1>2. CASE Failing
  BY <1>2, FailingEnds, StepTypes DEF MoreTypes, daemon
<1>3. CASE Idle \/ SetupOk
  BY <1>3 DEF MoreTypes, Idle, EndTrace, Done, SetupOk, lvars, runner, poll, net, daemon
<1>4. CASE Reset
  BY <1>4 DEF MoreTypes, Reset, StartPoll, NothingRead
<1>5. CASE \E e \in EVENTS : SendEvent(e)
  BY <1>5, StepTypes DEF MoreTypes, SendEvent, StartPoll, NothingRead, daemon
<1>6. CASE Pump
  <2>1. outbox # <<>> /\ outbox \in Seq(Advert)
    BY <1>6 DEF Pump, MoreTypes
  <2>2. Head(outbox) \in Advert /\ Tail(outbox) \in Seq(Advert)
    BY <2>1
  <2> QED
    BY <1>6, <2>2 DEF MoreTypes, Pump, runner, poll, daemon, Advert
<1>7. CASE \E x \in Prefixes : ReadRib(x)
  BY <1>7 DEF MoreTypes, ReadRib, runner, net, daemon
<1>8. CASE PollAgain
  BY <1>8 DEF MoreTypes, PollAgain, NothingRead, runner, net, daemon
<1>9. CASE ConvergeOk
  <2>1. NoRoutes \in State
    BY DEF NoRoutes, State
  <2> QED
    BY <1>9, <2>1 DEF MoreTypes, ConvergeOk, poll, net, daemon
<1>10. CASE \E p \in Peers : Handle(p)
  <2>1. PICK p \in Peers : Handle(p)
    BY <1>10
  <2>2. inbox[p] # <<>> /\ inbox[p] \in Seq(EVENTS)
    BY <2>1 DEF LInv, Types, Handle
  <2>3. Head(inbox[p]) \in EVENTS
    BY <2>2
  <2>4. dirty' \subseteq Prefixes
    BY <2>1, <2>3 DEF MoreTypes, Handle, EVENTS
  <2> QED
    BY <2>1, <2>4 DEF MoreTypes, Handle, runner, poll
<1>11. CASE \E x \in Prefixes : Select(x)
  <2>1. PICK x \in Prefixes : Select(x)
    BY <1>11
  <2>2. Decision(candidates, x) \in Choice /\ ByLength(candidates, x) \in Choice
    BY <1>1, WinnerOf, ByLengthOf, DecisionIsWinner DEF Choice
  <2> QED
    BY <2>1, <2>2 DEF MoreTypes, Select, runner, poll, net
<1>12. CASE \E x \in Prefixes : Advertise(x)
  <2>1. PICK x \in Prefixes : Advertise(x)
    BY <1>12
  <2> DEFINE now == Export(candidates, best[x], x)
  <2>2. now \in Exports
    BY <1>1 DEF MoreTypes, Export, Exports, State, Choice
  <2>3. /\ exported' = [exported EXCEPT ![x] = now]
        /\ outbox' = Append(outbox, [prefix |-> x, export |-> now]) \/ outbox' = outbox
    BY <2>1 DEF Advertise
  <2> HIDE DEF now
  <2>4. PICK m \in Advert : m = [prefix |-> x, export |-> now]
    BY <2>2 DEF Advert
  <2>6. outbox \in Seq(Advert) /\ (outbox' = Append(outbox, m) \/ outbox' = outbox)
    BY <2>3, <2>4 DEF MoreTypes
  <2>5. outbox' \in Seq(Advert)
    BY <2>6
  <2> QED
    BY <2>1, <2>2, <2>3, <2>5 DEF MoreTypes, Advertise, runner, poll
<1>13. CASE \E p \in Sessions : Break(p)
  <2>1. breaks' \in Nat
    BY <1>13 DEF MoreTypes, Break
  <2>2. dirty' \subseteq Prefixes
    BY <1>13 DEF MoreTypes, Break
  <2> QED
    BY <1>13, <2>1, <2>2 DEF MoreTypes, Break, runner, poll
<1> QED
  BY <1>2, <1>3, <1>4, <1>5, <1>6, <1>7, <1>8, <1>9, <1>10, <1>11, <1>12, <1>13, StepKinds

(***************************************************************************)
(* The steps of the runner                                                 *)
(***************************************************************************)
Facts == Undisturbed /\ Conforming /\ Following /\ Watched /\ Unfailing

DaemonSame == UNCHANGED <<mode, breaks, inbox, outbox, exports, daemon>>

(* The mode of the run stays.                                              *)
LEMMA ModeStays ==
  mode' = mode => FAULTS' = FAULTS /\ (PATIENT' <=> PATIENT) /\ (COVERAGE' <=> COVERAGE)
BY DEF FAULTS, PATIENT, COVERAGE

(* Steps that leave the daemon, its connections and the goal alone.        *)
LEMMA SpoiltStays ==
  ASSUME DaemonSame, Goal' = Goal
  PROVE  /\ \A x \in Prefixes : ChainEnd(x)' = ChainEnd(x)
         /\ Spoilt' = Spoilt
         /\ Still' = Still
BY DEF DaemonSame, daemon, ChainEnd, Spoilt, SpoiltAt, KeptCandidate, WrongBest, KeptExport,
       Chosen, Still

(* What is known of a conforming daemon stays when neither it nor the goal *)
(* changes.                                                                *)
LEMMA ConformingStays ==
  ASSUME Conforming, Conforms' => Conforms, DaemonSame, Goal' = Goal
  PROVE  Conforming'
<1> SUFFICES ASSUME Conforms', NEW x \in Prefixes PROVE ConformsAt(x)'
  BY DEF Conforming
<1>1. ConformsAt(x)
  BY DEF Conforming
<1> QED
  BY <1>1, SpoiltStays DEF ConformsAt, DaemonSame, daemon

(* So does what is known of a daemon at work.                              *)
LEMMA WorkingStays ==
  ASSUME Working, DaemonSame, Goal' = Goal, pc' = pc, ReadStill'
  PROVE  Working'
<1>1. OneInAll' = OneInAll /\ \A p \in Peers : OneEach(p) => OneEach(p)'
  BY DEF OneInAll, OneEach, DaemonSame
<1>2. \A x \in Prefixes : Unanswered(x)' = Unanswered(x)
  BY DEF Unanswered, DaemonSame
<1>3. \A x \in Prefixes : WorksAt(x) => WorksAt(x)'
  BY <1>2, SpoiltStays DEF WorksAt, DaemonSame, daemon
<1> QED
  BY <1>1, <1>3, SpoiltStays DEF Working, DaemonSame, daemon

(* Between events nothing changes; a session is set up before anything is  *)
(* sent.                                                                   *)
LEMMA RestingStep ==
  ASSUME AInv, Idle \/ SetupOk
  PROVE  Facts'
<1>1. /\ DaemonSame /\ UNCHANGED <<routes, poll, error>>
      /\ pc' = pc \/ (AtRest /\ AtRest')
      /\ \/ alive' = alive /\ (pc' = pc \/ pc = "event")
         \/ alive' = Sessions
  BY DEF Idle, SetupOk, EndTrace, Done, lvars, runner, poll, net, daemon, DaemonSame, AtRest
<1>2. Goal' = Goal /\ AtRest' = AtRest /\ (pc' = "sent" <=> pc = "sent")
      /\ (pc = "done" => pc' = "done")
  BY <1>1 DEF Goal, AtRest
<1>3. Undisturbed' /\ Unfailing'
  BY <1>1, ModeStays DEF AInv, Undisturbed, Unfailing, DaemonSame
<1>4. Conforms' => Conforms
  BY <1>1, <1>2, ModeStays DEF Conforms, DaemonSame
<1>5. Conforming'
  BY <1>1, <1>2, <1>4, ConformingStays DEF AInv
<1>6. Following'
  <2> SUFFICES ASSUME Follows'
               PROVE  /\ \A x \in Prefixes : FollowsAt(x)' /\ (pc' = "sent" => OneDiffers(x)')
                      /\ AtRest' => Agreed'
    BY DEF Following
  <2>1. Follows
    BY <1>1, <1>4, ModeStays DEF Follows, DaemonSame
  <2>2. Agreed' = Agreed /\ \A x \in Prefixes : FollowsAt(x)' = FollowsAt(x)
    BY <1>1, <1>2 DEF Agreed, FollowsAt, DaemonSame, daemon, poll
  <2>3. \A x \in Prefixes : OneDiffers(x)' = OneDiffers(x)
    BY <1>1, <1>2 DEF OneDiffers, DaemonSame, daemon
  <2> QED
    BY <1>2, <2>1, <2>2, <2>3 DEF AInv, Following
<1>7. Watched'
  <2> SUFFICES ASSUME Timely'
               PROVE  IF AtRest' THEN Agreed' /\ Still' /\ ~diverged' ELSE Working'
    BY DEF Watched
  <2>1. Timely
    BY <1>1, <1>2, ModeStays DEF Timely, DaemonSame
  <2>2. CASE AtRest
    BY <1>1, <1>2, <2>1, <2>2, SpoiltStays DEF AInv, Watched, Agreed, DaemonSame, daemon
  <2>3. CASE ~AtRest
    <3>1. Working /\ pc' = pc
      BY <1>1, <2>1, <2>3 DEF AInv, Watched
    <3>2. ReadStill'
      BY <1>1, <1>2, <3>1, SpoiltStays
         DEF Working, ReadStill, DaemonSame, daemon, poll
    <3> QED
      BY <1>1, <1>2, <2>3, <3>1, <3>2, WorkingStays
  <2> QED
    BY <2>2, <2>3
<1> QED
  BY <1>3, <1>5, <1>6, <1>7 DEF Facts

(* The goal is a candidate state.                                          *)
LEMMA GoalType == ASSUME MoreTypes PROVE Goal \in State
BY DEF Goal, MoreTypes, NoRoutes, State

(* What is not read is no entry of the RIB.                                *)
LEMMA UnreadIsNoEntry ==
  ASSUME NEW s \in State, NEW x \in Prefixes
  PROVE  Unread # RibEntry(s, winner(s, x), x)
<1>1. winner(s, x) # 0 - 2
  BY WinnerOf DEF Choice, Peers, NoPeer
<1>2. Unread.best = 0 - 2 /\ RibEntry(s, winner(s, x), x).best = winner(s, x)
  BY DEF Unread, RibEntry
<1> QED
  BY <1>1, <1>2

(* A read of the RIB.                                                      *)
LEMMA ReadRibStep ==
  ASSUME AInv, NEW x \in Prefixes, ReadRib(x)
  PROVE  Facts'
<1>1. /\ DaemonSame /\ UNCHANGED <<routes, pc, alive, matched, error>>
      /\ rib' = [rib EXCEPT ![x] = RibEntry(candidates, best[x], x)]
      /\ PATIENT /\ matched => Settled
      /\ ~COVERAGE /\ Converging
  BY DEF ReadRib, runner, poll, net, daemon, DaemonSame
<1>2. Goal' = Goal /\ AtRest' = AtRest /\ ~AtRest
  BY <1>1 DEF Goal, AtRest, Converging
<1>3. Undisturbed' /\ Unfailing' /\ Conforms' = Conforms
  BY <1>1, ModeStays DEF AInv, Undisturbed, Unfailing, DaemonSame, Conforms
<1>4. Conforming'
  BY <1>1, <1>2, <1>3, ConformingStays DEF AInv
<1>5. /\ rib'[x] = RibEntry(candidates, best[x], x)
      /\ \A y \in Prefixes \ {x} : rib'[y] = rib[y]
  BY <1>1 DEF AInv, MoreTypes
<1>6. Following'
  <2> SUFFICES ASSUME Follows', NEW y \in Prefixes
               PROVE  FollowsAt(y)' /\ (pc' = "sent" => OneDiffers(y)')
    BY <1>2 DEF Following
  <2>1. FollowsAt(y) /\ (pc = "sent" => OneDiffers(y))
    BY <1>1, <1>3, ModeStays DEF AInv, Following, Follows, DaemonSame
  <2>2. pc' = "sent" => OneDiffers(y)'
    BY <1>1, <1>2, <2>1 DEF OneDiffers, DaemonSame, daemon
  <2>3. rib'[y] = RibEntry(Goal, winner(Goal, y), y) =>
          candidates[y] = Goal[y] /\ best[y] = winner(Goal, y)
    BY <1>5, <2>1 DEF FollowsAt, RibEntry
  <2>4. FollowsAt(y)'
    BY <1>1, <1>2, <2>1, <2>3 DEF FollowsAt, DaemonSame, daemon
  <2> QED
    BY <2>2, <2>4
<1>7. Watched'
  <2> SUFFICES ASSUME Timely' PROVE Working'
    BY <1>2 DEF Watched
  <2>1. Timely /\ Working
    BY <1>1, <1>2, ModeStays DEF AInv, Watched, Timely, DaemonSame
  <2>2. alive = Sessions
    BY <1>1, <2>1 DEF AInv, Undisturbed, Timely, Converging
  <2>3. matched => Still
    BY <1>1, <2>1, <2>2 DEF Timely, Settled, Still, Sessions
  <2>4. ReadStill'
    BY <1>1, <1>2, <1>5, <2>1, <2>3, SpoiltStays DEF ReadStill, Working, DaemonSame, daemon
  <2> QED
    BY <1>1, <1>2, <2>1, <2>4, WorkingStays
<1> QED
  BY <1>3, <1>4, <1>6, <1>7 DEF Facts

(* The next poll.                                                          *)
LEMMA PollAgainStep ==
  ASSUME AInv, PollAgain
  PROVE  Facts'
<1>1. /\ DaemonSame /\ UNCHANGED <<routes, pc, alive, error>> /\ rib' = NothingRead
      /\ Converging
  BY DEF PollAgain, runner, net, daemon, DaemonSame
<1>2. Goal' = Goal /\ AtRest' = AtRest /\ ~AtRest
  BY <1>1 DEF Goal, AtRest, Converging
<1>3. Undisturbed' /\ Unfailing' /\ Conforms' = Conforms
  BY <1>1, ModeStays DEF AInv, Undisturbed, Unfailing, DaemonSame, Conforms
<1>4. Conforming'
  BY <1>1, <1>2, <1>3, ConformingStays DEF AInv
<1>5. \A y \in Prefixes : rib'[y] = Unread
  BY <1>1 DEF NothingRead
<1>6. Following'
  <2> SUFFICES ASSUME Follows', NEW y \in Prefixes
               PROVE  FollowsAt(y)' /\ (pc' = "sent" => OneDiffers(y)')
    BY <1>2 DEF Following
  <2>1. FollowsAt(y) /\ (pc = "sent" => OneDiffers(y))
    BY <1>1, <1>3, ModeStays DEF AInv, Following, Follows, DaemonSame
  <2>2. pc' = "sent" => OneDiffers(y)'
    BY <1>1, <1>2, <2>1 DEF OneDiffers, DaemonSame, daemon
  <2>3. rib'[y] # RibEntry(Goal, winner(Goal, y), y)
    BY <1>5, GoalType, UnreadIsNoEntry DEF AInv
  <2>4. FollowsAt(y)'
    BY <1>1, <1>2, <2>1, <2>3 DEF FollowsAt, DaemonSame, daemon
  <2> QED
    BY <2>2, <2>4
<1>7. Watched'
  <2> SUFFICES ASSUME Timely' PROVE Working'
    BY <1>2 DEF Watched
  <2>1. Timely /\ Working
    BY <1>1, <1>2, ModeStays DEF AInv, Watched, Timely, DaemonSame
  <2>2. ReadStill'
    BY <1>5 DEF ReadStill
  <2> QED
    BY <1>1, <1>2, <2>1, <2>2, WorkingStays
<1> QED
  BY <1>3, <1>4, <1>6, <1>7 DEF Facts

(* While the runner waits, what it waits for is the goal.                  *)
LEMMA GoalIsTarget == Converging => Target = Goal /\ ~AtRest /\ pc # "done"
BY DEF Converging, Target, Goal, AtRest

(* An empty queue has no message of a prefix.                              *)
LEMMA NothingAbout == \A x : About(<<>>, x) = {}
BY DEF About

(* A conforming daemon that has settled has come to what the runner waits  *)
(* for.                                                                    *)
LEMMA SettledIsGoal ==
  ASSUME AInv, Conforms, Converging, Settled, alive = Sessions
  PROVE  /\ exports = expected_export(Target)
         /\ [x \in Prefixes |-> RibEntry(candidates, best[x], x)] = expected_rib(Target)
<1>1. Target = Goal /\ Goal \in State /\ candidates \in State
  BY GoalIsTarget, GoalType DEF AInv, LInv, Types
<1>2. \A x \in Prefixes : ConformsAt(x)
  BY DEF AInv, Conforming
<1>3. /\ \A p \in Peers : inbox[p] = <<>>
      /\ dirty = {} /\ outbox = <<>>
      /\ \A x \in Prefixes : exported[x] = Export(candidates, best[x], x)
  BY DEF Settled, Sessions
<1>4. ASSUME NEW x \in Prefixes
      PROVE  /\ candidates[x] = Goal[x] /\ best[x] = winner(Goal, x)
             /\ exports[x] = Now(Goal, x)
  <2>1. \A p \in Peers : candidates[x][p] = Goal[x][p]
    BY <1>2, <1>3, NothingAbout DEF ConformsAt, LastWord
  <2>2. candidates[x] = Goal[x]
    BY <1>1, <2>1 DEF State
  <2>3. best[x] = winner(candidates, x) /\ exports[x] = exported[x]
    BY <1>2, <1>3, NothingAbout DEF ConformsAt, ChainEnd, LastExport
  <2>4. winner(candidates, x) = winner(Goal, x) /\ Now(candidates, x) = Now(Goal, x)
    BY <1>1, <2>2, SameWinner
  <2> QED
    BY <1>3, <2>2, <2>3, <2>4 DEF Now
<1>5. exports = expected_export(Target)
  BY <1>1, <1>4 DEF expected_export, Now, AInv, MoreTypes
<1>6. \A x \in Prefixes : RibEntry(candidates, best[x], x) = RibEntry(Goal, winner(Goal, x), x)
  BY <1>4 DEF RibEntry
<1> QED
  BY <1>1, <1>5, <1>6 DEF expected_rib

(* An exception means that a session broke, that time was too short, or    *)
(* that the daemon is faulty.                                              *)
LEMMA FailingStep ==
  ASSUME AInv, Failing
  PROVE  Facts'
<1>1. pc' = "done" /\ UNCHANGED <<mode, alive, breaks>>
  BY FailingEnds
<1>2. Undisturbed'
  BY <1>1 DEF AInv, Undisturbed
<1>3. Conforming' /\ Following' /\ Watched'
  BY <1>1 DEF Conforming, Following, Watched, Conforms, Follows, Timely
<1>4. ASSUME PATIENT, FAULTS = {}, breaks = 0
      PROVE  FALSE
  <2>1. alive = Sessions \/ pc \in {"setup", "done"}
    BY <1>4 DEF AInv, Undisturbed
  <2>2. \A p \in Peers : p \in Sessions
    BY DEF Sessions
  <2>3. ~SetupFails
    BY <1>4 DEF SetupFails
  <2>4. ~ResetRaises
    BY <2>1, <2>2 DEF ResetRaises
  <2>5. \A e \in EVENTS : ~SendEventRaises(e)
    BY <2>1, <2>2 DEF SendEventRaises, EVENTS
  <2>6. ~PumpRaises
    BY <2>1 DEF PumpRaises, Converging
  <2>7. ~ConvergeRaises
    <3> SUFFICES ASSUME ConvergeRaises PROVE FALSE
      OBVIOUS
    <3>1. /\ Converging /\ Settled
          /\ \/ exports # expected_export(Target)
             \/ [x \in Prefixes |-> RibEntry(candidates, best[x], x)] # expected_rib(Target)
      BY <1>4 DEF ConvergeRaises
    <3>2. alive = Sessions /\ Conforms
      BY <1>4, <2>1, <3>1 DEF Converging, Conforms
    <3> QED
      BY <3>1, <3>2, SettledIsGoal
  <2> QED
    BY <2>3, <2>4, <2>5, <2>6, <2>7 DEF Failing
<1>5. Unfailing'
  BY <1>1, <1>4, ModeStays DEF Unfailing
<1> QED
  BY <1>2, <1>3, <1>5 DEF Facts

(* What it means that a poll agrees.                                       *)
LEMMA MatchesMeans ==
  ASSUME Converging, Matches, NEW x \in Prefixes
  PROVE  /\ exports[x] = Now(Goal, x)
         /\ ~COVERAGE => rib[x] = RibEntry(Goal, winner(Goal, x), x)
BY GoalIsTarget DEF Matches, expected_export, expected_rib, Now

(* A queue to the observer without a message of any prefix is empty.       *)
LEMMA EmptyOutbox ==
  ASSUME MoreTypes, \A x \in Prefixes : About(outbox, x) = {}
  PROVE  outbox = <<>>
<1> SUFFICES ASSUME outbox # <<>> PROVE FALSE
  OBVIOUS
<1>1. outbox \in Seq(Advert)
  BY DEF MoreTypes
<1>2. 1 \in 1 .. Len(outbox) /\ outbox[1] \in Advert
  BY <1>1
<1> QED
  BY <1>2 DEF About, Advert

(* An entry of the RIB tells the candidates and the best path.             *)
LEMMA RibEntryParts ==
  ASSUME NEW s, NEW t, NEW v, NEW w, NEW x, RibEntry(s, v, x) = RibEntry(t, w, x)
  PROVE  s[x] = t[x] /\ v = w
<1>1. /\ RibEntry(s, v, x).candidates = s[x] /\ RibEntry(s, v, x).best = v
      /\ RibEntry(t, w, x).candidates = t[x] /\ RibEntry(t, w, x).best = w
  BY DEF RibEntry
<1> QED
  BY <1>1

(* The runner goes on: the daemon and the observer have come to the goal,  *)
(* and where time was enough nothing went wrong on the way.                *)
LEMMA ConvergeOkStep ==
  ASSUME AInv, ConvergeOk
  PROVE  Facts'
<1>1. /\ DaemonSame /\ UNCHANGED <<alive, rib, matched, error>> /\ Converging
      /\ Polled /\ matched /\ Matches
      /\ pc' = IF pc = "final" THEN "done" ELSE "event"
      /\ routes' = IF pc = "reset" THEN NoRoutes ELSE routes
  BY DEF ConvergeOk, poll, net, daemon, DaemonSame
<1>2. Undisturbed' /\ Unfailing'
  BY <1>1, ModeStays DEF AInv, Undisturbed, Unfailing, DaemonSame, Converging
<1>3. CASE pc' = "done"
  BY <1>2, <1>3 DEF Facts, Conforming, Following, Watched, Conforms, Follows, Timely
<1>4. CASE pc' # "done"
  <2>1. /\ pc' = "event" /\ Goal' = Goal /\ routes' = Goal /\ AtRest' /\ ~AtRest
        /\ pc # "done"
    BY <1>1, <1>4 DEF Converging, Goal, AtRest
  <2>2. Conforms' => Conforms
    BY <1>1, <2>1, ModeStays DEF Conforms, DaemonSame
  <2>3. Conforming'
    BY <1>1, <2>1, <2>2, ConformingStays DEF AInv
  <2>4. Goal \in State /\ candidates \in State
    BY GoalType DEF AInv, LInv, Types
  <2>5. \A x \in Prefixes : exports[x] = Now(Goal, x)
    BY <1>1, MatchesMeans
  <2>6. ASSUME \A x \in Prefixes :
                 /\ candidates[x] = Goal[x] /\ best[x] = winner(Goal, x)
                 /\ About(outbox, x) = {}
        PROVE  Agreed'
    <3>1. candidates = Goal
      BY <2>4, <2>6 DEF State
    <3>2. outbox = <<>>
      BY <2>6, EmptyOutbox DEF AInv
    <3>3. UNCHANGED <<candidates, outbox, best, exports>>
      BY <1>1 DEF DaemonSame, daemon
    <3>4. /\ candidates' = routes' /\ outbox' = <<>>
          /\ \A x \in Prefixes : best'[x] = winner(routes', x) /\ exports'[x] = Now(routes', x)
      BY <2>1, <2>5, <2>6, <3>1, <3>2, <3>3
    <3> QED
      BY <3>4 DEF Agreed, Now, Export
  <2>7. Following'
    <3> SUFFICES ASSUME Follows'
                 PROVE  (\A x \in Prefixes : FollowsAt(x)') /\ Agreed'
      BY <2>1 DEF Following
    <3>1. Follows /\ ~COVERAGE /\ \A x \in Prefixes : FollowsAt(x)
      BY <1>1, <2>2, ModeStays DEF AInv, Following, Follows, DaemonSame
    <3>2. \A x \in Prefixes : FollowsAt(x)'
      BY <1>1, <2>1, <3>1 DEF FollowsAt, DaemonSame, daemon
    <3>3. \A x \in Prefixes : rib[x] = RibEntry(Goal, winner(Goal, x), x)
      BY <1>1, <3>1, MatchesMeans
    <3>4. \A x \in Prefixes :
             /\ candidates[x] = Goal[x] /\ best[x] = winner(Goal, x)
             /\ About(outbox, x) = {}
      BY <2>5, <3>1, <3>3 DEF FollowsAt, OnlyLast
    <3> QED
      BY <2>6, <3>2, <3>4
  <2>8. Watched'
    <3> SUFFICES ASSUME Timely' PROVE Agreed' /\ Still' /\ ~diverged'
      BY <2>1 DEF Watched
    <3>1. Timely /\ ~COVERAGE /\ Working
      BY <1>1, <2>1, ModeStays DEF AInv, Watched, Timely, DaemonSame
    <3>2. ASSUME NEW x \in Prefixes
          PROVE  /\ Still /\ rib[x] = RibEntry(candidates, best[x], x)
                 /\ rib[x] = RibEntry(Goal, winner(Goal, x), x)
      BY <1>1, <3>1, MatchesMeans DEF Polled, Working, ReadStill
    <3>3. Still
      <4>1. CASE Prefixes = {}
        <5>1. \A p \in Peers : inbox[p] = <<>>
          <6> SUFFICES ASSUME NEW p \in Peers, inbox[p] # <<>> PROVE FALSE
            OBVIOUS
          <6>1. inbox[p] \in Seq(EVENTS)
            BY DEF AInv, LInv, Types
          <6>2. inbox[p][1] \in EVENTS
            BY <6>1
          <6> QED
            BY <4>1, <6>2 DEF EVENTS
        <5>2. dirty = {} /\ outbox = <<>>
          BY <4>1, EmptyOutbox DEF AInv, MoreTypes
        <5> QED
          BY <4>1, <5>1, <5>2 DEF Still
      <4> QED
        BY <3>2, <4>1
    <3>4. \A x \in Prefixes : candidates[x] = Goal[x] /\ best[x] = winner(Goal, x)
      BY <3>2, RibEntryParts
    <3>5. outbox = <<>> /\ \A p \in Peers : inbox[p] = <<>>
      BY <3>3 DEF Still
    <3>6. Agreed'
      BY <2>6, <3>4, <3>5, NothingAbout
    <3>7. ~Spoilt
      <4> SUFFICES ASSUME NEW x \in Prefixes, SpoiltAt(x) PROVE FALSE
        BY DEF Spoilt
      <4>1. ~WrongBest(x) /\ \A p \in Peers : ~KeptCandidate(p, x)
        BY <3>4 DEF WrongBest, KeptCandidate
      <4>2. KeptExport(x)
        BY <4>1 DEF SpoiltAt
      <4>3. exports[x] # NoExport
        BY <3>5, <4>2, NothingAbout DEF KeptExport, LastExport
      <4>4. winner(Goal, x) = NoPeer
        BY <3>4, <4>2 DEF KeptExport
      <4> QED
        BY <2>5, <4>3, <4>4 DEF Now, Export
    <3> QED
      BY <1>1, <3>1, <3>3, <3>6, <3>7, SpoiltStays, <2>1 DEF Working, DaemonSame, daemon
  <2> QED
    BY <1>2, <2>3, <2>7, <2>8 DEF Facts
<1> QED
  BY <1>3, <1>4

(* The observer receives an export.                                        *)
LEMMA PumpStep ==
  ASSUME AInv, Pump
  PROVE  Facts'
<1>1. /\ UNCHANGED <<mode, breaks, inbox, daemon, routes, pc, alive, rib, matched, error>>
      /\ Converging /\ PollStart /\ outbox # <<>>
      /\ exports' = [exports EXCEPT ![Head(outbox).prefix] = Head(outbox).export]
      /\ outbox' = Tail(outbox)
  BY DEF Pump, runner, poll
<1>2. Goal' = Goal /\ AtRest' = AtRest /\ ~AtRest
  BY <1>1 DEF Goal, AtRest, Converging
<1>3. Undisturbed' /\ Unfailing' /\ Conforms' = Conforms
  BY <1>1, ModeStays DEF AInv, Undisturbed, Unfailing, Conforms
<1>4. outbox \in Seq(Advert) /\ exports \in [Prefixes -> Exports]
  BY DEF AInv, MoreTypes
<1>5. Head(outbox) = outbox[1] /\ outbox[1] \in Advert
  BY <1>1, <1>4
<1>6. \A y \in Prefixes :
         exports'[y] = IF outbox[1].prefix = y THEN outbox[1].export ELSE exports[y]
  BY <1>1, <1>4, <1>5 DEF Advert
<1>7. \A y \in Prefixes : \A z :
         /\ LastExport(outbox, y, exports[y], z) => LastExport(outbox', y, exports'[y], z)
         /\ OnlyLast(outbox, y, exports[y], z) => OnlyLast(outbox', y, exports'[y], z)
  BY <1>1, <1>4, <1>6, TailExport
<1>8. \A y \in Prefixes : ChainEnd(y) => ChainEnd(y)'
  BY <1>1, <1>7 DEF ChainEnd, daemon
<1>9. Conforming'
  <2> SUFFICES ASSUME Conforms', NEW y \in Prefixes PROVE ConformsAt(y)'
    BY DEF Conforming
  <2>1. ConformsAt(y)
    BY <1>3 DEF AInv, Conforming
  <2> QED
    BY <1>1, <1>2, <1>8, <2>1 DEF ConformsAt, daemon
<1>10. Following'
  <2> SUFFICES ASSUME Follows', NEW y \in Prefixes
               PROVE  FollowsAt(y)' /\ (pc' = "sent" => OneDiffers(y)')
    BY <1>2 DEF Following
  <2>1. FollowsAt(y) /\ (pc = "sent" => OneDiffers(y))
    BY <1>1, <1>3, ModeStays DEF AInv, Following, Follows
  <2>2. pc' = "sent" => OneDiffers(y)'
    BY <1>1, <1>2, <2>1 DEF OneDiffers, daemon
  <2>3. Now(Goal, y)' = Now(Goal, y) /\ Now(candidates, y)' = Now(candidates, y)
    BY <1>1, <1>2 DEF daemon
  <2>4. FollowsAt(y)'
    BY <1>1, <1>2, <1>7, <2>1, <2>3 DEF FollowsAt, daemon
  <2> QED
    BY <2>2, <2>4
<1>11. Watched'
  <2> SUFFICES ASSUME Timely' PROVE Working'
    BY <1>2 DEF Watched
  <2>1. Timely /\ Working
    BY <1>1, <1>2, ModeStays DEF AInv, Watched, Timely
  <2>2. \A y \in Prefixes : SpoiltAt(y) => SpoiltAt(y)'
    <3> SUFFICES ASSUME NEW y \in Prefixes, SpoiltAt(y) PROVE SpoiltAt(y)'
      OBVIOUS
    <3>1. \A p \in Peers : KeptCandidate(p, y) => KeptCandidate(p, y)'
      BY <1>1, <1>2 DEF KeptCandidate, daemon
    <3>2. (WrongBest(y) => WrongBest(y)') /\ (Chosen(y) => Chosen(y)')
      BY <1>1, <1>2 DEF WrongBest, Chosen, daemon
    <3>3. KeptExport(y) => KeptExport(y)'
      BY <1>1, <1>7, <3>2 DEF KeptExport, daemon
    <3> QED
      BY <3>1, <3>2, <3>3 DEF SpoiltAt
  <2>3. Spoilt => Spoilt'
    BY <2>2 DEF Spoilt
  <2>4. \A y \in Prefixes : WorksAt(y)'
    <3> SUFFICES ASSUME NEW y \in Prefixes PROVE WorksAt(y)'
      OBVIOUS
    <3>1. WorksAt(y) /\ Unanswered(y)' = Unanswered(y)
      BY <1>1, <2>1 DEF Working, Unanswered
    <3> QED
      BY <1>1, <1>8, <2>3, <3>1 DEF WorksAt, daemon
  <2>5. ReadStill'
    BY <1>1 DEF ReadStill, PollStart, NothingRead
  <2>6. (pc' = "sent" => OneInAll') /\ \A p \in Peers : OneEach(p)'
    BY <1>1, <1>2, <2>1 DEF Working, OneInAll, OneEach
  <2>7. diverged' => Spoilt'
    BY <1>1, <2>1, <2>3 DEF Working, daemon
  <2> QED
    BY <2>4, <2>5, <2>6, <2>7 DEF Working
<1> QED
  BY <1>3, <1>9, <1>10, <1>11 DEF Facts

(* reset, behind all that was sent.                                        *)
LEMMA ResetAgrees ==
  ASSUME AInv, Reset
  PROVE  Facts'
<1>1. /\ UNCHANGED <<mode, breaks, outbox, exports, candidates, dirty, best, exported,
                     routes, alive, error>>
      /\ pc = "next" /\ pc' \in {"reset", "final"}
      /\ Deliver(Peers, Withdrawals)
      /\ rib' = NothingRead /\ matched' = FALSE
      /\ diverged' = FALSE \/ diverged' = diverged
  BY DEF Reset, StartPoll
<1>2. Goal' = NoRoutes /\ Goal = routes /\ ~AtRest' /\ AtRest
  BY <1>1 DEF Goal, AtRest, NoRoutes
<1>3. Undisturbed' /\ Unfailing' /\ Conforms' = Conforms
  BY <1>1, ModeStays DEF AInv, Undisturbed, Unfailing, Conforms
<1>4. /\ candidates \in State /\ routes \in State /\ inbox \in [Peers -> Seq(EVENTS)]
      /\ exported \in [Prefixes -> Exports]
  BY DEF AInv, LInv, Types, MoreTypes
<1>5. ASSUME breaks = 0, NEW p \in Peers
      PROVE  inbox'[p] = inbox[p] \o Withdrawals[p]
  <2>1. p \in alive
    BY <1>1, <1>5 DEF AInv, Undisturbed, Sessions
  <2> QED
    BY <1>1, <2>1 DEF Deliver
<1>6. \A x \in Prefixes, p \in Peers : NoRoutes[x][p] = NoRoute
  BY DEF NoRoutes
<1>7. Conforming'
  <2> SUFFICES ASSUME Conforms', NEW x \in Prefixes PROVE ConformsAt(x)'
    BY DEF Conforming
  <2>1. ConformsAt(x) /\ breaks = 0
    BY <1>3 DEF AInv, Conforming, Conforms
  <2>2. \A p \in Peers : LastWord(inbox'[p], x, candidates[x][p], NoRoute)
    BY <1>4, <1>5, <2>1, WithdrawalsLast
  <2> QED
    BY <1>1, <1>2, <1>6, <2>1, <2>2 DEF ConformsAt, ChainEnd
<1>8. Following'
  <2> SUFFICES ASSUME Follows', NEW x \in Prefixes PROVE FollowsAt(x)'
    BY <1>1, <1>2 DEF Following
  <2>1. Follows /\ breaks = 0 /\ FollowsAt(x) /\ Agreed /\ Conforms
    BY <1>1, <1>2, <1>3, ModeStays DEF AInv, Following, Follows, Conforms
  <2>2. candidates = routes /\ outbox = <<>>
    BY <2>1 DEF Agreed
  <2>3. \A p \in Peers : Rising(inbox'[p], x, candidates[x][p], NoRoute)
    BY <1>2, <1>4, <1>5, <2>1, <2>2, WithdrawalsLast DEF FollowsAt
  <2>4. exported[x] = exports[x]
    BY <2>1, <2>2, NothingAbout DEF AInv, Conforming, ConformsAt, ChainEnd, LastExport
  <2>5. exported[x] = Now(candidates, x)
    BY <2>1, <2>2, <2>4 DEF Agreed
  <2>6. OnlyLast(outbox, x, exports[x], Now(NoRoutes, x))
    BY <2>2, NothingAbout DEF OnlyLast
  <2>7. rib'[x] # RibEntry(NoRoutes, winner(NoRoutes, x), x)
    <3>1. NoRoutes \in State
      BY DEF NoRoutes, State
    <3> QED
      BY <1>1, <3>1, UnreadIsNoEntry DEF NothingRead
  <2> QED
    BY <1>1, <1>2, <1>6, <2>3, <2>5, <2>6, <2>7 DEF FollowsAt, Now, Export
<1>9. Watched'
  <2> SUFFICES ASSUME Timely' PROVE Working'
    BY <1>2 DEF Watched
  <2>1. Agreed /\ Still /\ ~diverged /\ breaks = 0
    BY <1>1, <1>2, ModeStays DEF AInv, Watched, Timely
  <2>2. \A p \in Peers : inbox'[p] = Withdrawals[p]
    <3> SUFFICES ASSUME NEW p \in Peers PROVE inbox'[p] = Withdrawals[p]
      OBVIOUS
    <3>1. inbox[p] = <<>> /\ Withdrawals[p] \in Seq(EventsOf(p))
      BY <2>1, WithdrawalsOfPeer DEF Still
    <3>2. <<>> \o Withdrawals[p] = Withdrawals[p]
      BY <3>1, ConcatEmptySeq
    <3> QED
      BY <1>5, <2>1, <3>1, <3>2
  <2>3. \A p \in Peers : OneEach(p)'
    <3> SUFFICES ASSUME NEW p \in Peers PROVE OneEach(p)'
      OBVIOUS
    <3>1. \A i \in 1 .. Len(Withdrawals[p]) :
             /\ Effect(Withdrawals[p][i]) = NoRoute
             /\ Withdrawals[p][i].prefix \in Prefixes
      <4>1. \A e \in EventsOf(p) : e.prefix \in Prefixes
        BY DEF EventsOf, EVENTS
      <4> QED
        BY <4>1, WithdrawalsOfPeer DEF Effect
    <3> QED
      BY <1>2, <1>6, <2>2, <3>1, WithdrawalsOfPeer DEF OneEach
  <2>4. ASSUME NEW x \in Prefixes PROVE WorksAt(x)'
    <3>1. best[x] = NoPeer => \A p \in Peers : candidates[x][p] = NoRoute
      BY <1>4, <2>1, WinnerOf DEF Agreed
    <3>2. ChainEnd(x)
      <4>1. exported[x] = Now(candidates, x)
        BY <2>1 DEF Still, Agreed, Now
      <4> QED
        BY <2>1, <4>1, NothingAbout DEF Still, Agreed, ChainEnd, LastExport
    <3> QED
      BY <1>1, <2>1, <3>1, <3>2 DEF WorksAt, Still, ChainEnd
  <2>5. ReadStill' /\ ~diverged'
    BY <1>1, <2>1 DEF ReadStill
  <2> QED
    BY <1>1, <2>3, <2>4, <2>5 DEF Working
<1> QED
  BY <1>3, <1>7, <1>8, <1>9 DEF Facts

(* What an event does to a candidate state, candidate by candidate.        *)
LEMMA EffectOf ==
  ASSUME NEW s \in State, NEW e \in EVENTS, NEW x \in Prefixes, NEW p \in Peers
  PROVE  step(s, e)[x][p] = IF x = e.prefix /\ p = e.peer THEN Effect(e) ELSE s[x][p]
BY StepAt DEF Effect

(* An event is sent: one message, of the prefix it is about, from its      *)
(* peer.                                                                   *)
LEMMA SendAgrees ==
  ASSUME AInv, NEW e \in EVENTS, SendEvent(e)
  PROVE  Facts'
<1>1. /\ UNCHANGED <<mode, breaks, outbox, exports, daemon, alive, error>>
      /\ pc = "event" /\ pc' = "sent" /\ routes' = step(routes, e)
      /\ Deliver({e.peer}, [p \in Peers |-> <<e>>])
      /\ rib' = NothingRead /\ matched' = FALSE
  BY DEF SendEvent, StartPoll
<1>2. Goal' = step(routes, e) /\ Goal = routes /\ ~AtRest' /\ AtRest
  BY <1>1 DEF Goal, AtRest
<1>3. Undisturbed' /\ Unfailing' /\ Conforms' = Conforms
  BY <1>1, ModeStays DEF AInv, Undisturbed, Unfailing, Conforms
<1>4. /\ candidates \in State /\ routes \in State /\ inbox \in [Peers -> Seq(EVENTS)]
      /\ exported \in [Prefixes -> Exports] /\ e.peer \in Peers /\ e.prefix \in Prefixes
      /\ step(routes, e) \in State
  BY StepTypes DEF AInv, LInv, Types, MoreTypes, EVENTS
<1>5. ASSUME breaks = 0, NEW p \in Peers
      PROVE  inbox'[p] = IF p = e.peer THEN inbox[p] \o <<e>> ELSE inbox[p]
  <2>1. p \in alive
    BY <1>1, <1>5 DEF AInv, Undisturbed, Sessions
  <2> QED
    BY <1>1, <2>1 DEF Deliver
<1>6. \A x \in Prefixes, p \in Peers :
         Goal'[x][p] = IF x = e.prefix /\ p = e.peer THEN Effect(e) ELSE routes[x][p]
  BY <1>2, <1>4, EffectOf
<1>7. Conforming'
  <2> SUFFICES ASSUME Conforms', NEW x \in Prefixes PROVE ConformsAt(x)'
    BY DEF Conforming
  <2>1. ConformsAt(x) /\ breaks = 0
    BY <1>3 DEF AInv, Conforming, Conforms
  <2>2. ASSUME NEW p \in Peers
        PROVE  LastWord(inbox'[p], x, candidates[x][p], Goal'[x][p])
    <3>1. LastWord(inbox[p], x, candidates[x][p], routes[x][p])
      BY <1>2, <2>1 DEF ConformsAt
    <3>2. CASE p = e.peer
      <4>1. LastWord(inbox[p] \o <<e>>, x, candidates[x][p],
                     IF e.prefix = x THEN Effect(e) ELSE routes[x][p])
        BY <1>4, <3>1, EventLast
      <4> QED
        BY <1>5, <1>6, <2>1, <3>2, <4>1
    <3>3. CASE p # e.peer
      BY <1>5, <1>6, <2>1, <3>1, <3>3
    <3> QED
      BY <3>2, <3>3
  <2> QED
    BY <1>1, <2>1, <2>2 DEF ConformsAt, ChainEnd, daemon
<1>8. Following'
  <2> SUFFICES ASSUME Follows', NEW x \in Prefixes PROVE FollowsAt(x)' /\ OneDiffers(x)'
    BY <1>2 DEF Following
  <2>1. Follows /\ breaks = 0 /\ FollowsAt(x) /\ Agreed /\ Conforms
    BY <1>1, <1>2, <1>3, ModeStays DEF AInv, Following, Follows, Conforms
  <2>2. candidates = routes /\ outbox = <<>>
    BY <2>1 DEF Agreed
  <2>3. ASSUME NEW p \in Peers
        PROVE  Rising(inbox'[p], x, candidates[x][p], Goal'[x][p])
    <3>1. Rising(inbox[p], x, candidates[x][p], candidates[x][p])
      BY <1>2, <2>1, <2>2 DEF FollowsAt
    <3>2. CASE p = e.peer
      <4>1. Rising(inbox[p] \o <<e>>, x, candidates[x][p],
                   IF e.prefix = x THEN Effect(e) ELSE candidates[x][p])
        BY <1>4, <3>1, EventRising
      <4> QED
        BY <1>5, <1>6, <2>1, <2>2, <3>2, <4>1
    <3>3. CASE p # e.peer
      BY <1>5, <1>6, <2>1, <2>2, <3>1, <3>3
    <3> QED
      BY <3>2, <3>3
  <2>4. exported[x] = exports[x]
    BY <2>1, <2>2, NothingAbout DEF AInv, Conforming, ConformsAt, ChainEnd, LastExport
  <2>5. exported[x] = Now(candidates, x)
    BY <2>1, <2>2, <2>4 DEF Agreed
  <2>6. OnlyLast(outbox, x, exports[x], Now(Goal', x))
    BY <2>2, NothingAbout DEF OnlyLast
  <2>7. rib'[x] # RibEntry(Goal', winner(Goal', x), x)
    BY <1>1, <1>2, <1>4, UnreadIsNoEntry DEF NothingRead
  <2>8. UNCHANGED <<candidates, outbox, exports, exported>>
    BY <1>1 DEF daemon
  <2>9. FollowsAt(x)'
    BY <2>3, <2>5, <2>6, <2>7, <2>8 DEF FollowsAt, Now, Export
  <2>10. OneDiffers(x)'
    BY <1>6, <2>2, <2>8 DEF OneDiffers
  <2> QED
    BY <2>9, <2>10
<1>9. Watched'
  <2> SUFFICES ASSUME Timely' PROVE Working'
    BY <1>2 DEF Watched
  <2>1. Agreed /\ Still /\ ~diverged /\ breaks = 0
    BY <1>1, <1>2, ModeStays DEF AInv, Watched, Timely
  <2>2. \A p \in Peers : inbox'[p] = IF p = e.peer THEN <<e>> ELSE <<>>
    <3> SUFFICES ASSUME NEW p \in Peers
                 PROVE  inbox'[p] = IF p = e.peer THEN <<e>> ELSE <<>>
      OBVIOUS
    <3>1. inbox[p] = <<>>
      BY <2>1 DEF Still
    <3>2. <<>> \o <<e>> = <<e>>
      <4>1. <<e>> \in Seq(EVENTS)
        OBVIOUS
      <4> QED
        BY <4>1, ConcatEmptySeq
    <3> QED
      BY <1>5, <2>1, <3>1, <3>2
  <2>3. \A p \in Peers : OneEach(p)'
    <3>1. \A i \in 1 .. Len(<<e>>) : i = 1 /\ <<e>>[i] = e
      OBVIOUS
    <3>2. \A i \in 1 .. Len(<<>>) : FALSE
      OBVIOUS
    <3>3. Goal'[e.prefix][e.peer] = Effect(e)
      BY <1>4, <1>6
    <3>4. ASSUME NEW p \in Peers PROVE OneEach(p)'
      <4>1. CASE p = e.peer
        BY <2>2, <3>1, <3>3, <4>1 DEF OneEach
      <4>2. CASE p # e.peer
        BY <2>2, <3>2, <4>2 DEF OneEach
      <4> QED
        BY <4>1, <4>2
    <3> QED
      BY <3>4
  <2>4. ASSUME NEW x \in Prefixes PROVE WorksAt(x)'
    <3>1. best[x] = NoPeer => \A p \in Peers : candidates[x][p] = NoRoute
      BY <1>4, <2>1, WinnerOf DEF Agreed
    <3>2. ChainEnd(x)
      <4>1. exported[x] = Now(candidates, x)
        BY <2>1 DEF Still, Agreed, Now
      <4> QED
        BY <2>1, <4>1, NothingAbout DEF Still, Agreed, ChainEnd, LastExport
    <3> QED
      BY <1>1, <2>1, <3>1, <3>2 DEF WorksAt, Still, ChainEnd, daemon
  <2>5. ReadStill' /\ ~diverged'
    BY <1>1, <2>1 DEF ReadStill, daemon
  <2>6. OneInAll'
    BY <2>2 DEF OneInAll
  <2> QED
    BY <2>3, <2>4, <2>5, <2>6 DEF Working
<1> QED
  BY <1>3, <1>7, <1>8, <1>9 DEF Facts

(* A session breaks: nothing more is claimed, but of a session that ends.  *)
LEMMA BreakAgrees ==
  ASSUME AInv, NEW p \in Sessions, Break(p)
  PROVE  Facts'
<1>1. breaks' = breaks + 1 /\ breaks \in Nat
  BY DEF Break, AInv, MoreTypes
<1>2. breaks' # 0
  BY <1>1
<1> QED
  BY <1>2 DEF Facts, Undisturbed, Conforming, Following, Watched, Unfailing, Conforms, Follows,
              Timely

(***************************************************************************)
(* The steps of the daemon                                                 *)
(***************************************************************************)

(* Waiting, the goal is what an event made or nothing at all.              *)
LEMMA WaitingFor ==
  ASSUME ~AtRest, pc # "done", pc # "sent", NEW x \in Prefixes, NEW p \in Peers,
         pc \in {"setup", "next", "reset", "event", "sent", "final", "done"}
  PROVE  Goal[x][p] = NoRoute
BY DEF AtRest, Goal, NoRoutes

(* A message is handled.                                                   *)
LEMMA HandleFacts ==
  ASSUME AInv, NEW p \in Peers, Handle(p)
  PROVE  \E e \in EVENTS :
    /\ UNCHANGED <<runner, poll, exports, outbox, alive, breaks, best, exported>>
    /\ inbox[p] # <<>> /\ e = inbox[p][1] /\ e.peer = p
    /\ \A q \in Peers : inbox'[q] = IF q = p THEN Tail(inbox[p]) ELSE inbox[q]
    /\ candidates \in State /\ candidates' \in State
    /\ \A x \in Prefixes, q \in Peers :
         candidates'[x][q] # candidates[x][q] =>
           x = e.prefix /\ q = p /\ candidates'[x][q] = Effect(e)
    /\ \/ candidates'[e.prefix][p] = Effect(e) /\ diverged' = diverged
       \/ /\ FAULTS # {} /\ candidates' = candidates
          /\ Effect(e) = NoRoute /\ candidates[e.prefix][p] # NoRoute
    /\ \A x \in Prefixes : candidates'[x] # candidates[x] => x = e.prefix
    /\ (dirty' = dirty /\ candidates' = candidates) \/ dirty' = dirty \cup {e.prefix}
    /\ candidates'[e.prefix][p] = candidates[e.prefix][p] => dirty' = dirty
<1> DEFINE e == inbox[p][1]
<1>1. /\ inbox[p] # <<>>
      /\ inbox' = [inbox EXCEPT ![p] = Tail(inbox[p])]
      /\ Head(inbox[p]) = e
      /\ e \in EVENTS /\ e.peer = p
  BY Handled DEF AInv, LInv
<1>2. UNCHANGED <<runner, poll, exports, outbox, alive, breaks, best, exported>>
  BY DEF Handle
<1>3. \/ candidates' = step(candidates, e) /\ diverged' = diverged
      \/ /\ FAULTS # {} /\ e.kind \in {"bad_origin", "bad_aspath"}
         /\ candidates[e.prefix][p] # NoRoute
         /\ candidates' = candidates
  BY <1>1 DEF Handle
<1>4. dirty' = IF candidates' = candidates THEN dirty ELSE dirty \cup {e.prefix}
  BY <1>1 DEF Handle
<1>5. candidates \in State /\ inbox \in [Peers -> Seq(EVENTS)]
  BY DEF AInv, LInv, Types
<1> HIDE DEF e
<1>6. candidates' \in State
  BY <1>1, <1>3, <1>5, StepTypes
<1>7. \A x \in Prefixes, q \in Peers :
         candidates'[x][q] # candidates[x][q] =>
           x = e.prefix /\ q = p /\ candidates'[x][q] = Effect(e)
  BY <1>1, <1>3, <1>5, EffectOf
<1>8. e.prefix \in Prefixes /\ e.peer \in Peers
  BY <1>1 DEF EVENTS
<1>9. \A x \in Prefixes : candidates'[x] # candidates[x] => x = e.prefix
  BY <1>5, <1>6, <1>7 DEF State
<1>10. \/ candidates'[e.prefix][p] = Effect(e) /\ diverged' = diverged
       \/ /\ FAULTS # {} /\ candidates' = candidates
          /\ Effect(e) = NoRoute /\ candidates[e.prefix][p] # NoRoute
  <2>1. e.kind \in {"bad_origin", "bad_aspath"} => Effect(e) = NoRoute
    BY DEF Effect
  <2> QED
    BY <1>1, <1>3, <1>5, <1>8, <2>1, EffectOf
<1>11. candidates'[e.prefix][p] = candidates[e.prefix][p] => candidates' = candidates
  <2> SUFFICES ASSUME candidates'[e.prefix][p] = candidates[e.prefix][p]
               PROVE  candidates' = candidates
    OBVIOUS
  <2>1. \A x \in Prefixes, q \in Peers : candidates'[x][q] = candidates[x][q]
    BY <1>7
  <2>2. \A x \in Prefixes : candidates'[x] = candidates[x]
    BY <1>5, <1>6, <2>1 DEF State
  <2> QED
    BY <1>5, <1>6, <2>2 DEF State
<1> QED
  <2>1. \A q \in Peers : inbox'[q] = IF q = p THEN Tail(inbox[p]) ELSE inbox[q]
    BY <1>1, <1>5
  <2> e \in EVENTS
    BY <1>1
  <2> WITNESS e \in EVENTS
  <2> QED
    BY <1>1, <1>2, <1>4, <1>5, <1>6, <1>7, <1>9, <1>10, <1>11, <2>1 DEF e

(* Waiting, a daemon that is in time.                                      *)
LEMMA HandleWorks ==
  ASSUME AInv, NEW p \in Peers, Handle(p)
  PROVE  Watched'
<1>1. PICK e \in EVENTS :
    /\ UNCHANGED <<runner, poll, exports, outbox, alive, breaks, best, exported>>
    /\ inbox[p] # <<>> /\ e = inbox[p][1] /\ e.peer = p
    /\ \A q \in Peers : inbox'[q] = IF q = p THEN Tail(inbox[p]) ELSE inbox[q]
    /\ candidates \in State /\ candidates' \in State
    /\ \A x \in Prefixes, q \in Peers :
         candidates'[x][q] # candidates[x][q] =>
           x = e.prefix /\ q = p /\ candidates'[x][q] = Effect(e)
    /\ \/ candidates'[e.prefix][p] = Effect(e) /\ diverged' = diverged
       \/ /\ FAULTS # {} /\ candidates' = candidates
          /\ Effect(e) = NoRoute /\ candidates[e.prefix][p] # NoRoute
    /\ \A x \in Prefixes : candidates'[x] # candidates[x] => x = e.prefix
    /\ (dirty' = dirty /\ candidates' = candidates) \/ dirty' = dirty \cup {e.prefix}
    /\ candidates'[e.prefix][p] = candidates[e.prefix][p] => dirty' = dirty
  BY HandleFacts
<1>2. UNCHANGED <<mode, routes, pc, error, rib, matched>>
  BY <1>1 DEF runner, poll
<1>3. Goal' = Goal /\ AtRest' = AtRest
  BY <1>2 DEF Goal, AtRest
<1>4. Undisturbed' /\ Unfailing' /\ Conforms' = Conforms
  BY <1>1, <1>2, ModeStays DEF AInv, Undisturbed, Unfailing, Conforms
<1>5. /\ Goal \in State /\ e.prefix \in Prefixes /\ inbox[p] \in Seq(EVENTS)
      /\ 1 \in 1 .. Len(inbox[p])
  <2>1. Goal \in State /\ e.prefix \in Prefixes /\ inbox[p] \in Seq(EVENTS)
    BY GoalType DEF AInv, LInv, Types, EVENTS
  <2> QED
    BY <1>1, <2>1
<1>6. \A x \in Prefixes : x \notin dirty' => x \notin dirty /\ candidates'[x] = candidates[x]
  BY <1>1
<1> SUFFICES ASSUME Timely' PROVE IF AtRest' THEN Agreed' /\ Still' /\ ~diverged' ELSE Working'
  BY DEF Watched
<1>7. Timely /\ pc # "done"
  BY <1>1, <1>2, ModeStays DEF Timely
<1>8. ~AtRest /\ Working
  BY <1>1, <1>7 DEF AInv, Watched, Still
<1>9. Effect(e) = Goal[e.prefix][p] /\ OneEach(p)
  BY <1>1, <1>5, <1>8 DEF Working, OneEach
<1>10. /\ \A x : About(inbox'[p], x) # {} => About(inbox[p], x) # {}
       /\ About(inbox'[p], e.prefix) = {}
       /\ OneEach(p)'
  <2> DEFINE q == inbox[p]
  <2>0. \A x : TailOf(q, x)
    BY <1>1, <1>5, AboutTail
  <2>1. \A x : About(Tail(q), x) # {} => About(q, x) # {}
    BY <2>0 DEF TailOf
  <2>2. \A i \in 1 .. Len(Tail(q)) : i + 1 \in 1 .. Len(q) /\ Tail(q)[i] = q[i + 1] /\ i \in Nat
    BY <1>1, <1>5
  <2>3. \A i \in 1 .. Len(q) : q[i].prefix = e.prefix => i = 1
    BY <1>1, <1>5, <1>9 DEF OneEach
  <2>4. About(Tail(q), e.prefix) = {}
    <3> SUFFICES ASSUME NEW i \in 1 .. Len(Tail(q)), Tail(q)[i].prefix = e.prefix PROVE FALSE
      BY DEF About
    <3>1. i + 1 = 1
      BY <2>2, <2>3
    <3>2. i \in Nat \ {0}
      BY <2>2
    <3> QED
      BY <3>1, <3>2
  <2>5. \A i, j \in 1 .. Len(Tail(q)) : Tail(q)[i].prefix = Tail(q)[j].prefix => i = j
    <3> SUFFICES ASSUME NEW i \in 1 .. Len(Tail(q)), NEW j \in 1 .. Len(Tail(q)),
                        Tail(q)[i].prefix = Tail(q)[j].prefix
                 PROVE  i = j
      OBVIOUS
    <3>1. i + 1 = j + 1
      BY <1>9, <2>2 DEF OneEach
    <3> QED
      BY <2>2, <3>1
  <2>6. \A i \in 1 .. Len(Tail(q)) : Effect(Tail(q)[i]) = Goal[Tail(q)[i].prefix][p]
    BY <1>9, <2>2 DEF OneEach
  <2>7. inbox'[p] = Tail(q)
    BY <1>1
  <2> QED
    BY <1>3, <2>1, <2>4, <2>5, <2>6, <2>7 DEF OneEach
<1>11. \A x \in Prefixes : Unanswered(x)' => Unanswered(x)
  BY <1>1, <1>10 DEF Unanswered
<1>12. \A x \in Prefixes : candidates[x] = Goal[x] /\ x \notin dirty =>
          candidates'[x] = Goal[x] /\ x \notin dirty'
  BY <1>1, <1>9
<1>13. UNCHANGED <<outbox, exports, exported, best>>
  BY <1>1
<1>14. ASSUME NEW x \in Prefixes, SpoiltAt(x) PROVE SpoiltAt(x)'
  <2>1. ASSUME NEW q \in Peers, KeptCandidate(q, x) PROVE KeptCandidate(q, x)'
    <3>1. ~(q = p /\ x = e.prefix)
      BY <1>1, <1>5, <2>1 DEF KeptCandidate, About
    <3>2. candidates'[x][q] = candidates[x][q]
      BY <1>1, <3>1
    <3>3. About(inbox'[q], x) = {}
      BY <1>1, <1>10, <2>1 DEF KeptCandidate
    <3> QED
      BY <1>3, <2>1, <3>2, <3>3 DEF KeptCandidate
  <2>2. Chosen(x) => Chosen(x)'
    BY <1>3, <1>12 DEF Chosen
  <2>3. WrongBest(x) => WrongBest(x)'
    BY <1>3, <1>13, <2>2 DEF WrongBest
  <2>4. KeptExport(x) => KeptExport(x)'
    BY <1>13, <2>2 DEF KeptExport
  <2> QED
    BY <1>14, <2>1, <2>3, <2>4 DEF SpoiltAt
<1>15. Spoilt => Spoilt'
  BY <1>14 DEF Spoilt
<1>16. ASSUME NEW x \in Prefixes PROVE WorksAt(x)'
  <2>1. WorksAt(x)
    BY <1>8 DEF Working
  <2>2. x \in dirty' => \/ ~Unanswered(x)'
                        \/ pc # "sent" /\ \E q \in Peers : candidates'[x][q] = NoRoute
    <3> SUFFICES ASSUME x \in dirty', Unanswered(x)'
                 PROVE  pc # "sent" /\ \E q \in Peers : candidates'[x][q] = NoRoute
      OBVIOUS
    <3>1. Unanswered(x)
      BY <1>11
    <3>2. CASE x # e.prefix
      <4>1. x \in dirty /\ \A q \in Peers : candidates'[x][q] = candidates[x][q]
        BY <1>1, <3>2
      <4> QED
        BY <2>1, <3>1, <4>1 DEF WorksAt
    <3>3. CASE x = e.prefix
      <4>1. pc # "sent"
        <5> SUFFICES ASSUME pc = "sent" PROVE FALSE
          OBVIOUS
        <5>1. \A q \in Peers \ {p} : inbox'[q] = <<>>
          BY <1>1, <1>8 DEF Working, OneInAll
        <5>2. \A q \in Peers : About(inbox'[q], x) = {}
          BY <1>10, <3>3, <5>1, NothingAbout
        <5> QED
          BY <5>2 DEF Unanswered
      <4>2. Goal[x][p] = NoRoute
        BY <1>7, <1>8, <4>1, WaitingFor DEF AInv, MoreTypes
      <4>3. CASE candidates'[x][p] = Effect(e)
        BY <1>9, <3>3, <4>1, <4>2, <4>3
      <4>4. CASE candidates' = candidates
        <5>1. x \in dirty
          BY <1>1, <3>3, <4>4
        <5> QED
          BY <2>1, <3>1, <4>1, <4>4, <5>1 DEF WorksAt
      <4> QED
        BY <1>1, <3>3, <4>3, <4>4
    <3> QED
      BY <3>2, <3>3
  <2>3. x \notin dirty' /\ best[x] = NoPeer => \A q \in Peers : candidates'[x][q] = NoRoute
    BY <1>6, <2>1 DEF WorksAt
  <2>4. pc = "sent" /\ x \notin dirty' /\ Unanswered(x)' =>
          exported[x] = Export(candidates', best[x], x)
    BY <1>6, <1>11, <2>1 DEF WorksAt, Export
  <2>5. ChainEnd(x)' \/ Spoilt'
    BY <1>13, <1>15, <2>1 DEF WorksAt, ChainEnd
  <2>6. Export(candidates, best[x], x)' = Export(candidates', best[x], x)
    BY <1>13 DEF Export
  <2> QED
    BY <1>2, <1>13, <2>2, <2>3, <2>4, <2>5, <2>6 DEF WorksAt
<1>17. diverged' => Spoilt'
  <2>1. CASE diverged' = diverged
    BY <1>8, <1>15, <2>1 DEF Working
  <2>2. CASE candidates' = candidates /\ Effect(e) = NoRoute /\ candidates[e.prefix][p] # NoRoute
    <3>1. KeptCandidate(p, e.prefix)'
      BY <1>3, <1>9, <1>10, <2>2 DEF KeptCandidate
    <3> QED
      BY <1>5, <3>1 DEF Spoilt, SpoiltAt
  <2> QED
    BY <1>1, <2>1, <2>2
<1>18. (pc' = "sent" => OneInAll') /\ \A q \in Peers : OneEach(q)'
  <2>1. \A q \in Peers : inbox'[q] # <<>> => inbox[q] # <<>>
    BY <1>1
  <2>2. pc' = "sent" => OneInAll'
    BY <1>2, <1>8, <2>1 DEF Working, OneInAll
  <2>3. \A q \in Peers \ {p} : OneEach(q)'
    BY <1>1, <1>3, <1>8 DEF Working, OneEach
  <2> QED
    BY <1>10, <2>2, <2>3
<1>19. ReadStill'
  BY <1>1, <1>2, <1>8 DEF Working, ReadStill, Still
<1> QED
  BY <1>3, <1>8, <1>16, <1>17, <1>18, <1>19 DEF Working

(* All of it.                                                              *)
LEMMA HandleAgrees ==
  ASSUME AInv, NEW p \in Peers, Handle(p)
  PROVE  Facts'
<1>1. PICK e \in EVENTS :
    /\ UNCHANGED <<runner, poll, exports, outbox, alive, breaks, best, exported>>
    /\ inbox[p] # <<>> /\ e = inbox[p][1] /\ e.peer = p
    /\ \A q \in Peers : inbox'[q] = IF q = p THEN Tail(inbox[p]) ELSE inbox[q]
    /\ candidates \in State /\ candidates' \in State
    /\ \A x \in Prefixes, q \in Peers :
         candidates'[x][q] # candidates[x][q] =>
           x = e.prefix /\ q = p /\ candidates'[x][q] = Effect(e)
    /\ \/ candidates'[e.prefix][p] = Effect(e) /\ diverged' = diverged
       \/ /\ FAULTS # {} /\ candidates' = candidates
          /\ Effect(e) = NoRoute /\ candidates[e.prefix][p] # NoRoute
    /\ \A x \in Prefixes : candidates'[x] # candidates[x] => x = e.prefix
    /\ (dirty' = dirty /\ candidates' = candidates) \/ dirty' = dirty \cup {e.prefix}
    /\ candidates'[e.prefix][p] = candidates[e.prefix][p] => dirty' = dirty
  BY HandleFacts
<1>2. UNCHANGED <<mode, routes, pc, error, rib, matched>>
  BY <1>1 DEF runner, poll
<1>3. Goal' = Goal /\ AtRest' = AtRest
  BY <1>2 DEF Goal, AtRest
<1>4. Undisturbed' /\ Unfailing' /\ Conforms' = Conforms
  BY <1>1, <1>2, ModeStays DEF AInv, Undisturbed, Unfailing, Conforms
<1>5. /\ Goal \in State /\ e.prefix \in Prefixes /\ inbox[p] \in Seq(EVENTS)
      /\ 1 \in 1 .. Len(inbox[p])
  <2>1. Goal \in State /\ e.prefix \in Prefixes /\ inbox[p] \in Seq(EVENTS)
    BY GoalType DEF AInv, LInv, Types, EVENTS
  <2> QED
    BY <1>1, <2>1
<1>6. \A x \in Prefixes : x \notin dirty' => x \notin dirty /\ candidates'[x] = candidates[x]
  BY <1>1
<1>7. \A x \in Prefixes : ChainEnd(x)' = ChainEnd(x)
  BY <1>1 DEF ChainEnd
<1>8. \A x \in Prefixes : candidates'[x] = candidates[x] =>
         /\ winner(candidates', x) = winner(candidates, x)
         /\ Now(candidates', x) = Now(candidates, x)
         /\ \A w : Export(candidates', w, x) = Export(candidates, w, x)
  BY <1>1, SameWinner DEF Export
<1>9. Conforming'
  <2> SUFFICES ASSUME Conforms', NEW x \in Prefixes PROVE ConformsAt(x)'
    BY DEF Conforming
  <2>1. ConformsAt(x) /\ FAULTS = {}
    BY <1>4 DEF AInv, Conforming, Conforms
  <2>2. candidates'[e.prefix][p] = Effect(e)
    BY <1>1, <2>1
  <2>3. ASSUME NEW q \in Peers
        PROVE  LastWord(inbox'[q], x, candidates'[x][q], Goal[x][q])
    <3>1. LastWord(inbox[q], x, candidates[x][q], Goal[x][q])
      BY <2>1 DEF ConformsAt
    <3>2. CASE q = p
      <4>1. LastWord(Tail(inbox[p]), x, IF e.prefix = x THEN Effect(e) ELSE candidates[x][p],
                     Goal[x][p])
        BY <1>1, <1>5, <3>1, <3>2, TailLast
      <4> QED
        BY <1>1, <2>2, <3>2, <4>1
    <3>3. CASE q # p
      BY <1>1, <3>1, <3>3
    <3> QED
      BY <3>2, <3>3
  <2>4. x \notin dirty' => best'[x] = winner(candidates', x)
    BY <1>1, <1>6, <1>8, <2>1 DEF ConformsAt
  <2>5. x \notin dirty' => best'[x] = winner(candidates, x)'
    BY <2>4
  <2> QED
    BY <1>3, <1>7, <2>1, <2>3, <2>5 DEF ConformsAt
<1>10. Following'
  <2> SUFFICES ASSUME Follows'
               PROVE  /\ \A x \in Prefixes : FollowsAt(x)' /\ (pc' = "sent" => OneDiffers(x)')
                      /\ AtRest' => Agreed'
    BY DEF Following
  <2>1. Follows /\ FAULTS = {} /\ pc # "done" /\ (AtRest => Agreed)
    BY <1>2, <1>4, ModeStays DEF AInv, Following, Follows, Conforms
  <2>2. candidates'[e.prefix][p] = Effect(e)
    BY <1>1, <2>1
  <2>3. \A x \in Prefixes : FollowsAt(x) /\ (pc = "sent" => OneDiffers(x))
    BY <2>1 DEF AInv, Following
  <2>4. Effect(e) \in {candidates[e.prefix][p], Goal[e.prefix][p]}
    <3>1. 1 \in About(inbox[p], e.prefix)
      BY <1>1, <1>5 DEF About
    <3> QED
      BY <1>1, <1>5, <2>3, <3>1 DEF FollowsAt, Rising
  <2>5. \A x \in Prefixes, q \in Peers :
           candidates'[x][q] \in {candidates[x][q], Goal[x][q]}
    BY <1>1, <2>4
  <2>6. ASSUME NEW x \in Prefixes, candidates[x] = Goal[x] PROVE candidates'[x] = Goal[x]
    <3>1. \A q \in Peers : candidates'[x][q] = Goal[x][q]
      BY <2>5, <2>6
    <3> QED
      BY <1>1, <1>5, <3>1 DEF State
  <2>7. AtRest' => Agreed'
    <3> SUFFICES ASSUME AtRest PROVE Agreed'
      BY <1>3
    <3>1. Agreed /\ Goal = routes
      BY <2>1 DEF AtRest, Goal
    <3>2. \A x \in Prefixes : candidates'[x] = routes[x]
      BY <2>6, <3>1 DEF Agreed
    <3>3. candidates' = routes
      BY <1>1, <1>5, <3>1, <3>2 DEF State
    <3> QED
      BY <1>1, <1>2, <3>1, <3>3 DEF Agreed, Now, Export
  <2>8. ASSUME NEW x \in Prefixes PROVE FollowsAt(x)'
    <3>1. ASSUME NEW q \in Peers
          PROVE  Rising(inbox'[q], x, candidates'[x][q], Goal[x][q])
      <4>1. Rising(inbox[q], x, candidates[x][q], Goal[x][q])
        BY <2>3 DEF FollowsAt
      <4>2. CASE q = p
        <5>1. Rising(Tail(inbox[p]), x, IF e.prefix = x THEN Effect(e) ELSE candidates[x][p],
                     Goal[x][p])
          BY <1>1, <1>5, <4>1, <4>2, TailRising
        <5> QED
          BY <1>1, <2>2, <4>2, <5>1
      <4>3. CASE q # p
        BY <1>1, <4>1, <4>3
      <4> QED
        BY <4>2, <4>3
    <3>2. ASSUME exported[x] = Now(Goal, x)
          PROVE  Now(candidates', x) = Now(Goal, x)
      <4>1. Now(candidates, x) = Now(Goal, x)
        BY <2>3, <3>2 DEF FollowsAt
      <4>2. CASE candidates'[x] = candidates[x]
        BY <1>8, <4>1, <4>2
      <4>3. CASE candidates'[x] # candidates[x]
        <5>1. /\ x = e.prefix /\ candidates'[x][p] = Goal[x][p]
              /\ candidates[x][p] # Goal[x][p]
              /\ \A q \in Peers \ {p} : candidates'[x][q] = candidates[x][q]
          <6>1. PICK q \in Peers : candidates'[x][q] # candidates[x][q]
            BY <1>1, <4>3 DEF State
          <6> QED
            BY <1>1, <2>5, <6>1
        <5>2. CASE AtRest
          BY <2>1, <5>1, <5>2 DEF AtRest, Agreed, Goal
        <5>3. CASE pc = "sent"
          <6>1. \A q \in Peers : candidates'[x][q] = Goal[x][q]
            BY <2>3, <5>1, <5>3 DEF OneDiffers
          <6>2. candidates'[x] = Goal[x]
            BY <1>1, <1>5, <6>1 DEF State
          <6> QED
            BY <1>1, <1>5, <6>2, SameWinner
        <5>4. CASE pc \in {"reset", "final"}
          <6>1. \A q \in Peers : Goal[x][q] = NoRoute
            BY <5>4 DEF Goal, NoRoutes
          <6>2. Now(Goal, x) = NoExport
            BY <1>5, <6>1, NowOf
          <6>3. candidates[x][p] = NoRoute
            BY <1>1, <4>1, <6>2, NowOf
          <6> QED
            BY <5>1, <6>1, <6>3
        <5> QED
          BY <2>1, <5>2, <5>3, <5>4 DEF AInv, MoreTypes, AtRest
      <4> QED
        BY <4>2, <4>3
    <3>3. UNCHANGED <<Now(Goal, x), outbox, exports, exported, rib, best>>
      BY <1>1, <1>2, <1>3 DEF Now, Export
    <3>4. rib[x] = RibEntry(Goal, winner(Goal, x), x) =>
            candidates'[x] = Goal[x] /\ best[x] = winner(Goal, x)
      BY <2>3, <2>6 DEF FollowsAt
    <3>5. Now(candidates, x)' = Now(candidates', x)
      BY DEF Now, Export
    <3> QED
      BY <1>3, <2>3, <3>1, <3>2, <3>3, <3>4, <3>5 DEF FollowsAt
  <2>9. \A x \in Prefixes : pc' = "sent" => OneDiffers(x)'
    BY <1>2, <1>3, <2>3, <2>5 DEF OneDiffers
  <2> QED
    BY <2>7, <2>8, <2>9
<1> QED
  BY <1>4, <1>9, <1>10, HandleWorks DEF Facts

(* A best path is selected.                                                *)
LEMMA SelectAgrees ==
  ASSUME AInv, NEW x \in Prefixes, Select(x)
  PROVE  Facts'
<1>1. /\ UNCHANGED <<mode, routes, pc, error, rib, matched, exports, inbox, outbox, alive,
                     breaks, candidates, exported>>
      /\ x \in dirty /\ dirty' = dirty \ {x}
      /\ \/ best' = [best EXCEPT ![x] = winner(candidates, x)] /\ diverged' = diverged
         \/ /\ FAULTS # {}
            /\ best' = [best EXCEPT ![x] = ByLength(candidates, x)]
            /\ diverged' = (diverged \/ best'[x] # winner(candidates, x))
  <2>1. Decision(candidates, x) = winner(candidates, x)
    BY DecisionIsWinner DEF AInv, LInv, Types
  <2> QED
    BY <2>1 DEF Select, runner, poll, net
<1>2. /\ Goal' = Goal /\ AtRest' = AtRest
      /\ \A y \in Prefixes : ChainEnd(y)' = ChainEnd(y) /\ Unanswered(y)' = Unanswered(y)
  BY <1>1 DEF Goal, AtRest, ChainEnd, Unanswered
<1>3. Undisturbed' /\ Unfailing' /\ Conforms' = Conforms
  BY <1>1, ModeStays DEF AInv, Undisturbed, Unfailing, Conforms
<1>4. /\ Goal \in State /\ candidates \in State /\ best \in [Prefixes -> Choice]
      /\ dirty \subseteq Prefixes
  BY GoalType DEF AInv, LInv, Types, MoreTypes
<1>5. /\ \A y \in Prefixes \ {x} : best'[y] = best[y] /\ (y \in dirty' <=> y \in dirty)
      /\ x \notin dirty'
      /\ FAULTS = {} => best'[x] = winner(candidates, x)
      /\ best'[x] = winner(candidates, x) \/ best'[x] = ByLength(candidates, x)
      /\ diverged' => diverged \/ best'[x] # winner(candidates, x)
  <2>1. dirty' = dirty \ {x}
    BY <1>1
  <2>2. CASE best' = [best EXCEPT ![x] = winner(candidates, x)] /\ diverged' = diverged
    BY <1>4, <2>1, <2>2
  <2>3. CASE /\ FAULTS # {}
             /\ best' = [best EXCEPT ![x] = ByLength(candidates, x)]
             /\ diverged' = (diverged \/ best'[x] # winner(candidates, x))
    <3>1. diverged' => diverged \/ best'[x] # winner(candidates, x)
      BY <2>3
    <3>2. best'[x] = ByLength(candidates, x) /\ \A y \in Prefixes \ {x} : best'[y] = best[y]
      BY <1>4, <2>3
    <3>3. FAULTS # {}
      BY <2>3
    <3> QED
      BY <2>1, <3>1, <3>2, <3>3
  <2> QED
    BY <1>1, <2>2, <2>3
<1>6. \A w, y : Export(candidates, w, y)' = Export(candidates, w', y)
  BY <1>1 DEF Export
<1>7. Conforming'
  <2> SUFFICES ASSUME Conforms', NEW y \in Prefixes PROVE ConformsAt(y)'
    BY DEF Conforming
  <2>1. ConformsAt(y) /\ FAULTS = {}
    BY <1>3 DEF AInv, Conforming, Conforms
  <2>2. y \notin dirty' => best'[y] = winner(candidates, y)
    BY <1>5, <2>1 DEF ConformsAt
  <2> QED
    BY <1>1, <1>2, <2>1, <2>2 DEF ConformsAt
<1>8. Following'
  <2> SUFFICES ASSUME Follows'
               PROVE  /\ \A y \in Prefixes : FollowsAt(y)' /\ (pc' = "sent" => OneDiffers(y)')
                      /\ AtRest' => Agreed'
    BY DEF Following
  <2>1. Follows /\ FAULTS = {} /\ (AtRest => Agreed)
    BY <1>1, <1>3, ModeStays DEF AInv, Following, Follows, Conforms
  <2>2. \A y \in Prefixes : FollowsAt(y) /\ (pc = "sent" => OneDiffers(y))
    BY <2>1 DEF AInv, Following
  <2>3. AtRest => Agreed'
    BY <1>1, <1>5, <2>1 DEF Agreed, Now, Export
  <2>4. ASSUME NEW y \in Prefixes, rib[y] = RibEntry(Goal, winner(Goal, y), y)
        PROVE  best'[y] = winner(Goal, y)
    <3>1. candidates[y] = Goal[y] /\ best[y] = winner(Goal, y)
      BY <2>2, <2>4 DEF FollowsAt
    <3>2. winner(candidates, y) = winner(Goal, y)
      BY <1>4, <3>1, SameWinner
    <3> QED
      BY <1>5, <2>1, <3>1, <3>2
  <2>5. ASSUME NEW y \in Prefixes PROVE FollowsAt(y)'
    <3>1. Now(Goal, y)' = Now(Goal, y) /\ Now(candidates, y)' = Now(candidates, y)
      BY <1>1, <1>2 DEF Now, Export
    <3> QED
      BY <1>1, <1>2, <2>2, <2>4, <3>1 DEF FollowsAt
  <2>6. \A y \in Prefixes : pc' = "sent" => OneDiffers(y)'
    BY <1>1, <1>2, <2>2 DEF OneDiffers
  <2> QED
    BY <1>2, <2>3, <2>5, <2>6
<1>9. Watched'
  <2> SUFFICES ASSUME Timely' PROVE IF AtRest' THEN Agreed' /\ Still' /\ ~diverged' ELSE Working'
    BY DEF Watched
  <2>1. Timely
    BY <1>1, ModeStays DEF Timely
  <2>2. ~AtRest /\ Working
    BY <1>1, <2>1 DEF AInv, Watched, Still
  <2>3. \A y \in Prefixes : WorksAt(y)
    BY <2>2 DEF Working
  <2>4. ASSUME NEW y \in Prefixes, SpoiltAt(y) PROVE SpoiltAt(y)'
    <3>1. \A q \in Peers : KeptCandidate(q, y) => KeptCandidate(q, y)'
      BY <1>1, <1>2 DEF KeptCandidate
    <3>2. CASE y # x
      <4>1. Chosen(y)' = Chosen(y)
        BY <1>1, <1>2, <1>5, <3>2 DEF Chosen
      <4> QED
        BY <1>1, <1>2, <1>5, <2>4, <3>1, <3>2, <4>1 DEF SpoiltAt, WrongBest, KeptExport
    <3>3. CASE y = x
      BY <1>1, <2>4, <3>1, <3>3 DEF SpoiltAt, WrongBest, KeptExport, Chosen
    <3> QED
      BY <3>2, <3>3
  <2>5. Spoilt => Spoilt'
    BY <2>4 DEF Spoilt
  <2>6. ASSUME NEW y \in Prefixes PROVE WorksAt(y)'
    <3>1. CASE y # x
      BY <1>1, <1>2, <1>5, <2>3, <2>5, <3>1 DEF WorksAt, Export
    <3>2. CASE y = x
      <4>1. pc = "sent" => ~Unanswered(x)
        BY <1>1, <2>3 DEF WorksAt
      <4>2. best'[x] = NoPeer => \A p \in Peers : candidates[x][p] = NoRoute
        BY <1>4, <1>5, WinnerOf, ByLengthOf
      <4>3. ChainEnd(x) \/ Spoilt
        BY <2>3 DEF WorksAt
      <4> QED
        BY <1>1, <1>2, <1>5, <2>5, <3>2, <4>1, <4>2, <4>3 DEF WorksAt
    <3> QED
      BY <3>1, <3>2
  <2>7. diverged' => Spoilt'
    <3>1. CASE best'[x] # winner(candidates, x)
      <4>1. best'[x] = ByLength(candidates, x) /\ \A p \in Peers : candidates[x][p] # NoRoute
        BY <1>4, <1>5, <3>1, ByLengthOf
      <4>2. ~Unanswered(x)
        BY <1>1, <2>3, <4>1 DEF WorksAt
      <4>3. CASE candidates[x] = Goal[x]
        <5>1. WrongBest(x)'
          BY <1>1, <1>2, <1>4, <1>5, <3>1, <4>3, SameWinner DEF WrongBest, Chosen
        <5> QED
          BY <5>1 DEF Spoilt, SpoiltAt
      <4>4. CASE candidates[x] # Goal[x]
        <5>1. PICK p \in Peers : candidates[x][p] # Goal[x][p]
          BY <1>4, <4>4 DEF State
        <5>2. KeptCandidate(p, x)'
          BY <1>1, <1>2, <4>2, <5>1 DEF KeptCandidate, Unanswered
        <5> QED
          BY <5>2 DEF Spoilt, SpoiltAt
      <4> QED
        BY <4>3, <4>4
    <3>2. CASE diverged' = diverged
      BY <2>2, <2>5, <3>2 DEF Working
    <3> QED
      BY <1>5, <3>1, <3>2
  <2>8. ReadStill'
    BY <1>1, <2>2 DEF Working, ReadStill, Still
  <2>9. (pc' = "sent" => OneInAll') /\ \A p \in Peers : OneEach(p)'
    BY <1>1, <1>2, <2>2 DEF Working, OneInAll, OneEach
  <2> QED
    BY <1>2, <2>2, <2>6, <2>7, <2>8, <2>9 DEF Working
<1> QED
  BY <1>3, <1>7, <1>8, <1>9 DEF Facts

(* It is exported.                                                         *)
LEMMA AdvertiseAgrees ==
  ASSUME AInv, NEW x \in Prefixes, Advertise(x)
  PROVE  Facts'
<1> DEFINE now == Export(candidates, best[x], x)
<1>1. /\ UNCHANGED <<mode, routes, pc, error, rib, matched, exports, inbox, alive, breaks,
                     candidates, dirty, best>>
      /\ x \notin dirty /\ now # exported[x]
      /\ exported' = [exported EXCEPT ![x] = now]
      /\ \/ outbox' = Append(outbox, [prefix |-> x, export |-> now]) /\ diverged' = diverged
         \/ FAULTS # {} /\ now = NoExport /\ outbox' = outbox
  BY DEF Advertise, runner, poll
<1>2. Goal' = Goal /\ AtRest' = AtRest /\ \A y \in Prefixes : Unanswered(y)' = Unanswered(y)
  BY <1>1 DEF Goal, AtRest, Unanswered
<1>3. Undisturbed' /\ Unfailing' /\ Conforms' = Conforms
  BY <1>1, ModeStays DEF AInv, Undisturbed, Unfailing, Conforms
<1>4. /\ Goal \in State /\ candidates \in State /\ best \in [Prefixes -> Choice]
      /\ outbox \in Seq(Advert) /\ exported \in [Prefixes -> Exports]
  BY GoalType DEF AInv, LInv, Types, MoreTypes
<1>5. now \in Exports /\ (now = NoExport <=> best[x] = NoPeer)
  <2>1. now \in Exports
    BY <1>4 DEF Export, Exports, State, Choice
  <2> QED
    BY <1>4, <2>1, ExportOf
<1>7. PICK m \in Advert : m = [prefix |-> x, export |-> now]
  BY <1>5 DEF Advert
<1> HIDE DEF now
<1>6. \A y \in Prefixes : exported'[y] = IF y = x THEN now ELSE exported[y]
  <2>1. exported' = [exported EXCEPT ![x] = now]
    BY <1>1
  <2>2. exported \in [Prefixes -> Exports]
    BY <1>4
  <2> QED
    BY <2>1, <2>2
<1>8. m.prefix = x /\ m.export = now
  BY <1>7
<1>9. \/ outbox' = outbox \o <<m>> /\ diverged' = diverged
      \/ FAULTS # {} /\ now = NoExport /\ outbox' = outbox
  BY <1>1, <1>4, <1>7, AppendIsConcat
<1>10. ASSUME NEW y \in Prefixes, outbox' = outbox \o <<m>>
       PROVE  /\ ChainEnd(y) => ChainEnd(y)'
              /\ \A z : y # x /\ LastExport(outbox, y, exports[y], z) =>
                          LastExport(outbox', y, exports[y], z)
              /\ \A t : y # x /\ OnlyLast(outbox, y, exports[y], t) =>
                          OnlyLast(outbox', y, exports[y], t)
              /\ \A t : ChainEnd(x) /\ OnlyLast(outbox, x, exports[x], t) /\ exported[x] # t =>
                          OnlyLast(outbox', x, exports[x], t)
  <2>1. \A y1 \in Prefixes : \A z : LastExport(outbox, y1, exports[y1], z) =>
           LastExport(outbox', y1, exports[y1], IF x = y1 THEN now ELSE z)
    BY <1>4, <1>8, <1>10, SendExport
  <2>2. \A z, t : OnlyLast(outbox, x, exports[x], t) /\ LastExport(outbox, x, exports[x], z)
                    /\ z # t => OnlyLast(outbox', x, exports[x], t)
    BY <1>4, <1>10, SendExport
  <2>3. \A t : OnlyLast(outbox, y, exports[y], t) /\ y # x => OnlyLast(outbox', y, exports[y], t)
    BY <1>4, <1>8, <1>10, SendExport
  <2> QED
    BY <1>1, <1>6, <2>1, <2>2, <2>3 DEF ChainEnd
<1>11. Conforming'
  <2> SUFFICES ASSUME Conforms', NEW y \in Prefixes PROVE ConformsAt(y)'
    BY DEF Conforming
  <2>1. ConformsAt(y) /\ FAULTS = {}
    BY <1>3 DEF AInv, Conforming, Conforms
  <2>2. ChainEnd(y)'
    BY <1>9, <1>10, <2>1 DEF ConformsAt
  <2> QED
    BY <1>1, <1>2, <2>1, <2>2 DEF ConformsAt
<1>12. Following'
  <2> SUFFICES ASSUME Follows'
               PROVE  /\ \A y \in Prefixes : FollowsAt(y)' /\ (pc' = "sent" => OneDiffers(y)')
                      /\ AtRest' => Agreed'
    BY DEF Following
  <2>1. Follows /\ Conforms /\ FAULTS = {} /\ (AtRest => Agreed)
    BY <1>1, <1>3, ModeStays DEF AInv, Following, Follows, Conforms
  <2>2. \A y \in Prefixes : FollowsAt(y) /\ (pc = "sent" => OneDiffers(y)) /\ ConformsAt(y)
    BY <2>1 DEF AInv, Following, Conforming
  <2>3. now = Now(candidates, x)
    BY <1>1, <2>2 DEF ConformsAt, Now, now
  <2>4. ~AtRest
    <3> SUFFICES ASSUME AtRest PROVE FALSE
      OBVIOUS
    <3>1. outbox = <<>> /\ exports[x] = Now(candidates, x)
      BY <2>1 DEF Agreed
    <3>2. exported[x] = exports[x]
      BY <2>2, <3>1, NothingAbout DEF ConformsAt, ChainEnd, LastExport
    <3> QED
      BY <1>1, <2>3, <3>1, <3>2
  <2>5. ASSUME NEW y \in Prefixes PROVE FollowsAt(y)'
    <3>1. Now(Goal, y)' = Now(Goal, y) /\ Now(candidates, y)' = Now(candidates, y)
      BY <1>1, <1>2 DEF Now, Export
    <3>2. y = x => exported[x] # Now(Goal, x)
      BY <1>1, <2>2, <2>3 DEF FollowsAt
    <3>3. OnlyLast(outbox', y, exports[y], Now(Goal, y))
      BY <1>9, <1>10, <2>1, <2>2, <3>2 DEF FollowsAt, ConformsAt
    <3>4. exported'[y] = Now(Goal, y) => Now(candidates, y) = Now(Goal, y)
      BY <1>6, <2>2, <2>3 DEF FollowsAt
    <3> QED
      BY <1>1, <1>2, <2>2, <3>1, <3>3, <3>4 DEF FollowsAt
  <2>6. \A y \in Prefixes : pc' = "sent" => OneDiffers(y)'
    BY <1>1, <1>2, <2>2 DEF OneDiffers
  <2> QED
    BY <1>2, <2>4, <2>5, <2>6
<1>13. Watched'
  <2> SUFFICES ASSUME Timely' PROVE IF AtRest' THEN Agreed' /\ Still' /\ ~diverged' ELSE Working'
    BY DEF Watched
  <2>1. Timely
    BY <1>1, ModeStays DEF Timely
  <2>2. ~AtRest /\ Working
    BY <1>1, <2>1 DEF AInv, Watched, Still, now
  <2>3. \A y \in Prefixes : WorksAt(y)
    BY <2>2 DEF Working
  <2>4. ASSUME NEW y \in Prefixes, SpoiltAt(y) PROVE SpoiltAt(y)'
    <3>1. /\ \A q \in Peers : KeptCandidate(q, y) => KeptCandidate(q, y)'
          /\ WrongBest(y) => WrongBest(y)'
          /\ Chosen(y)' = Chosen(y)
      BY <1>1, <1>2 DEF KeptCandidate, WrongBest, Chosen
    <3>2. ASSUME KeptExport(y) PROVE KeptExport(y)'
      <4>1. y # x
        BY <1>1, <1>5, <3>2 DEF KeptExport
      <4>2. \A z : LastExport(outbox, y, exports[y], z) => LastExport(outbox', y, exports[y], z)
        BY <1>9, <1>10, <4>1
      <4> QED
        BY <1>1, <1>6, <3>1, <3>2, <4>1, <4>2 DEF KeptExport
    <3> QED
      BY <2>4, <3>1, <3>2 DEF SpoiltAt
  <2>5. Spoilt => Spoilt'
    BY <2>4 DEF Spoilt
  <2> DEFINE Wanted == (\A y \in Prefixes : WorksAt(y)') /\ (diverged' => Spoilt')
  <2>6. ASSUME outbox' = outbox \o <<m>> /\ diverged' = diverged PROVE Wanted
    <3>1. ASSUME NEW y \in Prefixes PROVE WorksAt(y)'
      <4>1. ChainEnd(y)' \/ Spoilt'
        BY <1>10, <2>3, <2>5, <2>6 DEF WorksAt
      <4>2. exported'[y] = Export(candidates, best[y], y) \/ exported'[y] = exported[y]
        BY <1>6 DEF now
      <4> QED
        BY <1>1, <1>2, <2>3, <4>1, <4>2 DEF WorksAt, Export
    <3>2. diverged' => Spoilt'
      BY <2>2, <2>5, <2>6 DEF Working
    <3> QED
      BY <3>1, <3>2
  <2>7. ASSUME now = NoExport /\ outbox' = outbox PROVE Wanted
    <3>1. best[x] = NoPeer /\ \A p \in Peers : candidates[x][p] = NoRoute
      BY <1>1, <1>5, <2>3, <2>7 DEF WorksAt
    <3>2. pc = "sent" => ~Unanswered(x)
      BY <1>1, <2>3 DEF WorksAt, now
    <3>3. Spoilt'
      <4>1. CASE candidates[x] = Goal[x]
        <5>1. ASSUME ChainEnd(x) PROVE KeptExport(x)'
          <6>1. Chosen(x)' /\ best'[x] = NoPeer /\ exported'[x] = NoExport
            BY <1>1, <1>2, <1>6, <2>7, <3>1, <4>1 DEF Chosen
          <6>2. exported[x] \in Exports \ {NoExport}
            BY <1>1, <1>4, <2>7
          <6>3. LastExport(outbox', x, exports'[x], exported[x])
            BY <1>1, <2>7, <5>1 DEF ChainEnd
          <6> QED
            BY <6>1, <6>2, <6>3 DEF KeptExport
        <5> QED
          BY <2>3, <2>5, <5>1 DEF WorksAt, Spoilt, SpoiltAt
      <4>2. CASE candidates[x] # Goal[x]
        <5>1. PICK p \in Peers : candidates[x][p] # Goal[x][p]
          BY <1>4, <4>2 DEF State
        <5>2. pc = "sent"
          BY <2>1, <2>2, <3>1, <5>1, WaitingFor DEF Timely, AInv, MoreTypes
        <5>3. KeptCandidate(p, x)'
          BY <1>1, <1>2, <3>2, <5>1, <5>2 DEF KeptCandidate, Unanswered
        <5> QED
          BY <5>3 DEF Spoilt, SpoiltAt
      <4> QED
        BY <4>1, <4>2
    <3>4. ASSUME NEW y \in Prefixes PROVE WorksAt(y)'
      <4>1. exported'[y] = Export(candidates, best[y], y) \/ exported'[y] = exported[y]
        BY <1>6 DEF now
      <4> QED
        BY <1>1, <1>2, <2>3, <3>3, <4>1 DEF WorksAt, Export
    <3> QED
      BY <3>3, <3>4
  <2>8. ReadStill'
    BY <1>1, <2>2 DEF Working, ReadStill, Still, now
  <2>9. (pc' = "sent" => OneInAll') /\ \A p \in Peers : OneEach(p)'
    BY <1>1, <1>2, <2>2 DEF Working, OneInAll, OneEach
  <2>10. Wanted
    BY <1>9, <2>6, <2>7
  <2> QED
    BY <1>2, <2>2, <2>8, <2>9, <2>10 DEF Working
<1> QED
  BY <1>3, <1>11, <1>12, <1>13 DEF Facts

(***************************************************************************)
(* The theorems                                                            *)
(***************************************************************************)
LEMMA InitialAgreement == LInit => AInv
<1> SUFFICES ASSUME LInit PROVE AInv
  OBVIOUS
<1>1. /\ mode \in Modes /\ routes = NoRoutes /\ pc = "setup" /\ error = FALSE /\ events = 0
      /\ rib = NothingRead /\ matched = FALSE
      /\ exports = [x \in Prefixes |-> NoExport]
      /\ inbox = [p \in Peers |-> <<>>] /\ outbox = <<>>
      /\ alive = {} /\ breaks = 0
      /\ candidates = NoRoutes /\ dirty = {}
      /\ best = [x \in Prefixes |-> NoPeer]
      /\ exported = [x \in Prefixes |-> NoExport] /\ diverged = FALSE
  BY DEF LInit, Init
<1>2. NoRoutes \in State /\ \A x \in Prefixes, p \in Peers : NoRoutes[x][p] = NoRoute
  BY DEF NoRoutes, State
<1>3. \A x \in Prefixes : winner(NoRoutes, x) = NoPeer /\ Now(NoRoutes, x) = NoExport
  BY <1>2, WinnerOf, NowOf
<1>4. MoreTypes
  <2>1. mode \in Mode
    BY <1>1, LabAssumption
  <2>2. /\ rib = [x \in Prefixes |-> rib[x]]
        /\ best \in [Prefixes -> Choice]
        /\ exports \in [Prefixes -> Exports] /\ exported \in [Prefixes -> Exports]
    BY <1>1 DEF NothingRead, Choice, Exports
  <2> QED
    BY <1>1, <1>2, <2>1, <2>2 DEF MoreTypes
<1>5. Goal = NoRoutes /\ AtRest /\ Agreed /\ \A x \in Prefixes : ChainEnd(x)
  BY <1>1, <1>3, NothingAbout DEF Goal, AtRest, Agreed, ChainEnd, LastExport
<1>6. Conforming
  BY <1>1, <1>2, <1>3, <1>5, NothingAbout DEF Conforming, ConformsAt, LastWord
<1>7. Following
  <2> SUFFICES ASSUME NEW x \in Prefixes PROVE FollowsAt(x)
    BY <1>1, <1>5 DEF Following
  <2>1. rib[x] # RibEntry(NoRoutes, winner(NoRoutes, x), x)
    BY <1>1, <1>2, UnreadIsNoEntry DEF NothingRead
  <2> QED
    BY <1>1, <1>3, <1>5, <2>1, NothingAbout DEF FollowsAt, Rising, OnlyLast
<1>8. Watched
  BY <1>1, <1>5 DEF Watched, Still, Export
<1> QED
  BY <1>1, <1>4, <1>6, <1>7, <1>8, InitialLab DEF AInv, Undisturbed, Unfailing

(* The invariant is inductive.                                             *)
LEMMA AgreementStep == AInv /\ [LNext]_lvars => AInv'
<1> SUFFICES ASSUME AInv, [LNext]_lvars PROVE AInv'
  OBVIOUS
<1>1. LInv' /\ MoreTypes'
  BY LabStep, MoreTypesStep DEF AInv
<1>2. Facts'
  BY StepKinds, FailingStep, RestingStep, ResetAgrees, SendAgrees, PumpStep, ReadRibStep,
     PollAgainStep, ConvergeOkStep, HandleAgrees, SelectAgrees, AdvertiseAgrees, BreakAgrees
<1> QED
  BY <1>1, <1>2 DEF AInv, Facts

(* The invariant holds in every reachable state.                           *)
THEOREM LabInvariant == LSpec => []AInv
<1> QED
  BY InitialAgreement, AgreementStep, PTL DEF LSpec

(* Whenever the runner goes on, the daemon and the observer are where the  *)
(* reference model is (converge and run_report, route_stateful.py): a torn *)
(* RIB read, or an export that is about to change, is never taken for      *)
(* convergence, by a daemon that conforms, or by any that is in time.      *)
THEOREM ModelsAgree == LSpec => []Agreement
<1>1. AInv => Agreement
  <2> SUFFICES ASSUME AInv, pc = "event", breaks = 0, ~COVERAGE, PATIENT \/ FAULTS = {}
               PROVE  Agreed
    BY DEF Agreement, Agreed, expected_export, Now, AInv, MoreTypes
  <2> QED
    BY DEF AInv, Following, Follows, Conforms, Watched, Timely, AtRest
<1> QED
  BY <1>1, LabInvariant, PTL

(* A trace reported as passed is one in which no fault of the daemon took  *)
(* effect, if the stable time outlasts the daemon (run_report): what a     *)
(* fault spoils stays spoilt until the poll fails.                         *)
THEOREM FaultsAreNoticed == LSpec => []PassedIsConformant
<1>1. AInv => PassedIsConformant
  BY DEF AInv, PassedIsConformant, Watched, Timely, AtRest
<1> QED
  BY <1>1, LabInvariant, PTL

(* A conforming daemon, undisturbed and in time, is never reported         *)
(* (run_report).                                                           *)
THEOREM NoTraceFailsWrongly == LSpec => []NoFalseAlarm
<1>1. AInv => NoFalseAlarm
  BY DEF AInv, Unfailing, NoFalseAlarm
<1> QED
  BY <1>1, LabInvariant, PTL

=============================================================================
