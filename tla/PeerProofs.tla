----------------------------- MODULE PeerProofs -----------------------------
(***************************************************************************)
(* Proofs about the receiver of a session, for any messages, any scripts   *)
(* and any cuts.                                                           *)
(***************************************************************************)
EXTENDS PeerStream, Integers, WellFoundedInduction, TLAPS

(***************************************************************************)
(* Attributes                                                              *)
(***************************************************************************)

(* A set of positions has a last one, since the distances to the end have  *)
(* a least one.                                                            *)
LEMMA LastExists ==
  ASSUME NEW n \in Nat, NEW S \in SUBSET (1 .. n), S # {}
  PROVE  \E i \in S : \A j \in S : j <= i
<1> DEFINE Less == OpToRel(<, Nat)
<1> DEFINE T == {n - i : i \in S}
<1>1. T \subseteq Nat
  OBVIOUS
<1>2. T # {}
  OBVIOUS
<1>3. IsWellFoundedOn(Less, Nat)
  BY NatLessThanWellFounded
<1>4. \A x, y \in Nat : <<x, y>> \in Less <=> x < y
  BY DEF OpToRel
<1> HIDE DEF Less
<1>5. PICK m \in T : \A k \in T : ~ (<<k, m>> \in Less)
  <2> HIDE DEF T
  <2> QED
    BY <1>1, <1>2, <1>3, WFMin
<1>6. \A k \in T : m <= k
  <2> HIDE DEF T
  <2>1. \A k \in T : ~ (k < m)
    BY <1>1, <1>4, <1>5
  <2> QED
    BY <1>1, <1>5, <2>1
<1>7. PICK i \in S : m = n - i
  BY <1>5
<1>8. ASSUME NEW j \in S
      PROVE  j <= i
  BY <1>6, <1>7
<1> QED
  BY <1>8

(* The value parse_update retains of a type is that of an attribute of     *)
(* this type, if there is one, and None otherwise.                         *)
LEMMA ValueIsOfAttribute ==
  ASSUME NEW u \in Body, NEW code
  PROVE  IF \E i \in 1 .. Len(u.attrs) : u.attrs[i].code = code
         THEN Value(u, code) \in Values
         ELSE Value(u, code) = None
<1> DEFINE those == {i \in 1 .. Len(u.attrs) : u.attrs[i].code = code}
<1>1. u.attrs \in Seq(Attribute) /\ Len(u.attrs) \in Nat
  BY DEF Body
<1>2. CASE those = {}
  BY <1>2 DEF Value
<1>3. CASE those # {}
  <2>1. \E i \in those : \A j \in those : j <= i
    BY <1>1, <1>3, LastExists
  <2> DEFINE last == CHOOSE i \in those : \A j \in those : j <= i
  <2>2. last \in those
    BY <2>1
  <2>3. Value(u, code) = u.attrs[last].value
    BY <1>3 DEF Value
  <2>4. last \in 1 .. Len(u.attrs)
    BY <2>2
  <2> HIDE DEF last
  <2>6. u.attrs[last] \in Attribute
    BY <1>1, <2>4
  <2>5. u.attrs[last].value \in Values
    BY <2>6 DEF Attribute
  <2> QED
    BY <1>3, <2>3, <2>5
<1> QED
  BY <1>2, <1>3

(* An UPDATE whose announcements have their mandatory attributes is not    *)
(* refused.                                                                *)
LEMMA WellFormedIsTaken ==
  ASSUME NEW u \in Body, WellFormed(u)
  PROVE  ~Raises(u)
<1>1. CASE u.announced = {}
  BY <1>1 DEF WellFormed, Raises
<1>2. CASE u.announced # {}
  <2>1. \A code \in {ORIGIN, AS_PATH} :
          \E i \in 1 .. Len(u.attrs) : u.attrs[i].code = code
    BY <1>2 DEF WellFormed
  <2>2. \A code \in {ORIGIN, AS_PATH} : Value(u, code) \in Values
    BY <2>1, ValueIsOfAttribute
  <2>3. None \notin {Value(u, ORIGIN), Value(u, AS_PATH)}
    BY <2>2, PeerAssumption
  <2> QED
    BY <2>3 DEF WellFormed, Raises
<1> QED
  BY <1>1, <1>2

(* What an UPDATE that is not refused announces is a whole route.          *)
LEMMA RouteTypes ==
  ASSUME NEW u \in Body, ~Raises(u), u.announced # {}
  PROVE  RouteOf(u) \in [path : Values, origin : Values]
<1>1. Value(u, ORIGIN) # None /\ Value(u, AS_PATH) # None
  BY DEF Raises
<1>2. Value(u, ORIGIN) \in Values /\ Value(u, AS_PATH) \in Values
  BY <1>1, ValueIsOfAttribute
<1> QED
  BY <1>2 DEF RouteOf

(***************************************************************************)
(* Type correctness                                                        *)
(***************************************************************************)

(* A message of the script is a message.                                   *)
LEMMA MessageTypes ==
  ASSUME TypeOK, handled < Len(script)
  PROVE  /\ Next1 \in Message
         /\ Next1.kind = "UPDATE" => Next1.body \in Body
<1>1. script \in Seq(Message) /\ handled + 1 \in 1 .. Len(script)
  BY ScriptAssumption DEF TypeOK
<1>2. Next1 \in Message
  BY <1>1 DEF Next1
<1>3. Next1.kind = "UPDATE" => Next1 \in [kind : {"UPDATE"}, body : Body]
  BY <1>2 DEF Message
<1> QED
  BY <1>2, <1>3

(* The routes keep their type.                                             *)
LEMMA ApplyTypes ==
  ASSUME TypeOK, NEW u \in Body, ~Raises(u)
  PROVE  Apply(u) \in [Prefixes -> [path : Values, origin : Values] \cup {None}]
<1>1. \A x \in Prefixes : x \in u.announced => RouteOf(u) \in [path : Values, origin : Values]
  BY RouteTypes
<1> QED
  BY <1>1 DEF Apply, TypeOK

(* Scripts are sequences, so their lengths are numbers.                    *)
LEMMA LengthTypes == script \in Scripts => Len(script) \in Nat
BY ScriptAssumption

(* Every step of the receiver keeps its variables in their types; in       *)
(* particular it never handles a message that is not whole.                *)
LEMMA TypeStep == TypeOK /\ [Next]_vars => TypeOK'
<1> SUFFICES ASSUME TypeOK, [Next]_vars PROVE TypeOK'
  OBVIOUS
<1>1. Len(script) \in Nat /\ arrived \in Nat /\ handled \in Nat /\ handled <= arrived
  BY LengthTypes DEF TypeOK
<1>2. ASSUME NEW k \in 0 .. Len(script), NEW h \in BOOLEAN, Receive(k, h)
      PROVE  TypeOK'
  BY <1>1, <1>2 DEF TypeOK, Receive, HeaderAlone, session
<1>3. ASSUME NEW what \in {"EOF", "ConnectionError", "ValueError"},
             Raise(what), UNCHANGED stream
      PROVE  TypeOK'
  BY <1>3 DEF TypeOK, Raise, session, stream
<1>4. ASSUME pc = "feed", Complete, Handle,
             opened' \in BOOLEAN, established' \in BOOLEAN,
             rib' \in [Prefixes -> [path : Values, origin : Values] \cup {None}]
      PROVE  TypeOK'
  <2>1. handled' \in 0 .. arrived'
    BY <1>1, <1>4 DEF Handle, Complete, stream
  <2> QED
    BY <1>4, <2>1 DEF TypeOK, Handle, stream
<1>5. CASE Return
  BY <1>5 DEF TypeOK, Return, session, stream
<1>6. CASE HandleOpen
  <2>1. CASE Next1.good
    BY <1>4, <1>6, <2>1 DEF HandleOpen, TypeOK
  <2>2. CASE ~Next1.good
    BY <1>3, <1>6, <2>2 DEF HandleOpen
  <2> QED
    BY <2>1, <2>2
<1>7. CASE HandleKeepalive
  <2>1. CASE Next1.good /\ opened
    BY <1>4, <1>7, <2>1 DEF HandleKeepalive, TypeOK
  <2>2. CASE ~(Next1.good /\ opened)
    BY <1>3, <1>7, <2>2 DEF HandleKeepalive
  <2> QED
    BY <2>1, <2>2
<1>8. CASE HandleUpdate
  <2>1. CASE Raises(Next1.body)
    BY <1>3, <1>8, <2>1 DEF HandleUpdate
  <2>2. CASE ~Raises(Next1.body)
    <3>1. Next1.body \in Body
      BY <1>1, <1>8, MessageTypes DEF HandleUpdate, Complete, TypeOK
    <3>2. rib' \in [Prefixes -> [path : Values, origin : Values] \cup {None}]
      BY <1>8, <2>2, <3>1, ApplyTypes DEF HandleUpdate
    <3> QED
      BY <1>4, <1>8, <2>2, <3>2 DEF HandleUpdate, TypeOK
  <2> QED
    BY <2>1, <2>2
<1>9. CASE ReceiveEnd \/ RaiseBroken \/ RaiseNotification \/ RaiseUnknown
  BY <1>3, <1>9 DEF ReceiveEnd, RaiseBroken, RaiseNotification, RaiseUnknown
<1>10. CASE UNCHANGED vars
  BY <1>10 DEF TypeOK, vars, stream, session
<1> QED
  BY <1>2, <1>5, <1>6, <1>7, <1>8, <1>9, <1>10 DEF Next, Feed, Done

(* A session starts in its type.                                           *)
LEMMA InitialType == Init => TypeOK
<1> SUFFICES ASSUME Init PROVE TypeOK
  OBVIOUS
<1>1. script \in Scripts /\ Len(script) \in Nat
  BY LengthTypes DEF Init
<1>2. rib \in [Prefixes -> [path : Values, origin : Values] \cup {None}]
  BY DEF Init
<1>3. arrived \in 0 .. Len(script) /\ handled \in 0 .. arrived
  BY <1>1 DEF Init
<1> QED
  BY <1>1, <1>2, <1>3 DEF Init, TypeOK

(* What a session has received and handled is always of its type, and no   *)
(* message is handled before it is whole.                                  *)
THEOREM TypeCorrect == Spec => []TypeOK
BY InitialType, TypeStep, PTL DEF Spec

(***************************************************************************)
(* Nothing is left in the buffer                                           *)
(***************************************************************************)

(* Whatever the cuts, feed returns only when it has handled all that is    *)
(* whole and has looked at the header of what is not (the loop of          *)
(* Peer.feed, route_wire.py:182-190).                                      *)
THEOREM NothingIsLeft == Spec => []NothingLeft
<1>1. Init => NothingLeft
  BY DEF Init, NothingLeft
<1>2. ASSUME TypeOK, NothingLeft, [Next]_vars
      PROVE  NothingLeft'
  <2>1. handled \in Nat /\ arrived \in Nat /\ handled <= arrived
    BY <1>2, LengthTypes DEF TypeOK
  <2>2. CASE Return
    BY <2>1, <2>2 DEF Return, NothingLeft, HeaderThere, Complete, Next1, stream, session
  <2>3. CASE UNCHANGED vars
    BY <1>2, <2>3 DEF NothingLeft, Next1, vars, stream, session
  <2>4. CASE pc' # "recv"
    BY <2>4 DEF NothingLeft
  <2>5. Next => Return \/ UNCHANGED vars \/ pc' # "recv"
    BY DEF Next, Feed, Receive, ReceiveEnd, RaiseBroken, RaiseNotification, RaiseUnknown,
           HandleOpen, HandleKeepalive, HandleUpdate, Handle, Raise, Done
  <2> QED
    BY <1>2, <2>2, <2>3, <2>4, <2>5
<1> QED
  BY <1>1, <1>2, TypeCorrect, PTL DEF Spec

(***************************************************************************)
(* The promise                                                             *)
(***************************************************************************)

(* What one more message changes of what the messages say.                 *)
LEMMA LastWordStep ==
  ASSUME NEW s, NEW k \in Nat, NEW x
  PROVE  LastWord(s, k + 1, x) =
           IF Mentions(s[k + 1], x) THEN Says(s[k + 1], x) ELSE LastWord(s, k, x)
<1> DEFINE those(n) == {i \in 1 .. n : Mentions(s[i], x)}
           last(n) == CHOOSE i \in those(n) : \A j \in those(n) : j <= i
<1>1. \A n : LastWord(s, n, x) = IF those(n) = {} THEN None ELSE Says(s[last(n)], x)
  BY DEF LastWord
<1>2. CASE Mentions(s[k + 1], x)
  <2>1. k + 1 \in those(k + 1) /\ \A j \in those(k + 1) : j <= k + 1
    BY <1>2
  <2>2. \A i \in those(k + 1) : (\A j \in those(k + 1) : j <= i) => i = k + 1
    BY <2>1
  <2>3. last(k + 1) = k + 1
    <3> HIDE DEF those
    <3> QED
      BY <2>1, <2>2
  <2>4. those(k + 1) # {}
    BY <2>1
  <2> HIDE DEF those, last
  <2> QED
    BY <1>1, <1>2, <2>3, <2>4
<1>3. CASE ~Mentions(s[k + 1], x)
  <2>1. those(k + 1) = those(k)
    BY <1>3
  <2>2. last(k + 1) = last(k)
    BY <2>1
  <2> HIDE DEF those, last
  <2> QED
    BY <1>1, <1>3, <2>1, <2>2
<1> QED
  BY <1>2, <1>3

(* The routes are what the messages handled so far say, and the flags are  *)
(* their progress.                                                         *)
ViewRight == rib = [x \in Prefixes |-> LastWord(script, handled, x)]

FlagsRight ==
  /\ opened <=> \E i \in 1 .. handled : Opens(script[i])
  /\ established <=> \E i, j \in 1 .. handled :
                       i < j /\ Opens(script[i]) /\ Confirms(script[j])

PeerInv == TypeOK /\ ViewRight /\ FlagsRight

(* A message that mentions no prefix changes no route, an UPDATE those it  *)
(* mentions.                                                               *)
LEMMA ViewStep ==
  ASSUME TypeOK, ViewRight, handled' = handled + 1, UNCHANGED script,
         IF Next1.kind = "UPDATE" THEN rib' = Apply(Next1.body) ELSE UNCHANGED rib
  PROVE  ViewRight'
<1>1. handled \in Nat
  BY LengthTypes DEF TypeOK
<1>2. \A x \in Prefixes :
        LastWord(script, handled + 1, x) =
          IF Mentions(Next1, x) THEN Says(Next1, x) ELSE rib[x]
  BY <1>1, LastWordStep DEF ViewRight, Next1
<1>3. CASE Next1.kind = "UPDATE"
  <2>1. \A x \in Prefixes :
          LastWord(script, handled + 1, x) =
            IF x \in Next1.body.announced THEN RouteOf(Next1.body)
            ELSE IF x \in Next1.body.withdrawn THEN None ELSE rib[x]
    BY <1>2, <1>3 DEF Mentions, Says
  <2>2. rib' = [x \in Prefixes |-> LastWord(script, handled + 1, x)]
    BY <1>3, <2>1 DEF Apply
  <2> QED
    BY <2>2 DEF ViewRight
<1>4. CASE Next1.kind # "UPDATE"
  <2>1. \A x \in Prefixes : LastWord(script, handled + 1, x) = LastWord(script, handled, x)
    BY <1>2, <1>4 DEF Mentions, ViewRight
  <2> QED
    BY <1>4, <2>1 DEF ViewRight
<1> QED
  BY <1>3, <1>4

(* The flags follow the message that is handled.                           *)
LEMMA FlagStep ==
  ASSUME TypeOK, FlagsRight, handled' = handled + 1, UNCHANGED script,
         opened' = (opened \/ Opens(Next1)),
         established' = (established \/ Confirms(Next1)),
         Confirms(Next1) => opened
  PROVE  FlagsRight'
<1>1. handled \in Nat /\ Next1 = script[handled + 1]
  BY LengthTypes DEF TypeOK, Next1
<1>2. \A i : i \in 1 .. handled + 1 <=> i \in 1 .. handled \/ i = handled + 1
  BY <1>1
<1>3. opened' <=> \E i \in 1 .. handled + 1 : Opens(script[i])
  BY <1>1, <1>2 DEF FlagsRight
<1>4. (\E i, j \in 1 .. handled + 1 : i < j /\ Opens(script[i]) /\ Confirms(script[j]))
      <=> \/ \E i, j \in 1 .. handled : i < j /\ Opens(script[i]) /\ Confirms(script[j])
          \/ \E i \in 1 .. handled : Opens(script[i]) /\ Confirms(script[handled + 1])
  BY <1>1
<1>5. established' <=> \E i, j \in 1 .. handled + 1 :
                        i < j /\ Opens(script[i]) /\ Confirms(script[j])
  BY <1>1, <1>4 DEF FlagsRight
<1> QED
  BY <1>3, <1>5 DEF FlagsRight, Opens, Confirms

(* Every step of the receiver keeps its routes and flags right: only whole *)
(* messages that belong there change them.                                 *)
LEMMA PeerStep == PeerInv /\ [Next]_vars => PeerInv'
<1> SUFFICES ASSUME PeerInv, [Next]_vars PROVE PeerInv'
  OBVIOUS
<1> USE DEF PeerInv
<1>1. TypeOK'
  BY TypeStep
<1>2. CASE UNCHANGED <<script, session>>
  BY <1>1, <1>2 DEF ViewRight, FlagsRight, session
<1>3. CASE HandleOpen /\ Handle /\ Next1.good
  <2>1. Opens(Next1) /\ ~Confirms(Next1) /\ Next1.kind # "UPDATE"
    BY <1>3 DEF HandleOpen, Opens, Confirms
  <2>2. /\ handled' = handled + 1 /\ UNCHANGED <<script, rib, established>>
        /\ opened' = TRUE
    BY <1>3 DEF HandleOpen, Handle, stream
  <2>3. ViewRight'
    BY <2>1, <2>2, ViewStep
  <2>4. FlagsRight'
    BY <2>1, <2>2, FlagStep DEF TypeOK
  <2> QED
    BY <1>1, <2>3, <2>4
<1>4. CASE HandleKeepalive /\ Handle /\ Next1.good /\ opened
  <2>1. ~Opens(Next1) /\ Confirms(Next1) /\ Next1.kind # "UPDATE"
    BY <1>4 DEF HandleKeepalive, Opens, Confirms
  <2>2. /\ handled' = handled + 1 /\ UNCHANGED <<script, rib, opened>>
        /\ established' = TRUE
    BY <1>4 DEF HandleKeepalive, Handle, stream
  <2>3. ViewRight'
    BY <2>1, <2>2, ViewStep
  <2>4. FlagsRight'
    BY <1>4, <2>1, <2>2, FlagStep DEF TypeOK
  <2> QED
    BY <1>1, <2>3, <2>4
<1>5. CASE HandleUpdate /\ Handle /\ ~Raises(Next1.body)
  <2>1. ~Opens(Next1) /\ ~Confirms(Next1) /\ Next1.kind = "UPDATE"
    BY <1>5 DEF HandleUpdate, Opens, Confirms
  <2>2. /\ handled' = handled + 1 /\ UNCHANGED <<script, opened, established>>
        /\ rib' = Apply(Next1.body)
    BY <1>5 DEF HandleUpdate, Handle, stream
  <2>3. ViewRight'
    BY <2>1, <2>2, ViewStep
  <2>4. FlagsRight'
    BY <2>1, <2>2, FlagStep DEF TypeOK
  <2> QED
    BY <1>1, <2>3, <2>4
<1>6. \/ UNCHANGED <<script, session>>
      \/ HandleOpen /\ Handle /\ Next1.good
      \/ HandleKeepalive /\ Handle /\ Next1.good /\ opened
      \/ HandleUpdate /\ Handle /\ ~Raises(Next1.body)
  BY DEF Next, Feed, Receive, ReceiveEnd, Return, RaiseBroken, RaiseNotification, RaiseUnknown,
         HandleOpen, HandleKeepalive, HandleUpdate, Raise, Done, vars, stream, session
<1> QED
  BY <1>2, <1>3, <1>4, <1>5, <1>6

(* The receiver starts without routes and flags, as nothing has been said. *)
LEMMA PeerStart == Init => PeerInv
<1> SUFFICES ASSUME Init PROVE PeerInv
  OBVIOUS
<1>1. handled = 0 /\ 1 .. 0 = {}
  BY DEF Init
<1>2. \A x \in Prefixes : LastWord(script, 0, x) = None
  BY <1>1 DEF LastWord
<1>3. ViewRight
  BY <1>1, <1>2 DEF ViewRight, Init
<1>4. FlagsRight
  BY <1>1 DEF FlagsRight, Init
<1> QED
  BY <1>3, <1>4, InitialType DEF PeerInv

(* What the receiver holds is at all times what it has handled.            *)
LEMMA PeerInvariant == Spec => []PeerInv
BY PeerStart, PeerStep, PTL DEF Spec

(* The flags tell how far the handshake is.                                *)
LEMMA SessionIsProgress ==
  ASSUME PeerInv, error = "none"
  PROVE  Session = Progress(script, handled)
<1>1. established => opened
  BY DEF PeerInv, FlagsRight
<1>2. Session = IF established THEN "established" ELSE IF opened THEN "opened" ELSE "connected"
  BY <1>1 DEF Session, PeerInv, TypeOK
<1> QED
  BY <1>2 DEF Progress, PeerInv, FlagsRight

(* The same at the end of a step.                                          *)
LEMMA SessionIsProgressNext ==
  ASSUME PeerInv', error' = "none"
  PROVE  Session' = Progress(script', handled')
<1>1. established' => opened'
  BY DEF PeerInv, FlagsRight
<1>2. Session' = IF established' THEN "established"
                 ELSE IF opened' THEN "opened" ELSE "connected"
  BY <1>1 DEF Session, PeerInv, TypeOK
<1> QED
  BY <1>2 DEF Progress, PeerInv, FlagsRight

(* The promise and the receiver speak of the same messages.                *)
LEMMA SameWords ==
  /\ \A m, p : Promise!Belongs(m, p) = Belongs(m, p)
  /\ \A s, k : Promise!Progress(s, k) = Progress(s, k)
  /\ \A s, k, x : Promise!LastWord(s, k, x) = LastWord(s, k, x)
<1>1. \A u, c : Promise!Value(u, c) = Value(u, c)
  BY DEF Promise!Value, Value
<1>2. \A m : Promise!Opens(m) = Opens(m) /\ Promise!Confirms(m) = Confirms(m)
  BY DEF Promise!Opens, Opens, Promise!Confirms, Confirms
<1>3. \A u : Promise!Raises(u) = Raises(u)
  BY <1>1 DEF Promise!Raises, Raises, Promise!ORIGIN, Promise!AS_PATH, ORIGIN, AS_PATH
<1>4. \A u : Promise!RouteOf(u) = RouteOf(u)
  BY <1>1 DEF Promise!RouteOf, RouteOf, Promise!ORIGIN, Promise!AS_PATH, ORIGIN, AS_PATH
<1>5. \A m, x : Promise!Mentions(m, x) = Mentions(m, x) /\ Promise!Says(m, x) = Says(m, x)
  BY <1>4 DEF Promise!Mentions, Mentions, Promise!Says, Says
<1>6. \A m, p : Promise!Belongs(m, p) = Belongs(m, p)
  BY <1>2, <1>3 DEF Promise!Belongs, Belongs
<1>7. \A s, k : Promise!Progress(s, k) = Progress(s, k)
  BY <1>2 DEF Promise!Progress, Progress
<1>8. ASSUME NEW s, NEW k, NEW x
      PROVE  Promise!LastWord(s, k, x) = LastWord(s, k, x)
  <2> DEFINE those == {i \in 1 .. k : Mentions(s[i], x)}
             pthose == {i \in 1 .. k : Promise!Mentions(s[i], x)}
             lastOf(S) == CHOOSE i \in S : \A j \in S : j <= i
  <2>1. pthose = those
    BY <1>5
  <2>2. Promise!LastWord(s, k, x) =
          IF pthose = {} THEN None ELSE Promise!Says(s[lastOf(pthose)], x)
    BY DEF Promise!LastWord
  <2>3. LastWord(s, k, x) = IF those = {} THEN None ELSE Says(s[lastOf(those)], x)
    BY DEF LastWord
  <2> HIDE DEF those, pthose, lastOf
  <2> QED
    BY <1>5, <2>1, <2>2, <2>3
<1> QED
  BY <1>6, <1>7, <1>8

(* For all scripts and cuts, Peer.feed keeps the promise of a receiver of  *)
(* whole messages (route_wire.py:177-207): the routes of the observer are  *)
(* what the messages before the first wrong one say, and nothing else.     *)
THEOREM PromiseIsKept == Spec => KeepsPromise
<1>1. ASSUME Init
      PROVE  Promise!PInit
  <2>1. Session = "connected"
    BY <1>1 DEF Session, Init
  <2> QED
    BY <1>1, <2>1 DEF Init, Promise!PInit
<1>2. ASSUME PeerInv, [Next]_vars
      PROVE  [Promise!PNext]_(Promise!pvars)
  <2>1. PeerInv' /\ TypeOK /\ TypeOK'
    BY <1>2, PeerStep DEF PeerInv
  <2>2. handled \in Nat /\ Len(script) \in Nat
    BY <2>1, LengthTypes DEF TypeOK
  <2>3. ASSUME UNCHANGED <<script, session, error>>
        PROVE  UNCHANGED Promise!pvars
    BY <2>3 DEF Promise!pvars, Session, session
  <2>4. ASSUME error = "none", Raise("EOF"), UNCHANGED stream
        PROVE  Promise!Lose
    <3>1. Session' = "lost" /\ Session \notin {"refused", "lost"}
      BY <2>1, <2>4 DEF Session, Raise, TypeOK, PeerInv, FlagsRight
    <3> QED
      BY <2>4, <3>1 DEF Promise!Lose, Promise!Open, Raise, session, stream
  <2>5. ASSUME NEW what \in {"ConnectionError", "ValueError"}, error = "none", Raise(what),
               UNCHANGED stream, handled < Len(script),
               ~Belongs(Next1, Progress(script, handled))
        PROVE  Promise!Refuse
    <3>1. Session = Progress(script, handled)
      BY <1>2, <2>5, SessionIsProgress
    <3>2. Session' = "refused" /\ Session \notin {"refused", "lost"}
      BY <2>5, <3>1 DEF Session, Raise, Progress
    <3> QED
      BY <2>5, <3>1, <3>2, SameWords DEF Promise!Refuse, Promise!Open, Raise, session, stream, Next1
  <2>6. ASSUME error = "none", Handle, handled < Len(script), UNCHANGED script,
               Belongs(Next1, Progress(script, handled))
        PROVE  Promise!Take
    <3>1. Session = Progress(script, handled)
      BY <1>2, <2>6, SessionIsProgress
    <3>2. error' = "none" /\ handled' = handled + 1
      BY <2>6 DEF Handle
    <3>3. Session' = Progress(script', handled')
      BY <2>1, <3>2, SessionIsProgressNext
    <3>4. rib' = [x \in Prefixes |-> LastWord(script', handled', x)]
      BY <2>1 DEF PeerInv, ViewRight
    <3>5. Session \notin {"refused", "lost"}
      BY <3>1 DEF Progress
    <3> QED
      BY <2>6, <3>1, <3>2, <3>3, <3>4, <3>5, SameWords DEF Promise!Take, Promise!Open, Next1
  <2>7. pc \in {"recv", "feed"} => error = "none"
    BY <2>1 DEF TypeOK
  <2>8. HeaderThere => handled < Len(script)
    BY <2>1, <2>2 DEF HeaderThere, TypeOK
  <2>9. Complete => handled < Len(script)
    BY <2>1, <2>2 DEF Complete, TypeOK
  <2>10. ~opened => Progress(script, handled) = "connected"
    BY <1>2 DEF PeerInv, FlagsRight, Progress
  <2>11. opened => Progress(script, handled) # "connected"
    BY <1>2 DEF PeerInv, FlagsRight, Progress
  <2>12. CASE Return \/ UNCHANGED vars \/ \E k \in 0 .. Len(script), h \in BOOLEAN : Receive(k, h)
    BY <2>3, <2>12 DEF Return, Receive, vars, stream, session
  <2>13. CASE ReceiveEnd
    BY <2>4, <2>7, <2>13 DEF ReceiveEnd, Promise!PNext
  <2>14. CASE RaiseBroken \/ RaiseNotification \/ RaiseUnknown
    <3>1. ~Belongs(Next1, Progress(script, handled))
      BY <2>14 DEF RaiseBroken, RaiseNotification, RaiseUnknown, Belongs, Opens, Confirms
    <3> QED
      BY <2>5, <2>7, <2>8, <2>9, <2>14, <3>1
         DEF RaiseBroken, RaiseNotification, RaiseUnknown, Promise!PNext
  <2>15. CASE HandleOpen
    <3>1. CASE Next1.good
      BY <2>6, <2>7, <2>9, <2>15, <3>1 DEF HandleOpen, Handle, stream, Belongs, Opens, Promise!PNext
    <3>2. CASE ~Next1.good
      <4>1. ~Belongs(Next1, Progress(script, handled))
        BY <2>15, <3>2 DEF HandleOpen, Belongs, Opens, Confirms
      <4> QED
        BY <2>5, <2>7, <2>9, <2>15, <3>2, <4>1 DEF HandleOpen, Promise!PNext
    <3> QED
      BY <3>1, <3>2
  <2>16. CASE HandleKeepalive
    <3>1. CASE Next1.good /\ opened
      BY <2>6, <2>7, <2>9, <2>11, <2>16, <3>1
         DEF HandleKeepalive, Handle, stream, Belongs, Confirms, Promise!PNext
    <3>2. CASE ~(Next1.good /\ opened)
      <4>1. ~Belongs(Next1, Progress(script, handled))
        BY <2>10, <2>16, <3>2 DEF HandleKeepalive, Belongs, Opens, Confirms
      <4> QED
        BY <2>5, <2>7, <2>9, <2>16, <3>2, <4>1 DEF HandleKeepalive, Promise!PNext
    <3> QED
      BY <3>1, <3>2
  <2>17. CASE HandleUpdate
    <3>1. CASE ~Raises(Next1.body)
      BY <2>6, <2>7, <2>9, <2>17, <3>1 DEF HandleUpdate, Handle, stream, Belongs, Promise!PNext
    <3>2. CASE Raises(Next1.body)
      <4>1. ~Belongs(Next1, Progress(script, handled))
        BY <2>17, <3>2 DEF HandleUpdate, Belongs, Opens, Confirms
      <4> QED
        BY <2>5, <2>7, <2>9, <2>17, <3>2, <4>1 DEF HandleUpdate, Promise!PNext
    <3> QED
      BY <3>1, <3>2
  <2> QED
    BY <1>2, <2>12, <2>13, <2>14, <2>15, <2>16, <2>17 DEF Next, Feed, Done
<1> QED
  BY <1>1, <1>2, PeerInvariant, PTL DEF Spec, KeepsPromise, Promise!PSpec

(***************************************************************************)
(* A conforming daemon                                                     *)
(***************************************************************************)

(* Nothing that a conforming daemon sends is refused, for all scripts and  *)
(* cuts ("unexpected messages fail the run", route_wire.py:4: only those). *)
THEOREM ConformingIsTaken == Spec => []NoFalseAlarm
<1>1. Init => NoFalseAlarm
  BY DEF Init, NoFalseAlarm
<1>2. ASSUME PeerInv, NoFalseAlarm, [Next]_vars
      PROVE  NoFalseAlarm'
  <2>1. script' = script /\ TypeOK /\ handled \in Nat /\ Len(script) \in Nat
    BY <1>2, LengthTypes
       DEF PeerInv, TypeOK, Next, Feed, Receive, ReceiveEnd, Return, RaiseBroken,
           RaiseNotification, RaiseUnknown, HandleOpen, HandleKeepalive, HandleUpdate,
           Handle, Raise, Done, vars, stream, session
  <2> SUFFICES ASSUME Conforming, error' \notin {"none", "EOF"}
               PROVE  FALSE
    BY <2>1 DEF NoFalseAlarm, Conforming
  <2>2. error \in {"none", "EOF"}
    BY <1>2 DEF NoFalseAlarm
  <2>3. (HeaderThere \/ Complete) => handled + 1 \in 1 .. Len(script)
    BY <2>1 DEF HeaderThere, Complete, TypeOK
  <2>4. (HeaderThere \/ Complete) =>
          \/ handled = 0 /\ Opens(Next1)
          \/ handled > 0 /\ Confirms(Next1)
          \/ handled > 0 /\ Next1.kind = "UPDATE" /\ WellFormed(Next1.body)
    BY <2>1, <2>3 DEF Conforming, Next1
  <2>5. handled > 0 => opened
    <3>1. ASSUME handled > 0
          PROVE  1 \in 1 .. handled /\ 1 \in 1 .. Len(script)
      BY <2>1, <3>1 DEF TypeOK
    <3>2. handled > 0 => Opens(script[1])
      BY <3>1 DEF Conforming
    <3> QED
      BY <1>2, <3>1, <3>2 DEF PeerInv, FlagsRight
  <2>6. Complete /\ Next1.kind = "UPDATE" => ~Raises(Next1.body)
    <3>1. Complete /\ Next1.kind = "UPDATE" => WellFormed(Next1.body) /\ Next1.body \in Body
      BY <2>1, <2>3, <2>4, MessageTypes DEF Opens, Confirms
    <3> QED
      BY <3>1, WellFormedIsTaken
  <2>7. \/ RaiseBroken \/ RaiseNotification \/ RaiseUnknown
        \/ HandleOpen /\ ~Next1.good
        \/ HandleKeepalive /\ ~(Next1.good /\ opened)
        \/ HandleUpdate /\ Raises(Next1.body)
    BY <1>2, <2>2 DEF Next, Feed, Receive, ReceiveEnd, Return, HandleOpen, HandleKeepalive,
       HandleUpdate, Handle, Raise, Done, vars
  <2> QED
    BY <2>4, <2>5, <2>6, <2>7
       DEF RaiseBroken, RaiseNotification, RaiseUnknown, HandleOpen, HandleKeepalive,
           HandleUpdate, Opens, Confirms
<1> QED
  BY <1>1, <1>2, PeerInvariant, PTL DEF Spec

=============================================================================
