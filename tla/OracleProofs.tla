---------------------------- MODULE OracleProofs ----------------------------
(***************************************************************************)
(* Proofs about the RFC oracle, for any UPDATEs and OPENs in any context:  *)
(* TLC checks lists of a few attributes and strings of a few bytes.        *)
(*                                                                         *)
(* The verdict is for the most severe of all faults, and these are the     *)
(* faults that the requirements, read one by one, ask for.  The loops over *)
(* bytes accept just the strings of the grammars: a loop reads forwards    *)
(* from a position, the grammar backwards from the end, and both say that  *)
(* the pieces lead from the start to the end (ThereAndBack).               *)
(*                                                                         *)
(* The second half is about what the oracle is asked (Packets), for any    *)
(* arguments of the builders: the bytes of an UPDATE are read back as its  *)
(* attributes (UpdateIsRead), by finding each attribute at its offset in   *)
(* what is joined (Placed), and the faults of the packets of the lab and   *)
(* of the graceful-restart runners are those that were put there.          *)
(***************************************************************************)
EXTENDS Packets, SequenceTheorems, WellFoundedInduction, TLAPS

(***************************************************************************)
(* Severity                                                                *)
(***************************************************************************)

(* Some action is the most severe of any.                                  *)
LEMMA MostSevereExists ==
  ASSUME NEW S \in SUBSET ParseResult, S # {}
  PROVE  \E r \in S : \A q \in S : Severity(r) <= Severity(q)
<1>1. /\ Severity("SESSION_RESET") = 1 /\ Severity("AFI_SAFI_DISABLE") = 2
      /\ Severity("TREAT_AS_WITHDRAW") = 3 /\ Severity("ATTRIBUTE_DISCARD") = 4
      /\ Severity("IMPL_CHOICE") = 5 /\ Severity("VALID") = 6
  BY DEF Severity
<1>2. PICK r \in S : TRUE
  OBVIOUS
<1> QED
  BY <1>1, <1>2 DEF ParseResult

(* keep_most_severe gives one of its arguments, none of them more severe.  *)
LEMMA KeepsMostSevere ==
  ASSUME NEW faults \in SUBSET ParseResult, NEW current \in ParseResult
  PROVE  LET r == keep_most_severe(faults, current)
         IN  /\ r \in faults \cup {current}
             /\ \A q \in faults \cup {current} : Severity(r) <= Severity(q)
<1> DEFINE S == faults \cup {current}
<1>1. S \in SUBSET ParseResult /\ S # {}
  OBVIOUS
<1> HIDE DEF S
<1>2. \E r \in S : \A q \in S : Severity(r) <= Severity(q)
  BY <1>1, MostSevereExists
<1> QED
  BY <1>2 DEF keep_most_severe, S

(* A severity is a number, so that severities compare.                     *)
LEMMA SeverityTypes == \A r : Severity(r) \in 1 .. 6
BY DEF Severity

(* Keeping the most severe of more faults keeps the most severe of all     *)
(* (parse_attributes.fault).                                               *)
LEMMA KeepingAccumulates ==
  ASSUME NEW old \in SUBSET ParseResult, NEW new \in SUBSET ParseResult,
         NEW r, IsMostSevere(r, old)
  PROVE  /\ keep_most_severe(new, r) \in ParseResult
         /\ IsMostSevere(keep_most_severe(new, r), old \cup new)
<1> DEFINE k == keep_most_severe(new, r)
<1>1. r \in ParseResult
  BY DEF IsMostSevere, ParseResult
<1>2. k \in new \cup {r} /\ \A q \in new \cup {r} : Severity(k) <= Severity(q)
  BY <1>1, KeepsMostSevere
<1>3. \A q \in old : Severity(r) <= Severity(q)
  BY DEF IsMostSevere
<1> HIDE DEF k
<1>4. \A q \in old \cup new : Severity(k) <= Severity(q)
  BY <1>2, <1>3, SeverityTypes
<1>5. k \in (old \cup new) \cup {"VALID"}
  BY <1>2 DEF IsMostSevere
<1> QED
  BY <1>1, <1>2, <1>4, <1>5 DEF IsMostSevere, k

(***************************************************************************)
(* Faults                                                                  *)
(***************************************************************************)

(* What is wrong with an attribute is answered by actions short of a reset *)
(* of the session, but for the choice the tester made.                     *)
LEMMA FaultsOfAttribute ==
  ASSUME NEW a \in BGPPathAttr, NEW c \in Context
  PROVE  AttributeFaults(a, c) \subseteq
           {"TREAT_AS_WITHDRAW", "ATTRIBUTE_DISCARD", "AFI_SAFI_DISABLE", c.impl_choice}
<1> DEFINE Soft == {"TREAT_AS_WITHDRAW", "ATTRIBUTE_DISCARD", "AFI_SAFI_DISABLE",
                    c.impl_choice}
<1>1. \A b : /\ Withdraw(b) \subseteq Soft /\ Discard(b) \subseteq Soft
             /\ Disable(b) \subseteq Soft /\ Fault(b, c.impl_choice) \subseteq Soft
  BY DEF Withdraw, Discard, Disable, Fault
<1> HIDE DEF Soft
<1>2. a.type_code \in {ORIGIN, AS_PATH, NEXT_HOP} => Mandatory(a, c) \subseteq Soft
  BY <1>1 DEF Mandatory
<1>3. Multiprotocol(a, c) \subseteq Soft
  BY <1>1 DEF Multiprotocol
<1>4. a.type_code \in {5, 9, 10} => Internal(a, c) \subseteq Soft
  BY <1>1 DEF Internal
<1>5. Unrecognized(a) \subseteq Soft
  BY <1>1 DEF Unrecognized
<1>6. AttributeFaults(a, c) \subseteq Soft
  BY <1>1, <1>2, <1>3, <1>4, <1>5 DEF AttributeFaults
<1> QED
  BY <1>6 DEF Soft

(* The faults of an attribute and of a duplicate are actions.              *)
LEMMA FaultsAreResults ==
  ASSUME NEW a \in BGPPathAttr, NEW c \in Context
  PROVE  AttributeFaults(a, c) \subseteq ParseResult /\ DuplicateFaults(a) \subseteq ParseResult
<1>1. c.impl_choice \in ParseResult
  BY DEF Context, ParseResult
<1> QED
  BY <1>1, FaultsOfAttribute DEF ParseResult, DuplicateFaults, Fault

(* So are the faults of what is missing.                                   *)
LEMMA MissingFaultsAreResults ==
  ASSUME NEW present, NEW c
  PROVE  MissingFaults(present, c) \subseteq ParseResult
BY DEF MissingFaults, Withdraw, Fault, ParseResult

(***************************************************************************)
(* Types                                                                   *)
(***************************************************************************)

(* Each step keeps the type of the state.                                  *)
LEMMA TypeStep ==
  ASSUME TypeOK, [Next]_vars
  PROVE  TypeOK'
<1>1. context \in Context /\ Len(attrs) \in Nat
  BY DEF TypeOK
<1>2. \A faults \in SUBSET ParseResult :
        keep_most_severe(faults, final_result) \in ParseResult
  BY KeepsMostSevere DEF TypeOK
<1>3. ASSUME i <= Len(attrs) PROVE attrs[i] \in BGPPathAttr
  BY <1>1, <1>3 DEF TypeOK
<1>4. CASE ParseAttribute
  BY <1>1, <1>2, <1>3, <1>4, FaultsAreResults DEF ParseAttribute, TypeOK
<1>5. CASE DiscardDuplicate
  BY <1>1, <1>2, <1>3, <1>5, FaultsAreResults DEF DiscardDuplicate, TypeOK
<1>6. CASE CheckMandatory
  BY <1>2, <1>6, MissingFaultsAreResults DEF CheckMandatory, TypeOK
<1>7. CASE ParseOpen
  BY <1>7 DEF ParseOpen, TypeOK, ParseResult
<1>8. CASE Done \/ UNCHANGED vars
  BY <1>8 DEF Done, vars, TypeOK
<1> QED
  BY <1>4, <1>5, <1>6, <1>7, <1>8 DEF Next

(* It has this type when the oracle is asked.                              *)
LEMMA TypeFirst ==
  ASSUME Init
  PROVE  TypeOK
<1>1. <<>> \in Seq(BGPPathAttr) /\ <<>> \in Seq(Byte)
  OBVIOUS
<1>2. attrs \in Seq(BGPPathAttr) /\ context \in Context /\ opt_params \in Seq(Byte)
  BY <1>1, OracleAssumption DEF Init, InitUpdate, InitOpen
<1>3. i \in 1 .. Len(attrs) + 1
  <2>1. i = 1 /\ Len(attrs) \in Nat
    BY <1>2 DEF Init, InitUpdate, InitOpen
  <2> QED
    BY <2>1
<1> QED
  BY <1>2, <1>3 DEF Init, InitUpdate, InitOpen, TypeOK, ParseResult

(* The state of the oracle has its type in every reachable state.          *)
THEOREM TypeCorrect == Spec => []TypeOK
BY TypeFirst, TypeStep, PTL DEF Spec

(***************************************************************************)
(* The verdict                                                             *)
(***************************************************************************)

(* The flags of the code say which mandatory attributes came so far.       *)
SeenSoFar ==
  seen = {attrs[k].type_code : k \in 1 .. i - 1} \cap {ORIGIN, AS_PATH, NEXT_HOP, MP_REACH}

(* The verdict so far is for the faults so far, in the loop and behind it. *)
SevereSoFar ==
  /\ pc = "attributes" => IsMostSevere(final_result, FaultsUpTo(i - 1)) /\ SeenSoFar
  /\ VerdictIsMostSevere

(* The faults of the first n attributes, one by one.                       *)
LEMMA OneMoreFault ==
  ASSUME TypeOK, i <= Len(attrs)
  PROVE  FaultsUpTo(i) = FaultsUpTo(i - 1) \cup
           (IF First(i) THEN AttributeFaults(attrs[i], context) ELSE DuplicateFaults(attrs[i]))
<1>1. i \in Nat /\ i >= 1 /\ 1 .. i = (1 .. i - 1) \cup {i}
  BY DEF TypeOK
<1> QED
  BY <1>1 DEF FaultsUpTo

(* The faults of the first attributes are actions.                         *)
LEMMA FaultsUpToAreResults ==
  ASSUME TypeOK, NEW n \in Nat, n <= Len(attrs)
  PROVE  FaultsUpTo(n) \in SUBSET ParseResult
<1>1. context \in Context
  BY DEF TypeOK
<1>2. \A k \in 1 .. n : attrs[k] \in BGPPathAttr
  BY DEF TypeOK
<1>3. \A k \in 1 .. n : /\ AttributeFaults(attrs[k], context) \subseteq ParseResult
                        /\ DuplicateFaults(attrs[k]) \subseteq ParseResult
  BY <1>1, <1>2, FaultsAreResults
<1> QED
  BY <1>3 DEF FaultsUpTo

(* One attribute more: its faults are counted, and its type is seen.       *)
LEMMA AttributeStep ==
  ASSUME TypeOK, SevereSoFar, ParseAttribute \/ DiscardDuplicate
  PROVE  SevereSoFar'
<1> DEFINE new == IF First(i) THEN AttributeFaults(attrs[i], context)
                              ELSE DuplicateFaults(attrs[i])
<1>1. /\ pc = "attributes" /\ i <= Len(attrs) /\ i' = i + 1 /\ i \in Nat /\ i >= 1
      /\ UNCHANGED <<pc, attrs, context, opt_params>>
  BY DEF ParseAttribute, DiscardDuplicate, TypeOK
<1>2. is_duplicate <=> ~First(i)
  BY DEF is_duplicate, First
<1>3. final_result' = keep_most_severe(new, final_result)
  BY <1>2 DEF ParseAttribute, DiscardDuplicate
<1>4. FaultsUpTo(i) = FaultsUpTo(i - 1) \cup new
  BY <1>1, OneMoreFault
<1>5. new \in SUBSET ParseResult
  <2>1. context \in Context /\ attrs[i] \in BGPPathAttr
    BY <1>1 DEF TypeOK
  <2> QED
    BY <2>1, FaultsAreResults
<1>6. FaultsUpTo(i - 1) \in SUBSET ParseResult
  BY <1>1, FaultsUpToAreResults
<1>7. IsMostSevere(final_result, FaultsUpTo(i - 1)) /\ SeenSoFar
  BY <1>1 DEF SevereSoFar
<1> HIDE DEF new
<1>8. IsMostSevere(final_result', FaultsUpTo(i))
  BY <1>3, <1>4, <1>5, <1>6, <1>7, KeepingAccumulates
<1>9. (IsMostSevere(final_result, FaultsUpTo(i - 1)))'
  <2>1. i' - 1 = i
    BY <1>1
  <2>2. FaultsUpTo(i - 1)' = FaultsUpTo(i)
    BY <1>1, <2>1 DEF FaultsUpTo, First
  <2> QED
    BY <1>8, <2>2 DEF IsMostSevere
<1>10. SeenSoFar'
  <2> DEFINE Types == {attrs[k].type_code : k \in 1 .. i - 1}
             Noted == {ORIGIN, AS_PATH, NEXT_HOP, MP_REACH}
  <2>1. 1 .. i' - 1 = (1 .. i - 1) \cup {i}
    BY <1>1
  <2>2. {attrs'[k].type_code : k \in 1 .. i' - 1} = Types \cup {attrs[i].type_code}
    BY <1>1, <2>1
  <2>3. seen = Types \cap Noted
    BY <1>7 DEF SeenSoFar
  <2>4. seen' = (Types \cup {attrs[i].type_code}) \cap Noted
    <3> HIDE DEF Types
    <3>1. CASE ParseAttribute
      <4>1. seen' = seen \cup ({attrs[i].type_code} \cap Noted)
        BY <3>1 DEF ParseAttribute
      <4> HIDE DEF Noted
      <4> QED
        BY <2>3, <4>1
    <3>2. CASE DiscardDuplicate
      <4>1. attrs[i].type_code \in Types /\ seen' = seen
        BY <3>2 DEF DiscardDuplicate, is_duplicate, Types
      <4> QED
        BY <2>3, <4>1
    <3> QED
      BY <3>1, <3>2
  <2> QED
    BY <2>2, <2>4 DEF SeenSoFar
<1>11. pc' # "update_done"
  BY <1>1
<1>12. VerdictIsMostSevere'
  BY <1>11 DEF VerdictIsMostSevere
<1> QED
  BY <1>9, <1>10, <1>12 DEF SevereSoFar

(* Behind the loop: what is missing of all attributes is what was not seen.*)
LEMMA MandatoryStep ==
  ASSUME TypeOK, SevereSoFar, CheckMandatory
  PROVE  SevereSoFar'
<1>1. /\ pc = "attributes" /\ pc' = "update_done" /\ i = Len(attrs) + 1
      /\ UNCHANGED <<attrs, context, opt_params, i, seen>>
      /\ final_result' = keep_most_severe(MissingFaults(seen, context), final_result)
  BY DEF CheckMandatory, TypeOK
<1>2. i - 1 = Len(attrs) /\ Len(attrs) \in Nat
  BY <1>1 DEF TypeOK
<1>3. seen = Present \cap {ORIGIN, AS_PATH, NEXT_HOP, MP_REACH}
  BY <1>1, <1>2 DEF SevereSoFar, SeenSoFar, Present
<1>4. MissingFaults(seen, context) = MissingFaults(Present, context)
  BY <1>3 DEF MissingFaults
<1>5. IsMostSevere(final_result, FaultsUpTo(Len(attrs)))
  BY <1>1, <1>2 DEF SevereSoFar
<1>6. FaultsUpTo(Len(attrs)) \in SUBSET ParseResult
  BY <1>2, FaultsUpToAreResults
<1>7. IsMostSevere(final_result',
                   FaultsUpTo(Len(attrs)) \cup MissingFaults(Present, context))
  BY <1>1, <1>4, <1>5, <1>6, MissingFaultsAreResults, KeepingAccumulates
<1>8. /\ FaultsUpTo(Len(attrs))' = FaultsUpTo(Len(attrs)) /\ Present' = Present
      /\ MissingFaults(Present, context)' = MissingFaults(Present, context)
  BY <1>1 DEF FaultsUpTo, First, Present, MissingFaults
<1> QED
  BY <1>1, <1>7, <1>8 DEF SevereSoFar, VerdictIsMostSevere, IsMostSevere

(* Each step keeps that the verdict so far is the most severe.             *)
LEMMA SevereStep ==
  ASSUME TypeOK, SevereSoFar, [Next]_vars
  PROVE  SevereSoFar'
<1>1. CASE ParseAttribute \/ DiscardDuplicate
  BY <1>1, AttributeStep
<1>2. CASE CheckMandatory
  BY <1>2, MandatoryStep
<1>3. CASE ParseOpen
  BY <1>3 DEF ParseOpen, SevereSoFar, VerdictIsMostSevere
<1>4. CASE Done \/ UNCHANGED vars
  <2>1. UNCHANGED <<pc, attrs, context, opt_params, i, seen, final_result>>
    BY <1>4 DEF Done, vars
  <2>2. /\ FaultsUpTo(i - 1)' = FaultsUpTo(i - 1)
        /\ FaultsUpTo(Len(attrs))' = FaultsUpTo(Len(attrs))
    BY <2>1 DEF FaultsUpTo, First
  <2>3. MissingFaults(Present, context)' = MissingFaults(Present, context)
    BY <2>1 DEF MissingFaults, Present
  <2>4. SeenSoFar' = SeenSoFar
    BY <2>1 DEF SeenSoFar
  <2> QED
    BY <2>1, <2>2, <2>3, <2>4 DEF SevereSoFar, VerdictIsMostSevere, IsMostSevere
<1> QED
  BY <1>1, <1>2, <1>3, <1>4 DEF Next

(* Before the first attribute nothing is wrong.                            *)
LEMMA SevereFirst ==
  ASSUME pc \in {"attributes", "open"}, i = 1, seen = {}, final_result = "VALID"
  PROVE  SevereSoFar
<1>1. FaultsUpTo(0) = {}
  BY DEF FaultsUpTo
<1>2. IsMostSevere("VALID", {})
  BY DEF IsMostSevere
<1>3. IsMostSevere(final_result, FaultsUpTo(i - 1))
  <2>1. i - 1 = 0
    OBVIOUS
  <2> QED
    BY <1>1, <1>2, <2>1
<1>4. SeenSoFar
  BY DEF SeenSoFar
<1> QED
  BY <1>3, <1>4 DEF SevereSoFar, VerdictIsMostSevere

(* The verdict is the most severe action for all that is wrong or missing, *)
(* for UPDATEs of any length (parse_attributes).                           *)
THEOREM VerdictIsAlwaysMostSevere == Spec => []VerdictIsMostSevere
<1>1. Init => SevereSoFar
  BY SevereFirst DEF Init, InitUpdate, InitOpen
<1>2. SevereSoFar => VerdictIsMostSevere
  BY DEF SevereSoFar
<1> QED
  BY <1>1, <1>2, SevereStep, TypeCorrect, PTL DEF Spec

(* If the verdict is the most severe, only duplicates reset the session.   *)
LEMMA OnlyDuplicates ==
  ASSUME TypeOK, VerdictIsMostSevere
  PROVE  OnlyDuplicatesReset
<1> SUFFICES ASSUME pc = "update_done", final_result = "SESSION_RESET",
                    context.impl_choice # "SESSION_RESET"
             PROVE  \E k \in 1 .. Len(attrs) :
                      ~First(k) /\ attrs[k].type_code \in {MP_REACH, MP_UNREACH}
  BY DEF OnlyDuplicatesReset
<1>1. "SESSION_RESET" \notin MissingFaults(Present, context)
  BY DEF MissingFaults, Withdraw, Fault
<1>2. "SESSION_RESET" \in FaultsUpTo(Len(attrs))
  BY <1>1 DEF VerdictIsMostSevere, IsMostSevere
<1>3. PICK k \in 1 .. Len(attrs) :
        "SESSION_RESET" \in (IF First(k) THEN AttributeFaults(attrs[k], context)
                                         ELSE DuplicateFaults(attrs[k]))
  BY <1>2 DEF FaultsUpTo
<1>4. context \in Context /\ attrs[k] \in BGPPathAttr
  BY DEF TypeOK
<1>5. "SESSION_RESET" \notin AttributeFaults(attrs[k], context)
  BY <1>4, FaultsOfAttribute
<1>6. ~First(k) /\ "SESSION_RESET" \in DuplicateFaults(attrs[k])
  BY <1>3, <1>5
<1> QED
  BY <1>6 DEF DuplicateFaults, Fault

(* A session is reset for a multiprotocol attribute that comes twice only, *)
(* unless the tester chose otherwise (RFC 7606 3.g in parse_attributes).   *)
THEOREM ResetsAreForDuplicates == Spec => []OnlyDuplicatesReset
BY OnlyDuplicates, TypeCorrect, VerdictIsAlwaysMostSevere, PTL

(***************************************************************************)
(* Reading forwards and backwards                                          *)
(***************************************************************************)

(* Induction on natural numbers, as a property of sets of them.            *)
LEMMA Induction ==
  ASSUME NEW T \in SUBSET Nat, 0 \in T, \A n \in T : n + 1 \in T
  PROVE  T = Nat
<1> DEFINE Less == OpToRel(<, Nat)
           U == Nat \ T
<1> SUFFICES ASSUME U # {} PROVE FALSE
  OBVIOUS
<1>1. IsWellFoundedOn(Less, Nat)
  BY NatLessThanWellFounded
<1>2. \A x, y \in Nat : <<x, y>> \in Less <=> x < y
  BY DEF OpToRel
<1> HIDE DEF Less
<1>3. PICK m \in U : \A k \in U : ~ (<<k, m>> \in Less)
  <2>1. U \subseteq Nat
    OBVIOUS
  <2> HIDE DEF U
  <2> QED
    BY <1>1, <2>1, WFMin
<1>4. m \in Nat /\ m # 0 /\ m - 1 \in Nat /\ m - 1 < m
  BY <1>3
<1>5. m - 1 \in T
  BY <1>2, <1>3, <1>4
<1>6. (m - 1) + 1 \in T
  BY <1>5
<1> QED
  BY <1>3, <1>4, <1>6

(* The positions from which pieces of R lead to e exist, as a set.         *)
Leads(S, D, R, e) ==
  \A s \in D : s \in S <=> s = e \/ \E j \in D : <<s, j>> \in R /\ j \in S

(* There is such a set: the least one that is closed backwards.            *)
LEMMA LeadsExists ==
  ASSUME NEW D, NEW R, NEW e \in D
  PROVE  \E S \in SUBSET D : Leads(S, D, R, e)
<1> DEFINE Closed(T) == /\ e \in T
                        /\ \A s, j \in D : <<s, j>> \in R /\ j \in T => s \in T
           S == {s \in D : \A T \in SUBSET D : Closed(T) => s \in T}
           U == {s \in D : s = e \/ \E j \in D : <<s, j>> \in R /\ j \in S}
<1>1. U \subseteq S
  OBVIOUS
<1>2. Closed(U)
  BY <1>1
<1>3. S \subseteq U
  <2>1. U \in SUBSET D
    OBVIOUS
  <2> HIDE DEF U
  <2> QED
    BY <1>2, <2>1
<1>4. S \in SUBSET D
  OBVIOUS
<1> HIDE DEF S
<1>5. Leads(S, D, R, e)
  BY <1>1, <1>3 DEF Leads
<1> QED
  BY <1>4, <1>5

(* The pieces R lead forward from a to b, the end is reached from F, and C *)
(* is reached from the start.                                              *)
Forward(a, b, R, F, C) ==
  /\ \A s, j \in a .. b : <<s, j>> \in R => s < j
  /\ \A s \in a .. b : s \in F <=> s = b \/ \E j \in a .. b : <<s, j>> \in R /\ j \in F
  /\ \A j \in a .. b : j \in C <=> j = a \/ \E s \in a .. b : <<s, j>> \in R /\ s \in C

(* If the pieces only lead forward, the end is reached from the start just *)
(* when the start is reached from the end, against the pieces.             *)
LEMMA ThereAndBack ==
  ASSUME NEW a \in Nat, NEW b \in Nat, a <= b, NEW R, NEW F, NEW C, Forward(a, b, R, F, C)
  PROVE  a \in F <=> b \in C
<1> USE DEF Forward
<1>1. a \in a .. b /\ b \in a .. b /\ a \in C /\ b \in F
  OBVIOUS
<1>2. ASSUME b \in C PROVE a \in F
  <2> DEFINE T == {n \in Nat : \A j \in a .. b : j <= n /\ j \in C /\ j \in F => a \in F}
  <2>1. 0 \in T
    BY <1>1
  <2>2. ASSUME NEW n \in T PROVE n + 1 \in T
    <3> SUFFICES ASSUME NEW j \in a .. b, j <= n + 1, j \in C, j \in F PROVE a \in F
      OBVIOUS
    <3>1. CASE j = a
      BY <3>1
    <3>2. CASE j # a
      <4>1. PICK s \in a .. b : <<s, j>> \in R /\ s \in C
        BY <3>2
      <4>2. s \in F /\ s < j
        BY <4>1
      <4>3. s <= n
        BY <4>2
      <4> QED
        BY <4>1, <4>2, <4>3
    <3> QED
      BY <3>1, <3>2
  <2> HIDE DEF T
  <2>3. T = Nat
    <3>1. T \in SUBSET Nat
      BY DEF T
    <3> QED
      BY <2>1, <2>2, <3>1, Induction
  <2>4. b \in T
    BY <2>3
  <2> QED
    BY <1>1, <1>2, <2>4 DEF T
<1>3. ASSUME a \in F PROVE b \in C
  <2> DEFINE T == {n \in Nat : \A s \in a .. b : b - s <= n /\ s \in C /\ s \in F => b \in C}
  <2>1. 0 \in T
    <3> SUFFICES ASSUME NEW s \in a .. b, b - s <= 0, s \in C, s \in F PROVE b \in C
      OBVIOUS
    <3>1. s = b
      OBVIOUS
    <3> QED
      BY <3>1
  <2>2. ASSUME NEW n \in T PROVE n + 1 \in T
    <3> SUFFICES ASSUME NEW s \in a .. b, b - s <= n + 1, s \in C, s \in F PROVE b \in C
      OBVIOUS
    <3>1. CASE s = b
      BY <3>1
    <3>2. CASE s # b
      <4>1. PICK j \in a .. b : <<s, j>> \in R /\ j \in F
        BY <3>2
      <4>2. j \in C /\ s < j
        BY <4>1
      <4>3. b - j <= n
        BY <4>2
      <4> QED
        BY <4>1, <4>2, <4>3
    <3> QED
      BY <3>1, <3>2
  <2> HIDE DEF T
  <2>3. T = Nat
    <3>1. T \in SUBSET Nat
      BY DEF T
    <3> QED
      BY <2>1, <2>2, <3>1, Induction
  <2>4. b - a \in T
    BY <2>3
  <2> QED
    BY <1>1, <1>3, <2>4 DEF T
<1> QED
  BY <1>2, <1>3

(***************************************************************************)
(* scan_as_path                                                            *)
(***************************************************************************)
(* The body of the loop of scan_as_path, f being the rest of the loop.     *)
ScanBody(v, size, confed, f, idx) ==
  \/ idx = Len(v)
  \/ /\ idx + 2 <= Len(v)
     /\ v[idx + 1] \in 1 .. 4
     /\ v[idx + 2] # 0
     /\ v[idx + 1] \in {3, 4} => confed
     /\ LET next == idx + 2 + v[idx + 2] * size
        IN  next <= Len(v) /\ f[next]

(* What the LET of scan_as_path defines.                                   *)
Scan(v, size, confed) ==
  CHOOSE f : f = [idx \in 0 .. Len(v) |-> ScanBody(v, size, confed, f, idx)]

(* The body of the grammar of AS paths, and the function it defines.       *)
CutBody(v, size, confed, f, j) ==
  j = 0 \/ \E s \in 0 .. j - 1 : Segment(v, size, confed, s, j) /\ f[s]
Cut(v, size, confed) ==
  CHOOSE f : f = [j \in 0 .. Len(v) |-> CutBody(v, size, confed, f, j)]

(* The segments in a value, from their first to their last position.       *)
Segments(v, size, confed) ==
  {p \in (0 .. Len(v)) \X (0 .. Len(v)) : Segment(v, size, confed, p[1], p[2])}

(* A relation between positions, read the other way round.                 *)
Backwards(R, D) == {p \in D \X D : <<p[2], p[1]>> \in R}

(* The loop of the code follows the segments of the grammar.               *)
LEMMA ScanIsSegment ==
  ASSUME NEW v \in Seq(Byte), NEW size \in {2, 4}, NEW confed \in BOOLEAN, NEW f,
         NEW s \in 0 .. Len(v)
  PROVE  ScanBody(v, size, confed, f, s) <=>
           \/ s = Len(v)
           \/ \E j \in 0 .. Len(v) : <<s, j>> \in Segments(v, size, confed) /\ f[j]
<1>1. Len(v) \in Nat
  OBVIOUS
<1>2. \A j : <<s, j>> \in Segments(v, size, confed) <=>
               j \in 0 .. Len(v) /\ Segment(v, size, confed, s, j)
  BY DEF Segments
<1>3. CASE s + 2 <= Len(v)
  <2> DEFINE next == s + 2 + v[s + 2] * size
  <2>1. v[s + 1] \in Byte /\ v[s + 2] \in Byte
    BY <1>1, <1>3
  <2>2. v[s + 2] * size \in Nat /\ (v[s + 2] # 0 <=> v[s + 2] * size >= size)
    <3>1. \A b \in Byte : /\ b * 2 \in Nat /\ (b # 0 <=> b * 2 >= 2)
                          /\ b * 4 \in Nat /\ (b # 0 <=> b * 4 >= 4)
      BY DEF Byte
    <3> QED
      BY <2>1, <3>1
  <2>3. next \in Nat
    BY <2>2
  <2>4. \A j \in 0 .. Len(v) :
          Segment(v, size, confed, s, j) <=>
            /\ j = next /\ v[s + 2] # 0
            /\ v[s + 1] \in 1 .. 4 /\ (v[s + 1] \in {3, 4} => confed)
    <3> SUFFICES ASSUME NEW j \in 0 .. Len(v)
                 PROVE  Segment(v, size, confed, s, j) <=>
                          /\ j = next /\ v[s + 2] # 0
                          /\ v[s + 1] \in 1 .. 4 /\ (v[s + 1] \in {3, 4} => confed)
      OBVIOUS
    <3>1. v[s + 1] \in (IF confed THEN {1, 2, 3, 4} ELSE {1, 2}) <=>
            v[s + 1] \in 1 .. 4 /\ (v[s + 1] \in {3, 4} => confed)
      BY <2>1 DEF Byte
    <3>2. v[s + 2] * size = j - s - 2 <=> j = next
      <4>1. \A m \in Nat : m = j - s - 2 <=> j = s + 2 + m
        OBVIOUS
      <4> QED
        BY <2>2, <4>1
    <3>3. j = next => (j >= s + 2 + size <=> v[s + 2] # 0)
      BY <1>1, <2>2
    <3> QED
      BY <3>1, <3>2, <3>3 DEF Segment
  <2>5. ScanBody(v, size, confed, f, s) <=>
          \/ s = Len(v)
          \/ /\ v[s + 1] \in 1 .. 4 /\ v[s + 2] # 0 /\ (v[s + 1] \in {3, 4} => confed)
             /\ next <= Len(v) /\ f[next]
    BY <1>3 DEF ScanBody
  <2>6. next <= Len(v) <=> next \in 0 .. Len(v)
    BY <1>1, <2>3
  <2> HIDE DEF next
  <2> QED
    BY <1>2, <2>4, <2>5, <2>6
<1>4. CASE ~(s + 2 <= Len(v))
  <2>1. \A j \in 0 .. Len(v) : ~Segment(v, size, confed, s, j)
    BY <1>1, <1>4 DEF Segment
  <2> QED
    BY <1>2, <1>4, <2>1 DEF ScanBody
<1> QED
  BY <1>3, <1>4

(* The scan is defined.                                                    *)
LEMMA ScanWorks ==
  ASSUME NEW v \in Seq(Byte), NEW size \in {2, 4}, NEW confed \in BOOLEAN
  PROVE  \A s \in 0 .. Len(v) :
           Scan(v, size, confed)[s] = ScanBody(v, size, confed, Scan(v, size, confed), s)
<1> DEFINE n == Len(v)
           R == Segments(v, size, confed)
<1>1. n \in Nat /\ n \in 0 .. n
  OBVIOUS
<1> HIDE DEF n, R
<1>2. PICK S \in SUBSET (0 .. n) : Leads(S, 0 .. n, R, n)
  BY <1>1, LeadsExists
<1> DEFINE f == [s \in 0 .. n |-> s \in S]
<1>3. \A j \in 0 .. n : f[j] = (j \in S)
  OBVIOUS
<1> HIDE DEF f
<1>4. ASSUME NEW s \in 0 .. n PROVE (s \in S) = ScanBody(v, size, confed, f, s)
  <2>1. s \in S <=> s = n \/ \E j \in 0 .. n : <<s, j>> \in R /\ j \in S
    BY <1>2 DEF Leads
  <2>2. ScanBody(v, size, confed, f, s) <=> s = n \/ \E j \in 0 .. n : <<s, j>> \in R /\ f[j]
    BY ScanIsSegment DEF n, R
  <2>3. s \in S <=> ScanBody(v, size, confed, f, s)
    BY <1>3, <2>1, <2>2
  <2>4. ScanBody(v, size, confed, f, s) \in BOOLEAN
    BY DEF ScanBody
  <2> QED
    BY <2>3, <2>4
<1>5. f = [s \in 0 .. n |-> ScanBody(v, size, confed, f, s)]
  BY <1>4 DEF f
<1>6. Scan(v, size, confed) =
        [s \in 0 .. n |-> ScanBody(v, size, confed, Scan(v, size, confed), s)]
  BY <1>5, Zenon DEF Scan, n
<1> QED
  BY <1>6, Zenon DEF n

(* The grammar reads them the other way.                                   *)
LEMMA CutIsSegment ==
  ASSUME NEW v \in Seq(Byte), NEW size \in {2, 4}, NEW confed \in BOOLEAN, NEW f,
         NEW j \in 0 .. Len(v)
  PROVE  CutBody(v, size, confed, f, j) <=>
           j = 0 \/ \E s \in 0 .. Len(v) : <<s, j>> \in Segments(v, size, confed) /\ f[s]
<1>1. Len(v) \in Nat
  OBVIOUS
<1>2. \A s : <<s, j>> \in Segments(v, size, confed) <=>
               s \in 0 .. Len(v) /\ Segment(v, size, confed, s, j)
  BY DEF Segments
<1>3. \A s \in 0 .. Len(v) : Segment(v, size, confed, s, j) => s \in 0 .. j - 1
  BY <1>1 DEF Segment
<1>4. \A s \in 0 .. j - 1 : s \in 0 .. Len(v)
  BY <1>1
<1> QED
  BY <1>2, <1>3, <1>4 DEF CutBody

(* The cut is defined.                                                     *)
LEMMA CutWorks ==
  ASSUME NEW v \in Seq(Byte), NEW size \in {2, 4}, NEW confed \in BOOLEAN
  PROVE  \A j \in 0 .. Len(v) :
           Cut(v, size, confed)[j] = CutBody(v, size, confed, Cut(v, size, confed), j)
<1> DEFINE n == Len(v)
           R == Segments(v, size, confed)
           Q == Backwards(R, 0 .. n)
<1>1. n \in Nat /\ 0 \in 0 .. n
  OBVIOUS
<1>q. \A s, j \in 0 .. n : <<j, s>> \in Q <=> <<s, j>> \in R
  BY DEF Backwards
<1> HIDE DEF n, R, Q
<1>2. PICK S \in SUBSET (0 .. n) : Leads(S, 0 .. n, Q, 0)
  BY <1>1, LeadsExists
<1> DEFINE f == [s \in 0 .. n |-> s \in S]
<1>3. \A j \in 0 .. n : f[j] = (j \in S)
  OBVIOUS
<1> HIDE DEF f
<1>4. ASSUME NEW j \in 0 .. n PROVE (j \in S) = CutBody(v, size, confed, f, j)
  <2>1. j \in S <=> j = 0 \/ \E s \in 0 .. n : <<s, j>> \in R /\ s \in S
    BY <1>2, <1>q DEF Leads
  <2>2. CutBody(v, size, confed, f, j) <=> j = 0 \/ \E s \in 0 .. n : <<s, j>> \in R /\ f[s]
    BY CutIsSegment DEF n, R
  <2>3. j \in S <=> CutBody(v, size, confed, f, j)
    BY <1>3, <2>1, <2>2
  <2>4. CutBody(v, size, confed, f, j) \in BOOLEAN
    BY DEF CutBody
  <2> QED
    BY <2>3, <2>4
<1>5. f = [j \in 0 .. n |-> CutBody(v, size, confed, f, j)]
  BY <1>4 DEF f
<1>6. Cut(v, size, confed) = [j \in 0 .. n |-> CutBody(v, size, confed, Cut(v, size, confed), j)]
  BY <1>5, Zenon DEF Cut, n
<1> QED
  BY <1>6, Zenon DEF n

(* scan_as_path accepts an AS path just when it is one by the grammar, of  *)
(* any length, and begins with the AS that is enforced.                    *)
THEOREM ScanIsGrammar ==
  ASSUME NEW v \in Seq(Byte), NEW size \in {2, 4}, NEW confed \in BOOLEAN, NEW first
  PROVE  scan_as_path(v, size, confed, first) <=>
           FirstAsEnforced(v, size, first) /\ IsAsPath(v, size, confed)
<1> DEFINE n == Len(v)
           R == Segments(v, size, confed)
           F == {s \in 0 .. n : Scan(v, size, confed)[s]}
           C == {s \in 0 .. n : Cut(v, size, confed)[s]}
<1>1. n \in Nat /\ 0 \in Nat /\ 0 \in 0 .. n /\ n \in 0 .. n /\ 0 <= n
  OBVIOUS
<1>2. \A s, j \in 0 .. n : <<s, j>> \in R => s < j
  <2>1. \A s, j \in 0 .. n : <<s, j>> \in R => Segment(v, size, confed, s, j)
    BY DEF Segments
  <2> QED
    BY <1>1, <2>1 DEF Segment
<1>3. \A s \in 0 .. n : s \in F <=> s = n \/ \E j \in 0 .. n : <<s, j>> \in R /\ j \in F
  <2> DEFINE f == Scan(v, size, confed)
  <2>1. \A s \in 0 .. n : f[s] = ScanBody(v, size, confed, f, s)
    BY ScanWorks, Zenon
  <2>2. \A s \in 0 .. n : ScanBody(v, size, confed, f, s) <=>
                            s = n \/ \E j \in 0 .. n : <<s, j>> \in R /\ f[j]
    BY ScanIsSegment
  <2>3. F = {s \in 0 .. n : f[s]}
    OBVIOUS
  <2> HIDE DEF f, n, R, F
  <2> QED
    BY <2>1, <2>2, <2>3
<1>4. \A j \in 0 .. n : j \in C <=> j = 0 \/ \E s \in 0 .. n : <<s, j>> \in R /\ s \in C
  <2> DEFINE f == Cut(v, size, confed)
  <2>1. \A j \in 0 .. n : f[j] = CutBody(v, size, confed, f, j)
    BY CutWorks, Zenon
  <2>2. \A j \in 0 .. n : CutBody(v, size, confed, f, j) <=>
                            j = 0 \/ \E s \in 0 .. n : <<s, j>> \in R /\ f[s]
    BY CutIsSegment
  <2>3. C = {s \in 0 .. n : f[s]}
    OBVIOUS
  <2> HIDE DEF f, n, R, C
  <2> QED
    BY <2>1, <2>2, <2>3
<1>5. 0 \in F <=> n \in C
  <2> HIDE DEF n, R, F, C
  <2>1. Forward(0, n, R, F, C)
    BY ONLY <1>2, <1>3, <1>4, Zenon DEF Forward
  <2> QED
    BY ONLY <1>1, <2>1, ThereAndBack
<1>6. scan_as_path(v, size, confed, first) <=>
        FirstAsEnforced(v, size, first) /\ Scan(v, size, confed)[0]
  BY DEF scan_as_path, Scan, ScanBody
<1>7. IsAsPath(v, size, confed) <=> Cut(v, size, confed)[Len(v)]
  BY DEF IsAsPath, Pieces, Cut, CutBody
<1> QED
  BY <1>1, <1>5, <1>6, <1>7

(***************************************************************************)
(* capabilities                                                            *)
(***************************************************************************)
(* The inner loop of parse_capabilities, f being the rest of the loop.     *)
CapBody(o, to, f, c) ==
  \/ c >= to
  \/ /\ c + 2 <= to
     /\ LET next == c + 2 + o[c + 2]
        IN  /\ next <= to
            /\ CAP_SEMANTIC_LEN(o[c + 1], o[c + 2])
            /\ f[next]
Caps(o, to) == CHOOSE f : f = [c \in 0 .. Len(o) |-> CapBody(o, to, f, c)]

(* The grammar of capabilities, and the function it defines.               *)
CapCutBody(o, from, f, j) ==
  \/ j = from
  \/ \E s \in from .. j - 1 :
       (Framed(o, s, j) /\ CAP_SEMANTIC_LEN(o[s + 1], o[s + 2])) /\ f[s]
CapCut(o, from, to) == CHOOSE f : f = [j \in from .. to |-> CapCutBody(o, from, f, j)]

(* A capability in the bytes from a on, up to b.                           *)
CapPieces(o, a, b) ==
  {p \in (a .. b) \X (a .. b) :
     Framed(o, p[1], p[2]) /\ CAP_SEMANTIC_LEN(o[p[1] + 1], o[p[1] + 2])}

(* Of two pieces that are framed the second starts behind the first.       *)
LEMMA FramedIs ==
  ASSUME NEW o \in Seq(Byte), NEW s \in Nat, s + 2 <= Len(o)
  PROVE  /\ o[s + 2] \in Nat
         /\ \A j \in Int : Framed(o, s, j) <=> j = s + 2 + o[s + 2]
<1>1. Len(o) \in Nat
  OBVIOUS
<1>2. o[s + 2] \in Byte
  BY <1>1
<1>3. o[s + 2] \in Nat
  <2>1. \A x \in Byte : x \in Nat
    BY DEF Byte
  <2> QED
    BY <1>2, <2>1
<1>4. \A j : Framed(o, s, j) <=> j >= s + 2 /\ o[s + 2] = j - s - 2
  BY DEF Framed
<1> QED
  BY <1>3, <1>4

(* The loop of the code follows the capabilities of the grammar.           *)
LEMMA CapIsPiece ==
  ASSUME NEW o \in Seq(Byte), NEW a \in Nat, NEW b \in Nat, b <= Len(o), NEW f,
         NEW s \in a .. b
  PROVE  CapBody(o, b, f, s) <=>
           s = b \/ \E j \in a .. b : <<s, j>> \in CapPieces(o, a, b) /\ f[j]
<1>1. Len(o) \in Nat /\ s \in Nat
  OBVIOUS
<1>2. \A j : <<s, j>> \in CapPieces(o, a, b) <=>
               j \in a .. b /\ Framed(o, s, j) /\ CAP_SEMANTIC_LEN(o[s + 1], o[s + 2])
  BY DEF CapPieces
<1>3. CASE s + 2 <= b
  <2> DEFINE next == s + 2 + o[s + 2]
  <2>1. o[s + 2] \in Nat /\ \A j \in Int : Framed(o, s, j) <=> j = next
    BY <1>1, <1>3, FramedIs
  <2>2. CapBody(o, b, f, s) <=>
          s = b \/ (next <= b /\ CAP_SEMANTIC_LEN(o[s + 1], o[s + 2]) /\ f[next])
    <3>1. s >= b <=> s = b
      OBVIOUS
    <3> QED
      BY <1>3, <3>1 DEF CapBody
  <2>3. next \in Int /\ (next <= b <=> next \in a .. b)
    BY <1>1, <2>1
  <2>4. \A j \in a .. b : j \in Int
    OBVIOUS
  <2> HIDE DEF next
  <2> QED
    BY <1>2, <2>1, <2>2, <2>3, <2>4
<1>4. CASE ~(s + 2 <= b)
  <2>1. \A j \in a .. b : ~Framed(o, s, j)
    BY <1>1, <1>4 DEF Framed
  <2>2. CapBody(o, b, f, s) <=> s = b
    <3>1. s >= b <=> s = b
      OBVIOUS
    <3> QED
      BY <1>4, <3>1 DEF CapBody
  <2> QED
    BY <1>2, <2>1, <2>2
<1> QED
  BY <1>3, <1>4

(* It is defined, also behind the end of the capabilities.                 *)
LEMMA CapsWork ==
  ASSUME NEW o \in Seq(Byte), NEW b \in 0 .. Len(o)
  PROVE  \A s \in 0 .. Len(o) : Caps(o, b)[s] = CapBody(o, b, Caps(o, b), s)
<1> DEFINE n == Len(o)
           R == CapPieces(o, 0, b)
<1>1. n \in Nat /\ b \in Nat /\ b <= n /\ b \in 0 .. b
  OBVIOUS
<1> HIDE DEF n, R
<1>2. PICK S \in SUBSET (0 .. b) : Leads(S, 0 .. b, R, b)
  BY <1>1, LeadsExists
<1> DEFINE f == [s \in 0 .. n |-> s >= b \/ s \in S]
<1>3. \A j \in 0 .. b : f[j] <=> j \in S
  <2>1. b \in S
    BY <1>1, <1>2 DEF Leads
  <2>2. \A j \in 0 .. b : j \in 0 .. n /\ (j >= b => j = b)
    BY <1>1
  <2> QED
    BY <2>1, <2>2
<1>4. ASSUME NEW s \in 0 .. n PROVE (s >= b \/ s \in S) = CapBody(o, b, f, s)
  <2> HIDE DEF f
  <2>1. CapBody(o, b, f, s) \in BOOLEAN
    BY DEF CapBody
  <2>2. CASE s >= b
    <3>1. CapBody(o, b, f, s)
      BY <2>2 DEF CapBody
    <3> QED
      BY <2>1, <2>2, <3>1
  <2>3. CASE ~(s >= b)
    <3>1. s \in 0 .. b
      BY <1>1, <2>3
    <3>2. s \in S <=> s = b \/ \E j \in 0 .. b : <<s, j>> \in R /\ j \in S
      BY <1>2, <3>1 DEF Leads
    <3>3. CapBody(o, b, f, s) <=> s = b \/ \E j \in 0 .. b : <<s, j>> \in R /\ f[j]
      <4>1. 0 \in Nat /\ b <= Len(o)
        BY <1>1 DEF n
      <4> QED
        BY <1>1, <3>1, <4>1, CapIsPiece DEF R
    <3>4. CapBody(o, b, f, s) <=> s \in S
      BY <1>3, <3>2, <3>3
    <3> QED
      BY <2>1, <2>3, <3>4
  <2> QED
    BY <2>2, <2>3
<1>5. f = [s \in 0 .. n |-> CapBody(o, b, f, s)]
  BY <1>4, Zenon
<1> HIDE DEF f
<1>6. Caps(o, b) = [s \in 0 .. n |-> CapBody(o, b, Caps(o, b), s)]
  BY <1>5, Zenon DEF Caps, n
<1> QED
  BY <1>6, Zenon DEF n

(* The grammar reads them the other way.                                   *)
LEMMA CapCutIsPiece ==
  ASSUME NEW o, NEW a \in Nat, NEW b \in Nat, NEW f, NEW j \in a .. b
  PROVE  CapCutBody(o, a, f, j) <=>
           j = a \/ \E s \in a .. b : <<s, j>> \in CapPieces(o, a, b) /\ f[s]
<1>1. \A s : <<s, j>> \in CapPieces(o, a, b) <=>
               s \in a .. b /\ Framed(o, s, j) /\ CAP_SEMANTIC_LEN(o[s + 1], o[s + 2])
  BY DEF CapPieces
<1>2. \A s \in a .. b : Framed(o, s, j) => s \in a .. j - 1
  BY DEF Framed
<1>3. \A s \in a .. j - 1 : s \in a .. b
  OBVIOUS
<1> QED
  BY <1>1, <1>2, <1>3 DEF CapCutBody

(* The grammar's function satisfies its equation, from b down to a.        *)
LEMMA CapCutWorks ==
  ASSUME NEW o, NEW a \in Nat, NEW b \in Nat, a <= b
  PROVE  \A j \in a .. b : CapCut(o, a, b)[j] = CapCutBody(o, a, CapCut(o, a, b), j)
<1> DEFINE R == CapPieces(o, a, b)
           Q == Backwards(R, a .. b)
<1>1. a \in a .. b
  OBVIOUS
<1>q. \A s, j \in a .. b : <<j, s>> \in Q <=> <<s, j>> \in R
  BY DEF Backwards
<1> HIDE DEF R, Q
<1>2. PICK S \in SUBSET (a .. b) : Leads(S, a .. b, Q, a)
  BY <1>1, LeadsExists
<1> DEFINE f == [s \in a .. b |-> s \in S]
<1>3. \A j \in a .. b : f[j] = (j \in S)
  OBVIOUS
<1> HIDE DEF f
<1>4. ASSUME NEW j \in a .. b PROVE (j \in S) = CapCutBody(o, a, f, j)
  <2>1. j \in S <=> j = a \/ \E s \in a .. b : <<s, j>> \in R /\ s \in S
    BY <1>2, <1>q DEF Leads
  <2>2. CapCutBody(o, a, f, j) <=> j = a \/ \E s \in a .. b : <<s, j>> \in R /\ f[s]
    BY CapCutIsPiece DEF R
  <2>3. j \in S <=> CapCutBody(o, a, f, j)
    BY <1>3, <2>1, <2>2
  <2>4. CapCutBody(o, a, f, j) \in BOOLEAN
    BY DEF CapCutBody
  <2> QED
    BY <2>3, <2>4
<1>5. f = [j \in a .. b |-> CapCutBody(o, a, f, j)]
  BY <1>4 DEF f
<1>6. CapCut(o, a, b) = [j \in a .. b |-> CapCutBody(o, a, CapCut(o, a, b), j)]
  BY <1>5, Zenon DEF CapCut
<1> QED
  BY <1>6, Zenon

(* The loop over the capabilities of a parameter accepts just what is one  *)
(* capability behind the other.                                            *)
LEMMA CapabilitiesAreGrammar ==
  ASSUME NEW o \in Seq(Byte), NEW a \in Nat, NEW b \in Nat, a <= b, b <= Len(o)
  PROVE  capabilities(o, a, b) <=> CapCut(o, a, b)[b]
<1> DEFINE R == CapPieces(o, a, b)
           F == {s \in a .. b : Caps(o, b)[s]}
           C == {s \in a .. b : CapCut(o, a, b)[s]}
<1>1. a \in a .. b /\ b \in a .. b /\ b \in 0 .. Len(o) /\ \A s \in a .. b : s \in 0 .. Len(o)
  OBVIOUS
<1>2. \A s, j \in a .. b : <<s, j>> \in R => s < j
  <2>1. \A s, j \in a .. b : <<s, j>> \in R => Framed(o, s, j)
    BY DEF CapPieces
  <2> QED
    BY <2>1 DEF Framed
<1>3. \A s \in a .. b : s \in F <=> s = b \/ \E j \in a .. b : <<s, j>> \in R /\ j \in F
  <2>1. \A s \in a .. b : Caps(o, b)[s] = CapBody(o, b, Caps(o, b), s)
    BY <1>1, CapsWork
  <2> QED
    BY <2>1, CapIsPiece
<1>4. \A j \in a .. b : j \in C <=> j = a \/ \E s \in a .. b : <<s, j>> \in R /\ s \in C
  <2>1. \A j \in a .. b : CapCut(o, a, b)[j] = CapCutBody(o, a, CapCut(o, a, b), j)
    BY CapCutWorks
  <2> QED
    BY <2>1, CapCutIsPiece
<1>5. a \in F <=> b \in C
  <2> HIDE DEF R, F, C
  <2>1. Forward(a, b, R, F, C)
    BY ONLY <1>2, <1>3, <1>4, Zenon DEF Forward
  <2> QED
    BY <2>1, ThereAndBack
<1>6. capabilities(o, a, b) <=> Caps(o, b)[a]
  BY DEF capabilities, Caps, CapBody
<1> QED
  BY <1>1, <1>5, <1>6

(***************************************************************************)
(* parse_capabilities                                                      *)
(***************************************************************************)
(* The outer loop of parse_capabilities, f being the rest of the loop.     *)
ParamBody(o, f, idx) ==
  \/ idx = Len(o)
  \/ /\ idx + 2 <= Len(o)
     /\ LET param_len == o[idx + 2]
            next == idx + 2 + param_len
        IN  /\ next <= Len(o)
            /\ o[idx + 1] = 2 => param_len >= 2 /\ capabilities(o, idx + 2, next)
            /\ f[next]
Params(o) == CHOOSE f : f = [idx \in 0 .. Len(o) |-> ParamBody(o, f, idx)]

(* A parameter of the grammar.                                             *)
Param(o, s, j) ==
  /\ Framed(o, s, j)
  /\ o[s + 1] = 2 => j >= s + 4 /\ CapCut(o, s + 2, j)[j]

(* The grammar of parameters, and the function it defines.                 *)
ParamCutBody(o, f, j) == j = 0 \/ \E s \in 0 .. j - 1 : Param(o, s, j) /\ f[s]
ParamCut(o) == CHOOSE f : f = [j \in 0 .. Len(o) |-> ParamCutBody(o, f, j)]

(* The parameters in the bytes of an OPEN.                                 *)
ParamPieces(o) == {p \in (0 .. Len(o)) \X (0 .. Len(o)) : Param(o, p[1], p[2])}

(* The loop of the code follows the parameters of the grammar.             *)
LEMMA ParamIsPiece ==
  ASSUME NEW o \in Seq(Byte), NEW f, NEW s \in 0 .. Len(o)
  PROVE  ParamBody(o, f, s) <=>
           s = Len(o) \/ \E j \in 0 .. Len(o) : <<s, j>> \in ParamPieces(o) /\ f[j]
<1>1. Len(o) \in Nat /\ s \in Nat
  OBVIOUS
<1>2. \A j : <<s, j>> \in ParamPieces(o) <=> j \in 0 .. Len(o) /\ Param(o, s, j)
  BY DEF ParamPieces
<1>3. CASE s + 2 <= Len(o)
  <2> DEFINE next == s + 2 + o[s + 2]
  <2>1. o[s + 2] \in Nat /\ \A j \in Int : Framed(o, s, j) <=> j = next
    BY <1>1, <1>3, FramedIs
  <2>2. next \in Nat /\ s + 2 <= next /\ (o[s + 2] >= 2 <=> next >= s + 4)
    BY <1>1, <2>1
  <2>3. next <= Len(o) <=> next \in 0 .. Len(o)
    BY <1>1, <2>2
  <2>4. ParamBody(o, f, s) <=>
          \/ s = Len(o)
          \/ /\ next <= Len(o)
             /\ o[s + 1] = 2 => o[s + 2] >= 2 /\ capabilities(o, s + 2, next)
             /\ f[next]
    BY <1>3 DEF ParamBody
  <2> HIDE DEF next
  <2>5. next \in 0 .. Len(o) => (capabilities(o, s + 2, next) <=> CapCut(o, s + 2, next)[next])
    <3>1. s + 2 \in Nat
      BY <1>1
    <3> QED
      BY <2>2, <2>3, <3>1, CapabilitiesAreGrammar
  <2>6. \A j \in 0 .. Len(o) : j \in Int
    OBVIOUS
  <2> QED
    BY <1>2, <2>1, <2>2, <2>3, <2>4, <2>5, <2>6 DEF Param
<1>4. CASE ~(s + 2 <= Len(o))
  <2>1. \A j \in 0 .. Len(o) : ~Framed(o, s, j)
    BY <1>1, <1>4 DEF Framed
  <2>2. ParamBody(o, f, s) <=> s = Len(o)
    BY <1>4 DEF ParamBody
  <2> QED
    BY <1>2, <2>1, <2>2 DEF Param
<1> QED
  BY <1>3, <1>4

(* It is defined.                                                          *)
LEMMA ParamsWork ==
  ASSUME NEW o \in Seq(Byte)
  PROVE  \A s \in 0 .. Len(o) : Params(o)[s] = ParamBody(o, Params(o), s)
<1> DEFINE n == Len(o)
           R == ParamPieces(o)
<1>1. n \in Nat /\ n \in 0 .. n
  OBVIOUS
<1> HIDE DEF n, R
<1>2. PICK S \in SUBSET (0 .. n) : Leads(S, 0 .. n, R, n)
  BY <1>1, LeadsExists
<1> DEFINE f == [s \in 0 .. n |-> s \in S]
<1>3. \A j \in 0 .. n : f[j] = (j \in S)
  OBVIOUS
<1> HIDE DEF f
<1>4. ASSUME NEW s \in 0 .. n PROVE (s \in S) = ParamBody(o, f, s)
  <2>1. s \in S <=> s = n \/ \E j \in 0 .. n : <<s, j>> \in R /\ j \in S
    BY <1>2 DEF Leads
  <2>2. ParamBody(o, f, s) <=> s = n \/ \E j \in 0 .. n : <<s, j>> \in R /\ f[j]
    BY ParamIsPiece DEF n, R
  <2>3. s \in S <=> ParamBody(o, f, s)
    BY <1>3, <2>1, <2>2
  <2>4. ParamBody(o, f, s) \in BOOLEAN
    BY DEF ParamBody
  <2> QED
    BY <2>3, <2>4
<1>5. f = [s \in 0 .. n |-> ParamBody(o, f, s)]
  BY <1>4 DEF f
<1>6. Params(o) = [s \in 0 .. n |-> ParamBody(o, Params(o), s)]
  BY <1>5, Zenon DEF Params, n
<1> QED
  BY <1>6, Zenon DEF n

(* The grammar reads them the other way.                                   *)
LEMMA ParamCutIsPiece ==
  ASSUME NEW o \in Seq(Byte), NEW f, NEW j \in 0 .. Len(o)
  PROVE  ParamCutBody(o, f, j) <=>
           j = 0 \/ \E s \in 0 .. Len(o) : <<s, j>> \in ParamPieces(o) /\ f[s]
<1>1. \A s : <<s, j>> \in ParamPieces(o) <=> s \in 0 .. Len(o) /\ Param(o, s, j)
  BY DEF ParamPieces
<1>2. \A s \in 0 .. Len(o) : Param(o, s, j) => s \in 0 .. j - 1
  BY DEF Param, Framed
<1>3. \A s \in 0 .. j - 1 : s \in 0 .. Len(o)
  OBVIOUS
<1> QED
  BY <1>1, <1>2, <1>3 DEF ParamCutBody

(* The grammar's function for parameters satisfies its equation.           *)
LEMMA ParamCutWorks ==
  ASSUME NEW o \in Seq(Byte)
  PROVE  \A j \in 0 .. Len(o) : ParamCut(o)[j] = ParamCutBody(o, ParamCut(o), j)
<1> DEFINE n == Len(o)
           R == ParamPieces(o)
           Q == Backwards(R, 0 .. n)
<1>1. 0 \in 0 .. n
  OBVIOUS
<1>q. \A s, j \in 0 .. n : <<j, s>> \in Q <=> <<s, j>> \in R
  BY DEF Backwards
<1> HIDE DEF n, R, Q
<1>2. PICK S \in SUBSET (0 .. n) : Leads(S, 0 .. n, Q, 0)
  BY <1>1, LeadsExists
<1> DEFINE f == [s \in 0 .. n |-> s \in S]
<1>3. \A j \in 0 .. n : f[j] = (j \in S)
  OBVIOUS
<1> HIDE DEF f
<1>4. ASSUME NEW j \in 0 .. n PROVE (j \in S) = ParamCutBody(o, f, j)
  <2>1. j \in S <=> j = 0 \/ \E s \in 0 .. n : <<s, j>> \in R /\ s \in S
    BY <1>2, <1>q DEF Leads
  <2>2. ParamCutBody(o, f, j) <=> j = 0 \/ \E s \in 0 .. n : <<s, j>> \in R /\ f[s]
    BY ParamCutIsPiece DEF n, R
  <2>3. j \in S <=> ParamCutBody(o, f, j)
    BY <1>3, <2>1, <2>2
  <2>4. ParamCutBody(o, f, j) \in BOOLEAN
    BY DEF ParamCutBody
  <2> QED
    BY <2>3, <2>4
<1>5. f = [j \in 0 .. n |-> ParamCutBody(o, f, j)]
  BY <1>4 DEF f
<1>6. ParamCut(o) = [j \in 0 .. n |-> ParamCutBody(o, ParamCut(o), j)]
  BY <1>5, Zenon DEF ParamCut, n
<1> QED
  BY <1>6, Zenon DEF n

(* parse_capabilities accepts the optional parameters of an OPEN just when *)
(* they are parameters, one behind the other, that hold capabilities, one  *)
(* behind the other, however many there are and however they are cut.      *)
THEOREM ParametersAreGrammar ==
  ASSUME NEW o \in Seq(Byte)
  PROVE  parse_capabilities(o) <=> IsOptParams(o)
<1> DEFINE n == Len(o)
           R == ParamPieces(o)
           F == {s \in 0 .. n : Params(o)[s]}
           C == {s \in 0 .. n : ParamCut(o)[s]}
<1>1. n \in Nat /\ 0 \in Nat /\ 0 \in 0 .. n /\ n \in 0 .. n /\ 0 <= n
  OBVIOUS
<1>2. \A s, j \in 0 .. n : <<s, j>> \in R => s < j
  <2>1. \A s, j \in 0 .. n : <<s, j>> \in R => Framed(o, s, j)
    BY DEF ParamPieces, Param
  <2> QED
    BY <2>1 DEF Framed
<1>3. \A s \in 0 .. n : s \in F <=> s = n \/ \E j \in 0 .. n : <<s, j>> \in R /\ j \in F
  BY ParamsWork, ParamIsPiece
<1>4. \A j \in 0 .. n : j \in C <=> j = 0 \/ \E s \in 0 .. n : <<s, j>> \in R /\ s \in C
  BY ParamCutWorks, ParamCutIsPiece
<1>5. 0 \in F <=> n \in C
  <2> HIDE DEF n, R, F, C
  <2>1. Forward(0, n, R, F, C)
    BY ONLY <1>2, <1>3, <1>4, Zenon DEF Forward
  <2> QED
    BY ONLY <1>1, <2>1, ThereAndBack
<1>6. parse_capabilities(o) <=> Params(o)[0]
  BY DEF parse_capabilities, Params, ParamBody
<1>7. IsOptParams(o) <=> ParamCut(o)[Len(o)]
  BY DEF IsOptParams, Pieces, ParamCut, ParamCutBody, Param, CapCut, CapCutBody
<1> QED
  BY <1>1, <1>5, <1>6, <1>7

(***************************************************************************)
(* The verdict on an OPEN                                                  *)
(***************************************************************************)

(* Each step keeps that the verdict on an OPEN is the one of the grammar.  *)
LEMMA OpenStep ==
  ASSUME TypeOK, OpenVerdict, [Next]_vars
  PROVE  OpenVerdict'
<1>1. CASE ParseOpen
  <2>1. parse_capabilities(opt_params) <=> IsOptParams(opt_params)
    BY ParametersAreGrammar DEF TypeOK
  <2>2. opt_params' = opt_params
    BY <1>1 DEF ParseOpen
  <2> QED
    BY <1>1, <2>1, <2>2 DEF ParseOpen, OpenVerdict
<1>2. CASE ParseAttribute \/ DiscardDuplicate \/ CheckMandatory
  BY <1>2 DEF ParseAttribute, DiscardDuplicate, CheckMandatory, OpenVerdict
<1>3. CASE Done \/ UNCHANGED vars
  BY <1>3 DEF Done, vars, OpenVerdict
<1> QED
  BY <1>1, <1>2, <1>3 DEF Next

(* An OPEN is accepted just when its optional parameters are of the        *)
(* grammar, however many and however long (parse_capabilities).            *)
THEOREM OpenVerdictIsRight == Spec => []OpenVerdict
<1>1. Init => OpenVerdict
  BY DEF Init, InitUpdate, InitOpen, OpenVerdict
<1> QED
  BY <1>1, OpenStep, TypeCorrect, PTL DEF Spec

(***************************************************************************)
(* What the rules require of an attribute                                  *)
(***************************************************************************)

(* The flags that the types of a kind require are the ones checked.        *)
LEMMA FlagsByKind ==
  ASSUME NEW a \in BGPPathAttr
  PROVE  /\ a.type_code \in WELL_KNOWN => (FlagsAsRequired(a) <=> WellKnown(a))
         /\ a.type_code \in NON_TRANSITIVE => (FlagsAsRequired(a) <=> OptionalNonTransitive(a))
         /\ a.type_code \in TRANSITIVE => (FlagsAsRequired(a) <=> OptionalTransitive(a))
<1>1. /\ a.type_code \in WELL_KNOWN => a.type_code \notin NON_TRANSITIVE \cup TRANSITIVE
      /\ a.type_code \in NON_TRANSITIVE => a.type_code \notin WELL_KNOWN \cup TRANSITIVE
      /\ a.type_code \in TRANSITIVE => a.type_code \notin WELL_KNOWN \cup NON_TRANSITIVE
  BY DEF WELL_KNOWN, NON_TRANSITIVE, TRANSITIVE
<1>2. a.optional \in BOOLEAN /\ a.transitive \in BOOLEAN
  BY DEF BGPPathAttr
<1>3. /\ FlagsAsRequired(a) <=>
           /\ (a.type_code \in NON_TRANSITIVE \/ a.type_code \in TRANSITIVE) <=> a.optional
           /\ (a.type_code \in WELL_KNOWN \/ a.type_code \in TRANSITIVE) <=> a.transitive
  BY DEF FlagsAsRequired
<1> QED
  BY <1>1, <1>2, <1>3 DEF WellKnown, OptionalNonTransitive, OptionalTransitive

(* The faults that are raised are required, and what else is required is   *)
(* a discard next to a withdrawal.                                         *)
Covers(faults, required) ==
  /\ faults \subseteq required
  /\ \A r \in required \ faults :
       r = "ATTRIBUTE_DISCARD" /\ "TREAT_AS_WITHDRAW" \in faults

(* What the checks of an ORIGIN, a NEXT_HOP and a first AS say of bytes.   *)
LEMMA BytesOfValue ==
  ASSUME NEW v \in Seq(Byte)
  PROVE  /\ Len(v) \in Nat
         /\ (Len(v) < 1 \/ v[1] > 2) <=> ~(v # <<>> /\ v[1] \in {0, 1, 2})
         /\ Len(v) = 4 => (Martian(v) <=> ~(v # <<0, 0, 0, 0>> /\ v[1] \in 0 .. 223))
         /\ Len(v) >= 2 => v[2] \in Nat
<1>1. /\ Len(v) \in Nat
      /\ Len(v) >= 1 => v[1] \in Byte
      /\ Len(v) >= 2 => v[2] \in Byte
      /\ v = <<>> <=> Len(v) = 0
  OBVIOUS
<1>2. \A x \in Byte : /\ x \in Nat
                      /\ x > 2 <=> x \notin {0, 1, 2}
                      /\ x >= 224 <=> x \notin 0 .. 223
  BY DEF Byte
<1>3. (Len(v) < 1 \/ v[1] > 2) <=> ~(v # <<>> /\ v[1] \in {0, 1, 2})
  BY <1>1, <1>2
<1>4. Len(v) = 4 => (v[1] >= 224 <=> v[1] \notin 0 .. 223)
  BY <1>1, <1>2
<1> QED
  BY <1>1, <1>2, <1>3, <1>4 DEF Martian

(* The well-known attributes: ORIGIN, AS_PATH, NEXT_HOP.                   *)
LEMMA MandatoryAsRequired ==
  ASSUME NEW a \in BGPPathAttr, NEW c \in Context,
         a.type_code \in {ORIGIN, AS_PATH, NEXT_HOP}
  PROVE  AttributeFaults(a, c) = Required(a, c)
<1>1. FlagsAsRequired(a) <=> WellKnown(a)
  BY FlagsByKind DEF WELL_KNOWN, ORIGIN, AS_PATH, NEXT_HOP
<1>2. a.length \in Nat /\ \A v \in a.value : v \in Seq(Byte)
  BY DEF BGPPathAttr
<1>3. Required(a, c) = IF FlagsAsRequired(a) /\ LengthAsRequired(a, c) /\ ContentAsRequired(a, c)
                       THEN {} ELSE {"TREAT_AS_WITHDRAW"}
  BY DEF Required, ORIGIN, AS_PATH, NEXT_HOP, INTERNAL, RECOGNIZED, WELL_KNOWN, MULTIPROTOCOL,
         Reaction, DISCARDED, OnConflict
<1>4. AttributeFaults(a, c) = Mandatory(a, c)
  BY DEF AttributeFaults, ORIGIN, AS_PATH, NEXT_HOP, MP_REACH, MP_UNREACH
<1>5. CASE a.type_code = 1
  <2>1. LengthAsRequired(a, c) <=> a.length = 1
    BY <1>5 DEF LengthAsRequired
  <2>2. \A v \in a.value :
          (Len(v) < 1 \/ v[1] > 2) <=> ~(v # <<>> /\ v[1] \in {0, 1, 2})
    BY <1>2, BytesOfValue
  <2>3. ContentAsRequired(a, c) <=> ~\E v \in a.value : Len(v) < 1 \/ v[1] > 2
    BY <1>5, <2>2 DEF ContentAsRequired
  <2>4. Mandatory(a, c) = Withdraw(~WellKnown(a) \/ a.length # 1
                                   \/ \E v \in a.value : Len(v) < 1 \/ v[1] > 2)
    BY <1>5 DEF Mandatory, ORIGIN, AS_PATH, NEXT_HOP
  <2> QED
    BY <1>1, <1>3, <1>4, <2>1, <2>3, <2>4 DEF Withdraw, Fault
<1>6. CASE a.type_code = 2
  <2>1. LengthAsRequired(a, c)
    BY <1>6 DEF LengthAsRequired
  <2>2. AsnSize(c) \in {2, 4} /\ c.allow_confed \in BOOLEAN
    BY DEF AsnSize, Context
  <2>3. ASSUME NEW v \in a.value
        PROVE  Path(v, AsnSize(c), c) <=>
                 /\ IsAsPath(v, AsnSize(c), c.allow_confed)
                 /\ \A first \in c.enforce_first_as : BeginsWith(v, AsnSize(c), first)
    <3>1. Path(v, AsnSize(c), c) <=>
            /\ FirstAsEnforced(v, AsnSize(c), c.enforce_first_as)
            /\ IsAsPath(v, AsnSize(c), c.allow_confed)
      BY <1>2, <2>2, ScanIsGrammar DEF Path
    <3>2. Len(v) >= 2 + AsnSize(c) => v[2] \in Nat
      <4>1. Len(v) \in Nat /\ (Len(v) >= 2 => v[2] \in Nat)
        BY <1>2, BytesOfValue
      <4> QED
        BY <2>2, <4>1
    <3>3. \A first : BeginsWith(v, AsnSize(c), first) <=>
            /\ Len(v) >= 2 + AsnSize(c)
            /\ v[1] = 2 /\ v[2] # 0
            /\ Number(SubSeq(v, 3, 2 + AsnSize(c))) = first
      BY <3>2 DEF BeginsWith
    <3> QED
      BY <3>1, <3>3 DEF FirstAsEnforced
  <2>4. ContentAsRequired(a, c) <=> ~\E v \in a.value : ~Path(v, AsnSize(c), c)
    BY <1>6, <2>3 DEF ContentAsRequired
  <2>5. Mandatory(a, c) =
          Withdraw(~WellKnown(a) \/ \E v \in a.value : ~Path(v, AsnSize(c), c))
    BY <1>6 DEF Mandatory, ORIGIN, AS_PATH, NEXT_HOP
  <2> QED
    BY <1>1, <1>3, <1>4, <2>1, <2>4, <2>5 DEF Withdraw, Fault
<1>7. CASE a.type_code = 3
  <2>1. LengthAsRequired(a, c) <=> a.length = 4
    BY <1>7 DEF LengthAsRequired
  <2>2. \A v \in a.value : Len(v) = 4 =>
          (Martian(v) <=> ~(v # <<0, 0, 0, 0>> /\ v[1] \in 0 .. 223))
    BY <1>2, BytesOfValue
  <2>3. ContentAsRequired(a, c) <=> ~\E v \in a.value : Len(v) = 4 /\ Martian(v)
    BY <1>7, <2>2 DEF ContentAsRequired
  <2>4. Mandatory(a, c) = Withdraw(~WellKnown(a) \/ a.length # 4
                                   \/ \E v \in a.value : Len(v) = 4 /\ Martian(v))
    BY <1>7 DEF Mandatory, ORIGIN, AS_PATH, NEXT_HOP
  <2> QED
    BY <1>1, <1>3, <1>4, <2>1, <2>3, <2>4 DEF Withdraw, Fault
<1> QED
  BY <1>5, <1>6, <1>7 DEF ORIGIN, AS_PATH, NEXT_HOP

(* MP_REACH_NLRI and MP_UNREACH_NLRI.                                      *)
LEMMA MultiprotocolAsRequired ==
  ASSUME NEW a \in BGPPathAttr, NEW c \in Context, a.type_code \in MULTIPROTOCOL
  PROVE  AttributeFaults(a, c) = Required(a, c)
<1>1. FlagsAsRequired(a) <=> OptionalNonTransitive(a)
  BY FlagsByKind DEF NON_TRANSITIVE, MULTIPROTOCOL
<1>2. \A v \in a.value : Len(v) \in Nat
  BY DEF BGPPathAttr
<1>3. LengthAsRequired(a, c)
  BY DEF LengthAsRequired, MULTIPROTOCOL
<1>4. Required(a, c) = (IF FlagsAsRequired(a) THEN {} ELSE {c.impl_choice})
                       \cup (IF ContentAsRequired(a, c) THEN {} ELSE {"AFI_SAFI_DISABLE"})
  BY <1>3 DEF Required, INTERNAL, RECOGNIZED, NON_TRANSITIVE, MULTIPROTOCOL, OnConflict
<1>5. ContentAsRequired(a, c) <=>
        ~\E v \in a.value : IF a.type_code = MP_REACH THEN ~mp_reach_structurally_valid(v)
                                                      ELSE Len(v) < 3
  BY <1>2 DEF ContentAsRequired, MULTIPROTOCOL, MP_REACH
<1>6. AttributeFaults(a, c) = Multiprotocol(a, c)
  BY DEF AttributeFaults, ORIGIN, AS_PATH, NEXT_HOP, MP_REACH, MP_UNREACH, MULTIPROTOCOL
<1> QED
  BY <1>1, <1>4, <1>5, <1>6 DEF Multiprotocol, Disable, Fault

(* The attributes that only an internal peer may send.                     *)
LEMMA InternalAsRequired ==
  ASSUME NEW a \in BGPPathAttr, NEW c \in Context, a.type_code \in INTERNAL
  PROVE  AttributeFaults(a, c) = Required(a, c)
<1>1. AttributeFaults(a, c) = Internal(a, c)
  BY DEF AttributeFaults, ORIGIN, AS_PATH, NEXT_HOP, MP_REACH, MP_UNREACH, INTERNAL
<1>2. CASE ~c.is_ibgp
  BY <1>1, <1>2 DEF Internal, Required, Discard, Fault
<1>3. CASE c.is_ibgp
  <2>1. a.length \in Nat
    BY DEF BGPPathAttr
  <2>2. ContentAsRequired(a, c)
    BY DEF ContentAsRequired, INTERNAL
  <2>3. Required(a, c) = IF FlagsAsRequired(a) /\ LengthAsRequired(a, c)
                         THEN {} ELSE {"TREAT_AS_WITHDRAW"}
    BY <1>3, <2>2 DEF Required, INTERNAL, RECOGNIZED, WELL_KNOWN, NON_TRANSITIVE,
                      MULTIPROTOCOL, Reaction, DISCARDED, OnConflict
  <2>4. CASE a.type_code = 5
    <3>1. FlagsAsRequired(a) <=> WellKnown(a)
      BY <2>4, FlagsByKind DEF WELL_KNOWN
    <3>2. LengthAsRequired(a, c) <=> a.length = 4
      BY <2>4 DEF LengthAsRequired
    <3> QED
      BY <1>1, <1>3, <2>3, <2>4, <3>1, <3>2 DEF Internal, Withdraw, Fault
  <2>5. CASE a.type_code = 9
    <3>1. FlagsAsRequired(a) <=> OptionalNonTransitive(a)
      BY <2>5, FlagsByKind DEF NON_TRANSITIVE
    <3>2. LengthAsRequired(a, c) <=> a.length = 4
      BY <2>5 DEF LengthAsRequired
    <3> QED
      BY <1>1, <1>3, <2>3, <2>5, <3>1, <3>2 DEF Internal, Withdraw, Fault
  <2>6. CASE a.type_code = 10
    <3>1. FlagsAsRequired(a) <=> OptionalNonTransitive(a)
      BY <2>6, FlagsByKind DEF NON_TRANSITIVE
    <3>2. LengthAsRequired(a, c) <=> Multiple(a, 4)
      BY <2>1, <2>6 DEF LengthAsRequired, Multiple
    <3> QED
      BY <1>1, <1>3, <2>3, <2>6, <3>1, <3>2 DEF Internal, Withdraw, Fault
  <2> QED
    BY <2>4, <2>5, <2>6 DEF INTERNAL
<1> QED
  BY <1>2, <1>3 DEF Context

(* The attributes whose flags and length decide, when the flags are right  *)
(* or the rule for them is followed.                                       *)
LEMMA PlainAsRequired ==
  ASSUME NEW a \in BGPPathAttr, NEW c \in Context,
         a.type_code \in {4, 6, 7, 8, 16, 18, 22, 25, 32, 33}, ~Lenient(a)
  PROVE  AttributeFaults(a, c) = Required(a, c)
<1>1. a.length \in Nat
  BY DEF BGPPathAttr
<1>2. ContentAsRequired(a, c)
  BY DEF ContentAsRequired
<1>3. Required(a, c) = IF FlagsAsRequired(a) /\ LengthAsRequired(a, c)
                       THEN {} ELSE {Reaction(a.type_code)}
  <2>1. FlagsAsRequired(a) \/ Reaction(a.type_code) = "TREAT_AS_WITHDRAW"
    BY DEF Lenient, Reaction
  <2>2. Required(a, c) = (IF FlagsAsRequired(a) THEN {} ELSE {"TREAT_AS_WITHDRAW"})
                         \cup (IF LengthAsRequired(a, c) THEN {} ELSE {Reaction(a.type_code)})
    BY <1>2 DEF Required, INTERNAL, RECOGNIZED, WELL_KNOWN, NON_TRANSITIVE, TRANSITIVE,
                MULTIPROTOCOL, OnConflict
  <2> QED
    BY <2>1, <2>2
<1>4. Reaction(a.type_code) = IF a.type_code \in {6, 7, 18, 22, 33}
                              THEN "ATTRIBUTE_DISCARD" ELSE "TREAT_AS_WITHDRAW"
  BY DEF Reaction, DISCARDED
<1>5. FlagsAsRequired(a) <=>
        IF a.type_code = 6 THEN WellKnown(a)
        ELSE IF a.type_code \in {4, 25} THEN OptionalNonTransitive(a)
        ELSE OptionalTransitive(a)
  BY FlagsByKind DEF WELL_KNOWN, NON_TRANSITIVE, TRANSITIVE
<1>6. a.type_code \notin {ORIGIN, AS_PATH, NEXT_HOP, MP_REACH, MP_UNREACH, 5, 9, 10}
  BY DEF ORIGIN, AS_PATH, NEXT_HOP, MP_REACH, MP_UNREACH
<1> DEFINE F == AttributeFaults(a, c)
           R == IF FlagsAsRequired(a) /\ LengthAsRequired(a, c)
                THEN {} ELSE {Reaction(a.type_code)}
<1>7. CASE a.type_code = 4
  <2>1. LengthAsRequired(a, c) <=> a.length = 4
    BY <1>7 DEF LengthAsRequired
  <2>2. F = Withdraw(~OptionalNonTransitive(a) \/ a.length # 4)
    BY <1>6, <1>7 DEF AttributeFaults
  <2> QED
    BY <1>3, <1>4, <1>5, <1>7, <2>1, <2>2 DEF Withdraw, Fault
<1>8. CASE a.type_code = 6
  <2>1. LengthAsRequired(a, c) <=> a.length = 0
    BY <1>8 DEF LengthAsRequired
  <2>2. F = Discard(~WellKnown(a) \/ a.length # 0)
    BY <1>6, <1>8 DEF AttributeFaults
  <2> QED
    BY <1>3, <1>4, <1>5, <1>8, <2>1, <2>2 DEF Discard, Fault
<1>9. CASE a.type_code = 7
  <2>1. LengthAsRequired(a, c) <=> a.length = (IF c.asn_4byte THEN 8 ELSE 6)
    BY <1>9 DEF LengthAsRequired, AsnSize
  <2>2. F = Discard(~OptionalTransitive(a) \/ a.length # (IF c.asn_4byte THEN 8 ELSE 6))
    BY <1>6, <1>9 DEF AttributeFaults
  <2> QED
    BY <1>3, <1>4, <1>5, <1>9, <2>1, <2>2 DEF Discard, Fault
<1>10. CASE a.type_code = 8
  <2>1. LengthAsRequired(a, c) <=> Multiple(a, 4)
    BY <1>1, <1>10 DEF LengthAsRequired, Multiple
  <2>2. F = Withdraw(~OptionalTransitive(a) \/ ~Multiple(a, 4))
    BY <1>6, <1>10 DEF AttributeFaults
  <2> QED
    BY <1>3, <1>4, <1>5, <1>10, <2>1, <2>2 DEF Withdraw, Fault
<1>11. CASE a.type_code = 16
  <2>1. LengthAsRequired(a, c) <=> Multiple(a, 8)
    BY <1>1, <1>11 DEF LengthAsRequired, Multiple
  <2>2. F = Withdraw(~OptionalTransitive(a) \/ ~Multiple(a, 8))
    BY <1>6, <1>11 DEF AttributeFaults
  <2> QED
    BY <1>3, <1>4, <1>5, <1>11, <2>1, <2>2 DEF Withdraw, Fault
<1>12. CASE a.type_code = 18
  <2>1. LengthAsRequired(a, c) <=> a.length = 8
    BY <1>12 DEF LengthAsRequired
  <2>2. F = Discard(~OptionalTransitive(a) \/ a.length # 8)
    BY <1>6, <1>12 DEF AttributeFaults
  <2> QED
    BY <1>3, <1>4, <1>5, <1>12, <2>1, <2>2 DEF Discard, Fault
<1>13. CASE a.type_code = 22
  <2>1. LengthAsRequired(a, c) <=> ~(a.length < 5)
    BY <1>1, <1>13 DEF LengthAsRequired
  <2>2. F = Discard(~OptionalTransitive(a) \/ a.length < 5)
    BY <1>6, <1>13 DEF AttributeFaults
  <2> QED
    BY <1>3, <1>4, <1>5, <1>13, <2>1, <2>2 DEF Discard, Fault
<1>14. CASE a.type_code = 25
  <2>1. LengthAsRequired(a, c) <=> Multiple(a, 20)
    BY <1>1, <1>14 DEF LengthAsRequired, Multiple
  <2>2. F = Withdraw(~OptionalNonTransitive(a) \/ ~Multiple(a, 20))
    BY <1>6, <1>14 DEF AttributeFaults
  <2> QED
    BY <1>3, <1>4, <1>5, <1>14, <2>1, <2>2 DEF Withdraw, Fault
<1>15. CASE a.type_code = 32
  <2>1. LengthAsRequired(a, c) <=> Multiple(a, 12)
    BY <1>1, <1>15 DEF LengthAsRequired, Multiple
  <2>2. F = Withdraw(~OptionalTransitive(a) \/ ~Multiple(a, 12))
    BY <1>6, <1>15 DEF AttributeFaults
  <2> QED
    BY <1>3, <1>4, <1>5, <1>15, <2>1, <2>2 DEF Withdraw, Fault
<1>16. CASE a.type_code = 33
  <2>1. LengthAsRequired(a, c) <=> a.length = 4
    BY <1>16 DEF LengthAsRequired
  <2>2. F = Discard(~OptionalTransitive(a) \/ a.length # 4)
    BY <1>6, <1>16 DEF AttributeFaults
  <2> QED
    BY <1>3, <1>4, <1>5, <1>16, <2>1, <2>2 DEF Discard, Fault
<1> QED
  BY <1>7, <1>8, <1>9, <1>10, <1>11, <1>12, <1>13, <1>14, <1>15, <1>16

(* ATTR_SET: its flags and what is in it.                                  *)
LEMMA AttrSetAsRequired ==
  ASSUME NEW a \in BGPPathAttr, NEW c \in Context, a.type_code = 128
  PROVE  AttributeFaults(a, c) = Required(a, c)
<1>1. FlagsAsRequired(a) <=> OptionalTransitive(a)
  BY FlagsByKind DEF TRANSITIVE
<1>2. LengthAsRequired(a, c)
  BY DEF LengthAsRequired
<1>3. ContentAsRequired(a, c) <=> ~\E v \in a.value : ~attr_set_structurally_valid(v)
  BY DEF ContentAsRequired
<1>4. a.type_code \notin {ORIGIN, AS_PATH, NEXT_HOP, MP_REACH, MP_UNREACH}
  BY DEF ORIGIN, AS_PATH, NEXT_HOP, MP_REACH, MP_UNREACH
<1>5. AttributeFaults(a, c) = Withdraw(\/ ~OptionalTransitive(a)
                                       \/ \E v \in a.value : ~attr_set_structurally_valid(v))
  BY <1>4 DEF AttributeFaults, Withdraw, Fault
<1>6. Required(a, c) = IF FlagsAsRequired(a) /\ ContentAsRequired(a, c)
                       THEN {} ELSE {"TREAT_AS_WITHDRAW"}
  BY <1>2 DEF Required, INTERNAL, RECOGNIZED, WELL_KNOWN, NON_TRANSITIVE, TRANSITIVE,
              MULTIPROTOCOL, Reaction, DISCARDED, OnConflict
<1> QED
  BY <1>1, <1>3, <1>5, <1>6 DEF Withdraw, Fault

(* AS4_PATH: when its flags are wrong, what is in it is not looked at.     *)
LEMMA As4PathAsRequired ==
  ASSUME NEW a \in BGPPathAttr, NEW c \in Context, a.type_code = 17
  PROVE  Covers(AttributeFaults(a, c), Required(a, c))
<1>1. FlagsAsRequired(a) <=> OptionalTransitive(a)
  BY FlagsByKind DEF TRANSITIVE
<1>2. LengthAsRequired(a, c)
  BY DEF LengthAsRequired
<1>3. ASSUME NEW v \in a.value
      PROVE  As4Path(v, c) <=> IsAsPath(v, 4, c.allow_confed)
  <2>1. v \in Seq(Byte) /\ c.allow_confed \in BOOLEAN
    BY DEF BGPPathAttr, Context
  <2>2. FirstAsEnforced(v, 4, {})
    BY DEF FirstAsEnforced
  <2> QED
    BY <2>1, <2>2, ScanIsGrammar DEF As4Path
<1>4. ContentAsRequired(a, c) <=> ~\E v \in a.value : ~As4Path(v, c)
  BY <1>3 DEF ContentAsRequired
<1>5. a.type_code \notin {ORIGIN, AS_PATH, NEXT_HOP, MP_REACH, MP_UNREACH, 5, 9, 10}
  BY DEF ORIGIN, AS_PATH, NEXT_HOP, MP_REACH, MP_UNREACH
<1>6. AttributeFaults(a, c) =
        Withdraw(~OptionalTransitive(a)) \cup
        Discard(OptionalTransitive(a) /\ \E v \in a.value : ~As4Path(v, c))
  BY <1>5 DEF AttributeFaults
<1>7. Required(a, c) =
        (IF FlagsAsRequired(a) THEN {} ELSE {"TREAT_AS_WITHDRAW"})
        \cup (IF ContentAsRequired(a, c) THEN {} ELSE {"ATTRIBUTE_DISCARD"})
  BY <1>2 DEF Required, INTERNAL, RECOGNIZED, WELL_KNOWN, NON_TRANSITIVE, TRANSITIVE,
              MULTIPROTOCOL, Reaction, DISCARDED, OnConflict
<1> QED
  BY <1>1, <1>4, <1>6, <1>7 DEF Withdraw, Discard, Fault, Covers

(* The attributes the oracle does not know.                                *)
LEMMA UnrecognizedAsRequired ==
  ASSUME NEW a \in BGPPathAttr, NEW c \in Context, a.type_code \notin RECOGNIZED
  PROVE  AttributeFaults(a, c) = Required(a, c)
<1>1. a.length \in Nat /\ a.optional \in BOOLEAN /\ a.transitive \in BOOLEAN
  BY DEF BGPPathAttr
<1>2. AttributeFaults(a, c) = Unrecognized(a)
  BY DEF AttributeFaults, ORIGIN, AS_PATH, NEXT_HOP, MP_REACH, MP_UNREACH, RECOGNIZED,
         WELL_KNOWN, NON_TRANSITIVE, TRANSITIVE
<1>3. a.type_code \notin INTERNAL
  BY DEF RECOGNIZED, WELL_KNOWN, NON_TRANSITIVE, INTERNAL
<1>4. Required(a, c) =
        IF a.optional /\ a.transitive /\ a.length > 0 THEN {}
        ELSE {IF a.optional /\ a.length > 0 THEN "ATTRIBUTE_DISCARD" ELSE "TREAT_AS_WITHDRAW"}
  BY <1>3 DEF Required
<1> QED
  BY <1>1, <1>2, <1>4 DEF Unrecognized, Withdraw, Discard, Fault

(* An attribute's faults are what the rules on flags, length and contents, *)
(* each read for itself, ask for: whatever the attribute, unless it is one *)
(* whose flags are in conflict and that the code discards for it.          *)
THEOREM FaultsAreAsRequired ==
  ASSUME NEW a \in BGPPathAttr, NEW c \in Context, ~Lenient(a)
  PROVE  Covers(AttributeFaults(a, c), Required(a, c))
<1>1. a.type_code # 17 /\ a.type_code \in RECOGNIZED =>
        \/ a.type_code \in {ORIGIN, AS_PATH, NEXT_HOP}
        \/ a.type_code \in MULTIPROTOCOL
        \/ a.type_code \in INTERNAL
        \/ a.type_code \in {4, 6, 7, 8, 16, 18, 22, 25, 32, 33}
        \/ a.type_code = 128
  BY DEF RECOGNIZED, WELL_KNOWN, NON_TRANSITIVE, TRANSITIVE, ORIGIN, AS_PATH, NEXT_HOP,
         MULTIPROTOCOL, INTERNAL
<1>2. AttributeFaults(a, c) = Required(a, c) \/ a.type_code = 17
  BY <1>1, MandatoryAsRequired, MultiprotocolAsRequired, InternalAsRequired, PlainAsRequired,
     AttrSetAsRequired, UnrecognizedAsRequired
<1> QED
  BY <1>2, As4PathAsRequired DEF Covers

(* If the verdict is the most severe, it is the one that the rules ask for.*)
LEMMA VerdictAsRequired ==
  ASSUME TypeOK, VerdictIsMostSevere
  PROVE  VerdictIsRequired
<1> SUFFICES ASSUME pc = "update_done",
                    \A k \in 1 .. Len(attrs) : First(k) => ~Lenient(attrs[k])
             PROVE  IsMostSevere(final_result, RequiredOfUpdate)
  BY DEF VerdictIsRequired
<1> DEFINE Missing == MissingFaults(Present, context)
           Faults == FaultsUpTo(Len(attrs)) \cup Missing
<1>1. context \in Context /\ \A k \in 1 .. Len(attrs) : attrs[k] \in BGPPathAttr
  BY DEF TypeOK
<1>2. \A k \in 1 .. Len(attrs) :
        First(k) => Covers(AttributeFaults(attrs[k], context), Required(attrs[k], context))
  BY <1>1, FaultsAreAsRequired
<1>3. \A r : r \in FaultsUpTo(Len(attrs)) <=>
        \E k \in 1 .. Len(attrs) :
          \/ First(k) /\ r \in AttributeFaults(attrs[k], context)
          \/ ~First(k) /\ attrs[k].type_code \in MULTIPROTOCOL /\ r = "SESSION_RESET"
  BY DEF FaultsUpTo, DuplicateFaults, Fault, MULTIPROTOCOL, MP_REACH, MP_UNREACH
<1> DEFINE Needed == ({1, 2} \cup (IF context.has_ipv4_nlri /\ 14 \notin Present
                                   THEN {3} ELSE {})) \ Present
<1>4. \A r : r \in RequiredOfUpdate <=>
        \/ \E k \in 1 .. Len(attrs) :
             \/ First(k) /\ r \in Required(attrs[k], context)
             \/ ~First(k) /\ attrs[k].type_code \in MULTIPROTOCOL /\ r = "SESSION_RESET"
        \/ Needed # {} /\ r = "TREAT_AS_WITHDRAW"
  <2> DEFINE OfFirsts == UNION {Required(attrs[k], context) :
                                  k \in {n \in 1 .. Len(attrs) : First(n)}}
             OfOthers == {"SESSION_RESET" :
                            k \in {n \in 1 .. Len(attrs) :
                                     ~First(n) /\ attrs[n].type_code \in MULTIPROTOCOL}}
             OfMissing == {"TREAT_AS_WITHDRAW" : t \in Needed}
  <2>1. RequiredOfUpdate = OfFirsts \cup OfOthers \cup OfMissing
    BY Zenon DEF RequiredOfUpdate
  <2>2. \A r : r \in OfFirsts <=>
                 \E k \in 1 .. Len(attrs) : First(k) /\ r \in Required(attrs[k], context)
    OBVIOUS
  <2>3. \A r : r \in OfOthers <=>
                 \E k \in 1 .. Len(attrs) :
                   ~First(k) /\ attrs[k].type_code \in MULTIPROTOCOL /\ r = "SESSION_RESET"
    OBVIOUS
  <2> HIDE DEF Needed
  <2>4. \A r : r \in OfMissing <=> Needed # {} /\ r = "TREAT_AS_WITHDRAW"
    OBVIOUS
  <2> HIDE DEF OfFirsts, OfOthers, OfMissing
  <2> QED
    BY <2>1, <2>2, <2>3, <2>4
<1>5. Missing = IF Needed # {} THEN {"TREAT_AS_WITHDRAW"} ELSE {}
  BY DEF MissingFaults, Withdraw, Fault, ORIGIN, AS_PATH, NEXT_HOP, MP_REACH
<1> HIDE DEF Missing, Needed
<1>6. \A r : r \in Missing <=> Needed # {} /\ r = "TREAT_AS_WITHDRAW"
  BY <1>5
<1>7. Covers(Faults, RequiredOfUpdate)
  <2>1. Faults \subseteq RequiredOfUpdate
    BY <1>2, <1>3, <1>4, <1>6 DEF Covers
  <2>2. ASSUME NEW r \in RequiredOfUpdate, r \notin Faults
        PROVE  r = "ATTRIBUTE_DISCARD" /\ "TREAT_AS_WITHDRAW" \in Faults
    <3>1. PICK k \in 1 .. Len(attrs) :
            /\ First(k) /\ r \in Required(attrs[k], context)
            /\ r \notin AttributeFaults(attrs[k], context)
      BY <1>3, <1>4, <1>6, <2>2
    <3>2. /\ r = "ATTRIBUTE_DISCARD"
          /\ "TREAT_AS_WITHDRAW" \in AttributeFaults(attrs[k], context)
      BY <1>2, <3>1 DEF Covers
    <3> QED
      BY <1>3, <3>1, <3>2
  <2> QED
    BY <2>1, <2>2 DEF Covers
<1>8. IsMostSevere(final_result, Faults)
  BY DEF VerdictIsMostSevere, Missing
<1> HIDE DEF Faults
<1>9. \A q \in RequiredOfUpdate : Severity(final_result) <= Severity(q)
  <2>1. Severity("TREAT_AS_WITHDRAW") = 3 /\ Severity("ATTRIBUTE_DISCARD") = 4
    BY DEF Severity
  <2>2. Severity(final_result) \in Int
    BY SeverityTypes
  <2> QED
    BY <1>7, <1>8, <2>1, <2>2 DEF Covers, IsMostSevere
<1> QED
  BY <1>7, <1>8, <1>9 DEF Covers, IsMostSevere

(* The verdict on an UPDATE is the one that the rules on flags, lengths    *)
(* and contents ask for, unless the flags of a DISCARDED type conflict     *)
(* (parse_attributes).                                                     *)
THEOREM VerdictIsAsRequired == Spec => []VerdictIsRequired
BY VerdictAsRequired, TypeCorrect, VerdictIsAlwaysMostSevere, PTL

(***************************************************************************)
(* Loops that build a value                                                *)
(***************************************************************************)

(* What is done at each of N steps, and the function that this builds.     *)
Steps(N, V) == [(1 .. N) \X V -> V]

Builds(f, N, V, init, step) ==
  /\ f \in [0 .. N -> V] /\ f[0] = init
  /\ \A k \in 1 .. N : f[k] = step[<<k, f[k - 1]>>]

(* A function is defined by its first value and by what each next one is   *)
(* made of: the recursive functions Number and FlattenSeq are of this kind.*)
LEMMA RecursionExists ==
  ASSUME NEW V, NEW init \in V, NEW N \in Nat, NEW step \in Steps(N, V)
  PROVE  \E f : Builds(f, N, V, init, step)
<1> USE DEF Steps
<1> DEFINE Upto(n, f) == /\ f \in [0 .. n -> V] /\ f[0] = init
                         /\ \A k \in 1 .. n : f[k] = step[<<k, f[k - 1]>>]
           T == {n \in Nat : n <= N => \E f : Upto(n, f)}
<1>1. 0 \in T
  <2> DEFINE f == [k \in 0 .. 0 |-> init]
  <2>1. Upto(0, f)
    OBVIOUS
  <2> QED
    BY <2>1
<1>2. ASSUME NEW n \in T PROVE n + 1 \in T
  <2> SUFFICES ASSUME n + 1 <= N PROVE \E f : Upto(n + 1, f)
    OBVIOUS
  <2>1. PICK g : Upto(n, g)
    OBVIOUS
  <2> DEFINE f == [k \in 0 .. n + 1 |-> IF k = n + 1 THEN step[<<n + 1, g[n]>>] ELSE g[k]]
  <2>2. n \in 0 .. n /\ n + 1 \in 1 .. N /\ g[n] \in V
    BY <2>1
  <2>3. step[<<n + 1, g[n]>>] \in V
    BY <2>2
  <2>4. f \in [0 .. n + 1 -> V] /\ f[0] = init
    BY <2>1, <2>3
  <2>5. ASSUME NEW k \in 1 .. n + 1 PROVE f[k] = step[<<k, f[k - 1]>>]
    <3>1. k - 1 \in 0 .. n /\ k - 1 # n + 1 /\ f[k - 1] = g[k - 1]
      OBVIOUS
    <3>2. CASE k = n + 1
      <4>1. k - 1 = n /\ f[k] = step[<<n + 1, g[n]>>]
        BY <3>2
      <4>2. f[k - 1] = g[n]
        BY <3>1, <4>1
      <4> QED
        BY <3>2, <4>1, <4>2
    <3>3. CASE k # n + 1
      <4>1. k \in 1 .. n
        BY <3>3
      <4>2. f[k] = g[k]
        BY <3>3
      <4> QED
        BY <2>1, <3>1, <4>1, <4>2
    <3> QED
      BY <3>2, <3>3
  <2> HIDE DEF f
  <2> QED
    BY <2>4, <2>5
<1>3. T = Nat
  <2>1. T \in SUBSET Nat
    OBVIOUS
  <2> HIDE DEF T
  <2> QED
    BY <1>1, <1>2, <2>1, Induction
<1>4. N \in T
  BY <1>3
<1> QED
  BY <1>4 DEF Builds

(***************************************************************************)
(* Numbers                                                                 *)
(***************************************************************************)

(* What the LET of Number defines.                                         *)
Upto(bytes) ==
  CHOOSE f : f = [n \in 0 .. Len(bytes) |-> IF n = 0 THEN 0 ELSE f[n - 1] * 256 + bytes[n]]

(* A byte is a number below 256.                                           *)
LEMMA ByteIs == \A b : b \in Byte <=> b \in Nat /\ b < 256
BY DEF Byte

(* The bytes of a string are numbers.                                      *)
LEMMA BytesAreNumbers ==
  ASSUME NEW s \in Seq(Byte)
  PROVE  /\ Len(s) \in Nat
         /\ \A k \in 1 .. Len(s) : s[k] \in Byte /\ s[k] \in Nat /\ s[k] < 256
<1>1. \A k \in 1 .. Len(s) : s[k] \in Byte
  OBVIOUS
<1>2. Len(s) \in Nat
  OBVIOUS
<1> QED
  BY ONLY <1>1, <1>2, ByteIs, Zenon

(* Number reads one byte more by shifting what it has.                     *)
LEMMA UptoWorks ==
  ASSUME NEW bytes \in Seq(Byte)
  PROVE  /\ Upto(bytes)[0] = 0
         /\ \A n \in 1 .. Len(bytes) : Upto(bytes)[n] = Upto(bytes)[n - 1] * 256 + bytes[n]
<1> DEFINE N == Len(bytes)
           step == [p \in (1 .. N) \X Nat |-> p[2] * 256 + bytes[p[1]]]
<1>1. N \in Nat /\ \A n \in 1 .. N : bytes[n] \in Nat
  <2>1. Len(bytes) \in Nat
    OBVIOUS
  <2>2. \A n \in 1 .. Len(bytes) : bytes[n] \in Nat
    BY BytesAreNumbers
  <2> QED
    BY ONLY <2>1, <2>2, Zenon
<1>2. step \in Steps(N, Nat)
  <2>0. \A p \in (1 .. N) \X Nat : p[1] \in 1 .. N /\ p[2] \in Nat
    OBVIOUS
  <2>1. \A p \in (1 .. N) \X Nat : p[2] \in Nat /\ bytes[p[1]] \in Nat
    BY ONLY <1>1, <2>0, Zenon
  <2>2. \A x, y \in Nat : x * 256 + y \in Nat
    OBVIOUS
  <2> QED
    BY <2>1, <2>2 DEF Steps
<1>a. \A k \in 1 .. N, x \in Nat : step[<<k, x>>] = x * 256 + bytes[k]
  OBVIOUS
<1>3. PICK f : Builds(f, N, Nat, 0, step)
  <2>1. 0 \in Nat
    OBVIOUS
  <2> HIDE DEF step, N
  <2> QED
    BY <1>1, <1>2, <2>1, RecursionExists
<1> USE DEF Builds
<1>4. ASSUME NEW k \in 1 .. N PROVE f[k] = f[k - 1] * 256 + bytes[k]
  <2>1. k - 1 \in 0 .. N /\ f[k - 1] \in Nat
    BY <1>1, <1>3
  <2>2. step[<<k, f[k - 1]>>] = f[k - 1] * 256 + bytes[k]
    BY ONLY <2>1, <1>a, Zenon
  <2> QED
    BY <1>3, <2>2
<1> HIDE DEF step
<1>5. f = [n \in 0 .. N |-> IF n = 0 THEN 0 ELSE f[n - 1] * 256 + bytes[n]]
  <2>1. \A n \in 0 .. N : f[n] = IF n = 0 THEN 0 ELSE f[n - 1] * 256 + bytes[n]
    <3>1. \A n \in 0 .. N : n # 0 => n \in 1 .. N
      BY <1>1
    <3> QED
      BY <1>3, <1>4, <3>1
  <2> QED
    BY <1>3, <2>1
<1>6. Upto(bytes) = [n \in 0 .. N |-> IF n = 0 THEN 0 ELSE Upto(bytes)[n - 1] * 256 + bytes[n]]
  BY <1>5, Zenon DEF Upto
<1>7. 0 \in 0 .. N /\ \A n \in 1 .. N : n \in 0 .. N /\ n # 0
  BY <1>1
<1> HIDE DEF N
<1> QED
  BY <1>6, <1>7 DEF N

(* Numbers of one, two and four bytes (int.from_bytes).                    *)
LEMMA NumberOfOne ==
  ASSUME NEW s \in Seq(Byte), Len(s) = 1
  PROVE  Number(s) = s[1]
<1>1. 1 \in 1 .. Len(s) /\ 1 - 1 = 0
  OBVIOUS
<1>2. Upto(s)[0] = 0 /\ Upto(s)[1] = Upto(s)[0] * 256 + s[1]
  <2>1. \A n \in 1 .. Len(s) : Upto(s)[n] = Upto(s)[n - 1] * 256 + s[n]
    BY UptoWorks
  <2> QED
    BY <1>1, <2>1, UptoWorks
<1>3. s[1] \in Nat
  BY <1>1, BytesAreNumbers
<1>4. Number(s) = Upto(s)[1]
  BY DEF Number, Upto
<1> HIDE DEF Upto
<1>5. \A x \in Nat : 0 * 256 + x = x
  OBVIOUS
<1> QED
  BY ONLY <1>2, <1>3, <1>4, <1>5

(* Numbers of two bytes.                                                   *)
LEMMA NumberOfTwo ==
  ASSUME NEW s \in Seq(Byte), Len(s) = 2
  PROVE  Number(s) = s[1] * 256 + s[2]
<1>1. 1 \in 1 .. Len(s) /\ 2 \in 1 .. Len(s) /\ 1 - 1 = 0 /\ 2 - 1 = 1
  OBVIOUS
<1>2. /\ Upto(s)[0] = 0 /\ Upto(s)[1] = Upto(s)[0] * 256 + s[1]
      /\ Upto(s)[2] = Upto(s)[1] * 256 + s[2]
  <2>1. \A n \in 1 .. Len(s) : Upto(s)[n] = Upto(s)[n - 1] * 256 + s[n]
    BY UptoWorks
  <2> QED
    BY <1>1, <2>1, UptoWorks
<1>3. s[1] \in Nat
  BY <1>1, BytesAreNumbers
<1>4. Number(s) = Upto(s)[2]
  BY DEF Number, Upto
<1> HIDE DEF Upto
<1>5. \A x \in Nat : 0 * 256 + x = x
  OBVIOUS
<1> QED
  BY ONLY <1>2, <1>3, <1>4, <1>5

(* Numbers of four bytes, of which the first two are zero: AS numbers.     *)
LEMMA NumberOfFour ==
  ASSUME NEW s \in Seq(Byte), Len(s) = 4, s[1] = 0, s[2] = 0
  PROVE  Number(s) = s[3] * 256 + s[4]
<1>1. /\ 1 \in 1 .. Len(s) /\ 2 \in 1 .. Len(s) /\ 3 \in 1 .. Len(s) /\ 4 \in 1 .. Len(s)
      /\ 1 - 1 = 0 /\ 2 - 1 = 1 /\ 3 - 1 = 2 /\ 4 - 1 = 3
  OBVIOUS
<1>2. /\ Upto(s)[1] = Upto(s)[0] * 256 + s[1] /\ Upto(s)[2] = Upto(s)[1] * 256 + s[2]
      /\ Upto(s)[3] = Upto(s)[2] * 256 + s[3] /\ Upto(s)[4] = Upto(s)[3] * 256 + s[4]
      /\ Upto(s)[0] = 0
  <2>1. \A n \in 1 .. Len(s) : Upto(s)[n] = Upto(s)[n - 1] * 256 + s[n]
    BY UptoWorks
  <2> QED
    BY <1>1, <2>1, UptoWorks
<1>3. s[3] \in Nat
  BY <1>1, BytesAreNumbers
<1>4. Number(s) = Upto(s)[4]
  BY DEF Number, Upto
<1> HIDE DEF Upto
<1>5. \A x \in Nat : 0 * 256 + x = x
  OBVIOUS
<1>6. s[1] = 0 /\ s[2] = 0 /\ 0 \in Nat
  OBVIOUS
<1>7. Upto(s)[2] = 0 /\ Upto(s)[3] = s[3]
  BY ONLY <1>2, <1>3, <1>5, <1>6
<1> QED
  BY ONLY <1>2, <1>4, <1>7

(* A number below 65536 is what its two bytes are read as (struct.pack).   *)
LEMMA WordIs ==
  ASSUME NEW n \in Nat, n < 65536
  PROVE  Word(n) \in Seq(Byte) /\ Len(Word(n)) = 2 /\ Number(Word(n)) = n
<1> DEFINE q == n \div 256
           r == n % 256
<1>1. q \in Nat /\ q < 256 /\ r \in Nat /\ r < 256 /\ n = q * 256 + r
  OBVIOUS
<1>2. Word(n) = <<q, r>>
  BY DEF Word
<1> HIDE DEF q, r
<1>3. q \in Byte /\ r \in Byte
  BY <1>1, ByteIs
<1>4. <<q, r>> \in Seq(Byte) /\ Len(<<q, r>>) = 2 /\ <<q, r>>[1] = q /\ <<q, r>>[2] = r
  BY <1>3
<1>5. Number(<<q, r>>) = <<q, r>>[1] * 256 + <<q, r>>[2]
  BY ONLY <1>4, NumberOfTwo, Zenon
<1> QED
  BY ONLY <1>1, <1>2, <1>4, <1>5

(***************************************************************************)
(* Sequences that are joined                                               *)
(***************************************************************************)

(* What the LET of FlattenSeq defines, and the first k sequences joined.   *)
Flat(w) == CHOOSE f : f = [k \in 1 .. Len(w) |-> IF k = 1 THEN w[k] ELSE f[k - 1] \o w[k]]
Joined(w, k) == IF k = 0 THEN <<>> ELSE Flat(w)[k]

(* FlattenSeq joins one sequence after the other.                          *)
LEMMA FlatWorks ==
  ASSUME NEW w \in Seq(Seq(Byte))
  PROVE  \A k \in 1 .. Len(w) :
           Flat(w)[k] = IF k = 1 THEN w[k] ELSE Flat(w)[k - 1] \o w[k]
<1> DEFINE N == Len(w)
           step == [p \in (1 .. N) \X Seq(Byte) |-> p[2] \o w[p[1]]]
<1>1. N \in Nat /\ \A k \in 1 .. N : w[k] \in Seq(Byte)
  OBVIOUS
<1>2. step \in Steps(N, Seq(Byte))
  <2>1. \A p \in (1 .. N) \X Seq(Byte) : p[1] \in 1 .. N /\ p[2] \in Seq(Byte)
    OBVIOUS
  <2>2. \A x, y \in Seq(Byte) : x \o y \in Seq(Byte)
    OBVIOUS
  <2>3. \A p \in (1 .. N) \X Seq(Byte) : p[2] \o w[p[1]] \in Seq(Byte)
    BY ONLY <1>1, <2>1, <2>2, Zenon
  <2> HIDE DEF N
  <2> QED
    BY ONLY <2>3 DEF Steps, step
<1>3. \A k \in 1 .. N, s \in Seq(Byte) : step[<<k, s>>] = s \o w[k]
  <2> HIDE DEF N
  <2> QED
    OBVIOUS
<1>4. PICK f : Builds(f, N, Seq(Byte), <<>>, step)
  <2>1. <<>> \in Seq(Byte)
    OBVIOUS
  <2> HIDE DEF step, N
  <2> QED
    BY ONLY <1>1, <1>2, <2>1, RecursionExists
<1> HIDE DEF step
<1>5. f \in [0 .. N -> Seq(Byte)] /\ f[0] = <<>>
  BY <1>4 DEF Builds
<1>6. ASSUME NEW k \in 1 .. N PROVE f[k] = f[k - 1] \o w[k]
  <2> HIDE DEF N
  <2>1. k - 1 \in 0 .. N
    BY <1>1
  <2>2. f[k - 1] \in Seq(Byte)
    BY ONLY <1>5, <2>1
  <2>3. f[k] = step[<<k, f[k - 1]>>]
    BY <1>4 DEF Builds
  <2> QED
    BY ONLY <1>3, <2>2, <2>3, k \in 1 .. N, Zenon
<1> DEFINE g == [k \in 1 .. N |-> f[k]]
<1>7. g = [k \in 1 .. N |-> IF k = 1 THEN w[k] ELSE g[k - 1] \o w[k]]
  <2> HIDE DEF N
  <2>1. ASSUME NEW k \in 1 .. N PROVE g[k] = IF k = 1 THEN w[k] ELSE g[k - 1] \o w[k]
    <3>1. CASE k = 1
      <4>1. f[k] = <<>> \o w[k] /\ w[k] \in Seq(Byte)
        <5>1. k - 1 = 0
          BY <3>1
        <5> QED
          BY ONLY <1>1, <1>5, <1>6, <5>1, k \in 1 .. N, Zenon
      <4>2. \A s \in Seq(Byte) : <<>> \o s = s
        OBVIOUS
      <4> QED
        BY ONLY <3>1, <4>1, <4>2, k \in 1 .. N
    <3>2. CASE k # 1
      <4>1. k - 1 \in 1 .. N
        BY <1>1, <3>2
      <4>2. g[k] = f[k] /\ g[k - 1] = f[k - 1]
        BY ONLY <4>1, k \in 1 .. N
      <4> QED
        BY ONLY <1>6, <3>2, <4>2, k \in 1 .. N
    <3> QED
      BY <3>1, <3>2
  <2> QED
    BY ONLY <2>1
<1> HIDE DEF g
<1>8. Flat(w) = [k \in 1 .. N |-> IF k = 1 THEN w[k] ELSE Flat(w)[k - 1] \o w[k]]
  BY <1>7, Zenon DEF Flat
<1> HIDE DEF N
<1>9. ASSUME NEW k \in 1 .. N PROVE Flat(w)[k] = IF k = 1 THEN w[k] ELSE Flat(w)[k - 1] \o w[k]
  BY ONLY <1>8, k \in 1 .. N, Zenon
<1> QED
  BY ONLY <1>9, Zenon DEF N

(* What is joined of some sequences of bytes.                              *)
LEMMA JoinedWorks ==
  ASSUME NEW w \in Seq(Seq(Byte))
  PROVE  /\ FlattenSeq(w) = Joined(w, Len(w)) /\ Joined(w, 0) = <<>>
         /\ \A k \in 0 .. Len(w) : Joined(w, k) \in Seq(Byte)
         /\ \A k \in 1 .. Len(w) : Joined(w, k) = Joined(w, k - 1) \o w[k]
<1> DEFINE N == Len(w)
<1>1. N \in Nat /\ \A k \in 1 .. N : w[k] \in Seq(Byte)
  OBVIOUS
<1>2. \A k \in 1 .. N : Flat(w)[k] = IF k = 1 THEN w[k] ELSE Flat(w)[k - 1] \o w[k]
  BY FlatWorks
<1>3. Joined(w, 0) = <<>>
  BY DEF Joined
<1>4. ASSUME NEW k \in 1 .. N PROVE Joined(w, k) = Joined(w, k - 1) \o w[k]
  <2> HIDE DEF N
  <2>1. Joined(w, k) = Flat(w)[k]
    BY DEF Joined
  <2>2. CASE k = 1
    <3>1. Joined(w, k - 1) = <<>> /\ Joined(w, k) = w[k] /\ w[k] \in Seq(Byte)
      BY <1>1, <1>2, <1>3, <2>1, <2>2
    <3>2. \A s \in Seq(Byte) : <<>> \o s = s
      OBVIOUS
    <3> QED
      BY ONLY <3>1, <3>2
  <2>3. CASE k # 1
    <3>1. Joined(w, k - 1) = Flat(w)[k - 1]
      BY <2>3 DEF Joined
    <3> QED
      BY ONLY <1>2, <2>1, <2>3, <3>1, k \in 1 .. N, Zenon
  <2> QED
    BY <2>2, <2>3
<1>5. \A k \in 0 .. N : Joined(w, k) \in Seq(Byte)
  <2> HIDE DEF N
  <2> DEFINE T == {k \in Nat : k <= N => Joined(w, k) \in Seq(Byte)}
  <2>1. 0 \in T
    <3>1. <<>> \in Seq(Byte)
      OBVIOUS
    <3> QED
      BY ONLY <1>3, <3>1
  <2>2. ASSUME NEW k \in T PROVE k + 1 \in T
    <3> SUFFICES ASSUME k + 1 <= N PROVE Joined(w, k + 1) \in Seq(Byte)
      OBVIOUS
    <3>1. k + 1 \in 1 .. N /\ (k + 1) - 1 = k /\ Joined(w, k) \in Seq(Byte)
      BY <1>1
    <3>2. Joined(w, k + 1) = Joined(w, k) \o w[k + 1] /\ w[k + 1] \in Seq(Byte)
      BY ONLY <1>1, <1>4, <3>1
    <3>3. \A x, y \in Seq(Byte) : x \o y \in Seq(Byte)
      OBVIOUS
    <3> QED
      BY ONLY <3>1, <3>2, <3>3, Zenon
  <2>3. T = Nat
    <3>1. T \in SUBSET Nat
      OBVIOUS
    <3> HIDE DEF T
    <3> QED
      BY <2>1, <2>2, <3>1, Induction
  <2> QED
    BY <1>1, <2>3
<1>6. FlattenSeq(w) = Joined(w, N)
  <2>1. CASE Len(w) = 0
    <3>1. w = <<>>
      BY <2>1
    <3> QED
      BY <2>1, <3>1 DEF FlattenSeq, Joined
  <2>2. CASE Len(w) # 0
    <3>1. FlattenSeq(w) = Flat(w)[Len(w)]
      BY <2>2, Zenon DEF FlattenSeq, Flat
    <3> QED
      BY <2>2, <3>1 DEF Joined
  <2> QED
    BY <2>1, <2>2
<1> QED
  BY <1>3, <1>4, <1>5, <1>6

(* The bytes of two joined strings.                                        *)
LEMMA JoinOfTwo ==
  ASSUME NEW s \in Seq(Byte), NEW t \in Seq(Byte)
  PROVE  /\ s \o t \in Seq(Byte) /\ Len(s) \in Nat /\ Len(t) \in Nat
         /\ Len(s \o t) = Len(s) + Len(t)
         /\ \A p \in 1 .. Len(s) : (s \o t)[p] = s[p]
         /\ \A p \in 1 .. Len(t) : (s \o t)[Len(s) + p] = t[p]
OBVIOUS

(* Where the k-th string begins in what is joined.                         *)
Offset(w, k) == Len(Joined(w, k - 1))

(* A string is found at its offset: what follows does not move it.         *)
LEMMA Placed ==
  ASSUME NEW w \in Seq(Seq(Byte)), NEW k \in 1 .. Len(w)
  PROVE  /\ FlattenSeq(w) \in Seq(Byte) /\ Offset(w, k) \in Nat /\ Len(w[k]) \in Nat
         /\ Offset(w, k + 1) = Offset(w, k) + Len(w[k])
         /\ Offset(w, k + 1) <= Len(FlattenSeq(w))
         /\ \A j \in 1 .. Len(w[k]) : FlattenSeq(w)[Offset(w, k) + j] = w[k][j]
<1> DEFINE N == Len(w)
           J(m) == Joined(w, m)
           Kept(m) == Len(J(k)) <= Len(J(m)) /\ \A p \in 1 .. Len(J(k)) : J(m)[p] = J(k)[p]
           T == {m \in Nat : k <= m /\ m <= N => Kept(m)}
<1>1. N \in Nat /\ k \in Nat /\ k >= 1 /\ k <= N /\ k - 1 \in 0 .. N
  OBVIOUS
<1>2. /\ FlattenSeq(w) = J(N)
      /\ \A m \in 0 .. N : J(m) \in Seq(Byte)
      /\ \A m \in 1 .. N : J(m) = J(m - 1) \o w[m]
  BY JoinedWorks
<1>3. \A m \in 1 .. N : w[m] \in Seq(Byte)
  OBVIOUS
<1> HIDE DEF N, J
<1>4. ASSUME NEW m \in 1 .. N
      PROVE  /\ Len(J(m)) = Len(J(m - 1)) + Len(w[m])
             /\ Len(J(m - 1)) \in Nat /\ Len(w[m]) \in Nat
             /\ \A p \in 1 .. Len(J(m - 1)) : J(m)[p] = J(m - 1)[p]
             /\ \A p \in 1 .. Len(w[m]) : J(m)[Len(J(m - 1)) + p] = w[m][p]
  <2>1. m - 1 \in 0 .. N /\ J(m - 1) \in Seq(Byte) /\ w[m] \in Seq(Byte)
    BY <1>1, <1>2, <1>3
  <2>2. J(m) = J(m - 1) \o w[m]
    BY <1>2
  <2>3. LET s == J(m - 1)  t == w[m]
        IN  /\ Len(s) \in Nat /\ Len(t) \in Nat /\ Len(s \o t) = Len(s) + Len(t)
            /\ \A p \in 1 .. Len(s) : (s \o t)[p] = s[p]
            /\ \A p \in 1 .. Len(t) : (s \o t)[Len(s) + p] = t[p]
    BY ONLY <2>1, JoinOfTwo
  <2> QED
    BY ONLY <2>2, <2>3
<1>5. 0 \in T
  BY <1>1
<1>6. ASSUME NEW m \in T PROVE m + 1 \in T
  <2> SUFFICES ASSUME k <= m + 1, m + 1 <= N PROVE Kept(m + 1)
    OBVIOUS
  <2>1. CASE k = m + 1
    <3>1. Len(J(k)) \in Nat
      <4>1. k \in 0 .. N
        BY <1>1
      <4> QED
        BY <1>2, <4>1
    <3> QED
      BY <2>1, <3>1
  <2>2. CASE k # m + 1
    <3>1. Kept(m) /\ m + 1 \in 1 .. N /\ (m + 1) - 1 = m
      BY <1>1, <2>2
    <3>2. /\ Len(J(m)) <= Len(J(m + 1)) /\ Len(J(m)) \in Nat /\ Len(J(m + 1)) \in Nat
          /\ \A p \in 1 .. Len(J(m)) : J(m + 1)[p] = J(m)[p]
      <4>1. LET a == Len(J(m))  b == Len(w[m + 1])
            IN  /\ Len(J(m + 1)) = a + b /\ a \in Nat /\ b \in Nat
                /\ \A p \in 1 .. a : J(m + 1)[p] = J(m)[p]
        BY ONLY <1>4, <3>1
      <4>2. \A a, b \in Nat : a <= a + b /\ a + b \in Nat
        OBVIOUS
      <4> QED
        BY ONLY <4>1, <4>2
    <3>3. Len(J(k)) \in Nat
      <4>1. k \in 0 .. N
        BY <1>1
      <4> QED
        BY <1>2, <4>1
    <3>4. \A p \in 1 .. Len(J(k)) : p \in 1 .. Len(J(m))
      BY <3>1, <3>2, <3>3
    <3> QED
      BY <3>1, <3>2, <3>3, <3>4
  <2> QED
    BY <2>1, <2>2
<1>7. T = Nat
  <2>1. T \in SUBSET Nat
    OBVIOUS
  <2> HIDE DEF T
  <2> QED
    BY <1>5, <1>6, <2>1, Induction
<1>8. Kept(N)
  <2>1. N \in T
    BY <1>1, <1>7
  <2> QED
    BY <1>1, <2>1
<1>9. /\ Len(J(k)) = Len(J(k - 1)) + Len(w[k]) /\ Len(J(k - 1)) \in Nat /\ Len(w[k]) \in Nat
      /\ \A p \in 1 .. Len(w[k]) : J(k)[Len(J(k - 1)) + p] = w[k][p]
  <2>1. k \in 1 .. N
    BY <1>1
  <2> QED
    BY <1>4, <2>1
<1>10. (k + 1) - 1 = k /\ Offset(w, k) = Len(J(k - 1)) /\ Offset(w, k + 1) = Len(J(k))
  <2>1. (k + 1) - 1 = k
    BY <1>1
  <2> QED
    BY <2>1 DEF Offset, J
<1>11. FlattenSeq(w) \in Seq(Byte)
  BY <1>1, <1>2
<1>12. ASSUME NEW j \in 1 .. Len(w[k]) PROVE FlattenSeq(w)[Offset(w, k) + j] = w[k][j]
  <2>1. Len(J(k - 1)) + j \in 1 .. Len(J(k))
    BY <1>9
  <2> QED
    BY <1>2, <1>8, <1>9, <1>10, <2>1
<1> QED
  BY <1>2, <1>8, <1>9, <1>10, <1>11, <1>12

(***************************************************************************)
(* Loops that read a value from the end of a string                        *)
(***************************************************************************)

(* The value from a position on is made of the one from the next position  *)
(* on, if the string has that.                                             *)
ReadsFrom(f, from, L, V, next, base, step) ==
  /\ f \in [from .. L -> V]
  /\ \A o \in from .. L : f[o] = IF next[o] <= L THEN step[<<o, f[next[o]]>>] ELSE base[o]

Moves(L) == {next \in [0 .. L -> Nat] : \A o \in 0 .. L : next[o] > o}
Values(L, V) == [0 .. L -> V]
Readings(L, V) == [(0 .. L) \X V -> V]

(* Such a function is defined, from the end backwards.                     *)
LEMMA ReadingExists ==
  ASSUME NEW L \in Nat, NEW V, NEW next \in Moves(L), NEW base \in Values(L, V),
         NEW step \in Readings(L, V)
  PROVE  \E f : ReadsFrom(f, 0, L, V, next, base, step)
<1> DEFINE R(f, from) == ReadsFrom(f, from, L, V, next, base, step)
           T == {n \in Nat : n <= L => \E f : R(f, L - n)}
<1>1. /\ \A o \in 0 .. L : next[o] \in Nat /\ next[o] > o /\ base[o] \in V
      /\ \A o \in 0 .. L, v \in V : step[<<o, v>>] \in V
  BY DEF Moves, Values, Readings
<1>2. 0 \in T
  <2> DEFINE f == [o \in L .. L |-> base[o]]
  <2>1. L - 0 = L /\ L \in 0 .. L /\ \A o \in L .. L : o = L /\ ~ (next[o] <= L)
    BY <1>1
  <2>2. f \in [L .. L -> V]
    BY <1>1, <2>1
  <2>3. \A o \in L .. L : f[o] = base[o]
    OBVIOUS
  <2> HIDE DEF f
  <2>4. R(f, L)
    BY ONLY <2>1, <2>2, <2>3 DEF ReadsFrom
  <2> HIDE DEF R
  <2> QED
    BY ONLY <2>1, <2>4
<1>3. ASSUME NEW n \in T PROVE n + 1 \in T
  <2> SUFFICES ASSUME n + 1 <= L PROVE \E f : R(f, L - (n + 1))
    OBVIOUS
  <2>1. PICK g : R(g, L - n)
    OBVIOUS
  <2> DEFINE m == L - (n + 1)
             f == [o \in m .. L |->
                     IF o = m THEN IF next[m] <= L THEN step[<<m, g[next[m]]>>] ELSE base[m]
                     ELSE g[o]]
  <2>2. /\ m \in 0 .. L /\ m \in m .. L /\ L - n = m + 1
        /\ \A o \in m .. L : o \in 0 .. L /\ (o # m => o \in L - n .. L)
        /\ \A o \in L - n .. L : o \in m .. L /\ o # m
    OBVIOUS
  <2>3. /\ \A o \in L - n .. L : g[o] \in V
        /\ \A o \in L - n .. L : g[o] = IF next[o] <= L THEN step[<<o, g[next[o]]>>] ELSE base[o]
    BY <2>1 DEF ReadsFrom
  <2> HIDE DEF m
  <2>4. \A o \in m .. L : next[o] <= L => next[o] \in L - n .. L
    <3> SUFFICES ASSUME NEW o \in m .. L, next[o] <= L PROVE next[o] \in L - n .. L
      OBVIOUS
    <3>1. next[o] \in Nat /\ next[o] > o /\ o >= m /\ o \in Int /\ m \in Int
      BY <1>1, <2>2
    <3> QED
      BY <2>2, <3>1
  <2>5. ASSUME NEW o \in m .. L PROVE f[o] \in V
    <3>1. f[o] = IF o = m THEN IF next[m] <= L THEN step[<<m, g[next[m]]>>] ELSE base[m]
                 ELSE g[o]
      OBVIOUS
    <3> HIDE DEF f
    <3> QED
      BY ONLY <1>1, <2>2, <2>3, <2>4, <3>1, o \in m .. L
  <2>6. ASSUME NEW o \in m .. L
        PROVE  f[o] = IF next[o] <= L THEN step[<<o, f[next[o]]>>] ELSE base[o]
    <3>1. f[o] = IF o = m THEN IF next[m] <= L THEN step[<<m, g[next[m]]>>] ELSE base[m]
                 ELSE g[o]
      OBVIOUS
    <3>2. next[o] <= L => f[next[o]] = g[next[o]]
      BY ONLY <2>2, <2>4, o \in m .. L
    <3> HIDE DEF f
    <3> QED
      BY ONLY <2>2, <2>3, <3>1, <3>2, o \in m .. L
  <2>7. f \in [m .. L -> V]
    BY ONLY <2>5
  <2> HIDE DEF f
  <2>8. R(f, m)
    BY ONLY <2>6, <2>7 DEF ReadsFrom
  <2> HIDE DEF R
  <2> QED
    BY <2>8 DEF m
<1>4. T = Nat
  <2>1. T \in SUBSET Nat
    OBVIOUS
  <2> HIDE DEF T
  <2> QED
    BY <1>2, <1>3, <2>1, Induction
<1>5. L \in T /\ L - L = 0
  BY <1>4
<1> HIDE DEF R
<1>6. \E f : R(f, 0)
  BY <1>5
<1> QED
  BY <1>6 DEF R

(***************************************************************************)
(* decode_update_attributes                                                *)
(***************************************************************************)

(* The body of the loop of DecodedAttrs, and what its LET defines.         *)
HeaderEnd(raw, o) == o + (IF ExtendedLength(raw[o + 1]) THEN 4 ELSE 3)
LengthAt(raw, o) == Number(SubSeq(raw, o + 3, HeaderEnd(raw, o)))
AttrAt(raw, o) ==
  [flags |-> raw[o + 1], type_code |-> raw[o + 2], length |-> LengthAt(raw, o),
   value |-> SubSeq(raw, HeaderEnd(raw, o) + 1, HeaderEnd(raw, o) + LengthAt(raw, o))]
DecodeBody(raw, f, o) ==
  IF o = Len(raw) THEN <<>>
  ELSE IF HeaderEnd(raw, o) > Len(raw) THEN <<Raised>>
       ELSE IF HeaderEnd(raw, o) + LengthAt(raw, o) > Len(raw) THEN <<Raised>>
            ELSE <<AttrAt(raw, o)>> \o f[HeaderEnd(raw, o) + LengthAt(raw, o)]
Decoding(raw) == CHOOSE f : f = [o \in 0 .. Len(raw) |-> DecodeBody(raw, f, o)]

(* The length of an attribute is read from one byte or from two.           *)
LEMMA LengthIsNumber ==
  ASSUME NEW raw \in Seq(Byte), NEW o \in 0 .. Len(raw), HeaderEnd(raw, o) <= Len(raw)
  PROVE  LengthAt(raw, o) \in Nat /\ HeaderEnd(raw, o) \in Nat /\ HeaderEnd(raw, o) > o
<1>1. o \in Nat /\ Len(raw) \in Nat /\ \A k \in 1 .. Len(raw) : raw[k] \in Byte
  OBVIOUS
<1>2. \A b : b \in Byte => b \in Nat
  BY ByteIs
<1>3. CASE ExtendedLength(raw[o + 1])
  <2>1. HeaderEnd(raw, o) = o + 4
    BY <1>3 DEF HeaderEnd
  <2>2. o + 4 <= Len(raw)
    BY <2>1
  <2> DEFINE s == SubSeq(raw, o + 3, o + 4)
  <2>3. s \in Seq(Byte) /\ Len(s) = 2 /\ s[1] \in Byte /\ s[2] \in Byte
    BY <1>1, <2>2
  <2> HIDE DEF s
  <2>4. Number(s) = s[1] * 256 + s[2]
    BY <2>3, NumberOfTwo
  <2>5. s[1] \in Nat /\ s[2] \in Nat
    BY <1>2, <2>3
  <2>6. Number(s) \in Nat
    BY ONLY <2>4, <2>5
  <2> QED
    BY <1>1, <2>1, <2>6 DEF s, LengthAt
<1>4. CASE ~ExtendedLength(raw[o + 1])
  <2>1. HeaderEnd(raw, o) = o + 3
    BY <1>4 DEF HeaderEnd
  <2>2. o + 3 <= Len(raw)
    BY <2>1
  <2> DEFINE s == SubSeq(raw, o + 3, o + 3)
  <2>3. s \in Seq(Byte) /\ Len(s) = 1 /\ s[1] \in Byte
    BY <1>1, <2>2
  <2> HIDE DEF s
  <2>4. Number(s) = s[1] /\ s[1] \in Nat
    BY <1>2, <2>3, NumberOfOne
  <2> QED
    BY <1>1, <2>1, <2>4 DEF s, LengthAt
<1> QED
  BY <1>3, <1>4

(* The loop is defined: each attribute moves on.                           *)
LEMMA DecodingWorks ==
  ASSUME NEW raw \in Seq(Byte)
  PROVE  \A o \in 0 .. Len(raw) : Decoding(raw)[o] = DecodeBody(raw, Decoding(raw), o)
<1> DEFINE L == Len(raw)
           NextAt(o) == HeaderEnd(raw, o) + LengthAt(raw, o)
           V == Seq({Raised} \cup {AttrAt(raw, o) : o \in 0 .. L})
           next == [o \in 0 .. L |-> IF o = L \/ HeaderEnd(raw, o) > L THEN L + 1 ELSE NextAt(o)]
           base == [o \in 0 .. L |-> IF o = L THEN <<>> ELSE <<Raised>>]
           step == [p \in (0 .. L) \X V |-> <<AttrAt(raw, p[1])>> \o p[2]]
<1>1. L \in Nat
  OBVIOUS
<1>2. next \in Moves(L)
  <2>1. ASSUME NEW o \in 0 .. L PROVE next[o] \in Nat /\ next[o] > o
    <3>1. next[o] = IF o = L \/ HeaderEnd(raw, o) > L THEN L + 1 ELSE NextAt(o)
      OBVIOUS
    <3>2. CASE o = L \/ HeaderEnd(raw, o) > L
      BY <1>1, <3>1, <3>2
    <3>3. CASE ~(o = L \/ HeaderEnd(raw, o) > L)
      <4>1. HeaderEnd(raw, o) <= Len(raw)
        <5>1. HeaderEnd(raw, o) \in Nat
          BY DEF HeaderEnd
        <5> QED
          BY <1>1, <3>3, <5>1
      <4>2. LengthAt(raw, o) \in Nat /\ HeaderEnd(raw, o) \in Nat /\ HeaderEnd(raw, o) > o
        BY <4>1, LengthIsNumber
      <4>3. next[o] = HeaderEnd(raw, o) + LengthAt(raw, o)
        BY <3>1, <3>3
      <4> HIDE DEF next
      <4> QED
        BY <4>2, <4>3
    <3> QED
      BY <3>2, <3>3
  <2>2. next = [o \in 0 .. L |-> next[o]]
    OBVIOUS
  <2> HIDE DEF next, L
  <2>3. next \in [0 .. L -> Nat]
    BY ONLY <2>1, <2>2
  <2> QED
    BY ONLY <2>1, <2>3 DEF Moves
<1>3. base \in Values(L, V)
  <2>1. <<>> \in V /\ <<Raised>> \in V
    OBVIOUS
  <2> HIDE DEF V
  <2> QED
    BY <2>1 DEF Values
<1>4. ASSUME NEW o \in 0 .. L, NEW v \in V PROVE <<AttrAt(raw, o)>> \o v \in V
  <2> DEFINE A == {Raised} \cup {AttrAt(raw, p) : p \in 0 .. L}
  <2>1. AttrAt(raw, o) \in A /\ v \in Seq(A) /\ V = Seq(A)
    OBVIOUS
  <2> HIDE DEF A, V
  <2>2. <<AttrAt(raw, o)>> \o v \in Seq(A)
    BY ONLY <2>1
  <2> QED
    BY <2>1, <2>2
<1> HIDE DEF V
<1>5. step \in Readings(L, V)
  <2>1. \A p \in (0 .. L) \X V : p[1] \in 0 .. L /\ p[2] \in V
    OBVIOUS
  <2>2. \A p \in (0 .. L) \X V : <<AttrAt(raw, p[1])>> \o p[2] \in V
    BY ONLY <1>4, <2>1, Zenon
  <2> HIDE DEF L
  <2> QED
    BY ONLY <2>2 DEF Readings, step
<1>6. \A o \in 0 .. L, v \in V : step[<<o, v>>] = <<AttrAt(raw, o)>> \o v
  OBVIOUS
<1>7. /\ \A o \in 0 .. L :
           next[o] = IF o = L \/ HeaderEnd(raw, o) > L THEN L + 1 ELSE NextAt(o)
      /\ \A o \in 0 .. L : base[o] = IF o = L THEN <<>> ELSE <<Raised>>
  <2> HIDE DEF NextAt
  <2> QED
    OBVIOUS
<1> HIDE DEF next, base, step
<1>8. PICK f : ReadsFrom(f, 0, L, V, next, base, step)
  <2> HIDE DEF L
  <2> QED
    BY <1>1, <1>2, <1>3, <1>5, ReadingExists
<1>9. ASSUME NEW o \in 0 .. L PROVE f[o] = DecodeBody(raw, f, o)
  <2>1. /\ f \in [0 .. L -> V]
        /\ f[o] = IF next[o] <= L THEN step[<<o, f[next[o]]>>] ELSE base[o]
    BY <1>8 DEF ReadsFrom
  <2>2. next[o] \in Nat /\ next[o] > o
    BY <1>2 DEF Moves
  <2>3. CASE o = L \/ HeaderEnd(raw, o) > L
    <3>1. next[o] = L + 1 /\ ~(next[o] <= L)
      BY <1>1, <1>7, <2>3
    <3>2. f[o] = IF o = L THEN <<>> ELSE <<Raised>>
      BY <1>7, <2>1, <3>1
    <3> QED
      BY <2>3, <3>2 DEF DecodeBody
  <2>4. CASE ~(o = L \/ HeaderEnd(raw, o) > L) /\ NextAt(o) > L
    <3>1. next[o] = NextAt(o) /\ ~(next[o] <= L)
      <4>1. next[o] = NextAt(o)
        BY <1>7, <2>4
      <4> QED
        BY <1>1, <2>2, <2>4, <4>1
    <3>2. f[o] = <<Raised>>
      BY <1>7, <2>1, <2>4, <3>1
    <3> QED
      BY <2>4, <3>2 DEF DecodeBody
  <2>5. CASE ~(o = L \/ HeaderEnd(raw, o) > L) /\ ~(NextAt(o) > L)
    <3>1. next[o] = NextAt(o)
      BY <1>7, <2>5
    <3>2. next[o] <= L /\ next[o] \in 0 .. L
      BY <1>1, <2>2, <2>5, <3>1
    <3>3. f[next[o]] \in V
      BY <2>1, <3>2
    <3>4. f[o] = <<AttrAt(raw, o)>> \o f[next[o]]
      BY ONLY <1>6, <2>1, <3>2, <3>3, o \in 0 .. L
    <3> QED
      BY <2>5, <3>1, <3>4 DEF DecodeBody
  <2> QED
    BY <2>3, <2>4, <2>5
<1>10. f = [o \in 0 .. L |-> DecodeBody(raw, f, o)]
  <2>1. f \in [0 .. L -> V]
    BY <1>8 DEF ReadsFrom
  <2> HIDE DEF L
  <2> QED
    BY ONLY <1>9, <2>1
<1>11. Decoding(raw) = [o \in 0 .. L |-> DecodeBody(raw, Decoding(raw), o)]
  BY ONLY <1>10, Zenon DEF Decoding
<1> HIDE DEF L
<1>12. ASSUME NEW o \in 0 .. L PROVE Decoding(raw)[o] = DecodeBody(raw, Decoding(raw), o)
  BY ONLY <1>11, o \in 0 .. L, Zenon
<1> QED
  BY ONLY <1>12, Zenon DEF L

(* What DecodedAttrs is.                                                   *)
LEMMA DecodedFromStart == \A raw : DecodedAttrs(raw) = Decoding(raw)[0]
BY Zenon DEF DecodedAttrs, Decoding, DecodeBody, AttrAt, LengthAt, HeaderEnd

AttrRecord == [flags : Byte, type_code : Byte, length : Nat, value : Seq(Byte)]

(* An attribute whose value is as long as it says, and whose length its    *)
(* field can hold.                                                         *)
Encoded(a) ==
  /\ a \in AttrRecord
  /\ a.length = Len(a.value) /\ Encodable(a)

HeaderLen(a) == IF ExtendedLength(a.flags) THEN 4 ELSE 3

(* The bytes of an attribute (encode_attr).                                *)
LEMMA WireOfAttr ==
  ASSUME NEW a, Encoded(a)
  PROVE  LET x == _attr_wire(a)  h == HeaderLen(a)
         IN  /\ x \in Seq(Byte) /\ Len(x) = h + a.length /\ Len(x) \in Nat
             /\ x[1] = a.flags /\ x[2] = a.type_code
             /\ Number(SubSeq(x, 3, h)) = a.length
             /\ \A j \in 1 .. a.length : x[h + j] = a.value[j]
<1> DEFINE h == HeaderLen(a)
           lb == IF ExtendedLength(a.flags) THEN Word(a.length) ELSE <<a.length>>
           t == a.type_code
           v == a.value
<1>1. /\ a.flags \in Byte /\ t \in Byte /\ a.length \in Nat /\ v \in Seq(Byte)
      /\ a.length = Len(v)
  BY DEF Encoded, AttrRecord
<1>2. lb \in Seq(Byte) /\ Len(lb) = h - 2 /\ Number(lb) = a.length /\ h \in 3 .. 4
  <2>1. CASE ExtendedLength(a.flags)
    <3>1. a.length < 65536
      BY <1>1, <2>1 DEF Encoded, Encodable
    <3>2. Word(a.length) \in Seq(Byte) /\ Len(Word(a.length)) = 2
          /\ Number(Word(a.length)) = a.length
      BY <1>1, <3>1, WordIs
    <3>3. lb = Word(a.length) /\ h = 4
      BY <2>1 DEF HeaderLen
    <3> HIDE DEF lb, h
    <3> QED
      BY ONLY <3>2, <3>3
  <2>2. CASE ~ExtendedLength(a.flags)
    <3>1. a.length < 256
      BY <1>1, <2>2 DEF Encoded, Encodable
    <3>2. a.length \in Byte
      BY <1>1, <3>1, ByteIs
    <3>3. <<a.length>> \in Seq(Byte) /\ Len(<<a.length>>) = 1 /\ <<a.length>>[1] = a.length
      BY <3>2
    <3>4. Number(<<a.length>>) = a.length
      BY <3>3, NumberOfOne
    <3> QED
      BY <2>2, <3>3, <3>4 DEF HeaderLen
  <2> QED
    BY <2>1, <2>2
<1>3. _attr_wire(a) = (<<a.flags, t>> \o lb) \o v
  BY DEF _attr_wire, encode_attr
<1> DEFINE ft == <<a.flags, t>>
<1>4. ft \in Seq(Byte) /\ Len(ft) = 2 /\ ft[1] = a.flags /\ ft[2] = t
  BY <1>1
<1> HIDE DEF lb, h, ft
<1> DEFINE y == ft \o lb
<1>5. /\ y \in Seq(Byte) /\ Len(y) = h /\ y[1] = a.flags /\ y[2] = t
      /\ \A p \in 1 .. Len(lb) : y[2 + p] = lb[p]
  <2>1. /\ y \in Seq(Byte) /\ Len(y) = 2 + Len(lb)
        /\ \A p \in 1 .. 2 : y[p] = ft[p]
        /\ \A p \in 1 .. Len(lb) : y[2 + p] = lb[p]
    BY ONLY <1>2, <1>4, JoinOfTwo
  <2> HIDE DEF y
  <2> QED
    BY ONLY <1>2, <1>4, <2>1
<1> HIDE DEF y
<1> DEFINE x == y \o v
<1>6. /\ x \in Seq(Byte) /\ Len(x) = h + Len(v) /\ Len(v) \in Nat
      /\ \A p \in 1 .. h : x[p] = y[p]
      /\ \A p \in 1 .. Len(v) : x[h + p] = v[p]
  BY ONLY <1>1, <1>5, JoinOfTwo
<1> HIDE DEF x
<1>7. x[1] = a.flags /\ x[2] = t
  BY ONLY <1>2, <1>5, <1>6
<1>8. SubSeq(x, 3, h) = lb
  <2>1. SubSeq(x, 3, h) \in Seq(Byte) /\ Len(SubSeq(x, 3, h)) = h - 2
        /\ \A p \in 1 .. h - 2 : SubSeq(x, 3, h)[p] = x[2 + p]
    BY ONLY <1>2, <1>6
  <2>2. \A p \in 1 .. h - 2 : 2 + p \in 1 .. h /\ p \in 1 .. Len(lb)
    BY ONLY <1>2
  <2>3. \A p \in 1 .. h - 2 : SubSeq(x, 3, h)[p] = lb[p]
    BY ONLY <1>5, <1>6, <2>1, <2>2
  <2> QED
    BY ONLY <1>2, <2>1, <2>3, SeqEqual
<1>9. x = _attr_wire(a)
  BY ONLY <1>3 DEF x, y, ft, lb
<1>10. /\ x \in Seq(Byte) /\ Len(x) = h + a.length /\ Len(x) \in Nat
       /\ x[1] = a.flags /\ x[2] = t
       /\ Number(SubSeq(x, 3, h)) = a.length
       /\ \A j \in 1 .. a.length : x[h + j] = v[j]
  <2>1. Number(SubSeq(x, 3, h)) = a.length
    BY ONLY <1>2, <1>8
  <2>2. Len(x) = h + a.length /\ Len(x) \in Nat
    BY ONLY <1>1, <1>2, <1>6
  <2> QED
    BY ONLY <1>1, <1>6, <1>7, <2>1, <2>2
<1> QED
  BY ONLY <1>9, <1>10 DEF h

(* One attribute is read back, wherever its bytes are.                     *)
LEMMA AttributeIsRead ==
  ASSUME NEW a, Encoded(a), NEW raw \in Seq(Byte), NEW o \in Nat,
         o + Len(_attr_wire(a)) <= Len(raw),
         \A j \in 1 .. Len(_attr_wire(a)) : raw[o + j] = _attr_wire(a)[j]
  PROVE  /\ HeaderEnd(raw, o) + LengthAt(raw, o) = o + Len(_attr_wire(a))
         /\ HeaderEnd(raw, o) <= Len(raw) /\ o < Len(raw)
         /\ AttrAt(raw, o) = a
<1> DEFINE x == _attr_wire(a)
           h == HeaderLen(a)
<1>1. /\ x \in Seq(Byte) /\ Len(x) = h + a.length /\ Len(x) \in Nat
      /\ x[1] = a.flags /\ x[2] = a.type_code
      /\ Number(SubSeq(x, 3, h)) = a.length
      /\ \A j \in 1 .. a.length : x[h + j] = a.value[j]
  BY WireOfAttr
<1>2. /\ a = [flags |-> a.flags, type_code |-> a.type_code, length |-> a.length, value |-> a.value]
      /\ a.length \in Nat /\ a.value \in Seq(Byte) /\ a.length = Len(a.value)
  BY DEF Encoded, AttrRecord
<1>3. h \in 3 .. 4
  BY DEF HeaderLen
<1>4. \A j \in 1 .. Len(x) : raw[o + j] = x[j]
  OBVIOUS
<1>5. o + Len(x) <= Len(raw) /\ Len(raw) \in Nat
  OBVIOUS
<1> HIDE DEF x
<1>6. raw[o + 1] = a.flags /\ raw[o + 2] = a.type_code
  <2>1. 1 \in 1 .. Len(x) /\ 2 \in 1 .. Len(x)
    BY ONLY <1>1, <1>2, <1>3
  <2> QED
    BY ONLY <1>1, <1>4, <2>1
<1>7. HeaderEnd(raw, o) = o + h
  BY <1>6 DEF HeaderEnd, HeaderLen
<1> HIDE DEF h
<1>a. /\ h \in Nat /\ h >= 3 /\ h <= Len(x) /\ o + h + a.length <= Len(raw)
      /\ a.length \in Nat /\ o \in Nat /\ o + h <= Len(raw)
  BY ONLY <1>1, <1>2, <1>3, <1>5, o \in Nat
<1>8. SubSeq(raw, o + 3, o + h) = SubSeq(x, 3, h)
  <2> DEFINE s == SubSeq(raw, o + 3, o + h)
             t == SubSeq(x, 3, h)
  <2>1. /\ s \in Seq(Byte) /\ Len(s) = h - 2 /\ \A p \in 1 .. h - 2 : s[p] = raw[o + 2 + p]
    BY ONLY <1>a, raw \in Seq(Byte)
  <2>2. /\ t \in Seq(Byte) /\ Len(t) = h - 2 /\ \A p \in 1 .. h - 2 : t[p] = x[2 + p]
    <3>1. x \in Seq(Byte)
      BY <1>1
    <3> QED
      BY ONLY <1>a, <3>1
  <2> HIDE DEF s, t
  <2>3. \A p \in 1 .. h - 2 : 2 + p \in 1 .. Len(x) /\ o + (2 + p) = o + 2 + p
    BY ONLY <1>a, <1>1
  <2>4. \A p \in 1 .. h - 2 : s[p] = t[p]
    BY ONLY <1>4, <2>1, <2>2, <2>3
  <2>5. s = t
    BY ONLY <2>1, <2>2, <2>4, SeqEqual
  <2> QED
    BY <2>5 DEF s, t
<1>9. LengthAt(raw, o) = a.length
  BY <1>1, <1>7, <1>8 DEF LengthAt
<1>10. SubSeq(raw, o + h + 1, o + h + a.length) = a.value
  <2> DEFINE s == SubSeq(raw, o + h + 1, o + h + a.length)
  <2>1. /\ s \in Seq(Byte) /\ Len(s) = a.length
        /\ \A p \in 1 .. a.length : s[p] = raw[o + h + p]
    BY ONLY <1>a, raw \in Seq(Byte)
  <2> HIDE DEF s
  <2>2. \A p \in 1 .. a.length : h + p \in 1 .. Len(x) /\ o + (h + p) = o + h + p
    <3>1. Len(x) = h + a.length
      BY <1>1
    <3> QED
      BY ONLY <1>a, <3>1
  <2>3. \A p \in 1 .. a.length : s[p] = a.value[p]
    <3> SUFFICES ASSUME NEW p \in 1 .. a.length PROVE s[p] = a.value[p]
      OBVIOUS
    <3>1. h + p \in 1 .. Len(x) /\ o + (h + p) = o + h + p /\ s[p] = raw[o + h + p]
      BY ONLY <2>1, <2>2, p \in 1 .. a.length
    <3>2. raw[o + (h + p)] = x[h + p] /\ x[h + p] = a.value[p]
      BY ONLY <1>1, <1>4, <3>1, p \in 1 .. a.length
    <3> QED
      BY ONLY <3>1, <3>2
  <2>4. s = a.value
    BY ONLY <1>2, <2>1, <2>3, SeqEqual
  <2> QED
    BY <2>4 DEF s
<1>11. AttrAt(raw, o) = a
  BY ONLY <1>2, <1>6, <1>7, <1>9, <1>10 DEF AttrAt
<1>12. /\ HeaderEnd(raw, o) + LengthAt(raw, o) = o + Len(x)
       /\ HeaderEnd(raw, o) <= Len(raw) /\ o < Len(raw)
  BY ONLY <1>1, <1>2, <1>3, <1>5, <1>7, <1>9, o \in Nat
<1> QED
  BY <1>11, <1>12 DEF x

(* The attributes are read back from their bytes, one behind the other.    *)
LEMMA AttributesAreRead ==
  ASSUME NEW as \in Seq(AttrRecord), \A k \in 1 .. Len(as) : Encoded(as[k])
  PROVE  DecodedAttrs(FlattenSeq([k \in 1 .. Len(as) |-> _attr_wire(as[k])])) = as
<1> DEFINE n == Len(as)
           w == [k \in 1 .. n |-> _attr_wire(as[k])]
           raw == FlattenSeq(w)
           D == Decoding(raw)
           P(m) == D[Offset(w, n - m + 1)] = SubSeq(as, n - m + 1, n)
           T == {m \in Nat : m <= n => P(m)}
<1>1. n \in Nat
  BY LenProperties
<1>2. ASSUME NEW k \in 1 .. n PROVE _attr_wire(as[k]) \in Seq(Byte)
  BY WireOfAttr
<1> HIDE DEF n
<1>3. w \in Seq(Seq(Byte)) /\ Len(w) = n /\ \A k \in 1 .. n : w[k] = _attr_wire(as[k])
  <2>1. w \in [1 .. n -> Seq(Byte)]
    BY ONLY <1>2
  <2>2. \A k \in 1 .. n : w[k] = _attr_wire(as[k])
    OBVIOUS
  <2> HIDE DEF w
  <2>3. w \in Seq(Seq(Byte))
    BY ONLY <1>1, <2>1, SeqDef
  <2>4. Len(w) = n
    BY ONLY <1>1, <2>1, <2>3
  <2> QED
    BY ONLY <2>2, <2>3, <2>4
<1> HIDE DEF w
<1>4. raw \in Seq(Byte) /\ raw = Joined(w, n) /\ Joined(w, 0) = <<>>
  <2>1. n \in 0 .. n
    BY <1>1
  <2> QED
    BY <1>3, <2>1, JoinedWorks
<1> HIDE DEF raw
<1>5. \A o \in 0 .. Len(raw) : D[o] = DecodeBody(raw, D, o)
  BY <1>4, DecodingWorks
<1> HIDE DEF D
<1>6. ASSUME NEW k \in 1 .. n
      PROVE  D[Offset(w, k)] = <<as[k]>> \o D[Offset(w, k + 1)]
  <2> DEFINE o == Offset(w, k)
             x == _attr_wire(as[k])
  <2>1. k \in 1 .. Len(w) /\ w[k] = x
    BY <1>3
  <2>2. /\ o \in Nat /\ Len(w[k]) \in Nat /\ Offset(w, k + 1) = o + Len(w[k])
        /\ Offset(w, k + 1) <= Len(raw)
        /\ \A j \in 1 .. Len(w[k]) : raw[o + j] = w[k][j]
    BY ONLY <1>3, <2>1, Placed DEF raw
  <2> HIDE DEF o, x
  <2>3. Encoded(as[k])
    BY DEF n
  <2>4. o + Len(x) <= Len(raw) /\ \A j \in 1 .. Len(x) : raw[o + j] = x[j]
    BY <2>1, <2>2
  <2>5. /\ HeaderEnd(raw, o) + LengthAt(raw, o) = o + Len(x)
        /\ HeaderEnd(raw, o) <= Len(raw) /\ o < Len(raw)
        /\ AttrAt(raw, o) = as[k]
    BY ONLY <1>4, <2>2, <2>3, <2>4, AttributeIsRead DEF x
  <2>6. /\ o \in 0 .. Len(raw) /\ o # Len(raw) /\ ~(HeaderEnd(raw, o) > Len(raw))
        /\ ~(HeaderEnd(raw, o) + LengthAt(raw, o) > Len(raw))
    <3>1. Len(raw) \in Nat
      BY <1>4
    <3>2. HeaderEnd(raw, o) \in Nat
      BY <2>2 DEF HeaderEnd
    <3>3. Len(x) \in Nat
      BY <2>1, <2>2
    <3> QED
      BY ONLY <2>2, <2>4, <2>5, <3>1, <3>2, <3>3
  <2>7. D[o] = <<AttrAt(raw, o)>> \o D[HeaderEnd(raw, o) + LengthAt(raw, o)]
    BY ONLY <1>5, <2>6, Zenon DEF DecodeBody
  <2>8. HeaderEnd(raw, o) + LengthAt(raw, o) = Offset(w, k + 1)
    BY <2>1, <2>2, <2>5
  <2>9. D[o] = <<as[k]>> \o D[Offset(w, k + 1)]
    BY ONLY <2>5, <2>7, <2>8
  <2> QED
    BY <2>9 DEF o
<1>7. 0 \in T
  <2>1. n - 0 + 1 = n + 1 /\ (n + 1) - 1 = n /\ n < n + 1 /\ n \in Int /\ n + 1 \in Int
    BY <1>1
  <2>2. Offset(w, n + 1) = Len(raw)
    BY <1>4, <2>1 DEF Offset
  <2>3. Len(raw) \in 0 .. Len(raw)
    BY <1>4
  <2>4. D[Len(raw)] = <<>>
    BY <1>5, <2>3 DEF DecodeBody
  <2>5. SubSeq(as, n + 1, n) = <<>>
    BY <2>1, SubSeqEmpty
  <2> QED
    BY ONLY <2>1, <2>2, <2>4, <2>5
<1>8. ASSUME NEW m \in T PROVE m + 1 \in T
  <2> HIDE DEF P
  <2> SUFFICES ASSUME m + 1 <= n PROVE P(m + 1)
    OBVIOUS
  <2> DEFINE k == n - m
  <2>0. m \in Nat /\ P(m)
    BY <1>1
  <2>1. m \in Nat /\ D[Offset(w, n - m + 1)] = SubSeq(as, n - m + 1, n)
    BY <2>0 DEF P
  <2>2. k \in 1 .. n /\ n - (m + 1) + 1 = k /\ n \in k .. n
    BY <1>1, <2>1
  <2> HIDE DEF k
  <2>3. D[Offset(w, k + 1)] = SubSeq(as, k + 1, n)
    BY <2>1 DEF k
  <2>4. SubSeq(as, k, n) = <<as[k]>> \o SubSeq(as, k + 1, n)
    BY <2>2, SubSeqRecursiveFirst DEF n
  <2> QED
    BY ONLY <1>6, <2>2, <2>3, <2>4 DEF P
<1>9. T = Nat
  <2>1. T \in SUBSET Nat
    OBVIOUS
  <2> HIDE DEF T
  <2> QED
    BY <1>7, <1>8, <2>1, Induction
<1>10. D[Offset(w, 1)] = SubSeq(as, 1, n)
  <2> HIDE DEF P
  <2>1. n - n + 1 = 1 /\ n <= n
    BY <1>1
  <2>2. P(n)
    BY ONLY <1>1, <1>9, <2>1
  <2> QED
    BY ONLY <2>1, <2>2 DEF P
<1>11. Offset(w, 1) = 0
  BY <1>4 DEF Offset
<1>12. SubSeq(as, 1, n) = as
  BY SubSeqFull DEF n
<1>13. D[0] = as
  BY ONLY <1>10, <1>11, <1>12
<1> QED
  BY <1>13, DecodedFromStart DEF D, raw, w, n

(* A part of a string is what lies between two others.                     *)
LEMMA Slice ==
  ASSUME NEW s \in Seq(Byte), NEW t \in Seq(Byte), NEW r \in Seq(Byte)
  PROVE  /\ SubSeq((s \o t) \o r, Len(s) + 1, Len(s) + Len(t)) = t
         /\ (s \o t) \o r \in Seq(Byte) /\ Len((s \o t) \o r) = Len(s) + Len(t) + Len(r)
<1> DEFINE x == s \o t
           y == x \o r
           z == SubSeq(y, Len(s) + 1, Len(s) + Len(t))
<1>1. /\ x \in Seq(Byte) /\ Len(x) = Len(s) + Len(t) /\ Len(s) \in Nat /\ Len(t) \in Nat
      /\ \A p \in 1 .. Len(t) : x[Len(s) + p] = t[p]
  BY JoinOfTwo
<1> HIDE DEF x
<1>2. /\ y \in Seq(Byte) /\ Len(y) = Len(x) + Len(r) /\ Len(r) \in Nat
      /\ \A p \in 1 .. Len(x) : y[p] = x[p]
  BY ONLY <1>1, r \in Seq(Byte), JoinOfTwo
<1> HIDE DEF y
<1>3. /\ z \in Seq(Byte) /\ Len(z) = Len(t)
      /\ \A p \in 1 .. Len(t) : z[p] = y[Len(s) + p]
  BY ONLY <1>1, <1>2
<1> HIDE DEF z
<1>4. \A p \in 1 .. Len(t) : Len(s) + p \in 1 .. Len(x)
  BY ONLY <1>1
<1>5. \A p \in 1 .. Len(t) : z[p] = t[p]
  BY ONLY <1>1, <1>2, <1>3, <1>4
<1>6. z = t
  BY ONLY <1>3, <1>5, t \in Seq(Byte), SeqEqual
<1> QED
  BY <1>1, <1>2, <1>6 DEF x, y, z

(* An UPDATE of bytes whose attributes are as long as they say.            *)
UpdateRecord == [withdrawn : Seq(Byte), attrs : Seq(AttrRecord), announced : Seq(Byte)]

LengthsAgree(u) == \A k \in 1 .. Len(u.attrs) : u.attrs[k].length = Len(u.attrs[k].value)

AttrsWire(u) == FlattenSeq([k \in 1 .. Len(u.attrs) |-> _attr_wire(u.attrs[k])])

(* What can be sent has attributes that are encoded, and lengths that are  *)
(* numbers of two bytes.                                                   *)
LEMMA LengthsOfSendable ==
  ASSUME NEW u \in UpdateRecord, LengthsAgree(u), Sendable(u)
  PROVE  /\ \A k \in 1 .. Len(u.attrs) : Encoded(u.attrs[k])
         /\ AttrsWire(u) \in Seq(Byte)
         /\ Len(u.withdrawn) \in Nat /\ Len(u.withdrawn) < 65536
         /\ Len(AttrsWire(u)) \in Nat /\ Len(AttrsWire(u)) < 65536
<1> DEFINE n == Len(u.attrs)
           w == [k \in 1 .. n |-> _attr_wire(u.attrs[k])]
           A == AttrsWire(u)
           W == u.withdrawn
<1>1. u.attrs \in Seq(AttrRecord) /\ W \in Seq(Byte) /\ u.announced \in Seq(Byte)
  BY DEF UpdateRecord
<1>2. n \in Nat
  BY <1>1, LenProperties
<1>3. ASSUME NEW k \in 1 .. n PROVE Encoded(u.attrs[k])
  <2>1. u.attrs[k] \in AttrRecord
    BY <1>1
  <2> QED
    BY <2>1 DEF Encoded, Sendable, LengthsAgree
<1>4. A \in Seq(Byte)
  <2>1. ASSUME NEW k \in 1 .. n PROVE _attr_wire(u.attrs[k]) \in Seq(Byte)
    BY <1>3, WireOfAttr
  <2> HIDE DEF n
  <2>2. w \in [1 .. n -> Seq(Byte)]
    BY ONLY <2>1
  <2> HIDE DEF w
  <2>3. w \in Seq(Seq(Byte)) /\ Len(w) \in 0 .. Len(w)
    <3>1. w \in Seq(Seq(Byte))
      BY ONLY <1>2, <2>2, SeqDef
    <3> QED
      BY <3>1
  <2>4. FlattenSeq(w) \in Seq(Byte)
    BY <2>3, JoinedWorks
  <2> QED
    BY <2>4 DEF AttrsWire, w, n
<1>5. Len(W) \in Nat /\ Len(A) \in Nat /\ Len(u.announced) \in Nat
  BY ONLY <1>1, <1>4, LenProperties
<1>6. Len(wire(u)) = 2 + Len(W) + 2 + Len(A) + Len(u.announced)
  <2>1. ASSUME NEW s \in Seq(Nat), NEW t \in Seq(Nat)
        PROVE  s \o t \in Seq(Nat) /\ Len(s \o t) = Len(s) + Len(t)
    OBVIOUS
  <2>2. \A m \in Nat : Word(m) \in Seq(Nat) /\ Len(Word(m)) = 2
    BY DEF Word
  <2>3. \A s \in Seq(Byte) : s \in Seq(Nat)
    BY ByteIs, SeqMonotonic
  <2>4. W \in Seq(Nat) /\ A \in Seq(Nat) /\ u.announced \in Seq(Nat)
    BY ONLY <1>1, <1>4, <2>3
  <2>5. Word(Len(W)) \in Seq(Nat) /\ Len(Word(Len(W))) = 2
        /\ Word(Len(A)) \in Seq(Nat) /\ Len(Word(Len(A))) = 2
    BY ONLY <1>5, <2>2
  <2>6. wire(u) = (((Word(Len(W)) \o W) \o Word(Len(A))) \o A) \o u.announced
    BY DEF wire, AttrsWire
  <2> HIDE DEF W, A
  <2> DEFINE b == Word(Len(W)) \o W
             c == b \o Word(Len(A))
             d == c \o A
  <2>7. b \in Seq(Nat) /\ Len(b) = 2 + Len(W)
    <3>1. b \in Seq(Nat) /\ Len(b) = Len(Word(Len(W))) + Len(W)
      BY ONLY <2>1, <2>4, <2>5, Zenon
    <3> QED
      BY ONLY <2>5, <3>1
  <2> HIDE DEF b
  <2>8. c \in Seq(Nat) /\ Len(c) = Len(b) + 2
    BY ONLY <2>1, <2>5, <2>7
  <2> HIDE DEF c
  <2>9. d \in Seq(Nat) /\ Len(d) = Len(c) + Len(A)
    BY ONLY <2>1, <2>4, <2>8
  <2> HIDE DEF d
  <2>10. Len(d \o u.announced) = Len(d) + Len(u.announced)
    BY ONLY <2>1, <2>4, <2>9
  <2>11. wire(u) = d \o u.announced
    BY ONLY <2>6 DEF b, c, d
  <2> QED
    BY ONLY <2>7, <2>8, <2>9, <2>10, <2>11
<1>7. 19 + Len(wire(u)) <= 65535
  BY DEF Sendable
<1> HIDE DEF W, A
<1>8. Len(W) < 65536 /\ Len(A) < 65536
  <2> DEFINE a == Len(W)
             b == Len(A)
             c == Len(u.announced)
             l == Len(wire(u))
  <2>1. a \in Nat /\ b \in Nat /\ c \in Nat
    BY ONLY <1>5, Zenon
  <2>2. l = 2 + a + 2 + b + c
    BY ONLY <1>6, Zenon
  <2>3. 19 + l <= 65535
    BY <1>7
  <2> HIDE DEF a, b, c, l
  <2>4. a < 65536 /\ b < 65536
    BY ONLY <2>1, <2>2, <2>3
  <2> QED
    BY <2>4 DEF a, b
<1> QED
  BY ONLY <1>3, <1>4, <1>5, <1>8 DEF W, A, n

(* What is sent can be read, and is what was built: the bytes of an UPDATE *)
(* whose lengths agree are read as it and as nothing else                  *)
(* (decode_update_attributes).                                             *)
THEOREM UpdateIsRead ==
  ASSUME NEW u \in UpdateRecord, LengthsAgree(u), Sendable(u)
  PROVE  decode_update_attributes(wire(u)) = {u}
<1> DEFINE W == u.withdrawn
           A == AttrsWire(u)
           N == u.announced
           w2 == Word(Len(W))
           a2 == Word(Len(A))
           body == wire(u)
           nW == Len(W)
           nA == Len(A)
<1>1. /\ \A k \in 1 .. Len(u.attrs) : Encoded(u.attrs[k])
      /\ A \in Seq(Byte)
      /\ Len(W) \in Nat /\ Len(W) < 65536
      /\ Len(A) \in Nat /\ Len(A) < 65536
  BY LengthsOfSendable
<1>2. W \in Seq(Byte) /\ N \in Seq(Byte) /\ u.attrs \in Seq(AttrRecord)
      /\ u = AnUpdate(W, u.attrs, N)
  BY DEF UpdateRecord, AnUpdate
<1>3. /\ w2 \in Seq(Byte) /\ Len(w2) = 2 /\ Number(w2) = nW
      /\ a2 \in Seq(Byte) /\ Len(a2) = 2 /\ Number(a2) = nA
  BY <1>1, WordIs
<1>4. body = (((w2 \o W) \o a2) \o A) \o N
  BY DEF wire, AttrsWire
<1>5. DecodedAttrs(A) = u.attrs
  <2> DEFINE as == u.attrs
  <2>1. as \in Seq(AttrRecord) /\ \A k \in 1 .. Len(as) : Encoded(as[k])
    BY <1>1, <1>2
  <2>2. A = FlattenSeq([k \in 1 .. Len(as) |-> _attr_wire(as[k])])
    BY DEF AttrsWire
  <2> HIDE DEF as, A
  <2>3. DecodedAttrs(FlattenSeq([k \in 1 .. Len(as) |-> _attr_wire(as[k])])) = as
    BY ONLY <2>1, AttributesAreRead
  <2> QED
    BY ONLY <2>2, <2>3, Zenon DEF as
<1>6. Len(N) \in Nat
  BY <1>2, LenProperties
<1> HIDE DEF w2, a2, W, A, N, body
<1>a. A \in Seq(Byte) /\ Len(A) \in Nat /\ Len(W) \in Nat
  BY <1>1
<1>7. \A s, t \in Seq(Byte) : s \o t \in Seq(Byte) /\ Len(s \o t) = Len(s) + Len(t)
  BY JoinOfTwo
<1>8. \A s, t, r \in Seq(Byte) : (s \o t) \o r = s \o (t \o r)
  BY ConcatAssociative
<1> DEFINE p1 == w2 \o W
           p2 == p1 \o a2
           p3 == p2 \o A
           q3 == A \o N
           q2 == a2 \o q3
           q1 == W \o q2
<1>9. /\ p1 \in Seq(Byte) /\ Len(p1) = 2 + nW
      /\ q3 \in Seq(Byte)
  <2>1. p1 \in Seq(Byte) /\ Len(p1) = Len(w2) + Len(W) /\ q3 \in Seq(Byte)
    BY ONLY <1>a, <1>2, <1>3, <1>7, Zenon
  <2> HIDE DEF p1, q3
  <2> QED
    BY ONLY <1>3, <2>1
<1>10. /\ p2 \in Seq(Byte) /\ Len(p2) = 2 + nW + 2
       /\ q2 \in Seq(Byte)
  <2> HIDE DEF p1, q3
  <2>1. p2 \in Seq(Byte) /\ Len(p2) = Len(p1) + Len(a2) /\ q2 \in Seq(Byte)
    BY ONLY <1>3, <1>7, <1>9, Zenon
  <2> HIDE DEF p2, q2
  <2> QED
    BY ONLY <1>3, <1>9, <2>1
<1>11. /\ p3 \in Seq(Byte) /\ Len(p3) = 2 + nW + 2 + nA
       /\ q1 \in Seq(Byte)
  <2> HIDE DEF p2, q2
  <2>1. p3 \in Seq(Byte) /\ Len(p3) = Len(p2) + Len(A) /\ q1 \in Seq(Byte)
    BY ONLY <1>a, <1>2, <1>7, <1>10, Zenon
  <2> HIDE DEF p3, q1
  <2> QED
    BY ONLY <1>10, <2>1
<1>12. body = p3 \o N
  BY <1>4
<1>13. body = (p2 \o A) \o N
  BY <1>4
<1>14. body = (p1 \o a2) \o q3
  <2>1. body = ((p1 \o a2) \o A) \o N
    BY <1>4
  <2> HIDE DEF p1
  <2>2. (p1 \o a2) \in Seq(Byte)
    BY ONLY <1>3, <1>7, <1>9
  <2> QED
    BY ONLY <1>a, <1>2, <1>8, <2>1, <2>2, Zenon
<1>15. body = (w2 \o W) \o q2
  <2> HIDE DEF q3
  <2>1. body = ((w2 \o W) \o a2) \o q3
    BY <1>14
  <2>2. (w2 \o W) \in Seq(Byte)
    BY ONLY <1>2, <1>3, <1>7
  <2> QED
    BY ONLY <1>3, <1>8, <1>9, <2>1, <2>2, Zenon
<1>16. body = (<<>> \o w2) \o q1
  <2> HIDE DEF q2
  <2>0. w2 \in Seq(Byte) /\ W \in Seq(Byte) /\ q2 \in Seq(Byte)
    BY ONLY <1>2, <1>3, <1>10
  <2>1. body = w2 \o (W \o q2)
    BY ONLY <1>8, <1>15, <2>0, Zenon
  <2>2. <<>> \o w2 = w2
    BY <1>3
  <2> QED
    BY ONLY <2>1, <2>2
<1>17. <<>> \in Seq(Byte) /\ Len(<<>>) = 0
  OBVIOUS
<1> HIDE DEF p1, p2, p3, q1, q2, q3
<1>18. SubSeq(body, 1, 2) = w2
  <2>0. w2 \in Seq(Byte) /\ q1 \in Seq(Byte) /\ <<>> \in Seq(Byte)
    BY ONLY <1>3, <1>11, <1>17
  <2>1. SubSeq(body, Len(<<>>) + 1, Len(<<>>) + Len(w2)) = w2
    BY ONLY <1>16, <2>0, Slice, Zenon
  <2> QED
    BY ONLY <1>3, <1>17, <2>1
<1>19. SubSeq(body, 3, 2 + nW) = W
  <2>1. SubSeq(body, Len(w2) + 1, Len(w2) + Len(W)) = W
    BY ONLY <1>2, <1>3, <1>10, <1>15, Slice
  <2> QED
    BY ONLY <1>3, <2>1
<1>20. SubSeq(body, 2 + nW + 1, 2 + nW + 2) = a2
  <2>1. SubSeq(body, Len(p1) + 1, Len(p1) + Len(a2)) = a2
    BY ONLY <1>3, <1>9, <1>14, Slice
  <2> QED
    BY ONLY <1>3, <1>9, <2>1
<1>21. /\ SubSeq(body, 2 + nW + 3, 2 + nW + 2 + nA) = A
       /\ Len(body) = 2 + nW + 2 + nA + Len(N)
  <2>1. /\ SubSeq(body, Len(p2) + 1, Len(p2) + Len(A)) = A
        /\ Len(body) = Len(p2) + Len(A) + Len(N)
    <3>1. p2 \in Seq(Byte) /\ A \in Seq(Byte) /\ N \in Seq(Byte)
      BY ONLY <1>a, <1>2, <1>10
    <3>2. /\ SubSeq((p2 \o A) \o N, Len(p2) + 1, Len(p2) + Len(A)) = A
          /\ Len((p2 \o A) \o N) = Len(p2) + Len(A) + Len(N)
      BY ONLY <3>1, Slice, Zenon
    <3> QED
      BY ONLY <1>13, <3>2, Zenon
  <2>2. Len(p2) + 1 = 2 + nW + 3
    BY ONLY <1>a, <1>10
  <2> QED
    BY ONLY <1>10, <2>1, <2>2
<1>22. SubSeq(body, 2 + nW + 2 + nA + 1, Len(body)) = N
  <2>1. (p3 \o N) \o <<>> = p3 \o N
    <3>1. p3 \o N \in Seq(Byte)
      BY ONLY <1>2, <1>7, <1>11
    <3> QED
      BY ONLY <3>1
  <2>2. SubSeq(body, Len(p3) + 1, Len(p3) + Len(N)) = N
    BY ONLY <1>2, <1>11, <1>12, <1>17, <2>1, Slice
  <2> QED
    BY ONLY <1>11, <1>21, <2>2
<1>23. ~Contains(u.attrs, Raised)
  <2> SUFFICES ASSUME NEW k \in 1 .. Len(u.attrs), u.attrs[k] = Raised PROVE FALSE
    BY DEF Contains
  <2>1. u.attrs[k].flags \in Byte
    <3>1. u.attrs[k] \in AttrRecord
      BY <1>2
    <3> QED
      BY <3>1 DEF AttrRecord
  <2>2. u.attrs[k].flags = 256
    BY DEF Raised, PathAttr
  <2> QED
    BY <2>1, <2>2, ByteIs
<1> DEFINE offset == 2 + Number(SubSeq(body, 1, 2))
           end == offset + 2 + Number(SubSeq(body, offset + 1, offset + 2))
<1>24. offset = 2 + nW
  BY <1>3, <1>18
<1>25. end = 2 + nW + 2 + nA
  <2> HIDE DEF offset
  <2>1. Number(SubSeq(body, offset + 1, offset + 2)) = nA
    BY <1>3, <1>20, <1>24
  <2> QED
    BY <1>24, <2>1
<1> HIDE DEF offset, end
<1>26. ~(offset + 2 > Len(body)) /\ ~(end > Len(body))
  BY ONLY <1>a, <1>6, <1>21, <1>24, <1>25
<1>27. DecodedAttrs(SubSeq(body, offset + 3, end)) = u.attrs
  <2>1. offset + 3 = 2 + nW + 3
    BY ONLY <1>24
  <2> QED
    BY ONLY <1>5, <1>21, <1>25, <2>1
<1>28. SubSeq(body, 3, offset) = W /\ SubSeq(body, end + 1, Len(body)) = N
  BY ONLY <1>19, <1>22, <1>24, <1>25
<1>29. decode_update_attributes(body) =
         IF offset + 2 > Len(body) THEN {}
         ELSE IF end > Len(body) \/ Contains(DecodedAttrs(SubSeq(body, offset + 3, end)), Raised)
              THEN {}
              ELSE {AnUpdate(SubSeq(body, 3, offset),
                             DecodedAttrs(SubSeq(body, offset + 3, end)),
                             SubSeq(body, end + 1, Len(body)))}
  BY Zenon DEF decode_update_attributes, offset, end
<1>30. decode_update_attributes(body) = {AnUpdate(W, u.attrs, N)}
  BY ONLY <1>23, <1>26, <1>27, <1>28, <1>29
<1> QED
  BY <1>2, <1>30 DEF body

(***************************************************************************)
(* The builders                                                            *)
(***************************************************************************)

(* The attributes that are as long as they say.                            *)
FitAttr == {a \in AttrRecord : a.length = Len(a.value)}

(* Joined strings and constant ones.                                       *)
LEMMA PiecesAreBytes ==
  /\ \A s, t \in Seq(Byte) : s \o t \in Seq(Byte) /\ Len(s \o t) = Len(s) + Len(t)
  /\ \A b \in BOOLEAN, s \in Seq(Byte) : When(b, s) \in Seq(Byte)
  /\ \A b \in Byte, n \in Nat : Fill(b, n) \in Seq(Byte) /\ Len(Fill(b, n)) = n
  /\ <<>> \in Seq(Byte)
<1>1. \A s, t \in Seq(Byte) : s \o t \in Seq(Byte) /\ Len(s \o t) = Len(s) + Len(t)
  BY JoinOfTwo
<1>2. \A b \in BOOLEAN, s \in Seq(Byte) : When(b, s) \in Seq(Byte)
  BY DEF When
<1>3. ASSUME NEW b \in Byte, NEW n \in Nat
      PROVE  Fill(b, n) \in Seq(Byte) /\ Len(Fill(b, n)) = n
  BY DEF Fill
<1>4. <<>> \in Seq(Byte)
  OBVIOUS
<1> QED
  BY ONLY <1>1, <1>2, <1>3, <1>4, Zenon

(* Copies of an AS number, of two bytes or of four.                        *)
LEMMA CopiesAre ==
  ASSUME NEW s \in Seq(Byte), Len(s) \in {2, 4}, NEW n \in Nat
  PROVE  /\ Copies(s, n) \in Seq(Byte) /\ Len(Copies(s, n)) = n * Len(s)
         /\ \A k \in 1 .. n * Len(s) : Copies(s, n)[k] = s[1 + ((k - 1) % Len(s))]
<1> DEFINE m == n * Len(s)
           x == Copies(s, n)
<1>1. m \in Nat
  <2>1. n * 2 \in Nat /\ n * 4 \in Nat
    OBVIOUS
  <2> QED
    BY <2>1
<1>2. ASSUME NEW k \in 1 .. m PROVE 1 + ((k - 1) % Len(s)) \in 1 .. Len(s)
  <2>1. k - 1 \in Nat
    BY <1>1
  <2>2. \A j \in Nat : 1 + (j % 2) \in 1 .. 2 /\ 1 + (j % 4) \in 1 .. 4
    OBVIOUS
  <2> QED
    BY ONLY <2>1, <2>2, Len(s) \in {2, 4}
<1>3. \A j \in 1 .. Len(s) : s[j] \in Byte
  OBVIOUS
<1>4. x = [k \in 1 .. m |-> s[1 + ((k - 1) % Len(s))]]
  BY DEF Copies
<1> HIDE DEF x, m
<1>5. x \in [1 .. m -> Byte]
  BY ONLY <1>2, <1>3, <1>4
<1>6. x \in Seq(Byte)
  BY ONLY <1>1, <1>5, SeqDef
<1>7. Len(x) = m
  BY ONLY <1>1, <1>5, <1>6
<1>8. \A k \in 1 .. m : x[k] = s[1 + ((k - 1) % Len(s))]
  BY ONLY <1>4
<1> QED
  BY <1>6, <1>7, <1>8 DEF x, m

(* A normalized payload has the declared length (normalize_payload).       *)
LEMMA NormalizedLength ==
  ASSUME NEW payload \in Seq(Byte), NEW n \in Nat
  PROVE  normalize_payload(payload, n) \in Seq(Byte) /\ Len(normalize_payload(payload, n)) = n
<1> DEFINE z == When(Len(payload) < n, Fill(0, n - Len(payload)))
           x == payload \o z
<1>1. Len(payload) \in Nat
  OBVIOUS
<1>2. z \in Seq(Byte) /\ Len(payload) + Len(z) >= n /\ Len(z) \in Nat
  <2>1. CASE Len(payload) < n
    <3>1. n - Len(payload) \in Nat /\ 0 \in Byte
      BY <1>1, <2>1, ByteIs
    <3>2. Fill(0, n - Len(payload)) \in Seq(Byte)
          /\ Len(Fill(0, n - Len(payload))) = n - Len(payload)
      BY <3>1, PiecesAreBytes
    <3>3. z = Fill(0, n - Len(payload))
      BY <2>1 DEF When
    <3> HIDE DEF z
    <3> QED
      BY <1>1, <3>1, <3>2, <3>3
  <2>2. CASE ~(Len(payload) < n)
    <3>1. z = <<>>
      BY <2>2 DEF When
    <3> HIDE DEF z
    <3> QED
      BY <1>1, <2>2, <3>1
  <2> QED
    BY <2>1, <2>2
<1> HIDE DEF z
<1>3. x \in Seq(Byte) /\ Len(x) >= n
  BY <1>1, <1>2
<1> HIDE DEF x
<1>4. SubSeq(x, 1, n) \in Seq(Byte) /\ Len(SubSeq(x, 1, n)) = n
  BY <1>3
<1> QED
  BY <1>4 DEF normalize_payload, x, z

(* An attribute that is made of a value is as long as it says.             *)
LEMMA PathAttrFits ==
  ASSUME NEW f \in Byte, NEW t \in Byte, NEW v \in Seq(Byte)
  PROVE  PathAttr(f, t, v) \in FitAttr
<1>1. Len(v) \in Nat
  OBVIOUS
<1> QED
  BY <1>1 DEF PathAttr, FitAttr, AttrRecord

(* What is built of such attributes and of bytes is an UPDATE.             *)
LEMMA UpdateOfFits ==
  ASSUME NEW w \in Seq(Byte), NEW as \in Seq(FitAttr), NEW n \in Seq(Byte)
  PROVE  AnUpdate(w, as, n) \in UpdateRecord /\ LengthsAgree(AnUpdate(w, as, n))
<1>1. as \in Seq(AttrRecord)
  <2>1. FitAttr \subseteq AttrRecord
    BY DEF FitAttr
  <2> QED
    BY <2>1, SeqMonotonic
<1>2. \A k \in 1 .. Len(as) : as[k].length = Len(as[k].value)
  <2>1. \A k \in 1 .. Len(as) : as[k] \in FitAttr
    BY ONLY as \in Seq(FitAttr), ElementOfSeq
  <2> QED
    BY <2>1 DEF FitAttr
<1> QED
  BY <1>1, <1>2 DEF AnUpdate, UpdateRecord, LengthsAgree

(* The constant parts.                                                     *)
LEMMA ConstantParts ==
  /\ \A n \in 0 .. 11 : n \in Byte
  /\ 13 \in Byte /\ 14 \in Byte /\ 16 \in Byte /\ 17 \in Byte /\ 24 \in Byte /\ 32 \in Byte
  /\ 64 \in Byte /\ 66 \in Byte /\ 184 \in Byte /\ 192 \in Byte
  /\ 198 \in Byte /\ 18 \in Byte /\ 234 \in Byte /\ 253 \in Byte
  /\ AS65002 \in Seq(Byte) /\ Len(AS65002) = 4 /\ NLRI \in Seq(Byte)
  /\ origin_obj \in FitAttr /\ as_path_obj \in FitAttr /\ next_hop_obj \in FitAttr
  /\ build_as4_path_attr \in FitAttr
<1>1. /\ \A n \in 0 .. 11 : n \in Byte
      /\ 13 \in Byte /\ 14 \in Byte /\ 16 \in Byte /\ 17 \in Byte /\ 24 \in Byte /\ 32 \in Byte
      /\ 64 \in Byte /\ 66 \in Byte /\ 184 \in Byte /\ 192 \in Byte
      /\ 198 \in Byte /\ 18 \in Byte /\ 234 \in Byte /\ 253 \in Byte
  BY ByteIs
<1>2. AS65002 \in Seq(Byte) /\ Len(AS65002) = 4
  BY <1>1 DEF AS65002
<1>3. /\ NLRI \in Seq(Byte) /\ <<0>> \in Seq(Byte) /\ <<2, 1>> \in Seq(Byte)
      /\ <<1, 1, 1, 1>> \in Seq(Byte) /\ <<1, 1>> \in Seq(Byte)
  BY <1>1 DEF NLRI
<1>4. <<2, 1>> \o AS65002 \in Seq(Byte) /\ <<1, 1>> \o AS65002 \in Seq(Byte)
  BY ONLY <1>2, <1>3, PiecesAreBytes, Zenon
<1>5. 1 \in Byte /\ 2 \in Byte /\ 3 \in Byte
  BY <1>1
<1>6. origin_obj \in FitAttr
  BY ONLY <1>1, <1>3, <1>5, PathAttrFits DEF origin_obj
<1>7. as_path_obj \in FitAttr
  BY ONLY <1>1, <1>4, <1>5, PathAttrFits DEF as_path_obj
<1>8. next_hop_obj \in FitAttr
  BY ONLY <1>1, <1>3, <1>5, PathAttrFits DEF next_hop_obj
<1>9. build_as4_path_attr \in FitAttr
  BY ONLY <1>1, <1>4, PathAttrFits DEF build_as4_path_attr
<1> QED
  BY ONLY <1>1, <1>2, <1>3, <1>6, <1>7, <1>8, <1>9

(* Joined lists of such attributes.                                        *)
LEMMA ListsFit ==
  /\ \A a \in FitAttr : <<a>> \in Seq(FitAttr)
  /\ \A s, t \in Seq(FitAttr) : s \o t \in Seq(FitAttr)
  /\ \A b \in BOOLEAN, s \in Seq(FitAttr) : When(b, s) \in Seq(FitAttr)
<1>1. \A a \in FitAttr : <<a>> \in Seq(FitAttr)
  OBVIOUS
<1>2. \A s, t \in Seq(FitAttr) : s \o t \in Seq(FitAttr)
  OBVIOUS
<1>3. \A b \in BOOLEAN, s \in Seq(FitAttr) : When(b, s) \in Seq(FitAttr)
  BY DEF When
<1> QED
  BY ONLY <1>1, <1>2, <1>3, Zenon

(* build_legacy_update.                                                    *)
LEMMA LegacyIsUpdate ==
  ASSUME NEW args, args.flags \in Byte, args.type \in Byte, args.len \in Nat,
         args.payload \in Seq(Byte), NEW version, NEW slot
  PROVE  LET u == build_legacy_update(args, version, slot)
         IN  u \in UpdateRecord /\ LengthsAgree(u)
<1> DEFINE takes == version = 2 /\ slot = 1
           v == normalize_payload(args.payload, args.len)
           fuzz == [flags |-> args.flags, type_code |-> IF takes THEN 1 ELSE args.type,
                    length |-> args.len, value |-> v]
           f(k) == When(slot = k, <<fuzz>>)
<1>1. v \in Seq(Byte) /\ Len(v) = args.len
  BY NormalizedLength
<1> HIDE DEF v
<1>2. (IF takes THEN 1 ELSE args.type) \in Byte
  BY ByteIs
<1>3. fuzz \in FitAttr
  BY ONLY <1>1, <1>2, args.flags \in Byte, args.len \in Nat DEF FitAttr, AttrRecord
<1> HIDE DEF fuzz
<1>4. \A k : f(k) \in Seq(FitAttr)
  BY <1>3, ListsFit DEF When
<1> HIDE DEF f
<1>5. /\ <<as_path_obj>> \in Seq(FitAttr) /\ <<next_hop_obj>> \in Seq(FitAttr)
      /\ When(~takes, <<origin_obj>>) \in Seq(FitAttr)
  BY ONLY ConstantParts, ListsFit DEF When
<1>6. f(1) \o <<as_path_obj>> \o f(2) \o <<next_hop_obj>> \o f(3) \o When(~takes, <<origin_obj>>)
        \o f(4) \in Seq(FitAttr)
  BY ONLY <1>4, <1>5, ListsFit, Zenon
<1>7. build_legacy_update(args, version, slot)
        = AnUpdate(<<>>, f(1) \o <<as_path_obj>> \o f(2) \o <<next_hop_obj>> \o f(3)
                         \o When(~takes, <<origin_obj>>) \o f(4), NLRI)
  BY DEF build_legacy_update, f, fuzz, v
<1>8. NLRI \in Seq(Byte) /\ <<>> \in Seq(Byte)
  BY ONLY ConstantParts, PiecesAreBytes, Zenon
<1> HIDE DEF takes
<1> QED
  BY ONLY <1>6, <1>7, <1>8, UpdateOfFits

(* build_as_path_value gives bytes, whatever the segments and the cut.     *)
LEMMA PathValueIsBytes ==
  ASSUME NEW args \in AsPathArgs
  PROVE  build_as_path_value(args) \in Seq(Byte)
<1> DEFINE asn == IF args.asn_4byte THEN AS65002 ELSE SubSeq(AS65002, 3, 4)
           segment(type, count) == When(type # 0, <<type, count>> \o Copies(asn, count))
           out == segment(args.seg1_type, args.seg1_count)
                  \o segment(args.seg2_type, args.seg2_count)
           n == -args.extra_len
<1>1. /\ args.seg1_type \in Byte /\ args.seg1_count \in Byte
      /\ args.seg2_type \in Byte /\ args.seg2_count \in Byte /\ args.extra_len \in Int
  BY DEF AsPathArgs
<1>2. asn \in Seq(Byte) /\ Len(asn) \in {2, 4}
  <2>1. AS65002 \in Seq(Byte) /\ Len(AS65002) = 4
    BY ConstantParts
  <2>2. SubSeq(AS65002, 3, 4) \in Seq(Byte) /\ Len(SubSeq(AS65002, 3, 4)) = 2
    <3>1. ASSUME NEW s \in Seq(Byte), Len(s) = 4
          PROVE  SubSeq(s, 3, 4) \in Seq(Byte) /\ Len(SubSeq(s, 3, 4)) = 2
      <4>1. 3 \in Int /\ 4 \in Int /\ 3 <= 4 /\ 4 - 3 + 1 = 2
        OBVIOUS
      <4>2. \A k \in 3 .. 4 : s[k] \in Byte
        <5>1. \A k \in 3 .. 4 : k \in 1 .. Len(s)
          BY <3>1
        <5>2. \A k \in 1 .. Len(s) : s[k] \in Byte
          BY ElementOfSeq
        <5> QED
          BY ONLY <5>1, <5>2, Zenon
      <4> QED
        BY ONLY <4>1, <4>2, SubSeqProperties
    <3> QED
      BY ONLY <2>1, <3>1
  <2> QED
    BY <2>1, <2>2
<1> HIDE DEF asn
<1>3. ASSUME NEW t \in Byte, NEW k \in Byte PROVE segment(t, k) \in Seq(Byte)
  <2>1. k \in Nat
    BY ByteIs
  <2>2. Copies(asn, k) \in Seq(Byte)
    BY <1>2, <2>1, CopiesAre
  <2>3. <<t, k>> \in Seq(Byte) /\ (t # 0) \in BOOLEAN
    OBVIOUS
  <2> QED
    BY ONLY <2>2, <2>3, PiecesAreBytes, Zenon
<1> HIDE DEF segment
<1>4. out \in Seq(Byte)
  BY ONLY <1>1, <1>3, PiecesAreBytes, Zenon
<1> HIDE DEF out
<1>5. Len(out) \in Nat /\ n \in Int
  BY <1>1, <1>4
<1>6. build_as_path_value(args)
        = IF n <= 0 THEN out \o Fill(0, -n) ELSE When(n < Len(out), SubSeq(out, 1, n))
  BY DEF build_as_path_value, out, segment, asn
<1> HIDE DEF n
<1>7. CASE n <= 0
  <2>1. -n \in Nat /\ 0 \in Byte
    BY <1>5, <1>7, ByteIs
  <2>2. out \o Fill(0, -n) \in Seq(Byte)
    BY ONLY <1>4, <2>1, PiecesAreBytes, Zenon
  <2> QED
    BY <1>6, <1>7, <2>2
<1>8. CASE ~(n <= 0) /\ n < Len(out)
  <2>1. SubSeq(out, 1, n) \in Seq(Byte)
    BY ONLY <1>4, <1>5, <1>8
  <2> QED
    BY ONLY <1>6, <1>8, <2>1 DEF When
<1>9. CASE ~(n <= 0) /\ ~(n < Len(out))
  <2>1. <<>> \in Seq(Byte)
    OBVIOUS
  <2> QED
    BY ONLY <1>6, <1>9, <2>1 DEF When
<1> QED
  BY <1>7, <1>8, <1>9

(* build_aspath_update.                                                    *)
LEMMA AsPathIsUpdate ==
  ASSUME NEW args \in AsPathArgs
  PROVE  LET u == build_aspath_update(args)
         IN  u \in UpdateRecord /\ LengthsAgree(u)
<1> DEFINE path == PathAttr(64, 2, build_as_path_value(args))
           as4 == When(args.with_as4_path, <<build_as4_path_attr>>)
<1>1. path \in FitAttr
  <2>1. 64 \in Byte /\ 2 \in Byte
    BY ConstantParts
  <2> QED
    BY ONLY <2>1, PathValueIsBytes, PathAttrFits, args \in AsPathArgs
<1> HIDE DEF path
<1>2. /\ origin_obj \in FitAttr /\ next_hop_obj \in FitAttr
      /\ build_as4_path_attr \in FitAttr
  BY ONLY ConstantParts, Zenon
<1>3. <<origin_obj, path, next_hop_obj>> \in Seq(FitAttr)
  BY ONLY <1>1, <1>2
<1>4. as4 \in Seq(FitAttr)
  <2>1. args.with_as4_path \in BOOLEAN
    BY DEF AsPathArgs
  <2> QED
    BY ONLY <1>2, <2>1, ListsFit, Zenon
<1> HIDE DEF as4
<1>5. <<origin_obj, path, next_hop_obj>> \o as4 \in Seq(FitAttr)
  BY ONLY <1>3, <1>4, ListsFit, Zenon
<1>6. build_aspath_update(args) = AnUpdate(<<>>, <<origin_obj, path, next_hop_obj>> \o as4, NLRI)
  BY DEF build_aspath_update, path, as4
<1>7. NLRI \in Seq(Byte) /\ <<>> \in Seq(Byte)
  BY ONLY ConstantParts, PiecesAreBytes, Zenon
<1> QED
  BY ONLY <1>5, <1>6, <1>7, UpdateOfFits

(* build_mpreach_update.                                                   *)
LEMMA MpReachIsUpdate ==
  ASSUME NEW args \in MpReachArgs
  PROVE  LET u == build_mpreach_update(args)
         IN  u \in UpdateRecord /\ LengthsAgree(u)
<1> DEFINE v == build_mp_reach_value(args)
           reach == PathAttr(args.flags, 14, v)
           head == <<args.safi, args.nh_len>>
           nh == When(args.fill_nh, Fill(17, args.nh_len))
           reserved == When(args.reserved_present, <<0>>)
           nlri == When(args.nlri_wf, _well_formed_nlri(args.afi, args.safi))
<1>1. /\ args.afi \in Nat /\ args.afi < 65536 /\ args.safi \in Byte /\ args.nh_len \in Byte
      /\ args.flags \in Byte /\ args.fill_nh \in BOOLEAN /\ args.reserved_present \in BOOLEAN
      /\ args.nlri_wf \in BOOLEAN
  BY DEF MpReachArgs, Below
<1>2. Word(args.afi) \in Seq(Byte)
  BY <1>1, WordIs
<1>3. head \in Seq(Byte)
  BY ONLY <1>1
<1>4. nh \in Seq(Byte)
  <2>1. args.nh_len \in Nat /\ 17 \in Byte /\ args.fill_nh \in BOOLEAN
    BY <1>1, ByteIs
  <2> QED
    BY ONLY <2>1, PiecesAreBytes, Zenon
<1>5. reserved \in Seq(Byte)
  <2>1. <<0>> \in Seq(Byte) /\ args.reserved_present \in BOOLEAN
    BY <1>1, ByteIs
  <2> QED
    BY ONLY <2>1, PiecesAreBytes, Zenon
<1>6. nlri \in Seq(Byte)
  <2> DEFINE a == When(args.safi = 128, <<0, 2>> \o AS65002 \o <<0, 1>>)
             b == IF args.afi = 2 THEN <<64, 32, 1, 13, 184, 0, 0, 0, 0>> ELSE <<24, 10, 16, 1>>
  <2>1. <<0, 2>> \in Seq(Byte) /\ <<0, 1>> \in Seq(Byte) /\ AS65002 \in Seq(Byte)
    BY ConstantParts
  <2>2. <<0, 2>> \o AS65002 \o <<0, 1>> \in Seq(Byte) /\ (args.safi = 128) \in BOOLEAN
    BY ONLY <2>1, PiecesAreBytes, Zenon
  <2>3. a \in Seq(Byte)
    BY ONLY <2>2, PiecesAreBytes, Zenon
  <2>4. b \in Seq(Byte)
    <3>1. <<64, 32, 1, 13, 184, 0, 0, 0, 0>> \in Seq(Byte)
      BY ByteIs
    <3>2. <<24, 10, 16, 1>> \in Seq(Byte)
      BY ByteIs
    <3> QED
      BY <3>1, <3>2
  <2> HIDE DEF a, b
  <2>5. a \o b \in Seq(Byte)
    BY ONLY <2>3, <2>4, PiecesAreBytes, Zenon
  <2>6. _well_formed_nlri(args.afi, args.safi) = a \o b
    BY DEF _well_formed_nlri, a, b
  <2>7. args.nlri_wf \in BOOLEAN
    BY <1>1
  <2> QED
    BY ONLY <2>5, <2>6, <2>7, PiecesAreBytes, Zenon
<1>7. v = Word(args.afi) \o head \o nh \o reserved \o nlri
  BY DEF build_mp_reach_value
<1> HIDE DEF head, nh, reserved, nlri, v
<1>8. v \in Seq(Byte)
  BY ONLY <1>2, <1>3, <1>4, <1>5, <1>6, <1>7, PiecesAreBytes, Zenon
<1>9. reach \in FitAttr
  <2>1. 14 \in Byte
    BY ByteIs
  <2> QED
    BY ONLY <1>1, <1>8, <2>1, PathAttrFits
<1> HIDE DEF reach
<1>10. <<origin_obj, as_path_obj, reach>> \in Seq(FitAttr)
  <2>1. origin_obj \in FitAttr /\ as_path_obj \in FitAttr
    BY ONLY ConstantParts, Zenon
  <2> QED
    BY ONLY <1>9, <2>1
<1>11. build_mpreach_update(args) = AnUpdate(<<>>, <<origin_obj, as_path_obj, reach>>, <<>>)
  BY DEF build_mpreach_update, reach, v
<1>12. <<>> \in Seq(Byte)
  OBVIOUS
<1> QED
  BY ONLY <1>10, <1>11, <1>12, UpdateOfFits

(* The bytes of a path of the lab: the type and the count of its segment,  *)
(* and as many AS numbers, but for the path of a bad_aspath (update).      *)
LabPath(e) == Copies(Word(0) \o Word(ASNS[e.peer + 1]), e.length)

(* The AS number of a peer.                                                *)
LEMMA LabAs ==
  ASSUME NEW e \in LabArgs
  PROVE  /\ e.peer \in 0 .. 2 /\ e.prefix \in Byte /\ e.length \in Nat /\ e.length >= 1
         /\ e.origin \in 0 .. 2
         /\ e.kind \in {"announce", "withdraw", "bad_origin", "bad_aspath"}
         /\ e.kind # "announce" => e.length = 1 /\ e.origin = 0
         /\ LET asn == ASNS[e.peer + 1]  b == Word(0) \o Word(asn)
            IN  /\ asn \in Nat /\ asn < 65536 /\ b \in Seq(Byte) /\ Len(b) = 4
                /\ b[1] = 0 /\ b[2] = 0 /\ b[3] * 256 + b[4] = asn
<1> DEFINE asn == ASNS[e.peer + 1]
           b == Word(0) \o Word(asn)
<1>1. /\ e.peer \in 0 .. 2 /\ e.prefix \in Byte /\ e.length \in Nat /\ e.length >= 1
      /\ e.origin \in 0 .. 2
      /\ e.kind \in {"announce", "withdraw", "bad_origin", "bad_aspath"}
      /\ e.kind # "announce" => e.length = 1 /\ e.origin = 0
  BY DEF LabArgs
<1>2. asn \in Nat /\ asn < 65536
  BY <1>1 DEF ASNS
<1> HIDE DEF asn
<1>3. Word(asn) \in Seq(Byte) /\ Len(Word(asn)) = 2 /\ Number(Word(asn)) = asn
  <2>1. ASSUME NEW m \in Nat, m < 65536
        PROVE  Word(m) \in Seq(Byte) /\ Len(Word(m)) = 2 /\ Number(Word(m)) = m
    BY ONLY <2>1, WordIs
  <2> QED
    BY ONLY <1>2, <2>1
<1>4. Number(Word(asn)) = Word(asn)[1] * 256 + Word(asn)[2]
  BY <1>3, NumberOfTwo
<1>5. Word(0) \in Seq(Byte) /\ Len(Word(0)) = 2 /\ Word(0)[1] = 0 /\ Word(0)[2] = 0
  <2>1. 0 \div 256 = 0 /\ 0 % 256 = 0
    OBVIOUS
  <2>2. Word(0) = <<0, 0>> /\ 0 \in Byte
    BY <2>1, ByteIs DEF Word
  <2>3. /\ <<0, 0>> \in Seq(Byte) /\ Len(<<0, 0>>) = 2
        /\ <<0, 0>>[1] = 0 /\ <<0, 0>>[2] = 0
    BY ONLY <2>2
  <2> QED
    BY ONLY <2>2, <2>3, Zenon
<1>6. /\ b \in Seq(Byte) /\ Len(b) = Len(Word(0)) + Len(Word(asn))
      /\ \A p \in 1 .. Len(Word(0)) : b[p] = Word(0)[p]
      /\ \A p \in 1 .. Len(Word(asn)) : b[Len(Word(0)) + p] = Word(asn)[p]
  <2> DEFINE x == Word(0)
             y == Word(asn)
  <2>1. x \in Seq(Byte) /\ y \in Seq(Byte)
    BY ONLY <1>3, <1>5, Zenon
  <2> HIDE DEF x, y
  <2>2. /\ x \o y \in Seq(Byte) /\ Len(x \o y) = Len(x) + Len(y)
        /\ \A p \in 1 .. Len(x) : (x \o y)[p] = x[p]
        /\ \A p \in 1 .. Len(y) : (x \o y)[Len(x) + p] = y[p]
    BY ONLY <2>1, JoinOfTwo
  <2> QED
    BY ONLY <2>2 DEF x, y
<1> HIDE DEF b
<1>7. Len(b) = 4 /\ b[1] = 0 /\ b[2] = 0 /\ b[3] = Word(asn)[1] /\ b[4] = Word(asn)[2]
  <2>1. 1 \in 1 .. 2 /\ 2 \in 1 .. 2 /\ 2 + 1 = 3 /\ 2 + 2 = 4
    OBVIOUS
  <2>2. Len(Word(0)) = 2 /\ Len(Word(asn)) = 2 /\ Word(0)[1] = 0 /\ Word(0)[2] = 0
    BY ONLY <1>3, <1>5, Zenon
  <2>3. /\ Len(b) = 2 + 2
        /\ \A p \in 1 .. 2 : b[p] = Word(0)[p]
        /\ \A p \in 1 .. 2 : b[2 + p] = Word(asn)[p]
    BY ONLY <1>6, <2>2, Zenon
  <2> QED
    BY ONLY <2>1, <2>2, <2>3
<1>8. b[3] * 256 + b[4] = asn
  BY ONLY <1>3, <1>4, <1>7
<1> QED
  BY ONLY <1>1, <1>2, <1>6, <1>7, <1>8 DEF asn, b

(* update: what can be sent for an event counts its AS numbers in a byte.  *)
LEMMA LabIsUpdate ==
  ASSUME NEW e \in LabArgs, Sendable(update(e))
  PROVE  /\ update(e) \in UpdateRecord /\ LengthsAgree(update(e))
         /\ e.kind # "withdraw" => PathCount(e) \in Byte
<1> DEFINE path == LabPath(e)
           target == lab_nlri(e.prefix)
<1>1. /\ e.peer \in 0 .. 2 /\ e.prefix \in Byte /\ e.length \in Nat /\ e.length >= 1
      /\ e.origin \in 0 .. 2
      /\ e.kind # "announce" => e.length = 1
  BY LabAs
<1>2. path \in Seq(Byte) /\ Len(path) = e.length * 4
  <2> DEFINE b == Word(0) \o Word(ASNS[e.peer + 1])
  <2>1. b \in Seq(Byte) /\ Len(b) = 4
    BY LabAs
  <2> HIDE DEF b
  <2>2. Copies(b, e.length) \in Seq(Byte) /\ Len(Copies(b, e.length)) = e.length * Len(b)
    BY <1>1, <2>1, CopiesAre
  <2> QED
    BY <2>1, <2>2 DEF LabPath, b
<1>3. target \in Seq(Byte)
  BY <1>1, ConstantParts DEF lab_nlri
<1>4. <<>> \in Seq(Byte) /\ <<>> \in Seq(FitAttr)
  OBVIOUS
<1>5. CASE e.kind = "withdraw"
  <2>1. update(e) = AnUpdate(target, <<>>, <<>>)
    BY <1>5 DEF update
  <2> QED
    BY ONLY <1>3, <1>4, <1>5, <2>1, UpdateOfFits
<1>6. CASE e.kind # "withdraw"
  <2> DEFINE origin == IF e.kind = "bad_origin" THEN 3 ELSE e.origin
             v1 == <<origin>>
             v2 == <<2, PathCount(e)>> \o path
             v3 == <<192, 0, 2, e.peer + 2>>
             as == <<PathAttr(64, 1, v1), PathAttr(64, 2, v2), PathAttr(64, 3, v3)>>
  <2>1. update(e) = AnUpdate(<<>>, as, target)
    BY <1>6 DEF update, LabPath
  <2>2. PathCount(e) \in Nat
    BY <1>1 DEF PathCount
  <2>3. Len(v2) = 2 + Len(path)
    <3>1. path \in Seq(Nat) /\ <<2, PathCount(e)>> \in Seq(Nat) /\ Len(<<2, PathCount(e)>>) = 2
      <4>1. Seq(Byte) \subseteq Seq(Nat)
        BY ByteIs, SeqMonotonic
      <4>2. <<2, PathCount(e)>> \in Seq(Nat) /\ Len(<<2, PathCount(e)>>) = 2
        BY <2>2
      <4> QED
        BY ONLY <1>2, <4>1, <4>2
    <3> QED
      BY ONLY <3>1, ConcatProperties
  <2>4. Encodable(PathAttr(64, 2, v2))
    <3>1. update(e).attrs = as /\ as[2] = PathAttr(64, 2, v2) /\ 2 \in 1 .. Len(as)
      BY <2>1 DEF AnUpdate
    <3> HIDE DEF as
    <3>2. \A k \in 1 .. Len(update(e).attrs) : Encodable(update(e).attrs[k])
      BY DEF Sendable
    <3> QED
      BY ONLY <3>1, <3>2, Zenon
  <2>5. 2 + e.length * 4 <= 255
    <3>1. ~ExtendedLength(64)
      <4>1. (64 \div 16) % 2 = 0
        OBVIOUS
      <4> QED
        BY <4>1 DEF ExtendedLength
    <3>2. PathAttr(64, 2, v2).length = Len(v2) /\ PathAttr(64, 2, v2).flags = 64
      BY DEF PathAttr
    <3> HIDE DEF v2
    <3>3. Len(v2) <= 255
      BY <2>4, <3>1, <3>2 DEF Encodable
    <3> QED
      BY ONLY <1>2, <2>3, <3>3
  <2>6. PathCount(e) \in Byte
    <3>1. PathCount(e) < 256
      <4>1. e.length < 64
        BY <1>1, <2>5
      <4> QED
        BY <1>1, <4>1 DEF PathCount
    <3> QED
      BY <2>2, <3>1, ByteIs
  <2>7. v1 \in Seq(Byte) /\ v3 \in Seq(Byte)
    <3>1. origin \in Byte /\ 192 \in Byte /\ 0 \in Byte /\ 2 \in Byte /\ e.peer + 2 \in Byte
      BY <1>1, ByteIs
    <3> HIDE DEF origin
    <3> QED
      BY ONLY <3>1
  <2>8. v2 \in Seq(Byte)
    <3>1. <<2, PathCount(e)>> \in Seq(Byte)
      BY <2>6, ByteIs
    <3> QED
      BY ONLY <1>2, <3>1, PiecesAreBytes, Zenon
  <2> HIDE DEF v1, v2, v3, path
  <2>9. 64 \in Byte /\ 1 \in Byte /\ 2 \in Byte /\ 3 \in Byte
    BY ByteIs
  <2>10. /\ PathAttr(64, 1, v1) \in FitAttr /\ PathAttr(64, 2, v2) \in FitAttr
         /\ PathAttr(64, 3, v3) \in FitAttr
    BY ONLY <2>7, <2>8, <2>9, PathAttrFits
  <2>11. as \in Seq(FitAttr)
    BY ONLY <2>10
  <2> HIDE DEF as, target
  <2>12. update(e) \in UpdateRecord /\ LengthsAgree(update(e))
    BY ONLY <1>3, <1>4, <2>1, <2>11, UpdateOfFits
  <2> QED
    BY <2>6, <2>12
<1> QED
  BY <1>5, <1>6

(* What a case that is sent builds is an UPDATE.                           *)
LEMMA BuiltIsUpdate ==
  ASSUME NEW c, c.builder \in DOMAIN Arguments, c.args \in Arguments[c.builder],
         c.builder # "gr_open", Sendable(Built(c))
  PROVE  Built(c) \in UpdateRecord /\ LengthsAgree(Built(c))
<1>1. c.builder \in {"legacy", "aspath", "mpreach", "lab", "gr_route"}
  BY DEF Arguments
<1>2. CASE c.builder = "legacy"
  <2>1. c.args \in LegacyArgs
    BY <1>2 DEF Arguments
  <2>2. /\ c.args.flags \in Byte /\ c.args.type \in Byte /\ c.args.len \in Nat
        /\ c.args.payload \in Seq(Byte)
    BY <2>1 DEF LegacyArgs
  <2>3. Built(c) = build_legacy_update(c.args, c.args.version, c.args.slot)
    BY <1>2 DEF Built
  <2> QED
    BY ONLY <2>2, <2>3, LegacyIsUpdate
<1>3. CASE c.builder = "aspath"
  <2>1. c.args \in AsPathArgs
    BY <1>3 DEF Arguments
  <2>2. Built(c) = build_aspath_update(c.args)
    BY <1>3 DEF Built
  <2> QED
    BY ONLY <2>1, <2>2, AsPathIsUpdate
<1>4. CASE c.builder = "mpreach"
  <2>1. c.args \in MpReachArgs
    BY <1>4 DEF Arguments
  <2>2. Built(c) = build_mpreach_update(c.args)
    BY <1>4 DEF Built
  <2> QED
    BY ONLY <2>1, <2>2, MpReachIsUpdate
<1>5. CASE c.builder = "lab"
  <2>1. c.args \in LabArgs
    BY <1>5 DEF Arguments
  <2>2. Built(c) = update(c.args)
    BY <1>5 DEF Built
  <2>3. Sendable(update(c.args))
    BY <2>2
  <2> QED
    BY ONLY <2>1, <2>2, <2>3, LabIsUpdate
<1>6. CASE c.builder = "gr_route"
  <2>1. Built(c) = _route
    BY <1>6 DEF Built
  <2>2. /\ ROUTE_ARGS.flags \in Byte /\ ROUTE_ARGS.type \in Byte /\ ROUTE_ARGS.len \in Nat
        /\ ROUTE_ARGS.payload \in Seq(Byte)
    <3>1. 192 \in Byte /\ 8 \in Byte /\ 0 \in Byte /\ 1 \in Byte
      BY ByteIs
    <3> QED
      BY <3>1 DEF ROUTE_ARGS
  <2>3. _route = build_legacy_update(ROUTE_ARGS, 3, 4)
    BY DEF _route
  <2> QED
    BY ONLY <2>1, <2>2, <2>3, LegacyIsUpdate
<1> QED
  BY <1>1, <1>2, <1>3, <1>4, <1>5, <1>6

(***************************************************************************)
(* What is judged                                                          *)
(***************************************************************************)

(* Case c is one of a suite.                                               *)
InSuites(c) == \E suite \in Suites : c \in suite

(* The bytes of a case are read back as the attributes of its builder      *)
(* (decode_update_attributes).                                             *)
LEMMA ReadBack ==
  ASSUME NEW c, InSuites(c), c.builder # "gr_open"
  PROVE  Received(c) = {Built(c)} /\ Built(c) \in UpdateRecord
<1>1. /\ c.builder \in DOMAIN Arguments /\ c.args \in Arguments[c.builder]
      /\ Sendable(Built(c))
  <2>1. \A suite \in Suites : \A d \in suite :
          /\ d.builder \in DOMAIN Arguments /\ d.args \in Arguments[d.builder]
          /\ d.builder # "gr_open" => Sendable(Built(d))
    BY ONLY PacketsAssumption
  <2> QED
    BY <2>1, Zenon DEF InSuites
<1>2. Built(c) \in UpdateRecord /\ LengthsAgree(Built(c))
  BY ONLY <1>1, c.builder # "gr_open", BuiltIsUpdate
<1>3. decode_update_attributes(wire(Built(c))) = {Built(c)}
  BY ONLY <1>1, <1>2, UpdateIsRead
<1> QED
  BY <1>2, <1>3 DEF Received

(* A case and the state of the oracle: what is judged are the attributes   *)
(* of the builder, in the context of the suite.                            *)
CaseInv ==
  \A c \in case :
    /\ InSuites(c)
    /\ c.builder # "gr_open" =>
         /\ pc \in {"attributes", "update_done"}
         /\ attrs = Judged(Built(c).attrs) /\ context = ContextOf(c)
    /\ c.builder = "gr_open" =>
         pc \in {"open", "open_done"} /\ opt_params = BuiltOpen(c)

(* It holds of the cases that the suites begin with.                       *)
LEMMA CaseFirst ==
  ASSUME PInit
  PROVE  CaseInv
<1>1. CASE InitBuilt
  <2>1. PICK c : /\ InSuites(c) /\ c.builder # "gr_open" /\ case = {c}
                 /\ context = ContextOf(c) /\ pc = "attributes"
                 /\ \E u \in Judges(c) : attrs = Judged(u.attrs)
    BY <1>1, Zenon DEF InitBuilt, InSuites
  <2>2. Received(c) = {Built(c)}
    BY ONLY <2>1, ReadBack
  <2>3. Judges(c) = {Built(c)}
    BY ONLY <2>2 DEF Judges
  <2>4. attrs = Judged(Built(c).attrs)
    BY ONLY <2>1, <2>3
  <2> QED
    BY ONLY <2>1, <2>4 DEF CaseInv
<1>2. CASE InitBuiltOpen
  <2>1. PICK c : /\ InSuites(c) /\ c.builder = "gr_open" /\ case = {c}
                 /\ pc = "open" /\ opt_params = BuiltOpen(c)
    BY <1>2, Zenon DEF InitBuiltOpen, InSuites
  <2> QED
    BY ONLY <2>1 DEF CaseInv
<1>3. CASE Init /\ case = {}
  BY <1>3 DEF CaseInv
<1> QED
  BY <1>1, <1>2, <1>3 DEF PInit

(* The oracle changes neither what it judges nor the context.              *)
LEMMA CaseStep ==
  ASSUME CaseInv, [Next /\ UNCHANGED case]_pvars
  PROVE  CaseInv'
<1>1. UNCHANGED <<attrs, context, opt_params, case>>
  BY DEF Next, ParseAttribute, DiscardDuplicate, CheckMandatory, ParseOpen, Done, pvars, vars
<1>2. /\ pc \in {"attributes", "update_done"} => pc' \in {"attributes", "update_done"}
      /\ pc \in {"open", "open_done"} => pc' \in {"open", "open_done"}
  BY DEF Next, ParseAttribute, DiscardDuplicate, CheckMandatory, ParseOpen, Done, pvars, vars
<1> QED
  BY ONLY CaseInv, <1>1, <1>2 DEF CaseInv

(* What the oracle judges of a suite's case is what the daemon reads from  *)
(* its bytes, whatever the arguments of the builders (packet_builders.py). *)
THEOREM WireIsAlwaysJudged == PSpec => []WireIsJudged
<1>1. CaseInv => WireIsJudged
  <2> SUFFICES ASSUME CaseInv, pc = "attributes", NEW c \in case
               PROVE  Received(c) = {Built(c)}
    BY DEF WireIsJudged
  <2>1. InSuites(c) /\ c.builder # "gr_open"
    BY DEF CaseInv
  <2> QED
    BY ONLY <2>1, ReadBack
<1> QED
  BY <1>1, CaseFirst, CaseStep, PTL DEF PSpec

(***************************************************************************)
(* The optional parameters that are built                                  *)
(***************************************************************************)

(* A capability of the length its code requires.                           *)
GoodCap(b) ==
  /\ b \in Seq(Byte) /\ Len(b) >= 2 /\ Len(b) < 256 /\ b[2] = Len(b) - 2
  /\ CAP_SEMANTIC_LEN(b[1], b[2])

GoodCaps(bs) == bs \in Seq(Seq(Byte)) /\ \A k \in 1 .. Len(bs) : GoodCap(bs[k])

Wrapped(bs) == [k \in 1 .. Len(bs) |-> wrap_capability(bs[k])]

(* A capability in a parameter of its own (wrap_capability).               *)
LEMMA WrapIs ==
  ASSUME NEW b, GoodCap(b)
  PROVE  LET x == wrap_capability(b)
         IN  /\ x \in Seq(Byte) /\ Len(x) = 2 + Len(b) /\ Len(b) \in Nat
             /\ x[1] = 2 /\ x[2] = Len(b) /\ \A p \in 1 .. Len(b) : x[2 + p] = b[p]
<1> DEFINE h == <<2, Len(b)>>
<1>1. b \in Seq(Byte) /\ Len(b) \in Nat /\ Len(b) < 256
  BY DEF GoodCap
<1>2. 2 \in Byte /\ Len(b) \in Byte
  BY <1>1, ByteIs
<1>3. h \in Seq(Byte) /\ Len(h) = 2 /\ h[1] = 2 /\ h[2] = Len(b) /\ 1 \in 1 .. 2 /\ 2 \in 1 .. 2
  BY ONLY <1>2
<1> HIDE DEF h
<1>4. /\ h \o b \in Seq(Byte) /\ Len(h \o b) = Len(h) + Len(b)
      /\ \A p \in 1 .. Len(h) : (h \o b)[p] = h[p]
      /\ \A p \in 1 .. Len(b) : (h \o b)[Len(h) + p] = b[p]
  BY ONLY <1>1, <1>3, JoinOfTwo
<1>5. wrap_capability(b) = h \o b
  BY DEF wrap_capability, h
<1> QED
  BY ONLY <1>1, <1>3, <1>4, <1>5

(* The inner loop accepts a parameter of one such capability.              *)
LEMMA CapabilityIsAccepted ==
  ASSUME NEW o \in Seq(Byte), NEW b, GoodCap(b), NEW s \in Nat, s + Len(b) <= Len(o),
         \A p \in 1 .. Len(b) : o[s + p] = b[p]
  PROVE  capabilities(o, s, s + Len(b))
<1> DEFINE to == s + Len(b)
           C == Caps(o, to)
<1>1. /\ Len(b) \in Nat /\ Len(b) >= 2 /\ b[2] = Len(b) - 2 /\ CAP_SEMANTIC_LEN(b[1], b[2])
      /\ Len(o) \in Nat
  BY DEF GoodCap
<1>2. o[s + 1] = b[1] /\ o[s + 2] = b[2]
  BY <1>1
<1>3. to \in 0 .. Len(o) /\ s \in 0 .. Len(o) /\ s + 2 <= to /\ s + 2 + b[2] = to /\ to <= to
  BY <1>1
<1> HIDE DEF to
<1>4. \A c \in 0 .. Len(o) : C[c] = CapBody(o, to, C, c)
  BY ONLY <1>3, o \in Seq(Byte), CapsWork
<1>5. capabilities(o, s, to) <=> C[s]
  BY DEF capabilities, Caps, CapBody
<1> HIDE DEF C
<1>6. C[to]
  <2>1. to >= to
    BY <1>3
  <2> QED
    BY ONLY <1>3, <1>4, <2>1 DEF CapBody
<1>7. C[s]
  BY ONLY <1>1, <1>2, <1>3, <1>4, <1>6, Zenon DEF CapBody
<1> QED
  BY <1>5, <1>7 DEF to

(* parse_capabilities accepts any number of such parameters.               *)
LEMMA ParametersAreAccepted ==
  ASSUME NEW bs, GoodCaps(bs)
  PROVE  LET o == FlattenSeq(Wrapped(bs)) IN o \in Seq(Byte) /\ parse_capabilities(o)
<1> DEFINE n == Len(bs)
           w == Wrapped(bs)
           o == FlattenSeq(w)
           D == Params(o)
           P(m) == D[Offset(w, n - m + 1)]
           T == {m \in Nat : m <= n => P(m)}
<1>1. n \in Nat
  BY LenProperties DEF GoodCaps
<1>2. \A k \in 1 .. n : GoodCap(bs[k])
  BY DEF GoodCaps
<1> HIDE DEF n
<1>3. w \in Seq(Seq(Byte)) /\ Len(w) = n /\ \A k \in 1 .. n : w[k] = wrap_capability(bs[k])
  <2>1. \A k \in 1 .. n : wrap_capability(bs[k]) \in Seq(Byte)
    BY ONLY <1>2, WrapIs
  <2>2. w = [k \in 1 .. n |-> wrap_capability(bs[k])]
    BY DEF Wrapped, n
  <2> HIDE DEF w
  <2>3. w \in [1 .. n -> Seq(Byte)] /\ \A k \in 1 .. n : w[k] = wrap_capability(bs[k])
    BY ONLY <2>1, <2>2
  <2>4. w \in Seq(Seq(Byte))
    BY ONLY <1>1, <2>3, SeqDef
  <2>5. Len(w) = n
    BY ONLY <1>1, <2>3, <2>4
  <2> QED
    BY ONLY <2>3, <2>4, <2>5
<1> HIDE DEF w
<1>4. o \in Seq(Byte) /\ o = Joined(w, n) /\ Joined(w, 0) = <<>>
  <2>1. n \in 0 .. n
    BY <1>1
  <2> QED
    BY <1>3, <2>1, JoinedWorks
<1> HIDE DEF o
<1>5. \A s \in 0 .. Len(o) : D[s] = ParamBody(o, D, s)
  BY <1>4, ParamsWork
<1> HIDE DEF D
<1>6. ASSUME NEW k \in 1 .. n, D[Offset(w, k + 1)] PROVE D[Offset(w, k)]
  <2> DEFINE s == Offset(w, k)
             b == bs[k]
  <2>1. k \in 1 .. Len(w) /\ w[k] = wrap_capability(b)
    BY <1>3
  <2>2. /\ s \in Nat /\ Offset(w, k + 1) = s + Len(w[k]) /\ Offset(w, k + 1) <= Len(o)
        /\ \A j \in 1 .. Len(w[k]) : o[s + j] = w[k][j]
    BY ONLY <1>3, <2>1, Placed DEF o
  <2>3. GoodCap(b)
    BY <1>2
  <2> HIDE DEF s, b
  <2>4. /\ Len(w[k]) = 2 + Len(b) /\ Len(b) \in Nat /\ Len(b) >= 2
        /\ w[k][1] = 2 /\ w[k][2] = Len(b) /\ \A p \in 1 .. Len(b) : w[k][2 + p] = b[p]
    <3>1. /\ Len(wrap_capability(b)) = 2 + Len(b) /\ Len(b) \in Nat
          /\ wrap_capability(b)[1] = 2 /\ wrap_capability(b)[2] = Len(b)
          /\ \A p \in 1 .. Len(b) : wrap_capability(b)[2 + p] = b[p]
      BY ONLY <2>3, WrapIs
    <3>2. Len(b) >= 2
      BY ONLY <2>3 DEF GoodCap
    <3> QED
      BY ONLY <2>1, <3>1, <3>2
  <2>5. o[s + 1] = 2 /\ o[s + 2] = Len(b)
    <3>1. 1 \in 1 .. Len(w[k]) /\ 2 \in 1 .. Len(w[k])
      BY ONLY <2>4
    <3> QED
      BY ONLY <2>2, <2>4, <3>1
  <2>6. /\ s \in 0 .. Len(o) /\ s + 2 <= Len(o)
        /\ s + 2 + Len(b) = Offset(w, k + 1) /\ s + 2 + Len(b) <= Len(o)
    <3>1. Len(o) \in Nat
      BY <1>4
    <3> QED
      BY ONLY <2>2, <2>4, <3>1
  <2>7. capabilities(o, s + 2, s + 2 + Len(b))
    <3>1. \A p \in 1 .. Len(b) : o[(s + 2) + p] = b[p]
      <4> SUFFICES ASSUME NEW p \in 1 .. Len(b) PROVE o[(s + 2) + p] = b[p]
        OBVIOUS
      <4>1. 2 + p \in 1 .. Len(w[k]) /\ (s + 2) + p = s + (2 + p)
        <5>1. s \in Nat /\ Len(b) \in Nat /\ Len(w[k]) = 2 + Len(b)
          BY ONLY <2>2, <2>4, Zenon
        <5> QED
          BY ONLY <5>1, p \in 1 .. Len(b)
      <4> QED
        BY ONLY <2>2, <2>4, <4>1, p \in 1 .. Len(b)
    <3>2. s + 2 \in Nat /\ (s + 2) + Len(b) <= Len(o)
      BY ONLY <2>2, <2>6
    <3> QED
      BY ONLY <1>4, <2>3, <3>1, <3>2, CapabilityIsAccepted
  <2>8. ParamBody(o, D, s)
    BY ONLY <1>6, <2>4, <2>5, <2>6, <2>7, Zenon DEF ParamBody
  <2> QED
    BY ONLY <1>5, <2>6, <2>8 DEF s
<1>7. 0 \in T
  <2>1. n - 0 + 1 = n + 1 /\ (n + 1) - 1 = n
    BY <1>1
  <2>2. Offset(w, n + 1) = Len(o)
    BY <1>4, <2>1 DEF Offset
  <2>3. Len(o) \in 0 .. Len(o)
    BY <1>4
  <2>4. D[Len(o)]
    BY <1>5, <2>3 DEF ParamBody
  <2> QED
    BY ONLY <2>1, <2>2, <2>4
<1>8. ASSUME NEW m \in T PROVE m + 1 \in T
  <2> SUFFICES ASSUME m + 1 <= n PROVE P(m + 1)
    OBVIOUS
  <2> HIDE DEF P
  <2>1. m \in Nat /\ P(m)
    BY <1>1
  <2>2. n - m \in 1 .. n /\ n - (m + 1) + 1 = n - m
    BY <1>1, <2>1
  <2> QED
    BY ONLY <1>6, <2>1, <2>2 DEF P
<1>9. T = Nat
  <2>1. T \in SUBSET Nat
    OBVIOUS
  <2> HIDE DEF T
  <2> QED
    BY <1>7, <1>8, <2>1, Induction
<1>10. D[0]
  <2> HIDE DEF P
  <2>1. n - n + 1 = 1 /\ n <= n
    BY <1>1
  <2>2. P(n)
    BY ONLY <1>1, <1>9, <2>1
  <2>3. Offset(w, 1) = 0
    BY <1>4 DEF Offset
  <2> QED
    BY ONLY <2>1, <2>2, <2>3 DEF P
<1>11. parse_capabilities(o) <=> Params(o)[0]
  BY DEF parse_capabilities, Params, ParamBody
<1> QED
  BY <1>4, <1>10, <1>11 DEF D, o, w

(* The capabilities that are sent have the lengths of their codes.         *)
LEMMA LengthsOfCodes ==
  /\ CAP_SEMANTIC_LEN(1, 4) /\ CAP_SEMANTIC_LEN(128, 0) /\ CAP_SEMANTIC_LEN(2, 0)
  /\ CAP_SEMANTIC_LEN(70, 0) /\ CAP_SEMANTIC_LEN(65, 4) /\ CAP_SEMANTIC_LEN(64, 6)
<1>1. 4 % 4 = 0 /\ (6 - 2) % 4 = 0 /\ 4 >= 4 /\ 6 >= 2
  OBVIOUS
<1>2. CAP_SEMANTIC_LEN(1, 4)
  BY <1>1 DEF CAP_SEMANTIC_LEN
<1>3. CAP_SEMANTIC_LEN(64, 6)
  BY <1>1 DEF CAP_SEMANTIC_LEN
<1>4. /\ CAP_SEMANTIC_LEN(128, 0) /\ CAP_SEMANTIC_LEN(2, 0)
      /\ CAP_SEMANTIC_LEN(70, 0) /\ CAP_SEMANTIC_LEN(65, 4)
  BY DEF CAP_SEMANTIC_LEN
<1> QED
  BY ONLY <1>2, <1>3, <1>4

(* Capabilities without a value, and with one of four bytes.               *)
LEMMA ShortCapability ==
  ASSUME NEW c \in Byte, CAP_SEMANTIC_LEN(c, 0)
  PROVE  GoodCap(<<c, 0>>)
<1>1. 0 \in Byte
  BY ByteIs
<1> DEFINE b == <<c, 0>>
<1>2. b \in Seq(Byte) /\ Len(b) = 2 /\ b[1] = c /\ b[2] = 0
  BY ONLY <1>1, c \in Byte
<1> HIDE DEF b
<1>3. Len(b) >= 2 /\ Len(b) < 256 /\ b[2] = Len(b) - 2
  BY ONLY <1>2
<1>4. GoodCap(b)
  BY ONLY <1>2, <1>3, CAP_SEMANTIC_LEN(c, 0) DEF GoodCap
<1> QED
  BY ONLY <1>4 DEF b

(* A capability with a value of four bytes.                                *)
LEMMA FourByteCapability ==
  ASSUME NEW c \in Byte, NEW x \in Byte, NEW y \in Byte, NEW z \in Byte, NEW t \in Byte,
         CAP_SEMANTIC_LEN(c, 4)
  PROVE  GoodCap(<<c, 4, x, y, z, t>>)
<1>1. 4 \in Byte
  BY ByteIs
<1> DEFINE b == <<c, 4, x, y, z, t>>
<1>2. b \in Seq(Byte) /\ Len(b) = 6 /\ b[1] = c /\ b[2] = 4
  BY ONLY <1>1, c \in Byte, x \in Byte, y \in Byte, z \in Byte, t \in Byte
<1> HIDE DEF b
<1>3. Len(b) >= 2 /\ Len(b) < 256 /\ b[2] = Len(b) - 2
  BY ONLY <1>2
<1>4. GoodCap(b)
  BY ONLY <1>2, <1>3, CAP_SEMANTIC_LEN(c, 4) DEF GoodCap
<1> QED
  BY ONLY <1>4 DEF b

(* The head of such a capability and its value.                            *)
LEMMA HeadAndFour ==
  ASSUME NEW a \in Byte, NEW b \in Byte,
         NEW x \in Byte, NEW y \in Byte, NEW z \in Byte, NEW t \in Byte
  PROVE  <<a, b>> \o <<x, y, z, t>> = <<a, b, x, y, z, t>>
<1> DEFINE h == <<a, b>>
           v == <<x, y, z, t>>
           w == <<a, b, x, y, z, t>>
<1>1. h \in Seq(Byte) /\ Len(h) = 2 /\ h[1] = a /\ h[2] = b
  OBVIOUS
<1>2. v \in Seq(Byte) /\ Len(v) = 4 /\ v[1] = x /\ v[2] = y /\ v[3] = z /\ v[4] = t
  OBVIOUS
<1>3. /\ w \in Seq(Byte) /\ Len(w) = 6 /\ w[1] = a /\ w[2] = b
      /\ w[3] = x /\ w[4] = y /\ w[5] = z /\ w[6] = t
  OBVIOUS
<1> HIDE DEF h, v, w
<1>4. /\ h \o v \in Seq(Byte) /\ Len(h \o v) = Len(h) + Len(v)
      /\ \A p \in 1 .. Len(h) : (h \o v)[p] = h[p]
      /\ \A p \in 1 .. Len(v) : (h \o v)[Len(h) + p] = v[p]
  BY ONLY <1>1, <1>2, JoinOfTwo
<1> DEFINE u == h \o v
<1> HIDE DEF u
<1>5. /\ u \in Seq(Byte) /\ Len(u) = 6
      /\ \A p \in 1 .. 2 : u[p] = h[p]
      /\ \A p \in 1 .. 4 : u[2 + p] = v[p]
  BY ONLY <1>1, <1>2, <1>4 DEF u
<1>6. /\ u[1] = h[1] /\ u[2] = h[2]
      /\ u[3] = v[1] /\ u[4] = v[2] /\ u[5] = v[3] /\ u[6] = v[4]
  <2>1. /\ 1 \in 1 .. 2 /\ 2 \in 1 .. 2 /\ 1 \in 1 .. 4 /\ 2 \in 1 .. 4 /\ 3 \in 1 .. 4
        /\ 4 \in 1 .. 4 /\ 2 + 1 = 3 /\ 2 + 2 = 4 /\ 2 + 3 = 5 /\ 2 + 4 = 6
    OBVIOUS
  <2>2. u[2 + 1] = v[1] /\ u[2 + 2] = v[2] /\ u[2 + 3] = v[3] /\ u[2 + 4] = v[4]
    BY ONLY <1>5, <2>1, Zenon
  <2> QED
    BY ONLY <1>5, <2>1, <2>2
<1>7. \A p \in 1 .. 6 : u[p] = w[p]
  <2>1. \A p \in 1 .. 6 : p = 1 \/ p = 2 \/ p = 3 \/ p = 4 \/ p = 5 \/ p = 6
    OBVIOUS
  <2> QED
    BY ONLY <1>1, <1>2, <1>3, <1>6, <2>1
<1>8. u = w
  BY ONLY <1>3, <1>5, <1>7, SeqEqual
<1> QED
  BY <1>8 DEF u, h, v, w

(* The OPEN without a graceful restart is accepted (build_bgp_open).       *)
LEMMA DefaultIsAccepted ==
  default_opt_params \in Seq(Byte) /\ parse_capabilities(default_opt_params)
<1> DEFINE c1 == <<1, 4, 0, 1, 0, 1>>
           c2 == <<1, 4, 0, 2, 0, 1>>
           c3 == <<1, 4, 0, 1, 0, 128>>
           c4 == <<128, 0>>
           c5 == <<2, 0>>
           c6 == <<70, 0>>
           c7 == <<65, 4>> \o AS65002
           bs == <<c1, c2, c3, c4, c5, c6, c7>>
<1>1. /\ 0 \in Byte /\ 1 \in Byte /\ 2 \in Byte /\ 128 \in Byte /\ 70 \in Byte /\ 65 \in Byte
      /\ 253 \in Byte /\ 234 \in Byte
  BY ByteIs
<1>2. GoodCap(c1) /\ GoodCap(c2) /\ GoodCap(c3)
  BY ONLY <1>1, LengthsOfCodes, FourByteCapability, Zenon
<1>3. GoodCap(c4) /\ GoodCap(c5) /\ GoodCap(c6)
  BY ONLY <1>1, LengthsOfCodes, ShortCapability, Zenon
<1>4. GoodCap(c7)
  <2>1. c7 = <<65, 4, 0, 0, 253, 234>>
    <3>1. 4 \in Byte
      BY ByteIs
    <3>2. <<65, 4>> \o <<0, 0, 253, 234>> = <<65, 4, 0, 0, 253, 234>>
      BY ONLY <1>1, <3>1, HeadAndFour
    <3> QED
      BY ONLY <3>2 DEF AS65002, c7
  <2>2. GoodCap(<<65, 4, 0, 0, 253, 234>>)
    <3> DEFINE code == 65
               high == 253
               low == 234
    <3>1. /\ code \in Byte /\ 0 \in Byte /\ high \in Byte /\ low \in Byte
          /\ CAP_SEMANTIC_LEN(code, 4)
      BY ONLY ByteIs, LengthsOfCodes
    <3> HIDE DEF code, high, low
    <3>2. GoodCap(<<code, 4, 0, 0, high, low>>)
      BY ONLY <3>1, FourByteCapability, Zenon
    <3> QED
      BY ONLY <3>2 DEF code, high, low
  <2> QED
    BY ONLY <2>1, <2>2, Zenon
<1> HIDE DEF c1, c2, c3, c4, c5, c6, c7
<1>5. Len(bs) = 7 /\ \A k \in 1 .. 7 : GoodCap(bs[k])
  BY ONLY <1>2, <1>3, <1>4
<1>6. bs \in Seq(Seq(Byte))
  BY ONLY <1>2, <1>3, <1>4 DEF GoodCap
<1>7. default_opt_params = FlattenSeq([k \in 1 .. 7 |-> wrap_capability(bs[k])])
  BY Zenon DEF default_opt_params, c1, c2, c3, c4, c5, c6, c7
<1> HIDE DEF bs
<1>8. Wrapped(bs) = [k \in 1 .. 7 |-> wrap_capability(bs[k])]
  BY ONLY <1>5 DEF Wrapped
<1>9. GoodCaps(bs)
  BY ONLY <1>5, <1>6 DEF GoodCaps
<1> QED
  BY ONLY <1>7, <1>8, <1>9, ParametersAreAccepted

(* Four strings that are joined, and nothing behind them.                  *)
LEMMA JoinOfFour ==
  ASSUME NEW w \in Seq(Seq(Byte)), Len(w) = 4
  PROVE  FlattenSeq(w) = (((w[1] \o w[2]) \o w[3]) \o w[4]) \o <<>>
<1> DEFINE a == w[1]
           b == w[2]
           c == w[3]
           d == w[4]
<1>1. /\ w \in Seq(Seq(Byte)) /\ Len(w) = 4 /\ w[1] = a /\ w[2] = b /\ w[3] = c /\ w[4] = d
      /\ a \in Seq(Byte) /\ b \in Seq(Byte) /\ c \in Seq(Byte) /\ d \in Seq(Byte)
  <2>1. \A k \in 1 .. Len(w) : w[k] \in Seq(Byte)
    BY ONLY w \in Seq(Seq(Byte)), ElementOfSeq
  <2>2. 1 \in 1 .. Len(w) /\ 2 \in 1 .. Len(w) /\ 3 \in 1 .. Len(w) /\ 4 \in 1 .. Len(w)
    BY ONLY Len(w) = 4
  <2> QED
    BY <2>1, <2>2, Zenon
<1> HIDE DEF a, b, c, d
<1>2. 1 \in 1 .. 4 /\ 2 \in 1 .. 4 /\ 3 \in 1 .. 4 /\ 4 \in 1 .. 4
      /\ 1 - 1 = 0 /\ 2 - 1 = 1 /\ 3 - 1 = 2 /\ 4 - 1 = 3
  OBVIOUS
<1>3. /\ FlattenSeq(w) = Joined(w, 4) /\ Joined(w, 0) = <<>>
      /\ \A k \in 1 .. 4 : Joined(w, k) = Joined(w, k - 1) \o w[k]
  <2>1. /\ FlattenSeq(w) = Joined(w, Len(w)) /\ Joined(w, 0) = <<>>
        /\ \A k \in 1 .. Len(w) : Joined(w, k) = Joined(w, k - 1) \o w[k]
    BY ONLY <1>1, JoinedWorks
  <2> QED
    BY ONLY <1>1, <2>1, Zenon
<1>4. FlattenSeq(w) = (((<<>> \o a) \o b) \o c) \o d
  <2>1. Joined(w, 1) = <<>> \o a
    BY ONLY <1>1, <1>2, <1>3, Zenon
  <2>2. Joined(w, 2) = Joined(w, 1) \o b
    BY ONLY <1>1, <1>2, <1>3, Zenon
  <2>3. Joined(w, 3) = Joined(w, 2) \o c
    BY ONLY <1>1, <1>2, <1>3, Zenon
  <2>4. Joined(w, 4) = Joined(w, 3) \o d
    BY ONLY <1>1, <1>2, <1>3, Zenon
  <2> QED
    BY ONLY <1>3, <2>1, <2>2, <2>3, <2>4, Zenon
<1>5. ((a \o b) \o c) \o d \in Seq(Byte)
  BY ONLY <1>1, PiecesAreBytes, Zenon
<1>6. \A s \in Seq(Byte) : <<>> \o s = s /\ s \o <<>> = s
  OBVIOUS
<1> QED
  BY ONLY <1>1, <1>4, <1>5, <1>6, Zenon DEF a, b, c, d

(* A code, the length of a value, and the value.                           *)
LEMMA ValueCapability ==
  ASSUME NEW c \in Byte, NEW v \in Seq(Byte), Len(v) < 254, CAP_SEMANTIC_LEN(c, Len(v))
  PROVE  GoodCap(<<c, Len(v)>> \o v)
<1> DEFINE h == <<c, Len(v)>>
           b == h \o v
<1>1. Len(v) \in Nat
  OBVIOUS
<1>2. Len(v) \in Byte
  BY <1>1, ByteIs
<1>3. h \in Seq(Byte) /\ Len(h) = 2 /\ h[1] = c /\ h[2] = Len(v)
  BY ONLY <1>2, c \in Byte
<1> HIDE DEF h
<1>4. /\ b \in Seq(Byte) /\ Len(b) = Len(h) + Len(v)
      /\ \A p \in 1 .. Len(h) : b[p] = h[p]
  BY ONLY <1>3, v \in Seq(Byte), JoinOfTwo
<1> HIDE DEF b
<1>5. Len(b) = 2 + Len(v) /\ b[1] = c /\ b[2] = Len(v)
  <2>1. 1 \in 1 .. 2 /\ 2 \in 1 .. 2
    OBVIOUS
  <2> QED
    BY ONLY <1>3, <1>4, <2>1
<1>6. Len(b) >= 2 /\ Len(b) < 256 /\ b[2] = Len(b) - 2
  BY ONLY <1>1, <1>5, Len(v) < 254
<1>7. GoodCap(b)
  BY ONLY <1>4, <1>5, <1>6, CAP_SEMANTIC_LEN(c, Len(v)) DEF GoodCap
<1> QED
  BY ONLY <1>7 DEF b, h

(* The value of a graceful restart of one family has six bytes             *)
(* (build_graceful_restart_value).                                         *)
LEMMA RestartValue ==
  ASSUME NEW fl \in {0, 8}, NEW t \in Nat, t < 4096, NEW fwd \in Byte
  PROVE  LET v == build_graceful_restart_value(fl, t, <<[afi |-> 1, safi |-> 1, flags |-> fwd]>>)
         IN  v \in Seq(Byte) /\ Len(v) = 6
<1> DEFINE head == Word(fl * 4096 + t)
           f == Word(1) \o <<1, fwd>>
           w == <<f>>
           r == [afi |-> 1, safi |-> 1, flags |-> fwd]
           g == [k \in 1 .. Len(<<r>>) |->
                   Word(<<r>>[k].afi) \o <<<<r>>[k].safi, <<r>>[k].flags>>]
<1>1. head \in Seq(Byte) /\ Len(head) = 2
  <2> DEFINE n == fl * 4096 + t
  <2>1. n \in Nat /\ n < 65536
    OBVIOUS
  <2> HIDE DEF n
  <2>2. Word(n) \in Seq(Byte) /\ Len(Word(n)) = 2
    BY ONLY <2>1, WordIs
  <2> QED
    BY ONLY <2>2 DEF n
<1>2. f \in Seq(Byte) /\ Len(f) = 4
  <2> DEFINE x == Word(1)
             y == <<1, fwd>>
  <2>1. 1 \in Nat /\ 1 < 65536
    OBVIOUS
  <2>2. x \in Seq(Byte) /\ Len(x) = 2
    BY ONLY <2>1, WordIs
  <2>3. 1 \in Byte
    BY ByteIs
  <2>4. y \in Seq(Byte) /\ Len(y) = 2
    BY ONLY <2>3, fwd \in Byte
  <2> HIDE DEF x, y
  <2>5. x \o y \in Seq(Byte) /\ Len(x \o y) = Len(x) + Len(y)
    BY ONLY <2>2, <2>4, JoinOfTwo
  <2>6. x \o y \in Seq(Byte) /\ Len(x \o y) = 4
    BY ONLY <2>2, <2>4, <2>5
  <2> QED
    BY ONLY <2>6 DEF x, y
<1> HIDE DEF head, f
<1>3. FlattenSeq(w) = f
  <2>1. w \in Seq(Seq(Byte)) /\ Len(w) = 1 /\ w[1] = f
    BY ONLY <1>2
  <2> HIDE DEF w
  <2>2. 1 \in 1 .. 1 /\ 1 - 1 = 0
    OBVIOUS
  <2>3. /\ FlattenSeq(w) = Joined(w, Len(w)) /\ Joined(w, 0) = <<>>
        /\ \A k \in 1 .. Len(w) : Joined(w, k) = Joined(w, k - 1) \o w[k]
    BY ONLY <2>1, JoinedWorks
  <2>4. FlattenSeq(w) = <<>> \o f
    BY ONLY <2>1, <2>2, <2>3, Zenon
  <2>5. \A s \in Seq(Byte) : <<>> \o s = s
    OBVIOUS
  <2> QED
    BY ONLY <1>2, <2>4, <2>5, Zenon
<1>4. g = w
  <2> DEFINE F(k) == Word(<<r>>[k].afi) \o <<<<r>>[k].safi, <<r>>[k].flags>>
  <2>1. Len(<<r>>) = 1 /\ <<r>>[1] = r
    OBVIOUS
  <2>2. r.afi = 1 /\ r.safi = 1 /\ r.flags = fwd
    OBVIOUS
  <2> HIDE DEF r
  <2>3. F(1) = f
    BY ONLY <2>1, <2>2, Zenon DEF f
  <2> HIDE DEF F
  <2>4. [k \in 1 .. 1 |-> F(k)] = <<F(1)>>
    OBVIOUS
  <2>5. [k \in 1 .. Len(<<r>>) |-> F(k)] = w
    BY ONLY <2>1, <2>3, <2>4
  <2> QED
    BY ONLY <2>5 DEF F, g
<1> DEFINE v == build_graceful_restart_value(fl, t, <<[afi |-> 1, safi |-> 1, flags |-> fwd]>>)
<1>5. v = head \o f
  <2>1. v = Word(fl * 4096 + t) \o FlattenSeq(g)
    BY ONLY DEF build_graceful_restart_value, v, g, r
  <2> HIDE DEF v, g, w
  <2> QED
    BY ONLY <1>3, <1>4, <2>1 DEF head
<1> HIDE DEF v
<1>6. head \o f \in Seq(Byte) /\ Len(head \o f) = Len(head) + Len(f)
  BY ONLY <1>1, <1>2, JoinOfTwo
<1>7. v \in Seq(Byte) /\ Len(v) = 6
  BY ONLY <1>1, <1>2, <1>5, <1>6
<1> QED
  BY ONLY <1>7 DEF v

(* The restart times that fit in their field.                              *)
RestartTimes == Below(4096)

(* The OPENs of the graceful-restart runners are accepted (_gr_open).      *)
LEMMA RestartIsAccepted ==
  ASSUME NEW restart \in BOOLEAN, NEW forwarding \in BOOLEAN, NEW t \in RestartTimes
  PROVE  LET o == _gr_open(restart, forwarding, t) IN o \in Seq(Byte) /\ parse_capabilities(o)
<1> DEFINE fl == IF restart THEN 8 ELSE 0
           fwd == IF forwarding THEN 128 ELSE 0
           v == build_graceful_restart_value(fl, t, <<[afi |-> 1, safi |-> 1, flags |-> fwd]>>)
           whole == v \o Fill(66, 0)
           value == SubSeq(whole, 1, Len(whole) - 0)
           c1 == <<1, 4, 0, 1, 0, 1>>
           c2 == <<1, 4, 0, 2, 0, 1>>
           c3 == <<65, 4>> \o AS65002
           c4 == <<64, Len(value)>> \o value
           bs == <<c1, c2, c3, c4>>
           wr == <<wrap_capability(c1), wrap_capability(c2), wrap_capability(c3),
                   wrap_capability(c4)>>
<1>1. /\ 0 \in Byte /\ 1 \in Byte /\ 2 \in Byte /\ 128 \in Byte /\ 65 \in Byte /\ 64 \in Byte
      /\ 253 \in Byte /\ 234 \in Byte /\ 4 \in Byte /\ 66 \in Byte
  BY ByteIs
<1>2. v \in Seq(Byte) /\ Len(v) = 6
  <2>1. fl \in {0, 8} /\ fwd \in Byte
    BY <1>1
  <2> HIDE DEF fl, fwd
  <2>2. t \in Nat /\ t < 4096
    BY DEF RestartTimes, Below
  <2> QED
    BY ONLY <2>1, <2>2, RestartValue
<1>3. GoodCap(c1) /\ GoodCap(c2)
  BY ONLY <1>1, LengthsOfCodes, FourByteCapability, Zenon
<1>4. GoodCap(c3)
  <2>1. <<65, 4>> \o <<0, 0, 253, 234>> = <<65, 4, 0, 0, 253, 234>>
    BY ONLY <1>1, HeadAndFour
  <2>2. GoodCap(<<65, 4, 0, 0, 253, 234>>)
    <3> DEFINE code == 65
               high == 253
               low == 234
    <3>1. /\ code \in Byte /\ 0 \in Byte /\ high \in Byte /\ low \in Byte
          /\ CAP_SEMANTIC_LEN(code, 4)
      BY ONLY ByteIs, LengthsOfCodes
    <3> HIDE DEF code, high, low
    <3>2. GoodCap(<<code, 4, 0, 0, high, low>>)
      BY ONLY <3>1, FourByteCapability, Zenon
    <3> QED
      BY ONLY <3>2 DEF code, high, low
  <2>3. c3 = <<65, 4, 0, 0, 253, 234>>
    BY ONLY <2>1 DEF AS65002, c3
  <2> QED
    BY ONLY <2>2, <2>3, Zenon
<1>5. _gr_open(restart, forwarding, t) =
        (((wrap_capability(c1) \o wrap_capability(c2)) \o wrap_capability(c3))
         \o wrap_capability(c4)) \o <<>>
  <2> DEFINE r == [flags |-> fl, time |-> t,
                   families |-> <<[afi |-> 1, safi |-> 1, flags |-> fwd]>>,
                   trim |-> 0, duplicate |-> FALSE, extra_len |-> 0]
  <2>1. /\ r.flags = fl /\ r.time = t /\ r.trim = 0 /\ r.duplicate = FALSE /\ r.extra_len = 0
        /\ r.families = <<[afi |-> 1, safi |-> 1, flags |-> fwd]>>
    OBVIOUS
  <2>2. _gr_open(restart, forwarding, t) = build_graceful_restart_open(r)
    BY ONLY DEF _gr_open, r, fl, fwd
  <2> HIDE DEF r, fl, fwd
  <2> DEFINE whole_r == build_graceful_restart_value(r.flags, r.time, r.families)
                        \o Fill(66, r.extra_len)
             value_r == SubSeq(whole_r, 1, Len(whole_r) - r.trim)
             gr_r == wrap_capability(<<64, Len(value_r)>> \o value_r)
  <2>3. build_graceful_restart_open(r) =
          (((wrap_capability(c1) \o wrap_capability(c2)) \o wrap_capability(c3))
           \o gr_r) \o When(r.duplicate, gr_r)
    BY ONLY DEF build_graceful_restart_open, c1, c2, c3, gr_r, value_r, whole_r
  <2>4. value_r = value
    BY ONLY <2>1 DEF value_r, whole_r, value, whole, v
  <2> HIDE DEF value_r, value, c1, c2, c3
  <2>5. gr_r = wrap_capability(c4)
    BY ONLY <2>4 DEF gr_r, c4
  <2> HIDE DEF gr_r
  <2>6. When(r.duplicate, gr_r) = <<>>
    BY ONLY <2>1 DEF When
  <2> QED
    BY ONLY <2>2, <2>3, <2>5, <2>6
<1> HIDE DEF v
<1>6. value \in Seq(Byte) /\ Len(value) = 6
  <2> DEFINE z == Fill(66, 0)
  <2>1. z \in Seq(Byte) /\ Len(z) = 0
    <3>1. 0 \in Nat
      OBVIOUS
    <3> QED
      BY ONLY <1>1, <3>1, PiecesAreBytes, Zenon
  <2> HIDE DEF z
  <2>2. v \o z \in Seq(Byte) /\ Len(v \o z) = Len(v) + Len(z)
    BY ONLY <1>2, <2>1, JoinOfTwo
  <2>3. whole \in Seq(Byte) /\ Len(whole) = 6
    BY ONLY <1>2, <2>1, <2>2 DEF whole, z
  <2> HIDE DEF whole
  <2>4. Len(whole) - 0 = 6
    BY ONLY <2>3
  <2>5. value = SubSeq(whole, 1, 6)
    BY ONLY <2>4 DEF value
  <2>6. SubSeq(whole, 1, 6) \in Seq(Byte) /\ Len(SubSeq(whole, 1, 6)) = 6
    <3>1. 1 \in 1 .. Len(whole) + 1 /\ 6 \in 1 - 1 .. Len(whole) /\ 6 - 1 + 1 = 6
      BY ONLY <2>3
    <3> QED
      BY ONLY <2>3, <3>1, SubSeqProperties
  <2> QED
    BY ONLY <2>5, <2>6
<1> HIDE DEF value, c1, c2, c3
<1>7. GoodCap(c4)
  <2>1. Len(value) < 254 /\ CAP_SEMANTIC_LEN(64, Len(value))
    BY ONLY <1>6, LengthsOfCodes
  <2> QED
    BY ONLY <1>1, <1>6, <2>1, ValueCapability
<1> HIDE DEF c4
<1>8. Len(bs) = 4 /\ \A k \in 1 .. 4 : GoodCap(bs[k])
  BY ONLY <1>3, <1>4, <1>7
<1>9. bs \in Seq(Seq(Byte))
  BY ONLY <1>3, <1>4, <1>7 DEF GoodCap
<1>10. GoodCaps(bs)
  BY ONLY <1>8, <1>9 DEF GoodCaps
<1>11. Wrapped(bs) = wr
  <2>1. bs[1] = c1 /\ bs[2] = c2 /\ bs[3] = c3 /\ bs[4] = c4
    OBVIOUS
  <2> HIDE DEF bs
  <2>2. Wrapped(bs) = [k \in 1 .. 4 |-> wrap_capability(bs[k])]
    BY ONLY <1>8 DEF Wrapped
  <2> DEFINE G(k) == wrap_capability(bs[k])
  <2>3. G(1) = wrap_capability(c1) /\ G(2) = wrap_capability(c2) /\ G(3) = wrap_capability(c3)
        /\ G(4) = wrap_capability(c4)
    BY ONLY <2>1, Zenon
  <2> HIDE DEF G
  <2>4. [k \in 1 .. 4 |-> G(k)] = <<G(1), G(2), G(3), G(4)>>
    OBVIOUS
  <2> QED
    BY ONLY <2>2, <2>3, <2>4, Zenon DEF G, wr
<1>12. FlattenSeq(wr) = _gr_open(restart, forwarding, t)
  <2>1. /\ wrap_capability(c1) \in Seq(Byte) /\ wrap_capability(c2) \in Seq(Byte)
        /\ wrap_capability(c3) \in Seq(Byte) /\ wrap_capability(c4) \in Seq(Byte)
    BY ONLY <1>3, <1>4, <1>7, WrapIs, Zenon
  <2> DEFINE w1 == wrap_capability(c1)
             w2 == wrap_capability(c2)
             w3 == wrap_capability(c3)
             w4 == wrap_capability(c4)
             o == _gr_open(restart, forwarding, t)
  <2>2. o = (((w1 \o w2) \o w3) \o w4) \o <<>> /\ wr = <<w1, w2, w3, w4>>
    BY ONLY <1>5 DEF wr
  <2>3. w1 \in Seq(Byte) /\ w2 \in Seq(Byte) /\ w3 \in Seq(Byte) /\ w4 \in Seq(Byte)
    BY ONLY <2>1
  <2> HIDE DEF w1, w2, w3, w4, o
  <2>4. /\ wr \in Seq(Seq(Byte)) /\ Len(wr) = 4
        /\ wr[1] = w1 /\ wr[2] = w2 /\ wr[3] = w3 /\ wr[4] = w4
    BY ONLY <2>2, <2>3
  <2> HIDE DEF wr
  <2>5. FlattenSeq(wr) = (((wr[1] \o wr[2]) \o wr[3]) \o wr[4]) \o <<>>
    BY ONLY <2>4, JoinOfFour, Zenon
  <2>6. FlattenSeq(wr) = o
    BY ONLY <2>2, <2>4, <2>5, Zenon
  <2> QED
    BY ONLY <2>6 DEF o
<1> HIDE DEF bs, wr
<1> QED
  BY ONLY <1>10, <1>11, <1>12, ParametersAreAccepted

(***************************************************************************)
(* The types of what is judged                                             *)
(***************************************************************************)

(* The context of a case is one.                                           *)
LEMMA ContextIs ==
  ASSUME NEW c, InSuites(c)
  PROVE  /\ ContextOf(c) \in Context
         /\ c.builder \in DOMAIN Arguments /\ c.args \in Arguments[c.builder]
<1>1. c.builder \in DOMAIN Arguments /\ c.args \in Arguments[c.builder]
  <2>1. \A suite \in Suites : \A d \in suite :
          d.builder \in DOMAIN Arguments /\ d.args \in Arguments[d.builder]
    BY ONLY PacketsAssumption
  <2> QED
    BY <2>1, Zenon DEF InSuites
<1>2. (c.builder = "aspath" => c.args.asn_4byte) \in BOOLEAN
  OBVIOUS
<1>3. FirstAs(c) \in SUBSET Nat
  <2>1. CASE c.builder = "lab"
    <3>1. c.args \in LabArgs
      BY <1>1, <2>1 DEF Arguments
    <3>2. ASNS[c.args.peer + 1] \in Nat
      BY ONLY <3>1, LabAs
    <3>3. FirstAs(c) = {ASNS[c.args.peer + 1]}
      BY <2>1 DEF FirstAs
    <3> QED
      BY ONLY <3>2, <3>3
  <2>2. CASE c.builder # "lab"
    BY <2>2 DEF FirstAs
  <2> QED
    BY <2>1, <2>2
<1>4. ContextOf(c) \in Context
  BY <1>2, <1>3 DEF ContextOf, Context
<1> QED
  BY <1>1, <1>4

(* What is judged are attributes, as many as were built.                   *)
LEMMA JudgedIs ==
  ASSUME NEW as \in Seq(AttrRecord)
  PROVE  /\ Judged(as) \in Seq(BGPPathAttr) /\ Len(Judged(as)) = Len(as)
         /\ \A k \in 1 .. Len(as) :
              Judged(as)[k] =
                [type_code |-> as[k].type_code, optional |-> Optional(as[k].flags),
                 transitive |-> Transitive(as[k].flags), length |-> as[k].length,
                 value |-> {as[k].value}]
<1> DEFINE n == Len(as)
           J(k) == [type_code |-> as[k].type_code, optional |-> Optional(as[k].flags),
                    transitive |-> Transitive(as[k].flags), length |-> as[k].length,
                    value |-> {as[k].value}]
           x == Judged(as)
<1>1. n \in Nat /\ \A k \in 1 .. n : as[k] \in AttrRecord
  BY LenProperties, ElementOfSeq
<1>2. x = [k \in 1 .. n |-> J(k)]
  BY DEF Judged
<1> HIDE DEF x, n
<1>3. ASSUME NEW k \in 1 .. n PROVE J(k) \in BGPPathAttr
  <2>1. as[k] \in AttrRecord
    BY <1>1
  <2>2. /\ as[k].type_code \in Byte /\ as[k].length \in Nat /\ as[k].value \in Seq(Byte)
        /\ Optional(as[k].flags) \in BOOLEAN /\ Transitive(as[k].flags) \in BOOLEAN
    <3>1. as[k].type_code \in Byte /\ as[k].length \in Nat /\ as[k].value \in Seq(Byte)
      BY ONLY <2>1 DEF AttrRecord
    <3>2. \A f : Optional(f) \in BOOLEAN /\ Transitive(f) \in BOOLEAN
      BY ONLY DEF Optional, Transitive
    <3> QED
      BY ONLY <3>1, <3>2, Zenon
  <2>3. {as[k].value} \in SUBSET Seq(Byte)
    BY ONLY <2>2
  <2> QED
    BY ONLY <2>2, <2>3 DEF BGPPathAttr
<1> HIDE DEF J
<1>4. x \in [1 .. n -> BGPPathAttr] /\ \A k \in 1 .. n : x[k] = J(k)
  BY ONLY <1>2, <1>3
<1>5. x \in Seq(BGPPathAttr)
  BY ONLY <1>1, <1>4, SeqDef
<1>6. Len(x) = n
  BY ONLY <1>1, <1>4, <1>5
<1> QED
  BY ONLY <1>4, <1>5, <1>6 DEF x, n, J

(* The OPENs of the suites are accepted.                                   *)
LEMMA OpenIs ==
  ASSUME NEW c, InSuites(c), c.builder = "gr_open"
  PROVE  BuiltOpen(c) \in Seq(Byte) /\ parse_capabilities(BuiltOpen(c))
<1>1. c.args \in GrOpenArgs
  BY ContextIs DEF Arguments
<1>2. /\ c.args.gr \in BOOLEAN /\ c.args.restart \in BOOLEAN /\ c.args.forwarding \in BOOLEAN
      /\ c.args.restart_time \in RestartTimes
  BY ONLY <1>1 DEF GrOpenArgs, RestartTimes
<1>3. CASE c.args.gr
  <2>1. BuiltOpen(c) = _gr_open(c.args.restart, c.args.forwarding, c.args.restart_time)
    BY <1>3 DEF BuiltOpen
  <2> QED
    BY ONLY <1>2, <2>1, RestartIsAccepted, Zenon
<1>4. CASE ~c.args.gr
  <2>1. BuiltOpen(c) = default_opt_params
    BY <1>4 DEF BuiltOpen
  <2> QED
    BY ONLY <2>1, DefaultIsAccepted
<1> QED
  BY ONLY <1>2, <1>3, <1>4

(* The state has its type when a suite asks.                               *)
LEMMA TypeOfPackets ==
  ASSUME PInit
  PROVE  TypeOK
<1>1. <<>> \in Seq(BGPPathAttr) /\ <<>> \in Seq(Byte)
  OBVIOUS
<1>2. CASE InitBuilt
  <2>1. PICK c : /\ InSuites(c) /\ c.builder # "gr_open" /\ context = ContextOf(c)
                 /\ \E u \in Judges(c) : attrs = Judged(u.attrs)
    BY <1>2, Zenon DEF InitBuilt, InSuites
  <2>2. Received(c) = {Built(c)} /\ Built(c) \in UpdateRecord
    BY ONLY <2>1, ReadBack
  <2>3. Judges(c) = {Built(c)}
    BY ONLY <2>2 DEF Judges
  <2>4. attrs = Judged(Built(c).attrs) /\ Built(c).attrs \in Seq(AttrRecord)
    BY ONLY <2>1, <2>2, <2>3 DEF UpdateRecord
  <2>5. attrs \in Seq(BGPPathAttr)
    BY ONLY <2>4, JudgedIs
  <2>6. context \in Context
    BY ONLY <2>1, ContextIs
  <2>7. pc = "attributes" /\ opt_params = <<>> /\ i = 1 /\ seen = {} /\ final_result = "VALID"
    BY <1>2 DEF InitBuilt
  <2>8. i \in 1 .. Len(attrs) + 1
    <3>1. Len(attrs) \in Nat
      BY ONLY <2>5, LenProperties
    <3> QED
      BY ONLY <2>7, <3>1
  <2> QED
    BY ONLY <1>1, <2>5, <2>6, <2>7, <2>8 DEF TypeOK, ParseResult
<1>3. CASE InitBuiltOpen
  <2>1. PICK c : /\ InSuites(c) /\ c.builder = "gr_open" /\ context = ContextOf(c)
                 /\ opt_params = BuiltOpen(c)
    BY <1>3, Zenon DEF InitBuiltOpen, InSuites
  <2>2. opt_params \in Seq(Byte) /\ context \in Context
    BY ONLY <2>1, OpenIs, ContextIs
  <2>3. pc = "open" /\ attrs = <<>> /\ i = 1 /\ seen = {} /\ final_result = "VALID"
    BY <1>3 DEF InitBuiltOpen
  <2>4. i \in 1 .. Len(attrs) + 1
    <3>1. Len(attrs) = 0
      BY ONLY <2>3
    <3> QED
      BY ONLY <2>3, <3>1
  <2> QED
    BY ONLY <1>1, <2>2, <2>3, <2>4 DEF TypeOK, ParseResult
<1>4. CASE Init /\ case = {}
  BY <1>4, TypeFirst
<1> QED
  BY <1>2, <1>3, <1>4 DEF PInit

(* The invariants of the oracle, of what the suites and the lab ask.       *)
PInv == TypeOK /\ SevereSoFar /\ OpenVerdict /\ CaseInv

(* They hold when it is asked.                                             *)
LEMMA PacketsFirst ==
  ASSUME PInit
  PROVE  PInv
<1>1. pc \in {"attributes", "open"} /\ i = 1 /\ seen = {} /\ final_result = "VALID"
  BY DEF PInit, InitBuilt, InitBuiltOpen, Init, InitUpdate, InitOpen
<1>2. OpenVerdict
  BY <1>1 DEF OpenVerdict
<1> QED
  BY <1>1, <1>2, TypeOfPackets, CaseFirst, SevereFirst DEF PInv

(* Each step keeps them.                                                   *)
LEMMA PacketsStep ==
  ASSUME PInv, [Next /\ UNCHANGED case]_pvars
  PROVE  PInv'
<1>1. [Next]_vars
  BY DEF pvars
<1>2. TypeOK' /\ SevereSoFar' /\ OpenVerdict'
  BY <1>1, TypeStep, SevereStep, OpenStep DEF PInv
<1>3. CaseInv'
  BY CaseStep DEF PInv
<1> QED
  BY <1>2, <1>3 DEF PInv

(* What holds of every verdict holds of the verdicts on what the suites,   *)
(* the lab and the graceful-restart runners send (parse_attributes and     *)
(* parse_capabilities).                                                    *)
THEOREM PacketsAreJudged ==
  PSpec => [](/\ TypeOK /\ VerdictIsMostSevere /\ OnlyDuplicatesReset
              /\ VerdictIsRequired /\ OpenVerdict)
<1>1. PInv => /\ TypeOK /\ VerdictIsMostSevere /\ OnlyDuplicatesReset
              /\ VerdictIsRequired /\ OpenVerdict
  BY OnlyDuplicates, VerdictAsRequired DEF PInv, SevereSoFar
<1> QED
  BY <1>1, PacketsFirst, PacketsStep, PTL DEF PSpec

(***************************************************************************)
(* The verdicts on the packets of the lab and of the restarts              *)
(***************************************************************************)

(* If each type comes once, the mandatory ones among them, and what is     *)
(* wrong withdraws, then the verdict says whether something is wrong.      *)
LEMMA VerdictOfDistinct ==
  ASSUME TypeOK, VerdictIsMostSevere, pc = "update_done",
         \A k \in 1 .. Len(attrs) : First(k),
         {ORIGIN, AS_PATH, NEXT_HOP} \subseteq Present,
         NEW wrong \in BOOLEAN,
         \A k \in 1 .. Len(attrs) : AttributeFaults(attrs[k], context) \subseteq Withdraw(wrong),
         wrong => \E k \in 1 .. Len(attrs) :
                    AttributeFaults(attrs[k], context) = Withdraw(TRUE)
  PROVE  final_result = IF wrong THEN "TREAT_AS_WITHDRAW" ELSE "VALID"
<1> DEFINE faults == FaultsUpTo(Len(attrs))
           missing == MissingFaults(Present, context)
<1>1. missing = {}
  BY DEF MissingFaults, Withdraw, Fault
<1>2. \A b : Withdraw(b) = IF b THEN {"TREAT_AS_WITHDRAW"} ELSE {}
  BY DEF Withdraw, Fault
<1>3. faults = IF wrong THEN {"TREAT_AS_WITHDRAW"} ELSE {}
  <2>1. \A r : r \in faults <=> \E k \in 1 .. Len(attrs) : r \in AttributeFaults(attrs[k], context)
    BY DEF FaultsUpTo
  <2> HIDE DEF faults
  <2>2. CASE wrong
    <3>1. Withdraw(wrong) = {"TREAT_AS_WITHDRAW"} /\ Withdraw(TRUE) = {"TREAT_AS_WITHDRAW"}
      BY <1>2, <2>2
    <3>2. faults \subseteq {"TREAT_AS_WITHDRAW"}
      <4>1. \A k \in 1 .. Len(attrs) :
              AttributeFaults(attrs[k], context) \subseteq {"TREAT_AS_WITHDRAW"}
        BY <3>1
      <4> QED
        BY ONLY <2>1, <4>1
    <3>3. "TREAT_AS_WITHDRAW" \in faults
      <4>1. PICK k \in 1 .. Len(attrs) : AttributeFaults(attrs[k], context) = Withdraw(TRUE)
        BY <2>2
      <4> QED
        BY ONLY <2>1, <3>1, <4>1
    <3> QED
      BY ONLY <2>2, <3>2, <3>3
  <2>3. CASE ~wrong
    <3>1. Withdraw(wrong) = {}
      BY <1>2, <2>3
    <3>2. faults = {}
      BY <2>1, <3>1
    <3> QED
      BY ONLY <2>3, <3>2
  <2> QED
    BY <2>2, <2>3
<1>4. IsMostSevere(final_result, faults \cup missing)
  BY DEF VerdictIsMostSevere
<1> HIDE DEF faults, missing
<1>5. Severity("TREAT_AS_WITHDRAW") = 3 /\ Severity("VALID") = 6
  BY DEF Severity
<1> QED
  BY ONLY <1>1, <1>3, <1>4, <1>5, wrong \in BOOLEAN DEF IsMostSevere

(* An attribute as it is judged that was built with these flags.           *)
JudgedAs(t, flags, v) ==
  [type_code |-> t, optional |-> Optional(flags), transitive |-> Transitive(flags),
   length |-> Len(v), value |-> {v}]

(* The flags of well-known attributes and of communities.                  *)
LEMMA FlagsAre ==
  /\ Optional(64) = FALSE /\ Transitive(64) = TRUE
  /\ Optional(192) = TRUE /\ Transitive(192) = TRUE
<1>1. (64 \div 64) % 2 = 1 /\ (192 \div 64) % 2 = 1
  OBVIOUS
<1> QED
  BY <1>1 DEF Optional, Transitive

(* The faults of an ORIGIN, an AS_PATH, a NEXT_HOP and a COMMUNITIES       *)
(* attribute with the flags that they require.                             *)
LEMMA FaultsOfOrigin ==
  ASSUME NEW c, NEW v, Len(v) = 1, v[1] \in Nat
  PROVE  AttributeFaults(JudgedAs(1, 64, v), c) = Withdraw(v[1] > 2)
<1> DEFINE a == JudgedAs(1, 64, v)
<1>1. /\ a.type_code = 1 /\ a.optional = FALSE /\ a.transitive = TRUE /\ a.length = Len(v)
      /\ a.value = {v}
  BY FlagsAre DEF JudgedAs
<1> HIDE DEF a
<1>2. WellKnown(a) /\ a.length = 1
  BY <1>1 DEF WellKnown
<1>3. AttributeFaults(a, c) = Mandatory(a, c)
  BY ONLY <1>1 DEF AttributeFaults, ORIGIN, AS_PATH, NEXT_HOP, MP_REACH, MP_UNREACH
<1>4. Mandatory(a, c) =
        Withdraw(~WellKnown(a) \/ a.length # 1 \/ \E w \in a.value : Len(w) < 1 \/ w[1] > 2)
  BY ONLY <1>1 DEF Mandatory, ORIGIN, AS_PATH, NEXT_HOP
<1>5. (~WellKnown(a) \/ a.length # 1 \/ \E w \in a.value : Len(w) < 1 \/ w[1] > 2) <=> v[1] > 2
  <2>1. ~(Len(v) < 1)
    BY ONLY Len(v) = 1
  <2>2. \A w : w \in a.value <=> w = v
    BY ONLY <1>1
  <2> QED
    BY ONLY <1>2, <2>1, <2>2, Zenon
<1>6. Mandatory(a, c) = Withdraw(v[1] > 2)
  BY ONLY <1>4, <1>5 DEF Withdraw, Fault
<1> QED
  BY ONLY <1>3, <1>6 DEF a

(* The faults of an AS_PATH.                                               *)
LEMMA FaultsOfPath ==
  ASSUME NEW c, NEW v
  PROVE  AttributeFaults(JudgedAs(2, 64, v), c) = Withdraw(~Path(v, AsnSize(c), c))
<1> DEFINE a == JudgedAs(2, 64, v)
<1>1. a.type_code = 2 /\ a.optional = FALSE /\ a.transitive = TRUE /\ a.value = {v}
  BY FlagsAre DEF JudgedAs
<1> HIDE DEF a
<1>2. WellKnown(a)
  BY <1>1 DEF WellKnown
<1>3. AttributeFaults(a, c) = Mandatory(a, c)
  BY ONLY <1>1 DEF AttributeFaults, ORIGIN, AS_PATH, NEXT_HOP, MP_REACH, MP_UNREACH
<1>4. Mandatory(a, c) =
        Withdraw(~WellKnown(a) \/ \E w \in a.value : ~Path(w, AsnSize(c), c))
  BY ONLY <1>1 DEF Mandatory, ORIGIN, AS_PATH, NEXT_HOP
<1>5. (~WellKnown(a) \/ \E w \in a.value : ~Path(w, AsnSize(c), c)) <=> ~Path(v, AsnSize(c), c)
  BY ONLY <1>1, <1>2
<1>6. Mandatory(a, c) = Withdraw(~Path(v, AsnSize(c), c))
  BY ONLY <1>4, <1>5 DEF Withdraw, Fault
<1> QED
  BY ONLY <1>3, <1>6 DEF a

(* The faults of a NEXT_HOP.                                               *)
LEMMA FaultsOfNextHop ==
  ASSUME NEW c, NEW v, Len(v) = 4, ~Martian(v)
  PROVE  AttributeFaults(JudgedAs(3, 64, v), c) = {}
<1> DEFINE a == JudgedAs(3, 64, v)
<1>1. /\ a.type_code = 3 /\ a.optional = FALSE /\ a.transitive = TRUE /\ a.length = 4
      /\ a.value = {v}
  BY FlagsAre DEF JudgedAs
<1> HIDE DEF a
<1>2. WellKnown(a)
  BY <1>1 DEF WellKnown
<1>3. AttributeFaults(a, c) = Mandatory(a, c)
  BY ONLY <1>1 DEF AttributeFaults, ORIGIN, AS_PATH, NEXT_HOP, MP_REACH, MP_UNREACH
<1>4. Mandatory(a, c) =
        Withdraw(~WellKnown(a) \/ a.length # 4 \/ \E w \in a.value : Len(w) = 4 /\ Martian(w))
  BY ONLY <1>1 DEF Mandatory, ORIGIN, AS_PATH, NEXT_HOP
<1>5. ~(~WellKnown(a) \/ a.length # 4 \/ \E w \in a.value : Len(w) = 4 /\ Martian(w))
  BY ONLY <1>1, <1>2, ~Martian(v)
<1>6. Mandatory(a, c) = {}
  BY ONLY <1>4, <1>5 DEF Withdraw, Fault
<1> QED
  BY ONLY <1>3, <1>6 DEF a

(* The faults of a COMMUNITIES attribute.                                  *)
LEMMA FaultsOfCommunities ==
  ASSUME NEW c, NEW v, Len(v) = 4
  PROVE  AttributeFaults(JudgedAs(8, 192, v), c) = {}
<1> DEFINE a == JudgedAs(8, 192, v)
<1>1. a.type_code = 8 /\ a.optional = TRUE /\ a.transitive = TRUE /\ a.length = 4
  BY FlagsAre DEF JudgedAs
<1> HIDE DEF a
<1>2. OptionalTransitive(a) /\ Multiple(a, 4)
  <2>1. 4 % 4 = 0
    OBVIOUS
  <2> QED
    BY <1>1, <2>1 DEF OptionalTransitive, Multiple
<1>3. AttributeFaults(a, c) = Withdraw(~OptionalTransitive(a) \/ ~Multiple(a, 4))
  BY ONLY <1>1 DEF AttributeFaults, ORIGIN, AS_PATH, NEXT_HOP, MP_REACH, MP_UNREACH
<1>4. AttributeFaults(a, c) = {}
  BY ONLY <1>2, <1>3 DEF Withdraw, Fault
<1> QED
  BY ONLY <1>4 DEF a

(* The AS numbers of a path, of which the first one is asn, and the count  *)
(* that is put before them.                                                *)
AsNumbers(n, count, path, asn) ==
  /\ n \in Nat /\ n >= 1 /\ count \in Byte /\ count >= n
  /\ path \in Seq(Byte) /\ Len(path) = n * 4
  /\ path[1] = 0 /\ path[2] = 0 /\ path[3] * 256 + path[4] = asn

(* A path of one sequence is accepted just when its count is the number of *)
(* its AS numbers, if it begins with the AS that is enforced               *)
(* (scan_as_path).                                                         *)
LEMMA SequenceIsScanned ==
  ASSUME NEW n, NEW count, NEW path, NEW asn, AsNumbers(n, count, path, asn)
  PROVE  LET v == <<2, count>> \o path
         IN  /\ v \in Seq(Byte) /\ Len(v) = 2 + n * 4 /\ v[1] = 2 /\ v[2] = count
             /\ scan_as_path(v, 4, FALSE, {asn}) <=> count = n
<1> DEFINE h == <<2, count>>
           v == h \o path
           S == Scan(v, 4, FALSE)
<1>0. /\ n \in Nat /\ n >= 1 /\ count \in Byte /\ count >= n
      /\ path \in Seq(Byte) /\ Len(path) = n * 4
      /\ path[1] = 0 /\ path[2] = 0 /\ path[3] * 256 + path[4] = asn
  BY DEF AsNumbers
<1>1. count \in Nat /\ count >= 1 /\ n * 4 \in Nat /\ n * 4 >= 4
  <2>1. count \in Nat
    BY ONLY <1>0, ByteIs, Zenon
  <2> QED
    BY ONLY <1>0, <2>1
<1>2. h \in Seq(Byte) /\ Len(h) = 2 /\ h[1] = 2 /\ h[2] = count
  <2>1. 2 \in Byte
    BY ONLY ByteIs
  <2> QED
    BY ONLY <1>0, <2>1
<1> HIDE DEF h
<1>3. /\ v \in Seq(Byte) /\ Len(v) = Len(h) + Len(path)
      /\ \A p \in 1 .. Len(h) : v[p] = h[p]
      /\ \A p \in 1 .. Len(path) : v[Len(h) + p] = path[p]
  BY ONLY <1>0, <1>2, JoinOfTwo
<1> HIDE DEF v
<1>4. Len(v) = 2 + n * 4 /\ v[1] = 2 /\ v[2] = count
  <2>1. 1 \in 1 .. 2 /\ 2 \in 1 .. 2
    OBVIOUS
  <2> QED
    BY ONLY <1>0, <1>2, <1>3, <2>1
<1>5. v[3] = path[1] /\ v[4] = path[2] /\ v[5] = path[3] /\ v[6] = path[4]
  <2>1. /\ 1 \in 1 .. Len(path) /\ 2 \in 1 .. Len(path) /\ 3 \in 1 .. Len(path)
        /\ 4 \in 1 .. Len(path)
    BY ONLY <1>0, <1>1
  <2>2. 2 + 1 = 3 /\ 2 + 2 = 4 /\ 2 + 3 = 5 /\ 2 + 4 = 6
    OBVIOUS
  <2>3. /\ v[2 + 1] = path[1] /\ v[2 + 2] = path[2] /\ v[2 + 3] = path[3]
        /\ v[2 + 4] = path[4]
    BY ONLY <1>2, <1>3, <2>1, Zenon
  <2> QED
    BY ONLY <2>2, <2>3
<1>6. FirstAsEnforced(v, 4, {asn})
  <2> DEFINE s == SubSeq(v, 3, 2 + 4)
  <2>1. s \in Seq(Byte) /\ Len(s) = 4 /\ s[1] = v[3] /\ s[2] = v[4] /\ s[3] = v[5] /\ s[4] = v[6]
    <3>1. \A p \in 3 .. 6 : v[p] \in Byte
      <4>1. \A p \in 3 .. 6 : p \in 1 .. Len(v)
        BY ONLY <1>1, <1>4
      <4> QED
        BY ONLY <1>3, <4>1, ElementOfSeq
    <3>2. /\ SubSeq(v, 3, 6) \in Seq(Byte)
          /\ Len(SubSeq(v, 3, 6)) = IF 3 <= 6 THEN 6 - 3 + 1 ELSE 0
          /\ \A p \in 1 .. 6 - 3 + 1 : SubSeq(v, 3, 6)[p] = v[3 + p - 1]
      BY ONLY <3>1, SubSeqProperties
    <3>3. 2 + 4 = 6
      OBVIOUS
    <3>4. s = SubSeq(v, 3, 6)
      BY ONLY <3>3 DEF s
    <3> HIDE DEF s
    <3> QED
      BY ONLY <3>2, <3>4
  <2> HIDE DEF s
  <2>2. Number(s) = s[3] * 256 + s[4]
    BY ONLY <1>0, <1>5, <2>1, NumberOfFour
  <2>3. Number(s) = asn
    BY ONLY <1>0, <1>5, <2>1, <2>2
  <2>4. Len(v) >= 2 + 4 /\ v[2] # 0
    BY ONLY <1>1, <1>4
  <2> QED
    BY ONLY <1>4, <2>3, <2>4, Zenon DEF FirstAsEnforced, s
<1>7. \A s \in 0 .. Len(v) : S[s] = ScanBody(v, 4, FALSE, S, s)
  BY ONLY <1>3, ScanWorks
<1> HIDE DEF S
<1>8. S[0] <=> 2 + count * 4 <= Len(v) /\ S[2 + count * 4]
  <2>1. 0 \in 0 .. Len(v) /\ 0 # Len(v) /\ 0 + 2 <= Len(v) /\ 0 + 1 = 1 /\ 0 + 2 = 2
    BY ONLY <1>1, <1>4
  <2>2. v[1] \in 1 .. 4 /\ v[1] \notin {3, 4} /\ v[2] # 0
    BY ONLY <1>1, <1>4
  <2>3. S[0] <=> LET next == 0 + 2 + v[0 + 2] * 4 IN next <= Len(v) /\ S[next]
    <3>1. S[0] = ScanBody(v, 4, FALSE, S, 0)
      BY ONLY <1>7, <2>1
    <3>2. ScanBody(v, 4, FALSE, S, 0) <=>
            LET next == 0 + 2 + v[0 + 2] * 4 IN next <= Len(v) /\ S[next]
      BY ONLY <2>1, <2>2, Zenon DEF ScanBody
    <3> QED
      BY ONLY <3>1, <3>2, Zenon
  <2>4. 0 + 2 + v[0 + 2] * 4 = 2 + count * 4
    BY ONLY <1>4, <2>1
  <2> QED
    BY ONLY <2>3, <2>4
<1>9. CASE count = n
  <2>1. 2 + count * 4 = Len(v) /\ Len(v) \in 0 .. Len(v)
    BY ONLY <1>1, <1>4, <1>9
  <2>2. S[Len(v)]
    BY ONLY <1>7, <2>1 DEF ScanBody
  <2>3. S[0]
    BY ONLY <1>4, <1>8, <2>1, <2>2
  <2>4. scan_as_path(v, 4, FALSE, {asn}) <=> FirstAsEnforced(v, 4, {asn}) /\ S[0]
    BY DEF scan_as_path, S, Scan, ScanBody
  <2>5. scan_as_path(v, 4, FALSE, {asn})
    BY ONLY <1>6, <2>3, <2>4
  <2> QED
    BY <1>2, <1>3, <1>4, <1>9, <2>5 DEF v, h
<1>10. CASE count # n
  <2>1. ~(2 + count * 4 <= Len(v))
    BY ONLY <1>0, <1>1, <1>4, <1>10
  <2>2. ~S[0]
    BY ONLY <1>8, <2>1
  <2>4. scan_as_path(v, 4, FALSE, {asn}) <=> FirstAsEnforced(v, 4, {asn}) /\ S[0]
    BY DEF scan_as_path, S, Scan, ScanBody
  <2>5. ~scan_as_path(v, 4, FALSE, {asn})
    BY ONLY <2>2, <2>4
  <2> QED
    BY <1>2, <1>3, <1>4, <1>10, <2>5 DEF v, h
<1> QED
  BY <1>9, <1>10

(* What update makes of an event that is no withdrawal.                    *)
LabOrigin(e) == <<IF e.kind = "bad_origin" THEN 3 ELSE e.origin>>
LabValue(e) == <<2, PathCount(e)>> \o LabPath(e)
LabHop(e) == <<192, 0, 2, e.peer + 2>>
LabAttrs(e) ==
  <<PathAttr(64, 1, LabOrigin(e)), PathAttr(64, 2, LabValue(e)), PathAttr(64, 3, LabHop(e))>>

(* It is three attributes.                                                 *)
LEMMA LabBuilds ==
  ASSUME NEW e, e.kind # "withdraw"
  PROVE  update(e) = AnUpdate(<<>>, LabAttrs(e), lab_nlri(e.prefix))
BY DEF update, LabAttrs, LabOrigin, LabValue, LabHop, LabPath

(* They are judged with the flags they were built with.                    *)
LEMMA LabJudged ==
  ASSUME NEW e
  PROVE  LET js == Judged(LabAttrs(e))
         IN  /\ Len(js) = 3 /\ js[1] = JudgedAs(1, 64, LabOrigin(e))
             /\ js[2] = JudgedAs(2, 64, LabValue(e)) /\ js[3] = JudgedAs(3, 64, LabHop(e))
<1> DEFINE as == LabAttrs(e)
           J(k) == [type_code |-> as[k].type_code, optional |-> Optional(as[k].flags),
                    transitive |-> Transitive(as[k].flags), length |-> as[k].length,
                    value |-> {as[k].value}]
<1>1. /\ Len(as) = 3 /\ as[1] = PathAttr(64, 1, LabOrigin(e))
      /\ as[2] = PathAttr(64, 2, LabValue(e)) /\ as[3] = PathAttr(64, 3, LabHop(e))
  BY DEF LabAttrs
<1>2. Judged(as) = [k \in 1 .. Len(as) |-> J(k)]
  BY DEF Judged
<1> HIDE DEF as
<1>4. /\ J(1) = JudgedAs(1, 64, LabOrigin(e)) /\ J(2) = JudgedAs(2, 64, LabValue(e))
      /\ J(3) = JudgedAs(3, 64, LabHop(e))
  <2>1. ASSUME NEW k, NEW t, NEW v, as[k] = PathAttr(64, t, v)
        PROVE  J(k) = JudgedAs(t, 64, v)
    <3>1. as[k].type_code = t /\ as[k].flags = 64 /\ as[k].length = Len(v) /\ as[k].value = v
      BY ONLY <2>1 DEF PathAttr
    <3> QED
      BY ONLY <3>1, Zenon DEF JudgedAs, J
  <2> HIDE DEF J
  <2>2. J(1) = JudgedAs(1, 64, LabOrigin(e))
    <3>1. as[1] = PathAttr(64, 1, LabOrigin(e))
      BY ONLY <1>1
    <3> QED
      BY ONLY <2>1, <3>1, Zenon
  <2>3. J(2) = JudgedAs(2, 64, LabValue(e))
    <3>1. as[2] = PathAttr(64, 2, LabValue(e))
      BY ONLY <1>1
    <3> QED
      BY ONLY <2>1, <3>1, Zenon
  <2>4. J(3) = JudgedAs(3, 64, LabHop(e))
    <3> DEFINE three == 3
               v == LabHop(e)
    <3>1. as[three] = PathAttr(64, three, v)
      BY ONLY <1>1
    <3> HIDE DEF three, v
    <3>2. J(three) = JudgedAs(three, 64, v)
      BY ONLY <2>1, <3>1, Zenon
    <3> QED
      BY ONLY <3>2 DEF three, v
  <2> QED
    BY ONLY <2>2, <2>3, <2>4
<1> HIDE DEF J
<1> DEFINE js == Judged(as)
<1>5. js = [k \in 1 .. 3 |-> J(k)]
  BY ONLY <1>1, <1>2
<1> HIDE DEF js
<1>6. Len(js) = 3 /\ js[1] = J(1) /\ js[2] = J(2) /\ js[3] = J(3)
  <2>1. js \in Seq({J(1), J(2), J(3)}) /\ DOMAIN js = 1 .. 3
    <3>1. \A k \in 1 .. 3 : J(k) \in {J(1), J(2), J(3)}
      <4>1. \A k \in 1 .. 3 : k = 1 \/ k = 2 \/ k = 3
        OBVIOUS
      <4> QED
        BY ONLY <4>1
    <3>2. js \in [1 .. 3 -> {J(1), J(2), J(3)}] /\ 3 \in Nat
      BY ONLY <1>5, <3>1
    <3> QED
      BY ONLY <3>2, SeqDef
  <2>2. 1 \in 1 .. 3 /\ 2 \in 1 .. 3 /\ 3 \in 1 .. 3
    OBVIOUS
  <2>3. js[1] = J(1) /\ js[2] = J(2) /\ js[3] = J(3)
    BY ONLY <1>5, <2>2, Zenon
  <2>4. Len(js) = 3
    BY ONLY <2>1
  <2> QED
    BY ONLY <2>3, <2>4
<1> QED
  BY ONLY <1>4, <1>6 DEF js, as

(* The path of an event repeats the number of its AS.                      *)
LEMMA LabPathIs ==
  ASSUME NEW e \in LabArgs
  PROVE  /\ LabPath(e) \in Seq(Byte) /\ Len(LabPath(e)) = e.length * 4
         /\ \A k \in 1 .. e.length * 4 :
              LabPath(e)[k] = (Word(0) \o Word(ASNS[e.peer + 1]))[1 + ((k - 1) % 4)]
<1> DEFINE asn == ASNS[e.peer + 1]
           b == Word(0) \o Word(asn)
<1>1. b \in Seq(Byte) /\ Len(b) = 4 /\ e.length \in Nat
  BY LabAs
<1> HIDE DEF b, asn
<1>2. Len(b) \in {2, 4}
  BY ONLY <1>1
<1>3. /\ Copies(b, e.length) \in Seq(Byte)
      /\ Len(Copies(b, e.length)) = e.length * Len(b)
      /\ \A k \in 1 .. e.length * Len(b) :
           Copies(b, e.length)[k] = b[1 + ((k - 1) % Len(b))]
  BY ONLY <1>1, <1>2, CopiesAre
<1>4. LabPath(e) = Copies(b, e.length)
  BY DEF LabPath, b, asn
<1> QED
  BY ONLY <1>1, <1>3, <1>4 DEF b, asn

(* The verdict on an event is the one the lab expects                      *)
(* (expected_verdict).                                                     *)
LEMMA LabVerdict ==
  ASSUME TypeOK, VerdictIsMostSevere, pc = "update_done",
         NEW e \in LabArgs, e.kind # "withdraw", PathCount(e) \in Byte,
         attrs = Judged(LabAttrs(e)), context.asn_4byte, context.allow_confed = FALSE,
         context.enforce_first_as = {ASNS[e.peer + 1]}
  PROVE  final_result = expected_verdict(e)
<1> DEFINE wrong == e.kind # "announce"
           asn == ASNS[e.peer + 1]
           b == Word(0) \o Word(asn)
<1>1. /\ e.peer \in 0 .. 2 /\ e.length \in Nat /\ e.length >= 1 /\ e.origin \in 0 .. 2
      /\ e.kind \in {"announce", "withdraw", "bad_origin", "bad_aspath"}
      /\ e.kind # "announce" => e.length = 1
      /\ b \in Seq(Byte) /\ Len(b) = 4 /\ b[1] = 0 /\ b[2] = 0 /\ b[3] * 256 + b[4] = asn
  BY LabAs
<1>2. /\ Len(attrs) = 3 /\ attrs[1] = JudgedAs(1, 64, LabOrigin(e))
      /\ attrs[2] = JudgedAs(2, 64, LabValue(e)) /\ attrs[3] = JudgedAs(3, 64, LabHop(e))
  BY ONLY LabJudged, attrs = Judged(LabAttrs(e))
<1> HIDE DEF b, asn
<1>3. AttributeFaults(attrs[1], context) = Withdraw(e.kind = "bad_origin")
  <2> DEFINE v == LabOrigin(e)
  <2>1. /\ Len(v) = 1 /\ v[1] = IF e.kind = "bad_origin" THEN 3 ELSE e.origin
    BY DEF LabOrigin
  <2> HIDE DEF v
  <2>2. v[1] \in Nat /\ (v[1] > 2 <=> e.kind = "bad_origin")
    BY ONLY <1>1, <2>1
  <2>3. AttributeFaults(JudgedAs(1, 64, v), context) = Withdraw(v[1] > 2)
    BY ONLY <2>1, <2>2, FaultsOfOrigin
  <2>4. Withdraw(v[1] > 2) = Withdraw(e.kind = "bad_origin")
    BY ONLY <2>2 DEF Withdraw, Fault
  <2> QED
    BY ONLY <1>2, <2>3, <2>4 DEF v
<1>4. AttributeFaults(attrs[2], context) = Withdraw(e.kind = "bad_aspath")
  <2> DEFINE path == LabPath(e)
             count == PathCount(e)
             v == <<2, count>> \o path
  <2>1. path \in Seq(Byte) /\ Len(path) = e.length * 4
        /\ \A k \in 1 .. e.length * 4 : path[k] = b[1 + ((k - 1) % 4)]
    BY ONLY <1>1, LabPathIs, e \in LabArgs DEF path, b, asn
  <2> HIDE DEF path
  <2>2. path[1] = 0 /\ path[2] = 0 /\ path[3] * 256 + path[4] = asn
    <3>1. /\ 1 \in 1 .. e.length * 4 /\ 2 \in 1 .. e.length * 4 /\ 3 \in 1 .. e.length * 4
          /\ 4 \in 1 .. e.length * 4
      BY ONLY <1>1
    <3>2. /\ 1 + ((1 - 1) % 4) = 1 /\ 1 + ((2 - 1) % 4) = 2 /\ 1 + ((3 - 1) % 4) = 3
          /\ 1 + ((4 - 1) % 4) = 4
      OBVIOUS
    <3>3. path[1] = b[1] /\ path[2] = b[2] /\ path[3] = b[3] /\ path[4] = b[4]
      BY ONLY <2>1, <3>1, <3>2
    <3> QED
      BY ONLY <1>1, <3>3
  <2>3. count \in Byte /\ count >= e.length /\ (count = e.length <=> e.kind # "bad_aspath")
    BY <1>1 DEF PathCount
  <2> HIDE DEF count
  <2>4. scan_as_path(v, 4, FALSE, {asn}) <=> count = e.length
    <3>1. AsNumbers(e.length, count, path, asn)
      BY ONLY <1>1, <2>1, <2>2, <2>3 DEF AsNumbers
    <3> QED
      BY ONLY <3>1, SequenceIsScanned
  <2> HIDE DEF v
  <2>5. Path(v, AsnSize(context), context) <=> scan_as_path(v, 4, FALSE, {asn})
    <3>1. AsnSize(context) = 4
      BY ONLY context.asn_4byte DEF AsnSize
    <3>2. context.allow_confed = FALSE /\ context.enforce_first_as = {asn}
      BY DEF asn
    <3> QED
      BY ONLY <3>1, <3>2 DEF Path
  <2>6. AttributeFaults(JudgedAs(2, 64, v), context) = Withdraw(~Path(v, AsnSize(context), context))
    BY ONLY FaultsOfPath
  <2>7. Withdraw(~Path(v, AsnSize(context), context)) = Withdraw(e.kind = "bad_aspath")
    BY ONLY <2>3, <2>4, <2>5 DEF Withdraw, Fault
  <2>8. v = LabValue(e)
    BY DEF v, LabValue, count, path
  <2> QED
    BY ONLY <1>2, <2>6, <2>7, <2>8
<1>5. AttributeFaults(attrs[3], context) = {}
  <2> DEFINE v == LabHop(e)
  <2>1. Len(v) = 4 /\ v[1] = 192
    BY DEF LabHop
  <2> HIDE DEF v
  <2>2. ~Martian(v)
    <3>1. v # <<0, 0, 0, 0>>
      BY ONLY <2>1
    <3> QED
      BY ONLY <2>1, <3>1 DEF Martian
  <2> QED
    BY ONLY <1>2, <2>1, <2>2, FaultsOfNextHop DEF v
<1>6. attrs[1].type_code = 1 /\ attrs[2].type_code = 2 /\ attrs[3].type_code = 3
  BY ONLY <1>2 DEF JudgedAs
<1>7. \A k \in 1 .. Len(attrs) : k = 1 \/ k = 2 \/ k = 3
  BY ONLY <1>2
<1>8. \A k \in 1 .. Len(attrs) : First(k)
  <2>1. /\ \A j \in 1 .. 1 - 1 : FALSE
        /\ \A j \in 1 .. 2 - 1 : j = 1
        /\ \A j \in 1 .. 3 - 1 : j = 1 \/ j = 2
    OBVIOUS
  <2>2. First(1) /\ First(2) /\ First(3)
    BY ONLY <1>6, <2>1 DEF First
  <2> QED
    BY ONLY <1>7, <2>2
<1>9. {ORIGIN, AS_PATH, NEXT_HOP} \subseteq Present
  <2>1. 1 \in 1 .. Len(attrs) /\ 2 \in 1 .. Len(attrs) /\ 3 \in 1 .. Len(attrs)
    BY ONLY <1>2
  <2> QED
    BY ONLY <1>6, <2>1 DEF Present, ORIGIN, AS_PATH, NEXT_HOP
<1>10. /\ wrong \in BOOLEAN
       /\ \A k \in 1 .. Len(attrs) : AttributeFaults(attrs[k], context) \subseteq Withdraw(wrong)
       /\ wrong => \E k \in 1 .. Len(attrs) :
                     AttributeFaults(attrs[k], context) = Withdraw(TRUE)
  <2>1. \A p : Withdraw(p) = IF p THEN {"TREAT_AS_WITHDRAW"} ELSE {}
    BY ONLY DEF Withdraw, Fault
  <2>2. 1 \in 1 .. Len(attrs) /\ 2 \in 1 .. Len(attrs)
    BY ONLY <1>2
  <2>3. CASE e.kind = "announce"
    BY ONLY <1>3, <1>4, <1>5, <1>7, <2>1, <2>3
  <2>4. CASE e.kind = "bad_origin"
    BY ONLY <1>3, <1>4, <1>5, <1>7, <2>1, <2>2, <2>4
  <2>5. CASE e.kind = "bad_aspath"
    BY ONLY <1>3, <1>4, <1>5, <1>7, <2>1, <2>2, <2>5
  <2> QED
    BY ONLY <1>1, <2>3, <2>4, <2>5, e.kind # "withdraw"
<1> HIDE DEF wrong
<1>11. final_result = IF wrong THEN "TREAT_AS_WITHDRAW" ELSE "VALID"
  BY <1>8, <1>9, <1>10, VerdictOfDistinct, Zenon
<1> QED
  BY ONLY <1>11, e.kind # "withdraw" DEF wrong, expected_verdict

(* An event of the lab is made of its fields, and a withdrawal is its own. *)
LEMMA EventOfLab ==
  ASSUME NEW e \in LabArgs
  PROVE  /\ e = Event(e.kind, e, e.length, e.origin)
         /\ e.kind = "withdraw" => e = Withdrawal(e)
<1> DEFINE P == 0 .. 2
           L == Nat \ {0}
           K == {"withdraw", "bad_origin", "bad_aspath"}
<1>1. \/ e \in [kind : {"announce"}, peer : P, prefix : Byte, length : L, origin : P]
      \/ e \in [kind : K, peer : P, prefix : Byte, length : {1}, origin : {0}]
  BY DEF LabArgs
<1> HIDE DEF P, L, K
<1>2. CASE e \in [kind : {"announce"}, peer : P, prefix : Byte, length : L, origin : P]
  <2>1. e = Event(e.kind, e, e.length, e.origin) /\ e.kind \in {"announce"}
    BY ONLY <1>2 DEF Event
  <2> QED
    BY ONLY <2>1
<1>3. CASE e \in [kind : K, peer : P, prefix : Byte, length : {1}, origin : {0}]
  <2>1. /\ e = Event(e.kind, e, e.length, e.origin)
        /\ e.length \in {1} /\ e.origin \in {0}
    BY ONLY <1>3 DEF Event
  <2>2. e.length = 1 /\ e.origin = 0
    BY ONLY <2>1
  <2> QED
    BY ONLY <2>1, <2>2 DEF Withdrawal
<1> QED
  BY <1>1, <1>2, <1>3

(* The attribute of one of three types is found.                           *)
LEMMA ValueOfThree ==
  ASSUME NEW x, NEW y, NEW z
  PROVE  LET as == <<PathAttr(64, 1, x), PathAttr(64, 2, y), PathAttr(64, 3, z)>>
         IN  AttrValue(as, 1) = x /\ AttrValue(as, 2) = y
<1> DEFINE as == <<PathAttr(64, 1, x), PathAttr(64, 2, y), PathAttr(64, 3, z)>>
<1>1. /\ \A a : a \in Range(as) <=> a = as[1] \/ a = as[2] \/ a = as[3]
      /\ as[1] = PathAttr(64, 1, x) /\ as[2] = PathAttr(64, 2, y) /\ as[3] = PathAttr(64, 3, z)
  <2>1. DOMAIN as = 1 .. 3
    OBVIOUS
  <2>2. \A k : k \in 1 .. 3 <=> k = 1 \/ k = 2 \/ k = 3
    OBVIOUS
  <2>3. as[1] = PathAttr(64, 1, x) /\ as[2] = PathAttr(64, 2, y) /\ as[3] = PathAttr(64, 3, z)
    OBVIOUS
  <2> HIDE DEF as
  <2> QED
    BY ONLY <2>1, <2>2, <2>3, Zenon DEF Range
<1> HIDE DEF as
<1>2. /\ as[1].type_code = 1 /\ as[2].type_code = 2 /\ as[3].type_code = 3
      /\ as[1].value = x /\ as[2].value = y
  BY ONLY <1>1 DEF PathAttr
<1>3. AttrValue(as, 1) = x
  <2> DEFINE a == CHOOSE b \in Range(as) : b.type_code = 1
  <2>1. \E b \in Range(as) : b.type_code = 1
    BY ONLY <1>1, <1>2
  <2>2. a \in Range(as) /\ a.type_code = 1
    BY ONLY <2>1
  <2>3. AttrValue(as, 1) = a.value
    BY DEF AttrValue
  <2> HIDE DEF a
  <2>4. a = as[1]
    <3>1. a = as[1] \/ a = as[2] \/ a = as[3]
      BY ONLY <1>1, <2>2
    <3> QED
      BY ONLY <1>2, <2>2, <3>1
  <2> QED
    BY ONLY <1>2, <2>3, <2>4
<1>4. AttrValue(as, 2) = y
  <2> DEFINE a == CHOOSE b \in Range(as) : b.type_code = 2
  <2>1. \E b \in Range(as) : b.type_code = 2
    BY ONLY <1>1, <1>2
  <2>2. a \in Range(as) /\ a.type_code = 2
    BY ONLY <2>1
  <2>3. AttrValue(as, 2) = a.value
    BY DEF AttrValue
  <2> HIDE DEF a
  <2>4. a = as[2]
    <3>1. a = as[1] \/ a = as[2] \/ a = as[3]
      BY ONLY <1>1, <2>2
    <3> QED
      BY ONLY <1>2, <2>2, <3>1
  <2> QED
    BY ONLY <1>2, <2>3, <2>4
<1> QED
  BY ONLY <1>3, <1>4 DEF as

(* The path and the origin of an announcement are those of its event.      *)
LEMMA LabIsRead ==
  ASSUME NEW e \in LabArgs, e.kind = "announce", PathCount(e) \in Byte,
         NEW withdrawn, NEW announced
  PROVE  AnnouncedRoute(e, AnUpdate(withdrawn, LabAttrs(e), announced)) = {e}
<1> DEFINE u == AnUpdate(withdrawn, LabAttrs(e), announced)
           path == LabValue(e)
<1>1. u.attrs = LabAttrs(e)
  BY DEF AnUpdate
<1> HIDE DEF u
<1>2. AttrValue(u.attrs, AS_PATH) = path /\ AttrValue(u.attrs, ORIGIN) = LabOrigin(e)
  BY ONLY <1>1, ValueOfThree DEF LabAttrs, AS_PATH, ORIGIN, path
<1>3. e.length \in Nat /\ e.length >= 1 /\ PathCount(e) = e.length
  BY LabAs DEF PathCount
<1>4. path[1] = 2 /\ path[2] = e.length /\ Len(path) = 2 + 4 * e.length
  <2> DEFINE h == <<2, PathCount(e)>>
             t == LabPath(e)
  <2>1. t \in Seq(Byte) /\ Len(t) = e.length * 4
    BY ONLY e \in LabArgs, LabPathIs
  <2>2. h \in Seq(Byte) /\ Len(h) = 2 /\ h[1] = 2 /\ h[2] = PathCount(e)
    <3>1. 2 \in Byte
      BY ONLY ByteIs
    <3> QED
      BY ONLY <3>1, PathCount(e) \in Byte
  <2>3. path = h \o t
    BY DEF path, LabValue
  <2> HIDE DEF h, t, path
  <2>4. /\ Len(h \o t) = Len(h) + Len(t)
        /\ \A p \in 1 .. Len(h) : (h \o t)[p] = h[p]
    BY ONLY <2>1, <2>2, JoinOfTwo
  <2>5. 1 \in 1 .. 2 /\ 2 \in 1 .. 2
    OBVIOUS
  <2> QED
    BY ONLY <1>3, <2>1, <2>2, <2>3, <2>4, <2>5
<1>5. LabOrigin(e)[1] = e.origin
  BY DEF LabOrigin
<1> HIDE DEF path
<1>6. ~(Len(path) < 2 \/ path[1] # 2 \/ Len(path) # 2 + 4 * path[2])
  BY ONLY <1>3, <1>4
<1>7. AnnouncedRoute(e, u) = {Event("announce", e, path[2], LabOrigin(e)[1])}
  BY ONLY <1>2, <1>6 DEF AnnouncedRoute
<1>8. e = Event("announce", e, e.length, e.origin)
  BY EventOfLab
<1> QED
  BY ONLY <1>4, <1>5, <1>7, <1>8 DEF u

(* What the oracle makes of the packet of an event is what the model makes *)
(* of the event (oracle_transition).                                       *)
LEMMA LabEffect ==
  ASSUME NEW e \in LabArgs,
         e.kind # "withdraw" => PathCount(e) \in Byte /\ final_result = expected_verdict(e)
  PROVE  Verdict(e) = expected_verdict(e) /\ Effect(e, update(e)) = {Meaning(e)}
<1> DEFINE target == lab_nlri(e.prefix)
           u == update(e)
<1>1. e.kind \in {"announce", "withdraw", "bad_origin", "bad_aspath"}
  BY LabAs
<1>2. Verdict(e) = expected_verdict(e)
  BY <1>1 DEF Verdict, expected_verdict
<1>3. CASE e.kind = "withdraw"
  <2>1. u = AnUpdate(target, <<>>, <<>>)
    BY <1>3 DEF update
  <2> HIDE DEF u, target
  <2>2. Effect(e, u) = {e}
    BY ONLY <1>3, <2>1, Zenon DEF Effect, target
  <2>3. Meaning(e) = e
    BY <1>3, EventOfLab DEF Meaning
  <2> QED
    BY ONLY <1>2, <2>2, <2>3 DEF u
<1>4. CASE e.kind # "withdraw"
  <2>1. u = AnUpdate(<<>>, LabAttrs(e), target)
    BY ONLY <1>4, LabBuilds DEF u, target
  <2>2. u.withdrawn = <<>> /\ u.announced = target
    BY ONLY <2>1 DEF AnUpdate
  <2> HIDE DEF u, target
  <2>3. CASE e.kind = "announce"
    <3>1. final_result = "VALID"
      BY <1>4, <2>3 DEF expected_verdict
    <3>2. Effect(e, u) = AnnouncedRoute(e, u)
      <4>1. "VALID" # "TREAT_AS_WITHDRAW"
        OBVIOUS
      <4> QED
        BY ONLY <1>4, <2>2, <3>1, <4>1 DEF Effect, target
    <3>3. AnnouncedRoute(e, u) = {e}
      BY <1>4, <2>1, <2>3, LabIsRead
    <3>4. Meaning(e) = e
      BY ONLY <2>3 DEF Meaning
    <3> QED
      BY ONLY <1>2, <3>2, <3>3, <3>4 DEF u
  <2>4. CASE e.kind # "announce"
    <3>1. final_result = "TREAT_AS_WITHDRAW"
      BY <1>4, <2>4 DEF expected_verdict
    <3>2. Effect(e, u) = {Withdrawal(e)}
      BY ONLY <1>4, <2>2, <3>1 DEF Effect, target
    <3>3. Meaning(e) = Withdrawal(e)
      BY ONLY <2>4 DEF Meaning
    <3> QED
      BY ONLY <1>2, <3>2, <3>3 DEF u
  <2> QED
    BY ONLY <2>3, <2>4
<1> QED
  BY ONLY <1>3, <1>4

(* Sequence r is s with x behind it.                                       *)
Behind(r, s, x, S) ==
  /\ r \in Seq(S) /\ Len(r) = Len(s) + 1 /\ r[Len(s) + 1] = x
  /\ \A p \in 1 .. Len(s) : r[p] = s[p]

(* An element that is put behind a sequence.                               *)
LEMMA PutBehind ==
  ASSUME NEW S, NEW s \in Seq(S), NEW x \in S
  PROVE  Behind(s \o <<x>>, s, x, S)
<1> DEFINE t == <<x>>
           r == s \o t
<1>1. t \in Seq(S) /\ Len(t) = 1 /\ t[1] = x /\ Len(s) \in Nat
  OBVIOUS
<1> HIDE DEF t
<1>2. /\ r \in Seq(S) /\ Len(r) = Len(s) + Len(t)
      /\ \A p \in 1 .. Len(s) + Len(t) : r[p] = IF p <= Len(s) THEN s[p] ELSE t[p - Len(s)]
  BY <1>1, ConcatProperties
<1> HIDE DEF r
<1>3. r[Len(s) + 1] = x
  BY ONLY <1>1, <1>2
<1>4. \A p \in 1 .. Len(s) : r[p] = s[p]
  BY ONLY <1>1, <1>2
<1> QED
  BY ONLY <1>1, <1>2, <1>3, <1>4 DEF r, t, Behind

(* The lists of the slots, three of which are empty.                       *)
LEMMA SlotsAre ==
  ASSUME NEW a, NEW b, NEW o, NEW z
  PROVE  <<>> \o <<a>> \o <<>> \o <<b>> \o <<>> \o <<o>> \o <<z>> = <<a, b, o, z>>
<1> DEFINE S == {a, b, o, z}
           t == <<a, b, o, z>>
           one == <<a>>
           ab == one \o <<b>>
           abo == ab \o <<o>>
           r == abo \o <<z>>
<1>1. /\ a \in S /\ b \in S /\ o \in S /\ z \in S
      /\ one \in Seq(S) /\ Len(one) = 1 /\ one[1] = a
      /\ t \in Seq(S) /\ Len(t) = 4 /\ t[1] = a /\ t[2] = b /\ t[3] = o /\ t[4] = z
  OBVIOUS
<1> HIDE DEF S, t, one
<1>2. ab \in Seq(S) /\ Len(ab) = 2 /\ ab[1] = a /\ ab[2] = b
  <2>1. one \in Seq(S) /\ b \in S
    BY ONLY <1>1
  <2>2. Behind(ab, one, b, S)
    BY ONLY <2>1, PutBehind, Zenon
  <2> HIDE DEF ab
  <2> QED
    BY ONLY <1>1, <2>2 DEF Behind
<1> HIDE DEF ab
<1>3. abo \in Seq(S) /\ Len(abo) = 3 /\ abo[1] = a /\ abo[2] = b /\ abo[3] = o
  <2>1. ab \in Seq(S) /\ o \in S
    BY ONLY <1>1, <1>2
  <2>2. Behind(abo, ab, o, S)
    BY ONLY <2>1, PutBehind, Zenon
  <2> HIDE DEF abo
  <2> QED
    BY ONLY <1>2, <2>2 DEF Behind
<1> HIDE DEF abo
<1>4. r \in Seq(S) /\ Len(r) = 4 /\ r[1] = a /\ r[2] = b /\ r[3] = o /\ r[4] = z
  <2>1. abo \in Seq(S) /\ z \in S
    BY ONLY <1>1, <1>3
  <2>2. Behind(r, abo, z, S)
    BY ONLY <2>1, PutBehind, Zenon
  <2> HIDE DEF r
  <2> QED
    BY ONLY <1>3, <2>2 DEF Behind
<1> HIDE DEF r
<1>5. r = t
  <2>1. \A p \in 1 .. 4 : p = 1 \/ p = 2 \/ p = 3 \/ p = 4
    OBVIOUS
  <2>2. \A p \in 1 .. Len(r) : r[p] = t[p]
    BY ONLY <1>1, <1>4, <2>1
  <2> QED
    BY ONLY <1>1, <1>4, <2>2, SeqEqual
<1>6. <<>> \o one = one /\ one \o <<>> = one /\ ab \o <<>> = ab
  BY ONLY <1>1, <1>2, ConcatEmptySeq
<1> QED
  BY ONLY <1>5, <1>6, Zenon DEF r, abo, ab, one, t

(* The attributes of the route of the graceful-restart runners (_route).   *)
LEMMA RouteIs ==
  \E v : /\ Len(v) = 4
         /\ _route.attrs = <<as_path_obj, next_hop_obj, origin_obj, PathAttr(192, 8, v)>>
<1> DEFINE v == normalize_payload(<<0, 1, 0, 1>>, 4)
           fuzz == [flags |-> 192, type_code |-> 8, length |-> 4, value |-> v]
           a == as_path_obj
           b == next_hop_obj
           o == origin_obj
<1>1. Len(v) = 4
  <2>1. <<0, 1, 0, 1>> \in Seq(Byte)
    <3>1. 0 \in Byte /\ 1 \in Byte
      BY ONLY ByteIs
    <3> QED
      BY ONLY <3>1
  <2>2. 4 \in Nat
    OBVIOUS
  <2> QED
    BY ONLY <2>1, <2>2, NormalizedLength
<1> HIDE DEF v
<1>2. fuzz = PathAttr(192, 8, v)
  BY ONLY <1>1 DEF PathAttr
<1> HIDE DEF fuzz
<1>3. _route.attrs = When(4 = 1, <<fuzz>>) \o <<a>> \o When(4 = 2, <<fuzz>>) \o <<b>>
                     \o When(4 = 3, <<fuzz>>) \o When(~(3 = 2 /\ 4 = 1), <<o>>)
                     \o When(4 = 4, <<fuzz>>)
  BY DEF _route, build_legacy_update, ROUTE_ARGS, AnUpdate, fuzz, v, a, b, o
<1> HIDE DEF a, b, o
<1>4. /\ When(4 = 1, <<fuzz>>) = <<>> /\ When(4 = 2, <<fuzz>>) = <<>>
      /\ When(4 = 3, <<fuzz>>) = <<>> /\ When(~(3 = 2 /\ 4 = 1), <<o>>) = <<o>>
      /\ When(4 = 4, <<fuzz>>) = <<fuzz>>
  BY ONLY DEF When
<1>5. _route.attrs = <<a, b, o, fuzz>>
  <2>1. _route.attrs = <<>> \o <<a>> \o <<>> \o <<b>> \o <<>> \o <<o>> \o <<fuzz>>
    BY ONLY <1>3, <1>4
  <2> QED
    BY ONLY <2>1, SlotsAre
<1> QED
  BY ONLY <1>1, <1>2, <1>5 DEF a, b, o

(* The AS of the graceful-restart runners.                                 *)
RouteAs == 65002

(* The path of the route is the AS that is enforced.                       *)
LEMMA RoutePath ==
  scan_as_path(<<2, 1>> \o AS65002, 4, FALSE, {RouteAs})
<1> DEFINE path == AS65002
           asn == RouteAs
<1>1. path \in Seq(Byte) /\ Len(path) = 4
  BY ONLY ConstantParts DEF path
<1>2. path[1] = 0 /\ path[2] = 0 /\ path[3] * 256 + path[4] = asn
  BY ONLY DEF path, AS65002, asn, RouteAs
<1>3. 1 \in Byte
  BY ONLY ByteIs
<1> HIDE DEF path, asn
<1>4. AsNumbers(1, 1, path, asn)
  BY ONLY <1>1, <1>2, <1>3 DEF AsNumbers
<1>5. scan_as_path(<<2, 1>> \o path, 4, FALSE, {asn})
  <2>1. scan_as_path(<<2, 1>> \o path, 4, FALSE, {asn}) <=> 1 = 1
    BY ONLY <1>4, SequenceIsScanned
  <2> QED
    BY ONLY <2>1
<1> QED
  BY ONLY <1>5, Zenon DEF path, asn

(* The verdict on the route of the graceful-restart runners                *)
(* (validate_packet).                                                      *)
LEMMA RouteVerdict ==
  ASSUME TypeOK, VerdictIsMostSevere, pc = "update_done", _route.attrs \in Seq(AttrRecord),
         attrs = Judged(_route.attrs), context.asn_4byte, context.allow_confed = FALSE,
         context.enforce_first_as = {RouteAs}
  PROVE  final_result = "VALID"
<1> DEFINE as == _route.attrs
           path == <<2, 1>> \o AS65002
           hop == <<1, 1, 1, 1>>
           origin == <<0>>
           J(k) == [type_code |-> as[k].type_code, optional |-> Optional(as[k].flags),
                    transitive |-> Transitive(as[k].flags), length |-> as[k].length,
                    value |-> {as[k].value}]
<1>1. PICK v : Len(v) = 4 /\ as = <<as_path_obj, next_hop_obj, origin_obj, PathAttr(192, 8, v)>>
  BY ONLY RouteIs DEF as
<1>2. /\ Len(as) = 4 /\ as[1] = PathAttr(64, 2, path) /\ as[2] = PathAttr(64, 3, hop)
      /\ as[3] = PathAttr(64, 1, origin) /\ as[4] = PathAttr(192, 8, v)
  BY ONLY <1>1 DEF as_path_obj, next_hop_obj, origin_obj, path, hop, origin
<1>3. Len(attrs) = 4 /\ \A k \in 1 .. 4 : attrs[k] = J(k)
  <2>1. as \in Seq(AttrRecord) /\ attrs = Judged(as)
    BY DEF as
  <2> HIDE DEF as
  <2>2. /\ Len(Judged(as)) = Len(as)
        /\ \A k \in 1 .. Len(as) : Judged(as)[k] = J(k)
    BY ONLY <2>1, JudgedIs DEF J
  <2> QED
    BY ONLY <1>2, <2>1, <2>2
<1> HIDE DEF as, path, hop, origin
<1>4. /\ as[1].type_code = 2 /\ as[1].flags = 64 /\ as[1].length = Len(path)
      /\ as[1].value = path
      /\ as[2].type_code = 3 /\ as[2].flags = 64 /\ as[2].length = Len(hop)
      /\ as[2].value = hop
      /\ as[3].type_code = 1 /\ as[3].flags = 64 /\ as[3].length = Len(origin)
      /\ as[3].value = origin
      /\ as[4].type_code = 8 /\ as[4].flags = 192 /\ as[4].length = Len(v)
      /\ as[4].value = v
  <2>1. /\ as[1].type_code = 2 /\ as[1].flags = 64 /\ as[1].length = Len(path)
        /\ as[1].value = path
    <3>1. as[1] = PathAttr(64, 2, path)
      BY ONLY <1>2
    <3> QED
      BY ONLY <3>1 DEF PathAttr
  <2>2. /\ as[2].type_code = 3 /\ as[2].flags = 64 /\ as[2].length = Len(hop)
        /\ as[2].value = hop
    <3>1. as[2] = PathAttr(64, 3, hop)
      BY ONLY <1>2
    <3> QED
      BY ONLY <3>1 DEF PathAttr
  <2>3. /\ as[3].type_code = 1 /\ as[3].flags = 64 /\ as[3].length = Len(origin)
        /\ as[3].value = origin
    <3>1. as[3] = PathAttr(64, 1, origin)
      BY ONLY <1>2
    <3> QED
      BY ONLY <3>1 DEF PathAttr
  <2>4. /\ as[4].type_code = 8 /\ as[4].flags = 192 /\ as[4].length = Len(v)
        /\ as[4].value = v
    <3>1. as[4] = PathAttr(192, 8, v)
      BY ONLY <1>2
    <3> QED
      BY ONLY <3>1 DEF PathAttr
  <2> QED
    BY ONLY <2>1, <2>2, <2>3, <2>4
<1>5. /\ attrs[1] = JudgedAs(2, 64, path) /\ attrs[2] = JudgedAs(3, 64, hop)
      /\ attrs[3] = JudgedAs(1, 64, origin) /\ attrs[4] = JudgedAs(8, 192, v)
  <2>1. J(1) = JudgedAs(2, 64, path)
    BY ONLY <1>4, Zenon DEF J, JudgedAs
  <2>2. J(2) = JudgedAs(3, 64, hop)
    BY ONLY <1>4, Zenon DEF J, JudgedAs
  <2>3. J(3) = JudgedAs(1, 64, origin)
    BY ONLY <1>4, Zenon DEF J, JudgedAs
  <2>4. J(4) = JudgedAs(8, 192, v)
    BY ONLY <1>4, Zenon DEF J, JudgedAs
  <2> HIDE DEF J
  <2>5. 1 \in 1 .. 4 /\ 2 \in 1 .. 4 /\ 3 \in 1 .. 4 /\ 4 \in 1 .. 4
    OBVIOUS
  <2>6. attrs[1] = J(1) /\ attrs[2] = J(2) /\ attrs[3] = J(3) /\ attrs[4] = J(4)
    BY ONLY <1>3, <2>5
  <2> QED
    BY ONLY <2>1, <2>2, <2>3, <2>4, <2>6
<1> HIDE DEF J
<1>6. AttributeFaults(attrs[1], context) = {}
  <2>1. scan_as_path(path, 4, FALSE, {RouteAs})
    BY ONLY RoutePath DEF path
  <2>2. AsnSize(context) = 4
    BY ONLY context.asn_4byte DEF AsnSize
  <2>3. Path(path, AsnSize(context), context)
    BY ONLY <2>1, <2>2, context.allow_confed = FALSE, context.enforce_first_as = {RouteAs} DEF Path
  <2>4. AttributeFaults(JudgedAs(2, 64, path), context)
          = Withdraw(~Path(path, AsnSize(context), context))
    BY ONLY FaultsOfPath
  <2> QED
    BY ONLY <1>5, <2>3, <2>4 DEF Withdraw, Fault
<1>7. AttributeFaults(attrs[2], context) = {}
  <2>1. Len(hop) = 4 /\ hop[1] = 1
    BY DEF hop
  <2>2. ~Martian(hop)
    <3>1. hop # <<0, 0, 0, 0>>
      BY ONLY <2>1
    <3> QED
      BY ONLY <2>1, <3>1 DEF Martian
  <2> QED
    BY ONLY <1>5, <2>1, <2>2, FaultsOfNextHop
<1>8. AttributeFaults(attrs[3], context) = {}
  <2>1. Len(origin) = 1 /\ origin[1] = 0 /\ origin[1] \in Nat
    BY DEF origin
  <2>2. AttributeFaults(JudgedAs(1, 64, origin), context) = Withdraw(origin[1] > 2)
    BY ONLY <2>1, FaultsOfOrigin
  <2> QED
    BY ONLY <1>5, <2>1, <2>2 DEF Withdraw, Fault
<1>9. AttributeFaults(attrs[4], context) = {}
  BY ONLY <1>1, <1>5, FaultsOfCommunities
<1>10. /\ attrs[1].type_code = 2 /\ attrs[2].type_code = 3 /\ attrs[3].type_code = 1
       /\ attrs[4].type_code = 8
  BY ONLY <1>5 DEF JudgedAs
<1>11. \A k \in 1 .. Len(attrs) : k = 1 \/ k = 2 \/ k = 3 \/ k = 4
  BY ONLY <1>3
<1>12. \A k \in 1 .. Len(attrs) : First(k)
  <2>1. /\ \A j \in 1 .. 1 - 1 : FALSE
        /\ \A j \in 1 .. 2 - 1 : j = 1
        /\ \A j \in 1 .. 3 - 1 : j = 1 \/ j = 2
        /\ \A j \in 1 .. 4 - 1 : j = 1 \/ j = 2 \/ j = 3
    OBVIOUS
  <2>2. First(1) /\ First(2) /\ First(3) /\ First(4)
    BY ONLY <1>10, <2>1 DEF First
  <2> QED
    BY ONLY <1>11, <2>2
<1>13. {ORIGIN, AS_PATH, NEXT_HOP} \subseteq Present
  <2>1. 1 \in 1 .. Len(attrs) /\ 2 \in 1 .. Len(attrs) /\ 3 \in 1 .. Len(attrs)
    BY ONLY <1>3
  <2> QED
    BY ONLY <1>10, <2>1 DEF Present, ORIGIN, AS_PATH, NEXT_HOP
<1>14. /\ FALSE \in BOOLEAN
       /\ \A k \in 1 .. Len(attrs) : AttributeFaults(attrs[k], context) \subseteq Withdraw(FALSE)
  BY ONLY <1>6, <1>7, <1>8, <1>9, <1>11
<1>15. final_result = IF FALSE THEN "TREAT_AS_WITHDRAW" ELSE "VALID"
  <2> DEFINE no == FALSE
  <2>1. /\ no \in BOOLEAN /\ ~no
        /\ \A k \in 1 .. Len(attrs) : AttributeFaults(attrs[k], context) \subseteq Withdraw(no)
        /\ no => \E k \in 1 .. Len(attrs) : AttributeFaults(attrs[k], context) = Withdraw(TRUE)
    BY ONLY <1>14 DEF no
  <2> HIDE DEF no
  <2>2. final_result = IF no THEN "TREAT_AS_WITHDRAW" ELSE "VALID"
    BY <1>12, <1>13, <2>1, VerdictOfDistinct, Zenon
  <2> QED
    BY ONLY <2>1, <2>2
<1> QED
  BY ONLY <1>15

(* What the lab makes of a case of the lab.                                *)
LEMMA LabAgrees ==
  ASSUME PInv, pc = "update_done", NEW c \in case, c.builder = "lab"
  PROVE  \E u \in Received(c) :
           /\ Verdict(c.args) = expected_verdict(c.args)
           /\ Effect(c.args, u) = {Meaning(c.args)}
<1> DEFINE e == c.args
<1>1. /\ TypeOK /\ VerdictIsMostSevere /\ InSuites(c) /\ c.builder # "gr_open"
      /\ attrs = Judged(Built(c).attrs) /\ context = ContextOf(c)
  BY DEF PInv, SevereSoFar, CaseInv
<1>2. Received(c) = {Built(c)}
  BY ONLY <1>1, ReadBack
<1>3. e \in LabArgs /\ Built(c) = update(e)
  BY <1>1, ContextIs DEF Arguments, Built
<1>4. Sendable(update(e))
  <2>1. \A suite \in Suites : \A d \in suite : d.builder # "gr_open" => Sendable(Built(d))
    BY ONLY PacketsAssumption
  <2>2. Sendable(Built(c))
    BY ONLY <1>1, <2>1, Zenon DEF InSuites
  <2> QED
    BY ONLY <1>3, <2>2
<1>5. e.kind # "withdraw" => PathCount(e) \in Byte
  BY ONLY <1>3, <1>4, LabIsUpdate
<1>6. /\ context.asn_4byte /\ context.allow_confed = FALSE
      /\ context.enforce_first_as = {ASNS[e.peer + 1]}
  <2>1. /\ (c.builder = "aspath" => c.args.asn_4byte)
        /\ FirstAs(c) = {ASNS[c.args.peer + 1]}
    BY DEF FirstAs
  <2>2. /\ context.asn_4byte = (c.builder = "aspath" => c.args.asn_4byte)
        /\ context.allow_confed = FALSE /\ context.enforce_first_as = FirstAs(c)
    BY ONLY <1>1 DEF ContextOf
  <2> QED
    BY ONLY <2>1, <2>2, Zenon DEF e
<1> HIDE DEF e
<1>7. e.kind # "withdraw" => final_result = expected_verdict(e)
  <2> SUFFICES ASSUME e.kind # "withdraw"
               PROVE  final_result = expected_verdict(e)
    OBVIOUS
  <2>1. update(e).attrs = LabAttrs(e)
    <3>1. update(e) = AnUpdate(<<>>, LabAttrs(e), lab_nlri(e.prefix))
      BY LabBuilds
    <3> QED
      BY ONLY <3>1 DEF AnUpdate
  <2>2. attrs = Judged(LabAttrs(e))
    BY ONLY <1>1, <1>3, <2>1
  <2> QED
    BY <1>1, <1>3, <1>5, <1>6, <2>2, LabVerdict
<1>8. Verdict(e) = expected_verdict(e) /\ Effect(e, update(e)) = {Meaning(e)}
  BY ONLY <1>3, <1>5, <1>7, LabEffect
<1> QED
  BY ONLY <1>2, <1>3, <1>8 DEF e

(* The verdict on a packet of the graceful-restart runners.                *)
LEMMA RestartAgrees ==
  ASSUME PInv, NEW c \in case, pc \in {"update_done", "open_done"},
         c.builder \in {"gr_route", "gr_open"}
  PROVE  final_result = "VALID"
<1>1. /\ TypeOK /\ VerdictIsMostSevere /\ InSuites(c)
      /\ c.builder # "gr_open" =>
           /\ pc \in {"attributes", "update_done"}
           /\ attrs = Judged(Built(c).attrs) /\ context = ContextOf(c)
      /\ c.builder = "gr_open" =>
           pc \in {"open", "open_done"} /\ opt_params = BuiltOpen(c)
  BY DEF PInv, SevereSoFar, CaseInv
<1>2. CASE c.builder = "gr_route"
  <2>1. /\ pc = "update_done" /\ attrs = Judged(Built(c).attrs) /\ context = ContextOf(c)
        /\ c.builder # "gr_open"
    BY <1>1, <1>2
  <2>2. Built(c) = _route
    BY <1>2 DEF Built
  <2>3. _route.attrs \in Seq(AttrRecord)
    <3>1. Built(c) \in UpdateRecord
      BY ONLY <1>1, <2>1, ReadBack
    <3> QED
      BY ONLY <2>2, <3>1 DEF UpdateRecord
  <2>4. /\ context.asn_4byte /\ context.allow_confed = FALSE
        /\ context.enforce_first_as = {RouteAs}
    <3>1. (c.builder = "aspath" => c.args.asn_4byte) /\ FirstAs(c) = {RouteAs}
      BY <1>2 DEF FirstAs, RouteAs
    <3>2. /\ context.asn_4byte = (c.builder = "aspath" => c.args.asn_4byte)
          /\ context.allow_confed = FALSE /\ context.enforce_first_as = FirstAs(c)
      BY ONLY <2>1 DEF ContextOf
    <3> QED
      BY ONLY <3>1, <3>2, Zenon
  <2>5. attrs = Judged(_route.attrs)
    BY ONLY <2>1, <2>2
  <2> QED
    BY <1>1, <2>1, <2>3, <2>4, <2>5, RouteVerdict
<1>3. CASE c.builder = "gr_open"
  <2>1. pc = "open_done" /\ opt_params = BuiltOpen(c)
    BY <1>1, <1>3
  <2>2. opt_params \in Seq(Byte) /\ parse_capabilities(opt_params)
    BY ONLY <1>1, <1>3, <2>1, OpenIs
  <2>3. IsOptParams(opt_params)
    BY ONLY <2>2, ParametersAreGrammar
  <2> QED
    BY <2>1, <2>3 DEF PInv, OpenVerdict
<1> QED
  BY <1>2, <1>3

(* The lab's builder, the oracle and the route model agree on each event   *)
(* of the model, and no packet of the graceful-restart runners is rejected *)
(* (oracle_transition, validate_packet).                                   *)
THEOREM AdapterAlwaysAgrees == PSpec => []AdapterAgrees
<1>1. PInv => AdapterAgrees
  <2> SUFFICES ASSUME PInv, pc \in {"update_done", "open_done"}, NEW c \in case
               PROVE  /\ c.builder = "lab" =>
                           \E u \in Received(c) :
                             /\ Verdict(c.args) = expected_verdict(c.args)
                             /\ Effect(c.args, u) = {Meaning(c.args)}
                      /\ c.builder \in {"gr_route", "gr_open"} => final_result = "VALID"
    BY DEF AdapterAgrees
  <2>1. ASSUME c.builder = "lab"
        PROVE  \E u \in Received(c) :
                 /\ Verdict(c.args) = expected_verdict(c.args)
                 /\ Effect(c.args, u) = {Meaning(c.args)}
    <3>1. pc = "update_done"
      BY <2>1 DEF PInv, CaseInv
    <3> QED
      BY <2>1, <3>1, LabAgrees
  <2>2. ASSUME c.builder \in {"gr_route", "gr_open"}
        PROVE  final_result = "VALID"
    BY <2>2, RestartAgrees
  <2> QED
    BY <2>1, <2>2
<1> QED
  BY <1>1, PacketsFirst, PacketsStep, PTL DEF PSpec

=============================================================================
