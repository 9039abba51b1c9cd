--------------------------- MODULE CampaignProofs ---------------------------
(***************************************************************************)
(* Proofs about a whole run of the parity fuzzer, for any command lines,   *)
(* any number of cases, scenarios and traces, and any outcome of each.     *)
(***************************************************************************)
EXTENDS Campaign, FiniteSetTheorems, WellFoundedInduction, TLAPS

(***************************************************************************)
(* The invariant                                                           *)
(***************************************************************************)
Outcome == [pass : BOOLEAN, error : BOOLEAN]

Figures == [TOTAL : Nat, PASS : Nat, FAIL : Nat]

Types ==
  /\ run \in Run
  /\ pc \in {"start", "suite", "case", "rest", "ValueError", "aborted", "SystemExit", "returned"}
  /\ step \in 1 .. 10 /\ left \in Nat /\ alloc \in Nat
  /\ results \in Seq(Outcome) /\ error \in BOOLEAN
  /\ tally.TOTAL_EXECUTED \in Nat /\ tally.FRR_CRASH \in Nat
  /\ tally = [TOTAL_EXECUTED |-> tally.TOTAL_EXECUTED, FRR_CRASH |-> tally.FRR_CRASH,
              MATRIX |-> tally.MATRIX]
  /\ tally.MATRIX \in [Rows -> Figures]
  /\ discrepancies \in Nat /\ begun \in Nat
  /\ sock \in BOOLEAN /\ held \in BOOLEAN /\ collided \in BOOLEAN /\ borrowed \in BOOLEAN

(* A suite is run only if it is asked for; a stateful suite starts without *)
(* results, which no other has.                                            *)
InSuite == pc \in {"case", "rest", "aborted"}

Planned ==
  /\ InSuite => step <= 9 /\ Suite \in plan
  /\ results # <<>> => InSuite /\ step >= 7
  /\ error => InSuite /\ step = 9
  /\ Len(results) + left <= MaxCases

(* A session is open only in or behind the UPDATE suites: the OPEN suite   *)
(* closes it, or else no suite is left that would connect.  Whatever else  *)
(* the daemon holds it holds while the runner sleeps.                      *)
NoneConnects == plan \subseteq UpdateSuites

Closed ==
  /\ InSuite /\ sock => step <= 4
  /\ sock => plan \cap UpdateSuites # {}
  /\ sock /\ step >= 6 => NoneConnects
  /\ sock \/ held => LIVE
  /\ run.patient =>
       /\ ~collided
       /\ held /\ ~sock /\ pc \in {"start", "suite", "case"} =>
            pc = "suite" /\ step >= 8 /\ NoneConnects

(* What went wrong is in the figures, or in the results that will be.      *)
Bad == error \/ \E i \in DOMAIN results : results[i].error \/ ~results[i].pass

Blamed ==
  /\ wrong # {} <=> discrepancies > 0 \/ tally.FRR_CRASH > 0 \/ Bad
  /\ ExitIsTrue

(* The prefixes that were announced, by the suites behind.                 *)
States == IF step < 7 THEN 0 ELSE IF step = 7 THEN Len(results) ELSE MaxCases

Generated == IF step < 8 THEN 0 ELSE IF step = 8 THEN Len(results) ELSE MaxCases

Within(x, n, s, g) ==
  \/ 1 <= x /\ x <= n
  \/ StateBase <= x /\ x < StateBase + 2 * s
  \/ GeneratedBase <= x /\ x < GeneratedBase + 2 * g
  \/ x = 0 /\ Space < GeneratedBase + 2 * g

Taken(x) == Within(x, alloc, States, Generated)

(* The one of the UPDATEs with an MP_REACH_NLRI, from their suite on.       *)
Shared(x) == step >= 3 /\ x = MpReachPrefix

Apart == InBounds => ~borrowed /\ \A x \in used : x \in Int /\ (Taken(x) \/ Shared(x))

CInv == Types /\ Planned /\ Closed /\ Blamed /\ Apart /\ BooksBalance
(***************************************************************************)
(* Sums of the figures                                                     *)
(***************************************************************************)

(* Induction on natural numbers, as a property of sets of them.            *)
LEMMA Induction ==
  ASSUME NEW T \in SUBSET Nat, 0 \in T, \A n \in T : n + 1 \in T
  PROVE  T = Nat
<1> DEFINE Less == OpToRel(<, Nat)
           U == Nat \ T
<1> SUFFICES ASSUME U # {} PROVE FALSE
  OBVIOUS
<1>1. IsWellFoundedOn(Less, Nat)
  BY NatLessThanWellFounded
<1>2. \A x, y \in Nat : <<x, y>> \in Less <=> x < y
  BY DEF OpToRel
<1> HIDE DEF Less
<1>3. PICK m \in U : \A k \in U : ~ (<<k, m>> \in Less)
  <2>1. U \subseteq Nat
    OBVIOUS
  <2> HIDE DEF U
  <2> QED
    BY <1>1, <2>1, WFMin
<1>4. m \in Nat /\ m # 0 /\ m - 1 \in Nat /\ m - 1 < m
  BY <1>3
<1>5. m - 1 \in T
  BY <1>2, <1>3, <1>4
<1>6. (m - 1) + 1 \in T
  BY <1>5
<1> QED
  BY <1>3, <1>4, <1>6

Pick(s) == CHOOSE x \in s : TRUE

(* The next value of the fold, which the function f has at smaller sets.   *)
Fold(m, field, f, s) == IF s = {} THEN 0 ELSE m[Pick(s)][field] + f[s \ {Pick(s)}]

Iter(m, field, S) == CHOOSE iter : iter = [s \in SUBSET S |-> Fold(m, field, iter, s)]

(* The sum of the library is this one.                                     *)
LEMMA SumIsIter ==
  ASSUME NEW field
  PROVE  /\ Sum(field) = Iter(tally.MATRIX, field, Rows)[Rows]
         /\ Sum(field)' = Iter(tally'.MATRIX, field, Rows)[Rows]
<1>1. Sum(field) = Iter(tally.MATRIX, field, Rows)[Rows]
  BY DEF Sum, MapThenSumSet, MapThenFoldSet, Iter, Fold, Pick
<1>2. Sum(field)' = Iter(tally'.MATRIX, field, Rows)[Rows]
  BY DEF Sum, MapThenSumSet, MapThenFoldSet, Iter, Fold, Pick
<1> QED
  BY <1>1, <1>2

(* The fold is defined: on sets of any size, by induction on it.           *)
LEMMA IterWorks ==
  ASSUME NEW m, NEW field, NEW S, IsFiniteSet(S)
  PROVE  \A s \in SUBSET S : Iter(m, field, S)[s] = Fold(m, field, Iter(m, field, S), s)
<1> DEFINE UpTo(n) == {s \in SUBSET S : Cardinality(s) <= n}
           T == {n \in Nat : \E f : f = [s \in UpTo(n) |-> Fold(m, field, f, s)]}
<1>1. \A s \in SUBSET S : IsFiniteSet(s) /\ Cardinality(s) \in Nat
  BY FS_Subset, FS_CardinalityType
<1>2. \A s \in SUBSET S : Cardinality(s) = 0 <=> s = {}
  BY <1>1, FS_EmptySet
<1>3. \A s \in SUBSET S : s # {} => /\ Pick(s) \in s /\ s \ {Pick(s)} \in SUBSET S
                                    /\ Cardinality(s \ {Pick(s)}) = Cardinality(s) - 1
  BY <1>1, FS_RemoveElement DEF Pick
<1>4. 0 \in T
  <2> DEFINE f == [s \in UpTo(0) |-> 0]
  <2>1. \A s \in UpTo(0) : s = {}
    BY <1>1, <1>2
  <2>2. f = [s \in UpTo(0) |-> Fold(m, field, f, s)]
    BY <2>1 DEF Fold
  <2> QED
    BY <2>2
<1>5. ASSUME NEW n \in T PROVE n + 1 \in T
  <2>1. PICK f : f = [s \in UpTo(n) |-> Fold(m, field, f, s)]
    OBVIOUS
  <2> DEFINE g == [s \in UpTo(n + 1) |-> Fold(m, field, f, s)]
  <2>2. ASSUME NEW s \in UpTo(n + 1) PROVE Fold(m, field, f, s) = Fold(m, field, g, s)
    <3>1. CASE s = {}
      BY <3>1 DEF Fold
    <3>2. CASE s # {}
      <4> DEFINE t == s \ {Pick(s)}
      <4>1. t \in UpTo(n) /\ t \in UpTo(n + 1)
        BY <1>1, <1>3, <3>2
      <4>2. f[t] = Fold(m, field, f, t) /\ g[t] = Fold(m, field, f, t)
        BY <2>1, <4>1
      <4> QED
        BY <3>2, <4>2 DEF Fold
    <3> QED
      BY <3>1, <3>2
  <2>3. g = [s \in UpTo(n + 1) |-> Fold(m, field, g, s)]
    BY <2>2
  <2>4. n + 1 \in Nat
    OBVIOUS
  <2> HIDE DEF g
  <2> QED
    BY <2>3, <2>4
<1>6. Cardinality(S) \in T
  <2>1. T \in SUBSET Nat /\ \A n \in T : n + 1 \in T
    BY <1>5
  <2> HIDE DEF T
  <2>2. T = Nat
    BY <1>4, <2>1, Induction
  <2> QED
    BY <2>2, FS_CardinalityType
<1>7. UpTo(Cardinality(S)) = SUBSET S
  BY <1>1, FS_Subset
<1>8. \E f : f = [s \in SUBSET S |-> Fold(m, field, f, s)]
  BY <1>6, <1>7
<1>9. Iter(m, field, S) = [s \in SUBSET S |-> Fold(m, field, Iter(m, field, S), s)]
  BY <1>8 DEF Iter
<1> QED
  BY <1>9

(* What one row gains, the sum gains.                                      *)
LEMMA IterGains ==
  ASSUME NEW m, NEW w, NEW field, NEW S, IsFiniteSet(S), NEW r \in S, NEW a \in Int,
         \A x \in S : m[x][field] \in Int,
         \A x \in S : w[x][field] = IF x = r THEN m[x][field] + a ELSE m[x][field]
  PROVE  /\ Iter(m, field, S)[S] \in Int
         /\ Iter(w, field, S)[S] = Iter(m, field, S)[S] + a
<1> DEFINE f == Iter(m, field, S)
           g == Iter(w, field, S)
           Right(s) == f[s] \in Int /\ g[s] = f[s] + (IF r \in s THEN a ELSE 0)
           T == {n \in Nat : \A s \in SUBSET S : Cardinality(s) = n => Right(s)}
<1>1. \A s \in SUBSET S : f[s] = Fold(m, field, f, s) /\ g[s] = Fold(w, field, g, s)
  BY IterWorks
<1>2. \A s \in SUBSET S : IsFiniteSet(s) /\ Cardinality(s) \in Nat
  BY FS_Subset, FS_CardinalityType
<1>3. \A s \in SUBSET S : Cardinality(s) = 0 <=> s = {}
  BY <1>2, FS_EmptySet
<1> HIDE DEF f, g
<1>4. 0 \in T
  <2> SUFFICES ASSUME NEW s \in SUBSET S, Cardinality(s) = 0 PROVE Right(s)
    OBVIOUS
  <2>1. s = {} /\ r \notin s
    BY <1>3
  <2>2. f[s] = 0 /\ g[s] = 0
    BY <1>1, <2>1 DEF Fold
  <2> QED
    BY <2>1, <2>2
<1>5. ASSUME NEW n \in T PROVE n + 1 \in T
  <2> SUFFICES ASSUME NEW s \in SUBSET S, Cardinality(s) = n + 1 PROVE Right(s)
    OBVIOUS
  <2> DEFINE x == Pick(s)
             t == s \ {x}
  <2>1. s # {}
    BY <1>3
  <2>2. x \in s /\ t \in SUBSET S /\ Cardinality(t) = n
    <3>1. x \in s
      BY <2>1 DEF Pick
    <3>2. Cardinality(t) = (n + 1) - 1
      BY <1>2, <3>1, FS_RemoveElement
    <3> QED
      BY <3>1, <3>2
  <2>3. Right(t)
    BY <2>2
  <2>4. f[s] = m[x][field] + f[t] /\ g[s] = w[x][field] + g[t]
    BY <1>1, <2>1 DEF Fold
  <2>5. x \in S /\ (r \in s <=> x = r \/ r \in t) /\ x \notin t
    BY <2>2
  <2> HIDE DEF x, t
  <2> QED
    BY <2>3, <2>4, <2>5
<1>6. Cardinality(S) \in T
  <2>1. T \in SUBSET Nat /\ \A n \in T : n + 1 \in T
    BY <1>5
  <2> HIDE DEF T
  <2>2. T = Nat
    BY <1>4, <2>1, Induction
  <2> QED
    BY <2>2, FS_CardinalityType
<1>7. Right(S)
  BY <1>6
<1> QED
  BY <1>7 DEF f, g

(* The sum of nothing is nothing.                                          *)
LEMMA IterOfZero ==
  ASSUME NEW m, NEW field, NEW S, IsFiniteSet(S), \A x \in S : m[x][field] = 0
  PROVE  Iter(m, field, S)[S] = 0
<1> DEFINE f == Iter(m, field, S)
           T == {n \in Nat : \A s \in SUBSET S : Cardinality(s) = n => f[s] = 0}
<1>1. \A s \in SUBSET S : f[s] = Fold(m, field, f, s)
  BY IterWorks
<1>2. \A s \in SUBSET S : IsFiniteSet(s) /\ Cardinality(s) \in Nat
  BY FS_Subset, FS_CardinalityType
<1>3. \A s \in SUBSET S : Cardinality(s) = 0 <=> s = {}
  BY <1>2, FS_EmptySet
<1> HIDE DEF f
<1>4. 0 \in T
  BY <1>1, <1>3 DEF Fold
<1>5. ASSUME NEW n \in T PROVE n + 1 \in T
  <2> SUFFICES ASSUME NEW s \in SUBSET S, Cardinality(s) = n + 1 PROVE f[s] = 0
    OBVIOUS
  <2>1. s # {}
    BY <1>3
  <2>2. Pick(s) \in s /\ s \ {Pick(s)} \in SUBSET S /\ Cardinality(s \ {Pick(s)}) = n
    <3>1. Pick(s) \in s
      BY <2>1 DEF Pick
    <3>2. Cardinality(s \ {Pick(s)}) = (n + 1) - 1
      BY <1>2, <3>1, FS_RemoveElement
    <3> QED
      BY <3>1, <3>2
  <2>3. f[s \ {Pick(s)}] = 0
    BY <2>2
  <2>4. m[Pick(s)][field] = 0
    BY <2>2
  <2> QED
    BY ONLY <1>1, <2>1, <2>3, <2>4, s \in SUBSET S DEF Fold
<1>6. Cardinality(S) \in T
  <2>1. T \in SUBSET Nat /\ \A n \in T : n + 1 \in T
    BY <1>5
  <2> HIDE DEF T
  <2>2. T = Nat
    BY <1>4, <2>1, Induction
  <2> QED
    BY <2>2, FS_CardinalityType
<1> QED
  BY <1>6 DEF f

(* There are nine rows.                                                    *)
LEMMA RowsAreFinite == IsFiniteSet(Rows)
<1>1. Rows = {"VALID", "ATTRIBUTE_DISCARD", "TREAT_AS_WITHDRAW", "AFI_SAFI_DISABLE",
              "SESSION_RESET", "IMPL_CHOICE"} \cup {ROWS[s] : s \in StatefulSuites}
  BY DEF Rows, ParseResult
<1>2. \A S, a, b, c : IsFiniteSet(S) => IsFiniteSet(S \cup {a, b, c})
  <2> SUFFICES ASSUME NEW S, NEW a, NEW b, NEW c, IsFiniteSet(S)
               PROVE  IsFiniteSet(S \cup {a, b, c})
    OBVIOUS
  <2>1. S \cup {a, b, c} = ((S \cup {a}) \cup {b}) \cup {c}
    OBVIOUS
  <2> QED
    BY <2>1, FS_AddElement
<1>3. IsFiniteSet({ROWS[s] : s \in StatefulSuites})
  <2>1. {ROWS[s] : s \in StatefulSuites}
          = {} \cup {ROWS["grstate"], ROWS["grgenerated"], ROWS["routecompetition"]}
    BY DEF StatefulSuites
  <2>2. IsFiniteSet({} \cup {ROWS["grstate"], ROWS["grgenerated"], ROWS["routecompetition"]})
    BY <1>2, FS_EmptySet
  <2> QED
    BY <2>1, <2>2
<1>4. Rows = ({ROWS[s] : s \in StatefulSuites}
                \cup {"VALID", "ATTRIBUTE_DISCARD", "TREAT_AS_WITHDRAW"})
                \cup {"AFI_SAFI_DISABLE", "SESSION_RESET", "IMPL_CHOICE"}
  BY <1>1
<1> QED
  BY <1>2, <1>3, <1>4
(***************************************************************************)
(* The plan                                                                *)
(***************************************************************************)

(* The suites by their places in the order.                                *)
LEMMA SuiteOf ==
  ASSUME step \in 1 .. 9
  PROVE  /\ Suite \in UpdateSuites <=> step <= 4
         /\ Suite \in {"legacy", "aspath"} <=> step <= 2
         /\ Suite = "mpreach" <=> step = 3
         /\ Suite = "opencap" <=> step = 5
         /\ Suite = "grrestart" <=> step = 6
         /\ Suite = "grstate" <=> step = 7
         /\ Suite = "grgenerated" <=> step = 8
         /\ Suite = "routecompetition" <=> step = 9
         /\ Suite \in OpenSuites <=> step \in {5, 6}
         /\ Suite \in StatefulSuites <=> step >= 7
<1>1. \/ step = 1 \/ step = 2 \/ step = 3 \/ step = 4 \/ step = 5 \/ step = 6 \/ step = 7
      \/ step = 8 \/ step = 9
  OBVIOUS
<1>2. /\ Order[1] = "legacy" /\ Order[2] = "aspath" /\ Order[3] = "mpreach"
      /\ Order[4] = "routerefresh" /\ Order[5] = "opencap" /\ Order[6] = "grrestart"
      /\ Order[7] = "grstate" /\ Order[8] = "grgenerated" /\ Order[9] = "routecompetition"
  BY DEF Order
<1> QED
  BY <1>1, <1>2 DEF Suite, UpdateSuites, OpenSuites, StatefulSuites

(* There are nine of them.                                                 *)
LEMMA NineSuites == Len(Order) = 9
BY DEF Order

(* Where UPDATE suites are run without the OPEN suite, one is run alone.   *)
LEMMA AloneOrClosed ==
  plan \cap UpdateSuites # {} /\ "opencap" \notin plan => NoneConnects
<1> SUFFICES ASSUME NEW s \in UpdateSuites, s \in plan, "opencap" \notin plan
             PROVE  NoneConnects
  OBVIOUS
<1>1. run.suite \notin {"all", "all_no_gr", "all_existing", "opencap"} /\ run.suite = s
  BY DEF plan, UpdateSuites
<1> QED
  BY <1>1 DEF NoneConnects, plan, UpdateSuites

(***************************************************************************)
(* Types                                                                   *)
(***************************************************************************)

(* What count does, figure by figure.                                      *)
LEMMA CountIs ==
  ASSUME Types, NEW row \in Rows, NEW total \in Nat, NEW pass \in Nat, NEW fail \in Nat,
         Count(row, total, pass, fail)
  PROVE  /\ tally'.TOTAL_EXECUTED = tally.TOTAL_EXECUTED + total
         /\ tally'.FRR_CRASH = tally.FRR_CRASH
         /\ tally'.MATRIX \in [Rows -> Figures]
         /\ \A r \in Rows :
              /\ r # row => tally'.MATRIX[r] = tally.MATRIX[r]
              /\ r = row => /\ tally'.MATRIX[r].TOTAL = tally.MATRIX[r].TOTAL + total
                            /\ tally'.MATRIX[r].PASS = tally.MATRIX[r].PASS + pass
                            /\ tally'.MATRIX[r].FAIL = tally.MATRIX[r].FAIL + fail
         /\ tally' = [TOTAL_EXECUTED |-> tally'.TOTAL_EXECUTED, FRR_CRASH |-> tally'.FRR_CRASH,
                      MATRIX |-> tally'.MATRIX]
         /\ discrepancies' = discrepancies + fail /\ discrepancies' \in Nat
<1> DEFINE m == tally.MATRIX
           new == [TOTAL |-> m[row].TOTAL + total, PASS |-> m[row].PASS + pass,
                   FAIL |-> m[row].FAIL + fail]
<1>1. tally' = [TOTAL_EXECUTED |-> tally.TOTAL_EXECUTED + total, FRR_CRASH |-> tally.FRR_CRASH,
                MATRIX |-> [m EXCEPT ![row] = new]]
  BY DEF Types, Count
<1>2. m \in [Rows -> Figures] /\ new \in Figures
  <2>1. m \in [Rows -> Figures]
    BY DEF Types
  <2>2. m[row] \in Figures
    BY <2>1
  <2> QED
    BY <2>1, <2>2 DEF Figures
<1>3. /\ new.TOTAL = m[row].TOTAL + total /\ new.PASS = m[row].PASS + pass
      /\ new.FAIL = m[row].FAIL + fail
  OBVIOUS
<1>4. discrepancies' = discrepancies + fail /\ discrepancies' \in Nat
  BY DEF Types, Count
<1> HIDE DEF m, new
<1>5. tally'.MATRIX = [m EXCEPT ![row] = new]
  BY <1>1
<1>6. /\ tally'.MATRIX \in [Rows -> Figures]
      /\ \A r \in Rows : tally'.MATRIX[r] = IF r = row THEN new ELSE m[r]
  BY <1>2, <1>5
<1> QED
  BY <1>1, <1>3, <1>4, <1>6 DEF m
(***************************************************************************)
(* What a step does to the books                                           *)
(***************************************************************************)
Elsewhere ==
  \/ Start \/ SkipSuite \/ BeginSuite \/ Rest \/ SessionEnds \/ Abort \/ Exit \/ Done
  \/ UNCHANGED vars

Judging == UpdateDry \/ UpdateCase \/ OpenDry \/ OpenCase

Refusing == UpdateCrash \/ OpenRefused

Tracing == TraceLive \/ TraceApart

(* Every step is one of these.                                             *)
LEMMA StepKinds ==
  ASSUME [Next]_vars
  PROVE  Elsewhere \/ Judging \/ Refusing \/ Tracing \/ RouteErrs \/ EndSuite
BY DEF Next, Cases, Traces, Elsewhere, Judging, Refusing, Tracing

(* Nothing is counted between the cases.                                   *)
LEMMA ElsewhereKeeps ==
  ASSUME Types, Planned, Elsewhere
  PROVE  UNCHANGED <<run, results, error, books, wrong>>
<1>1. CASE BeginSuite
  <2>1. results = <<>> /\ error = FALSE
    BY <1>1 DEF BeginSuite, Planned, InSuite, Types
  <2> QED
    BY <1>1, <2>1 DEF BeginSuite, suites, books
<1>2. CASE SkipSuite
  BY <1>2 DEF SkipSuite, suites, books
<1>3. CASE Start \/ Rest \/ SessionEnds \/ Abort \/ Exit \/ Done \/ UNCHANGED vars
  BY <1>3 DEF Start, Rest, SessionEnds, Abort, Exit, Done, vars, suites, books
<1> QED
  BY <1>1, <1>2, <1>3 DEF Elsewhere

(* A case is counted in the row of its verdict, and blamed if it fails.    *)
Counted(row, pass, fail) ==
  /\ Count(row, 1, pass, fail)
  /\ IF Quiet THEN pass = 0 /\ fail = 0 ELSE pass + fail = 1
  /\ wrong' = IF fail = 1 THEN wrong \cup {"deviation"} ELSE wrong

(* That is what evaluate_case does, whatever was observed.                 *)
LEMMA CaseIsCounted ==
  ASSUME NEW row, NEW observed, NEW allowed, evaluate_case(row, observed, allowed)
  PROVE  \E pass, fail \in {0, 1} : Counted(row, pass, fail)
<1>1. CASE Quiet
  BY <1>1 DEF evaluate_case, Blame, Counted
<1>2. CASE ~Quiet /\ observed \in allowed
  BY <1>2 DEF evaluate_case, Blame, Counted
<1>3. CASE ~Quiet /\ observed \notin allowed
  BY <1>3 DEF evaluate_case, Blame, Counted
<1> QED
  BY <1>1, <1>2, <1>3

(* That is what every such case does.                                      *)
LEMMA JudgingCounts ==
  ASSUME Judging
  PROVE  /\ \E row \in ParseResult, pass, fail \in {0, 1} : Counted(row, pass, fail)
         /\ begun' = begun + 1 /\ left > 0 /\ left' = left - 1
         /\ UNCHANGED <<run, step, results, error>>
<1>1. OracleVerdicts \subseteq ParseResult /\ OpenVerdicts \subseteq ParseResult
  BY CampaignAssumption DEF OracleVerdicts, OpenVerdicts, ParseResult
<1>2. ASSUME UpdateDry
      PROVE  /\ \E v \in ParseResult : \E o, a : evaluate_case(v, o, a)
             /\ BeginCase /\ UNCHANGED <<run, step, results, error>>
  BY <1>1, <1>2 DEF UpdateDry
<1>3. ASSUME UpdateCase
      PROVE  /\ \E v \in ParseResult : \E o, a : evaluate_case(v, o, a)
             /\ BeginCase /\ UNCHANGED <<run, step, results, error>>
  BY <1>1, <1>3 DEF UpdateCase, Update
<1>4. ASSUME OpenDry
      PROVE  /\ \E v \in ParseResult : \E o, a : evaluate_case(v, o, a)
             /\ BeginCase /\ UNCHANGED <<run, step, results, error>>
  BY <1>1, <1>4 DEF OpenDry, suites
<1>5. ASSUME OpenCase
      PROVE  /\ \E v \in ParseResult : \E o, a : evaluate_case(v, o, a)
             /\ BeginCase /\ UNCHANGED <<run, step, results, error>>
  BY <1>1, <1>5 DEF OpenCase, suites
<1>6. /\ \E v \in ParseResult : \E o, a : evaluate_case(v, o, a)
      /\ BeginCase /\ UNCHANGED <<run, step, results, error>>
  BY <1>2, <1>3, <1>4, <1>5 DEF Judging
<1> QED
  BY <1>6, CaseIsCounted DEF BeginCase

(* A connection that fails is counted and blamed.                          *)
LEMMA RefusingCounts ==
  ASSUME Refusing
  PROVE  /\ ConnectionFails /\ begun' = begun + 1 /\ left > 0 /\ left' = left - 1
         /\ UNCHANGED <<run, step, results, error>>
BY DEF Refusing, UpdateCrash, OpenRefused, BeginCase, suites

(* A trace has an outcome, which is recorded when its suite ends.          *)
LEMMA TracingRecords ==
  ASSUME Types, Planned, Tracing
  PROVE  /\ \E result \in Outcome : Trace(result) /\ (result.error => ~result.pass)
         /\ step \in 7 .. 9 /\ ~error
<1>1. \A result \in {Passed} \cup Failed : result \in Outcome /\ (result.error => ~result.pass)
  <2>1. Passed \in Outcome /\ ~Passed.error
    BY DEF Passed, Outcome
  <2>2. ASSUME NEW r \in Failed PROVE r \in Outcome /\ ~r.pass
    <3>1. r \in [pass : {FALSE}, error : BOOLEAN]
      BY DEF Failed
    <3>2. r.pass = FALSE /\ r \in Outcome
      BY <3>1 DEF Outcome
    <3> QED
      BY <3>2
  <2> QED
    BY <2>1, <2>2
<1>2. \E result \in {Passed} \cup Failed : Trace(result)
  BY DEF Tracing, TraceLive, TraceApart
<1>3. Suite \in StatefulSuites /\ (Suite \in {"grstate", "grgenerated"} \/ ~error)
  BY DEF Tracing, TraceLive, TraceApart, StatefulSuites
<1>4. step \in 1 .. 9
  BY <1>2 DEF Trace, Planned, InSuite, Types
<1> QED
  BY <1>1, <1>2, <1>3, <1>4, SuiteOf DEF Planned

(* The results behind the last trace.                                      *)
LEMMA ResultsAre ==
  ASSUME Types
  PROVE  /\ Results \in Seq(Outcome)
         /\ Len(Results) = Len(results) \/ Len(Results) = Len(results) + 1
         /\ ~error => Results = results
         /\ Failing \in SUBSET (1 .. Len(Results)) /\ (Failing # {} <=> Bad)
<1>1. /\ results \in Seq(Outcome) /\ [pass |-> FALSE, error |-> TRUE] \in Outcome
      /\ error \in BOOLEAN
  BY DEF Types, Outcome
<1>2. CASE error /\ \A i \in DOMAIN results : results[i].pass
  <2> DEFINE r == [pass |-> FALSE, error |-> TRUE]
  <2>1. Results = Append(results, r) /\ r.error
    BY <1>2 DEF Results
  <2> HIDE DEF r
  <2>2. /\ Results \in Seq(Outcome) /\ Len(Results) = Len(results) + 1
        /\ Results[Len(Results)].error /\ Len(Results) \in 1 .. Len(Results)
    BY <1>1, <2>1 DEF r
  <2>3. Failing \in SUBSET (1 .. Len(Results)) /\ Len(Results) \in Failing
    BY <2>2 DEF Failing
  <2> QED
    BY <1>2, <2>2, <2>3 DEF Bad
<1>3. CASE ~(error /\ \A i \in DOMAIN results : results[i].pass)
  <2>1. Results = results
    BY <1>3 DEF Results
  <2> QED
    BY <1>1, <1>3, <2>1 DEF Failing, Bad
<1> QED
  BY <1>2, <1>3
(***************************************************************************)
(* The steps: types and places                                             *)
(***************************************************************************)

(* What the steps between the cases do to the places.                      *)
LEMMA ElsewherePlaces ==
  ASSUME Types, Planned, Elsewhere
  PROVE  /\ UNCHANGED <<run, alloc, used, borrowed>> /\ results' = results /\ error' = error
         /\ step' \in 1 .. 10 /\ left' \in Nat /\ Len(results) + left' <= MaxCases
         /\ \/ step' = step
            \/ step' = step + 1 /\ pc = "suite" /\ pc' = "suite"
         /\ InSuite' => step' = step /\ (InSuite \/ (step <= 9 /\ Suite \in plan))
         /\ InSuite /\ pc' # pc => InSuite'
         /\ pc' \in {"start", "suite", "case", "rest", "ValueError", "aborted", "SystemExit",
                     "returned"}
<1>1. CASE BeginSuite
  <2>1. results = <<>> /\ error = FALSE /\ left' \in 0 .. MaxCases
    BY <1>1 DEF BeginSuite, Planned, InSuite, Types
  <2>2. MaxCases \in Nat
    BY CampaignAssumption
  <2>3. /\ UNCHANGED <<run, step, alloc, used, borrowed>> /\ results' = <<>> /\ error' = FALSE
        /\ pc = "suite" /\ step <= 9 /\ Suite \in plan /\ pc' \in {"case", "rest"}
    BY <1>1, NineSuites DEF BeginSuite, suites, announced
  <2>4. left' \in Nat /\ Len(results) + left' <= MaxCases
    <3>1. Len(results) = 0
      BY <2>1
    <3>2. left' \in 0 .. MaxCases
      BY <2>1
    <3>3. left' \in Nat /\ left' <= MaxCases
      BY <2>2, <3>2
    <3>4. \A a, b : a = 0 /\ b \in Nat => a + b = b
      OBVIOUS
    <3>5. Len(results) + left' = left'
      BY <3>1, <3>3, <3>4, Zenon
    <3> QED
      BY <3>3, <3>5
  <2> QED
    BY <2>1, <2>3, <2>4 DEF Types, InSuite
<1>2. CASE SkipSuite
  BY <1>2, NineSuites DEF SkipSuite, Types, Planned, InSuite, announced
<1>3. CASE Start \/ Rest \/ SessionEnds \/ Abort \/ Exit \/ Done \/ UNCHANGED vars
  BY <1>3 DEF Start, Rest, SessionEnds, Abort, Exit, Done, vars, suites, books, network, announced,
              Types, Planned, InSuite
<1> QED
  BY <1>1, <1>2, <1>3 DEF Elsewhere

(* What the cases do to them.                                              *)
LEMMA CasePlaces ==
  ASSUME Types, Planned, Judging \/ Refusing \/ Tracing \/ RouteErrs
  PROVE  /\ UNCHANGED <<run, step>> /\ alloc' \in Nat /\ pc = "case" /\ pc' \in {"case", "rest"}
         /\ borrowed' \in BOOLEAN
         /\ \/ alloc' = alloc
            \/ alloc' = alloc + 1 /\ step <= 4
<1>1. alloc \in Nat /\ borrowed \in BOOLEAN
  BY DEF Types
<1>r. \A prefixes, asked : Announces(prefixes, asked) => borrowed' \in BOOLEAN
  BY DEF Announces
<1>2. ASSUME Judging
      PROVE  /\ UNCHANGED <<run, step>> /\ pc = "case" /\ pc' \in {"case", "rest"}
             /\ borrowed' \in BOOLEAN
             /\ alloc' = alloc \/ (alloc' = alloc + 1 /\ Suite \in UpdateSuites)
  <2>1. CASE UpdateCase
    <3>1. PICK v \in OracleVerdicts, o \in Observations : Update(v, o)
      BY <2>1 DEF UpdateCase
    <3>2. pc' \in {"case", "rest"} /\ pc = "case"
      BY <2>1, <3>1 DEF UpdateCase, Update, BeginCase
    <3>3. borrowed' \in BOOLEAN
      BY <1>1, <1>r, <3>1 DEF Update
    <3> QED
      BY <2>1, <3>2, <3>3 DEF UpdateCase
  <2>2. CASE UpdateDry \/ OpenDry \/ OpenCase
    <3>1. UNCHANGED <<run, step, borrowed>> /\ pc = "case" /\ pc' \in {"case", "rest"}
      BY <2>2 DEF UpdateDry, OpenDry, OpenCase, BeginCase, suites, network, announced
    <3>2. alloc' = alloc \/ (alloc' = alloc + 1 /\ Suite \in UpdateSuites)
      BY <2>2 DEF UpdateDry, OpenDry, OpenCase, suites
    <3> QED
      BY <1>1, <3>1, <3>2
  <2> QED
    BY <1>2, <2>1, <2>2 DEF Judging
<1>3. ASSUME Refusing
      PROVE  /\ UNCHANGED <<run, step>> /\ pc = "case" /\ pc' \in {"case", "rest"}
             /\ borrowed' \in BOOLEAN
             /\ alloc' = alloc \/ (alloc' = alloc + 1 /\ Suite \in UpdateSuites)
  <2>1. CASE UpdateCrash
    BY <1>1, <2>1 DEF UpdateCrash, BeginCase, announced
  <2>2. CASE OpenRefused
    <3>1. UNCHANGED <<run, step, pc, alloc, borrowed>> /\ pc = "case"
      BY <2>2 DEF OpenRefused, BeginCase, suites, network, announced
    <3> QED
      BY <1>1, <3>1
  <2> QED
    BY <1>3, <2>1, <2>2 DEF Refusing
<1>4. ASSUME Tracing \/ RouteErrs
      PROVE  /\ UNCHANGED <<run, step>> /\ pc = "case" /\ pc' \in {"case", "rest"}
             /\ borrowed' \in BOOLEAN /\ alloc' = alloc
  BY <1>1, <1>4 DEF Tracing, TraceLive, TraceApart, Trace, RouteErrs, suites, network,
                 announced, Announces
<1>5. pc = "case" => step \in 1 .. 9
  BY DEF Types, Planned, InSuite
<1> QED
  BY <1>1, <1>2, <1>3, <1>4, <1>5, SuiteOf

(* Every step keeps the types of the network.                              *)
LEMMA NetworkTypes ==
  ASSUME Types, [Next]_vars
  PROVE  sock' \in BOOLEAN /\ held' \in BOOLEAN /\ collided' \in BOOLEAN
<1>1. CASE Elsewhere
  BY <1>1 DEF Elsewhere, Start, SkipSuite, BeginSuite, Rest, SessionEnds, Abort, Exit, Done, vars,
              CloseSession, network, announced, Types
<1>2. CASE Judging
  BY <1>2 DEF Judging, UpdateDry, UpdateCase, Update, OpenDry, OpenCase, Opened, network, announced,
              Types
<1>3. CASE Refusing
  BY <1>3 DEF Refusing, UpdateCrash, OpenRefused, Opened, network, announced, Types
<1>4. CASE Tracing \/ RouteErrs \/ EndSuite
  BY <1>4 DEF Tracing, TraceLive, TraceApart, RouteErrs, EndSuite, Opened, network, announced, Types
<1> QED
  BY <1>1, <1>2, <1>3, <1>4, StepKinds
(* The end of a stateful suite counts its results in the suite's row; the  *)
(* others have none.                                                       *)
LEMMA EndCounts ==
  ASSUME Types, Planned, EndSuite
  PROVE  \/ /\ UNCHANGED <<tally, discrepancies>>
            /\ results = <<>> /\ ~error /\ step <= 6
         \/ /\ step >= 7
            /\ \E row \in Rows, total, pass, fail \in Nat :
                 /\ Count(row, total, pass, fail)
                 /\ total = Len(Results) /\ (fail = 0 <=> ~Bad)
                 /\ IF Quiet THEN pass = 0 ELSE pass + fail = total
<1>1. step \in 1 .. 9 /\ pc = "case"
  BY DEF EndSuite, Types, Planned, InSuite
<1>2. CASE Suite \notin StatefulSuites
  <2>1. step <= 6
    BY <1>1, <1>2, SuiteOf
  <2> QED
    BY <1>2, <2>1 DEF EndSuite, Planned, Types
<1>3. CASE Suite \in StatefulSuites
  <2> DEFINE total == Len(Results)
             fail == Cardinality(Failing)
  <2>1. step >= 7 /\ Count(ROWS[Suite], total, Passing, fail)
    BY <1>1, <1>3, SuiteOf DEF EndSuite, record_stateful_results
  <2>2. ROWS[Suite] \in Rows
    BY <1>3 DEF Rows
  <2>3. Results \in Seq(Outcome) /\ Failing \in SUBSET (1 .. total) /\ (Failing # {} <=> Bad)
    BY ResultsAre
  <2>4. total \in Nat
    BY <2>3
  <2>5. IsFiniteSet(1 .. total) /\ Cardinality(1 .. total) = total
    <3>1. total \in Int /\ 1 \in Int /\ (1 > total => total = 0)
      BY <2>4
    <3> HIDE DEF total
    <3>2. /\ IsFiniteSet(1 .. total)
          /\ Cardinality(1 .. total) = IF 1 > total THEN 0 ELSE total - 1 + 1
      BY <3>1, FS_Interval
    <3> QED
      BY <2>4, <3>1, <3>2
  <2>6. IsFiniteSet(Failing) /\ fail <= total
    BY <2>3, <2>5, FS_Subset
  <2>7. fail \in Nat /\ (fail = 0 <=> Failing = {})
    BY <2>6, FS_CardinalityType, FS_EmptySet
  <2>8. Passing = IF Quiet THEN 0 ELSE total - fail
    BY DEF Passing
  <2> HIDE DEF total, fail
  <2>9. Passing \in Nat /\ (IF Quiet THEN Passing = 0 ELSE Passing + fail = total)
    BY <2>4, <2>6, <2>7, <2>8
  <2> QED
    BY <2>1, <2>2, <2>3, <2>4, <2>7, <2>9 DEF total
<1> QED
  BY <1>2, <1>3

(* Every step keeps the types and the places.                              *)
LEMMA PlacesStep ==
  ASSUME Types, Planned, [Next]_vars
  PROVE  Types' /\ Planned'
<1> USE NetworkTypes
<1>1. CASE Elsewhere
  <2>1. UNCHANGED <<run, results, error, books, wrong>>
    BY <1>1, ElsewhereKeeps
  <2>2. /\ UNCHANGED <<run, alloc, used, borrowed>>
        /\ step' \in 1 .. 10 /\ left' \in Nat /\ Len(results) + left' <= MaxCases
        /\ step' = step \/ (step' = step + 1 /\ pc = "suite" /\ pc' = "suite")
        /\ InSuite' => step' = step /\ (InSuite \/ (step <= 9 /\ Suite \in plan))
        /\ InSuite /\ pc' # pc => InSuite'
        /\ pc' \in {"start", "suite", "case", "rest", "ValueError", "aborted", "SystemExit",
                    "returned"}
    BY <1>1, ElsewherePlaces
  <2>3. Types'
    BY <2>1, <2>2 DEF Types, books
  <2>4. plan' = plan /\ (step' = step => Suite' = Suite)
    BY <2>1 DEF plan, Suite
  <2>5. InSuite' => step' <= 9 /\ Suite' \in plan'
    BY <2>2, <2>4 DEF Planned
  <2>6. InSuite => InSuite' /\ step' = step
    BY <2>2 DEF InSuite
  <2> QED
    BY <2>1, <2>2, <2>3, <2>5, <2>6 DEF Planned
<1>2. CASE Judging \/ Refusing \/ Tracing \/ RouteErrs
  <2>1. /\ UNCHANGED <<run, step>> /\ alloc' \in Nat /\ pc = "case" /\ pc' \in {"case", "rest"}
        /\ borrowed' \in BOOLEAN
    BY <1>2, CasePlaces
  <2>2. Suite' = Suite /\ plan' = plan /\ InSuite /\ InSuite' /\ step <= 9 /\ Suite \in plan
    BY <2>1 DEF Planned, InSuite, Suite, plan
  <2>3. /\ results' \in Seq(Outcome) /\ left' \in Nat /\ Len(results') + left' <= MaxCases
        /\ results' # <<>> => step >= 7
        /\ error' \in BOOLEAN /\ (error' => step = 9) /\ begun' \in Nat
    <3>1. ASSUME Judging \/ Refusing
          PROVE  results' = results /\ error' = error /\ left > 0 /\ left' = left - 1
                 /\ begun' = begun + 1
      BY <3>1, JudgingCounts, RefusingCounts
    <3>2. ASSUME Tracing
          PROVE  /\ \E result \in Outcome : results' = Append(results, result)
                 /\ left > 0 /\ (left' = left - 1 \/ left' = 0) /\ error' = error /\ step >= 7
                 /\ begun' = begun + 1
      BY <3>2, TracingRecords DEF Trace
    <3>3. ASSUME RouteErrs
          PROVE  results' = results /\ left' = 0 /\ error' = TRUE /\ step = 9
                 /\ begun' = begun + 1
      <4>1. Suite = "routecompetition"
        BY <3>3 DEF RouteErrs
      <4> QED
        BY <2>2, <3>3, <4>1, SuiteOf DEF RouteErrs, Types
    <3>4. /\ results \in Seq(Outcome) /\ left \in Nat /\ Len(results) + left <= MaxCases
          /\ MaxCases \in Nat /\ begun \in Nat /\ error \in BOOLEAN
      BY CampaignAssumption DEF Types, Planned
    <3>5. Len(results) \in Nat
      BY <3>4
    <3>6. CASE Judging \/ Refusing
      BY <3>1, <3>4, <3>5, <3>6 DEF Planned
    <3>7. CASE Tracing
      <4>1. PICK result \in Outcome : results' = Append(results, result)
        BY <3>2, <3>7
      <4>2. results' \in Seq(Outcome) /\ Len(results') = Len(results) + 1
        BY <3>4, <4>1
      <4> QED
        BY <3>2, <3>4, <3>5, <3>7, <4>2 DEF Planned
    <3>8. CASE RouteErrs
      BY <3>3, <3>4, <3>5, <3>8
    <3> QED
      BY <1>2, <3>6, <3>7, <3>8
  <2>4. /\ tally'.TOTAL_EXECUTED \in Nat /\ tally'.FRR_CRASH \in Nat
        /\ tally' = [TOTAL_EXECUTED |-> tally'.TOTAL_EXECUTED, FRR_CRASH |-> tally'.FRR_CRASH,
                     MATRIX |-> tally'.MATRIX]
        /\ tally'.MATRIX \in [Rows -> Figures] /\ discrepancies' \in Nat
    <3>1. CASE Judging
      <4>1. PICK row \in ParseResult, pass, fail \in {0, 1} : Counted(row, pass, fail)
        BY <3>1, JudgingCounts
      <4>2. row \in Rows
        BY DEF Rows
      <4>3. Count(row, 1, pass, fail) /\ pass \in Nat /\ fail \in Nat /\ 1 \in Nat
        BY <4>1 DEF Counted
      <4>4. /\ tally'.TOTAL_EXECUTED = tally.TOTAL_EXECUTED + 1
            /\ tally'.FRR_CRASH = tally.FRR_CRASH
            /\ tally'.MATRIX \in [Rows -> Figures]
            /\ tally' = [TOTAL_EXECUTED |-> tally'.TOTAL_EXECUTED,
                         FRR_CRASH |-> tally'.FRR_CRASH, MATRIX |-> tally'.MATRIX]
            /\ discrepancies' \in Nat
        BY <4>2, <4>3, CountIs
      <4> QED
        BY <4>4 DEF Types
    <3>2. CASE Refusing
      <4>1. tally' = [tally EXCEPT !.FRR_CRASH = @ + 1] /\ discrepancies' = discrepancies
        BY <3>2, RefusingCounts DEF ConnectionFails
      <4> QED
        BY <4>1 DEF Types
    <3>3. CASE Tracing \/ RouteErrs
      BY <3>3 DEF Types, Tracing, TraceLive, TraceApart, Trace, RouteErrs
    <3> QED
      BY <1>2, <3>1, <3>2, <3>3
  <2>5. Types'
    BY <2>1, <2>3, <2>4 DEF Types
  <2> QED
    BY <2>1, <2>2, <2>3, <2>5 DEF Planned
<1>3. CASE EndSuite
  <2>1. /\ UNCHANGED <<run, alloc, left, begun, network>> /\ pc' = "suite" /\ step' = step + 1
        /\ results' = <<>> /\ error' = FALSE /\ left = 0 /\ step <= 9
    BY <1>3 DEF EndSuite, Planned, InSuite
  <2>2. /\ tally'.TOTAL_EXECUTED \in Nat /\ tally'.FRR_CRASH \in Nat
        /\ tally' = [TOTAL_EXECUTED |-> tally'.TOTAL_EXECUTED, FRR_CRASH |-> tally'.FRR_CRASH,
                     MATRIX |-> tally'.MATRIX]
        /\ tally'.MATRIX \in [Rows -> Figures] /\ discrepancies' \in Nat
    <3>1. CASE UNCHANGED <<tally, discrepancies>>
      BY <3>1 DEF Types
    <3>2. CASE ~(UNCHANGED <<tally, discrepancies>>)
      <4>1. PICK row \in Rows, total, pass, fail \in Nat : Count(row, total, pass, fail)
        BY <1>3, <3>2, EndCounts
      <4> QED
        BY <4>1, CountIs DEF Types
    <3> QED
      BY <3>1, <3>2
  <2>3. results' \in Seq(Outcome) /\ Len(results') = 0 /\ MaxCases \in Nat
    BY <2>1, CampaignAssumption
  <2>4. /\ step' \in 1 .. 10 /\ left' \in Nat /\ alloc' \in Nat /\ begun' \in Nat
        /\ borrowed' \in BOOLEAN /\ run' \in Run /\ error' \in BOOLEAN
    <3>1. borrowed' = borrowed
      BY <2>1 DEF network, announced
    <3>2. borrowed' \in BOOLEAN /\ run' \in Run
      BY <2>1, <3>1 DEF Types
    <3>3. left' \in Nat /\ alloc' \in Nat /\ begun' \in Nat
      BY <2>1 DEF Types
    <3>4. step' \in 1 .. 10
      BY <2>1 DEF Types
    <3> QED
      BY <2>1, <3>2, <3>3, <3>4
  <2>5. Types'
    BY <2>1, <2>2, <2>3, <2>4 DEF Types
  <2> QED
    BY <2>1, <2>3, <2>5 DEF Planned, InSuite
<1> QED
  BY <1>1, <1>2, <1>3, StepKinds
(***************************************************************************)
(* The session of the runner                                               *)
(***************************************************************************)

(* No step connects while the daemon still has a session.                  *)
LEMMA ClosedStep ==
  ASSUME Types, Planned, Closed, [Next]_vars
  PROVE  Closed'
<1>0. Types' /\ Planned'
  BY PlacesStep
<1>1. ASSUME run' = run
      PROVE  /\ plan' = plan /\ (NoneConnects' <=> NoneConnects) /\ (LIVE' <=> LIVE)
             /\ run'.patient = run.patient
  BY <1>1 DEF plan, NoneConnects, LIVE
<1>2. ASSUME NoneConnects, Suite \in plan, step \in 1 .. 9 PROVE step <= 4
  BY <1>2, SuiteOf DEF NoneConnects
<1>3. CASE BeginSuite
  <2>1. /\ UNCHANGED <<run, step, held, collided>> /\ CloseSession
        /\ pc = "suite" /\ Suite \in plan /\ step \in 1 .. 9
        /\ pc' = IF LIVE /\ Suite \in OpenSuites THEN "rest" ELSE "case"
    BY <1>3, NineSuites DEF BeginSuite, suites, Types
  <2>2. sock' => sock /\ step # 7 /\ step # 5
    BY <2>1, SuiteOf DEF CloseSession
  <2>3. sock' => step <= 4
    BY <1>2, <2>1, <2>2 DEF Closed
  <2>4. ASSUME run.patient, held, ~sock', pc' = "case" PROVE FALSE
    <3>1. LIVE /\ step \notin {5, 6}
      BY <2>1, <2>4, SuiteOf DEF Closed
    <3>2. CASE sock
      <4>1. step = 7
        BY <2>1, <3>1, <3>2, <2>4, SuiteOf DEF CloseSession
      <4> QED
        BY <1>2, <2>1, <3>2, <4>1 DEF Closed
    <3>3. CASE ~sock
      BY <1>2, <2>1, <2>4, <3>3 DEF Closed
    <3> QED
      BY <3>2, <3>3
  <2> QED
    BY <1>1, <2>1, <2>2, <2>3, <2>4 DEF Closed, InSuite
<1>4. CASE SkipSuite
  <2>1. /\ UNCHANGED <<run, held, collided, pc>> /\ CloseSession /\ step' = step + 1
        /\ pc = "suite" /\ Suite \notin plan /\ step \in 1 .. 9
    BY <1>4, NineSuites DEF SkipSuite, Types
  <2>2. sock' <=> sock /\ step # 7
    BY <2>1, SuiteOf DEF CloseSession
  <2>3. sock' /\ step + 1 >= 6 => NoneConnects
    <3>1. ASSUME step = 5, sock PROVE NoneConnects
      BY <2>1, <3>1, SuiteOf, AloneOrClosed DEF Closed
    <3> QED
      BY <2>1, <2>2, <3>1 DEF Closed
  <2>4. run.patient /\ held /\ ~sock' => step + 1 >= 8 /\ NoneConnects
    BY <2>1, <2>2 DEF Closed
  <2> QED
    BY <1>1, <2>1, <2>2, <2>3, <2>4 DEF Closed, InSuite
<1>5. CASE Start \/ Rest \/ SessionEnds \/ Abort \/ Exit \/ Done \/ UNCHANGED vars
  <2>1. /\ UNCHANGED <<run, step, sock, collided>> /\ (held' => held)
        /\ \/ pc' = pc
           \/ pc' \in {"ValueError", "aborted", "SystemExit", "returned"} /\ (InSuite' => InSuite)
           \/ pc = "start" /\ pc' \in {"ValueError", "suite"}
           \/ pc = "rest" /\ pc' = "case" /\ (run.patient /\ ~sock => ~held)
    BY <1>5 DEF Start, Rest, SessionEnds, Abort, Exit, Done, vars, suites, network, announced,
                InSuite
  <2> QED
    BY <1>1, <2>1 DEF Closed, InSuite
<1>6. CASE Judging \/ Refusing \/ Tracing \/ RouteErrs
  <2>1. /\ UNCHANGED <<run, step>> /\ pc = "case" /\ pc' \in {"case", "rest"}
        /\ step \in 1 .. 9 /\ Suite \in plan
    BY <1>6, CasePlaces DEF Types, Planned, InSuite
  <2>2. run.patient /\ ~sock => ~held /\ ~collided
    BY <2>1 DEF Closed
  <2>3. /\ ~run.patient \/ ~collided
        /\ sock => step <= 4 /\ plan \cap UpdateSuites # {} /\ LIVE
        /\ held => LIVE
    BY <2>1 DEF Closed, InSuite
  <2>4. CASE UpdateDry \/ OpenDry \/ OpenRefused \/ TraceApart \/ RouteErrs
    <3>1. UNCHANGED <<sock, held, collided, pc>>
      BY <2>4 DEF UpdateDry, OpenDry, OpenRefused, TraceApart, RouteErrs, network, announced
    <3> QED
      BY <1>1, <2>1, <2>3, <3>1 DEF Closed, InSuite
  <2>5. CASE UpdateCrash
    <3>1. sock' = FALSE /\ ~sock /\ collided' = (collided \/ held) /\ pc' = "rest" /\ LIVE
      BY <2>5 DEF UpdateCrash, Opened, Closed, Types
    <3> QED
      BY <1>1, <2>1, <2>2, <2>3, <3>1 DEF Closed, InSuite
  <2>6. CASE UpdateCase
    <3>1. /\ IF sock THEN collided' = collided ELSE collided' = (collided \/ held)
          /\ IF sock' THEN TRUE ELSE pc' = "rest"
      BY <2>6 DEF UpdateCase, Update, Opened
    <3>2. step <= 4 /\ plan \cap UpdateSuites # {} /\ LIVE
      BY <2>1, <2>6, SuiteOf DEF UpdateCase
    <3>3. run.patient => ~collided'
      <4>1. CASE sock
        BY <2>3, <3>1, <4>1
      <4>2. CASE ~sock
        BY <2>2, <2>3, <3>1, <4>2
      <4> QED
        BY <4>1, <4>2
    <3>4. step' <= 4 /\ ~(step' >= 6) /\ plan' \cap UpdateSuites # {} /\ LIVE'
      BY <1>1, <2>1, <3>2
    <3>5. run'.patient /\ held' /\ ~sock' => pc' = "rest"
      BY <3>1
    <3>6. run'.patient => ~collided'
      BY <1>1, <2>1, <3>3
    <3> QED
      BY <3>4, <3>5, <3>6 DEF Closed, InSuite
  <2>7. CASE OpenCase \/ TraceLive
    <3>1. sock' = sock /\ collided' = (collided \/ held) /\ pc' = "rest" /\ LIVE
      BY <2>7 DEF OpenCase, TraceLive, Opened
    <3>2. Suite \in OpenSuites \/ Suite = "grstate" \/ Suite = "grgenerated"
      BY <2>7 DEF OpenCase, TraceLive
    <3>3. step >= 5
      BY <2>1, <3>2, SuiteOf
    <3>4. ~sock
      BY <2>1, <2>3, <3>3
    <3>5. run.patient => ~collided'
      BY <2>2, <2>3, <3>1, <3>4
    <3> QED
      BY <1>1, <2>1, <3>1, <3>4, <3>5 DEF Closed, InSuite
  <2> QED
    BY <1>6, <2>4, <2>5, <2>6, <2>7 DEF Judging, Refusing, Tracing
<1>7. CASE EndSuite
  <2>1. /\ UNCHANGED <<run, sock, held, collided>> /\ pc = "case" /\ pc' = "suite"
        /\ step' = step + 1 /\ step \in 1 .. 9 /\ Suite \in plan
    BY <1>7 DEF EndSuite, network, announced, Types, Planned, InSuite
  <2> QED
    BY <1>1, <2>1 DEF Closed, InSuite
<1> QED
  BY <1>3, <1>4, <1>5, <1>6, <1>7, StepKinds DEF Elsewhere
(***************************************************************************)
(* The books and the exit                                                  *)
(***************************************************************************)

(* What went wrong is told by the figures and the results.                 *)
LEMMA BlamedStep ==
  ASSUME Types, Planned, Blamed, [Next]_vars
  PROVE  Blamed'
<1> DEFINE Told == discrepancies > 0 \/ tally.FRR_CRASH > 0 \/ Bad
<1>1. wrong # {} <=> Told
  BY DEF Blamed
<1>2. discrepancies \in Nat /\ tally.FRR_CRASH \in Nat /\ results \in Seq(Outcome)
  BY DEF Types
<1>3. wrong' # {} <=> Told'
  <2>1. CASE Elsewhere
    BY <1>1, <2>1, ElsewhereKeeps DEF books, Bad
  <2>2. CASE Judging
    <3>1. PICK row \in ParseResult, pass, fail \in {0, 1} : Counted(row, pass, fail)
      BY <2>2, JudgingCounts
    <3>2. Bad' = Bad
      BY <2>2, JudgingCounts DEF Bad
    <3>3. tally'.FRR_CRASH = tally.FRR_CRASH /\ discrepancies' = discrepancies + fail
      <4>1. Count(row, 1, pass, fail) /\ row \in Rows /\ pass \in Nat /\ fail \in Nat /\ 1 \in Nat
        BY <3>1 DEF Counted, Rows
      <4> QED
        BY <4>1, CountIs
    <3>4. wrong' = IF fail = 1 THEN wrong \cup {"deviation"} ELSE wrong
      BY <3>1 DEF Counted
    <3>5. CASE fail = 0
      BY <1>1, <1>2, <3>2, <3>3, <3>4, <3>5
    <3>6. CASE fail = 1
      BY <1>2, <3>3, <3>4, <3>6
    <3> QED
      BY <3>1, <3>5, <3>6
  <2>3. CASE Refusing
    <3>1. ConnectionFails
      BY <2>3, RefusingCounts
    <3>2. tally'.FRR_CRASH = tally.FRR_CRASH + 1 /\ wrong' = wrong \cup {"connection"}
      BY <3>1 DEF ConnectionFails, Blame, Types
    <3> QED
      BY <1>2, <3>2
  <2>4. CASE Tracing
    <3>1. PICK result \in Outcome : Trace(result) /\ (result.error => ~result.pass)
      BY <2>4, TracingRecords
    <3>2. /\ UNCHANGED <<error, tally, discrepancies>> /\ results' = Append(results, result)
          /\ wrong' = IF ~result.pass THEN wrong \cup {"trace"} ELSE wrong
      BY <3>1 DEF Trace, Blame
    <3>3. Bad' <=> Bad \/ ~result.pass
      <4>1. /\ DOMAIN results' = 1 .. Len(results) + 1 /\ DOMAIN results = 1 .. Len(results)
            /\ Len(results) \in Nat
            /\ \A i \in 1 .. Len(results) : results'[i] = results[i]
            /\ results'[Len(results) + 1] = result
        BY <1>2, <3>2
      <4>2. \A i \in 1 .. Len(results) + 1 : i \in 1 .. Len(results) \/ i = Len(results) + 1
        BY <4>1
      <4>3. Len(results) + 1 \in 1 .. Len(results) + 1
            /\ \A i \in 1 .. Len(results) : i \in 1 .. Len(results) + 1
        BY <4>1
      <4> QED
        BY <3>1, <3>2, <4>1, <4>2, <4>3 DEF Bad
    <3> QED
      BY <1>1, <3>2, <3>3
  <2>5. CASE RouteErrs
    <3>1. error' = TRUE /\ wrong' = wrong \cup {"error"}
      BY <2>5 DEF RouteErrs, Blame
    <3> QED
      BY <3>1 DEF Bad
  <2>6. CASE EndSuite
    <3>1. results' = <<>> /\ error' = FALSE /\ wrong' = wrong
      BY <2>6 DEF EndSuite
    <3>2. ~Bad'
      BY <3>1 DEF Bad
    <3>3. CASE UNCHANGED <<tally, discrepancies>> /\ results = <<>> /\ ~error
      <4>1. ~Bad
        BY <3>3 DEF Bad
      <4> QED
        BY <1>1, <3>1, <3>2, <3>3, <4>1
    <3>4. CASE ~(UNCHANGED <<tally, discrepancies>> /\ results = <<>> /\ ~error)
      <4>1. PICK row \in Rows, total, pass, fail \in Nat :
              Count(row, total, pass, fail) /\ (fail = 0 <=> ~Bad)
        BY <2>6, <3>4, EndCounts
      <4>2. tally'.FRR_CRASH = tally.FRR_CRASH /\ discrepancies' = discrepancies + fail
        BY <4>1, CountIs
      <4>3. discrepancies' > 0 <=> discrepancies > 0 \/ fail # 0
        BY <1>2, <4>2
      <4> QED
        BY <1>1, <3>1, <3>2, <4>1, <4>2, <4>3
    <3> QED
      BY <3>3, <3>4
  <2> QED
    BY <2>1, <2>2, <2>3, <2>4, <2>5, <2>6, StepKinds
<1>4. ExitIsTrue'
  <2>1. CASE Exit
    <3>1. ~Bad
      BY <2>1 DEF Exit, Planned, InSuite, Bad
    <3>2. /\ UNCHANGED <<run, wrong>>
          /\ pc' = IF run.fail_on_deviation /\ (discrepancies > 0 \/ tally.FRR_CRASH > 0)
                   THEN "SystemExit" ELSE "returned"
      BY <2>1 DEF Exit, suites
    <3> QED
      BY <1>1, <3>1, <3>2 DEF ExitIsTrue
  <2>2. CASE Done \/ UNCHANGED vars
    BY <2>2 DEF Done, vars, suites, Blamed, ExitIsTrue
  <2>3. CASE Start \/ SkipSuite \/ BeginSuite \/ Rest \/ Abort \/ EndSuite
    BY <2>3 DEF Start, SkipSuite, BeginSuite, Rest, Abort, EndSuite, ExitIsTrue
  <2>4. CASE SessionEnds
    BY <2>4 DEF SessionEnds, suites, Blamed, ExitIsTrue
  <2>5. CASE Judging \/ Refusing \/ Tracing \/ RouteErrs
    BY <2>5, CasePlaces DEF ExitIsTrue
  <2> QED
    BY <2>1, <2>2, <2>3, <2>4, <2>5, StepKinds DEF Elsewhere
<1> QED
  BY <1>3, <1>4 DEF Blamed

(* What is counted is gained by the sums.                                  *)
LEMMA CountGains ==
  ASSUME Types, NEW row \in Rows, NEW total \in Nat, NEW pass \in Nat, NEW fail \in Nat,
         Count(row, total, pass, fail)
  PROVE  /\ Sum("TOTAL") \in Int /\ Sum("TOTAL")' = Sum("TOTAL") + total
         /\ Sum("PASS") \in Int /\ Sum("PASS")' = Sum("PASS") + pass
         /\ Sum("FAIL") \in Int /\ Sum("FAIL")' = Sum("FAIL") + fail
<1> DEFINE m == tally.MATRIX
           w == tally'.MATRIX
<1>1. \A r \in Rows : m[r] \in Figures /\ w[r] \in Figures
  BY CountIs DEF Types
<1>2. \A r \in Rows : /\ m[r].TOTAL \in Nat /\ m[r].PASS \in Nat /\ m[r].FAIL \in Nat
  BY <1>1 DEF Figures
<1>3. \A r \in Rows :
        /\ w[r].TOTAL = IF r = row THEN m[r].TOTAL + total ELSE m[r].TOTAL
        /\ w[r].PASS = IF r = row THEN m[r].PASS + pass ELSE m[r].PASS
        /\ w[r].FAIL = IF r = row THEN m[r].FAIL + fail ELSE m[r].FAIL
  BY CountIs
<1>4. /\ Sum("TOTAL") = Iter(m, "TOTAL", Rows)[Rows]
      /\ Sum("TOTAL")' = Iter(w, "TOTAL", Rows)[Rows]
      /\ Sum("PASS") = Iter(m, "PASS", Rows)[Rows]
      /\ Sum("PASS")' = Iter(w, "PASS", Rows)[Rows]
      /\ Sum("FAIL") = Iter(m, "FAIL", Rows)[Rows]
      /\ Sum("FAIL")' = Iter(w, "FAIL", Rows)[Rows]
  BY SumIsIter
<1> HIDE DEF m, w
<1>5. /\ Iter(m, "TOTAL", Rows)[Rows] \in Int
      /\ Iter(w, "TOTAL", Rows)[Rows] = Iter(m, "TOTAL", Rows)[Rows] + total
  BY <1>2, <1>3, RowsAreFinite, IterGains
<1>6. /\ Iter(m, "PASS", Rows)[Rows] \in Int
      /\ Iter(w, "PASS", Rows)[Rows] = Iter(m, "PASS", Rows)[Rows] + pass
  BY <1>2, <1>3, RowsAreFinite, IterGains
<1>7. /\ Iter(m, "FAIL", Rows)[Rows] \in Int
      /\ Iter(w, "FAIL", Rows)[Rows] = Iter(m, "FAIL", Rows)[Rows] + fail
  BY <1>2, <1>3, RowsAreFinite, IterGains
<1> QED
  BY <1>4, <1>5, <1>6, <1>7
(* Where the tally stays, so do the sums.                                  *)
LEMMA SumsStay ==
  ASSUME tally'.MATRIX = tally.MATRIX
  PROVE  \A field : Sum(field)' = Sum(field)
<1> TAKE field
<1> QED
  BY SumIsIter

(* What is counted balances.                                               *)
LEMMA CountBalances ==
  ASSUME Types, BooksBalance, NEW row \in Rows, NEW total \in Nat, NEW pass \in Nat,
         NEW fail \in Nat, Count(row, total, pass, fail), run' = run,
         IF Quiet THEN pass = 0 ELSE pass + fail = total
  PROVE  /\ tally'.TOTAL_EXECUTED = Sum("TOTAL")' /\ discrepancies' = Sum("FAIL")'
         /\ IF Quiet' THEN Sum("PASS")' = 0
            ELSE \A r \in Rows :
                   tally'.MATRIX[r].TOTAL = tally'.MATRIX[r].PASS + tally'.MATRIX[r].FAIL
<1>1. /\ tally'.TOTAL_EXECUTED = tally.TOTAL_EXECUTED + total
      /\ discrepancies' = discrepancies + fail
      /\ \A r \in Rows :
           /\ r # row => tally'.MATRIX[r] = tally.MATRIX[r]
           /\ r = row => /\ tally'.MATRIX[r].TOTAL = tally.MATRIX[r].TOTAL + total
                         /\ tally'.MATRIX[r].PASS = tally.MATRIX[r].PASS + pass
                         /\ tally'.MATRIX[r].FAIL = tally.MATRIX[r].FAIL + fail
  BY CountIs
<1>2. /\ Sum("TOTAL") \in Int /\ Sum("TOTAL")' = Sum("TOTAL") + total
      /\ Sum("PASS") \in Int /\ Sum("PASS")' = Sum("PASS") + pass
      /\ Sum("FAIL") \in Int /\ Sum("FAIL")' = Sum("FAIL") + fail
  BY CountGains
<1>3. /\ tally.TOTAL_EXECUTED = Sum("TOTAL") /\ discrepancies = Sum("FAIL")
      /\ IF Quiet THEN Sum("PASS") = 0
         ELSE \A r \in Rows : tally.MATRIX[r].TOTAL = tally.MATRIX[r].PASS + tally.MATRIX[r].FAIL
  BY DEF BooksBalance
<1>4. Quiet' = Quiet
  BY DEF Quiet
<1>5. \A r \in Rows : /\ tally.MATRIX[r].TOTAL \in Nat /\ tally.MATRIX[r].PASS \in Nat
                      /\ tally.MATRIX[r].FAIL \in Nat
  <2>1. \A r \in Rows : tally.MATRIX[r] \in Figures
    BY DEF Types
  <2> QED
    BY <2>1 DEF Figures
<1>6. CASE Quiet
  BY <1>1, <1>2, <1>3, <1>4, <1>6
<1>7. CASE ~Quiet
  <2>1. ASSUME NEW r \in Rows
        PROVE  tally'.MATRIX[r].TOTAL = tally'.MATRIX[r].PASS + tally'.MATRIX[r].FAIL
    <3>1. tally.MATRIX[r].TOTAL = tally.MATRIX[r].PASS + tally.MATRIX[r].FAIL
      BY <1>3, <1>7
    <3>2. pass + fail = total
      BY <1>7
    <3>3. CASE r = row
      BY <1>1, <1>5, <3>1, <3>2, <3>3
    <3>4. CASE r # row
      BY <1>1, <3>1, <3>4
    <3> QED
      BY <3>3, <3>4
  <2> QED
    BY <1>1, <1>2, <1>3, <1>4, <1>7, <2>1
<1> QED
  BY <1>6, <1>7

(* Every step keeps the books balanced.                                    *)
LEMMA BooksStep ==
  ASSUME Types, Planned, BooksBalance, [Next]_vars
  PROVE  BooksBalance'
<1>1. /\ tally.TOTAL_EXECUTED \in Nat /\ tally.FRR_CRASH \in Nat /\ begun \in Nat
      /\ results \in Seq(Outcome)
  BY DEF Types
<1>2. Types' /\ Planned'
  BY PlacesStep
<1>3. begun = tally.TOTAL_EXECUTED + tally.FRR_CRASH + Len(Results)
  BY DEF BooksBalance
<1>4. /\ (~error => Results = results) /\ (~error' => Results' = results')
      /\ Len(Results) \in Nat /\ Len(results) \in Nat
  <2>1. (~error => Results = results) /\ Len(Results) \in Nat /\ Len(results) \in Nat
    BY <1>1, ResultsAre
  <2>2. ~error' => Results' = results'
    BY DEF Results
  <2> QED
    BY <2>1, <2>2
<1> DEFINE Sums == /\ tally.TOTAL_EXECUTED = Sum("TOTAL") /\ discrepancies = Sum("FAIL")
                   /\ IF Quiet THEN Sum("PASS") = 0
                      ELSE \A r \in Rows : tally.MATRIX[r].TOTAL
                                             = tally.MATRIX[r].PASS + tally.MATRIX[r].FAIL
<1>5. BooksBalance <=> Sums /\ begun = tally.TOTAL_EXECUTED + tally.FRR_CRASH + Len(Results)
  BY DEF BooksBalance
<1>6. ASSUME tally'.MATRIX = tally.MATRIX, tally'.TOTAL_EXECUTED = tally.TOTAL_EXECUTED,
             discrepancies' = discrepancies, run' = run
      PROVE  Sums'
  <2>1. \A field : Sum(field)' = Sum(field)
    BY <1>6, SumsStay
  <2>2. Quiet' = Quiet
    BY <1>6 DEF Quiet
  <2> QED
    BY <1>5, <1>6, <2>1, <2>2
<1>7. (Sums' /\ begun' = tally'.TOTAL_EXECUTED + tally'.FRR_CRASH + Len(Results')) => BooksBalance'
  BY DEF BooksBalance
<1> HIDE DEF Sums
<1>8. CASE Elsewhere
  <2>1. UNCHANGED <<run, results, error, books, wrong>>
    BY <1>8, ElsewhereKeeps
  <2>2. Results' = Results
    BY <2>1 DEF Results
  <2> QED
    BY <1>3, <1>6, <1>7, <2>1, <2>2 DEF books
<1>9. CASE Judging
  <2>1. PICK row \in ParseResult, pass, fail \in {0, 1} : Counted(row, pass, fail)
    BY <1>9, JudgingCounts
  <2>2. /\ Count(row, 1, pass, fail) /\ row \in Rows /\ pass \in Nat /\ fail \in Nat /\ 1 \in Nat
        /\ IF Quiet THEN pass = 0 ELSE pass + fail = 1
    BY <2>1 DEF Counted, Rows
  <2>3. begun' = begun + 1 /\ UNCHANGED <<run, step, results, error>>
    BY <1>9, JudgingCounts
  <2>4. Sums'
    BY <2>2, <2>3, CountBalances DEF Sums
  <2>5. /\ tally'.TOTAL_EXECUTED = tally.TOTAL_EXECUTED + 1
        /\ tally'.FRR_CRASH = tally.FRR_CRASH
    BY <2>2, CountIs
  <2>6. Results' = Results
    BY <2>3 DEF Results
  <2> QED
    BY <1>1, <1>3, <1>4, <1>7, <2>3, <2>4, <2>5, <2>6
<1>10. CASE Refusing
  <2>1. ConnectionFails /\ begun' = begun + 1 /\ UNCHANGED <<run, step, results, error>>
    BY <1>10, RefusingCounts
  <2>2. /\ tally'.MATRIX = tally.MATRIX /\ tally'.TOTAL_EXECUTED = tally.TOTAL_EXECUTED
        /\ tally'.FRR_CRASH = tally.FRR_CRASH + 1 /\ discrepancies' = discrepancies
    BY <2>1 DEF ConnectionFails, Types
  <2>3. Results' = Results
    BY <2>1 DEF Results
  <2> QED
    BY <1>1, <1>3, <1>4, <1>6, <1>7, <2>1, <2>2, <2>3
<1>11. CASE Tracing
  <2>1. PICK result \in Outcome : Trace(result)
    BY <1>11, TracingRecords
  <2>2. /\ UNCHANGED <<run, error, tally, discrepancies>> /\ begun' = begun + 1
        /\ results' = Append(results, result) /\ ~error
    BY <1>11, <2>1, TracingRecords DEF Trace, suites
  <2>3. Len(Results') = Len(Results) + 1
    BY <1>1, <1>4, <2>2
  <2> QED
    BY <1>1, <1>3, <1>4, <1>6, <1>7, <2>2, <2>3
<1>12. CASE RouteErrs
  <2>1. /\ UNCHANGED <<run, tally, discrepancies, results>> /\ begun' = begun + 1
        /\ ~error /\ error' = TRUE
        /\ results = <<>> \/ \A i \in DOMAIN results : results[i].pass
    BY <1>12 DEF RouteErrs, suites
  <2>2. \A i \in DOMAIN results : results[i].pass
    BY <2>1
  <2>3. Results' = Append(results, [pass |-> FALSE, error |-> TRUE])
    BY <2>1, <2>2 DEF Results
  <2>4. Len(Results') = Len(Results) + 1
    <3>1. [pass |-> FALSE, error |-> TRUE] \in Outcome
      BY DEF Outcome
    <3> QED
      BY <1>1, <1>4, <2>1, <2>3, <3>1
  <2>5. tally' = tally /\ discrepancies' = discrepancies /\ run' = run /\ begun' = begun + 1
    BY <2>1
  <2>6. begun' = tally'.TOTAL_EXECUTED + tally'.FRR_CRASH + Len(Results')
    <3>1. /\ tally.TOTAL_EXECUTED \in Nat /\ tally.FRR_CRASH \in Nat /\ begun \in Nat
          /\ Len(Results) \in Nat
      BY <1>1, <1>4
    <3> QED
      BY ONLY <1>3, <2>4, <2>5, <3>1
  <2>7. Sums'
    BY <1>6, <2>5
  <2> QED
    BY <1>7, <2>6, <2>7
<1>13. CASE EndSuite
  <2>1. results' = <<>> /\ error' = FALSE /\ UNCHANGED <<run, begun>>
    BY <1>13 DEF EndSuite
  <2>2. Len(Results') = 0
    BY <1>4, <2>1
  <2>3. CASE UNCHANGED <<tally, discrepancies>> /\ results = <<>> /\ ~error
    <3>1. Len(Results) = 0
      BY <1>4, <2>3
    <3> QED
      BY <1>3, <1>6, <1>7, <2>1, <2>2, <2>3, <3>1
  <2>4. CASE ~(UNCHANGED <<tally, discrepancies>> /\ results = <<>> /\ ~error)
    <3>1. PICK row \in Rows, total, pass, fail \in Nat :
            /\ Count(row, total, pass, fail) /\ total = Len(Results)
            /\ IF Quiet THEN pass = 0 ELSE pass + fail = total
      BY <1>13, <2>4, EndCounts
    <3>2. Sums'
      BY <2>1, <3>1, CountBalances DEF Sums
    <3>3. /\ tally'.TOTAL_EXECUTED = tally.TOTAL_EXECUTED + total
          /\ tally'.FRR_CRASH = tally.FRR_CRASH
      BY <3>1, CountIs
    <3> QED
      BY <1>1, <1>3, <1>7, <2>1, <2>2, <3>1, <3>2, <3>3
  <2> QED
    BY <2>3, <2>4
<1> QED
  BY <1>8, <1>9, <1>10, <1>11, <1>12, <1>13, StepKinds
(***************************************************************************)
(* Prefixes                                                                *)
(***************************************************************************)

(* More prefixes are taken as the suites go on, and none is given back.    *)
LEMMA WithinGrows ==
  \A x \in Int : \A n, s, g, n1, s1, g1 \in Nat :
    n <= n1 /\ s <= s1 /\ g <= g1 /\ Within(x, n, s, g) => Within(x, n1, s1, g1)
<1> SUFFICES
      ASSUME NEW x \in Int, NEW n \in Nat, NEW s \in Nat, NEW g \in Nat, NEW n1 \in Nat,
             NEW s1 \in Nat, NEW g1 \in Nat, n <= n1, s <= s1, g <= g1, Within(x, n, s, g)
      PROVE  Within(x, n1, s1, g1)
  OBVIOUS
<1>1. StateBase \in Nat /\ GeneratedBase \in Nat /\ Space \in Nat
  BY CampaignAssumption
<1>2. /\ StateBase + 2 * s <= StateBase + 2 * s1
      /\ GeneratedBase + 2 * g <= GeneratedBase + 2 * g1
  BY <1>1
<1>3. CASE 1 <= x /\ x <= n
  BY <1>3 DEF Within
<1>4. CASE StateBase <= x /\ x < StateBase + 2 * s
  BY <1>1, <1>2, <1>4 DEF Within
<1>5. CASE GeneratedBase <= x /\ x < GeneratedBase + 2 * g
  BY <1>1, <1>2, <1>5 DEF Within
<1>6. CASE x = 0 /\ Space < GeneratedBase + 2 * g
  BY <1>1, <1>2, <1>6 DEF Within
<1> QED
  BY <1>3, <1>4, <1>5, <1>6 DEF Within

(* The prefixes of a suite behind another one are other prefixes.          *)
LEMMA ApartStep ==
  ASSUME Types, Planned, Apart, [Next]_vars
  PROVE  Apart'
<1>1. /\ alloc \in Nat /\ step \in 1 .. 10 /\ results \in Seq(Outcome) /\ left \in Nat
      /\ Len(results) + left <= MaxCases
  BY DEF Types, Planned
<1>2. /\ MaxCases \in Nat /\ Space \in Nat /\ StateBase \in Nat /\ GeneratedBase \in Nat
      /\ 0 < StateBase /\ StateBase < GeneratedBase /\ GeneratedBase < Space
      /\ MpReachPrefix \in Int /\ 0 < MpReachPrefix /\ MpReachPrefix < StateBase
  BY CampaignAssumption
<1>3. Len(results) \in Nat /\ States \in Nat /\ Generated \in Nat
      /\ Len(results) <= MaxCases /\ States <= MaxCases /\ Generated <= MaxCases
  <2>1. Len(results) \in Nat
    BY <1>1
  <2>2. Len(results) <= MaxCases
    BY <1>1, <1>2, <2>1
  <2> QED
    BY <1>2, <2>1, <2>2 DEF States, Generated
<1>4. Types' /\ Planned'
  BY PlacesStep
<1>5. ASSUME alloc' \in Nat, alloc' >= alloc, States' \in Nat, States' >= States,
             Generated' \in Nat, Generated' >= Generated, used' = used, borrowed' = borrowed,
             step' >= step
      PROVE  Apart'
  <2>1. InBounds' => InBounds
    BY <1>1, <1>2, <1>5 DEF InBounds
  <2>2. ASSUME NEW x \in Int, Taken(x) PROVE Taken(x)'
    <3>1. Within(x, alloc, States, Generated)
      BY <2>2 DEF Taken
    <3>2. alloc <= alloc' /\ States <= States' /\ Generated <= Generated'
      BY <1>1, <1>3, <1>5
    <3>3. Within(x, alloc', States', Generated')
      BY <1>1, <1>3, <1>5, <3>1, <3>2, WithinGrows
    <3> QED
      BY <3>3 DEF Taken
  <2>3. \A x \in Int : Shared(x) => Shared(x)'
    <3>1. step' \in 1 .. 10
      BY <1>4 DEF Types
    <3> QED
      BY <1>1, <1>5, <3>1 DEF Shared
  <2> QED
    BY <1>5, <2>1, <2>2, <2>3 DEF Apart
<1>6. ASSUME results' = results, step' = step
      PROVE  States' = States /\ Generated' = Generated
  BY <1>6 DEF States, Generated
<1>7. CASE Elsewhere
  <2>1. /\ UNCHANGED <<alloc, used, borrowed>> /\ results' = results
        /\ step' = step \/ (step' = step + 1 /\ pc = "suite")
    BY <1>7, ElsewherePlaces
  <2>2. pc = "suite" => results = <<>>
    BY DEF Planned, InSuite
  <2>3. CASE step' = step
    BY <1>1, <1>3, <1>5, <1>6, <2>1, <2>3
  <2>4. CASE step' = step + 1 /\ results = <<>>
    <3>1. Len(results) = 0 /\ Len(results') = 0
      BY <2>1, <2>4
    <3>2. States' \in Nat /\ States' >= States
      BY <1>1, <1>2, <2>4, <3>1 DEF States
    <3>3. Generated' \in Nat /\ Generated' >= Generated
      BY <1>1, <1>2, <2>4, <3>1 DEF Generated
    <3> QED
      BY <1>1, <1>5, <2>1, <3>2, <3>3
  <2> QED
    BY <2>1, <2>2, <2>3, <2>4
<1>8. CASE EndSuite
  <2>1. UNCHANGED <<alloc, used, borrowed>> /\ results' = <<>> /\ step' = step + 1
    BY <1>8 DEF EndSuite, network, announced
  <2>2. Len(results') = 0
    BY <2>1
  <2>3. States' \in Nat /\ States' >= States
    BY <1>1, <1>2, <1>3, <2>1, <2>2 DEF States
  <2>4. Generated' \in Nat /\ Generated' >= Generated
    BY <1>1, <1>2, <1>3, <2>1, <2>2 DEF Generated
  <2> QED
    BY <1>1, <1>5, <2>1, <2>3, <2>4
<1>9. ASSUME Judging \/ Refusing \/ Tracing \/ RouteErrs
      PROVE  /\ UNCHANGED <<run, step>> /\ alloc' \in Nat /\ pc = "case"
             /\ alloc' >= alloc /\ step \in 1 .. 9
             /\ (alloc' = alloc + 1 => step <= 4)
  <2>1. /\ UNCHANGED <<run, step>> /\ alloc' \in Nat /\ pc = "case"
        /\ alloc' = alloc \/ (alloc' = alloc + 1 /\ step <= 4)
    BY <1>9, CasePlaces
  <2> QED
    BY <1>1, <2>1 DEF Planned, InSuite
<1>10. CASE UpdateDry \/ UpdateCrash \/ OpenDry \/ OpenRefused \/ OpenCase
  <2>1. UNCHANGED <<results, used, borrowed>>
    BY <1>10 DEF UpdateDry, UpdateCrash, OpenDry, OpenRefused, OpenCase, network, announced
  <2>2. step' = step /\ alloc' \in Nat /\ alloc' >= alloc
    BY <1>9, <1>10 DEF Judging, Refusing
  <2> QED
    BY <1>1, <1>3, <1>5, <1>6, <2>1, <2>2
<1>11. CASE TraceApart \/ RouteErrs
  <2>1. UNCHANGED <<used, borrowed>> /\ step' = step /\ alloc' \in Nat /\ alloc' >= alloc
    BY <1>9, <1>11 DEF Tracing, TraceApart, RouteErrs, network, announced
  <2>2. Len(results') \in Nat /\ Len(results') >= Len(results)
    <3>1. CASE RouteErrs
      BY <1>3, <3>1 DEF RouteErrs
    <3>2. CASE TraceApart
      <4>1. PICK result \in Outcome : results' = Append(results, result)
        BY <3>2, TracingRecords DEF Tracing, Trace
      <4> QED
        BY <1>1, <1>3, <4>1
    <3> QED
      BY <1>11, <3>1, <3>2
  <2>3. States' \in Nat /\ States' >= States
    BY <1>1, <1>2, <1>3, <2>1, <2>2 DEF States
  <2>4. Generated' \in Nat /\ Generated' >= Generated
    BY <1>1, <1>2, <1>3, <2>1, <2>2 DEF Generated
  <2> QED
    BY <1>1, <1>5, <2>1, <2>3, <2>4
<1>12. CASE UpdateCase
  <2>1. /\ UNCHANGED <<results, step>> /\ alloc' = alloc + 1 /\ step <= 4
        /\ \E prefixes \in Reachable : Announces(prefixes, observable)
    BY <1>9, <1>12 DEF Judging, UpdateCase, Update
  <2>2. States' = 0 /\ Generated' = 0 /\ States = 0 /\ Generated = 0
    BY <1>1, <2>1 DEF States, Generated
  <2>3. /\ observable <=> step <= 2
        /\ Suite = "mpreach" <=> step = 3
    BY <1>1, <2>1, SuiteOf DEF observable
  <2> SUFFICES ASSUME InBounds'
               PROVE  ~borrowed' /\ \A x \in used' : x \in Int /\ (Taken(x)' \/ Shared(x)')
    BY DEF Apart
  <2>4. InBounds /\ alloc + 1 < StateBase /\ alloc + 1 < Space
    BY <1>1, <1>2, <2>1 DEF InBounds
  <2>5. ~borrowed /\ \A x \in used : x \in Int /\ (Taken(x) \/ Shared(x))
    BY <2>4 DEF Apart
  <2>6. /\ \A x \in Int : Taken(x) <=> 1 <= x /\ x <= alloc
        /\ \A x \in Int : Taken(x)' <=> 1 <= x /\ x <= alloc + 1
    BY <1>1, <1>2, <2>1, <2>2, <2>4 DEF Taken, Within
  <2>7. \A x \in used : x \in Int /\ (Taken(x)' \/ Shared(x)')
    BY <1>1, <2>1, <2>5, <2>6 DEF Shared
  <2>8. PICK prefixes \in Reachable : Announces(prefixes, observable)
    BY <2>1
  <2>9. CASE step <= 2
    <3>1. PICK own \in Int : own = alloc + 1
      BY <1>1
    <3>2. prefixes = {own}
      <4>1. (alloc + 1) % Space = alloc + 1
        BY <1>1, <1>2, <2>4
      <4> QED
        BY <2>3, <2>8, <2>9, <3>1, <4>1 DEF Reachable, prefix
    <3>3. {own} \cap used = {}
      BY <1>1, <2>5, <2>6, <2>9, <3>1 DEF Shared
    <3>4. used' = used \cup {own} /\ ~borrowed'
      BY <2>5, <2>8, <3>2, <3>3 DEF Announces
    <3>5. Taken(own)'
      BY <1>1, <2>6, <3>1
    <3> QED
      BY <2>7, <3>4, <3>5
  <2>10. CASE step > 2
    <3>1. prefixes = {} \/ (step = 3 /\ prefixes = {MpReachPrefix})
      BY <1>1, <2>3, <2>8, <2>10 DEF Reachable
    <3>2. ~observable
      BY <1>1, <2>3, <2>10
    <3>4. used' = used \cup prefixes /\ ~borrowed'
      BY <2>5, <2>8, <3>2 DEF Announces
    <3>3. \A x \in prefixes : x \in Int /\ Shared(x)'
      BY <1>2, <2>1, <3>1 DEF Shared
    <3> QED
      BY <2>7, <3>4, <3>3
  <2> QED
    BY <1>1, <2>9, <2>10
<1>13. CASE TraceLive
  <2> DEFINE id == Base + 2 * Len(results)
  <2>1. /\ Announces({id % Space, (id + 1) % Space}, TRUE) /\ alloc' = alloc /\ step' = step
        /\ Suite \in {"grstate", "grgenerated"}
    BY <1>13, CasePlaces DEF Tracing, TraceLive, Trace, suites
  <2>2. Len(results') = Len(results) + 1 /\ left > 0
    <3>1. (\E result \in Outcome : results' = Append(results, result)) /\ left > 0
      BY <1>13, TracingRecords DEF Tracing, Trace
    <3> QED
      BY <1>1, <3>1
  <2>3. Len(results) + 1 <= MaxCases
    BY <1>1, <1>2, <1>3, <2>2
  <2>4. step \in 1 .. 9
    BY <1>9, <1>13 DEF Tracing
  <2>5. \/ step = 7 /\ Base = StateBase
        \/ step = 8 /\ Base = GeneratedBase
    <3>1. (Suite = "grstate" <=> step = 7) /\ (Suite = "grgenerated" <=> step = 8)
      BY <2>4, SuiteOf
    <3> QED
      BY <2>1, <3>1 DEF Base
  <2> SUFFICES ASSUME InBounds'
               PROVE  ~borrowed' /\ \A x \in used' : x \in Int /\ (Taken(x)' \/ Shared(x)')
    BY DEF Apart
  <2>6. InBounds /\ alloc < StateBase /\ StateBase + 2 * MaxCases <= GeneratedBase
        /\ GeneratedBase + 2 * MaxCases <= Space + 1
    BY <2>1 DEF InBounds
  <2>7. ~borrowed /\ \A x \in used : x \in Int /\ (Taken(x) \/ Shared(x))
    BY <2>6 DEF Apart
  <2> DEFINE k == Len(results)
  <2>a. PICK a, b : a = id % Space /\ b = (id + 1) % Space
    OBVIOUS
  <2>8. k \in Nat /\ k + 1 <= MaxCases /\ id \in Nat /\ id < Space /\ id + 1 <= Space
    BY <1>2, <1>3, <2>3, <2>5, <2>6
  <2>9. a = id
    <3>1. \A i, s \in Nat : i < s => i % s = i
      OBVIOUS
    <3> QED
      BY <1>2, <2>8, <2>a, <3>1
  <2>10. b = id + 1 \/ (b = 0 /\ id + 1 = Space)
    <3>1. \A i, s \in Nat : i < s => i % s = i
      OBVIOUS
    <3>2. \A s \in Nat : 0 < s => s % s = 0
      OBVIOUS
    <3>3. id + 1 \in Nat /\ (id + 1 < Space \/ id + 1 = Space)
      BY <1>2, <2>8
    <3> HIDE DEF id
    <3> QED
      BY <1>2, <2>a, <3>1, <3>2, <3>3
  <2>11. used' = used \cup {a, b} /\ borrowed' = (borrowed \/ (TRUE /\ {a, b} \cap used # {}))
    BY <2>1, <2>a DEF Announces
  <2>12. /\ States = (IF step = 7 THEN k ELSE MaxCases) /\ Generated = IF step = 7 THEN 0 ELSE k
         /\ States' = (IF step = 7 THEN k + 1 ELSE MaxCases)
         /\ Generated' = IF step = 7 THEN 0 ELSE k + 1
    BY <2>1, <2>2, <2>5 DEF States, Generated
  <2> HIDE DEF k
  <2>13. ASSUME NEW x \in Int, Taken(x) PROVE Taken(x)'
    <3>1. /\ States \in Nat /\ States' \in Nat /\ States <= States' /\ Generated \in Nat
          /\ Generated' \in Nat /\ Generated <= Generated' /\ alloc' \in Nat /\ alloc <= alloc'
      BY <1>1, <1>2, <2>1, <2>8, <2>12
    <3> QED
      <4>1. Within(x, alloc, States, Generated)
        BY <2>13 DEF Taken
      <4>2. Within(x, alloc', States', Generated')
        BY <1>1, <3>1, <4>1, WithinGrows
      <4> QED
        BY <4>2 DEF Taken
  <2> HIDE DEF id
  <2>14. ~Taken(a) /\ ~Taken(b) /\ Taken(a)' /\ Taken(b)' /\ a \in Int /\ b \in Int
    <3>1. CASE step = 7
      <4>1. id = StateBase + 2 * k /\ id + 1 < GeneratedBase
        BY <1>2, <2>5, <2>6, <2>8, <3>1 DEF id, k
      <4>2. /\ a = StateBase + 2 * k /\ b = StateBase + 2 * k + 1
            /\ a < GeneratedBase /\ b < GeneratedBase
        BY <1>2, <2>8, <2>9, <2>10, <4>1
      <4>3. /\ Taken(a) = Within(a, alloc, k, 0) /\ Taken(b) = Within(b, alloc, k, 0)
            /\ Taken(a)' = Within(a, alloc, k + 1, 0)
            /\ Taken(b)' = Within(b, alloc, k + 1, 0)
        BY <2>1, <2>12, <3>1 DEF Taken
      <4>4. ~Within(a, alloc, k, 0) /\ ~Within(b, alloc, k, 0)
        BY <1>1, <1>2, <2>6, <2>8, <4>2 DEF Within
      <4>5. Within(a, alloc, k + 1, 0) /\ Within(b, alloc, k + 1, 0)
        BY <1>2, <2>8, <4>2 DEF Within
      <4> QED
        BY <1>2, <2>8, <4>2, <4>3, <4>4, <4>5
    <3>2. CASE step = 8
      <4>1. a = GeneratedBase + 2 * k
        BY <1>2, <2>5, <2>9, <3>2 DEF id, k
      <4>2. a < Space /\ (b = GeneratedBase + 2 * k + 1 \/ (b = 0 /\ a + 1 = Space))
        BY <1>2, <2>8, <2>9, <2>10, <4>1
      <4>3. /\ Taken(a) = Within(a, alloc, MaxCases, k) /\ Taken(b) = Within(b, alloc, MaxCases, k)
            /\ Taken(a)' = Within(a, alloc, MaxCases, k + 1)
            /\ Taken(b)' = Within(b, alloc, MaxCases, k + 1)
        BY <2>1, <2>12, <3>2 DEF Taken
      <4>4. ~Within(a, alloc, MaxCases, k) /\ ~Within(b, alloc, MaxCases, k)
        BY <1>1, <1>2, <2>6, <2>8, <4>1, <4>2 DEF Within
      <4>5. Within(a, alloc, MaxCases, k + 1) /\ Within(b, alloc, MaxCases, k + 1)
        BY <1>2, <2>8, <4>1, <4>2 DEF Within
      <4> QED
        BY <1>2, <2>8, <4>1, <4>2, <4>3, <4>4, <4>5
    <3> QED
      BY <2>5, <3>1, <3>2
  <2>15. {a, b} \cap used = {}
    <3>1. ~Shared(a) /\ ~Shared(b)
      BY <1>2, <2>5, <2>8, <2>9, <2>10 DEF Shared, id
    <3> QED
      BY <2>7, <2>14, <3>1
  <2>16. borrowed' = borrowed
    <3>1. borrowed \in BOOLEAN
      BY DEF Types
    <3> QED
      BY <2>11, <2>15, <3>1
  <2>17. ASSUME NEW x \in used' PROVE x \in Int /\ (Taken(x)' \/ Shared(x)')
    <3>1. x \in used \/ x = a \/ x = b
      BY <2>11, <2>17
    <3>2. \A y \in used : Shared(y) => Shared(y)'
      BY <2>1 DEF Shared
    <3> QED
      BY <2>7, <2>13, <2>14, <3>1, <3>2
  <2> QED
    BY <2>7, <2>16, <2>17
<1> QED
  BY <1>7, <1>8, <1>10, <1>11, <1>12, <1>13, StepKinds DEF Judging, Refusing, Tracing
(***************************************************************************)
(* The campaign                                                            *)
(***************************************************************************)

(* The books are balanced before the first suite.                          *)
LEMMA StartsEmpty == Init => CInv
<1> SUFFICES ASSUME Init PROVE CInv
  OBVIOUS
<1>1. /\ run \in Run /\ pc = "start" /\ step = 1 /\ left = 0 /\ alloc = 0
      /\ results = <<>> /\ error = FALSE /\ discrepancies = 0 /\ begun = 0
      /\ sock = FALSE /\ held = FALSE /\ wrong = {} /\ collided = FALSE /\ used = {}
      /\ borrowed = FALSE
  BY CampaignAssumption DEF Init
<1>2. /\ tally.TOTAL_EXECUTED = 0 /\ tally.FRR_CRASH = 0
      /\ tally.MATRIX = [r \in Rows |-> [TOTAL |-> 0, PASS |-> 0, FAIL |-> 0]]
      /\ tally = [TOTAL_EXECUTED |-> tally.TOTAL_EXECUTED, FRR_CRASH |-> tally.FRR_CRASH,
                  MATRIX |-> tally.MATRIX]
  BY DEF Init
<1>3. \A r \in Rows : /\ tally.MATRIX[r]["TOTAL"] = 0 /\ tally.MATRIX[r]["PASS"] = 0
                      /\ tally.MATRIX[r]["FAIL"] = 0
  BY <1>2
<1>4. tally.MATRIX \in [Rows -> Figures]
  BY <1>2 DEF Figures
<1>5. Len(results) = 0 /\ results \in Seq(Outcome)
  BY <1>1
<1>6. Types
  <2>1. /\ run \in Run /\ pc = "start" /\ step \in 1 .. 10 /\ left \in Nat /\ alloc \in Nat
        /\ discrepancies \in Nat /\ begun \in Nat
    BY <1>1
  <2>3. /\ error \in BOOLEAN /\ sock \in BOOLEAN /\ held \in BOOLEAN /\ collided \in BOOLEAN
        /\ borrowed \in BOOLEAN
    BY <1>1, Zenon
  <2>2. tally.TOTAL_EXECUTED \in Nat /\ tally.FRR_CRASH \in Nat
    BY <1>2
  <2> QED
    BY <1>2, <1>4, <1>5, <2>1, <2>2, <2>3, Zenon DEF Types
<1>7. Planned
  BY <1>1, <1>5, CampaignAssumption DEF Planned, InSuite
<1>8. Closed
  BY <1>1 DEF Closed, InSuite
<1>9. ~Bad
  BY <1>1 DEF Bad
<1>10. Blamed
  BY <1>1, <1>2, <1>9 DEF Blamed, ExitIsTrue
<1>11. Apart
  BY <1>1 DEF Apart
<1>12. BooksBalance
  <2>1. Sum("TOTAL") = 0 /\ Sum("PASS") = 0 /\ Sum("FAIL") = 0
    BY <1>3, RowsAreFinite, IterOfZero, SumIsIter
  <2>2. Results = results
    BY <1>1 DEF Results
  <2> QED
    BY <1>1, <1>2, <1>3, <1>5, <2>1, <2>2 DEF BooksBalance
<1> QED
  BY <1>6, <1>7, <1>8, <1>10, <1>11, <1>12 DEF CInv

(* Every step keeps them so.                                               *)
LEMMA CampaignGoesOn == CInv /\ [Next]_vars => CInv'
<1> SUFFICES ASSUME CInv, [Next]_vars PROVE CInv'
  OBVIOUS
<1>1. Types' /\ Planned' /\ Closed' /\ Blamed' /\ Apart' /\ BooksBalance'
  BY PlacesStep, ClosedStep, BlamedStep, ApartStep, BooksStep DEF CInv
<1> QED
  BY <1>1 DEF CInv

(* The invariant of a run of the fuzzer: the types, the suites that are    *)
(* run, the session that is closed in time, the figures that tell what     *)
(* went wrong, the prefixes that are taken, and the books.                 *)
THEOREM CampaignInvariant == Spec => []CInv
BY StartsEmpty, CampaignGoesOn, PTL DEF Spec

(* Where the sleeps outlast the daemon, no connection is opened while the  *)
(* daemon holds a session, whatever suites were asked for and however      *)
(* their cases ended: the UPDATE suites' session is closed in time (the    *)
(* `session.close' calls of execute_comprehensive_suite).                  *)
THEOREM NothingCollides == Spec => []NoCollision
<1>1. CInv => NoCollision
  BY DEF CInv, Closed, NoCollision
<1> QED
  BY <1>1, CampaignInvariant, PTL

(* In a campaign whose suites keep to their parts of the prefixes, a       *)
(* prefix that the RIB is asked for has been announced by nothing before   *)
(* (PrefixAllocator, the bases of the scenarios and of the generated       *)
(* traces, and the order of the suites: the one prefix that all UPDATEs    *)
(* with an MP_REACH_NLRI share comes behind the cases that are looked up). *)
THEOREM PrefixesAreOwn == Spec => []PrefixIsOwn
<1>1. CInv => PrefixIsOwn
  BY DEF CInv, Apart, PrefixIsOwn
<1> QED
  BY <1>1, CampaignInvariant, PTL

(* With --fail-on-deviation a run that went through fails just when        *)
(* something went wrong in it.                                             *)
THEOREM ExitTells == Spec => []ExitIsTrue
<1>1. CInv => ExitIsTrue
  BY DEF CInv, Blamed
<1> QED
  BY <1>1, CampaignInvariant, PTL

(* Whatever was begun is in the report once, and its figures agree, in the *)
(* middle of a suite as at the end (evaluate_case, record_stateful_results *)
(* and the report).                                                        *)
THEOREM BooksAlwaysBalance == Spec => []BooksBalance
<1>1. CInv => BooksBalance
  BY DEF CInv
<1> QED
  BY <1>1, CampaignInvariant, PTL

=============================================================================
