------------------------------- MODULE Oracle -------------------------------
(***************************************************************************)
(* The RFC oracle (parse_attributes and parse_capabilities in              *)
(* bgp_oracle.py), which gives each packet the verdict its test expects.   *)
(*                                                                         *)
(* parse_attributes is a loop over the path attributes of an UPDATE: one   *)
(* step looks at one attribute, and a last one at what is missing.  The    *)
(* flags are the two bits that are read, `value' is empty for None.        *)
(***************************************************************************)
EXTENDS OracleBytes

CONSTANTS
  Updates,        \* the UPDATEs: lists of path attributes
  Contexts,       \* the other parameters of parse_attributes
  Opens           \* the optional parameters of OPENs

ParseResult == {"VALID", "IMPL_CHOICE", "ATTRIBUTE_DISCARD", "TREAT_AS_WITHDRAW",
                "AFI_SAFI_DISABLE", "SESSION_RESET"}

BGPPathAttr == [type_code : Byte, optional : BOOLEAN, transitive : BOOLEAN,
                length : Nat, value : SUBSET Seq(Byte)]

Context == [is_ibgp : BOOLEAN, asn_4byte : BOOLEAN, has_ipv4_nlri : BOOLEAN,
            allow_confed : BOOLEAN, enforce_first_as : SUBSET Nat,
            impl_choice : {"IMPL_CHOICE", "SESSION_RESET", "TREAT_AS_WITHDRAW"}]

ASSUME OracleAssumption ==
  /\ \A update \in Updates : update \in Seq(BGPPathAttr)
  /\ \A c \in Contexts : c \in Context
  /\ \A open \in Opens : open \in Seq(Byte)

VARIABLES
  pc,             \* "attributes", then "update_done"; or "open", then "open_done"
  attrs,          \* the attributes of the UPDATE
  context,
  opt_params,     \* the optional parameters of the OPEN
  i,              \* the next attribute
  seen,           \* seen_origin, seen_as_path, seen_next_hop, seen_mp_reach
  final_result

vars == <<pc, attrs, context, opt_params, i, seen, final_result>>

ORIGIN == 1
AS_PATH == 2
NEXT_HOP == 3
MP_REACH == 14
MP_UNREACH == 15

(***************************************************************************)
(* Severity                                                                *)
(***************************************************************************)
Severity(r) ==
  CASE r = "SESSION_RESET"     -> 1
    [] r = "AFI_SAFI_DISABLE"  -> 2
    [] r = "TREAT_AS_WITHDRAW" -> 3
    [] r = "ATTRIBUTE_DISCARD" -> 4
    [] r = "IMPL_CHOICE"       -> 5
    [] OTHER                   -> 6

(* A plausible bug of keep_most_severe: the last fault counts.             *)
KeepLast(faults, current) ==
  IF faults = {} THEN current
  ELSE CHOOSE r \in faults : \A q \in faults : Severity(r) <= Severity(q)

(* The faults of one attribute are raised one after the other.             *)
keep_most_severe(faults, current) ==
  CHOOSE r \in faults \cup {current} :
    \A q \in faults \cup {current} : Severity(r) <= Severity(q)

(***************************************************************************)
(* The faults of an attribute                                              *)
(***************************************************************************)
WellKnown(a)             == ~a.optional /\ a.transitive
OptionalTransitive(a)    == a.optional /\ a.transitive
OptionalNonTransitive(a) == a.optional /\ ~a.transitive

Multiple(a, n) == a.length # 0 /\ a.length % n = 0

Fault(damaged, result) == IF damaged THEN {result} ELSE {}
Withdraw(damaged) == Fault(damaged, "TREAT_AS_WITHDRAW")
Discard(damaged) == Fault(damaged, "ATTRIBUTE_DISCARD")
Disable(damaged) == Fault(damaged, "AFI_SAFI_DISABLE")

Martian(v) == v = <<0, 0, 0, 0>> \/ v[1] >= 224

Path(v, asn_size, c) == scan_as_path(v, asn_size, c.allow_confed, c.enforce_first_as)
As4Path(v, c) == scan_as_path(v, 4, c.allow_confed, {})

AsnSize(c) == IF c.asn_4byte THEN 4 ELSE 2

Mandatory(a, c) ==
  CASE a.type_code = ORIGIN ->
         Withdraw(~WellKnown(a) \/ a.length # 1
                  \/ \E v \in a.value : Len(v) < 1 \/ v[1] > 2)
    [] a.type_code = AS_PATH ->
         Withdraw(~WellKnown(a) \/ \E v \in a.value : ~Path(v, AsnSize(c), c))
    [] a.type_code = NEXT_HOP ->
         Withdraw(~WellKnown(a) \/ a.length # 4
                  \/ \E v \in a.value : Len(v) = 4 /\ Martian(v))

Multiprotocol(a, c) ==
  Fault(~OptionalNonTransitive(a), c.impl_choice) \cup
  Disable(\E v \in a.value :
            IF a.type_code = MP_REACH THEN ~mp_reach_structurally_valid(v)
                                      ELSE Len(v) < 3)

(* Only an internal peer may send these.                                   *)
Internal(a, c) ==
  IF ~c.is_ibgp THEN Discard(TRUE)
  ELSE CASE a.type_code = 5  -> Withdraw(~WellKnown(a) \/ a.length # 4)
         [] a.type_code = 9  -> Withdraw(~OptionalNonTransitive(a) \/ a.length # 4)
         [] a.type_code = 10 -> Withdraw(~OptionalNonTransitive(a) \/ ~Multiple(a, 4))

(* RFC 7606 7.3, and zero length.                                          *)
Unrecognized(a) ==
  IF a.length = 0 \/ ~a.optional THEN Withdraw(TRUE) ELSE Discard(~a.transitive)

AttributeFaults(a, c) ==
  CASE a.type_code \in {ORIGIN, AS_PATH, NEXT_HOP} -> Mandatory(a, c)
    [] a.type_code \in {MP_REACH, MP_UNREACH}      -> Multiprotocol(a, c)
    [] a.type_code \in {5, 9, 10}                  -> Internal(a, c)
    [] a.type_code = 4   -> Withdraw(~OptionalNonTransitive(a) \/ a.length # 4)
    [] a.type_code = 6   -> Discard(~WellKnown(a) \/ a.length # 0)
    [] a.type_code = 7   -> Discard(~OptionalTransitive(a)
                                    \/ a.length # (IF c.asn_4byte THEN 8 ELSE 6))
    [] a.type_code = 8   -> Withdraw(~OptionalTransitive(a) \/ ~Multiple(a, 4))
    [] a.type_code = 16  -> Withdraw(~OptionalTransitive(a) \/ ~Multiple(a, 8))
    [] a.type_code = 17  ->
         Withdraw(~OptionalTransitive(a)) \cup
         Discard(OptionalTransitive(a) /\ \E v \in a.value : ~As4Path(v, c))
    [] a.type_code = 18  -> Discard(~OptionalTransitive(a) \/ a.length # 8)
    [] a.type_code = 22  -> Discard(~OptionalTransitive(a) \/ a.length < 5)
    [] a.type_code = 25  -> Withdraw(~OptionalNonTransitive(a) \/ ~Multiple(a, 20))
    [] a.type_code = 32  -> Withdraw(~OptionalTransitive(a) \/ ~Multiple(a, 12))
    [] a.type_code = 33  -> Discard(~OptionalTransitive(a) \/ a.length # 4)
    [] a.type_code = 128 ->
         Withdraw(~OptionalTransitive(a)
                  \/ \E v \in a.value : ~attr_set_structurally_valid(v))
    [] OTHER -> Unrecognized(a)

(***************************************************************************)
(* parse_attributes and parse_capabilities                                 *)
(***************************************************************************)
InitUpdate ==
  /\ pc = "attributes" /\ attrs \in Updates /\ context \in Contexts /\ opt_params = <<>>
  /\ i = 1 /\ seen = {} /\ final_result = "VALID"

InitOpen ==
  /\ pc = "open" /\ attrs = <<>> /\ context \in Contexts /\ opt_params \in Opens
  /\ i = 1 /\ seen = {} /\ final_result = "VALID"

Init == InitUpdate \/ InitOpen

is_duplicate == \E j \in 1 .. i - 1 : attrs[j].type_code = attrs[i].type_code

ParseAttribute ==
  /\ pc = "attributes" /\ i <= Len(attrs) /\ ~is_duplicate
  /\ seen' = seen \cup ({attrs[i].type_code} \cap {ORIGIN, AS_PATH, NEXT_HOP, MP_REACH})
  /\ final_result' = keep_most_severe(AttributeFaults(attrs[i], context), final_result)
  /\ i' = i + 1
  /\ UNCHANGED <<pc, attrs, context, opt_params>>

(* A plausible bug of DuplicateFaults: any attribute that comes twice is   *)
(* an error, as it was before RFC 7606.                                    *)
DuplicateFaultsAny(a) == {"SESSION_RESET"}

(* RFC 7606 3.g: all but the first are discarded, or the session is reset. *)
DuplicateFaults(a) == Fault(a.type_code \in {MP_REACH, MP_UNREACH}, "SESSION_RESET")

DiscardDuplicate ==
  /\ pc = "attributes" /\ i <= Len(attrs) /\ is_duplicate
  /\ final_result' = keep_most_severe(DuplicateFaults(attrs[i]), final_result)
  /\ i' = i + 1
  /\ UNCHANGED <<pc, attrs, context, opt_params, seen>>

MissingFaults(present, c) ==
  LET need_next_hop == c.has_ipv4_nlri /\ MP_REACH \notin present
  IN  Withdraw(\/ ORIGIN \notin present \/ AS_PATH \notin present
               \/ need_next_hop /\ NEXT_HOP \notin present)

CheckMandatory ==
  /\ pc = "attributes" /\ i > Len(attrs)
  /\ final_result' = keep_most_severe(MissingFaults(seen, context), final_result)
  /\ pc' = "update_done"
  /\ UNCHANGED <<attrs, context, opt_params, i, seen>>

ParseOpen ==
  /\ pc = "open"
  /\ final_result' = IF parse_capabilities(opt_params) THEN "VALID" ELSE "SESSION_RESET"
  /\ pc' = "open_done"
  /\ UNCHANGED <<attrs, context, opt_params, i, seen>>

Done == pc \in {"update_done", "open_done"} /\ UNCHANGED vars

Next == ParseAttribute \/ DiscardDuplicate \/ CheckMandatory \/ ParseOpen \/ Done

Spec == Init /\ [][Next]_vars

(***************************************************************************)
(* Properties                                                              *)
(***************************************************************************)
TypeOK ==
  /\ pc \in {"attributes", "open", "update_done", "open_done"}
  /\ attrs \in Seq(BGPPathAttr) /\ context \in Context /\ opt_params \in Seq(Byte)
  /\ i \in 1 .. Len(attrs) + 1
  /\ seen \subseteq {ORIGIN, AS_PATH, NEXT_HOP, MP_REACH}
  /\ final_result \in ParseResult

First(k) == \A j \in 1 .. k - 1 : attrs[j].type_code # attrs[k].type_code

Present == {attrs[k].type_code : k \in 1 .. Len(attrs)}

(* All that is wrong with the first n attributes.                          *)
FaultsUpTo(n) ==
  UNION {IF First(k) THEN AttributeFaults(attrs[k], context)
                     ELSE DuplicateFaults(attrs[k]) : k \in 1 .. n}

IsMostSevere(r, faults) ==
  r \in faults \cup {"VALID"} /\ \A q \in faults : Severity(r) <= Severity(q)

(* Whatever the order of the attributes, the verdict is the most severe    *)
(* action for all that is wrong or missing, no fault masks another, and    *)
(* nothing depends on what comes after a first fault ("combining several   *)
(* errors collapses into min()", bgp_oracle.py:17-18).                     *)
VerdictIsMostSevere ==
  pc = "update_done" =>
    IsMostSevere(final_result, FaultsUpTo(Len(attrs)) \cup MissingFaults(Present, context))

(* What is wrong with an attribute never resets the session, unless the    *)
(* tester chose so for the flags of multiprotocol attributes: what does is *)
(* a multiprotocol attribute that comes twice (the purpose of RFC 7606).   *)
OnlyDuplicatesReset ==
  pc = "update_done" /\ final_result = "SESSION_RESET" /\ context.impl_choice # "SESSION_RESET" =>
    \E k \in 1 .. Len(attrs) : ~First(k) /\ attrs[k].type_code \in {MP_REACH, MP_UNREACH}

(* An OPEN is accepted just when its optional parameters are parameters,   *)
(* one behind the other, that hold capabilities, one behind the other, of  *)
(* the lengths their RFCs require.                                         *)
OpenVerdict ==
  pc = "open_done" =>
    final_result = IF IsOptParams(opt_params) THEN "VALID" ELSE "SESSION_RESET"

(***************************************************************************)
(* The rules, by what may be wrong instead of by type                      *)
(*                                                                         *)
(* The code asks of each type what can be wrong with it; here are the      *)
(* rules that its comments cite, asked of flags, of length, of contents.   *)
(***************************************************************************)
WELL_KNOWN     == {1, 2, 3, 5, 6}
NON_TRANSITIVE == {4, 9, 10, 14, 15, 25}
TRANSITIVE     == {7, 8, 16, 17, 18, 22, 32, 33, 128}
RECOGNIZED     == WELL_KNOWN \cup NON_TRANSITIVE \cup TRANSITIVE
INTERNAL       == {5, 9, 10}
DISCARDED      == {6, 7, 18, 22, 33}
MULTIPROTOCOL  == {14, 15}

FlagsAsRequired(a) ==
  /\ a.type_code \in NON_TRANSITIVE \cup TRANSITIVE <=> a.optional
  /\ a.type_code \in WELL_KNOWN \cup TRANSITIVE <=> a.transitive

LengthAsRequired(a, c) ==
  LET t == a.type_code  n == a.length
  IN  /\ t = 6 => n = 0
      /\ t = 1 => n = 1
      /\ t \in {3, 4, 5, 9, 33} => n = 4
      /\ t = 7 => n = AsnSize(c) + 4
      /\ t = 18 => n = 8
      /\ t = 22 => n >= 5
      /\ t \in {8, 10, 16, 25, 32} => n > 0
      /\ t \in {8, 10} => n % 4 = 0
      /\ t = 16 => n % 8 = 0
      /\ t = 25 => n % 20 = 0
      /\ t = 32 => n % 12 = 0

(* An AS_PATH begins with an AS_SEQUENCE that begins with the enforced AS. *)
BeginsWith(v, asn_size, first) ==
  Len(v) >= 2 + asn_size /\ v[1] = 2 /\ v[2] > 0 /\ Number(SubSeq(v, 3, 2 + asn_size)) = first

ContentAsRequired(a, c) ==
  LET t == a.type_code IN
  \A v \in a.value :
    /\ t = 1 => v # <<>> /\ v[1] \in {0, 1, 2}
    /\ t = 2 => /\ IsAsPath(v, AsnSize(c), c.allow_confed)
                /\ \A first \in c.enforce_first_as : BeginsWith(v, AsnSize(c), first)
    /\ t = 3 /\ Len(v) = 4 => v # <<0, 0, 0, 0>> /\ v[1] \in 0 .. 223
    /\ t = 14 => mp_reach_structurally_valid(v)
    /\ t = 15 => Len(v) >= 3
    /\ t = 17 => IsAsPath(v, 4, c.allow_confed)
    /\ t = 128 => attr_set_structurally_valid(v)

(* A damaged attribute is discarded, or its route is withdrawn: which of   *)
(* the two is taken from the comments at each type (7606 7.4 for 6, 7.7    *)
(* for 7, 6793 for 18, "RFC 7606 default" for 33; 22 has none).            *)
Reaction(t) == IF t \in DISCARDED THEN "ATTRIBUTE_DISCARD" ELSE "TREAT_AS_WITHDRAW"

(* "RFC 7606 3.c: an Optional/Transitive flag conflict makes the entire    *)
(* UPDATE treat-as-withdraw" (285-287), except that for the multiprotocol  *)
(* attributes the tester chooses (261-262).                                *)
OnConflict(t, c) == IF t \in MULTIPROTOCOL THEN c.impl_choice ELSE "TREAT_AS_WITHDRAW"

Required(a, c) ==
  LET t == a.type_code IN
  IF t \in INTERNAL /\ ~c.is_ibgp THEN {"ATTRIBUTE_DISCARD"}
  ELSE IF t \notin RECOGNIZED THEN
    IF a.optional /\ a.transitive /\ a.length > 0 THEN {}
    ELSE {IF a.optional /\ a.length > 0 THEN "ATTRIBUTE_DISCARD" ELSE "TREAT_AS_WITHDRAW"}
  ELSE
    (IF FlagsAsRequired(a) THEN {} ELSE {OnConflict(t, c)})
    \cup (IF LengthAsRequired(a, c) THEN {} ELSE {Reaction(t)})
    \cup (IF ContentAsRequired(a, c) THEN {}
          ELSE {IF t \in MULTIPROTOCOL THEN "AFI_SAFI_DISABLE"
                ELSE IF t = 17 THEN "ATTRIBUTE_DISCARD" ELSE Reaction(t)})

RequiredOfUpdate ==
  (UNION {Required(attrs[k], context) : k \in {n \in 1 .. Len(attrs) : First(n)}})
  \cup {"SESSION_RESET" : k \in {n \in 1 .. Len(attrs) :
                                   ~First(n) /\ attrs[n].type_code \in MULTIPROTOCOL}}
  \cup {"TREAT_AS_WITHDRAW" :
          t \in ({1, 2} \cup (IF context.has_ipv4_nlri /\ 14 \notin Present THEN {3} ELSE {}))
                 \ Present}

(* Where the code is milder than the rule: the flags of these types are    *)
(* one more reason to discard the attribute (FlagConflictsWithdraw).       *)
Lenient(a) == a.type_code \in DISCARDED /\ ~FlagsAsRequired(a)

(* The verdict of the long case distinction is the one that the rules ask  *)
(* for, read as separate requirements on flags, lengths and contents, with *)
(* AS paths read as a grammar: but for the flags of the DISCARDED types.   *)
VerdictIsRequired ==
  pc = "update_done" /\ (\A k \in 1 .. Len(attrs) : First(k) => ~Lenient(attrs[k])) =>
    IsMostSevere(final_result, RequiredOfUpdate)

(* "An Optional/Transitive flag conflict makes the entire UPDATE treat-as- *)
(* withdraw" (bgp_oracle.py:285-287): whatever attribute the flags are of, *)
(* but those whose peer may not send them and the multiprotocol ones. The  *)
(* code discards the attribute for types 6, 7, 18, 22 and 33.              *)
FlagConflictsWithdraw ==
  pc = "update_done" =>
    \A k \in 1 .. Len(attrs) :
      LET t == attrs[k].type_code IN
      /\ First(k) /\ t \in RECOGNIZED \ MULTIPROTOCOL /\ (t \in INTERNAL => context.is_ibgp)
      /\ ~FlagsAsRequired(attrs[k])
      => Severity(final_result) <= Severity("TREAT_AS_WITHDRAW")

=============================================================================
