---------------------------- MODULE ParityTables ----------------------------
(***************************************************************************)
(* What the parity runner can observe, and which observations a verdict of *)
(* the oracle allows: shared by the UPDATE suites and the whole campaign.  *)
(***************************************************************************)

RESET == "SESSION_RESET"
INSTALLED == "INSTALLED"
NOT_INSTALLED == "NOT_INSTALLED"
Observations == {RESET, INSTALLED, NOT_INSTALLED}

ParseResult == {"VALID", "ATTRIBUTE_DISCARD", "TREAT_AS_WITHDRAW",
                "AFI_SAFI_DISABLE", "SESSION_RESET", "IMPL_CHOICE"}

(***************************************************************************)
(* What a verdict allows                                                   *)
(***************************************************************************)
ALLOWED_OBSERVATIONS ==
  [v \in ParseResult |->
     CASE v \in {"VALID", "ATTRIBUTE_DISCARD"} -> {INSTALLED}
       [] v = "TREAT_AS_WITHDRAW"              -> {NOT_INSTALLED}
       [] v = "AFI_SAFI_DISABLE"               -> {NOT_INSTALLED, RESET}
       [] v = "SESSION_RESET"                  -> {RESET}
       [] v = "IMPL_CHOICE"                    -> Observations]

(* A plausible bug of expected_observations: MP-only UPDATEs are expected  *)
(* in the IPv4 table.                                                      *)
ExpectedAnyway(v, observable) == ALLOWED_OBSERVATIONS[v]

(* An UPDATE without IPv4 NLRI can only be seen to reset the session.      *)
expected_observations(v, observable) ==
  IF observable THEN ALLOWED_OBSERVATIONS[v]
  ELSE IF v = "SESSION_RESET" THEN {RESET}
  ELSE IF v \in {"AFI_SAFI_DISABLE", "IMPL_CHOICE"} THEN {RESET, NOT_INSTALLED}
  ELSE {NOT_INSTALLED}

=============================================================================
