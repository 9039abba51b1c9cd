----------------------------- MODULE MCCampaign -----------------------------
(***************************************************************************)
(* Campaign for TLC: the command lines.                                    *)
(***************************************************************************)
EXTENDS Campaign

(* Every suite, live on a daemon that the sleeps outlast, in the combined  *)
(* lab.                                                                    *)
Live(s) == [suite |-> s, dry_run |-> FALSE, coverage_mode |-> FALSE,
            fail_on_deviation |-> TRUE, combined |-> TRUE, local |-> TRUE,
            route_baseline |-> FALSE, patient |-> TRUE]

SuiteNames == {"all", "all_no_gr", "all_existing", "generated"} \cup
              UpdateSuites \cup OpenSuites \cup StatefulSuites

(* The same for coverage, dry, in haste; and what is refused.              *)
MCRuns ==
  UNION {{Live(s), [Live(s) EXCEPT !.coverage_mode = TRUE],
          [Live(s) EXCEPT !.dry_run = TRUE, !.combined = FALSE],
          [Live(s) EXCEPT !.local = FALSE]} : s \in SuiteNames}
  \cup {[Live("all") EXCEPT !.patient = FALSE, !.combined = FALSE, !.fail_on_deviation = FALSE],
        [Live("all_existing") EXCEPT !.route_baseline = TRUE],
        [Live("routecompetition") EXCEPT !.route_baseline = TRUE]}

(* The cases with an MP_REACH_NLRI alone.                                  *)
MCMpReach == {Live("mpreach")}

MCVerdicts == {"VALID", "SESSION_RESET"}

=============================================================================
