--------------------------- MODULE MCParityRunner ---------------------------
(***************************************************************************)
(* ParityRunner for TLC: the ways in which a suite is run.                 *)
(***************************************************************************)
EXTENDS ParityRunner

(* A conforming daemon of any timing, on connections that break.           *)
AnyTiming == [coverage |-> FALSE, patient |-> FALSE, faults |-> FALSE,
              verdicts |-> {"VALID", "TREAT_AS_WITHDRAW", "SESSION_RESET"},
              cases |-> 3, breaks |-> 1]

(* A daemon of any timing that does anything; the same without outcomes.   *)
Faulty == [AnyTiming EXCEPT !.faults = TRUE, !.cases = 2,
                            !.verdicts = {"VALID", "SESSION_RESET"}]
Covering == [Faulty EXCEPT !.coverage = TRUE]

(* A daemon that does anything, in time.                                   *)
InTime == [AnyTiming EXCEPT !.patient = TRUE, !.faults = TRUE, !.verdicts = ParseResult,
                            !.cases = 2, !.breaks = 0]

MCModes == {AnyTiming, Faulty, Covering, InTime}

=============================================================================
