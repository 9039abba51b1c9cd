------------------------------ MODULE MCGrExec ------------------------------
(***************************************************************************)
(* GrExec and GrScenarios for TLC: the ways in which the suites are run.   *)
(***************************************************************************)
EXTENDS GrScenarios

(* A daemon of any timing, on connections that break.                      *)
AnyTiming == [directed |-> FALSE, coverage |-> FALSE, patient |-> FALSE,
              faults |-> {}, breaks |-> 2]

(* A daemon of any timing and with faults.                                 *)
Faulty == [AnyTiming EXCEPT !.faults = Faults, !.breaks = 0]

(* A conforming daemon that is in time; and the same without observations. *)
InTime == [AnyTiming EXCEPT !.patient = TRUE, !.breaks = 0]
Covering == [InTime EXCEPT !.coverage = TRUE]

(* The directed scenarios in the same ways.                                *)
Directed(m) == [m EXCEPT !.directed = TRUE]

MCModes == {AnyTiming, Faulty, InTime, Covering}
           \cup {Directed(m) : m \in {AnyTiming, Faulty, InTime, Covering}}

=============================================================================
