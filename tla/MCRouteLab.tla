----------------------------- MODULE MCRouteLab -----------------------------
(***************************************************************************)
(* RouteLab for TLC: the ways in which the lab is run.                     *)
(***************************************************************************)
EXTENDS RouteLab

(* The shorter path has the worse ORIGIN, so that the order of the two     *)
(* criteria tells; two equal routes are left to the router ID.             *)
Rivals == {[length |-> 1, origin |-> 2], [length |-> 2, origin |-> 0]}

(* One route, where it does not matter which.                              *)
Lone == {[length |-> 1, origin |-> 2]}

(* A daemon of any timing, on sessions that hold; and with a session that  *)
(* breaks, in traces about one of the prefixes.                            *)
AnyTiming == [coverage |-> FALSE, patient |-> FALSE, faults |-> {},
              prefixes |-> Prefixes, offers |-> Rivals, traces |-> 1, events |-> 2, breaks |-> 0]
Breaking  == [AnyTiming EXCEPT !.prefixes = {0}, !.offers = Lone, !.breaks = 1]

(* Coverage runs of two traces, with a session that breaks, or with more   *)
(* updates still on their way from one trace to the next.                  *)
Covering == [Breaking EXCEPT !.coverage = TRUE, !.traces = 2, !.events = 1]
Hurrying == [Covering EXCEPT !.events = 2, !.breaks = 0]

(* A conforming daemon that is in time, and one that is in time but faulty,*)
(* about both prefixes, or with any route about one of them.               *)
InTime == [AnyTiming EXCEPT !.patient = TRUE, !.events = 3]
Faulty == [InTime EXCEPT !.faults = Faults]
AnyRoute(m) == [m EXCEPT !.prefixes = {0}, !.offers = Route]

(* Everything that can go wrong at once, with one event.                   *)
Worst == [AnyTiming EXCEPT !.faults = Faults, !.events = 1, !.breaks = 1]

MCModes ==
  {AnyTiming, Breaking, Covering, Hurrying, InTime, Faulty, AnyRoute(InTime), AnyRoute(Faulty),
   Worst}

=============================================================================
