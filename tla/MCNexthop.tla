----------------------------- MODULE MCNexthop -----------------------------
(***************************************************************************)
(* Nexthop tracking and its test cases for TLC, side by side: updates are  *)
(* applied to every RIB and cache, and where the RIB is empty, the seeds   *)
(* of a test case grow.  Prefixes and addresses are only compared for      *)
(* equality, so they are interchangeable.                                  *)
(***************************************************************************)
EXTENDS Nexthop, NexthopSeeds, TLC

TInit == Init /\ SInit

TNext ==
  \/ Next /\ UNCHANGED seeds
  \/ rib = <<>> /\ SNext /\ UNCHANGED vars

TSpec == TInit /\ [][TNext]_<<vars, seeds>>

Symmetry == Permutations(Prefixes) \cup Permutations(Addrs)

=============================================================================
