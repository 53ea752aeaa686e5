---------------------------- MODULE JobScheduleMC ----------------------------
(***************************************************************************)
(* Small instances of JobSchedule.                                         *)
(***************************************************************************)
EXTENDS JobSchedule, TLC

CONSTANTS n1, j1, c1, c2, c3, r1, r2

Symmetry == Permutations(Calls) \cup Permutations(Runs)
=============================================================================
