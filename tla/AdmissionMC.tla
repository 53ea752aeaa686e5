----------------------------- MODULE AdmissionMC -----------------------------
(***************************************************************************)
(* Small instances of Admission.                                           *)
(***************************************************************************)
EXTENDS Admission, TLC

CONSTANTS n1, n2, r1, r2, r3, r4

Symmetry == Permutations(Nodes) \cup Permutations(Requests)
=============================================================================
