----------------------------- MODULE MCRetention -----------------------------
(* A model-checking instance of Retention: workspaces and holds are told   *)
(* apart by nothing but their names.                                       *)
EXTENDS Retention, TLC

Symmetry == Permutations(Tenants) \cup Permutations(HoldIds)

=============================================================================
