----------------------------- MODULE MCListPages -----------------------------
(* A model-checking instance of ListPages: the rows are told apart by      *)
(* nothing but their names.                                                *)
EXTENDS ListPages, TLC

Symmetry == Permutations(Rows)

=============================================================================
