---------------------------- MODULE MCTokenSource ----------------------------
(* The callers of a token source are alike. *)
EXTENDS TokenSource, TLC

Symmetry == Permutations(Callers)

=============================================================================
