----------------------------- MODULE MCOperator -----------------------------
(* Small instances of the operator for TLC. *)
EXTENDS BenchmarkJobOperator, TLC

Symmetry == Permutations(Operators) \union Permutations(Specs)
=============================================================================
