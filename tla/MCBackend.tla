----------------------------- MODULE MCBackend -----------------------------
(* Small instances of the backend for TLC. *)
EXTENDS BenchmarkBackend, TLC

Symmetry == Permutations(Requests) \union Permutations(Keys)
              \union Permutations(Models \ LongNames) \union Permutations(Workers)
=============================================================================
