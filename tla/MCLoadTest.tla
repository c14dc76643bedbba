----------------------------- MODULE MCLoadTest -----------------------------
(* Model values for LoadTest: workers are interchangeable. *)
EXTENDS LoadTest, TLC

Symmetry == Permutations(Workers)

=============================================================================
