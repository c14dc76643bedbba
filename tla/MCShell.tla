------------------------------- MODULE MCShell -------------------------------
(* Model values for Shell: submissions and customers are interchangeable. *)
EXTENDS Shell, TLC

Symmetry == Permutations(Forms) \cup Permutations(Customers)

=============================================================================
