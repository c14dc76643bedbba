----------------------------- MODULE MCDashboard -----------------------------
(* Model values for Dashboard: submissions are interchangeable. *)
EXTENDS Dashboard, TLC

Symmetry == Permutations(Forms)

=============================================================================
