---------------------------- MODULE MCDeployment ----------------------------
(* Model values for Deployment: the heavy customer and one other, each     *)
(* with a consumption that clients may retry and a top-up.                 *)
EXTENDS DeploymentInvariant, TLC

CONSTANTS heavy, light, c1, c2, t1, t2, b1, b2

MCCustomers == <<light, heavy>>
MCOpening == (heavy :> 1) @@ (light :> 1)
MCOf == (c1 :> heavy) @@ (t1 :> heavy) @@ (c2 :> light) @@ (t2 :> light)

Symmetry == Permutations(Backends)

=============================================================================
