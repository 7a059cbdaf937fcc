------------------------------ MODULE MCDeployment ------------------------------
(***************************************************************************)
(* Instances of Deployment for TLC.                                        *)
(***************************************************************************)
EXTENDS Deployment, TLC

CONSTANTS d1, d2

\* Sound for the invariants: no deployer is named by any definition.
Symmetry == Permutations({d1, d2})
================================================================================
