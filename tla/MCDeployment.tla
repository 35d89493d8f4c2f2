---------------------------- MODULE MCDeployment ----------------------------
(* Instances of Deployment for TLC. *)
EXTENDS Deployment

CONSTANTS m1, m2

\* m2 is of an older release.
MCFiles == [m \in Migrators |-> IF m = m1 THEN 2 ELSE 1]
=============================================================================
