---------------------------- MODULE MCDeployments ----------------------------
(* Instances of Deployments for TLC. *)
EXTENDS Deployments, TLC
=============================================================================
