---------------------------- MODULE MCRunTriggers ----------------------------
(* Instances of RunTriggers for TLC. *)
EXTENDS RunTriggers, TLC

Symmetry == Permutations(Schedulers)
=============================================================================
