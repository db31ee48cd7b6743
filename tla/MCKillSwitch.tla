---------------------------- MODULE MCKillSwitch ----------------------------
(* KillSwitch on a few triggers and accounts. *)
EXTENDS KillSwitch, TLC

Symmetry == Permutations(Triggers) \cup Permutations(Adapters)
=============================================================================
