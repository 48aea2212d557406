---------------------------- MODULE MCNetLockstep ----------------------------
(* Instances of NetLockstep for TLC. *)
EXTENDS NetLockstep, TLC

Symmetry == Permutations(Clients)
=============================================================================
