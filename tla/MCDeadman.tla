----------------------------- MODULE MCDeadman ------------------------------
(* Instances of Deadman for TLC. *)
EXTENDS Deadman
=============================================================================
