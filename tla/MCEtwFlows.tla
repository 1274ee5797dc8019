----------------------------- MODULE MCEtwFlows -----------------------------
(* Instances of EtwFlows for TLC. *)
EXTENDS EtwFlows, TLC

Symm == Permutations(Pid) \cup Permutations(Peer) \cup Permutations(Name)
=============================================================================
