---------------------------- MODULE MCAlertPath -----------------------------
(* Instances of AlertPath for TLC. *)
EXTENDS AlertPath
=============================================================================
