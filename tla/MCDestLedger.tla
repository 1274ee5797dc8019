--------------------------- MODULE MCDestLedger ---------------------------
(* Instances of DestLedger for TLC. *)
EXTENDS DestLedger

\* A clock that only goes forward, and one that may also go back by two.
BothClocks == {{}, {2}}
=============================================================================
