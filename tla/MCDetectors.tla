----------------------------- MODULE MCDetectors ----------------------------
(* Instances of Detectors for TLC. *)
EXTENDS Detectors, TLC

CONSTANTS ip1, ip2, host

\* One address has a name that comes and goes, the other has none.
NamesOf_One == (ip1 :> {host}) @@ (ip2 :> {})

\* One address alone.
NamesOf_Single == ip1 :> {host}

\* Both go by one name.
NamesOf_Shared == (ip1 :> {host}) @@ (ip2 :> {host})

(* ledger.py:88, heuristics "over per-tick byte deltas": a steady beat is  *)
(* seen also where several connections carry it, to one address or to      *)
(* several that go by one name.                                            *)
BeaconOfSeveral == C!SteadyBeaconNoticed

(* ledger.py:169-170, "windowed total": every address with a small total   *)
(* in the window counts, however long it has been contacted.               *)
SmallCounts == F!SmallInWindowCounts
=============================================================================
