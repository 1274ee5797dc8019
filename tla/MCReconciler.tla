---------------------------- MODULE MCReconciler ----------------------------
(* Instances of Reconciler for TLC: an agent a and a process b that is no  *)
(* agent's, destination d and host h.                                      *)
EXTENDS Reconciler

CONSTANTS a, b, d, h, x

BothChain == [p \in {a, b} |-> {p}]
HostCoversDest == {<<h, d>>}

\* The agent alone; declarations with targets and sizes, before or after.
Declares == [senders |-> {a}, deltas |-> {2}, ports |-> {"http"}, hosts |-> {h},
             sizes |-> {1}, proxy |-> Absent, rotates |-> FALSE, steady |-> TRUE,
             maxDecls |-> 2]

\* Agent and stranger share a destination; only wildcards are declared.
Shares == [Declares EXCEPT !.senders = {a, b}, !.deltas = {1}, !.hosts = {},
                           !.sizes = {Absent}, !.maxDecls = 1]

\* A proxy is configured; the file may be missing, stale, replaced.
Proxied == [Declares EXCEPT !.deltas = {MaxTotal}, !.ports = Port, !.proxy = x,
                            !.rotates = TRUE, !.steady = FALSE,
                            !.maxDecls = 1]

AllSettings == {Declares, Shares, Proxied}
=============================================================================
