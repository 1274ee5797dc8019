---------------------------- MODULE LeakyBucket ----------------------------
(***************************************************************************)
(* What the capacity ledger of ledger.py promises: one leaky bucket per    *)
(* key, which drains continuously at a constant rate, takes in exactly the *)
(* bytes poured into it, and is never lost.  There is no lazy draining and *)
(* no garbage collection here; DestLedger, which has both, implements this *)
(* specification.                                                          *)
(***************************************************************************)
EXTENDS Integers

CONSTANTS Key,      \* the buckets
          Rate,     \* bytes drained per unit of time
          Sizes,    \* amounts that may be poured at once
          Steps     \* amounts of time that may pass at once

VARIABLES now,      \* the clock
          level     \* level[k]: content of bucket k at the instant now

vars == <<now, level>>

\* A bucket never holds less than nothing.
NonNeg(x) == IF x < 0 THEN 0 ELSE x

Init == /\ now = 0
        /\ level = [k \in Key |-> 0]

\* d units of time pass and every bucket drains for that long.
Elapse(d) == /\ now' = now + d
             /\ level' = [k \in Key |-> NonNeg(level[k] - Rate * d)]

\* n bytes are poured into bucket k.
Pour(k, n) == /\ level' = [level EXCEPT ![k] = @ + n]
              /\ UNCHANGED now

Next == \/ \E d \in Steps : Elapse(d)
        \/ \E k \in Key, n \in Sizes : Pour(k, n)

Spec == Init /\ [][Next]_vars
=============================================================================
