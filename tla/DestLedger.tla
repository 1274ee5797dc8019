----------------------------- MODULE DestLedger -----------------------------
(***************************************************************************)
(* The per-destination capacity ledger, ledger.DestLedger: a dictionary of *)
(* leaky buckets which are drained lazily, when they are touched, and are  *)
(* dropped by gc once they are empty and have been idle for a while.       *)
(*                                                                         *)
(* Every caller passes the time.time() it read at the start of its tick,   *)
(* so one wall clock `now` drives the buckets.  time.time() may be set     *)
(* back, a monotonic clock would not be; a behaviour has one clock or the  *)
(* other, see backs.                                                       *)
(***************************************************************************)
EXTENDS Integers, FiniteSets

CONSTANTS Pid,        \* processes
          Dest,       \* destinations, domains and addresses alike
          Burst,      \* burst_bytes: level that is a breach
          Rate,       \* drain_rate: bytes leaked per unit of time
          IdleSec,    \* idle_sec: a drained bucket idle for longer is dropped
          Sizes,      \* byte deltas one call of add may bring
          Steps,      \* forward steps of the clock
          Clocks,     \* clocks: sets of backward steps, {} for a monotonic one
          MaxNow,     \* bound on the clock
          MaxSent,    \* bound on the bytes added to one bucket
          Absent      \* "no bucket under this key"

Kind == {"dom", "ip"}
Key == Pid \X Kind \X Dest
Bucket == [level : Nat, last : Nat]

ASSUME LedgerAssumption ==
    /\ Burst \in Nat \ {0}
    /\ Rate \in Nat
    /\ IdleSec \in Nat
    /\ Sizes \subseteq Nat \ {0}
    /\ Steps \subseteq Nat \ {0}
    /\ \A steps \in Clocks : steps \subseteq Nat \ {0}
    /\ MaxNow \in Nat
    /\ MaxSent \in Nat
    /\ Absent \notin Bucket

VARIABLES backs,     \* never changes: steps by which the clock may be set back
          now,       \* the wall clock the ledger is given
          buckets,   \* _buckets: key -> (level, last), or Absent
          up,        \* history: time really elapsed since the start
          sent,      \* history: bytes added under a key since the start
          before     \* history: before[k][s] is sent[k] as `up` reached s

vars == <<backs, now, buckets, up, sent, before>>

-----------------------------------------------------------------------------
(* Each operator named X_... is X with a slip in it that a change of the    *)
(* code could make; the runs use them to see that a property notices.      *)

(* DestLedger._drained *)
Drained(lvl, last, t) ==
    LET rest == lvl - (t - last) * Rate
    IN  IF rest < 0 THEN 0 ELSE rest

\* The level a reader of bucket k sees at time t; a missing key is empty.
LevelAt(k, t) ==
    IF buckets[k] = Absent THEN 0
    ELSE Drained(buckets[k].level, buckets[k].last, t)

\* The keys breaches(pid) reports: it lists full buckets of that process.
Breaches(p) == {k \in Key : /\ k[1] = p
                            /\ buckets[k] # Absent
                            /\ LevelAt(k, now) >= Burst}

-----------------------------------------------------------------------------
Init == /\ backs \in Clocks
        /\ now = 0
        /\ buckets = [k \in Key |-> Absent]
        /\ up = 0
        /\ sent = [k \in Key |-> 0]
        /\ before = [k \in Key |-> [s \in 0 .. MaxNow |-> 0]]

\* Pouring onto the stored level without draining it first.
Add_NotDrained(k, n) ==
    /\ sent[k] + n <= MaxSent
    /\ buckets' = [buckets EXCEPT ![k] =
                      [level |-> n + (IF @ = Absent THEN 0 ELSE @.level),
                       last  |-> now]]
    /\ sent' = [sent EXCEPT ![k] = @ + n]
    /\ UNCHANGED <<backs, now, up, before>>

\* Draining and pouring, but keeping the stamp of the previous call.
Add_NotRestamped(k, n) ==
    /\ sent[k] + n <= MaxSent
    /\ buckets' = [buckets EXCEPT ![k] =
                      [level |-> LevelAt(k, now) + n,
                       last  |-> IF @ = Absent THEN now ELSE @.last]]
    /\ sent' = [sent EXCEPT ![k] = @ + n]
    /\ UNCHANGED <<backs, now, up, before>>

(* add(pid, kind, dest, nbytes, now): drain, pour, restamp. *)
Add(k, n) ==
    /\ sent[k] + n <= MaxSent
    /\ buckets' = [buckets EXCEPT ![k] = [level |-> LevelAt(k, now) + n,
                                          last  |-> now]]
    /\ sent' = [sent EXCEPT ![k] = @ + n]
    /\ UNCHANGED <<backs, now, up, before>>

\* Collecting whatever is idle, full or not.
Dead_IdleOnly(k) == /\ buckets[k] # Absent
                    /\ now - buckets[k].last > IdleSec

\* A bucket gc drops: drained to nothing, and untouched for IdleSec.
Dead(k) == /\ buckets[k] # Absent
           /\ LevelAt(k, now) <= 0
           /\ now - buckets[k].last > IdleSec

(* gc(now) *)
Gc == /\ buckets' = [k \in Key |-> IF Dead(k) THEN Absent ELSE buckets[k]]
      /\ UNCHANGED <<backs, now, up, sent, before>>

\* Time passes, and the wall clock follows it.
Elapse(d) ==
    /\ up + d <= MaxNow
    /\ now' = now + d
    /\ up' = up + d
    /\ before' = [k \in Key |-> [s \in 0 .. MaxNow |->
                     IF s > up /\ s <= up + d THEN sent[k] ELSE before[k][s]]]
    /\ UNCHANGED <<backs, buckets, sent>>

\* The wall clock is set back (NTP, a user, a virtual machine resuming).
StepBack(d) ==
    /\ now - d >= 0
    /\ now' = now - d
    /\ UNCHANGED <<backs, buckets, up, sent, before>>

Next == \/ \E k \in Key, n \in Sizes : Add(k, n)
        \/ Gc
        \/ \E d \in Steps : Elapse(d)
        \/ \E d \in backs : StepBack(d)

Spec == Init /\ [][Next]_vars

-----------------------------------------------------------------------------
(* Types: what the dictionary, the clock and the two histories hold. *)
TypeOK ==
    /\ backs \in Clocks
    /\ up \in 0 .. MaxNow
    /\ now \in 0 .. up
    /\ buckets \in [Key -> Bucket \cup {Absent}]
    /\ sent \in [Key -> Nat]
    /\ before \in [Key -> [0 .. MaxNow -> Nat]]

\* Bytes added to k since s units of time had elapsed, beyond what the drain
\* rate takes out over that window.
Excess(k, s) == sent[k] - before[k][s] - (up - s) * Rate

(* ledger.py:8-17, "sustained egress above drain_rate eventually fills the *)
(* bucket and fires, no matter how it is paced": whenever the bytes added  *)
(* to one key over ANY window ending now exceed what the window drains by  *)
(* Burst or more, breaches() reports that key, whatever was added and      *)
(* collected when, and however the wall clock is set back meanwhile.       *)
NoPacingEvades ==
    \A k \in Key : \A s \in 0 .. up : Excess(k, s) >= Burst => k \in Breaches(k[1])

(* The other half: breaches() reports a key only if over some window that  *)
(* ends now the bytes really added exceeded the drain by Burst.  No        *)
(* sequence of lazy drains, restamps and collections invents a breach.     *)
(* This needs a clock that cannot be set back.                             *)
BreachHasWindow ==
    backs = {} => \A p \in Pid : \A k \in Breaches(p) : \E s \in 0 .. up : Excess(k, s) >= Burst

(* ledger.py:8-10, "accumulates bytes and drains at a constant rate": what *)
(* a reader sees in a bucket rises only in a step that added bytes to it.  *)
RisesOnlyByBytes ==
    [][\A k \in Key : LevelAt(k, now)' > LevelAt(k, now) => sent'[k] > sent[k]]_vars

\* The ledger as the promised leaky bucket, read at the current instant.
\* (Of a clock that can be set back nothing is claimed: its buckets show 0.)
LB == INSTANCE LeakyBucket
      WITH now <- up,
           level <- [k \in Key |-> IF backs = {} THEN LevelAt(k, now) ELSE 0]

(* Lazy draining and gc are invisible: with a clock that cannot be set     *)
(* back, the ledger implements LeakyBucket.                                *)
ImplementsLeakyBucket == LB!Spec
=============================================================================
