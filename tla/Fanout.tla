------------------------------ MODULE Fanout --------------------------------
(***************************************************************************)
(* Breadth of egress, ledger.DestinationFanout: how many distinct          *)
(* destinations a process sends small amounts to within a sliding window.  *)
(* A record is one running total and one time stamp per destination; the   *)
(* history here keeps every delta of the window apart, to say what the     *)
(* records ought to tell.                                                  *)
(***************************************************************************)
EXTENDS Integers, FiniteSets, FiniteSetsExt

CONSTANTS Pid, Dest,
          Window,     \* WINDOW_SEC
          MinDests,   \* MIN_DESTS
          Small,      \* SMALL_BYTES
          Sizes,      \* byte deltas
          MaxSent,    \* bound: where totals saturate
          Absent

\* What the constants must be like.
FanoutAssumption ==
    /\ {Window, MinDests, Small, MaxSent} \subseteq Nat
    /\ MinDests > 0 /\ Small < MaxSent
    /\ Sizes \subseteq Nat \ {0} /\ Absent \notin [total : Nat, age : Nat]

VARIABLES seen,    \* _seen: (pid, dest) -> total and age of the last delta
          recent,  \* history: recent[k][a] are the bytes that came a ago
          sent     \* history: bytes under k since the start

vars == <<seen, recent, sent>>
Key == Pid \X Dest
UpTo(n, m) == IF n > m THEN m ELSE n

Init == /\ seen = [k \in Key |-> Absent]
        /\ recent = [k \in Key |-> [a \in 0 .. Window |-> 0]]
        /\ sent = [k \in Key |-> 0]

\* The record after a delta: a stale one starts again.
Record(r, n) ==
    [total |-> UpTo(n + (IF r = Absent \/ r.age > Window THEN 0 ELSE r.total),
                    MaxSent),
     age |-> 0]

(* observe(pid, dest, nbytes, now) *)
Observe(k, n) ==
    /\ seen' = [seen EXCEPT ![k] = Record(@, n)]
    /\ recent' = [recent EXCEPT ![k][0] = UpTo(@ + n, MaxSent)]
    /\ sent' = [sent EXCEPT ![k] = UpTo(@ + n, MaxSent)]

\* Collecting what has been silent for a whole window too soon.
Dead_Early(k) == seen[k] # Absent /\ seen[k].age >= Window

\* What gc drops.
Dead(k) == seen[k] # Absent /\ seen[k].age > Window

(* gc(now) *)
Gc == /\ seen' = [k \in Key |-> IF Dead(k) THEN Absent ELSE seen[k]]
      /\ UNCHANGED <<recent, sent>>

\* Time passes; ages are told apart until they are past the window.
Elapse ==
    /\ seen' = [k \in Key |-> IF seen[k] = Absent THEN Absent
                              ELSE [seen[k] EXCEPT !.age = UpTo(@ + 1, Window + 1)]]
    /\ recent' = [k \in Key |-> [a \in 0 .. Window |->
                                    IF a = 0 THEN 0 ELSE recent[k][a - 1]]]
    /\ UNCHANGED sent

Next == (\E k \in Key, n \in Sizes : Observe(k, n)) \/ Gc \/ Elapse

Spec == Init /\ [][Next]_vars

(* fanout(pid, now): the destinations of a hit, or none. *)
Counted(p) == {d \in Dest : /\ seen[<<p, d>>] # Absent
                            /\ seen[<<p, d>>].age <= Window
                            /\ seen[<<p, d>>].total <= Small}
Hit(p) == IF Cardinality(Counted(p)) < MinDests THEN {} ELSE Counted(p)

-----------------------------------------------------------------------------
TypeOK ==
    /\ seen \in [Key -> [total : 1 .. MaxSent, age : 0 .. Window + 1] \cup {Absent}]
    /\ recent \in [Key -> [0 .. Window -> 0 .. MaxSent]]
    /\ sent \in [Key -> 0 .. MaxSent]

\* Bytes that came under k within the window.
Windowed(k) == MapThenSumSet(LAMBDA a : recent[k][a], 0 .. Window)

(* ledger.py:169-170, "Only destinations whose windowed total stays under  *)
(* SMALL_BYTES count": every destination with a small total in the window  *)
(* counts.                                                                 *)
SmallInWindowCounts ==
    \A p \in Pid : \A d \in Dest :
        Windowed(<<p, d>>) \in 1 .. Small => d \in Counted(p)
=============================================================================
