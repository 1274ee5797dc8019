--------------------------- MODULE CovertChannel ----------------------------
(***************************************************************************)
(* The covert-channel heuristics, ledger.CovertChannelDetector: a bounded  *)
(* history of (time, bytes) per flow, in which regular gaps are a beacon   *)
(* and equal small sizes are a fixed-size channel.                         *)
(*                                                                         *)
(* The sampler calls observe once per connection with a positive delta,    *)
(* all with the time of the tick.  One unit of time is one tick; entries   *)
(* carry an age, and sizes are size buckets (bytes // 1024).               *)
(***************************************************************************)
EXTENDS Integers, Sequences, FiniteSets, Folds, Functions

CONSTANTS Flow,       \* (pid, dest)
          MinEvents,  \* MIN_EVENTS
          Window,     \* WINDOW_SEC
          CvPct,      \* CV_MAX, in percent
          MinGap,     \* MIN_GAP_SEC
          ModePct,    \* MODE_FRACTION, in percent
          SmallKb,    \* SMALL_KB
          MaxLen,     \* maxlen of a history
          Sizes,      \* size buckets of deltas
          PerTick     \* bound: connections of a flow with a delta in one tick

\* What the constants must be like.
CovertAssumption ==
    /\ {MinEvents, Window, CvPct, MinGap, ModePct, SmallKb, MaxLen, PerTick}
           \subseteq Nat
    /\ MinEvents > 1 /\ MinEvents <= MaxLen /\ PerTick > 0 /\ MinGap > 0 /\ CvPct > 0
    /\ Sizes \subseteq Nat

VARIABLES hist,    \* _hist: flow -> entries, oldest first (<<>> for no key)
          bursts,  \* history: ages, oldest first, of the ticks with a delta
          crowd    \* history: ticks since one with deltas of two connections

vars == <<hist, bursts, crowd>>

Init == /\ hist = [f \in Flow |-> <<>>]
        /\ bursts = [f \in Flow |-> <<>>]
        /\ crowd = [f \in Flow |-> Window + 1]

-----------------------------------------------------------------------------
\* A bounded list that refuses what comes when it is full.
Pushed_Refuses(es, e) == IF Len(es) = MaxLen THEN es ELSE Append(es, e)

\* deque(maxlen): the oldest entry makes room.
Pushed(es, e) == Append(IF Len(es) = MaxLen THEN Tail(es) ELSE es, e)

InThisTick(es) == {i \in DOMAIN es : es[i].age = 0}

\* The flow has had a delta in this tick.
Bursting(f) == bursts[f] # <<>> /\ bursts[f][Len(bursts[f])] = 0

(* observe(pid, dest, nbytes, now) *)
Observe(f, kb) ==
    /\ Cardinality(InThisTick(hist[f])) < PerTick
    /\ hist' = [hist EXCEPT ![f] = Pushed(@, [age |-> 0, kb |-> kb])]
    /\ IF Bursting(f) THEN crowd' = [crowd EXCEPT ![f] = 0] /\ UNCHANGED bursts
                      ELSE bursts' = [bursts EXCEPT ![f] = Append(@, 0)] /\ UNCHANGED crowd

(* gc(now): a flow whose last entry is out of the window. *)
Gc == /\ hist' = [f \in Flow |-> IF hist[f] # <<>> /\ hist[f][Len(hist[f])].age > Window
                                 THEN <<>> ELSE hist[f]]
      /\ UNCHANGED <<bursts, crowd>>

\* Time passes; ages are told apart until they are past the window.
Elapse ==
    /\ hist' = [f \in Flow |-> [i \in DOMAIN hist[f] |->
                   [hist[f][i] EXCEPT !.age = IF @ > Window THEN @ ELSE @ + 1]]]
    /\ bursts' = [f \in Flow |->
                   LET aged == [i \in DOMAIN bursts[f] |-> bursts[f][i] + 1]
                   IN  IF aged # <<>> /\ Head(aged) > Window THEN Tail(aged) ELSE aged]
    /\ crowd' = [f \in Flow |-> IF crowd[f] > Window THEN crowd[f] ELSE crowd[f] + 1]

Next == (\E f \in Flow, kb \in Sizes : Observe(f, kb)) \/ Gc \/ Elapse

Spec == Init /\ [][Next]_vars

-----------------------------------------------------------------------------
(* suspicious(pid, now) and _check(ev)                                     *)

Recent(es) == {i \in DOMAIN es : es[i].age <= Window}

\* The entries within the window, which are the last ones: they stand in the
\* order of their times.
Events(f) == SubSeq(hist[f], Len(hist[f]) - Cardinality(Recent(hist[f])) + 1, Len(hist[f]))
Gaps(ev) == [i \in 1 .. Len(ev) - 1 |-> ev[i].age - ev[i + 1].age]
SumOver(fn) == FoldFunction(LAMBDA x, y : x + y, 0, fn)

\* Gaps that are long enough on average, with a coefficient of variation
\* below CvPct: of n gaps g with sum s, its square is
\* sum((n*g - s)^2) / (n * s^2).
Beacon(ev) ==
    LET g == Gaps(ev)
        n == Len(g)
        s == SumOver(g)
        spread == SumOver([i \in DOMAIN g |-> (n * g[i] - s) * (n * g[i] - s)])
    IN  s >= MinGap * n /\ 10000 * spread < CvPct * CvPct * n * s * s

\* One small size bucket that holds ModePct of the events.
FixedSize(ev) ==
    \E kb \in Sizes :
        /\ kb < SmallKb
        /\ 100 * Cardinality({i \in DOMAIN ev : ev[i].kb = kb}) >= ModePct * Len(ev)

Suspicious(f) ==
    LET ev == Events(f)
    IN  Len(ev) >= MinEvents /\ (Beacon(ev) \/ FixedSize(ev))

-----------------------------------------------------------------------------
TypeOK == /\ hist \in [Flow -> Seq([age : 0 .. Window + 1, kb : Sizes])]
          /\ \A f \in Flow : Len(hist[f]) <= MaxLen
          /\ bursts \in [Flow -> Seq(0 .. Window)]
          /\ crowd \in [Flow -> 0 .. Window + 1]

BurstGaps(f) == {bursts[f][i] - bursts[f][i + 1] : i \in 1 .. Len(bursts[f]) - 1}

Steady(f) == /\ Len(bursts[f]) >= MinEvents
             /\ \E gap \in MinGap .. Window : BurstGaps(f) = {gap}

(* A channel that bursts every so many ticks, never sooner than MinGap, is *)
(* noticed by its MinEvents-th burst in the window, whatever sizes it      *)
(* sends, and whatever it sent before the window (ledger.py:88, heuristics *)
(* "over per-tick byte deltas").                                           *)
SteadyBeaconNoticed == \A f \in Flow : Steady(f) => Suspicious(f)

=============================================================================
