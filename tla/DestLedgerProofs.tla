-------------------------- MODULE DestLedgerProofs --------------------------
(***************************************************************************)
(* Theorems about DestLedger for every set of keys, every rate, threshold  *)
(* and idle time.  The lemmas say what each step does to the level a       *)
(* reader sees; both invariants and the refinement rest on them.           *)
(***************************************************************************)
EXTENDS DestLedger, TLAPS

\* A drained level is a natural number.
LEMMA DrainedNat ==
    ASSUME NEW lvl \in Nat, NEW last \in Int, NEW t \in Int
    PROVE  Drained(lvl, last, t) \in Nat
  <1>1. (t - last) * Rate \in Int
    BY LedgerAssumption
  <1>2. QED
    BY <1>1 DEF Drained

\* Draining to t and then for d more is draining to t + d.
LEMMA DrainedLater ==
    ASSUME NEW lvl \in Nat, NEW last \in Int, NEW t \in Int, NEW d \in Nat
    PROVE  Drained(lvl, last, t + d) = LB!NonNeg(Drained(lvl, last, t) - Rate * d)
  <1> DEFINE gone == (t - last) * Rate
  <1>1. gone \in Int /\ Rate * d \in Nat
    BY LedgerAssumption
  <1>2. ((t + d) - last) * Rate = gone + Rate * d
    BY LedgerAssumption
  <1> HIDE DEF gone
  <1>3. Drained(lvl, last, t) = IF lvl - gone < 0 THEN 0 ELSE lvl - gone
    BY DEF Drained, gone
  <1>4. Drained(lvl, last, t + d) =
          IF lvl - (gone + Rate * d) < 0 THEN 0 ELSE lvl - (gone + Rate * d)
    BY <1>2 DEF Drained
  <1>5. QED
    BY <1>1, <1>3, <1>4 DEF LB!NonNeg

\* The level a reader sees is a natural number.
LEMMA LevelNat ==
    ASSUME TypeOK, NEW k \in Key, NEW t \in Int
    PROVE  LevelAt(k, t) \in Nat
  <1>1. CASE buckets[k] = Absent
    BY <1>1 DEF LevelAt
  <1>2. CASE buckets[k] # Absent
    <2>1. buckets[k].level \in Nat /\ buckets[k].last \in Int
      BY <1>2 DEF TypeOK, Bucket
    <2>2. Drained(buckets[k].level, buckets[k].last, t) \in Nat
      BY <2>1, DrainedNat
    <2>3. QED
      BY <1>2, <2>2 DEF LevelAt
  <1>3. QED
    BY <1>1, <1>2

\* add raises the level of its own bucket by the bytes, and no other level.
LEMMA AddLevel ==
    ASSUME TypeOK, NEW k \in Key, NEW n \in Sizes, Add(k, n)
    PROVE  \A j \in Key : LevelAt(j, now)' =
              IF j = k THEN LevelAt(j, now) + n ELSE LevelAt(j, now)
  <1> SUFFICES ASSUME NEW j \in Key
               PROVE  LevelAt(j, now)' =
                        IF j = k THEN LevelAt(j, now) + n ELSE LevelAt(j, now)
    OBVIOUS
  <1>1. now' = now /\ now \in Int /\ n \in Nat
    BY LedgerAssumption DEF Add, TypeOK
  <1>2. CASE j # k
    BY <1>1, <1>2 DEF Add, TypeOK, LevelAt
  <1>3. CASE j = k
    <2> DEFINE new == LevelAt(k, now) + n
    <2>1. LevelAt(k, now) \in Nat
      BY <1>1, LevelNat
    <2>2. buckets'[k] = [level |-> new, last |-> now]
      BY DEF Add, TypeOK
    <2>3. buckets'[k] # Absent
      BY <2>1, <2>2, <1>1, LedgerAssumption DEF Bucket, TypeOK
    <2>4. Drained(new, now, now) = new
      BY <2>1, <1>1, LedgerAssumption DEF Drained
    <2>5. LevelAt(k, now)' = Drained(new, now, now)
      BY <2>2, <2>3, <1>1 DEF LevelAt, Drained
    <2>6. QED
      BY <2>4, <2>5, <1>3
  <1>4. QED
    BY <1>2, <1>3

\* gc changes no level a reader sees: it drops empty buckets only.
LEMMA GcLevel ==
    ASSUME TypeOK, Gc
    PROVE  \A j \in Key : LevelAt(j, now)' = LevelAt(j, now)
  <1> SUFFICES ASSUME NEW j \in Key
               PROVE  LevelAt(j, now)' = LevelAt(j, now)
    OBVIOUS
  <1>1. now' = now /\ now \in Int
    BY DEF Gc, TypeOK
  <1>2. CASE Dead(j)
    <2>1. buckets'[j] = Absent
      BY <1>2 DEF Gc, TypeOK
    <2>2. LevelAt(j, now) = 0
      BY <1>1, <1>2, LevelNat DEF Dead
    <2>3. QED
      BY <2>1, <2>2 DEF LevelAt
  <1>3. CASE ~Dead(j)
    BY <1>1, <1>3 DEF Gc, TypeOK, LevelAt
  <1>4. QED
    BY <1>2, <1>3

\* The passing of d drains every level by Rate * d, down to nothing.
LEMMA ElapseLevel ==
    ASSUME TypeOK, NEW d \in Steps, Elapse(d)
    PROVE  \A j \in Key : LevelAt(j, now)' = LB!NonNeg(LevelAt(j, now) - Rate * d)
  <1> SUFFICES ASSUME NEW j \in Key
               PROVE  LevelAt(j, now)' = LB!NonNeg(LevelAt(j, now) - Rate * d)
    OBVIOUS
  <1>1. now' = now + d /\ now \in Int /\ d \in Nat /\ Rate * d \in Nat
    BY LedgerAssumption DEF Elapse, TypeOK
  <1>2. buckets'[j] = buckets[j]
    BY DEF Elapse
  <1>3. CASE buckets[j] = Absent
    BY <1>1, <1>2, <1>3 DEF LevelAt, LB!NonNeg
  <1>4. CASE buckets[j] # Absent
    <2>1. buckets[j].level \in Nat /\ buckets[j].last \in Int
      BY <1>4 DEF TypeOK, Bucket
    <2>2. LevelAt(j, now)' = Drained(buckets[j].level, buckets[j].last, now + d)
      BY <1>1, <1>2, <1>4 DEF LevelAt, Drained
    <2>3. LevelAt(j, now) = Drained(buckets[j].level, buckets[j].last, now)
      BY <1>4 DEF LevelAt
    <2>4. Drained(buckets[j].level, buckets[j].last, now + d) =
            LB!NonNeg(Drained(buckets[j].level, buckets[j].last, now) - Rate * d)
      BY <1>1, <2>1, DrainedLater
    <2>5. QED
      BY <2>2, <2>3, <2>4
  <1>5. QED
    BY <1>3, <1>4

\* Setting the clock back can only make a bucket look fuller.
LEMMA StepBackLevel ==
    ASSUME TypeOK, NEW d \in backs, StepBack(d)
    PROVE  \A j \in Key : LevelAt(j, now)' >= LevelAt(j, now)
  <1> SUFFICES ASSUME NEW j \in Key
               PROVE  LevelAt(j, now)' >= LevelAt(j, now)
    OBVIOUS
  <1>1. /\ now' = now - d /\ now \in Int /\ now' \in Int /\ d \in Nat
        /\ Rate * d \in Nat /\ now = now' + d
    BY LedgerAssumption DEF StepBack, TypeOK
  <1>2. buckets'[j] = buckets[j]
    BY DEF StepBack
  <1>3. CASE buckets[j] = Absent
    BY <1>2, <1>3 DEF LevelAt
  <1>4. CASE buckets[j] # Absent
    <2>1. buckets[j].level \in Nat /\ buckets[j].last \in Int
      BY <1>4 DEF TypeOK, Bucket
    <2> DEFINE early == Drained(buckets[j].level, buckets[j].last, now')
    <2>2. LevelAt(j, now)' = early /\ early \in Nat
      BY <1>1, <1>2, <1>4, <2>1, DrainedNat DEF LevelAt, Drained
    <2>3. LevelAt(j, now) = Drained(buckets[j].level, buckets[j].last, now' + d)
      BY <1>1, <1>4 DEF LevelAt
    <2>4. LevelAt(j, now) = LB!NonNeg(early - Rate * d)
      BY <1>1, <2>1, <2>3, DrainedLater
    <2> HIDE DEF early
    <2>5. QED
      BY <1>1, <2>2, <2>4 DEF LB!NonNeg
  <1>5. QED
    BY <1>3, <1>4
-----------------------------------------------------------------------------
(* Every reachable state is well typed: levels are never negative, and the *)
(* clock is never ahead of the elapsed time (TypeOK of DestLedger).        *)
THEOREM TypeCorrect == Spec => []TypeOK
  <1>1. Init => TypeOK
    BY LedgerAssumption DEF Init, TypeOK
  <1>2. TypeOK /\ [Next]_vars => TypeOK'
    <2> SUFFICES ASSUME TypeOK, [Next]_vars
                 PROVE  TypeOK'
      OBVIOUS
    <2>1. ASSUME NEW k \in Key, NEW n \in Sizes, Add(k, n)
          PROVE  TypeOK'
      <3> now \in Int /\ n \in Nat
        BY LedgerAssumption DEF TypeOK
      <3>1. LevelAt(k, now) + n \in Nat
        BY LevelNat
      <3>2. [level |-> LevelAt(k, now) + n, last |-> now] \in Bucket
        BY <3>1, LedgerAssumption DEF Bucket, TypeOK
      <3>3. buckets' \in [Key -> Bucket \cup {Absent}]
        BY <2>1, <3>2 DEF Add, TypeOK
      <3>4. sent' \in [Key -> Nat]
        BY <2>1, <3>1 DEF Add, TypeOK
      <3>5. QED
        BY <2>1, <3>3, <3>4 DEF Add, TypeOK
    <2>2. CASE Gc
      BY <2>2 DEF Gc, TypeOK
    <2>3. ASSUME NEW d \in Steps, Elapse(d)
          PROVE  TypeOK'
      <3>1. before' \in [Key -> [0 .. MaxNow -> Nat]]
        BY <2>3 DEF Elapse, TypeOK
      <3>2. QED
        BY <2>3, <3>1, LedgerAssumption DEF Elapse, TypeOK
    <2>4. ASSUME NEW d \in backs, StepBack(d)
          PROVE  TypeOK'
      BY <2>4, LedgerAssumption DEF StepBack, TypeOK
    <2>5. CASE UNCHANGED vars
      BY <2>5 DEF vars, TypeOK
    <2>6. QED
      BY <2>1, <2>2, <2>3, <2>4, <2>5 DEF Next
  <1>3. QED
    BY <1>1, <1>2, PTL DEF Spec

-----------------------------------------------------------------------------
\* A bucket is never below the excess of any window: the inductive form of
\* NoPacingEvades.
Covers == \A k \in Key : \A s \in 0 .. up : LevelAt(k, now) >= Excess(k, s)

\* Excess is an integer.
LEMMA ExcessInt ==
    ASSUME TypeOK, NEW k \in Key, NEW s \in 0 .. up
    PROVE  /\ Excess(k, s) \in Int
           /\ sent[k] \in Nat
           /\ before[k][s] \in Nat
           /\ (up - s) * Rate \in Nat
  <1>1. /\ s \in 0 .. MaxNow /\ up \in Nat /\ s \in Nat /\ up - s \in Nat
        /\ sent[k] \in Nat /\ before[k][s] \in Nat
    BY LedgerAssumption DEF TypeOK
  <1>2. (up - s) * Rate \in Nat
    BY <1>1, LedgerAssumption
  <1>3. QED
    BY <1>1, <1>2 DEF Excess

\* Every step keeps every level at or above the excess of every window.
LEMMA CoversStep == TypeOK /\ TypeOK' /\ Covers /\ [Next]_vars => Covers'
  <1> SUFFICES ASSUME TypeOK, TypeOK', Covers, [Next]_vars,
                      NEW j \in Key, NEW s \in 0 .. up'
               PROVE  LevelAt(j, now)' >= Excess(j, s)'
    BY DEF Covers
  <1>0. LevelAt(j, now) \in Nat /\ LevelAt(j, now)' \in Nat
    <2>1. now \in Int /\ now' \in Int
      BY DEF TypeOK
    <2>2. LevelAt(j, now) \in Nat
      BY <2>1, LevelNat
    <2>3. CASE buckets'[j] = Absent
      BY <2>2, <2>3 DEF LevelAt
    <2>4. CASE buckets'[j] # Absent
      <3>1. buckets'[j].level \in Nat /\ buckets'[j].last \in Int
        BY <2>4 DEF TypeOK, Bucket
      <3>2. Drained(buckets'[j].level, buckets'[j].last, now') \in Nat
        BY <2>1, <3>1, DrainedNat
      <3>3. LevelAt(j, now)' = Drained(buckets'[j].level, buckets'[j].last, now')
        BY <2>4 DEF LevelAt, Drained
      <3>4. QED
        BY <2>2, <3>2, <3>3
    <2>5. QED
      BY <2>3, <2>4
  <1>1. ASSUME NEW k \in Key, NEW n \in Sizes, Add(k, n)
        PROVE  LevelAt(j, now)' >= Excess(j, s)'
    <2>1. up' = up /\ before' = before /\ n \in Nat /\ s \in 0 .. up
      BY <1>1, LedgerAssumption DEF Add
    <2>2. sent'[j] = IF j = k THEN sent[j] + n ELSE sent[j]
      BY <1>1 DEF Add, TypeOK
    <2>3. LevelAt(j, now)' = IF j = k THEN LevelAt(j, now) + n ELSE LevelAt(j, now)
      BY <1>1, AddLevel
    <2>4. LevelAt(j, now) >= Excess(j, s)
      BY <2>1 DEF Covers
    <2>5. Excess(j, s)' = IF j = k THEN Excess(j, s) + n ELSE Excess(j, s)
      BY <2>1, <2>2, ExcessInt DEF Excess
    <2>6. QED
      BY <1>0, <2>1, <2>3, <2>4, <2>5, ExcessInt
  <1>2. CASE Gc
    <2>1. Excess(j, s)' = Excess(j, s) /\ s \in 0 .. up
      BY <1>2 DEF Gc, Excess
    <2>2. QED
      BY <1>2, <2>1, GcLevel DEF Covers
  <1>3. ASSUME NEW d \in Steps, Elapse(d)
        PROVE  LevelAt(j, now)' >= Excess(j, s)'
    <2>1. /\ up' = up + d /\ d \in Nat /\ sent' = sent /\ up \in Nat
          /\ s \in Nat /\ s <= up + d /\ s \in 0 .. MaxNow
      BY <1>3, LedgerAssumption DEF Elapse, TypeOK
    <2>2. LevelAt(j, now)' = LB!NonNeg(LevelAt(j, now) - Rate * d)
      BY <1>3, ElapseLevel
    <2>3. CASE s > up
      <3>1. before'[j][s] = sent[j] /\ sent[j] \in Nat
        BY <1>3, <2>1, <2>3 DEF Elapse, TypeOK
      <3>2. (up' - s) * Rate \in Nat
        BY <2>1, LedgerAssumption
      <3>3. Excess(j, s)' <= 0
        BY <2>1, <3>1, <3>2 DEF Excess
      <3>4. Excess(j, s)' \in Int
        BY <2>1, <3>1, <3>2 DEF Excess
      <3>5. QED
        BY <1>0, <3>3, <3>4
    <2>4. CASE s <= up
      <3>1. s \in 0 .. up /\ before'[j][s] = before[j][s]
        BY <1>3, <2>1, <2>4 DEF Elapse, TypeOK
      <3>2. /\ (up' - s) * Rate = (up - s) * Rate + Rate * d
            /\ Rate * d \in Nat
        BY <2>1, LedgerAssumption
      <3>3. Excess(j, s)' = Excess(j, s) - Rate * d
        BY <2>1, <3>1, <3>2, ExcessInt DEF Excess
      <3>4. LevelAt(j, now) >= Excess(j, s)
        BY <3>1 DEF Covers
      <3>5. QED
        BY <1>0, <2>2, <3>1, <3>2, <3>3, <3>4, ExcessInt DEF LB!NonNeg
    <2>5. QED
      BY <2>1, <2>3, <2>4
  <1>4. ASSUME NEW d \in backs, StepBack(d)
        PROVE  LevelAt(j, now)' >= Excess(j, s)'
    <2>1. Excess(j, s)' = Excess(j, s) /\ s \in 0 .. up
      BY <1>4 DEF StepBack, Excess
    <2>2. QED
      BY <1>0, <1>4, <2>1, StepBackLevel, ExcessInt DEF Covers
  <1>5. CASE UNCHANGED vars
    BY <1>5 DEF vars, Covers, Excess, LevelAt, Drained
  <1>6. QED
    BY <1>1, <1>2, <1>3, <1>4, <1>5 DEF Next

(* No sender evades the ledger by pacing (NoPacingEvades of DestLedger):   *)
(* for every rate, threshold and idle time, and every sequence of adds,    *)
(* collections and clock steps, forward or backward.                       *)
THEOREM NoPacingEvadesHolds == Spec => []NoPacingEvades
  <1>1. Init => Covers
    <2> SUFFICES ASSUME Init, NEW k \in Key, NEW s \in 0 .. up
                 PROVE  LevelAt(k, now) >= Excess(k, s)
      BY DEF Covers
    <2>1. s = 0 /\ up = 0 /\ s \in 0 .. MaxNow
      BY LedgerAssumption DEF Init
    <2>2. LevelAt(k, now) = 0 /\ sent[k] = 0 /\ before[k][s] = 0
      BY <2>1 DEF Init, LevelAt
    <2>3. (up - s) * Rate = 0
      BY <2>1, LedgerAssumption
    <2>4. QED
      BY <2>2, <2>3 DEF Excess
  <1>2. TypeOK /\ TypeOK' /\ Covers /\ [Next]_vars => Covers'
    BY CoversStep
  <1>3. TypeOK /\ Covers => NoPacingEvades
    <2> SUFFICES ASSUME TypeOK, Covers, NEW k \in Key, NEW s \in 0 .. up,
                        Excess(k, s) >= Burst
                 PROVE  k \in Breaches(k[1])
      BY DEF NoPacingEvades
    <2> now \in Int
      BY DEF TypeOK
    <2>1. LevelAt(k, now) \in Nat
      BY LevelNat
    <2>2. LevelAt(k, now) >= Burst
      BY <2>1, ExcessInt, LedgerAssumption DEF Covers
    <2>3. buckets[k] # Absent
      BY <2>2, LedgerAssumption DEF LevelAt
    <2>4. QED
      BY <2>2, <2>3 DEF Breaches
  <1>4. QED
    BY TypeCorrect, <1>1, <1>2, <1>3, PTL DEF Spec

-----------------------------------------------------------------------------
\* Every level is the excess of some window, or nothing; and the history
\* never runs ahead.  With Covers this pins a level to its worst window.
Attained ==
    /\ \A k \in Key : \A s \in 0 .. MaxNow : before[k][s] <= sent[k]
    /\ \A k \in Key : \/ LevelAt(k, now) = 0
                       \/ \E s \in 0 .. up : LevelAt(k, now) = Excess(k, s)

\* With a clock that cannot be set back, every step keeps Attained.
LEMMA AttainedStep == backs = {} /\ TypeOK /\ Covers /\ Attained /\ [Next]_vars => Attained'
  <1> SUFFICES ASSUME backs = {}, TypeOK, Covers, Attained, [Next]_vars
               PROVE  Attained'
    OBVIOUS
  <1>0. now \in Int /\ up \in 0 .. MaxNow /\ MaxNow \in Nat
    BY LedgerAssumption DEF TypeOK
  <1>1. ASSUME NEW k \in Key, NEW n \in Sizes, Add(k, n)
        PROVE  Attained'
    <2>1. up' = up /\ before' = before /\ n \in Nat
      BY <1>1, LedgerAssumption DEF Add
    <2>2. \A j \in Key : sent'[j] = IF j = k THEN sent[j] + n ELSE sent[j]
      BY <1>1 DEF Add, TypeOK
    <2>3. ASSUME NEW j \in Key, NEW s \in 0 .. MaxNow
          PROVE  before'[j][s] <= sent'[j]
      <3>1. before[j][s] <= sent[j] /\ before[j][s] \in Nat /\ sent[j] \in Nat
        BY DEF Attained, TypeOK
      <3>2. sent'[j] >= sent[j]
        BY <2>1, <2>2, <3>1
      <3>3. QED
        BY <2>1, <2>2, <3>1, <3>2
    <2>4. ASSUME NEW j \in Key, NEW s \in 0 .. up
          PROVE  Excess(j, s)' = IF j = k THEN Excess(j, s) + n ELSE Excess(j, s)
      BY <2>1, <2>2, ExcessInt DEF Excess
    <2>5. ASSUME NEW j \in Key
          PROVE  \/ LevelAt(j, now)' = 0
                 \/ \E s \in 0 .. up' : LevelAt(j, now)' = Excess(j, s)'
      <3>1. LevelAt(j, now)' = IF j = k THEN LevelAt(j, now) + n ELSE LevelAt(j, now)
        BY <1>1, AddLevel
      <3>2. LevelAt(j, now) \in Nat
        BY <1>0, LevelNat
      <3>3. CASE \E s \in 0 .. up : LevelAt(j, now) = Excess(j, s)
        BY <2>1, <2>4, <3>1, <3>3
      <3>4. CASE LevelAt(j, now) = 0
        <4>1. up \in 0 .. up /\ (up - up) * Rate = 0
          BY <1>0, LedgerAssumption
        <4>2. Excess(j, up) <= 0
          BY <3>4, <4>1 DEF Covers
        <4>3. Excess(j, up) = sent[j] - before[j][up]
          BY <4>1, ExcessInt DEF Excess
        <4>4. before[j][up] <= sent[j]
          BY <1>0 DEF Attained
        <4>5. Excess(j, up) = 0
          BY <4>1, <4>2, <4>3, <4>4, ExcessInt
        <4>6. QED
          BY <2>1, <2>4, <3>1, <3>4, <4>1, <4>5
      <3>5. QED
        BY <3>3, <3>4 DEF Attained
    <2>6. QED
      BY <2>3, <2>5 DEF Attained
  <1>2. CASE Gc
    <2>1. /\ up' = up /\ before' = before /\ sent' = sent
          /\ \A j \in Key : LevelAt(j, now)' = LevelAt(j, now)
      BY <1>2, GcLevel DEF Gc
    <2>2. \A j \in Key : \A s \in 0 .. up : Excess(j, s)' = Excess(j, s)
      BY <2>1 DEF Excess
    <2>3. QED
      BY <2>1, <2>2 DEF Attained
  <1>3. ASSUME NEW d \in Steps, Elapse(d)
        PROVE  Attained'
    <2>1. /\ up' = up + d /\ d \in Nat /\ sent' = sent
          /\ Rate * d \in Nat
      BY <1>3, LedgerAssumption DEF Elapse
    <2>2. \A j \in Key : \A s \in 0 .. MaxNow :
             before'[j][s] = IF s > up /\ s <= up + d THEN sent[j] ELSE before[j][s]
      BY <1>3 DEF Elapse, TypeOK
    <2>3. \A j \in Key : \A s \in 0 .. MaxNow : before'[j][s] <= sent'[j]
      BY <2>1, <2>2 DEF Attained, TypeOK
    <2>4. ASSUME NEW j \in Key, NEW s \in 0 .. up
          PROVE  s \in 0 .. up' /\ Excess(j, s)' = Excess(j, s) - Rate * d
      <3>1. s \in 0 .. MaxNow /\ before'[j][s] = before[j][s] /\ s \in 0 .. up'
        BY <1>0, <2>1, <2>2
      <3>2. (up' - s) * Rate = (up - s) * Rate + Rate * d
        BY <1>0, <2>1, LedgerAssumption
      <3>3. QED
        BY <2>1, <3>1, <3>2, ExcessInt DEF Excess
    <2>5. ASSUME NEW j \in Key
          PROVE  \/ LevelAt(j, now)' = 0
                 \/ \E s \in 0 .. up' : LevelAt(j, now)' = Excess(j, s)'
      <3>1. LevelAt(j, now)' = LB!NonNeg(LevelAt(j, now) - Rate * d)
        BY <1>3, ElapseLevel
      <3>2. LevelAt(j, now) \in Nat
        BY <1>0, LevelNat
      <3>3. CASE LevelAt(j, now) = 0
        BY <2>1, <3>1, <3>3 DEF LB!NonNeg
      <3>4. ASSUME NEW s \in 0 .. up, LevelAt(j, now) = Excess(j, s)
            PROVE  \/ LevelAt(j, now)' = 0
                   \/ LevelAt(j, now)' = Excess(j, s)'
        BY <2>1, <2>4, <3>1, <3>2, <3>4 DEF LB!NonNeg
      <3>5. QED
        BY <2>4, <3>3, <3>4 DEF Attained
    <2>6. QED
      BY <2>3, <2>5 DEF Attained
  <1>4. CASE UNCHANGED vars
    BY <1>4 DEF vars, Attained, Excess, LevelAt, Drained
  <1>5. QED
    BY <1>1, <1>2, <1>3, <1>4 DEF Next

(* No breach without its bytes (BreachHasWindow of DestLedger): if the     *)
(* clock cannot be set back, whatever breaches() reports really received    *)
(* Burst more than the drain over some window that ends now.               *)
THEOREM BreachHasWindowHolds == Spec => []BreachHasWindow
  <1> DEFINE Inv == Covers /\ (backs = {} => Attained)
  <1>1. Init => Inv
    <2> SUFFICES ASSUME Init
                 PROVE  Covers /\ Attained
      OBVIOUS
    <2>1. \A k \in Key : /\ LevelAt(k, now) = 0 /\ sent[k] = 0
                         /\ \A s \in 0 .. MaxNow : before[k][s] = 0
      BY DEF Init, LevelAt
    <2>2. up = 0 /\ 0 \in 0 .. MaxNow /\ \A s \in 0 .. up : s = 0 /\ (up - s) * Rate = 0
      BY LedgerAssumption DEF Init
    <2>3. \A k \in Key : \A s \in 0 .. up : Excess(k, s) = 0
      BY <2>1, <2>2 DEF Excess
    <2>4. QED
      BY <2>1, <2>2, <2>3 DEF Covers, Attained
  <1>2. TypeOK /\ TypeOK' /\ Inv /\ [Next]_vars => Inv'
    <2>1. [Next]_vars => backs' = backs
      BY DEF Next, Add, Gc, Elapse, StepBack, vars
    <2>2. QED
      BY <2>1, CoversStep, AttainedStep
  <1>3. Inv => BreachHasWindow
    <2> SUFFICES ASSUME Attained, NEW p \in Pid, NEW k \in Breaches(p)
                 PROVE  \E s \in 0 .. up : Excess(k, s) >= Burst
      BY DEF BreachHasWindow
    <2>1. k \in Key /\ LevelAt(k, now) >= Burst
      BY DEF Breaches
    <2>2. LevelAt(k, now) # 0
      BY <2>1, LedgerAssumption
    <2>3. PICK s \in 0 .. up : LevelAt(k, now) = Excess(k, s)
      BY <2>1, <2>2 DEF Attained
    <2>4. QED
      BY <2>1, <2>3
  <1>4. QED
    BY TypeCorrect, <1>1, <1>2, <1>3, PTL DEF Spec

-----------------------------------------------------------------------------
(* Lazy draining and collection are invisible (ImplementsLeakyBucket):     *)
(* if the clock cannot be set back, a reader of the ledger cannot tell   *)
(* it from buckets that drain all the time and are kept for ever.          *)
THEOREM LedgerImplementsLeakyBucket == Spec => ImplementsLeakyBucket
  <1> DEFINE lvl == [k \in Key |-> IF backs = {} THEN LevelAt(k, now) ELSE 0]
  <1>1. Init => LB!Init
    BY DEF Init, LB!Init, LevelAt
  <1>2. TypeOK /\ [Next]_vars => [LB!Next]_LB!vars
    <2> SUFFICES ASSUME TypeOK, [Next]_vars
                 PROVE  LB!Next \/ UNCHANGED LB!vars
      OBVIOUS
    <2>1. ASSUME NEW k \in Key, NEW n \in Sizes, Add(k, n)
          PROVE  LB!Pour(k, n) \/ UNCHANGED LB!vars
      <3>1. up' = up /\ backs' = backs
        BY <2>1 DEF Add
      <3>2. CASE backs = {}
        <4>1. lvl' = [lvl EXCEPT ![k] = @ + n]
          BY <2>1, <3>1, <3>2, AddLevel
        <4>2. QED
          BY <3>1, <4>1 DEF LB!Pour
      <3>3. CASE backs # {}
        BY <3>1, <3>3 DEF LB!vars
      <3>4. QED
        BY <3>2, <3>3
    <2>2. ASSUME Gc
          PROVE  UNCHANGED LB!vars
      <3>1. up' = up /\ lvl' = lvl
        BY <2>2, GcLevel DEF Gc
      <3>2. QED
        BY <3>1 DEF LB!vars
    <2>3. ASSUME NEW d \in Steps, Elapse(d)
          PROVE  LB!Elapse(d)
      <3>1. up' = up + d /\ backs' = backs
        BY <2>3 DEF Elapse
      <3>2. Rate * d \in Nat
        BY LedgerAssumption
      <3>3. lvl' = [k \in Key |-> LB!NonNeg(lvl[k] - Rate * d)]
        BY <2>3, <3>1, <3>2, ElapseLevel DEF LB!NonNeg
      <3>4. QED
        BY <3>1, <3>3 DEF LB!Elapse
    <2>4. ASSUME NEW d \in backs, StepBack(d)
          PROVE  UNCHANGED LB!vars
      BY <2>4 DEF StepBack, LB!vars
    <2>5. ASSUME UNCHANGED vars
          PROVE  UNCHANGED LB!vars
      BY <2>5 DEF vars, LB!vars, LevelAt, Drained
    <2>6. QED
      BY <2>1, <2>2, <2>3, <2>4, <2>5 DEF Next, LB!Next
  <1>3. QED
    BY TypeCorrect, <1>1, <1>2, PTL DEF Spec, ImplementsLeakyBucket, LB!Spec
=============================================================================
