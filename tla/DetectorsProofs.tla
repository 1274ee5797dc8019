-------------------------- MODULE DetectorsProofs ---------------------------
(***************************************************************************)
(* Theorems about the fan-out counter and the covert-channel heuristics    *)
(* under the sampler's tick, for every set of processes, addresses and     *)
(* names, every window, threshold and length of the histories.             *)
(***************************************************************************)
EXTENDS Detectors, FiniteSetTheorems, SequenceTheorems, WellFoundedInduction, TLAPS

Recs == [total : 1 .. MaxSent, age : 0 .. FanWindow + 1]

LEMMA Constants ==
    /\ FanWindow \in Nat /\ MinDests \in Nat \ {0} /\ Small \in Nat
    /\ MaxSent \in Nat /\ Small < MaxSent
    /\ Agent \subseteq Pid /\ IsFiniteSet(Ip) /\ Ip \cap Name = {}
    /\ Absent \notin Recs /\ PerIp \in Nat \ {0}
    /\ Key \subseteq F!Key
  <1>1. /\ {FanWindow, MinDests, Small, MaxSent} \subseteq Nat
        /\ MinDests > 0 /\ Small < MaxSent /\ Absent \notin [total : Nat, age : Nat]
        /\ Agent \subseteq Pid /\ IsFiniteSet(Ip) /\ Ip \cap Name = {} /\ PerIp \in Nat \ {0}
    BY DetectorsAssumption DEF DetectorsAssumption, F!FanoutAssumption
  <1>2. Recs \subseteq [total : Nat, age : Nat]
    BY <1>1 DEF Recs
  <1>3. Key \subseteq F!Key
    BY DEF Key, F!Key
  <1>4. QED
    BY <1>1, <1>2, <1>3

-----------------------------------------------------------------------------
(* The counter by itself                                                   *)

\* A record is never without bytes, and is fresh after a delta.
LEMMA RecordType ==
    ASSUME NEW r \in Recs \cup {Absent}
    PROVE  F!Record(r, 1) \in Recs
  <1> DEFINE old == IF r = Absent \/ r.age > FanWindow THEN 0 ELSE r.total
  <1>1. old \in Nat
    BY Constants DEF Recs
  <1>2. F!UpTo(1 + old, MaxSent) \in 1 .. MaxSent
    <2>1. 1 + old \in Nat /\ 1 + old > 0
      BY <1>1
    <2> HIDE DEF old
    <2>2. QED
      BY <2>1, Constants DEF F!UpTo
  <1>3. QED
    BY <1>2, Constants DEF F!Record, Recs

LEMMA FanInit == Init => F!TypeOK
  BY Constants DEF Init, F!Init, F!TypeOK

LEMMA FanObserve ==
    ASSUME F!TypeOK, NEW k \in F!Key, F!Observe(k, 1)
    PROVE  F!TypeOK'
  <1>1. F!Record(seen[k], 1) \in Recs
    BY RecordType DEF F!TypeOK, Recs
  <1>2. /\ F!UpTo(recent[k][0] + 1, MaxSent) \in 0 .. MaxSent
        /\ F!UpTo(sent[k] + 1, MaxSent) \in 0 .. MaxSent
    <2>1. recent[k][0] + 1 \in Nat /\ sent[k] + 1 \in Nat
      BY Constants DEF F!TypeOK
    <2>2. QED
      BY <2>1, Constants DEF F!UpTo
  <1>3. seen' \in [F!Key -> Recs \cup {Absent}]
    BY <1>1 DEF F!TypeOK, F!Observe, Recs
  <1>4. recent' \in [F!Key -> [0 .. FanWindow -> 0 .. MaxSent]]
    BY <1>2, Constants DEF F!TypeOK, F!Observe
  <1>5. sent' \in [F!Key -> 0 .. MaxSent]
    BY <1>2 DEF F!TypeOK, F!Observe
  <1>6. QED
    BY <1>3, <1>4, <1>5 DEF F!TypeOK, Recs

LEMMA FanElapse == F!TypeOK /\ F!Elapse => F!TypeOK'
  <1> SUFFICES ASSUME F!TypeOK, F!Elapse
               PROVE  F!TypeOK'
    OBVIOUS
  <1>1. seen' \in [F!Key -> Recs \cup {Absent}]
    <2>1. ASSUME NEW k \in F!Key, seen[k] # Absent
          PROVE  [seen[k] EXCEPT !.age = F!UpTo(@ + 1, FanWindow + 1)] \in Recs
      <3>1. seen[k] \in Recs
        BY <2>1 DEF F!TypeOK, Recs
      <3>2. F!UpTo(seen[k].age + 1, FanWindow + 1) \in 0 .. FanWindow + 1
        BY <3>1, Constants DEF F!UpTo, Recs
      <3>3. QED
        BY <3>1, <3>2 DEF Recs
    <2>2. QED
      BY <2>1 DEF F!Elapse
  <1>2. recent' \in [F!Key -> [0 .. FanWindow -> 0 .. MaxSent]]
    <2>1. ASSUME NEW k \in F!Key, NEW a \in 0 .. FanWindow
          PROVE  (IF a = 0 THEN 0 ELSE recent[k][a - 1]) \in 0 .. MaxSent
      <3>1. CASE a = 0
        BY <3>1, Constants
      <3>2. CASE a # 0
        <4>1. a - 1 \in 0 .. FanWindow
          BY <3>2, Constants
        <4>2. QED
          BY <3>2, <4>1 DEF F!TypeOK
      <3>3. QED
        BY <3>1, <3>2
    <2>2. QED
      BY <2>1 DEF F!Elapse
  <1>3. QED
    BY <1>1, <1>2 DEF F!TypeOK, F!Elapse, Recs

\* An observation, as fan-out sees it: under the address.
LEMMA ObservesAddress ==
    ASSUME NEW p \in Pid, NEW ip \in Ip, NEW dest, Observe(p, ip, dest)
    PROVE  <<p, ip>> \in Key /\ <<p, ip>> \in F!Key /\ F!Observe(<<p, ip>>, 1)
  BY Constants DEF Observe, FanKey, Key

LEMMA FanStep == F!TypeOK /\ [Next]_vars => F!TypeOK'
  <1> SUFFICES ASSUME F!TypeOK, [Next]_vars
               PROVE  F!TypeOK'
    OBVIOUS
  <1>1. ASSUME NEW p \in Pid, NEW ip \in Ip, NEW dest, Observe(p, ip, dest)
        PROVE  F!TypeOK'
    BY <1>1, ObservesAddress, FanObserve
  <1>2. CASE Judge
    BY <1>2 DEF Judge, F!Gc, F!TypeOK
  <1>3. CASE NextTick
    BY <1>3, FanElapse DEF NextTick
  <1>4. ASSUME UNCHANGED vars \/ \E p \in Pid : ObserveAi(p)
        PROVE  F!TypeOK'
    <2>1. UNCHANGED fan
      BY <1>4 DEF vars, ObserveAi
    <2>2. QED
      BY <2>1 DEF fan, F!TypeOK
  <1>5. QED
    BY <1>1, <1>2, <1>3, <1>4 DEF Next

(* Every record of the fan-out counter has a positive total within its     *)
(* bound and an age of at most one past the window, through observe, gc    *)
(* and time, in whatever order the tick calls them.                        *)
THEOREM FanoutTypeCorrect == Spec => []F!TypeOK
  <1>1. QED
    BY FanInit, FanStep, PTL DEF Spec

-----------------------------------------------------------------------------
(* What the records have to do with the deltas of the window               *)

\* The history says what moved in this tick, and nothing is said before the
\* tick is judged.
TickInv ==
    /\ pc \in {"observe", "judged"}
    /\ got \in [Key -> [0 .. FanWindow -> 0 .. PerIp]]
    /\ told \in [Pid -> 0 .. FanWindow + 1]
    /\ moved \in [Key -> 0 .. PerIp]
    /\ \A k \in Key : got[k][0] = moved[k] /\ (moved[k] > 0 => k[1] \in perPid)
    /\ pc = "observe" => said = Nothing

\* A record is as old as the last delta of the window; while it is counted its
\* total is no less than their number, and no more than was ever sent.
RecordInv ==
    /\ \A p \in Pid, d \in Name : seen[<<p, d>>] = Absent
    /\ \A k \in Key :
          /\ \A a \in Ticks(k) : seen[k] # Absent /\ seen[k].age <= a
          /\ seen[k] # Absent =>
                /\ seen[k].age <= FanWindow =>
                      /\ seen[k].age \in Ticks(k)
                      /\ Deltas(k) <= seen[k].total \/ seen[k].total = MaxSent
                /\ seen[k].total <= sent[k]

\* Addresses p has never sent much to, with a delta in a tick that is a to
\* FanWindow ticks ago.
Quiet(p, a) == {i \in Ip : /\ sent[<<p, i>>] <= Small
                           /\ \E b \in a .. FanWindow : got[<<p, i>>][b] > 0}

\* Who has moved bytes since it was last reported (c ticks ago) has at no time
\* from then on (a ticks ago) reached enough addresses.
UnsaidInv ==
    \A p \in Agent : \A c \in 0 .. FanWindow : \A a \in 0 .. c :
        (/\ c < told[p] /\ (a = 0 => pc = "judged")
         /\ \E i \in Ip : got[<<p, i>>][c] > 0)
            => Cardinality(Quiet(p, a)) < MinDests

ShapeInv == F!TypeOK /\ TickInv /\ RecordInv /\ UnsaidInv

LEMMA TicksFinite ==
    ASSUME NEW k
    PROVE  /\ Ticks(k) \subseteq 0 .. FanWindow
           /\ IsFiniteSet(Each(k)) /\ Deltas(k) \in Nat
  <1>1. Ticks(k) \subseteq 0 .. FanWindow
    BY DEF Ticks
  <1>2. IsFiniteSet(0 .. FanWindow) /\ IsFiniteSet(1 .. PerIp)
    BY Constants, FS_Interval
  <1>3. IsFiniteSet((0 .. FanWindow) \X (1 .. PerIp))
    BY <1>2, FS_Product
  <1>4. Each(k) \subseteq (0 .. FanWindow) \X (1 .. PerIp)
    BY DEF Each
  <1>5. IsFiniteSet(Each(k))
    BY <1>3, <1>4, FS_Subset
  <1>6. QED
    BY <1>1, <1>5, FS_CardinalityType DEF Deltas

LEMMA SomeTicks ==
    ASSUME NEW k, got[k] \in [0 .. FanWindow -> 0 .. PerIp]
    PROVE  Deltas(k) > 0 <=> Ticks(k) # {}
  <1>1. Deltas(k) > 0 <=> Each(k) # {}
    BY TicksFinite, FS_EmptySet DEF Deltas
  <1>2. ASSUME NEW d \in Each(k)
        PROVE  Ticks(k) # {}
    <2>1. d[1] \in 0 .. FanWindow /\ d[2] \in 1 .. PerIp /\ d[2] <= got[k][d[1]]
      BY DEF Each
    <2>2. d[1] \in Ticks(k)
      BY <2>1, Constants DEF Ticks
    <2>3. QED
      BY <2>2
  <1>3. ASSUME NEW a \in Ticks(k)
        PROVE  Each(k) # {}
    <2>1. a \in 0 .. FanWindow /\ got[k][a] > 0 /\ got[k][a] \in 0 .. PerIp
      BY DEF Ticks
    <2>2. 1 \in 1 .. PerIp /\ 1 <= got[k][a]
      BY <2>1, Constants
    <2>3. <<a, 1>> \in Each(k)
      BY <2>1, <2>2 DEF Each
    <2>4. QED
      BY <2>3
  <1>4. QED
    BY <1>1, <1>2, <1>3

\* More addresses are more to count.
LEMMA MoreAddresses ==
    ASSUME NEW S, NEW T, S \subseteq T, T \subseteq Ip
    PROVE  /\ Cardinality(S) \in Nat /\ Cardinality(T) \in Nat
           /\ Cardinality(S) <= Cardinality(T)
  <1>1. IsFiniteSet(T)
    BY Constants, FS_Subset
  <1>2. QED
    BY <1>1, FS_Subset, FS_CardinalityType

LEMMA InitShape == Init => TickInv /\ RecordInv /\ UnsaidInv
  <1> SUFFICES ASSUME Init
               PROVE  TickInv /\ RecordInv /\ UnsaidInv
    OBVIOUS
  <1>1. TickInv
    BY Constants DEF Init, TickInv
  <1>2. \A k \in Key : Ticks(k) = {}
    BY DEF Init, Ticks
  <1>3. \A k \in F!Key : seen[k] = Absent
    BY DEF Init, F!Init
  <1>4. RecordInv
    BY <1>2, <1>3, Constants DEF RecordInv, F!Key
  <1>5. UnsaidInv
    BY Constants DEF Init, UnsaidInv, Key
  <1>6. QED
    BY <1>1, <1>4, <1>5

-----------------------------------------------------------------------------
\* The record of the address that is observed, and the deltas it stands for.
LEMMA ObserveRecord ==
    ASSUME ShapeInv, NEW p \in Pid, NEW ip \in Ip, NEW dest, Observe(p, ip, dest)
    PROVE  RecordInv'
  <1> DEFINE k0 == <<p, ip>>
  <1>1. k0 \in Key /\ k0 \in F!Key /\ F!Observe(k0, 1)
    BY ObservesAddress
  <1>2. moved[k0] < PerIp /\ got' = [got EXCEPT ![k0][0] = @ + 1] /\ pc = "observe"
    BY DEF Observe
  <1>3. 0 \in 0 .. FanWindow
    BY Constants
  <1>4. PICK m \in Nat : m = got[k0][0] /\ m + 1 \in 1 .. PerIp
    <2>1. got[k0][0] = moved[k0] /\ moved[k0] \in 0 .. PerIp
      BY <1>1 DEF ShapeInv, TickInv
    <2>2. QED
      BY <1>2, <2>1, Constants
  <1>5. /\ got'[k0][0] = m + 1 /\ got[k0] \in [0 .. FanWindow -> 0 .. PerIp]
        /\ \A a \in 0 .. FanWindow : a # 0 => got'[k0][a] = got[k0][a]
    BY <1>1, <1>2, <1>3, <1>4 DEF ShapeInv, TickInv
  <1>6. /\ Deltas(k0)' = Deltas(k0) + 1 /\ Deltas(k0) \in Nat
        /\ Ticks(k0)' = Ticks(k0) \cup {0}
    <2>1. ASSUME NEW d \in (0 .. FanWindow) \X (1 .. PerIp)
          PROVE  d[2] <= got'[k0][d[1]] <=> d[2] <= got[k0][d[1]] \/ d = <<0, m + 1>>
      <3>1. d[1] \in 0 .. FanWindow /\ d[2] \in Nat /\ d = <<d[1], d[2]>>
        OBVIOUS
      <3>2. CASE d[1] = 0
        BY <3>1, <3>2, <1>4, <1>5
      <3>3. CASE d[1] # 0
        BY <3>1, <3>3, <1>5
      <3>4. QED
        BY <3>2, <3>3
    <2>2. Each(k0)' = Each(k0) \cup {<<0, m + 1>>}
      BY <2>1, <1>3, <1>4 DEF Each
    <2>3. <<0, m + 1>> \notin Each(k0)
      BY <1>4 DEF Each
    <2>4. Cardinality(Each(k0) \cup {<<0, m + 1>>}) = Cardinality(Each(k0)) + 1
      BY <2>3, TicksFinite, FS_AddElement
    <2>5. Ticks(k0)' = Ticks(k0) \cup {0}
      <3>1. m + 1 > 0
        BY <1>4
      <3>2. QED
        BY <3>1, <1>3, <1>5 DEF Ticks
    <2>6. QED
      BY <2>2, <2>4, <2>5, TicksFinite DEF Deltas
  <1>7. ASSUME NEW k \in Key, k # k0
        PROVE  /\ seen'[k] = seen[k] /\ sent'[k] = sent[k]
               /\ Ticks(k)' = Ticks(k) /\ Each(k)' = Each(k)
    <2>1. k \in F!Key
      BY Constants
    <2>2. seen'[k] = seen[k] /\ sent'[k] = sent[k]
      BY <1>1, <1>7, <2>1 DEF F!Observe, ShapeInv, F!TypeOK
    <2>3. got'[k] = got[k]
      BY <1>2, <1>7 DEF ShapeInv, TickInv
    <2>4. QED
      BY <2>2, <2>3 DEF Ticks, Each
  <1>8. /\ seen[k0] \in Recs \cup {Absent} /\ sent[k0] \in 0 .. MaxSent
        /\ seen'[k0] = F!Record(seen[k0], 1)
        /\ sent'[k0] = F!UpTo(sent[k0] + 1, MaxSent)
    BY <1>1 DEF ShapeInv, F!TypeOK, F!Observe, Recs
  <1>9. seen'[k0] \in Recs /\ seen'[k0] # Absent /\ seen'[k0].age = 0
    BY <1>8, RecordType, Constants DEF F!Record
  <1>10. /\ Deltas(k0)' <= seen'[k0].total \/ seen'[k0].total = MaxSent
         /\ seen'[k0].total <= sent'[k0]
    <2> DEFINE old == IF seen[k0] = Absent \/ seen[k0].age > FanWindow THEN 0
                      ELSE seen[k0].total
    <2>1. old \in Nat /\ old <= sent[k0]
      BY <1>1, <1>8, Constants DEF ShapeInv, RecordInv, Recs
    <2>2. Deltas(k0) <= old \/ old = MaxSent
      <3>1. CASE seen[k0] = Absent \/ seen[k0].age > FanWindow
        <4>1. Ticks(k0) = {}
          BY <1>1, <3>1, <1>8, TicksFinite, Constants DEF ShapeInv, RecordInv, Recs
        <4>2. Deltas(k0) = 0
          BY <4>1, <1>5, <1>6, SomeTicks
        <4>3. QED
          BY <4>2, <3>1
      <3>2. CASE ~(seen[k0] = Absent \/ seen[k0].age > FanWindow)
        <4>1. seen[k0] \in Recs
          BY <1>8, <3>2
        <4>2. seen[k0].age <= FanWindow
          BY <3>2, <4>1, Constants DEF Recs
        <4>3. QED
          BY <1>1, <3>2, <4>2 DEF ShapeInv, RecordInv
      <3>3. QED
        BY <3>1, <3>2
    <2>3. seen'[k0].total = F!UpTo(1 + old, MaxSent)
      BY <1>8 DEF F!Record
    <2> HIDE DEF old
    <2>4. Deltas(k0) + 1 <= seen'[k0].total \/ seen'[k0].total = MaxSent
      BY <2>1, <2>2, <2>3, <1>6, Constants DEF F!UpTo
    <2>5. seen'[k0].total <= sent'[k0]
      BY <2>1, <2>3, <1>8, Constants DEF F!UpTo
    <2>6. QED
      BY <2>4, <2>5, <1>6
  <1>11. \A q \in Pid, d \in Name : seen'[<<q, d>>] = Absent
    <2> SUFFICES ASSUME NEW q \in Pid, NEW d \in Name
                 PROVE  seen'[<<q, d>>] = Absent
      OBVIOUS
    <2>1. <<q, d>> # k0 /\ <<q, d>> \in F!Key
      BY Constants DEF F!Key
    <2>2. seen'[<<q, d>>] = seen[<<q, d>>]
      BY <1>1, <2>1 DEF F!Observe, ShapeInv, F!TypeOK
    <2>3. QED
      BY <2>2 DEF ShapeInv, RecordInv
  <1>12. ASSUME NEW k \in Key
         PROVE  /\ \A a \in Ticks(k)' : seen'[k] # Absent /\ seen'[k].age <= a
                /\ seen'[k] # Absent =>
                      /\ seen'[k].age <= FanWindow =>
                            /\ seen'[k].age \in Ticks(k)'
                            /\ Deltas(k)' <= seen'[k].total \/ seen'[k].total = MaxSent
                      /\ seen'[k].total <= sent'[k]
    <2>1. CASE k = k0
      <3>1. \A a \in Ticks(k)' : seen'[k] # Absent /\ seen'[k].age <= a
        BY <2>1, <1>6, <1>9, TicksFinite, Constants
      <3>2. seen'[k].age \in Ticks(k)'
        BY <2>1, <1>6, <1>9
      <3>3. QED
        BY <2>1, <3>1, <3>2, <1>10
    <2>2. CASE k # k0
      <3>1. /\ seen'[k] = seen[k] /\ sent'[k] = sent[k]
            /\ Ticks(k)' = Ticks(k) /\ Deltas(k)' = Deltas(k)
        BY <2>2, <1>7 DEF Deltas
      <3>2. QED
        BY <3>1 DEF ShapeInv, RecordInv
    <2>3. QED
      BY <2>1, <2>2
  <1>13. QED
    BY <1>11, <1>12 DEF RecordInv

\* More is sent, and what moved in earlier ticks stays: fewer are quiet.
LEMMA ObserveShape ==
    ASSUME ShapeInv, NEW p \in Pid, NEW ip \in Ip, NEW dest, Observe(p, ip, dest)
    PROVE  TickInv' /\ UnsaidInv'
  <1>1. <<p, ip>> \in Key /\ <<p, ip>> \in F!Key /\ F!Observe(<<p, ip>>, 1)
    BY ObservesAddress
  <1>2. /\ got' = [got EXCEPT ![<<p, ip>>][0] = @ + 1] /\ pc = "observe"
        /\ moved[<<p, ip>>] < PerIp /\ moved' = [moved EXCEPT ![<<p, ip>>] = @ + 1]
        /\ perPid' = perPid \cup {p} /\ UNCHANGED <<pc, said, told>>
    BY DEF Observe
  <1>3. 0 \in 0 .. FanWindow
    BY Constants
  <1>4. TickInv'
    <2>1. PICK m \in Nat : m = got[<<p, ip>>][0] /\ m = moved[<<p, ip>>] /\ m + 1 \in 0 .. PerIp
      <3>1. /\ got[<<p, ip>>][0] = moved[<<p, ip>>]
            /\ moved[<<p, ip>>] \in 0 .. PerIp
        BY <1>1 DEF ShapeInv, TickInv
      <3>2. QED
        BY <1>2, <3>1, Constants
    <2>2. got' \in [Key -> [0 .. FanWindow -> 0 .. PerIp]]
      BY <1>1, <1>2, <1>3, <2>1 DEF ShapeInv, TickInv
    <2>3. moved' \in [Key -> 0 .. PerIp]
      BY <1>1, <1>2, <2>1 DEF ShapeInv, TickInv
    <2>4. ASSUME NEW k \in Key
          PROVE  got'[k][0] = moved'[k] /\ (moved'[k] > 0 => k[1] \in perPid')
      <3>1. CASE k = <<p, ip>>
        BY <3>1, <1>1, <1>2, <1>3, <2>1 DEF ShapeInv, TickInv
      <3>2. CASE k # <<p, ip>>
        BY <3>2, <1>1, <1>2 DEF ShapeInv, TickInv
      <3>3. QED
        BY <3>1, <3>2
    <2>5. QED
      BY <1>2, <2>2, <2>3, <2>4 DEF ShapeInv, TickInv
  <1>5. UnsaidInv'
    <2> SUFFICES ASSUME NEW q \in Agent, NEW c \in 0 .. FanWindow, NEW a \in 0 .. c,
                        c < told'[q], a = 0 => pc' = "judged",
                        \E i \in Ip : got'[<<q, i>>][c] > 0
                 PROVE  Cardinality(Quiet(q, a)') < MinDests
      BY DEF UnsaidInv
    <2>1. a # 0 /\ a \in Nat /\ c \in a .. FanWindow /\ c < told[q] /\ q \in Pid
      BY <1>2, Constants
    <2>2. \A i \in Ip : \A b \in a .. FanWindow : got'[<<q, i>>][b] = got[<<q, i>>][b]
      <3> SUFFICES ASSUME NEW i \in Ip, NEW b \in a .. FanWindow
                   PROVE  got'[<<q, i>>][b] = got[<<q, i>>][b]
        OBVIOUS
      <3>1. b # 0 /\ b \in 0 .. FanWindow /\ <<q, i>> \in Key
        BY <2>1, Constants DEF Key
      <3>2. QED
        BY <3>1, <1>1, <1>2 DEF ShapeInv, TickInv
    <2>3. \A i \in Ip : sent'[<<q, i>>] <= Small => sent[<<q, i>>] <= Small
      <3> SUFFICES ASSUME NEW i \in Ip, sent'[<<q, i>>] <= Small
                   PROVE  sent[<<q, i>>] <= Small
        OBVIOUS
      <3>1. <<q, i>> \in F!Key
        BY <2>1 DEF F!Key
      <3>2. sent[<<q, i>>] \in 0 .. MaxSent
        BY <3>1 DEF ShapeInv, F!TypeOK
      <3>3. sent'[<<q, i>>] = sent[<<q, i>>]
            \/ sent'[<<q, i>>] = F!UpTo(sent[<<q, i>>] + 1, MaxSent)
        BY <3>1, <1>1 DEF F!Observe, ShapeInv, F!TypeOK
      <3>4. QED
        BY <3>2, <3>3, Constants DEF F!UpTo
    <2>4. Quiet(q, a)' \subseteq Quiet(q, a) /\ Quiet(q, a) \subseteq Ip
      BY <2>2, <2>3 DEF Quiet
    <2>5. \E i \in Ip : got[<<q, i>>][c] > 0
      BY <2>1, <2>2
    <2>6. Cardinality(Quiet(q, a)) < MinDests
      BY <2>1, <2>5 DEF ShapeInv, UnsaidInv
    <2>7. QED
      BY <2>4, <2>6, MoreAddresses, Constants
  <1>6. QED
    BY <1>4, <1>5

-----------------------------------------------------------------------------
(* Judging                                                                 *)

\* gc takes no record that anything in the window stands for.
LEMMA JudgeRecord ==
    ASSUME ShapeInv, Judge
    PROVE  RecordInv'
  <1>1. /\ seen' = [k \in F!Key |-> IF F!Dead(k) THEN Absent ELSE seen[k]]
        /\ sent' = sent /\ got' = got
    BY DEF Judge, F!Gc
  <1>2. \A k : Ticks(k)' = Ticks(k) /\ Deltas(k)' = Deltas(k)
    BY <1>1 DEF Ticks, Each, Deltas
  <1>3. \A p \in Pid, d \in Name : seen'[<<p, d>>] = Absent
    BY <1>1 DEF ShapeInv, RecordInv, F!Key
  <1>4. ASSUME NEW k \in Key
        PROVE  /\ \A a \in Ticks(k) : seen'[k] # Absent /\ seen'[k].age <= a
               /\ seen'[k] # Absent => seen'[k] = seen[k]
    <2>1. k \in F!Key
      BY Constants
    <2>2. seen'[k] # Absent => seen'[k] = seen[k]
      BY <1>1, <2>1
    <2>3. ASSUME NEW a \in Ticks(k)
          PROVE  seen'[k] # Absent /\ seen'[k].age <= a
      <3>1. seen[k] # Absent /\ seen[k].age <= a
        BY DEF ShapeInv, RecordInv
      <3>2. seen[k] \in Recs /\ a \in 0 .. FanWindow
        BY <2>1, <3>1, TicksFinite DEF ShapeInv, F!TypeOK, Recs
      <3>3. ~F!Dead(k)
        BY <3>1, <3>2, Constants DEF F!Dead, Recs
      <3>4. QED
        BY <1>1, <2>1, <3>1, <3>3
    <2>4. QED
      BY <2>2, <2>3
  <1>5. QED
    BY <1>1, <1>2, <1>3, <1>4 DEF ShapeInv, RecordInv

\* What is counted is an address with a small total, which is no less than
\* its deltas in the window; and what is quiet and moved within the window is
\* counted.
CountedInv ==
    \A p \in Pid :
        /\ F!Counted(p) \subseteq {i \in Ip : Deltas(<<p, i>>) \in 1 .. Small}
        /\ Quiet(p, 0) \subseteq F!Counted(p)
        /\ F!Counted(p) \subseteq Ip

LEMMA CountedIsSmall ==
    ASSUME F!TypeOK, TickInv, RecordInv, NEW p \in Pid
    PROVE  F!Counted(p) \subseteq {i \in Ip : Deltas(<<p, i>>) \in 1 .. Small}
  <1> SUFFICES ASSUME NEW d \in F!Counted(p)
               PROVE  d \in Ip /\ Deltas(<<p, d>>) \in 1 .. Small
    OBVIOUS
  <1>1. /\ d \in Ip \cup Name /\ seen[<<p, d>>] # Absent
        /\ seen[<<p, d>>].age <= FanWindow /\ seen[<<p, d>>].total <= Small
    BY DEF F!Counted
  <1>2. d \in Ip
    BY <1>1 DEF RecordInv
  <1>3. <<p, d>> \in Key /\ <<p, d>> \in F!Key
    BY <1>2 DEF Key, F!Key
  <1>4. seen[<<p, d>>] \in Recs
    BY <1>1, <1>3 DEF F!TypeOK, Recs
  <1>5. seen[<<p, d>>].age \in Ticks(<<p, d>>)
    BY <1>1, <1>3 DEF RecordInv
  <1>6. Deltas(<<p, d>>) <= seen[<<p, d>>].total \/ seen[<<p, d>>].total = MaxSent
    BY <1>1, <1>3 DEF RecordInv
  <1>7. Deltas(<<p, d>>) \in Nat /\ Deltas(<<p, d>>) > 0
    BY <1>3, <1>5, SomeTicks, TicksFinite DEF TickInv
  <1>8. Deltas(<<p, d>>) <= Small
    BY <1>1, <1>4, <1>6, <1>7, Constants DEF Recs
  <1>9. QED
    BY <1>2, <1>7, <1>8, Constants

LEMMA QuietIsCounted ==
    ASSUME F!TypeOK, TickInv, RecordInv, NEW p \in Pid
    PROVE  Quiet(p, 0) \subseteq F!Counted(p) /\ F!Counted(p) \subseteq Ip
  <1>1. F!Counted(p) \subseteq Ip
    BY DEF F!Counted, RecordInv
  <1> SUFFICES ASSUME NEW i \in Quiet(p, 0)
               PROVE  i \in F!Counted(p)
    BY <1>1
  <1>2. i \in Ip /\ sent[<<p, i>>] <= Small
    BY DEF Quiet
  <1>3. PICK b \in 0 .. FanWindow : got[<<p, i>>][b] > 0
    BY DEF Quiet
  <1>4. <<p, i>> \in Key /\ <<p, i>> \in F!Key
    BY <1>2 DEF Key, F!Key
  <1>5. b \in Ticks(<<p, i>>)
    BY <1>3 DEF Ticks
  <1>6. seen[<<p, i>>] # Absent /\ seen[<<p, i>>].age <= b
    BY <1>4, <1>5 DEF RecordInv
  <1>7. seen[<<p, i>>] \in Recs /\ sent[<<p, i>>] \in 0 .. MaxSent
    BY <1>4, <1>6 DEF F!TypeOK, Recs
  <1>8. seen[<<p, i>>].total <= sent[<<p, i>>]
    BY <1>4, <1>6 DEF RecordInv
  <1>9. seen[<<p, i>>].age <= FanWindow /\ seen[<<p, i>>].total <= Small
    BY <1>2, <1>3, <1>6, <1>7, <1>8, Constants DEF Recs
  <1>10. QED
    BY <1>2, <1>6, <1>9 DEF F!Counted

LEMMA CountedFacts == F!TypeOK /\ TickInv /\ RecordInv => CountedInv
  BY CountedIsSmall, QuietIsCounted DEF CountedInv

\* The counter counts as this module does.
LEMMA SameCount == \A S : F!Cardinality(S) = Cardinality(S)
  BY DEF F!Cardinality, Cardinality

HitInv ==
    \A p \in Pid : F!Hit(p) = {} <=> Cardinality(F!Counted(p)) < MinDests

LEMMA HitFacts == HitInv
  <1> SUFFICES ASSUME NEW p \in Pid
               PROVE  F!Hit(p) = {} <=> Cardinality(F!Counted(p)) < MinDests
    BY DEF HitInv
  <1>1. F!Hit(p) = IF Cardinality(F!Counted(p)) < MinDests THEN {} ELSE F!Counted(p)
    BY SameCount DEF F!Hit
  <1>2. F!Counted(p) = {} => Cardinality(F!Counted(p)) < MinDests
    BY FS_EmptySet, Constants
  <1>3. QED
    BY <1>1, <1>2

LEMMA JudgeShape ==
    ASSUME ShapeInv, Judge
    PROVE  TickInv' /\ UnsaidInv' /\ BroadIsBroad'
  <1>1. TickInv' => CountedInv' /\ HitInv'
    <2> SUFFICES ASSUME TickInv'
                 PROVE  CountedInv' /\ HitInv'
      OBVIOUS
    <2>1. F!TypeOK'
      BY FanStep DEF Next, ShapeInv
    <2>2. RecordInv'
      BY JudgeRecord
    <2>3. CountedInv'
      BY <2>1, <2>2, CountedFacts, PTL
    <2>4. HitInv'
      BY HitFacts, PTL
    <2>5. QED
      BY <2>3, <2>4
  <1>2. /\ pc = "observe" /\ pc' = "judged"
        /\ moved' = moved /\ perPid' = perPid /\ got' = got /\ sent' = sent
    BY DEF Judge, F!Gc
  <1>3. \A p \in Pid : told'[p] = IF said'[p].broad # {} THEN 0 ELSE told[p]
    BY DEF Judge
  <1>4. told' \in [Pid -> 0 .. FanWindow + 1]
    BY Constants DEF Judge, ShapeInv, TickInv
  <1>5. TickInv'
    BY <1>2, <1>4 DEF ShapeInv, TickInv
  <1>6. \A p \in Pid : said'[p].broad = IF p \in Judged THEN F!Hit(p)' ELSE {}
    <2> SUFFICES ASSUME NEW p \in Pid
                 PROVE  said'[p].broad = IF p \in Judged THEN F!Hit(p)' ELSE {}
      OBVIOUS
    <2>1. PICK covert : said'[p] = IF p \notin Judged THEN Nothing[p]
                                   ELSE [broad |-> F!Hit(p)', covert |-> covert]
      BY Zenon DEF Judge
    <2>2. Nothing[p].broad = {}
      BY DEF Nothing
    <2>3. QED
      BY <2>1, <2>2
  <1>7. UnsaidInv'
    <2> SUFFICES ASSUME NEW p \in Agent, NEW c \in 0 .. FanWindow, NEW a \in 0 .. c,
                        c < told'[p], \E i \in Ip : got'[<<p, i>>][c] > 0
                 PROVE  Cardinality(Quiet(p, a)') < MinDests
      BY DEF UnsaidInv
    <2>1. p \in Pid /\ told[p] \in 0 .. FanWindow + 1
      BY Constants DEF ShapeInv, TickInv
    <2>2. said'[p].broad = {} /\ told'[p] = told[p]
      BY <2>1, <1>3, Constants
    <2>3. \A n : Quiet(p, n)' = Quiet(p, n)
      BY <1>2 DEF Quiet
    <2>4. CASE a # 0
      BY <2>2, <2>3, <2>4, <1>2 DEF ShapeInv, UnsaidInv
    <2>5. CASE a = 0 /\ \E i \in Ip : got[<<p, i>>][0] > 0
      <3>1. PICK i \in Ip : got[<<p, i>>][0] > 0
        BY <2>5
      <3>2. p \in perPid
        BY <3>1, <2>1 DEF ShapeInv, TickInv, Key
      <3>3. p \in Judged
        BY <3>2 DEF Judged
      <3>4. F!Hit(p)' = {}
        BY <2>1, <2>2, <3>3, <1>6
      <3>5. Quiet(p, 0)' \subseteq F!Counted(p)' /\ F!Counted(p)' \subseteq Ip
        BY <1>1, <1>5, <2>1 DEF CountedInv
      <3>6. Cardinality(F!Counted(p)') < MinDests
        BY <1>1, <1>5, <2>1, <3>4 DEF HitInv
      <3>7. QED
        BY <2>5, <3>5, <3>6, MoreAddresses, Constants
    <2>6. CASE a = 0 /\ ~(\E i \in Ip : got[<<p, i>>][0] > 0)
      <3>1. c # 0
        BY <2>6, <1>2
      <3>2. 1 \in 0 .. c
        BY <3>1, Constants
      <3>3. Cardinality(Quiet(p, 1)) < MinDests
        BY <2>2, <3>2, <1>2 DEF ShapeInv, UnsaidInv
      <3>4. \A b \in 0 .. FanWindow : b = 0 \/ b \in 1 .. FanWindow
        BY Constants
      <3>5. Quiet(p, 0) \subseteq Quiet(p, 1) /\ Quiet(p, 1) \subseteq Ip
        BY <2>6, <3>4 DEF Quiet
      <3>6. QED
        BY <2>3, <2>6, <3>3, <3>5, MoreAddresses, Constants
    <2>7. QED
      BY <2>4, <2>5, <2>6
  <1>8. BroadIsBroad'
    <2> SUFFICES ASSUME NEW p \in Pid, said'[p].broad # {}
                 PROVE  Cardinality({i \in Ip : Deltas(<<p, i>>)' \in 1 .. Small}) >= MinDests
      BY DEF BroadIsBroad
    <2>1. F!Hit(p)' # {}
      BY <1>6
    <2>2. ~(Cardinality(F!Counted(p)') < MinDests)
      BY <1>1, <1>5, <2>1 DEF HitInv
    <2>3. F!Counted(p)' \subseteq {i \in Ip : Deltas(<<p, i>>)' \in 1 .. Small}
      BY <1>1, <1>5 DEF CountedInv
    <2> DEFINE T == {i \in Ip : Deltas(<<p, i>>)' \in 1 .. Small}
    <2>4. T \subseteq Ip
      OBVIOUS
    <2> HIDE DEF T
    <2>5. QED
      <3>1. F!Counted(p)' \subseteq T
        BY <2>3 DEF T
      <3>2. Cardinality(T) >= MinDests
        BY <2>2, <2>4, <3>1, MoreAddresses, Constants
      <3>3. QED
        BY <3>2 DEF T
  <1>9. QED
    BY <1>5, <1>7, <1>8

-----------------------------------------------------------------------------
(* The next tick                                                           *)

LEMMA TickFacts ==
    ASSUME ShapeInv, NextTick
    PROVE  /\ pc = "judged" /\ pc' = "observe" /\ moved' = [k \in Key |-> 0] /\ sent' = sent
           /\ \A k \in Key :
                 /\ got'[k] \in [0 .. FanWindow -> 0 .. PerIp] /\ got'[k][0] = 0
                 /\ \A a \in 1 .. FanWindow : got'[k][a] = got[k][a - 1]
           /\ \A k \in F!Key :
                 seen'[k] = IF seen[k] = Absent THEN Absent
                            ELSE [seen[k] EXCEPT !.age = F!UpTo(@ + 1, FanWindow + 1)]
           /\ \A p \in Pid : told'[p] = F!UpTo(told[p] + 1, FanWindow + 1)
  <1>1. ASSUME NEW k \in Key
        PROVE  /\ got'[k] \in [0 .. FanWindow -> 0 .. PerIp] /\ got'[k][0] = 0
               /\ \A a \in 1 .. FanWindow : got'[k][a] = got[k][a - 1]
    <2>1. got'[k] = [a \in 0 .. FanWindow |-> IF a = 0 THEN 0 ELSE got[k][a - 1]]
      BY DEF NextTick
    <2>2. ASSUME NEW a \in 0 .. FanWindow, a # 0
          PROVE  got[k][a - 1] \in 0 .. PerIp
      <3>1. a - 1 \in 0 .. FanWindow
        BY <2>2, Constants
      <3>2. QED
        BY <3>1 DEF ShapeInv, TickInv
    <2>3. 0 \in 0 .. FanWindow /\ 1 .. FanWindow \subseteq 0 .. FanWindow
      BY Constants
    <2>4. 0 \in 0 .. PerIp
      BY Constants
    <2>5. got'[k] \in [0 .. FanWindow -> 0 .. PerIp]
      BY <2>1, <2>2, <2>4
    <2>6. QED
      BY <2>1, <2>3, <2>5
  <1>2. QED
    BY <1>1 DEF NextTick, F!Elapse

LEMMA TickRecord ==
    ASSUME ShapeInv, NextTick
    PROVE  RecordInv'
  <1>1. \A p \in Pid, d \in Name : seen'[<<p, d>>] = Absent
    BY TickFacts DEF ShapeInv, RecordInv, F!Key
  <1>2. ASSUME NEW k \in Key
        PROVE  /\ \A a \in Ticks(k)' : seen'[k] # Absent /\ seen'[k].age <= a
               /\ seen'[k] # Absent =>
                     /\ seen'[k].age <= FanWindow =>
                           /\ seen'[k].age \in Ticks(k)'
                           /\ Deltas(k)' <= seen'[k].total \/ seen'[k].total = MaxSent
                     /\ seen'[k].total <= sent'[k]
    <2>1. k \in F!Key
      BY Constants
    <2>2. ASSUME NEW a
          PROVE  a \in Ticks(k)' <=> a \in 1 .. FanWindow /\ a - 1 \in Ticks(k)
      <3>1. CASE a \in 1 .. FanWindow
        <4>1. a \in 0 .. FanWindow /\ a - 1 \in 0 .. FanWindow
          BY <3>1, Constants
        <4>2. QED
          BY <3>1, <4>1, TickFacts DEF Ticks
      <3>2. CASE a \notin 1 .. FanWindow
        <4>1. a \in 0 .. FanWindow => a = 0
          BY <3>2, Constants
        <4>2. QED
          BY <3>2, <4>1, TickFacts DEF Ticks
      <3>3. QED
        BY <3>1, <3>2
    <2>3. Deltas(k)' <= Deltas(k) /\ Deltas(k) \in Nat /\ Deltas(k)' \in Nat
      <3>1. IsFiniteSet(Each(k)) /\ Deltas(k) \in Nat
        BY TicksFinite
      <3>2. PICK T : T = Each(k)'
        OBVIOUS
      <3>3. ASSUME NEW d \in T
            PROVE  /\ d[1] \in Int /\ <<d[1] - 1, d[2]>> \in Each(k) /\ d = <<d[1], d[2]>>
                   /\ d[1] = (d[1] - 1) + 1
        <4>1. /\ d \in (0 .. FanWindow) \X (1 .. PerIp) /\ d[2] <= got'[k][d[1]]
          BY <3>2 DEF Each
        <4>2. d[1] \in 0 .. FanWindow /\ d[2] \in 1 .. PerIp /\ d = <<d[1], d[2]>>
          BY <4>1
        <4>3. d[1] # 0
          BY <4>1, <4>2, TickFacts
        <4>4. d[1] \in 1 .. FanWindow /\ d[1] - 1 \in 0 .. FanWindow
          BY <4>2, <4>3, Constants
        <4>5. d[2] <= got[k][d[1] - 1]
          BY <4>1, <4>4, TickFacts
        <4>6. QED
          BY <4>2, <4>4, <4>5 DEF Each
      <3>4. PICK f : f = [d \in T |-> <<d[1] - 1, d[2]>>]
        OBVIOUS
      <3>5. f \in Injection(T, Each(k))
        <4>1. f \in [T -> Each(k)]
          BY <3>3, <3>4
        <4>2. ASSUME NEW d \in T, NEW e \in T, f[d] = f[e]
              PROVE  d = e
          <5>1. <<d[1] - 1, d[2]>> = <<e[1] - 1, e[2]>>
            BY <3>4, <4>2
          <5>2. d[1] - 1 = e[1] - 1 /\ d[2] = e[2]
            BY <5>1
          <5>3. d[1] = e[1]
            <6>1. d[1] = (d[1] - 1) + 1 /\ e[1] = (e[1] - 1) + 1
              BY <3>3
            <6>2. QED
              BY <5>2, <6>1
          <5>4. QED
            BY <5>2, <5>3, <3>3
        <4>3. QED
          BY <4>1, <4>2 DEF Injection, IsInjective
      <3>6. Cardinality(T) <= Cardinality(Each(k)) /\ IsFiniteSet(T)
        BY <3>1, <3>5, FS_Injection
      <3>7. Cardinality(T) \in Nat
        BY <3>6, FS_CardinalityType
      <3>8. QED
        BY <3>1, <3>2, <3>6, <3>7 DEF Deltas
    <2>4. CASE seen[k] = Absent
      <3>1. seen'[k] = Absent
        BY <2>1, <2>4, TickFacts
      <3>2. Ticks(k)' = {}
        BY <2>2, <2>4 DEF ShapeInv, RecordInv
      <3>3. QED
        BY <3>1, <3>2
    <2>5. CASE seen[k] # Absent
      <3>1. seen[k] \in Recs
        BY <2>1, <2>5 DEF ShapeInv, F!TypeOK, Recs
      <3>2. seen'[k] = [seen[k] EXCEPT !.age = F!UpTo(@ + 1, FanWindow + 1)]
        BY <2>1, <2>5, TickFacts
      <3>3. /\ seen'[k].total = seen[k].total
            /\ seen'[k].age = F!UpTo(seen[k].age + 1, FanWindow + 1)
            /\ seen'[k] \in Recs
        <4>1. F!UpTo(seen[k].age + 1, FanWindow + 1) \in 0 .. FanWindow + 1
          BY <3>1, Constants DEF Recs, F!UpTo
        <4>2. QED
          BY <3>1, <3>2, <4>1 DEF Recs
      <3>4. seen'[k] # Absent
        BY <3>3, Constants
      <3>5. \A a \in Ticks(k)' : seen'[k].age <= a
        <4> SUFFICES ASSUME NEW a \in Ticks(k)'
                     PROVE  seen'[k].age <= a
          OBVIOUS
        <4>1. a \in 1 .. FanWindow /\ a - 1 \in Ticks(k)
          BY <2>2
        <4>2. seen[k].age <= a - 1
          BY <4>1 DEF ShapeInv, RecordInv
        <4>3. QED
          BY <3>1, <3>3, <4>1, <4>2, Constants DEF Recs, F!UpTo
      <3>6. seen'[k].age <= FanWindow =>
               /\ seen'[k].age \in Ticks(k)'
               /\ Deltas(k)' <= seen'[k].total \/ seen'[k].total = MaxSent
        <4> SUFFICES ASSUME seen'[k].age <= FanWindow
                     PROVE  /\ seen'[k].age \in Ticks(k)'
                            /\ Deltas(k)' <= seen'[k].total \/ seen'[k].total = MaxSent
          OBVIOUS
        <4>1. /\ seen'[k].age = seen[k].age + 1 /\ seen[k].age <= FanWindow
              /\ seen[k].age + 1 \in 1 .. FanWindow
              /\ (seen[k].age + 1) - 1 = seen[k].age
          BY <3>1, <3>3, Constants DEF Recs, F!UpTo
        <4>2. /\ seen[k].age \in Ticks(k)
              /\ Deltas(k) <= seen[k].total \/ seen[k].total = MaxSent
          BY <2>5, <4>1 DEF ShapeInv, RecordInv
        <4>3. seen'[k].age \in Ticks(k)'
          BY <2>2, <4>1, <4>2
        <4>4. Deltas(k)' <= seen'[k].total \/ seen'[k].total = MaxSent
          BY <2>3, <3>1, <3>3, <4>2, Constants DEF Recs
        <4>5. QED
          BY <4>3, <4>4
      <3>7. seen'[k].total <= sent'[k]
        BY <2>5, <3>3, TickFacts DEF ShapeInv, RecordInv
      <3>8. QED
        BY <3>4, <3>5, <3>6, <3>7
    <2>6. QED
      BY <2>4, <2>5
  <1>3. QED
    BY <1>1, <1>2 DEF RecordInv

LEMMA TickShape ==
    ASSUME ShapeInv, NextTick
    PROVE  TickInv' /\ UnsaidInv'
  <1>1. TickInv'
    <2>1. told' \in [Pid -> 0 .. FanWindow + 1]
      <3>1. ASSUME NEW p \in Pid
            PROVE  F!UpTo(told[p] + 1, FanWindow + 1) \in 0 .. FanWindow + 1
        <4>1. told[p] \in 0 .. FanWindow + 1
          BY DEF ShapeInv, TickInv
        <4>2. QED
          BY <4>1, Constants DEF F!UpTo
      <3>2. QED
        BY <3>1 DEF NextTick
    <2>2. DOMAIN got' = Key /\ got' = [k \in Key |-> got'[k]]
      BY DEF NextTick
    <2>3. got' \in [Key -> [0 .. FanWindow -> 0 .. PerIp]]
      BY <2>2, TickFacts
    <2>4. /\ moved' \in [Key -> 0 .. PerIp]
          /\ \A k \in Key : got'[k][0] = moved'[k] /\ ~(moved'[k] > 0)
      <3>1. 0 \in 0 .. PerIp
        BY Constants
      <3>2. moved' = [k \in Key |-> 0]
        BY TickFacts
      <3>3. QED
        BY <3>1, <3>2, TickFacts
    <2>5. pc' = "observe" /\ said' = Nothing
      BY DEF NextTick
    <2>6. QED
      BY <2>1, <2>3, <2>4, <2>5 DEF TickInv
  <1>2. UnsaidInv'
    <2> SUFFICES ASSUME NEW p \in Agent, NEW c \in 0 .. FanWindow, NEW a \in 0 .. c,
                        c < told'[p], a = 0 => pc' = "judged",
                        \E i \in Ip : got'[<<p, i>>][c] > 0
                 PROVE  Cardinality(Quiet(p, a)') < MinDests
      BY DEF UnsaidInv
    <2>1. p \in Pid /\ told[p] \in 0 .. FanWindow + 1
      BY Constants DEF ShapeInv, TickInv
    <2>2. /\ a \in 1 .. FanWindow /\ a - 1 \in 0 .. c - 1
          /\ c \in 1 .. FanWindow /\ c - 1 \in 0 .. FanWindow
      <3>1. a # 0
        BY TickFacts
      <3>2. QED
        BY <3>1, Constants
    <2>3. c - 1 < told[p]
      <3>1. told'[p] = F!UpTo(told[p] + 1, FanWindow + 1)
        BY <2>1, TickFacts
      <3>2. QED
        BY <3>1, <2>1, <2>2, Constants DEF F!UpTo
    <2>4. \A i \in Ip : <<p, i>> \in Key
      BY <2>1 DEF Key
    <2>5. \E i \in Ip : got[<<p, i>>][c - 1] > 0
      BY <2>2, <2>4, TickFacts
    <2>6. Cardinality(Quiet(p, a - 1)) < MinDests
      BY <2>2, <2>3, <2>5, TickFacts DEF ShapeInv, UnsaidInv
    <2>7. Quiet(p, a)' \subseteq Quiet(p, a - 1)
      <3> SUFFICES ASSUME NEW i \in Ip, sent'[<<p, i>>] <= Small,
                          NEW b \in a .. FanWindow, got'[<<p, i>>][b] > 0
                   PROVE  i \in Quiet(p, a - 1)
        BY DEF Quiet
      <3>1. b \in 1 .. FanWindow /\ b - 1 \in a - 1 .. FanWindow
        BY <2>2, Constants
      <3>2. got[<<p, i>>][b - 1] > 0 /\ sent[<<p, i>>] <= Small
        BY <2>4, <3>1, TickFacts
      <3>3. QED
        BY <3>1, <3>2 DEF Quiet
    <2>8. Quiet(p, a - 1) \subseteq Ip
      BY DEF Quiet
    <2>9. QED
      BY <2>6, <2>7, <2>8, MoreAddresses, Constants
  <1>3. QED
    BY <1>1, <1>2

-----------------------------------------------------------------------------
LEMMA StepShape == ShapeInv /\ [Next]_vars => ShapeInv'
  <1> SUFFICES ASSUME ShapeInv, [Next]_vars
               PROVE  TickInv' /\ RecordInv' /\ UnsaidInv'
    BY FanStep DEF ShapeInv
  <1>1. ASSUME NEW p \in Pid, NEW ip \in Ip, NEW dest, Observe(p, ip, dest)
        PROVE  TickInv' /\ RecordInv' /\ UnsaidInv'
    BY <1>1, ObserveRecord, ObserveShape
  <1>2. CASE Judge
    BY <1>2, JudgeRecord, JudgeShape
  <1>3. CASE NextTick
    BY <1>3, TickRecord, TickShape
  <1>4. ASSUME UNCHANGED vars \/ \E p \in Pid : ObserveAi(p)
        PROVE  TickInv' /\ RecordInv' /\ UnsaidInv'
    <2>1. UNCHANGED <<seen, sent, pc, moved, said, got, told>> /\ perPid \subseteq perPid'
      <3>1. UNCHANGED <<fan, pc, moved, said, got, told>> /\ perPid \subseteq perPid'
        BY <1>4 DEF vars, ObserveAi
      <3>2. QED
        BY <3>1 DEF fan
    <2>2. TickInv'
      BY <2>1 DEF ShapeInv, TickInv
    <2>3. \A k : Ticks(k)' = Ticks(k) /\ Deltas(k)' = Deltas(k)
      BY <2>1 DEF Ticks, Each, Deltas
    <2>4. RecordInv'
      BY <2>1, <2>3 DEF ShapeInv, RecordInv
    <2>5. \A p, a : Quiet(p, a)' = Quiet(p, a)
      BY <2>1 DEF Quiet
    <2>6. UnsaidInv'
      BY <2>1, <2>5 DEF ShapeInv, UnsaidInv
    <2>7. QED
      BY <2>2, <2>4, <2>6
  <1>5. QED
    BY <1>1, <1>2, <1>3, <1>4 DEF Next

LEMMA AlwaysShape == Spec => []ShapeInv
  <1>1. Init => ShapeInv
    BY FanInit, InitShape DEF ShapeInv
  <1>2. QED
    BY <1>1, StepShape, PTL DEF Spec

(* Whoever the tick reports for breadth has sent at least one delta, and   *)
(* no more than Small, to each of MinDests addresses within the window,    *)
(* whatever names observe saw them under and whenever gc ran.              *)
THEOREM BroadIsBroadHolds == Spec => []BroadIsBroad
  <1>1. Init => BroadIsBroad
    BY DEF Init, BroadIsBroad, Nothing
  <1>2. ShapeInv /\ ShapeInv' /\ BroadIsBroad /\ [Next]_vars => BroadIsBroad'
    <2> SUFFICES ASSUME ShapeInv, ShapeInv', BroadIsBroad, [Next]_vars
                 PROVE  BroadIsBroad'
      OBVIOUS
    <2>1. CASE Judge
      BY <2>1, JudgeShape
    <2>2. CASE UNCHANGED vars
      BY <2>2 DEF vars, BroadIsBroad, Deltas, Each
    <2>3. CASE ~Judge /\ ~UNCHANGED vars
      <3>1. pc' = "observe"
        BY <2>3 DEF Next, Observe, ObserveAi, NextTick
      <3>2. QED
        BY <3>1 DEF ShapeInv, TickInv, BroadIsBroad, Nothing
    <2>4. QED
      BY <2>1, <2>2, <2>3
  <1>3. QED
    BY <1>1, <1>2, AlwaysShape, PTL DEF Spec

(* An agent that reaches MinDests addresses within the window, and never   *)
(* sent much to them, is reported for breadth within that window: the tick *)
(* in which the last of them was reached judged it, and counted them all.  *)
THEOREM ScanIsSaidHolds == Spec => []ScanIsSaid
  <1>1. ShapeInv => ScanIsSaid
    <2> DEFINE S(p) == {i \in Ip : Deltas(<<p, i>>) > 0 /\ sent[<<p, i>>] <= Small}
    <2>1. ASSUME ShapeInv, pc = "judged", NEW p \in Agent, told[p] > FanWindow
          PROVE  Cardinality(S(p)) < MinDests
      <3>1. S(p) \subseteq Quiet(p, 0) /\ Quiet(p, 0) \subseteq Ip
        <4> SUFFICES ASSUME NEW i \in Ip, Deltas(<<p, i>>) > 0, sent[<<p, i>>] <= Small
                     PROVE  i \in Quiet(p, 0)
          BY DEF Quiet
        <4>1. got[<<p, i>>] \in [0 .. FanWindow -> 0 .. PerIp]
          BY <2>1, Constants DEF ShapeInv, TickInv, Key
        <4>2. Ticks(<<p, i>>) # {}
          BY <4>1, SomeTicks
        <4>3. QED
          BY <4>2 DEF Quiet, Ticks
      <3>2. Cardinality(Quiet(p, 0)) < MinDests
        <4>1. CASE Quiet(p, 0) = {}
          BY <4>1, FS_EmptySet, Constants
        <4>2. CASE Quiet(p, 0) # {}
          <5>1. PICK i \in Ip, c \in 0 .. FanWindow : got[<<p, i>>][c] > 0
            BY <4>2 DEF Quiet
          <5>2. 0 \in 0 .. c /\ c < told[p]
            BY <2>1, <5>1, Constants DEF ShapeInv, TickInv
          <5>3. QED
            BY <2>1, <5>1, <5>2 DEF ShapeInv, UnsaidInv
        <4>3. QED
          BY <4>1, <4>2
      <3>3. PICK T : T = S(p)
        OBVIOUS
      <3>4. Cardinality(T) < MinDests
        <4> HIDE DEF S
        <4>1. QED
          BY <3>1, <3>2, <3>3, MoreAddresses, Constants
      <3>5. QED
        BY <3>3, <3>4
    <2>2. ASSUME ShapeInv, NEW p \in Agent
          PROVE  Cardinality(S(p)) \in Nat /\ told[p] \in 0 .. FanWindow + 1
      BY <2>2, MoreAddresses, Constants DEF ShapeInv, TickInv
    <2>3. (pc = "judged" =>
             \A p \in Agent : Cardinality(S(p)) >= MinDests => told[p] <= FanWindow)
          => ScanIsSaid
      BY DEF ScanIsSaid
    <2> HIDE DEF S
    <2>4. QED
      BY <2>1, <2>2, <2>3, Constants
  <1>2. QED
    BY <1>1, AlwaysShape, PTL

-----------------------------------------------------------------------------
LEMMA Induction ==
    ASSUME NEW S \in SUBSET Nat, 0 \in S, \A n \in S : n + 1 \in S
    PROVE  S = Nat
  <1> SUFFICES ASSUME Nat \ S # {} PROVE FALSE
    OBVIOUS
  <1>1. PICK R : R = OpToRel(<, Nat)
    OBVIOUS
  <1>2. PICK n \in Nat \ S : \A m \in Nat \ S : ~ (<<m, n>> \in R)
    <2>1. IsWellFoundedOn(R, Nat)
      BY <1>1, NatLessThanWellFounded
    <2>2. Nat \ S \subseteq Nat
      OBVIOUS
    <2>3. QED
      BY <2>1, <2>2, WFMin
  <1>3. n # 0 /\ n - 1 \in Nat
    BY <1>2
  <1>4. <<n - 1, n>> \in R
    BY <1>1, <1>2, <1>3 DEF OpToRel
  <1>5. n - 1 \in S
    BY <1>2, <1>3, <1>4
  <1>6. (n - 1) + 1 = n
    BY <1>2
  <1>7. QED
    BY <1>2, <1>5, <1>6

\* g is the fold of the function that is c everywhere over every part of S.
FoldsSame(g, c, S) ==
  g = [s \in SUBSET S |-> IF s = {} THEN 0
                          ELSE LET x == CHOOSE y \in s : TRUE IN c + g[s \ {x}]]

LEMMA FoldSame ==
    ASSUME NEW S, IsFiniteSet(S), NEW c \in Nat, NEW g, FoldsSame(g, c, S)
    PROVE  g[S] = Cardinality(S) * c
  <1> DEFINE Good == {n \in Nat : \A s \in SUBSET S : Cardinality(s) = n => g[s] = n * c}
  <1>1. \A s \in SUBSET S : IsFiniteSet(s) /\ Cardinality(s) \in Nat
    BY FS_Subset, FS_CardinalityType
  <1>2. 0 \in Good
    <2>1. \A s \in SUBSET S : Cardinality(s) = 0 => s = {}
      BY <1>1, FS_EmptySet
    <2>2. g[{}] = 0
      BY DEF FoldsSame
    <2>3. QED
      BY <2>1, <2>2
  <1>3. ASSUME NEW n \in Good
        PROVE  n + 1 \in Good
    <2>1. n \in Nat /\ \A s \in SUBSET S : Cardinality(s) = n => g[s] = n * c
      OBVIOUS
    <2>2. ASSUME NEW s \in SUBSET S, Cardinality(s) = n + 1
          PROVE  g[s] = (n + 1) * c
      <3>1. s # {}
        BY <1>1, <2>1, <2>2, FS_EmptySet
      <3>2. PICK x : x = CHOOSE y \in s : TRUE
        OBVIOUS
      <3>3. x \in s
        BY <3>1, <3>2
      <3>4. s \ {x} \in SUBSET S /\ Cardinality(s \ {x}) = n
        BY <1>1, <2>1, <2>2, <3>3, FS_RemoveElement
      <3>5. g[s] = c + g[s \ {x}]
        BY <3>1, <3>2 DEF FoldsSame
      <3>6. g[s] = c + n * c
        BY <2>1, <3>4, <3>5
      <3>7. QED
        BY <2>1, <3>6
    <2>3. QED
      BY <2>1, <2>2
  <1>4. Good = Nat
    <2> HIDE DEF Good
    <2>1. Good \in SUBSET Nat
      BY DEF Good
    <2>2. QED
      BY <2>1, <1>2, <1>3, Induction
  <1>5. QED
    BY <1>1, <1>4

LEMMA SumSame ==
    ASSUME NEW n \in Nat, NEW c \in Nat, NEW fn, fn = [i \in 1 .. n |-> c]
    PROVE  C!SumOver(fn) = n * c
  <1> DEFINE S == 1 .. n
             iter[s \in SUBSET S] == IF s = {} THEN 0
                           ELSE LET x == CHOOSE y \in s : TRUE IN fn[x] + iter[s \ {x}]
  <1>1. C!SumOver(fn) = iter[S]
    BY DEF C!SumOver, C!FoldFunction, C!FoldFunctionOnSet, C!MapThenFoldSet
  <1>2. PICK g : g = [s \in SUBSET S |-> Cardinality(s) * c]
    OBVIOUS
  <1>3. IsFiniteSet(S) /\ Cardinality(S) = n
    BY FS_Interval
  <1>4. \A s \in SUBSET S : IsFiniteSet(s) /\ Cardinality(s) \in Nat
    BY <1>3, FS_Subset, FS_CardinalityType
  <1>5. ASSUME NEW s \in SUBSET S
        PROVE  Cardinality(s) * c = IF s = {} THEN 0
                                    ELSE LET x == CHOOSE y \in s : TRUE IN fn[x] + g[s \ {x}]
    <2>1. CASE s = {}
      BY <2>1, FS_EmptySet
    <2>2. CASE s # {}
      <3>1. PICK x : x = CHOOSE y \in s : TRUE
        OBVIOUS
      <3>2. x \in s
        BY <2>2, <3>1
      <3>3. s \ {x} \in SUBSET S /\ Cardinality(s \ {x}) = Cardinality(s) - 1
        BY <1>4, <3>2, FS_RemoveElement
      <3>4. fn[x] = c /\ g[s \ {x}] = (Cardinality(s) - 1) * c
        BY <1>2, <3>2, <3>3
      <3>5. Cardinality(s) * c = c + (Cardinality(s) - 1) * c
        BY <1>4
      <3>6. QED
        BY <2>2, <3>1, <3>4, <3>5
    <2>3. QED
      BY <2>1, <2>2
  <1>6. g = [s \in SUBSET S |-> IF s = {} THEN 0
                           ELSE LET x == CHOOSE y \in s : TRUE IN fn[x] + g[s \ {x}]]
    BY <1>2, <1>5, Zenon
  <1>7. iter = [s \in SUBSET S |-> IF s = {} THEN 0
                           ELSE LET x == CHOOSE y \in s : TRUE IN fn[x] + iter[s \ {x}]]
    BY <1>6, ZenonT(60) DEF iter
  <1>8. PICK h : h = iter
    OBVIOUS
  <1>9. FoldsSame(h, c, S)
    <2>1. \A s \in SUBSET S : s # {} => (CHOOSE y \in s : TRUE) \in S
      OBVIOUS
    <2>2. \A x \in S : fn[x] = c
      OBVIOUS
    <2>3. QED
      BY <1>7, <1>8, <2>1, <2>2 DEF FoldsSame
  <1>10. h[S] = n * c
    BY <1>3, <1>9, FoldSame
  <1>11. QED
    BY <1>1, <1>8, <1>10

-----------------------------------------------------------------------------
(* A history of entries and the ticks with a delta.                        *)

Entry == [age : 0 .. ChanWindow + 1, kb : {Kb}]

LEMMA ChanConstants ==
    /\ ChanWindow \in Nat /\ MinEvents \in Nat /\ MinEvents > 1 /\ MaxLen \in Nat /\ MinEvents <= MaxLen
    /\ MinGap \in Nat /\ MinGap > 0 /\ CvPct \in Nat /\ CvPct > 0 /\ Kb \in Nat
  BY DetectorsAssumption DEF DetectorsAssumption, C!CovertAssumption

\* Entries h, from the last one back, are of the ticks b, and further back too old;
\* only who is full has forgotten one of them.
Beats(h, b) ==
  /\ h \in Seq(Entry) /\ b \in Seq(0 .. ChanWindow) /\ Len(h) <= MaxLen
  /\ \A i, j \in 1 .. Len(b) : i < j => b[j] < b[i]
  /\ Len(h) < Len(b) => Len(h) = MaxLen
  /\ \A j \in 0 .. Len(h) - 1 : IF j < Len(b) THEN h[Len(h) - j].age = b[Len(b) - j]
                                ELSE h[Len(h) - j].age > ChanWindow

\* The same as far back as the last tick with two entries, c ticks ago; and the
\* last entry is of the last tick.
Follows(h, b, c) ==
  /\ h \in Seq(Entry) /\ b \in Seq(0 .. ChanWindow) /\ Len(h) <= MaxLen
  /\ c \in 0 .. ChanWindow + 1
  /\ \A i, j \in 1 .. Len(b) : i < j => b[j] < b[i]
  /\ Len(h) < Len(b) => Len(h) = MaxLen
  /\ Len(h) > 0 /\ Len(b) > 0 => h[Len(h)].age = b[Len(b)]
  /\ \A j \in 0 .. Len(h) - 1 :
        IF j < Len(b) /\ b[Len(b) - j] < c THEN h[Len(h) - j].age = b[Len(b) - j]
        ELSE h[Len(h) - j].age >= c

LEMMA FollowsBeats ==
    ASSUME NEW h, NEW b, Follows(h, b, ChanWindow + 1)
    PROVE  Beats(h, b)
  <1>1. h \in Seq(Entry) /\ b \in Seq(0 .. ChanWindow) /\ Len(h) \in Nat /\ Len(b) \in Nat
    BY DEF Follows
  <1>2. ASSUME NEW j \in 0 .. Len(h) - 1
        PROVE  IF j < Len(b) THEN h[Len(h) - j].age = b[Len(b) - j]
               ELSE h[Len(h) - j].age > ChanWindow
    <2>1. IF j < Len(b) /\ b[Len(b) - j] < ChanWindow + 1 THEN h[Len(h) - j].age = b[Len(b) - j]
          ELSE h[Len(h) - j].age >= ChanWindow + 1
      BY DEF Follows
    <2>2. CASE j < Len(b)
      <3>1. Len(b) - j \in 1 .. Len(b)
        BY <1>1, <2>2
      <3>2. b[Len(b) - j] \in 0 .. ChanWindow
        BY <1>1, <3>1, ElementOfSeq
      <3>3. QED
        BY <2>1, <2>2, <3>2, ChanConstants
    <2>3. CASE ~(j < Len(b))
      <3>1. Len(h) - j \in 1 .. Len(h)
        BY <1>1
      <3>2. h[Len(h) - j] \in Entry
        BY <1>1, <3>1, ElementOfSeq
      <3>3. h[Len(h) - j].age \in Nat
        BY <3>2, ChanConstants DEF Entry
      <3>4. QED
        BY <2>1, <2>3, <3>3, ChanConstants
    <2>4. QED
      BY <2>2, <2>3
  <1>3. QED
    BY <1>2 DEF Follows, Beats

LEMMA FollowsNone ==
    ASSUME NEW h, NEW b, NEW c, Follows(h, b, c),
           h # <<>>, h[Len(h)].age > ChanWindow
    PROVE  Follows(<<>>, b, c)
  <1>1. h \in Seq(Entry) /\ Len(h) \in Nat /\ Len(h) > 0 /\ Len(b) \in Nat /\ b \in Seq(0 .. ChanWindow)
    BY DEF Follows
  <1>2. Len(b) = 0
    <2> SUFFICES ASSUME Len(b) > 0 PROVE FALSE
      BY <1>1
    <2>1. h[Len(h)].age = b[Len(b)]
      BY <1>1 DEF Follows
    <2>2. Len(b) \in 1 .. Len(b)
      BY <1>1
    <2>3. b[Len(b)] \in 0 .. ChanWindow
      BY <1>1, <2>2, ElementOfSeq
    <2>4. QED
      BY <2>1, <2>3, ChanConstants
  <1>3. QED
    BY <1>1, <1>2, ChanConstants DEF Follows

\* The first delta of a tick, and another one.
LEMMA FollowsPushed ==
    ASSUME NEW h, NEW b, NEW c, Follows(h, b, c), c # 0, \A i \in 1 .. Len(b) : b[i] # 0,
           NEW e \in Entry, e.age = 0
    PROVE  Follows(C!Pushed(h, e), Append(b, 0), c)
  <1>1. /\ h \in Seq(Entry) /\ Len(h) \in Nat /\ Len(b) \in Nat /\ b \in Seq(0 .. ChanWindow)
        /\ Len(h) <= MaxLen /\ MaxLen \in Nat /\ MaxLen > 1 /\ c \in 0 .. ChanWindow + 1
    BY ChanConstants DEF Follows
  <1>2. PICK o : o = IF Len(h) = MaxLen THEN Tail(h) ELSE h
    OBVIOUS
  <1>3. PICK d : d = IF Len(h) = MaxLen THEN 1 ELSE 0
    OBVIOUS
  <1>4. /\ d \in {0, 1} /\ o \in Seq(Entry) /\ Len(o) = Len(h) - d /\ Len(o) \in Nat /\ Len(o) < MaxLen
        /\ \A i \in 1 .. Len(o) : o[i] = h[i + d]
    <2>1. CASE Len(h) = MaxLen
      <3>1. h # <<>> /\ Tail(h) \in Seq(Entry) /\ Len(Tail(h)) = Len(h) - 1
        BY <1>1, <2>1
      <3>2. \A i \in 1 .. Len(h) - 1 : Tail(h)[i] = h[i + 1]
        BY <1>1, <3>1
      <3>3. QED
        BY <1>1, <1>2, <1>3, <2>1, <3>1, <3>2
    <2>2. CASE Len(h) # MaxLen
      BY <1>1, <1>2, <1>3, <2>2
    <2>3. QED
      BY <2>1, <2>2
  <1>5. PICK h2, b2 : h2 = Append(o, e) /\ b2 = Append(b, 0)
    OBVIOUS
  <1>6. /\ h2 \in Seq(Entry) /\ Len(h2) = Len(o) + 1 /\ h2[Len(o) + 1] = e
        /\ \A i \in 1 .. Len(o) : h2[i] = o[i]
    BY <1>4, <1>5
  <1>7. /\ b2 \in Seq(0 .. ChanWindow) /\ Len(b2) = Len(b) + 1 /\ b2[Len(b) + 1] = 0
        /\ \A i \in 1 .. Len(b) : b2[i] = b[i] /\ b[i] \in 0 .. ChanWindow
    BY <1>1, <1>5, ChanConstants
  <1>8. \A i, j \in 1 .. Len(b2) : i < j => b2[j] < b2[i]
    <2>1. ASSUME NEW i \in 1 .. Len(b2), NEW j \in 1 .. Len(b2), i < j
          PROVE  b2[j] < b2[i]
      <3>1. i \in 1 .. Len(b) /\ b2[i] = b[i] /\ b[i] \in Nat /\ b[i] # 0
        <4>1. Len(b) \in Nat /\ Len(b2) = Len(b) + 1
          BY <1>1, <1>7
        <4>2. i \in 1 .. Len(b)
          BY <2>1, <4>1
        <4>3. b2[i] = b[i] /\ b[i] \in 0 .. ChanWindow
          BY <1>7, <4>2
        <4>4. QED
          BY <4>2, <4>3, ChanConstants
      <3>2. CASE j = Len(b) + 1
        BY <1>7, <3>1, <3>2
      <3>3. CASE j # Len(b) + 1
        <4>1. j \in 1 .. Len(b) /\ b2[j] = b[j]
          BY <1>1, <1>7, <3>3
        <4>2. b[j] < b[i]
          BY <2>1, <3>1, <4>1 DEF Follows
        <4>3. QED
          BY <3>1, <4>1, <4>2
      <3>4. QED
        BY <3>2, <3>3
    <2>2. QED
      BY <2>1
  <1>9. Len(h2) < Len(b2) => Len(h2) = MaxLen
    <2>1. Len(h) < Len(b) => Len(h) = MaxLen
      BY DEF Follows
    <2>2. QED
      BY <1>1, <1>3, <1>4, <1>6, <1>7, <2>1
  <1>10. ASSUME NEW j \in 0 .. Len(h2) - 1
         PROVE  IF j < Len(b2) /\ b2[Len(b2) - j] < c THEN h2[Len(h2) - j].age = b2[Len(b2) - j]
                ELSE h2[Len(h2) - j].age >= c
    <2>1. CASE j = 0
      <3>1. Len(h2) - j = Len(o) + 1 /\ Len(b2) - j = Len(b) + 1 /\ j < Len(b2)
        BY <1>1, <1>4, <1>6, <1>7, <2>1
      <3>2. b2[Len(b2) - j] = 0 /\ h2[Len(h2) - j] = e /\ 0 < c
        BY <1>1, <1>6, <1>7, <3>1, ChanConstants
      <3>3. QED
        BY <3>1, <3>2
    <2>2. CASE j # 0
      <3>1. PICK k : k = j - 1
        OBVIOUS
      <3>2. /\ k \in 0 .. Len(h) - 1 /\ Len(h2) - j = Len(o) - k /\ Len(o) - k \in 1 .. Len(o)
            /\ (Len(o) - k) + d = Len(h) - k /\ Len(b2) - j = Len(b) - k
            /\ (j < Len(b2) <=> k < Len(b)) /\ k \in Nat
        <4>1. /\ Len(h) \in Nat /\ Len(o) \in Nat /\ Len(o) = Len(h) - d /\ d \in {0, 1}
              /\ Len(b) \in Nat /\ Len(h2) = Len(o) + 1 /\ Len(b2) = Len(b) + 1
          BY <1>1, <1>4, <1>6, <1>7
        <4>2. j \in Nat /\ j <= Len(o)
          BY <4>1
        <4>3. QED
          BY <2>2, <3>1, <4>1, <4>2
      <3>3. h2[Len(h2) - j] = h[Len(h) - k]
        BY <1>4, <1>6, <3>2
      <3>4. IF k < Len(b) /\ b[Len(b) - k] < c THEN h[Len(h) - k].age = b[Len(b) - k]
            ELSE h[Len(h) - k].age >= c
        BY <3>2 DEF Follows
      <3>5. k < Len(b) => b2[Len(b2) - j] = b[Len(b) - k]
        <4>1. k \in Nat /\ Len(b) \in Nat
          BY <1>1, <3>2
        <4>2. k < Len(b) => Len(b) - k \in 1 .. Len(b)
          BY <4>1
        <4>3. QED
          BY <1>7, <3>2, <4>2
      <3>6. QED
        BY <3>2, <3>3, <3>4, <3>5
    <2>3. QED
      BY <2>1, <2>2
  <1>11. Len(h2) <= MaxLen
    BY <1>1, <1>4, <1>6
  <1>15. h2[Len(h2)].age = b2[Len(b2)]
    BY <1>6, <1>7
  <1>12. Follows(h2, b2, c)
    BY <1>1, <1>6, <1>7, <1>8, <1>9, <1>10, <1>11, <1>15 DEF Follows
  <1>13. C!Pushed(h, e) = h2
    BY <1>2, <1>5 DEF C!Pushed
  <1>14. QED
    BY <1>5, <1>12, <1>13

LEMMA FollowsAgain ==
    ASSUME NEW h, NEW b, NEW c, Follows(h, b, c), Len(b) > 0, b[Len(b)] = 0,
           NEW e \in Entry, e.age = 0
    PROVE  Follows(C!Pushed(h, e), b, 0)
  <1>1. /\ h \in Seq(Entry) /\ Len(h) \in Nat /\ Len(b) \in Nat /\ Len(h) <= MaxLen
        /\ MaxLen \in Nat /\ MaxLen > 1
    BY ChanConstants DEF Follows
  <1>2. PICK o : o = IF Len(h) = MaxLen THEN Tail(h) ELSE h
    OBVIOUS
  <1>3. /\ o \in Seq(Entry) /\ Len(o) \in Nat /\ Len(o) < MaxLen
        /\ Len(o) = IF Len(h) = MaxLen THEN Len(h) - 1 ELSE Len(h)
    <2>1. CASE Len(h) = MaxLen
      <3>1. h # <<>> /\ Tail(h) \in Seq(Entry) /\ Len(Tail(h)) = Len(h) - 1
        BY <1>1, <2>1
      <3>2. QED
        BY <1>1, <1>2, <2>1, <3>1
    <2>2. CASE Len(h) # MaxLen
      BY <1>1, <1>2, <2>2
    <2>3. QED
      BY <2>1, <2>2
  <1>4. PICK h2 : h2 = Append(o, e)
    OBVIOUS
  <1>5. h2 \in Seq(Entry) /\ Len(h2) = Len(o) + 1 /\ h2[Len(h2)] = e
    BY <1>3, <1>4
  <1>6. \A j \in 0 .. Len(h2) - 1 : h2[Len(h2) - j].age >= 0
    <2> SUFFICES ASSUME NEW j \in 0 .. Len(h2) - 1
                 PROVE  h2[Len(h2) - j].age >= 0
      OBVIOUS
    <2>1. Len(h2) - j \in 1 .. Len(h2)
      BY <1>3, <1>5
    <2>2. h2[Len(h2) - j] \in Entry
      BY <1>5, <2>1, ElementOfSeq
    <2>3. QED
      BY <2>2, ChanConstants DEF Entry
  <1>7. Len(h2) < Len(b) => Len(h2) = MaxLen
    <2>1. Len(h) < Len(b) => Len(h) = MaxLen
      BY DEF Follows
    <2>2. QED
      BY <1>1, <1>3, <1>5, <2>1
  <1>8. \A j \in 0 .. Len(h2) - 1 : ~(j < Len(b) /\ b[Len(b) - j] < 0)
    <2> SUFFICES ASSUME NEW j \in 0 .. Len(h2) - 1, j < Len(b)
                 PROVE  ~(b[Len(b) - j] < 0)
      OBVIOUS
    <2>1. Len(b) - j \in 1 .. Len(b) /\ b \in Seq(0 .. ChanWindow)
      BY <1>1, <1>3, <1>5 DEF Follows
    <2>2. b[Len(b) - j] \in 0 .. ChanWindow
      BY <2>1, ElementOfSeq
    <2>3. QED
      BY <2>2, ChanConstants
  <1>9. Follows(h2, b, 0)
    <2>1. Len(h2) <= MaxLen /\ 0 \in 0 .. ChanWindow + 1
      BY <1>1, <1>3, <1>5, ChanConstants
    <2>2. Len(h2) > 0 /\ Len(b) > 0 => h2[Len(h2)].age = b[Len(b)]
      BY <1>5
    <2>3. QED
      BY <1>5, <1>6, <1>7, <1>8, <2>1, <2>2 DEF Follows
  <1>10. QED
    BY <1>2, <1>4, <1>9 DEF C!Pushed

\* One tick on.
AgedEntries(h) == [i \in DOMAIN h |-> [h[i] EXCEPT !.age = IF @ > ChanWindow THEN @ ELSE @ + 1]]
AgedTicks(b) ==
  LET aged == [i \in DOMAIN b |-> b[i] + 1]
  IN  IF aged # <<>> /\ Head(aged) > ChanWindow THEN Tail(aged) ELSE aged

AgedCrowd(c) == IF c > ChanWindow THEN c ELSE c + 1

LEMMA FollowsAged ==
    ASSUME NEW h, NEW b, NEW c, Follows(h, b, c)
    PROVE  /\ Follows(AgedEntries(h), AgedTicks(b), AgedCrowd(c)) /\ AgedCrowd(c) # 0
           /\ \A i \in 1 .. Len(AgedTicks(b)) : AgedTicks(b)[i] # 0
  <1>1. /\ h \in Seq(Entry) /\ Len(h) \in Nat /\ Len(b) \in Nat /\ b \in Seq(0 .. ChanWindow)
        /\ Len(h) <= MaxLen /\ DOMAIN h = 1 .. Len(h) /\ DOMAIN b = 1 .. Len(b)
        /\ \A i \in 1 .. Len(h) : h[i] \in Entry
        /\ \A i \in 1 .. Len(b) : b[i] \in 0 .. ChanWindow
        /\ ChanWindow \in Nat /\ c \in 0 .. ChanWindow + 1
    BY ChanConstants DEF Follows
  <1>2. PICK h2 : h2 = AgedEntries(h)
    OBVIOUS
  <1>3. \A i \in 1 .. Len(h) : /\ h2[i] \in Entry
                               /\ h2[i].age = IF h[i].age > ChanWindow THEN h[i].age ELSE h[i].age + 1
    <2>1. ASSUME NEW r \in Entry
          PROVE  /\ [r EXCEPT !.age = IF @ > ChanWindow THEN @ ELSE @ + 1] \in Entry
                 /\ [r EXCEPT !.age = IF @ > ChanWindow THEN @ ELSE @ + 1].age
                      = IF r.age > ChanWindow THEN r.age ELSE r.age + 1
      BY <1>1 DEF Entry
    <2>2. QED
      BY <1>1, <1>2, <2>1 DEF AgedEntries
  <1>4. h2 \in Seq(Entry) /\ Len(h2) = Len(h)
    <2>1. h2 = [i \in 1 .. Len(h) |-> h2[i]]
      BY <1>1, <1>2 DEF AgedEntries
    <2>2. QED
      BY <1>1, <1>3, <2>1
  <1>5. PICK a : a = [i \in DOMAIN b |-> b[i] + 1]
    OBVIOUS
  <1>6. a \in Seq(Nat) /\ Len(a) = Len(b) /\ \A i \in 1 .. Len(b) : a[i] = b[i] + 1
    BY <1>1, <1>5
  <1>7. PICK b2 : b2 = AgedTicks(b)
    OBVIOUS
  <1>8. b2 = IF a # <<>> /\ Head(a) > ChanWindow THEN Tail(a) ELSE a
    BY <1>5, <1>7 DEF AgedTicks
  <1>9. PICK d : d = IF a # <<>> /\ Head(a) > ChanWindow THEN 1 ELSE 0
    OBVIOUS
  <1>10. /\ d \in {0, 1} /\ Len(b2) = Len(b) - d /\ Len(b2) \in Nat
         /\ \A i \in 1 .. Len(b2) : b2[i] = a[i + d] /\ i + d \in 1 .. Len(b)
         /\ b2 \in Seq(Nat)
         /\ d = 1 => Len(b) > 0 /\ b[1] = ChanWindow
         /\ d = 0 /\ Len(b) > 0 => b[1] < ChanWindow
    <2>1. CASE a # <<>> /\ Head(a) > ChanWindow
      <3>1. Tail(a) \in Seq(Nat) /\ Len(Tail(a)) = Len(a) - 1 /\ Len(a) # 0 /\ Head(a) = a[1]
        BY <1>6, <2>1
      <3>2. \A i \in 1 .. Len(a) - 1 : Tail(a)[i] = a[i + 1]
        BY <1>6, <3>1
      <3>3. Len(b) > 0 /\ b[1] = ChanWindow
        <4>1. 1 \in 1 .. Len(b)
          BY <1>1, <1>6, <3>1
        <4>2. QED
          BY <1>1, <1>6, <2>1, <3>1, <4>1
      <3>4. QED
        BY <1>1, <1>6, <1>8, <1>9, <2>1, <3>1, <3>2, <3>3
    <2>2. CASE ~(a # <<>> /\ Head(a) > ChanWindow)
      <3>1. d = 0 /\ b2 = a
        BY <1>8, <1>9, <2>2
      <3>2. Len(b) > 0 => b[1] < ChanWindow
        <4>1. Len(b) > 0 => 1 \in 1 .. Len(b) /\ a # <<>> /\ Head(a) = a[1]
          BY <1>1, <1>6
        <4>2. QED
          BY <1>1, <1>6, <2>2, <4>1
      <3>3. QED
        BY <1>1, <1>6, <3>1, <3>2
    <2>3. QED
      BY <2>1, <2>2
  <1>11. ASSUME NEW i \in 1 .. Len(b2)
         PROVE  b2[i] = b[i + d] + 1 /\ b2[i] \in 0 .. ChanWindow /\ b2[i] # 0
    <2>1. i + d \in 1 .. Len(b) /\ b2[i] = b[i + d] + 1 /\ b[i + d] \in 0 .. ChanWindow
      BY <1>1, <1>6, <1>10
    <2>2. b[i + d] < ChanWindow
      <3>1. CASE i + d = 1
        <4>1. d = 0 /\ Len(b) > 0
          <5>1. i \in Nat /\ i >= 1 /\ d \in {0, 1} /\ Len(b) \in Nat
            BY <1>1, <1>10
          <5>2. QED
            BY <2>1, <3>1, <5>1
        <4>2. QED
          BY <1>10, <3>1, <4>1
      <3>2. CASE i + d # 1
        <4>1. 1 \in 1 .. Len(b) /\ 1 < i + d
          BY <1>1, <2>1, <3>2
        <4>2. b[i + d] < b[1] /\ b[1] \in 0 .. ChanWindow
          BY <1>1, <2>1, <4>1 DEF Follows
        <4>3. QED
          BY <1>1, <2>1, <4>2
      <3>3. QED
        BY <3>1, <3>2
    <2>3. QED
      BY <1>1, <2>1, <2>2
  <1>0. d \in {0, 1} /\ Len(b2) = Len(b) - d /\ Len(b2) \in Nat /\ Len(b) \in Nat /\ b2 \in Seq(Nat)
    BY <1>1, <1>10
  <1>12. b2 \in Seq(0 .. ChanWindow)
    <2>1. \A i \in 1 .. Len(b2) : b2[i] \in 0 .. ChanWindow
      BY <1>11
    <2>2. PICK S : S = 0 .. ChanWindow
      OBVIOUS
    <2>3. DOMAIN b2 = 1 .. Len(b2) /\ b2 = [i \in 1 .. Len(b2) |-> b2[i]]
      BY <1>0
    <2>4. b2 \in [1 .. Len(b2) -> S]
      BY <2>1, <2>2, <2>3
    <2>5. b2 \in Seq(S)
      <3>1. PICK n \in Nat : n = Len(b2)
        BY <1>0
      <3>2. b2 \in [1 .. n -> S]
        BY <2>4, <3>1
      <3>3. Seq(S) = UNION {[1 .. m -> S] : m \in Nat}
        BY SeqDef
      <3>4. QED
        BY <3>2, <3>3, Zenon
    <2>6. QED
      BY <2>2, <2>5
  <1>13. \A i, j \in 1 .. Len(b2) : i < j => b2[j] < b2[i]
    <2>1. ASSUME NEW i \in 1 .. Len(b2), NEW j \in 1 .. Len(b2), i < j
          PROVE  b2[j] < b2[i]
      <3>1. /\ i + d \in 1 .. Len(b) /\ j + d \in 1 .. Len(b) /\ i + d < j + d
            /\ b2[i] = b[i + d] + 1 /\ b2[j] = b[j + d] + 1
        BY <1>10, <1>11, <2>1
      <3>2. b[j + d] < b[i + d] /\ b[j + d] \in Nat /\ b[i + d] \in Nat
        BY <1>1, <3>1 DEF Follows
      <3>3. QED
        BY <3>1, <3>2
    <2>2. QED
      BY <2>1
  <1>14. Len(h2) < Len(b2) => Len(h2) = MaxLen
    <2>1. Len(h) < Len(b) => Len(h) = MaxLen
      BY DEF Follows
    <2>2. QED
      BY <1>1, <1>4, <1>10, <2>1
  <1>18. PICK c2 : c2 = AgedCrowd(c) /\ c2 = (IF c > ChanWindow THEN c ELSE c + 1)
    BY DEF AgedCrowd
  <1>15. ASSUME NEW j \in 0 .. Len(h2) - 1
         PROVE  IF j < Len(b2) /\ b2[Len(b2) - j] < c2 THEN h2[Len(h2) - j].age = b2[Len(b2) - j]
                ELSE h2[Len(h2) - j].age >= c2
    <2>0. j \in Nat
      BY <1>1, <1>4
    <2>1. /\ j \in 0 .. Len(h) - 1 /\ Len(h) - j \in 1 .. Len(h) /\ Len(h2) - j = Len(h) - j
          /\ h[Len(h) - j].age \in 0 .. ChanWindow + 1
          /\ IF j < Len(b) /\ b[Len(b) - j] < c THEN h[Len(h) - j].age = b[Len(b) - j]
             ELSE h[Len(h) - j].age >= c
      <3>1. /\ j \in 0 .. Len(h) - 1 /\ Len(h) - j \in 1 .. Len(h) /\ Len(h2) - j = Len(h) - j
        BY <1>1, <1>4
      <3>2. h[Len(h) - j].age \in 0 .. ChanWindow + 1
        BY <1>1, <3>1 DEF Entry
      <3>3. QED
        BY <2>0, <3>1, <3>2 DEF Follows
    <2>2. h2[Len(h2) - j].age = IF h[Len(h) - j].age > ChanWindow THEN h[Len(h) - j].age ELSE h[Len(h) - j].age + 1
      BY <1>3, <2>1
    <2>3. CASE j < Len(b2)
      <3>1. Len(b2) - j \in 1 .. Len(b2) /\ (Len(b2) - j) + d = Len(b) - j /\ j < Len(b) /\ Len(b) - j \in 1 .. Len(b)
        BY <1>0, <2>0, <2>3
      <3>2. /\ b2[Len(b2) - j] = b[Len(b) - j] + 1 /\ b[Len(b) - j] \in 0 .. ChanWindow
            /\ b2[Len(b2) - j] \in 0 .. ChanWindow
        BY <1>1, <1>11, <3>1
      <3>3. b2[Len(b2) - j] < c2 <=> b[Len(b) - j] < c
        <4>1. PICK x \in Nat : x = b[Len(b) - j] /\ b2[Len(b2) - j] = x + 1 /\ x + 1 <= ChanWindow
          BY <1>1, <3>2
        <4>2. CASE c > ChanWindow
          BY <1>1, <1>18, <4>1, <4>2
        <4>3. CASE ~(c > ChanWindow)
          BY <1>1, <1>18, <4>1, <4>3
        <4>4. QED
          BY <4>2, <4>3
      <3>4. CASE b[Len(b) - j] < c
        <4>1. h[Len(h) - j].age = b[Len(b) - j]
          BY <2>1, <3>1, <3>4
        <4>2. QED
          BY <1>1, <2>2, <2>3, <3>2, <3>3, <3>4, <4>1
      <3>5. CASE ~(b[Len(b) - j] < c)
        <4>1. h[Len(h) - j].age >= c
          BY <2>1, <3>5
        <4>2. PICK y \in 0 .. ChanWindow + 1 : y = h[Len(h) - j].age
          BY <2>1
        <4>3. h2[Len(h2) - j].age = (IF y > ChanWindow THEN y ELSE y + 1) /\ y >= c
          BY <2>2, <4>1, <4>2
        <4>4. h2[Len(h2) - j].age >= c2
          BY <1>1, <1>18, <4>3
        <4>5. ~(b2[Len(b2) - j] < c2)
          BY <3>3, <3>5
        <4>6. QED
          BY <4>4, <4>5
      <3>6. QED
        BY <3>4, <3>5
    <2>4. CASE ~(j < Len(b2)) /\ j < Len(b)
      <3>1. d = 1 /\ Len(b) - j = 1
        BY <1>0, <2>0, <2>4
      <3>2. b[Len(b) - j] = ChanWindow
        BY <1>10, <3>1
      <3>3. CASE ChanWindow < c
        <4>1. h[Len(h) - j].age = ChanWindow
          BY <2>1, <2>4, <3>2, <3>3
        <4>2. QED
          BY <1>1, <1>18, <2>2, <2>4, <4>1
      <3>4. CASE ~(ChanWindow < c)
        <4>1. h[Len(h) - j].age >= c
          BY <2>1, <3>2, <3>4
        <4>2. PICK x \in Nat : x = h[Len(h) - j].age /\ x >= c
          BY <1>1, <2>1, <4>1
        <4>3. h2[Len(h2) - j].age = IF x > ChanWindow THEN x ELSE x + 1
          BY <2>2, <4>2
        <4>4. c2 = c + 1 /\ c \in Nat /\ c <= ChanWindow
          BY <1>1, <1>18, <3>4
        <4>5. h2[Len(h2) - j].age >= c2
          BY <1>1, <4>2, <4>3, <4>4
        <4>6. QED
          BY <2>4, <4>5
      <3>5. QED
        BY <3>3, <3>4
    <2>5. CASE ~(j < Len(b2)) /\ ~(j < Len(b))
      <3>1. h[Len(h) - j].age >= c
        BY <2>1, <2>5
      <3>2. QED
        BY <1>1, <1>18, <2>1, <2>2, <2>5, <3>1
    <2>6. QED
      BY <2>3, <2>4, <2>5
  <1>19. c2 \in 0 .. ChanWindow + 1 /\ c2 # 0
    BY <1>1, <1>18
  <1>20. Len(h2) > 0 /\ Len(b2) > 0 => h2[Len(h2)].age = b2[Len(b2)]
    <2> SUFFICES ASSUME Len(h2) > 0, Len(b2) > 0
                 PROVE  h2[Len(h2)].age = b2[Len(b2)]
      OBVIOUS
    <2>1. Len(h) \in 1 .. Len(h) /\ Len(b) > 0 /\ Len(b2) \in 1 .. Len(b2) /\ Len(b2) + d = Len(b)
      BY <1>0, <1>1, <1>4
    <2>2. h[Len(h)].age = b[Len(b)]
      BY <1>4, <2>1 DEF Follows
    <2>3. b2[Len(b2)] = b[Len(b)] + 1 /\ b2[Len(b2)] \in 0 .. ChanWindow
      BY <1>11, <2>1
    <2>4. Len(b) \in 1 .. Len(b)
      BY <1>0, <2>1
    <2>5. b[Len(b)] \in 0 .. ChanWindow
      BY <1>1, <2>4
    <2>6. QED
      BY <1>1, <1>3, <1>4, <2>1, <2>2, <2>3, <2>5
  <1>16. Follows(h2, b2, c2)
    BY <1>1, <1>4, <1>12, <1>13, <1>14, <1>15, <1>19, <1>20 DEF Follows
  <1>17. QED
    BY <1>2, <1>7, <1>11, <1>16, <1>18, <1>19

\* The detectors count alike.
LEMMA SameChanCount == \A S : C!Cardinality(S) = Cardinality(S)
  BY DEF C!Cardinality, Cardinality

Fewer(h, b) == IF Len(h) < Len(b) THEN Len(h) ELSE Len(b)

LEMMA RecentFacts ==
    ASSUME NEW h, NEW b, Beats(h, b),
           NEW m, m = Fewer(h, b)
    PROVE  /\ m \in Nat /\ m <= Len(h) /\ m <= Len(b) /\ Len(h) \in Nat /\ Len(b) \in Nat
           /\ Cardinality(C!Recent(h)) = m
  <1>1. h \in Seq(Entry) /\ b \in Seq(0 .. ChanWindow) /\ ChanWindow \in Nat
    BY ChanConstants DEF Beats
  <1>2. Len(h) \in Nat /\ Len(b) \in Nat /\ DOMAIN h = 1 .. Len(h)
    BY <1>1
  <1>3. PICK x \in Nat, y \in Nat : x = Len(h) /\ y = Len(b)
    BY <1>2
  <1>4. m \in Nat /\ m <= x /\ m <= y /\ (m = x \/ m = y)
    BY <1>3 DEF Fewer
  <1>5. ASSUME NEW i \in 1 .. x
        PROVE  h[i].age <= ChanWindow <=> i \in x - m + 1 .. x
    <2>1. PICK j \in Nat : j = x - i
      OBVIOUS
    <2>2. j \in 0 .. x - 1 /\ x - j = i
      BY <1>3, <2>1
    <2>3. IF j < y THEN h[i].age = b[y - j] ELSE h[i].age > ChanWindow
      <3>1. \A n \in 0 .. Len(h) - 1 : IF n < Len(b) THEN h[Len(h) - n].age = b[Len(b) - n]
                                       ELSE h[Len(h) - n].age > ChanWindow
        BY DEF Beats
      <3>2. QED
        BY <1>3, <2>2, <3>1
    <2>4. CASE j < y
      <3>1. y - j \in 1 .. y
        BY <2>4
      <3>2. b[y - j] \in 0 .. ChanWindow
        BY <1>1, <1>3, <3>1, ElementOfSeq
      <3>3. h[i].age <= ChanWindow
        BY <1>1, <2>3, <2>4, <3>2
      <3>4. m > j
        BY <1>4, <2>2, <2>4
      <3>5. i \in x - m + 1 .. x
        BY <1>4, <2>1, <3>4
      <3>6. QED
        BY <3>3, <3>5
    <2>5. CASE ~(j < y)
      <3>1. h[i].age > ChanWindow
        BY <2>3, <2>5
      <3>2. h[i].age \in Nat
        <4>1. h[i] \in Entry
          BY <1>1, <1>3, ElementOfSeq
        <4>2. QED
          BY <1>1, <4>1 DEF Entry
      <3>3. ~(h[i].age <= ChanWindow)
        BY <1>1, <3>1, <3>2
      <3>4. m <= j
        BY <1>4, <2>5
      <3>5. ~(x - m + 1 <= i)
        BY <1>4, <2>1, <3>4
      <3>6. QED
        BY <1>4, <3>3, <3>5
    <2>6. QED
      BY <2>4, <2>5
  <1>6. x - m + 1 .. x \subseteq 1 .. x
    BY <1>4
  <1>7. C!Recent(h) = x - m + 1 .. x
    BY <1>2, <1>3, <1>5, <1>6 DEF C!Recent
  <1>8. Cardinality(x - m + 1 .. x) = m
    <2>1. PICK z \in Int : z = x - m + 1
      BY <1>4
    <2>2. (z > x <=> m = 0) /\ x - z + 1 = m
      BY <1>4, <2>1
    <2>3. Cardinality(z .. x) = IF z > x THEN 0 ELSE x - z + 1
      BY FS_Interval
    <2>4. QED
      BY <2>1, <2>2, <2>3
  <1>9. QED
    BY <1>2, <1>3, <1>4, <1>7, <1>8

\* The entries in the window are those of the last ticks with a delta.
LEMMA EventsFacts ==
    ASSUME NEW f, NEW h, h = hist[f], NEW b, Beats(h, b), NEW ev, ev = C!Events(f)
    PROVE  /\ Len(b) \in Nat /\ Len(ev) \in Nat /\ Len(ev) <= Len(b)
           /\ Len(b) >= MinEvents => Len(ev) >= MinEvents
           /\ \A i \in 1 .. Len(ev) : ev[i].age = b[Len(b) - Len(ev) + i]
  <1>1. PICK m : m = Fewer(h, b)
    OBVIOUS
  <1>2. /\ m \in Nat /\ m <= Len(h) /\ m <= Len(b) /\ Len(h) \in Nat /\ Len(b) \in Nat
        /\ Cardinality(C!Recent(h)) = m
    BY <1>1, RecentFacts
  <1>3. h \in Seq(Entry)
    BY DEF Beats
  <1>4. ev = SubSeq(h, Len(h) - m + 1, Len(h))
    BY <1>2, SameChanCount DEF C!Events
  <1>5. Len(ev) = m /\ \A i \in 1 .. m : ev[i] = h[Len(h) - m + i]
    <2>1. PICK x, y : x = Len(h) - m + 1 /\ y = Len(h)
      OBVIOUS
    <2>2. x \in 1 .. Len(h) + 1 /\ y \in x - 1 .. Len(h) /\ (IF x <= y THEN y - x + 1 ELSE 0) = m
      BY <1>2, <2>1
    <2>3. /\ Len(SubSeq(h, x, y)) = IF x <= y THEN y - x + 1 ELSE 0
          /\ \A i \in 1 .. y - x + 1 : SubSeq(h, x, y)[i] = h[x + i - 1]
      BY <1>3, <2>2, SubSeqProperties
    <2>4. \A i \in 1 .. m : i \in 1 .. y - x + 1 /\ x + i - 1 = Len(h) - m + i
      BY <1>2, <2>1
    <2>5. QED
      BY <1>4, <2>1, <2>2, <2>3, <2>4
  <1>6. ASSUME NEW i \in 1 .. m
        PROVE  h[Len(h) - m + i].age = b[Len(b) - m + i]
    <2>1. PICK j : j = m - i
      OBVIOUS
    <2>2. /\ j \in 0 .. Len(h) - 1 /\ Len(h) - j = Len(h) - m + i /\ Len(b) - j = Len(b) - m + i
          /\ j < Len(b)
      BY <1>2, <2>1
    <2>3. h[Len(h) - j].age = b[Len(b) - j]
      BY <2>2 DEF Beats
    <2>4. QED
      BY <2>2, <2>3
  <1>7. Len(b) >= MinEvents => m >= MinEvents
    <2>1. Len(h) < Len(b) => Len(h) = MaxLen
      BY DEF Beats
    <2>2. QED
      BY <1>1, <1>2, <2>1, ChanConstants DEF Fewer
  <1>8. QED
    BY <1>2, <1>5, <1>6, <1>7

\* So narrow, and so slow, that it counts as a beat.
Narrow(spread, n, s) == 10000 * spread < CvPct * CvPct * n * s * s
Slow(n, s) == s >= MinGap * n

\* A steady beat is suspicious.
LEMMA SteadyIsSuspicious ==
    ASSUME NEW f, Beats(hist[f], bursts[f]), C!Steady(f)
    PROVE  C!Suspicious(f)
  <1>1. PICK h, b, ev : h = hist[f] /\ b = bursts[f] /\ ev = C!Events(f)
    OBVIOUS
  <1>2. Len(b) >= MinEvents
    BY <1>1 DEF C!Steady
  <1>3. /\ Len(b) \in Nat /\ Len(ev) \in Nat /\ Len(ev) <= Len(b) /\ Len(ev) >= MinEvents
        /\ \A i \in 1 .. Len(ev) : ev[i].age = b[Len(b) - Len(ev) + i]
    BY <1>1, <1>2, EventsFacts
  <1>4. PICK gap : gap \in MinGap .. ChanWindow /\ C!BurstGaps(f) = {gap}
    BY DEF C!Steady
  <1>5. gap \in Nat /\ gap >= MinGap /\ gap > 0
    BY <1>4, ChanConstants
  <1>6. \A i \in 1 .. Len(b) - 1 : b[i] - b[i + 1] = gap
    BY <1>1, <1>4 DEF C!BurstGaps
  <1>7. PICK n \in Nat : n = Len(ev) - 1 /\ n >= 1
    <2>1. Len(ev) \in Nat /\ Len(ev) >= MinEvents /\ MinEvents \in Nat /\ MinEvents > 1
      BY <1>3, ChanConstants
    <2>2. QED
      BY <2>1
  <1>8. C!Gaps(ev) = [i \in 1 .. n |-> gap]
    <2>1. ASSUME NEW i \in 1 .. n
          PROVE  ev[i].age - ev[i + 1].age = gap
      <3>1. PICK k : k = Len(b) - Len(ev) + i
        OBVIOUS
      <3>2. /\ i \in 1 .. Len(ev) /\ i + 1 \in 1 .. Len(ev)
            /\ Len(b) - Len(ev) + (i + 1) = k + 1 /\ k \in 1 .. Len(b) - 1
        <4>1. Len(b) \in Nat /\ Len(ev) \in Nat /\ Len(ev) <= Len(b)
          BY <1>3
        <4>2. QED
          BY <1>7, <3>1, <4>1
      <3>3. ev[i].age = b[k] /\ ev[i + 1].age = b[k + 1]
        BY <1>3, <3>1, <3>2
      <3>4. QED
        BY <1>6, <3>2, <3>3
    <2>2. C!Gaps(ev) = [i \in 1 .. n |-> ev[i].age - ev[i + 1].age]
      BY <1>7 DEF C!Gaps
    <2>3. QED
      BY <2>1, <2>2
  <1>9. PICK g : g = C!Gaps(ev)
    OBVIOUS
  <1>10. g = [i \in 1 .. n |-> gap] /\ Len(g) = n /\ DOMAIN g = 1 .. n
    BY <1>8, <1>9
  <1>11. C!SumOver(g) = n * gap
    BY <1>5, <1>10, SumSame
  <1>12. PICK s \in Nat : s = n * gap /\ s > 0 /\ s >= MinGap * n
    <2>1. n * gap \in Nat /\ n * gap > 0
      BY <1>5, <1>7
    <2>2. n * gap >= n * MinGap
      BY <1>5, <1>7, ChanConstants
    <2>3. QED
      BY <2>1, <2>2, ChanConstants
  <1>13. [i \in DOMAIN g |-> (n * g[i] - s) * (n * g[i] - s)] = [i \in 1 .. n |-> 0]
    <2>1. \A i \in 1 .. n : n * g[i] - s = 0
      BY <1>5, <1>10, <1>12
    <2>2. \A i \in 1 .. n : (n * g[i] - s) * (n * g[i] - s) = 0
      BY <2>1
    <2>3. QED
      BY <1>10, <2>2
  <1>14. C!SumOver([i \in DOMAIN g |-> (n * g[i] - s) * (n * g[i] - s)]) = 0
    <2>1. C!SumOver([i \in 1 .. n |-> 0]) = n * 0
      BY SumSame
    <2>2. QED
      BY <1>13, <2>1
  <1>15. Narrow(0, n, s)
    <2>1. CvPct * CvPct \in Nat /\ CvPct * CvPct > 0
      BY ChanConstants
    <2>2. PICK c \in Nat : c = CvPct * CvPct /\ c > 0
      BY <2>1
    <2>3. c * n \in Nat /\ c * n > 0
      BY <1>7, <2>2
    <2>4. PICK e \in Nat : e = c * n /\ e > 0
      BY <2>3
    <2>5. e * s \in Nat /\ e * s > 0
      BY <1>12, <2>4
    <2>6. PICK d \in Nat : d = e * s /\ d > 0
      BY <2>5
    <2>7. d * s > 0
      BY <1>12, <2>6
    <2>8. QED
      BY <2>2, <2>4, <2>6, <2>7 DEF Narrow
  <1>16. C!Beacon(ev)
    <2>1. PICK k, t, fn : /\ k = Len(g) /\ t = C!SumOver(g)
                          /\ fn = [i \in DOMAIN g |-> (k * g[i] - t) * (k * g[i] - t)]
      OBVIOUS
    <2>2. C!Beacon(ev) <=> Slow(k, t) /\ Narrow(C!SumOver(fn), k, t)
      BY <1>9, <2>1 DEF C!Beacon, Slow, Narrow
    <2>3. k = n /\ t = s
      BY <1>10, <1>11, <1>12, <2>1
    <2>4. C!SumOver(fn) = 0
      BY <1>14, <2>1, <2>3
    <2>5. Slow(n, s)
      BY <1>12 DEF Slow
    <2>6. QED
      BY <1>15, <2>2, <2>3, <2>4, <2>5, Zenon
  <1>17. QED
    BY <1>1, <1>3, <1>16 DEF C!Suspicious

-----------------------------------------------------------------------------
Chan == Pid \X (Ip \cup Name)

\* An entry of this tick stands last.
Ends(b) == b # <<>> /\ b[Len(b)] = 0

\* A history has one entry for every tick with a delta, as far back as the last
\* one with two, up to its bound; who has one of this tick is judged.
ChanInv ==
  /\ DOMAIN hist = Chan /\ DOMAIN bursts = Chan /\ DOMAIN crowd = Chan
  /\ \A f \in Chan :
       /\ Follows(hist[f], bursts[f], crowd[f])
       /\ crowd[f] = 0 => Ends(bursts[f])
       /\ Ends(bursts[f]) => f[1] \in perPid

ToldInv ==
  pc = "judged" =>
     \A p \in Judged : said[p].covert = {d \in Ip \cup Name : C!Suspicious(<<p, d>>)}

LEMMA InitChan == Init => ChanInv /\ ToldInv
  <1> SUFFICES ASSUME Init
               PROVE  ChanInv /\ ToldInv
    OBVIOUS
  <1>1. /\ hist = [f \in Chan |-> <<>>] /\ bursts = [f \in Chan |-> <<>>]
        /\ crowd = [f \in Chan |-> ChanWindow + 1] /\ pc = "observe"
    BY DEF Init, C!Init, Chan
  <1>2. Follows(<<>>, <<>>, ChanWindow + 1) /\ ~Ends(<<>>) /\ ChanWindow + 1 # 0
    BY ChanConstants DEF Follows, Ends
  <1>3. ASSUME NEW f \in Chan
        PROVE  Follows(hist[f], bursts[f], crowd[f]) /\ ~Ends(bursts[f]) /\ crowd[f] # 0
    <2>1. hist[f] = <<>> /\ bursts[f] = <<>> /\ crowd[f] = ChanWindow + 1
      BY <1>1
    <2>2. QED
      BY <1>2, <2>1
  <1>4. QED
    BY <1>1, <1>3 DEF ChanInv, ToldInv

\* Without an entry of this tick there is none of age 0: they stand in order.
LEMMA NoneYet ==
    ASSUME NEW h, NEW b, NEW c, Follows(h, b, c), ~Ends(b)
    PROVE  \A i \in 1 .. Len(b) : b[i] # 0
  <1> SUFFICES ASSUME NEW i \in 1 .. Len(b)
               PROVE  b[i] # 0
    OBVIOUS
  <1>1. b \in Seq(0 .. ChanWindow) /\ Len(b) \in Nat /\ Len(b) \in 1 .. Len(b) /\ b # <<>>
    BY DEF Follows
  <1>2. b[Len(b)] \in 0 .. ChanWindow /\ b[i] \in 0 .. ChanWindow
    BY <1>1, ElementOfSeq
  <1>3. b[Len(b)] # 0
    BY <1>1 DEF Ends
  <1>4. CASE i = Len(b)
    BY <1>3, <1>4
  <1>5. CASE i # Len(b)
    <2>1. i < Len(b)
      BY <1>1, <1>5
    <2>2. b[Len(b)] < b[i]
      BY <1>1, <2>1 DEF Follows
    <2>3. QED
      BY <1>2, <2>2, ChanConstants
  <1>6. QED
    BY <1>4, <1>5

LEMMA ObserveChan ==
    ASSUME ChanInv, NEW p \in Pid, NEW ip \in Ip, NEW dest \in {ip} \cup NamesOf[ip],
           Observe(p, ip, dest)
    PROVE  ChanInv' /\ ToldInv'
  <1>1. perPid' = perPid \cup {p} /\ pc' = "observe" /\ C!Observe(<<p, dest>>, Kb)
    BY DEF Observe
  <1>2. PICK g : g = <<p, dest>>
    OBVIOUS
  <1>3. g \in Chan /\ g[1] = p
    BY <1>2 DEF Chan, Name
  <1>4. PICK e : e = [age |-> 0, kb |-> Kb]
    OBVIOUS
  <1>5. e \in Entry /\ e.age = 0
    BY <1>4, ChanConstants DEF Entry
  <1>6. PICK h, b, c : h = hist[g] /\ b = bursts[g] /\ c = crowd[g]
    OBVIOUS
  <1>7. /\ hist' = [hist EXCEPT ![g] = C!Pushed(@, e)]
        /\ IF Ends(b) THEN crowd' = [crowd EXCEPT ![g] = 0] /\ bursts' = bursts
           ELSE bursts' = [bursts EXCEPT ![g] = Append(@, 0)] /\ crowd' = crowd
    BY <1>1, <1>2, <1>4, <1>6 DEF C!Observe, C!Bursting, Ends
  <1>8. Follows(h, b, c) /\ (c = 0 => Ends(b))
    BY <1>3, <1>6 DEF ChanInv
  <1>9. DOMAIN hist' = Chan /\ DOMAIN bursts' = Chan /\ DOMAIN crowd' = Chan
    BY <1>7 DEF ChanInv
  <1>10. hist'[g] = C!Pushed(h, e)
    BY <1>3, <1>6, <1>7 DEF ChanInv
  <1>11. /\ Follows(hist'[g], bursts'[g], crowd'[g])
         /\ crowd'[g] = 0 => Ends(bursts'[g])
    <2>1. CASE Ends(b)
      <3>1. bursts'[g] = b /\ crowd'[g] = 0
        BY <1>3, <1>6, <1>7, <2>1 DEF ChanInv
      <3>2. Len(b) > 0 /\ b[Len(b)] = 0
        <4>1. b \in Seq(0 .. ChanWindow)
          BY <1>8 DEF Follows
        <4>2. QED
          BY <2>1, <4>1 DEF Ends
      <3>3. Follows(C!Pushed(h, e), b, 0)
        BY <1>5, <1>8, <3>2, FollowsAgain
      <3>4. QED
        BY <1>10, <2>1, <3>1, <3>3
    <2>2. CASE ~Ends(b)
      <3>1. bursts'[g] = Append(b, 0) /\ crowd'[g] = c /\ c # 0
        BY <1>3, <1>6, <1>7, <1>8, <2>2 DEF ChanInv
      <3>2. \A i \in 1 .. Len(b) : b[i] # 0
        BY <1>8, <2>2, NoneYet
      <3>3. Follows(C!Pushed(h, e), Append(b, 0), c)
        BY <1>5, <1>8, <3>1, <3>2, FollowsPushed
      <3>4. QED
        BY <1>10, <3>1, <3>3
    <2>3. QED
      BY <2>1, <2>2
  <1>12. ASSUME NEW f \in Chan
         PROVE  /\ Follows(hist'[f], bursts'[f], crowd'[f])
                /\ crowd'[f] = 0 => Ends(bursts'[f])
                /\ Ends(bursts'[f]) => f[1] \in perPid'
    <2>1. CASE f = g
      BY <1>1, <1>3, <1>11, <2>1
    <2>2. CASE f # g
      <3>1. hist'[f] = hist[f] /\ bursts'[f] = bursts[f] /\ crowd'[f] = crowd[f]
        BY <1>7, <2>2 DEF ChanInv
      <3>2. QED
        BY <1>1, <3>1 DEF ChanInv
    <2>3. QED
      BY <2>1, <2>2
  <1>13. ChanInv'
    BY <1>9, <1>12 DEF ChanInv, Chan, Name
  <1>14. QED
    BY <1>1, <1>13 DEF ToldInv

LEMMA JudgeChan ==
    ASSUME ChanInv, Judge
    PROVE  ChanInv' /\ ToldInv'
  <1>1. perPid' = perPid /\ bursts' = bursts /\ crowd' = crowd
    BY DEF Judge, C!Gc
  <1>2. hist' = [f \in Chan |-> IF hist[f] # <<>> /\ hist[f][Len(hist[f])].age > ChanWindow
                                THEN <<>> ELSE hist[f]]
    BY DEF Judge, C!Gc, Chan
  <1>3. ASSUME NEW f \in Chan
        PROVE  Follows(hist'[f], bursts'[f], crowd'[f])
    <2>1. Follows(hist[f], bursts[f], crowd[f])
      BY DEF ChanInv
    <2>2. CASE hist[f] # <<>> /\ hist[f][Len(hist[f])].age > ChanWindow
      BY <1>1, <1>2, <2>1, <2>2, FollowsNone
    <2>3. CASE ~(hist[f] # <<>> /\ hist[f][Len(hist[f])].age > ChanWindow)
      BY <1>1, <1>2, <2>1, <2>3
    <2>4. QED
      BY <2>2, <2>3
  <1>4. ChanInv'
    BY <1>1, <1>2, <1>3 DEF ChanInv, Chan, Name
  <1>5. Judged' = Judged /\ Judged \subseteq Pid
    BY <1>1, Constants DEF Judged
  <1>6. ASSUME NEW p \in Judged
        PROVE  said'[p].covert = {d \in Ip \cup Name : C!Suspicious(<<p, d>>)'}
    BY <1>5, <1>6 DEF Judge
  <1>7. ToldInv'
    BY <1>5, <1>6 DEF ToldInv, Name
  <1>8. QED
    BY <1>4, <1>7

LEMMA TickChan ==
    ASSUME ChanInv, NextTick
    PROVE  ChanInv' /\ ToldInv'
  <1>1. /\ hist' = [f \in Chan |-> AgedEntries(hist[f])]
        /\ bursts' = [f \in Chan |-> AgedTicks(bursts[f])]
        /\ crowd' = [f \in Chan |-> AgedCrowd(crowd[f])]
        /\ pc' = "observe"
    BY DEF NextTick, C!Elapse, Chan, AgedEntries, AgedTicks, AgedCrowd
  <1>2. ASSUME NEW f \in Chan
        PROVE  /\ Follows(hist'[f], bursts'[f], crowd'[f])
               /\ crowd'[f] # 0 /\ ~Ends(bursts'[f])
    <2>1. PICK h, b, c : h = hist[f] /\ b = bursts[f] /\ c = crowd[f]
      OBVIOUS
    <2>2. Follows(h, b, c)
      BY <2>1 DEF ChanInv
    <2>3. PICK b2 : b2 = AgedTicks(b)
      OBVIOUS
    <2>4. Follows(AgedEntries(h), b2, AgedCrowd(c)) /\ AgedCrowd(c) # 0
          /\ \A i \in 1 .. Len(b2) : b2[i] # 0
      BY <2>2, <2>3, FollowsAged
    <2>5. ~Ends(b2)
      <3>1. b2 \in Seq(0 .. ChanWindow)
        BY <2>4 DEF Follows
      <3>2. b2 # <<>> => Len(b2) \in 1 .. Len(b2)
        BY <3>1
      <3>3. QED
        BY <2>4, <3>2 DEF Ends
    <2>6. QED
      BY <1>1, <2>1, <2>3, <2>4, <2>5
  <1>3. ChanInv'
    BY <1>1, <1>2 DEF ChanInv, Chan, Name
  <1>4. QED
    BY <1>1, <1>3 DEF ToldInv

LEMMA StepChan == ChanInv /\ ToldInv /\ [Next]_vars => ChanInv' /\ ToldInv'
  <1> SUFFICES ASSUME ChanInv, ToldInv, [Next]_vars
               PROVE  ChanInv' /\ ToldInv'
    OBVIOUS
  <1>1. ASSUME NEW p \in Pid, NEW ip \in Ip, NEW dest \in {ip} \cup NamesOf[ip],
               Observe(p, ip, dest)
        PROVE  ChanInv' /\ ToldInv'
    BY <1>1, ObserveChan
  <1>2. CASE Judge
    BY <1>2, JudgeChan
  <1>3. CASE NextTick
    BY <1>3, TickChan
  <1>4. ASSUME NEW p \in Pid, ObserveAi(p)
        PROVE  ChanInv' /\ ToldInv'
    <2>1. UNCHANGED chan /\ pc' = "observe" /\ perPid \subseteq perPid'
      BY <1>4 DEF ObserveAi
    <2>2. UNCHANGED <<hist, bursts, crowd>>
      BY <2>1 DEF chan
    <2>3. QED
      BY <2>1, <2>2 DEF ChanInv, ToldInv, Chan, Name
  <1>5. CASE UNCHANGED vars
    <2>1. UNCHANGED <<hist, bursts, crowd, pc, perPid, said>>
      BY <1>5 DEF vars, chan
    <2>2. ChanInv'
      BY <2>1 DEF ChanInv, Chan, Name
    <2>3. \A f : C!Suspicious(f)' = C!Suspicious(f)
      BY <2>1 DEF C!Suspicious, C!Events
    <2>4. ToldInv'
      BY <2>1, <2>3 DEF ToldInv, Judged, Name
    <2>5. QED
      BY <2>2, <2>4
  <1>6. QED
    BY <1>1, <1>2, <1>3, <1>4, <1>5 DEF Next

(* A steady beat under a name or an address is reported in the tick of     *)
(* every burst from the MinEvents-th on, provided no two connections       *)
(* carried one of the bursts in the window: gc, the bound of the history,  *)
(* what was sent before the window and other flows do not hide it.         *)
THEOREM BeaconIsSaidHolds == Spec => []BeaconIsSaid
  <1>1. ChanInv /\ ToldInv => BeaconIsSaid
    <2> SUFFICES ASSUME ChanInv, ToldInv, pc = "judged", NEW p \in Agent, NEW d \in Ip \cup Name,
                        C!Steady(<<p, d>>), C!Bursting(<<p, d>>), crowd[<<p, d>>] > ChanWindow
                 PROVE  d \in said[p].covert
      BY DEF BeaconIsSaid
    <2>1. PICK f : f = <<p, d>>
      OBVIOUS
    <2>2. f \in Chan /\ f[1] = p
      BY <2>1, Constants DEF Chan
    <2>3. Follows(hist[f], bursts[f], crowd[f])
      BY <2>2 DEF ChanInv
    <2>4. crowd[f] = ChanWindow + 1
      BY <2>1, <2>3, ChanConstants DEF Follows
    <2>5. Beats(hist[f], bursts[f])
      BY <2>3, <2>4, FollowsBeats
    <2>6. p \in Judged
      <3>1. Ends(bursts[f])
        BY <2>1 DEF C!Bursting, Ends
      <3>2. QED
        BY <2>2, <3>1 DEF ChanInv, Judged
    <2>7. C!Suspicious(f)
      BY <2>1, <2>5, SteadyIsSuspicious
    <2>8. QED
      BY <2>1, <2>6, <2>7 DEF ToldInv
  <1>2. QED
    BY <1>1, InitChan, StepChan, PTL DEF Spec
=============================================================================
