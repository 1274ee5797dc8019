---------------------------- MODULE SnifferProofs ---------------------------
(***************************************************************************)
(* Theorems about what the sniffer's process does (sni_sniffer.run_sniffer):*)
(* it watches the sentinel's beat (Deadman), keeps the file of names       *)
(* (SniJoin), and puts split hellos together again (HelloStream).  They    *)
(* hold for every number of pids, connections, segments and lines, and     *)
(* every choice of the limits.                                             *)
(***************************************************************************)
EXTENDS Deadman, SniJoin, HelloStream, SequenceTheorems, WellFoundedInduction, FiniteSetTheorems, TLAPS

-----------------------------------------------------------------------------
(* The dead-man switch.                                                    *)

(* The claimed process: a start time is given out once, a sentinel that    *)
(* runs is in the process table, and only it can be the process that the   *)
(* last beat names.                                                        *)
ClaimInv ==
    /\ \A p \in Pid : procs[p] # Absent => procs[p] <= starts
    /\ app # "off" => procs[me] # Absent
    /\ beat # Absent /\ beat.start # Absent =>
          /\ beat.start <= starts
          /\ procs[beat.pid] = beat.start => app # "off" /\ me = beat.pid

(* The beat that the sentinel that runs has written is still the last.     *)
BeatInv ==
    unsaid # Absent =>
        /\ app # "off" /\ beat # Absent
        /\ beat.age = unsaid /\ beat.pid = me /\ beat.start \in {procs[me], Absent}

(* While no tick throws, and unless a launch got no further than its beat, *)
(* classification is at most one unit of time older than the beat.         *)
BlindInv ==
    /\ app = "launched" => ~ticked
    /\ ~threw =>
        /\ app = "running" => ~vain /\ blind \in 0 .. 1 /\ (ticked => blind = 0)
        /\ beat # Absent /\ ~vain => blind # Absent /\ blind <= beat.age + 1

(* With traffic, a beat that was too old when the sniffer last looked has  *)
(* its alarm.                                                              *)
LookInv == Traffic /\ beat # Absent /\ beat.age > looked + Stale => alarm

-----------------------------------------------------------------------------
LEMMA Numbers == /\ Stale \in Nat /\ Gap \in Nat /\ Period \in Nat
                 /\ MaxStart \in Nat /\ MaxAge \in Nat
                 /\ Traffic \in BOOLEAN /\ Absent \notin Nat
                 /\ Stale + Period + 1 < MaxAge /\ Gap < MaxAge
  BY DeadmanAssumption

LEMMA BeatsAreThere == Absent \notin Beat
  BY DeadmanAssumption

LEMMA OlderType ==
    ASSUME NEW n \in 0 .. MaxAge
    PROVE  /\ Older(n, 1) \in 0 .. MaxAge
           /\ Older(n, 1) = IF n = MaxAge THEN n ELSE n + 1
  BY Numbers DEF Older

-----------------------------------------------------------------------------
(* Every variable stays in its range (deadman.py and its callers).         *)
THEOREM TypeCorrect == Spec => []TypeOK
  <1>1. Init => TypeOK
    <2>1. ASSUME Init
          PROVE  /\ app \in {"off", "launched", "running", "hung"} /\ me \in Pid
                 /\ procs \in [Pid -> Start \cup {Absent}] /\ starts \in 0 .. MaxStart
                 /\ beat \in Beat \cup {Absent} /\ looked \in 0 .. Period + 1
                 /\ gap \in Gap .. MaxAge \cup {Absent} /\ blind \in 0 .. MaxAge \cup {Absent}
                 /\ unsaid \in 0 .. MaxAge \cup {Absent}
      BY <2>1, Numbers DEF Init
    <2>2. ASSUME Init
          PROVE  ticked \in BOOLEAN /\ alarm \in BOOLEAN /\ threw \in BOOLEAN /\ vain \in BOOLEAN
      BY <2>2 DEF Init
    <2>3. QED
      BY <2>1, <2>2 DEF TypeOK
  <1>2. TypeOK /\ [Next]_vars => TypeOK'
    <2> SUFFICES ASSUME TypeOK, [Next]_vars PROVE TypeOK'
      OBVIOUS
    <2> USE Numbers
    <2>1. ASSUME NEW p \in Pid, SpawnOther(p) PROVE TypeOK'
      BY <2>1 DEF SpawnOther, Spawn, TypeOK, Start, history
    <2>2. ASSUME NEW p \in Pid, ExitOther(p) PROVE TypeOK'
      BY <2>2 DEF ExitOther, TypeOK, history
    <2>3. ASSUME NEW p \in Pid, Launch(p) PROVE TypeOK'
      <3>1. GapOf(beat) \in Gap .. MaxAge \cup {Absent}
        BY DEF GapOf, TypeOK, Beat
      <3>2. /\ app' = "launched" /\ me' = p /\ starts' = starts + 1 /\ starts < MaxStart
            /\ procs' = [procs EXCEPT ![p] = starts + 1] /\ ticked' = FALSE /\ unsaid' = Absent
            /\ gap' = GapOf(beat) /\ UNCHANGED <<beat, looked, alarm, blind, vain, threw>>
        BY <2>3 DEF Launch, Spawn
      <3>3. starts' \in 0 .. MaxStart /\ starts' \in Start
        BY <3>2 DEF TypeOK, Start
      <3>4. procs' \in [Pid -> Start \cup {Absent}]
        BY <3>2, <3>3 DEF TypeOK
      <3>5. QED
        BY <3>1, <3>2, <3>3, <3>4 DEF TypeOK
    <2>4. CASE Tick
      <3>1. beat' \in Beat \cup {Absent} /\ unsaid' \in 0 .. MaxAge \cup {Absent}
        <4>1. WriteBeat
          BY <2>4 DEF Tick
        <4>2. QED
          BY <4>1 DEF WriteBeat, TypeOK, Beat
      <3>2. /\ app' \in {"running", "hung"}
            /\ ticked' \in BOOLEAN /\ threw' \in BOOLEAN /\ vain' \in BOOLEAN
            /\ UNCHANGED <<me, procs, starts, looked, alarm, gap>>
        BY <2>4, Zenon DEF Tick, TypeOK
      <3>3. blind' \in 0 .. MaxAge \cup {Absent}
        BY <2>4 DEF Tick, TypeOK
      <3>4. QED
        BY <3>1, <3>2, <3>3 DEF TypeOK
    <2>5. CASE Die
      BY <2>5 DEF Die, TypeOK
    <2>6. CASE Packet
      <3>1. PICK readable \in BOOLEAN : Look(readable)
        BY <2>6 DEF Packet
      <3>2. alarm' \in BOOLEAN /\ looked' \in 0 .. Period + 1
        BY <3>1 DEF Look
      <3>3. UNCHANGED <<app, me, procs, starts, beat, ticked, gap, blind, vain, unsaid, threw>>
        BY <3>1 DEF Look, history
      <3>4. QED
        BY <3>2, <3>3 DEF TypeOK
    <2>7. CASE Elapse
      <3>1. beat' \in Beat \cup {Absent}
        <4>1. CASE beat = Absent
          BY <2>7, <4>1 DEF Elapse
        <4>2. CASE beat # Absent
          <5>1. beat \in Beat /\ beat.age \in 0 .. MaxAge
            BY <4>2 DEF TypeOK, Beat
          <5>2. Older(beat.age, 1) \in 0 .. MaxAge
            BY <5>1, OlderType
          <5>3. beat' = [beat EXCEPT !.age = Older(beat.age, 1)]
            BY <2>7, <4>2 DEF Elapse
          <5>4. QED
            BY <5>1, <5>2, <5>3 DEF Beat
        <4>3. QED
          BY <4>1, <4>2
      <3>2. looked' \in 0 .. Period + 1
        BY <2>7 DEF Elapse, TypeOK
      <3>3. blind' \in 0 .. MaxAge \cup {Absent} /\ unsaid' \in 0 .. MaxAge \cup {Absent}
        BY <2>7, OlderType DEF Elapse, TypeOK
      <3>4. QED
        BY <2>7, <3>1, <3>2, <3>3 DEF Elapse, TypeOK
    <2>8. CASE UNCHANGED vars
      BY <2>8 DEF vars, history, TypeOK
    <2>9. QED
      BY <2>1, <2>2, <2>3, <2>4, <2>5, <2>6, <2>7, <2>8 DEF Next
  <1>3. QED
    BY <1>1, <1>2, PTL DEF Spec

-----------------------------------------------------------------------------
(* Who beat.                                                               *)

LEMMA ClaimInvariant == Spec => []ClaimInv
  <1>1. Init => ClaimInv
    BY DEF Init, ClaimInv
  <1>2. TypeOK /\ ClaimInv /\ [Next]_vars => ClaimInv'
    <2> SUFFICES ASSUME TypeOK, ClaimInv, [Next]_vars PROVE ClaimInv'
      OBVIOUS
    <2>0. /\ starts \in Nat /\ procs \in [Pid -> Start \cup {Absent}] /\ me \in Pid
          /\ \A p \in Pid : procs[p] # Absent => procs[p] \in Nat
          /\ beat # Absent => beat.pid \in Pid /\ (beat.start # Absent => beat.start \in Nat)
      BY Numbers DEF TypeOK, Start, Beat
    <2> USE Numbers
    <2>1. ASSUME NEW p \in Pid, SpawnOther(p) PROVE ClaimInv'
      BY <2>0, <2>1 DEF SpawnOther, Spawn, ClaimInv
    <2>2. ASSUME NEW p \in Pid, ExitOther(p) PROVE ClaimInv'
      BY <2>0, <2>2 DEF ExitOther, ClaimInv
    <2>3. ASSUME NEW p \in Pid, Launch(p) PROVE ClaimInv'
      BY <2>0, <2>3 DEF Launch, Spawn, ClaimInv
    <2>4. CASE Tick
      <3>1. app # "off" /\ app' # "off" /\ UNCHANGED <<me, procs, starts>>
        BY <2>4 DEF Tick
      <3>2. CASE beat' = beat
        BY <2>0, <3>1, <3>2 DEF ClaimInv
      <3>3. CASE beat' # beat
        <4>1. PICK start \in {procs[me], Absent} :
                 beat' = [age |-> 0, pid |-> me, start |-> start]
          BY <2>4, <3>3 DEF Tick, WriteBeat
        <4>2. QED
          BY <2>0, <3>1, <4>1 DEF ClaimInv
      <3>4. QED
        BY <3>2, <3>3
    <2>5. CASE Die
      BY <2>0, <2>5 DEF Die, ClaimInv
    <2>6. CASE Packet
      BY <2>6 DEF Packet, Look, ClaimInv
    <2>7. CASE Elapse
      <3>1. UNCHANGED <<app, me, procs, starts>>
        BY <2>7 DEF Elapse
      <3>2. beat' # Absent => beat # Absent /\ beat'.pid = beat.pid /\ beat'.start = beat.start
        <4>1. SUFFICES ASSUME beat # Absent, beat' # Absent
                       PROVE  beat'.pid = beat.pid /\ beat'.start = beat.start
          BY <2>7 DEF Elapse
        <4>2. beat \in Beat /\ beat' = [beat EXCEPT !.age = Older(beat.age, 1)]
          BY <2>7, <4>1 DEF Elapse, TypeOK
        <4>3. QED
          BY <4>2 DEF Beat
      <3>3. QED
        BY <3>1, <3>2 DEF ClaimInv
    <2>8. CASE UNCHANGED vars
      BY <2>8 DEF vars, ClaimInv
    <2>9. QED
      BY <2>1, <2>2, <2>3, <2>4, <2>5, <2>6, <2>7, <2>8 DEF Next
  <1>3. QED
    BY <1>1, <1>2, TypeCorrect, PTL DEF Spec

(* "DETECTS: pid reuse" (deadman.py:24-25): whoever has the pid that the   *)
(* last beat names, a look at it once its process is gone says so.         *)
THEOREM GoneIsSeenHolds == Spec => GoneIsSeen
  <1>1. ClaimInv /\ [Next]_vars =>
          [Packet /\ app = "off" /\ beat # Absent
             => alarm' \/ (beat.start = Absent /\ procs[beat.pid] # Absent)]_vars
    <2> SUFFICES ASSUME ClaimInv, Packet, app = "off", beat # Absent
                 PROVE  alarm' \/ (beat.start = Absent /\ procs[beat.pid] # Absent)
      OBVIOUS
    <2>1. beat.start # Absent => procs[beat.pid] # beat.start
      BY DEF ClaimInv
    <2>2. QED
      BY <2>1 DEF Packet, Look, ProcStart, IsStale
  <1>2. QED
    BY <1>1, ClaimInvariant, PTL DEF Spec, GoneIsSeen

-----------------------------------------------------------------------------
(* A sentinel that ticks.                                                  *)

LEMMA BeatInvariant == Spec => []BeatInv
  <1>1. Init => BeatInv
    BY DEF Init, BeatInv
  <1>2. TypeOK /\ ClaimInv /\ BeatInv /\ [Next]_vars => BeatInv'
    <2> SUFFICES ASSUME TypeOK, ClaimInv, BeatInv, [Next]_vars, unsaid' # Absent
                 PROVE  /\ app' # "off" /\ beat' # Absent
                        /\ beat'.age = unsaid' /\ beat'.pid = me'
                        /\ beat'.start \in {procs'[me'], Absent}
      BY DEF BeatInv
    <2>1. ASSUME NEW p \in Pid, SpawnOther(p) \/ ExitOther(p), app # "off"
          PROVE  procs'[me] = procs[me]
      BY <2>1 DEF SpawnOther, ExitOther, Spawn, ClaimInv, TypeOK
    <2>2. CASE \E p \in Pid : SpawnOther(p) \/ ExitOther(p)
      BY <2>1, <2>2 DEF SpawnOther, ExitOther, BeatInv, history
    <2>3. ASSUME NEW p \in Pid, Launch(p) PROVE FALSE
      BY <2>3 DEF Launch
    <2>4. CASE Tick
      <3>1. WriteBeat /\ app' # "off" /\ UNCHANGED <<me, procs>>
        BY <2>4 DEF Tick
      <3>2. CASE UNCHANGED <<beat, unsaid>>
        BY <3>1, <3>2 DEF BeatInv
      <3>3. CASE ~UNCHANGED <<beat, unsaid>>
        <4>1. PICK start \in {procs[me], Absent} :
                 beat' = [age |-> 0, pid |-> me, start |-> start] /\ unsaid' = 0
          BY <3>1, <3>3 DEF WriteBeat
        <4>2. beat' # Absent
          BY <4>1, Numbers, BeatsAreThere DEF TypeOK, Beat
        <4>3. QED
          BY <3>1, <4>1, <4>2
      <3>4. QED
        BY <3>2, <3>3
    <2>5. CASE Die
      BY <2>5 DEF Die
    <2>6. CASE Packet \/ UNCHANGED vars
      BY <2>6 DEF Packet, Look, vars, history, BeatInv
    <2>7. CASE Elapse
      <3>1. /\ unsaid # Absent /\ unsaid' = Older(unsaid, 1) /\ UNCHANGED <<app, me, procs>>
        BY <2>7 DEF Elapse
      <3>2. /\ app # "off" /\ beat \in Beat
            /\ beat.age = unsaid /\ beat.pid = me /\ beat.start \in {procs[me], Absent}
            /\ beat' = [beat EXCEPT !.age = Older(beat.age, 1)]
        BY <2>7, <3>1 DEF Elapse, BeatInv, TypeOK
      <3>3. beat' = [age |-> Older(beat.age, 1), pid |-> beat.pid, start |-> beat.start]
        BY <3>2 DEF Beat
      <3>4. beat' # Absent
        BY <3>2, <3>3, OlderType, BeatsAreThere DEF Beat
      <3>5. QED
        BY <3>1, <3>2, <3>3, <3>4
    <2>8. QED
      BY <2>2, <2>3, <2>4, <2>5, <2>6, <2>7 DEF Next
  <1>3. QED
    BY <1>1, <1>2, TypeCorrect, ClaimInvariant, PTL DEF Spec

(* No look that can read start times takes a sentinel that ticks for one   *)
(* that is silent, whatever pids others get and lose, unless it could not  *)
(* write a beat for longer than the limit (stale_for in deadman.py).       *)
THEOREM NoFalseAlarmHolds == Spec => NoFalseAlarm
  <1>1. TypeOK /\ ClaimInv /\ BeatInv /\ [Next]_vars =>
          [Look(TRUE) /\ alarm' /\ app = "running" /\ ticked
             => unsaid = Absent \/ unsaid > Stale]_vars
    <2> SUFFICES ASSUME TypeOK, ClaimInv, BeatInv, Look(TRUE), alarm', app = "running",
                        unsaid # Absent
                 PROVE  unsaid > Stale
      OBVIOUS
    <2>1. beat.age = unsaid /\ beat.pid = me /\ beat.start \in {procs[me], Absent}
          /\ procs[me] # Absent
      BY DEF ClaimInv, BeatInv
    <2>2. IsStale(beat, procs[beat.pid])
      BY DEF Look, ProcStart
    <2>3. QED
      BY <2>1, <2>2 DEF IsStale
  <1>2. QED
    BY <1>1, TypeCorrect, ClaimInvariant, BeatInvariant, PTL DEF Spec, NoFalseAlarm

-----------------------------------------------------------------------------
(* Silence.                                                                *)

LEMMA BlindInvariant == Spec => []BlindInv
  <1>1. Init => BlindInv
    BY DEF Init, BlindInv
  <1>2. TypeOK /\ BlindInv /\ [Next]_vars => BlindInv'
    <2> SUFFICES ASSUME TypeOK, BlindInv, [Next]_vars PROVE BlindInv'
      OBVIOUS
    <2>1. /\ ~threw /\ app = "running" => ~vain /\ blind \in 0 .. 1 /\ (ticked => blind = 0)
          /\ ~threw /\ beat # Absent /\ ~vain => blind # Absent /\ blind <= beat.age + 1
          /\ beat # Absent => beat \in Beat /\ beat.age \in 0 .. MaxAge
          /\ blind # Absent => blind \in 0 .. MaxAge
          /\ app = "launched" => ~ticked
      BY DEF BlindInv, TypeOK, Beat
    <2> USE Numbers
    <2>2. ASSUME NEW p \in Pid, SpawnOther(p) \/ ExitOther(p) PROVE BlindInv'
      BY <2>2, <2>1 DEF SpawnOther, ExitOther, BlindInv, history
    <2>3. ASSUME NEW p \in Pid, Launch(p) PROVE BlindInv'
      BY <2>3, <2>1 DEF Launch, BlindInv
    <2>4. CASE Tick
      <3> DEFINE Ran    == app' = "running" /\ blind' = 0 /\ vain' = FALSE
                Thrown == threw' = TRUE
                Stuck  == app' = "hung" /\ vain' = (vain \/ app = "launched") /\ blind' = blind /\ threw' = threw
      <3>1. app' # "launched"
        BY <2>4 DEF Tick
      <3>2. beat' # beat => beat'.age = 0
        BY <2>4 DEF Tick, WriteBeat
      <3>3. CASE Ran
        <4>1. beat' # Absent => beat'.age \in Nat
          BY <3>2, <2>1
        <4>2. QED
          BY <3>1, <3>3, <4>1 DEF BlindInv
      <3>4. CASE Thrown
        BY <3>1, <3>4 DEF BlindInv
      <3>5. CASE Stuck
        <4>1. SUFFICES ASSUME ~threw, beat' # Absent, ~vain'
                       PROVE  blind' # Absent /\ blind' <= beat'.age + 1
          BY <3>5 DEF BlindInv
        <4>2. ~vain /\ app = "running"
          BY <2>4, <3>5, <4>1 DEF Tick
        <4>3. blind \in 0 .. 1
          BY <4>1, <4>2, <2>1
        <4>4. CASE beat' = beat
          BY <4>1, <4>2, <4>4, <3>5, <2>1
        <4>5. CASE beat' # beat
          BY <4>3, <4>5, <3>2, <3>5
        <4>6. QED
          BY <4>4, <4>5
      <3>6. Ran \/ Thrown \/ Stuck
        <4>1. UNCHANGED <<blind, threw>> => blind' = blind /\ threw' = threw
          OBVIOUS
        <4>2. QED
          BY <2>4, <4>1, Zenon DEF Tick
      <3> HIDE DEF Ran, Thrown, Stuck
      <3>7. QED
        BY <3>3, <3>4, <3>5, <3>6
    <2>5. CASE Die
      BY <2>5, <2>1 DEF Die, BlindInv
    <2>6. CASE Packet \/ UNCHANGED vars
      <3>1. UNCHANGED <<app, beat, ticked, history>>
        BY <2>6 DEF Packet, Look, vars
      <3>2. UNCHANGED <<app, beat, ticked, blind, vain, threw>>
        BY <3>1 DEF history
      <3>3. QED
        BY <3>2 DEF BlindInv
    <2>7. CASE Elapse
      <3>1. /\ UNCHANGED <<app, vain, threw>> /\ ticked' = FALSE
            /\ app \in {"launched", "running"} => ticked
            /\ blind' = IF blind = Absent THEN Absent ELSE Older(blind, 1)
            /\ beat' = IF beat = Absent THEN Absent
                       ELSE [beat EXCEPT !.age = Older(beat.age, 1)]
        BY <2>7 DEF Elapse
      <3>2. ~threw /\ app = "running" => ~vain /\ blind' \in 0 .. 1
        <4>1. SUFFICES ASSUME ~threw, app = "running" PROVE ~vain /\ blind' \in 0 .. 1
          OBVIOUS
        <4>2. ~vain /\ blind = 0 /\ 0 \in 0 .. MaxAge
          BY <4>1, <3>1, <2>1
        <4>3. QED
          BY <4>2, <3>1, OlderType
      <3>3. ~threw /\ beat' # Absent /\ ~vain => blind' # Absent /\ blind' <= beat'.age + 1
        <4>1. SUFFICES ASSUME ~threw, beat # Absent, ~vain
                       PROVE  blind' # Absent /\ blind' <= beat'.age + 1
          BY <3>1
        <4>2. blind \in 0 .. MaxAge /\ beat.age \in 0 .. MaxAge /\ blind <= beat.age + 1
          BY <4>1, <2>1
        <4>3. beat'.age = Older(beat.age, 1)
          BY <4>1, <3>1, <2>1 DEF Beat
        <4>4. blind' = Older(blind, 1)
          BY <4>1, <3>1, <2>1
        <4>5. QED
          BY <4>2, <4>3, <4>4, OlderType
      <3>4. QED
        BY <3>1, <3>2, <3>3 DEF BlindInv
    <2>8. QED
      BY <2>2, <2>3, <2>4, <2>5, <2>6, <2>7 DEF Next
  <1>3. QED
    BY <1>1, <1>2, TypeCorrect, PTL DEF Spec

LEMMA LookInvariant == Spec => []LookInv
  <1>1. Init => LookInv
    BY DEF Init, LookInv
  <1>2. TypeOK /\ LookInv /\ [Next]_vars => LookInv'
    <2> SUFFICES ASSUME TypeOK, LookInv, [Next]_vars, Traffic PROVE LookInv'
      BY DEF LookInv
    <2>0. /\ looked \in 0 .. Period + 1
          /\ beat # Absent => beat \in Beat /\ beat.age \in 0 .. MaxAge
      BY DEF TypeOK, Beat
    <2> USE Numbers
    <2>1. ASSUME NEW p \in Pid, SpawnOther(p) \/ ExitOther(p) \/ Launch(p) PROVE LookInv'
      BY <2>1 DEF SpawnOther, ExitOther, Launch, LookInv
    <2>2. CASE Tick
      <3>1. beat' # beat => beat'.age = 0
        BY <2>2 DEF Tick, WriteBeat
      <3>2. looked' = looked /\ alarm' = alarm
        BY <2>2 DEF Tick
      <3>3. CASE beat' = beat
        BY <3>2, <3>3 DEF LookInv
      <3>4. CASE beat' # beat
        BY <3>1, <3>2, <3>4, <2>0 DEF LookInv
      <3>5. QED
        BY <3>3, <3>4
    <2>3. CASE Packet
      <3>1. PICK readable \in BOOLEAN : Look(readable)
        BY <2>3 DEF Packet
      <3>2. /\ looked' = 0 /\ beat' = beat
            /\ alarm' <=> beat # Absent /\ IsStale(beat, ProcStart(beat.pid, readable))
        BY <3>1 DEF Look
      <3>3. QED
        BY <3>2, <2>0 DEF LookInv, IsStale
    <2>4. CASE Elapse
      <3>1. looked <= Period /\ looked' = looked + 1 /\ alarm' = alarm
        BY <2>4, <2>0 DEF Elapse
      <3>2. beat' # Absent => beat # Absent /\ beat'.age <= beat.age + 1
                              /\ beat'.age \in Nat /\ beat.age \in Nat
        <4>1. SUFFICES ASSUME beat # Absent
                       PROVE  beat'.age <= beat.age + 1 /\ beat'.age \in Nat /\ beat.age \in Nat
          BY <2>4 DEF Elapse
        <4>2. beat'.age = Older(beat.age, 1)
          BY <2>4, <4>1, <2>0 DEF Elapse, Beat
        <4>3. QED
          BY <4>1, <4>2, <2>0, OlderType
      <3>3. QED
        BY <3>1, <3>2, <2>0 DEF LookInv
    <2>5. CASE Die \/ UNCHANGED vars
      BY <2>5 DEF Die, vars, LookInv
    <2>6. QED
      BY <2>1, <2>2, <2>3, <2>4, <2>5 DEF Next
  <1>3. QED
    BY <1>1, <1>2, TypeCorrect, PTL DEF Spec

(* sentinel.py:561-562, "the missing beat is what the root-side sniffer    *)
(* reports": with packets in every unit of time and no tick that throws,   *)
(* no silence outlasts its limit, for every limit and period.              *)
THEOREM SilenceIsReportedHolds ==
    ASSUME Traffic = TRUE PROVE Spec => []SilenceIsReported
  <1>1. TypeOK /\ BlindInv /\ LookInv => SilenceIsReported
    <2> SUFFICES ASSUME TypeOK, BlindInv, LookInv, ~threw,
                        beat # Absent, Silence # Absent, Silence > Stale + Period + 2
                 PROVE  alarm
      BY DEF SilenceIsReported, BlindIsReported
    <2>1. /\ Silence \in Nat /\ beat.age \in Nat /\ looked \in 0 .. Period + 1
          /\ Silence <= beat.age + 1
      BY Numbers DEF TypeOK, Beat, BlindInv, Silence
    <2>2. beat.age > looked + Stale
      BY <2>1, Numbers
    <2>3. QED
      BY <2>2 DEF LookInv
  <1>2. QED
    BY <1>1, TypeCorrect, BlindInvariant, LookInvariant, PTL

(* A sentinel that is launched after more than the limit in which nobody   *)
(* classified egress says so, and by how much, however many launches in    *)
(* between died before their first beat (coverage_gap in deadman.py); one  *)
(* in between that beat and hung in its first tick is excepted.            *)
THEOREM GapIsSaidHolds == Spec => GapIsSaid
  <1>1. TypeOK /\ BlindInv /\ [Next]_vars =>
          [\A p \in Pid : /\ Launch(p) /\ beat # Absent /\ ~threw
                         /\ ~vain /\ blind # Absent /\ blind > Gap
             => gap' # Absent /\ blind <= gap' + 1]_vars
    <2> SUFFICES ASSUME TypeOK, BlindInv, NEW p \in Pid,
                        Launch(p), beat # Absent, ~threw, ~vain, blind # Absent, blind > Gap
                 PROVE  gap' # Absent /\ blind <= gap' + 1
      OBVIOUS
    <2>1. blind \in Nat /\ beat.age \in Nat /\ blind <= beat.age + 1
      BY Numbers DEF TypeOK, Beat, BlindInv
    <2>2. gap' = beat.age
      BY <2>1, Numbers DEF Launch, GapOf
    <2>3. QED
      BY <2>1, <2>2, Numbers
  <1>2. QED
    BY <1>1, TypeCorrect, BlindInvariant, PTL DEF Spec, GapIsSaid

-----------------------------------------------------------------------------
(* The file of names.                                                      *)

Lines  == Recs \cup {Torn, Junk}
Hellos == [ip : Ip, name : Name, age : 0 .. Window, sure : BOOLEAN]

\* The lines that the file holds, or will when the rotation is done.
Held == IF pc = "write" THEN tail ELSE file

\* Line r records the hello k.
Records(r, k) == r \in Recs /\ r.ip = k.ip /\ r.name = k.name /\ r.age = k.age

FileType ==
    /\ file \in Seq(Lines) /\ tail \in Seq(Lines) /\ known \in Seq(Hellos)
    /\ pending \in Conn \cup {None} /\ (pc = "append" => pending \in Conn)
    /\ hurt \in BOOLEAN

(* Whatever stands in the file or is on its way there was heard.           *)
HeardInv ==
    \A s \in {file, tail} : \A i \in 1 .. Len(s) :
        s[i] \in Recs /\ s[i].age <= Window => \E j \in 1 .. Len(known) : Records(s[i], known[j])

(* Hellos age in order, and those that can be lost come first.             *)
OrderInv ==
    \A i, j \in 1 .. Len(known) :
        i <= j => /\ known[j].age <= known[i].age
                  /\ known[i].sure => known[j].sure /\ ~hurt

\* Hello i has its line, as far from the end as it is itself.
Placed(i) == LET l == i + Len(Held) - Len(known)
             IN  l \in 1 .. Len(Held) /\ Records(Held[l], known[i])

(* The hellos a rotation keeps have their lines, and no line that lacks    *)
(* its end is about to swallow the next one.                               *)
PlaceInv ==
    /\ \A i \in 1 .. Len(known) : i > Len(known) - Keep /\ known[i].sure => Placed(i)
    /\ ~hurt /\ pc # "write" /\ file # <<>> => file[Len(file)] # Torn
    /\ \A i \in 1 .. Len(tail) : tail[i] # Torn

FileInv == FileType /\ HeardInv /\ OrderInv /\ PlaceInv

LEMMA SniConstants ==
    /\ Window \in Nat /\ Keep \in Nat /\ Keep > 0 /\ TailLen \in Nat /\ Keep <= TailLen
    /\ Torn # Junk /\ Torn \notin Recs /\ Junk \notin Recs
    /\ None \notin Name /\ None \notin Conn
    /\ \A r \in Recs : r.ip \in Ip /\ r.name \in Name /\ r.age \in 0 .. Window + 1
  BY SniAssumption DEF Recs

LEMMA Mapped ==
    ASSUME NEW n \in Nat, NEW Y, NEW t, t \in [1 .. n -> Y]
    PROVE  t \in Seq(Y) /\ Len(t) = n /\ DOMAIN t = 1 .. n
  <1>1. t \in Seq(Y)
    BY SeqDef
  <1>2. QED
    BY <1>1, LenProperties

\* A finite set of numbers that is not empty has a greatest one.
LEMMA Greatest ==
    ASSUME NEW n \in Nat, NEW T \in SUBSET (0 .. n), T # {}
    PROVE  Max(T) \in T /\ \A x \in T : x <= Max(T)
  <1>1. PICK R : R = OpToRel(<, Nat)
    OBVIOUS
  <1>2. PICK U : U = {n - x : x \in T}
    OBVIOUS
  <1>3. U \subseteq Nat /\ U # {}
    <2>1. \A x \in T : n - x \in Nat
      OBVIOUS
    <2>2. QED
      BY <1>2, <2>1
  <1>4. PICK m \in U : \A k \in U : ~ (<<k, m>> \in R)
    <2>1. IsWellFoundedOn(R, Nat)
      BY <1>1, NatLessThanWellFounded
    <2>2. QED
      BY <1>3, <2>1, WFMin
  <1>5. ASSUME NEW k \in U
        PROVE  m <= k
    <2>1. k \in Nat /\ m \in Nat /\ ~ (<<k, m>> \in R)
      BY <1>3, <1>4
    <2>2. k < m => <<k, m>> \in R
      BY <1>1, <2>1 DEF OpToRel
    <2>3. QED
      BY <2>1, <2>2
  <1>6. n - m \in T /\ \A x \in T : x <= n - m
    <2>1. PICK y \in T : m = n - y
      BY <1>2
    <2>2. \A x \in T : n - x \in U /\ m <= n - x
      BY <1>2, <1>5
    <2>3. QED
      BY <2>1, <2>2
  <1>7. \E x \in T : \A y \in T : x >= y
    BY <1>6
  <1>8. Max(T) \in T /\ \A y \in T : Max(T) >= y
    BY <1>7 DEF Max
  <1>9. QED
    BY <1>8

\* The piece of a sequence after place m, up to place n.
LEMMA Piece ==
    ASSUME NEW X, NEW s, NEW n \in Nat, NEW m \in 0 .. n, \A i \in m + 1 .. n : s[i] \in X,
           NEW t, t = SubSeq(s, m + 1, n)
    PROVE  /\ t \in Seq(X) /\ Len(t) = n - m
           /\ \A i \in 1 .. n - m : t[i] = s[i + m]
  <1>1. /\ t \in Seq(X) /\ Len(t) = (IF m + 1 <= n THEN n - (m + 1) + 1 ELSE 0)
        /\ \A i \in 1 .. n - (m + 1) + 1 : t[i] = s[m + 1 + i - 1]
    BY SubSeqProperties
  <1>2. Len(t) = n - m
    BY <1>1
  <1>3. ASSUME NEW i \in 1 .. n - m
        PROVE  t[i] = s[i + m]
    <2>1. i \in 1 .. n - (m + 1) + 1 /\ m + 1 + i - 1 = i + m
      OBVIOUS
    <2>2. QED
      BY <1>1, <2>1
  <1>4. QED
    BY <1>1, <1>2, <1>3

LEMMA NewestFacts ==
    ASSUME NEW X, NEW s \in Seq(X), NEW n \in Nat, NEW t, t = Newest(s, n)
    PROVE  /\ t \in Seq(X) /\ Len(t) = (IF Len(s) > n THEN n ELSE Len(s))
           /\ \A i \in 1 .. Len(t) : i + Len(s) - Len(t) \in 1 .. Len(s)
                                      /\ t[i] = s[i + Len(s) - Len(t)]
  <1>1. Len(s) \in Nat /\ \A i \in 1 .. Len(s) : s[i] \in X
    BY LenProperties, ElementOfSeq
  <1>2. CASE Len(s) > n
    <2>1. t = SubSeq(s, Len(s) - n + 1, Len(s))
      BY <1>2 DEF Newest
    <2>2. PICK m : m = Len(s) - n
      OBVIOUS
    <2>3. m \in 0 .. Len(s) /\ Len(s) - n + 1 = m + 1 /\ Len(s) - m = n
      BY <1>1, <1>2, <2>2
    <2>4. t = SubSeq(s, m + 1, Len(s))
      BY <2>1, <2>3
    <2>5. /\ t \in Seq(X) /\ Len(t) = Len(s) - m
          /\ \A i \in 1 .. Len(s) - m : t[i] = s[i + m]
      <3>1. \A i \in m + 1 .. Len(s) : s[i] \in X
        BY <1>1, <2>3
      <3>2. QED
        BY <1>1, <2>3, <2>4, <3>1, Piece
    <2>6. ASSUME NEW i \in 1 .. Len(t)
          PROVE  i + Len(s) - Len(t) \in 1 .. Len(s) /\ t[i] = s[i + Len(s) - Len(t)]
      <3>1. i \in 1 .. Len(s) - m /\ i + Len(s) - Len(t) = i + m
        BY <1>1, <2>3, <2>5
      <3>2. QED
        <4>1. i + m = i + Len(s) - Len(t)
          BY <3>1
        <4>2. t[i] = s[i + m] /\ i + m \in 1 .. Len(s)
          BY <1>1, <2>3, <2>5, <3>1
        <4>3. QED
          BY <4>1, <4>2
    <2>7. QED
      BY <1>2, <2>3, <2>5, <2>6
  <1>3. CASE ~(Len(s) > n)
    BY <1>1, <1>3 DEF Newest
  <1>4. QED
    BY <1>2, <1>3

LEMMA LineFacts ==
    /\ \A s \in Seq(Lines) : /\ Len(s) \in Nat /\ DOMAIN s = 1 .. Len(s)
                             /\ \A i \in 1 .. Len(s) : s[i] \in Lines
    /\ \A s \in Seq(Hellos) : /\ Len(s) \in Nat /\ DOMAIN s = 1 .. Len(s)
                              /\ \A i \in 1 .. Len(s) : s[i] \in Hellos
  BY LenProperties, ElementOfSeq

\* The line that is recorded, or the one it runs into.
Grown(t, s, c) ==
    /\ t \in Seq(Lines) /\ Len(t) > 0 /\ t[Len(t)] # Torn
    /\ \A i \in 1 .. Len(t) : \/ t[i] = Junk \/ t[i] = Rec(c)
                              \/ i \in 1 .. Len(s) /\ t[i] = s[i]
    /\ s = <<>> \/ s[Len(s)] # Torn => t = Append(s, Rec(c))

LEMMA RecordFacts ==
    ASSUME NEW s \in Seq(Lines), NEW c \in Conn, NEW t, t = WithRecord(s, c)
    PROVE  Grown(t, s, c)
  <1>1. Rec(c) \in Recs
    BY SniConstants DEF Rec, Recs, Ip, Name
  <1>2. Rec(c) \in Lines /\ Junk \in Lines /\ Rec(c) # Torn /\ Junk # Torn
    BY <1>1, SniConstants DEF Lines
  <1>3. CASE s # <<>> /\ s[Len(s)] = Torn
    <2>1. Len(s) \in Nat /\ Len(s) # 0 /\ \A i \in 1 .. Len(s) : s[i] \in Lines
      BY <1>3, LineFacts, EmptySeq
    <2>2. PICK f : f = SubSeq(s, 1, Len(s) - 1)
      OBVIOUS
    <2>3. f \in Seq(Lines) /\ Len(f) = Len(s) - 1 /\ \A i \in 1 .. Len(f) : f[i] = s[i]
      <3>1. PICK n : n = Len(s) - 1
        OBVIOUS
      <3>2. n \in Nat /\ 0 \in 0 .. n /\ f = SubSeq(s, 0 + 1, n) /\ \A i \in 0 + 1 .. n : s[i] \in Lines
        BY <2>1, <2>2, <3>1
      <3>3. f \in Seq(Lines) /\ Len(f) = n - 0 /\ \A i \in 1 .. n - 0 : f[i] = s[i + 0]
        BY <3>2, Piece
      <3>4. QED
        BY <3>1, <3>2, <3>3
    <2>4. t = Append(f, Junk)
      BY <1>3, <2>2 DEF WithRecord, Last, Front
    <2>5. /\ t \in Seq(Lines) /\ Len(t) = Len(f) + 1 /\ t[Len(f) + 1] = Junk
          /\ \A i \in 1 .. Len(f) : t[i] = f[i]
      BY <1>2, <2>3, <2>4, AppendProperties
    <2>6. ASSUME NEW i \in 1 .. Len(t), t[i] # Junk
          PROVE  i \in 1 .. Len(s) /\ t[i] = s[i]
      <3>1. i # Len(f) + 1
        BY <2>5, <2>6
      <3>2. i \in 1 .. Len(f)
        BY <2>1, <2>3, <2>5, <3>1
      <3>3. QED
        BY <2>1, <2>3, <2>5, <3>2
    <2>7. QED
      BY <1>2, <1>3, <2>1, <2>3, <2>5, <2>6 DEF Grown
  <1>4. CASE s = <<>> \/ s[Len(s)] # Torn
    <2>1. t = Append(s, Rec(c))
      BY <1>4 DEF WithRecord, Last
    <2>2. Len(s) \in Nat
      BY LineFacts
    <2>3. /\ t \in Seq(Lines) /\ Len(t) = Len(s) + 1 /\ t[Len(s) + 1] = Rec(c)
          /\ \A i \in 1 .. Len(s) : t[i] = s[i]
      BY <1>2, <2>1, AppendProperties
    <2>4. ASSUME NEW i \in 1 .. Len(t), t[i] # Rec(c)
          PROVE  i \in 1 .. Len(s) /\ t[i] = s[i]
      <3>1. i # Len(s) + 1
        BY <2>3, <2>4
      <3>2. i \in 1 .. Len(s)
        BY <2>2, <2>3, <3>1
      <3>3. QED
        BY <2>3, <3>2
    <2>5. QED
      BY <1>2, <2>1, <2>2, <2>3, <2>4 DEF Grown
  <1>5. QED
    BY <1>3, <1>4

\* Lines grow older where they stand.
LineOlder(o, r) ==
    /\ o \in Lines /\ (o = Torn => r = Torn) /\ (o \in Recs <=> r \in Recs)
    /\ r \in Recs => /\ o.ip = r.ip /\ o.name = r.name /\ (o.age <= Window <=> r.age < Window)
                     /\ r.age <= Window => o.age = r.age + 1

OneOlder(t, s) ==
    t \in Seq(Lines) /\ Len(t) = Len(s) /\ \A i \in 1 .. Len(s) : LineOlder(t[i], s[i])

LEMMA AgedFacts ==
    ASSUME NEW s \in Seq(Lines), NEW t, t = Aged(s)
    PROVE  OneOlder(t, s)
  <1>1. Len(s) \in Nat /\ DOMAIN s = 1 .. Len(s) /\ \A i \in 1 .. Len(s) : s[i] \in Lines
    BY LineFacts
  <1>2. ASSUME NEW r \in Recs, r.age <= Window, NEW o, o = OlderRecord(r)
        PROVE  o \in Recs /\ o.ip = r.ip /\ o.name = r.name /\ o.age = r.age + 1
    BY <1>2, SniConstants DEF OlderRecord, Recs
  <1>3. ASSUME NEW i \in 1 .. Len(s)
        PROVE  LineOlder(t[i], s[i])
    <2>1. t[i] = IF s[i] \in Recs /\ s[i].age <= Window THEN OlderRecord(s[i]) ELSE s[i]
      BY <1>1 DEF Aged
    <2>2. s[i] \in Lines
      BY <1>1
    <2>3. CASE s[i] \in Recs /\ s[i].age <= Window
      <3>1. /\ t[i] \in Recs /\ t[i].ip = s[i].ip /\ t[i].name = s[i].name
            /\ t[i].age = s[i].age + 1
        BY <1>2, <2>1, <2>3
      <3>2. s[i].age \in Nat /\ Window \in Nat
        BY <2>3, SniConstants
      <3>3. QED
        BY <2>3, <3>1, <3>2, SniConstants DEF Lines, LineOlder
    <2>4. CASE ~(s[i] \in Recs /\ s[i].age <= Window)
      <3>1. t[i] = s[i]
        BY <2>1, <2>4
      <3>2. s[i] \in Recs => s[i].age \in Nat /\ Window \in Nat
        BY SniConstants
      <3>3. QED
        BY <2>2, <2>4, <3>1, <3>2 DEF LineOlder
    <2>5. QED
      BY <2>3, <2>4
  <1>4. t \in [1 .. Len(s) -> Lines]
    BY <1>1, <1>3 DEF Aged, LineOlder
  <1>5. t \in Seq(Lines) /\ Len(t) = Len(s)
    BY <1>1, <1>4, Mapped
  <1>6. QED
    BY <1>3, <1>5 DEF OneOlder

\* Of hellos that are in order the oldest leave, and the others are a unit older.
LEMMA KnownAged ==
    ASSUME known \in Seq(Hellos), OrderInv, AgeRecords
    PROVE  /\ known' \in Seq(Hellos)
           /\ \E k \in 0 .. Len(known) :
                /\ Len(known') = Len(known) - k
                /\ \A i \in 1 .. Len(known) : known[i].age < Window <=> i > k
                /\ \A i \in 1 .. Len(known') :
                     /\ i + k \in 1 .. Len(known) /\ known'[i].age = known[i + k].age + 1
                     /\ known'[i].ip = known[i + k].ip /\ known'[i].name = known[i + k].name
                     /\ known'[i].sure = known[i + k].sure
  <1>1. /\ Len(known) \in Nat /\ DOMAIN known = 1 .. Len(known)
        /\ \A i \in 1 .. Len(known) : known[i] \in Hellos /\ known[i].age \in 0 .. Window
    BY LineFacts DEF Hellos
  <1>2. PICK T : T = {0} \cup {i \in DOMAIN known : known[i].age = Window}
    OBVIOUS
  <1>3. PICK k : k = Max(T)
    OBVIOUS
  <1>4. k \in 0 .. Len(known) /\ k \in T /\ \A x \in T : x <= k
    <2>1. T \in SUBSET (0 .. Len(known)) /\ T # {}
      BY <1>1, <1>2
    <2>2. QED
      BY <1>1, <1>3, <2>1, Greatest
  <1>5. ASSUME NEW i \in 1 .. Len(known)
        PROVE  known[i].age < Window <=> i > k
    <2>1. CASE i > k
      <3>1. i \notin T
        BY <1>1, <1>4, <2>1
      <3>2. QED
        BY <1>1, <1>2, <2>1, <3>1, SniConstants
    <2>2. CASE ~(i > k)
      <3>1. k \in 1 .. Len(known) /\ i <= k
        BY <1>1, <1>4, <2>2
      <3>2. known[k].age = Window
        BY <1>1, <1>2, <1>4, <3>1
      <3>3. known[k].age <= known[i].age
        BY <3>1 DEF OrderInv
      <3>4. QED
        BY <1>1, <2>2, <3>2, <3>3, SniConstants
    <2>3. QED
      BY <2>1, <2>2
  <1>6. PICK o : o = [i \in DOMAIN known |-> OlderRecord(known[i])]
    OBVIOUS
  <1>7. known' = SubSeq(o, k + 1, Len(known))
    BY <1>2, <1>3, <1>6 DEF AgeRecords, Leaving
  <1>8. ASSUME NEW i \in 1 .. Len(known), i > k
        PROVE  /\ o[i] \in Hellos /\ o[i].age = known[i].age + 1
               /\ o[i].ip = known[i].ip /\ o[i].name = known[i].name /\ o[i].sure = known[i].sure
    <2>1. o[i] = [known[i] EXCEPT !.age = @ + 1]
      BY <1>1, <1>6 DEF OlderRecord
    <2>2. known[i] \in Hellos /\ known[i].age + 1 \in 0 .. Window
      BY <1>1, <1>5, <1>8, SniConstants
    <2>3. QED
      BY <2>1, <2>2 DEF Hellos
  <1>9. /\ known' \in Seq(Hellos) /\ Len(known') = Len(known) - k
        /\ \A i \in 1 .. Len(known) - k : known'[i] = o[i + k]
    <2>1. \A i \in k + 1 .. Len(known) : o[i] \in Hellos
      BY <1>1, <1>4, <1>8
    <2>2. ASSUME NEW q, q = SubSeq(o, k + 1, Len(known))
          PROVE  /\ q \in Seq(Hellos) /\ Len(q) = Len(known) - k
                 /\ \A i \in 1 .. Len(known) - k : q[i] = o[i + k]
      <3>1. PICK n : n = Len(known)
        OBVIOUS
      <3>2. n \in Nat /\ k \in 0 .. n /\ q = SubSeq(o, k + 1, n) /\ \A i \in k + 1 .. n : o[i] \in Hellos
        BY <1>1, <1>4, <2>1, <2>2, <3>1
      <3>3. q \in Seq(Hellos) /\ Len(q) = n - k /\ \A i \in 1 .. n - k : q[i] = o[i + k]
        BY <3>2, Piece
      <3>4. QED
        BY <3>1, <3>3
    <2>3. QED
      BY <1>7, <2>2
  <1>10. ASSUME NEW i \in 1 .. Len(known')
         PROVE  /\ i + k \in 1 .. Len(known) /\ known'[i].age = known[i + k].age + 1
                /\ known'[i].ip = known[i + k].ip /\ known'[i].name = known[i + k].name
                /\ known'[i].sure = known[i + k].sure
    <2>1. i \in 1 .. Len(known) - k /\ i + k \in 1 .. Len(known) /\ i + k > k
      BY <1>1, <1>4, <1>9
    <2>2. QED
      BY <1>8, <1>9, <2>1
  <1>11. QED
    BY <1>4, <1>5, <1>9, <1>10

-----------------------------------------------------------------------------
(* The steps of run_sniffer and of those around it.                        *)

LEMMA FileInit == SniInit => FileInv
  <1> SUFFICES ASSUME SniInit PROVE FileInv
    OBVIOUS
  <1>1. file = <<>> /\ tail = <<>> /\ known = <<>> /\ pc = "idle" /\ pending = None /\ hurt = FALSE
    BY DEF SniInit
  <1>2. Len(file) = 0 /\ Len(tail) = 0 /\ Len(known) = 0
    BY <1>1
  <1>3. FileType
    <2>1. <<>> \in Seq(Lines) /\ <<>> \in Seq(Hellos)
      BY EmptySeq
    <2>2. QED
      BY <1>1, <2>1 DEF FileType
  <1>4. HeardInv /\ OrderInv /\ PlaceInv
    BY <1>1, <1>2 DEF HeardInv, OrderInv, PlaceInv
  <1>5. QED
    BY <1>3, <1>4 DEF FileInv

LEMMA FileKept ==
    ASSUME FileInv, UNCHANGED <<file, tail, known, hurt>>,
           pending' \in Conn \cup {None}, pc' = "append" => pending' \in Conn,
           pc' = "write" <=> pc = "write"
    PROVE  FileInv'
  <1>1. /\ file' = file /\ tail' = tail /\ known' = known /\ hurt' = hurt /\ Held' = Held
    BY DEF Held
  <1>2. FileType'
    BY <1>1 DEF FileInv, FileType
  <1>3. HeardInv'
    BY <1>1 DEF FileInv, HeardInv
  <1>4. OrderInv'
    BY <1>1 DEF FileInv, OrderInv
  <1>5. PlaceInv'
    BY <1>1 DEF FileInv, PlaceInv, Placed
  <1>6. QED
    BY <1>2, <1>3, <1>4, <1>5 DEF FileInv

\* A hello is recorded: a line and what is known grow together.
LEMMA FileRecorded ==
    ASSUME FileInv, pc # "write", pc' # "write", NEW c \in Conn, Recorded(c),
           tail' = tail, pending' \in Conn \cup {None}, pc' # "append"
    PROVE  FileInv'
  <1>1. FileType /\ HeardInv /\ OrderInv /\ PlaceInv
    BY DEF FileInv
  <1>2. PICK k : k = Known(Rec(c), ~hurt)
    OBVIOUS
  <1>3. /\ k \in Hellos /\ k.age = 0 /\ k.sure = ~hurt
        /\ Rec(c) \in Recs /\ Rec(c).age = 0
        /\ k.ip = Rec(c).ip /\ k.name = Rec(c).name
    BY <1>1, <1>2, SniConstants DEF Known, Rec, Recs, Ip, Name, Hellos, FileType
  <1>4. known' = Append(known, k) /\ hurt' = FALSE /\ file' = WithRecord(file, c)
    BY <1>2 DEF Recorded
  <1>5. /\ known \in Seq(Hellos) /\ Len(known) \in Nat /\ Len(file) \in Nat
        /\ file \in Seq(Lines) /\ tail \in Seq(Lines)
    BY <1>1, LineFacts DEF FileType
  <1>6. /\ known' \in Seq(Hellos) /\ Len(known') = Len(known) + 1 /\ known'[Len(known) + 1] = k
        /\ \A i \in 1 .. Len(known) : known'[i] = known[i]
    BY <1>3, <1>4, <1>5, AppendProperties
  <1>7. /\ file' \in Seq(Lines) /\ Len(file') > 0 /\ file'[Len(file')] # Torn
        /\ \A i \in 1 .. Len(file') : \/ file'[i] = Junk \/ file'[i] = Rec(c)
                                      \/ i \in 1 .. Len(file) /\ file'[i] = file[i]
        /\ file = <<>> \/ file[Len(file)] # Torn => file' = Append(file, Rec(c))
    <2>1. Grown(WithRecord(file, c), file, c)
      BY <1>5, RecordFacts
    <2>2. QED
      BY <1>4, <2>1 DEF Grown
  <1>8. FileType'
    BY <1>1, <1>4, <1>6, <1>7 DEF FileType
  <1>9. HeardInv'
    <2>1. ASSUME NEW r \in Recs, r.age <= Window,
                 \E j \in 1 .. Len(known) : Records(r, known[j])
          PROVE  \E j \in 1 .. Len(known') : Records(r, known'[j])
      <3>1. PICK j \in 1 .. Len(known) : Records(r, known[j])
        BY <2>1
      <3>2. j \in 1 .. Len(known') /\ known'[j] = known[j]
        BY <1>5, <1>6
      <3>3. QED
        BY <3>1, <3>2
    <2>2. ASSUME NEW i \in 1 .. Len(file'), file'[i] \in Recs, file'[i].age <= Window
          PROVE  \E j \in 1 .. Len(known') : Records(file'[i], known'[j])
      <3>1. CASE file'[i] = Rec(c)
        <4>1. Len(known) + 1 \in 1 .. Len(known') /\ Records(file'[i], known'[Len(known) + 1])
          BY <1>3, <1>5, <1>6, <3>1 DEF Records
        <4>2. QED
          BY <4>1
      <3>2. CASE file'[i] # Rec(c)
        <4>1. i \in 1 .. Len(file) /\ file'[i] = file[i]
          BY <1>7, <2>2, <3>2, SniConstants
        <4>2. \E j \in 1 .. Len(known) : Records(file'[i], known[j])
          BY <1>1, <2>2, <4>1 DEF HeardInv
        <4>3. QED
          BY <2>1, <2>2, <4>2
      <3>3. QED
        BY <3>1, <3>2
    <2>3. ASSUME NEW i \in 1 .. Len(tail'), tail'[i] \in Recs, tail'[i].age <= Window
          PROVE  \E j \in 1 .. Len(known') : Records(tail'[i], known'[j])
      <3>1. \E j \in 1 .. Len(known) : Records(tail'[i], known[j])
        BY <1>1, <2>3 DEF HeardInv
      <3>2. QED
        BY <2>1, <2>3, <3>1
    <2>4. QED
      BY <2>2, <2>3 DEF HeardInv
  <1>10. OrderInv'
    <2> SUFFICES ASSUME NEW i \in 1 .. Len(known'), NEW j \in 1 .. Len(known'), i <= j
                 PROVE  /\ known'[j].age <= known'[i].age
                        /\ known'[i].sure => known'[j].sure /\ ~hurt'
      BY DEF OrderInv
    <2>1. CASE j \in 1 .. Len(known)
      <3>1. i \in 1 .. Len(known)
        BY <1>5, <2>1
      <3>2. QED
        BY <1>1, <1>4, <1>6, <2>1, <3>1 DEF OrderInv
    <2>2. CASE j = Len(known) + 1
      <3>1. CASE i = Len(known) + 1
        BY <1>3, <1>4, <1>6, <2>2, <3>1
      <3>2. CASE i \in 1 .. Len(known)
        <4>1. known'[i] = known[i] /\ known'[j] = k
          BY <1>6, <2>2, <3>2
        <4>2. known[i].age \in Nat
          <5>1. known[i] \in Hellos
            BY <1>5, <3>2, LineFacts
          <5>2. known[i].age \in 0 .. Window /\ Window \in Nat
            BY <5>1, SniConstants DEF Hellos
          <5>3. QED
            BY <5>2
        <4>3. known[i].sure => ~hurt
          <5>1. i <= i
            BY <3>2
          <5>2. QED
            BY <1>1, <3>2, <5>1 DEF OrderInv
        <4>4. known'[j].age <= known'[i].age
          BY <1>3, <4>1, <4>2
        <4>5. QED
          BY <1>3, <1>4, <4>1, <4>3, <4>4
      <3>3. QED
        BY <1>5, <1>6, <3>1, <3>2
    <2>3. QED
      BY <1>5, <1>6, <2>1, <2>2
  <1>11. PlaceInv'
    <2>1. ASSUME NEW i \in 1 .. Len(known'), i > Len(known') - Keep, known'[i].sure
          PROVE  Placed(i)'
      <3>1. ~hurt
        <4>1. CASE i = Len(known) + 1
          BY <1>1, <1>3, <1>6, <2>1, <4>1 DEF FileType
        <4>2. CASE i \in 1 .. Len(known)
          BY <1>1, <1>6, <2>1, <4>2 DEF OrderInv
        <4>3. QED
          BY <1>5, <1>6, <4>1, <4>2
      <3>2. file' = Append(file, Rec(c))
        BY <1>1, <1>7, <3>1 DEF PlaceInv
      <3>3. /\ Len(file') = Len(file) + 1 /\ file'[Len(file) + 1] = Rec(c)
            /\ \A l \in 1 .. Len(file) : file'[l] = file[l]
        BY <1>3, <1>5, <3>2, AppendProperties DEF Lines
      <3>4. Held = file /\ Held' = file'
        BY DEF Held
      <3>5. CASE i = Len(known) + 1
        <4>1. i + Len(file') - Len(known') = Len(file) + 1
          BY <1>5, <1>6, <3>3, <3>5
        <4>2. Len(file) + 1 \in 1 .. Len(file') /\ Records(file'[Len(file) + 1], known'[i])
          BY <1>3, <1>5, <1>6, <3>3, <3>5 DEF Records
        <4>3. QED
          BY <3>4, <4>1, <4>2 DEF Placed
      <3>6. CASE i \in 1 .. Len(known)
        <4>1. i > Len(known) - Keep /\ known[i].sure /\ known'[i] = known[i]
          BY <1>5, <1>6, <2>1, <3>6, SniConstants
        <4>2. Placed(i)
          BY <1>1, <3>6, <4>1 DEF PlaceInv
        <4>3. PICK l : l = i + Len(file) - Len(known)
          OBVIOUS
        <4>4. l \in 1 .. Len(file) /\ Records(file[l], known[i])
          BY <3>4, <4>2, <4>3 DEF Placed
        <4>5. l = i + Len(file') - Len(known') /\ l \in 1 .. Len(file')
          BY <1>5, <1>6, <3>3, <4>3, <4>4
        <4>6. Records(file'[l], known'[i])
          BY <3>3, <4>1, <4>4
        <4>7. QED
          BY <3>4, <4>5, <4>6 DEF Placed
      <3>7. QED
        BY <1>5, <1>6, <3>5, <3>6
    <2>2. QED
      BY <1>1, <1>7, <2>1 DEF PlaceInv
  <1>12. QED
    BY <1>8, <1>9, <1>10, <1>11 DEF FileInv

\* A rotation keeps the newest lines, each with an end.
LEMMA FileRotated ==
    ASSUME FileInv, pc # "write", pc' = "write", pending' \in Conn \cup {None},
           file' = <<>>, tail' = TailKept, known' = known, hurt' = hurt
    PROVE  FileInv'
  <1>1. FileType /\ HeardInv /\ OrderInv /\ PlaceInv
    BY DEF FileInv
  <1>2. PICK t : t = Newest(file, Keep)
    OBVIOUS
  <1>3. /\ file \in Seq(Lines) /\ Len(file) \in Nat /\ known \in Seq(Hellos) /\ Len(known) \in Nat
        /\ \A i \in 1 .. Len(file) : file[i] \in Lines
    BY <1>1, LineFacts DEF FileType
  <1>4. /\ t \in Seq(Lines) /\ Len(t) = (IF Len(file) > Keep THEN Keep ELSE Len(file))
        /\ \A i \in 1 .. Len(t) : i + Len(file) - Len(t) \in 1 .. Len(file)
                                   /\ t[i] = file[i + Len(file) - Len(t)]
    <2>1. PICK s, n : s = file /\ n = Keep
      OBVIOUS
    <2>2. s \in Seq(Lines) /\ n \in Nat /\ t = Newest(s, n)
      BY <1>2, <1>3, <2>1, SniConstants
    <2>3. /\ t \in Seq(Lines) /\ Len(t) = (IF Len(s) > n THEN n ELSE Len(s))
          /\ \A i \in 1 .. Len(t) : i + Len(s) - Len(t) \in 1 .. Len(s)
                                     /\ t[i] = s[i + Len(s) - Len(t)]
      BY <2>2, NewestFacts
    <2>4. QED
      BY <2>1, <2>3
  <1>5. /\ tail' = [i \in DOMAIN t |-> IF t[i] = Torn THEN Junk ELSE t[i]]
        /\ Len(t) \in Nat /\ DOMAIN t = 1 .. Len(t) /\ \A i \in 1 .. Len(t) : t[i] \in Lines
    BY <1>2, <1>4, LineFacts DEF TailKept
  <1>6. tail' \in Seq(Lines) /\ Len(tail') = Len(t)
    <2>1. PICK n : n = Len(t)
      OBVIOUS
    <2>2. n \in Nat /\ tail' \in [1 .. n -> Lines]
      BY <1>5, <2>1 DEF Lines
    <2>3. PICK q : q = tail'
      OBVIOUS
    <2>4. q \in Seq(Lines) /\ Len(q) = n
      BY <2>2, <2>3, Mapped
    <2>5. QED
      BY <2>1, <2>3, <2>4
  <1>7. \A i \in 1 .. Len(t) : /\ tail'[i] # Torn
                               /\ tail'[i] \in Recs => tail'[i] = t[i]
                               /\ t[i] \in Recs => tail'[i] = t[i]
    BY <1>5, SniConstants
  <1>8. Len(file') = 0 /\ file' \in Seq(Lines)
    BY EmptySeq
  <1>9. FileType'
    BY <1>1, <1>6, <1>8 DEF FileType
  <1>10. HeardInv'
    <2>1. ASSUME NEW i \in 1 .. Len(tail'), tail'[i] \in Recs, tail'[i].age <= Window
          PROVE  \E j \in 1 .. Len(known) : Records(tail'[i], known[j])
      <3>1. PICK l : l = i + Len(file) - Len(t)
        OBVIOUS
      <3>2. l \in 1 .. Len(file) /\ tail'[i] = file[l]
        BY <1>4, <1>6, <1>7, <2>1, <3>1
      <3>3. QED
        BY <1>1, <2>1, <3>2 DEF HeardInv
    <2>2. QED
      BY <1>8, <2>1 DEF HeardInv
  <1>11. OrderInv'
    BY <1>1 DEF OrderInv
  <1>12. PlaceInv'
    <2>1. ASSUME NEW i \in 1 .. Len(known), i > Len(known) - Keep, known[i].sure
          PROVE  Placed(i)'
      <3>1. Held = file /\ Held' = tail'
        BY DEF Held
      <3>2. PICK l, m : l = i + Len(file) - Len(known) /\ m = i + Len(t) - Len(known)
        OBVIOUS
      <3>3. l \in 1 .. Len(file) /\ Records(file[l], known[i])
        BY <1>1, <2>1, <3>1, <3>2 DEF PlaceInv, Placed
      <3>4. m \in 1 .. Len(t) /\ l = m + Len(file) - Len(t)
        <4>1. /\ i \in Int /\ i <= Len(known) /\ i > Len(known) - Keep /\ Keep \in Nat
              /\ 1 <= l /\ l <= Len(file)
          BY <1>3, <2>1, <3>3, SniConstants
        <4>2. PICK a \in Nat, b \in Nat, w \in Nat :
                a = Len(file) /\ b = Len(t) /\ w = Len(known)
          BY <1>3, <1>5
        <4>3. b = (IF a > Keep THEN Keep ELSE a) /\ l = i + a - w /\ m = i + b - w
          BY <1>4, <3>2, <4>2
        <4>4. i <= w /\ i > w - Keep /\ 1 <= l /\ l <= a
          BY <4>1, <4>2
        <4>5. m \in 1 .. b /\ l = m + a - b
          BY <4>1, <4>3, <4>4
        <4>6. QED
          BY <4>2, <4>5
      <3>5. tail'[m] = file[l]
        <4>1. t[m] = file[l]
          BY <1>4, <3>4
        <4>2. file[l] \in Recs
          BY <3>3 DEF Records
        <4>3. QED
          BY <1>7, <3>4, <4>1, <4>2
      <3>6. QED
        BY <1>6, <3>1, <3>2, <3>3, <3>4, <3>5 DEF Placed
    <2>2. QED
      BY <1>6, <1>7, <2>1 DEF PlaceInv
  <1>13. QED
    BY <1>9, <1>10, <1>11, <1>12 DEF FileInv

\* Some of the kept lines are in the file, and part of another one at most.
LEMMA FileBlock ==
    ASSUME FileInv, NEW n \in Nat, NEW cut \in BOOLEAN, WriteBlock(n, cut)
    PROVE  FileInv'
  <1>1. FileType /\ HeardInv /\ OrderInv /\ PlaceInv
    BY DEF FileInv
  <1>2. /\ pc = "write" /\ pc' = "write" /\ n < Len(tail) /\ tail' = tail /\ known' = known
        /\ hurt' = hurt /\ pending' = pending
        /\ file' = SubSeq(tail, 1, n) \o (IF cut THEN <<Torn>> ELSE <<>>)
    BY DEF WriteBlock
  <1>3. tail \in Seq(Lines) /\ Len(tail) \in Nat /\ \A i \in 1 .. Len(tail) : tail[i] \in Lines
    BY <1>1, LineFacts DEF FileType
  <1>4. PICK s : s = SubSeq(tail, 1, n)
    OBVIOUS
  <1>5. s \in Seq(Lines) /\ Len(s) = n /\ \A i \in 1 .. n : s[i] = tail[i]
    <2>1. 0 \in 0 .. n /\ s = SubSeq(tail, 0 + 1, n) /\ \A i \in 0 + 1 .. n : tail[i] \in Lines
      BY <1>2, <1>3, <1>4
    <2>2. s \in Seq(Lines) /\ Len(s) = n - 0 /\ \A i \in 1 .. n - 0 : s[i] = tail[i + 0]
      BY <2>1, Piece
    <2>3. QED
      BY <2>2
  <1>6. PICK e : e = (IF cut THEN <<Torn>> ELSE <<>>)
    OBVIOUS
  <1>7. e \in Seq(Lines) /\ Len(e) \in Nat /\ \A i \in 1 .. Len(e) : e[i] = Torn
    <2>1. CASE cut
      <3>1. e = <<Torn>> /\ Torn \in Lines
        BY <1>6, <2>1 DEF Lines
      <3>2. QED
        BY <3>1
    <2>2. CASE ~cut
      BY <1>6, <2>2, EmptySeq
    <2>3. QED
      BY <2>1, <2>2
  <1>8. /\ file' \in Seq(Lines) /\ Len(file') = n + Len(e)
        /\ \A i \in 1 .. Len(file') : file'[i] = (IF i <= n THEN s[i] ELSE e[i - n])
    <2>1. file' = s \o e
      BY <1>2, <1>4, <1>6
    <2>2. QED
      BY <1>5, <1>7, <2>1, ConcatProperties
  <1>9. FileType'
    BY <1>1, <1>2, <1>8 DEF FileType
  <1>10. HeardInv'
    <2>1. ASSUME NEW i \in 1 .. Len(file'), file'[i] \in Recs, file'[i].age <= Window
          PROVE  \E j \in 1 .. Len(known) : Records(file'[i], known[j])
      <3>1. CASE i <= n
        <4>1. i \in 1 .. Len(tail) /\ file'[i] = tail[i]
          BY <1>2, <1>3, <1>5, <1>7, <1>8, <3>1
        <4>2. QED
          BY <1>1, <2>1, <4>1 DEF HeardInv
      <3>2. CASE i > n
        <4>1. i - n \in 1 .. Len(e) /\ file'[i] = e[i - n]
          BY <1>7, <1>8, <3>2
        <4>2. QED
          BY <1>7, <2>1, <4>1, SniConstants
      <3>3. QED
        BY <1>7, <1>8, <3>1, <3>2
    <2>2. QED
      BY <1>1, <1>2, <2>1 DEF HeardInv
  <1>11. OrderInv'
    BY <1>1, <1>2 DEF OrderInv
  <1>12. PlaceInv'
    <2>1. Held' = Held
      BY <1>2 DEF Held
    <2>2. QED
      BY <1>1, <1>2, <2>1 DEF PlaceInv, Placed
  <1>13. QED
    BY <1>9, <1>10, <1>11, <1>12 DEF FileInv

LEMMA FileWritten ==
    ASSUME FileInv, WriteRest
    PROVE  FileInv'
  <1>1. FileType /\ HeardInv /\ OrderInv /\ PlaceInv
    BY DEF FileInv
  <1>2. /\ pc = "write" /\ pc' # "write" /\ (pc' = "append" => pending' # None)
        /\ file' = tail /\ tail' = <<>> /\ known' = known /\ hurt' = hurt /\ pending' = pending
    BY DEF WriteRest
  <1>3. tail \in Seq(Lines) /\ Len(tail) \in Nat /\ <<>> \in Seq(Lines) /\ Len(tail') = 0
    BY <1>1, <1>2, LineFacts, EmptySeq DEF FileType
  <1>4. FileType'
    BY <1>1, <1>2, <1>3 DEF FileType
  <1>5. HeardInv'
    BY <1>1, <1>2, <1>3 DEF HeardInv
  <1>6. OrderInv'
    BY <1>1, <1>2 DEF OrderInv
  <1>7. PlaceInv'
    <2>1. Held = tail /\ Held' = tail
      BY <1>2 DEF Held
    <2>2. \A i \in 1 .. Len(known) : i > Len(known) - Keep /\ known[i].sure => Placed(i)'
      BY <1>1, <1>2, <2>1 DEF PlaceInv, Placed
    <2>3. tail # <<>> => Len(tail) \in 1 .. Len(tail)
      BY <1>3, EmptySeq
    <2>4. tail # <<>> => tail[Len(tail)] # Torn
      BY <1>1, <2>3 DEF PlaceInv
    <2>5. QED
      BY <1>2, <1>3, <2>2, <2>4 DEF PlaceInv
  <1>8. QED
    BY <1>4, <1>5, <1>6, <1>7 DEF FileInv

\* A rotation that is cut off can cost a record, and adds none.
LEMMA FileCut ==
    ASSUME FileInv, CutOff, file' = file,
           pending' \in Conn \cup {None}, pc' = "append" => pending' \in Conn
    PROVE  FileInv'
  <1>1. FileType /\ HeardInv /\ OrderInv /\ PlaceInv
    BY DEF FileInv
  <1>2. /\ tail' = <<>> /\ hurt' = TRUE
        /\ known' = [i \in DOMAIN known |-> Known(known[i], FALSE)]
    BY DEF CutOff
  <1>3. /\ known \in Seq(Hellos) /\ Len(known) \in Nat /\ DOMAIN known = 1 .. Len(known)
        /\ <<>> \in Seq(Lines) /\ Len(tail') = 0
        /\ \A i \in 1 .. Len(known) : known[i] \in Hellos
    BY <1>1, <1>2, LineFacts, EmptySeq DEF FileType
  <1>4. ASSUME NEW i \in 1 .. Len(known)
        PROVE  /\ known'[i] \in Hellos /\ known'[i].sure = FALSE /\ known'[i].age = known[i].age
               /\ known'[i].ip = known[i].ip /\ known'[i].name = known[i].name
    BY <1>2, <1>3 DEF Known, Hellos
  <1>5. known' \in Seq(Hellos) /\ Len(known') = Len(known)
    <2>1. PICK q, n : q = known' /\ n = Len(known)
      OBVIOUS
    <2>2. n \in Nat /\ q \in [1 .. n -> Hellos]
      BY <1>2, <1>3, <1>4, <2>1
    <2>3. q \in Seq(Hellos) /\ Len(q) = n
      BY <2>2, Mapped
    <2>4. QED
      BY <2>1, <2>3
  <1>6. FileType'
    BY <1>1, <1>2, <1>3, <1>5 DEF FileType
  <1>7. HeardInv'
    <2>1. ASSUME NEW i \in 1 .. Len(file), file[i] \in Recs, file[i].age <= Window
          PROVE  \E j \in 1 .. Len(known') : Records(file[i], known'[j])
      <3>1. PICK j \in 1 .. Len(known) : Records(file[i], known[j])
        BY <1>1, <2>1 DEF HeardInv
      <3>2. j \in 1 .. Len(known') /\ Records(file[i], known'[j])
        BY <1>4, <1>5, <3>1 DEF Records
      <3>3. QED
        BY <3>2
    <2>2. QED
      BY <1>3, <2>1 DEF HeardInv
  <1>8. OrderInv'
    <2> SUFFICES ASSUME NEW i \in 1 .. Len(known), NEW j \in 1 .. Len(known), i <= j
                 PROVE  known'[j].age <= known'[i].age /\ ~known'[i].sure
      BY <1>5 DEF OrderInv
    <2>1. known[j].age <= known[i].age
      BY <1>1 DEF OrderInv
    <2>2. QED
      BY <1>4, <2>1
  <1>9. PlaceInv'
    <2>1. \A i \in 1 .. Len(known') : ~known'[i].sure
      BY <1>4, <1>5
    <2>2. hurt' /\ \A i \in 1 .. Len(tail') : tail'[i] # Torn
      BY <1>2, <1>3
    <2>3. QED
      BY <2>1, <2>2 DEF PlaceInv
  <1>10. QED
    BY <1>6, <1>7, <1>8, <1>9 DEF FileInv

LEMMA FileAged ==
    ASSUME FileInv, AgeRecords
    PROVE  FileInv'
  <1>1. FileType /\ HeardInv /\ OrderInv /\ PlaceInv
    BY DEF FileInv
  <1>2. /\ file' = Aged(file) /\ tail' = Aged(tail)
        /\ pc' = pc /\ pending' = pending /\ hurt' = hurt
    BY DEF AgeRecords
  <1>3. /\ file \in Seq(Lines) /\ tail \in Seq(Lines) /\ known \in Seq(Hellos)
        /\ Len(file) \in Nat /\ Len(tail) \in Nat /\ Len(known) \in Nat
        /\ \A i \in 1 .. Len(known) : known[i] \in Hellos /\ known[i].age \in 0 .. Window
    BY <1>1, LineFacts DEF FileType, Hellos
  <1>4. OneOlder(file', file) /\ OneOlder(tail', tail)
    <2>1. OneOlder(Aged(file), file) /\ OneOlder(Aged(tail), tail)
      BY <1>3, AgedFacts
    <2>2. QED
      BY <1>2, <2>1
  <1>5. known' \in Seq(Hellos)
    BY <1>1, <1>3, KnownAged
  <1>6. PICK k \in 0 .. Len(known) :
          /\ Len(known') = Len(known) - k
          /\ \A i \in 1 .. Len(known) : known[i].age < Window <=> i > k
          /\ \A i \in 1 .. Len(known') :
               /\ i + k \in 1 .. Len(known) /\ known'[i].age = known[i + k].age + 1
               /\ known'[i].ip = known[i + k].ip /\ known'[i].name = known[i + k].name
               /\ known'[i].sure = known[i + k].sure
    BY <1>1, <1>3, KnownAged
  <1>7. FileType'
    BY <1>1, <1>2, <1>4, <1>5 DEF FileType, OneOlder
  <1>8. ASSUME NEW r, NEW o, r \in Recs, NEW j \in 1 .. Len(known), j > k, Records(r, known[j]),
               o \in Recs, o.ip = r.ip, o.name = r.name, o.age = r.age + 1
        PROVE  j - k \in 1 .. Len(known') /\ Records(o, known'[j - k])
    <2>1. j - k \in 1 .. Len(known') /\ (j - k) + k = j
      BY <1>3, <1>6, <1>8
    <2>2. QED
      BY <1>6, <1>8, <2>1 DEF Records
  <1>9. HeardInv'
    <2>1. ASSUME NEW s \in {file, tail}, NEW t, OneOlder(t, s), NEW i \in 1 .. Len(t),
                 t[i] \in Recs, t[i].age <= Window
          PROVE  \E j \in 1 .. Len(known') : Records(t[i], known'[j])
      <3>1. i \in 1 .. Len(s) /\ LineOlder(t[i], s[i]) /\ s[i] \in Recs
        BY <2>1 DEF OneOlder, LineOlder
      <3>2. /\ t[i].ip = s[i].ip /\ t[i].name = s[i].name /\ s[i].age < Window
            /\ s[i].age <= Window => t[i].age = s[i].age + 1
        BY <2>1, <3>1 DEF LineOlder
      <3>3. s[i].age <= Window
        BY <3>1, <3>2, SniConstants
      <3>4. PICK j \in 1 .. Len(known) : Records(s[i], known[j])
        BY <1>1, <3>1, <3>3 DEF HeardInv
      <3>5. j > k
        BY <1>6, <3>2, <3>4 DEF Records
      <3>6. j - k \in 1 .. Len(known') /\ Records(t[i], known'[j - k])
        BY <1>8, <2>1, <3>1, <3>2, <3>3, <3>4, <3>5
      <3>7. QED
        BY <3>6
    <2>2. QED
      BY <1>4, <2>1 DEF HeardInv
  <1>10. OrderInv'
    <2> SUFFICES ASSUME NEW i \in 1 .. Len(known'), NEW j \in 1 .. Len(known'), i <= j
                 PROVE  /\ known'[j].age <= known'[i].age
                        /\ known'[i].sure => known'[j].sure /\ ~hurt'
      BY DEF OrderInv
    <2>1. PICK x, y : x = i + k /\ y = j + k
      OBVIOUS
    <2>2. x \in 1 .. Len(known) /\ y \in 1 .. Len(known) /\ x <= y
      BY <1>6, <2>1
    <2>3. /\ known[y].age <= known[x].age
          /\ known[x].sure => known[y].sure /\ ~hurt
      BY <1>1, <2>2 DEF OrderInv
    <2>4. known'[j].age <= known'[i].age
      <3>1. known'[i].age = known[x].age + 1 /\ known'[j].age = known[y].age + 1
        BY <1>6, <2>1
      <3>2. known[x].age \in Int /\ known[y].age \in Int
        BY <1>3, <2>2, SniConstants
      <3>3. PICK a, b : a = known[x].age /\ b = known[y].age
        OBVIOUS
      <3>4. a \in Int /\ b \in Int /\ b <= a
        BY <2>3, <3>2, <3>3
      <3>5. b + 1 <= a + 1
        BY <3>4
      <3>6. QED
        BY <3>1, <3>3, <3>5
    <2>5. QED
      BY <1>2, <1>6, <2>1, <2>3, <2>4
  <1>11. PlaceInv'
    <2>1. OneOlder(Held', Held)
      BY <1>2, <1>4 DEF Held
    <2>2. ASSUME NEW i \in 1 .. Len(known'), i > Len(known') - Keep, known'[i].sure
          PROVE  Placed(i)'
      <3>1. PICK x, l : x = i + k /\ l = x + Len(Held) - Len(known)
        OBVIOUS
      <3>2. x \in 1 .. Len(known) /\ x > Len(known) - Keep /\ known[x].sure /\ x > k
        <4>1. x \in 1 .. Len(known) /\ known[x].sure = known'[i].sure
          BY <1>6, <3>1
        <4>2. x > Len(known) - Keep /\ x > k
          <5>1. i > Len(known) - k - Keep /\ i >= 1 /\ x = i + k /\ k \in Int /\ Keep \in Int
            BY <1>3, <1>6, <2>2, <3>1, SniConstants
          <5>2. QED
            BY <1>3, <5>1
        <4>3. QED
          BY <2>2, <4>1, <4>2
      <3>3. l \in 1 .. Len(Held) /\ Records(Held[l], known[x])
        BY <1>1, <3>1, <3>2 DEF PlaceInv, Placed
      <3>4. known[x].age < Window /\ Held[l] \in Recs /\ Held[l].age < Window
        BY <1>6, <3>2, <3>3 DEF Records
      <3>5. /\ Held'[l] \in Recs /\ Held'[l].ip = Held[l].ip /\ Held'[l].name = Held[l].name
            /\ Held'[l].age = Held[l].age + 1
        <4>1. PICK s, t : s = Held /\ t = Held'
          OBVIOUS
        <4>2. l \in 1 .. Len(s) /\ s[l] \in Recs /\ s[l].age <= Window /\ OneOlder(t, s)
          BY <2>1, <3>3, <3>4, <4>1, SniConstants
        <4>3. t[l] \in Recs /\ t[l].ip = s[l].ip /\ t[l].name = s[l].name /\ t[l].age = s[l].age + 1
          <5>1. LineOlder(t[l], s[l])
            BY <4>2 DEF OneOlder
          <5>2. QED
            BY <4>2, <5>1 DEF LineOlder
        <4>4. QED
          BY <4>1, <4>3
      <3>6. Records(Held'[l], known'[i])
        <4>1. x - k = i
          BY <1>6, <3>1
        <4>2. QED
          BY <1>8, <3>2, <3>3, <3>4, <3>5, <4>1
      <3>7. Len(Held') = Len(Held) /\ Len(Held) \in Nat
        <4>1. Len(Held) \in Nat
          BY <1>3 DEF Held
        <4>2. QED
          BY <2>1, <4>1 DEF OneOlder
      <3>8. l = i + Len(Held') - Len(known')
        <4>1. /\ i \in Int /\ k \in Int /\ Len(known) \in Int /\ Len(Held) \in Int
              /\ Len(known') = Len(known) - k /\ Len(Held') = Len(Held)
          BY <1>3, <1>6, <3>7
        <4>2. QED
          BY <3>1, <4>1
      <3>9. QED
        BY <3>3, <3>6, <3>7, <3>8 DEF Placed
    <2>3. \A i \in 1 .. Len(tail') : tail'[i] # Torn
      BY <1>1, <1>4 DEF PlaceInv, OneOlder, LineOlder
    <2>4. ASSUME ~hurt, pc # "write", file' # <<>>
          PROVE  file'[Len(file')] # Torn
      <3>1. Len(file') = Len(file) /\ file' \in Seq(Lines)
        BY <1>4 DEF OneOlder
      <3>2. Len(file) # 0
        BY <2>4, <3>1, EmptySeq
      <3>3. file # <<>> /\ Len(file) \in 1 .. Len(file)
        BY <1>3, <3>2
      <3>4. file[Len(file)] # Torn
        BY <1>1, <2>4, <3>3 DEF PlaceInv
      <3>5. QED
        BY <1>4, <3>1, <3>3, <3>4 DEF OneOlder, LineOlder
    <2>5. QED
      BY <1>2, <2>2, <2>3, <2>4 DEF PlaceInv
  <1>12. QED
    BY <1>7, <1>9, <1>10, <1>11 DEF FileInv

LEMMA FileNext ==
    ASSUME FileInv, [SniNext]_sniVars
    PROVE  FileInv'
  <1>1. FileType
    BY DEF FileInv
  <1>2. CASE UNCHANGED sniVars
    BY <1>1, <1>2, FileKept DEF sniVars, sniffer, list, FileType
  <1>3. ASSUME NEW c \in Conn, Classify(c)
        PROVE  FileInv'
    BY <1>1, <1>3, FileKept DEF Classify, sniffer, FileType
  <1>4. ASSUME NEW c \in Conn, RecordHello(c)
        PROVE  FileInv'
    <2>1. /\ pc = "idle" /\ pc' = "idle" /\ Recorded(c) /\ tail' = tail
          /\ pending' \in Conn \cup {None}
      BY <1>1, <1>4 DEF RecordHello, FileType
    <2>2. QED
      BY <2>1, FileRecorded
  <1>5. ASSUME NEW c \in Conn \cup {None}, Rotate(c)
        PROVE  FileInv'
    BY <1>5, FileRotated DEF Rotate
  <1>6. ASSUME NEW n \in 0 .. Keep, NEW cut \in BOOLEAN, WriteBlock(n, cut)
        PROVE  FileInv'
    <2>1. n \in Nat
      BY SniConstants
    <2>2. QED
      BY <1>6, <2>1, FileBlock
  <1>7. CASE WriteRest
    BY <1>7, FileWritten
  <1>8. CASE WriteFails
    <2>1. /\ CutOff /\ file' = file /\ pending' = pending
          /\ pc' = IF pending = None THEN "idle" ELSE "append"
      BY <1>8 DEF WriteFails
    <2>2. pending' \in Conn \cup {None} /\ (pc' = "append" => pending' \in Conn)
      BY <1>1, <2>1 DEF FileType
    <2>3. QED
      BY <2>1, <2>2, FileCut
  <1>9. CASE AppendPending
    <2>1. /\ pc = "append" /\ pc' = "idle" /\ Recorded(pending) /\ tail' = tail
          /\ pending' \in Conn \cup {None} /\ pending \in Conn
      BY <1>1, <1>9 DEF AppendPending, FileType
    <2>2. PICK c \in Conn : c = pending
      BY <2>1
    <2>3. Recorded(c)
      BY <2>1, <2>2
    <2>4. QED
      BY <2>1, <2>3, FileRecorded
  <1>10. CASE Crash
    <2>1. pc' = "down" /\ pending' = None /\ file' = file
      BY <1>10 DEF Crash
    <2>2. CASE pc = "write"
      <3>1. CutOff
        BY <1>10, <2>2 DEF Crash
      <3>2. QED
        BY <2>1, <3>1, FileCut
    <2>3. CASE pc # "write"
      <3>1. UNCHANGED <<tail, known, hurt>>
        BY <1>10, <2>3 DEF Crash
      <3>2. QED
        BY <2>1, <2>3, <3>1, FileKept
    <2>4. QED
      BY <2>2, <2>3
  <1>11. CASE Restart
    BY <1>1, <1>11, FileKept DEF Restart, FileType
  <1>12. ASSUME NEW f \in Files, Edit(f)
         PROVE  FileInv'
    BY <1>1, <1>12, FileKept DEF Edit, sniffer, FileType
  <1>13. CASE AgeRecords
    BY <1>13, FileAged
  <1>14. QED
    BY <1>2, <1>3, <1>4, <1>5, <1>6, <1>7, <1>8, <1>9, <1>10, <1>11, <1>12, <1>13 DEF SniNext

LEMMA FileAlways == SniSpec => []FileInv
  BY FileInit, FileNext, PTL DEF SniSpec

-----------------------------------------------------------------------------
(* What a lookup finds.                                                    *)

\* Line l of the file answers for the address.
Answers(l, ip) ==
    l \in 1 .. Len(file) /\ file[l] \in Recs /\ file[l].age <= Window /\ file[l].ip = ip

LEMMA Lookup ==
    ASSUME FileType, NEW ip
    PROVE  /\ Resolve(ip) # None =>
                \E l \in 1 .. Len(file) : /\ Answers(l, ip) /\ file[l].name = Resolve(ip)
                                          /\ \A x \in 1 .. Len(file) : Answers(x, ip) => x <= l
           /\ (\E l \in 1 .. Len(file) : Answers(l, ip) /\ l > Len(file) - TailLen)
                => Resolve(ip) # None
  <1>1. PICK t : t = Newest(file, TailLen)
    OBVIOUS
  <1>2. file \in Seq(Lines) /\ Len(file) \in Nat /\ TailLen \in Nat
    BY LineFacts, SniConstants DEF FileType
  <1>3. /\ t \in Seq(Lines) /\ Len(t) = (IF Len(file) > TailLen THEN TailLen ELSE Len(file))
        /\ \A i \in 1 .. Len(t) : i + Len(file) - Len(t) \in 1 .. Len(file)
                                   /\ t[i] = file[i + Len(file) - Len(t)]
    <2>1. PICK s, n : s = file /\ n = TailLen
      OBVIOUS
    <2>2. s \in Seq(Lines) /\ n \in Nat /\ t = Newest(s, n)
      BY <1>1, <1>2, <2>1
    <2>3. /\ t \in Seq(Lines) /\ Len(t) = (IF Len(s) > n THEN n ELSE Len(s))
          /\ \A i \in 1 .. Len(t) : i + Len(s) - Len(t) \in 1 .. Len(s)
                                     /\ t[i] = s[i + Len(s) - Len(t)]
      BY <2>2, NewestFacts
    <2>4. QED
      BY <2>1, <2>3
  <1>4. DOMAIN t = 1 .. Len(t) /\ Len(t) \in Nat
    BY <1>3, LineFacts
  <1>5. PICK hits : hits = {i \in InWindow(t) : t[i].ip = ip}
    OBVIOUS
  <1>6. Resolve(ip) = IF hits = {} THEN None ELSE t[Max(hits)].name
    BY <1>1, <1>5 DEF Resolve
  <1>7. PICK d : d = Len(file) - Len(t)
    OBVIOUS
  <1>8. d \in Nat /\ Len(file) = d + Len(t)
    BY <1>2, <1>3, <1>4, <1>7
  <1>9. \A i \in 1 .. Len(t) : i + d \in 1 .. Len(file) /\ t[i] = file[i + d]
    <2>1. ASSUME NEW i \in 1 .. Len(t)
          PROVE  i + d \in 1 .. Len(file) /\ t[i] = file[i + d]
      <3>1. i + Len(file) - Len(t) = i + d
        BY <1>2, <1>4, <1>7
      <3>2. QED
        BY <1>3, <3>1
    <2>2. QED
      BY <2>1
  <1>10. \A i : i \in hits <=> i \in 1 .. Len(t) /\ Answers(i + d, ip)
    BY <1>4, <1>5, <1>9 DEF InWindow, Answers
  <1>11. ASSUME NEW l \in 1 .. Len(file), l > d, Answers(l, ip)
         PROVE  l - d \in hits
    <2>1. l - d \in 1 .. Len(t) /\ (l - d) + d = l
      BY <1>2, <1>4, <1>8, <1>11
    <2>2. QED
      BY <1>10, <1>11, <2>1
  <1>12. ASSUME hits # {}
         PROVE  /\ Resolve(ip) # None
                /\ \E l \in 1 .. Len(file) : /\ Answers(l, ip) /\ file[l].name = Resolve(ip)
                                             /\ \A x \in 1 .. Len(file) : Answers(x, ip) => x <= l
    <2>1. PICK m : m = Max(hits)
      OBVIOUS
    <2>2. m \in hits /\ \A x \in hits : x <= m
      <3>1. hits \in SUBSET (0 .. Len(t))
        BY <1>4, <1>10
      <3>2. QED
        BY <1>4, <1>12, <2>1, <3>1, Greatest
    <2>3. m \in 1 .. Len(t) /\ Answers(m + d, ip) /\ m + d \in 1 .. Len(file)
      BY <1>9, <1>10, <2>2
    <2>4. file[m + d].name = Resolve(ip)
      BY <1>6, <1>9, <1>12, <2>1, <2>3
    <2>5. Resolve(ip) # None
      BY <2>3, <2>4, SniConstants DEF Answers
    <2>6. ASSUME NEW x \in 1 .. Len(file), Answers(x, ip)
          PROVE  x <= m + d
      <3>1. CASE x > d
        <4>1. x - d \in hits
          BY <1>11, <2>6, <3>1
        <4>2. x - d <= m
          BY <2>2, <4>1
        <4>3. QED
          BY <1>8, <2>3, <4>2
      <3>2. CASE ~(x > d)
        BY <1>8, <2>3, <3>2
      <3>3. QED
        BY <3>1, <3>2
    <2>7. QED
      BY <2>3, <2>4, <2>5, <2>6
  <1>13. ASSUME NEW l \in 1 .. Len(file), Answers(l, ip), l > Len(file) - TailLen
         PROVE  hits # {}
    <2>1. l > d
      BY <1>2, <1>3, <1>7, <1>13
    <2>2. QED
      BY <1>11, <1>13, <2>1
  <1>14. QED
    BY <1>6, <1>12, <1>13

LEMMA Heard ==
    ASSUME FileInv, NEW ip, Resolve(ip) # None
    PROVE  \E i \in At(ip, DOMAIN known) : known[i].name = Resolve(ip)
  <1>1. FileType /\ HeardInv
    BY DEF FileInv
  <1>2. PICK l \in 1 .. Len(file) : Answers(l, ip) /\ file[l].name = Resolve(ip)
    BY <1>1, Lookup
  <1>3. PICK j \in 1 .. Len(known) : Records(file[l], known[j])
    BY <1>1, <1>2 DEF HeardInv, Answers
  <1>4. DOMAIN known = 1 .. Len(known)
    BY <1>1, LineFacts DEF FileType
  <1>5. j \in At(ip, DOMAIN known) /\ known[j].name = Resolve(ip)
    BY <1>2, <1>3, <1>4 DEF Records, Answers, At
  <1>6. QED
    BY <1>5

(* A name that a flow is judged by was sent in a hello to its address      *)
(* within the window, whatever rotations, interrupted rotations and lines  *)
(* run into one another left in the file.                                  *)
THEOREM NameIsTrueHolds == SniSpec => []NameIsTrue
  <1>1. FileInv => NameIsTrue
    BY Heard DEF NameIsTrue
  <1>2. QED
    BY <1>1, FileAlways, PTL

\* Nothing that was heard later than a sure hello is missing from the file.
LEMMA NewestKept ==
    ASSUME FileInv, pc # "write", NEW i \in 1 .. Len(known),
           i > Len(known) - Keep, known[i].sure,
           \A j \in 1 .. Len(known) : j > Len(known) - Keep /\ known[j].ip = known[i].ip => j <= i
    PROVE  Resolve(known[i].ip) = known[i].name
  <1>1. FileType /\ OrderInv /\ PlaceInv
    BY DEF FileInv
  <1>2. /\ Len(file) \in Nat /\ Len(known) \in Nat
        /\ \A j \in 1 .. Len(known) : known[j].age <= Window /\ known[j] \in Hellos
    <2>1. known \in Seq(Hellos) /\ file \in Seq(Lines)
      BY <1>1 DEF FileType
    <2>2. /\ Len(file) \in Nat /\ Len(known) \in Nat
          /\ \A j \in 1 .. Len(known) : known[j] \in Hellos
      BY <2>1, LineFacts
    <2>3. \A k \in Hellos : k.age <= Window
      BY SniConstants DEF Hellos
    <2>4. QED
      BY <2>2, <2>3
  <1>3. PICK ip : ip = known[i].ip
    OBVIOUS
  <1>4. PICK l : l = i + Len(file) - Len(known)
    OBVIOUS
  <1>5. l \in 1 .. Len(file) /\ Records(file[l], known[i])
    BY <1>1, <1>4 DEF PlaceInv, Placed, Held
  <1>6. Answers(l, ip)
    BY <1>2, <1>3, <1>5 DEF Records, Answers
  <1>7. l > Len(file) - TailLen
    BY <1>2, <1>4, SniConstants
  <1>8. Resolve(ip) # None
    BY <1>1, <1>5, <1>6, <1>7, Lookup
  <1>9. PICK m \in 1 .. Len(file) : /\ Answers(m, ip) /\ file[m].name = Resolve(ip)
                                    /\ \A x \in 1 .. Len(file) : Answers(x, ip) => x <= m
    BY <1>1, <1>8, Lookup
  <1>10. ASSUME m > l
         PROVE  FALSE
    <2>1. PICK j : j = m - Len(file) + Len(known)
      OBVIOUS
    <2>2. /\ j \in 1 .. Len(known) /\ i < j /\ i <= j /\ j > Len(known) - Keep
          /\ m = j + Len(file) - Len(known)
      BY <1>2, <1>4, <1>9, <1>10, <2>1, SniConstants
    <2>3. known[j].sure
      BY <1>1, <2>2 DEF OrderInv
    <2>4. Records(file[m], known[j])
      BY <1>1, <2>2, <2>3 DEF PlaceInv, Placed, Held
    <2>5. known[j].ip = known[i].ip
      BY <1>3, <1>9, <2>4 DEF Records, Answers
    <2>6. j <= i
      BY <2>2, <2>5
    <2>7. QED
      BY <2>2, <2>6
  <1>11. m = l
    BY <1>5, <1>6, <1>9, <1>10
  <1>12. QED
    BY <1>3, <1>5, <1>9, <1>11 DEF Records

(* Unless a rotation is writing, each address among the last Keep hellos   *)
(* has its most recent name, whatever was rotated or restarted, as long as *)
(* no rotation that was cut off can have lost it.                          *)
THEOREM NewestNameUsedHolds == SniSpec => []NewestNameUsed
  <1>1. ASSUME FileInv, pc # "write", NEW ip, NEW last, NEW i,
               last = {x \in DOMAIN known : x > Len(known) - Keep},
               At(ip, last) # {}, i = Max(At(ip, last)), known[i].sure
        PROVE  Resolve(ip) = known[i].name
    <2>1. DOMAIN known = 1 .. Len(known) /\ Len(known) \in Nat
      BY <1>1, LineFacts DEF FileInv, FileType
    <2>2. PICK T : T = At(ip, last)
      OBVIOUS
    <2>3. \A j : j \in T <=> j \in 1 .. Len(known) /\ j > Len(known) - Keep /\ known[j].ip = ip
      BY <1>1, <2>1, <2>2 DEF At
    <2>4. i \in T /\ \A j \in T : j <= i
      <3>1. T \in SUBSET (0 .. Len(known)) /\ T # {}
        <4>1. \A j \in T : j \in 0 .. Len(known)
          BY <2>1, <2>3
        <4>2. T # {}
          BY <1>1, <2>2
        <4>3. QED
          BY <4>1, <4>2
      <3>2. QED
        BY <1>1, <2>1, <2>2, <3>1, Greatest
    <2>5. known[i].ip = ip /\ i \in 1 .. Len(known) /\ i > Len(known) - Keep
      BY <2>3, <2>4
    <2>6. \A j \in 1 .. Len(known) : j > Len(known) - Keep /\ known[j].ip = known[i].ip => j <= i
      BY <2>3, <2>4, <2>5
    <2>7. QED
      BY <1>1, <2>5, <2>6, NewestKept
  <1>2. FileInv => NewestNameUsed
    BY <1>1 DEF NewestNameUsed
  <1>3. QED
    BY <1>2, FileAlways, PTL

\* The list as it was loaded last, or one that is loaded before it is used.
ListInv ==
    ~sameTime /\ yaml.mtime # None /\ yaml.mtime = allow.mtime
        => allow.names = Effective(yaml.names)

LEMMA ListAlways == SniSpec => []ListInv
  <1>1. SniInit => ListInv
    BY DEF SniInit, ListInv
  <1>2. ListInv /\ [SniNext]_sniVars => ListInv'
    <2> SUFFICES ASSUME ListInv, [SniNext]_sniVars PROVE ListInv'
      OBVIOUS
    <2>1. ASSUME UNCHANGED <<list, allow>>
          PROVE  ListInv'
      BY <2>1 DEF ListInv, list
    <2>2. ASSUME NEW c \in Conn, Classify(c)
          PROVE  ListInv'
      <3>1. UNCHANGED <<yaml, sameTime>>
        BY <2>2 DEF Classify, list
      <3>2. CASE allow' = allow
        BY <3>1, <3>2 DEF ListInv
      <3>3. CASE allow' # allow
        <4>1. allow' = [names |-> Effective(yaml.names), mtime |-> yaml.mtime]
          BY <2>2, <3>3 DEF Classify, Reloaded
        <4>2. QED
          BY <3>1, <4>1 DEF ListInv
      <3>4. QED
        BY <3>2, <3>3
    <2>3. ASSUME NEW f \in Files, Edit(f)
          PROVE  ListInv'
      <3>1. /\ yaml' = f /\ allow' = allow
            /\ sameTime' = (sameTime \/ f.mtime \in {yaml.mtime, allow.mtime} \ {None})
        BY <2>3 DEF Edit
      <3>2. QED
        BY <3>1 DEF ListInv
    <2>4. QED
      BY <2>1, <2>2, <2>3
         DEF SniNext, sniVars, RecordHello, Rotate, WriteBlock, WriteRest, WriteFails,
             AppendPending, Crash, Restart, AgeRecords
  <1>3. QED
    BY <1>1, <1>2, PTL DEF SniSpec

(* No flow is excused by a name its address did not send within the        *)
(* window, or by a list that is not the one in the allowlist's file (whose *)
(* times of modification tell its versions apart), to which the built-in   *)
(* names come where that file lists no exact name.                         *)
THEOREM ExclusionIsListedHolds == SniSpec => []ExclusionIsListed
  <1>1. FileInv /\ ListInv => ExclusionIsListed
    <2> SUFFICES ASSUME FileInv, ListInv, NEW c \in Conn, Kind(c) = "ai", ~sameTime
                 PROVE  \E i \in At(IpOf[c], DOMAIN known) : known[i].name \in Listed
      BY DEF ExclusionIsListed
    <2>1. Resolve(IpOf[c]) # None /\ Resolve(IpOf[c]) \in Reloaded.names
      BY DEF Kind
    <2>2. PICK i \in At(IpOf[c], DOMAIN known) : known[i].name = Resolve(IpOf[c])
      BY <2>1, Heard
    <2>3. Reloaded.names = Listed
      <3>1. CASE Reloads
        BY <3>1 DEF Reloaded, Reloads, Listed, Effective
      <3>2. CASE ~Reloads
        <4>1. Reloaded = allow
          BY <3>2 DEF Reloaded
        <4>2. QED
          BY <3>2, <4>1 DEF Reloads, Listed, ListInv, Effective
      <3>3. QED
        BY <3>1, <3>2
    <2>4. QED
      BY <2>1, <2>2, <2>3
  <1>2. QED
    BY <1>1, FileAlways, ListAlways, PTL

-----------------------------------------------------------------------------
(* The reassembly of hellos.                                              *)

Keys == {Stream(h) : h \in Hello}
Bufs == [key : Keys, claim : Nat, segs : Seq(Hello \X Nat)]

\* Buffer b holds what came on its stream, g being what was captured, and
\* waits for the length that the hello it begins with has.
BufOK(b, g) ==
    /\ b \in Bufs /\ Len(b.segs) >= 1
    /\ \A j \in 1 .. Len(b.segs) : /\ Stream(b.segs[j][1]) = b.key
                                   /\ b.segs[j][2] \in g[b.segs[j][1]]
    /\ b.segs[1][2] = 1 => b.claim = HelloOf[b.segs[1][1]].size

Waits(b)   == Len(b.segs) < b.claim /\ Len(b.segs) <= MaxStreamBuf
Unique(bs) == \A i, j \in 1 .. Len(bs) : bs[i].key = bs[j].key => i = j

Sound(bs, d, g) ==
    /\ bs \in Seq(Bufs) /\ Unique(bs)
    /\ \A i \in 1 .. Len(bs) : BufOK(bs[i], g) /\ bs[i].key \notin d

Sent(g) == {h \in Hello : g[h] # {}}

TableInv ==
    /\ got \in [Hello -> SUBSET Nat] /\ IsFiniteSet(Sent(got))
    /\ Sound(buf, done, got) /\ Len(buf) <= MaxStreams
    /\ \A i \in 1 .. Len(buf) : Waits(buf[i])
    /\ IsFiniteSet(done) /\ Cardinality(done) <= MaxDone /\ told \subseteq done
    /\ \A k \in done : \E g \in Sent(got) : Stream(g) = k

LEMMA HelloConstants ==
    /\ MaxStreamBuf \in Nat /\ MaxStreams \in Nat /\ MaxStreams > 0 /\ MaxDone \in Nat
    /\ Hello \subseteq Nat
    /\ \A h \in Hello : /\ HelloOf[h].size \in 1 .. MaxStreamBuf
                        /\ HelloOf[h].at \in 1 .. HelloOf[h].size
                        /\ HelloOf[h].more \in {0, 1} /\ Segs(h) \subseteq Nat
  BY HelloAssumption DEF Segs

LEMMA BufFacts ==
    /\ \A s \in Seq(Bufs) : /\ Len(s) \in Nat /\ DOMAIN s = 1 .. Len(s)
                            /\ \A i \in 1 .. Len(s) : s[i] \in Bufs
    /\ \A b \in Bufs : /\ b.key \in Keys /\ b.claim \in Nat /\ b.segs \in Seq(Hello \X Nat)
                       /\ Len(b.segs) \in Nat /\ DOMAIN b.segs = 1 .. Len(b.segs)
                       /\ \A j \in 1 .. Len(b.segs) : b.segs[j] \in Hello \X Nat
  <1>1. \A s \in Seq(Bufs) : /\ Len(s) \in Nat /\ DOMAIN s = 1 .. Len(s)
                             /\ \A i \in 1 .. Len(s) : s[i] \in Bufs
    BY LenProperties, ElementOfSeq
  <1>2. \A s \in Seq(Hello \X Nat) : /\ Len(s) \in Nat /\ DOMAIN s = 1 .. Len(s)
                                     /\ \A i \in 1 .. Len(s) : s[i] \in Hello \X Nat
    BY LenProperties, ElementOfSeq
  <1>3. \A b \in Bufs : b.key \in Keys /\ b.claim \in Nat /\ b.segs \in Seq(Hello \X Nat)
    BY DEF Bufs
  <1>4. QED
    BY <1>1, <1>2, <1>3

\* What is left when the buffer of stream k has gone.
Dropped(t, bs, k) ==
    /\ t \in Seq(Bufs) /\ Unique(t) /\ Len(t) <= Len(bs)
    /\ (\E i \in 1 .. Len(bs) : bs[i].key = k) => Len(t) = Len(bs) - 1
    /\ \A i \in 1 .. Len(t) : \E j \in 1 .. Len(bs) : t[i] = bs[j] /\ bs[j].key # k
    /\ \A j \in 1 .. Len(bs) : bs[j].key # k => \E i \in 1 .. Len(t) : t[i] = bs[j]

LEMMA WithoutFacts ==
    ASSUME NEW bs \in Seq(Bufs), Unique(bs), NEW k, NEW t, t = Without(bs, k)
    PROVE  Dropped(t, bs, k)
  <1>1. PICK n : n = Len(bs)
    OBVIOUS
  <1>2. n \in Nat /\ \A i \in 1 .. n : bs[i] \in Bufs
    BY <1>1, BufFacts
  <1>3. PICK I : I = {i \in 1 .. n : bs[i].key = k}
    OBVIOUS
  <1>4. PICK m : m = SelectInSeq(bs, LAMBDA b : b.key = k)
    OBVIOUS
  <1>5. m = IF I = {} THEN 0 ELSE Min(I)
    BY <1>1, <1>3, <1>4 DEF SelectInSeq
  <1>6. t = IF m = 0 THEN bs ELSE RemoveAt(bs, m)
    BY <1>4 DEF Without
  <1>7. CASE I = {}
    <2>1. t = bs
      BY <1>5, <1>6, <1>7
    <2>2. \A i \in 1 .. Len(bs) : bs[i].key # k
      BY <1>1, <1>3, <1>7
    <2>3. QED
      BY <1>1, <1>2, <2>1, <2>2 DEF Dropped
  <1>8. CASE I # {}
    <2>1. m \in I
      <3>1. PICK j \in I : TRUE
        BY <1>8
      <3>2. \A x \in I : x = j
        BY <1>1, <1>3 DEF Unique
      <3>3. \E x \in I : \A y \in I : x <= y
        BY <1>3, <3>1, <3>2
      <3>4. QED
        BY <1>5, <1>8, <3>3 DEF Min
    <2>2. m \in 1 .. n /\ bs[m].key = k
      BY <1>3, <2>1
    <2>3. t = SubSeq(bs, 1, m - 1) \o SubSeq(bs, m + 1, n)
      <3>1. m # 0
        BY <1>2, <2>2
      <3>2. t = RemoveAt(bs, m)
        BY <1>6, <3>1
      <3>3. QED
        BY <1>1, <3>2 DEF RemoveAt
    <2>4. PICK u, v : u = SubSeq(bs, 1, m - 1) /\ v = SubSeq(bs, m + 1, n)
      OBVIOUS
    <2>5. u \in Seq(Bufs) /\ Len(u) = m - 1 /\ \A i \in 1 .. m - 1 : u[i] = bs[i]
      <3>1. PICK q : q = m - 1
        OBVIOUS
      <3>2. q \in Nat /\ 0 \in 0 .. q /\ u = SubSeq(bs, 0 + 1, q) /\ \A i \in 0 + 1 .. q : bs[i] \in Bufs
        BY <1>2, <2>2, <2>4, <3>1
      <3>3. u \in Seq(Bufs) /\ Len(u) = q - 0 /\ \A i \in 1 .. q - 0 : u[i] = bs[i + 0]
        BY <3>2, Piece
      <3>4. QED
        BY <3>1, <3>2, <3>3
    <2>6. v \in Seq(Bufs) /\ Len(v) = n - m /\ \A i \in 1 .. n - m : v[i] = bs[i + m]
      <3>1. m \in 0 .. n /\ \A i \in m + 1 .. n : bs[i] \in Bufs
        BY <1>2, <2>2
      <3>2. QED
        BY <1>2, <2>4, <3>1, Piece
    <2>7. /\ t \in Seq(Bufs) /\ Len(t) = n - 1
          /\ \A i \in 1 .. n - 1 : t[i] = (IF i < m THEN bs[i] ELSE bs[i + 1])
      <3>1. t = u \o v
        BY <2>3, <2>4
      <3>2. /\ t \in Seq(Bufs) /\ Len(t) = Len(u) + Len(v)
            /\ \A i \in 1 .. Len(u) + Len(v) : t[i] = (IF i <= Len(u) THEN u[i] ELSE v[i - Len(u)])
        BY <2>5, <2>6, <3>1, ConcatProperties
      <3>3. Len(u) + Len(v) = n - 1
        BY <1>2, <2>2, <2>5, <2>6
      <3>4. ASSUME NEW i \in 1 .. n - 1
            PROVE  t[i] = (IF i < m THEN bs[i] ELSE bs[i + 1])
        <4>1. t[i] = (IF i <= m - 1 THEN u[i] ELSE v[i - (m - 1)])
          BY <2>5, <3>2, <3>3
        <4>2. CASE i < m
          BY <2>2, <2>5, <4>1, <4>2
        <4>3. CASE ~(i < m)
          <5>1. i - (m - 1) \in 1 .. n - m /\ i - (m - 1) + m = i + 1
            BY <1>2, <2>2, <4>3
          <5>2. QED
            BY <2>2, <2>6, <4>1, <4>3, <5>1
        <4>4. QED
          BY <4>2, <4>3
      <3>5. QED
        BY <3>2, <3>3, <3>4
    <2>8. \A i \in 1 .. n - 1 : \E j \in 1 .. n : j # m /\ j = (IF i < m THEN i ELSE i + 1)
                                                  /\ t[i] = bs[j]
      BY <1>2, <2>2, <2>7
    <2>9. \A j \in 1 .. n : bs[j].key # k <=> j # m
      BY <1>1, <2>2 DEF Unique
    <2>10. \A i \in 1 .. Len(t) : \E j \in 1 .. n : t[i] = bs[j] /\ bs[j].key # k
      BY <2>7, <2>8, <2>9
    <2>11. ASSUME NEW j \in 1 .. n, bs[j].key # k
           PROVE  \E i \in 1 .. Len(t) : t[i] = bs[j]
      <3>1. CASE j < m
        <4>1. j \in 1 .. n - 1 /\ t[j] = bs[j]
          BY <1>2, <2>2, <2>7, <3>1
        <4>2. QED
          BY <2>7, <4>1
      <3>2. CASE j > m
        <4>1. j - 1 \in 1 .. n - 1 /\ ~(j - 1 < m) /\ (j - 1) + 1 = j
          BY <1>2, <2>2, <3>2
        <4>2. t[j - 1] = bs[j]
          BY <2>7, <4>1
        <4>3. QED
          BY <2>7, <4>1, <4>2
      <3>3. QED
        BY <2>2, <2>9, <2>11, <3>1, <3>2
    <2>12. Unique(t)
      <3> SUFFICES ASSUME NEW x \in 1 .. n - 1, NEW y \in 1 .. n - 1, t[x].key = t[y].key
                   PROVE  x = y
        BY <2>7 DEF Unique
      <3>1. PICK a \in 1 .. n : a = (IF x < m THEN x ELSE x + 1) /\ t[x] = bs[a]
        BY <2>8
      <3>2. PICK b \in 1 .. n : b = (IF y < m THEN y ELSE y + 1) /\ t[y] = bs[b]
        BY <2>8
      <3>3. a = b
        BY <1>1, <3>1, <3>2 DEF Unique
      <3>4. QED
        BY <1>2, <2>2, <3>1, <3>2, <3>3
    <2>13. n - 1 <= n
      BY <1>2
    <2>14. QED
      BY <1>1, <2>7, <2>10, <2>11, <2>12, <2>13 DEF Dropped
  <1>9. QED
    BY <1>7, <1>8

\* A stream is retired: other streams may be looked at again, it is not.
LEMMA RetiredFacts ==
    ASSUME NEW bs, NEW d, IsFiniteSet(d), NEW tl, NEW k, NEW s, s = [buf |-> bs, done |-> d, told |-> tl],
           NEW r, r = Retired(s, k)
    PROVE  /\ r.buf = Without(bs, k) /\ r = [buf |-> r.buf, done |-> r.done, told |-> r.told]
           /\ r.done \subseteq d \cup {k} /\ IsFiniteSet(r.done) /\ Cardinality(r.done) <= MaxDone
           /\ \A x : tl \subseteq d \cup {x} => r.told \subseteq r.done \cup ({x} \ {k})
  <1>1. PICK more : more = d \cup {k}
    OBVIOUS
  <1>2. IsFiniteSet(more) /\ Cardinality(more) \in Nat
    BY <1>1, FS_AddElement, FS_CardinalityType
  <1>3. r = [buf |-> Without(bs, k), done |-> IF Cardinality(more) > MaxDone THEN {} ELSE more,
             told |-> IF Cardinality(more) > MaxDone THEN {} ELSE tl]
    BY <1>1 DEF Retired
  <1>4. CASE Cardinality(more) > MaxDone
    <2>1. r.buf = Without(bs, k) /\ r.done = {} /\ r.told = {}
      BY <1>3, <1>4
    <2>2. QED
      BY <1>3, <2>1, FS_EmptySet, HelloConstants
  <1>5. CASE ~(Cardinality(more) > MaxDone)
    <2>1. r.buf = Without(bs, k) /\ r.done = more /\ r.told = tl
      BY <1>3, <1>5
    <2>2. Cardinality(more) <= MaxDone
      BY <1>2, <1>5, HelloConstants
    <2>3. QED
      BY <1>1, <1>2, <1>3, <2>1, <2>2
  <1>6. QED
    BY <1>4, <1>5

\* What has been captured once segment p of h has passed.
Seen(h, p) == [got EXCEPT ![h] = @ \cup {p}]

LEMMA SeenFacts ==
    ASSUME got \in [Hello -> SUBSET Nat], NEW h \in Hello, NEW p \in Segs(h), NEW g, g = Seen(h, p)
    PROVE  /\ g \in [Hello -> SUBSET Nat] /\ p \in g[h] /\ Sent(g) = Sent(got) \cup {h}
           /\ \A x \in Hello : got[x] \subseteq g[x] /\ (x # h => g[x] = got[x])
           /\ g[h] = got[h] \cup {p}
  <1>1. /\ \A x \in Hello : g[x] = IF x = h THEN got[x] \cup {p} ELSE got[x]
        /\ p \in Nat /\ DOMAIN g = Hello
    BY HelloConstants DEF Seen
  <1>2. g \in [Hello -> SUBSET Nat]
    BY <1>1, HelloConstants DEF Seen
  <1>3. QED
    BY <1>1, <1>2 DEF Sent

LEMMA BufKept ==
    ASSUME got \in [Hello -> SUBSET Nat], NEW h \in Hello, NEW p \in Segs(h), NEW g, g = Seen(h, p),
           NEW b, BufOK(b, got)
    PROVE  BufOK(b, g)
  <1>1. b \in Bufs /\ \A j \in 1 .. Len(b.segs) : b.segs[j] \in Hello \X Nat
    BY BufFacts DEF BufOK
  <1>2. \A j \in 1 .. Len(b.segs) : b.segs[j][2] \in g[b.segs[j][1]]
    BY <1>1, SeenFacts DEF BufOK
  <1>3. QED
    BY <1>2 DEF BufOK

\* Buffer b is o, one segment longer.
Grew(b, o, h, p) ==
    /\ b \in Bufs /\ b.key = o.key /\ b.claim = o.claim
    /\ Len(b.segs) = Len(o.segs) + 1 /\ b.segs[Len(o.segs) + 1] = <<h, p>>
    /\ \A j \in 1 .. Len(o.segs) : b.segs[j] = o.segs[j]

\* Place i of the table is where the segment went.
Added(all, i, h, p, claim) ==
    /\ all \in Seq(Bufs) /\ i \in 1 .. Len(all)
    /\ \/ /\ Buffered(Stream(h)) /\ Len(all) = Len(buf) /\ i \in 1 .. Len(buf)
          /\ buf[i].key = Stream(h) /\ Grew(all[i], buf[i], h, p)
       \/ /\ ~Buffered(Stream(h)) /\ Len(all) = Len(buf) + 1 /\ i = Len(all)
          /\ all[i] = [key |-> Stream(h), claim |-> claim, segs |-> <<<<h, p>>>>]
    /\ \A j \in 1 .. Len(all) : j # i => j \in 1 .. Len(buf) /\ all[j] = buf[j]
    /\ \A j \in 1 .. Len(buf) : j # i => j \in 1 .. Len(all)

LEMMA AppendedFacts ==
    ASSUME TableInv, NEW h \in Hello, NEW p \in Segs(h), NEW claim \in Nat,
           NEW all, all = Appended(Stream(h), h, p, claim)
    PROVE  \E i : Added(all, i, h, p, claim)
  <1>1. PICK n : n = Len(buf)
    OBVIOUS
  <1>2. /\ n \in Nat /\ buf \in Seq(Bufs) /\ DOMAIN buf = 1 .. n /\ \A i \in 1 .. n : buf[i] \in Bufs
        /\ Unique(buf)
    BY <1>1, BufFacts DEF TableInv, Sound
  <1>3. h \in Hello /\ p \in Nat /\ <<h, p>> \in Hello \X Nat /\ Stream(h) \in Keys
    BY HelloConstants DEF Keys
  <1>4. CASE Buffered(Stream(h))
    <2>1. PICK i \in 1 .. n : buf[i].key = Stream(h)
      BY <1>2, <1>4 DEF Buffered
    <2>2. \A j \in 1 .. n : buf[j].key = Stream(h) <=> j = i
      BY <1>1, <1>2, <2>1 DEF Unique
    <2>3. PICK s : s = buf[i].segs
      OBVIOUS
    <2>4. PICK b : b = [buf[i] EXCEPT !.segs = Append(@, <<h, p>>)]
      OBVIOUS
    <2>5. s \in Seq(Hello \X Nat)
      BY <1>2, <2>3, BufFacts
    <2>6. Len(s) \in Nat
      BY <2>5, LenProperties
    <2>7. /\ Append(s, <<h, p>>) \in Seq(Hello \X Nat) /\ Len(Append(s, <<h, p>>)) = Len(s) + 1
          /\ Append(s, <<h, p>>)[Len(s) + 1] = <<h, p>>
          /\ \A j \in 1 .. Len(s) : Append(s, <<h, p>>)[j] = s[j]
      BY <1>3, <2>5, AppendProperties
    <2>8. b = [key |-> buf[i].key, claim |-> buf[i].claim, segs |-> Append(s, <<h, p>>)]
      BY <1>2, <2>3, <2>4 DEF Bufs
    <2>9. b.key = buf[i].key /\ b.claim = buf[i].claim /\ b.segs = Append(s, <<h, p>>)
      BY <2>8
    <2>10. b \in Bufs
      BY <1>2, <2>7, <2>8, BufFacts DEF Bufs
    <2>11. Grew(b, buf[i], h, p)
      BY <2>3, <2>7, <2>9, <2>10 DEF Grew
    <2>12. all = [j \in 1 .. n |-> IF buf[j].key = Stream(h)
                                   THEN [buf[j] EXCEPT !.segs = Append(@, <<h, p>>)] ELSE buf[j]]
      BY <1>2, <1>4 DEF Appended
    <2>13. \A j \in 1 .. n : all[j] = IF j = i THEN b ELSE buf[j]
      BY <2>2, <2>4, <2>12
    <2>14. all \in [1 .. n -> Bufs]
      BY <1>2, <2>10, <2>12, <2>13
    <2>15. all \in Seq(Bufs) /\ Len(all) = n
      BY <1>2, <2>14, Mapped
    <2>16. QED
      BY <1>1, <1>4, <2>1, <2>11, <2>13, <2>15 DEF Added
  <1>5. CASE ~Buffered(Stream(h))
    <2>1. PICK b : b = [key |-> Stream(h), claim |-> claim, segs |-> <<<<h, p>>>>]
      OBVIOUS
    <2>2. <<<<h, p>>>> \in Seq(Hello \X Nat)
      BY <1>3
    <2>3. b \in Bufs
      BY <1>3, <2>1, <2>2 DEF Bufs
    <2>4. all = Append(buf, b)
      BY <1>5, <2>1 DEF Appended
    <2>5. /\ all \in Seq(Bufs) /\ Len(all) = n + 1 /\ all[n + 1] = b
          /\ \A j \in 1 .. n : all[j] = buf[j]
      BY <1>1, <1>2, <2>3, <2>4, AppendProperties
    <2>6. n + 1 \in 1 .. n + 1 /\ \A j \in 1 .. n + 1 : j # n + 1 => j \in 1 .. n
      BY <1>2
    <2>7. \A j \in 1 .. n : j \in 1 .. n + 1
      BY <1>2
    <2>8. Added(all, n + 1, h, p, claim)
      BY <1>1, <1>5, <2>1, <2>5, <2>6, <2>7 DEF Added
    <2>9. QED
      BY <2>8
  <1>6. QED
    BY <1>4, <1>5

LEMMA AddedSound ==
    ASSUME TableInv, NEW h \in Hello, NEW p \in Segs(h), NEW claim \in Claims(h, p),
           Stream(h) \notin done, NEW all, NEW i, Added(all, i, h, p, claim), NEW g, g = Seen(h, p)
    PROVE  /\ Sound(all, done, g) /\ all[i].key = Stream(h) /\ Len(all) <= MaxStreams + 1
           /\ \A j \in 1 .. Len(all) : j # i => all[j].key # Stream(h) /\ Waits(all[j])
  <1>1. /\ got \in [Hello -> SUBSET Nat] /\ Unique(buf) /\ buf \in Seq(Bufs) /\ Len(buf) \in Nat
        /\ \A j \in 1 .. Len(buf) : BufOK(buf[j], got) /\ buf[j].key \notin done /\ Waits(buf[j])
        /\ Len(buf) <= MaxStreams /\ DOMAIN buf = 1 .. Len(buf)
    BY BufFacts DEF TableInv, Sound
  <1>2. \A j \in 1 .. Len(buf) : BufOK(buf[j], g)
    BY <1>1, BufKept
  <1>3. p \in g[h] /\ p \in Nat
    BY <1>1, SeenFacts, HelloConstants
  <1>4. all \in Seq(Bufs) /\ i \in 1 .. Len(all) /\ Len(all) \in Nat
        /\ \A j \in 1 .. Len(all) : j # i => j \in 1 .. Len(buf) /\ all[j] = buf[j]
    BY BufFacts DEF Added
  <1>5. BufOK(all[i], g) /\ all[i].key = Stream(h) /\ Len(all) <= Len(buf) + 1
    <2>1. CASE /\ Buffered(Stream(h)) /\ Len(all) = Len(buf) /\ i \in 1 .. Len(buf)
               /\ buf[i].key = Stream(h) /\ Grew(all[i], buf[i], h, p)
      <3>1. PICK b, o : b = all[i] /\ o = buf[i]
        OBVIOUS
      <3>2. BufOK(o, g) /\ Grew(b, o, h, p) /\ o.key = Stream(h)
        BY <1>2, <2>1, <3>1
      <3>3. Len(o.segs) \in Nat /\ Len(o.segs) >= 1 /\ b \in Bufs
        BY <3>2, BufFacts DEF BufOK, Grew
      <3>4. ASSUME NEW j \in 1 .. Len(b.segs)
            PROVE  Stream(b.segs[j][1]) = b.key /\ b.segs[j][2] \in g[b.segs[j][1]]
        <4>1. CASE j \in 1 .. Len(o.segs)
          BY <3>2, <4>1 DEF BufOK, Grew
        <4>2. CASE j = Len(o.segs) + 1
          BY <1>3, <3>2, <4>2 DEF Grew
        <4>3. QED
          BY <3>2, <3>3, <4>1, <4>2 DEF Grew
      <3>5. b.segs[1][2] = 1 => b.claim = HelloOf[b.segs[1][1]].size
        <4>1. b.segs[1] = o.segs[1] /\ b.claim = o.claim
          BY <3>2, <3>3 DEF Grew
        <4>2. QED
          BY <3>2, <4>1 DEF BufOK
      <3>6. Len(b.segs) >= 1
        BY <3>2, <3>3 DEF Grew
      <3>7. BufOK(b, g)
        BY <3>3, <3>4, <3>5, <3>6 DEF BufOK
      <3>8. Len(all) <= Len(buf) + 1 /\ b.key = Stream(h)
        BY <1>1, <2>1, <3>2 DEF Grew
      <3>9. QED
        BY <3>1, <3>7, <3>8
    <2>2. CASE /\ ~Buffered(Stream(h)) /\ Len(all) = Len(buf) + 1
               /\ all[i] = [key |-> Stream(h), claim |-> claim, segs |-> <<<<h, p>>>>]
      <3>1. PICK b : b = all[i]
        OBVIOUS
      <3>2. /\ b.key = Stream(h) /\ b.claim = claim /\ Len(b.segs) = 1 /\ b.segs[1] = <<h, p>>
            /\ b \in Bufs
        <4>1. b.key = Stream(h) /\ b.claim = claim /\ b.segs = <<<<h, p>>>>
          BY <2>2, <3>1
        <4>2. Len(<<<<h, p>>>>) = 1 /\ <<<<h, p>>>>[1] = <<h, p>>
          OBVIOUS
        <4>3. b \in Bufs
          BY <1>4, <3>1, BufFacts
        <4>4. QED
          BY <4>1, <4>2, <4>3
      <3>3. p = 1 => claim = HelloOf[h].size
        BY DEF Claims
      <3>4. \A j \in 1 .. Len(b.segs) : j = 1
        BY <3>2
      <3>5. BufOK(b, g)
        BY <1>3, <3>2, <3>3, <3>4 DEF BufOK
      <3>6. QED
        BY <1>1, <2>2, <3>1, <3>2, <3>5
    <2>3. QED
      BY <2>1, <2>2 DEF Added
  <1>6. ASSUME NEW j \in 1 .. Len(all), j # i
        PROVE  all[j].key # Stream(h) /\ Waits(all[j]) /\ BufOK(all[j], g) /\ all[j].key \notin done
    <2>1. j \in 1 .. Len(buf) /\ all[j] = buf[j]
      BY <1>4, <1>6
    <2>2. buf[j].key # Stream(h)
      <3>1. CASE Buffered(Stream(h))
        <4>1. i \in 1 .. Len(buf) /\ buf[i].key = Stream(h)
          BY <3>1 DEF Added
        <4>2. QED
          BY <1>1, <1>6, <2>1, <4>1 DEF Unique
      <3>2. CASE ~Buffered(Stream(h))
        BY <1>1, <2>1, <3>2 DEF Buffered
      <3>3. QED
        BY <3>1, <3>2
    <2>3. QED
      BY <1>1, <1>2, <2>1, <2>2
  <1>7. Unique(all)
    <2>1. ASSUME NEW x \in 1 .. Len(all), NEW y \in 1 .. Len(all), all[x].key = all[y].key
          PROVE  x = y
      <3>1. CASE x = i \/ y = i
        BY <1>5, <1>6, <2>1, <3>1
      <3>2. CASE x # i /\ y # i
        BY <1>1, <1>4, <2>1, <3>2 DEF Unique
      <3>3. QED
        BY <3>1, <3>2
    <2>2. QED
      BY <2>1 DEF Unique
  <1>8. Len(all) <= MaxStreams + 1
    BY <1>1, <1>4, <1>5, HelloConstants
  <1>9. QED
    BY <1>4, <1>5, <1>6, <1>7, <1>8 DEF Sound

\* The table after the eviction that a feed may cause, and after it.
LEMMA FedFacts ==
    ASSUME TableInv, NEW h \in Hello, NEW p \in Segs(h), NEW claim \in Claims(h, p),
           Stream(h) \notin done, NEW all, NEW i, Added(all, i, h, p, claim), NEW g, g = Seen(h, p),
           NEW r, r = Fed(Stream(h), all, all[i])
    PROVE  /\ Sound(r.buf, r.done, g) /\ Len(r.buf) <= MaxStreams
           /\ \A j \in 1 .. Len(r.buf) : Waits(r.buf[j])
           /\ IsFiniteSet(r.done) /\ Cardinality(r.done) <= MaxDone /\ r.told \subseteq r.done
           /\ \A k \in r.done \ done : \E j \in 1 .. Len(all) : all[j].key = k
           /\ Len(all) <= MaxStreams =>
                \A j \in 1 .. Len(all) :
                    \/ \E x \in 1 .. Len(r.buf) : r.buf[x] = all[j]
                    \/ j = i /\ (TooLong(all[i]) \/ Sni(all[i]) # NoName \/ Over(all[i]))
  <1>1. PICK k : k = Stream(h)
    OBVIOUS
  <1>2. /\ Sound(all, done, g) /\ all[i].key = k /\ Len(all) <= MaxStreams + 1
        /\ \A j \in 1 .. Len(all) : j # i => all[j].key # k /\ Waits(all[j])
    BY <1>1, AddedSound
  <1>3. all \in Seq(Bufs) /\ Unique(all) /\ Len(all) \in Nat /\ i \in 1 .. Len(all)
    BY <1>2, BufFacts DEF Sound, Added
  <1>4. IsFiniteSet(done) /\ Cardinality(done) <= MaxDone /\ told \subseteq done /\ k \notin done
    BY <1>1 DEF TableInv
  <1>5. PICK b, sni, tl : /\ b = all[i] /\ sni = (IF TooLong(b) THEN NoName ELSE Sni(b))
                          /\ tl = (IF sni # NoName THEN told \cup {k} ELSE told)
    OBVIOUS
  <1>6. PICK e : e = [buf |-> all, done |-> done, told |-> tl]
    OBVIOUS
  <1>7. PICK s : s = (IF TooLong(b) THEN e ELSE Evicted(e))
    OBVIOUS
  <1>8. r = IF TooLong(b) \/ sni # NoName \/ Over(b) THEN Retired(s, k) ELSE s
    BY <1>1, <1>5, <1>6, <1>7 DEF Fed
  <1>9. /\ s = [buf |-> s.buf, done |-> s.done, told |-> s.told]
        /\ Sound(s.buf, s.done, g) /\ IsFiniteSet(s.done) /\ Cardinality(s.done) <= MaxDone
        /\ s.told \subseteq s.done \cup {k} /\ (sni = NoName => s.told \subseteq s.done)
        /\ \A x \in s.done \ done : \E j \in 1 .. Len(all) : all[j].key = x
        /\ \A j \in 1 .. Len(s.buf) : \E x \in 1 .. Len(all) : s.buf[j] = all[x]
        /\ Len(all) <= MaxStreams => s.buf = all
        /\ Len(s.buf) <= MaxStreams \/ (TooLong(b) /\ s.buf = all)
    <2>1. CASE s = e
      <3>1. s.buf = all /\ s.done = done /\ s.told = tl
        BY <1>6, <2>1
      <3>2. TooLong(b) \/ Len(all) <= MaxStreams
        <4>1. CASE ~TooLong(b) /\ Len(all) > MaxStreams
          <5>1. s = Retired(e, all[1].key)
            BY <1>6, <1>7, <4>1 DEF Evicted
          <5>2. PICK c : c = all[1].key
            OBVIOUS
          <5>3. s.buf = Without(all, c)
            BY <1>4, <1>6, <5>1, <5>2, RetiredFacts
          <5>4. Dropped(s.buf, all, c)
            BY <1>3, <5>3, WithoutFacts
          <5>5. 1 \in 1 .. Len(all) /\ all[1].key = c
            BY <1>3, <5>2
          <5>6. Len(s.buf) = Len(all) - 1
            BY <5>4, <5>5 DEF Dropped
          <5>7. QED
            BY <1>3, <3>1, <5>6
        <4>2. QED
          BY <1>3, <4>1, HelloConstants
      <3>3. tl \subseteq done \cup {k} /\ (sni = NoName => tl \subseteq done)
        BY <1>4, <1>5
      <3>4. QED
        BY <1>2, <1>4, <1>6, <2>1, <3>1, <3>2, <3>3
    <2>2. CASE s # e
      <3>1. ~TooLong(b) /\ Len(all) > MaxStreams /\ s = Retired(e, all[1].key)
        BY <1>6, <1>7, <2>2 DEF Evicted
      <3>2. PICK c : c = all[1].key
        OBVIOUS
      <3>3. /\ s.buf = Without(all, c) /\ s = [buf |-> s.buf, done |-> s.done, told |-> s.told]
            /\ s.done \subseteq done \cup {c} /\ IsFiniteSet(s.done) /\ Cardinality(s.done) <= MaxDone
            /\ \A x : tl \subseteq done \cup {x} => s.told \subseteq s.done \cup ({x} \ {c})
        BY <1>4, <1>6, <3>1, <3>2, RetiredFacts, SMTT(30)
      <3>4. Dropped(s.buf, all, c)
        BY <1>3, <3>3, WithoutFacts
      <3>5. 1 \in 1 .. Len(all) /\ all[1].key = c
        BY <1>3, <3>2
      <3>6. Len(s.buf) <= MaxStreams
        <4>1. Len(s.buf) = Len(all) - 1
          BY <3>4, <3>5 DEF Dropped
        <4>2. QED
          BY <1>2, <1>3, <4>1, HelloConstants
      <3>7. s.told \subseteq s.done \cup {k}
        <4>1. tl \subseteq done \cup {k}
          BY <1>4, <1>5
        <4>2. s.told \subseteq s.done \cup ({k} \ {c})
          BY <3>3, <4>1
        <4>3. QED
          BY <4>2
      <3>8. ASSUME sni = NoName
            PROVE  s.told \subseteq s.done
        <4>1. tl \subseteq done \cup {c}
          BY <1>4, <1>5, <3>8
        <4>2. s.told \subseteq s.done \cup ({c} \ {c})
          BY <3>3, <4>1
        <4>3. QED
          BY <4>2
      <3>9. Sound(s.buf, s.done, g)
        BY <1>2, <3>3, <3>4 DEF Sound, Dropped
      <3>10. \A j \in 1 .. Len(s.buf) : \E x \in 1 .. Len(all) : s.buf[j] = all[x]
        BY <3>4 DEF Dropped
      <3>11. ~(Len(all) <= MaxStreams)
        BY <1>3, <3>1, HelloConstants
      <3>12. \A x \in s.done \ done : \E j \in 1 .. Len(all) : all[j].key = x
        BY <3>3, <3>5
      <3>13. QED
        BY <3>3, <3>6, <3>7, <3>8, <3>9, <3>10, <3>11, <3>12
    <2>3. QED
      BY <2>1, <2>2
  <1>10. CASE TooLong(b) \/ sni # NoName \/ Over(b)
    <2>1. r = Retired(s, k)
      BY <1>8, <1>10
    <2>2. PICK sb, sd, st : sb = s.buf /\ sd = s.done /\ st = s.told
      OBVIOUS
    <2>3. s = [buf |-> sb, done |-> sd, told |-> st] /\ IsFiniteSet(sd)
      BY <1>9, <2>2
    <2>4. /\ r.buf = Without(sb, k)
          /\ r.done \subseteq sd \cup {k} /\ IsFiniteSet(r.done) /\ Cardinality(r.done) <= MaxDone
          /\ \A x : st \subseteq sd \cup {x} => r.told \subseteq r.done \cup ({x} \ {k})
      BY <2>1, <2>3, RetiredFacts
    <2>5. sb \in Seq(Bufs) /\ Unique(sb) /\ Sound(sb, sd, g)
      BY <1>9, <2>2 DEF Sound
    <2>6. Dropped(r.buf, sb, k)
      BY <2>4, <2>5, WithoutFacts
    <2>7. Sound(r.buf, r.done, g)
      BY <2>4, <2>5, <2>6 DEF Sound, Dropped
    <2>8. ASSUME NEW j \in 1 .. Len(r.buf)
          PROVE  \E x \in 1 .. Len(all) : r.buf[j] = all[x] /\ all[x].key # k
      <3>1. PICK y \in 1 .. Len(sb) : r.buf[j] = sb[y] /\ sb[y].key # k
        BY <2>6 DEF Dropped
      <3>2. PICK x \in 1 .. Len(all) : sb[y] = all[x]
        BY <1>9, <2>2
      <3>3. QED
        BY <3>1, <3>2
    <2>9. \A j \in 1 .. Len(r.buf) : Waits(r.buf[j])
      BY <1>2, <2>8
    <2>10. Len(r.buf) <= MaxStreams
      <3>1. Len(sb) \in Nat /\ Len(r.buf) \in Nat /\ Len(r.buf) <= Len(sb)
        BY <2>5, <2>6, BufFacts DEF Dropped
      <3>2. CASE Len(sb) <= MaxStreams
        BY <3>1, <3>2, HelloConstants
      <3>3. CASE sb = all
        <4>1. Len(r.buf) = Len(all) - 1
          BY <1>2, <1>3, <2>6, <3>3 DEF Dropped
        <4>2. QED
          BY <1>2, <1>3, <4>1, HelloConstants
      <3>4. QED
        BY <1>9, <2>2, <3>2, <3>3
    <2>11. r.told \subseteq r.done
      <3>1. r.told \subseteq r.done \cup ({k} \ {k})
        BY <1>9, <2>2, <2>4
      <3>2. QED
        BY <3>1
    <2>12. \A x \in r.done \ done : \E j \in 1 .. Len(all) : all[j].key = x
      BY <1>2, <1>3, <1>9, <2>2, <2>4
    <2>13. ASSUME Len(all) <= MaxStreams, NEW j \in 1 .. Len(all), j # i
           PROVE  \E x \in 1 .. Len(r.buf) : r.buf[x] = all[j]
      <3>1. sb = all /\ all[j].key # k
        BY <1>2, <1>9, <2>2, <2>13
      <3>2. QED
        BY <2>6, <3>1 DEF Dropped
    <2>14. TooLong(all[i]) \/ Sni(all[i]) # NoName \/ Over(all[i])
      BY <1>5, <1>10
    <2>15. QED
      BY <2>4, <2>7, <2>9, <2>10, <2>11, <2>12, <2>13, <2>14
  <1>11. CASE ~(TooLong(b) \/ sni # NoName \/ Over(b))
    <2>1. r = s /\ ~TooLong(b) /\ sni = NoName /\ ~Over(b)
      BY <1>8, <1>11
    <2>2. Waits(all[i])
      <3>1. b \in Bufs
        BY <1>3, <1>5, BufFacts
      <3>2. b.claim \in Nat /\ Len(b.segs) \in Nat
        BY <3>1, BufFacts
      <3>3. ~(Len(b.segs) >= b.claim)
        BY <2>1 DEF Over
      <3>4. ~(Len(b.segs) > MaxStreamBuf)
        BY <2>1 DEF TooLong
      <3>5. QED
        BY <1>5, <3>2, <3>3, <3>4, HelloConstants DEF Waits
    <2>3. \A j \in 1 .. Len(r.buf) : Waits(r.buf[j])
      BY <1>2, <1>9, <2>1, <2>2
    <2>4. ASSUME Len(all) <= MaxStreams, NEW j \in 1 .. Len(all)
          PROVE  \E x \in 1 .. Len(r.buf) : r.buf[x] = all[j]
      BY <1>9, <2>1, <2>4
    <2>5. QED
      BY <1>9, <2>1, <2>3, <2>4
  <1>12. QED
    BY <1>10, <1>11

LEMMA TableInit == HelloInit => TableInv
  <1> SUFFICES ASSUME HelloInit PROVE TableInv
    OBVIOUS
  <1>1. buf = <<>> /\ done = {} /\ told = {} /\ got = [h \in Hello |-> {}]
    BY DEF HelloInit
  <1>2. buf \in Seq(Bufs) /\ Len(buf) = 0
    BY <1>1, EmptySeq
  <1>3. Sent(got) = {} /\ got \in [Hello -> SUBSET Nat]
    BY <1>1 DEF Sent
  <1>4. IsFiniteSet({}) /\ Cardinality({}) = 0
    BY FS_EmptySet
  <1>5. Sound(buf, done, got)
    BY <1>2 DEF Sound, Unique
  <1>6. IsFiniteSet(Sent(got)) /\ IsFiniteSet(done) /\ Cardinality(done) = 0
    BY <1>1, <1>3, <1>4
  <1>7. Len(buf) <= MaxStreams /\ Cardinality(done) <= MaxDone
    BY <1>2, <1>6, HelloConstants
  <1>8. \A i \in 1 .. Len(buf) : FALSE
    BY <1>2
  <1>9. told \subseteq done /\ \A k \in done : FALSE
    BY <1>1
  <1>10. QED
    BY <1>3, <1>5, <1>6, <1>7, <1>8, <1>9 DEF TableInv

\* How a feed went.
Step(all, i, r, h, p, claim) ==
    /\ claim \in Claims(h, p) /\ Added(all, i, h, p, claim) /\ r = Fed(Stream(h), all, all[i])
    /\ buf' = r.buf /\ done' = r.done /\ told' = r.told
    /\ IF ~TooLong(all[i]) /\ Sni(all[i]) # NoName
       THEN /\ found' = [of |-> h, name |-> Sni(all[i])]
            /\ named' = named \cup {all[i].segs[HelloOf[all[i].segs[1][1]].at][1]}
       ELSE found' = Nothing /\ named' = named

LEMMA FeedSteps ==
    ASSUME TableInv, NEW h \in Hello, NEW p \in Segs(h), Capture(h, p), Stream(h) \notin done
    PROVE  \E all, i, r, claim : Step(all, i, r, h, p, claim)
  <1>1. PICK claim \in Claims(h, p) : Feed(h, p, claim)
    BY DEF Capture, Ignored
  <1>2. PICK all \in {Appended(Stream(h), h, p, claim)} :
          \E b \in {x \in Range(all) : x.key = Stream(h)} :
          \E after \in {Fed(Stream(h), all, b)} :
              LET hit == ~TooLong(b) /\ Sni(b) # NoName
              IN  /\ buf' = after.buf /\ done' = after.done /\ told' = after.told
                  /\ found' = IF hit THEN [of |-> h, name |-> Sni(b)] ELSE Nothing
                  /\ named' = IF hit THEN named \cup {b.segs[HelloOf[b.segs[1][1]].at][1]}
                              ELSE named
    BY <1>1 DEF Feed
  <1>3. PICK b \in {x \in Range(all) : x.key = Stream(h)} :
          \E after \in {Fed(Stream(h), all, b)} :
              LET hit == ~TooLong(b) /\ Sni(b) # NoName
              IN  /\ buf' = after.buf /\ done' = after.done /\ told' = after.told
                  /\ found' = IF hit THEN [of |-> h, name |-> Sni(b)] ELSE Nothing
                  /\ named' = IF hit THEN named \cup {b.segs[HelloOf[b.segs[1][1]].at][1]}
                              ELSE named
    BY <1>2
  <1>4. PICK r : r = Fed(Stream(h), all, b)
    OBVIOUS
  <1>5. /\ buf' = r.buf /\ done' = r.done /\ told' = r.told
        /\ IF ~TooLong(b) /\ Sni(b) # NoName
           THEN /\ found' = [of |-> h, name |-> Sni(b)]
                /\ named' = named \cup {b.segs[HelloOf[b.segs[1][1]].at][1]}
           ELSE found' = Nothing /\ named' = named
    BY <1>3, <1>4
  <1>6. claim \in Nat
    BY HelloConstants DEF Claims
  <1>7. PICK i : Added(all, i, h, p, claim)
    BY <1>2, <1>6, AppendedFacts
  <1>8. b = all[i]
    <2>1. PICK g : g = Seen(h, p)
      OBVIOUS
    <2>2. /\ \A j \in 1 .. Len(all) : j # i => all[j].key # Stream(h)
          /\ all \in Seq(Bufs)
      BY <1>7, <2>1, AddedSound DEF Sound
    <2>3. DOMAIN all = 1 .. Len(all)
      BY <2>2, BufFacts
    <2>4. PICK j \in 1 .. Len(all) : b = all[j] /\ b.key = Stream(h)
      BY <2>3 DEF Range
    <2>5. QED
      BY <2>2, <2>4
  <1>9. Step(all, i, r, h, p, claim)
    BY <1>1, <1>4, <1>5, <1>7, <1>8 DEF Step
  <1>10. QED
    BY <1>9

LEMMA TableStep ==
    ASSUME TableInv, NEW h \in Hello, NEW p \in Segs(h), Capture(h, p)
    PROVE  TableInv'
  <1>1. PICK g : g = Seen(h, p)
    OBVIOUS
  <1>2. got' = g /\ got \in [Hello -> SUBSET Nat]
    BY <1>1 DEF Capture, Seen, TableInv
  <1>3. /\ g \in [Hello -> SUBSET Nat] /\ Sent(g) = Sent(got) \cup {h}
        /\ \A x \in Hello : got[x] \subseteq g[x]
    BY <1>1, <1>2, SeenFacts
  <1>4. IsFiniteSet(Sent(g)) /\ Sent(got) \subseteq Sent(g)
    BY <1>3, FS_AddElement DEF TableInv
  <1>5. CASE Ignored(Stream(h))
    <2>1. buf' = buf /\ done' = done /\ told' = told
      BY <1>5 DEF Capture
    <2>2. Sound(buf, done, g)
      BY <1>1, <1>2, BufKept DEF TableInv, Sound
    <2>3. \A k \in done : \E x \in Sent(g) : Stream(x) = k
      BY <1>4 DEF TableInv
    <2>4. QED
      BY <1>2, <1>3, <1>4, <2>1, <2>2, <2>3 DEF TableInv
  <1>6. CASE ~Ignored(Stream(h))
    <2>1. Stream(h) \notin done
      BY <1>6 DEF Ignored
    <2>2. PICK all, i, r, claim : Step(all, i, r, h, p, claim)
      BY <2>1, FeedSteps
    <2>3. /\ claim \in Claims(h, p) /\ Added(all, i, h, p, claim) /\ r = Fed(Stream(h), all, all[i])
          /\ buf' = r.buf /\ done' = r.done /\ told' = r.told
      BY <2>2 DEF Step
    <2>4. /\ Sound(r.buf, r.done, g) /\ Len(r.buf) <= MaxStreams
          /\ \A j \in 1 .. Len(r.buf) : Waits(r.buf[j])
          /\ IsFiniteSet(r.done) /\ Cardinality(r.done) <= MaxDone /\ r.told \subseteq r.done
          /\ \A k \in r.done \ done : \E j \in 1 .. Len(all) : all[j].key = k
      BY <1>1, <2>1, <2>3, FedFacts
    <2>5. Sound(all, done, g)
      BY <1>1, <2>1, <2>3, AddedSound
    <2>6. ASSUME NEW j \in 1 .. Len(all)
          PROVE  \E x \in Sent(g) : Stream(x) = all[j].key
      <3>1. BufOK(all[j], g)
        BY <2>5 DEF Sound
      <3>2. all[j] \in Bufs /\ 1 \in 1 .. Len(all[j].segs)
        BY <3>1, BufFacts DEF BufOK
      <3>3. all[j].segs[1] \in Hello \X Nat
        BY <3>2, BufFacts
      <3>4. Stream(all[j].segs[1][1]) = all[j].key /\ all[j].segs[1][2] \in g[all[j].segs[1][1]]
        BY <3>1, <3>2 DEF BufOK
      <3>5. all[j].segs[1][1] \in Sent(g)
        BY <3>3, <3>4 DEF Sent
      <3>6. QED
        BY <3>4, <3>5
    <2>7. \A k \in r.done : \E x \in Sent(g) : Stream(x) = k
      BY <1>4, <2>4, <2>6 DEF TableInv
    <2>8. QED
      BY <1>2, <1>3, <1>4, <2>3, <2>4, <2>7 DEF TableInv
  <1>7. QED
    BY <1>5, <1>6

LEMMA TableAlways == HelloSpec => []TableInv
  <1>1. TableInv /\ [HelloNext]_helloVars => TableInv'
    <2>1. ASSUME TableInv, UNCHANGED helloVars
          PROVE  TableInv'
      BY <2>1 DEF TableInv, helloVars
    <2>2. QED
      BY <2>1, TableStep DEF HelloNext
  <1>2. QED
    BY <1>1, TableInit, PTL DEF HelloSpec

(* "bound memory; oldest dropped first": whatever segments come in         *)
(* whatever order, the buffers, each one's bytes (even where they claim a  *)
(* record longer than any) and the finished streams stay within their      *)
(* limits, each stream has one buffer, no finished stream has one, and no  *)
(* buffer holds a record that is complete already.                         *)
THEOREM BuffersBoundedHolds == HelloSpec => []BuffersBounded
  <1>1. TableInv => BuffersBounded
    <2> SUFFICES ASSUME TableInv PROVE BuffersBounded
      OBVIOUS
    <2>1. buf \in Seq(Bufs) /\ DOMAIN buf = 1 .. Len(buf) /\ Unique(buf)
      BY BufFacts DEF TableInv, Sound
    <2>2. \A b \in Range(buf) : /\ b.key \notin done
                               /\ Len(b.segs) < b.claim /\ Len(b.segs) <= MaxStreamBuf
      BY <2>1 DEF TableInv, Sound, Waits, Range
    <2>3. QED
      BY <2>1, <2>2 DEF TableInv, BuffersBounded, Unique
  <1>2. QED
    BY <1>1, TableAlways, PTL

(* The name given to a stream's address was sent on that stream, whole, by *)
(* one of the connections that had it, never on another one to the same    *)
(* address.                                                                *)
THEOREM NoForeignNameHolds == HelloSpec => []NoForeignName
  <1>1. HelloInit => NoForeignName
    BY DEF HelloInit, NoForeignName
  <1>2. ASSUME TableInv, NoForeignName, NEW h \in Hello, NEW p \in Segs(h), Capture(h, p)
        PROVE  NoForeignName'
    <2>1. CASE found' = Nothing
      BY <2>1 DEF NoForeignName, Nothing
    <2>2. CASE found' # Nothing
      <3>1. Stream(h) \notin done
        BY <1>2, <2>2 DEF Capture, Ignored
      <3>2. PICK all, i, r, claim : Step(all, i, r, h, p, claim)
        BY <1>2, <3>1, FeedSteps
      <3>3. PICK b, g : b = all[i] /\ g = Seen(h, p)
        OBVIOUS
      <3>4. Sni(b) # NoName /\ found' = [of |-> h, name |-> Sni(b)]
        BY <2>2, <3>2, <3>3 DEF Step
      <3>5. got' = g
        BY <1>2, <3>3 DEF Capture, Seen
      <3>6. BufOK(b, g) /\ b.key = Stream(h)
        <4>1. claim \in Claims(h, p) /\ Added(all, i, h, p, claim)
          BY <3>2 DEF Step
        <4>2. Sound(all, done, g) /\ all[i].key = Stream(h) /\ i \in 1 .. Len(all)
          BY <1>2, <3>1, <3>3, <4>1, AddedSound DEF Added
        <4>3. QED
          BY <3>3, <4>2 DEF Sound
      <3>7. PICK at : at = HelloOf[b.segs[1][1]].at
        OBVIOUS
      <3>8. /\ b.segs[1][2] = 1 /\ Len(b.segs) >= b.claim /\ HelloOf[b.segs[at][1]].at = at
            /\ \A j \in 1 .. at : b.segs[j][2] = j
            /\ Sni(b) = HelloOf[b.segs[at][1]].name
        BY <3>4, <3>7 DEF Sni
      <3>9. at \in 1 .. Len(b.segs) /\ b.segs[at] \in Hello \X Nat
        <4>1. b \in Bufs /\ Len(b.segs) \in Nat /\ 1 \in 1 .. Len(b.segs)
          BY <3>6, BufFacts DEF BufOK
        <4>2. PICK f : f = b.segs[1][1]
          OBVIOUS
        <4>3. f \in Hello
          BY <4>1, <4>2, BufFacts
        <4>4. b.claim = HelloOf[f].size
          BY <3>6, <3>8, <4>2 DEF BufOK
        <4>5. at \in 1 .. HelloOf[f].size /\ HelloOf[f].size \in Nat
          BY <3>7, <4>2, <4>3, HelloConstants
        <4>6. at \in 1 .. Len(b.segs)
          BY <3>8, <4>1, <4>4, <4>5
        <4>7. QED
          BY <4>1, <4>6, BufFacts
      <3>10. PICK x : x = b.segs[at][1]
        OBVIOUS
      <3>11. x \in Hello /\ Stream(x) = Stream(h) /\ at \in g[x] /\ HelloOf[x].at = at
        <4>1. Stream(x) = b.key /\ b.segs[at][2] \in g[x]
          BY <3>6, <3>9, <3>10 DEF BufOK
        <4>2. at \in 1 .. at
          BY <3>9
        <4>3. QED
          BY <3>6, <3>8, <3>9, <3>10, <4>1, <4>2
      <3>12. SamePorts(x, h)
        BY <3>11 DEF Stream, SamePorts
      <3>13. found'.of = h /\ found'.name = HelloOf[x].name
        BY <3>4, <3>8, <3>10
      <3>14. QED
        BY <3>5, <3>11, <3>12, <3>13 DEF NoForeignName
    <2>3. QED
      BY <2>1, <2>2
  <1>3. TableInv /\ NoForeignName /\ [HelloNext]_helloVars => NoForeignName'
    <2>1. ASSUME NoForeignName, UNCHANGED helloVars
          PROVE  NoForeignName'
      BY <2>1 DEF NoForeignName, helloVars
    <2>2. QED
      BY <1>2, <2>1 DEF HelloNext
  <1>4. QED
    BY <1>1, <1>3, TableAlways, PTL DEF HelloSpec

(* "Returns (sni, dst_ip) once": hellos captured again, or of a later      *)
(* connection on the same ports, name no stream a second time, unless the  *)
(* set of finished streams was emptied in between.                         *)
THEOREM OnceEachHelloHolds == HelloSpec => OnceEachHello
  <1>1. TableInv /\ [HelloNext]_helloVars => [found' # Nothing => Stream(found'.of) \notin told]_helloVars
    <2> SUFFICES ASSUME TableInv, NEW h \in Hello, NEW p \in Segs(h), Capture(h, p), found' # Nothing
                 PROVE  Stream(found'.of) \notin told
      BY DEF HelloNext
    <2>1. Stream(h) \notin done
      BY DEF Capture, Ignored
    <2>2. PICK all, i, r, claim : Step(all, i, r, h, p, claim)
      BY <2>1, FeedSteps
    <2>3. found' = [of |-> h, name |-> Sni(all[i])]
      BY <2>2 DEF Step
    <2>4. QED
      BY <2>1, <2>3 DEF TableInv
  <1>2. QED
    BY <1>1, TableAlways, PTL DEF HelloSpec, OnceEachHello

-----------------------------------------------------------------------------
(* A hello that comes in order.                                            *)

StreamsOf(g) == {Stream(x) : x \in Sent(g)}

\* More streams than the table has room for have been used.
Overfull == Cardinality(StreamsOf(got)) > MaxStreams

\* Buffer b holds the first n segments of h and nothing else.
Holds(b, h, n) ==
    /\ b.key = Stream(h) /\ b.claim = HelloOf[h].size /\ Len(b.segs) = n
    /\ \A j \in 1 .. n : b.segs[j] = <<h, j>>

Gathered(h, n) == \E i \in 1 .. Len(buf) : Holds(buf[i], h, n)

\* No connection has taken over the ports of h.
NoneLater(h) == \A x \in Hello : SamePorts(x, h) /\ x > h => got[x] = {}

TidyFor(h) ==
    /\ 1 \in got[h] => \A x \in Hello : SamePorts(x, h) /\ x < h => got[x] = {}
    /\ \A n \in 1 .. HelloOf[h].size - 1 :
          got[h] = 1 .. n /\ NoneLater(h) => Gathered(h, n) \/ Overfull
    /\ 1 .. HelloOf[h].size \subseteq got[h] => h \in named \/ Overfull

TidyInv == tidy \subseteq Hello /\ \A h \in tidy : HelloOf[h].name # NoName => TidyFor(h)

LEMMA StreamsFinite ==
    ASSUME NEW g, IsFiniteSet(Sent(g))
    PROVE  IsFiniteSet(StreamsOf(g)) /\ Cardinality(StreamsOf(g)) \in Nat
  <1>1. PICK f : f = [x \in Sent(g) |-> Stream(x)]
    OBVIOUS
  <1>2. f \in [Sent(g) -> StreamsOf(g)]
    BY <1>1 DEF StreamsOf
  <1>3. \A t \in StreamsOf(g) : \E x \in Sent(g) : f[x] = t
    BY <1>1 DEF StreamsOf
  <1>4. f \in Surjection(Sent(g), StreamsOf(g))
    BY <1>2, <1>3 DEF Surjection
  <1>5. IsFiniteSet(StreamsOf(g))
    BY <1>4, FS_Surjection
  <1>6. QED
    BY <1>5, FS_CardinalityType

\* Each buffer is of a stream that was used.
LEMMA ManyStreams ==
    ASSUME NEW g, IsFiniteSet(Sent(g)), NEW bs, NEW d, Sound(bs, d, g)
    PROVE  Len(bs) <= Cardinality(StreamsOf(g))
  <1>1. Len(bs) \in Nat /\ bs \in Seq(Bufs) /\ \A j \in 1 .. Len(bs) : BufOK(bs[j], g)
    BY BufFacts DEF Sound
  <1>2. ASSUME NEW j \in 1 .. Len(bs)
        PROVE  bs[j].key \in StreamsOf(g)
    <2>1. BufOK(bs[j], g) /\ bs[j] \in Bufs
      BY <1>1, BufFacts
    <2>2. 1 \in 1 .. Len(bs[j].segs)
      BY <2>1, BufFacts DEF BufOK
    <2>3. bs[j].segs[1] \in Hello \X Nat
      BY <2>1, <2>2, BufFacts
    <2>4. Stream(bs[j].segs[1][1]) = bs[j].key /\ bs[j].segs[1][2] \in g[bs[j].segs[1][1]]
      BY <2>1, <2>2 DEF BufOK
    <2>5. bs[j].segs[1][1] \in Sent(g)
      BY <2>3, <2>4 DEF Sent
    <2>6. QED
      BY <2>4, <2>5 DEF StreamsOf
  <1>3. PICK n : n = Len(bs)
    OBVIOUS
  <1>4. PICK f : f = [j \in 1 .. n |-> bs[j].key]
    OBVIOUS
  <1>5. f \in [1 .. n -> StreamsOf(g)]
    BY <1>2, <1>3, <1>4
  <1>6. \A x, y \in 1 .. n : f[x] = f[y] => x = y
    BY <1>3, <1>4 DEF Sound, Unique
  <1>7. f \in Injection(1 .. n, StreamsOf(g))
    BY <1>5, <1>6 DEF Injection, IsInjective
  <1>8. Cardinality(1 .. n) <= Cardinality(StreamsOf(g))
    BY <1>7, StreamsFinite, FS_Injection
  <1>9. 1 \in Int /\ n \in Int /\ n >= 0
    BY <1>1, <1>3
  <1>10. Cardinality(1 .. n) = n
    <2>1. Cardinality(1 .. n) = IF 1 > n THEN 0 ELSE n - 1 + 1
      BY <1>9, FS_Interval
    <2>2. QED
      BY <1>9, <2>1
  <1>11. QED
    BY <1>3, <1>8, <1>10

LEMMA OverfullKept ==
    ASSUME TableInv, NEW h \in Hello, NEW p \in Segs(h), Capture(h, p), Overfull
    PROVE  Overfull'
  <1>1. PICK g : g = Seen(h, p)
    OBVIOUS
  <1>2. got' = g /\ got \in [Hello -> SUBSET Nat]
    BY <1>1 DEF Capture, Seen, TableInv
  <1>3. Sent(g) = Sent(got) \cup {h}
    BY <1>1, <1>2, SeenFacts
  <1>4. PICK s, t : s = StreamsOf(got) /\ t = StreamsOf(g)
    OBVIOUS
  <1>5. s \in SUBSET t
    BY <1>3, <1>4 DEF StreamsOf
  <1>6. IsFiniteSet(Sent(g))
    BY <1>3, FS_AddElement DEF TableInv
  <1>7. IsFiniteSet(t) /\ Cardinality(t) \in Nat
    BY <1>4, <1>6, StreamsFinite
  <1>8. Cardinality(s) <= Cardinality(t) /\ IsFiniteSet(s)
    BY <1>5, <1>7, FS_Subset
  <1>9. Cardinality(s) \in Nat /\ Cardinality(s) > MaxStreams
    BY <1>4, <1>8, FS_CardinalityType DEF Overfull
  <1>10. Cardinality(t) > MaxStreams
    BY <1>7, <1>8, <1>9, HelloConstants
  <1>11. QED
    BY <1>2, <1>4, <1>10 DEF Overfull

\* Who stays tidy sends the first segment on unused ports, and each of the
\* others after the one before it.
LEMMA TidyOrder ==
    ASSUME TableInv, TidyInv, NEW h \in Hello, NEW p \in Segs(h), Capture(h, p), h \in tidy',
           HelloOf[h].name # NoName, p <= HelloOf[h].size
    PROVE  /\ got[h] = 1 .. p - 1 /\ h \in tidy /\ p \in 1 .. HelloOf[h].size
           /\ p = 1 => \A x \in Hello : SamePorts(x, h) => got[x] = {}
           /\ NoneLater(h)
  <1>1. tidy' = IF /\ got[h] = 1 .. p - 1 \/ p > HelloOf[h].size
                   /\ p = 1 => ~Used(h) THEN tidy ELSE tidy \ {h}
    BY DEF Capture
  <1>2. p \in Nat /\ p >= 1 /\ HelloOf[h].size \in Nat
    BY HelloConstants DEF Segs
  <1>3. h \in tidy /\ got[h] = 1 .. p - 1 /\ (p = 1 => ~Used(h))
    BY <1>1, <1>2
  <1>4. ASSUME p = 1, NEW x \in Hello, SamePorts(x, h)
        PROVE  got[x] = {}
    <2>1. CASE x = h
      <3>1. 1 .. p - 1 = {}
        BY <1>4
      <3>2. QED
        BY <1>3, <2>1, <3>1
    <2>2. CASE x # h
      BY <1>3, <1>4, <2>2 DEF Used
    <2>3. QED
      BY <2>1, <2>2
  <1>5. NoneLater(h)
    BY DEF Capture, MayPass, NoneLater
  <1>6. QED
    BY <1>2, <1>3, <1>4, <1>5

\* The buffer it goes to then holds the hello up to there.
LEMMA TidyFeed ==
    ASSUME TableInv, TidyInv, NEW h \in Hello, NEW p \in Segs(h), Capture(h, p), h \in tidy',
           HelloOf[h].name # NoName, p <= HelloOf[h].size, ~Overfull
    PROVE  /\ Stream(h) \notin done
           /\ \A all, i : \A claim \in Claims(h, p) :
                Added(all, i, h, p, claim) => Holds(all[i], h, p)
  <1>1. /\ got[h] = 1 .. p - 1 /\ h \in tidy /\ p \in 1 .. HelloOf[h].size
        /\ p = 1 => \A x \in Hello : SamePorts(x, h) => got[x] = {}
        /\ NoneLater(h)
    BY TidyOrder
  <1>2. HelloOf[h].size \in Nat /\ p \in Nat
    BY <1>1, HelloConstants
  <1>3. /\ buf \in Seq(Bufs) /\ Unique(buf) /\ DOMAIN buf = 1 .. Len(buf)
        /\ \A j \in 1 .. Len(buf) : BufOK(buf[j], got) /\ buf[j].key \notin done
    BY BufFacts DEF TableInv, Sound
  <1>4. CASE p = 1
    <2>1. ASSUME NEW x \in Hello, Stream(x) = Stream(h)
          PROVE  got[x] = {}
      <3>1. SamePorts(x, h)
        BY <2>1 DEF Stream, SamePorts
      <3>2. QED
        BY <1>1, <1>4, <3>1
    <2>2. Stream(h) \notin done
      BY <2>1 DEF TableInv, Sent
    <2>3. ~Buffered(Stream(h))
      <3>1. ASSUME NEW j \in 1 .. Len(buf), buf[j].key = Stream(h)
            PROVE  FALSE
        <4>1. BufOK(buf[j], got) /\ buf[j] \in Bufs
          BY <1>3, BufFacts
        <4>2. 1 \in 1 .. Len(buf[j].segs)
          BY <4>1, BufFacts DEF BufOK
        <4>3. PICK q : q = buf[j].segs[1]
          OBVIOUS
        <4>4. q \in Hello \X Nat /\ Stream(q[1]) = Stream(h) /\ q[2] \in got[q[1]]
          BY <3>1, <4>1, <4>2, <4>3, BufFacts DEF BufOK
        <4>5. q[1] \in Hello
          BY <4>4
        <4>6. QED
          BY <2>1, <4>4, <4>5
      <3>2. QED
        BY <1>3, <3>1 DEF Buffered
    <2>4. ASSUME NEW all, NEW i, NEW claim \in Claims(h, p), Added(all, i, h, p, claim)
          PROVE  Holds(all[i], h, p)
      <3>1. PICK b : b = all[i]
        OBVIOUS
      <3>2. b = [key |-> Stream(h), claim |-> claim, segs |-> <<<<h, p>>>>] /\ claim = HelloOf[h].size
        BY <1>4, <2>3, <2>4, <3>1 DEF Added, Claims
      <3>3. b.key = Stream(h) /\ b.claim = HelloOf[h].size /\ b.segs = <<<<h, p>>>>
        BY <3>2
      <3>4. Len(<<<<h, p>>>>) = 1 /\ <<<<h, p>>>>[1] = <<h, p>>
        OBVIOUS
      <3>5. \A j \in 1 .. p : j = 1
        BY <1>4
      <3>6. Holds(b, h, p)
        BY <1>4, <3>3, <3>4, <3>5 DEF Holds
      <3>7. QED
        BY <3>1, <3>6
    <2>5. QED
      BY <2>2, <2>4
  <1>5. CASE p # 1
    <2>1. p - 1 \in 1 .. HelloOf[h].size - 1
      BY <1>1, <1>2, <1>5
    <2>2. Gathered(h, p - 1)
      BY <1>1, <2>1 DEF TidyInv, TidyFor
    <2>3. PICK m \in 1 .. Len(buf) : Holds(buf[m], h, p - 1)
      BY <2>2 DEF Gathered
    <2>4. buf[m].key = Stream(h)
      BY <2>3 DEF Holds
    <2>5. Stream(h) \notin done
      BY <1>3, <2>4
    <2>6. Buffered(Stream(h))
      BY <1>3, <2>4 DEF Buffered
    <2>7. ASSUME NEW all, NEW i, NEW claim \in Claims(h, p), Added(all, i, h, p, claim)
          PROVE  Holds(all[i], h, p)
      <3>1. i \in 1 .. Len(buf) /\ buf[i].key = Stream(h) /\ Grew(all[i], buf[i], h, p)
        BY <2>6, <2>7 DEF Added
      <3>2. i = m
        BY <1>3, <2>4, <3>1 DEF Unique
      <3>3. PICK b, o : b = all[i] /\ o = buf[i]
        OBVIOUS
      <3>4. Grew(b, o, h, p) /\ Holds(o, h, p - 1)
        BY <2>3, <3>1, <3>2, <3>3
      <3>5. Len(o.segs) = p - 1 /\ (p - 1) + 1 = p
        BY <1>2, <3>4 DEF Holds
      <3>6. /\ b.key = Stream(h) /\ b.claim = HelloOf[h].size
            /\ Len(b.segs) = p /\ b.segs[p] = <<h, p>>
        BY <3>4, <3>5 DEF Grew, Holds
      <3>7. ASSUME NEW j \in 1 .. p
            PROVE  b.segs[j] = <<h, j>>
        <4>1. CASE j = p
          BY <3>6, <4>1
        <4>2. CASE j # p
          <5>1. j \in 1 .. p - 1
            BY <1>2, <4>2
          <5>2. b.segs[j] = o.segs[j] /\ o.segs[j] = <<h, j>>
            BY <3>4, <3>5, <5>1 DEF Grew, Holds
          <5>3. QED
            BY <5>2
        <4>3. QED
          BY <4>1, <4>2
      <3>8. QED
        BY <3>3, <3>6, <3>7 DEF Holds
    <2>8. QED
      BY <2>5, <2>7
  <1>6. QED
    BY <1>4, <1>5

\* A buffer that may stay does, or more streams are used than the table holds.
LEMMA BufferStays ==
    ASSUME TableInv, NEW h \in Hello, NEW p \in Segs(h), Capture(h, p), Stream(h) \notin done,
           NEW all, NEW i, NEW r, NEW claim, Step(all, i, r, h, p, claim),
           NEW j \in 1 .. Len(all), j # i \/ ~(TooLong(all[i]) \/ Sni(all[i]) # NoName \/ Over(all[i]))
    PROVE  Overfull' \/ \E x \in 1 .. Len(buf') : buf'[x] = all[j]
  <1>1. PICK g : g = Seen(h, p)
    OBVIOUS
  <1>2. /\ claim \in Claims(h, p) /\ Added(all, i, h, p, claim) /\ r = Fed(Stream(h), all, all[i])
        /\ buf' = r.buf
    BY DEF Step
  <1>3. got' = g /\ got \in [Hello -> SUBSET Nat]
    BY <1>1 DEF Capture, Seen, TableInv
  <1>4. Sound(all, done, g)
    BY <1>1, <1>2, AddedSound
  <1>5. CASE Len(all) <= MaxStreams
    <2>1. \/ \E x \in 1 .. Len(r.buf) : r.buf[x] = all[j]
          \/ j = i /\ (TooLong(all[i]) \/ Sni(all[i]) # NoName \/ Over(all[i]))
      BY <1>1, <1>2, <1>5, FedFacts
    <2>2. QED
      BY <1>2, <2>1
  <1>6. CASE ~(Len(all) <= MaxStreams)
    <2>1. IsFiniteSet(Sent(g))
      <3>1. Sent(g) = Sent(got) \cup {h}
        BY <1>1, <1>3, SeenFacts
      <3>2. QED
        BY <3>1, FS_AddElement DEF TableInv
    <2>2. Len(all) <= Cardinality(StreamsOf(g)) /\ Cardinality(StreamsOf(g)) \in Nat
      BY <1>4, <2>1, ManyStreams, StreamsFinite
    <2>3. Len(all) \in Nat
      BY <1>4, BufFacts DEF Sound
    <2>4. Cardinality(StreamsOf(g)) > MaxStreams
      BY <1>6, <2>2, <2>3, HelloConstants
    <2>5. QED
      BY <1>3, <2>4 DEF Overfull
  <1>7. QED
    BY <1>5, <1>6

\* What the parse of a hello makes of its buffer.
LEMMA ParseFacts ==
    ASSUME NEW h \in Hello, HelloOf[h].name # NoName, NEW p \in 1 .. HelloOf[h].size,
           NEW b, Holds(b, h, p)
    PROVE  /\ ~TooLong(b)
           /\ p < HelloOf[h].size => Sni(b) = NoName /\ ~Over(b)
           /\ p = HelloOf[h].size => Sni(b) = HelloOf[h].name
           /\ p = HelloOf[h].size => b.segs[HelloOf[b.segs[1][1]].at][1] = h
  <1>1. PICK at, size : at = HelloOf[h].at /\ size = HelloOf[h].size
    OBVIOUS
  <1>2. /\ size \in Nat /\ size <= MaxStreamBuf /\ MaxStreamBuf \in Nat /\ at \in 1 .. size
        /\ p \in 1 .. size
    BY <1>1, HelloConstants
  <1>3. /\ Len(b.segs) = p /\ b.claim = size /\ \A j \in 1 .. p : b.segs[j] = <<h, j>>
    BY <1>1 DEF Holds
  <1>4. b.segs[1] = <<h, 1>>
    BY <1>2, <1>3
  <1>5. ~TooLong(b)
    BY <1>2, <1>3 DEF TooLong
  <1>6. ASSUME p < size
        PROVE  Sni(b) = NoName /\ ~Over(b)
    <2>1. ~(Len(b.segs) >= b.claim) /\ b.claim # 0
      BY <1>2, <1>3, <1>6
    <2>2. QED
      BY <2>1 DEF Sni, Over
  <1>7. ASSUME p = size
        PROVE  Sni(b) = HelloOf[h].name /\ b.segs[HelloOf[b.segs[1][1]].at][1] = h
    <2>1. HelloOf[b.segs[1][1]].at = at
      BY <1>1, <1>4
    <2>2. b.segs[at] = <<h, at>>
      BY <1>2, <1>3, <1>7
    <2>3. \A j \in 1 .. at : b.segs[j][2] = j
      BY <1>2, <1>3, <1>7
    <2>4. HelloOf[b.segs[at][1]].at = at
      BY <1>1, <2>2
    <2>5. Len(b.segs) >= b.claim
      BY <1>2, <1>3, <1>7
    <2>6. Sni(b) = HelloOf[b.segs[at][1]].name
      BY <1>4, <2>1, <2>3, <2>4, <2>5 DEF Sni
    <2>7. QED
      BY <2>1, <2>2, <2>6
  <1>8. QED
    BY <1>1, <1>5, <1>6, <1>7

LEMMA NamedKept ==
    ASSUME TableInv, NEW h \in Hello, NEW p \in Segs(h), Capture(h, p)
    PROVE  named \subseteq named'
  <1>1. CASE Stream(h) \in done
    BY <1>1 DEF Capture, Ignored
  <1>2. CASE Stream(h) \notin done
    <2>1. PICK all, i, r, claim : Step(all, i, r, h, p, claim)
      BY <1>2, FeedSteps
    <2>2. QED
      BY <2>1 DEF Step
  <1>3. QED
    BY <1>1, <1>2

\* The hello whose segment came.
LEMMA TidySender ==
    ASSUME TableInv, TidyInv, NEW h \in Hello, NEW p \in Segs(h), Capture(h, p), h \in tidy',
           HelloOf[h].name # NoName
    PROVE  TidyFor(h)'
  <1>1. /\ got' = Seen(h, p) /\ got \in [Hello -> SUBSET Nat]
        /\ Overfull => Overfull'
    BY OverfullKept DEF Capture, Seen, TableInv
  <1>2. /\ got'[h] = got[h] \cup {p} /\ \A x \in Hello : x # h => got'[x] = got[x]
    BY <1>1, SeenFacts
  <1>3. h \in tidy /\ TidyFor(h)
    BY DEF Capture, TidyInv
  <1>4. HelloOf[h].size \in Nat /\ HelloOf[h].size >= 1 /\ p \in Nat /\ Hello \subseteq Nat
    BY HelloConstants
  <1>5. ASSUME 1 \in got'[h], NEW x \in Hello, SamePorts(x, h), x < h
        PROVE  got'[x] = {}
    <2>1. x # h
      BY <1>4, <1>5
    <2>2. CASE 1 \in got[h]
      BY <1>2, <1>3, <1>5, <2>1, <2>2 DEF TidyFor
    <2>3. CASE p = 1
      BY <1>2, <1>4, <1>5, <2>1, <2>3, TidyOrder
    <2>4. QED
      BY <1>2, <1>5, <2>2, <2>3
  <1>6. ASSUME p <= HelloOf[h].size, ~Overfull
        PROVE  \/ Overfull'
               \/ p = HelloOf[h].size /\ h \in named'
               \/ p < HelloOf[h].size /\ Gathered(h, p)'
    <2>1. p \in 1 .. HelloOf[h].size
      BY <1>6, TidyOrder
    <2>2. Stream(h) \notin done
      BY <1>6, TidyFeed
    <2>3. PICK all, i, r, claim : Step(all, i, r, h, p, claim)
      BY <2>2, FeedSteps
    <2>4. claim \in Claims(h, p) /\ Added(all, i, h, p, claim) /\ i \in 1 .. Len(all)
      BY <2>3 DEF Step, Added
    <2>5. PICK b : b = all[i]
      OBVIOUS
    <2>6. Holds(b, h, p)
      BY <1>6, <2>4, <2>5, TidyFeed
    <2>7. CASE p < HelloOf[h].size
      <3>1. ~(TooLong(all[i]) \/ Sni(all[i]) # NoName \/ Over(all[i]))
        BY <2>1, <2>5, <2>6, <2>7, ParseFacts
      <3>2. Overfull' \/ \E x \in 1 .. Len(buf') : buf'[x] = all[i]
        BY <2>2, <2>3, <2>4, <3>1, BufferStays
      <3>3. (\E x \in 1 .. Len(buf') : buf'[x] = all[i]) => Gathered(h, p)'
        BY <2>5, <2>6 DEF Gathered
      <3>4. QED
        BY <2>7, <3>2, <3>3
    <2>8. CASE p = HelloOf[h].size
      <3>1. ~TooLong(b) /\ Sni(b) # NoName /\ b.segs[HelloOf[b.segs[1][1]].at][1] = h
        BY <2>1, <2>6, <2>8, ParseFacts
      <3>2. h \in named'
        BY <2>3, <2>5, <3>1 DEF Step
      <3>3. QED
        BY <2>8, <3>2
    <2>9. QED
      BY <1>4, <1>6, <2>7, <2>8
  <1>7. ASSUME NEW n \in 1 .. HelloOf[h].size - 1, got'[h] = 1 .. n
        PROVE  Gathered(h, n)' \/ Overfull'
    <2>1. p \in 1 .. n
      BY <1>2, <1>7
    <2>2. p <= HelloOf[h].size /\ n \in Nat
      BY <1>4, <2>1
    <2>3. got[h] = 1 .. p - 1
      BY <2>2, TidyOrder
    <2>4. n = p
      <3>1. n \in 1 .. n
        BY <2>1, <2>2
      <3>2. n \in 1 .. p - 1 \/ n = p
        BY <1>2, <1>7, <2>3, <3>1
      <3>3. QED
        BY <1>4, <2>1, <2>2, <3>2
    <2>5. p < HelloOf[h].size
      BY <1>4, <2>4
    <2>6. QED
      BY <1>1, <1>4, <1>6, <2>2, <2>4, <2>5
  <1>8. ASSUME 1 .. HelloOf[h].size \subseteq got'[h]
        PROVE  h \in named' \/ Overfull'
    <2>1. CASE 1 .. HelloOf[h].size \subseteq got[h]
      BY <1>1, <1>3, <2>1, NamedKept DEF TidyFor
    <2>2. CASE ~(1 .. HelloOf[h].size \subseteq got[h])
      <3>1. p \in 1 .. HelloOf[h].size
        BY <1>2, <1>8, <2>2
      <3>2. got[h] = 1 .. p - 1 /\ p <= HelloOf[h].size
        BY <1>4, <3>1, TidyOrder
      <3>3. HelloOf[h].size \in 1 .. HelloOf[h].size
        BY <1>4
      <3>4. HelloOf[h].size \in 1 .. p - 1 \/ HelloOf[h].size = p
        BY <1>2, <1>8, <3>2, <3>3
      <3>5. HelloOf[h].size = p
        BY <1>4, <3>1, <3>4
      <3>6. QED
        BY <1>1, <1>4, <1>6, <3>2, <3>5
    <2>3. QED
      BY <2>1, <2>2
  <1>9. QED
    BY <1>5, <1>7, <1>8 DEF TidyFor

\* Another hello, while that segment came.
LEMMA TidyOther ==
    ASSUME TableInv, TidyInv, NEW h \in Hello, NEW p \in Segs(h), Capture(h, p),
           NEW x \in tidy', x # h, HelloOf[x].name # NoName
    PROVE  TidyFor(x)'
  <1>1. /\ got' = Seen(h, p) /\ got \in [Hello -> SUBSET Nat]
        /\ Overfull => Overfull'
    BY OverfullKept DEF Capture, Seen, TableInv
  <1>2. x \in tidy /\ x \in Hello /\ TidyFor(x)
    BY DEF Capture, TidyInv
  <1>3. /\ got'[x] = got[x] /\ p \in got'[h]
        /\ \A y \in Hello : got[y] \subseteq got'[y] /\ (y # h => got'[y] = got[y])
    BY <1>1, <1>2, SeenFacts
  <1>4. HelloOf[x].size \in Nat /\ HelloOf[x].size >= 1 /\ Hello \subseteq Nat
    BY <1>2, HelloConstants
  <1>5. SamePorts(x, h) /\ x > h => got[x] = {}
    BY <1>2 DEF Capture, MayPass
  <1>6. ASSUME 1 \in got'[x], NEW y \in Hello, SamePorts(y, x), y < x
        PROVE  got'[y] = {}
    <2>1. CASE y = h
      <3>1. SamePorts(x, h) /\ x > h
        BY <1>2, <1>4, <1>6, <2>1 DEF SamePorts
      <3>2. QED
        BY <1>3, <1>5, <1>6, <3>1
    <2>2. CASE y # h
      BY <1>2, <1>3, <1>6, <2>2 DEF TidyFor
    <2>3. QED
      BY <2>1, <2>2
  <1>7. ASSUME NEW n \in 1 .. HelloOf[x].size - 1, got'[x] = 1 .. n, NoneLater(x)'
        PROVE  Gathered(x, n)' \/ Overfull'
    <2>1. got[x] = 1 .. n /\ 1 \in got[x]
      BY <1>3, <1>4, <1>7
    <2>2. NoneLater(x)
      BY <1>3, <1>7 DEF NoneLater
    <2>3. Gathered(x, n) \/ Overfull
      BY <1>2, <1>7, <2>1, <2>2 DEF TidyFor
    <2>4. Stream(x) # Stream(h)
      <3>1. ~SamePorts(h, x)
        <4>1. CASE h > x
          BY <1>3, <1>7, <4>1 DEF NoneLater
        <4>2. CASE h < x
          BY <1>4, <1>5, <2>1, <4>2 DEF SamePorts
        <4>3. QED
          BY <1>2, <1>4, <4>1, <4>2
      <3>2. QED
        BY <3>1 DEF SamePorts, Stream
    <2>5. CASE Gathered(x, n)
      <3>1. PICK j \in 1 .. Len(buf) : Holds(buf[j], x, n)
        BY <2>5 DEF Gathered
      <3>2. CASE Stream(h) \in done
        <4>1. buf' = buf
          BY <3>2 DEF Capture, Ignored
        <4>2. QED
          BY <2>5, <4>1 DEF Gathered
      <3>3. CASE Stream(h) \notin done
        <4>1. PICK all, i, r, claim : Step(all, i, r, h, p, claim)
          BY <3>3, FeedSteps
        <4>2. claim \in Claims(h, p) /\ Added(all, i, h, p, claim)
          BY <4>1 DEF Step
        <4>3. buf[j].key = Stream(x) /\ Len(buf) \in Nat
          BY <3>1, BufFacts DEF Holds, TableInv, Sound
        <4>4. j # i
          BY <2>4, <4>2, <4>3 DEF Added
        <4>5. j \in 1 .. Len(all) /\ all[j] = buf[j]
          BY <4>2, <4>4 DEF Added
        <4>6. Overfull' \/ \E y \in 1 .. Len(buf') : buf'[y] = all[j]
          BY <3>3, <4>1, <4>4, <4>5, BufferStays
        <4>7. QED
          BY <3>1, <4>5, <4>6 DEF Gathered
      <3>4. QED
        BY <3>2, <3>3
    <2>6. QED
      BY <1>1, <2>3, <2>5
  <1>8. ASSUME 1 .. HelloOf[x].size \subseteq got'[x]
        PROVE  x \in named' \/ Overfull'
    BY <1>1, <1>2, <1>3, <1>8, NamedKept DEF TidyFor
  <1>9. QED
    BY <1>6, <1>7, <1>8 DEF TidyFor

(* What reassembly is for: a hello split into segments that come in order  *)
(* and once, on ports not used before, whatever is captured of others in   *)
(* between, is named when the last of them has come, or else more streams  *)
(* have been used than the table has room for.                             *)
THEOREM TidyHelloParsesHolds == HelloSpec => []TidyHelloParses
  <1>1. HelloInit => TidyInv
    <2> SUFFICES ASSUME HelloInit, NEW h \in Hello
                 PROVE  TidyFor(h)
      BY DEF HelloInit, TidyInv
    <2>1. got[h] = {}
      BY DEF HelloInit
    <2>2. 1 \in 1 .. HelloOf[h].size /\ \A n \in 1 .. HelloOf[h].size - 1 : 1 \in 1 .. n
      BY HelloConstants
    <2>3. QED
      BY <2>1, <2>2 DEF TidyFor
  <1>2. TableInv /\ TidyInv /\ [HelloNext]_helloVars => TidyInv'
    <2>1. ASSUME TidyInv, UNCHANGED helloVars
          PROVE  TidyInv'
      BY <2>1 DEF TidyInv, TidyFor, NoneLater, Gathered, Overfull, helloVars
    <2>2. ASSUME TableInv, TidyInv, NEW h \in Hello, NEW p \in Segs(h), Capture(h, p)
          PROVE  TidyInv'
      <3>1. tidy' \subseteq Hello
        BY <2>2 DEF TidyInv, Capture
      <3>2. ASSUME NEW x \in tidy', HelloOf[x].name # NoName
            PROVE  TidyFor(x)'
        BY <2>2, <3>2, TidySender, TidyOther
      <3>3. QED
        BY <3>1, <3>2 DEF TidyInv
    <2>3. QED
      BY <2>1, <2>2 DEF HelloNext
  <1>3. TidyInv => TidyHelloParses
    <2>1. \A h \in tidy : HelloOf[h].name # NoName /\ 1 .. HelloOf[h].size \subseteq got[h] /\ TidyInv
            => h \in named \/ Overfull
      BY DEF TidyInv, TidyFor
    <2>2. QED
      BY <2>1 DEF TidyHelloParses, Overfull, StreamsOf, Sent
  <1>4. QED
    BY <1>1, <1>2, <1>3, TableAlways, PTL DEF HelloSpec
=============================================================================
