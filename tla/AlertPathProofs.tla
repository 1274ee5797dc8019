-------------------------- MODULE AlertPathProofs --------------------------
(***************************************************************************)
(* Proofs about AlertPath, for all processes, detectors, thresholds and    *)
(* list lengths.                                                           *)
(***************************************************************************)
EXTENDS AlertPath, SequenceTheorems, TLAPS

(* The bounds as separate facts.                                           *)
LEMMA Bounds ==
    /\ Cooldown \in Nat /\ 0 < Cooldown /\ Cooldown <= MaxHeat
    /\ ReportAt \in Nat /\ 0 < ReportAt
    /\ MaxHeat \in Nat /\ MaxAlerts \in Nat /\ Settling \in Nat
    /\ Absent \notin Nat
BY AlertAssumption

(* A push leaves the cooldowns and the queue well typed: it appends the    *)
(* source and starts its cooldown, or does nothing while that runs.        *)
LEMMA PushTyped ==
    ASSUME NEW s \in Source, TypeOK, Push(s)
    PROVE  /\ last' \in [Source -> 0 .. Cooldown \cup {Absent}]
           /\ queue' \in Seq(Source)
<1>1. 0 \in 0 .. Cooldown
  BY Bounds
<1>2. CASE Muted(s)
  BY <1>2 DEF TypeOK, Push
<1>3. CASE ~Muted(s)
  <2>1. /\ last' = [last EXCEPT ![s] = 0]
        /\ queue' = Append(queue, s)
    BY <1>3 DEF Push
  <2>2. last' \in [Source -> 0 .. Cooldown \cup {Absent}]
    BY <1>1, <2>1 DEF TypeOK
  <2>3. queue' \in Seq(Source)
    BY <2>1 DEF TypeOK
  <2> QED BY <2>2, <2>3
<1> QED BY <1>2, <1>3

(* The alert list never outgrows its limit.                                *)
LEMMA NewestTyped ==
    ASSUME NEW list \in Seq(Source)
    PROVE  /\ Newest(list) \in Seq(Source)
           /\ Len(Newest(list)) <= MaxAlerts
<1> DEFINE n == IF Len(list) > MaxAlerts THEN MaxAlerts ELSE Len(list)
<1>1. /\ n \in Nat
      /\ n <= MaxAlerts
      /\ n <= Len(list)
  BY AlertAssumption
<1>2. \A i \in 1 .. n : list[i] \in Source
  BY <1>1
<1>3. /\ SubSeq(list, 1, n) \in Seq(Source)
      /\ Len(SubSeq(list, 1, n)) = IF 1 <= n THEN n - 1 + 1 ELSE 0
  <2> HIDE DEF n
  <2> QED BY <1>1, <1>2, SubSeqProperties
<1>4. Newest(list) = SubSeq(list, 1, n)
  BY DEF Newest
<1> HIDE DEF n
<1> QED BY <1>1, <1>3, <1>4

(* The head of the queue is a source; a red one is some process's.         *)
LEMMA HeadRed ==
    ASSUME NEW s \in Source
    PROVE  /\ Colour(s) \in {"RED", "AMBER"}
           /\ Colour(s) = "RED" => s[1] \in Pid /\ s = <<s[1], "red">>
BY DEF Source, Colour, Refused

(* The variables keep their types, and the alert list its bound.           *)
THEOREM TypeCorrect == Spec => []TypeOK
<1>1. Init => TypeOK
  <2> SUFFICES ASSUME Init PROVE TypeOK
    OBVIOUS
  <2>1. /\ last \in [Source -> 0 .. Cooldown \cup {Absent}]
        /\ heat \in [Pid -> 0 .. MaxHeat + 1]
    BY Bounds DEF Init
  <2>2. /\ queue \in Seq(Source)
        /\ alerts \in Seq(Source)
        /\ Len(alerts) <= MaxAlerts
    BY Bounds DEF Init
  <2>3. /\ count \in Nat
        /\ settled \in 0 .. Settling
        /\ silent \in 0 .. MaxHeat + 1
    BY Bounds DEF Init
  <2> QED BY <2>1, <2>2, <2>3 DEF Init, TypeOK
<1>2. TypeOK /\ [Next]_vars => TypeOK'
  <2> SUFFICES ASSUME TypeOK, [Next]_vars PROVE TypeOK'
    OBVIOUS
  <2>1. CASE \E p \in Pid, k \in Kinds : Alert(p, k)
    <3>1. PICK p \in Pid, k \in Kinds : Alert(p, k)
      BY <2>1
    <3>2. <<p, k>> \in Source
      BY DEF Source
    <3>3. Push(<<p, k>>)
      BY <3>1 DEF Alert
    <3>4. /\ last' \in [Source -> 0 .. Cooldown \cup {Absent}]
          /\ queue' \in Seq(Source)
      BY <3>2, <3>3, PushTyped
    <3> QED BY <3>1, <3>4 DEF TypeOK, Alert, hist
  <2>2. CASE AlertsDone
    BY <2>2 DEF AlertsDone, TypeOK, hist
  <2>3. CASE \E p \in Pid : Settle(p)
    <3>1. PICK p \in Pid : Settle(p)
      BY <2>3
    <3>2. <<p, "unreconciled">> \in Source
      BY DEF Source
    <3>3. CASE p \in Agents
      <4>1. /\ last' \in [Source -> 0 .. Cooldown \cup {Absent}]
            /\ queue' \in Seq(Source)
        BY <3>1, <3>2, <3>3, PushTyped DEF Settle
      <4>2. lost' \in BOOLEAN
        BY <3>1, <3>3 DEF Settle
      <4> QED BY <3>1, <3>3, <4>1, <4>2, AlertAssumption DEF TypeOK, Settle
    <3>4. CASE p \notin Agents
      <4>1. settled' \in 0 .. Settling
        BY <3>1, Bounds DEF TypeOK, Settle
      <4>2. /\ count' \in Nat
            /\ silent' \in 0 .. MaxHeat + 1
        BY <3>1, <3>4, Bounds DEF TypeOK, Settle
      <4> QED BY <3>1, <3>4, <4>1, <4>2 DEF TypeOK, Settle
    <3> QED BY <3>3, <3>4
  <2>4. CASE TickDone
    <3>1. Refused \in Source
      BY DEF Source
    <3>2. CASE count >= ReportAt
      <4>1. /\ last' \in [Source -> 0 .. Cooldown \cup {Absent}]
            /\ queue' \in Seq(Source)
        BY <2>4, <3>1, <3>2, PushTyped DEF TickDone, CountReport
      <4> QED BY <2>4, <3>2, <4>1, AlertAssumption, SMTT(30)
              DEF TypeOK, TickDone, CountReport
    <3>3. CASE ~(count >= ReportAt)
      BY <2>4, <3>3, AlertAssumption DEF TypeOK, TickDone, CountReport
    <3> QED BY <3>2, <3>3
  <2>5. CASE Elapse
    <3>1. last' \in [Source -> 0 .. Cooldown \cup {Absent}]
      BY <2>5, AlertAssumption DEF TypeOK, Elapse
    <3>2. heat' \in [Pid -> 0 .. MaxHeat + 1]
      BY <2>5, AlertAssumption DEF TypeOK, Elapse
    <3> QED BY <2>5, <3>1, <3>2 DEF TypeOK, Elapse
  <2>6. CASE DrainStart
    BY <2>6 DEF DrainStart, TypeOK, hist
  <2>7. CASE DrainOne
    <3> DEFINE s == Head(queue)
    <3>1. /\ s \in Source
          /\ Tail(queue) \in Seq(Source)
      BY <2>7, HeadTailProperties DEF DrainOne, TypeOK
    <3>2. /\ Colour(s) \in {"RED", "AMBER"}
          /\ Colour(s) = "RED" => s[1] \in Pid
      BY <3>1, HeadRed
    <3>3. <<s>> \o alerts \in Seq(Source)
      BY <3>1 DEF TypeOK
    <3>4. /\ alerts' \in Seq(Source)
          /\ Len(alerts') <= MaxAlerts
      BY <2>7, <3>3, NewestTyped DEF DrainOne
    <3>5. title' \in {"GREEN", "AMBER", "RED"}
      BY <2>7, <3>2 DEF DrainOne, Title, TypeOK
    <3>6. heat' \in [Pid -> 0 .. MaxHeat + 1]
      BY <2>7, <3>2, AlertAssumption DEF DrainOne, TypeOK
    <3>7. hidden' \subseteq Source \X {"new", "old"}
      BY <2>7, <3>1 DEF DrainOne, TypeOK
    <3> QED BY <2>7, <3>1, <3>4, <3>5, <3>6, <3>7 DEF DrainOne, TypeOK
  <2>8. CASE DrainEnd
    BY <2>8 DEF DrainEnd, TypeOK, hist
  <2>9. CASE ShowAlerts
    <3>1. hidden' \subseteq Source \X {"new", "old"}
      BY <2>9 DEF ShowAlerts, TypeOK
    <3> QED BY <2>9, <3>1 DEF ShowAlerts, TypeOK
  <2>10. CASE UNCHANGED vars
    BY <2>10 DEF vars, hist, TypeOK
  <2> QED BY <2>1, <2>2, <2>3, <2>4, <2>5, <2>6, <2>7, <2>8, <2>9, <2>10
          DEF Next
<1> QED BY <1>1, <1>2, PTL DEF Spec

-----------------------------------------------------------------------------
(* A red stays on the icon until the next click: RedStaysOnIcon is         *)
(* inductive, since only _drain adds an undisplayed red, in the step that  *)
(* turns the icon red, and only a click takes the red off the icon.        *)
THEOREM RedStaysOnIconHolds == Spec => []RedStaysOnIcon
<1>1. Init => RedStaysOnIcon
  BY DEF Init, RedStaysOnIcon
<1>2. TypeOK /\ RedStaysOnIcon /\ [Next]_vars => RedStaysOnIcon'
  <2> SUFFICES ASSUME TypeOK, RedStaysOnIcon, [Next]_vars,
                      NEW x \in hidden', x[2] = "new"
               PROVE  title' = "RED"
    BY DEF RedStaysOnIcon
  <2>1. CASE UNCHANGED <<title, hidden>>
    BY <2>1 DEF RedStaysOnIcon
  <2>2. CASE DrainOne
    <3> DEFINE s == Head(queue)
    <3>1. CASE Colour(s) = "RED"
      BY <2>2, <3>1 DEF DrainOne, Title
    <3>2. CASE Colour(s) # "RED"
      <4>1. hidden' = hidden
        BY <2>2, <3>2 DEF DrainOne
      <4>2. title = "RED"
        BY <4>1 DEF RedStaysOnIcon
      <4>3. title' = Title(Colour(s))
        BY <2>2 DEF DrainOne
      <4> QED BY <3>2, <4>2, <4>3 DEF Title
    <3> QED BY <3>1, <3>2
  <2>3. CASE ShowAlerts
    <3>1. x[2] = "old"
      BY <2>3 DEF ShowAlerts
    <3> QED BY <3>1
  <2>4. Next => UNCHANGED <<title, hidden>> \/ DrainOne \/ ShowAlerts
    BY DEF Next, Alert, AlertsDone, Settle, TickDone, Elapse, DrainStart,
           DrainEnd, hist
  <2>5. CASE UNCHANGED vars
    BY <2>1, <2>5 DEF vars, hist
  <2> QED BY <2>1, <2>2, <2>3, <2>4, <2>5
<1> QED BY <1>1, <1>2, TypeCorrect, PTL DEF Spec

-----------------------------------------------------------------------------
\* Refusals the last count did not include are among those counted now, and
\* there are none while the count cools down.
Unsaid == silent <= count /\ (Muted(Refused) => silent = 0)

(* A push about a process leaves the cooldown of the count alone.          *)
LEMMA PushOther ==
    ASSUME NEW s \in Source, NEW r \in Source, s # r, TypeOK, Push(s)
    PROVE  last'[r] = last[r]
BY DEF TypeOK, Push

(* A deputy leaves a mark: the tick in which the ReportAt-th refusal since *)
(* the last count (outside its cooldown) came says a count before it ends. *)
(* The threshold test is on `count`, which also holds refusals from during *)
(* the cooldown, hence the strengthening by Unsaid.                        *)
THEOREM DeputyLeavesMarkHolds == Spec => []DeputyLeavesMark
<1> DEFINE Inv == Unsaid /\ DeputyLeavesMark
<1>0. Refused \in Source
  BY DEF Source
<1>1. Init => Inv
  BY <1>0, Bounds DEF Init, Unsaid, DeputyLeavesMark, Muted
<1>2. TypeOK /\ Inv /\ [Next]_vars => Inv'
  <2> SUFFICES ASSUME TypeOK, Inv, [Next]_vars PROVE Inv'
    OBVIOUS
  <2>0. /\ count \in Nat /\ silent \in 0 .. MaxHeat + 1
        /\ last[Refused] \in 0 .. Cooldown \cup {Absent}
    BY <1>0 DEF TypeOK
  <2>1. CASE UNCHANGED <<last, count, silent>> /\ (pc' = "done" => pc = "done")
    BY <2>1 DEF Unsaid, DeputyLeavesMark, Muted
  <2>2. CASE \E p \in Pid, k \in Kinds : Alert(p, k)
    <3>1. PICK p \in Pid, k \in Kinds : Alert(p, k)
      BY <2>2
    <3>2. <<p, k>> \in Source /\ <<p, k>> # Refused
      BY AlertAssumption DEF Source, Refused
    <3>3. last'[Refused] = last[Refused]
      BY <1>0, <3>1, <3>2, PushOther DEF Alert
    <3> QED BY <3>1, <3>3 DEF Alert, hist, Unsaid, DeputyLeavesMark, Muted
  <2>3. CASE \E p \in Pid : Settle(p)
    <3>1. PICK p \in Pid : Settle(p)
      BY <2>3
    <3>2. pc' = "recon"
      BY <3>1 DEF Settle
    <3>3. CASE p \in Agents
      <4>1. <<p, "unreconciled">> \in Source /\ <<p, "unreconciled">> # Refused
        BY AlertAssumption DEF Source, Refused
      <4>2. last'[Refused] = last[Refused]
        BY <1>0, <3>1, <3>3, <4>1, PushOther DEF Settle
      <4>3. UNCHANGED <<count, silent>>
        BY <3>1, <3>3 DEF Settle
      <4> QED BY <3>2, <4>2, <4>3 DEF Unsaid, DeputyLeavesMark, Muted
    <3>4. CASE p \notin Agents
      <4>1. /\ count' = count + 1
            /\ last' = last
            /\ silent' = IF Muted(Refused) \/ silent > MaxHeat THEN silent
                         ELSE silent + 1
        BY <3>1, <3>4 DEF Settle
      <4>2. Muted(Refused)' = Muted(Refused)
        BY <4>1 DEF Muted
      <4>3. CASE Muted(Refused)
        BY <2>0, <3>2, <4>1, <4>2, <4>3 DEF Unsaid, DeputyLeavesMark
      <4>4. CASE ~Muted(Refused)
        BY <2>0, <3>2, <4>1, <4>2, <4>4, Bounds DEF Unsaid, DeputyLeavesMark
      <4> QED BY <4>3, <4>4
    <3> QED BY <3>3, <3>4
  <2>4. CASE TickDone
    <3>1. CASE count >= ReportAt
      <4>1. count' = 0 /\ silent' = 0
        BY <2>4, <3>1 DEF TickDone, CountReport, Unsaid
      <4> QED BY <4>1, Bounds DEF Unsaid, DeputyLeavesMark
    <3>2. CASE ~(count >= ReportAt)
      <4>1. UNCHANGED <<last, count, silent>>
        BY <2>4, <3>2 DEF TickDone, CountReport
      <4>2. silent < ReportAt
        BY <2>0, <3>2, Bounds DEF Unsaid
      <4> QED BY <4>1, <4>2 DEF Unsaid, DeputyLeavesMark, Muted
    <3> QED BY <3>1, <3>2
  <2>5. CASE Elapse
    <3>1. /\ pc' = "alerts"
          /\ UNCHANGED <<count, silent>>
          /\ last'[Refused] = IF \/ last[Refused] = Absent
                                 \/ last[Refused] = Cooldown
                              THEN last[Refused] ELSE last[Refused] + 1
      BY <1>0, <2>5 DEF Elapse
    <3>2. Muted(Refused)' => Muted(Refused)
      BY <2>0, <3>1, Bounds DEF Muted
    <3> QED BY <3>1, <3>2 DEF Unsaid, DeputyLeavesMark
  <2>6. Next => \/ UNCHANGED <<last, count, silent>> /\ (pc' = "done" => pc = "done")
                \/ \E p \in Pid, k \in Kinds : Alert(p, k)
                \/ \E p \in Pid : Settle(p)
                \/ TickDone \/ Elapse
    BY DEF Next, AlertsDone, DrainStart, DrainOne, DrainEnd, ShowAlerts, hist
  <2>7. CASE UNCHANGED vars
    BY <2>1, <2>7 DEF vars, hist
  <2> QED BY <2>1, <2>2, <2>3, <2>4, <2>5, <2>6, <2>7
<1> QED BY <1>1, <1>2, TypeCorrect, PTL DEF Spec

-----------------------------------------------------------------------------
Red(p) == <<p, "red">>
InQueue(s) == \E i \in DOMAIN queue : queue[i] = s

\* What the cooldown of a process's red knows of the breach's history: a red
\* found in this tick is cooling down, and unless a red is in the queue the
\* breach has not stood for longer than since the last push.
Cool(p) ==
    /\ Red(p) \in found => last[Red(p)] \in Nat /\ last[Red(p)] < Cooldown
    /\ heat[p] > 0 /\ ~InQueue(Red(p))
          => last[Red(p)] \in Nat /\ heat[p] <= last[Red(p)]
    /\ heat[p] <= Cooldown

\* Without a detector of reds there is no standing breach.
StandingInv ==
    \A p \in Pid : IF "red" \in Kinds THEN Cool(p) ELSE heat[p] = 0

(* A push for s keeps what Cool says of process p, if found grows by s at  *)
(* most: a push for p's own red puts it in the queue.                      *)
LEMMA PushKeepsCool ==
    ASSUME NEW p \in Pid, NEW s \in Source, TypeOK, Cool(p), "red" \in Kinds,
           Push(s), heat' = heat,
           Red(p) \in found' => Red(p) \in found \/ s = Red(p)
    PROVE  Cool(p)'
<1>1. /\ Red(p) \in Source
      /\ last[s] \in 0 .. Cooldown \cup {Absent}
      /\ heat[p] \in Nat
  BY Bounds DEF TypeOK, Source, Red
<1>2. CASE Muted(s)
  <2>1. UNCHANGED <<last, queue>>
    BY <1>2 DEF Push
  <2>2. last[s] \in Nat /\ last[s] < Cooldown
    BY <1>1, <1>2, Bounds DEF Muted
  <2> QED BY <2>1, <2>2 DEF Cool, InQueue, Red
<1>3. CASE ~Muted(s)
  <2>1. /\ last' = [last EXCEPT ![s] = 0]
        /\ queue' = Append(queue, s)
        /\ queue \in Seq(Source)
    BY <1>3 DEF Push, TypeOK
  <2>2. CASE s = Red(p)
    <3>1. Len(queue) + 1 \in DOMAIN queue' /\ queue'[Len(queue) + 1] = s
      BY <2>1
    <3>2. last'[Red(p)] = 0
      BY <1>1, <2>1, <2>2 DEF TypeOK
    <3> QED BY <2>2, <3>1, <3>2, Bounds DEF Cool, InQueue, Red
  <2>3. CASE s # Red(p)
    <3>1. ASSUME NEW i \in DOMAIN queue, queue[i] = Red(p)
          PROVE  i \in DOMAIN queue' /\ queue'[i] = Red(p)
      BY <2>1, <3>1
    <3>2. last'[Red(p)] = last[Red(p)]
      BY <1>1, <2>1, <2>3 DEF TypeOK
    <3> QED BY <2>3, <3>1, <3>2 DEF Cool, InQueue, Red
  <2> QED BY <2>2, <2>3
<1> QED BY <1>2, <1>3

(* Delivering a message keeps Cool: p's own red ends the history of its    *)
(* breach, and any other leaves p's reds in the queue.                     *)
LEMMA DrainKeepsCool ==
    ASSUME NEW p \in Pid, TypeOK, Cool(p), DrainOne
    PROVE  Cool(p)'
<1> DEFINE s == Head(queue)
<1>1. /\ queue \in Seq(Source) /\ queue # << >> /\ queue' = Tail(queue)
      /\ UNCHANGED <<last, found>>
      /\ heat' = IF Colour(s) = "RED" THEN [heat EXCEPT ![s[1]] = 0] ELSE heat
  BY DEF TypeOK, DrainOne
<1>2. s \in Source
  BY <1>1
<1>3. heat \in [Pid -> 0 .. MaxHeat + 1]
  BY DEF TypeOK
<1>4. CASE s = Red(p)
  <2>1. Colour(s) = "RED" /\ s[1] = p
    BY <1>4 DEF Colour, Red
  <2>2. heat'[p] = 0
    BY <1>1, <1>3, <2>1
  <2> QED BY <1>1, <2>2, Bounds DEF Cool, Red
<1>5. CASE s # Red(p)
  <2>1. heat'[p] = heat[p]
    <3>1. Colour(s) = "RED" => s[1] \in Pid /\ s[1] # p
      BY <1>2, <1>5, HeadRed DEF Red
    <3> QED BY <1>1, <1>3, <3>1
  <2>2. ASSUME NEW i \in DOMAIN queue, queue[i] = Red(p)
        PROVE  i - 1 \in DOMAIN queue' /\ queue'[i - 1] = Red(p)
    <3>1. i # 1
      BY <1>1, <1>5, <2>2
    <3> QED BY <1>1, <2>2, <3>1, HeadTailProperties
  <2> QED BY <1>1, <2>1, <2>2 DEF Cool, InQueue, Red
<1> QED BY <1>4, <1>5

(* A tick later the breach may have stood for one more tick, and the push  *)
(* that muted or made its red is one tick older.                           *)
LEMMA ElapseKeepsCool ==
    ASSUME NEW p \in Pid, TypeOK, Cool(p), "red" \in Kinds, Elapse
    PROVE  Cool(p)'
<1>1. /\ ~InQueue(Red(p))
      /\ Red(p) \notin found'
  BY DEF Elapse, InQueue
<1>2. /\ last'[Red(p)] = IF last[Red(p)] = Absent \/ last[Red(p)] = Cooldown
                         THEN last[Red(p)] ELSE last[Red(p)] + 1
      /\ heat'[p] = IF Red(p) \notin found THEN 0
                    ELSE IF heat[p] > MaxHeat THEN heat[p] ELSE heat[p] + 1
      /\ heat[p] \in Nat
  BY Bounds DEF TypeOK, Elapse, Source, Red
<1>3. CASE Red(p) \notin found
  BY <1>1, <1>2, <1>3, Bounds DEF Cool, Red
<1>4. CASE Red(p) \in found
  <2>1. last[Red(p)] \in Nat /\ last[Red(p)] < Cooldown
    BY <1>4 DEF Cool
  <2>2. heat[p] <= last[Red(p)]
    BY <1>1, <1>2, <2>1 DEF Cool
  <2>3. /\ last'[Red(p)] = last[Red(p)] + 1
        /\ heat'[p] = heat[p] + 1
    BY <1>2, <1>4, <2>1, <2>2, Bounds
  <2> QED BY <1>1, <1>2, <2>1, <2>2, <2>3, Bounds DEF Cool, Red
<1> QED BY <1>3, <1>4

(* A breach that lasts is shown again: heat, the ticks of standing breach  *)
(* since a red was last delivered, is at most the age of the last push     *)
(* (Cool), which lets the next one through at Cooldown.                    *)
THEOREM StandingBreachShownHolds == Spec => []StandingBreachShown
<1>1. Init => StandingInv
  BY Bounds DEF Init, StandingInv, Cool
<1>2. TypeOK /\ StandingInv /\ [Next]_vars => StandingInv'
  <2> SUFFICES ASSUME TypeOK, StandingInv, [Next]_vars, NEW p \in Pid
               PROVE  IF "red" \in Kinds THEN Cool(p)' ELSE heat'[p] = 0
    BY DEF StandingInv
  <2>1. CASE "red" \notin Kinds
    <3>1. heat[p] = 0 /\ Red(p) \notin found /\ heat \in [Pid -> Nat]
      BY <2>1, Bounds DEF StandingInv, TypeOK, Red
    <3>2. CASE Elapse
      BY <2>1, <3>1, <3>2 DEF Elapse, Red
    <3>3. CASE DrainOne
      <4>1. heat' = [heat EXCEPT ![Head(queue)[1]] = 0] \/ heat' = heat
        BY <3>3 DEF DrainOne
      <4> QED BY <2>1, <3>1, <4>1
    <3>4. CASE heat' = heat
      BY <2>1, <3>1, <3>4
    <3> QED BY <3>2, <3>3, <3>4 DEF Next, Alert, AlertsDone, Settle, TickDone,
               DrainStart, DrainEnd, ShowAlerts, hist, vars
  <2>2. CASE "red" \in Kinds
    <3>0. Cool(p)
      BY <2>2 DEF StandingInv
    <3>1. CASE UNCHANGED <<last, queue, found, heat>>
      BY <2>2, <3>0, <3>1 DEF Cool, InQueue, Red
    <3>2. CASE \E q \in Pid, k \in Kinds : Alert(q, k)
      <4>1. PICK q \in Pid, k \in Kinds : Alert(q, k)
        BY <3>2
      <4>2. /\ <<q, k>> \in Source /\ Push(<<q, k>>) /\ heat' = heat
            /\ Red(p) \in found' => Red(p) \in found \/ <<q, k>> = Red(p)
        BY <4>1 DEF Alert, Source, hist
      <4> QED BY <2>2, <3>0, <4>2, PushKeepsCool
    <3>3. CASE \E q \in Pid : Settle(q)
      <4>1. PICK q \in Pid : Settle(q)
        BY <3>3
      <4>2. <<q, "unreconciled">> \in Source
        BY DEF Source
      <4>3. heat' = heat /\ found' = found
        BY <4>1 DEF Settle
      <4>4. CASE q \in Agents
        BY <2>2, <3>0, <4>1, <4>2, <4>3, <4>4, PushKeepsCool DEF Settle
      <4>5. CASE q \notin Agents
        BY <3>1, <4>1, <4>3, <4>5 DEF Settle
      <4> QED BY <4>4, <4>5
    <3>4. CASE TickDone
      <4>1. Refused \in Source /\ heat' = heat /\ found' = found
        BY <3>4 DEF TickDone, Source
      <4>2. CASE count >= ReportAt
        BY <2>2, <3>0, <3>4, <4>1, <4>2, PushKeepsCool DEF TickDone, CountReport
      <4>3. CASE ~(count >= ReportAt)
        BY <3>1, <3>4, <4>1, <4>3 DEF TickDone, CountReport
      <4> QED BY <4>2, <4>3
    <3>5. CASE Elapse
      BY <2>2, <3>0, <3>5, ElapseKeepsCool
    <3>6. CASE DrainOne
      BY <2>2, <3>0, <3>6, DrainKeepsCool
    <3>7. Next => \/ UNCHANGED <<last, queue, found, heat>>
                  \/ \E q \in Pid, k \in Kinds : Alert(q, k)
                  \/ \E q \in Pid : Settle(q)
                  \/ TickDone \/ Elapse \/ DrainOne
      BY DEF Next, AlertsDone, DrainStart, DrainEnd, ShowAlerts, hist
    <3>8. CASE UNCHANGED vars
      BY <3>1, <3>8 DEF vars, hist
    <3> QED BY <3>1, <3>2, <3>3, <3>4, <3>5, <3>6, <3>7, <3>8
  <2> QED BY <2>1, <2>2
<1>3. StandingInv => StandingBreachShown
  BY Bounds DEF StandingInv, Cool, StandingBreachShown
<1> QED BY <1>1, <1>2, <1>3, TypeCorrect, PTL DEF Spec
=============================================================================
