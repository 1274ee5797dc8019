--------------------------- MODULE ReconcilerProofs ---------------------------
(***************************************************************************)
(* Theorems about Reconciler for every set of processes, destinations and  *)
(* settings and all values of its limits.                                  *)
(***************************************************************************)
EXTENDS Reconciler, FiniteSetTheorems, SequenceTheorems, WellFoundedInduction, TLAPS

Age(n) == 0 .. n \cup {Absent}

(* The types the arguments need, and the shape of a record.                *)
AgesInv ==
  /\ setting \in Settings
  /\ pc \in {"start", "observe", "drain", "done"}
  /\ mtime \in Age(Fresh + 1)
  /\ life \in 0 .. Warmup
  /\ pending \in [Flow -> Rec \cup {Absent}]
  /\ reported \in [Flow -> Age(Keep + 1)]
  /\ seen \in [Dest -> Age(SeenTtl + 1)] /\ met \in [Dest -> Age(SeenTtl)]
  /\ owed \in [Flow -> Age(Window + 1)] /\ bypass \in [Flow -> Age(Window + 1)]
  /\ since \in [Flow -> 0 .. Window]

(* Where hooks write steadily the file is there and fresh, and what a tick *)
(* sees is judged.                                                         *)
SteadyInv ==
  setting.steady => /\ mtime # Absent /\ mtime <= Fresh
                    /\ pc # "start" => active

(* A flow that was reported within the window bears the mark that says so. *)
RepeatInv == \A f \in Flow : since[f] < Window => reported[f] = since[f]

(* What is remembered of a destination is the age of the last contact, as  *)
(* far as it is remembered; nothing is while reconciliation is inactive.   *)
NovelInv ==
  \A d \in Dest :
    /\ met[d] # Absent /\ (setting.steady \/ Proxy # Absent) => seen[d] = met[d]
    /\ seen[d] = Absent \/ seen[d] > SeenTtl \/ (met[d] # Absent /\ seen[d] >= met[d])

(* A bypass not yet reported has a record that has not been begun anew     *)
(* since, of a port that proves it, and no report is younger than it.      *)
BypassInv ==
  \A f \in Flow :
    bypass[f] # Absent =>
      /\ Proxy \notin {Absent, f[2]}
      /\ pending[f] # Absent /\ pending[f].port = "http"
      /\ pending[f].last <= bypass[f] /\ bypass[f] <= pending[f].first
      /\ bypass[f] <= Window /\ (pc = "done" => bypass[f] < Window)
      /\ reported[f] # Absent => bypass[f] <= reported[f]

RecInv == AgesInv /\ SteadyInv /\ RepeatInv /\ NovelInv /\ BypassInv

-----------------------------------------------------------------------------
LEMMA Constants ==
    /\ Window \in Nat /\ Settle \in Nat /\ Fresh \in Nat /\ Warmup \in Nat /\ SeenTtl \in Nat
    /\ Keep \in Nat /\ Keep = 2 * Window /\ MaxTotal \in Nat /\ KnownMin \in Nat
    /\ Settle <= Window /\ Window <= Keep /\ Keep <= SeenTtl
    /\ Absent \notin Nat /\ Absent \notin Rec /\ Absent \notin Note
    /\ \A e \in Settings : e.deltas \subseteq 1 .. MaxTotal /\ e.ports \subseteq Port
                           /\ (e.steady => ~e.rotates) /\ e.senders \subseteq Pid
                           /\ e.steady \in BOOLEAN
  <1>1. {Fresh, Window, Settle, Warmup, SeenTtl, KnownMin, MaxTotal} \subseteq Nat
    BY ReconcilerAssumption
  <1>2. Keep = 2 * Window /\ Keep \in Nat /\ Window <= Keep
    BY <1>1 DEF Keep
  <1>3. /\ Settle <= Window /\ Keep <= SeenTtl
        /\ Absent \notin Nat /\ Absent \notin Rec /\ Absent \notin Note
    BY ReconcilerAssumption
  <1>4. \A e \in Settings : e.deltas \subseteq 1 .. MaxTotal /\ e.ports \subseteq Port
                           /\ (e.steady => ~e.rotates) /\ e.senders \subseteq Pid
                           /\ e.steady \in BOOLEAN
    BY ReconcilerAssumption
  <1>5. QED
    BY <1>1, <1>2, <1>3, <1>4

\* An entry a tick later.
LEMMA AgedFacts ==
    ASSUME NEW cap \in Nat, NEW n \in Nat, n <= cap, NEW e \in Age(n)
    PROVE  /\ Aged(e, 1, cap) \in Age(cap)
           /\ Aged(e, 1, cap) = Absent <=> e = Absent
           /\ e # Absent => /\ e \in Nat
                            /\ Aged(e, 1, cap) = IF e + 1 > cap THEN cap ELSE e + 1
  BY Constants DEF Aged, UpTo, Age

LEMMA InitRec == Init => RecInv
  <1> SUFFICES ASSUME Init PROVE RecInv
    OBVIOUS
  <1>1. AgesInv
    BY Constants DEF Init, AgesInv, Age
  <1>2. SteadyInv
    BY Constants DEF Init, SteadyInv
  <1>3. RepeatInv /\ NovelInv /\ BypassInv
    BY Constants DEF Init, RepeatInv, NovelInv, BypassInv
  <1>4. QED
    BY <1>1, <1>2, <1>3 DEF RecInv

\* The file's writers.
LEMMA WriteRec ==
    ASSUME RecInv,
           Touch \/ Rotate \/ (\E p \in Agents, h \in setting.hosts \cup {Wild},
                                  nb \in setting.sizes : Declare(p, h, nb))
    PROVE  RecInv'
  <1>1. /\ UNCHANGED <<setting, pc, active, pending, reported, seen, life, out, met, owed,
                       bypass, since>>
        /\ mtime' \in {0, Absent} /\ (mtime' = Absent => setting.rotates)
    <2>1. CASE Touch
      BY <2>1, Constants DEF Touch, hist
    <2>2. CASE Rotate
      BY <2>2 DEF Rotate, hist
    <2>3. CASE \E p \in Agents, h \in setting.hosts \cup {Wild}, nb \in setting.sizes :
                 Declare(p, h, nb)
      BY <2>3, Constants DEF Declare, hist
    <2>4. QED
      BY <2>1, <2>2, <2>3
  <1>2. AgesInv'
    BY <1>1, Constants DEF RecInv, AgesInv, Age
  <1>3. SteadyInv'
    BY <1>1, Constants DEF RecInv, AgesInv, SteadyInv
  <1>4. RepeatInv' /\ NovelInv' /\ BypassInv'
    BY <1>1 DEF RecInv, RepeatInv, NovelInv, BypassInv, Proxy
  <1>5. QED
    BY <1>2, <1>3, <1>4 DEF RecInv

LEMMA RefreshRec ==
    ASSUME RecInv, Refresh
    PROVE  RecInv'
  <1>1. /\ UNCHANGED <<setting, mtime, pending, reported, seen, life, met, owed, bypass, since>>
        /\ pc' = "observe" /\ (mtime # Absent => active' = (mtime <= Fresh))
    BY DEF Refresh
  <1>2. AgesInv'
    BY <1>1 DEF RecInv, AgesInv
  <1>3. SteadyInv'
    BY <1>1 DEF RecInv, SteadyInv
  <1>4. RepeatInv' /\ NovelInv' /\ BypassInv'
    BY <1>1 DEF RecInv, RepeatInv, NovelInv, BypassInv, Proxy
  <1>5. QED
    BY <1>2, <1>3, <1>4 DEF RecInv

LEMMA GcRec ==
    ASSUME RecInv, Gc
    PROVE  RecInv'
  <1>1. /\ UNCHANGED <<setting, mtime, active, life, met, owed, bypass, since>>
        /\ pc = "observe" /\ pc' = "drain"
        /\ pending' = [f \in Flow |-> IF pending[f] # Absent /\ pending[f].last > Keep
                                      THEN Absent ELSE pending[f]]
        /\ reported' = [f \in Flow |-> IF reported[f] # Absent /\ reported[f] > Keep
                                       THEN Absent ELSE reported[f]]
        /\ seen' = [d \in Dest |-> IF seen[d] # Absent /\ seen[d] > SeenTtl
                                   THEN Absent ELSE seen[d]]
    BY DEF Gc, GcReported, file, hist
  <1>2. AgesInv'
    BY <1>1 DEF RecInv, AgesInv, Age
  <1>3. SteadyInv'
    BY <1>1 DEF RecInv, SteadyInv
  <1>4. RepeatInv'
    <2>1. ASSUME NEW f \in Flow, since[f] < Window
          PROVE  reported'[f] = since[f]
      <3>1. since[f] \in Nat /\ reported[f] = since[f]
        BY <2>1 DEF RecInv, AgesInv, RepeatInv
      <3>2. QED
        BY <1>1, <2>1, <3>1, Constants
    <2>2. QED
      BY <2>1, <1>1 DEF RepeatInv
  <1>5. NovelInv'
    <2>1. ASSUME NEW d \in Dest
          PROVE  /\ met[d] # Absent /\ (setting.steady \/ Proxy # Absent) => seen'[d] = met[d]
                 /\ \/ seen'[d] = Absent \/ seen'[d] > SeenTtl
                    \/ met[d] # Absent /\ seen'[d] >= met[d]
      <3>1. met[d] \in Age(SeenTtl) /\ (met[d] # Absent => ~(met[d] > SeenTtl))
        BY Constants DEF RecInv, AgesInv, Age
      <3>2. QED
        BY <1>1, <3>1 DEF RecInv, NovelInv
    <2>2. QED
      BY <2>1, <1>1 DEF NovelInv, Proxy
  <1>6. BypassInv'
    <2>1. ASSUME NEW f \in Flow, bypass[f] # Absent
          PROVE  /\ pending'[f] = pending[f]
                 /\ reported'[f] = reported[f] \/ reported'[f] = Absent
      <3>1. bypass[f] \in Nat /\ pending[f].last \in Nat /\ ~(pending[f].last > Keep)
        <4>1. pending[f] \in Rec /\ bypass[f] \in Nat /\ pending[f].last <= bypass[f]
              /\ bypass[f] <= Window
          BY <2>1 DEF RecInv, AgesInv, Age, BypassInv
        <4>2. pending[f].last \in Nat
          BY <4>1 DEF Rec
        <4>3. QED
          BY <4>1, <4>2, Constants
      <3>2. QED
        BY <1>1, <3>1
    <2>2. QED
      BY <2>1, <1>1 DEF RecInv, BypassInv, Proxy
  <1>7. QED
    BY <1>2, <1>3, <1>4, <1>5, <1>6 DEF RecInv

LEMMA ObserveRec ==
    ASSUME RecInv, NEW p \in setting.senders, NEW d \in Dest, NEW n \in setting.deltas,
           NEW port \in setting.ports, Observe(p, d, n, port)
    PROVE  RecInv'
  <1>1. /\ UNCHANGED <<setting, pc, mtime, active, reported, life, since>> /\ pc = "observe"
        /\ met' = IF p \in Agents THEN [met EXCEPT ![d] = 0] ELSE met
        /\ IF active \/ Proxy # Absent
           THEN Record(p, d, n, port)
           ELSE UNCHANGED <<pending, seen, owed, bypass>>
    BY DEF Observe, file
  <1>2. AgesInv /\ SteadyInv /\ RepeatInv /\ NovelInv /\ BypassInv
    BY DEF RecInv
  <1>3. PICK f : f = <<p, d>>
    OBVIOUS
  <1>4. f \in Flow /\ f[1] = p /\ f[2] = d /\ n \in 1 .. MaxTotal /\ port \in Port
    BY <1>2, <1>3, Constants DEF AgesInv, Flow
  <1>5. CASE ~(active \/ Proxy # Absent)
    <2>1. UNCHANGED <<pending, seen, owed, bypass>>
      BY <1>1, <1>5
    <2>2. AgesInv'
      BY <1>1, <1>2, <2>1, Constants DEF AgesInv, Age
    <2>3. SteadyInv' /\ RepeatInv' /\ BypassInv'
      BY <1>1, <1>2, <2>1 DEF SteadyInv, RepeatInv, BypassInv, Proxy
    <2>4. ~setting.steady
      BY <1>1, <1>2, <1>5 DEF SteadyInv
    <2>5. \A e \in Dest : met'[e] = met[e] \/ met'[e] = 0
      BY <1>1, <1>2 DEF AgesInv
    <2>8. \A e \in Dest : seen[e] \in Nat \cup {Absent}
      BY <1>2 DEF AgesInv, Age
    <2>6. NovelInv'
      BY <1>1, <1>2, <1>5, <2>1, <2>4, <2>5, <2>8, Constants DEF NovelInv, Proxy
    <2>7. QED
      BY <2>2, <2>3, <2>6 DEF RecInv
  <1>6. CASE active \/ Proxy # Absent
    <2>1. Record(p, d, n, port)
      BY <1>1, <1>6
    <2>2. PICK new :
             new = IF pending[f] = Absent \/ pending[f].last > Window
                   THEN [first |-> 0, last |-> 0, total |-> n, novel |-> Novel(d),
                         port |-> port]
                   ELSE Merged(pending[f], n, port)
      OBVIOUS
    <2>3. /\ pending' = [pending EXCEPT ![f] = new]
          /\ seen' = IF p \in Agents THEN [seen EXCEPT ![d] = 0] ELSE seen
          /\ owed' = owed \/ owed' = [owed EXCEPT ![f] = 0]
          /\ \/ bypass' = bypass
             \/ bypass' = [bypass EXCEPT ![f] = 0] /\ Proxy \notin {Absent, d} /\ port = "http"
      BY <1>3, <1>4, <2>1, <2>2 DEF Record, Seeds, Unproxyable, Port
    <2>4. /\ new \in Rec /\ new.last = 0
          /\ port = "http" => new.port = "http"
          /\ pending[f] # Absent /\ pending[f].last <= Window =>
               /\ new.first = pending[f].first
               /\ pending[f].port = "http" => new.port = "http"
      <3>1. CASE pending[f] = Absent \/ pending[f].last > Window
        <4>1. new = [first |-> 0, last |-> 0, total |-> n, novel |-> Novel(d), port |-> port]
          BY <2>2, <3>1
        <4>2. Novel(d) \in BOOLEAN
          BY DEF Novel
        <4>3. new \in Rec
          BY <1>4, <4>1, <4>2, Constants DEF Rec
        <4>4. pending[f] # Absent => pending[f].last \in Nat
          BY <1>2, <1>4, Constants DEF AgesInv, Rec
        <4>5. QED
          BY <3>1, <4>1, <4>3, <4>4, Constants
      <3>2. CASE ~(pending[f] = Absent \/ pending[f].last > Window)
        <4>1. new = [pending[f] EXCEPT !.total = UpTo(pending[f].total + n, MaxTotal),
                                       !.last = 0, !.port = MergePort(pending[f].port, port)]
          BY <2>2, <3>2 DEF Merged
        <4>2. pending[f] \in Rec
          BY <1>2, <1>4, <3>2 DEF AgesInv
        <4>3. UpTo(pending[f].total + n, MaxTotal) \in 0 .. MaxTotal
          BY <1>4, <4>2, Constants DEF UpTo, Rec
        <4>4. /\ MergePort(pending[f].port, port) \in Port
              /\ port = "http" => MergePort(pending[f].port, port) = "http"
              /\ pending[f].port = "http" => MergePort(pending[f].port, port) = "http"
          BY <1>4, <4>2 DEF MergePort, Unproxyable, Port, Rec
        <4>5. new \in Rec /\ new.last = 0 /\ new.first = pending[f].first
              /\ new.port = MergePort(pending[f].port, port)
          <5>1. PICK r : r = pending[f]
            OBVIOUS
          <5>2. PICK t : t = UpTo(pending[f].total + n, MaxTotal)
            OBVIOUS
          <5>3. PICK to : to = MergePort(pending[f].port, port)
            OBVIOUS
          <5>4. r \in Rec /\ t \in 0 .. MaxTotal /\ to \in Port /\ 0 \in 0 .. Keep + 1
            BY <4>2, <4>3, <4>4, <5>1, <5>2, <5>3, Constants
          <5>5. new = [r EXCEPT !.total = t, !.last = 0, !.port = to]
            BY <4>1, <5>1, <5>2, <5>3
          <5>6. new \in Rec /\ new.last = 0 /\ new.first = r.first /\ new.port = to
            BY <5>4, <5>5 DEF Rec
          <5>7. QED
            BY <5>1, <5>3, <5>6
        <4>6. QED
          BY <4>4, <4>5
      <3>3. QED
        BY <3>1, <3>2
    <2>5. AgesInv'
      <3>1. /\ pending' \in [Flow -> Rec \cup {Absent}]
            /\ owed' \in [Flow -> Age(Window + 1)] /\ bypass' \in [Flow -> Age(Window + 1)]
        <4>1. 0 \in Age(Window + 1)
          BY Constants DEF Age
        <4>2. QED
          BY <1>2, <1>4, <2>3, <2>4, <4>1 DEF AgesInv
      <3>2. seen' \in [Dest -> Age(SeenTtl + 1)] /\ met' \in [Dest -> Age(SeenTtl)]
        <4>1. 0 \in Age(SeenTtl + 1) /\ 0 \in Age(SeenTtl)
          BY Constants DEF Age
        <4>2. QED
          BY <1>1, <1>2, <2>3, <4>1 DEF AgesInv
      <3>3. QED
        BY <1>1, <1>2, <3>1, <3>2 DEF AgesInv
    <2>6. SteadyInv' /\ RepeatInv'
      BY <1>1, <1>2 DEF SteadyInv, RepeatInv
    <2>7. NovelInv'
      <3>1. CASE p \in Agents
        <4>1. seen' = [seen EXCEPT ![d] = 0] /\ met' = [met EXCEPT ![d] = 0]
          BY <1>1, <2>3, <3>1
        <4>2. seen'[d] = 0 /\ met'[d] = 0 /\ \A e \in Dest \ {d} : seen'[e] = seen[e] /\ met'[e] = met[e]
          BY <4>1, <1>2 DEF AgesInv
        <4>3. QED
          BY <1>1, <1>2, <4>2, Constants DEF NovelInv, Proxy
      <3>2. CASE p \notin Agents
        BY <1>1, <1>2, <2>3, <3>2 DEF NovelInv, Proxy
      <3>3. QED
        BY <3>1, <3>2
    <2>8. BypassInv'
      <3>1. ASSUME NEW g \in Flow, g # f
            PROVE  pending'[g] = pending[g] /\ bypass'[g] = bypass[g]
        BY <2>3, <3>1, <1>2 DEF AgesInv
      <3>2. /\ pending'[f] = new /\ (bypass'[f] = bypass[f] \/
                 (bypass'[f] = 0 /\ Proxy \notin {Absent, d} /\ port = "http"))
        BY <2>3, <1>2, <1>4 DEF AgesInv
      <3>3. CASE bypass[f] # Absent
        <4>1. /\ pending[f] # Absent /\ pending[f].port = "http" /\ Proxy \notin {Absent, d}
              /\ pending[f].last <= bypass[f] /\ bypass[f] <= pending[f].first
              /\ bypass[f] <= Window /\ (reported[f] # Absent => bypass[f] <= reported[f])
              /\ bypass[f] \in Nat
          BY <1>2, <1>4, <3>3 DEF BypassInv, AgesInv, Age
        <4>2. pending[f].last \in Nat /\ pending[f].first \in Nat
          BY <1>2, <1>4, <4>1 DEF AgesInv, Rec
        <4>3. pending[f].last <= Window
          BY <4>1, <4>2, Constants
        <4>4. new # Absent /\ new.last = 0 /\ new.first = pending[f].first /\ new.port = "http"
          BY <2>4, <4>1, <4>3, Constants
        <4>5. reported[f] # Absent => reported[f] \in Nat
          BY <1>2, <1>4 DEF AgesInv, Age
        <4>6. \/ bypass'[f] = bypass[f]
              \/ bypass'[f] = 0
          BY <3>2
        <4>7. /\ bypass'[f] \in Nat /\ bypass'[f] <= bypass[f]
          BY <4>1, <4>6
        <4>8. ASSUME NEW g \in Flow, bypass'[g] # Absent
              PROVE  /\ Proxy \notin {Absent, g[2]}
                     /\ pending'[g] # Absent /\ pending'[g].port = "http"
                     /\ pending'[g].last <= bypass'[g] /\ bypass'[g] <= pending'[g].first
                     /\ bypass'[g] <= Window
                     /\ reported[g] # Absent => bypass'[g] <= reported[g]
          <5>1. CASE g = f
            BY <1>4, <3>2, <4>1, <4>2, <4>4, <4>5, <4>7, <5>1, Constants
          <5>2. CASE g # f
            BY <1>2, <3>1, <4>8, <5>2 DEF BypassInv
          <5>3. QED
            BY <5>1, <5>2
        <4>9. QED
          BY <1>1, <4>8 DEF BypassInv, Proxy
      <3>4. CASE bypass[f] = Absent
        <4>1. reported[f] # Absent => reported[f] \in Nat
          BY <1>2, <1>4 DEF AgesInv, Age
        <4>2. bypass'[f] # Absent => /\ bypass'[f] = 0 /\ Proxy \notin {Absent, d}
                                     /\ new # Absent /\ new.port = "http" /\ new.last = 0
                                     /\ new.first \in Nat
          BY <2>4, <3>2, <3>4, Constants DEF Rec
        <4>3. ASSUME NEW g \in Flow, bypass'[g] # Absent
              PROVE  /\ Proxy \notin {Absent, g[2]}
                     /\ pending'[g] # Absent /\ pending'[g].port = "http"
                     /\ pending'[g].last <= bypass'[g] /\ bypass'[g] <= pending'[g].first
                     /\ bypass'[g] <= Window
                     /\ reported[g] # Absent => bypass'[g] <= reported[g]
          <5>1. CASE g = f
            BY <1>4, <3>2, <4>1, <4>2, <4>3, <5>1, Constants
          <5>2. CASE g # f
            BY <1>2, <3>1, <4>3, <5>2 DEF BypassInv
          <5>3. QED
            BY <5>1, <5>2
        <4>4. QED
          BY <1>1, <4>3 DEF BypassInv, Proxy
      <3>5. QED
        BY <3>3, <3>4
    <2>9. QED
      BY <2>5, <2>6, <2>7, <2>8 DEF RecInv
  <1>7. QED
    BY <1>5, <1>6

LEMMA DrainRec ==
    ASSUME RecInv, Drain
    PROVE  RecInv'
  <1>1. PICK due : due = IF active \/ Proxy # Absent THEN Due ELSE {}
    OBVIOUS
  <1>2. /\ UNCHANGED <<setting, mtime, active, pending, seen, life, met>>
        /\ pc = "drain" /\ pc' = "done"
        /\ reported' = [f \in Flow |-> IF f \in due THEN 0 ELSE reported[f]]
        /\ owed' = [f \in Flow |-> IF f \in due THEN Absent ELSE owed[f]]
        /\ bypass' = [f \in Flow |->
              IF f \in due /\ Verdict(f) = "bypass" THEN Absent ELSE bypass[f]]
        /\ since' = [f \in Flow |-> IF f \in due THEN 0 ELSE since[f]]
    BY <1>1 DEF Drain, file
  <1>3. AgesInv /\ SteadyInv /\ RepeatInv /\ NovelInv /\ BypassInv
    BY DEF RecInv
  <1>4. AgesInv'
    BY <1>2, <1>3, Constants DEF AgesInv, Age
  <1>5. SteadyInv' /\ NovelInv'
    BY <1>2, <1>3 DEF SteadyInv, NovelInv, Proxy
  <1>6. RepeatInv'
    BY <1>2, <1>3 DEF RepeatInv
  <1>7. BypassInv'
    <2>1. ASSUME NEW f \in Flow, bypass'[f] # Absent
          PROVE  bypass'[f] = bypass[f] /\ f \notin due /\ bypass[f] < Window
      <3>1. bypass'[f] = bypass[f] /\ ~(f \in due /\ Verdict(f) = "bypass") /\ bypass[f] # Absent
        BY <1>2, <2>1
      <3>2. /\ Proxy \notin {Absent, f[2]}
            /\ pending[f] # Absent /\ pending[f].port = "http"
            /\ bypass[f] <= pending[f].first
            /\ (reported[f] # Absent => bypass[f] <= reported[f])
        BY <1>3, <3>1 DEF BypassInv
      <3>3. Verdict(f) = "bypass" /\ Verdict(f) # Absent
        BY <3>2, Constants DEF Verdict, Unproxyable, Note
      <3>4. f \notin due /\ f \notin Due
        BY <1>1, <3>1, <3>2, <3>3
      <3>5. pending[f] \in Rec /\ bypass[f] \in Nat /\ (reported[f] # Absent => reported[f] \in Nat)
        BY <1>3, <3>1, <3>2 DEF AgesInv, Age
      <3>6. pending[f].first \in Nat /\ pending[f].total \in Nat /\ Floor(pending[f]) = 0
        BY <3>2, <3>5, Constants DEF Rec, Floor
      <3>7. pending[f].first < Settle \/ (reported[f] # Absent /\ reported[f] < Window)
        BY <3>2, <3>3, <3>4, <3>5, <3>6, Constants DEF Due
      <3>8. QED
        BY <3>1, <3>2, <3>4, <3>5, <3>6, <3>7, Constants
    <2>2. QED
      BY <2>1, <1>2, <1>3 DEF BypassInv, Proxy
  <1>8. QED
    BY <1>4, <1>5, <1>6, <1>7 DEF RecInv

\* The step of time.
LEMMA ElapseRec ==
    ASSUME RecInv, Elapse
    PROVE  RecInv'
  <1>1. /\ UNCHANGED <<setting, active>> /\ pc = "done" /\ pc' = "start"
        /\ setting.steady => mtime # Absent /\ mtime < Fresh
        /\ mtime' = Aged(mtime, 1, Fresh + 1)
        /\ life' = UpTo(life + 1, Warmup)
    BY DEF Elapse
  <1>12. pending' = [f \in Flow |->
             IF pending[f] = Absent THEN Absent
             ELSE [pending[f] EXCEPT !.first = UpTo(@ + 1, Keep + Window + 1),
                                     !.last = UpTo(@ + 1, Keep + 1)]]
    BY DEF Elapse
  <1>13. /\ reported' = [f \in Flow |-> Aged(reported[f], 1, Keep + 1)]
         /\ owed' = [f \in Flow |-> Aged(owed[f], 1, Window + 1)]
         /\ bypass' = [f \in Flow |-> Aged(bypass[f], 1, Window + 1)]
         /\ since' = [f \in Flow |-> UpTo(since[f] + 1, Window)]
    BY DEF Elapse
  <1>14. /\ seen' = [d \in Dest |-> Aged(seen[d], 1, SeenTtl + 1)]
         /\ met' = [d \in Dest |->
              IF met[d] = Absent \/ met[d] = SeenTtl THEN Absent ELSE met[d] + 1]
    BY DEF Elapse
  <1>2. AgesInv /\ SteadyInv /\ RepeatInv /\ NovelInv /\ BypassInv
    BY DEF RecInv
  <1>3. ASSUME NEW f \in Flow
        PROVE  /\ reported'[f] \in Age(Keep + 1) /\ (reported'[f] = Absent <=> reported[f] = Absent)
               /\ owed'[f] \in Age(Window + 1) /\ (owed'[f] = Absent <=> owed[f] = Absent)
               /\ bypass'[f] \in Age(Window + 1) /\ (bypass'[f] = Absent <=> bypass[f] = Absent)
               /\ since'[f] \in 0 .. Window
    <2>1. reported[f] \in Age(Keep + 1) /\ owed[f] \in Age(Window + 1)
          /\ bypass[f] \in Age(Window + 1) /\ since[f] \in 0 .. Window
      BY <1>2 DEF AgesInv
    <2>2. Keep + 1 \in Nat /\ Window + 1 \in Nat
      BY Constants
    <2>3. since'[f] \in 0 .. Window
      BY <1>13, <2>1, Constants DEF UpTo
    <2>4. QED
      BY <1>13, <2>1, <2>2, <2>3, AgedFacts
  <1>4. ASSUME NEW d \in Dest
        PROVE  /\ seen'[d] \in Age(SeenTtl + 1) /\ (seen'[d] = Absent <=> seen[d] = Absent)
               /\ seen[d] # Absent => /\ seen[d] \in Nat
                                      /\ seen'[d] = IF seen[d] + 1 > SeenTtl + 1
                                                    THEN SeenTtl + 1 ELSE seen[d] + 1
               /\ met'[d] \in Age(SeenTtl)
               /\ met[d] \in Age(SeenTtl)
    <2>1. seen[d] \in Age(SeenTtl + 1) /\ met[d] \in Age(SeenTtl) /\ SeenTtl + 1 \in Nat
      BY <1>2, Constants DEF AgesInv
    <2>2. met'[d] \in Age(SeenTtl)
      BY <1>14, <2>1, Constants DEF Age
    <2>3. QED
      BY <1>14, <2>1, <2>2, AgedFacts
  <1>5. ASSUME NEW f \in Flow, pending[f] # Absent
        PROVE  /\ pending'[f] \in Rec /\ pending'[f].port = pending[f].port
               /\ pending[f].last \in Nat /\ pending[f].first \in Nat
               /\ pending'[f].last = UpTo(pending[f].last + 1, Keep + 1)
               /\ pending'[f].first = UpTo(pending[f].first + 1, Keep + Window + 1)
    <2>1. PICK r : r = pending[f]
      OBVIOUS
    <2>2. PICK x : x = UpTo(r.first + 1, Keep + Window + 1)
      OBVIOUS
    <2>3. PICK y : y = UpTo(r.last + 1, Keep + 1)
      OBVIOUS
    <2>4. r \in Rec
      BY <1>2, <1>5, <2>1 DEF AgesInv
    <2>5. r.first \in Nat /\ r.last \in 0 .. Keep + 1
      BY <2>4 DEF Rec
    <2>6. x \in Nat /\ y \in 0 .. Keep + 1
      BY <2>2, <2>3, <2>5, Constants DEF UpTo
    <2>7. pending'[f] = [r EXCEPT !.first = x, !.last = y]
      BY <1>12, <1>5, <2>1, <2>2, <2>3
    <2>8. pending'[f] \in Rec /\ pending'[f].port = r.port /\ pending'[f].last = y
          /\ pending'[f].first = x
      BY <2>4, <2>6, <2>7 DEF Rec
    <2>9. QED
      BY <2>1, <2>2, <2>3, <2>5, <2>8, Constants
  <1>6. AgesInv'
    <2>1. mtime' \in Age(Fresh + 1) /\ life' \in 0 .. Warmup
      <3>1. Fresh + 1 \in Nat /\ mtime \in Age(Fresh + 1) /\ life \in 0 .. Warmup
        BY <1>2, Constants DEF AgesInv
      <3>2. mtime' \in Age(Fresh + 1)
        BY <1>1, <3>1, AgedFacts
      <3>3. life' \in 0 .. Warmup
        BY <1>1, <3>1, Constants DEF UpTo
      <3>4. QED
        BY <3>2, <3>3
    <2>2. pending' \in [Flow -> Rec \cup {Absent}]
      <3>1. \A f \in Flow : pending'[f] \in Rec \cup {Absent}
        BY <1>5, <1>12
      <3>2. pending' = [f \in Flow |-> pending'[f]]
        BY <1>12
      <3>3. QED
        BY <3>1, <3>2
    <2>3. /\ reported' = [f \in Flow |-> reported'[f]] /\ owed' = [f \in Flow |-> owed'[f]]
          /\ bypass' = [f \in Flow |-> bypass'[f]] /\ since' = [f \in Flow |-> since'[f]]
          /\ seen' = [d \in Dest |-> seen'[d]] /\ met' = [d \in Dest |-> met'[d]]
      BY <1>13, <1>14
    <2>4. /\ reported' \in [Flow -> Age(Keep + 1)] /\ owed' \in [Flow -> Age(Window + 1)]
          /\ bypass' \in [Flow -> Age(Window + 1)] /\ since' \in [Flow -> 0 .. Window]
      BY <1>3, <2>3
    <2>5. seen' \in [Dest -> Age(SeenTtl + 1)] /\ met' \in [Dest -> Age(SeenTtl)]
      BY <1>4, <2>3
    <2>6. QED
      BY <1>1, <1>2, <2>1, <2>2, <2>4, <2>5 DEF AgesInv
  <1>7. SteadyInv'
    <2>1. ASSUME setting.steady
          PROVE  mtime' # Absent /\ mtime' <= Fresh
      <3>1. mtime \in Nat /\ mtime + 1 <= Fresh
        BY <1>1, <1>2, <2>1, Constants DEF AgesInv, Age
      <3>2. mtime' = mtime + 1
        BY <1>1, <2>1, <3>1, Constants DEF Aged, UpTo
      <3>3. QED
        BY <3>1, <3>2, Constants
    <2>2. QED
      BY <1>1, <2>1 DEF SteadyInv
  <1>8. RepeatInv'
    <2>1. ASSUME NEW f \in Flow, since'[f] < Window
          PROVE  reported'[f] = since'[f]
      <3>1. since[f] \in Nat /\ since[f] <= Window
        BY <1>2, Constants DEF AgesInv
      <3>2. since'[f] = since[f] + 1 /\ since[f] < Window
        BY <1>13, <2>1, <3>1, Constants DEF UpTo
      <3>3. reported[f] = since[f]
        BY <1>2, <3>2 DEF RepeatInv
      <3>4. reported'[f] = since[f] + 1
        BY <1>13, <3>1, <3>2, <3>3, Constants DEF Aged, UpTo
      <3>5. QED
        BY <3>2, <3>4
    <2>2. QED
      BY <2>1 DEF RepeatInv
  <1>9. NovelInv'
    <2>1. ASSUME NEW d \in Dest
          PROVE  /\ met'[d] # Absent /\ (setting.steady \/ Proxy # Absent) => seen'[d] = met'[d]
                 /\ \/ seen'[d] = Absent \/ seen'[d] > SeenTtl
                    \/ met'[d] # Absent /\ seen'[d] >= met'[d]
      <3>1. /\ met[d] # Absent /\ (setting.steady \/ Proxy # Absent) => seen[d] = met[d]
            /\ \/ seen[d] = Absent \/ seen[d] > SeenTtl
               \/ met[d] # Absent /\ seen[d] >= met[d]
        BY <1>2 DEF NovelInv
      <3>2. met[d] # Absent => met[d] \in Nat /\ met[d] <= SeenTtl
        BY <1>4, Constants DEF Age
      <3>3. CASE met[d] = Absent \/ met[d] = SeenTtl
        <4>1. met'[d] = Absent
          BY <1>14, <3>3
        <4>2. seen[d] # Absent => seen'[d] > SeenTtl
          BY <1>4, <3>1, <3>2, <3>3, Constants
        <4>3. QED
          BY <1>4, <4>1, <4>2
      <3>4. CASE met[d] # Absent /\ met[d] # SeenTtl
        <4>1. met'[d] = met[d] + 1 /\ met'[d] \in Nat /\ met[d] < SeenTtl
          BY <1>14, <3>2, <3>4, Constants
        <4>2. met'[d] # Absent
          BY <4>1, Constants
        <4>3. CASE seen[d] = Absent
          BY <1>4, <3>1, <3>4, <4>2, <4>3
        <4>4. CASE seen[d] # Absent
          <5>1. seen[d] \in Nat /\ seen'[d] = IF seen[d] + 1 > SeenTtl + 1 THEN SeenTtl + 1 ELSE seen[d] + 1
            BY <1>4, <4>4
          <5>2. setting.steady \/ Proxy # Absent => seen'[d] = met'[d]
            BY <3>1, <3>4, <4>1, <5>1, Constants
          <5>3. seen'[d] > SeenTtl \/ seen'[d] >= met'[d]
            BY <3>1, <3>2, <3>4, <4>1, <4>4, <5>1, Constants
          <5>4. QED
            BY <4>2, <5>2, <5>3
        <4>5. QED
          BY <4>3, <4>4
      <3>5. QED
        BY <3>3, <3>4
    <2>2. QED
      BY <2>1, <1>1 DEF NovelInv, Proxy
  <1>10. BypassInv'
    <2>1. ASSUME NEW f \in Flow, bypass'[f] # Absent
          PROVE  /\ Proxy \notin {Absent, f[2]}
                 /\ pending'[f] # Absent /\ pending'[f].port = "http"
                 /\ pending'[f].last <= bypass'[f] /\ bypass'[f] <= pending'[f].first
                 /\ bypass'[f] <= Window
                 /\ reported'[f] # Absent => bypass'[f] <= reported'[f]
      <3>1. bypass[f] # Absent
        BY <1>3, <2>1
      <3>2. /\ Proxy \notin {Absent, f[2]}
            /\ pending[f] # Absent /\ pending[f].port = "http"
            /\ pending[f].last <= bypass[f] /\ bypass[f] <= pending[f].first
            /\ bypass[f] < Window
            /\ reported[f] # Absent => bypass[f] <= reported[f]
        BY <1>1, <1>2, <3>1 DEF BypassInv
      <3>3. bypass[f] \in Nat /\ (reported[f] # Absent => reported[f] \in Nat)
        BY <1>2, <3>1 DEF AgesInv, Age
      <3>4. bypass'[f] = bypass[f] + 1
        BY <1>13, <3>1, <3>2, <3>3, Constants DEF Aged, UpTo
      <3>5. /\ pending[f].last \in Nat /\ pending[f].first \in Nat /\ pending'[f] \in Rec
            /\ pending'[f].last = UpTo(pending[f].last + 1, Keep + 1)
            /\ pending'[f].first = UpTo(pending[f].first + 1, Keep + Window + 1)
            /\ pending'[f].port = "http"
        BY <1>5, <3>2
      <3>6. pending'[f].last <= bypass'[f] /\ bypass'[f] <= pending'[f].first
        BY <3>2, <3>3, <3>4, <3>5, Constants DEF UpTo
      <3>7. ASSUME reported[f] # Absent
            PROVE  bypass'[f] <= reported'[f]
        BY <1>13, <3>2, <3>3, <3>4, <3>7, Constants DEF Aged, UpTo
      <3>8. pending'[f] # Absent /\ bypass'[f] <= Window
        BY <3>2, <3>3, <3>4, <3>5, Constants
      <3>9. QED
        BY <1>3, <3>2, <3>5, <3>6, <3>7, <3>8
    <2>2. QED
      BY <2>1, <1>1 DEF BypassInv, Proxy
  <1>11. QED
    BY <1>6, <1>7, <1>8, <1>9, <1>10 DEF RecInv

LEMMA StepRec == RecInv /\ [Next]_vars => RecInv'
  <1> SUFFICES ASSUME RecInv, [Next]_vars PROVE RecInv'
    OBVIOUS
  <1>1. CASE UNCHANGED vars
    BY <1>1 DEF vars, file, hist, RecInv, AgesInv, SteadyInv, RepeatInv, NovelInv, BypassInv, Proxy
  <1>2. CASE Next
    BY <1>2, WriteRec, RefreshRec, ObserveRec, GcRec, DrainRec, ElapseRec DEF Next
  <1>3. QED
    BY <1>1, <1>2

LEMMA AlwaysRec == Spec => []RecInv
  BY InitRec, StepRec, PTL DEF Spec

-----------------------------------------------------------------------------
(***************************************************************************)
(* drain reports a flow at most once per WINDOW_SEC, through every gc,     *)
(* restart of its record, and time without an activity file: the mark      *)
(* outlives the window in which it counts.                                 *)
(***************************************************************************)
THEOREM NoRepeatHolds == Spec => NoRepeat
  <1>1. RecInv /\ [Next]_vars => [Drain => \A r \in out' : since[r.flow] >= Window]_vars
    <2> SUFFICES ASSUME RecInv, Drain, NEW r \in out'
                 PROVE  since[r.flow] >= Window
      OBVIOUS
    <2>1. r.flow \in Due
      BY DEF Drain
    <2>2. r.flow \in Flow /\ (reported[r.flow] = Absent \/ reported[r.flow] >= Window)
      BY <2>1 DEF Due
    <2>3. since[r.flow] \in Nat /\ (since[r.flow] < Window => reported[r.flow] = since[r.flow])
      BY <2>2, Constants DEF RecInv, AgesInv, RepeatInv
    <2>4. QED
      BY <2>2, <2>3, Constants
  <1>2. QED
    BY <1>1, AlwaysRec, PTL DEF Spec, NoRepeat

(***************************************************************************)
(* A flow is recorded as novel only when no process of an agent's tree has *)
(* been to its destination for a day, under a proxy or while hooks write   *)
(* steadily: the novelty baseline misses no contact.                       *)
(***************************************************************************)
THEOREM NovelIsFirstContactHolds == Spec => NovelIsFirstContact
  <1>1. RecInv /\ [Next]_vars =>
          [setting.steady \/ Proxy # Absent => \A f \in Flow :
             /\ pending'[f] # Absent /\ pending'[f].novel
             /\ pending[f] = Absent \/ ~pending[f].novel
             => met[f[2]] = Absent]_vars
    <2> SUFFICES ASSUME RecInv, Next, setting.steady \/ Proxy # Absent, NEW f \in Flow,
                        pending'[f] # Absent, pending'[f].novel,
                        pending[f] = Absent \/ ~pending[f].novel
                 PROVE  met[f[2]] = Absent
      OBVIOUS
    <2>1. AgesInv /\ NovelInv
      BY DEF RecInv
    <2>2. ASSUME pending'[f] = pending[f]
          PROVE  FALSE
      BY <2>2
    <2>3. CASE UNCHANGED pending
      BY <2>2, <2>3
    <2>4. CASE Gc
      <3>1. pending'[f] = Absent \/ pending'[f] = pending[f]
        BY <2>4 DEF Gc
      <3>2. QED
        BY <2>2, <3>1
    <2>5. CASE Elapse
      <3>1. PICK x, y : pending[f] # Absent => pending'[f] = [pending[f] EXCEPT !.first = x, !.last = y]
        BY <2>5 DEF Elapse
      <3>2. pending[f] # Absent
        BY <2>5 DEF Elapse
      <3>3. pending'[f].novel = pending[f].novel
        BY <2>1, <3>1, <3>2 DEF AgesInv, Rec
      <3>4. QED
        BY <3>2, <3>3
    <2>6. ASSUME NEW p \in setting.senders, NEW d \in Dest, NEW n \in setting.deltas,
                 NEW port \in setting.ports, Observe(p, d, n, port)
          PROVE  met[f[2]] = Absent
      <3>1. Record(p, d, n, port)
        BY <2>2, <2>6 DEF Observe
      <3>2. PICK g : g = <<p, d>>
        OBVIOUS
      <3>3. g[2] = d
        BY <3>2
      <3>4. PICK new :
              /\ pending' = [pending EXCEPT ![g] = new]
              /\ new = IF pending[g] = Absent \/ pending[g].last > Window
                       THEN [first |-> 0, last |-> 0, total |-> n, novel |-> Novel(d), port |-> port]
                       ELSE Merged(pending[g], n, port)
        BY <3>1, <3>2 DEF Record
      <3>5. f = g /\ new = pending'[f]
        BY <2>1, <2>2, <3>4 DEF AgesInv
      <3>6. CASE pending[g] = Absent \/ pending[g].last > Window
        <4>1. Novel(d)
          BY <3>4, <3>5, <3>6
        <4>2. d \in Dest /\ (seen[d] = Absent \/ seen[d] > SeenTtl)
          BY <2>6, <4>1 DEF Novel
        <4>3. ASSUME met[d] # Absent
              PROVE  FALSE
          <5>1. met[d] \in Nat /\ met[d] <= SeenTtl /\ seen[d] = met[d]
            BY <2>1, <4>2, <4>3, Constants DEF AgesInv, Age, NovelInv
          <5>2. QED
            BY <4>2, <5>1, Constants
        <4>4. QED
          BY <3>3, <3>5, <4>3
      <3>7. CASE ~(pending[g] = Absent \/ pending[g].last > Window)
        <4>1. new = Merged(pending[g], n, port) /\ pending[g] \in Rec
          BY <2>1, <3>4, <3>5, <3>7 DEF AgesInv
        <4>2. new.novel = pending[g].novel
          BY <4>1 DEF Merged, Rec
        <4>3. QED
          BY <3>5, <3>7, <4>2
      <3>8. QED
        BY <3>6, <3>7
    <2>7. QED
      BY <2>3, <2>4, <2>5, <2>6
         DEF Next, Declare, Touch, Rotate, Refresh, Drain
  <1>2. QED
    BY <1>1, AlwaysRec, PTL DEF Spec, NovelIsFirstContact

(***************************************************************************)
(* With a proxy configured, a connection that skipped it on a port it      *)
(* could have carried is reported as a bypass within WINDOW_SEC, whatever  *)
(* was declared, merged into the same record, or reported before.          *)
(***************************************************************************)
THEOREM BypassSurfacesHolds == Spec => []BypassSurfaces
  <1>1. RecInv => BypassSurfaces
    BY DEF RecInv, BypassInv, BypassSurfaces
  <1>2. QED
    BY <1>1, AlwaysRec, PTL

-----------------------------------------------------------------------------
(* The declarations held: a piece of the file, in the order it was written.*)

Ordered(ds) == \A i, j \in 1 .. Len(ds) : i <= j => ds[j].age <= ds[i].age
Targetless(ds) == \A i \in 1 .. Len(ds) : ds[i].host = Wild

Has(ds, e) == \E i \in 1 .. Len(ds) : ds[i] = e

\* s is t without its first elements.
Ending(s, t) ==
  /\ s \in Seq(Decl)
  /\ \E k \in 0 .. Len(t) : /\ Len(s) = Len(t) - k
                            /\ \A i \in 1 .. Len(s) : s[i] = t[i + k]

\* Counted from the end, s has the element that t has at i.
At(s, t, i) == LET j == i + Len(s) - Len(t) IN j \in 1 .. Len(s) /\ s[j] = t[i]

\* s has, in its place, all that t has and that is not older than n.
Holds(s, t, n) == \A i \in 1 .. Len(t) : t[i].age <= n => At(s, t, i)

LinesInv ==
  /\ setting \in Settings
  /\ unread \in Seq(Decl) /\ decls \in Seq(Decl) /\ truth \in Seq(Decl)
  /\ gone \in Nat
  /\ Len(decls) + Len(unread) <= setting.maxDecls
  /\ Ordered(decls \o unread)
  /\ setting.hosts = {} => Targetless(decls \o unread)

LEMMA DeclFacts ==
    /\ \A e \in Decl : e.age \in Nat /\ e = [age |-> e.age, pid |-> e.pid, host |-> e.host, nb |-> e.nb]
    /\ \A ds \in Seq(Decl) : /\ Len(ds) \in Nat /\ DOMAIN ds = 1 .. Len(ds)
                             /\ \A i \in 1 .. Len(ds) : ds[i] \in Decl /\ ds[i].age \in Nat
  <1>1. \A e \in Decl : e.age \in Nat /\ e = [age |-> e.age, pid |-> e.pid, host |-> e.host, nb |-> e.nb]
    BY Constants DEF Decl
  <1>2. ASSUME NEW ds \in Seq(Decl)
        PROVE  /\ Len(ds) \in Nat /\ DOMAIN ds = 1 .. Len(ds)
               /\ \A i \in 1 .. Len(ds) : ds[i] \in Decl /\ ds[i].age \in Nat
    BY <1>1
  <1>3. QED
    BY <1>1, <1>2

LEMMA EndingFacts ==
    ASSUME NEW t \in Seq(Decl), NEW s, Ending(s, t)
    PROVE  /\ s \in Seq(Decl) /\ Len(s) <= Len(t)
           /\ Ordered(t) => Ordered(s)
           /\ Targetless(t) => Targetless(s)
  <1>1. PICK k \in 0 .. Len(t) : Len(s) = Len(t) - k /\ \A i \in 1 .. Len(s) : s[i] = t[i + k]
    BY DEF Ending
  <1>2. s \in Seq(Decl) /\ Len(s) \in Nat /\ Len(t) \in Nat /\ Len(s) <= Len(t)
    BY <1>1, DeclFacts DEF Ending
  <1>3. \A i \in 1 .. Len(s) : i + k \in 1 .. Len(t) /\ s[i] = t[i + k]
    BY <1>1, <1>2
  <1>4. Ordered(t) => Ordered(s)
    <2> SUFFICES ASSUME Ordered(t), NEW i \in 1 .. Len(s), NEW j \in 1 .. Len(s), i <= j
                 PROVE  s[j].age <= s[i].age
      BY DEF Ordered
    <2>1. i + k <= j + k
      BY <1>1, <1>2
    <2>2. t[j + k].age <= t[i + k].age
      BY <1>3, <2>1 DEF Ordered
    <2>3. QED
      BY <1>3, <2>2
  <1>5. Targetless(t) => Targetless(s)
    BY <1>3 DEF Targetless
  <1>6. QED
    BY <1>2, <1>4, <1>5

LEMMA EndingOfEnding ==
    ASSUME NEW t \in Seq(Decl), NEW s, Ending(s, t), NEW r, Ending(r, s)
    PROVE  Ending(r, t)
  <1>1. PICK k \in 0 .. Len(t) : Len(s) = Len(t) - k /\ \A i \in 1 .. Len(s) : s[i] = t[i + k]
    BY DEF Ending
  <1>2. PICK m \in 0 .. Len(s) : Len(r) = Len(s) - m /\ \A i \in 1 .. Len(r) : r[i] = s[i + m]
    BY DEF Ending
  <1>3. r \in Seq(Decl) /\ Len(t) \in Nat /\ Len(s) \in Nat
    BY DeclFacts DEF Ending
  <1>4. k + m \in 0 .. Len(t) /\ Len(r) = Len(t) - (k + m)
    BY <1>1, <1>2, <1>3
  <1>5. ASSUME NEW i \in 1 .. Len(r)
        PROVE  r[i] = t[i + (k + m)]
    <2>1. i + m \in 1 .. Len(s) /\ (i + m) + k = i + (k + m)
      BY <1>1, <1>2, <1>3
    <2>2. QED
      BY <1>1, <1>2, <2>1
  <1>6. QED
    BY <1>3, <1>4, <1>5 DEF Ending

LEMMA SubSeqEnds ==
    ASSUME NEW t \in Seq(Decl), NEW k \in 0 .. Len(t), NEW s, s = SubSeq(t, 1 + k, Len(t))
    PROVE  /\ Ending(s, t)
           /\ \A i \in 1 .. Len(t) : i > k => At(s, t, i)
  <1>1. Len(t) \in Nat /\ \A i \in 1 .. Len(t) : t[i] \in Decl
    BY DeclFacts
  <1>3. /\ s \in Seq(Decl) /\ Len(s) = Len(t) - k
        /\ \A i \in 1 .. Len(s) : s[i] = t[i + k]
    <2>1. 1 + k \in Int /\ \A i \in 1 + k .. Len(t) : t[i] \in Decl
      BY <1>1
    <2>2. /\ s \in Seq(Decl)
          /\ Len(s) = IF 1 + k <= Len(t) THEN Len(t) - (1 + k) + 1 ELSE 0
          /\ \A i \in 1 .. Len(t) - (1 + k) + 1 : s[i] = t[1 + k + i - 1]
      BY <1>1, <2>1, SubSeqProperties
    <2>3. Len(s) = Len(t) - k
      BY <1>1, <2>2
    <2>4. ASSUME NEW i \in 1 .. Len(s)
          PROVE  s[i] = t[i + k]
      <3>1. i \in 1 .. Len(t) - (1 + k) + 1 /\ 1 + k + i - 1 = i + k
        BY <1>1, <2>3
      <3>2. QED
        BY <2>2, <3>1
    <2>5. QED
      BY <2>2, <2>3, <2>4
  <1>4. Ending(s, t)
    BY <1>3 DEF Ending
  <1>5. ASSUME NEW i \in 1 .. Len(t), i > k
        PROVE  At(s, t, i)
    <2>1. i + Len(s) - Len(t) \in 1 .. Len(s) /\ (i + Len(s) - Len(t)) + k = i
      BY <1>1, <1>3, <1>5
    <2>2. s[i + Len(s) - Len(t)] = t[i]
      BY <1>3, <2>1
    <2>3. QED
      BY <2>1, <2>2 DEF At
  <1>6. QED
    BY <1>4, <1>5

\* What NoOlder drops is what is older, because the older comes first.
LEMMA NoOlderFacts ==
    ASSUME NEW t \in Seq(Decl), NEW n \in Nat
    PROVE  /\ Ending(NoOlder(t, n), t)
           /\ Ordered(t) => Holds(NoOlder(t, n), t, n)
  <1>1. Len(t) \in Nat /\ DOMAIN t = 1 .. Len(t)
        /\ \A i \in 1 .. Len(t) : t[i] \in Decl /\ t[i].age \in Nat
    BY DeclFacts
  <1>2. PICK Old : Old = {i \in DOMAIN t : t[i].age > n}
    OBVIOUS
  <1>3. \A m \in 0 .. Len(t) : Old \subseteq 1 .. m => Cardinality(Old) \in 0 .. m
    <2> SUFFICES ASSUME NEW m \in 0 .. Len(t), Old \subseteq 1 .. m
                 PROVE  Cardinality(Old) \in 0 .. m
      OBVIOUS
    <2>1. IsFiniteSet(1 .. m) /\ Cardinality(1 .. m) = m
      BY <1>1, FS_Interval
    <2>2. IsFiniteSet(Old) /\ Cardinality(Old) <= m
      BY <2>1, FS_Subset
    <2>3. Cardinality(Old) \in Nat
      BY <2>2, FS_CardinalityType
    <2>4. QED
      BY <2>2, <2>3, <1>1
  <1>4. Cardinality(Old) \in 0 .. Len(t)
    BY <1>1, <1>2, <1>3
  <1>5. ASSUME Ordered(t), NEW i \in 1 .. Len(t), t[i].age <= n
        PROVE  i > Cardinality(Old)
    <2>1. ASSUME NEW j \in Old
          PROVE  j \in 1 .. i - 1
      <3>1. j \in 1 .. Len(t) /\ t[j].age > n
        BY <1>1, <1>2, <2>1
      <3>2. ASSUME i <= j
            PROVE  FALSE
        <4>1. t[j].age <= t[i].age
          BY <1>5, <3>1, <3>2 DEF Ordered
        <4>2. QED
          BY <1>1, <1>5, <3>1, <4>1
      <3>3. QED
        BY <1>1, <3>1, <3>2
    <2>2. i - 1 \in 0 .. Len(t)
      BY <1>1
    <2>3. QED
      BY <1>1, <1>3, <2>1, <2>2
  <1>6. PICK k \in 0 .. Len(t) : k = Cardinality(Old)
    BY <1>4
  <1>7. NoOlder(t, n) = SubSeq(t, 1 + k, Len(t))
    BY <1>2, <1>6 DEF NoOlder
  <1>8. PICK s : s = NoOlder(t, n)
    OBVIOUS
  <1>9. Ending(s, t) /\ \A i \in 1 .. Len(t) : i > k => At(s, t, i)
    <2>1. s = SubSeq(t, 1 + k, Len(t))
      BY <1>7, <1>8
    <2>2. QED
      BY <1>6, <2>1, SubSeqEnds
  <1>10. Ordered(t) => Holds(s, t, n)
    BY <1>5, <1>6, <1>9 DEF Holds
  <1>11. QED
    BY <1>8, <1>9, <1>10

\* The cap keeps the newest, and all while there is room.
LEMMA NewestFacts ==
    ASSUME NEW t \in Seq(Decl)
    PROVE  /\ Ending(Newest(t), t)
           /\ Len(t) <= MaxLines => Newest(t) = t
  <1>1. Len(t) \in Nat /\ MaxLines \in Nat
    BY DeclFacts, ReconcilerAssumption
  <1>2. PICK k : k = IF Len(t) > MaxLines THEN Len(t) - MaxLines ELSE 0
    OBVIOUS
  <1>3. k \in 0 .. Len(t) /\ 1 + k = IF Len(t) > MaxLines THEN Len(t) - MaxLines + 1 ELSE 1
    BY <1>1, <1>2
  <1>4. Newest(t) = SubSeq(t, 1 + k, Len(t))
    BY <1>3 DEF Newest
  <1>5. Len(t) <= MaxLines => Newest(t) = t
    <2>1. ASSUME Len(t) <= MaxLines
          PROVE  Newest(t) = SubSeq(t, 1, Len(t))
      <3>1. 1 + k = 1
        BY <1>1, <1>2, <2>1
      <3>2. QED
        BY <1>4, <3>1, Zenon
    <2>2. SubSeq(t, 1, Len(t)) = t
      BY SubSeqFull
    <2>3. QED
      BY <2>1, <2>2
  <1>6. QED
    BY <1>3, <1>4, <1>5, SubSeqEnds

LEMMA GrownFacts ==
    ASSUME NEW ds \in Seq(Decl)
    PROVE  /\ Grown(ds) \in Seq(Decl) /\ Len(Grown(ds)) = Len(ds)
           /\ \A i \in 1 .. Len(ds) :
                /\ Grown(ds)[i] = [ds[i] EXCEPT !.age = UpTo(@ + 1, Keep + 1)]
                /\ Grown(ds)[i].age = UpTo(ds[i].age + 1, Keep + 1)
                /\ Grown(ds)[i].host = ds[i].host
           /\ Ordered(ds) => Ordered(Grown(ds))
           /\ Targetless(ds) => Targetless(Grown(ds))
  <1>1. Len(ds) \in Nat /\ DOMAIN ds = 1 .. Len(ds)
        /\ \A i \in 1 .. Len(ds) : ds[i] \in Decl /\ ds[i].age \in Nat
    BY DeclFacts
  <1>2. ASSUME NEW e \in Decl, NEW g, g = [e EXCEPT !.age = UpTo(@ + 1, Keep + 1)]
        PROVE  g \in Decl /\ g.age = UpTo(e.age + 1, Keep + 1) /\ g.host = e.host
    <2>1. PICK y : y = UpTo(e.age + 1, Keep + 1)
      OBVIOUS
    <2>2. e.age \in 0 .. Keep + 1
      BY DEF Decl
    <2>3. y \in 0 .. Keep + 1
      BY <2>1, <2>2, Constants DEF UpTo
    <2>4. g = [e EXCEPT !.age = y]
      BY <1>2, <2>1
    <2>5. QED
      BY <2>1, <2>3, <2>4 DEF Decl
  <1>3. PICK gs : gs = Grown(ds)
    OBVIOUS
  <1>4. gs = [i \in 1 .. Len(ds) |-> [ds[i] EXCEPT !.age = UpTo(@ + 1, Keep + 1)]]
    BY <1>1, <1>3 DEF Grown
  <1>5. ASSUME NEW i \in 1 .. Len(ds)
        PROVE  /\ gs[i] \in Decl /\ gs[i] = [ds[i] EXCEPT !.age = UpTo(@ + 1, Keep + 1)]
               /\ gs[i].age = UpTo(ds[i].age + 1, Keep + 1) /\ gs[i].host = ds[i].host
    <2>1. gs[i] = [ds[i] EXCEPT !.age = UpTo(@ + 1, Keep + 1)]
      BY <1>4
    <2>2. QED
      BY <1>1, <1>2, <2>1
  <1>6. gs \in Seq(Decl) /\ Len(gs) = Len(ds)
    <2>1. gs \in [1 .. Len(ds) -> Decl]
      BY <1>4, <1>5
    <2>2. QED
      BY <1>1, <2>1, LenProperties
  <1>7. Ordered(ds) => Ordered(gs)
    <2> SUFFICES ASSUME Ordered(ds), NEW i \in 1 .. Len(gs), NEW j \in 1 .. Len(gs), i <= j
                 PROVE  gs[j].age <= gs[i].age
      BY DEF Ordered
    <2>1. i \in 1 .. Len(ds) /\ j \in 1 .. Len(ds)
      BY <1>6
    <2>2. /\ ds[j].age <= ds[i].age /\ ds[i].age \in Nat /\ ds[j].age \in Nat
          /\ gs[i].age = UpTo(ds[i].age + 1, Keep + 1) /\ gs[j].age = UpTo(ds[j].age + 1, Keep + 1)
      BY <1>1, <1>5, <2>1 DEF Ordered
    <2>3. \A a, b \in Nat : b <= a => UpTo(b + 1, Keep + 1) <= UpTo(a + 1, Keep + 1)
      <3>1. Keep \in Nat
        BY Constants
      <3>2. QED
        BY <3>1 DEF UpTo
    <2>4. QED
      BY <2>2, <2>3
  <1>8. Targetless(ds) => Targetless(gs)
    BY <1>5, <1>6 DEF Targetless
  <1>9. QED
    BY <1>3, <1>5, <1>6, <1>7, <1>8

\* Two pieces of the file, one after the other.
LEMMA JoinFacts ==
    ASSUME NEW a \in Seq(Decl), NEW b \in Seq(Decl), NEW ab, ab = a \o b
    PROVE  /\ ab \in Seq(Decl) /\ Len(ab) = Len(a) + Len(b)
           /\ \A i \in 1 .. Len(a) : ab[i] = a[i]
           /\ \A i \in 1 .. Len(b) : ab[Len(a) + i] = b[i]
           /\ \A i \in 1 .. Len(ab) : Has(a, ab[i]) \/ Has(b, ab[i])
           /\ \A e : Has(a, e) \/ Has(b, e) => Has(ab, e)
           /\ Ending(b, ab)
  <1>1. Len(a) \in Nat /\ Len(b) \in Nat
    BY DeclFacts
  <1>2. /\ ab \in Seq(Decl) /\ Len(ab) = Len(a) + Len(b)
        /\ \A i \in 1 .. Len(a) + Len(b) : ab[i] = IF i <= Len(a) THEN a[i] ELSE b[i - Len(a)]
    BY ConcatProperties
  <1>3. \A i \in 1 .. Len(a) : i \in 1 .. Len(ab) /\ ab[i] = a[i]
    BY <1>1, <1>2
  <1>4. ASSUME NEW i \in 1 .. Len(b)
        PROVE  Len(a) + i \in 1 .. Len(ab) /\ ab[Len(a) + i] = b[i]
    <2>1. Len(a) + i \in 1 .. Len(a) + Len(b) /\ ~(Len(a) + i <= Len(a)) /\ Len(a) + i - Len(a) = i
      BY <1>1
    <2>2. QED
      BY <1>2, <2>1
  <1>5. ASSUME NEW i \in 1 .. Len(ab)
        PROVE  Has(a, ab[i]) \/ Has(b, ab[i])
    <2>1. CASE i <= Len(a)
      BY <1>1, <1>2, <1>5, <2>1 DEF Has
    <2>2. CASE ~(i <= Len(a))
      <3>1. i - Len(a) \in 1 .. Len(b) /\ ab[i] = b[i - Len(a)]
        BY <1>1, <1>2, <1>5, <2>2
      <3>2. QED
        BY <3>1 DEF Has
    <2>3. QED
      BY <2>1, <2>2
  <1>6. \A e : Has(a, e) \/ Has(b, e) => Has(ab, e)
    BY <1>3, <1>4 DEF Has
  <1>7. Ending(b, ab)
    <2>1. Len(a) \in 0 .. Len(ab) /\ Len(b) = Len(ab) - Len(a)
      BY <1>1, <1>2
    <2>2. \A i \in 1 .. Len(b) : b[i] = ab[i + Len(a)]
      <3>1. \A i \in 1 .. Len(b) : i + Len(a) = Len(a) + i
        BY <1>1
      <3>2. QED
        BY <1>4, <3>1
    <2>3. QED
      BY <2>1, <2>2 DEF Ending
  <1>8. QED
    BY <1>2, <1>3, <1>4, <1>5, <1>6, <1>7

\* A declaration appended now is the youngest.
LEMMA AppendFacts ==
    ASSUME NEW a \in Seq(Decl), NEW b \in Seq(Decl), NEW x \in Decl, x.age = 0,
           Ordered(a \o b)
    PROVE  /\ Append(b, x) \in Seq(Decl) /\ Len(Append(b, x)) = Len(b) + 1
           /\ Ordered(a \o Append(b, x))
           /\ Targetless(a \o b) /\ x.host = Wild => Targetless(a \o Append(b, x))
  <1>1. PICK ab : ab = a \o b
    OBVIOUS
  <1>2. PICK bx : bx = Append(b, x)
    OBVIOUS
  <1>3. PICK abx : abx = a \o bx
    OBVIOUS
  <1>4. /\ bx \in Seq(Decl) /\ Len(bx) = Len(b) + 1
        /\ \A i \in 1 .. Len(b) : bx[i] = b[i]
        /\ bx[Len(b) + 1] = x
    BY <1>2, AppendProperties
  <1>5. /\ ab \in Seq(Decl) /\ Len(ab) = Len(a) + Len(b)
        /\ \A i \in 1 .. Len(a) : ab[i] = a[i]
        /\ \A i \in 1 .. Len(b) : ab[Len(a) + i] = b[i]
    BY <1>1, JoinFacts
  <1>6. /\ abx \in Seq(Decl) /\ Len(abx) = Len(a) + Len(bx)
        /\ \A i \in 1 .. Len(a) : abx[i] = a[i]
        /\ \A i \in 1 .. Len(bx) : abx[Len(a) + i] = bx[i]
    <2>1. bx \in Seq(Decl)
      BY <1>4
    <2>2. QED
      BY <1>3, <2>1, JoinFacts
  <1>7. Len(a) \in Nat /\ Len(b) \in Nat /\ \A i \in 1 .. Len(ab) : ab[i].age \in Nat
    BY <1>5, DeclFacts
  <1>8. Len(abx) = Len(ab) + 1
    BY <1>4, <1>5, <1>6, <1>7
  <1>9. abx[Len(ab) + 1] = x
    <2>1. Len(b) + 1 \in 1 .. Len(bx) /\ Len(a) + (Len(b) + 1) = Len(ab) + 1
      BY <1>4, <1>5, <1>7
    <2>2. abx[Len(a) + (Len(b) + 1)] = x
      BY <1>4, <1>6, <2>1
    <2>3. QED
      BY <2>1, <2>2
  <1>10. ASSUME NEW i \in 1 .. Len(ab)
         PROVE  abx[i] = ab[i]
    <2>1. CASE i <= Len(a)
      BY <1>5, <1>6, <1>7, <1>10, <2>1
    <2>2. CASE ~(i <= Len(a))
      <3>1. PICK j \in 1 .. Len(b) : i = Len(a) + j
        <4>1. i - Len(a) \in 1 .. Len(b) /\ i = Len(a) + (i - Len(a))
          BY <1>5, <1>7, <1>10, <2>2
        <4>2. QED
          BY <4>1
      <3>2. j \in 1 .. Len(bx)
        BY <1>4, <1>7, <3>1
      <3>3. QED
        BY <1>4, <1>5, <1>6, <3>1, <3>2
    <2>3. QED
      BY <2>1, <2>2
  <1>11. Ordered(abx)
    <2> SUFFICES ASSUME NEW i \in 1 .. Len(abx), NEW j \in 1 .. Len(abx), i <= j
                 PROVE  abx[j].age <= abx[i].age
      BY DEF Ordered
    <2>0. Len(ab) \in Nat
      BY <1>5, <1>7
    <2>1. CASE j = Len(ab) + 1
      <3>1. abx[j].age = 0
        BY <1>9, <2>1
      <3>2. abx[i].age \in Nat
        BY <1>6, DeclFacts
      <3>3. QED
        BY <3>1, <3>2
    <2>2. CASE j # Len(ab) + 1
      <3>1. i \in 1 .. Len(ab) /\ j \in 1 .. Len(ab)
        BY <1>8, <2>0, <2>2
      <3>2. ab[j].age <= ab[i].age
        BY <1>1, <3>1 DEF Ordered
      <3>3. QED
        BY <1>10, <3>1, <3>2
    <2>3. QED
      BY <2>1, <2>2
  <1>12. Targetless(ab) /\ x.host = Wild => Targetless(abx)
    <2> SUFFICES ASSUME Targetless(ab), x.host = Wild, NEW i \in 1 .. Len(abx)
                 PROVE  abx[i].host = Wild
      BY DEF Targetless
    <2>1. Len(ab) \in Nat
      BY <1>5, <1>7
    <2>2. CASE i = Len(ab) + 1
      BY <1>9, <2>2
    <2>3. CASE i # Len(ab) + 1
      <3>1. i \in 1 .. Len(ab)
        BY <1>8, <2>1, <2>3
      <3>2. QED
        BY <1>10, <3>1 DEF Targetless
    <2>4. QED
      BY <2>2, <2>3
  <1>13. QED
    BY <1>1, <1>2, <1>3, <1>4, <1>11, <1>12

\* All grow older together.
LEMMA GrownJoin ==
    ASSUME NEW a \in Seq(Decl), NEW b \in Seq(Decl)
    PROVE  Grown(a) \o Grown(b) = Grown(a \o b)
  <1>1. PICK ab : ab = a \o b
    OBVIOUS
  <1>2. PICK ga : ga = Grown(a)
    OBVIOUS
  <1>3. PICK gb : gb = Grown(b)
    OBVIOUS
  <1>4. PICK gab : gab = Grown(ab)
    OBVIOUS
  <1>5. PICK j : j = ga \o gb
    OBVIOUS
  <1>6. Len(a) \in Nat /\ Len(b) \in Nat
    BY DeclFacts
  <1>7. /\ ab \in Seq(Decl) /\ Len(ab) = Len(a) + Len(b)
        /\ \A i \in 1 .. Len(a) : ab[i] = a[i]
        /\ \A i \in 1 .. Len(b) : ab[Len(a) + i] = b[i]
    BY <1>1, JoinFacts
  <1>8. /\ ga \in Seq(Decl) /\ Len(ga) = Len(a)
        /\ \A i \in 1 .. Len(a) : ga[i] = [a[i] EXCEPT !.age = UpTo(@ + 1, Keep + 1)]
    BY <1>2, GrownFacts
  <1>9. /\ gb \in Seq(Decl) /\ Len(gb) = Len(b)
        /\ \A i \in 1 .. Len(b) : gb[i] = [b[i] EXCEPT !.age = UpTo(@ + 1, Keep + 1)]
    BY <1>3, GrownFacts
  <1>10. /\ gab \in Seq(Decl) /\ Len(gab) = Len(ab)
         /\ \A i \in 1 .. Len(ab) : gab[i] = [ab[i] EXCEPT !.age = UpTo(@ + 1, Keep + 1)]
    BY <1>4, <1>7, GrownFacts
  <1>11. /\ j \in Seq(Decl) /\ Len(j) = Len(ga) + Len(gb)
         /\ \A i \in 1 .. Len(ga) : j[i] = ga[i]
         /\ \A i \in 1 .. Len(gb) : j[Len(ga) + i] = gb[i]
    <2>1. ga \in Seq(Decl) /\ gb \in Seq(Decl)
      BY <1>8, <1>9
    <2>2. QED
      BY <1>5, <2>1, JoinFacts
  <1>12. Len(j) = Len(gab)
    BY <1>7, <1>8, <1>9, <1>10, <1>11
  <1>13. ASSUME NEW i \in 1 .. Len(j)
         PROVE  j[i] = gab[i]
    <2>0. i \in 1 .. Len(ab)
      BY <1>10, <1>12
    <2>1. CASE i <= Len(a)
      <3>1. i \in 1 .. Len(a) /\ i \in 1 .. Len(ga)
        BY <1>6, <1>8, <2>0, <2>1
      <3>2. QED
        BY <1>7, <1>8, <1>10, <1>11, <2>0, <3>1
    <2>2. CASE ~(i <= Len(a))
      <3>1. PICK m \in 1 .. Len(b) : i = Len(a) + m
        <4>1. i - Len(a) \in 1 .. Len(b) /\ i = Len(a) + (i - Len(a))
          BY <1>6, <1>7, <2>0, <2>2
        <4>2. QED
          BY <4>1
      <3>2. j[i] = gb[m] /\ ab[i] = b[m]
        BY <1>7, <1>8, <1>9, <1>11, <3>1
      <3>3. gb[m] = [b[m] EXCEPT !.age = UpTo(@ + 1, Keep + 1)]
        BY <1>9, <3>1
      <3>4. gab[i] = [ab[i] EXCEPT !.age = UpTo(@ + 1, Keep + 1)]
        BY <1>10, <2>0
      <3>5. QED
        BY <3>2, <3>3, <3>4, Zenon
    <2>3. QED
      BY <2>1, <2>2
  <1>14. j = gab
    BY <1>10, <1>11, <1>12, <1>13, SeqEqual
  <1>15. QED
    BY <1>1, <1>2, <1>3, <1>4, <1>5, <1>14

\* Who writes, and what a line says.
LEMMA DeclType ==
    ASSUME setting \in Settings, NEW p \in Agents, NEW h \in setting.hosts \cup {Wild},
           NEW nb \in setting.sizes, NEW x, x = [age |-> 0, pid |-> p, host |-> h, nb |-> nb]
    PROVE  /\ x \in Decl /\ x.age = 0
           /\ setting.hosts = {} => x.host = Wild
  <1>1. p \in Pid /\ h \in Host \cup {Wild} /\ nb \in Nat \cup {Absent} /\ 0 \in 0 .. Keep + 1
    BY ReconcilerAssumption, Constants
  <1>2. QED
    BY <1>1 DEF Decl

\* The lines refresh holds against its window: all it had, unless the file is
\* another one, and what it reads.
Read == (IF rotated THEN <<>> ELSE decls) \o unread

LEMMA ReadFacts ==
    ASSUME LinesInv
    PROVE  /\ Read \in Seq(Decl) /\ Ending(Read, decls \o unread)
           /\ Len(Read) <= Len(decls) + Len(unread) /\ Ordered(Read)
  <1>1. unread \in Seq(Decl) /\ decls \in Seq(Decl) /\ Ordered(decls \o unread)
    BY DEF LinesInv
  <1>2. PICK all : all = decls \o unread
    OBVIOUS
  <1>3. PICK ds : ds = Read
    OBVIOUS
  <1>4. all \in Seq(Decl) /\ Len(all) = Len(decls) + Len(unread) /\ Ending(unread, all)
    BY <1>1, <1>2, JoinFacts, ZenonT(60)
  <1>5. Ending(ds, all)
    <2>1. CASE rotated
      <3>1. <<>> \o unread = unread
        BY <1>1, ConcatEmptySeq
      <3>2. QED
        BY <1>3, <1>4, <2>1, <3>1 DEF Read
    <2>2. CASE ~rotated
      <3>1. ds = all
        BY <1>2, <1>3, <2>2 DEF Read
      <3>2. 0 \in 0 .. Len(all) /\ Len(all) = Len(all) - 0 /\ \A i \in 1 .. Len(all) : all[i] = all[i + 0]
        BY <1>4, DeclFacts
      <3>3. QED
        BY <1>4, <3>1, <3>2 DEF Ending
    <2>3. QED
      BY <2>1, <2>2
  <1>6. ds \in Seq(Decl) /\ Len(ds) <= Len(all) /\ Ordered(ds)
    BY <1>1, <1>2, <1>4, <1>5, EndingFacts
  <1>7. QED
    BY <1>2, <1>3, <1>4, <1>5, <1>6

LEMMA InitLines == Init => LinesInv
  <1> SUFFICES ASSUME Init PROVE LinesInv
    OBVIOUS
  <1>1. unread = <<>> /\ decls = <<>> /\ truth = <<>> /\ gone = 0 /\ setting \in Settings
    BY DEF Init
  <1>2. <<>> \in Seq(Decl) /\ Len(<<>>) = 0 /\ <<>> \o <<>> = <<>>
    BY ConcatEmptySeq
  <1>3. Len(decls) + Len(unread) <= setting.maxDecls
    BY <1>1, <1>2, ReconcilerAssumption
  <1>4. Ordered(decls \o unread) /\ Targetless(decls \o unread)
    <2>1. decls \o unread = <<>> /\ Len(<<>>) = 0
      BY <1>1, <1>2
    <2>2. Ordered(<<>>) /\ Targetless(<<>>)
      BY DEF Ordered, Targetless
    <2>3. QED
      BY <2>1, <2>2
  <1>5. QED
    BY <1>1, <1>2, <1>3, <1>4 DEF LinesInv

LEMMA RefreshLines ==
    ASSUME LinesInv, Refresh
    PROVE  LinesInv'
  <1>1. CASE mtime = Absent
    BY <1>1 DEF Refresh, LinesInv
  <1>2. CASE mtime # Absent
    <2>1. /\ setting' = setting /\ unread' = <<>> /\ decls' = Newest(Kept(Read))
          /\ truth' = truth \o unread /\ gone' = gone
      BY <1>2 DEF Refresh, Read
    <2>2. PICK all : all = decls \o unread
      OBVIOUS
    <2>3. PICK ds : ds = decls'
      OBVIOUS
    <2>4. all \in Seq(Decl) /\ Len(all) = Len(decls) + Len(unread)
      <3>1. unread \in Seq(Decl) /\ decls \in Seq(Decl)
        BY DEF LinesInv
      <3>2. QED
        BY <2>2, <3>1, JoinFacts
    <2>5. Ending(ds, all)
      <3>1. Read \in Seq(Decl) /\ Ending(Read, all)
        BY <2>2, ReadFacts
      <3>2. PICK k : k = Kept(Read)
        OBVIOUS
      <3>3. Ending(k, Read)
        BY <3>1, <3>2, NoOlderFacts, Constants DEF Kept
      <3>4. k \in Seq(Decl) /\ Ending(k, all)
        <4>1. k \in Seq(Decl)
          BY <3>3 DEF Ending
        <4>2. Ending(k, all)
          BY <2>4, <3>1, <3>3, EndingOfEnding
        <4>3. QED
          BY <4>1, <4>2
      <3>5. Ending(ds, k)
        BY <2>1, <2>3, <3>2, <3>4, NewestFacts
      <3>6. QED
        BY <2>4, <3>4, <3>5, EndingOfEnding
    <2>6. /\ ds \in Seq(Decl) /\ Len(ds) <= Len(all)
          /\ Ordered(all) => Ordered(ds)
          /\ Targetless(all) => Targetless(ds)
      BY <2>4, <2>5, EndingFacts
    <2>7. (decls \o unread)' = ds
      <3>1. ds \o <<>> = ds
        BY <2>6, ConcatEmptySeq
      <3>2. QED
        BY <2>1, <2>3, <3>1
    <2>8. unread' \in Seq(Decl) /\ decls' \in Seq(Decl)
      BY <2>1, <2>3, <2>6
    <2>9. truth' \in Seq(Decl)
      <3>1. truth \in Seq(Decl) /\ unread \in Seq(Decl)
        BY DEF LinesInv
      <3>2. QED
        BY <2>1, <3>1, JoinFacts
    <2>10. Len(decls') + Len(unread') <= setting'.maxDecls
      <3>1. Len(all) <= setting.maxDecls /\ setting.maxDecls \in Nat
        BY <2>4, ReconcilerAssumption DEF LinesInv
      <3>2. Len(unread') = 0 /\ Len(ds) \in Nat /\ Len(all) \in Nat
        BY <2>1, <2>4, <2>6, DeclFacts
      <3>3. QED
        BY <2>1, <2>3, <2>6, <3>1, <3>2
    <2>11. Ordered(decls \o unread)' /\ (setting'.hosts = {} => Targetless(decls \o unread)')
      <3>1. Ordered(all) /\ (setting.hosts = {} => Targetless(all))
        BY <2>2 DEF LinesInv
      <3>2. Ordered(ds) /\ (setting'.hosts = {} => Targetless(ds))
        BY <2>1, <2>6, <3>1
      <3>3. QED
        BY <2>7, <3>2 DEF Ordered, Targetless
    <2>12. gone' \in Nat
      BY <2>1 DEF LinesInv
    <2>13. QED
      BY <2>1, <2>8, <2>9, <2>10, <2>11, <2>12 DEF LinesInv
  <1>3. QED
    BY <1>1, <1>2

LEMMA ElapseLines ==
    ASSUME LinesInv, Elapse
    PROVE  LinesInv'
  <1>1. /\ setting' = setting /\ unread' = Grown(unread) /\ decls' = Grown(decls)
        /\ truth' = NoOlder(Grown(truth), Keep)
    BY DEF Elapse
  <1>2. unread \in Seq(Decl) /\ decls \in Seq(Decl) /\ truth \in Seq(Decl)
    BY DEF LinesInv
  <1>3. PICK all : all = decls \o unread
    OBVIOUS
  <1>4. all \in Seq(Decl)
    BY <1>2, <1>3, JoinFacts
  <1>5. (decls \o unread)' = Grown(all)
    BY <1>1, <1>2, <1>3, GrownJoin
  <1>6. /\ Ordered(all) => Ordered(Grown(all))
        /\ Targetless(all) => Targetless(Grown(all))
    BY <1>4, GrownFacts
  <1>7. Ordered(decls \o unread)' /\ (setting'.hosts = {} => Targetless(decls \o unread)')
    <2>1. Ordered(all) /\ (setting.hosts = {} => Targetless(all))
      BY <1>3 DEF LinesInv
    <2>2. PICK g : g = Grown(all)
      OBVIOUS
    <2>3. Ordered(g) /\ (setting'.hosts = {} => Targetless(g)) /\ (decls \o unread)' = g
      BY <1>1, <1>5, <1>6, <2>1, <2>2
    <2>4. QED
      BY <2>3 DEF Ordered, Targetless
  <1>8. /\ unread' \in Seq(Decl) /\ Len(unread') = Len(unread)
        /\ decls' \in Seq(Decl) /\ Len(decls') = Len(decls)
    BY <1>1, <1>2, GrownFacts
  <1>9. truth' \in Seq(Decl)
    <2>1. PICK g : g = Grown(truth)
      OBVIOUS
    <2>2. g \in Seq(Decl)
      BY <1>2, <2>1, GrownFacts
    <2>3. Ending(NoOlder(g, Keep), g)
      BY <2>2, NoOlderFacts, Constants
    <2>4. QED
      BY <1>1, <2>1, <2>3 DEF Ending
  <1>10. gone' \in Nat
    <2>1. Len(truth') \in Nat /\ Len(truth) \in Nat /\ gone \in Nat
      BY <1>2, <1>9, DeclFacts DEF LinesInv
    <2>2. gone' = IF gone > Len(truth) - Len(truth') THEN gone - (Len(truth) - Len(truth')) ELSE 0
      BY DEF Elapse
    <2>3. QED
      BY <2>1, <2>2
  <1>11. QED
    BY <1>1, <1>7, <1>8, <1>9, <1>10 DEF LinesInv

LEMMA StepLines == LinesInv /\ [Next]_vars => LinesInv'
  <1> SUFFICES ASSUME LinesInv, [Next]_vars PROVE LinesInv'
    OBVIOUS
  <1>1. CASE UNCHANGED <<setting, unread, decls, truth, gone>>
    BY <1>1 DEF LinesInv, Ordered, Targetless
  <1>2. ASSUME NEW p \in Agents, NEW h \in setting.hosts \cup {Wild}, NEW nb \in setting.sizes,
               Declare(p, h, nb)
        PROVE  LinesInv'
    <2>1. PICK x : x = [age |-> 0, pid |-> p, host |-> h, nb |-> nb]
      OBVIOUS
    <2>2. /\ UNCHANGED <<setting, decls, truth, gone>> /\ unread' = Append(unread, x)
          /\ Len(unread) + Len(decls) < setting.maxDecls
      BY <1>2, <2>1 DEF Declare, hist
    <2>3. /\ unread \in Seq(Decl) /\ decls \in Seq(Decl) /\ truth \in Seq(Decl)
          /\ setting \in Settings /\ gone \in Nat
          /\ Ordered(decls \o unread) /\ (setting.hosts = {} => Targetless(decls \o unread))
      BY DEF LinesInv
    <2>4. x \in Decl /\ x.age = 0 /\ (setting.hosts = {} => x.host = Wild)
      BY <2>1, <2>3, DeclType
    <2>5. /\ Append(unread, x) \in Seq(Decl) /\ Len(Append(unread, x)) = Len(unread) + 1
          /\ Ordered(decls \o Append(unread, x))
          /\ Targetless(decls \o unread) /\ x.host = Wild => Targetless(decls \o Append(unread, x))
      BY <2>3, <2>4, AppendFacts
    <2>6. Len(decls') + Len(unread') <= setting'.maxDecls
      <3>1. Len(decls) \in Nat /\ Len(unread) \in Nat /\ setting.maxDecls \in Nat
        BY <2>3, DeclFacts, ReconcilerAssumption
      <3>2. Len(unread') = Len(unread) + 1 /\ Len(decls') = Len(decls)
            /\ setting'.maxDecls = setting.maxDecls
        BY <2>2, <2>5
      <3>3. Len(unread) + Len(decls) < setting.maxDecls
        BY <2>2
      <3>4. QED
        BY <3>1, <3>2, <3>3
    <2>7. PICK all : all = decls \o Append(unread, x)
      OBVIOUS
    <2>8. (decls \o unread)' = all /\ Ordered(all) /\ (setting'.hosts = {} => Targetless(all))
      BY <2>2, <2>3, <2>4, <2>5, <2>7
    <2>9. Ordered(decls \o unread)' /\ (setting'.hosts = {} => Targetless(decls \o unread)')
      BY <2>8 DEF Ordered, Targetless
    <2>10. /\ setting' \in Settings /\ unread' \in Seq(Decl) /\ decls' \in Seq(Decl)
           /\ truth' \in Seq(Decl) /\ gone' \in Nat
      BY <2>2, <2>3, <2>5
    <2>11. QED
      BY <2>6, <2>9, <2>10 DEF LinesInv
  <1>3. CASE Rotate
    <2>1. /\ UNCHANGED <<setting, decls>> /\ unread' = <<>>
          /\ truth' = truth \o unread /\ gone' = Len(truth')
      BY <1>3 DEF Rotate
    <2>2. /\ unread \in Seq(Decl) /\ decls \in Seq(Decl) /\ truth \in Seq(Decl) /\ setting \in Settings
      BY DEF LinesInv
    <2>3. PICK all : all = decls \o unread
      OBVIOUS
    <2>4. /\ all \in Seq(Decl) /\ Len(all) = Len(decls) + Len(unread)
          /\ \A i \in 1 .. Len(decls) : all[i] = decls[i]
      BY <2>2, <2>3, JoinFacts
    <2>5. Len(decls) \in Nat /\ Len(unread) \in Nat /\ setting.maxDecls \in Nat
      BY <2>2, DeclFacts, ReconcilerAssumption
    <2>6. \A i \in 1 .. Len(decls) : i \in 1 .. Len(all)
      BY <2>4, <2>5
    <2>7. Ordered(decls) /\ (setting.hosts = {} => Targetless(decls))
      <3>1. Ordered(all) /\ (setting.hosts = {} => Targetless(all))
        BY <2>3 DEF LinesInv
      <3>2. QED
        BY <2>4, <2>6, <3>1 DEF Ordered, Targetless
    <2>8. (decls \o unread)' = decls
      <3>1. decls \o <<>> = decls
        BY <2>2, ConcatEmptySeq
      <3>2. QED
        BY <2>1, <3>1
    <2>9. Ordered(decls \o unread)' /\ (setting'.hosts = {} => Targetless(decls \o unread)')
      BY <2>1, <2>7, <2>8 DEF Ordered, Targetless
    <2>10. Len(decls') + Len(unread') <= setting'.maxDecls
      <3>1. Len(decls) + Len(unread) <= setting.maxDecls /\ Len(unread') = 0
        BY <2>1 DEF LinesInv
      <3>2. QED
        BY <2>1, <2>5, <3>1
    <2>11. unread' \in Seq(Decl) /\ truth' \in Seq(Decl) /\ gone' \in Nat
      <3>1. <<>> \in Seq(Decl)
        BY EmptySeq
      <3>2. truth' \in Seq(Decl)
        BY <2>1, <2>2, JoinFacts
      <3>3. QED
        BY <2>1, <3>1, <3>2, DeclFacts
    <2>12. QED
      BY <2>1, <2>2, <2>9, <2>10, <2>11 DEF LinesInv
  <1>4. CASE Refresh
    BY <1>4, RefreshLines
  <1>5. CASE Elapse
    BY <1>5, ElapseLines
  <1>6. CASE Touch \/ Gc \/ Drain \/ (\E p \in setting.senders, d \in Dest, n \in setting.deltas,
                                         port \in setting.ports : Observe(p, d, n, port))
    <2>1. UNCHANGED <<setting, unread, decls, truth, gone>>
      BY <1>6 DEF Touch, Gc, Drain, Observe, file, hist
    <2>2. QED
      BY <1>1, <2>1
  <1>7. CASE UNCHANGED vars
    BY <1>1, <1>7 DEF vars, file, hist
  <1>8. QED
    BY <1>2, <1>3, <1>4, <1>5, <1>6, <1>7 DEF Next

-----------------------------------------------------------------------------
(* What the agent declared is held for as long as it counts, and drain     *)
(* found nothing that explains what it calls undeclared.                   *)

\* No behaviour writes more declarations than the tail may hold.
Roomy == \A e \in Settings : e.maxDecls <= MaxLines

\* Where those of decls stand that explain a flow.
Hits(f, first) == {i \in DOMAIN decls : Explains(decls[i], f, first)}

\* The same of those past the first g.
HoldsFrom(s, t, g, n) == \A i \in 1 .. Len(t) : i > g /\ t[i].age <= n => At(s, t, i)

TruthInv ==
  /\ HoldsFrom(decls, truth, gone, Window)
  /\ rotated => gone >= Len(truth)
  /\ pc # "done" => out = {}
  /\ \A r \in out : r.note = "undeclared" =>
        \A i \in 1 .. Len(decls) : ~Explains(decls[i], r.flow, r.first)

\* What is reported as an excess is one over all that decls has for the flow.
ExcessInv ==
  /\ pc # "done" => out = {}
  /\ \A r \in out : r.note = "excess" =>
        /\ r.total \in Nat /\ \A i \in Hits(r.flow, r.first) : decls[i].nb # Absent
        /\ r.total > SumFunction([i \in Hits(r.flow, r.first) |-> decls[i].nb]) * ExcessFactor

LEMMA InitTruth == Init => TruthInv /\ ExcessInv
  <1> SUFFICES ASSUME Init PROVE TruthInv /\ ExcessInv
    OBVIOUS
  <1>1. Len(truth) = 0 /\ out = {} /\ rotated = FALSE
    BY DEF Init
  <1>2. QED
    BY <1>1 DEF TruthInv, ExcessInv, HoldsFrom

LEMMA RefreshTruth ==
    ASSUME LinesInv, TruthInv, Roomy, Refresh
    PROVE  TruthInv'
  <1>1. out' = out /\ out = {} /\ setting' = setting
    BY DEF Refresh, TruthInv
  <1>2. CASE mtime = Absent
    <2>1. UNCHANGED <<truth, gone, rotated, decls>>
      BY <1>2 DEF Refresh
    <2>2. HoldsFrom(decls, truth, gone, Window)'
      BY <2>1 DEF TruthInv, HoldsFrom, At
    <2>3. QED
      BY <1>1, <2>1, <2>2 DEF TruthInv
  <1>3. CASE mtime # Absent
    <2>1. /\ decls' = Newest(Kept(Read)) /\ rotated' = FALSE
          /\ truth' = truth \o unread /\ gone' = gone
      BY <1>3 DEF Refresh, Read
    <2>2. /\ unread \in Seq(Decl) /\ decls \in Seq(Decl) /\ truth \in Seq(Decl)
          /\ setting \in Settings /\ Len(decls) + Len(unread) <= setting.maxDecls
      BY DEF LinesInv
    <2>3. PICK ds \in Seq(Decl) : ds = Read
      BY ReadFacts
    <2>4. Len(ds) <= MaxLines /\ Ordered(ds)
      <3>1. setting.maxDecls <= MaxLines /\ setting.maxDecls \in Nat /\ MaxLines \in Nat
        BY <2>2, ReconcilerAssumption DEF Roomy
      <3>2. Len(ds) <= Len(decls) + Len(unread) /\ Ordered(ds)
        BY <2>3, ReadFacts
      <3>3. Len(ds) \in Nat /\ Len(decls) \in Nat /\ Len(unread) \in Nat
        BY <2>2, <2>3, DeclFacts
      <3>4. QED
        BY <2>2, <3>1, <3>2, <3>3
    <2>5. PICK k : k = Kept(ds)
      OBVIOUS
    <2>6. Ending(k, ds) /\ Holds(k, ds, Window)
      BY <2>4, <2>5, NoOlderFacts, Constants DEF Kept
    <2>7. decls' = k
      <3>1. k \in Seq(Decl) /\ Len(k) <= Len(ds)
        BY <2>6, EndingFacts
      <3>2. Len(k) <= MaxLines
        BY <2>4, <3>1, DeclFacts, ReconcilerAssumption
      <3>3. Newest(k) = k
        BY <3>1, <3>2, NewestFacts
      <3>4. QED
        BY <2>1, <2>3, <2>5, <3>3
    <2>8. PICK old \in Seq(Decl) : old = IF rotated THEN <<>> ELSE decls
      <3>1. <<>> \in Seq(Decl)
        BY EmptySeq
      <3>2. QED
        BY <2>2, <3>1, Zenon
    <2>9. PICK past \in Seq(Decl) : past = truth
      BY <2>2
    <2>10. HoldsFrom(old, past, gone, Window) /\ gone \in Nat
      <3>1. CASE rotated
        <4>1. \A i \in 1 .. Len(past) : ~(i > gone)
          BY <3>1, <2>9, DeclFacts DEF TruthInv, LinesInv
        <4>2. QED
          BY <4>1 DEF HoldsFrom, LinesInv
      <3>2. CASE ~rotated
        <4>1. old = decls /\ past = truth
          BY <3>2, <2>8, <2>9
        <4>2. QED
          BY <4>1 DEF TruthInv, LinesInv
      <3>3. QED
        BY <3>1, <3>2
    <2>11. PICK new : new = past \o unread
      OBVIOUS
    <2>12. HoldsFrom(k, new, gone, Window)
      <3>1. ds = old \o unread
        BY <2>3, <2>8, Zenon DEF Read
      <3>2. /\ Len(ds) = Len(old) + Len(unread)
            /\ \A i \in 1 .. Len(old) : ds[i] = old[i]
            /\ \A i \in 1 .. Len(unread) : ds[Len(old) + i] = unread[i]
        BY <2>2, <3>1, JoinFacts
      <3>3. /\ Len(new) = Len(past) + Len(unread)
            /\ \A i \in 1 .. Len(past) : new[i] = past[i]
            /\ \A i \in 1 .. Len(unread) : new[Len(past) + i] = unread[i]
        BY <2>2, <2>11, JoinFacts
      <3>4. Len(old) \in Nat /\ Len(past) \in Nat /\ Len(unread) \in Nat /\ Len(k) \in Nat
        BY <2>2, <2>6, DeclFacts, EndingFacts
      <3>5. ASSUME NEW i \in 1 .. Len(new), i > gone, new[i].age <= Window
            PROVE  At(k, new, i)
        <4>1. PICK j : j = i + Len(old) - Len(past)
          OBVIOUS
        <4>2. j \in 1 .. Len(ds) /\ ds[j] = new[i]
          <5>1. CASE i <= Len(past)
            <6>1. i \in 1 .. Len(past) /\ new[i] = past[i]
              BY <5>1, <3>3, <3>4
            <6>2. j \in 1 .. Len(old) /\ old[j] = past[i]
              BY <6>1, <4>1, <3>5, <2>10 DEF HoldsFrom, At
            <6>3. QED
              BY <6>1, <6>2, <3>2, <3>4
          <5>2. CASE i > Len(past)
            <6>0. i - Len(past) \in 1 .. Len(unread)
              BY <5>2, <3>3, <3>4
            <6>1. PICK m \in 1 .. Len(unread) : m = i - Len(past)
              BY <6>0
            <6>2. i = Len(past) + m /\ j = Len(old) + m
              BY <6>1, <4>1, <3>4
            <6>3. QED
              BY <6>2, <3>2, <3>3, <3>4
          <5>3. QED
            BY <5>1, <5>2, <3>4
        <4>3. At(k, ds, j)
          BY <4>2, <3>5, <2>6 DEF Holds
        <4>4. j + Len(k) - Len(ds) = i + Len(k) - Len(new)
          BY <4>1, <3>2, <3>3, <3>4
        <4>5. QED
          BY <4>2, <4>3, <4>4 DEF At
      <3>6. QED
        BY <3>5 DEF HoldsFrom
    <2>13. new = truth'
      BY <2>1, <2>9, <2>11
    <2>14. HoldsFrom(decls, truth, gone, Window)'
      BY <2>1, <2>7, <2>12, <2>13
    <2>15. QED
      BY <1>1, <2>1, <2>14 DEF TruthInv
  <1>4. QED
    BY <1>2, <1>3

LEMMA DrainTruth ==
    ASSUME RecInv, LinesInv, TruthInv, Drain
    PROVE  TruthInv' /\ ExcessInv'
  <1>1. UNCHANGED <<truth, gone, rotated, decls, setting, active, pending>> /\ pc' = "done"
    BY DEF Drain, file
  <1>2. ASSUME NEW r \in out'
        PROVE  \E f \in Due : r = [flow |-> f, note |-> Verdict(f), first |-> pending[f].first,
                                  total |-> pending[f].total]
    BY DEF Drain
  <1>3. ASSUME NEW r \in out', r.note = "undeclared", NEW i \in 1 .. Len(decls)
        PROVE  ~Explains(decls[i], r.flow, r.first)
    <2>1. PICK f \in Due : r = [flow |-> f, note |-> Verdict(f), first |-> pending[f].first,
                               total |-> pending[f].total]
      BY <1>2
    <2>2. Verdict(f) = "undeclared" /\ r.flow = f /\ r.first = pending[f].first
      BY <1>3, <2>1
    <2>3. Matches(f) = {}
      BY <2>2, Constants DEF Verdict, Note
    <2>4. i \in DOMAIN decls
      BY <1>3, DeclFacts DEF LinesInv
    <2>5. QED
      BY <2>2, <2>3, <2>4 DEF Matches
  <1>4. ASSUME NEW r \in out', r.note = "excess"
        PROVE  /\ r.total \in Nat /\ \A i \in Hits(r.flow, r.first) : decls[i].nb # Absent
               /\ r.total > SumFunction([i \in Hits(r.flow, r.first) |-> decls[i].nb])
                            * ExcessFactor
    <2>1. PICK f \in Due : r = [flow |-> f, note |-> Verdict(f), first |-> pending[f].first,
                               total |-> pending[f].total]
      BY <1>2
    <2>2. /\ Verdict(f) = "excess" /\ r.flow = f /\ r.first = pending[f].first
          /\ r.total = pending[f].total
      BY <1>4, <2>1
    <2>3. Hits(r.flow, r.first) = Matches(f)
      BY <2>2 DEF Hits, Matches
    <2>4. /\ ~ \E i \in Matches(f) : decls[i].nb = Absent
          /\ pending[f].total > Volume(Matches(f)) * ExcessFactor
      BY <2>2, Constants DEF Verdict, Note
    <2>5. pending[f].total \in Nat
      BY Constants DEF Due, RecInv, AgesInv, Rec
    <2>6. QED
      BY <2>2, <2>3, <2>4, <2>5 DEF Volume
  <1>5. HoldsFrom(decls, truth, gone, Window)' /\ (rotated' => gone' >= Len(truth'))
    BY <1>1 DEF TruthInv, HoldsFrom, At
  <1>6. \A r \in out' : r.note = "undeclared" =>
          \A i \in 1 .. Len(decls') : ~Explains(decls'[i], r.flow, r.first)
    BY <1>1, <1>3
  <1>7. TruthInv'
    BY <1>1, <1>5, <1>6 DEF TruthInv, Explains
  <1>8. \A f, first : Hits(f, first)' = Hits(f, first)
    BY <1>1 DEF Hits, Explains
  <1>9. ExcessInv'
    BY <1>1, <1>4, <1>8 DEF ExcessInv
  <1>10. QED
    BY <1>7, <1>9

LEMMA ElapseTruth ==
    ASSUME LinesInv, TruthInv, Elapse
    PROVE  TruthInv'
  <1>1. out' = {} /\ decls' = Grown(decls) /\ truth' = NoOlder(Grown(truth), Keep)
    BY DEF Elapse
  <1>2. decls \in Seq(Decl) /\ truth \in Seq(Decl)
    BY DEF LinesInv
  <1>3. PICK g : g = Grown(truth)
    OBVIOUS
  <1>4. PICK h : h = Grown(decls)
    OBVIOUS
  <1>5. /\ g \in Seq(Decl) /\ Len(g) = Len(truth)
        /\ \A i \in 1 .. Len(truth) :
             /\ g[i] = [truth[i] EXCEPT !.age = UpTo(@ + 1, Keep + 1)]
             /\ g[i].age = UpTo(truth[i].age + 1, Keep + 1)
    BY <1>2, <1>3, GrownFacts
  <1>6. /\ h \in Seq(Decl) /\ Len(h) = Len(decls)
        /\ \A i \in 1 .. Len(decls) : h[i] = [decls[i] EXCEPT !.age = UpTo(@ + 1, Keep + 1)]
    BY <1>2, <1>4, GrownFacts
  <1>7. PICK t : t = truth'
    OBVIOUS
  <1>8. PICK k \in 0 .. Len(g) : Len(t) = Len(g) - k /\ \A i \in 1 .. Len(t) : t[i] = g[i + k]
    <2>1. g \in Seq(Decl)
      BY <1>5
    <2>2. Ending(t, g)
      BY <2>1, <1>1, <1>3, <1>7, NoOlderFacts, Constants
    <2>3. QED
      BY <2>2 DEF Ending
  <1>13. /\ gone \in Nat /\ Len(truth) \in Nat /\ Len(t) = Len(truth) - k /\ Len(t) \in Nat
         /\ gone' = IF gone > k THEN gone - k ELSE 0
    <2>1. gone \in Nat /\ Len(truth) \in Nat
      BY <1>2, DeclFacts DEF LinesInv
    <2>2. Len(t) = Len(truth) - k /\ Len(t) \in Nat
      BY <2>1, <1>5, <1>8
    <2>3. gone' = IF gone > Len(truth) - Len(t) THEN gone - (Len(truth) - Len(t)) ELSE 0
      BY <1>7 DEF Elapse
    <2>4. QED
      BY <2>1, <2>2, <2>3, <1>5
  <1>9. ASSUME NEW i \in 1 .. Len(t), i > gone', t[i].age <= Window
        PROVE  At(h, t, i)
    <2>1. Len(g) \in Nat /\ Len(h) \in Nat
      BY <1>5, <1>6, DeclFacts
    <2>2. PICK j \in 1 .. Len(truth) : j = i + k /\ t[i] = g[j]
      <3>1. i + k \in 1 .. Len(truth) /\ t[i] = g[i + k]
        BY <1>5, <1>8, <1>9, <2>1
      <3>2. QED
        BY <3>1
    <2>3. truth[j].age \in Nat /\ g[j].age = UpTo(truth[j].age + 1, Keep + 1) /\ g[j].age <= Window
      BY <1>2, <1>5, <1>9, <2>2, DeclFacts
    <2>4. truth[j].age <= Window
      BY <2>3, Constants DEF UpTo
    <2>11. j > gone
      BY <1>9, <1>13, <2>2
    <2>5. PICK m \in 1 .. Len(decls) : m = j + Len(decls) - Len(truth) /\ decls[m] = truth[j]
      BY <2>2, <2>4, <2>11 DEF TruthInv, HoldsFrom, At
    <2>6. h[m] = [decls[m] EXCEPT !.age = UpTo(@ + 1, Keep + 1)]
      BY <1>6, <2>5
    <2>7. g[j] = [truth[j] EXCEPT !.age = UpTo(@ + 1, Keep + 1)]
      BY <1>5, <2>2
    <2>8. h[m] = t[i]
      BY <2>2, <2>5, <2>6, <2>7, Zenon
    <2>9. m \in 1 .. Len(h) /\ m = i + Len(h) - Len(t)
      <3>1. PICK a \in Nat, b \in Nat, c \in Nat : a = Len(h) /\ b = Len(truth) /\ c = Len(t)
        <4>1. Len(truth) \in Nat /\ Len(g) = Len(truth)
          BY <1>5, <2>1
        <4>2. Len(t) \in Nat
          BY <1>8, <2>1
        <4>3. QED
          BY <2>1, <4>1, <4>2
      <3>2. m \in 1 .. a /\ m = j + a - b /\ c = b - k /\ j = i + k /\ i \in 1 .. c
        BY <1>5, <1>6, <1>8, <2>2, <2>5, <3>1
      <3>3. m = i + a - c
        BY <3>2
      <3>4. QED
        BY <3>1, <3>2, <3>3
    <2>10. QED
      BY <2>8, <2>9 DEF At
  <1>10. HoldsFrom(h, t, gone', Window)
    BY <1>9 DEF HoldsFrom
  <1>11. HoldsFrom(decls, truth, gone, Window)'
    BY <1>1, <1>4, <1>7, <1>10
  <1>14. rotated' => gone' >= Len(truth')
    <2>1. rotated' = rotated /\ (rotated => gone >= Len(truth))
      BY DEF Elapse, TruthInv
    <2>2. QED
      BY <2>1, <1>7, <1>13
  <1>12. QED
    BY <1>1, <1>11, <1>14 DEF TruthInv

LEMMA StepTruth ==
    RecInv /\ LinesInv /\ TruthInv /\ ExcessInv /\ Roomy /\ [Next]_vars
      => TruthInv' /\ ExcessInv'
  <1> SUFFICES ASSUME RecInv, LinesInv, TruthInv, ExcessInv, Roomy, [Next]_vars
               PROVE  TruthInv' /\ ExcessInv'
    OBVIOUS
  <1>1. CASE UNCHANGED <<truth, gone, rotated, decls, out>> /\ (pc' # "done" => pc # "done")
    <2>1. TruthInv'
      BY <1>1 DEF TruthInv, HoldsFrom, At, Explains
    <2>2. \A f, first : Hits(f, first)' = Hits(f, first)
      BY <1>1 DEF Hits, Explains
    <2>3. ExcessInv'
      BY <1>1, <2>2 DEF ExcessInv
    <2>4. QED
      BY <2>1, <2>3
  <1>2. CASE Refresh
    <2>1. out' = {}
      BY <1>2 DEF Refresh, TruthInv
    <2>2. QED
      BY <1>2, <2>1, RefreshTruth DEF ExcessInv
  <1>3. CASE Drain
    BY <1>3, DrainTruth
  <1>4. CASE Elapse
    <2>1. out' = {}
      BY <1>4 DEF Elapse
    <2>2. QED
      BY <1>4, <2>1, ElapseTruth DEF ExcessInv
  <1>8. CASE Rotate
    <2>1. /\ UNCHANGED <<pc, decls, out>> /\ truth' = truth \o unread /\ gone' = Len(truth')
      BY <1>8 DEF Rotate
    <2>2. gone' \in Nat /\ gone' = Len(truth')
      BY <2>1, StepLines DEF LinesInv
    <2>3. HoldsFrom(decls, truth, gone, Window)'
      BY <2>2 DEF HoldsFrom
    <2>4. \A f, first : Hits(f, first)' = Hits(f, first)
      BY <2>1 DEF Hits, Explains
    <2>5. TruthInv'
      BY <2>1, <2>2, <2>3 DEF TruthInv, Explains
    <2>6. ExcessInv'
      BY <2>1, <2>4 DEF ExcessInv
    <2>7. QED
      BY <2>5, <2>6
  <1>5. CASE Touch \/ Gc
             \/ (\E p \in Agents, h \in setting.hosts \cup {Wild}, nb \in setting.sizes :
                    Declare(p, h, nb))
             \/ (\E p \in setting.senders, d \in Dest, n \in setting.deltas,
                    port \in setting.ports : Observe(p, d, n, port))
    <2>1. UNCHANGED <<truth, gone, rotated, decls, out>> /\ (pc' # "done" => pc # "done")
      BY <1>5 DEF Touch, Gc, Declare, Observe, file, hist
    <2>2. QED
      BY <1>1, <2>1
  <1>6. CASE UNCHANGED vars
    BY <1>1, <1>6 DEF vars, file, hist
  <1>7. QED
    BY <1>2, <1>3, <1>4, <1>5, <1>6, <1>8 DEF Next

LEMMA AlwaysTruth ==
    ASSUME Roomy
    PROVE  Spec => [](LinesInv /\ TruthInv /\ ExcessInv)
  <1>1. RecInv /\ LinesInv /\ TruthInv /\ ExcessInv /\ [Next]_vars
          => (LinesInv /\ TruthInv /\ ExcessInv)'
    BY StepLines, StepTruth
  <1>2. QED
    BY <1>1, AlwaysRec, InitLines, InitTruth, PTL DEF Spec

\* What stands in a file that has not been replaced.
LEMMA CoveringFacts ==
    ASSUME LinesInv, NEW r, NEW i \in Covering(r, Window)
    PROVE  /\ i \in 1 .. Len(truth) /\ i > gone /\ truth[i].age <= Window
           /\ Explains(truth[i], r.flow, r.first)
  <1>1. gone \in Nat /\ Len(truth) \in Nat
    BY DeclFacts DEF LinesInv
  <1>2. /\ i \in gone + 1 .. Len(truth) /\ truth[i].age <= Window
        /\ Explains(truth[i], r.flow, r.first)
    BY DEF Covering
  <1>3. QED
    BY <1>1, <1>2

(***************************************************************************)
(* drain never says "no declared activity" of a flow that a declaration of *)
(* the last WINDOW_SEC covers, whichever came first and whatever pauses the*)
(* file makes, as long as the file that declaration was in has not been    *)
(* replaced or removed since, and no more was declared than MAX_LINES.     *)
(* After a rotation what was declared before it is forgotten, and a flow   *)
(* it covers may be accused.                                               *)
(***************************************************************************)
THEOREM DeclaredNotAccusedWhileKeptHolds ==
    ASSUME Roomy
    PROVE  Spec => []DeclaredNotAccusedWhileKept
  <1>1. LinesInv /\ TruthInv => DeclaredNotAccusedWhileKept
    <2> SUFFICES ASSUME LinesInv, TruthInv, NEW r \in out, r.note = "undeclared",
                        NEW i \in Covering(r, Window)
                 PROVE  FALSE
      BY DEF DeclaredNotAccusedWhileKept
    <2>1. /\ i \in 1 .. Len(truth) /\ i > gone /\ truth[i].age <= Window
          /\ Explains(truth[i], r.flow, r.first)
      BY CoveringFacts
    <2>2. PICK j \in 1 .. Len(decls) : decls[j] = truth[i]
      BY <2>1 DEF TruthInv, HoldsFrom, At
    <2>3. QED
      BY <2>1, <2>2 DEF TruthInv
  <1>2. QED
    BY <1>1, AlwaysTruth, PTL

-----------------------------------------------------------------------------
(* Sums over declarations: what MapThenFoldSet adds up does not depend on  *)
(* the order it chooses.                                                   *)

\* Induction over the numbers, from the well-foundedness of their order.
LEMMA Induction ==
    ASSUME NEW S \in SUBSET Nat, 0 \in S, \A n \in S : n + 1 \in S
    PROVE  S = Nat
  <1> SUFFICES ASSUME Nat \ S # {} PROVE FALSE
    OBVIOUS
  <1>1. PICK R : R = OpToRel(<, Nat)
    OBVIOUS
  <1>2. PICK n \in Nat \ S : \A m \in Nat \ S : ~ (<<m, n>> \in R)
    <2>1. IsWellFoundedOn(R, Nat)
      BY <1>1, NatLessThanWellFounded
    <2>2. Nat \ S \subseteq Nat
      OBVIOUS
    <2>3. QED
      BY <2>1, <2>2, WFMin
  <1>3. n # 0 /\ n - 1 \in Nat
    BY <1>2
  <1>4. <<n - 1, n>> \in R
    BY <1>1, <1>2, <1>3 DEF OpToRel
  <1>5. n - 1 \in S
    BY <1>2, <1>3, <1>4
  <1>6. (n - 1) + 1 = n
    BY <1>2
  <1>7. QED
    BY <1>2, <1>5, <1>6

One(s) == CHOOSE x \in s : TRUE

\* g is the fold of f over every part of S.
Folds(g, f, S) ==
  g = [s \in SUBSET S |-> IF s = {} THEN 0 ELSE f[One(s)] + g[s \ {One(s)}]]

LEMMA OneFacts ==
    ASSUME NEW s, IsFiniteSet(s), s # {}
    PROVE  /\ One(s) \in s /\ IsFiniteSet(s \ {One(s)})
           /\ Cardinality(s) \in Nat /\ Cardinality(s) # 0
           /\ Cardinality(s \ {One(s)}) = Cardinality(s) - 1
  <1>1. One(s) \in s
    BY DEF One
  <1>2. QED
    BY <1>1, FS_RemoveElement, FS_CardinalityType, FS_EmptySet

LEMMA FoldsExist ==
    ASSUME NEW S, IsFiniteSet(S), NEW f \in [S -> Nat]
    PROVE  \E g : Folds(g, f, S)
  <1> DEFINE body(g, s) == IF s = {} THEN 0 ELSE f[One(s)] + g[s \ {One(s)}]
             Upto(g, n) == \A s \in SUBSET S : Cardinality(s) <= n => g[s] = body(g, s)
             Good == {n \in Nat : \E g \in [SUBSET S -> Int] : Upto(g, n)}
  <1>1. \A s \in SUBSET S : IsFiniteSet(s) /\ Cardinality(s) \in Nat
    BY FS_Subset, FS_CardinalityType
  <1>2. 0 \in Good
    <2>1. PICK g : g = [s \in SUBSET S |-> 0]
      OBVIOUS
    <2>2. \A s \in SUBSET S : Cardinality(s) <= 0 => s = {}
      BY <1>1, FS_EmptySet
    <2>3. Upto(g, 0)
      BY <2>1, <2>2
    <2>4. g \in [SUBSET S -> Int]
      BY <2>1
    <2>5. QED
      BY <2>3, <2>4
  <1>3. ASSUME NEW n \in Good
        PROVE  n + 1 \in Good
    <2>1. PICK g \in [SUBSET S -> Int] : Upto(g, n)
      OBVIOUS
    <2>2. PICK h : h = [s \in SUBSET S |-> IF Cardinality(s) <= n THEN g[s] ELSE body(g, s)]
      OBVIOUS
    <2>3. ASSUME NEW s \in SUBSET S
          PROVE  /\ body(g, s) \in Int
                 /\ Cardinality(s) <= n + 1 => body(h, s) = body(g, s)
      <3>1. CASE s = {}
        BY <3>1
      <3>2. CASE s # {}
        <4>1. One(s) \in s /\ s \ {One(s)} \in SUBSET S
              /\ Cardinality(s \ {One(s)}) = Cardinality(s) - 1
          BY <1>1, <3>2, OneFacts
        <4>2. f[One(s)] \in Nat /\ g[s \ {One(s)}] \in Int
          BY <4>1
        <4>3. Cardinality(s) <= n + 1 => h[s \ {One(s)}] = g[s \ {One(s)}]
          BY <4>1, <1>1, <2>2
        <4>4. QED
          BY <3>2, <4>2, <4>3
      <3>3. QED
        BY <3>1, <3>2
    <2>4. h \in [SUBSET S -> Int]
      BY <2>2, <2>3
    <2>5. ASSUME NEW s \in SUBSET S, Cardinality(s) <= n + 1
          PROVE  h[s] = body(h, s)
      <3>1. h[s] = IF Cardinality(s) <= n THEN g[s] ELSE body(g, s)
        BY <2>2
      <3>2. h[s] = body(g, s)
        BY <3>1, <2>1
      <3>3. QED
        BY <3>2, <2>3, <2>5
    <2> HIDE DEF body
    <2>6. QED
      BY <2>4, <2>5
  <1>4. Cardinality(S) \in Good
    <2> HIDE DEF Good
    <2>1. Good = Nat
      <3>1. Good \in SUBSET Nat
        BY DEF Good
      <3>2. QED
        BY <3>1, <1>2, <1>3, Induction
    <2>2. QED
      BY <2>1, <1>1
  <1>5. PICK g \in [SUBSET S -> Int] : Upto(g, Cardinality(S))
    BY <1>4
  <1> HIDE DEF body
  <1>6. \A s \in SUBSET S : g[s] = body(g, s)
    <2>1. \A s \in SUBSET S : Cardinality(s) <= Cardinality(S)
      BY FS_Subset
    <2>2. QED
      BY <1>5, <2>1
  <1>7. g = [s \in SUBSET S |-> body(g, s)]
    <2>1. g = [s \in SUBSET S |-> g[s]]
      OBVIOUS
    <2>2. QED
      BY <2>1, <1>6, Zenon
  <1>8. QED
    BY <1>7 DEF Folds, body

\* The fold is the same whichever element comes first.
LEMMA FoldsAdd ==
    ASSUME NEW S, IsFiniteSet(S), NEW f \in [S -> Nat], NEW g, Folds(g, f, S)
    PROVE  /\ g[{}] = 0
           /\ \A s \in SUBSET S : g[s] \in Nat /\ \A x \in s : g[s] = f[x] + g[s \ {x}]
  <1> DEFINE Fits(s) == g[s] \in Nat /\ \A x \in s : g[s] = f[x] + g[s \ {x}]
             Good == {n \in Nat : \A s \in SUBSET S : Cardinality(s) <= n => Fits(s)}
  <1>1. \A s \in SUBSET S : IsFiniteSet(s) /\ Cardinality(s) \in Nat
    BY FS_Subset, FS_CardinalityType
  <1>2. g[{}] = 0
    BY DEF Folds
  <1>3. 0 \in Good
    <2>1. \A s \in SUBSET S : Cardinality(s) <= 0 => s = {}
      BY <1>1, FS_EmptySet
    <2>2. QED
      BY <1>2, <2>1
  <1>4. ASSUME NEW n \in Good
        PROVE  n + 1 \in Good
    <2>1. \A s \in SUBSET S : Cardinality(s) <= n => Fits(s)
      OBVIOUS
    <2>2. ASSUME NEW s \in SUBSET S, Cardinality(s) <= n + 1
          PROVE  Fits(s)
      <3>0. ASSUME NEW u \in SUBSET S, Cardinality(u) < Cardinality(s)
            PROVE  Fits(u)
        <4>1. Cardinality(u) <= n
          BY <3>0, <2>2, <1>1
        <4> HIDE DEF Fits
        <4>2. QED
          BY <4>1, <2>1
      <3>1. CASE s = {}
        BY <3>1, <1>2
      <3>2. CASE s # {}
        <4>1. PICK c : c = One(s)
          OBVIOUS
        <4>2. /\ c \in s /\ s \ {c} \in SUBSET S
              /\ Cardinality(s \ {c}) = Cardinality(s) - 1
          BY <4>1, <1>1, <3>2, OneFacts
        <4>3. g[s] = f[c] + g[s \ {c}]
          BY <3>2, <4>1 DEF Folds
        <4>4. Fits(s \ {c})
          <5>1. Cardinality(s \ {c}) < Cardinality(s)
            BY <4>2, <1>1
          <5> HIDE DEF Fits
          <5>2. QED
            BY <4>2, <5>1, <3>0
        <4>5. f[c] \in Nat /\ g[s \ {c}] \in Nat /\ g[s] \in Nat
          BY <4>2, <4>3, <4>4
        <4>6. ASSUME NEW x \in s, x # c
              PROVE  g[s] = f[x] + g[s \ {x}]
          <5>1. /\ s \ {x} \in SUBSET S /\ c \in s \ {x}
                /\ Cardinality(s \ {x}) = Cardinality(s) - 1
            BY <4>2, <4>6, <1>1, FS_RemoveElement
          <5>2. Fits(s \ {x})
            <6>1. Cardinality(s \ {x}) < Cardinality(s)
              BY <5>1, <1>1
            <6> HIDE DEF Fits
            <6>2. QED
              BY <5>1, <6>1, <3>0
          <5>3. g[s \ {x}] = f[c] + g[(s \ {x}) \ {c}]
            BY <5>1, <5>2
          <5>4. g[s \ {c}] = f[x] + g[(s \ {c}) \ {x}]
            BY <4>4, <4>6
          <5>5. (s \ {c}) \ {x} = (s \ {x}) \ {c}
            OBVIOUS
          <5>6. PICK r : r = g[(s \ {x}) \ {c}]
            OBVIOUS
          <5>7. r \in Nat
            <6>1. /\ (s \ {c}) \ {x} \in SUBSET S
                  /\ Cardinality((s \ {c}) \ {x}) = Cardinality(s \ {c}) - 1
              BY <4>2, <4>6, <1>1, FS_RemoveElement
            <6>2. Cardinality((s \ {c}) \ {x}) < Cardinality(s)
              BY <6>1, <4>2, <1>1
            <6>3. g[(s \ {c}) \ {x}] \in Nat
              BY <6>1, <6>2, <3>0
            <6>4. QED
              BY <6>3, <5>5, <5>6
          <5>8. f[x] \in Nat /\ g[s \ {x}] = f[c] + r /\ g[s \ {c}] = f[x] + r
            BY <5>3, <5>4, <5>5, <5>6
          <5>9. QED
            BY <5>7, <5>8, <4>3, <4>5
        <4>7. QED
          BY <4>3, <4>5, <4>6
      <3>3. QED
        BY <3>1, <3>2
    <2> HIDE DEF Fits
    <2>3. QED
      BY <2>2
  <1>5. Good = Nat
    <2> HIDE DEF Good
    <2>1. Good \in SUBSET Nat
      BY DEF Good
    <2>2. QED
      BY <2>1, <1>3, <1>4, Induction
  <1> HIDE DEF Fits
  <1>6. ASSUME NEW s \in SUBSET S
        PROVE  Fits(s)
    <2>1. Cardinality(s) \in Good /\ Cardinality(s) <= Cardinality(s)
      BY <1>1, <1>5
    <2>2. QED
      BY <2>1
  <1>7. QED
    BY <1>2, <1>6 DEF Fits

\* g adds up every part of f.
Adds(g, f) ==
  /\ g[{}] = 0
  /\ \A s \in SUBSET DOMAIN f : g[s] \in Nat /\ \A x \in s : g[s] = f[x] + g[s \ {x}]

LEMMA SumFolds ==
    ASSUME NEW f, IsFiniteSet(DOMAIN f), f \in [DOMAIN f -> Nat]
    PROVE  \E g : Adds(g, f) /\ SumFunction(f) = g[DOMAIN f]
  <1> DEFINE S == DOMAIN f
             iter[s \in SUBSET S] == IF s = {} THEN 0
                           ELSE LET x == CHOOSE y \in s : TRUE IN f[x] + iter[s \ {x}]
  <1>1. SumFunction(f) = iter[S]
    BY DEF SumFunction, SumFunctionOnSet, FoldFunctionOnSet, MapThenFoldSet
  <1>2. PICK g : Folds(g, f, S)
    BY FoldsExist
  <1>3. g = [s \in SUBSET S |-> IF s = {} THEN 0
                           ELSE LET x == CHOOSE y \in s : TRUE IN f[x] + g[s \ {x}]]
    BY <1>2 DEF Folds, One
  <1>4. iter = [s \in SUBSET S |-> IF s = {} THEN 0
                           ELSE LET x == CHOOSE y \in s : TRUE IN f[x] + iter[s \ {x}]]
    BY <1>3 DEF iter
  <1>5. Folds(iter, f, S)
    BY <1>4 DEF Folds, One
  <1>6. PICK sum : sum = iter
    OBVIOUS
  <1>7. Adds(sum, f)
    <2>1. PICK D : D = DOMAIN f
      OBVIOUS
    <2>2. IsFiniteSet(D) /\ f \in [D -> Nat] /\ Folds(sum, f, D)
      BY <2>1, <1>5, <1>6
    <2>3. /\ sum[{}] = 0
          /\ \A s \in SUBSET D : sum[s] \in Nat /\ \A x \in s : sum[s] = f[x] + sum[s \ {x}]
      BY <2>2, FoldsAdd
    <2>4. QED
      BY <2>1, <2>3 DEF Adds
  <1>8. QED
    BY <1>1, <1>6, <1>7

\* A sum is not more than another that has all its terms.
LEMMA SumWithin ==
    ASSUME NEW f, IsFiniteSet(DOMAIN f), f \in [DOMAIN f -> Nat],
           NEW h, IsFiniteSet(DOMAIN h), h \in [DOMAIN h -> Nat],
           NEW phi \in [DOMAIN f -> DOMAIN h],
           \A x, y \in DOMAIN f : phi[x] = phi[y] => x = y,
           \A x \in DOMAIN f : f[x] <= h[phi[x]]
    PROVE  /\ SumFunction(f) \in Nat /\ SumFunction(h) \in Nat
           /\ SumFunction(f) <= SumFunction(h)
  <1> DEFINE S == DOMAIN f
             T == DOMAIN h
  <1>1. PICK gf : Adds(gf, f) /\ SumFunction(f) = gf[S]
    BY SumFolds
  <1>2. PICK gh : Adds(gh, h) /\ SumFunction(h) = gh[T]
    BY SumFolds
  <1>3. /\ gf[{}] = 0
        /\ \A s \in SUBSET S : gf[s] \in Nat /\ \A x \in s : gf[s] = f[x] + gf[s \ {x}]
    BY <1>1 DEF Adds
  <1>4. \A u \in SUBSET T : gh[u] \in Nat /\ \A x \in u : gh[u] = h[x] + gh[u \ {x}]
    BY <1>2 DEF Adds
  <1>5. \A u \in SUBSET T : IsFiniteSet(u) /\ Cardinality(u) \in Nat
    BY FS_Subset, FS_CardinalityType
  <1> DEFINE Less(s, u) == (\A x \in s : phi[x] \in u) => gf[s] <= gh[u]
             Good == {n \in Nat : \A s \in SUBSET S, u \in SUBSET T :
                                     Cardinality(u) <= n => Less(s, u)}
  <1>6. 0 \in Good
    <2>1. \A u \in SUBSET T : Cardinality(u) <= 0 => u = {}
      BY <1>5, FS_EmptySet
    <2>2. ASSUME NEW s \in SUBSET S, \A x \in s : phi[x] \in {}
          PROVE  gf[s] <= gh[{}]
      <3>1. s = {}
        BY <2>2
      <3>2. QED
        BY <3>1, <1>3, <1>4
    <2>3. QED
      BY <2>1, <2>2
  <1>7. ASSUME NEW n \in Good
        PROVE  n + 1 \in Good
    <2>1. \A s \in SUBSET S, u \in SUBSET T : Cardinality(u) <= n => Less(s, u)
      OBVIOUS
    <2>2. ASSUME NEW s \in SUBSET S, NEW u \in SUBSET T, Cardinality(u) <= n + 1,
                 \A x \in s : phi[x] \in u
          PROVE  gf[s] <= gh[u]
      <3>1. CASE s = {}
        BY <3>1, <1>3, <1>4
      <3>2. CASE s # {}
        <4>1. PICK x \in s : TRUE
          BY <3>2
        <4>2. /\ s \ {x} \in SUBSET S /\ u \ {phi[x]} \in SUBSET T /\ phi[x] \in u
              /\ Cardinality(u \ {phi[x]}) = Cardinality(u) - 1
          BY <2>2, <4>1, <1>5, FS_RemoveElement
        <4>3. \A y \in s \ {x} : phi[y] \in u \ {phi[x]}
          BY <2>2, <4>1
        <4>4. Less(s \ {x}, u \ {phi[x]})
          BY <2>1, <2>2, <4>2, <1>5
        <4>5. gf[s \ {x}] <= gh[u \ {phi[x]}]
          BY <4>3, <4>4
        <4>6. gf[s] = f[x] + gf[s \ {x}] /\ gh[u] = h[phi[x]] + gh[u \ {phi[x]}]
          BY <4>1, <4>2, <1>3, <1>4
        <4>7. /\ f[x] \in Nat /\ h[phi[x]] \in Nat /\ f[x] <= h[phi[x]]
              /\ gf[s \ {x}] \in Nat /\ gh[u \ {phi[x]}] \in Nat
          BY <4>1, <4>2, <1>3, <1>4
        <4>8. QED
          BY <4>5, <4>6, <4>7
      <3>3. QED
        BY <3>1, <3>2
    <2>3. QED
      BY <2>2
  <1>8. Good = Nat
    <2> HIDE DEF Good
    <2>1. Good \in SUBSET Nat
      BY DEF Good
    <2>2. QED
      BY <2>1, <1>6, <1>7, Induction
  <1>9. Less(S, T)
    <2>1. Cardinality(T) \in Good /\ Cardinality(T) <= Cardinality(T)
      BY <1>5, <1>8
    <2>2. QED
      BY <2>1
  <1>10. gf[S] <= gh[T]
    BY <1>9
  <1>11. QED
    BY <1>1, <1>2, <1>3, <1>4, <1>10

LEMMA TimesMore ==
    ASSUME NEW a \in Nat, NEW b \in Nat, NEW c \in Nat, a <= b
    PROVE  c * a <= b * c
  <1>1. PICK d \in Nat : b = a + d
    <2>1. b - a \in Nat /\ b = a + (b - a)
      OBVIOUS
    <2>2. QED
      BY <2>1
  <1>2. b * c = c * a + c * d
    BY <1>1
  <1>3. c * d \in Nat /\ c * a \in Nat
    OBVIOUS
  <1>4. QED
    BY <1>2, <1>3

(***************************************************************************)
(* An excess is only reported beyond ExcessFactor times all that was       *)
(* declared for the flow in the last WINDOW_SEC: the sum runs over every   *)
(* declaration that still counts and whose file has not been replaced, as  *)
(* long as there are no more than MAX_LINES.                               *)
(***************************************************************************)
THEOREM ExcessBeyondAllDeclaredHolds ==
    ASSUME Roomy
    PROVE  Spec => []ExcessBeyondAllDeclared
  <1>1. LinesInv /\ TruthInv /\ ExcessInv => ExcessBeyondAllDeclared
    <2> SUFFICES ASSUME LinesInv, TruthInv, ExcessInv, NEW r \in out, r.note = "excess",
                        NEW covering, covering = Covering(r, Window)
                 PROVE  r.total > ExcessFactor
                                  * SumFunction([i \in covering |-> Stated(truth[i])])
      BY DEF ExcessBeyondAllDeclared
    <2>1. PICK hits : hits = Hits(r.flow, r.first)
      OBVIOUS
    <2>2. PICK f : f = [i \in covering |-> Stated(truth[i])]
      OBVIOUS
    <2>3. PICK h : h = [i \in hits |-> decls[i].nb]
      OBVIOUS
    <2>4. /\ \A i \in hits : decls[i].nb # Absent
          /\ r.total > SumFunction(h) * ExcessFactor
      BY <2>1, <2>3 DEF ExcessInv
    <2>5. /\ DOMAIN truth = 1 .. Len(truth) /\ Len(truth) \in Nat
          /\ DOMAIN decls = 1 .. Len(decls) /\ Len(decls) \in Nat
          /\ \A i \in 1 .. Len(truth) : truth[i] \in Decl
          /\ \A i \in 1 .. Len(decls) : decls[i] \in Decl
      BY DeclFacts DEF LinesInv
    <2>6. covering \subseteq 1 .. Len(truth) /\ hits \subseteq 1 .. Len(decls)
      BY <2>1, <2>5, CoveringFacts DEF Hits
    <2>7. IsFiniteSet(covering) /\ IsFiniteSet(hits)
      <3>1. IsFiniteSet(1 .. Len(truth)) /\ IsFiniteSet(1 .. Len(decls))
        BY <2>5, FS_Interval
      <3>2. QED
        BY <3>1, <2>6, FS_Subset
    <2>8. f \in [covering -> Nat] /\ DOMAIN f = covering
      BY <2>2, <2>5, <2>6 DEF Stated, Decl
    <2>9. h \in [hits -> Nat] /\ DOMAIN h = hits
      BY <2>3, <2>4, <2>5, <2>6 DEF Decl
    <2>10. PICK phi : phi = [i \in covering |-> i + Len(decls) - Len(truth)]
      OBVIOUS
    <2>11. ASSUME NEW i \in covering
           PROVE  phi[i] \in hits /\ decls[phi[i]] = truth[i]
      <3>1. /\ i \in 1 .. Len(truth) /\ i > gone /\ truth[i].age <= Window
            /\ Explains(truth[i], r.flow, r.first)
        BY CoveringFacts
      <3>2. At(decls, truth, i)
        BY <3>1 DEF TruthInv, HoldsFrom
      <3>3. phi[i] \in 1 .. Len(decls) /\ decls[phi[i]] = truth[i]
        BY <3>2, <2>10 DEF At
      <3>4. QED
        BY <3>1, <3>3, <2>1, <2>5 DEF Hits
    <2>12. phi \in [covering -> hits]
      BY <2>10, <2>11
    <2>13. \A x, y \in covering : phi[x] = phi[y] => x = y
      BY <2>5, <2>6, <2>10
    <2>14. \A x \in covering : f[x] <= h[phi[x]]
      <3> SUFFICES ASSUME NEW x \in covering PROVE f[x] <= h[phi[x]]
        OBVIOUS
      <3>1. f[x] = h[phi[x]]
        BY <2>2, <2>3, <2>4, <2>11 DEF Stated
      <3>2. f[x] \in Nat
        BY <2>8
      <3>3. QED
        BY <3>1, <3>2
    <2>15. SumFunction(f) \in Nat /\ SumFunction(h) \in Nat /\ SumFunction(f) <= SumFunction(h)
      BY <2>7, <2>8, <2>9, <2>12, <2>13, <2>14, SumWithin
    <2>16. ExcessFactor \in Nat
      BY ReconcilerAssumption
    <2>17. PICK a \in Nat, b \in Nat : a = SumFunction(f) /\ b = SumFunction(h)
      BY <2>15
    <2>18. ExcessFactor * a <= b * ExcessFactor /\ ExcessFactor * a \in Nat /\ b * ExcessFactor \in Nat
      BY <2>15, <2>16, <2>17, TimesMore
    <2>19. r.total \in Nat
      BY DEF ExcessInv
    <2>20. QED
      BY <2>2, <2>4, <2>17, <2>18, <2>19
  <1>2. QED
    BY <1>1, AlwaysTruth, PTL

-----------------------------------------------------------------------------
(* First contacts.                                                         *)

\* Agents' contacts are as recent as the records they left, and no older than
\* Keep before the reports of those.
ContactInv ==
  \A f \in Flow : f[1] \in Agents =>
    /\ pending[f] # Absent /\ pending[f].last <= Keep =>
         met[f[2]] # Absent /\ met[f[2]] <= pending[f].last
    /\ reported[f] # Absent =>
         \/ reported[f] > Keep \/ reported[f] + Keep > SeenTtl
         \/ met[f[2]] # Absent /\ met[f[2]] <= reported[f] + Keep

\* drain only sees what gc has left.
LeftInv == pc = "drain" => \A f \in Flow : pending[f] # Absent => pending[f].last <= Keep

\* A first contact not reported has a novel record that has not been begun
\* anew since, and any report of the flow is older than the window allows.
FirstInv ==
  setting.steady /\ setting.hosts = {} =>
    \A f \in Flow : owed[f] # Absent =>
      /\ pending[f] # Absent /\ pending[f].novel
      /\ pending[f].last <= owed[f] /\ owed[f] <= pending[f].first
      /\ owed[f] <= Settle /\ (pc = "done" => owed[f] < Settle)
      /\ reported[f] # Absent => reported[f] + Settle >= owed[f] + Window

FloorInv == ContactInv /\ LeftInv /\ FirstInv

LEMMA InitFloor == Init => FloorInv
  BY DEF Init, FloorInv, ContactInv, LeftInv, FirstInv

LEMMA FlowTypes ==
    ASSUME AgesInv, NEW f \in Flow
    PROVE  /\ f[1] \in Pid /\ f[2] \in Dest
           /\ pending[f] \in Rec \cup {Absent}
           /\ pending[f] # Absent => /\ pending[f].last \in Nat /\ pending[f].first \in Nat
                                     /\ pending[f].total \in Nat
           /\ reported[f] # Absent => reported[f] \in Nat
           /\ owed[f] # Absent => owed[f] \in Nat
           /\ met[f[2]] # Absent => met[f[2]] \in Nat /\ met[f[2]] <= SeenTtl
  <1>1. f[1] \in Pid /\ f[2] \in Dest
    BY DEF Flow
  <1>2. pending[f] \in Rec \cup {Absent}
    BY DEF AgesInv
  <1>3. pending[f] # Absent => /\ pending[f].last \in Nat /\ pending[f].first \in Nat
                               /\ pending[f].total \in Nat
    BY <1>2, Constants DEF Rec
  <1>4. /\ reported[f] # Absent => reported[f] \in Nat
        /\ owed[f] # Absent => owed[f] \in Nat
        /\ met[f[2]] # Absent => met[f[2]] \in Nat /\ met[f[2]] <= SeenTtl
    BY <1>1, Constants DEF AgesInv, Age
  <1>5. QED
    BY <1>1, <1>2, <1>3, <1>4

\* What observe makes of a flow's record, and of what is owed of it.
LEMMA RecordFacts ==
    ASSUME AgesInv, NEW p \in setting.senders, NEW d \in Dest, NEW n \in setting.deltas,
           NEW port \in setting.ports, Record(p, d, n, port), NEW f, f = <<p, d>>
    PROVE  /\ f \in Flow /\ f[1] = p /\ f[2] = d
           /\ \E new \in Rec :
                /\ pending' = [pending EXCEPT ![f] = new] /\ new.last = 0
                /\ pending[f] = Absent \/ pending[f].last > Window => new.novel = Novel(d)
                /\ pending[f] # Absent /\ pending[f].last <= Window =>
                     new.novel = pending[f].novel /\ new.first = pending[f].first
           /\ owed' = IF /\ owed[f] = Absent /\ p \in Agents /\ life >= Warmup
                         /\ met[d] = Absent
                      THEN [owed EXCEPT ![f] = 0] ELSE owed
  <1>1. f \in Flow /\ f[1] = p /\ f[2] = d /\ n \in 1 .. MaxTotal /\ port \in Port
    BY Constants DEF AgesInv, Flow
  <1>2. PICK new :
           new = IF pending[f] = Absent \/ pending[f].last > Window
                 THEN [first |-> 0, last |-> 0, total |-> n, novel |-> Novel(d), port |-> port]
                 ELSE Merged(pending[f], n, port)
    OBVIOUS
  <1>3. pending' = [pending EXCEPT ![f] = new]
    BY <1>2 DEF Record
  <1>4. owed' = IF /\ owed[f] = Absent /\ p \in Agents /\ life >= Warmup
                   /\ met[d] = Absent
                THEN [owed EXCEPT ![f] = 0] ELSE owed
    BY DEF Record
  <1>5. CASE pending[f] = Absent \/ pending[f].last > Window
    <2>1. new = [first |-> 0, last |-> 0, total |-> n, novel |-> Novel(d), port |-> port]
      BY <1>2, <1>5
    <2>2. Novel(d) \in BOOLEAN
      BY DEF Novel
    <2>3. new \in Rec
      BY <1>1, <2>1, <2>2, Constants DEF Rec
    <2>4. new.last = 0 /\ new.novel = Novel(d)
      BY <2>1
    <2>5. ~(pending[f] # Absent /\ pending[f].last <= Window)
      BY <1>1, <1>5, FlowTypes, Constants
    <2>6. QED
      BY <1>1, <1>3, <1>4, <2>3, <2>4, <2>5
  <1>6. CASE ~(pending[f] = Absent \/ pending[f].last > Window)
    <2>1. PICK r \in Rec : r = pending[f]
      BY <1>1, <1>6, FlowTypes
    <2>2. PICK t : t = UpTo(r.total + n, MaxTotal)
      OBVIOUS
    <2>3. PICK to : to = MergePort(r.port, port)
      OBVIOUS
    <2>4. t \in 0 .. MaxTotal /\ to \in Port /\ 0 \in 0 .. Keep + 1
      BY <1>1, <2>1, <2>2, <2>3, Constants DEF UpTo, Rec, MergePort
    <2>5. new = [r EXCEPT !.total = t, !.last = 0, !.port = to]
      BY <1>2, <1>6, <2>1, <2>2, <2>3 DEF Merged
    <2>6. new \in Rec /\ new.last = 0 /\ new.first = r.first /\ new.novel = r.novel
      BY <2>1, <2>4, <2>5 DEF Rec
    <2>7. QED
      BY <1>1, <1>3, <1>4, <1>6, <2>1, <2>6
  <1>7. QED
    BY <1>5, <1>6

LEMMA ObserveFloor ==
    ASSUME RecInv, FloorInv, NEW p \in setting.senders, NEW d \in Dest, NEW n \in setting.deltas,
           NEW port \in setting.ports, Observe(p, d, n, port)
    PROVE  FloorInv'
  <1>1. /\ UNCHANGED <<setting, pc, reported>> /\ pc = "observe"
        /\ met' = IF p \in Agents THEN [met EXCEPT ![d] = 0] ELSE met
        /\ IF active \/ Proxy # Absent
           THEN Record(p, d, n, port)
           ELSE UNCHANGED <<pending, seen, owed, bypass>>
    BY DEF Observe
  <1>2. AgesInv /\ NovelInv /\ ContactInv /\ FirstInv
    BY DEF RecInv, FloorInv
  <1>3. \A e \in Dest : met'[e] = met[e] \/ met'[e] = 0
    BY <1>1, <1>2 DEF AgesInv
  <1>4. LeftInv'
    BY <1>1 DEF LeftInv
  <1>5. CASE ~(active \/ Proxy # Absent)
    <2>1. UNCHANGED <<pending, owed>>
      BY <1>1, <1>5
    <2>2. ContactInv'
      <3> SUFFICES ASSUME NEW f \in Flow, f[1] \in Agents
                   PROVE  /\ pending[f] # Absent /\ pending[f].last <= Keep =>
                               met'[f[2]] # Absent /\ met'[f[2]] <= pending[f].last
                          /\ reported[f] # Absent =>
                               \/ reported[f] > Keep \/ reported[f] + Keep > SeenTtl
                               \/ met'[f[2]] # Absent /\ met'[f[2]] <= reported[f] + Keep
        BY <1>1, <2>1 DEF ContactInv
      <3>1. met'[f[2]] = met[f[2]] \/ met'[f[2]] = 0
        BY <1>2, <1>3, FlowTypes
      <3>2. QED
        BY <1>2, <3>1, FlowTypes, Constants DEF ContactInv
    <2>3. FirstInv'
      BY <1>1, <1>2, <2>1 DEF FirstInv
    <2>4. QED
      BY <1>4, <2>2, <2>3 DEF FloorInv
  <1>6. CASE active \/ Proxy # Absent
    <2>1. PICK f : f = <<p, d>>
      OBVIOUS
    <2>2. /\ f \in Flow /\ f[1] = p /\ f[2] = d
          /\ owed' = IF /\ owed[f] = Absent /\ p \in Agents /\ life >= Warmup
                        /\ met[d] = Absent
                     THEN [owed EXCEPT ![f] = 0] ELSE owed
      BY <1>1, <1>2, <1>6, <2>1, RecordFacts
    <2>3. PICK new \in Rec :
            /\ pending' = [pending EXCEPT ![f] = new] /\ new.last = 0
            /\ pending[f] = Absent \/ pending[f].last > Window => new.novel = Novel(d)
            /\ pending[f] # Absent /\ pending[f].last <= Window =>
                 new.novel = pending[f].novel /\ new.first = pending[f].first
      BY <1>1, <1>2, <1>6, <2>1, RecordFacts
    <2>4. /\ pending'[f] = new /\ new # Absent /\ new.first \in Nat
          /\ \A g \in Flow : g # f => pending'[g] = pending[g] /\ owed'[g] = owed[g]
      <3>1. pending'[f] = new /\ \A g \in Flow : g # f => pending'[g] = pending[g]
        BY <1>2, <2>2, <2>3 DEF AgesInv
      <3>2. \A g \in Flow : g # f => owed'[g] = owed[g]
        BY <1>2, <2>2 DEF AgesInv
      <3>3. new # Absent /\ new.first \in Nat
        BY <2>3, Constants DEF Rec
      <3>4. QED
        BY <3>1, <3>2, <3>3
    <2>5. ContactInv'
      <3> SUFFICES ASSUME NEW g \in Flow, g[1] \in Agents
                   PROVE  /\ pending'[g] # Absent /\ pending'[g].last <= Keep =>
                               met'[g[2]] # Absent /\ met'[g[2]] <= pending'[g].last
                          /\ reported[g] # Absent =>
                               \/ reported[g] > Keep \/ reported[g] + Keep > SeenTtl
                               \/ met'[g[2]] # Absent /\ met'[g[2]] <= reported[g] + Keep
        BY <1>1 DEF ContactInv
      <3>1. met'[g[2]] = met[g[2]] \/ met'[g[2]] = 0
        BY <1>2, <1>3, FlowTypes
      <3>2. reported[g] # Absent =>
              \/ reported[g] > Keep \/ reported[g] + Keep > SeenTtl
              \/ met'[g[2]] # Absent /\ met'[g[2]] <= reported[g] + Keep
        BY <1>2, <3>1, FlowTypes, Constants DEF ContactInv
      <3>3. CASE g = f
        <4>1. met'[g[2]] = 0
          BY <1>1, <1>2, <2>2, <3>3 DEF AgesInv
        <4>2. pending'[g].last = 0
          BY <2>3, <2>4, <3>3
        <4>3. QED
          BY <3>2, <4>1, <4>2, Constants
      <3>4. CASE g # f
        <4>1. pending'[g] = pending[g]
          BY <2>4, <3>4
        <4>2. QED
          BY <1>2, <3>1, <3>2, <4>1, FlowTypes, Constants DEF ContactInv
      <3>5. QED
        BY <3>3, <3>4
    <2>6. FirstInv'
      <3> SUFFICES ASSUME setting.steady, setting.hosts = {}, NEW g \in Flow, owed'[g] # Absent
                   PROVE  /\ pending'[g] # Absent /\ pending'[g].novel
                          /\ pending'[g].last <= owed'[g] /\ owed'[g] <= pending'[g].first
                          /\ owed'[g] <= Settle
                          /\ reported[g] # Absent => reported[g] + Settle >= owed'[g] + Window
        BY <1>1 DEF FirstInv
      <3>1. CASE g # f
        <4>1. pending'[g] = pending[g] /\ owed'[g] = owed[g]
          BY <2>4, <3>1
        <4>2. QED
          BY <1>2, <4>1 DEF FirstInv
      <3>2. CASE g = f /\ owed[f] # Absent
        <4>1. owed'[f] = owed[f]
          BY <2>2, <3>2
        <4>2. /\ pending[f] # Absent /\ pending[f].novel
              /\ pending[f].last <= owed[f] /\ owed[f] <= pending[f].first
              /\ owed[f] <= Settle
              /\ reported[f] # Absent => reported[f] + Settle >= owed[f] + Window
          BY <1>2, <2>2, <3>2 DEF FirstInv
        <4>3. owed[f] \in Nat /\ pending[f].last \in Nat
          BY <1>2, <2>2, <3>2, <4>2, FlowTypes
        <4>4. pending[f].last <= Window
          BY <4>2, <4>3, Constants
        <4>5. new.novel = pending[f].novel /\ new.first = pending[f].first /\ new.last = 0
          BY <2>3, <4>2, <4>4
        <4>6. pending'[f] # Absent /\ pending'[f].novel
          BY <2>4, <4>2, <4>5, Zenon
        <4>7. pending'[f].last <= owed'[f] /\ owed'[f] <= pending'[f].first
          BY <2>4, <4>1, <4>2, <4>3, <4>5
        <4>8. QED
          BY <3>2, <4>1, <4>2, <4>6, <4>7
      <3>3. CASE g = f /\ owed[f] = Absent
        <4>1. owed'[f] = 0 /\ p \in Agents /\ life >= Warmup /\ met[d] = Absent
          BY <1>2, <2>2, <3>3 DEF AgesInv
        <4>2. pending[f] = Absent \/ pending[f].last > Window
          <5>1. ASSUME pending[f] # Absent, pending[f].last <= Window
                PROVE  FALSE
            <6>1. pending[f].last <= Keep
              BY <1>2, <2>2, <5>1, FlowTypes, Constants
            <6>2. QED
              BY <1>2, <2>2, <4>1, <5>1, <6>1 DEF ContactInv
          <5>2. QED
            BY <1>2, <2>2, <5>1, FlowTypes, Constants
        <4>3. Novel(d)
          BY <1>2, <4>1 DEF Novel, NovelInv
        <4>4. new.novel /\ new.last = 0
          BY <2>3, <4>2, <4>3
        <4>5. ASSUME reported[f] # Absent
              PROVE  reported[f] + Settle >= Window
          <5>1. reported[f] \in Nat
            BY <1>2, <2>2, <4>5, FlowTypes
          <5>2. reported[f] > Keep \/ reported[f] + Keep > SeenTtl
            BY <1>2, <2>2, <4>1, <4>5 DEF ContactInv
          <5>3. Keep + Window <= SeenTtl + Settle
            BY ReconcilerAssumption
          <5>4. QED
            BY <5>1, <5>2, <5>3, Constants
        <4>6. QED
          BY <2>4, <3>3, <4>1, <4>4, <4>5, Constants
      <3>4. QED
        BY <3>1, <3>2, <3>3
    <2>7. QED
      BY <1>4, <2>5, <2>6 DEF FloorInv
  <1>7. QED
    BY <1>5, <1>6

LEMMA GcFloor ==
    ASSUME RecInv, FloorInv, Gc
    PROVE  FloorInv'
  <1>1. /\ UNCHANGED <<setting, met, owed>>
        /\ pc = "observe" /\ pc' = "drain"
        /\ pending' = [f \in Flow |-> IF pending[f] # Absent /\ pending[f].last > Keep
                                      THEN Absent ELSE pending[f]]
        /\ reported' = [f \in Flow |-> IF reported[f] # Absent /\ reported[f] > Keep
                                       THEN Absent ELSE reported[f]]
    BY DEF Gc, GcReported, file, hist
  <1>2. AgesInv /\ ContactInv /\ FirstInv
    BY DEF RecInv, FloorInv
  <1>3. ASSUME NEW f \in Flow
        PROVE  /\ pending'[f] = pending[f] \/ pending'[f] = Absent
               /\ reported'[f] = reported[f] \/ reported'[f] = Absent
               /\ pending'[f] # Absent => pending'[f].last <= Keep
               /\ pending[f] # Absent /\ pending[f].last <= Keep => pending'[f] = pending[f]
    BY <1>1, <1>2, FlowTypes, Constants
  <1>4. ContactInv'
    BY <1>1, <1>2, <1>3 DEF ContactInv
  <1>5. LeftInv'
    BY <1>3 DEF LeftInv
  <1>6. FirstInv'
    <2> SUFFICES ASSUME setting.steady, setting.hosts = {}, NEW f \in Flow, owed[f] # Absent
                 PROVE  /\ pending'[f] # Absent /\ pending'[f].novel
                        /\ pending'[f].last <= owed[f] /\ owed[f] <= pending'[f].first
                        /\ owed[f] <= Settle
                        /\ reported'[f] # Absent => reported'[f] + Settle >= owed[f] + Window
      BY <1>1 DEF FirstInv
    <2>1. /\ pending[f] # Absent /\ pending[f].novel
          /\ pending[f].last <= owed[f] /\ owed[f] <= pending[f].first
          /\ owed[f] <= Settle
          /\ reported[f] # Absent => reported[f] + Settle >= owed[f] + Window
      BY <1>2 DEF FirstInv
    <2>2. pending'[f] = pending[f]
      BY <1>2, <1>3, <2>1, FlowTypes, Constants
    <2>3. QED
      BY <1>3, <2>1, <2>2
  <1>7. QED
    BY <1>4, <1>5, <1>6 DEF FloorInv

LEMMA DrainFloor ==
    ASSUME RecInv, LinesInv, FloorInv, Drain
    PROVE  FloorInv'
  <1>1. PICK due : due = IF active \/ Proxy # Absent THEN Due ELSE {}
    OBVIOUS
  <1>2. /\ UNCHANGED <<setting, pending, met, decls>> /\ pc = "drain" /\ pc' = "done"
        /\ reported' = [f \in Flow |-> IF f \in due THEN 0 ELSE reported[f]]
        /\ owed' = [f \in Flow |-> IF f \in due THEN Absent ELSE owed[f]]
    BY <1>1 DEF Drain, file
  <1>3. AgesInv /\ SteadyInv /\ ContactInv /\ LeftInv /\ FirstInv
    BY DEF RecInv, FloorInv
  <1>4. due \subseteq Due
    BY <1>1
  <1>5. ContactInv'
    <2> SUFFICES ASSUME NEW f \in Flow, f[1] \in Agents, reported'[f] # Absent
                 PROVE  \/ reported'[f] > Keep \/ reported'[f] + Keep > SeenTtl
                        \/ met[f[2]] # Absent /\ met[f[2]] <= reported'[f] + Keep
      BY <1>2, <1>3 DEF ContactInv
    <2>1. CASE f \in due
      <3>1. pending[f] # Absent
        BY <1>4, <2>1 DEF Due
      <3>2. pending[f].last <= Keep
        BY <1>2, <1>3, <3>1 DEF LeftInv
      <3>3. met[f[2]] # Absent /\ met[f[2]] <= pending[f].last
        BY <1>3, <3>1, <3>2 DEF ContactInv
      <3>4. reported'[f] = 0
        BY <1>2, <2>1
      <3>5. QED
        BY <1>3, <3>1, <3>2, <3>3, <3>4, FlowTypes, Constants
    <2>2. CASE f \notin due
      <3>1. reported'[f] = reported[f]
        BY <1>2, <2>2
      <3>2. QED
        BY <1>3, <3>1 DEF ContactInv
    <2>3. QED
      BY <2>1, <2>2
  <1>6. LeftInv'
    BY <1>2 DEF LeftInv
  <1>7. FirstInv'
    <2> SUFFICES ASSUME setting.steady, setting.hosts = {}, NEW f \in Flow, owed'[f] # Absent
                 PROVE  /\ pending[f] # Absent /\ pending[f].novel
                        /\ pending[f].last <= owed'[f] /\ owed'[f] <= pending[f].first
                        /\ owed'[f] <= Settle /\ owed'[f] < Settle
                        /\ reported'[f] # Absent => reported'[f] + Settle >= owed'[f] + Window
      BY <1>2 DEF FirstInv
    <2>1. f \notin due /\ owed'[f] = owed[f] /\ reported'[f] = reported[f] /\ owed[f] # Absent
      BY <1>2
    <2>2. /\ pending[f] # Absent /\ pending[f].novel
          /\ pending[f].last <= owed[f] /\ owed[f] <= pending[f].first
          /\ owed[f] <= Settle
          /\ reported[f] # Absent => reported[f] + Settle >= owed[f] + Window
      BY <1>3, <2>1 DEF FirstInv
    <2>3. owed[f] \in Nat /\ pending[f].first \in Nat /\ pending[f].total \in Nat
      BY <1>3, <2>1, <2>2, FlowTypes
    <2>4. ASSUME owed[f] = Settle
          PROVE  FALSE
      <3>1. active
        BY <1>2, <1>3 DEF SteadyInv
      <3>2. Verdict(f) # Absent
        <4>1. \A i \in 1 .. Len(decls) : decls[i].host = Wild
          <5>1. unread \in Seq(Decl) /\ decls \in Seq(Decl) /\ Targetless(decls \o unread)
            BY DEF LinesInv
          <5>2. PICK all : all = decls \o unread
            OBVIOUS
          <5>3. Len(all) = Len(decls) + Len(unread) /\ \A i \in 1 .. Len(decls) : all[i] = decls[i]
            BY <5>1, <5>2, JoinFacts
          <5>4. Len(decls) \in Nat /\ Len(unread) \in Nat /\ Targetless(all)
            BY <5>1, <5>2, DeclFacts
          <5>5. \A i \in 1 .. Len(decls) : i \in 1 .. Len(all)
            BY <5>3, <5>4
          <5>6. QED
            BY <5>3, <5>4, <5>5 DEF Targetless
        <4>2. PICK hits : hits = Matches(f)
          OBVIOUS
        <4>3. \A i \in hits : decls[i].host = Wild
          BY <4>1, <4>2, DeclFacts DEF Matches, LinesInv
        <4>4. Verdict(f) \in {"bypass", "undeclared", "wildcard"}
          BY <2>2, <3>1, <4>2, <4>3 DEF Verdict
        <4>5. QED
          BY <4>4, Constants DEF Note
      <3>3. Floor(pending[f]) = 0
        BY <2>2 DEF Floor
      <3>4. pending[f].first >= Settle /\ pending[f].total >= Floor(pending[f])
        BY <2>2, <2>3, <2>4, <3>3, Constants
      <3>5. reported[f] = Absent \/ reported[f] >= Window
        <4>1. ASSUME reported[f] # Absent
              PROVE  reported[f] >= Window
          <5>1. reported[f] \in Nat
            BY <1>3, <4>1, FlowTypes
          <5>2. QED
            BY <2>2, <2>4, <4>1, <5>1, Constants
        <4>2. QED
          BY <4>1
      <3>6. f \in Due
        BY <2>2, <3>2, <3>4, <3>5 DEF Due
      <3>7. QED
        BY <1>1, <2>1, <3>1, <3>6
    <2>5. owed[f] < Settle
      BY <2>2, <2>3, <2>4, Constants
    <2>6. QED
      BY <2>1, <2>2, <2>5
  <1>8. QED
    BY <1>5, <1>6, <1>7 DEF FloorInv

LEMMA ElapseFloor ==
    ASSUME RecInv, FloorInv, Elapse
    PROVE  FloorInv'
  <1>1. setting' = setting /\ pc = "done" /\ pc' = "start"
    BY DEF Elapse
  <1>2. pending' = [f \in Flow |->
             IF pending[f] = Absent THEN Absent
             ELSE [pending[f] EXCEPT !.first = UpTo(@ + 1, Keep + Window + 1),
                                     !.last = UpTo(@ + 1, Keep + 1)]]
    BY DEF Elapse
  <1>3. /\ reported' = [f \in Flow |-> Aged(reported[f], 1, Keep + 1)]
        /\ owed' = [f \in Flow |-> Aged(owed[f], 1, Window + 1)]
        /\ met' = [d \in Dest |->
             IF met[d] = Absent \/ met[d] = SeenTtl THEN Absent ELSE met[d] + 1]
    BY DEF Elapse
  <1>4. AgesInv /\ ContactInv /\ FirstInv
    BY DEF RecInv, FloorInv
  <1>5. ASSUME NEW f \in Flow
        PROVE  /\ pending[f] = Absent <=> pending'[f] = Absent
               /\ pending[f] # Absent =>
                    /\ pending'[f].novel = pending[f].novel
                    /\ pending'[f].last = UpTo(pending[f].last + 1, Keep + 1)
                    /\ pending'[f].first = UpTo(pending[f].first + 1, Keep + Window + 1)
    <2>1. CASE pending[f] = Absent
      BY <1>2, <2>1
    <2>2. CASE pending[f] # Absent
      <3>1. PICK r \in Rec : r = pending[f]
        BY <1>4, <2>2, FlowTypes
      <3>2. PICK x : x = UpTo(r.first + 1, Keep + Window + 1)
        OBVIOUS
      <3>3. PICK y : y = UpTo(r.last + 1, Keep + 1)
        OBVIOUS
      <3>4. x \in Nat /\ y \in 0 .. Keep + 1
        <4>1. r.first \in Nat /\ r.last \in 0 .. Keep + 1
          BY <3>1 DEF Rec
        <4>2. QED
          BY <3>2, <3>3, <4>1, Constants DEF UpTo
      <3>5. pending'[f] = [r EXCEPT !.first = x, !.last = y]
        BY <1>2, <2>2, <3>1, <3>2, <3>3
      <3>6. pending'[f] \in Rec /\ pending'[f].novel = r.novel /\ pending'[f].last = y
            /\ pending'[f].first = x
        BY <3>1, <3>4, <3>5 DEF Rec
      <3>7. QED
        BY <2>2, <3>1, <3>2, <3>3, <3>6, Constants
    <2>3. QED
      BY <2>1, <2>2
  <1>6. ASSUME NEW f \in Flow
        PROVE  /\ reported'[f] = Absent <=> reported[f] = Absent
               /\ reported[f] # Absent =>
                    reported'[f] = IF reported[f] + 1 > Keep + 1 THEN Keep + 1 ELSE reported[f] + 1
               /\ owed'[f] = Absent <=> owed[f] = Absent
               /\ owed[f] # Absent =>
                    owed'[f] = IF owed[f] + 1 > Window + 1 THEN Window + 1 ELSE owed[f] + 1
    <2>1. reported[f] \in Age(Keep + 1) /\ owed[f] \in Age(Window + 1)
          /\ Keep + 1 \in Nat /\ Window + 1 \in Nat
      BY <1>4, Constants DEF AgesInv
    <2>2. QED
      BY <1>3, <2>1, AgedFacts
  <1>7. ContactInv'
    <2> SUFFICES ASSUME NEW f \in Flow, f[1] \in Agents
                 PROVE  /\ pending'[f] # Absent /\ pending'[f].last <= Keep =>
                             met'[f[2]] # Absent /\ met'[f[2]] <= pending'[f].last
                        /\ reported'[f] # Absent =>
                             \/ reported'[f] > Keep \/ reported'[f] + Keep > SeenTtl
                             \/ met'[f[2]] # Absent /\ met'[f[2]] <= reported'[f] + Keep
      BY DEF ContactInv
    <2>0. met'[f[2]] = IF met[f[2]] = Absent \/ met[f[2]] = SeenTtl THEN Absent ELSE met[f[2]] + 1
      BY <1>3, <1>4, FlowTypes
    <2>1. ASSUME pending'[f] # Absent, pending'[f].last <= Keep
          PROVE  met'[f[2]] # Absent /\ met'[f[2]] <= pending'[f].last
      <3>1. /\ pending[f] # Absent /\ pending[f].last \in Nat
            /\ pending'[f].last = UpTo(pending[f].last + 1, Keep + 1)
        BY <1>4, <1>5, <2>1, FlowTypes
      <3>2. pending'[f].last = pending[f].last + 1 /\ pending[f].last < Keep
        BY <2>1, <3>1, Constants DEF UpTo
      <3>3. met[f[2]] # Absent /\ met[f[2]] <= pending[f].last
        BY <1>4, <3>1, <3>2, Constants DEF ContactInv
      <3>4. met[f[2]] \in Nat /\ met[f[2]] # SeenTtl
        BY <1>4, <3>1, <3>2, <3>3, FlowTypes, Constants
      <3>5. met'[f[2]] = met[f[2]] + 1 /\ met'[f[2]] # Absent
        BY <2>0, <3>3, <3>4, Constants
      <3>6. QED
        BY <3>1, <3>2, <3>3, <3>4, <3>5
    <2>2. ASSUME reported'[f] # Absent, ~(reported'[f] > Keep), ~(reported'[f] + Keep > SeenTtl)
          PROVE  met'[f[2]] # Absent /\ met'[f[2]] <= reported'[f] + Keep
      <3>1. /\ reported[f] # Absent /\ reported[f] \in Nat
            /\ reported'[f] = IF reported[f] + 1 > Keep + 1 THEN Keep + 1 ELSE reported[f] + 1
        BY <1>4, <1>6, <2>2, FlowTypes
      <3>2. reported'[f] = reported[f] + 1 /\ ~(reported[f] > Keep) /\ ~(reported[f] + Keep > SeenTtl)
        BY <2>2, <3>1, Constants
      <3>3. met[f[2]] # Absent /\ met[f[2]] <= reported[f] + Keep
        BY <1>4, <3>1, <3>2 DEF ContactInv
      <3>4. met[f[2]] \in Nat /\ met[f[2]] # SeenTtl
        BY <1>4, <2>2, <3>1, <3>2, <3>3, FlowTypes, Constants
      <3>5. met'[f[2]] = met[f[2]] + 1 /\ met'[f[2]] # Absent
        BY <2>0, <3>3, <3>4, Constants
      <3>6. QED
        BY <3>1, <3>2, <3>3, <3>4, <3>5, Constants
    <2>3. QED
      BY <2>1, <2>2
  <1>8. LeftInv'
    BY <1>1 DEF LeftInv
  <1>9. FirstInv'
    <2> SUFFICES ASSUME setting.steady, setting.hosts = {}, NEW f \in Flow, owed'[f] # Absent
                 PROVE  /\ pending'[f] # Absent /\ pending'[f].novel
                        /\ pending'[f].last <= owed'[f] /\ owed'[f] <= pending'[f].first
                        /\ owed'[f] <= Settle
                        /\ reported'[f] # Absent => reported'[f] + Settle >= owed'[f] + Window
      BY <1>1 DEF FirstInv
    <2>1. owed[f] # Absent
      BY <1>6
    <2>2. /\ pending[f] # Absent /\ pending[f].novel
          /\ pending[f].last <= owed[f] /\ owed[f] <= pending[f].first
          /\ owed[f] < Settle
          /\ reported[f] # Absent => reported[f] + Settle >= owed[f] + Window
      BY <1>1, <1>4, <2>1 DEF FirstInv
    <2>3. owed[f] \in Nat /\ pending[f].last \in Nat /\ pending[f].first \in Nat
          /\ (reported[f] # Absent => reported[f] \in Nat)
      BY <1>4, <2>1, <2>2, FlowTypes
    <2>4. owed'[f] = owed[f] + 1
      BY <1>6, <2>1, <2>2, <2>3, Constants
    <2>5. /\ pending'[f] # Absent /\ pending'[f].novel = pending[f].novel
          /\ pending'[f].last = UpTo(pending[f].last + 1, Keep + 1)
          /\ pending'[f].first = UpTo(pending[f].first + 1, Keep + Window + 1)
      BY <1>5, <2>2
    <2>6. pending'[f].last <= owed'[f] /\ owed'[f] <= pending'[f].first /\ owed'[f] <= Settle
      BY <2>2, <2>3, <2>4, <2>5, Constants DEF UpTo
    <2>7. ASSUME reported'[f] # Absent
          PROVE  reported'[f] + Settle >= owed'[f] + Window
      <3>1. /\ reported[f] # Absent
            /\ reported'[f] = IF reported[f] + 1 > Keep + 1 THEN Keep + 1 ELSE reported[f] + 1
        BY <1>6, <2>7
      <3>2. QED
        BY <2>2, <2>3, <2>4, <2>6, <3>1, Constants
    <2>8. QED
      BY <2>2, <2>5, <2>6, <2>7
  <1>10. QED
    BY <1>7, <1>8, <1>9 DEF FloorInv

LEMMA StepFloor == RecInv /\ LinesInv /\ FloorInv /\ [Next]_vars => FloorInv'
  <1> SUFFICES ASSUME RecInv, LinesInv, FloorInv, [Next]_vars PROVE FloorInv'
    OBVIOUS
  <1>1. CASE UNCHANGED <<setting, pending, reported, met, owed>> /\ (pc' = pc \/ pc' = "observe")
    BY <1>1 DEF FloorInv, ContactInv, LeftInv, FirstInv
  <1>2. CASE Touch \/ Rotate \/ Refresh
             \/ (\E p \in Agents, h \in setting.hosts \cup {Wild}, nb \in setting.sizes :
                    Declare(p, h, nb))
    <2>1. UNCHANGED <<setting, pending, reported, met, owed>> /\ (pc' = pc \/ pc' = "observe")
      BY <1>2 DEF Touch, Rotate, Refresh, Declare, hist
    <2>2. QED
      BY <1>1, <2>1
  <1>3. CASE \E p \in setting.senders, d \in Dest, n \in setting.deltas,
              port \in setting.ports : Observe(p, d, n, port)
    BY <1>3, ObserveFloor
  <1>4. CASE Gc
    BY <1>4, GcFloor
  <1>5. CASE Drain
    BY <1>5, DrainFloor
  <1>6. CASE Elapse
    BY <1>6, ElapseFloor
  <1>7. CASE UNCHANGED vars
    BY <1>1, <1>7 DEF vars, hist
  <1>8. QED
    BY <1>2, <1>3, <1>4, <1>5, <1>6, <1>7 DEF Next

(***************************************************************************)
(* An agent's first contact with a destination is reported once it has     *)
(* settled, however few bytes it carried, whoever else was there and       *)
(* whatever was reported of the flow before, where hooks write steadily    *)
(* and declare no targets.                                                 *)
(***************************************************************************)
THEOREM NovelIsReportedHolds == Spec => []NovelIsReported
  <1>1. FloorInv => NovelIsReported
    BY DEF FloorInv, FirstInv, NovelIsReported
  <1>2. RecInv /\ LinesInv /\ FloorInv /\ [Next]_vars => (RecInv /\ LinesInv /\ FloorInv)'
    BY StepRec, StepLines, StepFloor
  <1>3. QED
    BY <1>1, <1>2, InitRec, InitLines, InitFloor, PTL DEF Spec
=============================================================================
