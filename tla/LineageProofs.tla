---------------------------- MODULE LineageProofs -----------------------------
(***************************************************************************)
(* Theorems about Lineage for every set of pids, every max_depth, and any  *)
(* number of processes and ticks.                                          *)
(***************************************************************************)
EXTENDS Lineage, SequenceTheorems, WellFoundedInduction, TLAPS

Record == [id : Nat, parent : Nat, ppid : Pid \cup {Root}, start : Nat,
           kind : Kinds, kin : BOOLEAN]
Table  == [Pid -> Record \cup {Absent}]

\* A pid is not given out again within the second it was freed in.
Recycled == \A s \in Settings : s.reuse # "soon"
\* No shell's command line names an agent.
Speaking == ~setting.mentions

\* Pids that name one process for ever.
Unique == setting.reuse = "never"

(* The process table.                                                      *)
TableInv ==
  /\ setting \in Settings /\ procs \in Table
  /\ births \in Nat /\ clock \in 0 .. MaxTime /\ calm \in BOOLEAN
  /\ \A p \in Living : /\ p \in used /\ procs[p].start <= clock
                       /\ IsAgent(procs[p].kind) => procs[p].kin
                       /\ procs[p].ppid # Root => procs[p].ppid \in used

\* Who has a parent's pid is the parent, or one that started after the child;
\* on POSIX it is the parent.
ForkInv ==
  \A p \in Living :
    LET d == procs[p].ppid
    IN  /\ d \in Living => \/ procs[d].kin => procs[p].kin
                           \/ ~setting.posix /\ procs[d].start > procs[p].start
        /\ d \in Pid \ Living =>
              /\ ~setting.posix
              /\ d \in warm \/ procs[p].start < clock \/ clock = MaxTime

(* A Windows map and the start times asked for since.  While the tick is   *)
(* calm it is out of date only by processes whose pid is new.              *)
MapInv(map) ==
  /\ map \in Table
  /\ \A p \in Pid : map[p] # Absent =>
        /\ p \in used /\ (map[p].ppid # Root => map[p].ppid \in used)
        /\ IsAgent(map[p].kind) => map[p].kin
        /\ (calm \/ Unique) /\ p \in Living => map[p] = procs[p]
        /\ calm => p \in Living
        /\ calm /\ map[p].ppid \in Living => map[map[p].ppid] # Absent

MemoInv(map, memo) ==
  /\ memo \subseteq [pid : Pid, start : Nat \cup {Absent}]
  /\ \A m, n \in memo : m.pid = n.pid => m = n
  /\ \A m \in memo : calm /\ map[m.pid] # Absent => m.start = map[m.pid].start

SnapInv == /\ setting.posix => snap = Absent
           /\ snap # Absent => /\ snap = [map |-> snap.map, memo |-> snap.memo]
                             /\ MapInv(snap.map) /\ MemoInv(snap.map, snap.memo)

\* What can be read about the process under a pid.
Records(p) == ({procs[p]} \cup (IF snap = Absent THEN {} ELSE {snap.map[p]})) \ {Absent}

\* Where pids name one process for ever, a claimed parent is the parent.
UniqueInv ==
  Unique => \A p \in Pid : \A r \in Records(p) :
              r.ppid # Root => \A e \in Records(r.ppid) : e.kin => r.kin

(* The walk.  As long as it can be trusted, what it looks at is of no      *)
(* agent's kin unless the flow's process is.                               *)
Trusted == Speaking /\ (setting.posix \/ calm \/ Unique)

\* A pid that is not given to a stranger while the walk can be trusted.
Held(p) == p \in used /\ (setting.posix => p \in Living \cup warm)

Shaped(w) == w = [pid |-> w.pid, name |-> w.name, kin |-> w.kin, pc |-> w.pc, cur |-> w.cur,
                  next |-> w.next, depth |-> w.depth, seen |-> w.seen]

Visited == {walk.pid, walk.cur} \cup (IF walk.pc = "match" THEN {walk.next} ELSE {})

WalkInv ==
  walk # Absent =>
    /\ Shaped(walk) /\ Visited \subseteq Pid /\ walk.kin \in BOOLEAN
    /\ walk.name = "claude" => walk.kin
    /\ \A p \in Visited : /\ Held(p)
                          /\ Trusted => \A r \in Records(p) : r.kin => walk.kin
    /\ Unique /\ walk.pid \in Living => procs[walk.pid].kin = walk.kin

CacheInv ==
  Unique => \A c \in cache : /\ c.pid \in used
                             /\ Speaking /\ c.hit /\ c.pid \in Living => procs[c.pid].kin

LineInv == TableInv /\ ForkInv /\ SnapInv /\ UniqueInv /\ WalkInv /\ CacheInv

-----------------------------------------------------------------------------
LEMMA Constants ==
    /\ Root \notin Pid /\ Absent \notin Pid /\ Absent \notin Nat /\ Absent # Root
    /\ Absent \notin Record /\ MaxTime \in Nat
    /\ \A s \in Settings : s.posix \in BOOLEAN /\ s.reuse \in {"never", "later", "soon"}
  BY LineageAssumption DEF Circumstances, Record

LEMMA KindFacts ==
    ASSUME Speaking, NEW k \in Kinds
    PROVE  (Named(k) => IsAgent(k)) /\ (Name(k) = "claude" => IsAgent(k))
  BY LineageAssumption DEF Speaking, Named, IsAgent, Name

\* A living process is a record, and a record is one of a living process.
LEMMA LivingFacts ==
    ASSUME TableInv
    PROVE  \A p \in Living : /\ p \in Pid /\ procs[p] \in Record /\ procs[p].ppid \in Pid \cup {Root}
                             /\ procs[p].start \in Nat /\ procs[p].kind \in Kinds
                             /\ procs[p].kin \in BOOLEAN
  BY DEF TableInv, Table, Living, Record

LEMMA InitLine == Init => LineInv /\ NoStrangerBlamed
  <1> SUFFICES ASSUME Init PROVE LineInv /\ NoStrangerBlamed
    OBVIOUS
  <1>1. Living = {} /\ snap = Absent /\ walk = Absent /\ cache = {} /\ verdict = Absent
    BY DEF Init, Living
  <1>2. TableInv
    <2>1. procs \in Table /\ births \in Nat /\ clock \in 0 .. MaxTime /\ setting \in Settings
      BY Constants DEF Init, Table
    <2>2. calm \in BOOLEAN
      BY DEF Init
    <2>3. QED
      BY <1>1, <2>1, <2>2 DEF TableInv
  <1>3. ForkInv /\ SnapInv /\ WalkInv /\ CacheInv /\ NoStrangerBlamed
    BY <1>1 DEF ForkInv, SnapInv, WalkInv, CacheInv, NoStrangerBlamed
  <1>4. UniqueInv
    BY <1>1 DEF UniqueInv, Records, Living
  <1>5. QED
    BY <1>2, <1>3, <1>4 DEF LineInv

-----------------------------------------------------------------------------
(* The world between two looks of the walk.                                *)

\* Nothing that is claimed as a parent, or visited, or cached is known of a
\* pid which was never given out.
LEMMA SpawnLine ==
    ASSUME LineInv, Recycled,
           NEW p \in Pid, NEW parent \in Living \cup {Root}, NEW kind \in Kinds,
           Spawn(p, parent, kind)
    PROVE  LineInv'
  <1>1. PICK new \in Record :
           /\ procs' = [procs EXCEPT ![p] = new]
           /\ new.ppid = parent /\ new.start = clock /\ new.kind = kind
           /\ IsAgent(kind) => new.kin
           /\ parent # Root => (procs[parent].kin => new.kin)
    <2> DEFINE r == [id |-> births + 1, parent |-> IF parent = Root THEN 0 ELSE procs[parent].id,
                     ppid |-> parent, start |-> clock, kind |-> kind,
                     kin |-> IsAgent(kind) \/ (parent # Root /\ procs[parent].kin)]
    <2>1. /\ births + 1 \in Nat /\ clock \in Nat /\ parent \in Pid \cup {Root}
          /\ (IF parent = Root THEN 0 ELSE procs[parent].id) \in Nat
      <3>1. births \in Nat /\ clock \in Nat
        BY Constants DEF LineInv, TableInv
      <3>2. parent # Root => parent \in Pid /\ procs[parent].id \in Nat
        BY LivingFacts DEF LineInv, Record
      <3>3. QED
        BY <3>1, <3>2
    <2>2. (IsAgent(kind) \/ (parent # Root /\ procs[parent].kin)) \in BOOLEAN
      BY LivingFacts DEF LineInv, IsAgent
    <2>3. r \in Record
      BY <2>1, <2>2 DEF Record
    <2>4. procs' = [procs EXCEPT ![p] = r]
      BY DEF Spawn
    <2>5. QED
      BY <2>3, <2>4
  <1>2. /\ UNCHANGED <<setting, clock, warm, snap, cache, walk, verdict>>
        /\ clock < MaxTime /\ p \notin Living /\ used' = used \cup {p} /\ births' = births + 1
        /\ calm' = (calm /\ p \notin used) /\ MayBeGiven(p)
    BY DEF Spawn, Living
  <1>3. TableInv /\ ForkInv /\ SnapInv /\ UniqueInv /\ WalkInv /\ CacheInv
    BY DEF LineInv
  <1>4. /\ procs \in Table /\ procs' \in Table /\ Living' = Living \cup {p} /\ procs'[p] = new
        /\ \A q \in Pid : q # p => procs'[q] = procs[q]
        /\ Living \subseteq used /\ Living \subseteq Pid
    <2>1. procs \in Table /\ Living \subseteq used /\ Living \subseteq Pid
      BY <1>3 DEF TableInv, Living
    <2>2. procs' \in Table /\ procs'[p] = new /\ \A q \in Pid : q # p => procs'[q] = procs[q]
      BY <1>1, <2>1 DEF Table
    <2>3. new # Absent
      BY Constants
    <2>4. QED
      BY <2>1, <2>2, <2>3 DEF Living
  <1>5. /\ Unique => p \notin used
        /\ ~Unique => p \notin warm
        /\ calm' => calm /\ p \notin used
        /\ Unique' = Unique
    <2>1. setting.reuse \in {"never", "later"}
      BY <1>3, Constants DEF TableInv, Recycled
    <2>2. QED
      BY <2>1, <1>2 DEF MayBeGiven, Unique
  <1>6. TableInv'
    <2>1. setting' \in Settings /\ births' \in Nat /\ clock' \in 0 .. MaxTime
      BY <1>2, <1>3 DEF TableInv
    <2>2. calm' \in BOOLEAN
      BY <1>2, <1>3 DEF TableInv
    <2>3. ASSUME NEW q \in Living'
          PROVE  /\ q \in used' /\ procs'[q].start <= clock'
                 /\ IsAgent(procs'[q].kind) => procs'[q].kin
                 /\ procs'[q].ppid # Root => procs'[q].ppid \in used'
      <3>1. CASE q = p
        BY <3>1, <1>1, <1>2, <1>3, <1>4, Constants DEF TableInv
      <3>2. CASE q # p
        BY <3>2, <1>2, <1>3, <1>4 DEF TableInv
      <3>3. QED
        BY <3>1, <3>2
    <2>4. QED
      BY <1>4, <2>1, <2>2, <2>3 DEF TableInv
  <1>7. ForkInv'
    <2> SUFFICES ASSUME NEW q \in Living'
                 PROVE  LET d == procs'[q].ppid
                        IN  /\ d \in Living' =>
                                  \/ procs'[d].kin => procs'[q].kin
                                  \/ ~setting.posix /\ procs'[d].start > procs'[q].start
                            /\ d \in Pid \ Living' =>
                                  /\ ~setting.posix
                                  /\ d \in warm \/ procs'[q].start < clock \/ clock = MaxTime
      BY <1>2 DEF ForkInv
    <2>1. CASE q = p
      BY <2>1, <1>1, <1>2, <1>4, Constants
    <2>2. CASE q # p /\ procs[q].ppid = p
      <3>1. q \in Living /\ p \in used
        BY <2>2, <1>3, <1>4, Constants DEF TableInv
      <3>2. ~setting.posix /\ (p \in warm \/ procs[q].start < clock \/ clock = MaxTime)
        BY <2>2, <3>1, <1>2, <1>3 DEF ForkInv
      <3>3. procs[q].start < clock
        BY <3>1, <3>2, <1>2, <1>3, <1>5 DEF TableInv
      <3>4. QED
        BY <2>2, <3>2, <3>3, <1>1, <1>4
    <2>3. CASE q # p /\ procs[q].ppid # p
      BY <2>3, <1>3, <1>4 DEF ForkInv
    <2>4. QED
      BY <2>1, <2>2, <2>3
  <1>8. SnapInv'
    <2> SUFFICES ASSUME ~setting.posix, snap # Absent
                 PROVE  MapInv(snap.map)' /\ MemoInv(snap.map, snap.memo)'
      BY <1>2, <1>3 DEF SnapInv
    <2> DEFINE map == snap.map
    <2>1. MapInv(map) /\ MemoInv(map, snap.memo)
      BY <1>3 DEF SnapInv
    <2>2. ASSUME NEW q \in Pid, map[q] # Absent
          PROVE  /\ q \in used' /\ (map[q].ppid # Root => map[q].ppid \in used')
                 /\ IsAgent(map[q].kind) => map[q].kin
                 /\ (calm' \/ Unique) /\ q \in Living' => map[q] = procs'[q]
                 /\ calm' => q \in Living'
                 /\ calm' /\ map[q].ppid \in Living' => map[map[q].ppid] # Absent
      <3>1. /\ q \in used /\ (map[q].ppid # Root => map[q].ppid \in used)
            /\ IsAgent(map[q].kind) => map[q].kin
            /\ (calm \/ Unique) /\ q \in Living => map[q] = procs[q]
            /\ calm => q \in Living
            /\ calm /\ map[q].ppid \in Living => map[map[q].ppid] # Absent
        BY <2>1, <2>2 DEF MapInv
      <3>2. (calm' \/ Unique) => q # p /\ map[q].ppid # p
        BY <3>1, <1>5, Constants
      <3>3. QED
        BY <3>1, <3>2, <1>2, <1>4, <1>5
    <2>3. MapInv(map)'
      <3>1. map \in Table
        BY <2>1 DEF MapInv
      <3>2. QED
        BY <2>2, <3>1, <1>2, <1>5 DEF MapInv
    <2>4. MemoInv(map, snap.memo)'
      BY <2>1, <1>2, <1>5 DEF MemoInv
    <2>5. QED
      BY <2>3, <2>4
  <1>9. \A q \in Pid : q # p => Records(q)' = Records(q)
    BY <1>2, <1>4 DEF Records
  <1>10. Unique => Records(p)' = {new}
    <2> SUFFICES ASSUME Unique PROVE Records(p)' = {new}
      OBVIOUS
    <2>1. snap # Absent => snap.map[p] = Absent
      BY <1>3, <1>5 DEF SnapInv, MapInv
    <2>2. QED
      BY <2>1, <1>2, <1>4, Constants DEF Records
  <1>11. UniqueInv'
    <2> SUFFICES ASSUME Unique, NEW q \in Pid, NEW r \in Records(q)', r.ppid # Root,
                        NEW e \in Records(r.ppid)', e.kin
                 PROVE  r.kin
      BY <1>2 DEF UniqueInv, Unique
    <2>1. CASE q = p
      <3>1. r = new /\ parent \in Living /\ parent # p /\ e \in Records(parent)
        BY <2>1, <1>1, <1>2, <1>4, <1>9, <1>10
      <3>2. e = procs[parent]
        BY <3>1, <1>3, <1>4 DEF Records, SnapInv, MapInv
      <3>3. QED
        BY <3>1, <3>2, <1>1
    <2>2. CASE q # p
      <3>1. r \in Records(q)
        BY <2>2, <1>9
      <3>2. r.ppid \in used /\ r.ppid \in Pid
        <4>1. CASE r = procs[q]
          BY <4>1, <3>1, <1>3, <1>4 DEF TableInv, Records, Living, Table, Record
        <4>2. CASE snap # Absent /\ r = snap.map[q]
          BY <4>2, <3>1, <1>3 DEF SnapInv, MapInv, Records, Table, Record
        <4>3. QED
          BY <3>1, <4>1, <4>2 DEF Records
      <3>3. e \in Records(r.ppid)
        BY <3>2, <1>5, <1>9
      <3>4. QED
        BY <3>1, <3>3, <1>3 DEF UniqueInv
    <2>3. QED
      BY <2>1, <2>2
  <1>12. WalkInv'
    <2> SUFFICES ASSUME walk # Absent
                 PROVE  /\ \A q \in Visited : /\ Held(q)'
                                              /\ Trusted' => \A r \in Records(q)' : r.kin => walk.kin
                        /\ Unique /\ walk.pid \in Living' => procs'[walk.pid].kin = walk.kin
      BY <1>2, <1>3 DEF WalkInv, Visited, Unique
    <2>1. /\ Visited \subseteq Pid /\ walk.pid \in Visited
          /\ \A q \in Visited : /\ Held(q)
                                /\ Trusted => \A r \in Records(q) : r.kin => walk.kin
          /\ Unique /\ walk.pid \in Living => procs[walk.pid].kin = walk.kin
      BY <1>3 DEF WalkInv, Visited
    <2>2. \A q \in Visited : Held(q)'
      BY <2>1, <1>2, <1>4 DEF Held
    <2>3. Trusted' => Trusted /\ p \notin Visited
      BY <2>1, <1>2, <1>5 DEF Held, Trusted, Unique, Speaking
    <2>4. Unique => walk.pid # p
      BY <2>1, <1>5 DEF Held
    <2>5. QED
      BY <2>1, <2>2, <2>3, <2>4, <1>4, <1>9
  <1>13. CacheInv'
    BY <1>2, <1>3, <1>4, <1>5 DEF CacheInv, Speaking
  <1>14. QED
    BY <1>6, <1>7, <1>8, <1>11, <1>12, <1>13 DEF LineInv

\* Who dies leaves its children to Root, or its pid behind as one that is not
\* given out again in this second.
LEMMA ExitLine ==
    ASSUME LineInv, NEW p \in Pid, Exit(p)
    PROVE  LineInv'
  <1>1. /\ UNCHANGED <<setting, births, clock, used, snap, cache, walk, verdict>>
        /\ p \in Living /\ warm' = warm \cup {p} /\ calm' = FALSE /\ Unique' = Unique
    BY DEF Exit, Unique
  <1>2. TableInv /\ ForkInv /\ SnapInv /\ UniqueInv /\ WalkInv /\ CacheInv
    BY DEF LineInv
  <1>3. ASSUME NEW q \in Pid, q # p
        PROVE  /\ procs'[q] \in Record \cup {Absent}
               /\ procs'[q] = Absent <=> procs[q] = Absent
               /\ procs[q] # Absent =>
                     /\ procs'[q].start = procs[q].start /\ procs'[q].kind = procs[q].kind
                     /\ procs'[q].kin = procs[q].kin
                     /\ procs'[q].ppid = IF setting.posix /\ procs[q].ppid = p THEN Root
                                         ELSE procs[q].ppid
               /\ ~setting.posix => procs'[q] = procs[q]
    <2>1. procs[q] \in Record \cup {Absent}
      BY <1>2 DEF TableInv, Table
    <2>2. procs'[q] = IF setting.posix /\ q \in Living /\ procs[q].ppid = p
                      THEN [procs[q] EXCEPT !.ppid = Root] ELSE procs[q]
      BY <1>3 DEF Exit
    <2>3. CASE setting.posix /\ q \in Living /\ procs[q].ppid = p
      <3>1. procs'[q] = [procs[q] EXCEPT !.ppid = Root] /\ procs[q] \in Record
        BY <2>1, <2>2, <2>3 DEF Living
      <3>2. /\ procs'[q] \in Record /\ procs'[q].start = procs[q].start
            /\ procs'[q].kind = procs[q].kind /\ procs'[q].kin = procs[q].kin
            /\ procs'[q].ppid = Root
        BY <3>1 DEF Record
      <3>3. QED
        BY <3>1, <3>2, <2>3, Constants
    <2>4. CASE ~(setting.posix /\ q \in Living /\ procs[q].ppid = p)
      BY <2>1, <2>2, <2>4, <1>3 DEF Living
    <2>5. QED
      BY <2>3, <2>4
  <1>4. /\ Living' = Living \ {p} /\ procs' \in Table /\ procs'[p] = Absent
        /\ Living \subseteq Pid
    <2>1. procs'[p] = Absent /\ procs' = [q \in Pid |-> procs'[q]]
      BY DEF Exit
    <2>2. QED
      BY <1>3, <2>1 DEF Living, Table
  <1>5. TableInv'
    <2>1. ASSUME NEW q \in Living'
          PROVE  /\ q \in used' /\ procs'[q].start <= clock'
                 /\ IsAgent(procs'[q].kind) => procs'[q].kin
                 /\ procs'[q].ppid # Root => procs'[q].ppid \in used'
      BY <1>1, <1>2, <1>3, <1>4 DEF TableInv, Living
    <2>2. calm' \in BOOLEAN
      BY <1>1
    <2>3. QED
      BY <1>1, <1>2, <1>4, <2>1, <2>2 DEF TableInv
  <1>6. ForkInv'
    <2> SUFFICES ASSUME NEW q \in Living'
                 PROVE  LET d == procs'[q].ppid
                        IN  /\ d \in Living' =>
                                  \/ procs'[d].kin => procs'[q].kin
                                  \/ ~setting.posix /\ procs'[d].start > procs'[q].start
                            /\ d \in Pid \ Living' =>
                                  /\ ~setting.posix
                                  /\ d \in warm' \/ procs'[q].start < clock \/ clock = MaxTime
      BY <1>1 DEF ForkInv
    <2>1. q \in Living /\ q # p /\ q \in Pid /\ procs[q] # Absent
      BY <1>4 DEF Living
    <2>2. /\ procs'[q].start = procs[q].start /\ procs'[q].kin = procs[q].kin
          /\ procs'[q].ppid = IF setting.posix /\ procs[q].ppid = p THEN Root ELSE procs[q].ppid
      BY <1>3, <2>1
    <2>3. CASE procs'[q].ppid = Root
      BY <2>3, <1>4, Constants
    <2>4. CASE procs[q].ppid = p /\ ~setting.posix
      BY <2>2, <2>4, <1>1, <1>4
    <2>5. CASE procs[q].ppid # p
      <3> DEFINE d == procs[q].ppid
      <3>1. d \in Living' => /\ d \in Living /\ d \in Pid /\ procs'[d].start = procs[d].start
                             /\ procs'[d].kin = procs[d].kin
        BY <1>3, <1>4, <2>5 DEF Living
      <3>2. d \in Pid \ Living' => d \in Pid \ Living
        BY <1>4, <2>5
      <3>3. QED
        BY <2>1, <2>2, <2>5, <3>1, <3>2, <1>1, <1>2 DEF ForkInv
    <2>6. QED
      BY <2>2, <2>3, <2>4, <2>5
  <1>7. SnapInv'
    <2> SUFFICES ASSUME ~setting.posix, snap # Absent
                 PROVE  MapInv(snap.map)' /\ MemoInv(snap.map, snap.memo)'
      BY <1>1, <1>2 DEF SnapInv
    <2>1. MapInv(snap.map) /\ MemoInv(snap.map, snap.memo)
      BY <1>2 DEF SnapInv
    <2>2. MapInv(snap.map)'
      <3>1. ASSUME NEW q \in Pid, snap.map[q] # Absent, Unique, q \in Living'
            PROVE  snap.map[q] = procs'[q]
        BY <2>1, <3>1, <1>3, <1>4 DEF MapInv
      <3>2. QED
        BY <2>1, <3>1, <1>1 DEF MapInv
    <2>3. MemoInv(snap.map, snap.memo)'
      BY <2>1, <1>1 DEF MemoInv
    <2>4. QED
      BY <2>2, <2>3
  <1>8. ASSUME NEW q \in Pid, NEW r \in Records(q)'
        PROVE  \E o \in Records(q) : r.kin = o.kin /\ (r.ppid = o.ppid \/ r.ppid = Root)
    <2>1. CASE r = procs'[q]
      <3>1. q # p /\ procs[q] # Absent
        BY <2>1, <1>3, <1>4, <1>8 DEF Records
      <3>2. QED
        BY <2>1, <3>1, <1>3 DEF Records
    <2>2. CASE snap # Absent /\ r = snap.map[q]
      BY <2>2, <1>1, <1>8 DEF Records
    <2>3. QED
      BY <2>1, <2>2, <1>1, <1>8 DEF Records
  <1>9. UniqueInv'
    <2> SUFFICES ASSUME Unique, NEW q \in Pid, NEW r \in Records(q)', r.ppid # Root,
                        NEW e \in Records(r.ppid)', e.kin
                 PROVE  r.kin
      BY <1>1 DEF UniqueInv, Unique
    <2>1. PICK o \in Records(q) : r.kin = o.kin /\ r.ppid = o.ppid
      BY <1>8
    <2>2. r.ppid \in Pid
      BY <2>1, <1>2, LivingFacts DEF Records, Living, SnapInv, MapInv, Table, Record
    <2>3. PICK f \in Records(r.ppid) : e.kin = f.kin
      BY <2>2, <1>8
    <2>4. QED
      BY <2>1, <2>3, <1>2 DEF UniqueInv
  <1>10. WalkInv'
    <2> SUFFICES ASSUME walk # Absent
                 PROVE  /\ \A q \in Visited : /\ Held(q)'
                                              /\ Trusted' => \A r \in Records(q)' : r.kin => walk.kin
                        /\ Unique /\ walk.pid \in Living' => procs'[walk.pid].kin = walk.kin
      BY <1>1, <1>2 DEF WalkInv, Visited, Unique
    <2>1. /\ Visited \subseteq Pid /\ walk.pid \in Visited
          /\ \A q \in Visited : /\ Held(q)
                                /\ Trusted => \A r \in Records(q) : r.kin => walk.kin
          /\ Unique /\ walk.pid \in Living => procs[walk.pid].kin = walk.kin
      BY <1>2 DEF WalkInv, Visited
    <2>2. \A q \in Visited : Held(q)'
      BY <2>1, <1>1, <1>4 DEF Held
    <2>3. Trusted' => Trusted
      BY <1>1 DEF Trusted, Unique, Speaking
    <2>4. \A q \in Visited : Trusted' => \A r \in Records(q)' : r.kin => walk.kin
      BY <2>1, <2>3, <1>8
    <2>5. Unique /\ walk.pid \in Living' => procs'[walk.pid].kin = walk.kin
      BY <2>1, <1>3, <1>4 DEF Living
    <2>6. QED
      BY <2>2, <2>4, <2>5
  <1>11. CacheInv'
    BY <1>1, <1>2, <1>3, <1>4 DEF CacheInv, Living, Speaking
  <1>12. QED
    BY <1>5, <1>6, <1>7, <1>9, <1>10, <1>11 DEF LineInv

\* A new second, or a map that was dropped, leaves less to be mistaken about.
LEMMA TickLine ==
    ASSUME LineInv, Tick \/ Expire
    PROVE  LineInv'
  <1>1. /\ UNCHANGED <<setting, procs, births, used, cache, walk>> /\ snap' = Absent
        /\ Unique' = Unique /\ Living' = Living
    BY DEF Tick, Expire, world, Unique, Living
  <1>2. TableInv /\ ForkInv /\ SnapInv /\ UniqueInv /\ WalkInv /\ CacheInv
    BY DEF LineInv
  <1>3. /\ clock' \in 0 .. MaxTime /\ clock <= clock' /\ calm' \in BOOLEAN
        /\ \/ clock' = clock /\ warm' = warm
           \/ clock' > clock
           \/ clock' = MaxTime
    <2>1. CASE Tick
      <3>1. /\ calm' = TRUE /\ clock' = IF clock < MaxTime THEN clock + 1 ELSE clock
            /\ clock \in 0 .. MaxTime /\ MaxTime \in Nat
        BY <2>1, <1>2, Constants DEF Tick, TableInv
      <3>2. QED
        BY <3>1
    <2>2. CASE Expire
      <3>1. UNCHANGED <<clock, warm, calm>> /\ clock \in 0 .. MaxTime
        BY <2>2, <1>2 DEF Expire, world, TableInv
      <3>2. calm' \in BOOLEAN
        BY <3>1, <1>2 DEF TableInv
      <3>3. QED
        BY <3>1, <3>2, Constants
    <2>3. QED
      BY <2>1, <2>2
  <1>4. \A q \in Living : procs[q].start \in Nat /\ procs[q].start <= clock /\ clock \in Nat
    BY <1>2, LivingFacts, Constants DEF TableInv
  <1>5. TableInv'
    <2>1. \A q \in Living : procs[q].start <= clock'
      BY <1>3, <1>4, Constants
    <2>2. QED
      BY <2>1, <1>1, <1>2, <1>3 DEF TableInv
  <1>6. ForkInv'
    <2>1. ASSUME NEW q \in Living, procs[q].ppid \in Pid \ Living
          PROVE  procs[q].ppid \in warm' \/ procs[q].start < clock' \/ clock' = MaxTime
      <3>1. procs[q].ppid \in warm \/ procs[q].start < clock \/ clock = MaxTime
        BY <2>1, <1>2 DEF ForkInv
      <3>2. QED
        BY <3>1, <1>3, <1>4, Constants
    <2>2. QED
      BY <2>1, <1>1, <1>2 DEF ForkInv
  <1>7. SnapInv' /\ CacheInv'
    BY <1>1, <1>2 DEF SnapInv, CacheInv, Speaking
  <1>8. \A q : Records(q)' \subseteq Records(q)
    BY <1>1 DEF Records
  <1>9. UniqueInv'
    BY <1>1, <1>2, <1>8 DEF UniqueInv
  <1>10. WalkInv'
    <2>1. CASE walk = Absent
      BY <2>1, <1>1 DEF WalkInv
    <2>2. CASE walk # Absent /\ Expire
      <3>1. UNCHANGED <<warm, calm, setting>> /\ Visited' = Visited
        BY <2>2, <1>1 DEF Expire, world, Visited
      <3>2. QED
        BY <2>2, <3>1, <1>1, <1>2, <1>8 DEF WalkInv, Held, Trusted, Speaking
    <2>3. QED
      BY <2>1, <2>2 DEF Tick
  <1>11. QED
    BY <1>5, <1>6, <1>7, <1>9, <1>10 DEF LineInv

-----------------------------------------------------------------------------
(* What a look at the process table answers.                               *)

LEMMA StartInFacts ==
    ASSUME NEW memo, \A m, n \in memo : m.pid = n.pid => m = n, NEW m \in memo
    PROVE  StartIn(memo, m.pid) = m.start
  BY DEF StartIn

LEMMA RecalledFacts ==
    ASSUME TableInv, NEW map, MapInv(map), NEW memo, MemoInv(map, memo), NEW p \in Pid
    PROVE  /\ MemoInv(map, Recalled(memo, p))
           /\ memo \subseteq Recalled(memo, p)
           /\ \E m \in Recalled(memo, p) : m.pid = p
  <1> DEFINE new == [pid |-> p, start |-> StartNow(p)]
  <1>1. CASE \E m \in memo : m.pid = p
    BY <1>1 DEF Recalled
  <1>2. CASE ~ \E m \in memo : m.pid = p
    <2>1. Recalled(memo, p) = memo \cup {new}
      BY <1>2 DEF Recalled
    <2>2. StartNow(p) \in Nat \cup {Absent}
      BY LivingFacts DEF StartNow
    <2>3. calm /\ map[p] # Absent => StartNow(p) = map[p].start
      BY DEF MapInv, StartNow
    <2>4. PICK m : m = new
      OBVIOUS
    <2>5. m.pid = p /\ m.start = StartNow(p) /\ m \in [pid : Pid, start : Nat \cup {Absent}]
      BY <2>2, <2>4
    <2>6. Recalled(memo, p) = memo \cup {m}
      BY <2>1, <2>4
    <2>7. MemoInv(map, memo \cup {m})
      BY <1>2, <2>3, <2>5 DEF MemoInv
    <2>8. QED
      BY <2>5, <2>6, <2>7
  <1>3. QED
    BY <1>1, <1>2

\* The map that a look uses, be it the sampler's or its own.
LEMMA SnapshotFacts ==
    ASSUME TableInv, SnapInv
    PROVE  /\ Snapshot = [map |-> Snapshot.map, memo |-> Snapshot.memo]
           /\ MapInv(Snapshot.map) /\ MemoInv(Snapshot.map, Snapshot.memo)
           /\ \A p \in Pid : Snapshot.map[p] \in Records(p) \cup {Absent}
  <1>1. CASE snap = Absent
    <2>1. Snapshot.map = procs /\ Snapshot.memo = {} /\ Snapshot = [map |-> procs, memo |-> {}]
      BY <1>1 DEF Snapshot, Taken
    <2>2. MapInv(procs)
      BY DEF MapInv, TableInv, Living
    <2>3. MemoInv(procs, {})
      BY DEF MemoInv
    <2>4. QED
      BY <2>1, <2>2, <2>3 DEF Records
  <1>2. CASE snap # Absent
    BY <1>2 DEF Snapshot, SnapInv, Records
  <1>3. QED
    BY <1>1, <1>2

LEMMA InfoKeeps ==
    ASSUME LineInv, NEW p \in Pid, snap' = Info(Snapshot, p).snap,
           UNCHANGED <<setting, world>>
    PROVE  SnapInv' /\ UniqueInv' /\ \A q \in Pid : Records(q)' \subseteq Records(q)
  <1>1. /\ TableInv /\ SnapInv /\ UniqueInv
        /\ UNCHANGED <<procs, births, clock, used, warm, calm>>
        /\ Unique' = Unique /\ Living' = Living
    BY DEF LineInv, world, Unique, Living
  <1> DEFINE map == Snapshot.map
             memo == Snapshot.memo
  <1>2. /\ Snapshot = [map |-> map, memo |-> memo] /\ MapInv(map) /\ MemoInv(map, memo)
        /\ \A q \in Pid : map[q] \in Records(q) \cup {Absent}
    BY <1>1, SnapshotFacts
  <1>3. /\ setting.posix => snap' = Absent
        /\ ~setting.posix => \E h : snap' = [map |-> map, memo |-> h] /\ MemoInv(map, h)
    <2>1. CASE setting.posix
      BY <2>1 DEF Info
    <2>2. CASE ~setting.posix /\ (map[p] = Absent \/ map[p].ppid = Root)
      BY <2>2, <1>2 DEF Info, WinInfo
    <2>3. CASE ~setting.posix /\ map[p] # Absent /\ map[p].ppid # Root
      <3> DEFINE d == map[p].ppid
                 h == Recalled(Recalled(memo, p), d)
      <3>1. d \in Pid
        BY <2>3, <1>2 DEF MapInv, Table, Record
      <3>2. MemoInv(map, Recalled(memo, p))
        BY <1>1, <1>2, RecalledFacts
      <3>3. MemoInv(map, h)
        BY <1>1, <1>2, <3>1, <3>2, RecalledFacts
      <3>4. snap' = [Snapshot EXCEPT !.memo = h]
        BY <2>3 DEF Info, WinInfo
      <3>5. snap' = [map |-> map, memo |-> h]
        BY <3>4, <1>2
      <3> HIDE DEF h
      <3>6. QED
        BY <3>3, <3>5, <2>3
    <2>4. QED
      BY <2>1, <2>2, <2>3
  <1> HIDE DEF map, memo
  <1>4. SnapInv'
    <2>1. MapInv(map) => \A h : snap' = [map |-> map, memo |-> h] => MapInv(snap.map)'
      BY <1>1 DEF MapInv
    <2>2. \A h : snap' = [map |-> map, memo |-> h] /\ MemoInv(map, h) => MemoInv(snap.map, snap.memo)'
      BY <1>1 DEF MemoInv
    <2>3. QED
      BY <1>2, <1>3, <2>1, <2>2 DEF SnapInv
  <1>5. ASSUME NEW q \in Pid PROVE Records(q)' \subseteq Records(q)
    <2>1. CASE setting.posix
      BY <1>1, <1>3, <2>1 DEF Records
    <2>2. CASE ~setting.posix
      <3>1. PICK h : snap' = [map |-> map, memo |-> h]
        BY <1>3, <2>2
      <3>2. snap'.map = map
        BY <3>1
      <3>3. Records(q)' \subseteq {procs[q], map[q]} \ {Absent}
        BY <1>1, <3>2 DEF Records
      <3>4. map[q] \in Records(q) \cup {Absent} /\ (procs[q] # Absent => procs[q] \in Records(q))
        BY <1>2 DEF Records
      <3>5. QED
        BY <3>3, <3>4
    <2>3. QED
      BY <2>1, <2>2
  <1>6. ASSUME Unique, NEW q \in Pid, NEW r \in Records(q)', r.ppid # Root,
               NEW e \in Records(r.ppid)', e.kin
        PROVE  r.kin
    <2>1. r \in Records(q)
      BY <1>5
    <2>2. r.ppid \in Pid
      BY <2>1, <1>1, <1>6 DEF Records, SnapInv, MapInv, TableInv, Table, Record
    <2>3. QED
      BY <2>1, <2>2, <1>1, <1>5, <1>6 DEF UniqueInv
  <1>7. QED
    BY <1>1, <1>4, <1>5, <1>6 DEF UniqueInv, Unique

\* What _win_proc_info answers about p, and when it names a parent.
LEMMA WinInfoFacts ==
    ASSUME TableInv, NEW map, MapInv(map), NEW memo, MemoInv(map, memo), NEW p \in Pid,
           NEW s, s = [map |-> map, memo |-> memo],
           NEW rec, rec = WinInfo(s, p).rec
    PROVE  /\ rec = Absent <=> map[p] = Absent
           /\ rec # Absent =>
                /\ map[p] \in Record /\ rec.kin = map[p].kin /\ rec.kind = map[p].kind
                /\ rec.ppid # Root => rec.ppid = map[p].ppid /\ rec.ppid \in Pid
                /\ calm /\ map[p].ppid # Root /\ map[map[p].ppid] # Absent =>
                     (rec.ppid = Root <=> Refused(map[p].start, map[map[p].ppid].start))
  <1> DEFINE r == map[p]
             d == map[p].ppid
             h == Recalled(Recalled(memo, p), d)
  <1>1. s.map = map /\ s.memo = memo
    OBVIOUS
  <1>2. CASE r = Absent
    BY <1>1, <1>2 DEF WinInfo
  <1>3. CASE r # Absent /\ d = Root
    <2>1. rec = r /\ r \in Record /\ r.ppid = Root
      BY <1>1, <1>3 DEF WinInfo, MapInv, Table
    <2>2. QED
      BY <1>3, <2>1
  <1>4. CASE r # Absent /\ d # Root
    <2>1. r \in Record /\ d \in Pid
      BY <1>4 DEF MapInv, Table, Record
    <2>2. rec = IF Refused(StartIn(h, p), StartIn(h, d)) THEN [r EXCEPT !.ppid = Root] ELSE r
      BY <1>1, <1>4 DEF WinInfo
    <2>3. MemoInv(map, Recalled(memo, p)) /\ \E m \in Recalled(memo, p) : m.pid = p
      BY RecalledFacts
    <2>4. /\ MemoInv(map, h) /\ Recalled(memo, p) \subseteq h
          /\ \E m \in h : m.pid = d
      BY <2>1, <2>3, RecalledFacts
    <2>5. PICK m \in h : m.pid = p
      BY <2>3, <2>4
    <2>6. PICK n \in h : n.pid = d
      BY <2>4
    <2> HIDE DEF h
    <2>7. \A m1, n1 \in h : m1.pid = n1.pid => m1 = n1
      BY <2>4 DEF MemoInv
    <2>8. StartIn(h, p) = m.start /\ StartIn(h, d) = n.start
      BY <2>5, <2>6, <2>7, StartInFacts
    <2>9. calm /\ map[d] # Absent => m.start = r.start /\ n.start = map[d].start
      BY <1>4, <2>4, <2>5, <2>6 DEF MemoInv
    <2>10. /\ rec.ppid # Root => rec = r
           /\ rec.ppid = Root <=> Refused(m.start, n.start)
      BY <2>1, <2>2, <2>8, Constants DEF Record
    <2>11. rec.kin = r.kin /\ rec.kind = r.kind
      BY <2>1, <2>2 DEF Record
    <2>12. rec # Absent
      <3>1. [r EXCEPT !.ppid = Root] \in Record
        BY <2>1 DEF Record
      <3>2. QED
        BY <2>1, <2>2, <3>1, Constants
    <2>13. QED
      BY <1>4, <2>1, <2>9, <2>10, <2>11, <2>12
  <1>5. QED
    BY <1>2, <1>3, <1>4

LEMMA RecordFacts ==
    ASSUME NEW q, NEW e \in Records(q)
    PROVE  e # Absent /\ (e = procs[q] \/ (snap # Absent /\ e = snap.map[q]))
  <1>1. CASE snap = Absent
    BY <1>1 DEF Records
  <1>2. CASE snap # Absent
    BY <1>2 DEF Records
  <1>3. QED
    BY <1>1, <1>2

\* A look at p answers with a record of p's; the parent it names, if it can be
\* trusted, is no agent's kin unless p is.
LEMMA InfoTrue ==
    ASSUME LineInv, NEW p \in Pid, NEW rec, rec = Info(Snapshot, p).rec, rec # Absent
    PROVE  \E r \in Records(p) :
             /\ rec.kin = r.kin /\ rec.kind = r.kind
             /\ rec.ppid # Root =>
                  /\ rec.ppid \in Pid /\ Held(rec.ppid)
                  /\ Trusted => \A e \in Records(rec.ppid) : e.kin => r.kin
  <1>1. TableInv /\ ForkInv /\ SnapInv /\ UniqueInv
    BY DEF LineInv
  <1>2. CASE setting.posix
    <2>1. snap = Absent /\ rec = procs[p]
      BY <1>1, <1>2 DEF SnapInv, Info
    <2>2. p \in Living /\ rec \in Records(p)
      BY <2>1 DEF Living, Records
    <2>3. ASSUME rec.ppid # Root
          PROVE  rec.ppid \in Living /\ rec.ppid \in Pid
      BY <1>1, <1>2, <2>1, <2>2, <2>3, LivingFacts DEF ForkInv
    <2>4. ASSUME rec.ppid # Root
          PROVE  Held(rec.ppid)
      BY <1>1, <2>3, <2>4 DEF Held, TableInv
    <2>5. ASSUME rec.ppid # Root, NEW e \in Records(rec.ppid), e.kin
          PROVE  rec.kin
      BY <1>1, <1>2, <2>1, <2>2, <2>3, <2>5 DEF ForkInv, Records
    <2>6. QED
      BY <2>2, <2>3, <2>4, <2>5
  <1>3. CASE ~setting.posix
    <2> DEFINE map == Snapshot.map
               memo == Snapshot.memo
    <2>1. /\ Snapshot = [map |-> map, memo |-> memo] /\ MapInv(map) /\ MemoInv(map, memo)
          /\ \A q \in Pid : map[q] \in Records(q) \cup {Absent}
      BY <1>1, SnapshotFacts
    <2>2. rec = WinInfo(Snapshot, p).rec
      BY <1>3 DEF Info
    <2> HIDE DEF map, memo
    <2>3. /\ map[p] # Absent /\ map[p] \in Record
          /\ rec.kin = map[p].kin /\ rec.kind = map[p].kind
          /\ rec.ppid # Root => /\ rec.ppid = map[p].ppid /\ rec.ppid \in Pid
                                /\ calm /\ map[rec.ppid] # Absent =>
                                     ~Refused(map[p].start, map[rec.ppid].start)
      BY <1>1, <2>1, <2>2, WinInfoFacts
    <2>4. map[p] \in Records(p)
      BY <2>1, <2>3
    <2>5. ASSUME rec.ppid # Root
          PROVE  Held(rec.ppid)
      BY <1>3, <2>1, <2>3, <2>5 DEF MapInv, Held
    <2>6. ASSUME rec.ppid # Root, Trusted, NEW e \in Records(rec.ppid), e.kin
          PROVE  map[p].kin
      <3>1. CASE Unique
        BY <1>1, <2>3, <2>4, <2>6, <3>1 DEF UniqueInv
      <3>2. CASE calm
        <4>1. PICK d : d = rec.ppid
          OBVIOUS
        <4>2. d \in Pid /\ d # Root /\ map[p].ppid = d
          BY <2>3, <2>6, <4>1
        <4>3. p \in Living /\ procs[p] = map[p]
          BY <2>1, <2>3, <3>2 DEF MapInv
        <4>4. d \in Living /\ e = procs[d]
          <5>1. \A x : x = procs[d] /\ x # Absent => d \in Living
            BY <4>2 DEF Living
          <5>2. \A x : snap # Absent /\ x = snap.map[d] /\ x # Absent => d \in Living /\ x = procs[d]
            BY <1>1, <3>2, <4>2 DEF SnapInv, MapInv
          <5>3. e # Absent /\ (e = procs[d] \/ (snap # Absent /\ e = snap.map[d]))
            BY <2>6, <4>1, RecordFacts
          <5>4. QED
            BY <5>1, <5>2, <5>3
        <4>5. map[d] # Absent /\ map[d] = procs[d]
          BY <2>1, <2>3, <3>2, <4>2, <4>4 DEF MapInv
        <4>6. ~Refused(procs[p].start, procs[d].start)
          BY <2>3, <2>6, <3>2, <4>1, <4>3, <4>5
        <4>7. procs[p].start \in Nat /\ procs[d].start \in Nat
          BY <1>1, <4>3, <4>4, LivingFacts
        <4>8. ~(procs[d].start > procs[p].start)
          BY <4>6, <4>7, Constants DEF Refused
        <4>9. procs[d].kin => procs[p].kin
          BY <1>1, <4>2, <4>3, <4>4, <4>8 DEF ForkInv
        <4>10. QED
          BY <2>6, <4>3, <4>4, <4>9
      <3>3. QED
        BY <1>3, <2>6, <3>1, <3>2 DEF Trusted
    <2>7. QED
      BY <2>3, <2>4, <2>5, <2>6
  <1>4. QED
    BY <1>1, <1>2, <1>3 DEF TableInv

-----------------------------------------------------------------------------
(* The steps of the walk.                                                  *)

\* What is found to be an agent by its name or its command line is one.
LEMMA MatchFacts ==
    ASSUME Speaking, TableInv, NEW k \in Kinds, NEW q \in Pid, NEW argv \in Argv(q),
           Match(Name(k), argv), q \in Living /\ IsAgent(procs[q].kind) => procs[q].kin
    PROVE  IsAgent(k) \/ (q \in Living /\ procs[q].kin)
  <1>1. CASE Name(k) = "claude"
    BY <1>1, KindFacts
  <1>2. CASE argv = TRUE
    <2>1. q \in Living /\ Named(procs[q].kind)
      BY <1>2 DEF Argv
    <2>2. QED
      BY <2>1, KindFacts, LivingFacts
  <1>3. QED
    BY <1>1, <1>2 DEF Match, Argv, Named

\* The walk ends with what it may say.
LEMMA ReturnLine ==
    ASSUME LineInv, walk # Absent, NEW hit \in BOOLEAN, Return(hit),
           UNCHANGED <<setting, world>>, SnapInv', UniqueInv',
           hit /\ Trusted => walk.kin
    PROVE  LineInv' /\ NoStrangerBlamed'
  <1>1. /\ TableInv /\ ForkInv /\ SnapInv /\ UniqueInv /\ WalkInv /\ CacheInv
        /\ UNCHANGED <<setting, procs, births, clock, used, warm, calm>>
        /\ Unique' = Unique /\ Living' = Living
        /\ walk' = Absent
    BY DEF LineInv, world, Unique, Living, Return
  <1>2. TableInv' /\ ForkInv' /\ WalkInv'
    BY <1>1 DEF TableInv, ForkInv, WalkInv
  <1>3. CacheInv'
    <2>1. PICK c : c = [name |-> walk.name, pid |-> walk.pid, hit |-> hit]
      OBVIOUS
    <2>2. c.pid = walk.pid /\ c.hit = hit /\ cache' = cache \cup {c}
      BY <2>1 DEF Return
    <2>3. walk.pid \in used /\ (Unique /\ walk.pid \in Living => procs[walk.pid].kin = walk.kin)
      BY <1>1 DEF WalkInv, Visited, Held
    <2>4. QED
      BY <1>1, <2>2, <2>3 DEF CacheInv, Trusted, Speaking
  <1>4. NoStrangerBlamed'
    <2>1. /\ verdict'.kin = walk.kin /\ verdict'.hit = hit /\ verdict'.cached = FALSE
          /\ verdict'.calm = calm
      BY DEF Return, Answer
    <2>2. QED
      BY <1>1, <2>1 DEF NoStrangerBlamed, Trusted, Speaking
  <1>5. QED
    BY <1>1, <1>2, <1>3, <1>4 DEF LineInv

\* The walk looks on.
LEMMA OnLine ==
    ASSUME LineInv, NoStrangerBlamed, walk # Absent,
           UNCHANGED <<setting, world, cache, verdict>>, SnapInv', UniqueInv',
           \A q \in Pid : Records(q)' \subseteq Records(q),
           Shaped(walk'), walk'.pid = walk.pid, walk'.kin = walk.kin, walk'.name = walk.name,
           \A q \in Visited' : /\ q \in Pid /\ Held(q)
                               /\ Trusted => \A r \in Records(q) : r.kin => walk.kin
    PROVE  LineInv' /\ NoStrangerBlamed'
  <1>1. /\ TableInv /\ ForkInv /\ WalkInv /\ CacheInv
        /\ UNCHANGED <<setting, procs, births, clock, used, warm, calm, cache, verdict>>
        /\ Unique' = Unique /\ Living' = Living
    BY DEF LineInv, world, Unique, Living
  <1>2. TableInv' /\ ForkInv' /\ CacheInv' /\ NoStrangerBlamed'
    BY <1>1 DEF TableInv, ForkInv, CacheInv, NoStrangerBlamed, Speaking
  <1>3. Trusted' = Trusted /\ \A q : Held(q)' = Held(q)
    BY <1>1 DEF Held, Trusted, Speaking
  <1>4. \A q \in Visited' : /\ q \in Pid /\ Held(q)'
                            /\ Trusted' => \A r \in Records(q)' : r.kin => walk'.kin
    BY <1>3
  <1>5. WalkInv'
    BY <1>1, <1>4 DEF WalkInv
  <1>6. QED
    BY <1>2, <1>5 DEF LineInv

LEMMA AgentForLine ==
    ASSUME LineInv, NoStrangerBlamed, NEW p \in Pid, AgentFor(p)
    PROVE  LineInv' /\ NoStrangerBlamed'
  <1>1. /\ TableInv /\ ForkInv /\ SnapInv /\ UniqueInv /\ WalkInv /\ CacheInv
        /\ UNCHANGED <<setting, procs, births, clock, used, warm, calm, snap, cache>>
        /\ Unique' = Unique /\ Living' = Living /\ p \in Living /\ walk = Absent
    BY DEF LineInv, world, Unique, Living, AgentFor, Before
  <1>2. TableInv' /\ ForkInv' /\ SnapInv' /\ CacheInv' /\ \A q : Records(q)' = Records(q)
    BY <1>1 DEF TableInv, ForkInv, SnapInv, CacheInv, MapInv, MemoInv, Records, Speaking
  <1>3. UniqueInv'
    BY <1>1, <1>2 DEF UniqueInv
  <1>4. PICK flow : flow = [pid |-> p, name |-> Name(procs[p].kind),
                            kin |-> procs[p].kin, pc |-> "own", cur |-> p, next |-> Root,
                            depth |-> 0, seen |-> {}]
    OBVIOUS
  <1>5. /\ flow.pid = p /\ flow.name = Name(procs[p].kind) /\ flow.kin = procs[p].kin
        /\ flow.pc = "own" /\ flow.cur = p
    BY <1>4
  <1>6. \/ /\ \E c \in cache : c.pid = p /\ Answer(flow, c.hit, TRUE)
           /\ walk' = walk
        \/ walk' = flow /\ verdict' = Absent
    BY <1>4 DEF AgentFor
  <1>7. CASE walk' = flow /\ verdict' = Absent
    <2>1. flow.kin \in BOOLEAN /\ p \in used /\ (flow.name = "claude" => flow.kin)
      BY <1>1, <1>5, LivingFacts DEF TableInv, Name, IsAgent
    <2>2. Held(p)
      BY <1>1, <2>1 DEF Held
    <2>3. ASSUME Trusted, NEW r \in Records(p), r.kin
          PROVE  flow.kin
      <3>1. snap # Absent /\ snap.map[p] # Absent => snap.map[p] = procs[p]
        BY <1>1, <2>3 DEF SnapInv, MapInv, Trusted
      <3>2. r = procs[p]
        BY <2>3, <3>1, RecordFacts
      <3>3. QED
        BY <2>3, <3>2, <1>5
    <2>4. Visited' = {p} /\ walk'.pid = p /\ walk'.kin = flow.kin /\ walk'.name = flow.name
      BY <1>5, <1>7 DEF Visited
    <2>5. Held(p)' /\ Trusted' = Trusted
      BY <1>1, <2>2 DEF Held, Trusted, Speaking
    <2>9. Shaped(walk')
      BY <1>4, <1>5, <1>7 DEF Shaped
    <2>6. WalkInv'
      BY <1>1, <1>2, <1>5, <1>7, <2>1, <2>3, <2>4, <2>5, <2>9 DEF WalkInv
    <2>7. NoStrangerBlamed'
      BY <1>7 DEF NoStrangerBlamed
    <2>8. QED
      BY <1>2, <1>3, <2>6, <2>7 DEF LineInv
  <1>8. CASE walk' = walk /\ \E c \in cache : c.pid = p /\ Answer(flow, c.hit, TRUE)
    <2>1. PICK c \in cache : c.pid = p /\ Answer(flow, c.hit, TRUE)
      BY <1>8
    <2>2. /\ verdict'.kin = procs[p].kin /\ verdict'.hit = c.hit /\ verdict'.cached = TRUE
      BY <2>1, <1>5 DEF Answer
    <2>3. Speaking /\ Unique /\ c.hit => procs[p].kin
      BY <1>1, <2>1 DEF CacheInv
    <2>4. NoStrangerBlamed'
      BY <1>1, <2>2, <2>3 DEF NoStrangerBlamed, Unique, Speaking
    <2>5. WalkInv'
      BY <1>1, <1>8 DEF WalkInv
    <2>6. QED
      BY <1>1, <1>2, <1>3, <2>4, <2>5 DEF LineInv
  <1>9. QED
    BY <1>6, <1>7, <1>8

\* A command line that names an agent is read of an agent's process.
LEMMA OwnLine ==
    ASSUME LineInv, NoStrangerBlamed, Own
    PROVE  LineInv' /\ NoStrangerBlamed'
  <1>1. /\ TableInv /\ ForkInv /\ SnapInv /\ UniqueInv /\ WalkInv /\ CacheInv
        /\ UNCHANGED <<setting, procs, births, clock, used, warm, calm, snap>>
        /\ Unique' = Unique /\ Living' = Living /\ walk # Absent /\ walk.pc = "own"
    BY DEF LineInv, world, Unique, Living, Own
  <1>2. TableInv' /\ ForkInv' /\ SnapInv' /\ \A q : Records(q)' = Records(q)
    BY <1>1 DEF TableInv, ForkInv, SnapInv, MapInv, MemoInv, Records
  <1>3. UniqueInv'
    BY <1>1, <1>2 DEF UniqueInv
  <1>4. PICK argv \in Argv(walk.pid) :
           IF Match(walk.name, argv)
           THEN Return(TRUE)
           ELSE walk' = [walk EXCEPT !.pc = "parent"] /\ UNCHANGED <<cache, verdict>>
    BY DEF Own
  <1>5. walk.pid \in Pid /\ walk.pid \in Visited
    BY <1>1 DEF WalkInv, Visited
  <1>6. CASE Match(walk.name, argv)
    <2>1. ASSUME Trusted, walk.name # "claude"
          PROVE  walk.kin
      <3>1. walk.pid \in Living /\ Named(procs[walk.pid].kind)
        BY <1>6, <2>1 DEF Match, Argv
      <3>2. procs[walk.pid].kin
        BY <1>1, <2>1, <3>1, KindFacts, LivingFacts DEF TableInv, Trusted
      <3>3. procs[walk.pid] \in Records(walk.pid)
        BY <3>1 DEF Living, Records
      <3>4. QED
        BY <1>1, <1>5, <2>1, <3>2, <3>3 DEF WalkInv
    <2>2. Trusted => walk.kin
      BY <1>1, <2>1 DEF WalkInv
    <2>3. QED
      BY <1>1, <1>2, <1>3, <1>4, <1>6, <2>2, ReturnLine DEF world
  <1>7. CASE ~Match(walk.name, argv)
    <2>1. walk' = [walk EXCEPT !.pc = "parent"] /\ UNCHANGED <<cache, verdict>>
      BY <1>4, <1>7
    <2>2. /\ Shaped(walk') /\ walk'.pid = walk.pid /\ walk'.kin = walk.kin
          /\ walk'.name = walk.name /\ walk'.cur = walk.cur /\ walk'.pc = "parent"
      BY <1>1, <2>1 DEF WalkInv, Shaped
    <2>3. Visited' \subseteq Visited
      BY <2>2 DEF Visited
    <2>4. \A q \in Visited' : /\ q \in Pid /\ Held(q)
                              /\ Trusted => \A r \in Records(q) : r.kin => walk.kin
      BY <1>1, <2>3 DEF WalkInv
    <2>5. UNCHANGED <<setting, world, cache, verdict>>
      BY <2>1 DEF Own
    <2>6. QED
      BY <1>1, <1>2, <1>3, <2>2, <2>4, <2>5, OnLine
  <1>8. QED
    BY <1>6, <1>7

LEMMA ParentLine ==
    ASSUME LineInv, NoStrangerBlamed, Parent
    PROVE  LineInv' /\ NoStrangerBlamed'
  <1>1. /\ TableInv /\ ForkInv /\ SnapInv /\ UniqueInv /\ WalkInv /\ CacheInv
        /\ UNCHANGED <<setting, procs, births, clock, used, warm, calm>>
        /\ Unique' = Unique /\ walk # Absent /\ UNCHANGED <<setting, world>>
    BY DEF LineInv, world, Unique, Parent
  <1>2. CASE TooDeep
    <2>1. Return(FALSE) /\ snap' = snap
      BY <1>2 DEF Parent
    <2>2. SnapInv' /\ UniqueInv'
      BY <1>1, <2>1 DEF SnapInv, UniqueInv, MapInv, MemoInv, Records, Living
    <2>3. QED
      BY <1>1, <2>1, <2>2, ReturnLine
  <1>3. CASE ~TooDeep
    <2>1. PICK info : info = Info(Snapshot, walk.cur)
      OBVIOUS
    <2>2. PICK rec : rec = info.rec
      OBVIOUS
    <2>3. /\ snap' = info.snap
          /\ IF rec = Absent \/ rec.ppid \in walk.seen \cup {Root}
             THEN Return(FALSE)
             ELSE /\ walk' = [walk EXCEPT !.pc = "match", !.next = rec.ppid,
                                          !.seen = @ \cup {rec.ppid}]
                  /\ UNCHANGED <<cache, verdict>>
      BY <1>3, <2>1, <2>2 DEF Parent
    <2>4. walk.cur \in Pid /\ walk.cur \in Visited
      BY <1>1 DEF WalkInv, Visited
    <2>5. SnapInv' /\ UniqueInv' /\ \A q \in Pid : Records(q)' \subseteq Records(q)
      BY <1>1, <2>1, <2>3, <2>4, InfoKeeps
    <2>6. CASE rec = Absent \/ rec.ppid \in walk.seen \cup {Root}
      BY <1>1, <2>3, <2>5, <2>6, ReturnLine
    <2>7. CASE ~(rec = Absent \/ rec.ppid \in walk.seen \cup {Root})
      <3>1. walk' = [walk EXCEPT !.pc = "match", !.next = rec.ppid, !.seen = @ \cup {rec.ppid}]
            /\ UNCHANGED <<cache, verdict>>
        BY <2>3, <2>7
      <3>2. /\ Shaped(walk') /\ walk'.pid = walk.pid /\ walk'.kin = walk.kin
            /\ walk'.name = walk.name /\ walk'.cur = walk.cur /\ walk'.pc = "match"
            /\ walk'.next = rec.ppid
        BY <1>1, <3>1 DEF WalkInv, Shaped
      <3>3. Visited' \subseteq Visited \cup {rec.ppid}
        BY <3>2 DEF Visited
      <3>4. PICK r \in Records(walk.cur) :
              rec.ppid # Root =>
                /\ rec.ppid \in Pid /\ Held(rec.ppid)
                /\ Trusted => \A e \in Records(rec.ppid) : e.kin => r.kin
        BY <2>1, <2>2, <2>4, <2>7, InfoTrue
      <3>5. Trusted => (r.kin => walk.kin)
        BY <1>1, <2>4, <3>4 DEF WalkInv
      <3>6. \A q \in Visited' : /\ q \in Pid /\ Held(q)
                                /\ Trusted => \A e \in Records(q) : e.kin => walk.kin
        BY <1>1, <2>7, <3>3, <3>4, <3>5 DEF WalkInv
      <3>7. QED
        BY <1>1, <2>5, <3>1, <3>2, <3>6, OnLine
    <2>8. QED
      BY <2>6, <2>7
  <1>4. QED
    BY <1>2, <1>3

LEMMA AncestorLine ==
    ASSUME LineInv, NoStrangerBlamed, Ancestor
    PROVE  LineInv' /\ NoStrangerBlamed'
  <1>1. /\ TableInv /\ ForkInv /\ SnapInv /\ UniqueInv /\ WalkInv /\ CacheInv
        /\ UNCHANGED <<setting, procs, births, clock, used, warm, calm>>
        /\ Unique' = Unique /\ walk # Absent /\ walk.pc = "match"
        /\ UNCHANGED <<setting, world>>
    BY DEF LineInv, world, Unique, Ancestor
  <1>2. PICK info : info = Info(Snapshot, walk.next)
    OBVIOUS
  <1>3. PICK rec : rec = info.rec
    OBVIOUS
  <1>4. /\ snap' = info.snap
        /\ IF rec = Absent
           THEN Return(FALSE)
           ELSE \E argv \in Argv(walk.next) :
                  IF Match(Name(rec.kind), argv)
                  THEN Return(TRUE)
                  ELSE /\ walk' = [walk EXCEPT !.pc = "parent", !.cur = walk.next,
                                               !.depth = @ + 1]
                       /\ UNCHANGED <<cache, verdict>>
    BY <1>2, <1>3 DEF Ancestor
  <1>5. walk.next \in Pid /\ walk.next \in Visited
    BY <1>1 DEF WalkInv, Visited
  <1>6. SnapInv' /\ UniqueInv' /\ \A q \in Pid : Records(q)' \subseteq Records(q)
    BY <1>1, <1>2, <1>4, <1>5, InfoKeeps
  <1>7. CASE rec = Absent
    BY <1>1, <1>4, <1>6, <1>7, ReturnLine
  <1>8. CASE rec # Absent
    <2>1. PICK argv \in Argv(walk.next) :
             IF Match(Name(rec.kind), argv)
             THEN Return(TRUE)
             ELSE /\ walk' = [walk EXCEPT !.pc = "parent", !.cur = walk.next, !.depth = @ + 1]
                  /\ UNCHANGED <<cache, verdict>>
      BY <1>4, <1>8
    <2>2. CASE Match(Name(rec.kind), argv)
      <3>1. PICK r \in Records(walk.next) : rec.kind = r.kind
        BY <1>2, <1>3, <1>5, <1>8, InfoTrue
      <3>2. r.kind \in Kinds /\ (IsAgent(r.kind) => r.kin)
        <4>1. r # Absent /\ (r = procs[walk.next] \/ (snap # Absent /\ r = snap.map[walk.next]))
          BY <3>1, RecordFacts
        <4>2. CASE r = procs[walk.next]
          BY <1>1, <1>5, <4>1, <4>2, LivingFacts DEF Living, TableInv
        <4>3. CASE snap # Absent /\ r = snap.map[walk.next]
          BY <1>1, <1>5, <4>1, <4>3 DEF SnapInv, MapInv, Table, Record
        <4>4. QED
          BY <4>1, <4>2, <4>3
      <3>3. walk.next \in Living => procs[walk.next] \in Records(walk.next)
        BY DEF Living, Records
      <3>4. Speaking => IsAgent(r.kind) \/ (walk.next \in Living /\ procs[walk.next].kin)
        BY <1>1, <1>5, <2>2, <3>1, <3>2, MatchFacts DEF TableInv
      <3>5. Trusted => walk.kin
        BY <1>1, <1>5, <3>1, <3>2, <3>3, <3>4 DEF WalkInv, Trusted
      <3>6. QED
        BY <1>1, <1>6, <2>1, <2>2, <3>5, ReturnLine
    <2>3. CASE ~Match(Name(rec.kind), argv)
      <3>1. /\ walk' = [walk EXCEPT !.pc = "parent", !.cur = walk.next, !.depth = @ + 1]
            /\ UNCHANGED <<cache, verdict>>
        BY <2>1, <2>3
      <3>2. /\ Shaped(walk') /\ walk'.pid = walk.pid /\ walk'.kin = walk.kin
            /\ walk'.name = walk.name /\ walk'.cur = walk.next /\ walk'.pc = "parent"
        BY <1>1, <3>1 DEF WalkInv, Shaped
      <3>3. Visited' \subseteq Visited
        BY <1>5, <3>2 DEF Visited
      <3>4. \A q \in Visited' : /\ q \in Pid /\ Held(q)
                                /\ Trusted => \A e \in Records(q) : e.kin => walk.kin
        BY <1>1, <3>3 DEF WalkInv
      <3>5. QED
        BY <1>1, <1>6, <3>1, <3>2, <3>4, OnLine
    <2>4. QED
      BY <2>2, <2>3
  <1>9. QED
    BY <1>7, <1>8

\* What was answered stays as it was.
LEMMA WorldKeepsVerdict ==
    ASSUME NoStrangerBlamed, setting' = setting,
           verdict' = verdict \/ verdict' = Absent
    PROVE  NoStrangerBlamed'
  BY DEF NoStrangerBlamed

LEMMA LineAlways ==
    ASSUME Recycled
    PROVE  Spec => [](LineInv /\ NoStrangerBlamed)
  <1>1. Init => LineInv /\ NoStrangerBlamed
    BY InitLine
  <1>2. LineInv /\ NoStrangerBlamed /\ [Next]_vars => (LineInv /\ NoStrangerBlamed)'
    <2> SUFFICES ASSUME LineInv, NoStrangerBlamed, [Next]_vars
                 PROVE  LineInv' /\ NoStrangerBlamed'
      OBVIOUS
    <2>1. ASSUME NEW p \in Pid, NEW parent \in Living \cup {Root}, NEW kind \in Kinds,
                 Spawn(p, parent, kind)
          PROVE  LineInv' /\ NoStrangerBlamed'
      <3>1. setting' = setting /\ verdict' = verdict
        BY <2>1 DEF Spawn
      <3>2. QED
        BY <2>1, <3>1, SpawnLine, WorldKeepsVerdict
    <2>2. ASSUME NEW p \in Pid, Exit(p)
          PROVE  LineInv' /\ NoStrangerBlamed'
      <3>1. setting' = setting /\ verdict' = verdict
        BY <2>2 DEF Exit
      <3>2. QED
        BY <2>2, <3>1, ExitLine, WorldKeepsVerdict
    <2>3. CASE Tick \/ Expire
      <3>1. setting' = setting /\ (verdict' = verdict \/ verdict' = Absent)
        BY <2>3 DEF Tick, Expire
      <3>2. QED
        BY <2>3, <3>1, TickLine, WorldKeepsVerdict
    <2>4. ASSUME NEW p \in Pid, AgentFor(p)
          PROVE  LineInv' /\ NoStrangerBlamed'
      BY <2>4, AgentForLine
    <2>5. CASE Own
      BY <2>5, OwnLine
    <2>6. CASE Parent
      BY <2>6, ParentLine
    <2>7. CASE Ancestor
      BY <2>7, AncestorLine
    <2>8. CASE UNCHANGED vars
      <3>1. /\ UNCHANGED <<setting, procs, births, clock, used, warm, calm, snap, cache, walk, verdict>>
            /\ Unique' = Unique /\ Living' = Living
        BY <2>8 DEF vars, world, Unique, Living
      <3>2. \A q : Records(q)' = Records(q) /\ Held(q)' = Held(q)
        BY <3>1 DEF Records, Held
      <3>3. /\ TableInv' /\ ForkInv' /\ SnapInv' /\ CacheInv' /\ NoStrangerBlamed'
        BY <3>1 DEF LineInv, TableInv, ForkInv, SnapInv, CacheInv, MapInv, MemoInv, NoStrangerBlamed, Speaking
      <3>4. UniqueInv' /\ WalkInv'
        BY <3>1, <3>2 DEF LineInv, UniqueInv, WalkInv, Visited, Trusted, Speaking
      <3>5. QED
        BY <3>3, <3>4 DEF LineInv
    <2>9. QED
      BY <2>1, <2>2, <2>3, <2>4, <2>5, <2>6, <2>7, <2>8 DEF Next
  <1>3. QED
    BY <1>1, <1>2, PTL DEF Spec

(***************************************************************************)
(* A process is blamed on an agent only if it is one or was started by     *)
(* one, through whatever processes, dead or alive: the walk of attribute() *)
(* crosses to no stranger that was given a dead parent's pid.  On POSIX    *)
(* always; on Windows, where a dead parent's pid stays in the record, as   *)
(* long as the tick is calm, or for ever if no pid is given out twice,     *)
(* which is also when the cache can be believed; and where no shell's      *)
(* command line names an agent.                                            *)
(***************************************************************************)
THEOREM NoStrangerBlamedHolds ==
    ASSUME Recycled
    PROVE  Spec => []NoStrangerBlamed
  BY LineAlways, PTL

-----------------------------------------------------------------------------
(* Identities.  A process and its parent, as long as both live, name each  *)
(* other; who has the parent's pid otherwise is a stranger that started    *)
(* after the child.                                                        *)
IdInv ==
  \A p, q \in Living :
    /\ procs[p].id \in 1 .. births /\ procs[p].parent < procs[p].id
    /\ procs[q].id = procs[p].id => q = p
    /\ procs[q].id = procs[p].parent => procs[p].ppid = q /\ procs[q].start <= procs[p].start
    /\ procs[p].ppid = q => \/ procs[q].id = procs[p].parent
                            \/ ~setting.posix /\ procs[q].start > procs[p].start

\* Who lived when a calm tick began is in the map.
FullInv == snap # Absent /\ calm => \A p \in Pid : Before(p) => snap.map[p] # Absent

KinInv == IdInv /\ FullInv

LEMMA SpawnKin ==
    ASSUME LineInv, KinInv, Recycled,
           NEW p \in Pid, NEW parent \in Living \cup {Root}, NEW kind \in Kinds,
           Spawn(p, parent, kind)
    PROVE  KinInv'
  <1>1. PICK new : /\ procs' = [procs EXCEPT ![p] = new]
                   /\ new \in Record /\ new.id = births + 1 /\ new.ppid = parent /\ new.start = clock
                   /\ new.parent = IF parent = Root THEN 0 ELSE procs[parent].id
    <2>1. PICK r : r = [id |-> births + 1, parent |-> IF parent = Root THEN 0 ELSE procs[parent].id,
                        ppid |-> parent, start |-> clock, kind |-> kind,
                        kin |-> IsAgent(kind) \/ (parent # Root /\ procs[parent].kin)]
      OBVIOUS
    <2>2. /\ births + 1 \in Nat /\ clock \in Nat /\ parent \in Pid \cup {Root}
          /\ (IF parent = Root THEN 0 ELSE procs[parent].id) \in Nat
      <3>1. births \in Nat /\ clock \in Nat
        BY Constants DEF LineInv, TableInv
      <3>2. parent # Root => parent \in Pid /\ procs[parent].id \in Nat
        BY LivingFacts DEF LineInv, Record
      <3>3. QED
        BY <3>1, <3>2
    <2>3. (IsAgent(kind) \/ (parent # Root /\ procs[parent].kin)) \in BOOLEAN
      BY LivingFacts DEF LineInv, IsAgent
    <2>4. r \in Record
      BY <2>1, <2>2, <2>3 DEF Record
    <2>5. procs' = [procs EXCEPT ![p] = r]
      BY <2>1 DEF Spawn
    <2>6. /\ r.id = births + 1 /\ r.ppid = parent /\ r.start = clock
          /\ r.parent = IF parent = Root THEN 0 ELSE procs[parent].id
      BY <2>1
    <2>7. QED
      BY <2>4, <2>5, <2>6
  <1>2. /\ UNCHANGED <<setting, clock, snap>>
        /\ clock < MaxTime /\ p \notin Living /\ births' = births + 1 /\ births \in Nat
        /\ calm' => calm
        /\ MayBeGiven(p)
    BY DEF Spawn, Living, LineInv, TableInv
  <1>3. TableInv /\ ForkInv /\ SnapInv /\ IdInv /\ FullInv
    BY DEF LineInv, KinInv
  <1>4. /\ Living' = Living \cup {p} /\ procs'[p] = new /\ Living \subseteq Pid
        /\ \A q \in Pid : q # p => procs'[q] = procs[q]
    <2>1. procs \in Table /\ Living \subseteq Pid
      BY <1>3 DEF TableInv, Living
    <2>2. procs'[p] = new /\ \A q \in Pid : q # p => procs'[q] = procs[q]
      BY <1>1, <2>1 DEF Table
    <2>3. new # Absent
      BY <1>1, Constants
    <2>4. QED
      BY <2>1, <2>2, <2>3 DEF Living
  <1>5. \A q \in Living : /\ procs[q].id \in 1 .. births /\ procs[q].parent < procs[q].id
                          /\ procs[q].id \in Nat /\ procs[q].parent \in Nat
                          /\ procs[q].start \in Nat /\ procs[q].start <= clock
    BY <1>3, LivingFacts DEF IdInv, TableInv, Record
  <1>6. clock \in Nat /\ new.id \in Nat /\ new.parent \in Nat
    BY <1>1, <1>3, Constants DEF TableInv, Record
  <1>7. ASSUME NEW q \in Living, procs[q].ppid = p
        PROVE  ~setting.posix /\ new.start > procs[q].start
    <2>1. ~setting.posix /\ (p \in warm \/ procs[q].start < clock \/ clock = MaxTime)
      BY <1>2, <1>3, <1>7 DEF ForkInv
    <2>2. p \in used
      BY <1>3, <1>7, Constants DEF TableInv
    <2>3. setting.reuse \in {"never", "later"}
      BY <1>3, Constants DEF TableInv, Recycled
    <2>4. p \notin warm
      BY <1>2, <2>2, <2>3 DEF MayBeGiven
    <2>5. procs[q].start < clock
      BY <1>2, <2>1, <2>4, <1>6, Constants
    <2>6. QED
      BY <1>1, <1>5, <1>6, <2>1, <2>5
  <1>8. IdInv'
    <2> SUFFICES ASSUME NEW a \in Living', NEW b \in Living'
                 PROVE  /\ procs'[a].id \in 1 .. births + 1 /\ procs'[a].parent < procs'[a].id
                        /\ procs'[b].id = procs'[a].id => b = a
                        /\ procs'[b].id = procs'[a].parent =>
                              procs'[a].ppid = b /\ procs'[b].start <= procs'[a].start
                        /\ procs'[a].ppid = b =>
                              \/ procs'[b].id = procs'[a].parent
                              \/ ~setting.posix /\ procs'[b].start > procs'[a].start
      BY <1>2 DEF IdInv
    <2>0. parent # Root => parent \in Living /\ parent # p
      BY <1>2
    <2>1. CASE a = p /\ b = p
      <3>1. new.parent < new.id /\ new.id \in 1 .. births + 1
        BY <1>1, <1>2, <1>5, <1>6, <2>0
      <3>2. new.ppid # p
        BY <1>1, <1>2, Constants
      <3>3. QED
        BY <2>1, <1>4, <1>6, <3>1, <3>2
    <2>2. CASE a = p /\ b # p
      <3>1. b \in Living /\ procs'[b] = procs[b]
        BY <2>2, <1>4
      <3>2. new.parent < new.id /\ new.id \in 1 .. births + 1 /\ procs[b].id # new.id
        BY <1>1, <1>2, <1>5, <1>6, <2>0, <3>1
      <3>3. procs[b].id = new.parent => parent = b
        BY <1>1, <1>3, <1>5, <2>0, <3>1 DEF IdInv
      <3>4. parent = b => new.parent = procs[b].id
        BY <1>1, <3>1, <1>4, Constants
      <3>5. QED
        BY <2>2, <1>1, <1>4, <1>5, <3>1, <3>2, <3>3, <3>4
    <2>3. CASE a # p /\ b = p
      <3>1. a \in Living /\ procs'[a] = procs[a]
        BY <2>3, <1>4
      <3>2. /\ procs[a].id \in 1 .. births + 1 /\ procs[a].parent < procs[a].id
            /\ new.id # procs[a].id /\ new.id # procs[a].parent
        BY <1>1, <1>2, <1>5, <3>1
      <3>3. QED
        BY <2>3, <1>4, <1>7, <3>1, <3>2
    <2>4. CASE a # p /\ b # p
      <3>1. a \in Living /\ procs'[a] = procs[a] /\ b \in Living /\ procs'[b] = procs[b]
        BY <2>4, <1>4
      <3>2. procs[a].id \in 1 .. births + 1
        BY <1>2, <1>5, <3>1
      <3>3. QED
        BY <1>3, <3>1, <3>2 DEF IdInv
    <2>5. QED
      BY <2>1, <2>2, <2>3, <2>4
  <1>9. FullInv'
    <2>1. \A q \in Pid : Before(q)' => Before(q)
      <3>1. ASSUME NEW q \in Pid, Before(q)' PROVE Before(q)
        <4>1. q # p
          BY <1>1, <1>2, <1>4, <1>6, <3>1 DEF Before
        <4>2. QED
          BY <1>2, <1>4, <3>1, <4>1 DEF Before
      <3>2. QED
        BY <3>1
    <2>2. QED
      BY <1>2, <1>3, <2>1 DEF FullInv
  <1>10. QED
    BY <1>8, <1>9 DEF KinInv

LEMMA ExitKin ==
    ASSUME LineInv, KinInv, NEW p \in Pid, Exit(p)
    PROVE  KinInv'
  <1>1. UNCHANGED <<setting, births, snap>> /\ p \in Living /\ calm' = FALSE
    BY DEF Exit
  <1>2. TableInv /\ IdInv
    BY DEF LineInv, KinInv
  <1>3. \A q \in Pid :
           procs'[q] = IF q = p THEN Absent
                       ELSE IF setting.posix /\ q \in Living /\ procs[q].ppid = p
                            THEN [procs[q] EXCEPT !.ppid = Root]
                            ELSE procs[q]
    BY DEF Exit
  <1>4. ASSUME NEW q \in Living'
        PROVE  /\ q \in Living /\ q \in Pid /\ q # p
               /\ procs'[q].id = procs[q].id /\ procs'[q].parent = procs[q].parent
               /\ procs'[q].start = procs[q].start
               /\ procs'[q].ppid = procs[q].ppid \/ (procs[q].ppid = p /\ procs'[q].ppid = Root)
    <2>1. q \in Pid /\ q # p
      BY <1>3, <1>4 DEF Living
    <2>2. CASE setting.posix /\ q \in Living /\ procs[q].ppid = p
      <3>1. procs[q] \in Record
        BY <1>2, <2>2, LivingFacts
      <3>2. procs'[q] = [procs[q] EXCEPT !.ppid = Root]
        BY <1>3, <2>1, <2>2
      <3>3. QED
        BY <2>1, <2>2, <3>1, <3>2 DEF Record
    <2>3. CASE ~(setting.posix /\ q \in Living /\ procs[q].ppid = p)
      <3>1. procs'[q] = procs[q]
        BY <1>3, <2>1, <2>3
      <3>2. QED
        BY <1>4, <2>1, <3>1 DEF Living
    <2>4. QED
      BY <2>2, <2>3
  <1>5. IdInv'
    <2> SUFFICES ASSUME NEW a \in Living', NEW b \in Living'
                 PROVE  /\ procs'[a].id \in 1 .. births /\ procs'[a].parent < procs'[a].id
                        /\ procs'[b].id = procs'[a].id => b = a
                        /\ procs'[b].id = procs'[a].parent =>
                              procs'[a].ppid = b /\ procs'[b].start <= procs'[a].start
                        /\ procs'[a].ppid = b =>
                              \/ procs'[b].id = procs'[a].parent
                              \/ ~setting.posix /\ procs'[b].start > procs'[a].start
      BY <1>1 DEF IdInv
    <2>1. /\ procs[a].id \in 1 .. births /\ procs[a].parent < procs[a].id
          /\ procs[b].id = procs[a].id => b = a
          /\ procs[b].id = procs[a].parent =>
                procs[a].ppid = b /\ procs[b].start <= procs[a].start
          /\ procs[a].ppid = b => \/ procs[b].id = procs[a].parent
                                  \/ ~setting.posix /\ procs[b].start > procs[a].start
      BY <1>2, <1>4 DEF IdInv
    <2>2. procs'[a].ppid = b <=> procs[a].ppid = b
      BY <1>4, Constants
    <2>3. QED
      BY <1>4, <2>1, <2>2
  <1>6. QED
    BY <1>1, <1>5 DEF KinInv, FullInv

\* A look leaves the map it used, or none.
LEMMA InfoMap ==
    ASSUME LineInv, NEW p \in Pid
    PROVE  LET s == Info(Snapshot, p).snap IN s = Absent \/ s.map = Snapshot.map
  <1>1. CASE setting.posix
    BY <1>1 DEF Info
  <1>2. CASE ~setting.posix
    <2>1. Snapshot = [map |-> Snapshot.map, memo |-> Snapshot.memo]
      BY SnapshotFacts DEF LineInv
    <2>2. \A h : [Snapshot EXCEPT !.memo = h].map = Snapshot.map
      BY <2>1
    <2>3. Info(Snapshot, p).snap.map = Snapshot.map
      BY <1>2, <2>2 DEF Info, WinInfo
    <2>4. QED
      BY <2>3
  <1>3. QED
    BY <1>1, <1>2

LEMMA SnapshotFull ==
    ASSUME FullInv, calm
    PROVE  \A p \in Pid : Before(p) => Snapshot.map[p] # Absent
  BY DEF FullInv, Snapshot, Taken, Before, Living

LEMMA LookKin ==
    ASSUME LineInv, KinInv, Parent \/ Ancestor
    PROVE  KinInv'
  <1>1. /\ UNCHANGED <<setting, procs, births, clock, calm>> /\ walk # Absent
    BY DEF Parent, Ancestor, world
  <1>2. IdInv'
    BY <1>1 DEF KinInv, IdInv, Living
  <1>3. \/ snap' = snap
        \/ \E q \in {walk.cur, walk.next} : q \in Pid /\ snap' = Info(Snapshot, q).snap
    <2>1. CASE Parent
      <3>1. walk.cur \in Pid
        BY <1>1 DEF LineInv, WalkInv, Visited
      <3>2. snap' = snap \/ snap' = Info(Snapshot, walk.cur).snap
        BY <2>1 DEF Parent
      <3>3. QED
        BY <3>1, <3>2
    <2>2. CASE Ancestor
      <3>1. walk.next \in Pid
        BY <1>1, <2>2 DEF LineInv, WalkInv, Visited, Ancestor
      <3>2. snap' = Info(Snapshot, walk.next).snap
        BY <2>2 DEF Ancestor
      <3>3. QED
        BY <3>1, <3>2
    <2>3. QED
      BY <2>1, <2>2
  <1>4. \A q \in Pid : Before(q)' <=> Before(q)
    BY <1>1 DEF Before, Living
  <1>5. snap' = snap \/ snap' = Absent \/ snap'.map = Snapshot.map
    BY <1>3, InfoMap
  <1>6. FullInv'
    BY <1>1, <1>4, <1>5, SnapshotFull DEF FullInv, KinInv
  <1>7. QED
    BY <1>2, <1>6 DEF KinInv

LEMMA KinInit == Init => KinInv
  BY DEF Init, KinInv, IdInv, FullInv, Living

LEMMA KinStep ==
    ASSUME LineInv, KinInv, Recycled, [Next]_vars
    PROVE  KinInv'
  <1>1. ASSUME NEW p \in Pid, NEW parent \in Living \cup {Root}, NEW kind \in Kinds,
               Spawn(p, parent, kind)
        PROVE  KinInv'
    BY <1>1, SpawnKin
  <1>2. ASSUME NEW p \in Pid, Exit(p)
        PROVE  KinInv'
    BY <1>2, ExitKin
  <1>3. CASE Parent \/ Ancestor
    BY <1>3, LookKin
  <1>4. ASSUME UNCHANGED <<setting, procs, births>>, snap' = Absent \/ UNCHANGED <<snap, clock, calm>>
        PROVE  KinInv'
    <2>1. IdInv'
      BY <1>4 DEF KinInv, IdInv, Living
    <2>2. FullInv'
      BY <1>4 DEF KinInv, FullInv, Before, Living
    <2>3. QED
      BY <2>1, <2>2 DEF KinInv
  <1>5. CASE Tick \/ Expire \/ Own \/ UNCHANGED vars
    BY <1>4, <1>5 DEF Tick, Expire, Own, vars, world
  <1>6. ASSUME NEW p \in Pid, AgentFor(p)
        PROVE  KinInv'
    BY <1>4, <1>6 DEF AgentFor, world
  <1>7. QED
    BY <1>1, <1>2, <1>3, <1>5, <1>6 DEF Next

-----------------------------------------------------------------------------
(* Lines of descent in a table P.  TrueLine and Ancestors are recursive    *)
(* functions; that there are such functions is proved first.               *)

LEMMA Induction ==
    ASSUME NEW S \in SUBSET Nat, 0 \in S, \A n \in S : n + 1 \in S
    PROVE  S = Nat
  <1> SUFFICES ASSUME Nat \ S # {} PROVE FALSE
    OBVIOUS
  <1>1. PICK R : R = OpToRel(<, Nat)
    OBVIOUS
  <1>2. PICK n \in Nat \ S : \A m \in Nat \ S : ~ (<<m, n>> \in R)
    <2>1. IsWellFoundedOn(R, Nat)
      BY <1>1, NatLessThanWellFounded
    <2>2. Nat \ S \subseteq Nat
      OBVIOUS
    <2>3. QED
      BY <2>1, <2>2, WFMin
  <1>3. n # 0 /\ n - 1 \in Nat
    BY <1>2
  <1>4. <<n - 1, n>> \in R
    BY <1>1, <1>2, <1>3 DEF OpToRel
  <1>5. n - 1 \in S
    BY <1>2, <1>3, <1>4
  <1>6. (n - 1) + 1 = n
    BY <1>2
  <1>7. QED
    BY <1>2, <1>5, <1>6

\* What holds at 0 and is handed on, up to d.
LEMMA Upward ==
    ASSUME NEW d \in Nat, NEW S \in SUBSET Nat, 0 \in S,
           \A n \in Nat : n < d /\ n \in S => n + 1 \in S
    PROVE  \A n \in 0 .. d : n \in S
  <1>1. PICK T : T = {n \in Nat : n <= d => n \in S}
    OBVIOUS
  <1>2. T = Nat
    <2>1. T \in SUBSET Nat /\ 0 \in T /\ \A n \in T : n + 1 \in T
      BY <1>1
    <2>2. QED
      BY <2>1, Induction
  <1>3. QED
    BY <1>1, <1>2

\* f begins with a and goes on as G says.
Goes(f, a, G, d) == f = [n \in 0 .. d |-> IF n = 0 THEN a ELSE G[<<f[n - 1], n>>]]

LEMMA Recursion ==
    ASSUME NEW X, NEW a \in X, NEW G \in [X \X Nat -> X], NEW d \in Nat
    PROVE  \E f \in [0 .. d -> X] : Goes(f, a, G, d)
  <1> DEFINE Good == {k \in Nat : \E f \in [0 .. k -> X] : Goes(f, a, G, k)}
  <1>1. 0 \in Good
    <2>1. PICK f : f = [n \in 0 .. 0 |-> a]
      OBVIOUS
    <2>2. f \in [0 .. 0 -> X] /\ f = [n \in 0 .. 0 |-> IF n = 0 THEN a ELSE G[<<f[n - 1], n>>]]
      BY <2>1
    <2>3. QED
      BY <2>2 DEF Goes
  <1>2. ASSUME NEW k \in Good
        PROVE  k + 1 \in Good
    <2>1. PICK f \in [0 .. k -> X] : Goes(f, a, G, k)
      OBVIOUS
    <2>2. PICK g : g = [n \in 0 .. k + 1 |-> IF n <= k THEN f[n] ELSE G[<<f[k], k + 1>>]]
      OBVIOUS
    <2>3. k \in Nat /\ <<f[k], k + 1>> \in X \X Nat
      BY <2>1
    <2>4. g \in [0 .. k + 1 -> X]
      <3>1. \A n \in 0 .. k + 1 : (IF n <= k THEN f[n] ELSE G[<<f[k], k + 1>>]) \in X
        BY <2>1, <2>3
      <3>2. QED
        BY <2>2, <3>1
    <2>5. ASSUME NEW n \in 0 .. k + 1
          PROVE  g[n] = IF n = 0 THEN a ELSE G[<<g[n - 1], n>>]
      <3>1. CASE n = 0
        BY <2>1, <2>2, <2>3, <3>1 DEF Goes
      <3>2. CASE n \in 1 .. k
        <4>1. n \in 0 .. k /\ n - 1 \in 0 .. k /\ n # 0 /\ n \in 0 .. k + 1 /\ n - 1 \in 0 .. k + 1
          BY <2>3, <3>2
        <4>2. g[n] = f[n] /\ g[n - 1] = f[n - 1]
          BY <2>2, <4>1
        <4>3. f[n] = G[<<f[n - 1], n>>]
          BY <2>1, <4>1 DEF Goes
        <4>4. QED
          BY <4>1, <4>2, <4>3
      <3>3. CASE n = k + 1
        <4>1. g[k + 1] = G[<<f[k], k + 1>>] /\ g[k] = f[k] /\ n - 1 = k /\ n # 0
          BY <2>2, <2>3, <3>3
        <4>2. QED
          BY <3>3, <4>1
      <3>4. QED
        BY <2>3, <3>1, <3>2, <3>3
    <2>6. g = [n \in 0 .. k + 1 |-> g[n]]
      BY <2>4
    <2>7. Goes(g, a, G, k + 1)
      BY <2>5, <2>6, Zenon DEF Goes
    <2>8. QED
      BY <2>3, <2>4, <2>7
  <1>3. Good = Nat
    <2>1. Good \in SUBSET Nat
      OBVIOUS
    <2> HIDE DEF Good
    <2>2. QED
      BY <1>1, <1>2, <2>1, Induction
  <1>4. QED
    BY <1>3

\* The processes in a table, and the true parent of q among them.
Alive(P)      == {q \in Pid : P[q] # Absent}
Parents(P, q) == {r \in Alive(P) : P[r].id = P[q].parent}

Rise(P, l, n) ==
  IF Len(l) < n \/ Parents(P, Last(l)) = {} THEN l
  ELSE Append(l, CHOOSE q \in Parents(P, Last(l)) : TRUE)

Rises(f, P, p, d) == f = [n \in 0 .. d |-> IF n = 0 THEN <<p>> ELSE Rise(P, f[n - 1], n)]

\* Identities grow from parent to child, and start times do not shrink.
Ordered(P) ==
  \A q, r \in Alive(P) :
    /\ P[q].id \in Nat /\ P[q].parent \in Nat /\ P[q].start \in Nat
    /\ P[q].parent < P[q].id
    /\ P[r].id = P[q].id => r = q
    /\ P[r].id = P[q].parent => P[r].start <= P[q].start

\* l leads from p upwards, through n generations or as far as there are any.
Descends(P, l, p, n) ==
  /\ l \in Seq(Alive(P)) /\ Len(l) \in 1 .. n + 1 /\ l[1] = p
  /\ \A i \in 1 .. Len(l) - 1 : l[i + 1] \in Parents(P, l[i])
  /\ \A i, j \in 1 .. Len(l) : i < j => P[l[j]].id < P[l[i]].id
  /\ \A i \in 1 .. Len(l) : P[l[i]].start <= P[p].start
  /\ Len(l) <= n => Parents(P, l[Len(l)]) = {}

LEMMA RiseFacts ==
    ASSUME NEW P, Ordered(P), NEW p \in Alive(P), NEW n \in Nat, NEW l, Descends(P, l, p, n)
    PROVE  Descends(P, Rise(P, l, n + 1), p, n + 1)
  <1>1. /\ l \in Seq(Alive(P)) /\ Len(l) \in Nat /\ Len(l) \in 1 .. n + 1 /\ l[1] = p
        /\ Last(l) = l[Len(l)] /\ \A i \in 1 .. Len(l) : l[i] \in Alive(P)
    BY DEF Descends, Last
  <1>2. CASE Len(l) < n + 1 \/ Parents(P, Last(l)) = {}
    <2>1. Rise(P, l, n + 1) = l
      BY <1>2 DEF Rise
    <2>2. Parents(P, l[Len(l)]) = {} /\ Len(l) \in 1 .. (n + 1) + 1
      BY <1>1, <1>2 DEF Descends
    <2>3. QED
      BY <2>1, <2>2 DEF Descends
  <1>3. CASE ~(Len(l) < n + 1 \/ Parents(P, Last(l)) = {})
    <2>1. PICK q \in Parents(P, Last(l)) : Rise(P, l, n + 1) = Append(l, q)
      BY <1>3 DEF Rise
    <2>2. PICK m : m = Append(l, q)
      OBVIOUS
    <2>3. Len(l) = n + 1 /\ q \in Alive(P) /\ q \in Parents(P, l[Len(l)])
      BY <1>1, <1>3, <2>1 DEF Parents
    <2>4. /\ m \in Seq(Alive(P)) /\ Len(m) = n + 2 /\ m[n + 2] = q
          /\ \A i \in 1 .. n + 1 : m[i] = l[i]
      BY <1>1, <2>2, <2>3
    <2>5. ASSUME NEW i \in 1 .. n + 1
          PROVE  m[i + 1] \in Parents(P, m[i])
      <3>1. CASE i = n + 1
        BY <2>3, <2>4, <3>1
      <3>2. CASE i # n + 1
        <4>1. i \in 1 .. Len(l) - 1 /\ i + 1 \in 1 .. n + 1
          BY <2>3, <3>2
        <4>2. l[i + 1] \in Parents(P, l[i])
          BY <4>1 DEF Descends
        <4>3. QED
          BY <2>4, <4>1, <4>2
      <3>3. QED
        BY <3>1, <3>2
    <2>6. ASSUME NEW i \in 1 .. n + 2
          PROVE  /\ i # n + 2 => P[q].id < P[m[i]].id
                 /\ P[m[i]].start <= P[p].start
      <3>1. l[n + 1] \in Alive(P) /\ P[q].id = P[l[n + 1]].parent
        BY <1>1, <2>3 DEF Parents
      <3>2. /\ P[q].id \in Nat /\ P[l[n + 1]].id \in Nat /\ P[q].id < P[l[n + 1]].id
            /\ P[q].start \in Nat /\ P[l[n + 1]].start \in Nat /\ P[p].start \in Nat
            /\ P[q].start <= P[l[n + 1]].start
        BY <2>3, <3>1 DEF Ordered
      <3>3. P[l[n + 1]].start <= P[p].start
        BY <2>3 DEF Descends
      <3>4. CASE i = n + 2
        BY <2>4, <3>2, <3>3, <3>4
      <3>5. CASE i # n + 2
        <4>1. i \in 1 .. Len(l) /\ m[i] = l[i] /\ l[i] \in Alive(P)
          BY <1>1, <2>3, <2>4, <3>5
        <4>2. /\ i < n + 1 => P[l[n + 1]].id < P[l[i]].id
              /\ P[l[i]].start <= P[p].start
          BY <2>3, <4>1 DEF Descends
        <4>3. P[l[i]].id \in Nat /\ (i < n + 1 \/ i = n + 1)
          BY <2>3, <4>1 DEF Ordered
        <4>4. P[q].id < P[l[i]].id
          BY <3>2, <4>2, <4>3
        <4>5. QED
          BY <4>1, <4>2, <4>4
      <3>6. QED
        BY <3>4, <3>5
    <2>9. ASSUME NEW i \in 1 .. n + 2, NEW j \in 1 .. n + 2, i < j
          PROVE  P[m[j]].id < P[m[i]].id
      <3>1. CASE j = n + 2
        BY <2>4, <2>6, <2>9, <3>1
      <3>2. CASE j # n + 2
        <4>1. i \in 1 .. n + 1 /\ j \in 1 .. n + 1
          BY <2>9, <3>2
        <4>2. P[l[j]].id < P[l[i]].id
          BY <2>3, <2>9, <4>1 DEF Descends
        <4>3. QED
          BY <2>4, <4>1, <4>2
      <3>3. QED
        BY <3>1, <3>2
    <2>7. Descends(P, m, p, n + 1)
      <3>1. m[1] = p /\ Len(m) \in 1 .. (n + 1) + 1 /\ Len(m) - 1 = n + 1 /\ ~(Len(m) <= n + 1)
        BY <1>1, <2>4, SMTT(30)
      <3>2. QED
        BY <2>4, <2>5, <2>6, <2>9, <3>1 DEF Descends
    <2>8. QED
      BY <2>1, <2>2, <2>7
  <1>4. QED
    BY <1>2, <1>3

LEMMA RisesFacts ==
    ASSUME NEW P, Ordered(P), NEW p \in Alive(P), NEW d \in Nat, NEW f, Rises(f, P, p, d)
    PROVE  \A n \in 0 .. d : Descends(P, f[n], p, n)
  <1> DEFINE S == {n \in Nat : n <= d => Descends(P, f[n], p, n)}
  <1>1. 0 \in S
    <2>1. f[0] = <<p>>
      BY DEF Rises
    <2>2. /\ <<p>> \in Seq(Alive(P)) /\ Len(<<p>>) = 1 /\ <<p>>[1] = p
          /\ P[p].id \in Nat /\ P[p].start \in Nat
      BY DEF Ordered
    <2>3. Descends(P, <<p>>, p, 0)
      BY <2>2 DEF Descends
    <2>4. QED
      BY <2>1, <2>3
  <1>2. ASSUME NEW n \in Nat, n < d, n \in S
        PROVE  n + 1 \in S
    <2>1. f[n + 1] = Rise(P, f[n], n + 1)
      BY <1>2 DEF Rises
    <2>2. Descends(P, f[n], p, n)
      BY <1>2
    <2>3. QED
      BY <2>1, <2>2, RiseFacts
  <1>3. S \in SUBSET Nat
    OBVIOUS
  <1> HIDE DEF S
  <1>4. \A n \in 0 .. d : n \in S
    BY <1>1, <1>2, <1>3, Upward
  <1>5. QED
    BY <1>4 DEF S

LEMMA RisesExist ==
    ASSUME NEW P, Ordered(P), NEW p \in Alive(P), NEW d \in Nat
    PROVE  \E f : Rises(f, P, p, d)
  <1> DEFINE X == {l \in Seq(Alive(P)) : Len(l) # 0}
             G == [x \in X \X Nat |-> Rise(P, x[1], x[2])]
  <1>1. <<p>> \in X
    OBVIOUS
  <1>2. G \in [X \X Nat -> X]
    <2>1. ASSUME NEW l \in X, NEW n \in Nat
          PROVE  Rise(P, l, n) \in X
      <3>1. CASE Len(l) < n \/ Parents(P, Last(l)) = {}
        BY <3>1 DEF Rise
      <3>2. CASE ~(Len(l) < n \/ Parents(P, Last(l)) = {})
        <4>1. PICK q \in Parents(P, Last(l)) : Rise(P, l, n) = Append(l, q)
          BY <3>2 DEF Rise
        <4>2. q \in Alive(P)
          BY <4>1 DEF Parents
        <4>3. Append(l, q) \in Seq(Alive(P)) /\ Len(Append(l, q)) = Len(l) + 1 /\ Len(l) \in Nat
          BY <4>2
        <4>4. QED
          BY <4>1, <4>3
      <3>3. QED
        BY <3>1, <3>2
    <2> HIDE DEF X
    <2>2. QED
      BY <2>1
  <1>3. \A l \in X, n \in Nat : G[<<l, n>>] = Rise(P, l, n)
    OBVIOUS
  <1> HIDE DEF X, G
  <1>4. PICK f \in [0 .. d -> X] : Goes(f, <<p>>, G, d)
    BY <1>1, <1>2, Recursion
  <1>5. \A n \in 0 .. d : f[n] = IF n = 0 THEN <<p>> ELSE G[<<f[n - 1], n>>]
    BY <1>4 DEF Goes
  <1>6. ASSUME NEW n \in 0 .. d
        PROVE  f[n] = IF n = 0 THEN <<p>> ELSE Rise(P, f[n - 1], n)
    <2>1. n # 0 => n - 1 \in 0 .. d /\ n \in Nat
      OBVIOUS
    <2>2. n # 0 => f[n - 1] \in X /\ n \in Nat
      BY <1>4, <2>1
    <2>3. QED
      BY <1>3, <1>5, <2>2
  <1>7. f = [n \in 0 .. d |-> f[n]]
    BY <1>4
  <1>8. Rises(f, P, p, d)
    BY <1>6, <1>7, Zenon DEF Rises
  <1>9. QED
    BY <1>8

LineOf(P, p, d) == (CHOOSE f : Rises(f, P, p, d))[d]

LEMMA LineOfFacts ==
    ASSUME NEW P, Ordered(P), NEW p \in Alive(P), NEW d \in Nat
    PROVE  Descends(P, LineOf(P, p, d), p, d)
  <1>1. PICK f : Rises(f, P, p, d) /\ LineOf(P, p, d) = f[d]
    BY RisesExist DEF LineOf
  <1>2. QED
    BY <1>1, RisesFacts

\* There is one line only.
LEMMA OneLine ==
    ASSUME NEW P, Ordered(P), NEW p, NEW d \in Nat, NEW l, NEW m,
           Descends(P, l, p, d), Descends(P, m, p, d)
    PROVE  l = m
  <1>1. /\ Len(l) \in Nat /\ Len(m) \in Nat /\ l \in Seq(Alive(P)) /\ m \in Seq(Alive(P))
        /\ Len(l) \in 1 .. d + 1 /\ Len(m) \in 1 .. d + 1 /\ l[1] = p /\ m[1] = p
    BY DEF Descends
  <1> DEFINE S == {n \in Nat : n + 1 <= Len(l) => n + 1 <= Len(m) /\ l[n + 1] = m[n + 1]}
  <1>2. 0 \in S
    BY <1>1
  <1>3. ASSUME NEW n \in S
        PROVE  n + 1 \in S
    <2> SUFFICES ASSUME (n + 1) + 1 <= Len(l)
                 PROVE  (n + 1) + 1 <= Len(m) /\ l[(n + 1) + 1] = m[(n + 1) + 1]
      OBVIOUS
    <2>1. n \in Nat /\ n + 1 <= Len(m) /\ l[n + 1] = m[n + 1] /\ n + 1 \in 1 .. Len(l) - 1
      BY <1>1
    <2>2. l[(n + 1) + 1] \in Parents(P, m[n + 1])
      BY <2>1 DEF Descends
    <2>3. Len(m) # n + 1
      <3>1. Len(m) = n + 1 => Len(m) <= d
        BY <1>1, <2>1
      <3>2. Len(m) <= d => Parents(P, m[Len(m)]) = {}
        BY DEF Descends
      <3>3. QED
        BY <2>2, <3>1, <3>2
    <2>4. (n + 1) + 1 <= Len(m) /\ n + 1 \in 1 .. Len(m) - 1
      BY <1>1, <2>1, <2>3
    <2>5. m[(n + 1) + 1] \in Parents(P, m[n + 1])
      BY <2>4 DEF Descends
    <2>6. QED
      BY <2>2, <2>4, <2>5 DEF Parents, Ordered
  <1>4. S = Nat
    <2>1. S \in SUBSET Nat
      OBVIOUS
    <2> HIDE DEF S
    <2>2. QED
      BY <1>2, <1>3, <2>1, Induction
  <1>5. \A i \in 1 .. Len(l) : i <= Len(m) /\ l[i] = m[i]
    <2>1. ASSUME NEW i \in 1 .. Len(l)
          PROVE  i <= Len(m) /\ l[i] = m[i]
      <3>1. i - 1 \in Nat /\ (i - 1) + 1 = i
        BY <1>1
      <3>2. i - 1 \in S
        BY <1>4, <3>1
      <3>3. QED
        BY <1>1, <3>1, <3>2
    <2>2. QED
      BY <2>1
  <1> HIDE DEF S
  <1>6. Len(l) = Len(m)
    <2>1. Len(l) <= Len(m) /\ l[Len(l)] = m[Len(l)]
      BY <1>1, <1>5
    <2>2. ASSUME Len(l) < Len(m) PROVE FALSE
      <3>1. Len(l) \in 1 .. Len(m) - 1 /\ Len(l) <= d
        BY <1>1, <2>2
      <3>2. m[Len(l) + 1] \in Parents(P, m[Len(l)]) /\ Parents(P, l[Len(l)]) = {}
        BY <3>1 DEF Descends
      <3>3. QED
        BY <2>1, <3>2
    <2>3. QED
      BY <1>1, <2>1, <2>2
  <1>7. QED
    BY <1>1, <1>5, <1>6, SeqEqual

-----------------------------------------------------------------------------
(* Looks in a calm tick, and what ancestors() makes of them.               *)

LEMMA NowOrdered ==
    ASSUME LineInv, KinInv
    PROVE  Ordered(procs) /\ Alive(procs) = Living /\ setting.depth \in Nat
  <1>1. Alive(procs) = Living
    BY DEF Alive, Living
  <1>2. setting.depth \in Nat
    BY LineageAssumption DEF LineInv, TableInv, Circumstances
  <1>3. \A q \in Living : procs[q].id \in Nat /\ procs[q].parent \in Nat /\ procs[q].start \in Nat
    BY LivingFacts DEF LineInv, Record
  <1>4. Ordered(procs)
    BY <1>1, <1>3 DEF Ordered, KinInv, IdInv
  <1>5. QED
    BY <1>1, <1>2, <1>4

LEMMA TrueLineIs == \A p : TrueLine(p) = LineOf(procs, p, setting.depth)
  BY DEF TrueLine, LineOf, Rises, Rise, Parents, Alive, Living

\* A map that calm looks can be made in.
Usable(s) ==
  /\ s = [map |-> s.map, memo |-> s.memo] /\ MapInv(s.map) /\ MemoInv(s.map, s.memo)
  /\ \A p \in Pid : Before(p) => s.map[p] # Absent

LEMMA UsableNow ==
    ASSUME LineInv, KinInv, calm
    PROVE  Usable(Snapshot) /\ Usable(Taken)
  <1>1. TableInv /\ SnapInv /\ FullInv
    BY DEF LineInv, KinInv
  <1>2. Usable(Snapshot)
    BY <1>1, SnapshotFacts, SnapshotFull DEF Usable
  <1>3. Taken = [map |-> procs, memo |-> {}] /\ Taken.map = procs /\ Taken.memo = {}
    BY DEF Taken
  <1>4. MapInv(procs) /\ MemoInv(procs, {})
    BY <1>1 DEF MapInv, MemoInv, TableInv, Living
  <1>5. \A p \in Pid : Before(p) => procs[p] # Absent
    BY DEF Before, Living
  <1>6. Usable(Taken)
    BY <1>3, <1>4, <1>5 DEF Usable
  <1>7. QED
    BY <1>2, <1>6

\* A calm look at q finds nothing if q does not live, else what it is, and names
\* its true parent if that one lives, no other living process, or none.
Sees(rec, q) ==
  /\ q \notin Living => rec = Absent
  /\ Before(q) =>
       /\ rec # Absent /\ rec.kind = procs[q].kind /\ rec.ppid \in Pid \cup {Root}
       /\ \A r \in Pid : r \in Parents(procs, q) <=> r = rec.ppid /\ r \in Living

LEMMA LookFacts ==
    ASSUME LineInv, KinInv, calm, NEW s, Usable(s), NEW q \in Pid,
           NEW rec, rec = Info(s, q).rec
    PROVE  Sees(rec, q)
  <1>1. TableInv /\ ForkInv /\ SnapInv /\ IdInv
    BY DEF LineInv, KinInv
  <1>2. ASSUME NEW r \in Pid
        PROVE  r \in Parents(procs, q) <=> r \in Living /\ procs[r].id = procs[q].parent
    BY NowOrdered DEF Parents
  <1>3. CASE setting.posix
    <2>1. rec = procs[q]
      BY <1>3 DEF Info
    <2>2. q \notin Living => rec = Absent
      BY <2>1 DEF Living
    <2>3. ASSUME Before(q)
          PROVE  /\ rec # Absent /\ rec.ppid \in Pid \cup {Root}
                 /\ \A r \in Pid : r \in Parents(procs, q) <=> r = rec.ppid /\ r \in Living
      <3>1. q \in Living
        BY <2>3 DEF Before
      <3>2. rec # Absent /\ rec.ppid \in Pid \cup {Root}
        BY <1>1, <2>1, <3>1, LivingFacts DEF Living
      <3>3. \A r \in Living : procs[r].id = procs[q].parent <=> procs[q].ppid = r
        BY <1>1, <1>3, <3>1 DEF IdInv
      <3>4. QED
        BY <1>2, <2>1, <3>2, <3>3
    <2>4. QED
      BY <2>1, <2>2, <2>3 DEF Sees
  <1>4. CASE ~setting.posix
    <2>1. PICK map, memo : map = s.map /\ memo = s.memo
      OBVIOUS
    <2>2. /\ s = [map |-> map, memo |-> memo] /\ MapInv(map) /\ MemoInv(map, memo)
          /\ \A p \in Pid : Before(p) => map[p] # Absent
      BY <2>1 DEF Usable
    <2>3. rec = WinInfo(s, q).rec
      BY <1>4 DEF Info
    <2>4. /\ rec = Absent <=> map[q] = Absent
          /\ rec # Absent =>
                /\ map[q] \in Record /\ rec.kin = map[q].kin /\ rec.kind = map[q].kind
                /\ rec.ppid # Root => rec.ppid = map[q].ppid /\ rec.ppid \in Pid
                /\ calm /\ map[q].ppid # Root /\ map[map[q].ppid] # Absent =>
                     (rec.ppid = Root <=> Refused(map[q].start, map[map[q].ppid].start))
      BY <1>1, <2>2, <2>3, WinInfoFacts
    <2>5. q \notin Living => rec = Absent
      BY <2>2, <2>4 DEF MapInv
    <2>6. ASSUME Before(q)
          PROVE  /\ rec # Absent /\ rec.kind = procs[q].kind /\ rec.ppid \in Pid \cup {Root}
                 /\ \A r \in Pid : r \in Parents(procs, q) <=> r = rec.ppid /\ r \in Living
      <3>1. q \in Living /\ map[q] # Absent /\ rec # Absent
        BY <2>2, <2>4, <2>6 DEF Before
      <3>2. map[q] = procs[q] /\ rec.kind = procs[q].kind
        BY <2>2, <2>4, <3>1 DEF MapInv
      <3>3. /\ rec.ppid \in Pid \cup {Root}
            /\ rec.ppid # Root => rec.ppid = procs[q].ppid
        BY <2>4, <3>1, <3>2
      <3>4. ASSUME NEW r \in Living, procs[q].ppid = r
            PROVE  /\ procs[r].id = procs[q].parent <=> rec.ppid = r
        <4>1. r \in Pid /\ r # Root
          BY <3>4, Constants DEF Living
        <4>8. map[q].ppid = r
          BY <3>2, <3>4
        <4>9. map[r] # Absent
          BY <2>2, <3>1, <3>4, <4>8 DEF MapInv
        <4>2. map[r] # Absent /\ map[r] = procs[r]
          BY <2>2, <3>4, <4>1, <4>9 DEF MapInv
        <4>3. rec.ppid = Root <=> Refused(procs[q].start, procs[r].start)
          BY <2>4, <3>1, <3>2, <3>4, <4>1, <4>2
        <4>4. procs[q].start \in Nat /\ procs[r].start \in Nat
          BY <1>1, <3>1, <3>4, LivingFacts
        <4>5. Refused(procs[q].start, procs[r].start) <=> procs[r].start > procs[q].start
          BY <4>4, Constants DEF Refused
        <4>6. /\ procs[r].id = procs[q].parent => procs[r].start <= procs[q].start
              /\ procs[r].id = procs[q].parent \/ procs[r].start > procs[q].start
          BY <1>1, <3>1, <3>4 DEF IdInv
        <4>7. procs[r].id = procs[q].parent <=> ~(procs[r].start > procs[q].start)
          BY <4>4, <4>6
        <4>10. procs[r].id = procs[q].parent <=> rec.ppid # Root
          BY <4>3, <4>5, <4>7
        <4>11. rec.ppid # Root <=> rec.ppid = r
          BY <3>3, <3>4, <4>1
        <4>12. QED
          BY <4>10, <4>11
      <3>5. ASSUME NEW r \in Pid
            PROVE  r \in Parents(procs, q) <=> r = rec.ppid /\ r \in Living
        <4>1. r \in Living /\ procs[r].id = procs[q].parent => procs[q].ppid = r
          <5>1. r \in Living => (procs[r].id = procs[q].parent => procs[q].ppid = r)
            BY <1>1, <3>1 DEF IdInv
          <5>2. QED
            BY <5>1
        <4>2. r = rec.ppid => procs[q].ppid = r
          BY <3>3, <3>5, Constants
        <4>3. CASE r \in Living /\ procs[q].ppid = r
          <5>1. procs[r].id = procs[q].parent <=> rec.ppid = r
            BY <3>4, <4>3
          <5>2. QED
            BY <1>2, <4>3, <5>1
        <4>4. CASE ~(r \in Living /\ procs[q].ppid = r)
          <5>1. r \notin Parents(procs, q)
            BY <1>2, <4>1, <4>4
          <5>2. QED
            BY <4>2, <4>4, <5>1
        <4>5. QED
          BY <4>3, <4>4
      <3>6. QED
        BY <3>1, <3>2, <3>3, <3>5
    <2>7. QED
      BY <2>5, <2>6 DEF Sees
  <1>5. QED
    BY <1>3, <1>4

Climb(s, c, n) ==
  LET rec == Info(s, Last(c)).rec
  IN  IF Len(c) < n \/ rec = Absent THEN c
      ELSE IF rec.ppid = Root \/ rec.ppid \in ToSet(c) THEN c
           ELSE Append(c, rec.ppid)

Climbs(g, s, p, d) == g = [n \in 0 .. d |-> IF n = 0 THEN <<p>> ELSE Climb(s, g[n - 1], n)]

LEMMA AncestorsAre ==
    ASSUME NEW s, NEW p
    PROVE  Ancestors(s, p) = (CHOOSE g : Climbs(g, s, p, setting.depth))[setting.depth]
  BY DEF Ancestors, Climbs, Climb

\* Chain c is line l, or one pid longer where the line has ended.
Tops(c, l) == \/ c = l
              \/ \E q \in Pid \ Living : c = Append(l, q) /\ Parents(procs, Last(l)) = {}

LEMMA BeforeUp ==
    ASSUME LineInv, KinInv, NEW p \in Pid, Before(p), NEW n \in Nat, NEW l, Descends(procs, l, p, n)
    PROVE  \A i \in 1 .. Len(l) : l[i] \in Living /\ Before(l[i])
  <1> SUFFICES ASSUME NEW i \in 1 .. Len(l) PROVE l[i] \in Living /\ Before(l[i])
    OBVIOUS
  <1>1. Len(l) \in Nat /\ l[i] \in Living
    BY NowOrdered DEF Descends
  <1>2. procs[l[i]].start <= procs[p].start /\ procs[p].start < clock /\ p \in Living
    BY DEF Descends, Before
  <1>3. procs[l[i]].start \in Nat /\ procs[p].start \in Nat /\ clock \in Nat
    BY <1>1, <1>2, LivingFacts, Constants DEF LineInv, TableInv
  <1>4. QED
    BY <1>1, <1>2, <1>3 DEF Before

LEMMA LookPid ==
    ASSUME LineInv, NEW s, Usable(s), NEW q \in Pid, NEW rec, rec = Info(s, q).rec,
           rec # Absent, rec.ppid # Root
    PROVE  rec.ppid \in Pid
  <1>1. CASE setting.posix
    <2>1. rec = procs[q] /\ q \in Living
      BY <1>1 DEF Info, Living
    <2>2. QED
      BY <2>1, LivingFacts DEF LineInv
  <1>2. CASE ~setting.posix
    <2>1. PICK map, memo : map = s.map /\ memo = s.memo
      OBVIOUS
    <2>2. s = [map |-> map, memo |-> memo] /\ MapInv(map) /\ MemoInv(map, memo)
      BY <2>1 DEF Usable
    <2>3. rec = WinInfo(s, q).rec
      BY <1>2 DEF Info
    <2>4. QED
      BY <2>2, <2>3, WinInfoFacts DEF LineInv
  <1>3. QED
    BY <1>1, <1>2

\* One step up the chain and one up the line.
LEMMA ClimbFacts ==
    ASSUME LineInv, KinInv, calm, NEW s, Usable(s), NEW p \in Pid, Before(p),
           NEW n \in Nat, NEW l, Descends(procs, l, p, n), NEW c, Tops(c, l)
    PROVE  Tops(Climb(s, c, n + 1), Rise(procs, l, n + 1))
  <1>1. /\ l \in Seq(Living) /\ Len(l) \in Nat /\ Len(l) >= 1 /\ Last(l) = l[Len(l)]
        /\ Last(l) \in Living /\ Before(Last(l)) /\ Last(l) \in Pid
    <2>1. l \in Seq(Living) /\ Len(l) \in Nat /\ Len(l) >= 1 /\ Last(l) = l[Len(l)]
      BY NowOrdered DEF Descends, Last
    <2>2. QED
      BY <2>1, BeforeUp DEF Living
  <1>2. CASE c = l /\ Len(l) < n + 1
    <2>1. Climb(s, c, n + 1) = l /\ Rise(procs, l, n + 1) = l
      BY <1>2 DEF Climb, Rise
    <2>2. QED
      BY <2>1 DEF Tops
  <1>3. CASE c = l /\ ~(Len(l) < n + 1)
    <2>1. PICK rec : rec = Info(s, Last(l)).rec
      OBVIOUS
    <2>2. Sees(rec, Last(l))
      BY <1>1, <2>1, LookFacts
    <2>3. /\ rec # Absent /\ rec.ppid \in Pid \cup {Root}
          /\ \A r \in Pid : r \in Parents(procs, Last(l)) <=> r = rec.ppid /\ r \in Living
      BY <1>1, <2>2 DEF Sees
    <2>4. Climb(s, c, n + 1) = IF rec.ppid = Root \/ rec.ppid \in ToSet(l) THEN l
                               ELSE Append(l, rec.ppid)
      BY <1>3, <2>1, <2>3 DEF Climb
    <2>5. Parents(procs, Last(l)) \subseteq Pid
      BY DEF Parents, Alive
    <2>6. CASE Parents(procs, Last(l)) = {}
      <3>1. Rise(procs, l, n + 1) = l
        BY <2>6 DEF Rise
      <3>2. rec.ppid \in Pid => rec.ppid \notin Living
        BY <2>3, <2>6
      <3>3. QED
        BY <2>3, <2>4, <2>6, <3>1, <3>2 DEF Tops
    <2>7. CASE Parents(procs, Last(l)) # {}
      <3>1. PICK r \in Parents(procs, Last(l)) : Rise(procs, l, n + 1) = Append(l, r)
        BY <1>3, <2>7 DEF Rise
      <3>2. r = rec.ppid /\ r \in Living /\ r # Root
        BY <2>3, <2>5, <3>1, Constants
      <3>3. ASSUME NEW i \in 1 .. Len(l)
            PROVE  l[i] # r
        <4>1. procs[r].id = procs[Last(l)].parent
          BY <3>1 DEF Parents
        <4>3. l[i] \in Living
          BY <1>1
        <4>2. i < Len(l) => procs[Last(l)].id < procs[l[i]].id
          BY <1>1 DEF Descends
        <4>4. /\ procs[Last(l)].parent < procs[Last(l)].id
              /\ procs[Last(l)].id \in Nat /\ procs[Last(l)].parent \in Nat /\ procs[l[i]].id \in Nat
          BY <1>1, <4>3, NowOrdered DEF Ordered
        <4>5. procs[r].id # procs[l[i]].id
          <5>1. i < Len(l) \/ l[i] = Last(l)
            BY <1>1
          <5>2. QED
            BY <4>1, <4>2, <4>4, <5>1
        <4>6. QED
          BY <4>5
      <3>4. r \notin ToSet(l)
        BY <1>1, <3>3 DEF ToSet
      <3>5. QED
        BY <2>4, <3>1, <3>2, <3>4 DEF Tops
    <2>8. QED
      BY <2>6, <2>7
  <1>4. ASSUME NEW q \in Pid \ Living, c = Append(l, q), Parents(procs, Last(l)) = {}
        PROVE  Tops(Climb(s, c, n + 1), Rise(procs, l, n + 1))
    <2>1. Rise(procs, l, n + 1) = l
      BY <1>4 DEF Rise
    <2>2. Last(c) = q
      <3>1. l \in Seq(Pid)
        BY <1>1 DEF Living
      <3>2. Len(Append(l, q)) = Len(l) + 1 /\ Append(l, q)[Len(l) + 1] = q
        BY <3>1
      <3>3. QED
        BY <1>4, <3>2 DEF Last
    <2>3. PICK rec : rec = Info(s, q).rec
      OBVIOUS
    <2>4. Sees(rec, q)
      BY <2>3, LookFacts
    <2>5. rec = Absent
      BY <2>4 DEF Sees
    <2>6. Climb(s, c, n + 1) = c
      BY <2>2, <2>3, <2>5 DEF Climb
    <2>7. QED
      BY <1>4, <2>1, <2>6 DEF Tops
  <1>5. QED
    BY <1>2, <1>3, <1>4 DEF Tops

LEMMA ClimbsExist ==
    ASSUME LineInv, NEW s, Usable(s), NEW p \in Pid, NEW d \in Nat
    PROVE  \E g : Climbs(g, s, p, d)
  <1> DEFINE X == {c \in Seq(Pid) : Len(c) # 0}
             G == [x \in X \X Nat |-> Climb(s, x[1], x[2])]
  <1>1. <<p>> \in X
    OBVIOUS
  <1>2. G \in [X \X Nat -> X]
    <2>1. ASSUME NEW c \in X, NEW n \in Nat
          PROVE  Climb(s, c, n) \in X
      <3>1. PICK rec : rec = Info(s, Last(c)).rec
        OBVIOUS
      <3>2. Last(c) \in Pid
        <4>1. Len(c) \in 1 .. Len(c)
          OBVIOUS
        <4>2. QED
          BY <4>1 DEF Last
      <3>3. \/ Climb(s, c, n) = c
            \/ rec # Absent /\ rec.ppid # Root /\ Climb(s, c, n) = Append(c, rec.ppid)
        BY <3>1 DEF Climb
      <3>4. rec # Absent /\ rec.ppid # Root => rec.ppid \in Pid
        BY <3>1, <3>2, LookPid
      <3>5. \A e \in Pid : Append(c, e) \in Seq(Pid) /\ Len(Append(c, e)) = Len(c) + 1 /\ Len(c) \in Nat
        OBVIOUS
      <3>6. QED
        BY <3>3, <3>4, <3>5
    <2> HIDE DEF X
    <2>2. QED
      BY <2>1
  <1>3. \A c \in X, n \in Nat : G[<<c, n>>] = Climb(s, c, n)
    OBVIOUS
  <1> HIDE DEF X, G
  <1>4. PICK f \in [0 .. d -> X] : Goes(f, <<p>>, G, d)
    BY <1>1, <1>2, Recursion
  <1>5. \A n \in 0 .. d : f[n] = IF n = 0 THEN <<p>> ELSE G[<<f[n - 1], n>>]
    BY <1>4 DEF Goes
  <1>6. ASSUME NEW n \in 0 .. d
        PROVE  f[n] = IF n = 0 THEN <<p>> ELSE Climb(s, f[n - 1], n)
    <2>1. n # 0 => n - 1 \in 0 .. d /\ n \in Nat
      OBVIOUS
    <2>2. n # 0 => f[n - 1] \in X /\ n \in Nat
      BY <1>4, <2>1
    <2>3. QED
      BY <1>3, <1>5, <2>2
  <1>7. f = [n \in 0 .. d |-> f[n]]
    BY <1>4
  <1>8. Climbs(f, s, p, d)
    BY <1>6, <1>7, Zenon DEF Climbs
  <1>9. QED
    BY <1>8

\* ancestors() of a process that lived when the calm tick began.
LEMMA ChainFacts ==
    ASSUME LineInv, KinInv, calm, NEW s, Usable(s), NEW p \in Pid, Before(p)
    PROVE  Tops(Ancestors(s, p), TrueLine(p)) /\ Descends(procs, TrueLine(p), p, setting.depth)
  <1>1. PICK d \in Nat : d = setting.depth
    BY NowOrdered
  <1>2. p \in Living /\ Ordered(procs) /\ Alive(procs) = Living
    BY NowOrdered DEF Before
  <1>3. PICK f : Rises(f, procs, p, d) /\ TrueLine(p) = f[d]
    BY <1>1, <1>2, RisesExist, TrueLineIs DEF LineOf
  <1>4. \A n \in 0 .. d : Descends(procs, f[n], p, n)
    BY <1>2, <1>3, RisesFacts
  <1>5. PICK g : Climbs(g, s, p, d) /\ Ancestors(s, p) = g[d]
    BY <1>1, ClimbsExist, AncestorsAre
  <1> DEFINE S == {n \in Nat : n <= d => Tops(g[n], f[n])}
  <1>6. 0 \in S
    BY <1>3, <1>5 DEF Rises, Climbs, Tops
  <1>7. ASSUME NEW n \in Nat, n < d, n \in S
        PROVE  n + 1 \in S
    <2>1. f[n + 1] = Rise(procs, f[n], n + 1) /\ g[n + 1] = Climb(s, g[n], n + 1)
      BY <1>3, <1>5, <1>7 DEF Rises, Climbs
    <2>2. Descends(procs, f[n], p, n) /\ Tops(g[n], f[n])
      BY <1>4, <1>7
    <2>3. QED
      BY <2>1, <2>2, ClimbFacts
  <1>8. S \in SUBSET Nat
    OBVIOUS
  <1> HIDE DEF S
  <1>9. \A n \in 0 .. d : n \in S
    BY <1>6, <1>7, <1>8, Upward
  <1>10. Tops(g[d], f[d])
    BY <1>9 DEF S
  <1>11. QED
    BY <1>1, <1>3, <1>4, <1>5, <1>10

LEMMA KinAlways ==
    ASSUME Recycled
    PROVE  Spec => [](LineInv /\ KinInv)
  <1>1. LineInv /\ KinInv /\ [Next]_vars => KinInv'
    BY KinStep
  <1>2. QED
    BY <1>1, LineAlways, KinInit, PTL DEF Spec

(* What the reconciler asks ancestors() for is, while a tick is calm, the  *)
(* true line of descent of a process, as far as max_depth reaches and its  *)
(* members live, at most followed by one pid that no process had when the  *)
(* tick began.                                                             *)
THEOREM ChainIsTrueLineHolds ==
    ASSUME Recycled
    PROVE  Spec => []ChainIsTrueLine
  <1>1. LineInv /\ KinInv => ChainIsTrueLine
    <2> SUFFICES ASSUME LineInv, KinInv, calm, NEW p \in Living, Before(p)
                 PROVE  \/ Ancestors(Snapshot, p) = TrueLine(p)
                        \/ \E q \in Pid : ~Before(q) /\ Ancestors(Snapshot, p) = Append(TrueLine(p), q)
      BY DEF ChainIsTrueLine
    <2>1. PICK s : s = Snapshot /\ Usable(s)
      BY UsableNow
    <2>2. p \in Pid
      BY DEF Living
    <2>3. Tops(Ancestors(s, p), TrueLine(p))
      BY <2>1, <2>2, ChainFacts
    <2>4. QED
      BY <2>1, <2>3 DEF Tops, Before
  <1>2. QED
    BY <1>1, KinAlways, PTL

-----------------------------------------------------------------------------
(* The pid that a hook declares.                                           *)

LEMMA Least ==
    ASSUME NEW I \in SUBSET Nat, I # {}
    PROVE  Min(I) \in I /\ \A i \in I : Min(I) <= i
  <1>1. PICK R : R = OpToRel(<, Nat)
    OBVIOUS
  <1>2. PICK m \in I : \A k \in I : ~ (<<k, m>> \in R)
    <2>1. IsWellFoundedOn(R, Nat)
      BY <1>1, NatLessThanWellFounded
    <2>2. QED
      BY <2>1, WFMin
  <1>3. ASSUME NEW k \in I
        PROVE  m <= k
    <2>1. k \in Nat /\ m \in Nat /\ ~ (<<k, m>> \in R)
      BY <1>2
    <2>2. k < m => <<k, m>> \in R
      BY <1>1, <2>1 DEF OpToRel
    <2>3. QED
      BY <2>1, <2>2
  <1>4. QED
    BY <1>3 DEF Min

KindNow(q) == IF q \in Living THEN procs[q].kind ELSE "node"

\* Where in chain c a name is an agent's, and where a name or a command line is.
ByName(c) == {i \in 1 .. Len(c) : Match(Name(KindNow(c[i])), FALSE)}
ByArgv(c) == {i \in 1 .. Len(c) : Match(Name(KindNow(c[i])), Named(KindNow(c[i])))}

LEMMA AgentPidIs ==
    ASSUME NEW p, NEW c, c = Tail(Ancestors(Taken, p)), Len(c) \in Nat
    PROVE  AgentPid(p) = IF ByName(c) # {} THEN c[Min(ByName(c))]
                         ELSE IF ByArgv(c) # {} THEN c[Min(ByArgv(c))] ELSE procs[p].ppid
  <1>1. ByName(c) \in SUBSET Nat /\ ByArgv(c) \in SUBSET Nat /\ 0 \notin ByName(c) /\ 0 \notin ByArgv(c)
    <2>1. 1 .. Len(c) \subseteq Nat /\ 0 \notin 1 .. Len(c)
      OBVIOUS
    <2>2. ByName(c) \subseteq 1 .. Len(c) /\ ByArgv(c) \subseteq 1 .. Len(c)
      BY DEF ByName, ByArgv
    <2>3. QED
      BY <2>1, <2>2
  <1>2. /\ ByName(c) # {} => Min(ByName(c)) # 0
        /\ ByArgv(c) # {} => Min(ByArgv(c)) # 0
    BY <1>1, Least
  <1>3. AgentPid(p) = LET m == IF ByName(c) # {} THEN Min(ByName(c)) ELSE 0
                          n == IF ByArgv(c) # {} THEN Min(ByArgv(c)) ELSE 0
                      IN  IF m # 0 THEN c[m] ELSE IF n # 0 THEN c[n] ELSE procs[p].ppid
    BY DEF AgentPid, SelectInSeq, ByName, ByArgv, KindNow
  <1>4. QED
    BY <1>2, <1>3

\* Where in line l agents are.
Agents(l) == {i \in 1 .. Len(l) : IsAgent(procs[l[i]].kind)}

LEMMA OwnerIs ==
    ASSUME NEW p, NEW l, l = Tail(TrueLine(p)), Len(l) \in Nat
    PROVE  Owner(p) = IF Agents(l) # {} THEN l[Min(Agents(l))] ELSE Absent
  <1>1. Agents(l) \in SUBSET Nat /\ 0 \notin Agents(l)
    <2>1. 1 .. Len(l) \subseteq Nat /\ 0 \notin 1 .. Len(l)
      OBVIOUS
    <2>2. Agents(l) \subseteq 1 .. Len(l)
      BY DEF Agents
    <2>3. QED
      BY <2>1, <2>2
  <1>2. Agents(l) # {} => Min(Agents(l)) # 0
    BY <1>1, Least
  <1>3. Owner(p) = LET m == IF Agents(l) # {} THEN Min(Agents(l)) ELSE 0
                   IN  IF m = 0 THEN Absent ELSE l[m]
    BY DEF Owner, SelectInSeq, Agents
  <1>4. QED
    BY <1>2, <1>3

\* What holds of the chain of p above p itself: it is the line's, and beyond that
\* there is nobody.
LEMMA TailFacts ==
    ASSUME NEW p, NEW d \in Nat, NEW l, Descends(procs, l, p, d), NEW c, Tops(c, l),
           Alive(procs) = Living
    PROVE  /\ Len(l) \in Nat /\ Len(l) >= 1 /\ Len(Tail(l)) = Len(l) - 1 /\ Len(Tail(l)) \in Nat
           /\ \A i \in 1 .. Len(Tail(l)) : Tail(l)[i] = l[i + 1] /\ l[i + 1] \in Living
           /\ Len(Tail(c)) \in Nat /\ Len(Tail(c)) >= Len(Tail(l))
           /\ \A i \in 1 .. Len(Tail(c)) : IF i <= Len(Tail(l)) THEN Tail(c)[i] = l[i + 1]
                                           ELSE Tail(c)[i] \notin Living
           /\ \A i \in 1 .. Len(l) : l[i] \in ToSet(c)
  <1>1. l \in Seq(Living) /\ l \in Seq(Pid) /\ Len(l) \in Nat /\ Len(l) >= 1
    BY DEF Descends, Living
  <1>2. /\ Len(Tail(l)) = Len(l) - 1 /\ Len(Tail(l)) \in Nat
        /\ \A i \in 1 .. Len(Tail(l)) : Tail(l)[i] = l[i + 1] /\ l[i + 1] \in Living
    BY <1>1
  <1>3. CASE c = l
    <2>1. \A i \in 1 .. Len(l) : l[i] \in ToSet(c)
      BY <1>1, <1>3 DEF ToSet
    <2>2. QED
      BY <1>1, <1>2, <1>3, <2>1
  <1>4. ASSUME NEW q \in Pid \ Living, c = Append(l, q)
        PROVE  /\ Len(Tail(c)) = Len(l)
               /\ \A i \in 1 .. Len(Tail(c)) : IF i <= Len(Tail(l)) THEN Tail(c)[i] = l[i + 1]
                                               ELSE Tail(c)[i] \notin Living
               /\ \A i \in 1 .. Len(l) : l[i] \in ToSet(c)
    <2>1. /\ c \in Seq(Pid) /\ Len(c) = Len(l) + 1 /\ c[Len(l) + 1] = q
          /\ \A i \in 1 .. Len(l) : c[i] = l[i]
      BY <1>1, <1>4
    <2>2. Len(Tail(c)) = Len(l) /\ \A i \in 1 .. Len(l) : Tail(c)[i] = c[i + 1]
      BY <1>1, <2>1
    <2>3. ASSUME NEW i \in 1 .. Len(l)
          PROVE  IF i <= Len(Tail(l)) THEN Tail(c)[i] = l[i + 1] ELSE Tail(c)[i] \notin Living
      <3>1. CASE i <= Len(l) - 1
        <4>1. i + 1 \in 1 .. Len(l)
          BY <1>1, <3>1
        <4>2. QED
          BY <1>2, <2>1, <2>2, <3>1, <4>1
      <3>2. CASE ~(i <= Len(l) - 1)
        <4>1. i = Len(l)
          BY <1>1, <3>2
        <4>2. Tail(c)[i] = q
          BY <2>1, <2>2, <4>1
        <4>3. QED
          BY <1>2, <3>2, <4>2
      <3>3. QED
        BY <3>1, <3>2
    <2>4. \A i \in 1 .. Len(l) : l[i] \in ToSet(c)
      <3>1. \A i \in 1 .. Len(l) : i \in DOMAIN c /\ c[i] = l[i]
        BY <1>1, <2>1
      <3>2. QED
        BY <3>1 DEF ToSet
    <2>5. QED
      BY <2>2, <2>3, <2>4
  <1>5. QED
    BY <1>1, <1>2, <1>3, <1>4 DEF Tops

\* Two lines that meet in one process run together from there.
LEMMA SharedLine ==
    ASSUME NEW P, Ordered(P), NEW d \in Nat, NEW p, NEW q, NEW l, NEW m,
           Descends(P, l, p, d), Descends(P, m, q, d),
           NEW i \in 1 .. Len(l), NEW j \in 1 .. Len(m), l[i] = m[j], j <= i
    PROVE  \A k \in Nat : i + k <= Len(l) => j + k <= Len(m) /\ m[j + k] = l[i + k]
  <1>1. Len(l) \in Nat /\ Len(m) \in Nat /\ Len(l) <= d + 1 /\ Len(m) <= d + 1
    BY DEF Descends
  <1> DEFINE S == {k \in Nat : i + k <= Len(l) => j + k <= Len(m) /\ m[j + k] = l[i + k]}
  <1>2. 0 \in S
    BY <1>1
  <1>3. ASSUME NEW k \in S
        PROVE  k + 1 \in S
    <2> SUFFICES ASSUME i + (k + 1) <= Len(l)
                 PROVE  j + (k + 1) <= Len(m) /\ m[j + (k + 1)] = l[i + (k + 1)]
      OBVIOUS
    <2>1. /\ k \in Nat /\ j + k <= Len(m) /\ m[j + k] = l[i + k] /\ i + k \in 1 .. Len(l) - 1
          /\ i + (k + 1) = (i + k) + 1 /\ j + (k + 1) = (j + k) + 1
      BY <1>1
    <2>2. l[(i + k) + 1] \in Parents(P, m[j + k])
      BY <2>1 DEF Descends
    <2>3. Len(m) # j + k
      <3>1. Len(m) = j + k => Len(m) <= d
        BY <1>1, <2>1
      <3>2. Len(m) <= d => Parents(P, m[Len(m)]) = {}
        BY DEF Descends
      <3>3. QED
        BY <2>2, <3>1, <3>2
    <2>4. (j + k) + 1 <= Len(m) /\ j + k \in 1 .. Len(m) - 1
      BY <1>1, <2>1, <2>3
    <2>5. m[(j + k) + 1] \in Parents(P, m[j + k])
      BY <2>4 DEF Descends
    <2>6. m[(j + k) + 1] = l[(i + k) + 1]
      BY <2>2, <2>5 DEF Parents, Ordered
    <2>7. QED
      BY <2>1, <2>4, <2>6
  <1>4. S = Nat
    <2>1. S \in SUBSET Nat
      OBVIOUS
    <2> HIDE DEF S
    <2>2. QED
      BY <1>2, <1>3, <2>1, Induction
  <1>5. QED
    BY <1>4

LEMMA AgentNames ==
    ASSUME NEW q, q \in Living => procs[q].kind \in Kinds
    PROVE  /\ Match(Name(KindNow(q)), Named(KindNow(q))) <=> q \in Living /\ Named(procs[q].kind)
           /\ Match(Name(KindNow(q)), FALSE) <=> q \in Living /\ procs[q].kind = "claude"
           /\ q \in Living /\ IsAgent(procs[q].kind) => Named(procs[q].kind)
           /\ q \in Living /\ procs[q].kind = "claude" => IsAgent(procs[q].kind)
  <1>1. CASE q \notin Living
    <2>1. KindNow(q) = "node" /\ Name(KindNow(q)) = "node"
      BY <1>1 DEF KindNow, Name
    <2>2. Named(KindNow(q)) = FALSE
      BY <2>1 DEF Named, IsAgent
    <2>3. QED
      BY <1>1, <2>1, <2>2 DEF Match
  <1>2. CASE q \in Living
    <2>1. procs[q].kind \in {"claude", "nodeAgent", "node", "shell"}
      BY <1>2, LineageAssumption
    <2>2. KindNow(q) = procs[q].kind
      BY <1>2 DEF KindNow
    <2>3. QED
      BY <1>2, <2>1, <2>2 DEF Match, Name, Named, IsAgent
  <1>3. QED
    BY <1>1, <1>2

\* Who is heard: one known by its name, or the first whose command line says so.
LEMMA HeardIs ==
    ASSUME NEW p, Heard(p), NEW l, l = Tail(TrueLine(p)), Len(l) \in Nat,
           DOMAIN l = 1 .. Len(l), Agents(l) # {}
    PROVE  \/ \E i \in 1 .. Len(l) : procs[l[i]].kind = "claude"
           \/ \A i \in 1 .. Min(Agents(l)) - 1 : ~Named(procs[l[i]].kind)
  <1>1. PICK m : m = Min(Agents(l))
    OBVIOUS
  <1>2. \/ \E q \in ToSet(l) : procs[q].kind = "claude"
        \/ \A i \in 1 .. m - 1 : ~Named(procs[l[i]].kind)
    BY <1>1 DEF Heard, SelectInSeq, Agents
  <1>3. \A q \in ToSet(l) : \E i \in 1 .. Len(l) : q = l[i]
    BY DEF ToSet
  <1>4. QED
    BY <1>1, <1>2, <1>3

\* The agent above h, and agent_pid of h: that agent, or another one above it.
LEMMA DeclaredFacts ==
    ASSUME LineInv, KinInv, calm, NEW h \in Living, Before(h), Owner(h) # Absent
    PROVE  \E a, b \in Nat :
             /\ 1 < a /\ a <= Len(TrueLine(h)) /\ TrueLine(h)[a] = Owner(h)
             /\ Heard(h) => a <= b /\ b <= Len(TrueLine(h)) /\ TrueLine(h)[b] = AgentPid(h)
  <1>1. PICK s : s = Taken /\ Usable(s)
    BY UsableNow
  <1>2. PICK l, c, d : /\ l = TrueLine(h) /\ c = Ancestors(Taken, h) /\ d = setting.depth
    OBVIOUS
  <1>3. /\ h \in Pid /\ d \in Nat /\ Alive(procs) = Living
        /\ Tops(c, l) /\ Descends(procs, l, h, d)
    <2>1. h \in Pid
      BY DEF Living
    <2>2. QED
      BY <1>1, <1>2, <2>1, ChainFacts, NowOrdered
  <1>4. PICK lt, ct : lt = Tail(l) /\ ct = Tail(c)
    OBVIOUS
  <1>5. /\ Len(l) \in Nat /\ Len(lt) = Len(l) - 1 /\ Len(lt) \in Nat
        /\ \A i \in 1 .. Len(lt) : lt[i] = l[i + 1] /\ l[i + 1] \in Living
        /\ Len(ct) \in Nat /\ Len(ct) >= Len(lt)
        /\ \A i \in 1 .. Len(ct) : IF i <= Len(lt) THEN ct[i] = l[i + 1] ELSE ct[i] \notin Living
        /\ DOMAIN lt = 1 .. Len(lt)
    <2>1. /\ Len(l) \in Nat /\ Len(l) >= 1 /\ Len(Tail(l)) = Len(l) - 1 /\ Len(Tail(l)) \in Nat
          /\ \A i \in 1 .. Len(Tail(l)) : Tail(l)[i] = l[i + 1] /\ l[i + 1] \in Living
          /\ Len(Tail(c)) \in Nat /\ Len(Tail(c)) >= Len(Tail(l))
          /\ \A i \in 1 .. Len(Tail(c)) : IF i <= Len(Tail(l)) THEN Tail(c)[i] = l[i + 1]
                                          ELSE Tail(c)[i] \notin Living
      BY <1>3, TailFacts
    <2>2. DOMAIN Tail(l) = 1 .. Len(Tail(l))
      <3>1. l \in Seq(Pid)
        BY <1>3 DEF Descends, Living
      <3>2. QED
        BY <2>1, <3>1
    <2>3. QED
      BY <1>4, <2>1, <2>2
  <1>6. \A q : q \in Living => procs[q].kind \in Kinds
    BY LivingFacts DEF LineInv
  <1>7. /\ \A i \in ByArgv(ct) : i \in 1 .. Len(lt) /\ Named(procs[lt[i]].kind)
        /\ \A i \in ByName(ct) : i \in 1 .. Len(lt) /\ i \in Agents(lt)
        /\ \A i \in Agents(lt) : i \in ByArgv(ct)
        /\ \A i \in 1 .. Len(lt) : procs[lt[i]].kind = "claude" => i \in ByName(ct)
    <2>1. ASSUME NEW i \in 1 .. Len(ct), ct[i] \in Living
          PROVE  i \in 1 .. Len(lt) /\ lt[i] = ct[i]
      <3>1. i <= Len(lt) /\ ct[i] = l[i + 1]
        BY <1>5, <2>1
      <3>2. QED
        BY <1>5, <3>1
    <2>2. \A i \in ByArgv(ct) : i \in 1 .. Len(lt) /\ Named(procs[lt[i]].kind)
      BY <1>6, <2>1, AgentNames DEF ByArgv
    <2>3. \A i \in ByName(ct) : i \in 1 .. Len(lt) /\ i \in Agents(lt)
      BY <1>6, <2>1, AgentNames DEF ByName, Agents
    <2>4. ASSUME NEW i \in 1 .. Len(lt)
          PROVE  i \in 1 .. Len(ct) /\ ct[i] = lt[i] /\ lt[i] \in Living
      BY <1>5, <2>4
    <2>5. \A i \in Agents(lt) : i \in ByArgv(ct)
      BY <1>6, <2>4, AgentNames DEF ByArgv, Agents
    <2>6. \A i \in 1 .. Len(lt) : procs[lt[i]].kind = "claude" => i \in ByName(ct)
      BY <1>6, <2>4, AgentNames DEF ByName
    <2>7. QED
      BY <2>2, <2>3, <2>5, <2>6
  <1>8. Owner(h) = IF Agents(lt) # {} THEN lt[Min(Agents(lt))] ELSE Absent
    BY <1>2, <1>4, <1>5, OwnerIs
  <1>9. PICK a : a = Min(Agents(lt)) /\ a \in Agents(lt) /\ \A i \in Agents(lt) : a <= i
    <2>1. Agents(lt) \subseteq Nat /\ Agents(lt) # {}
      BY <1>5, <1>8 DEF Agents
    <2>2. QED
      BY <2>1, Least
  <1>10. a \in 1 .. Len(lt) /\ lt[a] = Owner(h)
    BY <1>8, <1>9 DEF Agents
  <1>11. AgentPid(h) = IF ByName(ct) # {} THEN ct[Min(ByName(ct))]
                       ELSE IF ByArgv(ct) # {} THEN ct[Min(ByArgv(ct))] ELSE procs[h].ppid
    BY <1>2, <1>4, <1>5, AgentPidIs
  <1>12. ASSUME Heard(h)
         PROVE  \E b \in 1 .. Len(lt) : a <= b /\ AgentPid(h) = ct[b]
    <2>1. ByArgv(ct) # {}
      BY <1>7, <1>9
    <2>2. ByName(ct) \subseteq Nat /\ ByArgv(ct) \subseteq Nat
      BY <1>5, <1>7
    <2>3. CASE ByName(ct) # {}
      <3>1. Min(ByName(ct)) \in ByName(ct)
        BY <2>2, <2>3, Least
      <3>2. QED
        BY <1>7, <1>9, <1>11, <2>3, <3>1
    <2>4. CASE ByName(ct) = {}
      <3>1. Min(ByArgv(ct)) \in ByArgv(ct)
        BY <2>1, <2>2, Least
      <3>2. \A i \in 1 .. a - 1 : ~Named(procs[lt[i]].kind)
        <4>1. Agents(lt) # {} /\ a = Min(Agents(lt))
          BY <1>9
        <4>2. \/ \E i \in 1 .. Len(lt) : procs[lt[i]].kind = "claude"
              \/ \A i \in 1 .. a - 1 : ~Named(procs[lt[i]].kind)
          BY <1>2, <1>4, <1>5, <1>12, <4>1, HeardIs
        <4>3. QED
          BY <1>7, <2>4, <4>2
      <3>3. PICK b : b = Min(ByArgv(ct))
        OBVIOUS
      <3>4. b \in 1 .. Len(lt) /\ Named(procs[lt[b]].kind) /\ a \in 1 .. Len(lt)
        BY <1>7, <1>10, <3>1, <3>3
      <3>5. a <= b
        BY <1>5, <3>2, <3>4
      <3>6. QED
        BY <1>11, <2>1, <2>4, <3>3, <3>4, <3>5
    <2>5. QED
      BY <2>3, <2>4
  <1>13. a + 1 \in Nat /\ 1 < a + 1 /\ a + 1 <= Len(l) /\ l[a + 1] = Owner(h)
    BY <1>5, <1>10
  <1>14. ASSUME Heard(h)
         PROVE  \E b \in Nat : a + 1 <= b /\ b <= Len(l) /\ l[b] = AgentPid(h)
    <2>1. PICK b \in 1 .. Len(lt) : a <= b /\ AgentPid(h) = ct[b]
      BY <1>12, <1>14
    <2>2. b \in 1 .. Len(ct) /\ b <= Len(lt) /\ b + 1 \in Nat /\ a + 1 <= b + 1 /\ b + 1 <= Len(l)
      BY <1>5, <1>10, <2>1
    <2>3. l[b + 1] = AgentPid(h)
      BY <1>5, <2>1, <2>2
    <2>4. QED
      BY <2>2, <2>3
  <1>15. PICK b \in Nat : Heard(h) => a + 1 <= b /\ b <= Len(l) /\ l[b] = AgentPid(h)
    <2>1. CASE Heard(h)
      BY <1>14, <2>1
    <2>2. CASE ~Heard(h)
      BY <1>13, <2>2
    <2>3. QED
      BY <2>1, <2>2
  <1>16. QED
    BY <1>2, <1>13, <1>15

(* A hook declares under a pid that every tool its agent starts has in its *)
(* chain, through a shell whose command line names the hook's own file if  *)
(* an agent above is known by its name; an agent known by its command line *)
(* only is found where no such shell comes before it.  Then the reconciler *)
(* lays the declaration to the tool's flows.                               *)
THEOREM HookCoversToolsHolds ==
    ASSUME Recycled
    PROVE  Spec => []HookCoversTools
  <1>1. LineInv /\ KinInv => HookCoversTools
    <2> SUFFICES ASSUME LineInv, KinInv, calm, NEW h \in Living, NEW t \in Living,
                        h # t, Before(h), Before(t), Owner(h) # Absent, Heard(h),
                        procs[t].ppid = Owner(h), Owner(t) = Owner(h)
                 PROVE  AgentPid(h) \in ToSet(Ancestors(Snapshot, t))
      BY DEF HookCoversTools
    <2>1. PICK s : s = Snapshot /\ Usable(s)
      BY UsableNow
    <2>2. h \in Pid /\ t \in Pid /\ Ordered(procs) /\ Alive(procs) = Living
      BY NowOrdered DEF Living
    <2>3. PICK l, m, c, d : /\ l = TrueLine(h) /\ m = TrueLine(t) /\ d = setting.depth
                            /\ c = Ancestors(s, t) /\ d \in Nat
      BY NowOrdered
    <2>4. Descends(procs, l, h, d) /\ Descends(procs, m, t, d) /\ Tops(c, m)
      BY <2>1, <2>2, <2>3, ChainFacts
    <2>5. PICK a \in Nat, b \in Nat :
             1 < a /\ a <= b /\ b <= Len(l) /\ l[a] = Owner(h) /\ l[b] = AgentPid(h)
      BY <2>3, DeclaredFacts
    <2>6. Len(m) \in Nat /\ Len(m) >= 2 /\ m[2] = Owner(h)
      <3>1. PICK u \in Nat : 1 < u /\ u <= Len(m) /\ m[u] = Owner(h)
        BY <2>3, DeclaredFacts
      <3>2. Len(m) \in Nat /\ 1 \in 1 .. Len(m) - 1 /\ m[1] = t
        BY <2>4, <3>1 DEF Descends
      <3>3. m[1 + 1] \in Parents(procs, m[1])
        BY <2>4, <3>2 DEF Descends
      <3>4. m[2] \in Living /\ procs[m[2]].id = procs[t].parent
        BY <2>2, <3>2, <3>3 DEF Parents
      <3>5. procs[t].ppid = m[2]
        BY <3>4 DEF KinInv, IdInv
      <3>6. QED
        BY <3>2, <3>5
    <2>7. a \in 1 .. Len(l) /\ 2 \in 1 .. Len(m) /\ Len(l) \in Nat /\ l[a] = m[2] /\ 2 <= a
      <3>1. Len(l) \in Nat
        BY <2>4 DEF Descends
      <3>2. QED
        BY <2>5, <2>6, <3>1
    <2>8. \A k \in Nat : a + k <= Len(l) => 2 + k <= Len(m) /\ m[2 + k] = l[a + k]
      BY <2>2, <2>3, <2>4, <2>7, SharedLine
    <2>9. PICK k \in Nat : a + k = b
      <3>1. b - a \in Nat /\ a + (b - a) = b
        BY <2>5
      <3>2. QED
        BY <3>1
    <2>10. 2 + k \in 1 .. Len(m) /\ m[2 + k] = AgentPid(h)
      <3>1. 2 + k <= Len(m) /\ m[2 + k] = l[b]
        BY <2>5, <2>8, <2>9
      <3>2. QED
        BY <2>5, <2>6, <3>1
    <2>11. \A i \in 1 .. Len(m) : m[i] \in ToSet(c)
      BY <2>2, <2>3, <2>4, TailFacts
    <2>12. QED
      BY <2>1, <2>3, <2>10, <2>11
  <1>2. QED
    BY <1>1, KinAlways, PTL

-----------------------------------------------------------------------------
(* The walk of attribute() up the true line.                               *)

\* Nobody among the first n of line l is an agent that a look can tell.
Passed(l, n) ==
  \A i \in 1 .. n : /\ procs[l[i]].kind # "claude"
                    /\ setting.ps = "works" => ~IsAgent(procs[l[i]].kind)

\* Walk w has come to the n-th of line l.
Walked(w, l, n) ==
  /\ n \in 1 .. Len(l) /\ w.depth + 1 = n /\ w.depth \in Nat /\ w.cur = l[n]
  /\ \/ w.pc = "own" /\ n = 1 /\ w.seen = {} /\ w.name = Name(procs[w.pid].kind)
     \/ w.pc = "parent" /\ Passed(l, n) /\ w.seen = {l[i] : i \in 2 .. n}
     \/ /\ w.pc = "match" /\ Passed(l, n) /\ w.seen = {l[i] : i \in 2 .. n} \cup {w.next}
        /\ IF w.next \in Living THEN n < Len(l) /\ l[n + 1] = w.next ELSE Len(l) = n

StandInv ==
  walk # Absent /\ calm =>
    walk.pid \in Pid /\ Before(walk.pid) /\ \E n \in Nat : Walked(walk, TrueLine(walk.pid), n)

\* What the answer about the first of line l has to be.
Right(hit, l) ==
  LET kinds == {procs[q].kind : q \in ToSet(l)}
  IN  /\ "claude" \in kinds => hit
      /\ setting.ps = "works" => (hit <=> \E k \in kinds : IsAgent(k))

FoundInv ==
  verdict # Absent /\ calm /\ ~verdict.cached =>
    verdict.pid \in Living /\ Right(verdict.hit, TrueLine(verdict.pid))

OrderInv == Ordered(procs) /\ setting.depth \in Nat

LEMMA OrderAlways ==
    ASSUME Recycled
    PROVE  Spec => []OrderInv
  <1>1. LineInv /\ KinInv => OrderInv
    BY NowOrdered DEF OrderInv
  <1>2. QED
    BY <1>1, KinAlways, PTL

\* The lines of the living, in a table with others besides who are not their parents.
LEMMA LinesStay ==
    ASSUME NEW P, NEW Q, Ordered(P), Ordered(Q), NEW d \in Nat,
           \A q \in Alive(P) : q \in Alive(Q) /\ Q[q] = P[q],
           \A q \in Alive(P), r \in Alive(Q) : Q[r].id = P[q].parent => r \in Alive(P)
    PROVE  \A p \in Alive(P) : LineOf(Q, p, d) = LineOf(P, p, d)
  <1> SUFFICES ASSUME NEW p \in Alive(P)
               PROVE  LineOf(Q, p, d) = LineOf(P, p, d)
    OBVIOUS
  <1>1. PICK l, m : l = LineOf(P, p, d) /\ m = LineOf(Q, p, d)
    OBVIOUS
  <1>2. Descends(P, l, p, d) /\ Descends(Q, m, p, d)
    BY <1>1, LineOfFacts
  <1>3. \A q \in Alive(P) : Parents(Q, q) = Parents(P, q)
    BY DEF Parents
  <1>4. /\ l \in Seq(Alive(P)) /\ Len(l) \in Nat /\ Len(l) >= 1
        /\ \A i \in 1 .. Len(l) : l[i] \in Alive(P) /\ Q[l[i]] = P[l[i]]
    BY <1>2 DEF Descends
  <1>5. Descends(Q, l, p, d)
    <2>1. l \in Seq(Alive(Q))
      BY <1>4
    <2>2. \A i \in 1 .. Len(l) - 1 : l[i + 1] \in Parents(Q, l[i])
      <3>1. \A i \in 1 .. Len(l) - 1 : i \in 1 .. Len(l) /\ l[i + 1] \in Parents(P, l[i])
        BY <1>2, <1>4 DEF Descends
      <3>2. QED
        BY <1>3, <1>4, <3>1
    <2>3. /\ \A i, j \in 1 .. Len(l) : i < j => Q[l[j]].id < Q[l[i]].id
          /\ \A i \in 1 .. Len(l) : Q[l[i]].start <= Q[p].start
      BY <1>2, <1>4 DEF Descends
    <2>4. Len(l) <= d => Parents(Q, l[Len(l)]) = {}
      <3>1. l[Len(l)] \in Alive(P)
        BY <1>4
      <3>2. QED
        BY <1>2, <1>3, <3>1 DEF Descends
    <2>5. Len(l) \in 1 .. d + 1 /\ l[1] = p
      BY <1>2 DEF Descends
    <2>6. QED
      BY <2>1, <2>2, <2>3, <2>4, <2>5 DEF Descends
  <1>6. l = m
    BY <1>2, <1>5, OneLine
  <1>7. QED
    BY <1>1, <1>6

\* In a calm tick the world only changes by who is born, and no line does.
LEMMA CalmWorld ==
    ASSUME LineInv, KinInv, OrderInv, OrderInv', calm',
           \/ UNCHANGED <<setting, world>>
           \/ \E p \in Pid, parent \in Living \cup {Root}, kind \in Kinds : Spawn(p, parent, kind)
    PROVE  /\ calm /\ setting' = setting
           /\ \A p \in Living : /\ p \in Living' /\ procs'[p] = procs[p]
                                /\ TrueLine(p)' = TrueLine(p)
           /\ \A p : Before(p) => Before(p)'
           /\ \A p \in used : p \in Living' => p \in Living
  <1>1. calm /\ setting' = setting /\ clock' = clock
    BY DEF Spawn, world
  <1>2. /\ \A q \in Living : q \in Living' /\ procs'[q] = procs[q]
        /\ \A q \in Living, r \in Living' : procs'[r].id = procs[q].parent => r \in Living
    <2>1. CASE UNCHANGED <<setting, world>>
      BY <2>1 DEF world, Living
    <2>2. ASSUME NEW p \in Pid, NEW parent \in Living \cup {Root}, NEW kind \in Kinds,
                 Spawn(p, parent, kind)
          PROVE  /\ \A q \in Living : q \in Living' /\ procs'[q] = procs[q]
                 /\ \A q \in Living, r \in Living' : procs'[r].id = procs[q].parent => r \in Living
      <3>1. PICK new : procs' = [procs EXCEPT ![p] = new] /\ new.id = births + 1
        <4>1. PICK r : r = [id |-> births + 1, parent |-> IF parent = Root THEN 0 ELSE procs[parent].id,
                            ppid |-> parent, start |-> clock, kind |-> kind,
                            kin |-> IsAgent(kind) \/ (parent # Root /\ procs[parent].kin)]
          OBVIOUS
        <4>2. r.id = births + 1
          BY <4>1
        <4>3. procs' = [procs EXCEPT ![p] = r]
          BY <2>2, <4>1 DEF Spawn
        <4>4. QED
          BY <4>2, <4>3
      <3>2. p \notin Living /\ procs \in Table /\ births \in Nat
        BY <2>2 DEF Spawn, Living, LineInv, TableInv
      <3>3. procs'[p] = new /\ \A q \in Pid : q # p => procs'[q] = procs[q]
        BY <3>1, <3>2 DEF Table
      <3>4. \A q \in Living : q \in Living' /\ procs'[q] = procs[q]
        BY <3>2, <3>3 DEF Living
      <3>5. \A q \in Living : births + 1 # procs[q].parent
        <4>1. ASSUME NEW q \in Living
              PROVE  births + 1 # procs[q].parent
          <5>1. procs[q].id \in 1 .. births /\ procs[q].parent < procs[q].id
            BY DEF KinInv, IdInv
          <5>2. procs[q].parent \in Nat
            BY LivingFacts DEF LineInv, Record
          <5>3. QED
            BY <3>2, <5>1, <5>2
        <4>2. QED
          BY <4>1
      <3>6. \A r \in Living' : r = p \/ r \in Living
        BY <3>3 DEF Living
      <3>7. QED
        BY <3>1, <3>3, <3>4, <3>5, <3>6
    <2>3. QED
      BY <2>1, <2>2
  <1>3. PICK P, Q, d : P = procs /\ Q = procs' /\ d = setting.depth
    OBVIOUS
  <1>4. /\ Ordered(P) /\ Ordered(Q) /\ d \in Nat /\ d = setting.depth'
        /\ Alive(P) = Living /\ Alive(Q) = Living'
    <2>1. Alive(P) = Living /\ Alive(Q) = Living'
      BY <1>3 DEF Alive, Living
    <2>2. Ordered(Q)
      BY <1>3 DEF OrderInv
    <2>3. QED
      BY <1>1, <1>3, <2>1, <2>2 DEF OrderInv
  <1>5. \A p \in Alive(P) : LineOf(Q, p, d) = LineOf(P, p, d)
    BY <1>2, <1>3, <1>4, LinesStay
  <1>6. \A p : TrueLine(p) = LineOf(P, p, d)
    BY <1>3, TrueLineIs
  <1>7. \A p : TrueLine(p)' = LineOf(Q, p, d)
    <2>1. \A p : TrueLine(p)' = LineOf(procs', p, setting.depth')
      BY DEF TrueLine, LineOf, Rises, Rise, Parents, Alive, Living
    <2>2. QED
      BY <1>3, <1>4, <2>1
  <1>8. \A p : Before(p) => Before(p)'
    BY <1>1, <1>2 DEF Before
  <1>9. \A p \in used : p \in Living' => p \in Living
    <2>1. CASE UNCHANGED <<setting, world>>
      BY <2>1 DEF world, Living
    <2>2. ASSUME NEW p \in Pid, NEW parent \in Living \cup {Root}, NEW kind \in Kinds,
                 Spawn(p, parent, kind)
          PROVE  \A q \in used : q \in Living' => q \in Living
      <3>1. p \notin used /\ procs \in Table
        BY <2>2 DEF Spawn, LineInv, TableInv
      <3>2. \A q \in Pid : q # p => procs'[q] = procs[q]
        BY <2>2, <3>1 DEF Spawn, Table
      <3>3. QED
        BY <3>1, <3>2 DEF Living
    <2>3. QED
      BY <2>1, <2>2
  <1>10. QED
    BY <1>1, <1>2, <1>4, <1>5, <1>6, <1>7, <1>8, <1>9

\* In a calm world that only grows, walk and answer are as right as they were.
LEMMA StandStays ==
    ASSUME LineInv, KinInv, OrderInv, OrderInv', StandInv,
           \/ UNCHANGED <<setting, world>>
           \/ \E p \in Pid, parent \in Living \cup {Root}, kind \in Kinds : Spawn(p, parent, kind),
           walk' = walk
    PROVE  StandInv'
  <1> SUFFICES ASSUME walk # Absent, calm'
               PROVE  walk.pid \in Pid /\ Before(walk.pid)'
                      /\ \E n \in Nat : Walked(walk, TrueLine(walk.pid), n)'
    BY DEF StandInv
  <1>1. /\ calm /\ setting' = setting
        /\ \A p \in Living : p \in Living' /\ procs'[p] = procs[p] /\ TrueLine(p)' = TrueLine(p)
        /\ \A p : Before(p) => Before(p)'
        /\ \A p \in used : p \in Living' => p \in Living
    BY CalmWorld
  <1>2. walk.pid \in Pid /\ Before(walk.pid) /\ walk.pid \in Living
    BY <1>1 DEF StandInv, Before
  <1>3. PICK l : l = TrueLine(walk.pid) /\ l = TrueLine(walk.pid)'
    BY <1>1, <1>2
  <1>4. PICK n \in Nat : Walked(walk, l, n)
    BY <1>1, <1>3 DEF StandInv
  <1>5. l \in Seq(Living) /\ Len(l) \in Nat /\ \A i \in 1 .. Len(l) : l[i] \in Living
    <2>1. Descends(procs, l, walk.pid, setting.depth)
      BY <1>2, <1>3, NowOrdered, LineOfFacts, TrueLineIs
    <2>2. QED
      BY <2>1, NowOrdered DEF Descends
  <1>6. Passed(l, n) /\ n \in 1 .. Len(l) => Passed(l, n)'
    <2>1. n \in 1 .. Len(l) => \A i \in 1 .. n : procs'[l[i]] = procs[l[i]]
      BY <1>1, <1>5
    <2>2. QED
      BY <1>1, <2>1 DEF Passed
  <1>7. walk.pc = "match" => (walk.next \in Living' <=> walk.next \in Living)
    <2>1. walk.pc = "match" => walk.next \in used
      BY DEF LineInv, WalkInv, Visited, Held
    <2>2. QED
      BY <1>1, <2>1
  <1>8. Walked(walk, l, n)'
    <2>1. n \in 1 .. Len(l) /\ walk.depth + 1 = n /\ walk.depth \in Nat /\ walk.cur = l[n]
      BY <1>4 DEF Walked
    <2>2. CASE walk.pc = "own" /\ n = 1 /\ walk.seen = {} /\ walk.name = Name(procs[walk.pid].kind)
      <3>1. procs'[walk.pid] = procs[walk.pid]
        BY <1>1, <1>2
      <3>2. QED
        BY <2>1, <2>2, <3>1 DEF Walked
    <2>3. CASE walk.pc = "parent" /\ Passed(l, n) /\ walk.seen = {l[i] : i \in 2 .. n}
      BY <1>6, <2>1, <2>3 DEF Walked
    <2>4. CASE /\ walk.pc = "match" /\ Passed(l, n) /\ walk.seen = {l[i] : i \in 2 .. n} \cup {walk.next}
               /\ IF walk.next \in Living THEN n < Len(l) /\ l[n + 1] = walk.next ELSE Len(l) = n
      BY <1>6, <1>7, <2>1, <2>4 DEF Walked
    <2>5. QED
      BY <1>4, <2>2, <2>3, <2>4 DEF Walked
  <1>9. QED
    BY <1>1, <1>2, <1>3, <1>8

LEMMA FoundStays ==
    ASSUME LineInv, KinInv, OrderInv, OrderInv', FoundInv,
           \/ UNCHANGED <<setting, world>>
           \/ \E p \in Pid, parent \in Living \cup {Root}, kind \in Kinds : Spawn(p, parent, kind),
           verdict' = verdict
    PROVE  FoundInv'
  <1> SUFFICES ASSUME verdict # Absent, calm', ~verdict.cached
               PROVE  verdict.pid \in Living' /\ Right(verdict.hit, TrueLine(verdict.pid))'
    BY DEF FoundInv
  <1>1. /\ calm /\ setting' = setting
        /\ \A p \in Living : p \in Living' /\ procs'[p] = procs[p] /\ TrueLine(p)' = TrueLine(p)
    BY CalmWorld
  <1>2. verdict.pid \in Living /\ Right(verdict.hit, TrueLine(verdict.pid))
    BY <1>1 DEF FoundInv
  <1>3. PICK l : l = TrueLine(verdict.pid) /\ l = TrueLine(verdict.pid)'
    BY <1>1, <1>2
  <1>4. l \in Seq(Living)
    <2>1. Descends(procs, l, verdict.pid, setting.depth)
      BY <1>2, <1>3, NowOrdered, LineOfFacts, TrueLineIs
    <2>2. QED
      BY <2>1, NowOrdered DEF Descends
  <1>5. \A q \in ToSet(l) : procs'[q] = procs[q]
    BY <1>1, <1>4 DEF ToSet
  <1>6. {procs'[q].kind : q \in ToSet(l)} = {procs[q].kind : q \in ToSet(l)}
    BY <1>5
  <1>7. Right(verdict.hit, l)'
    BY <1>1, <1>2, <1>3, <1>6 DEF Right
  <1>8. QED
    BY <1>1, <1>2, <1>3, <1>7

\* When an agent in the line was matched, and when the whole line was passed.
LEMMA RightFacts ==
    ASSUME NEW l \in Seq(Living)
    PROVE  /\ \A i \in 1 .. Len(l) : IsAgent(procs[l[i]].kind) => Right(TRUE, l)
           /\ Passed(l, Len(l)) => Right(FALSE, l)
  <1>1. \A i \in 1 .. Len(l) : l[i] \in ToSet(l)
    BY DEF ToSet
  <1>2. \A q \in ToSet(l) : \E i \in 1 .. Len(l) : q = l[i]
    BY DEF ToSet
  <1>3. \A i \in 1 .. Len(l) : IsAgent(procs[l[i]].kind) => Right(TRUE, l)
    BY <1>1 DEF Right
  <1>4. Passed(l, Len(l)) => Right(FALSE, l)
    BY <1>2 DEF Right, Passed
  <1>5. QED
    BY <1>3, <1>4

LEMMA KnownFacts ==
    ASSUME Speaking, NEW q \in Living, procs[q].kind \in Kinds, NEW argv \in Argv(q)
    PROVE  /\ Match(Name(procs[q].kind), argv) => IsAgent(procs[q].kind)
           /\ ~Match(Name(procs[q].kind), argv) =>
                 /\ procs[q].kind # "claude"
                 /\ setting.ps = "works" => ~IsAgent(procs[q].kind)
  <1>1. procs[q].kind \in {"claude", "nodeAgent", "node", "shell"}
    BY LineageAssumption
  <1>2. /\ argv = Named(procs[q].kind) \/ argv = FALSE
        /\ setting.ps = "works" => argv = Named(procs[q].kind)
    BY DEF Argv
  <1>3. CASE procs[q].kind = "claude"
    BY <1>3 DEF Match, Name, IsAgent
  <1>4. CASE procs[q].kind = "nodeAgent"
    <2>1. IsAgent(procs[q].kind) /\ procs[q].kind # "claude" /\ Named(procs[q].kind) = TRUE
      BY <1>4 DEF IsAgent, Named
    <2>2. CASE argv = TRUE
      BY <2>1, <2>2 DEF Match
    <2>3. CASE argv = FALSE
      BY <1>2, <2>1, <2>3
    <2>4. QED
      BY <1>2, <2>1, <2>2, <2>3
  <1>5. CASE procs[q].kind \in {"node", "shell"}
    <2>1. /\ ~IsAgent(procs[q].kind) /\ procs[q].kind # "claude" /\ Named(procs[q].kind) = FALSE
          /\ Name(procs[q].kind) # "claude"
      BY <1>5 DEF IsAgent, Named, Name, Speaking
    <2>2. argv = FALSE
      BY <1>2, <2>1
    <2>3. QED
      BY <2>1, <2>2 DEF Match
  <1>6. QED
    BY <1>1, <1>3, <1>4, <1>5

LEMMA ReturnFound ==
    ASSUME NEW hit \in BOOLEAN, NEW w \in Pid, w = walk.pid, Return(hit), walk # Absent,
           UNCHANGED <<setting, world>>, OrderInv, LineInv, KinInv,
           calm => w \in Living /\ Right(hit, TrueLine(w))
    PROVE  StandInv' /\ FoundInv'
  <1>1. walk' = Absent /\ verdict'.pid = w /\ verdict'.hit = hit /\ calm' = calm
    BY DEF Return, Answer, world
  <1>2. StandInv'
    BY <1>1 DEF StandInv
  <1>3. Living' = Living /\ procs' = procs /\ setting' = setting
    BY DEF world, Living
  <1>4. \A p : TrueLine(p)' = TrueLine(p)
    BY <1>3 DEF TrueLine
  <1>5. calm => w \in Living' /\ Right(hit, TrueLine(w))'
    BY <1>3, <1>4 DEF Right
  <1>6. FoundInv'
    BY <1>1, <1>5 DEF FoundInv
  <1>7. QED
    BY <1>2, <1>6

\* A walk begun or continued in a world that did not move.
LEMMA StandHolds ==
    ASSUME UNCHANGED <<setting, world>>, NEW w, walk' = w,
           calm => w.pid \in Pid /\ Before(w.pid) /\ \E n \in Nat : Walked(w, TrueLine(w.pid), n)
    PROVE  StandInv'
  <1>1. Living' = Living /\ procs' = procs /\ setting' = setting /\ clock' = clock /\ calm' = calm
    BY DEF world, Living
  <1>2. \A p : TrueLine(p)' = TrueLine(p)
    BY <1>1 DEF TrueLine
  <1>3. \A p : Before(p)' <=> Before(p)
    BY <1>1 DEF Before
  <1>4. \A l, n : Walked(w, l, n)' <=> Walked(w, l, n)
    BY <1>1 DEF Walked, Passed
  <1>5. PICK p, l : p = w.pid /\ l = TrueLine(p)
    OBVIOUS
  <1>6. calm => p \in Pid /\ Before(p)' /\ \E n \in Nat : Walked(w, l, n)'
    BY <1>3, <1>4, <1>5
  <1>7. walk'.pid = p /\ TrueLine(p)' = l
    BY <1>2, <1>5
  <1>8. QED
    BY <1>1, <1>6, <1>7 DEF StandInv

\* Where a walk stands, in words of its own.
Stands(w, l, n) ==
  /\ w \in Pid /\ Before(w) /\ w \in Living
  /\ l = TrueLine(w) /\ Descends(procs, l, w, setting.depth)
  /\ l \in Seq(Living) /\ Len(l) \in Nat /\ n \in Nat /\ n \in 1 .. Len(l)
  /\ \A i \in 1 .. Len(l) : l[i] \in Living /\ Before(l[i]) /\ l[i] \in Pid

LEMMA StandFacts ==
    ASSUME LineInv, KinInv, StandInv, walk # Absent, calm
    PROVE  \E w, l, n : w = walk.pid /\ Stands(w, l, n) /\ Walked(walk, l, n)
  <1>1. PICK w, l : w = walk.pid /\ l = TrueLine(w)
    OBVIOUS
  <1>2. w \in Pid /\ Before(w) /\ w \in Living
    BY <1>1 DEF StandInv, Before
  <1>3. PICK n \in Nat : Walked(walk, l, n)
    BY <1>1 DEF StandInv
  <1>4. Descends(procs, l, w, setting.depth)
    BY <1>1, <1>2, NowOrdered, LineOfFacts, TrueLineIs
  <1>5. l \in Seq(Living) /\ Len(l) \in Nat /\ \A i \in 1 .. Len(l) : l[i] \in Living
    <2>1. l \in Seq(Living)
      BY <1>4, NowOrdered DEF Descends
    <2>2. QED
      BY <2>1
  <1>6. ASSUME NEW i \in 1 .. Len(l)
        PROVE  l[i] \in Living /\ Before(l[i]) /\ l[i] \in Pid
    <2>1. l[i] \in Living /\ l[i] \in Pid
      BY <1>5 DEF Living
    <2>2. procs[l[i]].start <= procs[w].start /\ procs[w].start < clock
      BY <1>2, <1>4 DEF Descends, Before
    <2>3. procs[l[i]].start \in Nat /\ procs[w].start \in Nat /\ clock \in Nat
      BY <1>2, <2>1, LivingFacts, Constants DEF LineInv, TableInv
    <2>4. QED
      BY <2>1, <2>2, <2>3 DEF Before
  <1>7. n \in 1 .. Len(l)
    BY <1>3 DEF Walked
  <1>8. QED
    BY <1>1, <1>2, <1>3, <1>4, <1>5, <1>6, <1>7 DEF Stands

LEMMA AgentForStand ==
    ASSUME LineInv, KinInv, NEW p \in Pid, AgentFor(p)
    PROVE  StandInv' /\ FoundInv'
  <1>1. UNCHANGED <<setting, world>> /\ walk = Absent /\ Before(p) /\ p \in Living
    BY DEF AgentFor, Before
  <1>2. CASE verdict' # Absent
    <2>1. verdict'.cached = TRUE /\ walk' = Absent
      BY <1>1, <1>2 DEF AgentFor, Answer
    <2>2. QED
      BY <2>1 DEF StandInv, FoundInv
  <1>3. CASE verdict' = Absent /\ walk' = Absent
    BY <1>3 DEF StandInv, FoundInv
  <1>4. CASE verdict' = Absent /\ walk' # Absent
    <2>1. PICK w : w = [pid |-> p, name |-> Name(procs[p].kind),
                        kin |-> procs[p].kin, pc |-> "own", cur |-> p, next |-> Root,
                        depth |-> 0, seen |-> {}]
      OBVIOUS
    <2>2. walk' = w
      BY <1>1, <1>4, <2>1 DEF AgentFor
    <2>3. /\ w.pid = p /\ w.name = Name(procs[p].kind) /\ w.pc = "own" /\ w.cur = p
          /\ w.depth = 0 /\ w.seen = {}
      BY <2>1
    <2>4. PICK l : l = TrueLine(p)
      OBVIOUS
    <2>5. Descends(procs, l, p, setting.depth)
      BY <1>1, <2>4, NowOrdered, LineOfFacts, TrueLineIs
    <2>6. Len(l) \in Nat /\ Len(l) >= 1 /\ l[1] = p
      <3>1. l \in Seq(Living)
        BY <2>5, NowOrdered DEF Descends
      <3>2. Len(l) \in Nat
        BY <3>1
      <3>3. QED
        BY <2>5, <3>2, NowOrdered DEF Descends
    <2>7. Walked(w, l, 1)
      BY <2>3, <2>6 DEF Walked
    <2>8. StandInv'
      BY <1>1, <2>2, <2>3, <2>4, <2>7, StandHolds
    <2>9. QED
      BY <1>4, <2>8 DEF FoundInv
  <1>5. QED
    BY <1>2, <1>3, <1>4

LEMMA OwnStand ==
    ASSUME LineInv, KinInv, OrderInv, OrderInv', StandInv, FoundInv, Speaking, Own
    PROVE  StandInv' /\ FoundInv'
  <1>1. UNCHANGED <<setting, world>> /\ walk # Absent /\ walk.pc = "own"
    BY DEF Own
  <1>2. PICK argv \in Argv(walk.pid) :
          IF Match(walk.name, argv) THEN Return(TRUE)
          ELSE walk' = [walk EXCEPT !.pc = "parent"] /\ UNCHANGED <<cache, verdict>>
    BY DEF Own
  <1>3. walk.pid \in Pid /\ Shaped(walk)
    BY <1>1 DEF LineInv, WalkInv, Visited
  <1>4. CASE ~calm
    <2>1. calm' = calm
      BY <1>1 DEF world
    <2>2. QED
      BY <1>4, <2>1 DEF StandInv, FoundInv
  <1>5. CASE calm
    <2>1. PICK w, l, n : w = walk.pid /\ Stands(w, l, n) /\ Walked(walk, l, n)
      BY <1>1, <1>5, StandFacts
    <2>2. /\ w \in Living /\ w \in Pid /\ Before(w) /\ l = TrueLine(w) /\ l \in Seq(Living)
          /\ l[1] = w /\ 1 \in 1 .. Len(l) /\ n = 1 /\ walk.depth + 1 = n /\ walk.depth \in Nat
          /\ walk.cur = l[n] /\ walk.seen = {} /\ walk.name = Name(procs[w].kind)
      BY <1>1, <2>1 DEF Stands, Walked, Descends
    <2>3. procs[w].kind \in Kinds
      BY <2>2, LivingFacts DEF LineInv
    <2>4. CASE Match(walk.name, argv)
      <3>1. Return(TRUE)
        BY <1>2, <2>4
      <3>2. IsAgent(procs[l[1]].kind)
        BY <2>1, <2>2, <2>3, <2>4, KnownFacts
      <3>3. Right(TRUE, l)
        BY <2>2, <3>2, RightFacts
      <3>4. QED
        BY <1>1, <2>1, <2>2, <3>1, <3>3, ReturnFound
    <2>5. CASE ~Match(walk.name, argv)
      <3>1. walk' = [walk EXCEPT !.pc = "parent"] /\ verdict' = verdict
        BY <1>2, <2>5
      <3>2. PICK v : v = [walk EXCEPT !.pc = "parent"]
        OBVIOUS
      <3>3. /\ v.pid = w /\ v.pc = "parent" /\ v.depth = walk.depth /\ v.cur = walk.cur
            /\ v.seen = walk.seen
        BY <1>3, <2>1, <3>2 DEF Shaped
      <3>4. Passed(l, 1)
        BY <2>1, <2>2, <2>3, <2>5, KnownFacts DEF Passed
      <3>5. Walked(v, l, 1)
        BY <2>2, <3>3, <3>4 DEF Walked
      <3>6. StandInv'
        BY <1>1, <2>2, <3>1, <3>2, <3>3, <3>5, StandHolds
      <3>7. FoundInv'
        BY <1>1, <3>1, FoundStays
      <3>8. QED
        BY <3>6, <3>7
    <2>6. QED
      BY <2>4, <2>5
  <1>6. QED
    BY <1>4, <1>5

LEMMA LookNow ==
    ASSUME LineInv, KinInv, calm, NEW q \in Pid, NEW rec, rec = Info(Snapshot, q).rec
    PROVE  Sees(rec, q)
  <1>1. PICK s : s = Snapshot
    OBVIOUS
  <1>2. Usable(s) /\ rec = Info(s, q).rec
    BY <1>1, UsableNow
  <1>3. QED
    BY <1>2, LookFacts

\* What a calm look at the n-th of the line says of the next.
LEMMA NextUp ==
    ASSUME LineInv, KinInv, NEW w, NEW l, NEW n, Stands(w, l, n), NEW rec, Sees(rec, l[n])
    PROVE  /\ rec # Absent /\ rec.ppid \in Pid \cup {Root}
           /\ n < Len(l) => l[n + 1] = rec.ppid /\ rec.ppid \in Living
           /\ n <= setting.depth /\ rec.ppid \in Living => n < Len(l)
           /\ \A i \in 2 .. n : l[i] # rec.ppid
  <1>1. /\ n \in 1 .. Len(l) /\ n \in Nat /\ Len(l) \in Nat /\ setting.depth \in Nat
        /\ Descends(procs, l, w, setting.depth) /\ Ordered(procs) /\ Alive(procs) = Living
    BY NowOrdered DEF Stands
  <1>2. /\ l[n] \in Living /\ rec # Absent /\ rec.ppid \in Pid \cup {Root}
        /\ \A r \in Pid : r \in Parents(procs, l[n]) <=> r = rec.ppid /\ r \in Living
    BY <1>1 DEF Stands, Sees
  <1>3. n < Len(l) => l[n + 1] = rec.ppid /\ rec.ppid \in Living
    <2> SUFFICES ASSUME n < Len(l) PROVE l[n + 1] = rec.ppid /\ rec.ppid \in Living
      OBVIOUS
    <2>1. n \in 1 .. Len(l) - 1
      BY <1>1
    <2>2. l[n + 1] \in Parents(procs, l[n])
      BY <1>1, <2>1 DEF Descends
    <2>3. l[n + 1] \in Pid
      BY <2>2 DEF Parents, Alive
    <2>4. QED
      BY <1>2, <2>2, <2>3
  <1>4. n <= setting.depth /\ rec.ppid \in Living => n < Len(l)
    <2> SUFFICES ASSUME n <= setting.depth, rec.ppid \in Living, ~(n < Len(l)) PROVE FALSE
      OBVIOUS
    <2>1. n = Len(l)
      BY <1>1
    <2>2. Parents(procs, l[n]) = {}
      BY <1>1, <2>1 DEF Descends
    <2>3. rec.ppid \in Pid
      BY DEF Living
    <2>4. QED
      BY <1>2, <2>2, <2>3
  <1>5. ASSUME NEW i \in 2 .. n, l[i] = rec.ppid
        PROVE  FALSE
    <2>1. i \in 1 .. Len(l) /\ i \in Nat /\ i <= n
      BY <1>1
    <2>2. l[i] \in Living /\ l[i] \in Pid
      BY <2>1 DEF Stands
    <2>3. procs[l[i]].id = procs[l[n]].parent
      BY <1>2, <1>5, <2>2 DEF Parents
    <2>4. /\ procs[l[n]].parent < procs[l[n]].id
          /\ procs[l[n]].parent \in Nat /\ procs[l[n]].id \in Nat
      BY <1>1, <1>2 DEF Ordered
    <2>5. i # n => procs[l[n]].id < procs[l[i]].id
      <3>1. i # n => i < n
        BY <2>1, <1>1
      <3>2. QED
        BY <1>1, <2>1, <3>1 DEF Descends
    <2>6. QED
      BY <2>3, <2>4, <2>5
  <1>6. QED
    BY <1>2, <1>3, <1>4, <1>5

LEMMA ParentStand ==
    ASSUME LineInv, KinInv, OrderInv, OrderInv', StandInv, FoundInv, Parent
    PROVE  StandInv' /\ FoundInv'
  <1>1. UNCHANGED <<setting, world>> /\ walk # Absent /\ walk.pc = "parent"
    BY DEF Parent
  <1>2. Shaped(walk)
    BY <1>1 DEF LineInv, WalkInv
  <1>3. CASE ~calm
    <2>1. calm' = calm
      BY <1>1 DEF world
    <2>2. QED
      BY <1>3, <2>1 DEF StandInv, FoundInv
  <1>4. CASE calm
    <2>1. PICK w, l, n : w = walk.pid /\ Stands(w, l, n) /\ Walked(walk, l, n)
      BY <1>1, <1>4, StandFacts
    <2>2. /\ w \in Living /\ w \in Pid /\ Before(w) /\ l = TrueLine(w) /\ l \in Seq(Living)
          /\ n \in Nat /\ n \in 1 .. Len(l) /\ Len(l) \in Nat /\ walk.depth + 1 = n /\ walk.depth \in Nat
          /\ walk.cur = l[n] /\ Passed(l, n) /\ walk.seen = {l[i] : i \in 2 .. n}
          /\ Len(l) <= setting.depth + 1 /\ setting.depth \in Nat
      <3>1. Len(l) \in 1 .. setting.depth + 1 /\ setting.depth \in Nat
        BY <2>1, NowOrdered DEF Stands, Descends
      <3>2. QED
        BY <1>1, <2>1, <3>1 DEF Stands, Walked
    <2>3. ASSUME Return(FALSE), n = Len(l)
          PROVE  StandInv' /\ FoundInv'
      <3>1. Right(FALSE, l)
        BY <2>2, <2>3, RightFacts
      <3>2. QED
        BY <1>1, <2>1, <2>2, <2>3, <3>1, ReturnFound
    <2>4. CASE TooDeep
      <3>1. Return(FALSE)
        BY <2>4 DEF Parent
      <3>2. n = Len(l)
        BY <2>2, <2>4 DEF TooDeep
      <3>3. QED
        BY <2>3, <3>1, <3>2
    <2>5. CASE ~TooDeep
      <3>1. PICK rec : rec = Info(Snapshot, walk.cur).rec
        OBVIOUS
      <3>2. l[n] \in Pid /\ Sees(rec, l[n])
        BY <1>4, <2>1, <2>2, <3>1, LookNow DEF Stands
      <3>3. /\ rec # Absent /\ rec.ppid \in Pid \cup {Root}
            /\ n < Len(l) => l[n + 1] = rec.ppid /\ rec.ppid \in Living
            /\ n <= setting.depth /\ rec.ppid \in Living => n < Len(l)
            /\ \A i \in 2 .. n : l[i] # rec.ppid
        BY <2>1, <3>2, NextUp
      <3>4. n <= setting.depth
        BY <2>2, <2>5 DEF TooDeep
      <3>5. rec.ppid \notin walk.seen
        BY <2>2, <3>3
      <3>6. CASE rec.ppid = Root
        <4>1. Return(FALSE)
          BY <2>5, <3>1, <3>6 DEF Parent
        <4>2. rec.ppid \notin Living
          BY <3>6, Constants DEF Living
        <4>3. n = Len(l)
          BY <2>2, <3>3, <4>2
        <4>4. QED
          BY <2>3, <4>1, <4>3
      <3>7. CASE rec.ppid # Root
        <4>1. PICK v : v = [walk EXCEPT !.pc = "match", !.next = rec.ppid,
                                        !.seen = @ \cup {rec.ppid}]
          OBVIOUS
        <4>2. walk' = v /\ verdict' = verdict
          BY <2>5, <3>1, <3>3, <3>5, <3>7, <4>1 DEF Parent
        <4>3. /\ v.pid = w /\ v.pc = "match" /\ v.depth = walk.depth /\ v.cur = walk.cur
              /\ v.next = rec.ppid /\ v.seen = walk.seen \cup {rec.ppid}
          BY <1>2, <2>1, <4>1 DEF Shaped
        <4>4. IF v.next \in Living THEN n < Len(l) /\ l[n + 1] = v.next ELSE Len(l) = n
          BY <2>2, <3>3, <3>4, <4>3
        <4>5. Walked(v, l, n)
          BY <2>2, <4>3, <4>4 DEF Walked
        <4>6. StandInv'
          BY <1>1, <2>2, <4>2, <4>3, <4>5, StandHolds
        <4>7. FoundInv'
          BY <1>1, <4>2, FoundStays
        <4>8. QED
          BY <4>6, <4>7
      <3>8. QED
        BY <3>6, <3>7
    <2>6. QED
      BY <2>4, <2>5
  <1>5. QED
    BY <1>3, <1>4

LEMMA AncestorStand ==
    ASSUME LineInv, KinInv, OrderInv, OrderInv', StandInv, FoundInv, Speaking, Ancestor
    PROVE  StandInv' /\ FoundInv'
  <1>1. UNCHANGED <<setting, world>> /\ walk # Absent /\ walk.pc = "match"
    BY DEF Ancestor
  <1>2. Shaped(walk) /\ walk.next \in Pid
    BY <1>1 DEF LineInv, WalkInv, Visited
  <1>3. CASE ~calm
    <2>1. calm' = calm
      BY <1>1 DEF world
    <2>2. QED
      BY <1>3, <2>1 DEF StandInv, FoundInv
  <1>4. CASE calm
    <2>1. PICK w, l, n : w = walk.pid /\ Stands(w, l, n) /\ Walked(walk, l, n)
      BY <1>1, <1>4, StandFacts
    <2>2. PICK q : q = walk.next
      OBVIOUS
    <2>3. /\ w \in Living /\ w \in Pid /\ Before(w) /\ l = TrueLine(w) /\ l \in Seq(Living)
          /\ n \in Nat /\ n \in 1 .. Len(l) /\ Len(l) \in Nat /\ walk.depth + 1 = n /\ walk.depth \in Nat
          /\ walk.cur = l[n] /\ Passed(l, n) /\ walk.seen = {l[i] : i \in 2 .. n} \cup {q}
          /\ IF q \in Living THEN n < Len(l) /\ l[n + 1] = q ELSE Len(l) = n
      BY <1>1, <2>1, <2>2 DEF Stands, Walked
    <2>4. PICK rec : rec = Info(Snapshot, q).rec
      OBVIOUS
    <2>5. Sees(rec, q)
      BY <1>2, <1>4, <2>2, <2>4, LookNow
    <2>6. CASE q \notin Living
      <3>1. rec = Absent
        BY <2>5, <2>6 DEF Sees
      <3>2. Return(FALSE)
        BY <2>2, <2>4, <3>1 DEF Ancestor
      <3>3. Right(FALSE, l)
        BY <2>3, <2>6, RightFacts
      <3>4. QED
        BY <1>1, <2>1, <2>3, <3>2, <3>3, ReturnFound
    <2>7. CASE q \in Living
      <3>1. n < Len(l) /\ l[n + 1] = q /\ n + 1 \in 1 .. Len(l)
        BY <2>3, <2>7
      <3>2. Before(q)
        BY <2>1, <3>1 DEF Stands
      <3>3. rec # Absent /\ rec.kind = procs[q].kind
        BY <2>5, <3>2 DEF Sees
      <3>4. procs[q].kind \in Kinds
        BY <2>7, LivingFacts DEF LineInv
      <3>5. PICK argv \in Argv(q) :
              IF Match(Name(procs[q].kind), argv) THEN Return(TRUE)
              ELSE /\ walk' = [walk EXCEPT !.pc = "parent", !.cur = walk.next, !.depth = @ + 1]
                   /\ UNCHANGED <<cache, verdict>>
        BY <2>2, <2>4, <3>3 DEF Ancestor
      <3>6. CASE Match(Name(procs[q].kind), argv)
        <4>1. Return(TRUE)
          BY <3>5, <3>6
        <4>2. IsAgent(procs[l[n + 1]].kind)
          BY <2>7, <3>1, <3>4, <3>6, KnownFacts
        <4>3. Right(TRUE, l)
          BY <2>3, <3>1, <4>2, RightFacts
        <4>4. QED
          BY <1>1, <2>1, <2>3, <4>1, <4>3, ReturnFound
      <3>7. CASE ~Match(Name(procs[q].kind), argv)
        <4>1. PICK v : v = [walk EXCEPT !.pc = "parent", !.cur = q, !.depth = @ + 1]
          OBVIOUS
        <4>2. walk' = v /\ verdict' = verdict
          BY <2>2, <3>5, <3>7, <4>1
        <4>3. /\ v.pid = w /\ v.pc = "parent" /\ v.depth = walk.depth + 1 /\ v.cur = q
              /\ v.seen = walk.seen
          BY <1>2, <2>1, <4>1 DEF Shaped
        <4>4. Passed(l, n + 1)
          <5>1. /\ procs[q].kind # "claude"
                /\ setting.ps = "works" => ~IsAgent(procs[q].kind)
            BY <2>7, <3>4, <3>7, KnownFacts
          <5>2. \A i \in 1 .. n + 1 : i \in 1 .. n \/ i = n + 1
            BY <2>3
          <5>3. QED
            BY <2>3, <3>1, <5>1, <5>2 DEF Passed
        <4>5. v.seen = {l[i] : i \in 2 .. n + 1}
          <5>1. \A i : i \in 2 .. n + 1 <=> i \in 2 .. n \/ i = n + 1
            BY <2>3
          <5>2. {l[i] : i \in 2 .. n + 1} = {l[i] : i \in 2 .. n} \cup {l[n + 1]}
            BY <5>1
          <5>3. QED
            BY <2>3, <3>1, <4>3, <5>2
        <4>6. v.depth + 1 = n + 1 /\ v.depth \in Nat /\ v.cur = l[n + 1]
          BY <2>3, <3>1, <4>3
        <4>7. Walked(v, l, n + 1)
          BY <3>1, <4>3, <4>4, <4>5, <4>6 DEF Walked
        <4>8. n + 1 \in Nat
          BY <2>3
        <4>9. StandInv'
          BY <1>1, <2>3, <4>2, <4>3, <4>7, <4>8, StandHolds
        <4>10. FoundInv'
          BY <1>1, <4>2, FoundStays
        <4>11. QED
          BY <4>9, <4>10
      <3>8. QED
        BY <3>6, <3>7
    <2>8. QED
      BY <2>6, <2>7
  <1>5. QED
    BY <1>3, <1>4

LEMMA FoundStep ==
    ASSUME LineInv, KinInv, OrderInv, OrderInv', StandInv, FoundInv, Speaking, [Next]_vars
    PROVE  StandInv' /\ FoundInv'
  <1>1. ASSUME UNCHANGED <<walk, verdict>>,
               \/ UNCHANGED <<setting, world>>
               \/ \E p \in Pid, parent \in Living \cup {Root}, kind \in Kinds : Spawn(p, parent, kind)
        PROVE  StandInv' /\ FoundInv'
    BY <1>1, StandStays, FoundStays
  <1>2. ASSUME NEW p \in Pid, NEW parent \in Living \cup {Root}, NEW kind \in Kinds,
               Spawn(p, parent, kind)
        PROVE  StandInv' /\ FoundInv'
    <2>1. UNCHANGED <<walk, verdict>>
      BY <1>2 DEF Spawn
    <2>2. QED
      BY <1>1, <1>2, <2>1
  <1>3. CASE Expire \/ UNCHANGED vars
    BY <1>1, <1>3 DEF Expire, vars
  <1>4. ASSUME NEW p \in Pid, Exit(p)
        PROVE  StandInv' /\ FoundInv'
    <2>1. calm' = FALSE
      BY <1>4 DEF Exit
    <2>2. QED
      BY <2>1 DEF StandInv, FoundInv
  <1>5. CASE Tick
    <2>1. walk' = Absent /\ verdict' = Absent
      BY <1>5 DEF Tick
    <2>2. QED
      BY <2>1 DEF StandInv, FoundInv
  <1>6. CASE Own
    BY <1>6, OwnStand
  <1>7. CASE Parent
    BY <1>7, ParentStand
  <1>8. CASE Ancestor
    BY <1>8, AncestorStand
  <1>9. ASSUME NEW p \in Pid, AgentFor(p)
        PROVE  StandInv' /\ FoundInv'
    BY <1>9, AgentForStand
  <1>10. QED
    BY <1>2, <1>3, <1>4, <1>5, <1>6, <1>7, <1>8, <1>9 DEF Next

\* While the tick is calm, the walk finds exactly the agents among the living
\* ancestors that max_depth reaches; those known by name even where ps fails.  (Where
\* no shell's command line names an agent.)
THEOREM SteadyAgentFoundHolds ==
    ASSUME Recycled
    PROVE  Spec => []SteadyAgentFound
  <1> DEFINE Steady == Speaking => StandInv /\ FoundInv
  <1>1. Init => Steady
    BY DEF Init, StandInv, FoundInv
  <1>2. Steady => SteadyAgentFound
    BY DEF FoundInv, SteadyAgentFound, Right, Speaking
  <1>3. LineInv /\ KinInv /\ OrderInv /\ OrderInv' /\ Steady /\ [Next]_vars => Steady'
    <2>1. [Next]_vars => setting' = setting
      BY DEF Next, vars, Spawn, Exit, AgentFor, Own, Parent, Ancestor, Expire, Tick
    <2>2. QED
      BY <2>1, FoundStep DEF Speaking
  <1> HIDE DEF Steady
  <1>4. QED
    BY <1>1, <1>2, <1>3, LineAlways, KinAlways, OrderAlways, PTL DEF Spec
=============================================================================
