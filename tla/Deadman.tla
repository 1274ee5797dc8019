------------------------------ MODULE Deadman -------------------------------
(***************************************************************************)
(* The dead-man switch: the sentinel beats at the top of every tick, the   *)
(* sniffer (another process, under sudo) looks at the beat while packets   *)
(* arrive, and a restarted sentinel says for how long nobody watched.      *)
(* deadman.py, and its callers in Sampler.run / _tick and run_sniffer.     *)
(*                                                                         *)
(* Processes are (pid, start time) pairs; pids are used again.  One unit   *)
(* of time is one tick.  beat() replaces the file atomically, so a reader  *)
(* sees a whole beat or none.                                              *)
(***************************************************************************)
EXTENDS Integers

CONSTANTS Pid,        \* pids processes may get
          Stale,      \* BEAT_STALE_SEC
          Gap,        \* GAP_REPORT_SEC
          Period,     \* seconds between looks of the sniffer
          Throws,     \* TRUE: a tick may fail with an exception
          Traffic,    \* TRUE: a packet is captured in every unit of time
          Nameless,   \* TRUE: proc_start may fail for the sentinel's own pid
          Blurred,    \* TRUE: it may fail for a process the sniffer asks about
          Unwritten,  \* TRUE: writing a beat may fail
          MaxStart,   \* bound: processes started
          MaxAge,     \* bound: where ages end
          Absent

Start == 1 .. MaxStart
Beat  == [age : 0 .. MaxAge, pid : Pid, start : Start \cup {Absent}]

ASSUME DeadmanAssumption ==
    /\ {Stale, Gap, Period, MaxStart, MaxAge} \subseteq Nat
    /\ {Throws, Traffic, Nameless, Blurred, Unwritten} \subseteq BOOLEAN
    /\ Absent \notin Nat /\ Absent \notin Beat
    /\ Stale + Period + 1 < MaxAge /\ Gap < MaxAge

VARIABLES app,      \* "off", "launched", "running" or "hung"
          me,       \* the sentinel's pid
          procs,    \* procs[p]: start time of the process with pid p
          starts,   \* processes started so far
          beat,     \* the heartbeat file: age, pid, start
          ticked,   \* the sentinel has run its tick in this unit of time
          looked,   \* last_watch: age of the sniffer's last look
          alarm,    \* that look found the beat stale
          gap,      \* the coverage gap said at the last launch
          blind,    \* history: time since a tick that classified egress
          vain,     \* history: a launch since then got to its beat but no further
          unsaid,   \* history: time since the sentinel that runs wrote a beat, or
                    \* Absent until it has
          threw     \* history: a tick has thrown

history == <<blind, vain, unsaid, threw>>
vars    == <<app, me, procs, starts, beat, ticked, looked, alarm, gap, history>>

Older(n, d) == IF n + d > MaxAge THEN MaxAge ELSE n + d

Init == /\ app = "off" /\ me \in Pid
        /\ procs = [p \in Pid |-> Absent] /\ starts = 0
        /\ beat = Absent /\ ticked = FALSE
        /\ looked = Period + 1 /\ alarm = FALSE
        /\ gap = Absent /\ blind = Absent /\ vain = FALSE
        /\ unsaid = Absent /\ threw = FALSE

-----------------------------------------------------------------------------
\* A process starts under a free pid, or one ends (external).
Spawn(p) ==
    /\ procs[p] = Absent /\ starts < MaxStart
    /\ starts' = starts + 1
    /\ procs' = [procs EXCEPT ![p] = starts + 1]

SpawnOther(p) ==
    /\ Spawn(p)
    /\ UNCHANGED <<app, me, beat, ticked, looked, alarm, gap, history>>

ExitOther(p) ==
    /\ procs[p] # Absent /\ ~(app # "off" /\ p = me)
    /\ procs' = [procs EXCEPT ![p] = Absent]
    /\ UNCHANGED <<app, me, starts, beat, ticked, looked, alarm, gap, history>>

\* A launch that beats before it looks at the last beat.
Launch_BeatsFirst(p) ==
    /\ app = "off" /\ Spawn(p)
    /\ app' = "launched" /\ me' = p
    /\ gap' = Absent /\ ticked' = FALSE /\ unsaid' = Absent
    /\ beat' = [age |-> 0, pid |-> p, start |-> starts + 1]
    /\ UNCHANGED <<looked, alarm, blind, vain, threw>>

(* coverage_gap(): the age of the last beat, when it is worth saying. *)
GapOf(b) == IF b # Absent /\ b.age >= Gap THEN b.age ELSE Absent

(* run(): the sentinel is launched; it says how old the last beat is. *)
Launch(p) ==
    /\ app = "off" /\ Spawn(p)
    /\ app' = "launched" /\ me' = p
    /\ gap' = GapOf(beat)
    /\ ticked' = FALSE /\ unsaid' = Absent
    /\ UNCHANGED <<beat, looked, alarm, blind, vain, threw>>

\* beat(), which passes over an OSError: the last beat stays.
WriteBeat ==
    \/ /\ \E start \in {procs[me]} \cup (IF Nameless THEN {Absent} ELSE {}) :
             beat' = [age |-> 0, pid |-> me, start |-> start]
       /\ unsaid' = 0
    \/ Unwritten /\ UNCHANGED <<beat, unsaid>>

\* _tick(): the beat comes first; then the tick succeeds, throws or hangs.
Tick ==
    /\ app \in {"launched", "running"} /\ ~ticked
    /\ WriteBeat
    /\ \/ /\ app' = "running" /\ ticked' = TRUE
          /\ blind' = 0 /\ vain' = FALSE /\ UNCHANGED threw
       \/ /\ Throws /\ app' = "running" /\ ticked' = TRUE /\ threw' = TRUE
          /\ vain' = (vain \/ app = "launched") /\ UNCHANGED blind
       \/ /\ app' = "hung" /\ ticked' = FALSE
          /\ vain' = (vain \/ app = "launched") /\ UNCHANGED <<blind, threw>>
    /\ UNCHANGED <<me, procs, starts, looked, alarm, gap>>

\* The sentinel is killed, crashes or is quit.
Die ==
    /\ app # "off"
    /\ app' = "off" /\ procs' = [procs EXCEPT ![me] = Absent]
    /\ unsaid' = Absent
    /\ UNCHANGED <<me, starts, beat, ticked, looked, alarm, gap, blind, vain, threw>>

-----------------------------------------------------------------------------
\* proc_start(): when a process started; not always readable for one that lives.
ProcStart(p, readable) == IF readable THEN procs[p] ELSE Absent

\* Age alone, without the claimed process.
IsStale_AgeOnly(b, actual) == b.age > Stale

\* The claimed process alone, without the age.
IsStale_NoAge(b, actual) ==
    actual = Absent \/ (b.start # Absent /\ actual # b.start)

\* A start time missing from the beat taken for another one.
IsStale_Named(b, actual) == actual = Absent \/ actual # b.start \/ b.age > Stale

(* stale_for(): no start time is found for the claimed process, which then *)
(* counts as gone; or it is another's; or the beat is old.                 *)
IsStale(b, actual) == \/ actual = Absent
                      \/ (b.start # Absent /\ actual # b.start)
                      \/ b.age > Stale

(* run_sniffer(), a packet arrives: look if the last look is long ago. *)
Look(readable) ==
    /\ looked > Period
    /\ looked' = 0
    /\ alarm' = (beat # Absent /\ IsStale(beat, ProcStart(beat.pid, readable)))
    /\ UNCHANGED <<app, me, procs, starts, beat, ticked, gap, history>>

Packet == Look(TRUE) \/ (Blurred /\ Look(FALSE))

\* Time passes: a sentinel that runs has run its tick, and with enough
\* traffic the sniffer has had a packet.
Elapse ==
    /\ app \in {"launched", "running"} => ticked
    /\ Traffic => looked <= Period
    /\ ticked' = FALSE
    /\ beat' = IF beat = Absent THEN Absent
               ELSE [beat EXCEPT !.age = Older(@, 1)]
    /\ looked' = IF looked > Period THEN looked ELSE looked + 1
    /\ blind' = IF blind = Absent THEN Absent ELSE Older(blind, 1)
    /\ unsaid' = IF unsaid = Absent THEN Absent ELSE Older(unsaid, 1)
    /\ UNCHANGED <<app, me, procs, starts, alarm, gap, vain, threw>>

Next == \/ \E p \in Pid : SpawnOther(p) \/ ExitOther(p) \/ Launch(p)
        \/ Tick \/ Die \/ Packet \/ Elapse

Spec == Init /\ [][Next]_vars

-----------------------------------------------------------------------------
TypeOK ==
    /\ app \in {"off", "launched", "running", "hung"} /\ me \in Pid
    /\ procs \in [Pid -> Start \cup {Absent}] /\ starts \in 0 .. MaxStart
    /\ beat \in Beat \cup {Absent} /\ ticked \in BOOLEAN
    /\ looked \in 0 .. Period + 1 /\ alarm \in BOOLEAN
    /\ gap \in Gap .. MaxAge \cup {Absent} /\ blind \in 0 .. MaxAge \cup {Absent}
    /\ unsaid \in 0 .. MaxAge \cup {Absent} /\ vain \in BOOLEAN /\ threw \in BOOLEAN

\* For how long no egress has been classified; where a launch hung in its first
\* tick, whose beat is all there is to measure by, since that.
Silence == IF vain THEN beat.age ELSE blind

(* sentinel.py:561-562, "if anything below throws or hangs, the missing    *)
(* beat is what the root-side sniffer reports": once there is a beat, no   *)
(* longer silence than staleness and the sniffer's period together goes    *)
(* without a standing alarm.                                               *)
BlindIsReported ==
    beat # Absent /\ Silence # Absent /\ Silence > Stale + Period + 2 => alarm

(* The same as long as no tick throws: whatever else keeps a sentinel from *)
(* beating, dying or hanging, wherever in its tick, whatever launches came *)
(* to nothing, and whoever gets its pid, the next look after the limit     *)
(* shows it.                                                               *)
SilenceIsReported == ~threw => BlindIsReported

(* A look that can read start times raises no alarm on a sentinel that     *)
(* ticks, whatever pids other processes get and lose, as long as it could  *)
(* write a beat within the limit.  (One that cannot write, its disk being  *)
(* full, is taken for silent, and one whose start time the sniffer cannot  *)
(* read for gone, both while they tick.)                                   *)
NoFalseAlarm ==
    [][Look(TRUE) /\ alarm' /\ app = "running" /\ ticked
         => unsaid = Absent \/ unsaid > Stale]_vars

(* "this exact process is still alive": no look at all takes a sentinel    *)
(* that ticks for a silent one.                                            *)
TickingIsAlive == [][Packet /\ alarm' => ~(app = "running" /\ ticked)]_vars

(* "DETECTS: pid reuse": a look at a beat whose process is gone raises the *)
(* alarm at once, also when another process has its pid, provided the beat *)
(* says when its process started.                                          *)
GoneIsSeen ==
    [][Packet /\ app = "off" /\ beat # Absent
         => alarm' \/ (beat.start = Absent /\ procs[beat.pid] # Absent)]_vars

(* Coverage gaps are said: a sentinel that is launched after more than Gap *)
(* without classification says so, and by how much, whether its            *)
(* predecessor died or hung, and however many launches in between died     *)
(* before their first beat.  (A launch in between that beat, and hung in   *)
(* its first tick, hides what came before it: the gap is counted from the  *)
(* last beat.  So does a tick that throws, which beats all the same.)      *)
GapIsSaid ==
    [][\A p \in Pid : /\ Launch(p) /\ beat # Absent /\ ~threw
                     /\ ~vain /\ blind # Absent /\ blind > Gap
          => gap' # Absent /\ blind <= gap' + 1]_vars

(* deadman.py:31-33, "that window was unmonitored and is surfaced": the    *)
(* same whatever became of the launches in between.                        *)
UnwatchedIsSaid ==
    [][\A p \in Pid : /\ Launch(p) /\ beat # Absent /\ ~threw
                     /\ blind # Absent /\ blind > Gap
          => gap' # Absent]_vars
=============================================================================
