------------------------------ MODULE Lineage ------------------------------
(***************************************************************************)
(* Whose traffic a flow is: proctree.attribute() and ancestors(), the      *)
(* cache in front of them (Sampler._agent_for) and the pid a hook declares *)
(* (agent_pid), over a process table that changes while it is walked.      *)
(*                                                                         *)
(* A process is what its identity string says it is: "claude" is an agent  *)
(* by its name, "nodeAgent" by its command line only, "node" is none, and  *)
(* "shell" is none although its command line may name one (where it runs   *)
(* hooks/claude_code_declare.py).  Root stands for every pid up to 1.      *)
(* One second is one tick; whole seconds are what start times are kept in. *)
(***************************************************************************)
EXTENDS Integers, FiniteSets, SequencesExt

CONSTANTS
  Pid,          \* the process ids in play, those above 1
  Root,         \* launchd, init, or the 0 a refused parent is reported as
  Absent,       \* no process, no record, no start time
  Kinds,        \* the kinds of process that are started
  MaxTime,      \* bound: the last second
  Settings      \* the platforms and circumstances to consider

\* posix: a process whose parent exits is handed to Root, as Windows does not.
\* reuse: whether a freed pid is given out again, and if "later", not within
\*   the second it was freed in.
\* ps: whether a command line can always be read.  depth: max_depth.
\* mentions: whether the command lines of shells name an agent.
\* flows: whether the sampler asks whose flows are; births, a bound: how many
\*   processes are ever started.
Circumstances == [posix : BOOLEAN, reuse : {"never", "later", "soon"},
                  ps : {"works", "flaky"}, depth : Nat, mentions : BOOLEAN,
                  flows : BOOLEAN, births : Nat]

ASSUME LineageAssumption ==
  /\ Root \notin Pid /\ Absent \notin Pid \cup Nat \cup {Root}
  /\ Absent \notin [id : Nat, parent : Nat, ppid : Pid \cup {Root}, start : Nat,
                    kind : Kinds, kin : BOOLEAN]
  /\ Kinds \subseteq {"claude", "nodeAgent", "node", "shell"}
  /\ MaxTime \in Nat
  /\ Settings \subseteq Circumstances

VARIABLES
  setting,      \* the circumstances of this behaviour
  procs,        \* the process table
  births,       \* processes started so far: an identity no pid reuse repeats
  clock,        \* seconds
  used, warm,   \* pids given out before, and those freed in this second
  calm,         \* since the tick began, has no process exited and no pid been
                \* given out again?
  snap,         \* _snap_cache["map"] and _start_memo (Windows), or Absent
  cache,        \* Sampler.agent_cache
  walk,         \* the attribute() call under way, or Absent
  verdict       \* the last answer of _agent_for in this tick, or Absent

world == <<procs, births, clock, used, warm, calm>>
vars  == <<setting, world, snap, cache, walk, verdict>>

Living == {p \in Pid : procs[p] # Absent}

\* Is it a process that lived when the tick began?
Before(p) == p \in Living /\ procs[p].start < clock

IsAgent(kind)        == kind \in {"claude", "nodeAgent"}
Name(kind)           == IF kind = "claude" THEN "claude" ELSE "node"
\* Does the command line name an agent?
Named(kind)          == IsAgent(kind) \/ (kind = "shell" /\ setting.mentions)
\* _match of a name and of what the command line was found to say.
Match(name, argv)    == name = "claude" \/ argv

Init ==
  /\ setting \in Settings
  /\ procs = [p \in Pid |-> Absent]
  /\ births = 0 /\ clock = 0
  /\ used = {} /\ warm = {} /\ calm = TRUE
  /\ snap = Absent /\ cache = {} /\ walk = Absent /\ verdict = Absent

---------------------------------------------------------------------------
\* The process table.  (An operator named X_... is X with a slip in it that a
\* change of the code could make.)

MayBeGiven(p) ==
  CASE setting.reuse = "never" -> p \notin used
    [] setting.reuse = "later" -> p \notin warm
    [] setting.reuse = "soon"  -> TRUE

Spawn(p, parent, kind) ==
  /\ births < setting.births /\ clock < MaxTime
  /\ procs[p] = Absent /\ MayBeGiven(p)
  /\ procs' = [procs EXCEPT ![p] =
       [id     |-> births + 1,
        parent |-> IF parent = Root THEN 0 ELSE procs[parent].id,
        ppid   |-> parent,
        start  |-> clock,
        kind   |-> kind,
        kin    |-> IsAgent(kind) \/ (parent # Root /\ procs[parent].kin)]]
  /\ births' = births + 1 /\ used' = used \cup {p}
  /\ calm' = (calm /\ p \notin used)
  /\ UNCHANGED <<setting, clock, warm, snap, cache, walk, verdict>>

Exit(p) ==
  /\ p \in Living
  /\ procs' = [q \in Pid |->
       IF q = p THEN Absent
       ELSE IF setting.posix /\ q \in Living /\ procs[q].ppid = p
            THEN [procs[q] EXCEPT !.ppid = Root]
            ELSE procs[q]]
  /\ warm' = warm \cup {p} /\ calm' = FALSE
  /\ UNCHANGED <<setting, births, clock, used, snap, cache, walk, verdict>>

\* With a map that outlives its second.
Tick_KeepsSnapshot ==
  /\ walk = Absent
  /\ clock' = IF clock < MaxTime THEN clock + 1 ELSE clock
  /\ warm' = {} /\ calm' = TRUE /\ verdict' = Absent
  /\ UNCHANGED <<setting, procs, births, used, snap, cache, walk>>

\* A tick ends and the next begins, a second later: a snapshot is too old.  The
\* last second within the bound lasts for ever and nothing starts in it.
Tick ==
  /\ walk = Absent
  /\ clock' = IF clock < MaxTime THEN clock + 1 ELSE clock
  /\ warm' = {} /\ calm' = TRUE /\ snap' = Absent /\ verdict' = Absent
  /\ UNCHANGED <<setting, procs, births, used, cache, walk>>

\* A tick that takes longer than _SNAP_TTL finds its map too old, even within a walk.
Expire ==
  /\ snap # Absent
  /\ snap' = Absent
  /\ UNCHANGED <<setting, world, cache, walk, verdict>>

---------------------------------------------------------------------------
\* proctree.proc_info

\* The Windows map: taken now, or the sampler's if a call of this tick took it.
Taken    == [map |-> procs, memo |-> {}]
Snapshot == IF snap = Absent THEN Taken ELSE snap

StartNow(p) == IF p \in Living THEN procs[p].start ELSE Absent

\* The start times known after p's has been asked for.
Recalled(memo, p) ==
  IF \E m \in memo : m.pid = p THEN memo ELSE memo \cup {[pid |-> p, start |-> StartNow(p)]}

StartIn(memo, p) == (CHOOSE m \in memo : m.pid = p).start

\* Without the guard.
Refused_Never(child, parent) == FALSE
\* Refusing a parent of the same second.
Refused_Equal(child, parent) ==
  child # Absent /\ parent # Absent /\ parent >= child

\* The guard: a claimed parent that started after its child is refused.
Refused(child, parent) == child # Absent /\ parent # Absent /\ parent > child

\* _win_proc_info: what it answers, and the snapshot and memo it leaves.
WinInfo(s, p) ==
  LET rec  == s.map[p]
      memo == Recalled(Recalled(s.memo, p), rec.ppid)
  IN  IF rec = Absent \/ rec.ppid = Root
      THEN [rec |-> rec, snap |-> s]
      ELSE [rec  |-> IF Refused(StartIn(memo, p), StartIn(memo, rec.ppid))
                     THEN [rec EXCEPT !.ppid = Root] ELSE rec,
            snap |-> [s EXCEPT !.memo = memo]]

Info(s, p) ==
  IF setting.posix THEN [rec |-> procs[p], snap |-> Absent] ELSE WinInfo(s, p)

\* ancestors(p): the chain of pids, for the reconciler and the hook.
Ancestors(s, p) ==
  LET chain[n \in 0 .. setting.depth] ==
        IF n = 0 THEN <<p>>
        ELSE LET c   == chain[n - 1]
                 rec == Info(s, Last(c)).rec
             IN  IF Len(c) < n \/ rec = Absent THEN c
                 ELSE IF rec.ppid = Root \/ rec.ppid \in ToSet(c) THEN c
                      ELSE Append(c, rec.ppid)
  IN  chain[setting.depth]

\* With names and command lines looked at together.
AgentPid_AtOnce(p) ==
  LET chain   == Tail(Ancestors(Taken, p))
      kind(q) == IF q \in Living THEN procs[q].kind ELSE "node"
      byArgv  == SelectInSeq(chain, LAMBDA q : Match(Name(kind(q)), Named(kind(q))))
  IN  IF byArgv # 0 THEN chain[byArgv] ELSE procs[p].ppid

\* agent_pid() run by process p, which takes a map of its own: names first, then
\* command lines, then the parent.
AgentPid(p) ==
  LET chain   == Tail(Ancestors(Taken, p))
      kind(q) == IF q \in Living THEN procs[q].kind ELSE "node"
      byName  == SelectInSeq(chain, LAMBDA q : Match(Name(kind(q)), FALSE))
      byArgv  == SelectInSeq(chain, LAMBDA q : Match(Name(kind(q)), Named(kind(q))))
  IN  IF byName # 0 THEN chain[byName]
      ELSE IF byArgv # 0 THEN chain[byArgv]
      ELSE procs[p].ppid

---------------------------------------------------------------------------
\* Sampler._agent_for and the walk of attribute(), a step per look at the table.

Answer(flow, hit, cached) ==
  verdict' = [pid |-> flow.pid, kin |-> flow.kin, hit |-> hit, cached |-> cached, calm |-> calm]

Return(hit) ==
  /\ Answer(walk, hit, FALSE)
  /\ cache' = cache \cup {[name |-> walk.name, pid |-> walk.pid, hit |-> hit]}
  /\ walk' = Absent

\* argv(pid) is '' when ps or psutil cannot tell; of a process that is gone too.
Argv(p) == IF p \notin Living THEN {FALSE}
           ELSE {Named(procs[p].kind)} \cup (IF setting.ps = "works" THEN {} ELSE {FALSE})

\* A row that the sampler holds is of a process that lived when the tick began.
AgentFor(p) ==
  /\ setting.flows /\ walk = Absent
  /\ Before(p)
  /\ LET flow == [pid |-> p, name |-> Name(procs[p].kind),
                  kin |-> procs[p].kin, pc |-> "own", cur |-> p, next |-> Root,
                  depth |-> 0, seen |-> {}]
         hits == {c \in cache : c.name = flow.name /\ c.pid = p}
     IN  IF hits # {}
         THEN /\ \E c \in hits : Answer(flow, c.hit, TRUE)
              /\ UNCHANGED walk
         ELSE walk' = flow /\ verdict' = Absent
  /\ UNCHANGED <<setting, world, snap, cache>>

Own ==
  /\ walk # Absent /\ walk.pc = "own"
  /\ \E argv \in Argv(walk.pid) :
       IF Match(walk.name, argv)
       THEN Return(TRUE)
       ELSE walk' = [walk EXCEPT !.pc = "parent"] /\ UNCHANGED <<cache, verdict>>
  /\ UNCHANGED <<setting, world, snap>>

TooDeep == walk.depth >= setting.depth

Parent ==
  /\ walk # Absent /\ walk.pc = "parent"
  /\ IF TooDeep
     THEN Return(FALSE) /\ UNCHANGED snap
     ELSE LET info == Info(Snapshot, walk.cur)
              stop == info.rec = Absent \/ info.rec.ppid \in walk.seen \cup {Root}
          IN  /\ snap' = info.snap
              /\ IF stop
                 THEN Return(FALSE)
                 ELSE /\ walk' = [walk EXCEPT !.pc = "match", !.next = info.rec.ppid,
                                              !.seen = @ \cup {info.rec.ppid}]
                      /\ UNCHANGED <<cache, verdict>>
  /\ UNCHANGED <<setting, world>>

Ancestor ==
  /\ walk # Absent /\ walk.pc = "match"
  /\ LET info == Info(Snapshot, walk.next)
     IN  /\ snap' = info.snap
         /\ IF info.rec = Absent
            THEN Return(FALSE)
            ELSE \E argv \in Argv(walk.next) :
                   IF Match(Name(info.rec.kind), argv)
                   THEN Return(TRUE)
                   ELSE /\ walk' = [walk EXCEPT !.pc = "parent", !.cur = walk.next,
                                                !.depth = @ + 1]
                        /\ UNCHANGED <<cache, verdict>>
  /\ UNCHANGED <<setting, world>>

Next ==
  \/ \E p \in Pid, parent \in Living \cup {Root}, kind \in Kinds : Spawn(p, parent, kind)
  \/ \E p \in Pid : Exit(p) \/ AgentFor(p)
  \/ Own \/ Parent \/ Ancestor \/ Expire \/ Tick

Spec == Init /\ [][Next]_vars

---------------------------------------------------------------------------
\* Properties.

\* The process p and those that truly started one another above it, as far as
\* they still live and max_depth reaches: by identity, whatever the pids say.
TrueLine(p) ==
  LET line[n \in 0 .. setting.depth] ==
        IF n = 0 THEN <<p>>
        ELSE LET l == line[n - 1]
                 above == {q \in Living : procs[q].id = procs[Last(l)].parent}
             IN  IF Len(l) < n \/ above = {} THEN l
                 ELSE Append(l, CHOOSE q \in above : TRUE)
  IN  line[setting.depth]

\* The nearest agent above p, or Absent.
Owner(p) ==
  LET line == Tail(TrueLine(p))
      i    == SelectInSeq(line, LAMBDA q : IsAgent(procs[q].kind))
  IN  IF i = 0 THEN Absent ELSE line[i]

Process == [id : 1 .. setting.births, parent : 0 .. setting.births, ppid : Pid \cup {Root},
            start : 0 .. MaxTime, kind : Kinds, kin : BOOLEAN]

\* Every variable stays in the range the code keeps it in.
TypeOK ==
  /\ setting \in Settings
  /\ \A p \in Pid : procs[p] # Absent => procs[p] \in Process
  /\ births \in 0 .. setting.births /\ clock \in 0 .. MaxTime
  /\ used \subseteq Pid /\ warm \subseteq used /\ calm \in BOOLEAN
  /\ snap # Absent => /\ \A p \in Pid : snap.map[p] # Absent => snap.map[p] \in Process
                      /\ \A m \in snap.memo : m.start # Absent => m.start \in 0 .. clock
  /\ cache \subseteq [name : {"claude", "node"}, pid : Pid, hit : BOOLEAN]
  /\ walk # Absent => /\ walk.depth \in 0 .. setting.depth
                      /\ walk.seen \subseteq Pid
                      /\ Cardinality(walk.seen) <= setting.depth
  /\ verdict # Absent => verdict.pid \in Pid /\ verdict.hit \in BOOLEAN

\* A process is blamed on an agent only if it or a process that truly started it
\* (however long ago that one died) is one: the walk never crosses to a stranger
\* that inherited a dead parent's pid.  On Windows as long as the tick is calm,
\* and from the cache if pids are not given out again.  (Where no shell's command line
\* names an agent: what a shell that names one does is laid to it.)
NoStrangerBlamed ==
  (/\ verdict # Absent /\ verdict.hit /\ ~setting.mentions
   /\ setting.posix \/ verdict.calm
   /\ verdict.cached => setting.reuse = "never")
     => verdict.kin

\* While the tick is calm, a walk that is not answered from the cache finds exactly
\* the agents among the living ancestors max_depth reaches; those known by their
\* name it finds even where ps fails.  (Where no shell's command line names an agent.)
SteadyAgentFound ==
  (verdict # Absent /\ calm /\ ~verdict.cached /\ ~setting.mentions) =>
    LET kinds == {procs[q].kind : q \in ToSet(TrueLine(verdict.pid))}
    IN  /\ "claude" \in kinds => verdict.hit
        /\ setting.ps = "works" => (verdict.hit <=> \E k \in kinds : IsAgent(k))

\* While the tick is calm, ancestors() of a process that lived when the tick began is
\* its true line of descent, at most followed by one pid that no process had then: the
\* reconciler lets no declaration of a stranger explain a flow, and loses none of an
\* ancestor's.
ChainIsTrueLine ==
  calm => \A p \in Living :
    Before(p) =>
      LET chain == Ancestors(Snapshot, p)
      IN  \/ chain = TrueLine(p)
          \/ \E q \in Pid : ~Before(q) /\ chain = Append(TrueLine(p), q)

\* Is the agent above p the first there whose command line says so, or is one above p
\* known by its name?
Heard(p) ==
  LET line == Tail(TrueLine(p))
      i    == SelectInSeq(line, LAMBDA q : IsAgent(procs[q].kind))
  IN  \/ \E q \in ToSet(line) : procs[q].kind = "claude"
      \/ \A j \in 1 .. i - 1 : ~Named(procs[line[j]].kind)

\* The pid a hook declares under is in the chain of every process that the agent
\* which runs the hook starts: a declaration explains the traffic of its own tools,
\* whatever stands between hook and agent if an agent is known by its name, and for one
\* known by its command line only, if no shell there names the hook's own file.
HookCoversTools ==
  calm =>
    \A h, t \in Living :
    (/\ h # t /\ Before(h) /\ Before(t)
     /\ Owner(h) # Absent /\ Heard(h)
     /\ procs[t].ppid = Owner(h) /\ Owner(t) = Owner(h))
      => AgentPid(h) \in ToSet(Ancestors(Snapshot, t))

\* agent_pid's docstring, "The pid whose descendants will do the I/O, i.e. the agent,
\* not us": the same of every hook, however it is started.
EveryHookCoversTools ==
  calm =>
    \A h, t \in Living :
    (/\ h # t /\ Before(h) /\ Before(t)
     /\ Owner(h) # Absent
     /\ procs[t].ppid = Owner(h) /\ Owner(t) = Owner(h))
      => AgentPid(h) \in ToSet(Ancestors(Snapshot, t))

\* _agent_for's comment, "argv and ancestry are stable for a pid": what the cache
\* answers is true of the process that has the pid now.
CacheStaysTrue ==
  verdict # Absent /\ verdict.cached /\ verdict.hit => verdict.kin

\* _win_proc_info's comment, "a claimed parent is rejected unless it is OLDER than
\* the child": no fresh walk leads to a stranger.
GuardIsEnough ==
  verdict # Absent /\ ~verdict.cached /\ verdict.hit => verdict.kin

---------------------------------------------------------------------------
=============================================================================
