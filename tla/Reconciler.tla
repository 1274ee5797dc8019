----------------------------- MODULE Reconciler -----------------------------
(***************************************************************************)
(* activity.Reconciler: egress of the agent's process tree is held against *)
(* what the agent declared in the activity file, and what stays unexplained*)
(* after a settling delay is reported, once per window.                    *)
(*                                                                         *)
(* The sampler thread drives it, once per tick and in this order: refresh, *)
(* observe for every flow with a positive delta, gc, drain (sentinel.py    *)
(* _tick).  Hooks append to the file at any time.  One unit of time is one *)
(* tick.  Time stamps only serve to tell how old an entry is, so entries   *)
(* carry an age, which stops counting when no test can tell it any more.   *)
(***************************************************************************)
EXTENDS Integers, Sequences, FiniteSets, FiniteSetsExt, Functions

CONSTANTS Pid,          \* processes with egress
          Chain,        \* Chain[p]: p and its ancestors (proctree.ancestors)
          Agents,       \* processes of an agent's tree (is_agent)
          Dest,         \* destinations
          Ips,          \* those that are unresolved addresses
          Host,         \* hosts a declaration may name
          Covers,       \* <<host, dest>>: equal, or one a subdomain of the other
          Wild,         \* a declaration without a target
          Settings,     \* what behaviours may be like, see setting
          Fresh, Window, Settle, Warmup, SeenTtl,      \* *_SEC of the class
          KnownMin, ExcessFactor, ExcessMin,           \* its byte limits
          MaxTotal,     \* bound: byte totals are told apart up to here
          MaxLines,     \* MAX_LINES
          Absent

Flow == Pid \X Dest
Port == {"http", "other"}   \* what a proxy can carry, and what it cannot
Keep == 2 * Window                          \* gc horizon of gc()
Decl == [age : 0 .. Keep + 1, pid : Pid, host : Host \cup {Wild},
         nb : Nat \cup {Absent}]
Rec == [first : Nat, last : 0 .. Keep + 1, total : 0 .. MaxTotal,
        novel : BOOLEAN, port : Port]
Note == {"bypass", "undeclared", "wildcard", "excess"}

ASSUME ReconcilerAssumption ==
    /\ Chain \in [Pid -> SUBSET Pid] /\ \A p \in Pid : p \in Chain[p]
    /\ Agents \subseteq Pid /\ Ips \subseteq Dest
    /\ Covers \subseteq Host \X Dest
    /\ Wild \notin Host /\ Absent \notin Dest \cup Nat \cup Note \cup Rec
    /\ {Fresh, Window, Settle, Warmup, SeenTtl, KnownMin} \subseteq Nat
    /\ {ExcessFactor, ExcessMin, MaxTotal, MaxLines} \subseteq Nat
    /\ Settle <= Window /\ Keep <= SeenTtl /\ KnownMin <= MaxTotal
    /\ Keep + Window <= SeenTtl + Settle
    /\ \A e \in Settings :
          /\ e.senders \subseteq Pid /\ e.hosts \subseteq Host /\ e.ports \subseteq Port
          /\ e.deltas \subseteq 1 .. MaxTotal /\ e.sizes \subseteq Nat \cup {Absent}
          /\ {e.rotates, e.steady} \subseteq BOOLEAN /\ e.maxDecls \in Nat
          /\ e.steady => ~e.rotates

VARIABLES setting,   \* never changes: who sends how many bytes where, which hosts and
                     \* sizes are declared, the configured proxy (or Absent), whether
                     \* the activity file is rotated, whether hooks write steadily,
                     \* and, a bound, how many declarations file and tail hold
          pc,        \* where the sampler is in its tick
          mtime,     \* age of the file's last write, or Absent without a file
          unread,    \* complete lines past _offset
          rotated,   \* the file is not the one _inode and _offset are about
          decls,     \* _decls
          active,    \* _active
          pending,   \* _pending
          reported,  \* _reported
          seen,      \* _seen_dests
          life,      \* age of the Reconciler (_born), up to Warmup
          out,       \* what the last drain returned
          truth,     \* history: all that refresh has read, or a replaced file held
          gone,      \* history: how many of these were in a file since replaced
          met,       \* history: age of the last contact by any agent
          owed,      \* history: age of an agent's first contact not reported
          bypass,    \* history: age of a proxy bypass not reported as such
          since      \* history: time since a flow was last reported

file == <<mtime, unread, rotated>>
hist == <<truth, gone, met, owed, bypass, since>>
vars == <<setting, pc, file, decls, active, pending, reported, seen, life, out, hist>>

Proxy == setting.proxy

UpTo(n, m) == IF n > m THEN m ELSE n
Aged(e, d, cap) == IF e = Absent THEN Absent ELSE UpTo(e + d, cap)

-----------------------------------------------------------------------------
Init == /\ setting \in Settings /\ pc = "start"
        /\ mtime \in IF setting.steady THEN {0} ELSE {0, Absent}
        /\ unread = <<>> /\ rotated = FALSE /\ decls = <<>>
        /\ active = FALSE
        /\ pending = [f \in Flow |-> Absent]
        /\ reported = [f \in Flow |-> Absent]
        /\ seen = [d \in Dest |-> Absent]
        /\ life = 0
        /\ out = {}
        /\ truth = <<>> /\ gone = 0
        /\ met = [d \in Dest |-> Absent]
        /\ owed = [f \in Flow |-> Absent]
        /\ bypass = [f \in Flow |-> Absent]
        /\ since = [f \in Flow |-> Window]

-----------------------------------------------------------------------------
(* The activity file, written by the agent's hooks (external).             *)

Declare(p, h, nb) ==
    /\ Len(unread) + Len(decls) < setting.maxDecls
    /\ unread' = Append(unread, [age |-> 0, pid |-> p, host |-> h, nb |-> nb])
    /\ mtime' = 0
    /\ UNCHANGED <<setting, pc, rotated, decls, active, pending, reported, seen, life,
                   out, hist>>

\* Some other write keeps the file fresh (it declares nothing we look at).
Touch ==
    /\ mtime' = 0
    /\ UNCHANGED <<setting, pc, unread, rotated, decls, active, pending, reported, seen,
                   life, out, hist>>

\* The file is replaced by an empty one, or removed.  (Bound: what the
\* history remembers.)
Rotate ==
    /\ setting.rotates /\ mtime # Absent
    /\ Len(truth) + Len(unread) <= setting.maxDecls
    /\ rotated' = TRUE /\ unread' = <<>>
    /\ mtime' \in {0, Absent}
    /\ truth' = truth \o unread /\ gone' = Len(truth')
    /\ UNCHANGED <<setting, pc, decls, active, pending, reported, seen, life, out, met,
                   owed, bypass, since>>

-----------------------------------------------------------------------------
\* Declarations not older than n: they come in the order they were made in.
NoOlder(ds, n) ==
    SubSeq(ds, 1 + Cardinality({i \in DOMAIN ds : ds[i].age > n}), Len(ds))

\* A tail that keeps declarations for the settling time only.
Kept_Settle(ds) == NoOlder(ds, Settle)

\* The declarations refresh keeps.
Kept(ds) == NoOlder(ds, Window)

\* The cap on what is held: the newest MaxLines.
Newest(ds) ==
    SubSeq(ds, IF Len(ds) > MaxLines THEN Len(ds) - MaxLines + 1 ELSE 1, Len(ds))

(* refresh(now): tail the file, decide whether it is fresh, drop old        *)
(* declarations; without a file only _active changes.                       *)
Refresh ==
    /\ pc = "start"
    /\ IF mtime = Absent
       THEN /\ active' = FALSE
            /\ UNCHANGED <<unread, rotated, decls, truth>>
       ELSE /\ active' = (mtime <= Fresh)
            /\ decls' = Newest(Kept((IF rotated THEN <<>> ELSE decls) \o unread))
            /\ truth' = truth \o unread
            /\ unread' = <<>> /\ rotated' = FALSE
    /\ pc' = "observe"
    /\ UNCHANGED <<setting, mtime, pending, reported, seen, life, out, gone, met, owed,
                   bypass, since>>

-----------------------------------------------------------------------------
\* Everything after the warm-up is new, whatever was seen before.
Novel_Unseen(d) == life >= Warmup

(* _is_novel(dest, now) *)
Novel(d) == life >= Warmup /\ (seen[d] = Absent \/ seen[d] > SeenTtl)

(* _unproxyable(port, proto): a structural port, or UDP. *)
Unproxyable(port) == port = "other"

\* The first connection's port decides for the flow.
MergePort_FirstWins(old, new) == old

\* Which port a record keeps: only upward, to one a proxy could have carried.
MergePort(old, new) == IF Unproxyable(old) /\ ~Unproxyable(new) THEN new ELSE old

\* Any process's contact makes a destination known.
Seeds_Anyone(p) == TRUE

\* Whose contact makes a destination known.
Seeds(p) == p \in Agents

\* A record with another connection's bytes.
Merged(r, n, port) ==
    [r EXCEPT !.total = UpTo(r.total + n, MaxTotal), !.last = 0,
              !.port = MergePort(r.port, port)]

(* observe(pid, dest, nbytes, now, port, is_agent) *)
Record(p, d, n, port) ==
    LET f == <<p, d>>
        r == pending[f]
    IN  /\ pending' = [pending EXCEPT ![f] =
              IF r = Absent \/ r.last > Window
              THEN [first |-> 0, last |-> 0, total |-> n, novel |-> Novel(d),
                    port |-> port]
              ELSE Merged(r, n, port)]
        /\ seen' = IF Seeds(p) THEN [seen EXCEPT ![d] = 0] ELSE seen
        /\ owed' = IF /\ owed[f] = Absent /\ p \in Agents /\ life >= Warmup
                      /\ met[d] = Absent
                   THEN [owed EXCEPT ![f] = 0] ELSE owed
        /\ bypass' = IF /\ bypass[f] = Absent /\ Proxy \notin {Absent, d}
                        /\ ~Unproxyable(port)
                     THEN [bypass EXCEPT ![f] = 0] ELSE bypass

\* p is seen sending to d.
Observe(p, d, n, port) ==
    /\ pc = "observe"
    /\ IF active \/ Proxy # Absent
       THEN Record(p, d, n, port)
       ELSE UNCHANGED <<pending, seen, owed, bypass>>
    /\ met' = IF p \in Agents THEN [met EXCEPT ![d] = 0] ELSE met
    /\ UNCHANGED <<setting, pc, file, decls, active, reported, life, out, truth, gone,
                   since>>

-----------------------------------------------------------------------------
\* gc dropping a report's mark after the settling time.
GcReported_Short(f) ==
    IF reported[f] # Absent /\ reported[f] >= Settle THEN Absent ELSE reported[f]

\* What gc leaves of the report marks.
GcReported(f) ==
    IF reported[f] # Absent /\ reported[f] > Keep THEN Absent ELSE reported[f]

(* gc(now) *)
Gc ==
    /\ pc = "observe"
    /\ pending' = [f \in Flow |->
          IF pending[f] # Absent /\ pending[f].last > Keep THEN Absent
          ELSE pending[f]]
    /\ reported' = [f \in Flow |-> GcReported(f)]
    /\ seen' = [d \in Dest |->
          IF seen[d] # Absent /\ seen[d] > SeenTtl THEN Absent ELSE seen[d]]
    /\ pc' = "drain"
    /\ UNCHANGED <<setting, file, decls, active, life, out, hist>>

-----------------------------------------------------------------------------
Gap(x, y) == IF x > y THEN x - y ELSE y - x

\* Does declaration e, looked at from an observation `first` old, explain f?
Explains(e, f, first) ==
    /\ e.pid \in Chain[f[1]]
    /\ Gap(first, e.age) <= Window
    /\ e.host = Wild \/ f[2] \in Ips \/ <<e.host, f[2]>> \in Covers

(* _matches(pid, dest, first): where in decls they stand. *)
Matches(f) == {i \in DOMAIN decls : Explains(decls[i], f, pending[f].first)}

\* Only the newest matching declaration counted.
Volume_Newest(hits) == decls[Max(hits)].nb

\* Declared volume of matching declarations that all state one.
Volume(hits) == SumFunction([i \in hits |-> decls[i].nb])

(* _verdict(...): the note, or Absent when the observation is explained.   *)
Verdict(f) ==
    LET r == pending[f]
        hits == Matches(f)
    IN  IF Proxy # Absent /\ f[2] # Proxy /\ ~Unproxyable(r.port) THEN "bypass"
        ELSE IF ~active THEN Absent
        ELSE IF hits = {} THEN "undeclared"
        ELSE IF \A i \in hits : decls[i].host = Wild
             THEN (IF r.novel THEN "wildcard" ELSE Absent)
        ELSE IF \E i \in hits : decls[i].nb = Absent THEN Absent
        ELSE IF /\ r.total > Volume(hits) * ExcessFactor
                /\ r.total - Volume(hits) > ExcessMin
             THEN "excess" ELSE Absent

\* The byte floor for a record.
Floor(r) == IF Proxy # Absent \/ r.novel THEN 0 ELSE KnownMin

\* Flows drain reports now, with what it says of each.
Due == {f \in Flow : /\ pending[f] # Absent
                     /\ pending[f].first >= Settle
                     /\ pending[f].total >= Floor(pending[f])
                     /\ reported[f] = Absent \/ reported[f] >= Window
                     /\ Verdict(f) # Absent}

(* drain(now) *)
Drain ==
    LET due == IF active \/ Proxy # Absent THEN Due ELSE {}
    IN  /\ pc = "drain"
        /\ out' = {[flow |-> f, note |-> Verdict(f), first |-> pending[f].first,
                    total |-> pending[f].total] : f \in due}
        /\ reported' = [f \in Flow |-> IF f \in due THEN 0 ELSE reported[f]]
        /\ owed' = [f \in Flow |-> IF f \in due THEN Absent ELSE owed[f]]
        /\ bypass' = [f \in Flow |->
              IF f \in due /\ Verdict(f) = "bypass" THEN Absent ELSE bypass[f]]
        /\ since' = [f \in Flow |-> IF f \in due THEN 0 ELSE since[f]]
        /\ pc' = "done"
        /\ UNCHANGED <<setting, file, decls, active, pending, seen, life, truth, gone, met>>

-----------------------------------------------------------------------------
\* Declarations one tick later; past Keep no test tells their age any more.
Grown(ds) == [i \in DOMAIN ds |-> [ds[i] EXCEPT !.age = UpTo(@ + 1, Keep + 1)]]

\* The sampler sleeps until its next tick and everything is one tick older.
Elapse ==
    /\ pc = "done"
    /\ setting.steady => mtime # Absent /\ mtime < Fresh
    /\ pc' = "start"
    /\ mtime' = Aged(mtime, 1, Fresh + 1)
    /\ unread' = Grown(unread) /\ decls' = Grown(decls)
    /\ truth' = NoOlder(Grown(truth), Keep)
    /\ gone' = LET n == Len(truth) - Len(truth')  \* so many are forgotten
               IN  IF gone > n THEN gone - n ELSE 0
    /\ pending' = [f \in Flow |->
          IF pending[f] = Absent THEN Absent
          ELSE [pending[f] EXCEPT !.first = UpTo(@ + 1, Keep + Window + 1),
                                  !.last = UpTo(@ + 1, Keep + 1)]]
    /\ reported' = [f \in Flow |-> Aged(reported[f], 1, Keep + 1)]
    /\ seen' = [d \in Dest |-> Aged(seen[d], 1, SeenTtl + 1)]
    /\ life' = UpTo(life + 1, Warmup)
    /\ met' = [d \in Dest |->
          IF met[d] = Absent \/ met[d] = SeenTtl THEN Absent ELSE met[d] + 1]
    /\ owed' = [f \in Flow |-> Aged(owed[f], 1, Window + 1)]
    /\ bypass' = [f \in Flow |-> Aged(bypass[f], 1, Window + 1)]
    /\ since' = [f \in Flow |-> UpTo(since[f] + 1, Window)]
    /\ out' = {}
    /\ UNCHANGED <<setting, rotated, active>>

Next == \/ \E p \in Agents, h \in setting.hosts \cup {Wild}, nb \in setting.sizes :
              Declare(p, h, nb)
        \/ Touch
        \/ Rotate
        \/ Refresh
        \/ \E p \in setting.senders, d \in Dest, n \in setting.deltas,
              port \in setting.ports :
              Observe(p, d, n, port)
        \/ Gc
        \/ Drain
        \/ Elapse

Spec == Init /\ [][Next]_vars

-----------------------------------------------------------------------------
TypeOK ==
    /\ setting \in Settings
    /\ pc \in {"start", "observe", "drain", "done"}
    /\ mtime \in 0 .. Fresh + 1 \cup {Absent}
    /\ unread \in Seq(Decl) /\ decls \in Seq(Decl) /\ truth \in Seq(Decl)
    /\ rotated \in BOOLEAN /\ active \in BOOLEAN /\ gone \in 0 .. Len(truth)
    /\ pending \in [Flow -> Rec \cup {Absent}]
    /\ \A f \in Flow : pending[f] # Absent =>
           pending[f].last <= pending[f].first \/ pending[f].last > Keep
    /\ {reported[f] : f \in Flow} \subseteq 0 .. Keep + 1 \cup {Absent}
    /\ {seen[d] : d \in Dest} \subseteq 0 .. SeenTtl + 1 \cup {Absent}
    /\ life \in 0 .. Warmup
    /\ out \subseteq [flow : Flow, note : Note, first : Nat, total : Nat]

(* drain's once-per-window promise: the same flow is reported at most once *)
(* in WINDOW_SEC, also after gc has dropped marks, after its record was    *)
(* restarted, and after reconciliation was inactive for a while.           *)
NoRepeat ==
    [][Drain => \A r \in out' : since[r.flow] >= Window]_vars

\* Which declarations not older than n cover what r reports and stand in a
\* file that has not been replaced since.
Covering(r, n) == {i \in gone + 1 .. Len(truth) : /\ truth[i].age <= n
                                                  /\ Explains(truth[i], r.flow, r.first)}

(* A delayed verdict (activity.py, "DELAYED VERDICT") never says "no       *)
(* declared activity" of a flow that a declaration of the last WINDOW_SEC  *)
(* covers, whichever of the two came first, unless the file the declaration*)
(* was in has been replaced or removed: then _decls forgets it with the    *)
(* file (activity.py, "rotated or truncated"), and the flow is accused.    *)
DeclaredNotAccusedWhileKept ==
    \A r \in out : r.note = "undeclared" => Covering(r, Window) = {}

(* activity.py:309, "Tolerates truncation and rotation": the same, also    *)
(* for declarations whose file has been replaced.                          *)
DeclaredNotAccusedThroughRotation ==
    \A r \in out : r.note = "undeclared" =>
        ~ \E i \in DOMAIN truth : /\ truth[i].age <= Window
                                  /\ Explains(truth[i], r.flow, r.first)

(* activity.py:210, "a declaration covers traffic within this of its ts":  *)
(* the same, also for declarations that have since grown old.              *)
DeclaredNotAccused ==
    \A r \in out : r.note = "undeclared" => Covering(r, Keep) = {}

Stated(e) == IF e.nb = Absent THEN 0 ELSE e.nb

(* Declared volume is the SUM over the declarations that match: an excess  *)
(* is only reported beyond ExcessFactor times everything declared for the  *)
(* flow in the last WINDOW_SEC and still on file, so connection reuse      *)
(* manufactures none.                                                      *)
ExcessBeyondAllDeclared ==
    \A r \in out : r.note = "excess" =>
        r.total > ExcessFactor
                  * SumFunction([i \in Covering(r, Window) |-> Stated(truth[i])])

(* An agent's first contact with a destination is reported once it has     *)
(* settled, however few bytes it carried and whoever else has been there,  *)
(* also under a wildcard: only a declaration with a target explains it.    *)
(* (Where hooks write steadily, for without a fresh file nothing is judged,*)
(* and without targets, for one may explain the contact and then expire.)  *)
NovelIsReported ==
    \A f \in Flow :
        setting.steady /\ setting.hosts = {} /\ pc = "done" /\ owed[f] # Absent
            => owed[f] < Settle

(* _is_novel, "Has any agent-lineage flow gone to this destination         *)
(* before?": a flow is only recorded as novel when none has, be it under a *)
(* proxy, or while hooks write steadily.                                   *)
NovelIsFirstContact ==
    [][setting.steady \/ Proxy # Absent => \A f \in Flow :
          /\ pending'[f] # Absent /\ pending'[f].novel
          /\ pending[f] = Absent \/ ~pending[f].novel
          => met[f[2]] = Absent]_vars

(* With a proxy configured, a connection that skipped it and could have    *)
(* used it is reported as a bypass within WINDOW_SEC, whatever else the    *)
(* process sent to that host and whatever was declared, with or without an *)
(* activity file.                                                          *)
BypassSurfaces ==
    \A f \in Flow : pc = "done" /\ bypass[f] # Absent => bypass[f] < Window
=============================================================================
