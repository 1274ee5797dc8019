--------------------------- MODULE FlowAccounting ---------------------------
(***************************************************************************)
(* How the sentinel turns the kernel's cumulative per-connection counters  *)
(* into "bytes sent since the last tick": the persistent nettop stream and *)
(* its reader thread (sentinel.NettopStream), and the accounting half of   *)
(* Sampler._tick (snapshot, one-shot fallback, aggregate_flows, baseline). *)
(*                                                                         *)
(* A connection is its full flow key (name, pid, ip, nettop column), so a  *)
(* local port that the same process uses again is the same key with a      *)
(* counter that restarts.  The inbound counter, which is charged by the    *)
(* same rule but only along with bytes sent, is left out (EtwFlows has it); *)
(* so are rows that parsing rejects.                                       *)
(***************************************************************************)
EXTENDS Integers, Sequences, FiniteSets

CONSTANTS Conn,       \* flow keys
          Ttl,        \* BASELINE_TTL
          RowGap,     \* nettop prints an open connection at least this often
          Steps,      \* clock steps while the machine is awake
          Machines,   \* settings a behaviour may have, see machine
          Starts,     \* counters of connections that are open at the start
          MaxPipe,    \* bound: rows in the pipe
          MaxSent,    \* bound: bytes sent under one key
          MaxCounted, \* bound: where the history of counted bytes saturates
          Absent      \* "no entry under this key"

ASSUME FlowAssumption ==
    /\ Ttl \in Nat /\ RowGap \in Nat /\ MaxPipe \in Nat
    /\ MaxSent \in Nat /\ MaxCounted \in Nat
    /\ Steps \subseteq Nat \ {0}
    /\ Starts \subseteq Nat
    /\ \A s \in Starts \cup {0} : s + MaxSent <= MaxCounted
    /\ Machines \subseteq [sleeps : BOOLEAN, prompt : BOOLEAN, throws : BOOLEAN,
                           fallback : SUBSET {"sample", "fails"} \ {{}}]
    /\ Absent \notin [b : Nat, age : Nat]

VARIABLES machine,   \* never changes: whether the machine sleeps for longer than
                     \* Ttl, whether no row is in the pipe while a tick runs,
                     \* whether a tick may throw, and what the one-shot nettop
                     \* may do
          open,      \* open[c]: a socket is open under key c
          total,     \* total[c]: bytes_out the kernel keeps for that socket
          pipe,      \* rows nettop has written and the reader has not read
          quiet,     \* quiet[c]: time since c was opened or its last row read
          latest,    \* NettopStream._latest, with the age of each entry
          base,      \* Sampler.baseline and seen_ts (they share their keys)
          warmup,    \* Sampler.warmup
          sent,      \* history: bytes sent under c since the start
          counted,   \* history: deltas attributed to c since the start
          seed,      \* history: counter the warm-up tick seeded c with
          pre,       \* history: counter of c at the start
          reused     \* history: keys that have named a second socket

env  == <<machine, open, total, sent, pre, reused>>
book == <<base, warmup, counted, seed>>
vars == <<env, pipe, quiet, latest, book>>

\* Time stamps only ever serve to tell how old an entry is, so an entry
\* carries its age, which stops counting once it is past Ttl.
Aged == [b : Nat, age : 0 .. Ttl + 1]
Older(e, d) == IF e = Absent THEN Absent
               ELSE [e EXCEPT !.age = IF @ + d > Ttl THEN Ttl + 1 ELSE @ + d]

-----------------------------------------------------------------------------
Init == /\ machine \in Machines
        /\ open \in [Conn -> BOOLEAN]
        /\ total \in [Conn -> Starts \cup {0}]
        /\ \A c \in Conn : open[c] \/ total[c] = 0
        /\ pre = total
        /\ sent = [c \in Conn |-> 0]
        /\ reused = {}
        /\ pipe = <<>>
        /\ quiet = [c \in Conn |-> 0]
        /\ latest = [c \in Conn |-> Absent]
        /\ base = [c \in Conn |-> Absent]
        /\ warmup = TRUE
        /\ counted = [c \in Conn |-> 0]
        /\ seed = [c \in Conn |-> 0]

-----------------------------------------------------------------------------
(* The machine: sockets, and nettop printing their counters.               *)

Send(c) ==
    /\ open[c] /\ sent[c] < MaxSent
    /\ total' = [total EXCEPT ![c] = @ + 1]
    /\ sent' = [sent EXCEPT ![c] = @ + 1]
    /\ UNCHANGED <<machine, open, pre, reused, pipe, quiet, latest, book>>

Close(c) ==
    /\ open[c]
    /\ open' = [open EXCEPT ![c] = FALSE]
    /\ total' = [total EXCEPT ![c] = 0]
    /\ UNCHANGED <<machine, sent, pre, reused, pipe, quiet, latest, book>>

\* A key is new, or its local endpoint is used again: the counter restarts.
Open(c) ==
    /\ ~open[c]
    /\ open' = [open EXCEPT ![c] = TRUE]
    /\ reused' = IF pre[c] + sent[c] > 0 THEN reused \cup {c} ELSE reused
    /\ quiet' = [quiet EXCEPT ![c] = 0]
    /\ UNCHANGED <<machine, total, sent, pre, pipe, latest, book>>

\* nettop prints the row of an open connection.
Emit(c) ==
    /\ open[c] /\ Len(pipe) < MaxPipe
    /\ pipe' = Append(pipe, [conn |-> c, b |-> total[c]])
    /\ UNCHANGED <<env, quiet, latest, book>>

\* Time passes.  The reader keeps up with the pipe within one unit of time,
\* and every open connection is printed at least every RowGap.
Elapse(d) ==
    /\ pipe = <<>>
    /\ \A c \in Conn : open[c] => quiet[c] + d <= RowGap
    /\ quiet' = [c \in Conn |-> IF open[c] THEN quiet[c] + d ELSE 0]
    /\ latest' = [c \in Conn |-> Older(latest[c], d)]
    /\ base' = [c \in Conn |-> Older(base[c], d)]
    /\ UNCHANGED <<env, pipe, warmup, counted, seed>>

\* The machine sleeps, nettop and the sentinel with it: on waking, every
\* entry is older than Ttl.
Sleep ==
    /\ machine.sleeps
    /\ quiet' = [c \in Conn |-> 0]
    /\ latest' = [c \in Conn |-> Older(latest[c], Ttl + 1)]
    /\ base' = [c \in Conn |-> Older(base[c], Ttl + 1)]
    /\ UNCHANGED <<env, pipe, warmup, counted, seed>>

-----------------------------------------------------------------------------
\* setdefault instead of assignment.
Feed_FirstWins ==
    /\ pipe # <<>>
    /\ LET r == Head(pipe)
       IN  /\ latest' = IF latest[r.conn] # Absent THEN latest
                        ELSE [latest EXCEPT ![r.conn] = [b |-> r.b, age |-> 0]]
           /\ quiet' = [quiet EXCEPT ![r.conn] = 0]
    /\ pipe' = Tail(pipe)
    /\ UNCHANGED <<env, book>>

(* NettopStream._feed, the reader thread: the newest counter wins.         *)
Feed ==
    /\ pipe # <<>>
    /\ LET r == Head(pipe)
       IN  /\ latest' = [latest EXCEPT ![r.conn] = [b |-> r.b, age |-> 0]]
           /\ quiet' = [quiet EXCEPT ![r.conn] = 0]
    /\ pipe' = Tail(pipe)
    /\ UNCHANGED <<env, book>>

\* Connections whose row snapshot(now) keeps; the others are deleted.
Fresh == {c \in Conn : latest[c] # Absent /\ latest[c].age <= Ttl}

(* parse_flows on a one-shot nettop: the counters of what is open.         *)
OneShot == [c \in {x \in Conn : open[x]} |-> total[c]]

\* The flows a tick works on: the stream's snapshot or, when that is empty,
\* a one-shot sample, or nothing when that fails too.
Flows == IF Fresh # {} THEN {[c \in Fresh |-> latest[c].b]}
         ELSE {IF how = "sample" THEN OneShot ELSE <<>> : how \in machine.fallback}

(* _delta(prev, total, warmup): the first-observation rules. *)
Delta(prev, tot, cold) ==
    IF prev = Absent THEN (IF cold THEN 0 ELSE tot)
    ELSE IF tot < prev.b THEN tot
    ELSE tot - prev.b

\* baseline = dict(flows), as before the baseline was carried for a TTL.
Rebase_Replaced(flows) ==
    [c \in Conn |-> IF c \in DOMAIN flows THEN [b |-> flows[c], age |-> 0]
                    ELSE Absent]

\* Entries are carried and stamped, but those of this tick keep their value.
Rebase_KeepsOld(flows) ==
    [c \in Conn |->
        IF c \in DOMAIN flows
        THEN [b |-> IF base[c] = Absent THEN flows[c] ELSE base[c].b, age |-> 0]
        ELSE IF base[c] # Absent /\ base[c].age > Ttl THEN Absent
        ELSE base[c]]

\* The baseline after a tick: the flows just seen, and what has been gone for
\* no longer than Ttl.
Rebase(flows) ==
    [c \in Conn |->
        IF c \in DOMAIN flows THEN [b |-> flows[c], age |-> 0]
        ELSE IF base[c] # Absent /\ base[c].age > Ttl THEN Absent
        ELSE base[c]]

\* The history of counted bytes is only told apart up to MaxCounted.
Saturated(n) == IF n > MaxCounted THEN MaxCounted ELSE n

(* aggregate_flows: what each connection is charged in this tick.          *)
Charged(flows) == [c \in DOMAIN flows |-> Delta(base[c], flows[c], warmup)]

(* Sampler._tick, from the snapshot to the baseline. *)
Tick ==
    /\ machine.prompt => pipe = <<>>
    /\ latest' = [c \in Conn |-> IF c \in Fresh THEN latest[c] ELSE Absent]
    /\ \E flows \in Flows :
         /\ counted' = [c \in Conn |->
               IF c \in DOMAIN flows THEN Saturated(counted[c] + Charged(flows)[c])
               ELSE counted[c]]
         /\ base' = Rebase(flows)
         /\ seed' = IF warmup
                    THEN [c \in Conn |-> IF c \in DOMAIN flows THEN flows[c] ELSE 0]
                    ELSE seed
    /\ warmup' = FALSE
    /\ UNCHANGED <<env, pipe, quiet>>

\* Baselines are set one by one, while the flows are observed.
TickThrows_SetsBase ==
    /\ machine.throws /\ (machine.prompt => pipe = <<>>)
    /\ latest' = [c \in Conn |-> IF c \in Fresh THEN latest[c] ELSE Absent]
    /\ \E flows \in Flows :
         \E reached \in SUBSET {c \in DOMAIN flows : Charged(flows)[c] > 0} :
           /\ counted' = [c \in Conn |->
                 IF c \in reached THEN Saturated(counted[c] + Charged(flows)[c])
                 ELSE counted[c]]
           /\ base' = Rebase(flows)
    /\ UNCHANGED <<env, pipe, quiet, warmup, seed>>

(* Sampler._tick that throws while flows are observed, after some of them: *)
(* run logs it, and the baseline is still that of the tick before.         *)
TickThrows ==
    /\ machine.throws /\ (machine.prompt => pipe = <<>>)
    /\ latest' = [c \in Conn |-> IF c \in Fresh THEN latest[c] ELSE Absent]
    /\ \E flows \in Flows :
         \E reached \in SUBSET {c \in DOMAIN flows : Charged(flows)[c] > 0} :
           counted' = [c \in Conn |->
               IF c \in reached THEN Saturated(counted[c] + Charged(flows)[c])
               ELSE counted[c]]
    /\ UNCHANGED <<env, pipe, quiet, base, warmup, seed>>

Next == \/ \E c \in Conn : Send(c) \/ Close(c) \/ Open(c) \/ Emit(c)
        \/ \E d \in Steps : Elapse(d)
        \/ Sleep
        \/ Feed
        \/ Tick
        \/ TickThrows

Spec == Init /\ [][Next]_vars

\* The sampler and reader threads run, not every tick throws, and nettop keeps
\* printing every open connection: each again and again, whatever else is.
FairSpec == /\ Spec
            /\ WF_vars(Feed) /\ WF_vars(Tick)
            /\ \A c \in Conn : SF_vars(Emit(c))

-----------------------------------------------------------------------------
(* Types; deltas are never negative (aggregate_flows drops delta <= 0).    *)
TypeOK ==
    /\ machine \in Machines
    /\ open \in [Conn -> BOOLEAN]
    /\ total \in [Conn -> Nat] /\ pre \in [Conn -> Nat]
    /\ sent \in [Conn -> Nat] /\ counted \in [Conn -> Nat]
    /\ seed \in [Conn -> Nat] /\ quiet \in [Conn -> Nat]
    /\ reused \subseteq Conn
    /\ pipe \in Seq([conn : Conn, b : Nat])
    /\ latest \in [Conn -> Aged \cup {Absent}]
    /\ base \in [Conn -> Aged \cup {Absent}]
    /\ warmup \in BOOLEAN

\* Connections whose counter was not (fully) in the warm-up tick's flows.
Cold == {c \in Conn : seed[c] < pre[c]}

(* Exactly-once accounting (aggregate_flows and _tick's baseline): while a *)
(* key names one socket, its counter as last seen is what was counted plus *)
(* what the warm-up seeded.  No byte is counted twice and none is skipped, *)
(* whichever ticks saw the connection and whichever of stream and fallback *)
(* they saw it through.                                                    *)
CountedExactlyOnce ==
    \A c \in Conn \ reused :
        base[c] # Absent => base[c].b = counted[c] + seed[c]

(* Whatever goes wrong, the error is on the side of reporting: through     *)
(* sleep, rows read late, failing fallbacks and ticks that throw between   *)
(* one observation and the next, a key's counter as last seen never        *)
(* exceeds what was counted for the key and what the warm-up seeded.       *)
NothingSkipped ==
    \A c \in Conn :
        base[c] # Absent => base[c].b <= counted[c] + seed[c]

(* sentinel.py:441-456, a connection must not "manufacture egress": what   *)
(* is attributed to a key never exceeds what was sent under it since the   *)
(* start, through closing, ageing out, port reuse, and stream or fallback. *)
(* (Keys the warm-up tick did not see are NothingBeforeStart's business.)  *)
NoManufacturedEgress == \A c \in Conn \ Cold : counted[c] <= sent[c]

(* sentinel.py:315-316, bytes of connections older than the sampler        *)
(* "predate us; counting them would fire a red on every launch".           *)
NothingBeforeStart == \A c \in Conn : counted[c] <= sent[c]

\* No connection's row was read within one tick interval of this tick.
StreamSilent == \A c \in Conn : latest[c] # Absent => latest[c].age > 1

(* sentinel.py:377-378, the sampler "falls back to a one-shot sample for   *)
(* any tick where the stream has produced nothing": with a one-shot that   *)
(* works, such a tick leaves every open connection's baseline up to date.  *)
SilentStreamFallsBack ==
    [][Tick /\ StreamSilent
         => \A c \in Conn : open[c] => base'[c] = [b |-> total[c], age |-> 0]]_vars

(* Nothing sent on a connection that stays open is lost: in the end every  *)
(* byte of it is counted (or was seeded), whichever rows ticks caught, and *)
(* through late rows, failing fallbacks and sleep, once the machine stays  *)
(* awake.                                                                  *)
OpenEventuallyCounted ==
    \A c \in Conn :
        <>[]open[c] /\ <>[][~Sleep]_vars => <>[](c \in reused \/ counted[c] + seed[c] >= total[c])
=============================================================================
