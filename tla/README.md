# Verification of agent-egress-sentinel

TLA+ models of the sentinel's own logic, the TLC runs that check them on small
instances, and proofs, checked by TLAPS, of the results that hold for every
instance. Every definition is translated from the Python source; the table in
`PROJECT.json` under `map` gives the lines each definition stands for.

## The system

The sentinel watches what the processes of AI agents on a machine send out, and
warns in the menu bar. One process runs two threads (a sampler and a UI), a
second one (the sniffer, under sudo) sees packets, and hooks inside the agents
declare what they are about to do.

| part | state | operations | talks to |
|---|---|---|---|
| `NettopStream` (`sentinel.py`) | `_latest`: counters per connection with the time of their last row | reader thread `_feed`; `snapshot`, which ages rows out | nettop's pipe; the sampler, under a lock |
| flow accounting (`Sampler._tick`, `_delta`, `aggregate_flows`) | `baseline`, `seen_ts`, `warmup` | one-shot fallback, deltas, baseline with TTL | snapshot in, deltas out to all detectors |
| `DestLedger` (`ledger.py`) | leaky buckets per (pid, kind, destination) | `add`, `breaches`, `gc` | called by the tick |
| `DestinationFanout`, `CovertChannelDetector` (`ledger.py`) | running totals; bounded histories | `observe`, `fanout` / `suspicious`, `gc` | called by the tick |
| `Reconciler` (`activity.py`) | tail of the activity file, pending records, report marks, novelty baseline | `refresh`, `observe`, `gc`, `drain` | hooks through the file; the tick |
| alert path (`Sampler._push`, `SentinelApp`) | cooldown per (pid, kind), queue, alert list, icon, count of refusals | alert loop, drain of verdicts, UI timer, click | sampler and UI threads through the locked queue |
| dead-man switch (`deadman.py`) | the heartbeat file | `beat`, `coverage_gap`, `stale_for` | sampler writes, sniffer and the next launch read |
| `StreamAssembler` (`tlsparse.py`) | buffers per stream, finished streams | `feed`, retirement | packets in, names out to `sni.jsonl` |
| SNI join (`sni_sniffer.py`) | `sni.jsonl` | append, rotation; `SNICache` looks names up in its tail | sniffer writes, sampler reads |
| lineage (`proctree.py`, `_agent_for`) | attribution cache; on Windows a map of the process table | `ancestors`, `attribute`, `_agent_for` | the process table; the tick, `Reconciler` and the hook |
| declarations (`declare.py`, `hooks/`) | the activity file | append | read by `Reconciler` |
| allowlist (`endpoints.py`) | patterns and the mtime they were read at | hot reload, `matches` | called by the tick |
| Windows capture (`wincapture.py`) | totals per flow, names per pid | `FlowAccumulator`: `feed` on a consumer thread, `snapshot` | the process table; the tick (not wired into the sampler yet) |

What makes this hard to get right, and hard to test: counters arrive through two
channels of different age (stream and one-shot) and connections come, go, age
out and reuse their ports between any two ticks; nearly every table is cleaned up
lazily and with its own lifetime; declarations and the bytes they explain come
in either order; the detectors' messages pass through a cooldown, a queue and an
icon that another thread clears; processes die, hang, throw and have their pids
reused; packets are lost, repeated and reordered. `PROJECT.json` lists the
hazards line by line under `hazards`, with the properties that would catch each
one going wrong or the reason why none does yet.

What correct means, part by part:

- flow accounting: every byte counted once, none invented, none lost for ever;
- ledger: no pacing evades it, and no breach without the bytes;
- fan-out and covert channel: a hit is one, and the scan or beacon is found;
- reconciler: what was declared is not accused, what was not is reported (first
  contacts, bypasses), once per window and for the right reason;
- alert path: what is found stays visible until it has been looked at;
- dead-man switch: silence is noticed, whoever has the pid, and activity is not
  taken for silence;
- reassembly: bounded memory, the right name for the right stream, once;
- lineage: traffic is laid to an agent if and only if the agent truly stands behind it;
- tail: every declaration once, in order, and all of them in the end;
- SNI join and allowlist: no name that was not sent to the address, and nothing
  excused but by the list as it stands;
- Windows capture: each byte once, under the right process and a real peer.

## The modules

| module | models | abstract or composed with |
|---|---|---|
| `LeakyBucket` | the promise of `ledger.py`'s docstring | abstract specification |
| `DestLedger` | `DestLedger` and the wall clock it is given | implements `LeakyBucket` |
| `DestLedgerProofs` | proofs about `DestLedger` | |
| `FlowAccounting` | sockets, nettop's pipe, `NettopStream`, accounting half of `_tick` | |
| `Reconciler` | `Reconciler`, the activity file and its writers | |
| `ReconcilerProofs` | proofs about `Reconciler` | |
| `ActivityTail` | `Reconciler.refresh` byte by byte, the writers and rotations it races with | gives `Reconciler` its whole lines |
| `IntakeProofs` | proofs about `FlowAccounting` and `ActivityTail`, what a tick takes in | |
| `AlertPath` | reporting half of `_tick`, `_push`, `SentinelApp` | |
| `AlertPathProofs` | proofs about `AlertPath` | |
| `Deadman` | `deadman.py` and its three callers, the process table | |
| `SnifferProofs` | proofs about `Deadman`, `SniJoin` and `HelloStream`, the three parts of `run_sniffer` | |
| `Fanout` | `DestinationFanout` | |
| `CovertChannel` | `CovertChannelDetector` | |
| `Detectors` | `observe`, collection and judging in `_tick` | composes `Fanout` and `CovertChannel` |
| `DetectorsProofs` | proofs about `Detectors`, and `Fanout` and `CovertChannel` under it | |
| `SniJoin` | `run_sniffer`'s file, `SNICache`, `Allowlist`, the three kinds of `aggregate_flows` | what `Detectors` takes as changing names |
| `HelloStream` | `StreamAssembler` under `run_sniffer` | |
| `Lineage` | `proctree.py`'s walks, `_agent_for` and its cache, the hook's `agent_pid`, the process table | |
| `LineageProofs` | proofs about `Lineage` | |
| `EtwFlows` | `translate`, `FlowAccumulator`, the map of the process table, the tick's differences | |
| `EtwFlowsProofs` | proofs about `EtwFlows` | |

An `MC...` module instantiates each for TLC. Operators called `X_Something` are
variants of `X` with a slip in it that a change of the code could make. No
behaviour uses them; putting one in the place of `X` shows which property would
notice (`mutants` in `PROJECT.json`).

### State and actions against the code

**DestLedger.** `buckets` is `_buckets`, a missing key is `Absent`. `Add`, `Gc`
and `Breaches` are `add`, `gc` and `breaches`; `Drained` is `_drained` with its
floor. The clock is `time.time()`: it follows real time (`Elapse`) and may be set
back (`StepBack`) by the steps in `backs`, which a behaviour chooses at its
start: none for a clock that cannot be set back. Two histories say what really happened: `sent`, and `before`,
the value of `sent` when each instant was reached, so that the bytes of *any*
window that ends now can be named. Rates and levels are integers.

**FlowAccounting.** The environment is a set of flow keys, each naming a socket
that opens, sends and closes; reopening restarts the counter under the same key,
which is what a reused local port looks like. `Emit` puts a row into the pipe,
`Feed` is the reader thread's `_feed`, `Tick` the sampler's part from the
snapshot to the new baseline, with the one-shot taken only if the snapshot is
empty. Time stamps only tell how old something is, so entries carry an age up to
`Ttl + 1`. `machine`, chosen at the start and never changed, fixes what may go
wrong in a behaviour: whether the machine sleeps, whether rows may still be in
the pipe when a tick runs, whether the one-shot works, and whether a tick may
throw (`TickThrows`: some flows were observed, the baseline was not touched,
and `run` goes on).

**Reconciler.** `Refresh`, `Observe`, `Gc` and `Drain` are the methods of those
names, in the order in which `_tick` calls them (`pc`). `Declare`, `Touch` and
`Rotate` are other processes writing the activity file, at any time. `decls`,
`pending`, `reported` and `seen` are the fields with an underscore; `truth`, `gone`,
`met`, `owed`, `bypass` and `since` are histories. `truth` is every declaration that a
refresh has read or a replaced file still held, rotations notwithstanding, and `gone`
how many of them were in a file that has been replaced since. `setting`, never changed,
fixes who sends, what is declared, whether a proxy is configured, and whether
hooks keep the file fresh (`steady`). Whether a host covers a destination and
who is an ancestor of whom are constants.

**AlertPath.** Messages are named by their source, (pid, kind), since that is
what `_push` distinguishes. `Alert` is one report of the alert loop, `Settle`
one verdict of `recon.drain`, `TickDone` the count of refused accusations;
`DrainStart`, `DrainOne` and `DrainEnd` are the UI timer's `_drain`, which takes
the lock per message, so that pushes fall in between; `ShowAlerts` is the click.
The timer is taken to keep up within one tick (`UI_DRAIN_SEC` is half of
`TICK_SEC`), and the click is one step: the modal dialog's duration is not modelled.

**Deadman.** Processes are (pid, start time) pairs over a small set of pids.
`Launch` is the start of `run` with its coverage gap, `Tick` beats first and then
succeeds, throws or hangs; `Packet` is the check in the packet loop of
`run_sniffer`; `Die`, `SpawnOther` and `ExitOther` are the rest of the machine.
Beats are replaced atomically in the code (a rename), so a reader sees a whole
one. A beat may fail to be written (`Unwritten`: `beat` passes the `OSError` over and
leaves the older one), and the start time of a living process may be unreadable to who
looks (`Blurred`). `blind` counts the time since egress was last classified, across
launches; `unsaid` the time the present sentinel has been without a written beat (`Absent` before its first),
`vain` whether a launch since got to its beat and no further, `threw` whether ticks throw.

**Fanout, CovertChannel, Detectors.** One action per method; ages instead of time
stamps; the coefficient of variation is compared without a division
(`sum((n*g - s)^2) / (n*s^2)` is its square). `Detectors` is the part of `_tick`
that drives both: `Observe` is the tick's closure of that name for one flow,
under the flow's name or address in one detector and its address in the other
(`FanKey`), as often in a tick as there are connections to the address (bounded by `PerIp`
and `PerPid`), all with one time; `ObserveAi` is a process that only moved bytes to AI endpoints and so is
judged without being observed. `Judge` is the two `gc` and the loop over `per_pid`, which
only looks at processes that moved bytes in this tick and are agents.

**ActivityTail.** The file is a sequence of bytes: a line has a first, a last and
one or two that end it. `Stat` and `Read` are the two halves of `refresh`, with the
file's writers (`Write`, `Finish`) and its rotation (`Rotate`) in between. `Decoded`,
`Whole` and `Encoded` are what text mode, the partial line and the re-encoded
length make of the bytes; `Parsed` stops where `int()` raises. `setting` fixes
line ends, kinds of lines and of rotations.

**SniJoin.** `RecordHello` records one ClientHello; `Rotate`, `WriteBlock`, `WriteRest`
are the rotation that `write_text` does block by block, `WriteFails` and `Crash`
cut it off, and a line without its end (`Torn`) takes the next record along. An allowlist
is its exact names and its patterns; `Effective` adds the built-in names where it has no
exact one, as `reload` does. `Resolve` is `domain_for_ip`, `Reloaded` `Allowlist.reload`, `Kind` what
`aggregate_flows` makes of both, and `Edit` an editor on the list's file.

**EtwFlows.** `Move` queues the events of one transfer, `Feed` and `FeedNothing`
are the consumer's `feed`, `Known` is `name_for` with its wholesale forgetting,
`Taken` somebody's new map of the process table, `Tick` the snapshot and the
difference to the one before. `Charged` passes over a row that sent nothing in the tick,
with what it received, as `aggregate_flows` does, and the baseline moves on all the same;
what is so lost is counted. What really moved, per process, peer and direction, is a
history.

**HelloStream.** A hello is a number of segments, of which one holds the name;
anything the connection sends afterwards is one further segment. `Capture` is a
packet to port 443 passing the interface, `Feed` the whole of `feed`. A buffer
is what came in, in the order it came; `Sni` parses what stands at each
position. Bytes that are no start of a record may still look like one (`Claims`).

**Lineage.** `Spawn` and `Exit` change the process table between any two looks of
a walk; POSIX hands orphans to init, Windows leaves a dead parent's pid in them.
`AgentFor` asks the cache, `Own`, `Parent` and `Ancestor` are the steps of
`attribute`, each with one look; `snap` is the Windows map with the start times
remembered beside it, dropped after a second (`Tick`, `Expire`). `Ancestors` and
`AgentPid` are `ancestors` and the hook's `agent_pid`. What a process *is* stands
in its record: an identity no pid reuse repeats, its true parent, and `kin`,
whether it or anything that truly started it is an agent; the properties compare
what the walks conclude from pids with that. One kind is a shell, whose command line may
name an agent (`mentions`: it names the hook's own file); `Heard` says which agents
`agent_pid` finds past it. One look is one step, though on Windows it reads a map and two
start times; a start time is unreadable only for a process that is gone; the clock that
ages the map is not set back.

## The runs

| run | shows | bounds, and why they are enough |
|---|---|---|
| `MCDestLedger` | every window in excess is reported; every report has such a window; `LeakyBucket` is implemented | two buckets, four units of time, deltas above and below the burst, collection as early as can be: a bucket can be filled, drained, collected and filled again; a clock that cannot be set back, and one that is by more than a step forward |
| `MCFlowAccounting` | exactly-once accounting, no manufactured egress | two keys (a snapshot that holds one and misses the other is what the baseline TTL is for), TTL of one tick, one byte at a time |
| `MCFlowLive` | nothing skipped, and every byte of a lasting connection counted in the end, with everything going wrong at once | one key, two bytes, two rows in the pipe |
| `MCReconciler` | who is reported, for what, how often | three settings: one agent under two declarations with targets and sizes; agent and stranger at one destination; an agent under a proxy with sizes and the file missing, stale, rotated. Window 2, settling 1, gc horizon 4 ticks keep the order of the code's constants |
| `MCAlertPath` | standing breaches shown, reds stay, refusals said | an agent and a process that is none, two kinds, cooldown of two ticks, two alerts kept of which one is shown |
| `MCDeadman` | silence reported, reused pids seen through, gaps said, no false alarm | two pids, four starts: enough for a death, a stranger under the old pid, and two relaunches; beats that cannot be written, start times that cannot be read, ticks that throw |
| `MCHelloStream` | bounded buffers, right names, once | four connections on two streams and one reused port; room for two buffers of two segments |
| `MCLineage` | no stranger blamed, standing agents found, true chains, hooks cover their agent's tools | for the walks three births (parent, child, and a stranger under the parent's pid); `max_depth` shorter than the longest line and as long; POSIX and Windows, pids used again after a second or never, `ps` that fails. For hooks four births (an agent known by name or by its command line, its tool, its hook, and a shell that names the hook's file), no walks beside them, and pids used once |
| `MCActivityTail` | nothing held twice, complete refreshes, everything held in the end | four lines, whole or in halves, two rotations: a file is read, rotated, and its successor read past the old offset |
| `MCSniJoin` | true names, the newest one, nothing excused by an old list | two names behind one address and one elsewhere, a rotation that keeps two of four lines; lists of exact names, of patterns only, and empty |
| `MCDetectors` | breadth of addresses, scans said, beacons said, under one tick | two addresses, of which one gains and loses a name, two connections in a tick, to one address or to both; two addresses make breadth, three bursts a beat, and a history keeps as many |
| `MCEtwFlows` | each byte once, real peers, one name per pid | three pids and tables of one and two rows: names can be forgotten, which takes more of them than rows |

Symmetry is used over connections, over pids of `Lineage`, and over pids, peers and
names of `EtwFlows`, where nothing tells them apart; never with a liveness property.
The modules' `TypeOK` is not listed in a run: for the ledger, the alert path, the
dead-man switch and fan-out it is proved, and TLC agrees with each of them in its
module's configurations.

### Fairness

Two runs assume some (`FairSpec`, `TailFairSpec`). `MCFlowLive`: the reader thread and the sampler
keep running (`WF` of `Feed` and `Tick`: both are loops that nothing in the code
blocks for ever, and `WF` of `Tick` says that not every tick throws), and nettop
keeps printing the row of every open connection
(`SF` of `Emit`: it prints one per second and connection, whatever else is in
the pipe). `MCActivityTail`: the sampler refreshes in every tick (`WF` of `Stat`
and of the read that follows); nothing is assumed of writers and rotations, which
are bounded and so come to rest. The deadlines of the other models are safety
properties: clocks and ages in the state, and a step of time that waits for what
the code does within that time.

## What is proved

For all values of the constants, under the assumptions the modules name:

- `DestLedgerProofs`: `TypeCorrect`; `NoPacingEvadesHolds`, with the clock set
  back as often as it likes; `BreachHasWindowHolds` and
  `LedgerImplementsLeakyBucket`, which speak of clocks that cannot be set back.
- `AlertPathProofs`: `TypeCorrect`, `RedStaysOnIconHolds`,
  `DeputyLeavesMarkHolds`, `StandingBreachShownHolds`, from `AlertAssumption`
  (the cooldown is at least one tick; no more is shown than kept).
- `IntakeProofs`: `NothingSkippedHolds`, from `FlowAssumption` (the history
  of counted bytes saturates above every counter); `CountedExactlyOnceHolds` and
  `NoManufacturedEgressHolds`, which add that rows stay fresh at least as long as
  nettop pauses (`RowGap <= Ttl`) and that machines are `Orderly`: no sleep past the
  TTL, no tick that throws, and never a one-shot sample and late rows behind one
  baseline. `MCFlowAccounting` checks both under the same conditions;
  `MCFlowTrouble.cfg` shows that neither the sleep nor the late rows can be allowed.
  Also `NothingTwiceHolds` and `RefreshCatchesUpHolds` of the tail, from
  `TailAssumption` (what settings are made of; "no file" is no file and "no inode seen"
  is no inode), with no other conditions than the properties themselves.
- `SnifferProofs`: `TypeCorrect`, `GoneIsSeenHolds`, `NoFalseAlarmHolds`,
  `GapIsSaidHolds`, and `SilenceIsReportedHolds` where packets arrive (`Traffic`);
  `NameIsTrueHolds`, `NewestNameUsedHolds`, `ExclusionIsListedHolds`, from
  `SniAssumption` (a rotation keeps no more lines than the tail reads);
  `BuffersBoundedHolds`, `NoForeignNameHolds`, `OnceEachHelloHolds`,
  `TidyHelloParsesHolds`, from `HelloAssumption` (a hello fits into a buffer; there is
  room for one stream at least). The theorems take no other conditions than the
  properties themselves, which TLC checks as they stand.
- `LineageProofs`: `NoStrangerBlamedHolds`, `ChainIsTrueLineHolds`,
  `HookCoversToolsHolds`, `SteadyAgentFoundHolds`, where a pid rests for a second before it
  is given out again (`Recycled`), as `MCLineage` checks them.
- `ReconcilerProofs`: `NoRepeatHolds`, `NovelIsFirstContactHolds`,
  `BypassSurfacesHolds`, `NovelIsReportedHolds`, from `ReconcilerAssumption` (the
  lifetimes stand in the order of the code's constants; where hooks write steadily
  nothing rotates their file); `DeclaredNotAccusedWhileKeptHolds` and
  `ExcessBeyondAllDeclaredHolds`, which add that no setting writes more declarations than
  the tail keeps (`Roomy`).
- `EtwFlowsProofs`: `EachByteOnceHolds`, `OneNameEachHolds`, `RowsBounded`,
  `PeersAreRealHolds`, from `EtwAssumption`.
- `DetectorsProofs`: `FanoutTypeCorrect`, `BroadIsBroadHolds`, `ScanIsSaidHolds`,
  `BeaconIsSaidHolds`, from `DetectorsAssumption` (the threshold of small totals is below
  where they saturate; a history has room for `MinEvents` entries; the tolerance of a beat
  and its least gap are positive).

`NoPacingEvades` speaks of what `breaches` reports, a function of a level that
was last drained at some earlier time. Its inductive form is that the level a
reader sees is never below the excess over any window that ends now; draining
lazily, with a floor at zero, preserves that because the excess falls by the
same amount as time passes, a new window begins with none, and gc drops only
what a reader sees as empty. Setting the clock back can only raise the level. The
converse needs a second invariant (`Attained`): a level that is not zero *equals*
the excess of some window. Together they pin a level to its worst window, also
when it is drained, floored and poured into; raising it by setting the clock back
would break this, hence the condition `backs = {}`. The refinement rests on the same lemmas
about what each step does to a reader's level: it drains exactly as the abstract
bucket's, and `Gc` is a stutter.

`StandingBreachShown` is not inductive as it stands. What carries it is a
relation between three clocks: how long a breach has stood, how old the last
push of its red is, and whether that message is still in the queue. While the
red is muted it is younger than the cooldown and was shown, or is queued; a step
of time waits for an empty queue. `RedStaysOnIcon` needs that a red in `hidden`
that no click has passed keeps the icon red through every `DrainOne`;
`DeputyLeavesMark` that refusals counted outside the cooldown never exceed the
counter itself.

`NothingSkipped` (no baseline runs ahead of what was counted and seeded) needs three
things beside it, `SkipInv`: that every counter in a socket, a row or the snapshot
is one a socket really reached (`CounterInv`, `RowInv`), which keeps the saturation
of the history out of the argument, and that there is no baseline before the
warm-up is over (`BookInv`), so that the seed and the first baseline are the same
number. A tick then adds to what was counted at least what it adds to a baseline
(`DeltaCovers`); a tick that throws only adds to what was counted.

`OneNameEach` looks false: names are forgotten wholesale and looked up anew, in
whatever map there is and for whoever has the pid by then. It holds because of two
limits that are the same number. `NameInv`: either names and rows agree (each name
has a row, each row bears the name that is known), or the table is full, and full
for ever, because rows are never deleted. Names are only forgotten when there are
more than `max_keys`, and while they agree there is a row for each, so by then the
table is full and no row comes that could bear another name. `PeersAreReal` needs
the same of every event on its way: `PeerInv` says that each event which counts was
queued by a transfer with the peer that `Remote` reads from it. `EachByteOnce` stands on
both. Bytes of an account (a process, a peer, a direction) that wait in the queue are held
by no variable, so `WayInv` says there is a sequence of numbers along the queue, each of
them the one before and what that event will add, which ends at the bytes that really
moved and starts at those that have arrived: charged, discarded, refused, or in a row
beyond its baseline. By `OneNameEach` an account has one row at most, so what a tick sums
over its rows is nothing or one term.

`CountedExactlyOnce` needs to know where every counter of a connection is (`ExactInv`):
along socket, pipe, snapshot and baseline they follow each other in the order in which
the socket reached them, and while a row is fresh the baseline is kept with it, so
that no tick takes what it had already counted for a new flow. That a row never ages
out under an open connection is what `RowGap <= Ttl` is for. `NoManufacturedEgress`
speaks of all sockets a key has had, so the counters of a closed one still in the pipe
have to be placed on the line of everything the key ever sent; `EgressInv` says that
such places exist, in the order of the pipe (its marks are bound by an existential:
no variable of the model holds them).

The dead-man switch rests on who can stand behind a beat (`ClaimInv`: a start time is
given out once, so only the sentinel that runs can be the process a beat names) and on
how old things are: the beat in the file is no older than the time a sentinel that runs
has gone without a written one (`BeatInv`), classification is at most one unit of time
older than the beat as long as no tick throws and no launch got to its beat and no further
(`BlindInv`), and a beat that was too old at the sniffer's last look has its alarm
(`LookInv`). Together they bound how long egress goes unclassified and unsaid.

The file of names is a queue whose front is cut off and whose lines can run into one
another. `FileInv` says of it that every whole line within the window was heard
(`HeardInv`), that hellos age in the order in which they came, those that a broken
rotation can have lost before the others (`OrderInv`), and that each of the last `Keep`
hellos that cannot have been lost has its line, as far from the end of the file, or of
what the rotation under way holds, as the hello is from the latest one (`PlaceInv`).
Since a lookup's tail is no shorter than what a rotation keeps, it reads the line of the newest
hello of an address, and `Max` of the matching places finds it. A flow is classified
in one step with the list's reload, so `ExclusionIsListed` needs only that a list with the
file's time of modification is the file's (`ListInv`).

A reassembly buffer is sound (`TableInv`) if each of its segments came on its own stream
and the length it waits for is that of the hello it begins with; buffers have different
streams, none is of a finished stream, and none is complete. What a buffer parses to was
then sent on its stream, and only a stream that is not finished can be named.
`TidyHelloParses` is about a hello that is interrupted by any number of others: `TidyInv`
says that the segments of an unfinished one that came so far stand in a buffer of its stream,
alone and in order. The oldest buffer may be dropped, but each buffer is of a
stream that was used, and so, when the table is full and one more comes, more streams have been
used than it has room for.

`NoStrangerBlamed` compares pids with what stands behind them, while the table changes
under the walk. `ForkInv` says what the holder of a parent's pid is: of the same
kin as the child, or (Windows) started later. `SnapInv` says how far the Windows map and the start
times remembered beside it can be out of date: in a calm tick only by processes whose
pid is new. `WalkInv` says that nothing the walk has visited is of an agent's kin
unless the flow's process is, and that a visited pid is held: not given to a
stranger while the walk can be trusted. `CacheInv` carries a verdict on for as
long as pids name one process. `Recycled`, and that no shell's command line names an agent
(`Speaking`, a condition of this property), are the two things the code cannot see for itself.

The other three properties of lineage speak of whole lines. `TrueLine` and `Ancestors` are recursive
functions, so it is first proved that they exist, by induction over the depth, and that a
line is determined by its first process (`OneLine`). Then the walk is compared with the
line step by step (`Tops`). A link of the walk is a link of the line because of three
facts about the present: a living process and its living parent name each other, and
whoever else has the parent's pid started after the child (`IdInv`); who lived when a calm
tick began is in the map (`FullInv`); and a pid outside the map was nobody's then.
`HookCoversTools` follows, since lines that meet run together from there (`SharedLine`).
`SteadyAgentFound` is about the walk as it goes, one look at a time: what it has visited are the
first processes of the line, those that must be found have been if they are among them
(`FoundInv`), and the next one still stands where it stood (`StandInv`).

`NoRepeat` is a race of two clocks: the mark in `_reported` and the time since the
report are equal while the window lasts, and gc, which drops marks, waits twice
as long. `NovelIsFirstContact`: what is remembered of a destination is never younger than
the contact it comes from, and no older where nothing is missed (`NovelInv`).
`BypassSurfaces` needs that a record that merged a bypass has not been begun anew since, keeps the
port that proves it, and that no report is younger than the bypass (`BypassInv`):
then `drain` meets it inside the window, unmuted. `NovelIsReported` is the same race
for the first contact, and needs what the flag was set from: that a contact in the
baseline is as recent as the record it left (`ContactInv`), that the record which
bears the flag is still there (`LeftInv`), and that a report of an earlier record
is by then too old to mute (`FirstInv`): novelty outlives the mark because
`Keep + Window <= SeenTtl + Settle`. `DeclaredNotAccusedWhileKept` is about a file that
is read late and forgotten in part: the tail and the lines not yet read are
one piece of the file in order of age (`LinesInv`), so to drop what is too old is to
drop a prefix, and every declaration of the last window that was read, and whose file
has not been replaced since (those beyond the first `gone` of `truth`), is in the
tail, in the same place counted from the end (`TruthInv`). `ExcessBeyondAllDeclared`
compares two sums, one over the tail and one over all such declarations. They are folds that
take their terms in an order `CHOOSE` fixes, so it is first proved, by induction over the
number of terms, that the order does not matter (`FoldsAdd`) and that a sum is no more than
another with all its terms (`SumWithin`); the places counted from the end name them.

`BroadIsBroad` and `ScanIsSaid` compare a record (one total, one time stamp) with the
deltas of the window it stands for. `RecordInv`: a record is as old as the last delta of
the window, its total is never less than their number, and none is kept under a
name, so what is counted is at least as many addresses. For the converse the tick matters, since
only who moves bytes is judged: `UnsaidInv` says that who moved in any tick since its last report
has never reached enough addresses from then on. In a tick without deltas nothing is judged, but
then the window holds no more than it did one tick before.

`BeaconIsSaid` compares the history of one name or address, a bounded list that also gc empties, with
the ticks in which it really moved bytes. `Beats` says that, from the last entry back, each is of
one of those ticks, and beyond them too old to be looked at; there are fewer entries than ticks only in
a full list. It holds where no tick of the window saw two connections: entries older than the
last such tick (`crowd`) may be anything, and those since are `Beats` (`Follows`). So what `suspicious` looks at are at least `MinEvents` entries of successive bursts, their
gaps are all the same, and by induction over their number (`SumSame`) they have no spread. An
entry of this tick is left only by a process that moved bytes in it (`ChanInv`), which is
therefore judged. Where two connections move bytes in one tick `Beats` does not
hold, nor does the property.

`NothingTwice` and `RefreshCatchesUp` are about the same bytes seen at two times. `FileInv`
says that lines stand in the file in the order in which they were begun, and that only the last
one can be half written. `HeldInv`: what is held rises in that order too, and comes
before every line that ends beyond the offset; hence nothing is held twice, also where the
offset drifts (an undecodable byte counts as three) or the file is another one. `SyncInv`:
once a refresh has seen the file, and unless that was rotated since, the offset is the end
of a line and what is held is, within the window, what the file declares up to there. A refresh
that is not overtaken reads the rest, and two rising sequences of the same numbers
are equal (`RisingSame`), so it ends with `Written`. What `Those` (a list comprehension) makes
of a file of any size is needed throughout. It is a recursive function, so it is first proved to exist
(`Recursion`), by induction over a *set* of numbers, and then to pick the places it is given,
each once and in order (`ThoseFacts`).

What stays with TLC: the liveness properties (`OpenEventuallyCounted` of `FlowAccounting`,
`EventuallyHeld` of `ActivityTail`), since fairness and ENABLED are out of the prover's reach.

## Where code and documentation disagree

Sentences of the repository that the code does not keep, and limits of what holds,
each with a configuration that reproduces it (`tlc -config X.cfg M` with the module
the name begins with; TLC reports the property violated). They are not part of
the regular runs:

- `MCFlowTrouble.cfg`, with its variants: a fallback tick stores the one-shot's counters
  as the baseline. A stream row printed before that sample and read after it is
  lower, looks like a counter reset (`_delta`), and is counted again in full;
  `sentinel.py:441-456` names manufactured egress as the error the per-connection
  keys were to end. After a sleep longer than the TTL, a tick that sees some of the
  connections drops the baseline of the others, which are then counted from zero
  (`sentinel.py:319-320` promises otherwise). The warm-up ends with the first tick,
  whatever it saw; older connections missing from it are charged with all they
  ever sent (`sentinel.py:314-315`). A stream gone silent keeps its rows for the
  TTL, and so long no one-shot is taken (`sentinel.py:377-378`).
- `MCDeadmanTrouble.cfg`, with its variants: without packets nobody looks at the beat;
  `run` catches what `_tick` throws and the next tick beats before it throws again,
  though `sentinel.py:561-562` says a throw shows as a missing beat. A sentinel that
  ticks is taken for dead where its beat cannot be written (`deadman.py:53-57` passes
  the error over) or the sniffer cannot read its start time (`deadman.py:97-99`):
  `TickingIsAlive`. A relaunch that beats and then hangs hides the gap before it,
  since the next one counts from its beat (`deadman.py:31-33` has that window
  surfaced): `UnwatchedIsSaid`.
- `MCDestLedgerBack.cfg`: setting the wall clock back raises a bucket's level
  without a byte (the error is on the side of reporting).
- `MCReconOld.cfg`: declarations expire before the records they explained, which
  are then judged undeclared (`activity.py:210`). A rotation forgets every declaration
  (`activity.py:320-323`), so that a flow declared just before it is accused, though
  `activity.py:309` has rotation tolerated: `DeclaredNotAccusedThroughRotation`.
- `MCAlertTrouble.cfg`, with the variants its comment names: a click turns the icon
  green over a red that ten newer alerts kept off the list it showed; a second
  verdict about a process within the cooldown is dropped although `drain` has
  marked its flow as reported (`activity.py:78-80`); the count of refusals is
  cleared before the cooldown may drop the message that says it (`sentinel.py:757`).
- `MCDetectorsTrouble.cfg`, with its variants: a beat that several connections carry, to
  one address or to several under one name, is not seen, for each connection is observed
  on its own (`sentinel.py:282-290`, `324-369`) and deltas of one tick are gaps of zero
  (`ledger.py:88`): `BeaconOfSeveral`; a destination contacted steadily falls out of the count, since
  its total is never reset (`ledger.py:169-170`); a service whose name comes and
  goes has its beat split between name and address, which fan-out was cured of
  (`sentinel.py:636-640`).
- `MCActivityTrouble.cfg`, with its variants: where lines end as on Windows, text
  mode reads fewer characters than bytes, the offset lags, and a declaration is
  read twice (`activity.py:327-334`); with a byte that is not UTF-8 it runs ahead;
  a file emptied and refilled between two refreshes is read on from the old
  offset (`activity.py:309-310` promises truncation is tolerated); a size of
  infinity costs the lines read with it.
- `MCSniLong.cfg`: a connection that lives longer than 60 s has no name, and an AI
  endpoint's bytes are observed as an unresolved destination's (`sentinel.py:302`).
- `MCSniPatterns.cfg`: a list that can be read but has only patterns gets the built-in
  names as well (`endpoints.py:138`), so hosts it does not list are excused;
  `endpoints.py:12-13` has the fallback for files that cannot be read.
- `MCEtwTrouble.cfg`, with its variants: what a row received in a tick in which it sent
  nothing is charged to nobody (`sentinel.py:342-343`): `ReceivedIsCharged`; a name stays with a pid that is given out
  again (`wincapture.py:185`); a process whose first event comes before it is in the
  map is `pid-N` for ever (`proctree.py:154-155` calls a stale map harmless); the
  warm-up tick discards bytes although a flow here "starts at zero"
  (`wincapture.py:20-23`), which will matter once the source is wired in; `dropped_new_flows` counts events, not
  flows (`wincapture.py:222`).
- `MCHelloSplit.cfg`: a repeated segment keeps a split hello from being named
  (`tlsparse.py:24-26`).
- `MCLineageTrouble.cfg`, with its variants: a process that gets the name and pid of an
  agent's dead child gets its verdict too (`sentinel.py:537`, "stable for a pid"); a
  child that exits between the map and the question for its start time has none,
  and the guard lets a stranger pass as its parent (`proctree.py:188-190`), as it
  does one that got the parent's pid within the second the child started in; a
  shell whose command line names the hook's file looks like the nearest agent to
  `agent_pid` if the agent itself is a bare `node`, and the pid declared explains
  nothing (`claude_code_declare.py:91-93`): `EveryHookCoversTools`.

The checked properties carry the conditions these leave: `NovelIsFirstContact`
holds where reconciliation is never inactive; `DeclaredNotAccusedWhileKept` and
`ExcessBeyondAllDeclared` are about declarations whose file has not been replaced since;
`SilenceIsReported` while no tick throws and packets come; `GapIsSaid` while no tick throws
and no launch in between got to its beat and no further; `NoFalseAlarm` for looks that can
read the start time and a beat written within the limit; `TidyHelloParses` for hellos whose
segments come in order and once, on ports not used before; `BeaconIsSaid` for beats each of
whose bursts is one connection's; `NoManufacturedEgress` where no tick throws (the deltas
observed before the exception are observed again), nothing sleeps past the TTL, and one-shot
and late rows do not meet; `EachByteOnce` counts as lost what a row received in a tick in
which it sent nothing; `RefreshCatchesUp` is for plain lines and files not refilled unnoticed;
`ExclusionIsListed` for edits the mtime tells apart, the built-in names being part of a list
without exact ones; `DeputyLeavesMark` for refusals outside the cooldown; `RedStaysOnIcon`
until the next click, whatever it listed; `HookCoversTools` for agents known by name, or
by a command line that none between repeats; `NoStrangerBlamed` on Windows for calm ticks,
and for cached answers while pids are not used again; it and `SteadyAgentFound` where no
shell's command line names an agent.

## What is not modelled

Row, packet and event decoding (`parse_flows`' text, `iter_packets`,
`pcapreader.py`, the fields of ETW records, `etw_probe.py`), pattern matching of host
names, `agent_tokens` and `confusables`, the hook's search for hosts in a command,
notifications and dialog texts, the update ping, paths and repository scripts:
conversions and I/O without lasting state. Starting and stopping the ETW session is
I/O as well. The tick is modelled in parts (accounting, classification, shape
detectors, reconciliation, reporting), in the order of the code within each; one
module of all of them is out of TLC's reach. In `SniJoin` the wall clock is not set back,
and an append is written whole or cut off by a crash, not by a full disk; in
`FlowAccounting` a stream of nettop that is dead for good is outside the fairness assumed.

## Plan

Done: ledger, accounting, reconciler, the tail it reads, alert path, dead-man switch,
detectors under one tick, reassembly, SNI join with the allowlist, lineage, Windows
capture; proofs of every safety invariant and action property the runs check, and of
the ledger's refinement.

`SniJoin`, `HelloStream` and `ActivityTail` have definitions with the prefixes `Sni`, `Hello`
and `Tail`, because one module of proofs extends several of them.
