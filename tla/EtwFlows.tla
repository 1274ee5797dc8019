------------------------------ MODULE EtwFlows ------------------------------
(***************************************************************************)
(* Byte counts on Windows (wincapture): the kernel's network provider      *)
(* queues one event per transfer, a consumer thread feeds them to          *)
(* FlowAccumulator, and a sampler's tick takes the difference between its  *)
(* cumulative rows and the tick before (sentinel.aggregate_flows, as for   *)
(* nettop).  Names come from proctree's map of the process table, which is *)
(* up to a second old, and are kept per pid.                               *)
(*                                                                         *)
(* IPv4 and IPv6 ids behave alike and are one, and so do sends of TCP and  *)
(* of UDP.  Events that lack a field are left out, as by translate.        *)
(***************************************************************************)
EXTENDS Integers, Sequences, FiniteSets, Functions

CONSTANTS Pid, Name,
          Peer,      \* addresses of other machines
          Here,      \* this machine's own address
          Nowhere,   \* stands for loopback, multicast, link-local and broadcast
          Sizes,     \* bytes of a transfer; connect and teardown have none
          Limits,    \* max_keys
          MaxMoves,  \* bound: transfers
          MaxQueue,  \* bound: events that wait
          MaxBirths, \* bound: processes
          Absent     \* "no such process", "no name"

ASSUME EtwAssumption ==
    /\ {Here, Nowhere} \cap Peer = {} /\ Here # Nowhere
    /\ Sizes \subseteq Nat /\ Limits \subseteq Nat
    /\ {MaxMoves, MaxQueue, MaxBirths} \subseteq Nat /\ Absent \notin Name

VARIABLES
    limit,    \* never changes: _max_keys
    proc,     \* name of the process under each pid, or Absent
    map,      \* proctree's map of it
    queue,    \* events that were not delivered yet, oldest first
    flows,    \* _flows: row -> bytes in each direction
    names,    \* _names: pid -> name
    byEvent,  \* _by_event
    dropped,  \* _dropped
    base,     \* Sampler.baseline
    warmup,   \* Sampler.warmup
    births,   \* history: processes started
    moves,    \* history: transfers
    moved,    \* history: bytes that really went, by process and peer
    counted,  \* history: bytes the ticks have charged
    lost,     \* history: bytes the warm-up discarded, a full table refused, or
              \* that came in while their row sent nothing
    refused,  \* history: rows a full table refused
    settled   \* history: a tick has come since the last event

world  == <<limit, proc, births, moves, moved>>
acc    == <<flows, names, byEvent, dropped, refused>>
ticked == <<base, warmup, counted>>
vars   == <<world, map, queue, acc, ticked, lost, settled>>

\* The fallback f"pid-{pid}".
Unnamed == Absent
Dir   == {"out", "inb"}
Ids   == {"send", "tcpRecv", "udpRecv", "tcpCopy"}
Ip    == Peer \cup {Here, Nowhere}
Row   == [name : Name \cup {Unnamed}, pid : Pid, ip : Ip]
Bytes == [Dir -> Nat]
Event == [id : Ids, pid : Pid, saddr : Ip, daddr : Ip, size : Nat]
Account == Pid \X Peer \X Dir
Zero  == [m \in Account |-> 0]
Empty == [x \in {} |-> x]

Init == /\ limit \in Limits
        /\ proc = [p \in Pid |-> Absent] /\ map = proc
        /\ queue = <<>> /\ flows = Empty /\ names = Empty
        /\ byEvent = [i \in Ids |-> 0] /\ dropped = 0
        /\ base = Empty /\ warmup = TRUE
        /\ births = 0 /\ moves = 0
        /\ moved = Zero /\ counted = Zero /\ lost = Zero
        /\ refused = {} /\ settled = FALSE

-----------------------------------------------------------------------------
(* The machine.                                                            *)

Start(p, n) ==
    /\ proc[p] = Absent /\ births < MaxBirths
    /\ proc' = [proc EXCEPT ![p] = n] /\ births' = births + 1
    /\ UNCHANGED <<limit, moves, moved, map, queue, acc, ticked, lost, settled>>

Exit(p) ==
    /\ proc[p] # Absent
    /\ proc' = [proc EXCEPT ![p] = Absent]
    /\ UNCHANGED <<limit, births, moves, moved, map, queue, acc, ticked, lost, settled>>

\* Somebody's look at the process table takes a new map.
Taken ==
    /\ map' = proc
    /\ UNCHANGED <<world, queue, acc, ticked, lost, settled>>

\* What moves between a process and an address: bytes in either direction,
\* and what is only sent, to no destination or without bytes.
Transfers == [how : {"send", "tcpRecv", "udpRecv"}, ip : Peer, size : Sizes \ {0}]
             \cup [how : {"send"}, ip : Peer, size : Sizes \cap {0}]
             \cup [how : {"send"}, ip : {Nowhere}, size : Sizes \ {0}]

\* The peer of a TCP event is in daddr, in both directions; a UDP datagram
\* is received for this machine, or for a group.
Events(t, p) ==
    LET Ev(id, src, dst) == [id |-> id, pid |-> p, saddr |-> src, daddr |-> dst, size |-> t.size]
    IN  CASE t.how = "send"    -> {<<Ev("send", Here, t.ip)>>}
          [] t.how = "tcpRecv" -> {<<Ev("tcpRecv", Here, t.ip), Ev("tcpCopy", Here, t.ip)>>}
          [] t.how = "udpRecv" -> {<<Ev("udpRecv", t.ip, to)>> : to \in {Here, Nowhere}}

Move(t, p) ==
    /\ proc[p] # Absent /\ moves < MaxMoves
    /\ \E es \in Events(t, p) : queue' = queue \o es /\ Len(queue') <= MaxQueue
    /\ moves' = moves + 1
    /\ moved' = [m \in Account |->
          moved[m] + IF m = <<p, t.ip, IF t.how = "send" THEN "out" ELSE "inb">> THEN t.size ELSE 0]
    /\ settled' = FALSE
    /\ UNCHANGED <<limit, proc, births, map, acc, ticked, lost>>

-----------------------------------------------------------------------------
(* translate                                                               *)

SendIds == {"send"}
RecvIds == {"tcpRecv", "udpRecv"}

\* daddr for all of them.
Remote_Daddr(e) == e.daddr

\* REMOTE_IN_SADDR.
Remote(e) == IF e.id = "udpRecv" THEN e.saddr ELSE e.daddr

Counts(e) == e.id \in SendIds \cup RecvIds /\ e.size > 0 /\ Remote(e) # Nowhere

Delta(e) == [d \in Dir |-> IF (d = "out") = (e.id \in SendIds) THEN e.size ELSE 0]

-----------------------------------------------------------------------------
(* FlowAccumulator.name_for, feed                                          *)

With(f, k, v) == [x \in DOMAIN f \cup {k} |-> IF x = k THEN v ELSE f[x]]

\* Looked up at every event.
Known_Never(p, m) == With(names, p, m[p])

\* The names after a lookup of p in the map m: when there are too many, all
\* are forgotten first.
Known(p, m) ==
    IF p \in DOMAIN names THEN names
    ELSE With(IF Cardinality(DOMAIN names) > limit THEN Empty ELSE names, p, m[p])

Full(k) == k \notin DOMAIN flows /\ Cardinality(DOMAIN flows) >= limit

\* The rows after b more bytes under k.
Table(k, b) ==
    IF Full(k) THEN flows
    ELSE With(flows, k, [d \in Dir |-> b[d] + IF k \in DOMAIN flows THEN flows[k][d] ELSE 0])

\* What is lost with b bytes of a row.
Lose(p, ip, b) ==
    [m \in Account |-> lost[m] + IF m[1] = p /\ m[2] = ip THEN b[m[3]] ELSE 0]

\* The event is no transfer with a peer.
FeedNothing ==
    /\ queue # <<>> /\ ~Counts(Head(queue))
    /\ queue' = Tail(queue)
    /\ UNCHANGED <<world, map, acc, ticked, lost, settled>>

\* A name that is not known is looked up, perhaps in a map that is new.
Feed ==
    /\ queue # <<>> /\ Counts(Head(queue))
    /\ \E m \in {map, proc} :
         LET e == Head(queue)
             k == [name |-> Known(e.pid, m)[e.pid], pid |-> e.pid, ip |-> Remote(e)]
         IN  /\ names' = Known(e.pid, m)
             /\ map' = m
             /\ byEvent' = [byEvent EXCEPT ![e.id] = @ + e.size]
             /\ flows' = Table(k, Delta(e))
             /\ dropped' = IF Full(k) THEN dropped + 1 ELSE dropped
             /\ refused' = IF Full(k) THEN refused \cup {k} ELSE refused
             /\ lost' = IF Full(k) THEN Lose(e.pid, Remote(e), Delta(e)) ELSE lost
    /\ queue' = Tail(queue)
    /\ settled' = FALSE
    /\ UNCHANGED <<world, ticked>>

-----------------------------------------------------------------------------
(* snapshot, and the tick that differentiates it (see FlowAccounting for   *)
(* _delta; rows are never deleted, so that their baseline never expires).  *)

\* The difference of a row.
Fresh(k, d) ==
    IF k \notin DOMAIN base THEN (IF warmup THEN 0 ELSE flows[k][d])
    ELSE IF flows[k][d] < base[k][d] THEN flows[k][d]
    ELSE flows[k][d] - base[k][d]

\* aggregate_flows: a row that has sent nothing is passed over.
Charged(k, d) == IF Fresh(k, "out") > 0 THEN Fresh(k, d) ELSE 0

\* What the tick before has had of a row, and what has come since.
Paid(k, d)    == IF k \in DOMAIN base THEN base[k][d] ELSE 0
Waiting(k, d) == flows[k][d] - Paid(k, d)

\* What a tick gives up of a row: everything at the warm-up, later what came
\* in while nothing went out.
GivenUp(k, d) ==
    IF warmup \/ (d = "inb" /\ Waiting(k, "out") = 0) THEN Waiting(k, d) ELSE 0

Rows(m)    == {k \in DOMAIN flows : k.pid = m[1] /\ k.ip = m[2]}
Charges(m) == [k \in Rows(m) |-> Charged(k, m[3])]
Losses(m)  == [k \in Rows(m) |-> GivenUp(k, m[3])]

\* snapshot hands the rows over and starts new ones.
Tick_Drains ==
    /\ counted' = [m \in Account |-> counted[m] + SumFunction(Charges(m))]
    /\ lost' = [m \in Account |-> lost[m] + SumFunction(Losses(m))]
    /\ base' = [k \in DOMAIN base \cup DOMAIN flows |->
                   IF k \in DOMAIN flows THEN flows[k] ELSE base[k]]
    /\ flows' = Empty
    /\ warmup' = FALSE /\ settled' = TRUE
    /\ UNCHANGED <<world, map, queue, names, byEvent, dropped, refused>>

Tick ==
    /\ counted' = [m \in Account |-> counted[m] + SumFunction(Charges(m))]
    /\ lost' = [m \in Account |-> lost[m] + SumFunction(Losses(m))]
    /\ base' = [k \in DOMAIN base \cup DOMAIN flows |->
                   IF k \in DOMAIN flows THEN flows[k] ELSE base[k]]
    /\ warmup' = FALSE /\ settled' = TRUE
    /\ UNCHANGED <<world, map, queue, acc>>

Next == \/ \E p \in Pid : Exit(p) \/ \E n \in Name : Start(p, n)
        \/ Taken
        \/ \E t \in Transfers, p \in Pid : Move(t, p)
        \/ FeedNothing \/ Feed
        \/ Tick

Spec == Init /\ [][Next]_vars

-----------------------------------------------------------------------------
TypeOK ==
    /\ limit \in Limits
    /\ proc \in [Pid -> Name \cup {Absent}] /\ map \in [Pid -> Name \cup {Absent}]
    /\ queue \in Seq(Event)
    /\ DOMAIN flows \subseteq Row /\ flows \in [DOMAIN flows -> Bytes]
    /\ DOMAIN base \subseteq Row /\ base \in [DOMAIN base -> Bytes]
    /\ DOMAIN names \subseteq Pid /\ names \in [DOMAIN names -> Name \cup {Unnamed}]
    /\ byEvent \in [Ids -> Nat] /\ dropped \in Nat /\ warmup \in BOOLEAN

(* Every byte between a process and a peer is charged at most once, in its *)
(* direction, and once the events are delivered and a tick has come, just  *)
(* once (wincapture.py:18-23, "the consumer is unchanged"), except those   *)
(* the warm-up tick discards, those a full table refuses, which are        *)
(* "reported, not silent" (wincapture.py:203-204), and those received in a *)
(* tick in which their row sent nothing: aggregate_flows passes over such  *)
(* a row (sentinel.py:342-343) though its baseline advances.               *)
EachByteOnce ==
    /\ \A p \in Pid, ip \in Peer, d \in Dir :
          LET n == counted[p, ip, d] + lost[p, ip, d]
          IN  /\ n <= moved[p, ip, d]
              /\ (settled /\ queue = <<>>) => n = moved[p, ip, d]
    /\ dropped = 0 => refused = {}

(* wincapture.py:68-71, no destinations that are "peers that do not        *)
(* exist": a row names an address that the process has exchanged bytes     *)
(* with, never this machine, nor a group, nor a mere attempt to connect.   *)
PeersAreReal ==
    \A k \in DOMAIN flows : \E d \in Dir : k.ip \in Peer /\ moved[k.pid, k.ip, d] > 0

(* The rows of one pid bear one name: late events, stale maps, forgotten   *)
(* names and pids that are given out again never split what it moved into  *)
(* rows of two names.                                                      *)
OneNameEach ==
    \A k, l \in DOMAIN flows : k.pid = l.pid => k.name = l.name

(* proctree.py:154-155, a stale map "is harmless here": the rows of a      *)
(* process that runs, under a pid that is its own, bear its name.          *)
StaleMapHarmless ==
    \A k \in DOMAIN flows : (births <= 1 /\ proc[k.pid] # Absent) => k.name = proc[k.pid]

(* wincapture.py:185, "pids are recycled; so is this": the rows of a       *)
(* process that runs do not bear the name of another one.                  *)
NamesAreRecycled ==
    \A k \in DOMAIN flows : proc[k.pid] # Absent => k.name \in {proc[k.pid], Unnamed}

(* wincapture.py:20-23, the first difference of a row "is its full byte    *)
(* count [...] by construction": nothing is lost but what was refused.     *)
FirstDiffIsFull == (dropped = 0) => lost = Zero

(* What is received is charged as what is sent is: after the warm-up, bytes *)
(* are lost only to a full table.                                          *)
ReceivedIsCharged == [][lost' = lost \/ warmup \/ dropped' # dropped]_vars

(* wincapture.py:222, diagnostics' "dropped_new_flows" are flows.          *)
DroppedAreFlows == dropped = Cardinality(refused)
=============================================================================
