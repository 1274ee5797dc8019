----------------------------- MODULE Detectors ------------------------------
(***************************************************************************)
(* The two shape detectors in the sampler's tick (sentinel.Sampler._tick,  *)
(* observe and the loop over per_pid): every flow with a positive delta    *)
(* that is not an AI endpoint's is observed by CovertChannel under its     *)
(* name, or its address while it has none, and by Fanout under its         *)
(* address; both are collected; then those processes that moved bytes in   *)
(* this tick, also to AI endpoints alone, are judged.  A flow is one       *)
(* connection: an address may have several.  Whether it has a name may     *)
(* change from flow to flow (see SniJoin).  One unit of time is one tick.  *)
(***************************************************************************)
EXTENDS Integers, Sequences, FiniteSets, Functions

CONSTANTS Pid, Ip,
          NamesOf,    \* the names each address may have, if it has one
          Agent,      \* processes that are attributed to an agent
          Kb,         \* size bucket of a delta
          PerIp,      \* bound: connections to an address with a delta in one tick
          PerPid,     \* bound: connections of a process with one
          FanWindow, MinDests, Small, MaxSent,         \* see Fanout
          MinEvents, ChanWindow, CvPct, MinGap,        \* see CovertChannel
          ModePct, SmallKb, MaxLen,
          Absent

Name == UNION {NamesOf[i] : i \in Ip}

VARIABLES
    seen, recent, sent,  \* Fanout
    hist, bursts, crowd, \* CovertChannel
    pc,      \* the tick: "observe", or "judged" until the next one
    moved,   \* moved[k]: connections of k observed in this tick
    perPid,  \* per_pid: processes that moved bytes in this tick
    said,    \* what was reported in this tick for each process
    got,     \* history: got[k][a] deltas of k came a ticks ago, each of 1
    told     \* history: ticks since breadth was reported of each process

fan  == <<seen, recent, sent>>
chan == <<hist, bursts, crowd>>
vars == <<fan, chan, pc, moved, perPid, said, got, told>>

Key == Pid \X Ip

\* Fan-out could be given names, though it never is.
F == INSTANCE Fanout WITH Dest <- Ip \cup Name, Window <- FanWindow, Sizes <- {1}
C == INSTANCE CovertChannel WITH Flow <- Pid \X (Ip \cup Name),
                                 Window <- ChanWindow, Sizes <- {Kb},
                               PerTick <- Cardinality(Ip) * PerIp

ASSUME DetectorsAssumption ==
    /\ Agent \subseteq Pid /\ IsFiniteSet(Ip) /\ Ip \cap Name = {}
    /\ PerIp \in Nat \ {0}
    /\ F!FanoutAssumption /\ C!CovertAssumption

Nothing == [p \in Pid |-> [broad |-> {}, covert |-> {}]]

Init == /\ F!Init /\ C!Init
        /\ pc = "observe" /\ moved = [k \in Key |-> 0] /\ perPid = {}
        /\ said = Nothing
        /\ got = [k \in Key |-> [a \in 0 .. FanWindow |-> 0]]
        /\ told = [p \in Pid |-> FanWindow + 1]

\* Under the name, as before fan-out keyed on addresses.
FanKey_Dest(ip, dest) == dest

\* "Fan-out keys on the IP, ALWAYS."
FanKey(ip, dest) == ip

(* observe(pid, kind, dest, delta, ip), for one more connection *)
Observe(p, ip, dest) ==
    /\ pc = "observe" /\ moved[<<p, ip>>] < PerIp
    /\ SumFunctionOnSet(moved, {p} \X Ip) < PerPid
    /\ C!Observe(<<p, dest>>, Kb)
    /\ F!Observe(<<p, FanKey(ip, dest)>>, 1)
    /\ moved' = [moved EXCEPT ![<<p, ip>>] = @ + 1]
    /\ perPid' = perPid \cup {p}
    /\ got' = [got EXCEPT ![<<p, ip>>][0] = @ + 1]
    /\ UNCHANGED <<pc, said, told>>

(* The same of kind "ai": the process is in per_pid, and that is all. *)
ObserveAi(p) ==
    /\ pc = "observe" /\ perPid' = perPid \cup {p}
    /\ UNCHANGED <<fan, chan, pc, moved, said, got, told>>

\* The gate on agents follows the loop over per_pid.
Judged == perPid \cap Agent

(* The rest of the tick: gc of both, and the loop over per_pid.            *)
Judge ==
    /\ pc = "observe" /\ pc' = "judged"
    /\ F!Gc /\ C!Gc
    /\ said' = [p \in Pid |->
          IF p \notin Judged THEN Nothing[p]
          ELSE [broad  |-> F!Hit(p)',
                covert |-> {d \in Ip \cup Name : C!Suspicious(<<p, d>>)'}]]
    /\ told' = [p \in Pid |-> IF said'[p].broad # {} THEN 0 ELSE told[p]]
    /\ UNCHANGED <<moved, perPid, got>>

NextTick ==
    /\ pc = "judged" /\ pc' = "observe"
    /\ F!Elapse /\ C!Elapse
    /\ moved' = [k \in Key |-> 0] /\ perPid' = {} /\ said' = Nothing
    /\ got' = [k \in Key |-> [a \in 0 .. FanWindow |->
                                 IF a = 0 THEN 0 ELSE got[k][a - 1]]]
    /\ told' = [p \in Pid |-> F!UpTo(told[p] + 1, FanWindow + 1)]

Next == \/ \E p \in Pid, ip \in Ip : \E dest \in {ip} \cup NamesOf[ip] : Observe(p, ip, dest)
        \/ \E p \in Pid : ObserveAi(p)
        \/ Judge \/ NextTick

Spec == Init /\ [][Next]_vars

-----------------------------------------------------------------------------
TypeOK ==
    /\ F!TypeOK /\ C!TypeOK
    /\ pc \in {"observe", "judged"} /\ moved \in [Key -> 0 .. PerIp]
    /\ perPid \subseteq Pid
    /\ said \in [Pid -> [broad : SUBSET Ip, covert : SUBSET (Ip \cup Name)]]
    /\ got \in [Key -> [0 .. FanWindow -> 0 .. PerIp]]
    /\ told \in [Pid -> 0 .. FanWindow + 1]

\* The ticks of the window, by their age, in which k moved bytes, and the
\* deltas in them: the n-th one of the tick a ticks ago.
Ticks(k)  == {a \in 0 .. FanWindow : got[k][a] > 0}
Each(k)   == {d \in (0 .. FanWindow) \X (1 .. PerIp) : d[2] <= got[k][d[1]]}
Deltas(k) == Cardinality(Each(k))

(* Breadth is breadth of addresses: who is reported for it has sent a      *)
(* little, and no more, to MinDests different addresses in the window,     *)
(* however often their names came and went (sentinel.py:636-640: else "one *)
(* service could be counted twice across ticks").                          *)
BroadIsBroad ==
    \A p \in Pid : said[p].broad # {} =>
        Cardinality({i \in Ip : Deltas(<<p, i>>) \in 1 .. Small}) >= MinDests

(* No scan stays unsaid: an agent that has reached MinDests addresses in   *)
(* the window, and never sent much to them, has been reported for breadth  *)
(* within that window, although only who moves bytes in a tick is judged   *)
(* and records are collected before that.                                  *)
ScanIsSaid ==
    pc = "judged" =>
        \A p \in Agent :
            Cardinality({i \in Ip : /\ Deltas(<<p, i>>) > 0
                                    /\ sent[<<p, i>>] <= Small}) >= MinDests
                => told[p] <= FanWindow

(* A channel with a steady beat is reported in the tick of its MinEvents-th*)
(* burst in the window under one name or address, whatever else the agent  *)
(* does, as long as each of these bursts was one connection's: deltas of   *)
(* two in one tick are two entries, with a gap of zero between them.       *)
BeaconIsSaid ==
    pc = "judged" =>
        \A p \in Agent, d \in Ip \cup Name :
            (/\ C!Steady(<<p, d>>) /\ C!Bursting(<<p, d>>)
             /\ crowd[<<p, d>>] > ChanWindow)
                => d \in said[p].covert

(* sentinel.py:636-640 about the beat of one service: it is seen through   *)
(* the coming and going of its name.                                       *)
BeaconSeenThroughNames ==
    pc = "judged" =>
        \A p \in Agent, i \in Ip :
            Ticks(<<p, i>>) = {a \in 0 .. FanWindow : a % MinGap = 0} => said[p].covert # {}
=============================================================================
