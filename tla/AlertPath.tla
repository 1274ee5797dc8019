----------------------------- MODULE AlertPath ------------------------------
(***************************************************************************)
(* From a finding to the menu bar: the reporting half of Sampler._tick,    *)
(* the per-(pid, kind) cooldown of Sampler._push, the queue between the    *)
(* sampler thread and the UI thread, and SentinelApp's icon and alert      *)
(* list.  What the detectors find is an input here (DestLedger and         *)
(* Reconciler model two of them); one unit of time is one tick.            *)
(*                                                                         *)
(* The sampler and the UI run concurrently.  _drain takes the lock per     *)
(* message, so pushes fall between its iterations; the timer's _drain and  *)
(* the click handler run on the same thread and never overlap.             *)
(***************************************************************************)
EXTENDS Integers, Sequences, FiniteSets

CONSTANTS Pid,        \* processes the detectors report on
          Agents,     \* those that attribute() places in an agent's tree
          Kinds,      \* of "red", "amber", "covert", "fanout": what they find
          Cooldown,   \* DEDUPE_COOLDOWN
          ReportAt,   \* UNATTRIBUTED_REPORT_AT
          MaxAlerts,  \* how many alerts the app keeps
          Shown,      \* how many of them show_alerts displays
          Settling,   \* bound: verdicts recon.drain returns in one tick
          MaxHeat,    \* bound: where the history of standing breaches ends
          Absent

\* Sources of messages: (pid, kind); the count has a pseudo-pid.
Refused == <<"unattributed", "unattributed">>
Source == (Pid \X (Kinds \cup {"unreconciled"})) \cup {Refused}
Colour(s) == IF s[2] = "red" THEN "RED" ELSE "AMBER"

ASSUME AlertAssumption ==
    /\ Kinds \subseteq {"red", "amber", "covert", "fanout"}
    /\ Agents \subseteq Pid /\ "unattributed" \notin Pid
    /\ {Cooldown, ReportAt, MaxAlerts, Shown, Settling, MaxHeat} \subseteq Nat
    /\ Cooldown \in 1 .. MaxHeat /\ ReportAt \in 1 .. MaxHeat
    /\ Shown <= MaxAlerts /\ Absent \notin Nat

VARIABLES pc,       \* the sampler's place in its tick: "alerts", "recon", "done"
          last,     \* last_emit: age of the last push from a source
          queue,    \* messages pushed and not yet drained
          alerts,   \* SentinelApp.alerts, newest first
          title,    \* the icon
          ui,       \* "idle", or "drain" while _drain loops
          count,    \* recon.unattributed
          settled,  \* verdicts drained in this tick
          found,    \* what this tick's alert loop has found
          heat,     \* history: ticks of standing breach since a red was shown
          silent,   \* history: refusals outside the cooldown of the last count said
          hidden,   \* history: reds no click has displayed, "new" until one tried
          lost      \* history: a settled verdict of an agent was discarded

hist == <<heat, silent, hidden, lost>>
vars == <<pc, last, queue, alerts, title, ui, count, settled, found, hist>>

Init == /\ pc = "alerts"
        /\ last = [s \in Source |-> Absent]
        /\ queue = <<>> /\ alerts = <<>>
        /\ title = "GREEN" /\ ui = "idle"
        /\ count = 0 /\ settled = 0 /\ found = {}
        /\ heat = [p \in Pid |-> 0]
        /\ silent = 0 /\ hidden = {} /\ lost = FALSE

-----------------------------------------------------------------------------
\* One cooldown for everything about a process.
Muted_PerPid(s) ==
    \E o \in Source : /\ o[1] = s[1]
                      /\ last[o] # Absent /\ last[o] < Cooldown

\* The cooldown of a source is running.
Muted(s) == last[s] # Absent /\ last[s] < Cooldown

\* A muted push starts the cooldown again.
Push_Rearms(s) ==
    /\ last' = [last EXCEPT ![s] = 0]
    /\ queue' = IF Muted(s) THEN queue ELSE Append(queue, s)

(* _push(color, msg, notify, pid, kind): messages are named by their source *)
Push(s) ==
    IF Muted(s) THEN UNCHANGED <<last, queue>>
    ELSE last' = [last EXCEPT ![s] = 0] /\ queue' = Append(queue, s)

-----------------------------------------------------------------------------
(* The sampler thread.                                                     *)

\* The alert loop reports finding k of process p: a domain breach or else an
\* address breach (once per process), then the heuristics.
Alert(p, k) ==
    /\ pc = "alerts" /\ p \in Agents
    /\ k \in {"red", "amber"} => {<<p, "red">>, <<p, "amber">>} \cap found = {}
    /\ Push(<<p, k>>)
    /\ found' = found \cup {<<p, k>>}
    /\ UNCHANGED <<pc, alerts, title, ui, count, settled, hist>>

\* The loop ends and recon.drain is called.
AlertsDone ==
    /\ pc = "alerts"
    /\ pc' = "recon"
    /\ UNCHANGED <<last, queue, alerts, title, ui, count, settled, found, hist>>

\* A settled verdict of recon.drain: reported for an agent, else counted.
Settle(p) ==
    /\ pc = "recon" /\ settled < Settling
    /\ settled' = settled + 1
    /\ IF p \in Agents
       THEN /\ Push(<<p, "unreconciled">>)
            /\ lost' = (lost \/ Muted(<<p, "unreconciled">>))
            /\ UNCHANGED <<count, silent>>
       ELSE /\ count' = count + 1
            /\ silent' = IF Muted(Refused) \/ silent > MaxHeat THEN silent
                         ELSE silent + 1
            /\ UNCHANGED <<last, queue, lost>>
    /\ UNCHANGED <<pc, alerts, title, ui, found, heat, hidden>>

\* Reporting only when the threshold is hit exactly.
CountReport_Exact ==
    IF count = ReportAt
    THEN /\ Push(Refused)
         /\ count' = 0
         /\ silent' = IF Muted(Refused) THEN silent ELSE 0
    ELSE UNCHANGED <<last, queue, count, silent>>

\* The count of refused accusations, reported from ReportAt on.
CountReport ==
    IF count >= ReportAt
    THEN /\ Push(Refused)
         /\ count' = 0
         /\ silent' = IF Muted(Refused) THEN silent ELSE 0
    ELSE UNCHANGED <<last, queue, count, silent>>

\* The end of the tick.
TickDone ==
    /\ pc = "recon"
    /\ CountReport
    /\ pc' = "done" /\ settled' = 0
    /\ UNCHANGED <<alerts, title, ui, found, heat, hidden, lost>>

\* The sampler sleeps; the UI timer is faster than the tick and keeps up.
Elapse ==
    /\ pc = "done" /\ queue = <<>> /\ ui = "idle"
    /\ pc' = "alerts" /\ found' = {}
    /\ last' = [s \in Source |-> IF last[s] = Absent \/ last[s] = Cooldown THEN last[s]
                              ELSE last[s] + 1]
    /\ heat' = [p \in Pid |-> IF <<p, "red">> \notin found THEN 0
                              ELSE IF heat[p] > MaxHeat THEN heat[p]
                              ELSE heat[p] + 1]
    /\ UNCHANGED <<queue, alerts, title, ui, count, settled, silent, hidden, lost>>

-----------------------------------------------------------------------------
(* The UI thread.                                                          *)

\* The timer fires.
DrainStart ==
    /\ ui = "idle" /\ queue # <<>>
    /\ ui' = "drain"
    /\ UNCHANGED <<pc, last, queue, alerts, title, count, settled, found, hist>>

\* The icon follows the newest message.
Title_Newest(colour) == colour

\* The icon after a message: an amber never replaces a red.
Title(colour) == IF colour = "RED" \/ title # "RED" THEN colour ELSE title

\* The deque keeps MaxAlerts.
Newest(list) ==
    SubSeq(list, 1, IF Len(list) > MaxAlerts THEN MaxAlerts ELSE Len(list))

\* One iteration of _drain.
DrainOne ==
    /\ ui = "drain" /\ queue # <<>>
    /\ LET s == Head(queue)
           red == Colour(s) = "RED"
       IN  /\ alerts' = Newest(<<s>> \o alerts)
           /\ title' = Title(Colour(s))
           /\ heat' = IF red THEN [heat EXCEPT ![s[1]] = 0] ELSE heat
           /\ hidden' = IF red THEN (hidden \ {<<s, "old">>}) \cup {<<s, "new">>}
                         ELSE hidden
    /\ queue' = Tail(queue)
    /\ UNCHANGED <<pc, last, ui, count, settled, found, silent, lost>>

DrainEnd ==
    /\ ui = "drain" /\ queue = <<>>
    /\ ui' = "idle"
    /\ UNCHANGED <<pc, last, queue, alerts, title, count, settled, found, hist>>

(* show_alerts: the newest Shown are displayed and the icon turns green. *)
ShowAlerts ==
    /\ ui = "idle"
    /\ title' = "GREEN"
    /\ hidden' = {<<x[1], "old">> : x \in
                    {y \in hidden : \A i \in DOMAIN alerts :
                                       i <= Shown => alerts[i] # y[1]}}
    /\ UNCHANGED <<pc, last, queue, alerts, ui, count, settled, found, heat,
                   silent, lost>>

Next == \/ \E p \in Pid, k \in Kinds : Alert(p, k)
        \/ AlertsDone
        \/ \E p \in Pid : Settle(p)
        \/ TickDone
        \/ Elapse
        \/ DrainStart \/ DrainOne \/ DrainEnd
        \/ ShowAlerts

Spec == Init /\ [][Next]_vars

-----------------------------------------------------------------------------
TypeOK ==
    /\ pc \in {"alerts", "recon", "done"} /\ ui \in {"idle", "drain"}
    /\ title \in {"GREEN", "AMBER", "RED"}
    /\ last \in [Source -> 0 .. Cooldown \cup {Absent}]
    /\ queue \in Seq(Source) /\ alerts \in Seq(Source) /\ Len(alerts) <= MaxAlerts
    /\ count \in Nat /\ settled \in 0 .. Settling
    /\ found \subseteq Agents \X Kinds /\ heat \in [Pid -> 0 .. MaxHeat + 1]
    /\ silent \in 0 .. MaxHeat + 1 /\ lost \in BOOLEAN
    /\ hidden \subseteq Source \X {"new", "old"}

(* A breach that lasts is shown again: whatever else is reported about     *)
(* that process or others, and however often the user turns the icon       *)
(* green, a process in red breach tick after tick is never without a new   *)
(* red for longer than the cooldown (_push, _drain).                       *)
StandingBreachShown == \A p \in Pid : heat[p] <= Cooldown

(* A red stays on the icon, whatever ambers follow it through the queue,   *)
(* until the user's next click (_drain).                                   *)
RedStaysOnIcon == (\E x \in hidden : x[2] = "new") => title = "RED"

(* sentinel.py:756-757, "we count it, and we say the count, so a deputy    *)
(* leaves a mark": once ReportAt refusals have come while no count was     *)
(* cooling down, the tick that refused the last of them says the count.    *)
DeputyLeavesMark == pc = "done" => silent < ReportAt

(* The same sentence in full: the counter is only cleared by a message     *)
(* that says what it held.                                                 *)
CountClearedOnlyWhenSaid ==
    [][count' < count => queue' = Append(queue, Refused)]_vars

(* activity.py:78-80, "a noise control that DISCARDS is indistinguishable  *)
(* from a detector that does not work ... do not delete them": a verdict   *)
(* that recon.drain returns for an agent (and will not return again for    *)
(* WINDOW_SEC) is reported.                                                *)
NoVerdictDiscarded == ~lost

(* README.md:216, the green icon means "quiet": no red has been delivered  *)
(* that no click has displayed.                                            *)
GreenIsQuiet == title = "GREEN" /\ ui = "idle" => hidden = {}
=============================================================================
