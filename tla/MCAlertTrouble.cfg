\* Two kinds of alert for one agent, of which a click displays one.
\* With Agents = {}, Kinds = {} and Settling = 2, CountClearedOnlyWhenSaid fails (a
\* PROPERTY); with Kinds = {} and Settling = 2, NoVerdictDiscarded.
CONSTANTS
    Pid = {a}
    Agents = {a}
    Kinds = {"red", "covert"}
    Cooldown = 2
    ReportAt = 2
    MaxAlerts = 2
    Shown = 1
    Settling = 1
    MaxHeat = 3
    Absent = Absent
SPECIFICATION Spec
INVARIANT GreenIsQuiet
