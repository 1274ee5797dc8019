\* An agent and a process that is none; two verdicts settle per tick.
CONSTANTS
    Pid = {a, b}
    Agents = {a}
    Kinds = {"red", "covert"}
    Cooldown = 2
    ReportAt = 2
    MaxAlerts = 2
    Shown = 1
    Settling = 2
    MaxHeat = 3
    Absent = Absent
SPECIFICATION Spec
INVARIANTS StandingBreachShown RedStaysOnIcon DeputyLeavesMark
