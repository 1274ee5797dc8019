\* Ticks may throw, packets keep arriving; pids are used again, and the start
\* time in a beat may be missing.
CONSTANTS
    Pid = {1, 2}
    Stale = 2
    Gap = 4
    Period = 1
    Throws = TRUE
    Traffic = TRUE
    Nameless = TRUE
    Blurred = TRUE
    Unwritten = TRUE
    MaxStart = 4
    MaxAge = 7
    Absent = Absent
SPECIFICATION Spec
INVARIANT SilenceIsReported
PROPERTIES GoneIsSeen GapIsSaid NoFalseAlarm
