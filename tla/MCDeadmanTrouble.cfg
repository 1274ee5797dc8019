\* As MCDeadman, but no packet need arrive.  BlindIsReported fails as well with
\* Traffic = TRUE and Throws = TRUE: a tick may fail with an exception.
\* With MCDeadman's constants, and each as the only PROPERTY: TickingIsAlive
\* (Unwritten = TRUE or Blurred = TRUE suffices) and UnwatchedIsSaid.
CONSTANTS
    Pid = {1, 2}
    Stale = 2
    Gap = 4
    Period = 1
    Throws = FALSE
    Traffic = FALSE
    Nameless = FALSE
    Blurred = FALSE
    Unwritten = FALSE
    MaxStart = 2
    MaxAge = 7
    Absent = Absent
SPECIFICATION Spec
INVARIANT BlindIsReported
