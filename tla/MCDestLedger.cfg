\* Two buckets of one process (same address, resolved and not): enough for one
\* to be drained or collected while the other is full.  The clock can be set
\* back, or cannot.
CONSTANTS
    Pid = {p1}
    Dest = {d1}
    Burst = 2
    Rate = 2
    IdleSec = 0
    Sizes = {1, 3}
    Steps = {1, 2}
    Clocks <- BothClocks
    MaxNow = 4
    MaxSent = 4
    Absent = Absent
SPECIFICATION Spec
INVARIANTS NoPacingEvades BreachHasWindow
PROPERTY ImplementsLeakyBucket
