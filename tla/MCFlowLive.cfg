\* One connection under fairness, and everything may go wrong: late rows, a
\* fallback that fails, sleep, ticks that throw.
CONSTANTS
    Conn = {c1}
    Ttl = 1
    RowGap = 1
    Steps = {1}
    Machines <- Awry
    Starts = {1}
    MaxPipe = 2
    MaxSent = 2
    MaxCounted = 5
    Absent = Absent
SPECIFICATION FairSpec
INVARIANT NothingSkipped
PROPERTY OpenEventuallyCounted
