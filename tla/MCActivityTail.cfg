\* Four lines, written at once or in halves, and two rotations.
CONSTANTS
    MaxLines = 4
    MaxFiles = 2
    Settings <- Settings_All
    Missing = Missing
    Unknown = Unknown
SPECIFICATION TailFairSpec
INVARIANT NothingTwice
PROPERTIES RefreshCatchesUp EventuallyHeld
CHECK_DEADLOCK FALSE
