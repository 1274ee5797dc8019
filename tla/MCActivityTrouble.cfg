\* One way in which the tail goes wrong.  The others: Settings_Regrown with
\* AnyRotationTolerated, and Settings_Odd and Settings_Huge with
\* OneBadLineCostsOne (all three under PROPERTIES).
CONSTANTS
    MaxLines = 4
    MaxFiles = 1
    Settings <- Settings_Windows
    Missing = Missing
    Unknown = Unknown
SPECIFICATION TailFairSpec
INVARIANT NothingTwiceEver
CHECK_DEADLOCK FALSE
