\* The wall clock may be set back by two.
CONSTANTS
    Pid = {p1}
    Dest = {d1}
    Burst = 3
    Rate = 2
    IdleSec = 1
    Sizes = {1, 3}
    Steps = {1, 2}
    Clocks <- BothClocks
    MaxNow = 5
    MaxSent = 6
    Absent = Absent
SPECIFICATION Spec
PROPERTY RisesOnlyByBytes
