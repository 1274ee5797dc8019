\* A pid that is given out again, to a process of another name.  StaleMapHarmless,
\* FirstDiffIsFull, ReceivedIsCharged and DroppedAreFlows fail here too.
CONSTANTS
    Pid = {p, q}
    Name = {n, m}
    Peer = {i}
    Here = Here
    Nowhere = Nowhere
    Sizes = {0, 1}
    Limits = {1}
    MaxMoves = 3
    MaxBirths = 3
    MaxQueue = 2
    Absent = Absent
SPECIFICATION Spec
INVARIANT NamesAreRecycled
SYMMETRY Symm
