\* Three pids, so that more names can be known than rows fit in a table of one.
CONSTANTS
    Pid = {p, q, r}
    Name = {n}
    Peer = {i}
    Here = Here
    Nowhere = Nowhere
    Sizes = {0, 1}
    Limits = {1, 2}
    MaxMoves = 3
    MaxBirths = 3
    MaxQueue = 2
    Absent = Absent
SPECIFICATION Spec
INVARIANTS EachByteOnce PeersAreReal OneNameEach
SYMMETRY Symm
