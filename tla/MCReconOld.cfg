\* As MCReconciler: a declaration that covers the flow in time has grown old.
\* DeclaredNotAccusedThroughRotation fails too: a rotation forgets what was declared.
CONSTANTS
    a = a
    b = b
    d = d
    h = h
    x = x
    Pid = {a, b}
    Chain <- BothChain
    Agents = {a}
    Dest = {d}
    Ips = {}
    Host = {h}
    Covers <- HostCoversDest
    Wild = Wild
    Settings <- AllSettings
    Fresh = 1
    Window = 2
    Settle = 1
    Warmup = 1
    SeenTtl = 5
    KnownMin = 2
    ExcessFactor = 2
    ExcessMin = 0
    MaxTotal = 3
    MaxLines = 2
    Absent = Absent
SPECIFICATION Spec
INVARIANT DeclaredNotAccused
