\* Deltas of two connections in one tick are a gap of zero; so are those of two
\* addresses that go by one name (PerIp = 1, Ip = {ip1, ip2}, NamesOf_Shared).
\* BeaconSeenThroughNames fails with FanWindow = 4, PerIp = 1, where the beat is split
\* between the name and the address, and SmallCounts with MCDetectors' constants, a
\* little at a time.
CONSTANTS
    Pid = {p}
    ip1 = ip1
    ip2 = ip2
    host = host
    Ip = {ip1}
    NamesOf <- NamesOf_Single
    Agent = {p}
    Kb = 1
    PerIp = 2
    PerPid = 2
    FanWindow = 0
    MinDests = 2
    Small = 0
    MaxSent = 1
    MinEvents = 3
    ChanWindow = 5
    CvPct = 15
    MinGap = 2
    ModePct = 70
    SmallKb = 1
    MaxLen = 4
    Absent = Absent
SPECIFICATION Spec
INVARIANT BeaconOfSeveral
