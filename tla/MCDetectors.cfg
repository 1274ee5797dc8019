\* Two addresses, one of them with a name that comes and goes; two of them are
\* breadth, three bursts a beat, and a history keeps as many.  A process moves bytes
\* on at most two connections in one tick, to one address or to both.
CONSTANTS
    Pid = {p}
    ip1 = ip1
    ip2 = ip2
    host = host
    Ip = {ip1, ip2}
    NamesOf <- NamesOf_One
    Agent = {p}
    Kb = 1
    PerIp = 2
    PerPid = 2
    FanWindow = 2
    MinDests = 2
    Small = 1
    MaxSent = 2
    MinEvents = 3
    ChanWindow = 4
    CvPct = 15
    MinGap = 2
    ModePct = 70
    SmallKb = 1
    MaxLen = 3
    Absent = Absent
SPECIFICATION Spec
INVARIANTS BroadIsBroad ScanIsSaid BeaconIsSaid
