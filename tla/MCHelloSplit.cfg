\* As MCHelloApart, and one segment is sent again.
CONSTANTS
    Hello = {1, 2, 3}
    HelloOf <- Apart
    MaxStreamBuf = 3
    MaxStreams = 3
    MaxDone = 2
    Disorder = FALSE
    MaxRepeats = 1
    NoName = NoName
SPECIFICATION HelloSpec
INVARIANT SplitHelloParses
