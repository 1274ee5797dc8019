\* Four connections on two streams; segments lost, overtaken and repeated,
\* ports used again, and limits small enough to be met.
CONSTANTS
    Hello = {1, 2, 3, 4}
    HelloOf <- Mixed
    MaxStreamBuf = 2
    MaxStreams = 2
    MaxDone = 2
    Disorder = TRUE
    MaxRepeats = 1
    NoName = NoName
SPECIFICATION HelloSpec
INVARIANTS BuffersBounded NoForeignName TidyHelloParses
PROPERTY OnceEachHello
