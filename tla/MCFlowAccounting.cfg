\* Two connections; the stream is prompt and the one-shot works, or rows come
\* late and the one-shot always fails.
CONSTANTS
    Conn = {c1, c2}
    Ttl = 1
    RowGap = 1
    Steps = {1}
    Machines <- PromptOrLate
    Starts = {1}
    MaxPipe = 1
    MaxSent = 1
    MaxCounted = 5
    Absent = Absent
SPECIFICATION Spec
INVARIANTS CountedExactlyOnce NoManufacturedEgress
SYMMETRY Symm
