\* Stream rows may come after a one-shot sample that is newer.
\* The other things that fail: with Machines <- Sleeping, NoManufacturedEgress; with
\* Machines <- Prompt, NothingBeforeStart; with Machines <- Prompt, Ttl = 2, RowGap = 2
\* and no symmetry, the PROPERTY SilentStreamFallsBack.
CONSTANTS
    Conn = {c1, c2}
    Ttl = 1
    RowGap = 1
    Steps = {1}
    Machines <- Racing
    Starts = {1}
    MaxPipe = 1
    MaxSent = 1
    MaxCounted = 5
    Absent = Absent
SPECIFICATION Spec
INVARIANT NoManufacturedEgress
SYMMETRY Symm
