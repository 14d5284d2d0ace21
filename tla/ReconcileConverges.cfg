CONSTANTS
    Node = {n1, n2}
    Path = {f, g}
    Folders = {}
    Written = {f}
    Held = {f}
    Initial = c1
    Checksum = {c1, c2}
    NoChecksum = NoChecksum
    NoRow = NoRow
    Missing = Missing
    Dir = Dir
    NoPath = NoPath
    Ties = FALSE
    MAX_CLOCK = 12
    MAX_WRITES = 2

SPECIFICATION FairSpec

INVARIANTS
    LastWriteWins

PROPERTIES
    Converges

\* The writes and the clock are bounded, so the system comes to rest.
CHECK_DEADLOCK FALSE
