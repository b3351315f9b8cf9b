SPECIFICATION Spec
CONSTANTS
    Requests = {q1, q2}
    Keys = {k1}
    BrowserKeys = {k1}
    Symbols = {1, 2}
    Loops = {l1}
    Calls <- AboutFirst
    Workers = {w1, w2}
    MaxFaults = 2
    MaxSwitches = 2
    NoItem = NoItem
SYMMETRY Alike
INVARIANTS
    TypeOK
    RowsPrecedeFiles
    ClaimedOnce
PROPERTIES
    RowsMoveForward
    FinishedFilesStay
CHECK_DEADLOCK FALSE
