\* Snapshots, on the apply channel and over a restart.
SPECIFICATION Spec
CONSTANTS
    Nil = Nil
    a = a
    b = b
    x = x
    NServers = 2
    Threads = {a}
    Ids = {a}
    ClientOf <- OwnIds
    Keys = {x}
    Script <- TwoWrites
    Snapshots = TRUE
    LateRequests = FALSE
    MaxTerm = 2
    MaxLog = 2
    MaxRestarts = 1
    MaxLingering = 0
INVARIANTS
    ExactlyOnce
    ApplierNeverStuck
\* All operations may be done, or the bounds reached.
CHECK_DEADLOCK FALSE
