\* A Clerk gets its answer in the end; handlers may outlive their calls.
SPECIFICATION FairSpec
CONSTANTS
    Nil = Nil
    a = a
    b = b
    x = x
    NServers = 2
    Threads = {a}
    Ids = {a}
    ClientOf <- OwnIds
    Keys = {x}
    Script <- OneWrite
    Snapshots = FALSE
    LateRequests = FALSE
    MaxTerm = 2
    MaxLog = 2
    MaxRestarts = 0
    MaxLingering = 1
INVARIANTS
    ExactlyOnce
PROPERTIES
    OperationsReturn
\* All operations may be done, or the bounds reached.
CHECK_DEADLOCK FALSE
