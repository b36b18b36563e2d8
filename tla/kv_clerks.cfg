\* A writer and a reader at once, over a change of leader.
SPECIFICATION Spec
CONSTANTS
    Nil = Nil
    a = a
    b = b
    x = x
    NServers = 2
    Threads = {a, b}
    Ids = {a, b}
    ClientOf <- OwnIds
    Keys = {x}
    Script <- OneEach
    Snapshots = FALSE
    LateRequests = FALSE
    MaxTerm = 2
    MaxLog = 2
    MaxRestarts = 0
    MaxLingering = 0
INVARIANTS
    ExactlyOnce
PROPERTIES
    Linearizable
\* All operations may be done, or the bounds reached.
CHECK_DEADLOCK FALSE
