\* Two goroutines share a Client.
SPECIFICATION Spec
CONSTANTS
    Nil = Nil
    a = a
    b = b
    x = x
    shared = shared
    Anonymous = Anonymous
    NServers = 2
    Threads = {a, b}
    Ids = {shared}
    ClientOf <- OneId
    Keys = {x}
    Script <- PutAndDelete
    Snapshots = FALSE
    LateRequests = FALSE
    MaxTerm = 1
    MaxLog = 2
    MaxRestarts = 0
    MaxLingering = 0
INVARIANTS
    AnsweredIsCommitted
\* All operations may be done, or the bounds reached.
CHECK_DEADLOCK FALSE
