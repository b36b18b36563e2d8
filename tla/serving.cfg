\* Three requests through queues of one place.
SPECIFICATION FairSpec
CONSTANTS
    Nil = Nil
    r1 = r1
    r2 = r2
    r3 = r3
    w1 = w1
    d1 = d1
    Requests = {r1, r2, r3}
    Workers = {w1}
    Gpus = {1}
    QueueCap = 1
    ConnWorkers = {1}
    DispatchWorkers = {d1}
    ConnCap = 1
    DispatchCap = 1
    MaxCrashes = 1
INVARIANTS
    InOnePlace
    ReplyIsComputed
PROPERTIES
    EveryRequestAnswered
    GpusBecomeFree
\* All requests are answered in the end.
CHECK_DEADLOCK FALSE
