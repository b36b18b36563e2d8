\* Two leaders that cut their logs at snapshots, and a crash.
SPECIFICATION Spec
CONSTANTS
    Nil = Nil
    p1 = p1
    p2 = p2
    p3 = p3
    Peers = {p1, p2, p3}
    Commands = {c}
    Snapshots = TRUE
    Campaigns <- Turns
    MaxLog = 2
    MaxInFlight = 1
    MaxRestarts = 1
    MaxDelayed = 0
    Appliers = {p2}
INVARIANTS
    TypeOK
    SnapshotConsistent
    CommittedOnMajority
    LeaderCompleteness
    PersistedIsCurrent
    NextIndexInRange
    AcknowledgedStays
\* At the bounds nothing is left to do.
CHECK_DEADLOCK FALSE
