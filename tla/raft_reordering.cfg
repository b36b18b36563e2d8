\* Two leaders, two entries, two calls at a time: repeated and reordered requests.
SPECIFICATION Spec
CONSTANTS
    Nil = Nil
    p1 = p1
    p2 = p2
    p3 = p3
    Peers = {p1, p2, p3}
    Commands = {c}
    Snapshots = FALSE
    Campaigns <- Turns
    MaxLog = 2
    MaxInFlight = 2
    MaxRestarts = 0
    MaxDelayed = 0
    Appliers = {}
INVARIANTS
    CommittedOnMajority
    CommittedAgree
    AcknowledgedStays
\* At the bounds nothing is left to do.
CHECK_DEADLOCK FALSE
