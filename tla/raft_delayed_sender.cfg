\* As raft_reordering, with goroutines delayed between check and act.
SPECIFICATION Spec
CONSTANTS
    Nil = Nil
    p1 = p1
    p2 = p2
    p3 = p3
    Peers = {p1, p2, p3}
    Commands = {c}
    Snapshots = FALSE
    Campaigns <- Turns
    MaxLog = 1
    MaxInFlight = 2
    MaxRestarts = 0
    MaxDelayed = 1
    Appliers = {}
INVARIANTS
    CommittedAgree
\* At the bounds nothing is left to do.
CHECK_DEADLOCK FALSE
