\* A leader that returns, between logs that conflict in their terms.
SPECIFICATION FairSpec
CONSTANTS
    Nil = Nil
    p1 = p1
    p2 = p2
    p3 = p3
    Peers = {p1, p2, p3}
    Commands = {c}
    Snapshots = FALSE
    Campaigns <- LeaderReturns
    MaxLog = 2
    MaxInFlight = 1
    MaxRestarts = 0
    MaxDelayed = 0
    Appliers = {}
CONSTRAINT
    P3CutOff
INVARIANTS
    LogMatching
    NextIndexInRange
PROPERTIES
    LogsConverge
\* At the bounds nothing is left to do.
CHECK_DEADLOCK FALSE
