\* Elections with a crash, a delayed election goroutine and lost or late votes.
SPECIFICATION Spec
CONSTANTS
    Nil = Nil
    p1 = p1
    p2 = p2
    p3 = p3
    Peers = {p1, p2, p3}
    Commands = {c}
    Snapshots = FALSE
    Campaigns <- AnyoneTwice
    MaxLog = 0
    MaxInFlight = 2
    MaxRestarts = 1
    MaxDelayed = 1
    Appliers = {}
SYMMETRY Symmetry
INVARIANTS
    ElectionInv
PROPERTIES
    VoteIsFinal
\* At the bounds nothing is left to do.
CHECK_DEADLOCK FALSE
