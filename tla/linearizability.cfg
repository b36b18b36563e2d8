\* The checker on short histories, with and without details and a timeout.
SPECIFICATION FairSpec
CONSTANTS
    Nil = Nil
    Keys = {"x", "y"}
    Histories <- SmallHistories
    EventHistories <- SmallEvents
INVARIANTS
    VerdictIsRight
    ListIsRest
    PartialsAreLongest
PROPERTIES
    VerdictComes
\* The checker ends.
CHECK_DEADLOCK FALSE
