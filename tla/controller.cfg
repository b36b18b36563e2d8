\* Two workers, a restart of the controller, a failing key/value call.
SPECIFICATION FairSpec
CONSTANTS
    Nil = Nil
    w1 = w1
    w2 = w2
    Workers = {w1, w2}
    Infos <- IdleOrBusy
    MaxStarts = 2
    MaxRestarts = 1
    MaxFailures = 1
PROPERTIES
    BestOfSteady
    LiveWorkersStored
    ExpiredLeave
