SPECIFICATION FairSpec
CONSTANTS
    r1 = r1  r2 = r2  r3 = r3
    Reqs = {r1, r2}
    Keys = 2
    MaxPort = 6
    Foreign = {2}
    PoolSize = 3
    MaxMishaps = 1
INVARIANTS TypeOK CreatedWhole DeletionIsFinal
PROPERTY CreationsEnd
CHECK_DEADLOCK FALSE
