SPECIFICATION FairSpec
CONSTANTS
    r1 = r1  r2 = r2  r3 = r3
    Reqs = {r1, r2, r3}
    Keys = 1
    MaxPort = 4
    Foreign = {}
    PoolSize = 2
    MaxMishaps = 0
PROPERTY CreationsAnswer
CHECK_DEADLOCK FALSE
