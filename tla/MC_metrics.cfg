SPECIFICATION AgentSpec
CONSTANTS
    c1 = c1  c2 = c2  c3 = c3  c4 = c4
    Conns = {c1, c2, c3, c4}
    None = None
    MayStop = TRUE
    MaxMishaps = 2
    MaxTicks = 2
SYMMETRY ConnSymmetry
INVARIANTS AgentTypeOK NoOrphanIsWatched SomebodyReconnects FailureIsRetried
CHECK_DEADLOCK FALSE
