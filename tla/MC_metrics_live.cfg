SPECIFICATION AgentFairSpec
CONSTANTS
    c1 = c1  c2 = c2  c3 = c3  c4 = c4
    Conns = {c1, c2, c3}
    None = None
    MayStop = FALSE
    MaxMishaps = 2
    MaxTicks = 2
PROPERTIES ReconnectsInTheEnd IsOneLoop MetricsKeepComing
