SPECIFICATION Spec
CONSTANTS
    h1 = h1  h2 = h2
    n1 = n1  n2 = n2  n3 = n3
    r1 = r1  r2 = r2
    p1 = p1  p2 = p2
    Earlier = Earlier
    None = None
    Heads = {h1}
    Nodes = {n1, n2}
    NodesOf <- OneHeadTwoNodes
    Reqs = {r1, r2}
    Passes = {p1}
    Ops = {"activate", "deactivate", "delete"}
    InitRunning = {}
    MaxActive = 4
    RetryCount = 1
    MaxListings = 1
    Mishaps = {"death", "refusal"}
    MaxMishaps = 1
SYMMETRY Symmetry2
INVARIANTS TypeOK NoStrayAfterFailure
PROPERTIES CleanupSparesOthers
