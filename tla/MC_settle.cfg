SPECIFICATION FairSpec
CONSTANTS
    h1 = h1  h2 = h2
    n1 = n1  n2 = n2  n3 = n3
    r1 = r1  r2 = r2
    p1 = p1  p2 = p2
    Earlier = Earlier
    None = None
    Heads = {h1}
    Nodes = {n1, n2}
    NodesOf <- OneHeadTwoNodes
    Reqs = {r1}
    Passes = {p1}
    Ops = {"activate", "deactivate", "restart", "delete"}
    InitRunning = {h1}
    MaxActive = 4
    RetryCount = 1
    MaxListings = 1
    Mishaps = {"fault", "death"}
    MaxMishaps = 2

PROPERTIES DeadHeadsAreStopped RequestsEnd ListBecomesTrue
