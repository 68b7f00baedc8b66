SPECIFICATION Spec
CONSTANTS
    h1 = h1  h2 = h2
    n1 = n1  n2 = n2  n3 = n3
    r1 = r1  r2 = r2
    p1 = p1  p2 = p2
    Earlier = Earlier
    None = None
    Heads = {h1, h2}
    Nodes = {n1, n2, n3}
    NodesOf <- TwoHeadsThreeNodes
    Reqs = {r1, r2}
    Passes = {p1}
    Ops = {"activate", "deactivate", "restart", "delete"}
    InitRunning = {h2}
    MaxActive = 4
    RetryCount = 1
    MaxListings = 0
    Mishaps = {"fault", "refusal", "death", "crash"}
    MaxMishaps = 1
SYMMETRY Symmetry2
INVARIANTS CronBlamesOwnNodes DeletedForGood
PROPERTIES ActivatedAlone StoppedAlone
\* This instance leaves the list cron out (MaxListings = 0), so it stops once the
\* requests have ended and no head is left to check.
CHECK_DEADLOCK FALSE
