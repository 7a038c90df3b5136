SPECIFICATION Spec
CONSTANTS
    n1 = n1
    n2 = n2
    b1 = b1
    b2 = b2
    b3 = b3
    Nanobars = {n1, n2}
    Bricks = {b1, b2, b3}
    Columns = {new, reviewed, flagged}
    Fallback = new
    Bound <- MCBound
    PagedList = TRUE
    MaxDrops = 4
    None = None
INVARIANTS UnreachedMeansLost
