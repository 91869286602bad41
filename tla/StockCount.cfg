\* Two overlapping requests on one count of two items, with one direct
\* movement at a time and up to two approvals.  The trigger is the one that lets
\* an outbound movement through; the other only refuses more of them.
SPECIFICATION Spec
CONSTANTS
    c1 = c1
    c2 = c2
    i1 = i1
    i2 = i2
    w1 = w1
    w2 = w2
    n1 = n1
    g1 = g1
    Uncounted = Uncounted
    None = None
    Clients = {c1, c2}
    Items = {i1, i2}
    Warehouses = {w1}
    Masters = {i1}
    Quantities = {1}
    Counted = {0, 2}
    ReorderLevel <- MCReorderLevel
    Counts = {n1}
    Grns = {}
    GrnLines <- MCGrnLines
    Triggers = {"tests"}
    MaxRows = 1
    MaxApprovals = 2
    MaxEvents = 2
INVARIANTS
    PostedOncePerRun
    CountReconciles
PROPERTIES
    CountFollowsStateMachine
SYMMETRY ClientSymmetry
