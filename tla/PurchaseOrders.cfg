\* Two overlapping requests on two orders and three lines; nothing is received.
SPECIFICATION Spec
CONSTANTS
    c1 = c1
    c2 = c2
    p1 = p1
    p2 = p2
    l1 = l1
    l2 = l2
    l3 = l3
    g1 = g1
    g2 = g2
    Unused = Unused
    Gone = Gone
    Clients = {c1, c2}
    Orders = {p1, p2}
    LineIds = {l1, l2, l3}
    Receipts = {}
    LineSpecs <- DraftSpecs
    Entries = {}
    Patches = {}
    MaxEntries = 1
    Revisit = FALSE
    Thresholds <- DraftThresholds
INVARIANTS
    TotalIsSum
    RoleMatchesTotal
SYMMETRY Symmetry
CHECK_DEADLOCK FALSE
