\* Two overlapping requests on an order of up to two lines and its two receipts.
SPECIFICATION Spec
CONSTANTS
    c1 = c1
    c2 = c2
    p1 = p1
    p2 = p2
    l1 = l1
    l2 = l2
    l3 = l3
    g1 = g1
    g2 = g2
    Unused = Unused
    Gone = Gone
    Clients = {c1, c2}
    Orders = {p1}
    LineIds = {l1, l2}
    Receipts = {g1, g2}
    LineSpecs <- ReceiveSpecs
    Entries <- ReceiveEntries
    Patches <- ReceivePatches
    MaxEntries = 1
    Revisit = FALSE
    Thresholds <- ReceiveThresholds
INVARIANTS
    TypeOK
    ReceivedIsAccepted
    StatusFollowsReceipts
    AnnouncedAsApproved
PROPERTIES
    FollowStateMachines
SYMMETRY Symmetry
CHECK_DEADLOCK FALSE
