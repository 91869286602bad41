\* The balance trigger of the migration: outbound movements.
SPECIFICATION Spec
CONSTANTS
    c1 = c1
    c2 = c2
    i1 = i1
    i2 = i2
    w1 = w1
    w2 = w2
    n1 = n1
    g1 = g1
    Uncounted = Uncounted
    None = None
    Clients = {c1, c2}
    Items = {i1}
    Warehouses = {w1, w2}
    Masters = {i1}
    Quantities = {1}
    Counted = {0}
    ReorderLevel <- MCReorderLevel
    Counts = {}
    Grns = {g1}
    GrnLines <- MCGrnLines
    Triggers = {"migration"}
    MaxRows = 2
    MaxApprovals = 2
    MaxEvents = 1
INVARIANT BackstopOnly
