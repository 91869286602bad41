\* Two overlapping requests in every part; see the comments of MCDocuments.
SPECIFICATION DocumentsSpec
CONSTANTS
    c1 = c1
    c2 = c2
    q1 = q1
    q2 = q2
    o1 = o1
    k1 = k1
    d1 = d1
    d2 = d2
    v1 = v1
    g1 = g1
    g2 = g2
    x1 = x1
    b1 = b1
    b2 = b2
    t1 = t1
    u1 = u1
    u2 = u2
    n1 = n1
    i1 = i1
    i2 = i2
    a1 = a1
    a2 = a2
    a3 = a3
    p1 = p1
    p2 = p2
    j1 = j1
    e1 = e1
    h1 = h1
    h2 = h2
    m1 = m1
    m2 = m2
    s1 = s1
    NoRow = NoRow
    Root = Root
    NoGl = NoGl
    NoPeriod = NoPeriod
    NoChallan = NoChallan
    Clients = {c1, c2}
    Quotes = {q1, q2}
    SalesOrders = {o1}
    QuoteOrder <- QuoteOrders
    Prices = {1, 2}
    ComplaintRows = {k1}
    CapaRows = {d1, d2}
    CapaComplaint <- CapaComplaints
    Vendors = {v1}
    GoodsReceipts = {g1, g2}
    ReceiptFacts <- Receipts
    VendorInvoices = {x1}
    InvoiceVendor <- InvoiceVendors
    Amounts = {2, 4}
    MatchTolerancePct = 2
    TdsRatePct = 10
    MasterRows = {b1, b2, t1}
    RowTable <- RowTables
    Codes = {1}
    Uses = {u1, u2}
    UsedRow <- UsedRows
    Challans = {n1}
    ChallanGross <- Gross
    BuyerInvoices = {i1, i2}
    Collections = {1}
    Accounts = {a1, a2, a3}
    PostedTo = {a3}
    BankRows = {b1}
    GlAccounts = {a1, a2}
    StatementLines <- Lines
    Periods = {p1, p2}
    Journals = {j1}
    LineLists <- JournalLines
    PayrollEvents <- Payrolls
    ProductionOrders = {p1}
    DailyRows = {e1}
    DailyOrder <- DailyOrders
    Quantities = {1, 2}
    BomRows = {h1, h2}
    LineCosts = {1}
    Margins = {0, 100}
    Maintenances = {m1, m2}
    Scrap = {s1}
    Approvers = {u1, u2}
INVARIANTS
    DocumentsTypeOK
    DecidedOnce
    MoneyAddsUp
    DeliveredIsInvoiced
    MasterRowsHold
    ReleasedBeforeUse
    ClosedBooksStand
PROPERTIES
    ApprovedRecordsStand
SYMMETRY Symmetry
CHECK_DEADLOCK FALSE
