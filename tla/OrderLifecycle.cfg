\* Three overlapping requests on one order with one sample and two delivery
\* dates.  Orders do not share state, so one is enough.
SPECIFICATION Spec
CONSTANTS
    c1 = c1
    c2 = c2
    c3 = c3
    o1 = o1
    s1 = s1
    Keep = Keep
    Clients = {c1, c2, c3}
    Orders = {o1}
    Samples = {s1}
    SampleOrder <- MCSampleOrder
    Dates = {100, 130}
SYMMETRY ClientSymmetry
INVARIANTS
    TypeOK
    AnnouncedOnce
    MilestonesComplete
    ProductionNeedsConfirmation
    PlanFollowsDeliveryDate
PROPERTIES
    NeverReconfirmed
    FollowsStateMachine
