\* Three requests, two prefixes, two calendar years.  No request starts once a
\* counter is at 2, so counters end at 4 or less, within eight printable numbers.
SPECIFICATION FairSpec
CONSTANTS
    Clients = {c1, c2, c3}
    Prefixes = {"ORD", "PO"}
    NoClient = NoClient
    PadBase = 2
    PadLength = 3
    MaxNumber = 2
    Years = {1, 2}
INVARIANTS
    TypeOK
    HeldNumberIsNext
    Gapless
PROPERTIES
    EveryCallerServed
    ImplementsCounter
\* No request starts once the counters reach MaxNumber.
CHECK_DEADLOCK FALSE
