\* The counter passes pad_length digits: 100 prints as 10 once more.
SPECIFICATION Spec
CONSTANTS
    Clients = {c1, c2}
    Prefixes = {"ORD"}
    NoClient = NoClient
    PadBase = 2
    PadLength = 2
    MaxNumber = 5
    Years = {1}
INVARIANTS
    NoDuplicateText
CHECK_DEADLOCK FALSE
