\* Two overlapping requests on one order.
SPECIFICATION Spec
CONSTANTS
    c1 = c1
    c2 = c2
    c3 = c3
    o1 = o1
    s1 = s1
    Keep = Keep
    Clients = {c1, c2}
    Orders = {o1}
    Samples = {s1}
    SampleOrder <- MCSampleOrder
    Dates = {100, 130}
SYMMETRY ClientSymmetry
PROPERTIES
    TerminalStatesAreFinal
