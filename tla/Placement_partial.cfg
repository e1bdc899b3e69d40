SPECIFICATION Placements
CONSTANTS
    Capacities <- SmallNodes
    MaxNodes = 2
    Amounts = {1, 5}
    Quantities = {1}
    MaxServices = 2
    DefaultNode <- TwoByThree
    Applications = {}
    NodeCounts = {}
    Filler = "remainder_pod"
CHECK_DEADLOCK FALSE
INVARIANT
    NoneIfImpossible
