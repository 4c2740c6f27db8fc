SPECIFICATION Spec
CONSTANTS
    Sessions = {a, b}
    i1 = i1  s1 = s1  s2 = s2  p1 = p1
    InboundLots = {i1}
    SlotLots = {s1, s2}
    PickedLots = {p1}
    Worlds <- MCWorlds
    OnHand = 2
    Affected = 2
SYMMETRY Symmetry
CHECK_DEADLOCK FALSE
INVARIANTS
    StatusFitsHolds OneOpenNonconformance DecidedWithinAffected
PROPERTIES
    IqcSkipsOnlyOpen
