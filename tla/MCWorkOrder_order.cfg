CONSTANTS
    Clients = {c1, c2}
    w1 = w1  w2 = w2  w3 = w3
    Workers = {w1, w2, w3}
    Qtys = {1, 2}
    LotSizes = {1, 2}
    MaxOpenWorkers = 2
    Worlds <- MCWorlds
SPECIFICATION Spec
INVARIANTS SessionsFit SlotsFit RequestsSettled
PROPERTIES JudgedAsCounted
SYMMETRY Symmetry
CHECK_DEADLOCK FALSE
