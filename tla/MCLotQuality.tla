----------------------------- MODULE MCLotQuality -----------------------------
EXTENDS LotQuality, TLC

CONSTANTS i1, s1, s2, p1

World(scope, approval, rejected, held, n) ==
    [scope |-> scope, approval |-> approval, rejected |-> rejected, held |-> held, calls |-> n]
MCWorlds ==
    {World({i1}, "APPROVED", FALSE, FALSE, 3), World({i1}, "APPROVED", TRUE, FALSE, 3),
     World({i1}, "REJECTED", TRUE, FALSE, 2), World({s1, s2}, "APPROVED", FALSE, FALSE, 3),
     World({p1}, "APPROVED", FALSE, FALSE, 2), World({p1}, "APPROVED", FALSE, TRUE, 3)}
Symmetry == Permutations(Sessions) \cup Permutations(SlotLots)
=============================================================================
