----------------------------- MODULE MCWorkOrder -----------------------------
EXTENDS WorkOrder, TLC

CONSTANTS w1, w2, w3

World(kinds, workers, begun, n) ==
    [kinds |-> kinds, workers |-> workers, begun |-> begun, calls |-> n]
Planning == {"update", "release", "start", "report", "cancel"}
Making == {"start", "report", "correct", "close", "cancel"}
Working == {"release", "start", "stop", "hold", "resume", "sessionResume", "close", "cancel"}
Crews == {"start", "close", "cancel"}
Supplying == {"close", "cancel", "cancelRequest", "updateRequest", "issueMore", "pick"}
MCWorlds ==
    {World(Planning, {w1}, FALSE, 4), World(Making, {w1}, TRUE, 4),
     World(Working, {w1}, FALSE, 5), World(Crews, {w1, w2, w3}, TRUE, 3),
     World(Supplying, {w1}, TRUE, 4)}
Symmetry == Permutations(Clients)
=============================================================================
