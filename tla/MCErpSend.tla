------------------------------ MODULE MCErpSend ------------------------------
(* Runners of a blue-green switch and one message, or one runner and two *)
(* messages, of one row each.                                            *)
EXTENDS ErpSend

CONSTANTS r1, r2, m1, m2

MCInit == Init /\ msg[m1] = NoMsg /\ (msg[m2] = PastMsg <=> run[r1] = NoRun)
MCSpec == MCInit /\ [][Next]_vars /\ Fairness

(* All runners up, all messages still to come. *)
FreshInit == Init /\ msg = [m \in Messages |-> NoMsg] /\ run = [r \in Runners |-> NoRun]
FreshSpec == FreshInit /\ [][Next]_vars /\ Fairness
=============================================================================
