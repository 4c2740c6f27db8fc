--------------------------- MODULE MCZaloDelivery ---------------------------
(* One process and two messages, or the two processes of a blue-green       *)
(* switch and one message, with one more refresh token to come; or the two  *)
(* processes, no message, two more refresh tokens, and administrators who   *)
(* replace the app and the secret key as well.                              *)
EXTENDS ZaloDelivery

CONSTANTS r1, r2, d1, d2

Quiet == \A d \in Deliveries : delivery[d] = Past

MCInit ==
  /\ Init
  /\ \/ /\ delivery = [d \in Deliveries |-> Written]
        /\ run[r1] = Down /\ ~conn.fresh /\ issued = MaxKeys - 1
     \/ /\ delivery[d1] # Past /\ delivery[d2] = Past
        /\ run[r1] = Down <=> conn.fresh
        /\ issued = MaxKeys - 1
     \/ /\ Quiet
        /\ run[r1] = NoRun /\ ~conn.fresh /\ issued = MaxKeys - 2

(* Bound: beside messages, an administrator replaces nothing but the refresh *)
(* token.                                                                    *)
TokenAlone == issued' # issued /\ conn'.status = "ACTIVE" /\ conn'.right = conn.right

MCNext ==
  \/ \E r \in Runners : tick(r) \/ stop(r) \/ crash(r) \/ statementFails(r)
  \/ \E d \in Deliveries : claimAges(d) \/ backoffEnds(d) \/ expires(d)
  \/ replaceWithin /\ (Quiet \/ TokenAlone)
  \/ secretChanges /\ Quiet
  \/ tokenAges \/ leaseExpires

MCSpec == MCInit /\ [][MCNext]_vars /\ Fairness
=============================================================================
