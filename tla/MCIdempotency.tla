--------------------------- MODULE MCIdempotency ---------------------------
(* Four arrivals: r1 and its resend r2, r3 which reuses their key for another *)
(* request, and r4 under a key of its own, on a pool of two connections.      *)
EXTENDS Idempotency

CONSTANTS r1, r2, r3, r4, k1, k2, f1, f2

MCRequests      == {r1, r2, r3, r4}
MCKeys          == {k1, k2}
MCFingerprints  == {f1, f2}
MCKeyOf         == [r \in MCRequests |-> IF r = r4 THEN k2 ELSE k1]
MCFingerprintOf == [r \in MCRequests |-> IF r = r3 THEN f2 ELSE f1]
============================================================================
