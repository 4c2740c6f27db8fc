------------------------------ MODULE OnceOnly ------------------------------
(***************************************************************************)
(* What an Idempotency-Key promises the client (idempotency.service.ts:    *)
(* 112-118 and 169-199), with no record, transaction or connection in      *)
(* sight: the first request of a key to take effect is the only one, every *)
(* other request of the key is answered from it, and a request the         *)
(* business rules reject has no effect.  An effect and the answer to its   *)
(* client are two events: an error, or silence, tells the client nothing   *)
(* about the effect, and a resend of the key is how it finds out.          *)
(***************************************************************************)
CONSTANTS Requests, NoRequest, KeyOf, FingerprintOf

VARIABLES effects,  \* requests that have taken effect
          reply     \* reply[r]: what the client of r sees

onceVars == <<effects, reply>>

Reply(kind, body) == [kind |-> kind, body |-> body]
Waiting(r) == reply[r].kind = "NONE"

OnceInit ==
  /\ effects = {}
  /\ reply = [r \in Requests |-> Reply("NONE", NoRequest)]

(* The key is free: the request takes effect. *)
Perform(r) ==
  /\ Waiting(r)
  /\ \A q \in effects : KeyOf[q] # KeyOf[r]
  /\ effects' = effects \cup {r}
  /\ UNCHANGED reply

(* The client of the effect is told. *)
Confirm(r) ==
  /\ Waiting(r)
  /\ r \in effects
  /\ reply' = [reply EXCEPT ![r] = Reply("DONE", r)]
  /\ UNCHANGED effects

(* The key is used: the same request gets the answer of the first one, and *)
(* another one is refused.                                                 *)
Repeat(r) ==
  /\ Waiting(r)
  /\ \E q \in effects \ {r} :
       /\ KeyOf[q] = KeyOf[r]
       /\ reply' = [reply EXCEPT ![r] =
                      IF FingerprintOf[q] = FingerprintOf[r]
                      THEN Reply("REPLAYED", q) ELSE Reply("DUPLICATE", NoRequest)]
  /\ UNCHANGED effects

(* A business rule rejects the request, which is then "a thing not done". *)
Reject(r) ==
  /\ Waiting(r)
  /\ r \notin effects
  /\ reply' = [reply EXCEPT ![r] = Reply("REJECTED", NoRequest)]
  /\ UNCHANGED effects

(* A technical error, before the effect or after it. *)
Fail(r) ==
  /\ Waiting(r)
  /\ reply' = [reply EXCEPT ![r] = Reply("ERROR", NoRequest)]
  /\ UNCHANGED effects

(* The process ends with the requests in S unanswered. *)
Lose(S) ==
  /\ \A r \in S : Waiting(r)
  /\ reply' = [r \in Requests |-> IF r \in S THEN Reply("LOST", NoRequest) ELSE reply[r]]
  /\ UNCHANGED effects

OnceNext ==
  \/ \E r \in Requests : Perform(r) \/ Confirm(r) \/ Repeat(r) \/ Reject(r) \/ Fail(r)
  \/ \E S \in SUBSET Requests : Lose(S)

OnceSpec == OnceInit /\ [][OnceNext]_onceVars
=============================================================================
