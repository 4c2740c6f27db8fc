---------------------------- MODULE ZaloDelivery ----------------------------
(***************************************************************************)
(* Zalo messages (src/integration/zalo): the delivery rows written by      *)
(* business transactions, the one connection row with its tokens, and the  *)
(* runners of the api processes that send the messages under the lease     *)
(* 'zalo-delivery'.                                                        *)
(*                                                                         *)
(* Every awaited statement of a tick is one action.  Time is not a number: *)
(* a lease, a claim, a backoff, an access token and a delivery each run    *)
(* out on their own, also under a runner that is stalled in its tick.      *)
(* Error codes and messages written beside a status are left out, and with *)
(* them holdForConnection and recordConfigError, which write nothing else. *)
(* Zalo is external: it answers what it likes, and replaces a refresh      *)
(* token each time it is used.                                             *)
(***************************************************************************)
EXTENDS Naturals, FiniteSets

CONSTANTS
  Runners, NoRunner,
  Deliveries, NoDelivery,
  BATCH_SIZE,        \* deliveries claimed at once
  MAX_ATTEMPTS,      \* sendings that are counted
  Mortal,            \* runners that may crash or be shut down
  Lost,              \* whether an answer of Zalo may get lost (NETWORK, 5xx)
  Replaced,          \* credentials administrators replace: app, token
  MaxFaults,         \* bound: crashes, shutdowns and failed statements
  MaxKeys            \* bound: refresh tokens issued by Zalo

ASSUME ZaloDeliveryAssumption ==
  /\ NoRunner \notin Runners /\ NoDelivery \notin Deliveries
  /\ IsFiniteSet(Deliveries) /\ Mortal \subseteq Runners
  /\ BATCH_SIZE \in Nat \ {0} /\ MAX_ATTEMPTS \in Nat \ {0}
  /\ Replaced \subseteq {"app", "token"}
  /\ Lost \in BOOLEAN /\ MaxFaults \in Nat /\ MaxKeys \in Nat \ {0}

VARIABLES
  delivery,   \* zalo_delivery
  conn,       \* zalo_connection: status, a fresh access token, the refresh token,
              \* and whether its app and secret key are the ones Zalo takes
  lease,      \* sync_lease 'zalo-delivery': owner and whether it has not expired
  run,        \* the runners: step of the tick and what it holds in memory
  reached,    \* external: messages of a delivery that reached the phone
  dead,       \* external: refresh tokens Zalo does not take any more
  refused,    \* history: refresh tokens Zalo has refused a renewal with
  issued,     \* external: refresh tokens issued so far
  faults      \* faults so far

vars == <<delivery, conn, lease, run, reached, dead, refused, issued, faults>>

Keys == 1 .. MaxKeys
Ended == {"SENT", "FAILED", "EXPIRED"}
Replies == {"NONE", "OK", "TOKEN", "DEFER", "FAIL", "RETRY", "NO_TEMPLATE", "NOT_READY"}
Steps == {"idle", "orphans", "expire", "access", "save", "claim", "go", "finish", "release", "down"}

NoRun == [pc |-> "idle", stopping |-> FALSE, out |-> {}, claimed |-> {}, full |-> FALSE, cur |-> NoDelivery,
          force |-> FALSE, key |-> 1, new |-> 1, reply |-> "NONE"]

Down == [NoRun EXCEPT !.pc = "down"]

(* A row as a business transaction writes it, at once or not before some   *)
(* time, and a row of long ago.  The connection has its latest refresh     *)
(* token; those before it are used up.                                     *)
Written == [status |-> "PENDING", attempts |-> 0, due |-> TRUE, stale |-> FALSE, expired |-> FALSE]
Later == [Written EXCEPT !.due = FALSE]
Past == [Written EXCEPT !.status = "EXPIRED", !.expired = TRUE]

Init ==
  /\ delivery \in [Deliveries -> {Written, Later, Past}]
  /\ conn \in [status : {"ACTIVE"}, fresh : BOOLEAN, key : Keys, right : {TRUE}]
  /\ lease    = [owner |-> NoRunner, live |-> FALSE]
  /\ run \in [Runners -> {NoRun, Down}] /\ \A r \in Runners \ Mortal : run[r] = NoRun
  /\ reached  = [d \in Deliveries |-> 0]
  /\ issued = conn.key /\ dead = 1 .. conn.key - 1 /\ refused = {}
  /\ faults = 0

TypeOK ==
  /\ delivery \in [Deliveries -> [status : Ended \cup {"PENDING", "SENDING"}, attempts : 0 .. MAX_ATTEMPTS,
                                  due : BOOLEAN, stale : BOOLEAN, expired : BOOLEAN]]
  /\ conn \in [status : {"ACTIVE", "REAUTH_REQUIRED", "NOT_CONFIGURED"}, fresh : BOOLEAN, key : Keys,
              right : BOOLEAN]
  /\ lease \in [owner : Runners \cup {NoRunner}, live : BOOLEAN]
  /\ run \in [Runners -> [pc : Steps, stopping : BOOLEAN, out : SUBSET Deliveries, claimed : SUBSET Deliveries, full : BOOLEAN,
                          cur : Deliveries \cup {NoDelivery}, force : BOOLEAN, key : Keys, new : Keys,
                          reply : Replies]]
  /\ reached \in [Deliveries -> Nat]
  /\ dead \subseteq Keys /\ refused \subseteq Keys /\ issued \in Keys
  /\ faults \in 0 .. MaxFaults
-----------------------------------------------------------------------------
(* Helpers. *)

At(r, step) == run[r].pc = step
Goto(r, step) == run' = [run EXCEPT ![r].pc = step]
EndTick(r) == run' = [run EXCEPT ![r] = [NoRun EXCEPT !.stopping = run[r].stopping]]
Fault == faults < MaxFaults /\ faults' = faults + 1

tokens == <<dead, refused, issued>>
zalo == <<reached, tokens>>

(* SyncLease.acquire *)
MayAcquire(r) == lease.owner \in {NoRunner, r} \/ ~lease.live
Extend(r) == lease' = [owner |-> r, live |-> TRUE]

-----------------------------------------------------------------------------
(* The beginning of a tick. *)

acquire(r) ==
  /\ At(r, "idle") /\ ~run[r].stopping /\ MayAcquire(r)
  /\ Extend(r)
  /\ Goto(r, "orphans")
  /\ UNCHANGED <<delivery, conn, zalo, faults>>

(* Every delivery of a set S gets a status. *)
Set(S, status) ==
  [d \in Deliveries |-> IF d \in S THEN [delivery[d] EXCEPT !.status = status, !.stale = FALSE]
                        ELSE delivery[d]]

Orphans == {d \in Deliveries : delivery[d].status = "SENDING" /\ delivery[d].stale}

(* Mutants: orphans are sent again; orphans are left alone. *)
ResendOrphans(r) ==
  /\ At(r, "orphans") /\ Goto(r, "expire") /\ delivery' = Set(Orphans, "PENDING")
  /\ UNCHANGED <<conn, lease, zalo, faults>>
KeepOrphans(r) ==
  /\ At(r, "orphans") /\ Goto(r, "expire") /\ UNCHANGED <<delivery, conn, lease, zalo, faults>>

(* An orphan is taken for sent. *)
AssumeSent(r) ==
  /\ At(r, "orphans")
  /\ delivery' = Set(Orphans, "SENT")
  /\ Goto(r, "expire")
  /\ UNCHANGED <<conn, lease, zalo, faults>>

(* FAILED UNKNOWN_OUTCOME *)
settleOrphans(r) ==
  /\ At(r, "orphans")
  /\ delivery' = Set(Orphans, "FAILED")
  /\ Goto(r, "expire")
  /\ UNCHANGED <<conn, lease, zalo, faults>>

(* The clock of the tick is read once: what is not due, or expired, stays   *)
(* out of this tick, and what expires from here on does not.                *)
expire(r) ==
  /\ At(r, "expire")
  /\ delivery' = Set({d \in Deliveries : delivery[d].status = "PENDING" /\ delivery[d].expired}, "EXPIRED")
  /\ run' = [run EXCEPT ![r].pc = "access",
                        ![r].out = {d \in Deliveries : delivery[d].expired \/ ~delivery[d].due}]
  /\ UNCHANGED <<conn, lease, zalo, faults>>

-----------------------------------------------------------------------------
(* ZaloTokenService.access, at the beginning of a tick and, by force, after *)
(* Zalo has refused the access token.  The row is read and Zalo is called   *)
(* in one step: what is saved or refreshed between the two could as well    *)
(* come after them, as the row is saved only where it has not changed.      *)

Accessed(r) ==
  run' = [run EXCEPT ![r].pc = IF run[r].force THEN "go" ELSE "claim",
                     ![r].key = 1, ![r].new = 1, ![r].reply = "NONE"]
NotAccessed(r) ==
  IF run[r].force
  THEN run' = [run EXCEPT ![r].pc = "finish", ![r].key = 1, ![r].new = 1, ![r].reply = "NOT_READY"]
  ELSE EndTick(r)

(* The connection is not ready, the access token is good, or it is renewed: *)
(* Zalo gives new tokens, is out of reach, or refuses: the refresh token,   *)
(* or an app and secret key that are not the ones it takes.                 *)
access(r) ==
  LET key == conn.key
      Refreshed(reply, new) ==
        run' = [run EXCEPT ![r].pc = "save", ![r].key = key, ![r].new = new, ![r].reply = reply]
  IN
  /\ At(r, "access")
  /\ \/ conn.status # "ACTIVE" /\ NotAccessed(r) /\ UNCHANGED tokens
     \/ /\ conn.status = "ACTIVE" /\ conn.fresh /\ ~run[r].force
        /\ Accessed(r) /\ UNCHANGED tokens
     \/ /\ conn.status = "ACTIVE" /\ (run[r].force \/ ~conn.fresh)
        /\ \/ /\ conn.right /\ key \notin dead /\ issued < MaxKeys
              /\ dead' = dead \cup {key} /\ issued' = issued + 1 /\ Refreshed("OK", issued + 1)
              /\ UNCHANGED refused
           \/ Refreshed("RETRY", key) /\ UNCHANGED tokens
           \/ /\ dead' = dead \cup {key} \/ (~conn.right /\ UNCHANGED dead)
              /\ refused' = refused \cup {key} /\ Refreshed("FAIL", key)
              /\ UNCHANGED issued
  /\ UNCHANGED <<delivery, conn, lease, reached, faults>>

(* Mutant: the row is updated whatever refresh token it has by now. *)
AnyKey(r) == TRUE

(* where refresh_token_enc is the one that was used *)
sameKey(r) == conn.key = run[r].key

save(r) ==
  LET reply == run[r].reply IN
  /\ At(r, "save")
  /\ conn' = IF ~sameKey(r) THEN conn
             ELSE IF reply = "OK" THEN [conn EXCEPT !.fresh = TRUE, !.key = run[r].new]
             ELSE [conn EXCEPT !.fresh = @ /\ ~run[r].force,
                               !.status = IF reply = "FAIL" THEN "REAUTH_REQUIRED" ELSE @]
  /\ IF reply = "OK" THEN Accessed(r) ELSE NotAccessed(r)
  /\ UNCHANGED <<delivery, lease, zalo, faults>>
-----------------------------------------------------------------------------
(* The deliveries of a tick. *)

Claimable(r) == {d \in Deliveries \ run[r].out : delivery[d].status = "PENDING" /\ delivery[d].due}

claim(r) ==
  /\ At(r, "claim")
  /\ \E S \in SUBSET Claimable(r) :
       /\ S = Claimable(r) \/ Cardinality(S) = BATCH_SIZE
       /\ Cardinality(S) <= BATCH_SIZE
       /\ delivery' = Set(S, "SENDING")
       /\ IF S = {} THEN EndTick(r)
          ELSE run' = [run EXCEPT ![r].pc = "go", ![r].claimed = S, ![r].full = Cardinality(S) = BATCH_SIZE]
  /\ UNCHANGED <<conn, lease, zalo, faults>>

Reply(r, d, reply) ==
  run' = [run EXCEPT ![r].pc = "finish", ![r].cur = d, ![r].claimed = @ \ {d}, ![r].reply = reply]

(* sendTemplate and the answer of Zalo; after RETRY the message may have gone *)
(* out all the same.                                                         *)
deliver(r, d) ==
  \/ /\ Reply(r, d, "OK") /\ reached' = [reached EXCEPT ![d] = @ + 1]
  \/ \E reply \in {"DEFER", "FAIL", "RETRY"} :
       /\ Reply(r, d, reply)
       /\ \E n \in IF Lost /\ reply = "RETRY" THEN {0, 1} ELSE {0} : reached' = [reached EXCEPT ![d] = @ + n]

(* keepGoing, which within 30 seconds of an extension does not ask for the *)
(* lease, and the next message: it has no template, is sent, or the access *)
(* token is refused and has to be renewed.                                 *)
keepGoing(r) ==
  /\ At(r, "go") /\ ~run[r].force /\ ~run[r].stopping
  /\ \/ MayAcquire(r) /\ Extend(r)
     \/ UNCHANGED lease
  /\ \E d \in run[r].claimed :
       \/ Reply(r, d, "NO_TEMPLATE") /\ UNCHANGED reached
       \/ deliver(r, d)
       \/ /\ run' = [run EXCEPT ![r].pc = "access", ![r].cur = d, ![r].claimed = @ \ {d}, ![r].force = TRUE]
          /\ UNCHANGED reached
  /\ UNCHANGED <<delivery, conn, tokens, faults>>

(* The message is sent once more with the renewed token. *)
sendAgain(r) ==
  /\ At(r, "go") /\ run[r].force
  /\ \/ deliver(r, run[r].cur)
     \/ Reply(r, run[r].cur, "TOKEN") /\ UNCHANGED reached
  /\ UNCHANGED <<delivery, conn, lease, tokens, faults>>

(* Stopping, LeaseLost, or acquire() failed. *)
keepGoingThrows(r) ==
  /\ At(r, "go") /\ ~run[r].force
  /\ \/ (run[r].stopping \/ ~MayAcquire(r)) /\ UNCHANGED faults
     \/ Fault
  /\ Goto(r, "release")
  /\ UNCHANGED <<delivery, conn, lease, zalo>>

(* Mutant: one attempt more. *)
TriedOnceMore(d) == delivery[d].attempts + 1 > MAX_ATTEMPTS

TriedEnough(d) == delivery[d].attempts + 1 >= MAX_ATTEMPTS

(* finish, by id alone *)
Finished(d, reply) ==
  LET row == [delivery[d] EXCEPT !.stale = FALSE]
      counted == [row EXCEPT !.attempts = @ + 1]
  IN CASE reply = "OK" -> [counted EXCEPT !.status = "SENT"]
       [] reply = "NO_TEMPLATE" -> [row EXCEPT !.status = "FAILED"]
       [] reply = "NOT_READY" -> [row EXCEPT !.status = "PENDING"]
       [] reply = "DEFER" -> [row EXCEPT !.status = "PENDING", !.due = FALSE]
       [] reply \in {"FAIL", "TOKEN"} -> [counted EXCEPT !.status = "FAILED"]
       [] reply = "RETRY" -> IF TriedEnough(d) THEN [counted EXCEPT !.status = "FAILED"]
                             ELSE [counted EXCEPT !.status = "PENDING", !.due = FALSE]

finish(r) ==
  LET d == run[r].cur
      rest == run[r].claimed
      next == [run[r] EXCEPT !.cur = NoDelivery, !.force = FALSE, !.reply = "NONE",
                             !.out = IF Finished(d, run[r].reply).due THEN @ ELSE @ \cup {d}]
  IN
  /\ At(r, "finish")
  /\ delivery' = [delivery EXCEPT ![d] = Finished(d, run[r].reply)]
  /\ \/ /\ run[r].reply = "NOT_READY"
        /\ run' = [run EXCEPT ![r] = [next EXCEPT !.pc = "release"]]
     \/ /\ run[r].reply # "NOT_READY" /\ rest # {}
        /\ run' = [run EXCEPT ![r] = [next EXCEPT !.pc = "go"]]
     \/ /\ run[r].reply # "NOT_READY" /\ rest = {} /\ run[r].full
        /\ run' = [run EXCEPT ![r] = [next EXCEPT !.pc = "claim"]]
     \/ /\ run[r].reply # "NOT_READY" /\ rest = {} /\ ~run[r].full
        /\ EndTick(r)
  /\ UNCHANGED <<conn, lease, zalo, faults>>

(* release of the deliveries not sent; the tick is over *)
release(r) ==
  /\ At(r, "release")
  /\ delivery' = Set({d \in run[r].claimed : delivery[d].status = "SENDING"}, "PENDING")
  /\ EndTick(r)
  /\ UNCHANGED <<conn, lease, zalo, faults>>
-----------------------------------------------------------------------------
(* Processes and time. *)

stop(r) ==
  /\ r \in Mortal /\ ~run[r].stopping /\ ~At(r, "down")
  /\ run' = [run EXCEPT ![r].stopping = TRUE]
  /\ Fault
  /\ UNCHANGED <<delivery, conn, lease, zalo>>

(* onApplicationShutdown, after the tick in progress *)
leave(r) ==
  /\ At(r, "idle") /\ run[r].stopping
  /\ lease' = IF lease.owner = r THEN [owner |-> NoRunner, live |-> FALSE] ELSE lease
  /\ Goto(r, "down")
  /\ UNCHANGED <<delivery, conn, zalo, faults>>

crash(r) ==
  /\ r \in Mortal /\ ~At(r, "down")
  /\ run' = [run EXCEPT ![r] = Down]
  /\ Fault
  /\ UNCHANGED <<delivery, conn, lease, zalo>>

(* A statement of the tick fails: the tick ends, what is claimed stays SENDING. *)
statementFails(r) ==
  /\ run[r].pc \notin {"idle", "down", "go"}
  /\ EndTick(r)
  /\ Fault
  /\ UNCHANGED <<delivery, conn, lease, zalo>>

(* ZaloConnectionService.replaceWithin with other credentials: an app and   *)
(* secret key, a refresh token, or both.  They may or may not be the ones   *)
(* Zalo takes; without an app the connection is not configured.             *)
App == IF "app" \in Replaced
       THEN [status : {"ACTIVE"}, right : BOOLEAN] \cup {[status |-> "NOT_CONFIGURED", right |-> FALSE]}
       ELSE {[status |-> "ACTIVE", right |-> conn.right]}
replaceWithin ==
  /\ \/ "app" \in Replaced /\ UNCHANGED issued
     \/ "token" \in Replaced /\ issued < MaxKeys /\ issued' = issued + 1
  /\ \E app \in App :
       conn' = [status |-> app.status, fresh |-> FALSE, right |-> app.right,
                key |-> IF issued' = issued THEN conn.key ELSE issued']
  /\ UNCHANGED <<delivery, lease, run, reached, dead, refused, faults>>

(* The secret key is issued anew at Zalo. *)
secretChanges ==
  /\ "app" \in Replaced /\ conn.right
  /\ conn' = [conn EXCEPT !.right = FALSE]
  /\ UNCHANGED <<delivery, lease, run, zalo, faults>>

tokenAges ==
  /\ conn.fresh
  /\ conn' = [conn EXCEPT !.fresh = FALSE]
  /\ UNCHANGED <<delivery, lease, run, zalo, faults>>

leaseExpires ==
  /\ lease.live
  /\ lease' = [lease EXCEPT !.live = FALSE]
  /\ UNCHANGED <<delivery, conn, run, zalo, faults>>

(* LEASE_TTL_MS since the claim; next_attempt_at; expires_at *)
claimAges(d) ==
  /\ delivery[d].status = "SENDING" /\ ~delivery[d].stale
  /\ delivery' = [delivery EXCEPT ![d].stale = TRUE]
  /\ UNCHANGED <<conn, lease, run, zalo, faults>>
backoffEnds(d) ==
  /\ delivery[d].status = "PENDING" /\ ~delivery[d].due
  /\ delivery' = [delivery EXCEPT ![d].due = TRUE]
  /\ UNCHANGED <<conn, lease, run, zalo, faults>>
expires(d) ==
  /\ ~delivery[d].expired
  /\ delivery' = [delivery EXCEPT ![d].expired = TRUE]
  /\ UNCHANGED <<conn, lease, run, zalo, faults>>

tick(r) ==
  \/ acquire(r) \/ settleOrphans(r) \/ expire(r) \/ access(r) \/ save(r)
  \/ claim(r) \/ keepGoing(r) \/ sendAgain(r) \/ keepGoingThrows(r) \/ finish(r) \/ release(r)
  \/ leave(r)

Next ==
  \/ \E r \in Runners : tick(r) \/ stop(r) \/ crash(r) \/ statementFails(r)
  \/ \E d \in Deliveries : claimAges(d) \/ backoffEnds(d) \/ expires(d)
  \/ replaceWithin \/ secretChanges \/ tokenAges \/ leaseExpires

(* A process that is up goes on with its tick and starts the next one, and *)
(* time passes.                                                            *)
Fairness ==
  /\ \A r \in Runners : WF_vars(tick(r))
  /\ \A d \in Deliveries : WF_vars(claimAges(d)) /\ WF_vars(expires(d))
  /\ WF_vars(leaseExpires)

Spec == Init /\ [][Next]_vars
FairSpec == Spec /\ Fairness
-----------------------------------------------------------------------------
(* FR-026: a message reaches its phone at most once, through crashes and   *)
(* failures at any step, stalled runners, lost leases and renewed tokens   *)
(* (settleOrphans, release, and finish by a runner that is late).          *)
NeverTwice == \A d \in Deliveries : reached[d] <= 1

(* SENT is written only for a message that has gone out. *)
SentHasReached == \A d \in Deliveries : delivery[d].status = "SENT" => reached[d] > 0

(* A renewal that ends late does not undo what was saved meanwhile: a       *)
(* runner replaces a refresh token only when Zalo does not take it any more, *)
(* and asks for a new authorisation only when Zalo has refused a renewal     *)
(* with the very refresh token that is saved; a token an administrator has   *)
(* just saved stands (ZaloTokenService.access).                              *)
LiveKeyStands ==
  [][/\ conn'.key # conn.key /\ issued' = issued => conn.key \in dead
     /\ conn'.status = "REAUTH_REQUIRED" /\ conn.status # "REAUTH_REQUIRED" => conn.key \in refused]_vars

(* Credentials that Zalo takes, all of them, are left to be renewed by the  *)
(* next tick ("the runner gets a new one in the next tick"): no runner asks *)
(* for a new authorisation.  The code does not keep this when the app or    *)
(* the secret key is replaced and the refresh token is not: a refusal of    *)
(* the old ones that comes late is written over the new ones, for save goes *)
(* by the refresh token alone.                                              *)
GoodCredentialsStand ==
  [][conn.status = "ACTIVE" /\ conn.right /\ conn.key \notin dead => conn'.status # "REAUTH_REQUIRED"]_vars

(* Every delivery ends for good, sent, failed or expired, while one        *)
(* process stays up (settleOrphans, expire, release).                      *)
EveryDeliveryEnds == \A d \in Deliveries : <>[](delivery[d].status \in Ended)
=============================================================================
