---------------------------- MODULE Idempotency ----------------------------
(***************************************************************************)
(* IdempotencyService.run (src/common/idempotency/idempotency.service.ts): *)
(* every write of the API carries an Idempotency-Key; the first request of *)
(* a key runs the operation ("work") and stores its answer, later requests *)
(* of the key are answered from the record.                                *)
(*                                                                         *)
(* The record is created, and completed, inside one interactive Prisma     *)
(* transaction (the OUTER transaction).  A handler uses it in one of two   *)
(* ways, and Joined says which:                                            *)
(*   Joined        run(context, (tx) => service.write(tx, ...)): the work  *)
(*                 runs in the outer transaction;                          *)
(*   ~Joined       run(context, () => service.write(...)): the work opens  *)
(*                 a transaction of its own, on a second connection of the *)
(*                 same pool, and that one commits first.                  *)
(*                                                                         *)
(* A request is one arrival at the server; a resend by the client is       *)
(* another request with the same key.                                      *)
(***************************************************************************)
EXTENDS Naturals, FiniteSets

CONSTANTS Requests,      \* arrivals at the server
          NoRequest,     \* none of them
          Keys,          \* Idempotency-Key values
          Fingerprints,  \* hashes of method, path and body
          KeyOf, FingerprintOf,   \* what each request carries
          PoolSize,      \* connections of the Prisma pool
          Joined         \* does work run in the transaction it is given?

ASSUME IdempotencyAssumption ==
  /\ NoRequest \notin Requests
  /\ KeyOf \in [Requests -> Keys]
  /\ FingerprintOf \in [Requests -> Fingerprints]
  /\ PoolSize \in Nat \ {0}
  /\ Joined \in BOOLEAN

VARIABLES
  pc,       \* pc[r]: where request r is
  record,   \* record[k]: the newest version of the row idempotency_record k
  outer,    \* requests whose outer transaction is open (each holds a connection)
  inner,    \* requests whose work has its own transaction open (a 2nd connection)
  applied,  \* requests whose work has been committed
  answer    \* answer[r]: what the client sees (LOST: no response ever comes)

vars == <<pc, record, outer, inner, applied, answer>>

Labels == {"arrive", "begin", "create", "work", "ownWork", "ownCommitted", "complete",
           "commit", "committed", "reread", "over"}

(* A record row: its status, the request whose body it stores (by), and the *)
(* request whose open transaction wrote it (writer; NoRequest: committed).  *)
NoRecord == [status |-> "NONE", by |-> NoRequest, writer |-> NoRequest]
Record   == [status : {"NONE", "IN_PROGRESS", "COMPLETED"},
             by : Requests \cup {NoRequest}, writer : Requests \cup {NoRequest}]

NoAnswer == [kind |-> "NONE", body |-> NoRequest]
Answer   == [kind : {"NONE", "DONE", "REPLAYED", "DUPLICATE", "IN_PROGRESS", "REJECTED",
                     "ERROR", "LOST"},
             body : Requests \cup {NoRequest}]

Init ==
  /\ pc      = [r \in Requests |-> "arrive"]
  /\ record  = [k \in Keys |-> NoRecord]
  /\ outer   = {}
  /\ inner   = {}
  /\ applied = {}
  /\ answer  = [r \in Requests |-> NoAnswer]

----------------------------------------------------------------------------
(* READ COMMITTED: a read outside the writer's transaction sees committed rows. *)
Visible(k) == record[k].status # "NONE" /\ record[k].writer = NoRequest

FreeConnection == Cardinality(outer) + Cardinality(inner) < PoolSize

(* The outer transaction of r ends without a commit: its row goes with it. *)
RolledBack(r) ==
  [k \in Keys |-> IF record[k].writer = r THEN NoRecord ELSE record[k]]

Respond(r, kind, body) ==
  /\ pc'     = [pc EXCEPT ![r] = "over"]
  /\ answer' = [answer EXCEPT ![r] = [kind |-> kind, body |-> body]]

(* The exception leaves $transaction, which rolls back whatever is open: a *)
(* business rule REJECTED the request, or there was a technical ERROR.     *)
Throw(r, kind) ==
  /\ record' = RolledBack(r)
  /\ outer'  = outer \ {r}
  /\ inner'  = inner \ {r}
  /\ Respond(r, kind, NoRequest)
  /\ UNCHANGED applied

(* Mutation: the stored answer is returned without comparing fingerprints. *)
ReplayAnyContent(r) ==
  /\ Respond(r, "REPLAYED", record[KeyOf[r]].by)
  /\ UNCHANGED <<record, outer, inner, applied>>

(* Another request under the key stored a record: answer from it, or refuse. *)
replay(r) ==
  LET rec == record[KeyOf[r]] IN
  /\ IF FingerprintOf[rec.by] # FingerprintOf[r]
     THEN Respond(r, "DUPLICATE", NoRequest)
     ELSE IF rec.status # "COMPLETED"
          THEN Respond(r, "IN_PROGRESS", NoRequest)
          ELSE Respond(r, "REPLAYED", rec.by)
  /\ UNCHANGED <<record, outer, inner, applied>>

replayExisting(r) ==
  /\ pc[r] = "arrive"
  /\ FreeConnection
  /\ \/ /\ Visible(KeyOf[r])
        /\ replay(r)
     \/ /\ ~Visible(KeyOf[r])
        /\ pc' = [pc EXCEPT ![r] = "begin"]
        /\ UNCHANGED <<record, outer, inner, applied, answer>>

BeginTransaction(r) ==
  /\ pc[r] = "begin"
  /\ FreeConnection
  /\ outer' = outer \cup {r}
  /\ pc'    = [pc EXCEPT ![r] = "create"]
  /\ UNCHANGED <<record, inner, applied, answer>>

(* Mutation: an upsert, which takes the row of an earlier request over. *)
UpsertRecord(r) ==
  /\ pc[r] = "create" /\ r \in outer
  /\ record[KeyOf[r]].writer = NoRequest
  /\ record' = [record EXCEPT ![KeyOf[r]] =
                  [status |-> "IN_PROGRESS", by |-> r, writer |-> r]]
  /\ pc'     = [pc EXCEPT ![r] = IF Joined THEN "work" ELSE "ownWork"]
  /\ UNCHANGED <<outer, inner, applied, answer>>

(* Mutation: the record is committed at once, outside the transaction. *)
CreateRecordOutside(r) ==
  /\ pc[r] = "create" /\ r \in outer
  /\ record[KeyOf[r]] = NoRecord
  /\ record' = [record EXCEPT ![KeyOf[r]] =
                  [status |-> "IN_PROGRESS", by |-> r, writer |-> NoRequest]]
  /\ pc'     = [pc EXCEPT ![r] = IF Joined THEN "work" ELSE "ownWork"]
  /\ UNCHANGED <<outer, inner, applied, answer>>

(* INSERT of the record.  The primary key makes it wait for an open        *)
(* transaction that inserted the same key, and fail (P2002) once that one  *)
(* has committed.                                                          *)
CreateRecord(r) ==
  /\ pc[r] = "create"
  /\ r \in outer
  /\ \/ /\ record[KeyOf[r]] = NoRecord
        /\ record' = [record EXCEPT ![KeyOf[r]] =
                        [status |-> "IN_PROGRESS", by |-> r, writer |-> r]]
        /\ pc'     = [pc EXCEPT ![r] = IF Joined THEN "work" ELSE "ownWork"]
        /\ UNCHANGED outer
     \/ /\ Visible(KeyOf[r])
        /\ outer' = outer \ {r}
        /\ pc'    = [pc EXCEPT ![r] = "reread"]
        /\ UNCHANGED record
  /\ UNCHANGED <<inner, applied, answer>>

Reread(r) ==
  /\ pc[r] = "reread"
  /\ FreeConnection
  /\ IF Visible(KeyOf[r]) THEN replay(r) ELSE Throw(r, "ERROR")

(* Mutation: a write of the work goes through this.prisma and not tx. *)
WorkBesideTransaction(r) ==
  /\ pc[r] = "work"
  /\ \/ /\ applied' = applied \cup {r}
        /\ pc' = [pc EXCEPT ![r] = "complete"]
        /\ UNCHANGED <<record, outer, inner, answer>>
     \/ Throw(r, "REJECTED")

(* work(tx) in the outer transaction: its effect is committed with it, or  *)
(* the business rules reject the request.                                  *)
WorkInTransaction(r) ==
  /\ pc[r] = "work"
  /\ \/ /\ r \in outer
        /\ pc' = [pc EXCEPT ![r] = "complete"]
        /\ UNCHANGED <<record, outer, inner, applied, answer>>
     \/ Throw(r, "REJECTED")

(* The work opens its own transaction, which needs a second connection ... *)
WorkOpensTransaction(r) ==
  /\ pc[r] = "ownWork"
  /\ r \notin inner
  /\ FreeConnection
  /\ inner' = inner \cup {r}
  /\ UNCHANGED <<pc, record, outer, applied, answer>>

(* ... and commits it, or rejects the request.  Neither needs the outer    *)
(* transaction to be open still.                                           *)
WorkCommitsOwn(r) ==
  /\ pc[r] = "ownWork"
  /\ r \in inner
  /\ \/ /\ inner'   = inner \ {r}
        /\ applied' = applied \cup {r}
        /\ pc'      = [pc EXCEPT ![r] = "ownCommitted"]
        /\ UNCHANGED <<record, outer, answer>>
     \/ Throw(r, "REJECTED")

(* The work reads what it has written and returns; or the answer of the    *)
(* database to its COMMIT is lost, or that read fails, and it throws       *)
(* although it is committed.                                               *)
WorkReturns(r) ==
  /\ pc[r] = "ownCommitted"
  /\ \/ /\ pc' = [pc EXCEPT ![r] = "complete"]
        /\ UNCHANGED <<record, outer, inner, applied, answer>>
     \/ Throw(r, "ERROR")

CompleteRecord(r) ==
  /\ pc[r] = "complete"
  /\ r \in outer
  /\ record' = [record EXCEPT ![KeyOf[r]].status = "COMPLETED"]
  /\ pc'     = [pc EXCEPT ![r] = "commit"]
  /\ UNCHANGED <<outer, inner, applied, answer>>

(* The callback has returned and the database commits. *)
Commit(r) ==
  /\ pc[r] = "commit"
  /\ r \in outer
  /\ record'  = [record EXCEPT ![KeyOf[r]].writer = NoRequest]
  /\ outer'   = outer \ {r}
  /\ applied' = applied \cup {r}
  /\ pc'      = [pc EXCEPT ![r] = "committed"]
  /\ UNCHANGED <<inner, answer>>

(* run returns the body; or the answer of the database to the COMMIT is    *)
(* lost, $transaction throws, and the client is told of an error although  *)
(* the effect stands.                                                      *)
Return(r) ==
  /\ pc[r] = "committed"
  /\ Respond(r, "DONE", r) \/ Respond(r, "ERROR", NoRequest)
  /\ UNCHANGED <<record, outer, inner, applied>>

----------------------------------------------------------------------------
(* The timeout of the interactive transaction (5 s unless the call says    *)
(* otherwise) closes it under the callback, which goes on running.         *)
TransactionTimeout(r) ==
  /\ r \in outer
  /\ record' = RolledBack(r)
  /\ outer'  = outer \ {r}
  /\ UNCHANGED <<pc, inner, applied, answer>>

(* Mutation: the error of a closed transaction is swallowed. *)
SwallowClosed(r) == pc[r] \in {"create", "work", "complete", "commit"} /\ r \notin outer /\ UNCHANGED vars

(* A statement of the callback finds its transaction closed (P2028). *)
StatementOnClosed(r) ==
  /\ pc[r] \in {"create", "work", "complete", "commit"}
  /\ r \notin outer
  /\ Throw(r, "ERROR")

(* No connection within the pool timeout (P2024, or maxWait). *)
PoolTimeout(r) ==
  /\ pc[r] \in {"arrive", "begin", "reread", "ownWork"}
  /\ r \notin inner
  /\ ~FreeConnection
  /\ Throw(r, "ERROR")

(* The api process dies: open transactions roll back, and nobody in flight *)
(* gets an answer, whether or not the transaction had been committed.      *)
Crash ==
  /\ \E r \in Requests : pc[r] \notin {"arrive", "over"}
  /\ record' = [k \in Keys |-> IF record[k].writer # NoRequest THEN NoRecord ELSE record[k]]
  /\ outer'  = {}
  /\ inner'  = {}
  /\ pc'     = [r \in Requests |-> IF pc[r] = "arrive" THEN "arrive" ELSE "over"]
  /\ answer' = [r \in Requests |-> IF pc[r] \in {"arrive", "over"} THEN answer[r]
                                   ELSE [kind |-> "LOST", body |-> NoRequest]]
  /\ UNCHANGED applied

run(r) ==
  \/ replayExisting(r) \/ BeginTransaction(r) \/ CreateRecord(r) \/ Reread(r)
  \/ WorkInTransaction(r) \/ WorkOpensTransaction(r) \/ WorkCommitsOwn(r) \/ WorkReturns(r)
  \/ CompleteRecord(r) \/ Commit(r) \/ Return(r) \/ StatementOnClosed(r)

Done == (\A r \in Requests : pc[r] = "over") /\ UNCHANGED vars

Next ==
  \/ \E r \in Requests : run(r) \/ TransactionTimeout(r) \/ PoolTimeout(r)
  \/ Crash
  \/ Done

Spec == Init /\ [][Next]_vars

(* The event loop and the database serve every request; a transaction that *)
(* lingers is timed out, and so is a wait for a connection.                *)
FairSpec ==
  /\ Spec
  /\ \A r \in Requests : /\ WF_vars(run(r))
                         /\ WF_vars(TransactionTimeout(r))
                         /\ WF_vars(PoolTimeout(r))

----------------------------------------------------------------------------
TypeOK ==
  /\ pc \in [Requests -> Labels]
  /\ record \in [Keys -> Record]
  /\ outer \subseteq Requests
  /\ inner \subseteq Requests
  /\ applied \subseteq Requests
  /\ answer \in [Requests -> Answer]

(* "One operation = one transaction = one idempotency record": whatever    *)
(* resends, crashes and timeouts there are, the work of a key is committed *)
(* at most once (idempotency.service.ts:112-118).                          *)
AtMostOnce ==
  \A r, q \in applied : KeyOf[r] = KeyOf[q] => r = q

(* Record and work agree (idempotency.service.ts:115-117): a record anyone *)
(* can see is complete and its work is committed, and committed work has   *)
(* its record to be seen, whatever its client was told.  So a resend after *)
(* an error or a lost answer is answered from the record when there was an *)
(* effect, and runs when there was none; it is never locked out.           *)
RecordMatchesWork ==
  \A k \in Keys :
    /\ Visible(k) => /\ record[k].status = "COMPLETED"
                     /\ record[k].by \in applied
                     /\ KeyOf[record[k].by] = k
    /\ (\E r \in applied : KeyOf[r] = k) => Visible(k)

(* A replay never lies (idempotency.service.ts:174): the body it returns   *)
(* was produced by committed work of the same key and the same content.    *)
ReplayIsTruthful ==
  \A r \in Requests : answer[r].kind = "REPLAYED" =>
    LET q == answer[r].body IN
    /\ q \in applied
    /\ KeyOf[q] = KeyOf[r]
    /\ FingerprintOf[q] = FingerprintOf[r]

(* The record is born IN_PROGRESS inside a transaction that only commits   *)
(* it COMPLETED, so the branch of replay that answers "being processed"    *)
(* (workerLease, idempotency.service.ts:184-190) is never taken, against   *)
(* what the comments promise a request that meets another one of its key   *)
(* (lines 27-28 and 154): it waits at its INSERT and replays the answer.   *)
NeverSeenInProgress ==
  \A r \in Requests : answer[r].kind # "IN_PROGRESS"

(* run, with its record, transactions, connections, timeouts and crashes,  *)
(* implements the promise of the key: one effect, the answer of that one   *)
(* effect to every request that gets an answer, no effect of a rejected    *)
(* request (idempotency.service.ts:112-118).                               *)
Once == INSTANCE OnceOnly WITH effects <- applied, reply <- answer
ImplementsOnce == Once!OnceSpec

(* Every request is answered, or lost with its process. *)
EveryRequestEnds == \A r \in Requests : <>(pc[r] = "over")

============================================================================
