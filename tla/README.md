# Verification of the MES server

TLA+ specifications, TLC runs and TLAPS proofs of the parts of `omf-mes-server`
whose correctness depends on the order in which concurrent requests, database
transactions, background runners and outside systems take their steps.

The server is one NestJS application over one PostgreSQL database (Prisma,
`READ COMMITTED`). It runs as several processes during a blue-green switch. It
keeps no state in memory that matters, so every invariant rests on rows, row locks,
unique indexes, and the order of statements in `src/src`. Reading the code that
way gives the inventory below; `PROJECT.json` has the line-by-line map, the hazards
and the findings.

## 1. Inventory

| Component (`src/src/...`) | State it keeps | Operations | What is hard | What makes it correct |
|---|---|---|---|---|
| `common/idempotency` | `idempotency_record` per key | `run`, `replay` around every write of the API | resends at the same time; crash or timeout between two commits; a second connection taken while one is held | the work of a key is committed at most once, and exactly when its record is; replays are truthful; every request ends |
| `core/inventory-posting` | ledger headers and lines, `inventory_balance` rows, reservations | `post`, `reverse`, `reserve`, `pick`, `consume`, ordered locks | rows that do not exist yet; two cancellations; sums over lines; deadlocks | stock is the sum of the ledger; one reversal per posting; lower bounds hold under locks; no deadlock over rows that exist |
| `core/outbox`, `integration/message` | `integration_message` | `enqueue`, `retry`, `retryBatch` | retry while a runner holds the message | one message per key; a retry is not a second sending |
| `integration/erp` (send) | `sync_lease`, `erp_outbound_row`, rows of the relay database | `tick`: claim, reserve, insert, rewrite, read replies, settle | crash between two databases; lease that runs out under its holder; late answers | a document goes out once; a message follows its rows; every answer is recorded; the queue drains |
| `integration/erp` (sync) | `integration_message` of inbound rows, flags of the relay rows, `sync_lease` | read batch, apply units, ack, write errors, retry by hand | ack lost after commit; order per business key; units cut by the end of a batch | a flagged row has been applied; versions of a key in order; every row arrives |
| `integration/zalo` | `zalo_delivery`, `zalo_connection` (status, access and refresh token), `sync_lease` | claim, send, finish, orphans, renewal, replacement of the connection | a runner that outlives its lease; a crash after sending; a renewal that ends late | a message goes out at most once; what has been saved stands unless Zalo has refused it; every delivery ends |
| `core/approval`, `app/approval` | requests and steps with `version_no` | request, decide, change and (de)activate routes | two deciders on one version; two requests for one document | one open request per document; decisions add up to the status; what is posted is what was approved |
| `core/document-state`, `logistics/document-progress` | status of documents | guarded transitions, cancellation by approval | a transition read before and written after a lock | only transitions of the tables happen |
| `core/lot`, `quality`, skips of `trace`, `production`, `logistics` | `lot.status_code`, holds, inspection requests, nonconformances, concessions | hold, release, confirm, skip, register, dispose, concede, report | recounts of holds at the same time; a skip that meets a judgment; quantities decided by several calls | no count of the open holds frees a lot that is held; one open nonconformance; decided exactly |
| `production/work-order`, `work-session`, `production-result` | work orders, pre-issued lots, sessions and participants, results | update, release, start, hold, resume, stop, end, report, correct, close, cancel, join, leave | a plan read before the lock; start against close; a correction or late result against close | one open session, none of a closed order; slots add up and follow the results; the judgment counts every event once |
| `core/picking`, `core/material-issue`, `logistics/material-issue-request` | issue requests and picking orders of a work order | create, release (by the runner too), edit, cancel, pick, issue, settle | the order ends while runner, user or goods issue works on the request | no request of the release that has a source warehouse is open when its order has ended |
| other `logistics/*` | documents around the posting core | receive, move, ship, cancel | their use of locks before `reserve`/`pick`/`consume` | see `core/inventory-posting` |
| `inventory/adjustment`, `inventory/count` | counts and adjustments | snapshot, post | stock moves between snapshot and posting | the adjustment is relative to what was counted |
| `core/numbering` | counters | one upsert per number | taken outside the transaction: gaps are allowed | no number twice |
| `auth`, `app/access` | sessions, roles | log in, refresh, revoke, change roles | last administrator under two changes | at least one administrator stays |
| rest of `production`, `planning`, `maintenance` | consumption, plans, maintenance orders | document flows | row locks | see `core/document-state` |
| `mdm`, `app` screens, `trace`, `audit`, `prisma`, `health` | master data, queries, log | single-row writes, reads | little | - |

How they interact: a controller calls `IdempotencyService.run`; inside it a service
opens or joins a transaction, changes documents, calls the posting core, and enqueues
outbox messages in the same transaction. Runners (ERP send, ERP sync, Zalo,
replenishment, release of issue requests) are `setTimeout` chains in every process; a
row of `sync_lease` lets one of them work at a time. The relay database and the ERP are
reached by the ERP runners only. Nothing else is shared.

## 2. Modules

```
OnceOnly           <- Idempotency (INSTANCE)    <- IdempotencyProofs (TLAPS)
                                                <- MCIdempotency       3 configurations
InventoryPosting   <- InventoryPostingProofs (TLAPS)
                   <- MCInventoryPosting        1 configuration
ErpSend            <- ErpSendProofs (TLAPS)
                   <- MCErpSend                 2 configurations
Approval <- Documents <- DocumentsProofs (TLAPS)
                   <- MCDocuments               1 configuration
LotQuality         <- LotQualityProofs (TLAPS)
                   <- MCLotQuality              1 configuration
ZaloDelivery       <- ZaloDeliveryProofs (TLAPS)
                   <- MCZaloDelivery            2 configurations
ErpInbound         <- ErpInboundProofs (TLAPS)
                   <- MCErpInbound              1 configuration
WorkOrder          <- WorkOrderProofs (TLAPS)
                   <- MCWorkOrder               1 configuration
```

Operators whose comment begins with "Mutation" or "Mutant" are faulty variants of the definition
that follows them. No specification uses them; each shows that a property
fails when the code has the fault it describes.

### Idempotency

`idempotency.service.ts`. One action per awaited statement of `run`: the first look
(`replayExisting`), `BeginTransaction`, the INSERT (`CreateRecord`), the work,
`CompleteRecord`, `Commit`, `Return`, and the second look after `P2002` (`Reread`).
`Joined` says what the handler's callback does with the transaction it is handed:

- `Joined`: it runs in it (`run(ctx, (tx) => service.write(tx, ...))`);
- not `Joined`: it ignores it and opens one of its own on a second connection
  (`shipment-request.controller.ts:164` and many others).

Failures: the transaction times out under the running callback (`TransactionTimeout`,
then `StatementOnClosed`), no connection comes (`PoolTimeout`), the process dies
(`Crash`), the acknowledgement of the COMMIT is lost (`Return`: the client sees an error, the
effect stands), the business rules reject the request (`Throw`). `Commit` and `Return` are two
steps, so that a process that dies between them has committed and not answered. A record is
visible when its
writer has committed. Bodies and hashes are abstracted to "which request stored it" and
"equal or not".

### OnceOnly

What the key promises, without records, transactions or connections. An effect and what
its client hears of it are two events: the first request of a free key takes effect
(`Perform`) and may be told so (`Confirm`); other requests of the key are answered from the
effect or refused (`Repeat`); a request that the business rules reject has no effect and never
will (`Reject`); an error or silence says nothing about the effect (`Fail`, `Lose`).
`Idempotency` implements it under the mapping `effects <- applied`, `reply <- answer` when
the work is joined (`ImplementsOnce`, checked by TLC and proved by TLAPS). Detached work
does not.

### InventoryPosting

`core/inventory-posting`. A transaction runs a *program*: the calls of the core that
one operation of the server makes (transfer, receipt, status change, cancellation of a
document and of an expedited shipment, goods issue, picking, product picking). The
cancellation of an expedited shipment is two reversals in one transaction, each with a lock
statement of its own (`shipment-cancel.service.ts:145-152`). Each SQL statement is an action, and
`SELECT ... FOR UPDATE` is one action for its snapshot and one per row, since PostgreSQL
locks row by row. `post` and `reverse` look for their header, `SnapshotRows` and
`lockBalancesInOrder` lock, `RereadReversal` looks again under the locks and applies
`assertReversible`, `InsertHeader` meets `uq_inventory_idempotency`, `writeLine` moves
one side of one line (`move()`; INSERT and UPDATE of one row by one transaction are one
action, as the row is its own between them), `updateQty` is the guarded UPDATE of
`reserve`, `pick` and `consume`.
The trigger `check_balance_qty`, the unique indexes and the deadlock detector are the
database's part, modelled from the migration and from how the code relies on them.

A dimension is a place (location, item) and a status: two statuses in one
place are what tells the 7 columns of the lock from the 11 of the row. Left out: the
reservation rows and `releaseReservation`, the `*_qty_after` columns, `blocked_qty`
(never written by the server), `version_no`.

### ErpSend

`integration/erp`: `erp-send.runner.ts`, `outbound-rows.ts`, `outbound-replies.ts`,
`sync-lease.ts` and the four statements of `relay-client.ts` it uses, with `enqueue` and
`retry` from the outbox side and the ERP as an outside actor that applies, rejects or
clears rows. The tick is one action per awaited statement:

`acquire` - `releaseOrphans` - `claim` - for each message `keepGoing`, `of`, `build`,
`reserve`, `insertRows`, `markInserted` | `discard` | `rewrite`, `markRewritten`,
`finish` - then `keepGoing`, `waiting`, `replies`, `recordReplies`, `settle`.

A runner may crash or be shut down at any of them (`Crash`, `stop`, `leave`), a
statement may fail (`statementFails`), the relay may be out of reach before or after its
commit (`postpone`), and a runner may stall until its lease or its locks have run out.

Abstractions: every message has a document of its own and all its rows take one
`IF_SEQ` (`perSend`); no cancelling rows (`CREATE_TYPE` C), no two-step flags of the
goods issue table; a builder gives rows, none, or an error; the refusal of a row by the
relay is a free choice; row ids are fresh tokens and not counters; `settle` reads and
updates in one action; `now`, which a tick fixes when it starts, is replaced by "has run
out" at the time of the statement, which allows more than the code does.

### Approval and Documents

`Approval` has the tables `approval_request` (with its steps) and the routes. A decision is
three actions, as `decide` reads the request, reads its steps and then writes both; the
conditional update on `version_no` (`assertUpdated`) is what keeps two approvers apart.
Administrators change, activate and deactivate routes between any two steps.

`Documents` composes it with the transactions that submit, edit, post, cancel, confirm or
correct seven kinds of document. They all have one shape: lock the row, compare
`version_no` and the status, ask questions of other tables that nothing locks, write. An
operation is therefore a record (where it starts from, whether it has an If-Match, the
questions in their order, the effect), one per handler, and four actions run any of them:
`Start`, `Gate`, the effects and `Abort`. `marks` counts what an operation leaves in other
tables and must not leave twice: ledger rows, reversals, outbox rows, corrections.

### LotQuality

The quality status of a lot, its holds, the requests of the three inspections,
nonconformances and concessions. `Plan` has the order in which each of thirteen calls
takes its row locks (heading row, requests, lots); the gates it passes right after each
lock are `HeadGate` and `LotsGate`; what it writes is one action per call. The recount of
open holds uses what the statement under the lock has seen (`Snapshot`, `openAfter`,
`lotsFreeOfOpenHolds`), so leaving out a lock shows. `TRANSITIONS` is the table of
`trace.lot.status_code`. Left out: drafts and later rounds of results, the child lot of a
SORT or partial concession, the return of stock, voiding by the work order, completion.

### ZaloDelivery

`zalo-delivery.runner.ts`, `zalo-token.service.ts`, the lease, and the replacement of the
connection by an administrator. One action per awaited statement of the tick: `acquire`,
`settleOrphans`, `expire`, `access`, `save`, `claim`, then per message `keepGoing` (with
the sending), `sendAgain`, `finish`, and `release`. Zalo is external: it takes a message
or answers with one of the classes of `zalo-error-policy.ts`, and it kills a refresh token
when it has been used. An administrator replaces the app and secret key, the refresh token, or
both (`replaceWithin`), and the key may be changed at Zalo (`secretChanges`): `conn.right` says
whether app and secret key are those Zalo takes. A renewal is refused because the refresh token
is dead or because they are not right, and the code cannot tell the two apart; `refused` keeps
the tokens of which a renewal has been refused. `Replaced` says what an instance may replace.
`Lost` says whether an answer may get lost after the message went out. Leases may run out under a runner at any time.

### ErpInbound

`inbound-cycle.ts`, the three statements of `relay-client.ts` it uses, the runner and its
lease, and `retry` of an inbound message. A table is read row by row or in units
(`grouped`); the cursor, the batches, the quarantine and the blocked keys are those of the
code. What a table does with a row is "its version is now in the MES".

### WorkOrder

One work order with its slots (pre-issued lots), sessions and crews, results and
corrections, and the material issue requests of its release. A call that locks the order
row has three steps: it arrives with the version its client saw (`Begin`), it takes the
lock and passes its checks (`Lock`; `assertCall` has the checks of each handler), it writes
and commits (one action per handler). `release` makes its plan in a step of its own before
the lock, as the code does, and `close` and `cancel` lock the requests they settle in a
step between (`LockRequests`), where progress is read. Calls on a session hold one session
row and are one step each; so are the runner's `ReleaseOne` (`SKIP LOCKED`) and
`Pick`. A goods issue that completes a request has two: it reads the status without a lock
(`Issue`), and posts the request by its id (`Post`).

If-Match is required for `update`, `release`, `close` and `cancel`; for the others it is
optional and modelled as absent, which allows more. A request is reduced to its status,
whether it is closed, one picking order, and the progress `requestProgress` would find
(nothing, picked, issued, all). Left out: the
shares of the workers in a result, defects and genealogy, how warehouses and stock are
chosen, manual requests in plants without production warehouses, the outbox row and
notices of a close.

## 3. Runs

| Run | Instance | Shows |
|---|---|---|
| `idem_joined` | joined work, 4 requests, 2 connections | committed at most once per key, record and work agree, implements `OnceOnly` |
| `idem_detached` | detached work | what remains: truthful replays, every request ends |
| `idem_detached_once` | detached work | **violation** of `AtMostOnce` |
| `post` | any 3 of 17 operations on rows that exist and rows that do not, a location that refuses stock | stock = ledger, reversals absorbed, checked operations never meet the trigger, ordered operations wait in a cycle only over rows that the run has brought |
| `erp` | 2 runners, one mortal, and 1 message, or 1 runner and 2 messages, a round that reads 1 row; 2 faults: failing statements, stalls; crashes, retries by hand | sent once, in progress means sent, DONE only when the ERP has applied, done is final, the queue drains, every answer is recorded |
| `erp_applied` | 2 runners, one mortal, 1 message, a retry by hand | **violation** of `AppliedIsDone` |
| `documents` | one document of each of seven kinds, 2 calls, 2 approvers, routes that change | one open request, decisions add up, posted as approved, nothing left twice, nothing undone without approval, no confirmation inside a cancellation |
| `lots` | an inbound lot, two lots of a work order or a picked lot; 2 sessions, up to 3 calls | status and open holds agree, one open nonconformance, decided exactly, a judgment is never skipped over |
| `zalo` | 2 runners and 1 delivery, or 1 and 2, and a refresh token that is replaced; or 2 runners and 3 refresh tokens, app, key and token replaced; 1 fault | never twice, SENT means sent, every delivery ends; a token is replaced only when dead, a new authorisation asked for only when Zalo has refused the saved token |
| `zalo_secret` | 1 runner, app, key and token replaced | **violation** of `GoodCredentialsStand` |
| `inbound` | 2 runners, 3 keys in 2 units, 4 rows, batches of 2, 2 faults, no stalls | flagged means applied, versions in order, the last one stays, every row arrives |
| `work_order` | one order of 1 or 2 pieces, 2 calls at a time, up to 5 in all, runner and picking beside them | sessions and crews fit, slots add up, the judgment counts every event once, requests with a source warehouse are settled |

### What the violations say

Each states what a comment or a table of the repository says; `PROJECT.json` quotes the lines.

- **Detached work is not at most once** (`idem_detached_once`). The comment of
  `IdempotencyService` says that record and work are in one transaction. A callback
  that ignores its `tx` commits first; a crash or a timeout before the record's
  commit loses the record, and the resend repeats the work.
- **A message whose rows are all applied may stay PROCESSING for ever** (`erp_applied`). A
  crash between `recordReplies` and `settle`, or a reply that meets a retry by hand, records
  the last answer without settling the message, and no later round looks at a row that is
  APPLIED, against `outbound-replies.ts:14-15`.
- **A late refusal condemns credentials that are good** (`zalo_secret`). The refusal of a
  renewal is written where the refresh token is unchanged (`zalo-token.service.ts:65-78`). If
  only the app or the secret key has been replaced meanwhile, the connection just saved becomes
  REAUTH_REQUIRED, and no tick renews it, against `zalo-connection.service.ts:105`.

### Observations

Met while modelling; where a configuration is named, changing it shows the case. No run is
about them.

- *Detached work stalls the pool.* All connections can be held by record transactions that wait
  for a second one for their work, which `shipping-unit.service.ts:38-39` and
  `shipment-pick.service.ts:102-103` want to avoid. The pool timeout resolves it, with errors;
  `EveryRequestEnds` holds in `idem_detached`, where it happens.
- *Nobody is told that a request is in progress.* The record is written and completed in one
  transaction, so the second request of a key waits at its INSERT and replays the answer; the
  retryable 409 of `idempotency.service.ts:184-190`, which the comments at lines 27-28 and 154
  speak of, is never sent (theorem `InProgressIsInvisible`).
- *The ordered lock does not cover rows that do not exist yet.* Rows created by somebody else
  after the lock statement are taken by `move()` in line order: a receipt and a cancellation
  can deadlock, against the comment at `inventory-posting.service.ts:81-83`. It happens in
  `post` (two receipts that name the statuses at C in other orders, and a cancellation);
  PostgreSQL ends it and stock stays right.
- *Shipments lock lot by lot.* `resolveSources` (`shipment-posting.ts:383-392`) orders the rows
  of one lot at a time and takes the lots in the order of the request, so that two shipments
  can deadlock over rows that exist, against lines 355-357. As a program of
  `InventoryPosting` it is not ordered (`LocksFirst`). The registration of an expedited
  shipment, which posts a receipt and then the shipment, is not either.
- *An accepted outgoing inspection frees a lot that is on hold.* `movePickedOqcLots`
  (`inspection-confirm.service.ts:324`) is meant to write history only (line 311), but its row
  of the table starts from INSPECTION_PENDING too, and unlike the other acceptances (lines
  355-356) it does not count open holds. `Uncounted` keeps the move out of `StatusFitsHolds`.
- *Two runners read one table* when the lease runs out under one (`Stalls = TRUE` in
  `inbound`). The lease is looked at once a batch and not by the transaction that applies a
  row, so that an old version is applied over the new one, against `sync-lease.ts:10`.
- *A cancelled request is posted.* The goods issue reads the status of its request without a
  lock (`issue-followup.ts:139`) and updates it by id; the table lets only a REGISTERED request
  be posted (`transitions.ts:462`). It needs a pick and an issue while the cancellation is
  between its look at the progress and its commit, and happens in `work_order`.
- *A reply batch filled with rejected rows is read again for ever* (`outbound-rows.ts:132`):
  `AnswersArrive` says that a row is answered once fewer than `REPLY_BATCH` older ones are
  without their answer, and a rejected row counts as one until it is applied.
- *`discard` is not limited to the owner of the message* (`outbound-rows.ts:181`), unlike
  `finish`. `NoDuplicateSend` says "unless a lease or lock has run out under a runner".
- *A successor may be created during a cancellation.* `cancel` counts successors under the
  lock of its own row only (`document-cancel-execute.service.ts:93`); a goods receipt made
  out of the inbound receipt after the count survives it.
- *A skip of a process inspection, or an acceptance, can miss what commits beside it*: the
  produced lots are read before they are locked, so a result reported between the two
  keeps its lot waiting until the next call.
- *The skip of an incoming inspection and its confirmation lock in opposite orders*
  (lot then request, request then lot); PostgreSQL aborts one of them.
- *A lost answer of Zalo is retried* (`Lost = TRUE` in `zalo`): the second sending is what
  the comment at `zalo-delivery.runner.ts:44-45` wants to avoid for crashes.
- *After a crash between commit and ack the rows are applied again*, so for a while an old
  version may stand where a newer one was (`inbound-cycle.ts:50-51` says it does no harm);
  `FlagsAreTrue` says how it ends.
- *A release without production warehouses makes a request that nobody settles*: it has no
  source warehouse, and `settleWorkOrderRequests` leaves such requests alone by FR-009a
  (`request-lifecycle.ts:200-210`). It stays REGISTERED after the order has ended.
  `RequestsSettled` is about requests with a source warehouse.
- *A manual issue request can appear after its order has ended*:
  `material-issue-request.service.ts:205` checks the status before the transaction and
  nothing locks the order. `RequestsSettled` is therefore about the requests of the release.
- *Picking looks at its line only* (`picking-pick.service.ts:75`): a line of a picking order
  that `closePickings` has cancelled can still be picked, and stock picked between
  `requestProgress` and `closePickings` is taken of a request that is then cancelled or put
  back to WAITING. `due` does not look at `closed_at`, so the runner may release a request
  that was closed while it was WAITING.

## 4. Bounds

Constants are model values or small sets; no run cuts off behaviours by a state
constraint. `MCNext` of `MCZaloDelivery` bounds one action (`TokenAlone`).

- `Idempotency`: 4 arrivals - a request, its resend, a third that reuses the key with
  other content, one with a key of its own - on 2 connections. Two connections are the
  least for which detached work can run at all and the pool can be exhausted.
- `InventoryPosting`: 3 transactions, one item, 4 locations, 2 statuses, quantities 1
  and 2. Two locations have rows, one has none yet, and one refuses stock. Three transactions
  give a pair that collides and a third that creates, frees or takes what they collide on.
  Transactions are symmetric.
- `ErpSend`: 2 runners (old and new process of a switch) and one message, or one runner and
  two messages, each of one row. `MaxFaults = 2` is one stall for the lease and one for the
  lock, or two errors; crashes and shutdowns are not counted. `MaxSeq = 2` is enough for a
  second sending to show; `reserve` waits at the bound. `REPLY_BATCH = 1` makes the row of the
  second message wait for the answer of the first one's; `BATCH_SIZE` is one more than the
  messages, as `AnswersArrive` needs it. Messages of several rows are left to the theorems.
- `Documents`: one document at a time, since operations of different documents share
  nothing but the routes; two calls, two approvers, routes of at most two steps, two
  contents (so that an edit shows), two requests per document (so that a second one shows).
  Calls, approvers and contents are symmetric.
- `LotQuality`: a behaviour is about one group of lots (`Worlds`), with as many calls as fit:
  three, so that a third call meets what two concurrent ones have left. Quantities are 1 and
  2 of 2, so that a partial release, a partial decision and the exact rest all occur.
- `ZaloDelivery`: the initial states choose between two runners and one delivery, one runner
  and two, and two runners without deliveries; `MAX_ATTEMPTS = 2`. With deliveries there is one
  refresh token to come, and nothing but the refresh token is replaced; without, there are two,
  so that a renewal, a replacement and another renewal meet in one behaviour, and app and
  secret key are replaced as well. Both together are left to the theorem `LiveKeysStand`.
- `ErpInbound`: four rows, one key with two versions and one unit of two keys, so that a
  batch of 2 ends between versions and inside a unit; `MAX_ATTEMPTS = 2` with two faults
  reaches quarantine.
- `WorkOrder`: each behaviour is about one phase (`Worlds`): planning, making, working, crews,
  supplying, with the calls of that phase and up to 3, 4 or 5 of them, at most two at a
  time. Quantities and lot sizes of 1 and 2 give one slot, two slots and a rest, and under,
  exact and over; `MAX_OPEN_WORKERS` is scaled to 2 with three workers. The clients are
  symmetric.

## 5. Fairness

- `Idempotency`: weak fairness of each request's statements (event loop, database), of the
  transaction timeout and of the pool timeout, which are timers of Prisma. Crashes
  are not forced.
- `ErpSend`: weak fairness of each runner's tick (`schedule` starts the next one after
  every tick, and errors are caught in it), of lock ageing, backoff and expiry of a lease
  whose owner is gone: the clock. Stalls, faults, crashes, users and the ERP are never
  forced. Faults are bounded in number, so liveness is claimed once faults have stopped.
- `ZaloDelivery`, `ErpInbound`: weak fairness of each runner's tick, for the same reason, and
  of the clock: leases and claims run out, deliveries expire. Users, Zalo's better answers
  and backoffs are not forced; expiry is what ends a delivery that is refused for ever.
- `InventoryPosting`, `Approval`, `Documents`, `LotQuality`, `WorkOrder` state safety only: nobody
  has to call, and every call may be rolled back.

## 6. Proofs

TLAPS checks these for every value of the constants that satisfies the named
assumptions.

**`IdempotencyProofs`** (from `IdempotencyAssumption`): `TypeCorrect`,
`JoinedWorkAtMostOnce`, `JoinedRecordMatchesWork`, `ReplaysAreTruthful`,
`InProgressIsInvisible`, and the refinement `JoinedImplementsOnce`: `Spec => ImplementsOnce`
when the work is joined.

`AtMostOnce` is not inductive: it says nothing about requests on their way. `IInv` adds
how the record, the open transactions and the program counters go together: an
uncommitted record belongs to the one open transaction that wrote it; a committed one is
COMPLETED and its request is applied; a request past its INSERT with an open transaction
owns the record of its key; and, for joined work, whoever is applied is recorded, so a
second request of the key cannot pass its INSERT. For the refinement, the commit of a joined
request is the step `Perform` and its answer `Confirm`, or `Fail` if the acknowledgement is
lost; the two looks at the record are `Repeat`, a rejection is `Reject`, other errors are `Fail`,
a crash is `Lose` of the requests under way, and everything else is a stutter. A request that
fails or is lost after its commit has its effect; `JoinedRecordMatchesWork` says that the resend
then finds the record, and that without an effect there is none in its way.

**`InventoryPostingProofs`** (from `InventoryPostingAssumption`, `OpeningAssumption`,
`IdsAssumption` and `RowsAssumption`): `TypeCorrect`, `ReversalsAreAbsorbed`, `LedgerIsBalanced`,
`LockOrderPreventsDeadlock` and `ChecksSpareTheTrigger`: all properties of the run `post`.

`ReversalsAreAbsorbed` is `ReverseNeverCollides` for any number of transactions, postings,
lines and rows. The comment in `reverse()` argues that two reversals meet on the balance
rows. The proof makes it precise, and shows what it rests on:

1. a posting creates and holds every row its lines name (`Written`), so the rows of a
   committed posting exist (`Kept`) and the snapshot of the lock statement contains them;
2. hence a reversal past its locks holds all of them (`Covered`), and one that is written
   and not committed still does (`Holding`);
3. a posting has at least one line and a line at least one end
   (`ck_inventory_transaction_direction`), so there is a row to meet on (`SomeEnd`,
   `Exclusion`);
4. therefore what the reread does not see is not there (`RereadClear`), and nobody can
   write it before the INSERT (`Clear`).

The steps of the other transactions are dealt with once (`StepLeaves`, `OthersKeep`): they
leave alone what a transaction holds and has written. The argument fails for a posting
without lines; the assumption `CallOK` states that callers do not post any.

`LedgerIsBalanced` is `BalanceIsLedger`. Inductive is that a row differs from its saved
version by the effect of the line ends its holder has moved so far (`Balanced`), and by
nothing if nobody holds it (`Untouched`), while the headers of before the run stand
(`Opened`). A commit adds the ends of its lines to the committed ledger and saves the rows
it holds; an abort puts both back. The sums are `SumFunctionOnSet` of the community
modules, a fold by a `CHOOSE`n recursive function. That it adds up is proved first
(`SumStep`, `SumWithout`, `SumUnion`), from the existence and uniqueness of that function.
Induction over finite sets is done on a set of sets instead of a predicate
(`FiniteInduction`, from the well-foundedness of `<` on `Nat`), as the provers cannot
instantiate the library's induction theorems.

`LockOrderPreventsDeadlock` is `DeadlockNeedsNewRow`, without a condition on the programs: where
ordered programs wait for one another in a cycle, one of them waits for a row that was not there
at the start. Ordered (`LocksFirst`) is a single posting or reversal, or a program that begins
with a lock statement or a strict reversal for the places of all that follows; that covers
issues, picking and the two reversals of a shipment's cancellation, and `MCInventoryPosting`
checks that its operations are such (`AllLockFirst`). Other programs may run
beside them. A transaction holds, of the rows that were there, all it will ask for (`Secured`,
`Kept1st`). Who has written a header therefore waits only for new rows (`HasPosted`,
`WriterNeverWaits`), so without them nobody in the cycle waits for a header: all are in a lock
statement. What is still to be locked comes after what is held (`Ordered`), so ids would grow
along the cycle for ever. That new rows do close cycles shows in `post`, where `DeadlockVictim`
happens.

`ChecksSpareTheTrigger` is `TriggerOnlyUnchecked` under `IssuesChecked`: an issue locks the
rows it chooses and checks, right before it posts, the sum of what it takes from each. Rows
are always as the trigger wants them (`Valid`, which an `UPDATE` guarded by `LowerBound`
keeps), and who has checked a sum holds the row and still has what its lines have yet to
take (`Passed`, `Enough`). Per line instead of per row, `Enough` would not survive the first
of two lines on the same row, the case issue-posting.ts:137-138 warns of.

**`ZaloDeliveryProofs`** (from `ZaloDeliveryAssumption`): `TypeCorrect`,
`MessagesGoOutOnce` (`NeverTwice` when no answer gets lost), `SentMeansSent`,
`LiveKeysStand` (whatever is replaced: app, secret key or refresh token), for any number of runners, deliveries, faults and tokens. The inductive
invariant says who may still send a delivery: a runner has it in hand, claimed or current
(`Shape`, `Holding`), no two runners have the same one, and whatever is PENDING or in the
hands of a runner that has not sent it has not reached its phone (`Rows`). It is needed
because `finish` writes by id alone: that it is harmless rests on orphans becoming FAILED
and never PENDING, so that a late runner is still the only one who has the delivery.
`Spent` says that a refresh token a runner has used up is dead, which makes `save` safe, and that
one it has been refused for is among the refused. It does not say that a refused token is dead:
with a wrong secret key it need not be, which is why `GoodCredentialsStand` fails.

**`DocumentsProofs`** (from `ApprovalAssumption` and `DocumentsAssumption`): `SpecTypeOK`,
`SpecOneOpenRequest`, `SpecDecisionsAddUp`, `SpecPostedAsApproved`, `SpecMarksOnce`,
`SpecUndoneAfterApproval`, `SpecConfirmedNotInCancel`, which are all invariants of the run
`documents`, for any number of documents of the seven kinds, calls, approvers, steps and
requests. None of them is inductive alone. `IInv` adds two things. A decision locks
nothing; `Sessions` says what an approver knows while the version it read is still that
of the request: the request is open and the step it decides is the next one. A call on a
document locks the row of the document only, while the questions it asks are about other
tables; `Standing` says which of the answers cannot change before it writes, because
requests for a document are made by the holder of its row (`Locked`) and a closed request
never opens again. The answer about successors is not among them: nothing holds it, and no
property rests on it. `Lifecycle` ties the status of a document to its marks and requests.

**`ErpInboundProofs`** (from `ErpInboundAssumption`): `SpecTypeOK`, `SpecInOrder`,
`SpecAckedIsApplied`, and, without stalls, `SpecFlagsAreTrue`, for any number of runners,
keys, versions and units and any batch size. A run of the table knows its cursor, its batch,
the keys it has blocked and what it has applied, and others flag rows meanwhile. `NoGap`
says what holds nevertheless: every version of a key up to the cursor, or up to a row of
the batch, is done with, in the batch, or of a blocked key. It needs the order of the query
(unit, key, version) and `Parted`: a key is in one unit of a batch. Nothing in `IInv`
mentions the lease, so versions are applied in order even when two runners are at work.
That the MES keeps the last version does need the lease: `LInv` adds that one runner
is in its tick (`Alone`), that its batch is not flagged by others (`Fresh`), and that the
MES has the last version of what is done (`Latest`).

**`LotQualityProofs`** (from `LotQualityAssumption`): `SpecTypeOK`, `SpecStatusFitsHolds`,
`SpecOneOpenNonconformance`, `SpecDecidedWithinAffected`, and the action property
`SpecIqcSkipsOnlyOpen`, for any number of calls at once, lots, holds and nonconformances.
`SpecStatusFitsHolds` exempts what makes a lot NORMAL without counting its holds (`Uncounted`):
dispositions, concessions, and the acceptance or skip of an outgoing inspection. The last is
an observation of section 3; the theorem is about the moves that count.
`IInv` says of every call under way which locks it has (`Held`: what it has passed in
`Plan` is still locked, and the holds of its lots are those it read) and which of its
gates would be passed again (`Stands`). Each commit is then looked at by itself: it changes
only lots, holds and incoming inspections whose lot it has locked (`Effect`), and only the
latest nonconformance of a lot, under its lock or by a conditional update (`NcEffect`).
`requestDisposition` locks nothing beforehand; for it `Stands` says that while the version
it read is that of the row, the row is still NOT_REQUESTED. The proof shows that a skip of
an incoming inspection is safe although the confirmation locks the request first and the
lot second, and the skip the other way round: who completes the request of a lot has
the lot locked as well. That the open holds of a lot fit its stock is a second invariant on
top of `IInv` (`Roomy`): what a call has summed up under the lock still leaves room for its
hold when it commits (`Room`, `RoomKeeps`), and whatever closes or splits holds does not raise
the sum (`ShrunkQty`: at most one hold takes the place of a larger one).

**`WorkOrderProofs`** (from `WorkOrderAssumption`): `SpecSessionsFit`, `SpecRequestsSettled`,
`SpecSlotsFit`, `SpecSlotsAsPlanned` and the action property `SpecJudgedAsCounted`: all
properties of the run `work_order`, for any number of clients, workers and requests. At most
one call holds the row of the order (`OneHolder`), so what it checked under the lock stands
until it writes (`StandingOf`). Requests have locks of their own: what the end of an order has
not locked was not open and does not open again (`Settling`), which is why the release runner,
edits, picking and issues cannot leave an open request with a source warehouse behind
(`SpecRequestsSettled`; of requests without one nothing is claimed). `SlotsAsPlanned` rests on the
If-Match of the release: the plan is computed before the transaction, from a quantity that
only a call with another version can have changed; that a plan adds up to its quantity is
arithmetic on its last slot. `JudgedAsCounted` compares two ways to count. Closing sums the
results nobody corrects (`Leaves`); the property sums the reported events, each with its
latest correction, whose event (`Origin`) a recursion finds. `Corrections` says that
corrections form chains: what a result corrects came before it and no other corrects the same
one, because `assertNotCorrected` runs under the lock of the order (no unique index does it).
On chains every result has one event (`OriginExists`, `OriginIsEvent`), the latest result of
an event is the one not corrected (`LatestIsLeaf`), and so the two sums have the same terms
(`SumBijection`, `CountedOnce`).

`InventoryPostingProofs`, `WorkOrderProofs` and `LotQualityProofs` prove the same few facts about
sums over finite sets, each about the fold its model uses and each complete in itself.

**`ErpSendProofs`** (from `ErpSendAssumption`): `SpecInProgressIsSent`, `SpecNoDuplicateSend`,
`SpecDoneMeansApplied` and the action property
`SpecDoneIsFinal`, for any number of runners, messages and rows and any bounds, with crashes,
shutdowns, failing statements and retries; `InProgressIsSent` and `DoneIsFinal` with stalls
as well. The argument rests on `Sent`: all rows of a message are recorded and in
the relay. It is stable, because `discard` and `reserve` act only on rows that are RESERVED
or not there, and because the rows of a reservation go to the relay in one transaction
(`RelayFits`). `Mem` says what a runner has in memory at each step of its tick: what it marks
has been inserted, what it rewrites or settles is `Sent`. This much needs no lock, which is
why a runner that outlived its lease cannot put a message in progress that was not sent.
That all relay rows have one `IF_SEQ` does need the locks: without stalls (`Exclusive`)
whatever a runner has in hand is locked by it and not stale, the rows it sends are those of
the table (`OwnRows`), and what it discards never reached the relay. `AInv` adds what makes
DONE true: the rows say APPLIED only of what the relay has applied (`Truthful`, `Told`), what
is applied stays applied, and who finishes a message without rows has it locked from the look
at the table on (`Rowless`).

The inductive invariants were developed with TLC, as invariants of the instances of the runs
(with stalls, too, for `ErpInbound` and `ErpSend`).

Every safety invariant and every action property that a passing run checks
is also a theorem. **Only model-checked** is liveness: `EveryRequestEnds`, `QueueDrains`,
`AnswersArrive`, `EveryDeliveryEnds` and `EveryRowArrives`.

## 7. Plan

What is left, in this order.

1. Reservation rows and `releaseReservation` in `InventoryPosting`; shipment picking and
   cancellation over them.
2. The lease as a module of its own for `ErpSend`, `ErpInbound` and `ZaloDelivery`.
3. Consumption and return of material, replenishment, the last administrator, counts,
   handling units.

## 8. Not modelled

Master data, queries, rendering and files, permissions tables, validation and paging:
single statements or pure functions without a protocol. The ERP builders are queries with
three outcomes, which `ErpSend` takes as given. `core/numbering` is one upsert per
number; what matters of it here, the second connection, is part of `Idempotency`. Document flows of
`planning`, `maintenance` and the rest of `production` are single guarded updates under a row
lock and come last in the plan. The components of `PROJECT.json` give the reason for each part.
