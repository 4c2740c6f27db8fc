------------------------------ MODULE ErpSend ------------------------------
(***************************************************************************)
(* Sending to the ERP (src/integration/erp): the outbox message, the rows  *)
(* reserved for it in erp_outbound_row, the rows of the relay database,    *)
(* and the runners of the api processes that move one into the other and   *)
(* read the answers of the ERP.                                            *)
(*                                                                         *)
(* A runner is one process: SyncLease.owner is drawn when it starts, so a  *)
(* process that ended never comes back under the same name.  Every awaited *)
(* statement of a tick is one action.  Time is not a number: a lease, the  *)
(* age of a lock and the backoff of a message each either have or have not *)
(* run out, and run out on their own.                                      *)
(*                                                                         *)
(* The rows of a message share one document of their own and one IF_SEQ    *)
(* (RcvTable.ifSeq = perSend); cancelling rows (CREATE_TYPE C) are left    *)
(* out.  The relay database and the ERP are external.                      *)
(***************************************************************************)
EXTENDS Naturals, Sequences, FiniteSets

CONSTANTS
  Runners, NoRunner,
  Messages, NoMessage,
  Lines,             \* the rows a message is turned into: 1 .. n
  BATCH_SIZE,        \* messages claimed at once
  REPLY_BATCH,       \* rows whose answers are read in a tick
  Mortal,            \* runners that may crash or be shut down
  UserRetries,       \* somebody retries failed messages
  Faults,            \* faults that may happen: relay, mes, stall
  MaxFaults,         \* bound: how many of them
  MaxSeq             \* bound: IF_SEQ of a document

ASSUME ErpSendAssumption ==
  /\ NoRunner \notin Runners /\ NoMessage \notin Messages
  /\ Mortal \subseteq Runners
  /\ IsFiniteSet(Runners) /\ IsFiniteSet(Messages)
  /\ Lines \subseteq Nat \ {0} /\ IsFiniteSet(Lines) /\ Lines # {}
  /\ BATCH_SIZE \in Nat \ {0} /\ REPLY_BATCH \in Nat \ {0} /\ MaxSeq \in Nat \ {0}
  /\ MaxFaults \in Nat /\ UserRetries \in BOOLEAN
  /\ Faults \subseteq {"relay", "mes", "stall"}

(* OUTBOUND_ROW_STATUS; NONE: there is no such row.                        *)
RowStatus   == {"NONE", "RESERVED", "INSERTED", "APPLIED", "REJECTED"}
(* MESSAGE_STATUS; NONE: not enqueued yet.                                 *)
MsgStatus   == {"NONE", "PENDING", "PROCESSING", "FAILED", "DONE"}
(* A relay row: not there; waiting for the ERP; ERP_APPLY_ERROR written,   *)
(* with the flag still at its initial value; flag Y.                       *)
RelayStatus == {"absent", "new", "error", "applied"}

(* The ids of a message's rows, one for all rows of a reservation.  There  *)
(* are enough of them for the table and the memory of every runner.        *)
Ids  == 0 .. Cardinality(Runners) + 1
Seqs == 1 .. MaxSeq

Reservation == [id : Ids, seq : 0 .. MaxSeq, status : [Lines -> RowStatus]]
NoRows      == [id |-> 0, seq |-> 0, status |-> [i \in Lines |-> "NONE"]]
Steps == {"idle", "orphans", "claim", "go", "of", "build", "reserve", "insert", "markInserted",
          "discard", "rewrite", "markRewritten", "finish", "release", "goReplies", "waiting",
          "replies", "record", "settle", "down"}

VARIABLES
  msg,        \* integration_message
  rows,       \* erp_outbound_row: the reservation of each message
  born,       \* messages that have rows, oldest rows first
  relay,      \* the relay table: relay[m][seq][line]
  lease,      \* sync_lease 'erp-send': owner and whether it has not expired
  run,        \* the runners: step of the tick and what it holds in memory
  stalled,    \* history: a lease or a lock has run out under a runner
  faults      \* faults so far

vars == <<msg, rows, born, relay, lease, run, stalled, faults>>

NoRun == [pc |-> "idle", stopping |-> FALSE, claimed |-> {}, full |-> FALSE, cur |-> NoMessage,
          own |-> NoRows, last |-> 0, out |-> "NONE", counted |-> {}, seen |-> {}, changed |-> {},
          todo |-> {}]

Down == [NoRun EXCEPT !.pc = "down"]

(* Nothing written yet, or a message of long ago. *)
NoMsg == [status |-> "NONE", lockedBy |-> NoRunner, stale |-> FALSE, due |-> FALSE]
PastMsg == [NoMsg EXCEPT !.status = "DONE"]

Init ==
  /\ msg \in [Messages -> {NoMsg, PastMsg}]
  /\ rows   = [m \in Messages |-> NoRows]
  /\ born   = <<>>
  /\ relay  = [m \in Messages |-> [s \in Seqs |-> [i \in Lines |-> "absent"]]]
  /\ lease  = [owner |-> NoRunner, live |-> FALSE]
  /\ run \in [Runners -> {NoRun, Down}] /\ \A r \in Runners \ Mortal : run[r] = NoRun
  /\ stalled = FALSE /\ faults = 0

TypeOK ==
  /\ msg \in [Messages -> [status : MsgStatus, lockedBy : Runners \cup {NoRunner},
                           stale : BOOLEAN, due : BOOLEAN]]
  /\ rows \in [Messages -> Reservation]
  /\ born \in Seq(Messages)
  /\ relay \in [Messages -> [Seqs -> [Lines -> RelayStatus]]]
  /\ lease \in [owner : Runners \cup {NoRunner}, live : BOOLEAN]
  /\ run \in [Runners -> [pc : Steps, stopping : BOOLEAN, claimed : SUBSET Messages, full : BOOLEAN,
                          cur : Messages \cup {NoMessage}, own : Reservation, last : 0 .. MaxSeq,
                          out : MsgStatus, counted : SUBSET Lines,
                          seen : SUBSET [m : Messages, i : Lines, id : Ids, seq : Seqs, status : RowStatus],
                          changed : SUBSET [m : Messages, i : Lines, id : Ids, status : RowStatus],
                          todo : SUBSET Messages]]
  /\ stalled \in BOOLEAN /\ faults \in 0 .. MaxFaults
-----------------------------------------------------------------------------
(* Helpers. *)

At(r, step) == run[r].pc = step
Goto(r, step) == run' = [run EXCEPT ![r].pc = step]

(* The tick is over: what it held in memory is gone. *)
EndTick(r) == run' = [run EXCEPT ![r] = [NoRun EXCEPT !.stopping = run[r].stopping]]

Fault(kind) == kind \in Faults /\ faults < MaxFaults /\ faults' = faults + 1

Present(res) == {i \in Lines : res.status[i] # "NONE"}
WithStatus(res, s) == {i \in Lines : res.status[i] = s}

(* The message is left to the runner's finish(). *)
FinishAs(r, status) == run' = [run EXCEPT ![r].pc = "finish", ![r].out = status]

(* The relay database is out of reach (relayUnreachable). *)
PostponeAsRefused(r) == Goto(r, "discard") /\ Fault("relay")
postpone(r) == FinishAs(r, "PENDING") /\ Fault("relay")

(* send() with the rows it goes by. *)
SendRows(r, res) ==
  run' = [run EXCEPT ![r].own = res,
                     ![r].out = "PROCESSING",
                     ![r].pc = IF WithStatus(res, "REJECTED") # {} THEN "rewrite"
                               ELSE IF WithStatus(res, "RESERVED") # {} THEN "insert"
                               ELSE "finish"]

(* Rows are updated by id: an update of rows that are gone throws. *)
Updatable(m, id, lines) == lines = {} \/ (rows[m].id = id /\ lines \subseteq Present(rows[m]))
SetRows(m, lines, s) ==
  rows' = [rows EXCEPT ![m].status = [i \in Lines |-> IF i \in lines THEN s ELSE @[i]]]
-----------------------------------------------------------------------------
(* The lease. *)

MayAcquire(r) == lease.owner \in {NoRunner, r} \/ ~lease.live

(* tick: acquire() answers false, and the tick is over, while somebody else *)
(* holds the lease.                                                         *)
acquire(r) ==
  /\ At(r, "idle") /\ ~run[r].stopping /\ MayAcquire(r)
  /\ lease' = [owner |-> r, live |-> TRUE]
  /\ Goto(r, "orphans")
  /\ UNCHANGED <<msg, rows, born, relay, faults, stalled>>

ReleaseNoOrphans(r) == At(r, "orphans") /\ Goto(r, "claim") /\ UNCHANGED <<msg, rows, born, relay, lease, faults, stalled>>

releaseOrphans(r) ==
  /\ At(r, "orphans")
  /\ msg' = [m \in Messages |->
               IF msg[m].status = "PROCESSING" /\ msg[m].lockedBy # NoRunner /\ msg[m].stale
               THEN [msg[m] EXCEPT !.status = "PENDING", !.lockedBy = NoRunner, !.stale = FALSE]
               ELSE msg[m]]
  /\ Goto(r, "claim")
  /\ UNCHANGED <<rows, born, relay, lease, faults, stalled>>

(* keepGoing before a message (of those in claimed) and before the replies.*)
(* Within 30 seconds of an extension it does not ask; the lease then has   *)
(* more than 90 seconds to go.                                             *)
keepGoing(r) ==
  /\ ~run[r].stopping /\ MayAcquire(r)
  /\ lease' = [owner |-> r, live |-> TRUE]
  /\ \/ /\ At(r, "go")
        /\ \E m \in run[r].claimed :
             run' = [run EXCEPT ![r].pc = "of", ![r].cur = m, ![r].claimed = @ \ {m}]
     \/ At(r, "goReplies") /\ Goto(r, "waiting")
  /\ UNCHANGED <<msg, rows, born, relay, faults, stalled>>

(* Stopping, LeaseLost, or the MES database did not answer acquire(). *)
keepGoingThrows(r) ==
  /\ \/ (run[r].stopping \/ ~MayAcquire(r)) /\ UNCHANGED faults
     \/ Fault("mes")
  /\ \/ At(r, "go") /\ Goto(r, "release")
     \/ At(r, "goReplies") /\ EndTick(r)
  /\ UNCHANGED <<msg, rows, born, relay, lease, stalled>>
-----------------------------------------------------------------------------
(* Sending one message. *)

Claimable == {m \in Messages : msg[m].status = "PENDING" /\ msg[m].due}

claim(r) ==
  /\ At(r, "claim")
  /\ \E S \in SUBSET Claimable :
       /\ Cardinality(S) = (IF Cardinality(Claimable) < BATCH_SIZE THEN Cardinality(Claimable)
                            ELSE BATCH_SIZE)
       /\ msg' = [m \in Messages |->
                    IF m \in S THEN [msg[m] EXCEPT !.status = "PROCESSING", !.lockedBy = r, !.stale = FALSE]
                    ELSE msg[m]]
       /\ run' = [run EXCEPT ![r].claimed = S,
                             ![r].full = Cardinality(S) = BATCH_SIZE,
                             ![r].pc = IF S = {} THEN "goReplies" ELSE "go"]
  /\ UNCHANGED <<rows, born, relay, lease, faults, stalled>>

(* OutboundRows.of: rows written by an earlier attempt are sent as they are.*)
of(r) ==
  /\ At(r, "of")
  /\ LET res == rows[run[r].cur]
     IN IF Present(res) # {} THEN SendRows(r, res) ELSE Goto(r, "build")
  /\ UNCHANGED <<msg, rows, born, relay, lease, faults, stalled>>

(* SELECT MAX(IF_SEQ), or 0 when there is no row. *)
SeqsOf(m) == {s \in Seqs : \E i \in Lines : relay[m][s][i] # "absent"}
LastIfSeq(m, last) == last \in SeqsOf(m) \cup {0} /\ \A s \in SeqsOf(m) : s <= last

(* The builder gives rows, none, or an error; the last IF_SEQ in the relay *)
(* table is read for rows.                                                 *)
build(r) ==
  /\ At(r, "build")
  /\ \/ FinishAs(r, "FAILED") /\ UNCHANGED faults
     \/ FinishAs(r, "DONE") /\ UNCHANGED faults
     \/ /\ \E last \in 0 .. MaxSeq :
             /\ LastIfSeq(run[r].cur, last)
             /\ run' = [run EXCEPT ![r].last = last, ![r].pc = "reserve"]
        /\ UNCHANGED faults
     \/ postpone(r)
  /\ UNCHANGED <<msg, rows, born, relay, lease, stalled>>

FreshId(m) == CHOOSE g \in Ids \ {0} : rows[m].id # g /\ \A r \in Runners : run[r].own.id # g \/ run[r].cur # m

Reserved(r, m) == [id |-> FreshId(m), seq |-> run[r].last + 1, status |-> [i \in Lines |-> "RESERVED"]]

(* OutboundRows.reserve.  Rows that appeared since of() are returned, or,  *)
(* when they were not visible yet, collide on uq_erp_outbound_row_key.     *)
reserve(r) ==
  /\ At(r, "reserve")
  /\ LET m == run[r].cur
     IN \/ /\ Present(rows[m]) # {}
           /\ SendRows(r, rows[m]) \/ FinishAs(r, "FAILED")
           /\ UNCHANGED <<rows, born>>
        \/ /\ Present(rows[m]) = {} /\ run[r].last < MaxSeq
           /\ rows' = [rows EXCEPT ![m] = Reserved(r, m)]
           /\ born' = Append(born, m)
           /\ SendRows(r, Reserved(r, m))
  /\ UNCHANGED <<msg, relay, lease, faults, stalled>>

(* RelayClient.insertRows: one transaction; a key that is there is skipped.*)
InsertOnce(m, seq, lines) ==
  relay' = [relay EXCEPT ![m][seq] = [i \in Lines |-> IF i \in lines /\ @[i] = "absent" THEN "new" ELSE @[i]]]

insertRows(r) ==
  /\ At(r, "insert")
  /\ LET m == run[r].cur  seq == run[r].own.seq  waiting == WithStatus(run[r].own, "RESERVED")
     IN \/ InsertOnce(m, seq, waiting) /\ Goto(r, "markInserted") /\ UNCHANGED faults
        \* the relay database refuses a row
        \/ /\ \E i \in waiting : relay[m][seq][i] = "absent"
           /\ Goto(r, "discard") /\ UNCHANGED <<relay, faults>>
        \* out of reach before, or after, the commit
        \/ /\ UNCHANGED relay \/ InsertOnce(m, seq, waiting)
           /\ postpone(r)
  /\ UNCHANGED <<msg, rows, born, lease, stalled>>

markInserted(r) ==
  /\ At(r, "markInserted")
  /\ LET m == run[r].cur  waiting == WithStatus(run[r].own, "RESERVED")
     IN IF Updatable(m, run[r].own.id, waiting)
        THEN SetRows(m, waiting, "INSERTED") /\ FinishAs(r, "PROCESSING")
        ELSE EndTick(r) /\ UNCHANGED rows
  /\ UNCHANGED <<msg, born, relay, lease, faults, stalled>>

discard(r) ==
  /\ At(r, "discard")
  /\ LET m == run[r].cur  left == Present(rows[m]) \ WithStatus(rows[m], "RESERVED")
     IN IF left = {}
        THEN /\ rows' = [rows EXCEPT ![m] = NoRows]
             /\ born' = SelectSeq(born, LAMBDA x : x # m)
        ELSE /\ SetRows(m, WithStatus(rows[m], "RESERVED"), "NONE")
             /\ UNCHANGED born
  /\ FinishAs(r, "FAILED")
  /\ UNCHANGED <<msg, relay, lease, faults, stalled>>

(* rewrite: the rows the ERP refused get new values in place, unless the   *)
(* ERP has taken them since.                                               *)
Untouched(m, seq, lines) == {i \in lines : relay[m][seq][i] \in {"new", "error"}}
UpdateUntouched(m, seq, lines) ==
  relay' = [relay EXCEPT ![m][seq] = [i \in Lines |-> IF i \in Untouched(m, seq, lines) THEN "new" ELSE @[i]]]

rewrite(r) ==
  /\ At(r, "rewrite")
  /\ LET m == run[r].cur  seq == run[r].own.seq  rejected == WithStatus(run[r].own, "REJECTED")
     IN \/ /\ UpdateUntouched(m, seq, rejected) /\ UNCHANGED faults
           /\ run' = [run EXCEPT ![r].counted = Untouched(m, seq, rejected), ![r].pc = "markRewritten"]
        \* the builder gives an error or other rows, or the relay database refuses them
        \/ FinishAs(r, "FAILED") /\ UNCHANGED <<relay, faults>>
        \/ /\ UNCHANGED relay \/ UpdateUntouched(m, seq, rejected)
           /\ postpone(r)
  /\ UNCHANGED <<msg, rows, born, lease, stalled>>

markRewritten(r) ==
  /\ At(r, "markRewritten")
  /\ LET m == run[r].cur
     IN IF Updatable(m, run[r].own.id, run[r].counted)
        THEN SetRows(m, run[r].counted, "INSERTED") /\ FinishAs(r, "PROCESSING")
        ELSE EndTick(r) /\ UNCHANGED rows
  /\ UNCHANGED <<msg, born, relay, lease, faults, stalled>>

(* A message that went to somebody else meanwhile is left alone. *)
MayFinishAnyway(r, m) == TRUE
MayFinish(r, m) == msg[m].lockedBy = r

(* finish, fail and postpone; then the next message, or the next batch.    *)
(* After postpone the rest of the batch is released and the tick is over.  *)
finish(r) ==
  /\ At(r, "finish")
  /\ LET m == run[r].cur  out == run[r].out
         next == IF out = "PENDING" THEN "release"
                 ELSE IF run[r].claimed # {} THEN "go"
                 ELSE IF run[r].full THEN "claim" ELSE "goReplies"
     IN /\ msg' = IF MayFinish(r, m)
                  THEN [msg EXCEPT ![m] = [status |-> out, lockedBy |-> NoRunner, stale |-> FALSE,
                                           due |-> out # "PENDING"]]
                  ELSE msg
        /\ run' = [run EXCEPT ![r] = [NoRun EXCEPT !.stopping = run[r].stopping, !.full = run[r].full,
                                                   !.claimed = run[r].claimed, !.pc = next]]
  /\ UNCHANGED <<rows, born, relay, lease, faults, stalled>>

ReleaseKeepingStatus(r) ==
  /\ At(r, "release")
  /\ msg' = [m \in Messages |-> IF m \in run[r].claimed /\ MayFinish(r, m)
                               THEN [msg[m] EXCEPT !.lockedBy = NoRunner, !.stale = FALSE] ELSE msg[m]]
  /\ EndTick(r)
  /\ UNCHANGED <<rows, born, relay, lease, faults, stalled>>

release(r) ==
  /\ At(r, "release")
  /\ msg' = [m \in Messages |->
               IF m \in run[r].claimed /\ MayFinish(r, m)
               THEN [msg[m] EXCEPT !.status = "PENDING", !.lockedBy = NoRunner, !.stale = FALSE]
               ELSE msg[m]]
  /\ EndTick(r)
  /\ UNCHANGED <<rows, born, relay, lease, faults, stalled>>
-----------------------------------------------------------------------------
(* Reading the answers of the ERP (OutboundReplies). *)

(* Rows that wait for an answer, and their order of age. *)
RowsWith(S) ==
  UNION {{[m |-> m, i |-> i, id |-> rows[m].id, seq |-> rows[m].seq, status |-> rows[m].status[i]] :
            i \in {j \in Lines : rows[m].status[j] \in S}} : m \in Messages}
InsertedRows == RowsWith({"INSERTED"})
WaitingRows  == RowsWith({"INSERTED", "REJECTED"})
BornAt(m) == CHOOSE n \in 1 .. Len(born) : born[n] = m
Older(w, v) == BornAt(w.m) < BornAt(v.m) \/ (w.m = v.m /\ w.i < v.i)

waiting(r) ==
  /\ At(r, "waiting")
  /\ run' = [run EXCEPT ![r].pc = "replies",
                        ![r].seen = {w \in WaitingRows : Cardinality({v \in WaitingRows : Older(v, w)}) < REPLY_BATCH}]
  /\ UNCHANGED <<msg, rows, born, relay, lease, faults, stalled>>

(* What the relay row says of a row; a row that is gone says nothing. *)
Answer(w) == CASE relay[w.m][w.seq][w.i] = "applied" -> "APPLIED"
               [] relay[w.m][w.seq][w.i] = "error"   -> "REJECTED"
               [] relay[w.m][w.seq][w.i] = "new"     -> "INSERTED"
               [] OTHER -> w.status

replies(r) ==
  /\ At(r, "replies")
  /\ LET changed == {w \in run[r].seen : Answer(w) # w.status}
     IN \/ /\ IF changed = {} THEN EndTick(r)
              ELSE run' = [run EXCEPT ![r].pc = "record", ![r].seen = {},
                             ![r].changed = {[m |-> w.m, i |-> w.i, id |-> w.id, status |-> Answer(w)] : w \in changed}]
           /\ UNCHANGED faults
        \/ EndTick(r) /\ Fault("relay")
  /\ UNCHANGED <<msg, rows, born, relay, lease, stalled>>

recordReplies(r) ==
  /\ At(r, "record")
  /\ LET changed == run[r].changed
     IN IF \A c \in changed : Updatable(c.m, c.id, {c.i})
        THEN /\ rows' = [m \in Messages |-> [rows[m] EXCEPT !.status = [i \in Lines |->
                           LET c == {x \in changed : x.m = m /\ x.i = i}
                           IN IF c = {} THEN @[i] ELSE (CHOOSE x \in c : TRUE).status]]]
             /\ run' = [run EXCEPT ![r].pc = "settle", ![r].changed = {},
                                   ![r].todo = {c.m : c \in changed}]
        ELSE EndTick(r) /\ UNCHANGED rows
  /\ UNCHANGED <<msg, born, relay, lease, faults, stalled>>

(* Mutant: a message without a refused row is done. *)
SettledUnlessRejected(m) ==
  LET refused == WithStatus(rows[m], "REJECTED") # {}  status == msg[m].status
  IN IF refused THEN IF status = "PROCESSING" THEN "FAILED" ELSE status
     ELSE IF status \in {"PROCESSING", "FAILED"} THEN "DONE" ELSE status

(* settle: the message follows its rows, unless somebody holds it or it is  *)
(* waiting to be sent.                                                      *)
Settled(m) ==
  LET there == Present(rows[m])  status == msg[m].status
  IN IF \A i \in there : rows[m].status[i] = "APPLIED"
     THEN IF status \in {"PROCESSING", "FAILED"} THEN "DONE" ELSE status
     ELSE IF \E i \in there : rows[m].status[i] = "REJECTED"
     THEN IF status = "PROCESSING" THEN "FAILED" ELSE status
     ELSE IF status = "FAILED" THEN "PROCESSING" ELSE status

settle(r) ==
  /\ At(r, "settle")
  /\ \E m \in run[r].todo :
       /\ msg' = IF msg[m].lockedBy = NoRunner THEN [msg EXCEPT ![m].status = Settled(m)] ELSE msg
       /\ IF run[r].todo = {m} THEN EndTick(r) ELSE run' = [run EXCEPT ![r].todo = @ \ {m}]
  /\ UNCHANGED <<rows, born, relay, lease, faults, stalled>>
-----------------------------------------------------------------------------
(* Ends of a process, and failing statements. *)

(* onApplicationShutdown: the tick is left to end, then the lease goes. *)
stop(r) ==
  /\ r \in Mortal /\ ~run[r].stopping /\ ~At(r, "down")
  /\ run' = [run EXCEPT ![r].stopping = TRUE]
  /\ UNCHANGED <<msg, rows, born, relay, lease, faults, stalled>>

leave(r) ==
  /\ At(r, "idle") /\ run[r].stopping
  /\ lease' = IF lease.owner = r THEN [owner |-> NoRunner, live |-> FALSE] ELSE lease
  /\ Goto(r, "down")
  /\ UNCHANGED <<msg, rows, born, relay, faults, stalled>>

Crash(r) ==
  /\ r \in Mortal /\ ~At(r, "down")
  /\ run' = [run EXCEPT ![r] = [NoRun EXCEPT !.pc = "down"]]
  /\ UNCHANGED <<msg, rows, born, relay, lease, faults, stalled>>

(* A statement on the MES database fails: send() catches it while it looks *)
(* for the rows of the message, nothing else does.                         *)
statementFails(r) ==
  /\ Fault("mes")
  /\ \/ run[r].pc \in {"of", "build", "reserve"} /\ FinishAs(r, "FAILED")
     \/ run[r].pc \in {"orphans", "claim", "markInserted", "discard", "markRewritten", "finish",
                       "release", "waiting", "record", "settle"} /\ EndTick(r)
  /\ UNCHANGED <<msg, rows, born, relay, lease, stalled>>
-----------------------------------------------------------------------------
(* Time. *)

Holds(r, m) == run[r].cur = m \/ m \in run[r].claimed

Overtakes(alive) ==
  IF alive THEN Fault("stall") /\ stalled' = TRUE ELSE UNCHANGED <<faults, stalled>>

(* 120 seconds since the lease was extended: its owner is gone, or stalled.*)
leaseExpires ==
  /\ lease.live
  /\ Overtakes(~At(lease.owner, "down"))
  /\ lease' = [lease EXCEPT !.live = FALSE]
  /\ UNCHANGED <<msg, rows, born, relay, run>>

(* LOCK_TTL_MS since the message was claimed. *)
lockAges(m) ==
  /\ msg[m].lockedBy # NoRunner /\ ~msg[m].stale
  /\ Overtakes(Holds(msg[m].lockedBy, m))
  /\ msg' = [msg EXCEPT ![m].stale = TRUE]
  /\ UNCHANGED <<rows, born, relay, lease, run>>

(* available_at of a postponed message comes. *)
backoffEnds(m) ==
  /\ msg[m].status = "PENDING" /\ ~msg[m].due
  /\ msg' = [msg EXCEPT ![m].due = TRUE]
  /\ UNCHANGED <<rows, born, relay, lease, run, faults, stalled>>
-----------------------------------------------------------------------------
(* The users of the outbox, and the ERP. *)

(* OutboxService.enqueue: once per message_key. *)
enqueue(m) ==
  /\ msg[m].status = "NONE"
  /\ msg' = [msg EXCEPT ![m].status = "PENDING", ![m].due = TRUE]
  /\ UNCHANGED <<rows, born, relay, lease, run, faults, stalled>>

(* IntegrationMessageService.retry and retryBatch. *)
retryBlocked(m) == msg[m].lockedBy # NoRunner \/ msg[m].status # "FAILED"
retry(m) ==
  /\ UserRetries /\ ~retryBlocked(m)
  /\ msg' = [msg EXCEPT ![m].status = "PENDING", ![m].due = TRUE]
  /\ UNCHANGED <<rows, born, relay, lease, run, faults, stalled>>

(* The ERP applies a row or writes an error; it may clear the error again,  *)
(* or apply the row all the same.                                           *)
ErpStep(m, s, i, from, to) ==
  /\ relay[m][s][i] \in from
  /\ relay' = [relay EXCEPT ![m][s][i] = to]
  /\ UNCHANGED <<msg, rows, born, lease, run, faults, stalled>>
erpApplies(m, s, i) == ErpStep(m, s, i, {"new", "error"}, "applied")
erpRejects(m, s, i) == ErpStep(m, s, i, {"new"}, "error")
erpClears(m, s, i)  == ErpStep(m, s, i, {"error"}, "new")
-----------------------------------------------------------------------------
tick(r) ==
  \/ acquire(r) \/ releaseOrphans(r) \/ keepGoing(r) \/ claim(r) \/ of(r) \/ build(r) \/ reserve(r)
  \/ insertRows(r) \/ markInserted(r) \/ discard(r) \/ rewrite(r) \/ markRewritten(r) \/ finish(r)
  \/ release(r) \/ waiting(r) \/ replies(r) \/ recordReplies(r) \/ settle(r) \/ leave(r)
  \/ keepGoingThrows(r)

Next ==
  \/ \E r \in Runners : tick(r) \/ statementFails(r) \/ stop(r) \/ Crash(r)
  \/ \E m \in Messages : lockAges(m) \/ backoffEnds(m) \/ enqueue(m) \/ retry(m)
  \/ \E m \in Messages, s \in Seqs, i \in Lines :
       erpApplies(m, s, i) \/ erpRejects(m, s, i) \/ erpClears(m, s, i)
  \/ leaseExpires

(* A process that is up goes on with its tick and starts the next one      *)
(* (schedule), and time passes.  A stall need not happen, nor any fault.   *)
Fairness ==
  /\ \A r \in Runners : WF_vars(tick(r))
  /\ \A m \in Messages : WF_vars(lockAges(m) /\ UNCHANGED faults) /\ WF_vars(backoffEnds(m))
  /\ WF_vars(leaseExpires /\ UNCHANGED faults)

Spec == Init /\ [][Next]_vars /\ Fairness
-----------------------------------------------------------------------------
(* Properties. *)

(* A document goes to the ERP once: all relay rows of a message come from  *)
(* one reservation, through crashes, retries and answers that got lost     *)
(* (insertRows, reserve), as long as no runner outlives its lease or its   *)
(* locks.  With a second IF_SEQ the ERP would book the document twice.     *)
NoDuplicateSend ==
  ~stalled => \A m \in Messages : Cardinality(SeqsOf(m)) <= 1

(* A message in progress that nobody holds is waiting for the ERP: every   *)
(* row of it is recorded and is in the relay table (finish after           *)
(* markInserted, discard).                                                 *)
InProgressIsSent ==
  \A m \in Messages : msg[m].status = "PROCESSING" /\ msg[m].lockedBy = NoRunner =>
    \A i \in Lines : rows[m].status[i] \in {"INSERTED", "APPLIED", "REJECTED"}
                     /\ relay[m][rows[m].seq][i] # "absent"

(* A message that is done has no row left that the ERP has not applied     *)
(* (settle, and finish for a message without rows); a runner that outlives *)
(* its lease or its locks may have sent rows that nobody knows of.         *)
DoneMeansApplied ==
  ~stalled => \A m \in Messages : msg[m].status = "DONE" =>
    \A s \in Seqs, i \in Lines : relay[m][s][i] \in {"absent", "applied"}

(* Nothing that comes late - a stalled runner's finish, a settle with old  *)
(* rows, a retry - takes a message back once it is done.                   *)
DoneIsFinal ==
  [][\A m \in Messages : msg[m].status = "DONE" => msg'[m].status = "DONE"]_vars

(* A message to be sent is sent, fails or is done: it is not left pending, *)
(* nor locked by a runner that is gone (releaseOrphans, release, postpone).*)
Handled(m) == \/ msg[m].status \in {"FAILED", "DONE"}
              \/ msg[m].status = "PROCESSING" /\ msg[m].lockedBy = NoRunner
QueueDrains == \A m \in Messages : msg[m].status = "PENDING" ~> Handled(m)

(* A row the ERP has applied does not stay unrecorded, once fewer than     *)
(* REPLY_BATCH older rows are without their answer (OutboundReplies.read,  *)
(* OutboundRows.waiting): whatever the row was recorded as before, and     *)
(* also when the runner that read the answer ends before it records it.    *)
(* It needs a BATCH_SIZE above the messages there are: a round that always *)
(* claims a full batch of messages retried by hand never gets to read.     *)
Unanswered(m, i) == rows[m].status[i] \in {"RESERVED", "INSERTED", "REJECTED"}
OlderUnanswered(m, i) ==
  {x \in Messages \X Lines : Unanswered(x[1], x[2]) /\ Older([m |-> x[1], i |-> x[2]], [m |-> m, i |-> i])}
NextToBeRead(m, i) ==
  /\ rows[m].status[i] \in {"INSERTED", "REJECTED"} /\ relay[m][rows[m].seq][i] = "applied"
  /\ Cardinality(OlderUnanswered(m, i)) < REPLY_BATCH
AnswersArrive == \A m \in Messages, i \in Lines : []<>~NextToBeRead(m, i)

(* Once the ERP has applied all rows of a message, the message becomes     *)
(* DONE (OutboundReplies: "when all rows are applied, DONE"; "the next     *)
(* round reconciles").  The code does not keep this: a message that was    *)
(* waiting or held when its last answer was recorded, or whose answers     *)
(* were recorded by a runner that ended before settle, is not settled by   *)
(* any later round, for no row of it is read again.                        *)
AllApplied(m) == Present(rows[m]) = Lines /\ \A i \in Lines : relay[m][rows[m].seq][i] = "applied"
AppliedIsDone == \A m \in Messages : AllApplied(m) ~> msg[m].status = "DONE"
=============================================================================
