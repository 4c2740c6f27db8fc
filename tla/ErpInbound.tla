----------------------------- MODULE ErpInbound -----------------------------
(***************************************************************************)
(* One table of the ERP's relay database read into the MES                 *)
(* (src/integration/erp: ErpSyncRunner, InboundCycle, RelayClient) under   *)
(* the lease 'erp-sync'.                                                   *)
(*                                                                         *)
(* A row is a version of a business key; rows are read in the order of     *)
(* keys and versions, in batches, behind a cursor.  What a row says is     *)
(* its version: to apply it is to put that version into the MES, as every  *)
(* apply of src/integration/erp/apply does, none of which looks at the     *)
(* version the MES has.  A table is read row by row or, as the BOM, in     *)
(* units of several keys.  Every awaited statement is one action; the      *)
(* texts of errors, the state of a table shown to users, the requests to   *)
(* read at once and the work after a commit are left out.                  *)
(***************************************************************************)
EXTENDS Naturals, FiniteSets

CONSTANTS
  Runners, NoRunner,
  Keys,              \* business keys, in their order
  Versions,          \* bound: versions the ERP sends of a key
  UnitOf,            \* the unit of a key, in a table read in units
  BATCH_SIZE, MAX_ATTEMPTS,
  Mortal,            \* runners that may crash or be shut down
  Stalls,            \* whether a lease may expire under a runner in its tick
  MaxFaults          \* bound: rows that fail, statements that fail, processes that end

ASSUME ErpInboundAssumption ==
  /\ NoRunner \notin Runners /\ Mortal \subseteq Runners
  /\ Keys \subseteq Nat /\ IsFiniteSet(Keys)
  /\ UnitOf \in [Keys -> Nat] /\ \A k, l \in Keys : k < l => UnitOf[k] <= UnitOf[l]
  /\ BATCH_SIZE \in Nat \ {0} /\ MAX_ATTEMPTS \in Nat \ {0}
  /\ Versions \in [Keys -> Nat]
  /\ Stalls \in BOOLEAN /\ MaxFaults \in Nat

VARIABLES
  grouped,    \* whether the table is read in units; never changes
  sent,       \* external: versions of a key in the relay database
  acked,      \* rows of the relay database flagged 'Y'
  message,    \* integration_message of a row
  mes,        \* the version of a key in the MES, 0 for none
  lease,      \* sync_lease 'erp-sync'
  run,        \* the runners
  ever,       \* history: rows applied at least once
  faults

vars == <<grouped, sent, acked, message, mes, lease, run, ever, faults>>

Rows == UNION {{k} \X (1 .. Versions[k]) : k \in Keys}
Sent == {row \in Rows : row[2] <= sent[row[1]]}
KeysOf(unit) == {row[1] : row \in unit}
Earlier(a, b) == a[1] < b[1] \/ (a[1] = b[1] /\ a[2] < b[2])
Before == <<0, 0>>   \* a cursor in front of every row

Statuses == {"NONE", "PENDING", "DONE", "FAILED"}
Steps == {"idle", "quarantine", "fetch", "units", "record", "ack", "go", "down"}

NoRun == [pc |-> "idle", stopping |-> FALSE, quarantined |-> {}, blocked |-> {}, after |-> Before,
          full |-> FALSE, units |-> {}, applied |-> {}]

Init ==
  /\ grouped \in BOOLEAN
  /\ sent    = [k \in Keys |-> 0] /\ acked = {}
  /\ message = [row \in Rows |-> [status |-> "NONE", retries |-> 0]]
  /\ mes     = [k \in Keys |-> 0]
  /\ lease   = [owner |-> NoRunner, live |-> FALSE]
  /\ run     = [r \in Runners |-> NoRun]
  /\ ever    = {}
  /\ faults  = 0

TypeOK ==
  /\ grouped \in BOOLEAN
  /\ \A k \in Keys : sent[k] \in 0 .. Versions[k] /\ mes[k] \in 0 .. Versions[k]
  /\ acked \subseteq Sent
  /\ message \in [Rows -> [status : Statuses, retries : 0 .. MAX_ATTEMPTS]]
  /\ DOMAIN sent = Keys /\ DOMAIN mes = Keys
  /\ lease \in [owner : Runners \cup {NoRunner}, live : BOOLEAN]
  /\ \A r \in Runners :
       /\ run[r].pc \in Steps /\ run[r].stopping \in BOOLEAN /\ run[r].full \in BOOLEAN
       /\ run[r].quarantined \subseteq Rows /\ run[r].applied \subseteq Rows /\ run[r].blocked \subseteq Keys
       /\ run[r].after \in Rows \cup {Before}
       /\ run[r].units \subseteq (SUBSET Rows) \ {{}}
  /\ ever \subseteq Rows
  /\ faults \in 0 .. MaxFaults
-----------------------------------------------------------------------------
(* Helpers. *)

At(r, step) == run[r].pc = step
Goto(r, step) == run' = [run EXCEPT ![r].pc = step]
EndTick(r) == run' = [run EXCEPT ![r] = [NoRun EXCEPT !.stopping = run[r].stopping]]
Fault == faults < MaxFaults /\ faults' = faults + 1

(* SyncLease.acquire *)
MayAcquire(r) == lease.owner \in {NoRunner, r} \/ ~lease.live
Extend(r) == lease' = [owner |-> r, live |-> TRUE]

data == <<grouped, sent, acked, message, mes, ever>>
-----------------------------------------------------------------------------
(* A run of the table. *)

acquire(r) ==
  /\ At(r, "idle") /\ ~run[r].stopping /\ MayAcquire(r)
  /\ Extend(r)
  /\ Goto(r, "quarantine")
  /\ UNCHANGED <<data, faults>>

(* Mutant: a user's retry does not let the row out. *)
QuarantinedForGood(row) == message[row].retries >= MAX_ATTEMPTS

(* Rows that have failed MAX_ATTEMPTS times wait for a user's retry. *)
IsQuarantined(row) == message[row].status = "FAILED" /\ message[row].retries >= MAX_ATTEMPTS

quarantined(r) ==
  LET rows == {row \in Rows : IsQuarantined(row)} IN
  /\ At(r, "quarantine")
  /\ run' = [run EXCEPT ![r].pc = "fetch", ![r].quarantined = rows, ![r].blocked = KeysOf(rows)]
  /\ UNCHANGED <<data, lease, faults>>

(* RelayClient.fetchPending: the first rows behind the cursor not yet 'Y' *)
fetchPending(after) ==
  LET pending == {row \in Sent \ acked : Earlier(after, row)}
  IN {row \in pending : Cardinality({other \in pending : Earlier(other, row)}) < BATCH_SIZE}

First(units) == CHOOSE unit \in units : \E row \in unit : \A other \in UNION units : ~Earlier(other, row)
Last(units) == CHOOSE unit \in units : \E row \in unit : \A other \in UNION units : ~Earlier(row, other)
LastRow(units) == CHOOSE row \in UNION units : \A other \in UNION units : ~Earlier(row, other)

(* The last unit of a full batch may go on in the next one and is put off. *)
unitsOf(rows, full) ==
  LET units == {{row \in rows : UnitOf[row[1]] = UnitOf[k]} : k \in KeysOf(rows)}
  IN IF ~grouped THEN {{row} : row \in rows}
     ELSE IF full /\ Cardinality(units) > 1 THEN units \ {Last(units)}
     ELSE units

fetch(r) ==
  LET rows == fetchPending(run[r].after)
      full == Cardinality(rows) = BATCH_SIZE
      units == unitsOf(rows, full)
  IN
  /\ At(r, "fetch")
  /\ IF rows = {} THEN EndTick(r)
     ELSE run' = [run EXCEPT ![r].pc = "units", ![r].full = full, ![r].units = units,
                             ![r].after = LastRow(units), ![r].applied = {}]
  /\ UNCHANGED <<data, lease, faults>>

(* Mutant: only the row that failed waits. *)
HeldAlone(r, unit) == unit \cap run[r].quarantined # {}

Held(r, unit) == unit \cap run[r].quarantined # {} \/ KeysOf(unit) \cap run[r].blocked # {}

Block(r, unit) == run[r].blocked \cup KeysOf(unit)

(* The next unit of the batch. *)
Unit(r) == First(run[r].units)
Units(r) == At(r, "units") /\ run[r].units # {}

hold(r) ==
  /\ Units(r) /\ Held(r, Unit(r))
  /\ run' = [run EXCEPT ![r].blocked = Block(r, Unit(r)), ![r].units = @ \ {Unit(r)}]
  /\ UNCHANGED <<data, lease, faults>>

(* The rows of a unit in their order: of a key the last version stays. *)
Applied(unit) ==
  [k \in Keys |-> IF k \in KeysOf(unit)
                  THEN CHOOSE v \in 1 .. Versions[k] : <<k, v>> \in unit /\ \A w \in v + 1 .. Versions[k] : <<k, w>> \notin unit
                  ELSE mes[k]]

(* One transaction: the unit is applied, and recordDone for each row. *)
apply(r) ==
  LET unit == Unit(r) IN
  /\ Units(r) /\ ~Held(r, unit)
  /\ mes' = Applied(unit)
  /\ message' = [row \in Rows |-> IF row \in unit THEN [message[row] EXCEPT !.status = "DONE"] ELSE message[row]]
  /\ ever' = ever \cup unit
  /\ run' = [run EXCEPT ![r].units = @ \ {unit}, ![r].applied = @ \cup unit]
  /\ UNCHANGED <<grouped, sent, acked, lease, faults>>

applyFails(r) ==
  /\ Units(r) /\ ~Held(r, Unit(r))
  /\ Fault
  /\ run' = [run EXCEPT ![r].pc = "record", ![r].blocked = Block(r, Unit(r))]
  /\ UNCHANGED <<data, lease>>

(* The counter of retries stays at MAX_ATTEMPTS in the model. *)
recordFailure(r) ==
  LET unit == Unit(r)
      Failed(m) == [status |-> "FAILED",
                    retries |-> IF m.retries < MAX_ATTEMPTS THEN m.retries + 1 ELSE MAX_ATTEMPTS]
  IN
  /\ At(r, "record")
  /\ message' = [row \in Rows |-> IF row \in unit THEN Failed(message[row]) ELSE message[row]]
  /\ run' = [run EXCEPT ![r].pc = "units", ![r].units = @ \ {unit}]
  /\ UNCHANGED <<grouped, sent, acked, mes, ever, lease, faults>>

unitsOver(r) ==
  /\ At(r, "units") /\ run[r].units = {}
  /\ Goto(r, "ack")
  /\ UNCHANGED <<data, lease, faults>>

(* Mutant: everything read so far is flagged, up to the cursor. *)
toAckAll(r) == {row \in Rows : ~Earlier(run[r].after, row)}

toAck(r) == run[r].applied

(* RelayClient.ack, and writeError of what has failed *)
ack(r) ==
  /\ At(r, "ack")
  /\ acked' = acked \cup toAck(r)
  /\ Goto(r, "go")
  /\ UNCHANGED <<grouped, sent, message, mes, ever, lease, faults>>

keepGoing(r) ==
  /\ At(r, "go") /\ ~run[r].stopping /\ MayAcquire(r)
  /\ Extend(r)
  /\ IF run[r].full THEN Goto(r, "fetch") ELSE EndTick(r)
  /\ UNCHANGED <<data, faults>>

(* Stopping or LeaseLost *)
keepGoingThrows(r) ==
  /\ At(r, "go") /\ (run[r].stopping \/ ~MayAcquire(r))
  /\ EndTick(r)
  /\ UNCHANGED <<data, lease, faults>>
-----------------------------------------------------------------------------
(* Faults, users, the ERP and time. *)

(* A statement fails, or its answer is lost, and the run with it. *)
statementFails(r) ==
  /\ run[r].pc \in {"quarantine", "fetch", "record", "ack", "go"}
  /\ EndTick(r)
  /\ acked' \in {acked, IF At(r, "ack") THEN acked \cup toAck(r) ELSE acked}
  /\ Fault
  /\ UNCHANGED <<grouped, sent, message, mes, ever, lease>>

crash(r) ==
  /\ r \in Mortal /\ ~At(r, "down")
  /\ run' = [run EXCEPT ![r] = [NoRun EXCEPT !.pc = "down"]]
  /\ Fault
  /\ UNCHANGED <<data, lease>>

stop(r) ==
  /\ r \in Mortal /\ ~run[r].stopping /\ ~At(r, "down")
  /\ run' = [run EXCEPT ![r].stopping = TRUE]
  /\ Fault
  /\ UNCHANGED <<data, lease>>

(* onApplicationShutdown, after the tick in progress *)
leave(r) ==
  /\ At(r, "idle") /\ run[r].stopping
  /\ lease' = IF lease.owner = r THEN [owner |-> NoRunner, live |-> FALSE] ELSE lease
  /\ Goto(r, "down")
  /\ UNCHANGED <<data, faults>>

(* IntegrationMessageService.retry *)
retry(row) ==
  /\ message[row].status = "FAILED"
  /\ message' = [message EXCEPT ![row].status = "PENDING"]
  /\ UNCHANGED <<grouped, sent, acked, mes, ever, lease, run, faults>>

send(k) ==
  /\ sent[k] < Versions[k]
  /\ sent' = [sent EXCEPT ![k] = @ + 1]
  /\ UNCHANGED <<grouped, acked, message, mes, ever, lease, run, faults>>

leaseExpires ==
  /\ lease.live /\ (Stalls \/ run[lease.owner].pc \in {"idle", "down"})
  /\ lease' = [lease EXCEPT !.live = FALSE]
  /\ UNCHANGED <<data, run, faults>>

tick(r) ==
  \/ acquire(r) \/ quarantined(r) \/ fetch(r) \/ hold(r) \/ apply(r) \/ recordFailure(r)
  \/ unitsOver(r) \/ ack(r) \/ keepGoing(r) \/ keepGoingThrows(r) \/ leave(r)

Next ==
  \/ \E r \in Runners : tick(r) \/ applyFails(r) \/ statementFails(r) \/ crash(r) \/ stop(r)
  \/ \E row \in Rows : retry(row)
  \/ \E k \in Keys : send(k)
  \/ leaseExpires

(* A process that is up goes on with its run and starts the next one. *)
Fairness == (\A r \in Runners : WF_vars(tick(r))) /\ WF_vars(leaseExpires)

Spec == Init /\ [][Next]_vars
FairSpec == Spec /\ Fairness
-----------------------------------------------------------------------------
(* No row is lost: a row flagged 'Y' in the ERP's database has been        *)
(* applied (MES first, then the flag: InboundCycle.run).                   *)
AckedIsApplied == acked \subseteq ever

(* A row is not applied before the earlier versions of its key, also when  *)
(* those have failed, wait in quarantine or fell into another batch.       *)
InOrder == \A row \in ever : \A v \in 1 .. row[2] : <<row[1], v>> \in ever

(* While no runner outlives its lease, a key whose rows are all flagged    *)
(* has its last version in the MES: what a crash or an error makes the     *)
(* runners apply again ends with that version.                             *)
AckedIsLatest ==
  \A k \in Keys : (\A v \in 1 .. sent[k] : <<k, v>> \in acked) => mes[k] = sent[k]

(* What the ERP reads off the flags is true: no flagged row was skipped,   *)
(* and a key that is flagged throughout is up to date in the MES.          *)
FlagsAreTrue == AckedIsApplied /\ AckedIsLatest

(* A key that cannot go on: some row of its unit waits for a user's retry. *)
Stuck(k) ==
  \E row \in Rows :
    /\ message[row].status = "FAILED" /\ message[row].retries >= MAX_ATTEMPTS
    /\ (row[1] = k \/ (grouped /\ UnitOf[row[1]] = UnitOf[k]))

(* Every row the ERP sends ends flagged, or behind a row in quarantine,    *)
(* whatever fails on the way, while one process stays up.                  *)
EveryRowArrives ==
  \A row \in Rows : <>[](row \in Sent => row \in acked \/ Stuck(row[1]))

=============================================================================
