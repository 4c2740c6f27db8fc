------------------------------ MODULE LotQuality ------------------------------
(***************************************************************************)
(* The quality axis of a lot (trace.lot.status_code), its holds            *)
(* (trace.lot_hold) and everything that moves them: hold and release,      *)
(* confirmation of incoming, process and outgoing inspections, the three   *)
(* approved skips, production results, nonconformances, dispositions and   *)
(* concessions.  Each request is one READ COMMITTED transaction that locks *)
(* rows in the order its handler locks them, reads under those locks and   *)
(* commits; the row locks are the variable lock.                           *)
(***************************************************************************)
EXTENDS Integers, Sequences, FiniteSets, FiniteSetsExt

CONSTANTS
    Sessions,      \* API calls served at the same time
    InboundLots,   \* received lots, each with an IQC request and its draft result
    SlotLots,      \* lots pre-issued for one work order, which has one PQC request
    PickedLots,    \* lots picked for one shipment request, which has one OQC request
    Worlds,        \* what a behaviour is about: the lots its clients touch, how approvals
                   \* have ended, whether the IQC of inbound lots has been rejected and
                   \* part of the picked lots put on hold before, and how many calls follow
    OnHand,        \* stock of every lot
    Affected       \* affected quantity of a nonconformance

NoSession == "no session"

ASSUME LotQualityAssumption ==
    /\ OnHand \in Nat \ {0}
    /\ Affected \in Nat \ {0}
    /\ NoSession \notin Sessions
    /\ InboundLots \cap SlotLots = {} /\ InboundLots \cap PickedLots = {}
    /\ SlotLots \cap PickedLots = {}
    /\ \A w \in Worlds :
         /\ w.scope \subseteq InboundLots \cup SlotLots \cup PickedLots
         /\ w.approval \in {"PENDING", "APPROVED", "REJECTED"}
         /\ w.rejected \in BOOLEAN /\ w.held \in BOOLEAN /\ w.calls \in Nat

Lots == InboundLots \cup SlotLots \cup PickedLots

(* Rows that are locked besides the lots. *)
IQC(l) == [type |-> "IQC", of |-> {l}]
PQC == [type |-> "PQC", of |-> {}]
OQC == [type |-> "OQC", of |-> {}]
WorkOrder == [type |-> "work_order", of |-> {}]
ShipmentRequest == [type |-> "shipment_request", of |-> {}]
Nonconformance(l) == [type |-> "nonconformance", of |-> {l}]
Concession(l) == [type |-> "concession", of |-> {l}]

Requests == {IQC(l) : l \in InboundLots} \cup {PQC, OQC}
Rows == Requests \cup {WorkOrder, ShipmentRequest}
          \cup {Nonconformance(l) : l \in InboundLots} \cup {Concession(l) : l \in InboundLots}

VARIABLES
    world,       \* one of Worlds; never changes
    lot,         \* trace.lot, with the action of its last lot_status_event
    hold,        \* trace.lot_hold of each lot, in insertion order
    request,     \* quality.inspection_request with its latest inspection_result
    nc,          \* quality.nonconformance of each lot, in insertion order
    concession,  \* quality.concession of each lot
    lock,        \* row locks
    tx,          \* open transactions
    calls        \* calls so far

vars == <<world, lot, hold, request, nc, concession, lock, tx, calls>>

Full == 0                 \* lot_hold.hold_qty IS NULL
InspectionWait == "INCOMING_INSPECTION_WAIT"
Open == {"REQUESTED", "IN_PROGRESS"}
Judgments == {"ACCEPTED", "EXCEEDED", "HELD", "REJECTED"}

(* TRANSITIONS['trace.lot.status_code'] *)
NotScrapped == {"NORMAL", "INSPECTION_PENDING", "DEFECTIVE"}
Judgeable == {"NORMAL", "INSPECTION_PENDING"}
Row(from, to) == [from |-> from, to |-> to]
TRANSITIONS ==
    [accepted    |-> Row(Judgeable, "NORMAL"),
     held        |-> Row(Judgeable, "INSPECTION_PENDING"),
     rejected    |-> Row(Judgeable, "DEFECTIVE"),
     exceeded    |-> Row(Judgeable, "INSPECTION_PENDING"),
     releaseAccepted |-> Row({"INSPECTION_PENDING"}, "NORMAL"),
     releaseRejected |-> Row({"INSPECTION_PENDING"}, "DEFECTIVE"),
     claim       |-> Row({"NORMAL"}, "DEFECTIVE"),
     suspect     |-> Row(Judgeable, "INSPECTION_PENDING"),
     notRequired |-> Row({"INSPECTION_PENDING"}, "NORMAL"),
     iqcSkipped  |-> Row({"INSPECTION_PENDING"}, "NORMAL"),
     pqcSkipped  |-> Row({"INSPECTION_PENDING"}, "NORMAL"),
     oqcSkipped  |-> Row({"NORMAL"}, "NORMAL"),
     pqcSkipApproved |-> Row({"INSPECTION_PENDING"}, "NORMAL"),
     REWORK      |-> Row(NotScrapped, "INSPECTION_PENDING"),
     SCRAP       |-> Row(NotScrapped, "SCRAPPED"),
     NORMAL      |-> Row(NotScrapped, "NORMAL"),
     SORT        |-> Row(NotScrapped, "NORMAL"),
     concession  |-> Row(NotScrapped, "NORMAL")]

-----------------------------------------------------------------------------
(* core/lot: locks, holds and moves. *)

OpenIn(rows) == {i \in DOMAIN rows : rows[i].open}
Hold(reason, qty) == [reason |-> reason, qty |-> qty, open |-> TRUE]

(* SELECT ... FOR UPDATE; later statements of the transaction see what is committed. *)
Take(t, rows) ==
    /\ \A r \in rows : lock[r] \in {t, NoSession}
    /\ lock' = [r \in DOMAIN lock |-> IF r \in rows THEN t ELSE lock[r]]

(* Mutant: the lots are read without FOR UPDATE. *)
readLotsWithin(t, lots) == UNCHANGED lock

lockLotsWithin(t, lots) == Take(t, lots)

Snapshot(lots) == [l \in lots |-> [version |-> lot[l].version, holds |-> hold[l]]]

moveWithin(lots, action) ==
    [l \in Lots |->
        IF l \in lots /\ lot[l].status \in TRANSITIONS[action].from
        THEN [lot[l] EXCEPT !.status = TRANSITIONS[action].to,
                            !.version = @ + 1, !.by = action]
        ELSE lot[l]]

Movable(l, action) == lot[l].status \in TRANSITIONS[action].from

(* The rest of a partial release: NULL when nothing remains. *)
remainderQty(qty, releaseQty) ==
    IF qty = Full \/ releaseQty = Full \/ qty <= releaseQty
    THEN <<>> ELSE <<qty - releaseQty>>

(* The rows after closing the open holds ids of rows, and the recount. *)
releaseWithin(rows, ids, releaseQty) ==
    LET closed == [i \in DOMAIN rows |->
                      IF i \in ids THEN [rows[i] EXCEPT !.open = FALSE] ELSE rows[i]]
        rest(i) == remainderQty(rows[i].qty, releaseQty)
        added == IF Cardinality(ids) # 1 THEN <<>>
                 ELSE LET i == CHOOSE j \in ids : TRUE
                      IN [k \in DOMAIN rest(i) |-> Hold(rows[i].reason, rest(i)[k])]
    IN closed \o added

WaitingIn(rows) == {i \in OpenIn(rows) : rows[i].reason = InspectionWait}

lotsFreeOfOpenHolds(lots, seen) == {l \in lots : OpenIn(seen[l].holds) = {}}

-----------------------------------------------------------------------------
(* Calls and their transactions. *)

(* The order in which each handler locks: heading rows, requests, lots. *)
Plan ==
    [none |-> <<>>,
     holdCreate |-> <<"lots">>,
     holdRelease |-> <<"lots">>,
     confirm |-> <<"requests", "lots">>,
     iqcSkip |-> <<"lots", "requests">>,
     pqcSkip |-> <<"head", "requests", "lots">>,
     oqcSkip |-> <<"head", "requests", "lots">>,
     report |-> <<"head", "lots">>,
     register |-> <<"lots">>,
     requestDisposition |-> <<>>,
     dispose |-> <<"head", "lots", "requests">>,
     concede |-> <<"head">>,
     apply |-> <<"head", "lots">>]

Latest(l) == nc[l][Len(nc[l])]
HasNc(l) == nc[l] # <<>>
Remaining(l) == Affected - Latest(l).decided
isDecided(l) == Latest(l).status = "DECIDED"
noOpenNonconformance(l) == HasNc(l) => isDecided(l)

Of(op) == CHOOSE l \in op.lots : TRUE
RequestOf(op) == [type |-> op.type, of |-> op.lots]

HeadRows(op) ==
    CASE op.kind \in {"pqcSkip", "report"} -> {WorkOrder}
      [] op.kind = "oqcSkip" -> {ShipmentRequest}
      [] op.kind \in {"dispose", "concede"} -> {Nonconformance(Of(op))}
      [] op.kind = "apply" -> {Concession(Of(op)), Nonconformance(Of(op))}

RequestRows(op) ==
    CASE op.kind = "confirm" -> {RequestOf(op)}
      [] op.kind = "iqcSkip" -> {IQC(Of(op))}
      [] op.kind = "pqcSkip" -> {PQC}
      [] op.kind = "oqcSkip" -> {OQC}
      [] op.kind = "dispose" ->
            IF op.type = "REWORK" /\ Latest(Of(op)).fromIqc THEN {IQC(Of(op))} ELSE {}

(* assertHoldCreateShape: a quantity only for a single lot. *)
assertHoldCreateShape(op) == op.qty # Full => Cardinality(op.lots) = 1

Each(lots) == {{l} : l \in world.scope \cap lots}
Once(lots) == {{} : l \in world.scope \cap lots}

Calls ==
    {op \in [kind : {"holdCreate"}, lots : (SUBSET world.scope) \ {{}}, action : {"suspect"},
             reason : {InspectionWait, "OTHER"}, qty : 0 .. OnHand] : assertHoldCreateShape(op)}
    \cup [kind : {"holdCreate"}, lots : (SUBSET world.scope) \ {{}}, action : {"claim"},
          reason : {"OTHER"}, qty : {Full}]
    \cup (UNION {[kind : {"holdRelease"}, lots : {{l}}, hold : DOMAIN hold[l], qty : 0 .. OnHand,
                  action : {"releaseAccepted", "releaseRejected"}] : l \in world.scope})
    \cup [kind : {"confirm"}, lots : Each(InboundLots), type : {"IQC"},
          judgment : Judgments \ {"EXCEEDED"}]
    \cup [kind : {"confirm"}, lots : Once(SlotLots), type : {"PQC"}, judgment : Judgments]
    \cup [kind : {"confirm"}, lots : Once(PickedLots), type : {"OQC"},
          judgment : Judgments \ {"EXCEEDED"}]
    \cup [kind : {"pqcSkip"}, lots : Once(SlotLots)]
    \cup [kind : {"oqcSkip"}, lots : Once(PickedLots)]
    \cup [kind : {"report"}, lots : (SUBSET (world.scope \cap SlotLots)) \ {{}}]
    \cup [kind : {"iqcSkip", "register"}, lots : Each(InboundLots)]
    \cup [kind : {"requestDisposition", "apply"}, lots : {L \in Each(InboundLots) : \A l \in L : HasNc(l)}]
    \cup [kind : {"dispose"}, lots : {L \in Each(InboundLots) : \A l \in L : HasNc(l)},
          type : {"REWORK", "SCRAP", "NORMAL", "SORT"}, qty : 1 .. Affected]
    \cup [kind : {"concede"}, lots : {L \in Each(InboundLots) : \A l \in L : HasNc(l)},
          qty : 1 .. Affected]

Idle == [op |-> [kind |-> "none"], stage |-> 1, view |-> <<>>, lots |-> {}, seen |-> <<>>, note |-> 0]

At(t, stage) ==
    /\ tx[t].stage <= Len(Plan[tx[t].op.kind])
    /\ Plan[tx[t].op.kind][tx[t].stage] = stage

(* What the client has seen: versions it sends back as If-Match or versionNo. *)
View(op) ==
    CASE op.kind \in {"holdCreate", "holdRelease"} -> [l \in op.lots |-> lot[l].version]
      [] op.kind \in {"requestDisposition", "dispose"} ->
            <<Len(nc[Of(op)]), Latest(Of(op)).version>>
      [] OTHER -> <<>>

(* PQC is confirmed after a production result (read before the transaction). *)
assertPqcAfterProduction(op) ==
    (op.kind = "confirm" /\ op.type = "PQC") => \E l \in SlotLots : lot[l].life = "ACTIVE"

Begin(t, op) ==
    /\ tx[t].op.kind = "none"
    /\ calls < world.calls
    /\ assertPqcAfterProduction(op)
    /\ op.kind = "requestDisposition" => Latest(Of(op)).status = "NOT_REQUESTED"
    /\ tx' = [tx EXCEPT ![t] = [Idle EXCEPT !.op = op, !.view = View(op), !.lots = op.lots]]
    /\ calls' = calls + 1
    /\ UNCHANGED <<world, lot, hold, request, nc, concession, lock>>

-----------------------------------------------------------------------------
(* The gates a handler passes right after a lock; a failed gate is an Abort. *)

(* skippableWhere; the skip of an incoming inspection does not look for confirmed results *)
skippable(q) ==
    request[q].status \in Open /\ (q.type # "IQC" => request[q].result # "CONFIRMED")

isSkippable(q) == skippable(q) /\ world.approval = "APPROVED"

lockNonconformance(op) ==
    ~ isDecided(Of(op)) /\ op.qty <= Remaining(Of(op))

(* Mutant: the row is read before it is locked by the final update. *)
readHead(t, op) == UNCHANGED lock

lockHead(t, op) == Take(t, HeadRows(op))

HeadGate(op) ==
    CASE op.kind = "pqcSkip" -> isSkippable(PQC)
      [] op.kind = "oqcSkip" -> isSkippable(OQC)
      [] op.kind = "report" -> TRUE
      [] op.kind = "dispose" -> lockNonconformance(op)
                                 /\ (op.type = "SORT" => op.qty = Remaining(Of(op)))
      [] op.kind = "concede" -> lockNonconformance(op) /\ concession[Of(op)].status = "NONE"
      [] op.kind = "apply" ->
            LET c == concession[Of(op)] IN
            /\ c.status = "PENDING"
            /\ world.approval # "PENDING"
            /\ world.approval = "APPROVED" =>
                   lockNonconformance([lots |-> op.lots, qty |-> c.qty])

LockHead(t) ==
    LET op == tx[t].op IN
    /\ At(t, "head")
    /\ lockHead(t, op)
    /\ HeadGate(op)
    /\ tx' = [tx EXCEPT ![t].stage = @ + 1,
                        ![t].note = IF op.kind \in {"dispose", "apply"}
                                    THEN Latest(Of(op)).decided ELSE 0,
                        ![t].lots = IF op.kind = "apply" /\ world.approval # "APPROVED" THEN {} ELSE @]
    /\ UNCHANGED <<world, lot, hold, request, nc, concession, calls>>

(* Produced lots of the work order that wait for inspection. *)
PendingSlots == {l \in SlotLots : lot[l].status = "INSPECTION_PENDING" /\ lot[l].life = "ACTIVE"}

(* The lots a handler has found once the request rows are updated. *)
TargetLots(op) ==
    CASE op.kind = "confirm" /\ op.type = "PQC" ->
            (CASE op.judgment = "ACCEPTED" -> PendingSlots
               [] op.judgment = "EXCEEDED" -> SlotLots
               [] OTHER -> {})
      [] op.kind = "confirm" /\ op.type = "OQC" -> IF op.judgment = "HELD" THEN {} ELSE PickedLots
      [] op.kind = "pqcSkip" -> PendingSlots
      [] op.kind = "oqcSkip" -> PickedLots
      [] OTHER -> op.lots

LockRequests(t) ==
    LET op == tx[t].op IN
    /\ At(t, "requests")
    /\ Take(t, RequestRows(op))
    /\ op.kind = "confirm" => request[RequestOf(op)].result = "DRAFT"
    /\ tx' = [tx EXCEPT ![t].stage = @ + 1, ![t].lots = TargetLots(op)]
    /\ UNCHANGED <<world, lot, hold, request, nc, concession, calls>>

OpenQty(rows) == MapThenSumSet(LAMBDA i : rows[i].qty, OpenIn(rows))

(* assertVersions, assertNoOpenFullHold, assertHoldQtyWithinOnHand *)
holdCreateGate(op, view) ==
    \A l \in op.lots :
        /\ view[l] = lot[l].version
        /\ \A i \in OpenIn(hold[l]) : hold[l][i].qty # Full
        /\ op.qty # Full => OpenQty(hold[l]) + op.qty <= OnHand

(* the version, the hold still open, assertReleasableQty *)
holdReleaseGate(op, view) ==
    LET row == hold[Of(op)][op.hold] IN
    /\ view[Of(op)] = lot[Of(op)].version
    /\ row.open
    /\ op.qty # Full => row.qty # Full /\ op.qty <= row.qty

LotsGate(op, view) ==
    CASE op.kind = "holdCreate" -> holdCreateGate(op, view)
      [] op.kind = "holdRelease" -> holdReleaseGate(op, view)
      [] op.kind = "iqcSkip" -> /\ lot[Of(op)].status = "INSPECTION_PENDING"
                                /\ isSkippable(IQC(Of(op)))
      [] op.kind = "register" -> noOpenNonconformance(Of(op))
      [] OTHER -> TRUE

LockLots(t) ==
    LET op == tx[t].op IN
    /\ At(t, "lots")
    /\ lockLotsWithin(t, tx[t].lots)
    /\ LotsGate(op, tx[t].view)
    /\ tx' = [tx EXCEPT ![t].stage = @ + 1, ![t].seen = Snapshot(tx[t].lots),
                        ![t].note = IF op.kind = "report" THEN request[PQC] ELSE @]
    /\ UNCHANGED <<world, lot, hold, request, nc, concession, calls>>

-----------------------------------------------------------------------------
(* What each handler writes; it commits and its locks are gone. *)

Done(t) ==
    /\ tx[t].op.kind # "none"
    /\ tx[t].stage > Len(Plan[tx[t].op.kind])
    /\ tx' = [tx EXCEPT ![t] = Idle]
    /\ lock' = [r \in DOMAIN lock |-> IF lock[r] = t THEN NoSession ELSE lock[r]]
    /\ UNCHANGED <<world, calls>>

Does(t, kind) == tx[t].op.kind = kind /\ Done(t)

(* Close holds of one lot in the table as it is now. *)
Close(l, ids, qty) == [hold EXCEPT ![l] = releaseWithin(@, ids, qty)]

(* The recount under the lock. *)
openAfter(t, l, ids, qty) == OpenIn(releaseWithin(tx[t].seen[l].holds, ids, qty))

LotHoldCreate(t) ==
    LET op == tx[t].op IN
    /\ Does(t, "holdCreate")
    /\ \A l \in op.lots : Movable(l, op.action)
    /\ hold' = [l \in Lots |-> IF l \in op.lots THEN Append(hold[l], Hold(op.reason, op.qty))
                                ELSE hold[l]]
    /\ lot' = moveWithin(op.lots, op.action)
    /\ UNCHANGED <<request, nc, concession>>

LotHoldRelease(t) ==
    LET op == tx[t].op
        l == Of(op)
        free == openAfter(t, l, {op.hold}, op.qty) = {}
    IN
    /\ Does(t, "holdRelease")
    /\ free => Movable(l, op.action)
    /\ hold' = Close(l, {op.hold}, op.qty)
    /\ lot' = moveWithin(IF free THEN {l} ELSE {}, op.action)
    /\ UNCHANGED <<request, nc, concession>>

(* completeRequest and the confirmed result *)
Completed(q, judgment) ==
    [request EXCEPT ![q] = [status |-> "COMPLETED", result |-> "CONFIRMED", judgment |-> judgment]]

NewNc(status, fromIqc) == [status |-> status, decided |-> 0, version |-> 1, fromIqc |-> fromIqc]

(* moveTargetLot, createIqcNonconformanceWithin *)
ConfirmIqc(t) ==
    LET op == tx[t].op
        l == Of(op)
        ids == WaitingIn(tx[t].seen[l].holds)
        free == openAfter(t, l, ids, Full) = {}
        action == [ACCEPTED |-> "accepted", HELD |-> "held", REJECTED |-> "rejected"][op.judgment]
        moves == op.judgment = "ACCEPTED" => free
    IN
    /\ op.kind = "confirm" /\ op.type = "IQC"
    /\ Done(t)
    /\ moves => Movable(l, action)
    /\ hold' = IF op.judgment = "ACCEPTED" THEN Close(l, ids, Full) ELSE hold
    /\ lot' = moveWithin(IF moves THEN {l} ELSE {}, action)
    /\ request' = Completed(RequestOf(op), op.judgment)
    /\ nc' = IF op.judgment = "REJECTED" /\ noOpenNonconformance(l)
             THEN [nc EXCEPT ![l] = Append(@, NewNc("PENDING_DECISION", TRUE))] ELSE nc
    /\ UNCHANGED concession

(* spreadC14, releasePqcLots *)
ConfirmPqc(t) ==
    LET op == tx[t].op IN
    /\ op.kind = "confirm" /\ op.type = "PQC"
    /\ Done(t)
    /\ lot' = IF op.judgment = "EXCEEDED" THEN moveWithin(tx[t].lots, "exceeded")
              ELSE moveWithin(lotsFreeOfOpenHolds(tx[t].lots, tx[t].seen), "accepted")
    /\ request' = Completed(PQC, op.judgment)
    /\ UNCHANGED <<hold, nc, concession>>

(* movePickedOqcLots *)
ConfirmOqc(t) ==
    LET op == tx[t].op IN
    /\ op.kind = "confirm" /\ op.type = "OQC"
    /\ Done(t)
    /\ lot' = moveWithin(tx[t].lots, IF op.judgment = "ACCEPTED" THEN "accepted" ELSE "rejected")
    /\ request' = Completed(OQC, op.judgment)
    /\ UNCHANGED <<hold, nc, concession>>

(* updateMany over the requests that are still open *)
Skipped(q) ==
    IF skippable(q) THEN [request EXCEPT ![q].status = "SKIPPED"] ELSE request

SkipIqc(t) ==
    LET l == Of(tx[t].op)
        ids == WaitingIn(tx[t].seen[l].holds)
    IN
    /\ Does(t, "iqcSkip")
    /\ openAfter(t, l, ids, Full) = {}
    /\ hold' = Close(l, ids, Full)
    /\ lot' = moveWithin({l}, "iqcSkipped")
    /\ request' = Skipped(IQC(l))
    /\ UNCHANGED <<nc, concession>>

SkipPqc(t) ==
    /\ Does(t, "pqcSkip")
    /\ lot' = moveWithin(lotsFreeOfOpenHolds(tx[t].lots, tx[t].seen), "pqcSkipApproved")
    /\ request' = Skipped(PQC)
    /\ UNCHANGED <<hold, nc, concession>>

SkipOqc(t) ==
    /\ Does(t, "oqcSkip")
    /\ lot' = moveWithin(tx[t].lots, "oqcSkipped")
    /\ request' = Skipped(OQC)
    /\ UNCHANGED <<hold, nc, concession>>

(* releaseUninspectedLots: the action for lots with a result, given the PQC request read. *)
Uninspected(pqc) ==
    CASE pqc.status = "ABSENT" -> {"notRequired"}
      [] pqc.status = "SKIPPED" -> {"pqcSkipped"}
      [] OTHER -> IF pqc.result = "CONFIRMED" /\ pqc.judgment = "ACCEPTED" THEN {"accepted"} ELSE {}

ReportProduction(t) ==
    LET op == tx[t].op
        active == [l \in Lots |-> IF l \in op.lots /\ lot[l].life = "WAITING"
                                  THEN [lot[l] EXCEPT !.life = "ACTIVE", !.version = @ + 1] ELSE lot[l]]
        free == lotsFreeOfOpenHolds(op.lots, tx[t].seen)
    IN
    /\ Does(t, "report")
    /\ lot' = [l \in Lots |->
                  IF l \in free /\ \E a \in Uninspected(tx[t].note) : Movable(l, a)
                  THEN LET a == CHOOSE a \in Uninspected(tx[t].note) : TRUE
                       IN [active[l] EXCEPT !.status = TRANSITIONS[a].to, !.version = @ + 1, !.by = a]
                  ELSE active[l]]
    /\ UNCHANGED <<hold, request, nc, concession>>

RegisterNonconformance(t) ==
    LET l == Of(tx[t].op) IN
    /\ Does(t, "register")
    /\ nc' = [nc EXCEPT ![l] = Append(@, NewNc("NOT_REQUESTED", FALSE))]
    /\ UNCHANGED <<lot, hold, request, concession>>

(* A conditional update on version_no, which waits for the row. *)
RequestDisposition(t) ==
    LET l == Of(tx[t].op) IN
    /\ Does(t, "requestDisposition")
    /\ lock[Nonconformance(l)] = NoSession
    /\ tx[t].view = <<Len(nc[l]), Latest(l).version>>
    /\ nc' = [nc EXCEPT ![l][Len(nc[l])] = [Latest(l) EXCEPT !.status = "PENDING_DECISION",
                                                            !.version = @ + 1]]
    /\ UNCHANGED <<lot, hold, request, concession>>

(* nonconformance-decide only from PENDING_DECISION, when nothing remains *)
Decided(t, l, qty) ==
    LET whole == tx[t].note + qty = Affected IN
    /\ whole => Latest(l).status = "PENDING_DECISION"
    /\ nc' = [nc EXCEPT ![l][Len(nc[l])] =
                 [Latest(l) EXCEPT !.decided = @ + qty, !.version = @ + 1,
                                   !.status = IF whole THEN "DECIDED" ELSE @]]

Dispose(t) ==
    LET op == tx[t].op
        l == Of(op)
    IN
    /\ Does(t, "dispose")
    /\ tx[t].view = <<Len(nc[l]), Latest(l).version>>
    /\ Movable(l, op.type)
    /\ lot' = moveWithin({l}, op.type)
    (* releaseInspectionHoldsWithin leaves lots with stock in a defect warehouse alone *)
    /\ \/ hold' = hold
       \/ /\ op.type \in {"NORMAL", "SORT"}
          /\ hold' = Close(l, WaitingIn(hold[l]), Full)
    /\ request' = [q \in Requests |->
                      IF q \in RequestRows(op) /\ request[q].status = "COMPLETED"
                      THEN [request[q] EXCEPT !.status = "IN_PROGRESS"] ELSE request[q]]
    /\ Decided(t, l, op.qty)
    /\ UNCHANGED concession

RequestConcession(t) ==
    LET op == tx[t].op IN
    /\ Does(t, "concede")
    /\ concession' = [concession EXCEPT ![Of(op)] = [status |-> "PENDING", qty |-> op.qty]]
    /\ UNCHANGED <<lot, hold, request, nc>>

(* With a remainder the whole rest is decided and the remainder goes to a new lot. *)
ApplyConcession(t) ==
    LET l == Of(tx[t].op) IN
    /\ Does(t, "apply")
    /\ concession' = [concession EXCEPT ![l].status = world.approval]
    /\ \/ /\ world.approval = "REJECTED"
          /\ UNCHANGED <<lot, hold, nc>>
       \/ /\ world.approval = "APPROVED"
          /\ Movable(l, "concession")
          /\ lot' = moveWithin({l}, "concession")
          /\ hold' = Close(l, WaitingIn(hold[l]), Full)
          /\ Decided(t, l, Affected - tx[t].note)
    /\ UNCHANGED request

(* A failed gate, a deadlock victim, a lost connection: everything is rolled back. *)
Abort(t) ==
    /\ tx[t].op.kind # "none"
    /\ tx' = [tx EXCEPT ![t] = Idle]
    /\ lock' = [r \in DOMAIN lock |-> IF lock[r] = t THEN NoSession ELSE lock[r]]
    /\ UNCHANGED <<world, lot, hold, request, nc, concession, calls>>

-----------------------------------------------------------------------------
NewLot(status, life, by) == [status |-> status, life |-> life, version |-> 1, by |-> by]

(* Lots are born waiting for inspection; an inbound lot has a hold and an IQC request. *)
(* Slots nobody will touch have not been produced yet.                                *)
Init ==
    /\ world \in Worlds
    /\ \E produced \in SUBSET (SlotLots \cap world.scope) :
          lot = [l \in Lots |->
                   CASE l \in PickedLots -> IF world.held THEN NewLot("INSPECTION_PENDING", "ACTIVE", "suspect")
                                           ELSE NewLot("NORMAL", "ACTIVE", "accepted")
                     [] l \in SlotLots -> NewLot("INSPECTION_PENDING",
                                               IF l \in produced THEN "ACTIVE" ELSE "WAITING", "born")
                     [] OTHER -> IF world.rejected THEN NewLot("DEFECTIVE", "ACTIVE", "rejected")
                                 ELSE NewLot("INSPECTION_PENDING", "ACTIVE", "born")]
    /\ hold = [l \in Lots |-> CASE l \in InboundLots -> <<Hold(InspectionWait, Full)>>
                                  [] l \in PickedLots /\ world.held -> <<Hold("OTHER", 1)>>
                                  [] OTHER -> <<>>]
    /\ \E pqc \in IF SlotLots \cap world.scope = {} THEN {"REQUESTED"}
                  ELSE {"REQUESTED", "SKIPPED", "ABSENT"} :
          request = [q \in Requests |->
                       CASE q = PQC /\ pqc # "REQUESTED" ->
                               [status |-> pqc, result |-> "NONE", judgment |-> "NONE"]
                         [] q.type = "IQC" /\ world.rejected ->
                               [status |-> "COMPLETED", result |-> "CONFIRMED", judgment |-> "REJECTED"]
                         [] OTHER -> [status |-> "REQUESTED", result |-> "DRAFT", judgment |-> "NONE"]]
    /\ nc = [l \in InboundLots |-> IF world.rejected THEN <<NewNc("PENDING_DECISION", TRUE)>> ELSE <<>>]
    /\ concession = [l \in InboundLots |-> [status |-> "NONE", qty |-> 1]]
    /\ lock = [r \in Rows \cup Lots |-> NoSession]
    /\ tx = [t \in Sessions |-> Idle]
    /\ calls = 0

Commit(t) ==
    \/ LotHoldCreate(t) \/ LotHoldRelease(t)
    \/ ConfirmIqc(t) \/ ConfirmPqc(t) \/ ConfirmOqc(t)
    \/ SkipIqc(t) \/ SkipPqc(t) \/ SkipOqc(t)
    \/ ReportProduction(t)
    \/ RegisterNonconformance(t) \/ RequestDisposition(t) \/ Dispose(t)
    \/ RequestConcession(t) \/ ApplyConcession(t)

Next ==
    \E t \in Sessions :
        \/ \E op \in Calls : Begin(t, op)
        \/ LockHead(t) \/ LockRequests(t) \/ LockLots(t)
        \/ Commit(t)
        \/ Abort(t)

Spec == Init /\ [][Next]_vars

-----------------------------------------------------------------------------
(* Shapes of rows and transactions; a lock is held only by a session with a call. *)
HoldRow == [reason : {InspectionWait, "OTHER"}, qty : 0 .. OnHand, open : BOOLEAN]
LotRow == [status : NotScrapped \cup {"SCRAPPED"}, life : {"WAITING", "ACTIVE"},
           version : Nat, by : DOMAIN TRANSITIONS \cup {"born"}]
NcRow == [status : {"NOT_REQUESTED", "PENDING_DECISION", "DECIDED"}, decided : Nat,
          version : Nat, fromIqc : BOOLEAN]

TypeOK ==
    /\ world \in Worlds
    /\ lot \in [Lots -> LotRow]
    /\ hold \in [Lots -> Seq(HoldRow)]
    /\ request \in [Requests -> [status : Open \cup {"COMPLETED", "SKIPPED", "ABSENT"},
                                result : {"NONE", "DRAFT", "CONFIRMED"},
                                judgment : Judgments \cup {"NONE"}]]
    /\ nc \in [InboundLots -> Seq(NcRow)]
    /\ concession \in [InboundLots -> [status : {"NONE", "PENDING", "APPROVED", "REJECTED"},
                                       qty : 1 .. Affected]]
    /\ lock \in [Rows \cup Lots -> Sessions \cup {NoSession}]
    /\ \A r \in Rows \cup Lots : \A t \in Sessions : lock[r] = t => tx[t].op.kind # "none"
    /\ calls \in 0 .. world.calls

(* Moves to NORMAL that do not look at the other holds of the lot: a         *)
(* disposition, a concession, and the acceptance or the skip of the outgoing  *)
(* inspection of a picked lot (movePickedOqcLots).                            *)
Uncounted(l) ==
    lot[l].by \in {"NORMAL", "SORT", "concession"} \/ (l \in PickedLots /\ lot[l].by \in {"accepted", "oqcSkipped"})

(* R-5, R-11: whoever counts the holds of a lot lets it go NORMAL only when   *)
(* none is open, however releases, holds, confirmations and skips of incoming *)
(* and process inspections and results interleave (openAfter,                 *)
(* lotsFreeOfOpenHolds).  Not meant are the moves that do not count.          *)
NormalIsFree ==
    \A l \in Lots : lot[l].status = "NORMAL" /\ ~ Uncounted(l) => OpenIn(hold[l]) = {}

(* R-5: a lot put under suspicion keeps an open hold until something moves    *)
(* it; two releases at once do not each leave the lot to the other.           *)
SuspectHasHold ==
    \A l \in Lots :
        lot[l].by = "suspect" /\ lot[l].status = "INSPECTION_PENDING" => OpenIn(hold[l]) # {}

(* At most one open hold of a lot is over its whole quantity, the others      *)
(* together fit into the stock, and none is over nothing (DUPLICATE_HOLD,     *)
(* HOLD_QTY_EXCEEDED, remainderQty).                                          *)
HoldsFit ==
    \A l \in Lots :
        /\ Cardinality({i \in OpenIn(hold[l]) : hold[l][i].qty = Full}) <= 1
        /\ OpenQty(hold[l]) <= OnHand

(* What a lot's status says and the holds that are open agree: no recount     *)
(* releases a held lot, no suspected lot is left without a hold, and the      *)
(* holds fit the lot (LotHoldService under lockLotsWithin).  A disposition, a *)
(* concession and an outgoing inspection may release a held lot.              *)
StatusFitsHolds == NormalIsFree /\ SuspectHasHold /\ HoldsFit

(* A lot has at most one open nonconformance, whether registered or opened by *)
(* a rejected incoming inspection.                                            *)
OneOpenNonconformance ==
    \A l \in InboundLots :
        Cardinality({i \in DOMAIN nc[l] : nc[l][i].status # "DECIDED"}) <= 1

(* Dispositions and concessions never decide more than the affected quantity, *)
(* and a nonconformance is closed exactly when nothing of it remains.         *)
DecidedWithinAffected ==
    \A l \in InboundLots : \A i \in DOMAIN nc[l] :
        /\ nc[l][i].decided <= Affected
        /\ nc[l][i].status = "DECIDED" <=> nc[l][i].decided = Affected

(* An approved skip of an incoming inspection releases the lot only while the *)
(* inspection is open: a judgment is never skipped over.                      *)
IqcSkipsOnlyOpen ==
    [][\A l \in InboundLots :
          lot'[l] # lot[l] /\ lot'[l].by = "iqcSkipped" => request[IQC(l)].status \in Open]_vars
=============================================================================
