------------------------------ MODULE WorkOrder ------------------------------
(***************************************************************************)
(* One MES work order from planning to its end: release into pre-issued    *)
(* lots (slots), work sessions and their crews, production results and     *)
(* corrections, closing and cancelling, and the material issue requests    *)
(* that are settled when it ends.  A call that locks the work order row    *)
(* has three steps: it reaches the server with the version its client saw, *)
(* it locks the row and passes its checks, it writes and commits.  Calls   *)
(* on a session or a request lock that row only.                           *)
(***************************************************************************)
EXTENDS Integers, Sequences, FiniteSets, FiniteSetsExt

CONSTANTS
    Clients,         \* calls served at the same time
    Workers,
    Qtys,            \* order and result quantities
    LotSizes,        \* lot sizes a release may ask for
    MaxOpenWorkers,  \* MAX_OPEN_WORKERS
    Worlds           \* what a behaviour is about: kinds of call, workers, whether work
                     \* on the order has begun, how many calls on it or its requests follow

ASSUME WorkOrderAssumption ==
    /\ Qtys \subseteq Nat \ {0}
    /\ LotSizes \subseteq Nat \ {0}
    /\ MaxOpenWorkers \in Nat \ {0}
    /\ IsFiniteSet(Workers)
    /\ \A w \in Worlds : /\ w.calls \in Nat /\ w.begun \in BOOLEAN
                          /\ w.workers \subseteq Workers /\ w.workers # {}

VARIABLES
    world,    \* one of Worlds; never changes
    order,    \* production.work_order
    slot,     \* trace.lot pre-issued for it, in slot order
    session,  \* production.work_session with its participants
    result,   \* production.production_result with its allocations
    request,  \* logistics.material_issue_request of the order, with its picking
    tx,       \* calls that are being served
    calls     \* calls so far

vars == <<world, order, slot, session, result, request, tx, calls>>

Ended == {"CLOSED", "CANCELLED"}
NoSlotStatus == {"PLANNED", "CONFIRMED", "CANCELLED"}

(* TRANSITIONS of production.work_order.status_code *)
Row(from, to) == [from |-> from, to |-> to]
TRANSITIONS ==
    [release |-> Row({"PLANNED", "CONFIRMED"}, "RELEASED"),
     hold    |-> Row({"RELEASED", "IN_PROGRESS"}, "SUSPENDED"),
     resume  |-> Row({"SUSPENDED"}, "IN_PROGRESS"),
     close   |-> Row({"COMPLETED", "IN_PROGRESS", "SUSPENDED"}, "CLOSED"),
     cancel  |-> Row({"PLANNED", "CONFIRMED", "RELEASED", "IN_PROGRESS", "SUSPENDED"},
                     "CANCELLED"),
     start   |-> Row({"RELEASED", "IN_PROGRESS"}, "IN_PROGRESS")]

assertTransition(kind) == order.status \in TRANSITIONS[kind].from

-----------------------------------------------------------------------------
(* Lots, sessions and results of the order. *)

(* All slots of lotSize, the last one what is left. *)
slotQtys(orderQty, lotSize) ==
    LET n == (orderQty + lotSize - 1) \div lotSize
    IN [i \in 1 .. n |-> IF i < n THEN lotSize ELSE orderQty - lotSize * (n - 1)]

NewSlots(qtys) == [i \in DOMAIN qtys |-> [qty |-> qtys[i], life |-> "WAITING"]]

SlotQty == MapThenSumSet(LAMBDA i : slot[i].qty, DOMAIN slot)

OpenSessions == {i \in DOMAIN session : session[i].status # "ENDED"}

(* ACTIVE_RESULT_WHERE: results that no other result corrects. *)
Leaves(rows) == {i \in DOMAIN rows : \A j \in DOMAIN rows : rows[j].corrects # i}
goodQty(rows) == MapThenSumSet(LAMBDA i : rows[i].good, Leaves(rows))

judgeCompletion(goodSum, orderQty) ==
    IF goodSum < orderQty THEN "UNDER" ELSE IF goodSum > orderQty THEN "OVER" ELSE "NORMAL"

Allocated(i) == \E j \in DOMAIN result : i \in result[j].slots

(* LotLifecycleService.moveWithin: slots outside from are skipped. *)
moveSlots(ids, from, to) ==
    [i \in DOMAIN slot |-> IF i \in ids /\ slot[i].life \in from
                           THEN [slot[i] EXCEPT !.life = to] ELSE slot[i]]

-----------------------------------------------------------------------------
(* Material issue requests.  progress is what requestProgress finds: nothing, *)
(* stock picked and not issued, only issued stock, everything issued; posting: *)
(* a goods issue that found the request REGISTERED is about to post it.       *)
NewRequest(sourced, auto) ==
    [status |-> IF sourced THEN "WAITING" ELSE "REGISTERED", sourced |-> sourced, auto |-> auto,
     closed |-> FALSE, progress |-> "none", posting |-> FALSE,
     picking |-> IF sourced THEN "none" ELSE "open", version |-> 1]

isOpen(q) == q.status \in {"WAITING", "REGISTERED"} /\ ~ q.closed
Started(q) == q.progress # "none"

(* MaterialIssueReleaser.release, with or without stock to pick *)
released(q) ==
    {[q EXCEPT !.status = "REGISTERED", !.version = @ + 1, !.picking = p] :
        p \in {q.picking, "open"}}

(* closePickings: an order nobody has picked from is cancelled, of the others *)
(* what is picked stays.                                                      *)
closePickings(q) ==
    IF q.picking = "open" /\ q.progress = "none" THEN [q EXCEPT !.picking = "cancelled"] ELSE q

(* What the end of the order makes of a request whose progress was read before. *)
settled(q, started) ==
    LET p == closePickings([q EXCEPT !.version = @ + 1])
    IN IF started THEN [p EXCEPT !.closed = TRUE] ELSE [p EXCEPT !.status = "CANCELLED"]

-----------------------------------------------------------------------------
(* Calls. *)

Idle == [op |-> [kind |-> "none"], at |-> "idle", version |-> 0, plan |-> <<>>,
         judgment |-> "NONE", rows |-> {}, started |-> {}]

(* If-Match is required; the other calls may leave it out, and with it could *)
(* only be refused more often.                                              *)
IfMatch == {"update", "release", "close", "cancel"}
RequestCalls == {"cancelRequest", "updateRequest"}

Calls ==
    {op \in [kind : {"update"}, qty : Qtys]
        \cup [kind : {"release"}, lotSize : LotSizes, bom : {"empty", "sourced", "unsourced"}]
        \cup [kind : {"hold", "resume", "close", "cancel", "issueMore"}]
        \cup [kind : {"start"}, main : world.workers, subs : SUBSET world.workers]
        \cup [kind : {"sessionResume"}, session : DOMAIN session]
        \cup [kind : {"report"}, good : Qtys, slots : SUBSET (DOMAIN slot)]
        \cup [kind : {"correct"}, result : DOMAIN result, good : Qtys \cup {0}]
        \cup [kind : RequestCalls, request : {r \in DOMAIN request : request[r].sourced}] :
        op.kind \in world.kinds}

(* assertReferences: the starter is not among the others, and all fit. *)
assertCrew(op) == op.main \notin op.subs /\ Cardinality(op.subs) < MaxOpenWorkers

(* What is checked before the transaction. *)
assertCreatable(op) ==
    /\ op.kind = "start" => assertCrew(op)
    /\ op.kind = "issueMore" => order.status \notin Ended

View(op) == IF op.kind \in RequestCalls THEN request[op.request].version ELSE order.version

Begin(c, op) ==
    /\ tx[c].at = "idle"
    /\ calls < world.calls
    /\ assertCreatable(op)
    /\ tx' = [tx EXCEPT ![c] = [Idle EXCEPT !.op = op, !.at = "called", !.version = View(op)]]
    /\ calls' = calls + 1
    /\ UNCHANGED <<world, order, slot, session, result, request>>

(* The plan of a release is made before the transaction. *)
releasePlan(c) ==
    /\ tx[c].at = "called" /\ tx[c].op.kind = "release"
    /\ tx' = [tx EXCEPT ![c].at = "planned",
                        ![c].plan = slotQtys(order.qty, tx[c].op.lotSize)]
    /\ UNCHANGED <<world, order, slot, session, result, request, calls>>

(* SELECT ... FOR UPDATE of the work order row. *)
Holding(d) == tx[d].at = "locked" \/ (tx[d].at = "settling" /\ tx[d].op.kind \notin RequestCalls)

(* Mutant: the row is read without FOR UPDATE. *)
readWorkOrder(c) == TRUE

lockWorkOrder(c) == \A d \in Clients \ {c} : ~ Holding(d)

(* Mutant: If-Match is not compared. *)
ignoreVersion(c) == TRUE

assertVersion(c) == tx[c].op.kind \in IfMatch => tx[c].version = order.version

(* Mutant: a result that has a correction is corrected again. *)
correctAgain(i) == TRUE

assertNotCorrected(i) == i \in Leaves(result)

(* assertResultAccepted, assertSlots, assertAllocations *)
assertReportable(op) ==
    /\ order.status \notin NoSlotStatus
    /\ \A i \in op.slots : slot[i].life # "VOIDED"

(* What each handler checks under the lock, in its state of the row. *)
assertCall(op) ==
    CASE op.kind = "update" -> ~ order.released
      [] op.kind \in {"release", "resume", "cancel"} -> assertTransition(op.kind)
      [] op.kind = "start" -> /\ order.status = "SUSPENDED" \/ assertTransition("start")
                              /\ OpenSessions = {}
      [] op.kind = "hold" -> assertTransition("hold") /\ OpenSessions # {}
      [] op.kind = "close" -> OpenSessions = {} /\ assertTransition("close")
      [] op.kind = "report" -> assertReportable(op)
      [] op.kind = "correct" -> assertNotCorrected(op.result)
      [] op.kind = "sessionResume" -> TRUE

LocksOrder == DOMAIN TRANSITIONS \cup {"update", "report", "correct", "sessionResume"}

Lock(c) ==
    LET op == tx[c].op IN
    /\ op.kind \in LocksOrder
    /\ tx[c].at = IF op.kind = "release" THEN "planned" ELSE "called"
    /\ lockWorkOrder(c)
    /\ assertVersion(c)
    /\ assertCall(op)
    /\ tx' = [tx EXCEPT ![c].at = "locked",
                        ![c].judgment = judgeCompletion(goodQty(result), order.qty)]
    /\ UNCHANGED <<world, order, slot, session, result, request, calls>>

(* Mutant: the requests to settle or edit are only read. *)
readRequests(c, rows) == TRUE

lockRequests(c, rows) ==
    \A d \in Clients \ {c} : tx[d].at = "settling" => tx[d].rows \cap rows = {}

(* settleWorkOrderRequests, or the lock of an edit; progress is read under it. *)
LockRequests(c) ==
    LET op == tx[c].op
        rows == IF op.kind \in RequestCalls THEN {op.request}
                ELSE {r \in DOMAIN request : request[r].sourced /\ isOpen(request[r])}
    IN
    /\ \/ tx[c].at = "locked" /\ op.kind \in {"close", "cancel"}
       \/ /\ tx[c].at = "called" /\ op.kind \in RequestCalls
          /\ request[op.request].version = tx[c].version
          /\ isOpen(request[op.request])
    /\ lockRequests(c, rows)
    /\ tx' = [tx EXCEPT ![c].at = "settling", ![c].rows = rows,
                        ![c].started = {r \in rows : Started(request[r])}]
    /\ UNCHANGED <<world, order, slot, session, result, request, calls>>

-----------------------------------------------------------------------------
(* What each handler writes; it commits. *)

Commits(c, kind, at) ==
    /\ tx[c].at = at /\ tx[c].op.kind = kind
    /\ tx' = [tx EXCEPT ![c] = Idle]
    /\ UNCHANGED <<world, calls>>

Bumped(o) == [o EXCEPT !.version = @ + 1]
Moved(kind) == [Bumped(order) EXCEPT !.status = TRANSITIONS[kind].to]

Update(c) ==
    /\ Commits(c, "update", "locked")
    /\ order' = [Bumped(order) EXCEPT !.qty = tx[c].op.qty]
    /\ UNCHANGED <<slot, session, result, request>>

(* Slots, and unless nothing is consumed a waiting request that is released at *)
(* once when it is due, or without production warehouses a request and picking *)
(* order that have no source.                                                  *)
Release(c) ==
    LET bom == tx[c].op.bom
        new == NewRequest(bom = "sourced", TRUE)
    IN
    /\ Commits(c, "release", "locked")
    /\ order' = [Moved("release") EXCEPT !.released = TRUE]
    /\ slot' = NewSlots(tx[c].plan)
    /\ \/ bom = "empty" /\ request' = request
       \/ bom # "empty" /\ request' = Append(request, new)
       \/ bom = "sourced" /\ \E q \in released(new) : request' = Append(request, q)
    /\ UNCHANGED <<session, result>>

(* The version stays when the status does; SUSPENDED is resumed on the way. *)
Start(c) ==
    LET op == tx[c].op IN
    /\ Commits(c, "start", "locked")
    /\ session' = Append(session, [status |-> "RUNNING", main |-> op.main,
                                   in |-> {op.main} \cup op.subs])
    /\ order' = IF order.status = "IN_PROGRESS" THEN order ELSE Moved("start")
    /\ UNCHANGED <<slot, result, request>>

HoldOrder(c) ==
    /\ Commits(c, "hold", "locked")
    /\ order' = Moved("hold")
    /\ UNCHANGED <<slot, session, result, request>>

ResumeOrder(c) ==
    /\ Commits(c, "resume", "locked")
    /\ order' = Moved("resume")
    /\ UNCHANGED <<slot, session, result, request>>

(* RESUME of a session brings a suspended order back with it. *)
ResumeSession(c) ==
    LET i == tx[c].op.session IN
    /\ Commits(c, "sessionResume", "locked")
    /\ session[i].status = "STOPPED"
    /\ session' = [session EXCEPT ![i].status = "RUNNING"]
    /\ order' = IF order.status = "SUSPENDED" THEN Moved("resume") ELSE order
    /\ UNCHANGED <<slot, result, request>>

Report(c) ==
    LET op == tx[c].op IN
    /\ Commits(c, "report", "locked")
    /\ result' = Append(result, [good |-> op.good, corrects |-> 0, slots |-> op.slots])
    /\ slot' = moveSlots(op.slots, {"WAITING"}, "ACTIVE")
    /\ UNCHANGED <<order, session, request>>

Correct(c) ==
    LET op == tx[c].op IN
    /\ Commits(c, "correct", "locked")
    /\ result' = Append(result, [good |-> op.good, corrects |-> op.result, slots |-> {}])
    /\ UNCHANGED <<order, slot, session, request>>

SettleAll(c) ==
    request' = [r \in DOMAIN request |->
                   IF r \in tx[c].rows THEN settled(request[r], r \in tx[c].started) ELSE request[r]]

Close(c) ==
    /\ Commits(c, "close", "settling")
    /\ order' = [Moved("close") EXCEPT !.judged = tx[c].judgment]
    /\ slot' = moveSlots({i \in DOMAIN slot : ~ Allocated(i)}, {"WAITING"}, "VOIDED")
    /\ SettleAll(c)
    /\ UNCHANGED <<session, result>>

Cancel(c) ==
    /\ Commits(c, "cancel", "settling")
    /\ order' = Moved("cancel")
    /\ slot' = moveSlots(DOMAIN slot, {"WAITING", "ACTIVE"}, "VOIDED")
    /\ SettleAll(c)
    /\ UNCHANGED <<session, result>>

Abort(c) ==
    /\ tx[c].at # "idle"
    /\ tx' = [tx EXCEPT ![c] = Idle]
    /\ UNCHANGED <<world, order, slot, session, result, request, calls>>

-----------------------------------------------------------------------------
(* Calls that lock one session: each is a single step under that lock. *)

OnSession(i, new) ==
    /\ session' = [session EXCEPT ![i] = new]
    /\ UNCHANGED <<world, order, slot, result, request, tx, calls>>

StopSession(i) ==
    /\ "stop" \in world.kinds
    /\ session[i].status = "RUNNING"
    /\ OnSession(i, [session[i] EXCEPT !.status = "STOPPED"])

(* end and forceEnd; whoever is still in leaves with it *)
EndSession(i) ==
    /\ session[i].status # "ENDED"
    /\ OnSession(i, [session[i] EXCEPT !.status = "ENDED", !.in = {}])

Join(i, w) ==
    /\ session[i].status # "ENDED"
    /\ w \notin session[i].in
    /\ Cardinality(session[i].in) < MaxOpenWorkers
    /\ OnSession(i, [session[i] EXCEPT !.in = @ \cup {w}])

Leave(i, w) ==
    /\ w \in session[i].in
    /\ w = session[i].main => session[i].status = "ENDED"
    /\ OnSession(i, [session[i] EXCEPT !.in = @ \ {w}])

SessionStep ==
    \E i \in DOMAIN session :
        \/ StopSession(i) \/ EndSession(i)
        \/ \E w \in world.workers : Join(i, w) \/ Leave(i, w)

-----------------------------------------------------------------------------
(* Requests: edits, requests added by hand, the release runner and picking. *)

OneRequest(r, choices) ==
    /\ \E q \in choices : request' = [request EXCEPT ![r] = q]
    /\ UNCHANGED <<order, slot, session, result>>

CancelRequest(c) ==
    LET r == tx[c].op.request IN
    /\ Commits(c, "cancelRequest", "settling")
    /\ tx[c].started = {}
    /\ OneRequest(r, {[closePickings(request[r]) EXCEPT !.status = "CANCELLED", !.version = @ + 1]})

(* updateWaiting: the picking is closed, the request waits for its day again *)
updateWaiting(q) ==
    LET back == [(IF q.status = "REGISTERED" THEN closePickings(q) ELSE q)
                     EXCEPT !.status = "WAITING", !.version = @ + 1]
    IN {back} \cup released(back)

(* updateStarted: what is left gets a new picking order if there is stock for *)
(* it; with nothing left to issue the request is done.                        *)
updateStarted(q) ==
    {[q EXCEPT !.version = @ + 1, !.picking = p] : p \in {q.picking, "open"}}
    \cup IF q.status # "REGISTERED" THEN {}
         ELSE {[q EXCEPT !.version = @ + 1, !.status = "POSTED", !.progress = "all"]}

UpdateRequest(c) ==
    LET r == tx[c].op.request IN
    /\ Commits(c, "updateRequest", "settling")
    /\ \/ tx[c].started = {} /\ OneRequest(r, updateWaiting(request[r]))
       \/ /\ tx[c].started # {}
          /\ request[r].progress # "picked"
          /\ OneRequest(r, updateStarted(request[r]))

(* A request by hand is released at once; the work order is not locked. *)
IssueMore(c) ==
    /\ Commits(c, "issueMore", "called")
    /\ \E q \in released(NewRequest(TRUE, FALSE)) : request' = Append(request, q)
    /\ UNCHANGED <<order, slot, session, result>>

Unlocked(r) == \A d \in Clients : tx[d].at = "settling" => r \notin tx[d].rows

OnRequest(r, choices) == OneRequest(r, choices) /\ UNCHANGED <<world, tx, calls>>

(* releaseOne: FOR UPDATE SKIP LOCKED, whenever the issue work date has come *)
ReleaseOne(r) ==
    /\ request[r].status = "WAITING"
    /\ Unlocked(r)
    /\ OnRequest(r, released(request[r]))

(* pick locks its line only; a line of a cancelled order is picked too, but  *)
(* progress does not count it.                                               *)
Pick(r) ==
    /\ request[r].picking = "open"
    /\ request[r].progress \in {"none", "issued"}
    /\ OnRequest(r, {[request[r] EXCEPT !.progress = "picked"]})

(* followUpIssue: what is issued is added.  When it is all there is, and the *)
(* request is found REGISTERED, the request is to be posted.                 *)
Issue(r) ==
    /\ request[r].progress = "picked" \/ (request[r].picking = "cancelled" /\ request[r].progress # "all")
    /\ ~ request[r].posting
    /\ \/ OnRequest(r, {[request[r] EXCEPT !.progress = "issued"]})
       \/ /\ request[r].status # "REGISTERED"
          /\ OnRequest(r, {[request[r] EXCEPT !.progress = "all"]})
       \/ /\ request[r].status = "REGISTERED"
          /\ OnRequest(r, {[request[r] EXCEPT !.posting = TRUE]})

(* closeRequestIfFullyIssued: the request was read without a lock, and is     *)
(* updated by id whatever has become of it; or the issue is rolled back.      *)
Post(r) ==
    /\ request[r].posting
    /\ \/ /\ Unlocked(r)
          /\ OnRequest(r, {[request[r] EXCEPT !.posting = FALSE, !.progress = "all", !.status = "POSTED",
                                             !.version = @ + 1]})
       \/ OnRequest(r, {[request[r] EXCEPT !.posting = FALSE]})

RequestStep ==
    /\ "pick" \in world.kinds
    /\ \E r \in DOMAIN request : ReleaseOne(r) \/ Pick(r) \/ Issue(r) \/ Post(r)

-----------------------------------------------------------------------------
(* An order is planned, or it was released with a request and worked on once. *)
Init ==
    /\ world \in Worlds
    /\ \E qty \in Qtys, lotSize \in LotSizes :
          /\ order = [status |-> IF world.begun THEN "IN_PROGRESS" ELSE "PLANNED", qty |-> qty,
                      released |-> world.begun, judged |-> "NONE", version |-> 1]
          /\ slot = IF world.begun THEN NewSlots(slotQtys(qty, lotSize)) ELSE <<>>
    /\ session = IF world.begun
                 THEN <<[status |-> "ENDED", main |-> CHOOSE w \in world.workers : TRUE, in |-> {}]>>
                 ELSE <<>>
    /\ request = IF world.begun THEN <<NewRequest(TRUE, TRUE)>> ELSE <<>>
    /\ result = <<>>
    /\ tx = [c \in Clients |-> Idle]
    /\ calls = 0

Commit(c) ==
    \/ Update(c) \/ Release(c) \/ Start(c) \/ HoldOrder(c) \/ ResumeOrder(c) \/ ResumeSession(c)
    \/ Report(c) \/ Correct(c) \/ Close(c) \/ Cancel(c)
    \/ CancelRequest(c) \/ UpdateRequest(c) \/ IssueMore(c)

Next ==
    \/ \E c \in Clients :
          \/ \E op \in Calls : Begin(c, op)
          \/ releasePlan(c) \/ Lock(c) \/ LockRequests(c)
          \/ Commit(c) \/ Abort(c)
    \/ SessionStep
    \/ RequestStep

Spec == Init /\ [][Next]_vars

-----------------------------------------------------------------------------
(* Open sessions: never two, none of a work order that is closed or has not   *)
(* been started, whatever start, close, hold and end race over; a session is  *)
(* open exactly while its main worker is in, and its crew fits                *)
(* (assertNoOpenSession, MAX_OPEN_WORKERS).                                   *)
SessionsFit ==
    /\ Cardinality(OpenSessions) <= 1
    /\ OpenSessions # {} => order.status \in {"IN_PROGRESS", "SUSPENDED", "CANCELLED"}
    /\ \A i \in DOMAIN session :
          /\ session[i].status = "ENDED" <=> session[i].in = {}
          /\ session[i].in # {} => session[i].main \in session[i].in
          /\ Cardinality(session[i].in) <= MaxOpenWorkers

SlotsAddUp == order.released => SlotQty = order.qty

SlotLives ==
    /\ ~ order.released => slot = <<>>
    /\ order.status = "CANCELLED" => \A i \in DOMAIN slot : slot[i].life = "VOIDED"
    /\ order.status # "CANCELLED" =>
          \A i \in DOMAIN slot :
              /\ slot[i].life = "ACTIVE" <=> Allocated(i)
              /\ slot[i].life = "VOIDED" => order.status = "CLOSED"
    /\ order.status = "CLOSED" => \A i \in DOMAIN slot : slot[i].life # "WAITING"

(* The slots of a released order add up to its quantity although the plan is  *)
(* read before the transaction; a slot is active exactly when a result is     *)
(* allocated to it, closing voids the others and cancelling all of them, and  *)
(* no result lands on a voided slot.                                          *)
SlotsFit == SlotsAddUp /\ SlotLives

(* The result that a result, through its corrections, stands for. *)
Origin(rows) ==
    LET of[i \in DOMAIN rows] == IF rows[i].corrects = 0 THEN i ELSE of[rows[i].corrects] IN of

(* Each reported event counts once, with its latest correction. *)
Counted(rows) ==
    LET of == Origin(rows)
        latest(i) == Max({j \in DOMAIN rows : of[j] = i})
    IN MapThenSumSet(LAMBDA i : rows[latest(i)].good, {i \in DOMAIN rows : rows[i].corrects = 0})

(* The judgment that closing stores and sends to the ERP is that of every     *)
(* event counted once in its latest correction, at the moment the order       *)
(* closes: no result or correction slips in between, and none counts twice.   *)
JudgedAsCounted ==
    [][order'.status = "CLOSED" /\ order.status # "CLOSED" =>
          order'.judged = judgeCompletion(Counted(result'), order'.qty)]_vars

(* FR-028: when the work order has ended, no request with a source warehouse *)
(* that its release made is left open: it is posted, cancelled or closed,     *)
(* whichever of the runner, an edit and an issue was at it                    *)
(* (settleWorkOrderRequests).  A release without production warehouses makes  *)
(* a request without a source, which FR-009a leaves alone: it stays           *)
(* REGISTERED, and is not meant here.                                         *)
RequestsSettled ==
    order.status \in Ended =>
        \A r \in DOMAIN request : request[r].sourced /\ request[r].auto => ~ isOpen(request[r])
=============================================================================
