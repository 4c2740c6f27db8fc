----------------------------- MODULE Documents -----------------------------
(***************************************************************************)
(* Documents that go through approval: goods issues, inventory adjustments *)
(* and purchase orders submitted for approval before they are posted;      *)
(* inbound receipts, goods receipts, goods issues and shipments cancelled  *)
(* after approval; production results corrected after approval.            *)
(*                                                                         *)
(* Every operation is one transaction of the same shape: lock the row of   *)
(* the document, compare version_no with If-Match and the status with what *)
(* the operation starts from, ask a sequence of questions of other tables  *)
(* (approval requests, routes, successor documents), which nothing locks,  *)
(* and write.  An operation is a record of those parts; the actions at the *)
(* end run it statement by statement.                                      *)
(*                                                                         *)
(* Left out: lines, quantities and the balances posting touches (see       *)
(* InventoryPosting, any refusal there is Abort), reservations and totals  *)
(* rolled back with a shipment, and documents owned by a shipment, which   *)
(* requestCancel refuses and which move with their shipment.               *)
(***************************************************************************)
EXTENDS Approval

CONSTANTS Procs,        \* concurrent API calls
          Kinds,        \* kinds of documents under study
          MaxVersion,   \* bound: version_no of a document
          MaxSuccessors \* bound: live successors of a document

AllKinds == {"GOODS_ISSUE", "INVENTORY_ADJUSTMENT", "PURCHASE_ORDER", "INBOUND_RECEIPT",
             "GOODS_RECEIPT", "SHIPMENT", "PRODUCTION_RESULT"}
Types    == {"BUSINESS", "CANCEL"}   \* X and X_CANCEL of a document of kind X
Statuses == {"REGISTERED", "POSTED", "CANCEL_REQUESTED", "CANCELLED", "UNCONFIRMED",
             "CONFIRMED"}

(* What an operation leaves in other tables, and is never to leave twice:  *)
(* ledger rows, their reversal, outbox rows, the outbox row that takes one *)
(* back, correction rows that change quantities and those that do not.     *)
Marks == {"post", "reverse", "queue", "retract", "correctA", "correctB"}

ASSUME DocumentsAssumption ==
  /\ Kinds \subseteq AllKinds
  /\ ApprovalTypes = Types
  /\ MaxVersion \in Nat /\ MaxSuccessors \in Nat

VARIABLES doc, successors, tx

vars == <<approvalVars, doc, successors, tx>>

Document == [kind : Kinds, status : Statuses, version : Nat, content : Contents,
             marks : [Marks -> Nat]]
-----------------------------------------------------------------------------
(* The operations.  gates: the questions in the order they are asked;      *)
(* type: the approval type they are about; ifMatch: whether version_no is  *)
(* compared; effect: what is written at the end.                           *)

Op(on, from, ifMatch, type, gates, effect) ==
  [on |-> on, from |-> from, ifMatch |-> ifMatch, type |-> type, gates |-> gates,
   effect |-> effect]

(* ApprovalService.request, called inside the transaction of the operation *)
request == <<"noOpen", "route", "expand">>

(* A bug: the finished approval is looked for before the open one. *)
replaceLinesApprovedFirst ==
  Op("GOODS_ISSUE", {"REGISTERED"}, TRUE, "BUSINESS", <<"notApproved", "noOpen">>, "edit")

goodsIssueReplaceLines ==
  Op("GOODS_ISSUE", {"REGISTERED"}, TRUE, "BUSINESS", <<"noOpen", "notApproved">>, "edit")
goodsIssueRequestApproval ==
  Op("GOODS_ISSUE", {"REGISTERED"}, TRUE, "BUSINESS", request, "submit")
goodsIssuePost ==
  Op("GOODS_ISSUE", {"REGISTERED"}, TRUE, "BUSINESS", <<"approved">>, "post")

adjustmentReplaceLines ==
  Op("INVENTORY_ADJUSTMENT", {"REGISTERED"}, TRUE, "BUSINESS",
     <<"noOpen", "notApproved">>, "edit")
adjustmentRequestApproval ==
  Op("INVENTORY_ADJUSTMENT", {"REGISTERED"}, TRUE, "BUSINESS", request, "submit")
adjustmentPostWithin ==
  Op("INVENTORY_ADJUSTMENT", {"REGISTERED"}, TRUE, "BUSINESS", <<"approved">>, "post")

(* update and replaceLines of a purchase order take the row lock with      *)
(* their conditional update; neither looks at approvals.                   *)
purchaseOrderUpdate == Op("PURCHASE_ORDER", {"REGISTERED"}, TRUE, "BUSINESS", <<>>, "edit")
purchaseOrderReplaceLines ==
  Op("PURCHASE_ORDER", {"REGISTERED"}, TRUE, "BUSINESS", <<>>, "edit")
purchaseOrderRequestApproval ==
  Op("PURCHASE_ORDER", Statuses, TRUE, "BUSINESS", request, "submit")

(* CancelEligibilityService.evaluate: first the open request, then the     *)
(* count of successors.                                                    *)
evaluate == <<"noOpen", "noSuccessor">>

requestCancel(kind) ==
  Op(kind, {"REGISTERED", "POSTED"}, TRUE, "CANCEL", evaluate \o request, "requestCancel")
cancel(kind) ==
  Op(kind, {"CANCEL_REQUESTED"}, TRUE, "CANCEL", <<"approved", "noSuccessor">>, "cancel")

shipmentRequestCancel ==
  Op("SHIPMENT", {"UNCONFIRMED"}, TRUE, "CANCEL", <<"noOpen">> \o request, "submit")

(* A bug: the gate of the core, which a shipment nobody submitted passes. *)
shipmentCancelByCoreGate ==
  Op("SHIPMENT", {"UNCONFIRMED"}, TRUE, "CANCEL", <<"approved">>, "cancel")

shipmentCancel ==
  Op("SHIPMENT", {"UNCONFIRMED"}, TRUE, "CANCEL", <<"hasApproved">>, "cancel")

(* A bug: the open cancellation is not looked for. *)
shipmentConfirmBlindly ==
  Op("SHIPMENT", {"UNCONFIRMED"}, TRUE, "CANCEL", <<>>, "confirm")

shipmentConfirm ==
  Op("SHIPMENT", {"UNCONFIRMED"}, TRUE, "CANCEL", <<"noOpen">>, "confirm")

(* A production result has neither status transitions nor a version; what  *)
(* locks a corrected one is its correction row.                            *)
resultRequestApproval ==
  Op("PRODUCTION_RESULT", Statuses, FALSE, "BUSINESS", request, "submit")
resultCorrectA ==
  Op("PRODUCTION_RESULT", Statuses, FALSE, "BUSINESS", <<"notCorrected", "hasApproved">>,
     "correctA")
resultCorrectB ==
  Op("PRODUCTION_RESULT", Statuses, FALSE, "BUSINESS", <<"notCorrected">>, "correctB")

Cancelable == {"INBOUND_RECEIPT", "GOODS_RECEIPT", "GOODS_ISSUE"}

Operations ==
  {goodsIssueReplaceLines, goodsIssueRequestApproval, goodsIssuePost,
   adjustmentReplaceLines, adjustmentRequestApproval, adjustmentPostWithin,
   purchaseOrderUpdate, purchaseOrderReplaceLines, purchaseOrderRequestApproval,
   shipmentRequestCancel, shipmentCancel, shipmentConfirm,
   resultRequestApproval, resultCorrectA, resultCorrectB}
  \cup {requestCancel(k) : k \in Cancelable} \cup {cancel(k) : k \in Cancelable}
-----------------------------------------------------------------------------
(* seen: the version the caller read; at: the number of the next gate.     *)
Viewing == [d : Targets, seen : Nat]
Call    == [op : Operations, d : Targets, at : Nat, steps : 0..MaxSteps]
NoCall  == <<>>

TypeOK ==
  /\ ApprovalTypeOK
  /\ doc \in [Targets -> Document]
  /\ successors \in [Targets -> 0..MaxSuccessors]
  /\ tx \in [Procs -> Call \cup Viewing \cup {NoCall}]

(* How the documents are born: a goods issue registered, or posted at once;*)
(* a goods receipt posted, with an outbox row if the ERP knows its order;  *)
(* an inbound receipt with or without quantities counted as received at a  *)
(* purchase order (its "post"); a shipment with its issue posted.          *)
Born(kind) ==
  LET with(status, marks) == [status |-> status,
                              marks |-> [m \in Marks |-> IF m \in marks THEN 1 ELSE 0]]
  IN CASE kind = "GOODS_ISSUE"     -> {with("REGISTERED", {}), with("POSTED", {"post"})}
       [] kind = "GOODS_RECEIPT"   -> {with("POSTED", {"post"}),
                                       with("POSTED", {"post", "queue"})}
       [] kind = "INBOUND_RECEIPT" -> {with("REGISTERED", {}), with("REGISTERED", {"post"})}
       [] kind = "SHIPMENT"        -> {with("UNCONFIRMED", {"post"})}
       [] OTHER                    -> {with("REGISTERED", {})}

NewDocuments ==
  UNION {{[kind |-> k, status |-> b.status, version |-> 1, content |-> c, marks |-> b.marks] :
            b \in Born(k), c \in Contents} : k \in Kinds}

Init ==
  /\ ApprovalInit
  /\ doc \in [Targets -> NewDocuments]
  /\ successors = [d \in Targets |-> 0]
  /\ tx = [p \in Procs |-> NoCall]
-----------------------------------------------------------------------------
Running(q) == "op" \in DOMAIN tx[q]

(* The caller reads the document and its version: the If-Match to come. *)
View(p) ==
  /\ tx[p] = NoCall
  /\ \E d \in Targets : tx' = [tx EXCEPT ![p] = [d |-> d, seen |-> doc[d].version]]
  /\ UNCHANGED <<approvalVars, doc, successors>>

(* A bug: the document is read without FOR UPDATE. *)
readDocument(p, d) == TRUE

(* SELECT ... FOR UPDATE waits for the transaction that holds the row. *)
lockDocument(p, d) == \A q \in Procs \ {p} : Running(q) => tx[q].d # d

mayStart(op, d, seen) == doc[d].status \in op.from /\ (op.ifMatch => doc[d].version = seen)

(* The call arrives; it is refused, or it goes on with the row locked. *)
Start(p) ==
  LET c == tx[p] IN
  /\ "seen" \in DOMAIN c
  /\ lockDocument(p, c.d)
  /\ \E op \in Operations :
       /\ op.on = doc[c.d].kind
       /\ tx' = [tx EXCEPT ![p] = IF mayStart(op, c.d, c.seen)
                                  THEN [op |-> op, d |-> c.d, at |-> 1, steps |-> 0]
                                  ELSE NoCall]
  /\ UNCHANGED <<approvalVars, doc, successors>>

hasApproved(d, type) == "APPROVED" \in StatusesOf(d, type)

assertNotCorrected(d) == doc[d].marks["correctA"] + doc[d].marks["correctB"] = 0

Passes(gate, d, type) ==
  CASE gate = "noOpen"       -> assertNoOpenRequest(d, type)
    [] gate = "approved"     -> assertApproved(d, type)
    [] gate = "hasApproved"  -> hasApproved(d, type)
    [] gate = "notApproved"  -> ~hasApproved(d, type)
    [] gate = "route"        -> selectRoute(type)
    [] gate = "expand"       -> expandSteps(type)
    [] gate = "noSuccessor"  -> successors[d] = 0
    [] gate = "notCorrected" -> assertNotCorrected(d)

Gate(p) ==
  LET c == tx[p] IN
  /\ Running(p) /\ c.at <= Len(c.op.gates)
  /\ LET gate == c.op.gates[c.at] IN
     tx' = [tx EXCEPT ![p] =
              IF Passes(gate, c.d, c.op.type)
              THEN [c EXCEPT !.at = c.at + 1,
                             !.steps = IF gate = "expand" THEN route[c.op.type].steps ELSE @]
              ELSE NoCall]
  /\ UNCHANGED <<approvalVars, doc, successors>>

(* The writes, and the commit that makes them visible and frees the row. *)
Finish(p, effect) ==
  /\ Running(p) /\ tx[p].at > Len(tx[p].op.gates)
  /\ tx[p].op.effect = effect
  /\ tx' = [tx EXCEPT ![p] = NoCall]
  /\ UNCHANGED <<route, routeChanges, session, successors>>

Submit(p) ==
  /\ Len(requests) < MaxRequests
  /\ AddRequest(tx[p].d, tx[p].op.type, doc[tx[p].d].content, tx[p].steps)

Edit(p) ==
  /\ Finish(p, "edit")
  /\ doc[tx[p].d].version < MaxVersion
  /\ \E c \in Contents :
       doc' = [doc EXCEPT ![tx[p].d].content = c, ![tx[p].d].version = @ + 1]
  /\ UNCHANGED requests

SubmitOnly(p) == Finish(p, "submit") /\ Submit(p) /\ UNCHANGED doc

Post(p) ==
  /\ Finish(p, "post")
  /\ doc' = [doc EXCEPT ![tx[p].d].status = "POSTED", ![tx[p].d].version = @ + 1,
                        ![tx[p].d].marks["post"] = @ + 1]
  /\ UNCHANGED requests

RequestCancel(p) ==
  /\ Finish(p, "requestCancel")
  /\ Submit(p)
  /\ doc' = [doc EXCEPT ![tx[p].d].status = "CANCEL_REQUESTED", ![tx[p].d].version = @ + 1]

(* What was posted is reversed, if anything was; a goods receipt that was  *)
(* queued for the ERP is taken back there.                                 *)
Cancel(p) ==
  LET d == tx[p].d  marks == doc[d].marks IN
  /\ Finish(p, "cancel")
  /\ doc' = [doc EXCEPT ![d].status = "CANCELLED", ![d].version = @ + 1,
                        ![d].marks = [marks EXCEPT
                          !["reverse"] = IF marks["post"] > 0 THEN @ + 1 ELSE @,
                          !["retract"] = IF marks["queue"] > 0 THEN @ + 1 ELSE @]]
  /\ UNCHANGED requests

Confirm(p) ==
  /\ Finish(p, "confirm")
  /\ doc' = [doc EXCEPT ![tx[p].d].status = "CONFIRMED", ![tx[p].d].version = @ + 1,
                        ![tx[p].d].marks["queue"] = @ + 1]
  /\ UNCHANGED requests

Correct(p) ==
  \E effect \in {"correctA", "correctB"} :
    /\ Finish(p, effect)
    /\ doc' = [doc EXCEPT ![tx[p].d].marks[effect] = @ + 1]
    /\ UNCHANGED requests

(* Any other refusal, a lost connection or the end of the process. *)
Abort(p) ==
  /\ tx[p] # NoCall
  /\ tx' = [tx EXCEPT ![p] = NoCall]
  /\ UNCHANGED <<approvalVars, doc, successors>>

(* Another transaction makes a document out of this one, or cancels it; it *)
(* neither locks nor looks at this document.                               *)
CreateSuccessor(d) ==
  /\ doc[d].kind \in Cancelable
  /\ successors[d] < MaxSuccessors
  /\ successors' = [successors EXCEPT ![d] = @ + 1]
  /\ UNCHANGED <<approvalVars, doc, tx>>
CancelSuccessor(d) ==
  /\ successors[d] > 0
  /\ successors' = [successors EXCEPT ![d] = @ - 1]
  /\ UNCHANGED <<approvalVars, doc, tx>>

Next ==
  \/ ApprovalNext /\ UNCHANGED <<doc, successors, tx>>
  \/ \E p \in Procs : \/ View(p) \/ Start(p) \/ Gate(p) \/ Abort(p)
                      \/ Edit(p) \/ SubmitOnly(p) \/ Post(p) \/ RequestCancel(p)
                      \/ Cancel(p) \/ Confirm(p) \/ Correct(p)
  \/ \E d \in Targets : CreateSuccessor(d) \/ CancelSuccessor(d)

Spec == Init /\ [][Next]_vars
-----------------------------------------------------------------------------
(* Properties. *)

RequestsOf(d, type) ==
  {requests[i] : i \in {j \in DOMAIN requests :
                          requests[j].target = d /\ requests[j].type = type}}

(* What approvers see, or have approved, is what the document holds and    *)
(* what is posted, whichever way edits, submissions, decisions and         *)
(* postings interleave; and a document that was ever submitted is posted   *)
(* only after an approval (goods-issue-update.service.ts replaceLines,     *)
(* goods-issue.service.ts post, and their twins of adjustments).           *)
PostedAsApproved ==
  \A d \in Targets : doc[d].kind \in {"GOODS_ISSUE", "INVENTORY_ADJUSTMENT"} =>
    LET rs == RequestsOf(d, "BUSINESS") IN
    /\ \A r \in rs : r.status # "REJECTED" => r.subject = doc[d].content
    /\ doc[d].marks["post"] > 0 /\ rs # {} => \E r \in rs : r.status = "APPROVED"

(* Every document leaves its marks once, and they agree with its status    *)
(* and its birth: a ledger transaction and its reversal, an outbox row     *)
(* and the row that takes it back, one correction                          *)
(* (document-cancel-execute.service.ts cancel, shipment-cancel.service.ts  *)
(* cancel, shipment-confirm.service.ts commit,                             *)
(* production-result-correct.service.ts commit).                           *)
MarksOnce ==
  \A d \in Targets :
    LET m == doc[d].marks  cancelled == doc[d].status = "CANCELLED" IN
    /\ \A k \in Marks : m[k] <= 1
    /\ m["correctA"] + m["correctB"] <= 1
    /\ m["reverse"] = (IF cancelled THEN m["post"] ELSE 0)
    /\ m["retract"] = (IF cancelled THEN m["queue"] ELSE 0)
    /\ doc[d].kind = "SHIPMENT" => m["queue"] = (IF doc[d].status = "CONFIRMED" THEN 1 ELSE 0)

(* Nothing is cancelled, and no quantity of a result corrected, that no    *)
(* approver agreed to; the core's gate alone lets a document pass that     *)
(* was never submitted (document-cancel-execute.service.ts cancel relies   *)
(* on CANCEL_REQUESTED, shipment-cancel.service.ts assertCancelApproved on *)
(* a gate of its own, production-result-correct.service.ts                 *)
(* assertCorrectionApproved too).                                          *)
UndoneAfterApproval ==
  \A d \in Targets :
    /\ doc[d].status = "CANCELLED" => hasApproved(d, "CANCEL")
    /\ doc[d].marks["correctA"] > 0 => hasApproved(d, "BUSINESS")

(* A shipment is not confirmed while its cancellation is being decided     *)
(* (shipment-guards.ts hasOpenCancel: there is no status to tell).         *)
ConfirmedNotInCancel ==
  \A d \in Targets : doc[d].status = "CONFIRMED" => assertNoOpenRequest(d, "CANCEL")

=============================================================================
