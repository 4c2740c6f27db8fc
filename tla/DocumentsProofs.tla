--------------------------- MODULE DocumentsProofs ---------------------------
(***************************************************************************)
(* Proofs about approvals and the documents that go through them, for      *)
(* every number of documents, calls, approvers, steps and requests.        *)
(*                                                                         *)
(* Two arguments meet here.  A decision locks nothing: that its version is *)
(* still the one it read is all it knows, and Sessions says what follows   *)
(* from it (the request is open and the step is the next one).  A call on  *)
(* a document does lock, but only the row of the document, while what it   *)
(* asks is in other tables: Standing says which of the answers cannot      *)
(* change under it, because requests for the document come from the holder *)
(* of the lock alone and a closed request never opens again.               *)
(***************************************************************************)
EXTENDS Documents, SequenceTheorems, TLAPS

(* A question the call has asked, and that was answered as it wanted. *)
Passed(p, gate) ==
  \E i \in DOMAIN tx[p].op.gates : i < tx[p].at /\ tx[p].op.gates[i] = gate

(* The row lock: two calls at work are on different documents. *)
Locked ==
  \A p, q \in Procs : Running(p) /\ Running(q) /\ p # q => tx[p].d # tx[q].d

(* What a call has found out is still so. *)
StandingAt(p) ==
  LET op == tx[p].op  d == tx[p].d IN
  /\ tx[p].at > 0 /\ op.on = doc[d].kind /\ doc[d].status \in op.from
  /\ Passed(p, "noOpen") => assertNoOpenRequest(d, op.type)
  /\ Passed(p, "approved") => assertApproved(d, op.type)
  /\ Passed(p, "hasApproved") => hasApproved(d, op.type)
  /\ Passed(p, "notApproved") => assertNoOpenRequest(d, op.type) /\ ~hasApproved(d, op.type)
  /\ Passed(p, "expand") => tx[p].steps > 0
  /\ Passed(p, "notCorrected") => assertNotCorrected(d)

Standing == \A p \in Procs : Running(p) => StandingAt(p)

(* An approver whose version is still the one of the request has seen an   *)
(* open request, and the step it decides is the next one.                  *)
Sessions ==
  \A a \in Approvers : session[a] # NoSession =>
    LET s == session[a]  r == requests[s.req] IN
    /\ s.seen <= r.version
    /\ s.seen = r.version => r.status = "PENDING" /\ (s.cur # 0 => s.cur = r.version)

(* A request is never decided more often than it has steps. *)
Versions ==
  \A i \in DOMAIN requests :
    requests[i].version \in 1..(Len(requests[i].decision) + 1)

(* What the status of a document says of its marks and its requests. *)
Lifecycle ==
  \A d \in Targets :
    /\ doc[d].kind \in {"GOODS_ISSUE", "INVENTORY_ADJUSTMENT"} =>
         (doc[d].status = "REGISTERED" => doc[d].marks["post"] = 0)
    /\ doc[d].status = "CANCEL_REQUESTED" => StatusesOf(d, "CANCEL") # {}

IInv == /\ TypeOK /\ Locked /\ Standing /\ Sessions /\ Versions /\ Lifecycle
        /\ OneOpenRequest /\ DecisionsAddUp
        /\ PostedAsApproved /\ MarksOnce /\ UndoneAfterApproval /\ ConfirmedNotInCancel
-----------------------------------------------------------------------------
(* What the proofs need to know of an operation. *)

Gates == {"noOpen", "approved", "hasApproved", "notApproved", "route", "expand",
          "noSuccessor", "notCorrected"}
Effects == {"edit", "submit", "post", "requestCancel", "cancel", "confirm", "correctA",
            "correctB"}
Stocked == {"GOODS_ISSUE", "INVENTORY_ADJUSTMENT"}

Asks(op, gate) == \E i \in DOMAIN op.gates : op.gates[i] = gate

Sound(op) ==
  /\ op.type \in Types /\ op.gates \in Seq(Gates) /\ op.effect \in Effects
  /\ \A i \in DOMAIN op.gates : op.gates[i] = "notApproved" =>
       \E j \in DOMAIN op.gates : j < i /\ op.gates[j] = "noOpen"
  /\ op.effect \in {"submit", "requestCancel"} =>
       /\ Asks(op, "noOpen") /\ Asks(op, "expand")
       /\ op.type = "CANCEL" => "CONFIRMED" \notin op.from
       /\ op.type = "BUSINESS" /\ op.on \in Stocked => op.from = {"REGISTERED"}
  /\ op.effect = "requestCancel" =>
       op.type = "CANCEL" /\ op.on # "SHIPMENT" /\ op.from = {"REGISTERED", "POSTED"}
  /\ op.effect = "edit" /\ op.on \in Stocked => op.type = "BUSINESS" /\ Asks(op, "notApproved")
  /\ op.effect = "post" =>
       /\ op.on \in Stocked /\ op.type = "BUSINESS"
       /\ op.from = {"REGISTERED"} /\ Asks(op, "approved")
  /\ op.effect = "cancel" =>
       /\ op.type = "CANCEL"
       /\ \/ op.on # "SHIPMENT" /\ op.from = {"CANCEL_REQUESTED"} /\ Asks(op, "approved")
          \/ op.on = "SHIPMENT" /\ op.from = {"UNCONFIRMED"} /\ Asks(op, "hasApproved")
  /\ op.effect = "confirm" =>
       /\ op.on = "SHIPMENT" /\ op.type = "CANCEL" /\ op.from = {"UNCONFIRMED"}
       /\ Asks(op, "noOpen")
  /\ op.effect \in {"correctA", "correctB"} =>
       op.on = "PRODUCTION_RESULT" /\ Asks(op, "notCorrected")
  /\ op.effect = "correctA" => op.type = "BUSINESS" /\ Asks(op, "hasApproved")

(* The questions of a request made inside a cancellation come after those  *)
(* of its eligibility.                                                     *)
LEMMA JoinedGates ==
  /\ evaluate \o request \in Seq(Gates) /\ Len(evaluate \o request) = 5
  /\ (evaluate \o request)[1] = "noOpen" /\ (evaluate \o request)[2] = "noSuccessor"
  /\ (evaluate \o request)[3] = "noOpen" /\ (evaluate \o request)[4] = "route"
  /\ (evaluate \o request)[5] = "expand"
  /\ <<"noOpen">> \o request \in Seq(Gates) /\ Len(<<"noOpen">> \o request) = 4
  /\ (<<"noOpen">> \o request)[1] = "noOpen" /\ (<<"noOpen">> \o request)[2] = "noOpen"
  /\ (<<"noOpen">> \o request)[3] = "route" /\ (<<"noOpen">> \o request)[4] = "expand"
<1>1. /\ request \in Seq(Gates) /\ Len(request) = 3
      /\ request[1] = "noOpen" /\ request[2] = "route" /\ request[3] = "expand"
  BY DEF request, Gates
<1>2. /\ evaluate \in Seq(Gates) /\ Len(evaluate) = 2
      /\ evaluate[1] = "noOpen" /\ evaluate[2] = "noSuccessor"
  BY DEF evaluate, Gates
<1> DEFINE one == <<"noOpen">>
<1>3. /\ one \in Seq(Gates) /\ Len(one) = 1 /\ one[1] = "noOpen"
  BY DEF Gates
<1> HIDE DEF one
<1>4. ASSUME NEW a \in Seq(Gates), NEW b \in Seq(Gates)
      PROVE  /\ a \o b \in Seq(Gates) /\ Len(a \o b) = Len(a) + Len(b)
             /\ \A i \in 1..(Len(a) + Len(b)) : (a \o b)[i] =
                  IF i <= Len(a) THEN a[i] ELSE b[i - Len(a)]
  BY ConcatProperties
<1>5. /\ evaluate \o request \in Seq(Gates) /\ Len(evaluate \o request) = 5
      /\ \A i \in 1..5 : (evaluate \o request)[i] =
           IF i <= 2 THEN evaluate[i] ELSE request[i - 2]
  <2>1. /\ evaluate \o request \in Seq(Gates)
        /\ Len(evaluate \o request) = Len(evaluate) + Len(request)
        /\ \A i \in 1..(Len(evaluate) + Len(request)) : (evaluate \o request)[i] =
             IF i <= Len(evaluate) THEN evaluate[i] ELSE request[i - Len(evaluate)]
    BY <1>1, <1>2, <1>4, Zenon
  <2> QED
    BY <1>1, <1>2, <2>1
<1>6. /\ one \o request \in Seq(Gates) /\ Len(one \o request) = 4
      /\ \A i \in 1..4 : (one \o request)[i] =
           IF i <= 1 THEN one[i] ELSE request[i - 1]
  <2>1. /\ one \o request \in Seq(Gates)
        /\ Len(one \o request) = Len(one) + Len(request)
        /\ \A i \in 1..(Len(one) + Len(request)) : (one \o request)[i] =
             IF i <= Len(one) THEN one[i] ELSE request[i - Len(one)]
    BY <1>1, <1>3, <1>4, Zenon
  <2> QED
    BY <1>1, <1>3, <2>1
<1>7. /\ (evaluate \o request)[1] = "noOpen" /\ (evaluate \o request)[2] = "noSuccessor"
      /\ (evaluate \o request)[3] = "noOpen" /\ (evaluate \o request)[4] = "route"
      /\ (evaluate \o request)[5] = "expand"
  BY <1>1, <1>2, <1>5
<1>8. /\ (one \o request)[1] = "noOpen" /\ (one \o request)[2] = "noOpen"
      /\ (one \o request)[3] = "route" /\ (one \o request)[4] = "expand"
  BY <1>1, <1>3, <1>6
<1> QED
  BY <1>5, <1>6, <1>7, <1>8, Zenon DEF one

(* Every operation is as its proofs need it. *)
LEMMA OperationsSound == \A op \in Operations : Sound(op)
<1> USE DEF Op, Types, Gates, Effects, Stocked, Statuses, Asks
<1>1. Sound(goodsIssueReplaceLines) /\ Sound(goodsIssuePost)
  BY DEF Sound, goodsIssueReplaceLines, goodsIssuePost
<1>2. Sound(goodsIssueRequestApproval)
  BY DEF Sound, goodsIssueRequestApproval, request
<1>3. Sound(adjustmentReplaceLines) /\ Sound(adjustmentPostWithin)
  BY DEF Sound, adjustmentReplaceLines, adjustmentPostWithin
<1>4. Sound(adjustmentRequestApproval)
  BY DEF Sound, adjustmentRequestApproval, request
<1>5. Sound(purchaseOrderUpdate) /\ Sound(purchaseOrderReplaceLines)
  BY DEF Sound, purchaseOrderUpdate, purchaseOrderReplaceLines
<1>6. Sound(purchaseOrderRequestApproval)
  BY DEF Sound, purchaseOrderRequestApproval, request
<1>7. Sound(shipmentRequestCancel)
  BY JoinedGates DEF Sound, shipmentRequestCancel
<1>8. Sound(shipmentCancel) /\ Sound(shipmentConfirm)
  BY DEF Sound, shipmentCancel, shipmentConfirm
<1>9. Sound(resultRequestApproval)
  BY DEF Sound, resultRequestApproval, request
<1>10. Sound(resultCorrectA) /\ Sound(resultCorrectB)
  BY DEF Sound, resultCorrectA, resultCorrectB
<1>11. ASSUME NEW k \in Cancelable PROVE Sound(requestCancel(k))
  BY JoinedGates DEF Sound, requestCancel, Cancelable
<1>12. ASSUME NEW k \in Cancelable PROVE Sound(cancel(k))
  BY DEF Sound, cancel, Cancelable
<1> HIDE DEF Op, Types, Gates, Effects, Stocked, Statuses, Asks
<1> QED
  BY <1>1, <1>2, <1>3, <1>4, <1>5, <1>6, <1>7, <1>8, <1>9, <1>10, <1>11, <1>12 DEF Operations
-----------------------------------------------------------------------------
(* Requests. *)

(* The steps of a request are a sequence. *)
LEMMA RequestShape ==
  ASSUME NEW r \in Request
  PROVE  /\ r.version \in Nat
         /\ r.decision \in Seq(Decisions \cup {NoCode})
         /\ Len(r.decision) \in 1..MaxSteps
         /\ DOMAIN r.decision = 1..Len(r.decision)
<1> USE ApprovalAssumption
<1>1. PICK n \in 1..MaxSteps : r.decision \in [1..n -> Decisions \cup {NoCode}]
  BY DEF Request
<1>2. n \in Nat
  OBVIOUS
<1>3. r.decision \in Seq(Decisions \cup {NoCode}) /\ Len(r.decision) = n
  BY <1>1, <1>2
<1> QED
  BY <1>1, <1>3 DEF Request

(* A decision moves the status, the version and one step. *)
LEMMA DecideShape ==
  ASSUME NEW r \in Request, NEW code \in Decisions, NEW cur \in DOMAIN r.decision
  PROVE  LET s == decide(r, code, cur) IN
         /\ s \in Request
         /\ s.target = r.target /\ s.type = r.type /\ s.subject = r.subject
         /\ s.version = r.version + 1
         /\ s.decision = [r.decision EXCEPT ![cur] = code]
         /\ Len(s.decision) = Len(r.decision)
         /\ s.status = IF code = "REJECTED" \/ cur = Len(r.decision) THEN code ELSE r.status
<1> DEFINE s == decide(r, code, cur)
<1>1. /\ s.target = r.target /\ s.type = r.type /\ s.subject = r.subject
      /\ s.version = r.version + 1
      /\ s.decision = [r.decision EXCEPT ![cur] = code]
      /\ s.status = IF code = "REJECTED" \/ cur = Len(r.decision) THEN code ELSE r.status
  BY DEF decide, Request
<1>2. PICK n \in 1..MaxSteps : r.decision \in [1..n -> Decisions \cup {NoCode}]
  BY DEF Request
<1>3. n \in Nat
  BY ApprovalAssumption
<1>4. s.decision \in [1..n -> Decisions \cup {NoCode}]
  BY <1>1, <1>2
<1>5. Len(s.decision) = n /\ Len(r.decision) = n
  BY <1>2, <1>3, <1>4
<1>6. s \in Request
  <2> DEFINE D == UNION {[1..m -> Decisions \cup {NoCode}] : m \in 1..MaxSteps}
  <2>1. s.decision \in D
    BY <1>2, <1>4
  <2> HIDE DEF D
  <2>2. r \in [target : Targets, type : ApprovalTypes, subject : Contents,
               status : {"PENDING"} \cup Decisions, version : Nat, decision : D]
    BY DEF D, Request
  <2>3. s = [r EXCEPT !.decision = s.decision, !.version = s.version, !.status = s.status]
    BY <1>1, <2>2 DEF decide
  <2>4. s.status \in {"PENDING"} \cup Decisions /\ s.version \in Nat
    BY <1>1, <2>2
  <2>5. s \in [target : Targets, type : ApprovalTypes, subject : Contents,
               status : {"PENDING"} \cup Decisions, version : Nat, decision : D]
    BY <2>1, <2>2, <2>3, <2>4
  <2> QED
    BY <2>5 DEF D, Request
<1> QED
  BY <1>1, <1>5, <1>6

(* A new request is open, and has a step if its route had one. *)
LEMMA NewShape ==
  ASSUME NEW d \in Targets, NEW type \in ApprovalTypes, NEW c \in Contents,
         NEW steps \in 1..MaxSteps
  PROVE  LET r == NewRequest(d, type, c, steps) IN
         /\ r \in Request
         /\ r.target = d /\ r.type = type /\ r.subject = c
         /\ r.status = "PENDING" /\ r.version = 1 /\ Len(r.decision) = steps
         /\ \A i \in 1..steps : r.decision[i] = NoCode
         /\ DOMAIN r.decision = 1..steps
<1> DEFINE r == NewRequest(d, type, c, steps)
<1>1. steps \in Nat
  BY ApprovalAssumption
<1>2. r.decision \in [1..steps -> Decisions \cup {NoCode}]
  BY DEF NewRequest
<1>3. Len(r.decision) = steps
  BY <1>1, <1>2
<1>4. r \in Request
  BY <1>2 DEF NewRequest, Request
<1> QED
  BY <1>3, <1>4 DEF NewRequest

(* An open request has a step left, and its steps so far are approvals. *)
LEMMA OpenRequest ==
  ASSUME TypeOK, Versions, DecisionsAddUp, NEW i \in DOMAIN requests,
         requests[i].status = "PENDING"
  PROVE  LET r == requests[i] IN
         /\ r.version \in DOMAIN r.decision
         /\ \A k \in 1..(r.version - 1) : r.decision[k] = "APPROVED"
         /\ Undecided(r) = r.version..Len(r.decision)
<1> DEFINE r == requests[i]
<1>1. r \in Request
  BY DEF TypeOK, ApprovalTypeOK
<1>2. /\ r.version \in Nat /\ r.decision \in Seq(Decisions \cup {NoCode})
      /\ Len(r.decision) \in Nat \ {0} /\ DOMAIN r.decision = 1..Len(r.decision)
  BY <1>1, RequestShape
<1>3. r.version \in 1..(Len(r.decision) + 1)
  BY DEF Versions
<1> DEFINE n == r.version - 1
<1>4. /\ Undecided(r) = (n + 1)..Len(r.decision)
      /\ \A k \in 1..(n - 1) : r.decision[k] = "APPROVED"
      /\ r.status = "APPROVED" <=> n = Len(r.decision) /\ r.decision[n] = "APPROVED"
      /\ r.status = "REJECTED" <=> n > 0 /\ r.decision[n] = "REJECTED"
  BY DEF DecisionsAddUp
<1>5. n > 0 => r.decision[n] = "APPROVED"
  <2> SUFFICES ASSUME n > 0 PROVE r.decision[n] = "APPROVED"
    OBVIOUS
  <2>1. n \in DOMAIN r.decision /\ n \notin Undecided(r)
    BY <1>2, <1>3, <1>4
  <2>2. r.decision[n] \in Decisions
    BY <1>2, <2>1 DEF Undecided
  <2> QED
    BY <1>4, <2>2 DEF Decisions
<1>6. n # Len(r.decision)
  BY <1>2, <1>4, <1>5
<1> QED
  BY <1>2, <1>3, <1>4, <1>5, <1>6

AddsUp(r) ==
  LET n == r.version - 1 IN
  /\ Undecided(r) = (n + 1)..Len(r.decision)
  /\ \A k \in 1..(n - 1) : r.decision[k] = "APPROVED"
  /\ r.status = "APPROVED" <=> n = Len(r.decision) /\ r.decision[n] = "APPROVED"
  /\ r.status = "REJECTED" <=> n > 0 /\ r.decision[n] = "REJECTED"

(* The decision of the next step of an open request is accounted for. *)
LEMMA DecideAddsUp ==
  ASSUME TypeOK, Versions, DecisionsAddUp, NEW i \in DOMAIN requests,
         requests[i].status = "PENDING", NEW code \in Decisions
  PROVE  LET r == requests[i]  s == decide(r, code, r.version) IN
         AddsUp(s) /\ s.version \in 1..(Len(s.decision) + 1)
<1> DEFINE r == requests[i]
           s == decide(r, code, r.version)
           n == r.version
           m == Len(r.decision)
<1>1. r \in Request
  BY DEF TypeOK, ApprovalTypeOK
<1>2. /\ n \in Nat /\ r.decision \in Seq(Decisions \cup {NoCode})
      /\ m \in Nat \ {0} /\ DOMAIN r.decision = 1..m
  BY <1>1, RequestShape
<1>3. /\ n \in 1..m
      /\ \A k \in 1..(n - 1) : r.decision[k] = "APPROVED"
      /\ Undecided(r) = n..m
  BY <1>2, OpenRequest
<1>4. /\ s.version = n + 1 /\ s.decision = [r.decision EXCEPT ![n] = code]
      /\ Len(s.decision) = m
      /\ s.status = IF code = "REJECTED" \/ n = m THEN code ELSE "PENDING"
  BY <1>1, <1>2, <1>3, DecideShape
<1> HIDE DEF s, r
<1>5. s.decision[n] = code /\ \A k \in 1..m : k # n => s.decision[k] = r.decision[k]
  BY <1>2, <1>3, <1>4
<1>6. Undecided(s) = (n + 1)..m
  <2>1. DOMAIN s.decision = 1..m
    BY <1>2, <1>4
  <2>2. code # NoCode
    BY DEF Decisions, NoCode
  <2>3. ASSUME NEW k \in 1..m PROVE s.decision[k] = NoCode <=> k \in (n + 1)..m
    BY <1>2, <1>3, <1>5, <2>2 DEF Undecided
  <2> QED
    BY <1>2, <1>3, <2>1, <2>3 DEF Undecided
<1>7. \A k \in 1..(n - 1) : s.decision[k] = "APPROVED"
  BY <1>2, <1>3, <1>5
<1>8. s.version - 1 = n /\ n > 0 /\ s.version \in 1..(Len(s.decision) + 1)
  BY <1>2, <1>3, <1>4
<1>9. /\ s.status = "APPROVED" <=> n = Len(s.decision) /\ s.decision[n] = "APPROVED"
      /\ s.status = "REJECTED" <=> n > 0 /\ s.decision[n] = "REJECTED"
  BY <1>4, <1>5, <1>8 DEF Decisions
<1> HIDE DEF n
<1>10. AddsUp(s)
  BY <1>4, <1>6, <1>7, <1>8, <1>9, Zenon DEF AddsUp
<1> QED
  BY <1>8, <1>10 DEF s, r, n

(* Requests keep what they are about, and only open ones move. *)
Moved ==
  /\ requests' \in Seq(Request) /\ Len(requests') = Len(requests)
  /\ \A j \in DOMAIN requests :
       /\ requests'[j].target = requests[j].target /\ requests'[j].type = requests[j].type
       /\ requests'[j].subject = requests[j].subject
       /\ requests[j].status # "PENDING" => requests'[j] = requests[j]

(* Where no request is open nothing moves; an approval is final. *)
LEMMA MovedStatuses ==
  ASSUME ApprovalTypeOK, Moved, NEW d, NEW type
  PROVE  /\ assertNoOpenRequest(d, type) => StatusesOf(d, type)' = StatusesOf(d, type)
         /\ hasApproved(d, type) => hasApproved(d, type)'
         /\ StatusesOf(d, type)' = {} <=> StatusesOf(d, type) = {}
<1>1. DOMAIN requests' = DOMAIN requests /\ DOMAIN requests = 1..Len(requests)
  BY DEF Moved, ApprovalTypeOK
<1> DEFINE J  == {j \in DOMAIN requests : requests[j].target = d /\ requests[j].type = type}
           Jn == {j \in DOMAIN requests' : requests'[j].target = d /\ requests'[j].type = type}
<1>2. J = Jn
  BY <1>1 DEF Moved
<1>3. StatusesOf(d, type) = {requests[j].status : j \in J}
  BY DEF StatusesOf
<1>4. StatusesOf(d, type)' = {requests'[j].status : j \in J}
  BY <1>2 DEF StatusesOf
<1>5. ASSUME NEW j \in J, requests[j].status # "PENDING" PROVE requests'[j] = requests[j]
  BY <1>5 DEF Moved
<1>6. assertNoOpenRequest(d, type) => StatusesOf(d, type)' = StatusesOf(d, type)
  BY <1>3, <1>4, <1>5, Zenon DEF assertNoOpenRequest
<1> HIDE DEF J, Jn
<1>7. hasApproved(d, type) => hasApproved(d, type)'
  BY <1>3, <1>4, <1>5 DEF hasApproved
<1> QED
  BY <1>3, <1>4, <1>6, <1>7

(* A new request shows at its target and its type only. *)
LEMMA AddedStatuses ==
  ASSUME ApprovalTypeOK, NEW e \in Targets, NEW t \in ApprovalTypes, NEW c \in Contents,
         NEW n \in 1..MaxSteps, AddRequest(e, t, c, n), NEW d, NEW type
  PROVE  StatusesOf(d, type)' =
           IF d = e /\ type = t THEN StatusesOf(d, type) \cup {"PENDING"} ELSE StatusesOf(d, type)
<1> DEFINE r == NewRequest(e, t, c, n)  k == Len(requests) + 1
<1>1. r \in Request /\ r.target = e /\ r.type = t /\ r.status = "PENDING"
  BY NewShape
<1> HIDE DEF r
<1>2. requests \in Seq(Request) /\ requests' = Append(requests, r)
  BY DEF ApprovalTypeOK, AddRequest, r
<1>3. /\ k \in Nat /\ DOMAIN requests' = DOMAIN requests \cup {k} /\ k \notin DOMAIN requests
      /\ requests'[k] = r /\ \A j \in DOMAIN requests : requests'[j] = requests[j]
  BY <1>1, <1>2
<1> HIDE DEF k
<1> QED
  BY <1>1, <1>3 DEF StatusesOf
-----------------------------------------------------------------------------
(* Steps of the approvers and of the administration of routes. *)

ApprovalKept == ApprovalTypeOK' /\ Sessions' /\ Versions' /\ DecisionsAddUp' /\ Moved

(* What every approver's transaction knows, in one place. *)
LEMMA SessionShape ==
  ASSUME IInv, NEW a \in Approvers, session[a] # NoSession
  PROVE  LET s == session[a]  r == requests[s.req] IN
         /\ s \in Session /\ s.req \in DOMAIN requests /\ r \in Request
         /\ s.cur <= Len(r.decision) /\ s.seen <= r.version
         /\ s.seen = r.version => r.status = "PENDING" /\ (s.cur # 0 => s.cur = r.version)
<1>1. session[a] \in Session /\ session[a].req \in DOMAIN requests /\ requests \in Seq(Request)
  BY DEF IInv, TypeOK, ApprovalTypeOK
<1> QED
  BY <1>1 DEF IInv, Sessions, TypeOK, ApprovalTypeOK

(* Nothing moves when the requests stay. *)
LEMMA UnmovedRequests ==
  ASSUME ApprovalTypeOK, UNCHANGED requests
  PROVE  Moved
BY DEF Moved, ApprovalTypeOK

(* A transaction that only reads keeps the requests. *)
LEMMA SessionKept ==
  ASSUME IInv, UNCHANGED <<requests, route, routeChanges>>, NEW a \in Approvers, NEW s \in Session,
         session' = [session EXCEPT ![a] = s],
         s # NoSession =>
           /\ s.req \in DOMAIN requests
           /\ s.cur <= Len(requests[s.req].decision)
           /\ s.seen <= requests[s.req].version
           /\ s.seen = requests[s.req].version =>
                /\ requests[s.req].status = "PENDING"
                /\ s.cur # 0 => s.cur = requests[s.req].version
  PROVE  ApprovalKept
<1>1. session \in [Approvers -> Session] /\ ApprovalTypeOK
  BY DEF IInv, TypeOK, ApprovalTypeOK
<1>2. /\ session' \in [Approvers -> Session] /\ session'[a] = s
      /\ \A b \in Approvers : b # a => session'[b] = session[b]
  BY <1>1
<1>3. ASSUME NEW b \in Approvers, session'[b] # NoSession
      PROVE  LET z == session'[b]  r == requests[z.req] IN
             /\ z.req \in DOMAIN requests /\ z.cur <= Len(r.decision) /\ z.seen <= r.version
             /\ z.seen = r.version => r.status = "PENDING" /\ (z.cur # 0 => z.cur = r.version)
  <2>1. CASE b = a
    BY <1>2, <1>3, <2>1
  <2>2. CASE b # a
    BY <1>2, <1>3, <2>2, SessionShape
  <2> QED
    BY <2>1, <2>2
<1>4. ApprovalTypeOK' /\ Sessions'
  BY <1>1, <1>2, <1>3 DEF ApprovalTypeOK, Sessions
<1>5. Versions' /\ DecisionsAddUp'
  BY DEF IInv, Versions, DecisionsAddUp, Undecided
<1> QED
  BY <1>1, <1>4, <1>5, UnmovedRequests DEF ApprovalKept

LEMMA NoSessionType == NoSession \in Session
BY ApprovalAssumption DEF NoSession, Session

LEMMA DecideReadKeeps ==
  ASSUME IInv, NEW a \in Approvers, DecideRead(a)
  PROVE  ApprovalKept
<1>1. PICK i \in DOMAIN requests :
        /\ requests[i].status = "PENDING"
        /\ session' = [session EXCEPT ![a] = [req |-> i, seen |-> requests[i].version, cur |-> 0]]
  BY DEF DecideRead
<1>2. requests \in Seq(Request)
  BY DEF IInv, TypeOK, ApprovalTypeOK
<1>3. requests[i] \in Request /\ i \in Nat
  BY <1>2
<1>4. requests[i].version \in Nat /\ Len(requests[i].decision) \in Nat
  BY <1>3, RequestShape
<1>5. [req |-> i, seen |-> requests[i].version, cur |-> 0] \in Session
  BY <1>3, <1>4, ApprovalAssumption DEF Session
<1> DEFINE s == [req |-> i, seen |-> requests[i].version, cur |-> 0]
<1>6. s.req = i /\ s.seen = requests[i].version /\ s.cur = 0 /\ s \in Session
  BY <1>5
<1> HIDE DEF s
<1>7. session' = [session EXCEPT ![a] = s]
  BY <1>1 DEF s
<1>8. UNCHANGED <<requests, route, routeChanges>>
  BY DEF DecideRead
<1>9. /\ s.req \in DOMAIN requests /\ s.cur = 0 /\ s.cur <= Len(requests[s.req].decision)
      /\ s.seen <= requests[s.req].version /\ requests[s.req].status = "PENDING"
  BY <1>1, <1>4, <1>6
<1> QED
  BY <1>6, <1>7, <1>8, <1>9, SessionKept

LEMMA DecideReadStepsKeeps ==
  ASSUME IInv, NEW a \in Approvers, DecideReadSteps(a)
  PROVE  ApprovalKept
<1> DEFINE s == session[a]
           r == requests[s.req]
           new == IF Undecided(r) # {} THEN [s EXCEPT !.cur = currentStep(r)] ELSE NoSession
<1>1. s # NoSession /\ s.cur = 0 /\ session' = [session EXCEPT ![a] = new]
  BY DEF DecideReadSteps
<1>2. /\ s \in Session /\ s.req \in DOMAIN requests /\ r \in Request /\ s.seen <= r.version
      /\ s.seen = r.version => r.status = "PENDING"
  BY <1>1, SessionShape
<1>3. /\ Len(r.decision) \in 1..MaxSteps /\ DOMAIN r.decision = 1..Len(r.decision)
      /\ r.version \in Nat
  BY <1>2, RequestShape
<1>4. CASE Undecided(r) = {}
  <2>1. new = NoSession
    BY <1>4
  <2> HIDE DEF new
  <2> QED
    BY <1>1, <2>1, NoSessionType, SessionKept DEF DecideReadSteps
<1>5. CASE Undecided(r) # {}
  <2>1. Undecided(r) \subseteq 1..MaxSteps /\ Undecided(r) \subseteq 1..Len(r.decision)
    BY <1>3, ApprovalAssumption DEF Undecided
  <2>2. Undecided(r) = r.version..Len(r.decision) /\ r.version \in 1..(Len(r.decision) + 1)
    <3>1. AddsUp(r) /\ r.version \in 1..(Len(r.decision) + 1)
      BY <1>2 DEF IInv, DecisionsAddUp, AddsUp, Versions
    <3> QED
      BY <1>3, <3>1 DEF AddsUp
  <2>3. r.version \in Undecided(r) /\ \A j \in Undecided(r) : r.version <= j
    BY <1>3, <1>5, <2>2
  <2>4. currentStep(r) \in Undecided(r) /\ \A j \in Undecided(r) : currentStep(r) <= j
    BY <2>3 DEF currentStep
  <2>5. currentStep(r) = r.version
    BY <1>3, <2>1, <2>3, <2>4
  <2>6. /\ new \in Session /\ new.req = s.req /\ new.seen = s.seen /\ new.cur = r.version
        /\ r.version <= Len(r.decision)
    BY <1>2, <1>3, <1>5, <2>1, <2>3, <2>5 DEF Session
  <2> HIDE DEF new
  <2> QED
    BY <1>1, <1>2, <2>6, SessionKept DEF DecideReadSteps
<1> QED
  BY <1>4, <1>5

LEMMA DecideAbortKeeps ==
  ASSUME IInv, NEW a \in Approvers, DecideAbort(a)
  PROVE  ApprovalKept
BY NoSessionType, SessionKept DEF DecideAbort

(* Decisions that meet an unchanged version decide the next step of an     *)
(* open request; the others write nothing.                                 *)
LEMMA DecideWriteKeeps ==
  ASSUME IInv, NEW a \in Approvers, DecideWrite(a)
  PROVE  ApprovalKept
<1> DEFINE s == session[a]
           i == s.req
           r == requests[i]
<1>1. s # NoSession
  BY DEF DecideWrite, NoSession
<1>2. /\ s \in Session /\ i \in DOMAIN requests /\ r \in Request
      /\ s.seen = r.version => r.status = "PENDING" /\ (s.cur # 0 => s.cur = r.version)
  BY <1>1, SessionShape
<1>3. CASE ~assertUpdated(r, s.seen)
  <2>1. UNCHANGED requests
    BY <1>3 DEF DecideWrite
  <2> QED
    BY <2>1, NoSessionType, SessionKept DEF DecideWrite
<1>4. CASE assertUpdated(r, s.seen)
  <2>1. r.status = "PENDING" /\ s.cur = r.version
    BY <1>2, <1>4 DEF DecideWrite, assertUpdated
  <2>2. PICK code \in Decisions : requests' = [requests EXCEPT ![i] = decide(r, code, s.cur)]
    BY <1>4 DEF DecideWrite
  <2> DEFINE n == decide(r, code, r.version)
  <2>3. requests' = [requests EXCEPT ![i] = n]
    BY <2>1, <2>2
  <2>4. r.version \in DOMAIN r.decision
    BY <1>2, <2>1, OpenRequest DEF IInv
  <2>5. /\ n \in Request /\ n.target = r.target /\ n.type = r.type /\ n.subject = r.subject
        /\ n.version = r.version + 1 /\ Len(n.decision) = Len(r.decision)
    <3> HIDE DEF s, i, r
    <3> QED
      <4>1. r \in Request /\ r.version \in DOMAIN r.decision
        BY <1>2, <2>4
      <4>2. n \in Request
        BY <4>1, DecideShape
      <4>3. n.target = r.target /\ n.type = r.type /\ n.subject = r.subject
        BY <4>1 DEF decide, Request
      <4> QED
        BY <4>1, <4>2, <4>3, DecideShape
  <2>6. AddsUp(n) /\ n.version \in 1..(Len(n.decision) + 1)
    BY <1>2, <2>1, DecideAddsUp DEF IInv
  <2> HIDE DEF n
  <2>7. requests \in Seq(Request)
    BY DEF IInv, TypeOK, ApprovalTypeOK
  <2>8. /\ requests' \in Seq(Request) /\ Len(requests') = Len(requests) /\ requests'[i] = n
        /\ DOMAIN requests' = DOMAIN requests
        /\ \A j \in DOMAIN requests : j # i => requests'[j] = requests[j]
    BY <1>2, <2>3, <2>5, <2>7
  <2>9. Moved
    BY <1>2, <2>1, <2>5, <2>8 DEF Moved
  <2>10. Versions'
    BY <1>2, <2>6, <2>8 DEF IInv, Versions
  <2>11. DecisionsAddUp'
    <3>1. \A j \in DOMAIN requests : AddsUp(requests[j])
      BY DEF IInv, DecisionsAddUp, AddsUp
    <3>2. \A j \in DOMAIN requests' : AddsUp(requests'[j])
      BY <1>2, <2>6, <2>8, <3>1
    <3> QED
      BY <3>2 DEF DecisionsAddUp, AddsUp, Undecided
  <2>12. session \in [Approvers -> Session] /\ session' = [session EXCEPT ![a] = NoSession]
    BY DEF DecideWrite, IInv, TypeOK, ApprovalTypeOK
  <2>13. /\ session' \in [Approvers -> Session] /\ session'[a] = NoSession
         /\ \A b \in Approvers : b # a => session'[b] = session[b]
    BY <2>12, NoSessionType
  <2>14. r.version \in Nat
    BY <1>2, RequestShape
  <2>15. ASSUME NEW b \in Approvers, session'[b] # NoSession
         PROVE  LET z == session'[b]  x == requests'[z.req] IN
                /\ z.req \in DOMAIN requests' /\ z.cur <= Len(x.decision) /\ z.seen <= x.version
                /\ z.seen = x.version => x.status = "PENDING" /\ (z.cur # 0 => z.cur = x.version)
    <3>1. b # a /\ session'[b] = session[b]
      BY <2>13, <2>15
    <3>2. LET z == session[b]  x == requests[z.req] IN
          /\ z \in Session /\ z.req \in DOMAIN requests /\ z.cur <= Len(x.decision)
          /\ z.seen <= x.version
          /\ z.seen = x.version => x.status = "PENDING" /\ (z.cur # 0 => z.cur = x.version)
      BY <2>15, <3>1, SessionShape
    <3>3. session[b].seen \in Nat
      BY <3>2 DEF Session
    <3>4. CASE session[b].req = i
      BY <2>5, <2>8, <2>14, <3>1, <3>2, <3>3, <3>4
    <3>5. CASE session[b].req # i
      BY <2>8, <3>1, <3>2, <3>5
    <3> QED
      BY <3>4, <3>5
  <2>16. ApprovalTypeOK'
    BY <2>8, <2>13, <2>15 DEF DecideWrite, ApprovalTypeOK, IInv, TypeOK
  <2>17. Sessions'
    BY <2>15 DEF Sessions
  <2> QED
    BY <2>9, <2>10, <2>11, <2>16, <2>17 DEF ApprovalKept
<1> QED
  BY <1>3, <1>4

LEMMA ChangeRouteKeeps ==
  ASSUME IInv, NEW type \in ApprovalTypes, replaceSteps(type) \/ activate(type) \/ deactivate(type)
  PROVE  ApprovalKept
<1>1. PICK new \in [active : BOOLEAN, steps : 0..MaxSteps] : ChangeRoute(type, new)
  <2>1. route[type] \in [active : BOOLEAN, steps : 0..MaxSteps]
    BY DEF IInv, TypeOK, ApprovalTypeOK
  <2> QED
    BY <2>1 DEF replaceSteps, activate, deactivate
<1>2. /\ route' \in [ApprovalTypes -> [active : BOOLEAN, steps : 0..MaxSteps]]
      /\ routeChanges' \in 0..MaxRouteChanges
  BY <1>1, ApprovalAssumption DEF ChangeRoute, IInv, TypeOK, ApprovalTypeOK
<1>3. UNCHANGED <<requests, session>> /\ ApprovalTypeOK
  BY <1>1 DEF ChangeRoute, IInv, TypeOK
<1>4. ApprovalTypeOK'
  BY <1>2, <1>3 DEF ApprovalTypeOK
<1>5. Sessions' /\ Versions' /\ DecisionsAddUp'
  BY <1>3 DEF IInv, Sessions, Versions, DecisionsAddUp, Undecided
<1> QED
  BY <1>3, <1>4, <1>5, UnmovedRequests DEF ApprovalKept

(* Every step of approval keeps the requests and the sessions in order. *)
LEMMA ApprovalNextKeeps ==
  ASSUME IInv, ApprovalNext
  PROVE  ApprovalKept
BY DecideReadKeeps, DecideReadStepsKeeps, DecideWriteKeeps, DecideAbortKeeps, ChangeRouteKeeps
   DEF ApprovalNext
-----------------------------------------------------------------------------
(* The invariants of one document. *)

MarksAt(d) ==
  LET m == doc[d].marks  cancelled == doc[d].status = "CANCELLED" IN
  /\ \A k \in Marks : m[k] <= 1
  /\ m["correctA"] + m["correctB"] <= 1
  /\ m["reverse"] = (IF cancelled THEN m["post"] ELSE 0)
  /\ m["retract"] = (IF cancelled THEN m["queue"] ELSE 0)
  /\ doc[d].kind = "SHIPMENT" => m["queue"] = (IF doc[d].status = "CONFIRMED" THEN 1 ELSE 0)

UndoneAt(d) ==
  /\ doc[d].status = "CANCELLED" => hasApproved(d, "CANCEL")
  /\ doc[d].marks["correctA"] > 0 => hasApproved(d, "BUSINESS")

LifecycleAt(d) ==
  /\ doc[d].kind \in Stocked => (doc[d].status = "REGISTERED" => doc[d].marks["post"] = 0)
  /\ doc[d].status = "CANCEL_REQUESTED" => StatusesOf(d, "CANCEL") # {}

(* PostedAsApproved, request by request. *)
ShownAt(d) ==
  doc[d].kind \in Stocked =>
    \A j \in DOMAIN requests :
      /\ requests[j].target = d /\ requests[j].type = "BUSINESS"
      /\ requests[j].status # "REJECTED"
      => requests[j].subject = doc[d].content

PostedAt(d) ==
  doc[d].kind \in Stocked =>
    (doc[d].marks["post"] > 0 =>
       StatusesOf(d, "BUSINESS") = {} \/ hasApproved(d, "BUSINESS"))

ConfirmedAt(d) == doc[d].status = "CONFIRMED" => assertNoOpenRequest(d, "CANCEL")

DocAt(d) == MarksAt(d) /\ UndoneAt(d) /\ LifecycleAt(d) /\ ShownAt(d) /\ PostedAt(d)
            /\ ConfirmedAt(d)

DocInv == /\ Lifecycle /\ PostedAsApproved /\ MarksOnce /\ UndoneAfterApproval
          /\ ConfirmedNotInCancel

(* The invariants of the documents, taken together document by document. *)
LEMMA DocSplit == DocInv <=> \A d \in Targets : DocAt(d)
<1>1. MarksOnce <=> \A d \in Targets : MarksAt(d)
  BY DEF MarksOnce, MarksAt
<1>2. UndoneAfterApproval <=> \A d \in Targets : UndoneAt(d)
  BY DEF UndoneAfterApproval, UndoneAt
<1>3. Lifecycle <=> \A d \in Targets : LifecycleAt(d)
  BY DEF Lifecycle, LifecycleAt, Stocked
<1>4. ConfirmedNotInCancel <=> \A d \in Targets : ConfirmedAt(d)
  BY DEF ConfirmedNotInCancel, ConfirmedAt
<1>5. PostedAsApproved <=> \A d \in Targets : ShownAt(d) /\ PostedAt(d)
  <2>1. ASSUME NEW d \in Targets
        PROVE  (\A r \in RequestsOf(d, "BUSINESS") :
                  r.status # "REJECTED" => r.subject = doc[d].content)
               <=> \A j \in DOMAIN requests :
                     /\ requests[j].target = d /\ requests[j].type = "BUSINESS"
                     /\ requests[j].status # "REJECTED"
                     => requests[j].subject = doc[d].content
    BY DEF RequestsOf
  <2>2. ASSUME NEW d \in Targets
        PROVE  RequestsOf(d, "BUSINESS") = {} <=> StatusesOf(d, "BUSINESS") = {}
    BY DEF RequestsOf, StatusesOf
  <2>3. ASSUME NEW d \in Targets
        PROVE  (\E r \in RequestsOf(d, "BUSINESS") : r.status = "APPROVED")
               <=> hasApproved(d, "BUSINESS")
    BY DEF RequestsOf, StatusesOf, hasApproved
  <2> QED
    BY <2>1, <2>2, <2>3 DEF PostedAsApproved, ShownAt, PostedAt, Stocked
<1> QED
  BY <1>1, <1>2, <1>3, <1>4, <1>5 DEF DocInv, DocAt

LEMMA DocSplitNext == (\A d \in Targets : DocAt(d)') => DocInv'
<1>1. DocInv <=> \A d \in Targets : DocAt(d)
  BY DocSplit
<1>2. (\A d \in Targets : DocAt(d)') => (\A d \in Targets : DocAt(d))'
  OBVIOUS
<1> QED
  BY <1>1, <1>2, PTL

(* The three shapes of a caller's state. *)
LEMMA TxShape ==
  ASSUME TypeOK, NEW p \in Procs
  PROVE  /\ Running(p) => tx[p] \in Call
         /\ "seen" \in DOMAIN tx[p] => tx[p] \in Viewing
<1>1. tx[p] \in Call \cup Viewing \cup {NoCall}
  BY DEF TypeOK
<1>2. ASSUME NEW x \in Call PROVE "seen" \notin DOMAIN x
  BY DEF Call
<1>3. ASSUME NEW x \in Viewing PROVE "op" \notin DOMAIN x
  BY DEF Viewing
<1>4. "op" \notin DOMAIN NoCall /\ "seen" \notin DOMAIN NoCall
  BY DEF NoCall
<1> QED
  BY <1>1, <1>2, <1>3, <1>4 DEF Running

(* What a running call has found out stays so while its document and the   *)
(* requests for it change in no way that matters.                          *)
LEMMA StandingFrame ==
  ASSUME NEW p \in Procs, StandingAt(p), tx'[p] = tx[p],
         NEW d, d = tx[p].d, NEW type, type = tx[p].op.type,
         doc'[d].kind = doc[d].kind, doc'[d].status = doc[d].status,
         doc'[d].marks = doc[d].marks,
         assertNoOpenRequest(d, type) => StatusesOf(d, type)' = StatusesOf(d, type),
         hasApproved(d, type) => hasApproved(d, type)',
         StatusesOf(d, type) = {} => StatusesOf(d, type)' = {}
  PROVE  StandingAt(p)'
<1>1. \A g : Passed(p, g)' <=> Passed(p, g)
  BY DEF Passed
<1>2. assertNoOpenRequest(d, type) => assertNoOpenRequest(d, type)'
  BY DEF assertNoOpenRequest
<1>3. assertApproved(d, type) => assertApproved(d, type)'
  BY DEF assertApproved, hasApproved
<1>4. /\ assertNoOpenRequest(d, type) /\ ~hasApproved(d, type)
      => assertNoOpenRequest(d, type)' /\ ~hasApproved(d, type)'
  BY DEF assertNoOpenRequest, hasApproved
<1>5. assertNotCorrected(d)' <=> assertNotCorrected(d)
  BY DEF assertNotCorrected
<1>6. /\ d = tx'[p].d /\ type = tx'[p].op.type /\ tx'[p].op = tx[p].op
      /\ tx'[p].steps = tx[p].steps /\ tx'[p].at = tx[p].at
  OBVIOUS
<1>7. /\ tx[p].at > 0 /\ tx[p].op.on = doc[d].kind /\ doc[d].status \in tx[p].op.from
      /\ Passed(p, "noOpen") => assertNoOpenRequest(d, type)
      /\ Passed(p, "approved") => assertApproved(d, type)
      /\ Passed(p, "hasApproved") => hasApproved(d, type)
      /\ Passed(p, "notApproved") => assertNoOpenRequest(d, type) /\ ~hasApproved(d, type)
      /\ Passed(p, "expand") => tx[p].steps > 0
      /\ Passed(p, "notCorrected") => assertNotCorrected(d)
  BY DEF StandingAt
<1>8. /\ tx'[p].at > 0 /\ tx'[p].op.on = doc'[d].kind /\ doc'[d].status \in tx'[p].op.from
      /\ Passed(p, "noOpen")' => assertNoOpenRequest(d, type)'
      /\ Passed(p, "approved")' => assertApproved(d, type)'
      /\ Passed(p, "hasApproved")' => hasApproved(d, type)'
      /\ Passed(p, "notApproved")' => assertNoOpenRequest(d, type)' /\ ~hasApproved(d, type)'
      /\ Passed(p, "expand")' => tx'[p].steps > 0
      /\ Passed(p, "notCorrected")' => assertNotCorrected(d)'
  BY <1>1, <1>2, <1>3, <1>4, <1>5, <1>6, <1>7
<1> QED
  BY <1>6, <1>8 DEF StandingAt, assertNoOpenRequest, assertApproved, hasApproved, StatusesOf,
                    assertNotCorrected
-----------------------------------------------------------------------------
(* Steps that leave the documents alone. *)

(* Open requests that are decided keep every document in order. *)
LEMMA ApprovalStepKeeps ==
  ASSUME IInv, ApprovalKept, UNCHANGED <<doc, successors, tx>>
  PROVE  IInv'
<1> USE DEF ApprovalKept
<1>1. ApprovalTypeOK /\ \A d \in Targets : DocAt(d)
  BY DocSplit DEF IInv, TypeOK, DocInv
<1>2. TypeOK' /\ Locked'
  BY DEF IInv, TypeOK, Locked, Running
<1>3. Standing'
  <2> SUFFICES ASSUME NEW p \in Procs, Running(p)' PROVE StandingAt(p)'
    BY DEF Standing
  <2>1. Running(p) /\ StandingAt(p)
    BY DEF Running, IInv, Standing
  <2> DEFINE d == tx[p].d  type == tx[p].op.type
  <2>2. /\ assertNoOpenRequest(d, type) => StatusesOf(d, type)' = StatusesOf(d, type)
        /\ hasApproved(d, type) => hasApproved(d, type)'
        /\ StatusesOf(d, type) = {} => StatusesOf(d, type)' = {}
    BY <1>1, MovedStatuses
  <2> QED
    BY <2>1, <2>2, StandingFrame
<1>4. DOMAIN requests' = DOMAIN requests
  BY <1>1 DEF Moved, ApprovalTypeOK
<1>5. ASSUME NEW j \in DOMAIN requests
      PROVE  /\ requests'[j].target = requests[j].target /\ requests'[j].type = requests[j].type
             /\ requests'[j].subject = requests[j].subject
             /\ requests[j].status # "PENDING" => requests'[j].status = requests[j].status
  BY DEF Moved
<1>6. OneOpenRequest'
  BY <1>4, <1>5 DEF IInv, OneOpenRequest
<1>7. ASSUME NEW d \in Targets PROVE DocAt(d)'
  <2>1. DocAt(d)
    BY <1>1
  <2>2. ASSUME NEW type
        PROVE  /\ assertNoOpenRequest(d, type) => StatusesOf(d, type)' = StatusesOf(d, type)
               /\ hasApproved(d, type) => hasApproved(d, type)'
               /\ StatusesOf(d, type)' = {} <=> StatusesOf(d, type) = {}
    BY <1>1, MovedStatuses
  <2>3. MarksAt(d)' /\ LifecycleAt(d)'
    BY <2>1, <2>2 DEF DocAt, MarksAt, LifecycleAt
  <2>4. UndoneAt(d)' /\ PostedAt(d)'
    BY <2>1, <2>2 DEF DocAt, UndoneAt, PostedAt
  <2>5. ConfirmedAt(d)'
    BY <2>1, <2>2 DEF DocAt, ConfirmedAt, assertNoOpenRequest
  <2>6. ShownAt(d)'
    BY <1>4, <1>5, <2>1 DEF DocAt, ShownAt
  <2> QED
    BY <2>3, <2>4, <2>5, <2>6 DEF DocAt
<1>8. DocInv'
  BY <1>7, DocSplitNext
<1> QED
  BY <1>2, <1>3, <1>6, <1>8 DEF IInv, DocInv

(* A step of a caller that writes nothing. *)
LEMMA CallerStepKeeps ==
  ASSUME IInv, UNCHANGED <<approvalVars, doc, successors>>, NEW p \in Procs,
         NEW x \in Call \cup Viewing \cup {NoCall}, tx' = [tx EXCEPT ![p] = x],
         Running(p)' =>
           StandingAt(p)' /\ \A q \in Procs \ {p} : Running(q) => tx[q].d # tx'[p].d
  PROVE  IInv'
<1>1. /\ tx' \in [Procs -> Call \cup Viewing \cup {NoCall}]
      /\ \A q \in Procs : q # p => tx'[q] = tx[q]
  BY DEF IInv, TypeOK
<1>2. TypeOK'
  BY <1>1 DEF IInv, TypeOK, ApprovalTypeOK, approvalVars
<1>3. Locked'
  BY <1>1 DEF IInv, Locked, Running
<1>4. Standing'
  <2> SUFFICES ASSUME NEW q \in Procs, q # p, Running(q)' PROVE StandingAt(q)'
    BY DEF Standing
  <2>1. tx'[q] = tx[q] /\ Running(q) /\ StandingAt(q)
    BY <1>1 DEF Running, IInv, Standing
  <2> QED
    BY <2>1, StandingFrame DEF approvalVars, StatusesOf, hasApproved
<1>5. /\ Sessions' /\ Versions' /\ DecisionsAddUp' /\ OneOpenRequest' /\ Lifecycle'
      /\ MarksOnce' /\ UndoneAfterApproval' /\ ConfirmedNotInCancel' /\ PostedAsApproved'
  <2> USE DEF IInv, approvalVars
  <2>1. Sessions' /\ Versions'
    BY DEF Sessions, Versions
  <2>2. DecisionsAddUp' /\ OneOpenRequest'
    BY DEF DecisionsAddUp, OneOpenRequest, Undecided
  <2>3. Lifecycle' /\ UndoneAfterApproval' /\ ConfirmedNotInCancel'
    BY DEF Lifecycle, UndoneAfterApproval, ConfirmedNotInCancel, StatusesOf, hasApproved,
           assertNoOpenRequest
  <2>4. MarksOnce'
    BY DEF MarksOnce
  <2>5. PostedAsApproved'
    BY DEF PostedAsApproved, RequestsOf
  <2> QED
    BY <2>1, <2>2, <2>3, <2>4, <2>5
<1> QED
  BY <1>2, <1>3, <1>4, <1>5 DEF IInv

LEMMA NotRunning ==
  /\ \A x \in Viewing : "op" \notin DOMAIN x
  /\ "op" \notin DOMAIN NoCall
BY DEF Viewing, NoCall

LEMMA ViewKeeps ==
  ASSUME IInv, NEW p \in Procs, View(p)
  PROVE  IInv'
<1>1. PICK d \in Targets : tx' = [tx EXCEPT ![p] = [d |-> d, seen |-> doc[d].version]]
  BY DEF View
<1>2. doc[d].version \in Nat
  BY DEF IInv, TypeOK, Document
<1>3. [d |-> d, seen |-> doc[d].version] \in Viewing
  BY <1>2 DEF Viewing
<1>4. ~Running(p)'
  BY <1>1, <1>3, NotRunning DEF Running, IInv, TypeOK
<1> QED
  BY <1>1, <1>3, <1>4, CallerStepKeeps DEF View

LEMMA AbortKeeps ==
  ASSUME IInv, NEW p \in Procs, Abort(p)
  PROVE  IInv'
<1>1. tx' = [tx EXCEPT ![p] = NoCall] /\ UNCHANGED <<approvalVars, doc, successors>>
  BY DEF Abort
<1>2. ~Running(p)'
  BY <1>1, NotRunning DEF Running, IInv, TypeOK
<1> QED
  BY <1>1, <1>2, CallerStepKeeps

LEMMA StartKeeps ==
  ASSUME IInv, NEW p \in Procs, Start(p)
  PROVE  IInv'
<1> DEFINE c == tx[p]
<1>1. c \in Viewing
  BY TxShape DEF Start, IInv
<1>2. PICK op \in Operations :
        /\ op.on = doc[c.d].kind
        /\ tx' = [tx EXCEPT ![p] = IF mayStart(op, c.d, c.seen)
                                   THEN [op |-> op, d |-> c.d, at |-> 1, steps |-> 0]
                                   ELSE NoCall]
  BY DEF Start
<1>3. CASE ~mayStart(op, c.d, c.seen)
  <2>1. tx' = [tx EXCEPT ![p] = NoCall]
    BY <1>2, <1>3
  <2>2. ~Running(p)'
    BY <2>1, NotRunning DEF Running, IInv, TypeOK
  <2> QED
    BY <2>1, <2>2, CallerStepKeeps DEF Start
<1>4. CASE mayStart(op, c.d, c.seen)
  <2> DEFINE x == [op |-> op, d |-> c.d, at |-> 1, steps |-> 0]
  <2>1. /\ x \in Call /\ x.op = op /\ x.d = c.d /\ x.at = 1
        /\ tx' = [tx EXCEPT ![p] = x]
    BY <1>1, <1>2, <1>4, ApprovalAssumption DEF Call, Viewing
  <2> HIDE DEF x
  <2>2. tx'[p] = x
    BY <2>1 DEF IInv, TypeOK
  <2>3. \A q \in Procs \ {p} : Running(q) => tx[q].d # tx'[p].d
    BY <2>1, <2>2 DEF Start, lockDocument
  <2>4. \A g : ~Passed(p, g)'
    <3>1. op.gates \in Seq(Gates)
      BY OperationsSound DEF Sound
    <3>2. \A i \in DOMAIN op.gates : ~(i < 1)
      BY <3>1
    <3> QED
      BY <2>1, <2>2, <3>2 DEF Passed
  <2>5. StandingAt(p)'
    BY <1>2, <1>4, <2>1, <2>2, <2>4 DEF StandingAt, mayStart, Start
  <2>6. UNCHANGED <<approvalVars, doc, successors>>
    BY DEF Start
  <2> QED
    BY <2>1, <2>3, <2>5, <2>6, CallerStepKeeps
<1> QED
  BY <1>3, <1>4

(* What it means that a gate lets a call pass. *)
LEMMA PassesMeans ==
  ASSUME NEW gate \in Gates, NEW d, NEW type, Passes(gate, d, type)
  PROVE  /\ gate = "noOpen" => assertNoOpenRequest(d, type)
         /\ gate = "approved" => assertApproved(d, type)
         /\ gate = "hasApproved" => hasApproved(d, type)
         /\ gate = "notApproved" => ~hasApproved(d, type)
         /\ gate = "expand" => expandSteps(type)
         /\ gate = "notCorrected" => assertNotCorrected(d)
BY DEF Passes, Gates

LEMMA GateKeeps ==
  ASSUME IInv, NEW p \in Procs, Gate(p)
  PROVE  IInv'
<1> DEFINE c == tx[p]
           op == c.op
           type == op.type
           gate == op.gates[c.at]
<1>1. c \in Call /\ Running(p) /\ StandingAt(p)
  BY TxShape DEF Gate, IInv, Standing
<1>2. /\ op \in Operations /\ c.d \in Targets /\ c.at \in Nat /\ c.steps \in 0..MaxSteps
  BY <1>1 DEF Call
<1>3. Sound(op)
  BY <1>2, OperationsSound
<1>4. /\ op.gates \in Seq(Gates) /\ type \in ApprovalTypes
      /\ c.at \in DOMAIN op.gates /\ gate \in Gates
  <2>1. op.gates \in Seq(Gates) /\ type \in Types /\ c.at > 0
    BY <1>1, <1>3 DEF Sound, StandingAt
  <2>2. c.at <= Len(op.gates)
    BY DEF Gate
  <2> QED
    BY <1>2, <2>1, <2>2, DocumentsAssumption
<1>5. UNCHANGED <<approvalVars, doc, successors>>
  BY DEF Gate
<1>6. CASE ~Passes(gate, c.d, type)
  <2>1. tx' = [tx EXCEPT ![p] = NoCall]
    BY <1>6 DEF Gate
  <2>2. ~Running(p)'
    BY <2>1, NotRunning DEF Running, IInv, TypeOK
  <2> QED
    BY <1>5, <2>1, <2>2, CallerStepKeeps
<1>7. CASE Passes(gate, c.d, type)
  <2> DEFINE steps == IF gate = "expand" THEN route[type].steps ELSE c.steps
             x == [c EXCEPT !.at = c.at + 1, !.steps = steps]
  <2>1. tx' = [tx EXCEPT ![p] = x]
    BY <1>7 DEF Gate
  <2>2. route[type].steps \in 0..MaxSteps
    BY <1>4 DEF IInv, TypeOK, ApprovalTypeOK
  <2>3. x \in Call /\ x.op = op /\ x.d = c.d /\ x.at = c.at + 1 /\ x.steps = steps
    <3>1. steps \in 0..MaxSteps /\ c.at + 1 \in Nat
      BY <1>2, <2>2
    <3>2. /\ x \in Call /\ x.op = c.op /\ x.d = c.d /\ x.at = c.at + 1
          /\ x.steps = steps
      <4> HIDE DEF steps, c, op, type, gate
      <4> QED
        BY <1>1, <3>1 DEF Call
    <3> QED
      BY <3>2
  <2> HIDE DEF x
  <2>4. tx'[p] = x
    BY <2>1 DEF IInv, TypeOK
  <2>5. \A q \in Procs \ {p} : Running(q) => tx[q].d # tx'[p].d
    BY <1>1, <2>3, <2>4 DEF IInv, Locked
  <2>6. ASSUME NEW g PROVE Passed(p, g)' => Passed(p, g) \/ g = gate
    <3>1. \A i \in DOMAIN op.gates : i < c.at + 1 => i < c.at \/ i = c.at
      BY <1>2, <1>4
    <3> QED
      BY <2>3, <2>4, <3>1 DEF Passed
  <2>7. gate = "notApproved" => assertNoOpenRequest(c.d, type)
    <3>1. gate = "notApproved" => Passed(p, "noOpen")
      BY <1>3, <1>4 DEF Sound, Passed
    <3> QED
      BY <1>1, <3>1 DEF StandingAt
  <2>8. /\ gate = "noOpen" => assertNoOpenRequest(c.d, type)
        /\ gate = "approved" => assertApproved(c.d, type)
        /\ gate = "hasApproved" => hasApproved(c.d, type)
        /\ gate = "notApproved" => ~hasApproved(c.d, type)
        /\ gate = "expand" => expandSteps(type)
        /\ gate = "notCorrected" => assertNotCorrected(c.d)
    BY <1>4, <1>7, PassesMeans
  <2>9. /\ op.on = doc[c.d].kind /\ doc[c.d].status \in op.from
        /\ Passed(p, "noOpen")' => assertNoOpenRequest(c.d, type)
        /\ Passed(p, "approved")' => assertApproved(c.d, type)
        /\ Passed(p, "hasApproved")' => hasApproved(c.d, type)
        /\ Passed(p, "notApproved")' =>
             assertNoOpenRequest(c.d, type) /\ ~hasApproved(c.d, type)
        /\ Passed(p, "notCorrected")' => assertNotCorrected(c.d)
    BY <1>1, <2>6, <2>7, <2>8 DEF StandingAt
  <2>10. Passed(p, "expand")' => x.steps > 0
    BY <1>1, <2>3, <2>6, <2>8 DEF StandingAt, expandSteps
  <2>11. StandingAt(p)'
    BY <1>2, <1>5, <2>3, <2>4, <2>9, <2>10
       DEF StandingAt, approvalVars, assertNoOpenRequest, assertApproved, hasApproved,
           StatusesOf, assertNotCorrected
  <2> QED
    BY <1>5, <2>1, <2>3, <2>5, <2>11, CallerStepKeeps
<1> QED
  BY <1>6, <1>7

LEMMA SuccessorKeeps ==
  ASSUME IInv, NEW d \in Targets, CreateSuccessor(d) \/ CancelSuccessor(d)
  PROVE  IInv'
<1>1. successors' \in [Targets -> 0..MaxSuccessors]
  BY DocumentsAssumption DEF CreateSuccessor, CancelSuccessor, IInv, TypeOK
<1>2. UNCHANGED <<approvalVars, doc, tx>>
  BY DEF CreateSuccessor, CancelSuccessor
<1>3. TypeOK' /\ Locked'
  BY <1>1, <1>2 DEF IInv, TypeOK, ApprovalTypeOK, approvalVars, Locked, Running
<1>4. Sessions' /\ Versions' /\ DecisionsAddUp' /\ OneOpenRequest'
  BY <1>2 DEF IInv, approvalVars, Sessions, Versions, DecisionsAddUp, OneOpenRequest, Undecided
<1>5. Lifecycle' /\ UndoneAfterApproval' /\ ConfirmedNotInCancel' /\ MarksOnce'
  BY <1>2 DEF IInv, approvalVars, Lifecycle, UndoneAfterApproval, ConfirmedNotInCancel,
              StatusesOf, hasApproved, assertNoOpenRequest, MarksOnce
<1>6. PostedAsApproved'
  BY <1>2 DEF IInv, approvalVars, PostedAsApproved, RequestsOf
<1>7. Standing'
  <2> SUFFICES ASSUME NEW p \in Procs, Running(p)' PROVE StandingAt(p)'
    BY DEF Standing
  <2>1. Running(p) /\ StandingAt(p)
    BY <1>2 DEF Running, IInv, Standing
  <2> QED
    BY <1>2, <2>1, StandingFrame DEF approvalVars, StatusesOf, hasApproved
<1> QED
  BY <1>3, <1>4, <1>5, <1>6, <1>7 DEF IInv
-----------------------------------------------------------------------------
(* Steps that write. *)

(* A call that has asked all its questions still stands on the answers. *)
LEMMA FinishFacts ==
  ASSUME IInv, NEW p \in Procs, NEW e, Finish(p, e)
  PROVE  LET op == tx[p].op  d == tx[p].d IN
         /\ Running(p) /\ op \in Operations /\ Sound(op) /\ op.effect = e
         /\ d \in Targets /\ tx[p].steps \in 0..MaxSteps /\ op.type \in ApprovalTypes
         /\ op.on = doc[d].kind /\ doc[d].status \in op.from
         /\ Asks(op, "noOpen") => assertNoOpenRequest(d, op.type)
         /\ Asks(op, "approved") => assertApproved(d, op.type)
         /\ Asks(op, "hasApproved") => hasApproved(d, op.type)
         /\ Asks(op, "notApproved") => assertNoOpenRequest(d, op.type) /\ ~hasApproved(d, op.type)
         /\ Asks(op, "expand") => tx[p].steps > 0
         /\ Asks(op, "notCorrected") => assertNotCorrected(d)
<1> DEFINE op == tx[p].op
<1>1. tx[p] \in Call /\ Running(p) /\ StandingAt(p)
  BY TxShape DEF Finish, IInv, Standing
<1>2. /\ op \in Operations /\ tx[p].d \in Targets /\ tx[p].at \in Nat
      /\ tx[p].steps \in 0..MaxSteps
  BY <1>1 DEF Call
<1>3. Sound(op)
  BY <1>2, OperationsSound
<1>4. op.gates \in Seq(Gates) /\ op.type \in ApprovalTypes
  BY <1>3, DocumentsAssumption DEF Sound
<1>5. ASSUME NEW g, Asks(op, g) PROVE Passed(p, g)
  <2>1. \A i \in DOMAIN op.gates : i < tx[p].at
    BY <1>2, <1>4 DEF Finish
  <2> QED
    BY <1>5, <2>1 DEF Asks, Passed
<1> QED
  BY <1>1, <1>2, <1>3, <1>4, <1>5 DEF StandingAt, Finish

(* The document, the requests for it and the call change; the rest of the  *)
(* world does not notice.                                                  *)
LEMMA FinishKeeps ==
  ASSUME IInv, NEW p \in Procs, NEW e, Finish(p, e),
         doc' \in [Targets -> Document],
         \A o \in Targets : o # tx[p].d => doc'[o] = doc[o],
         \A o : o # tx[p].d => \A type : StatusesOf(o, type)' = StatusesOf(o, type),
         \A o \in Targets : o # tx[p].d => ShownAt(o)',
         \A o \in Targets : o = tx[p].d => DocAt(o)',
         ApprovalTypeOK', Sessions', Versions', DecisionsAddUp', OneOpenRequest'
  PROVE  IInv'
<1>1. Running(p) /\ tx' = [tx EXCEPT ![p] = NoCall]
  BY DEF Finish
<1>2. /\ tx' \in [Procs -> Call \cup Viewing \cup {NoCall}] /\ tx'[p] = NoCall
      /\ \A q \in Procs : q # p => tx'[q] = tx[q]
  BY <1>1 DEF IInv, TypeOK
<1>3. ~Running(p)'
  BY <1>2, NotRunning DEF Running
<1>4. TypeOK'
  BY <1>2 DEF IInv, TypeOK, Finish
<1>5. Locked'
  BY <1>2, <1>3 DEF IInv, Locked, Running
<1>6. Standing'
  <2> SUFFICES ASSUME NEW q \in Procs, Running(q)' PROVE StandingAt(q)'
    BY DEF Standing
  <2>1. q # p
    BY <1>3
  <2>2. tx'[q] = tx[q] /\ Running(q)
    BY <1>2, <2>1 DEF Running
  <2>3. tx[q] \in Call /\ StandingAt(q)
    BY <2>2, TxShape DEF IInv, Standing
  <2>4. tx[q].d # tx[p].d /\ tx[q].d \in Targets
    BY <1>1, <2>1, <2>2, <2>3 DEF IInv, Locked, Call
  <2>5. PICK o \in Targets : o = tx[q].d
    BY <2>4
  <2>6. PICK type : type = tx[q].op.type
    OBVIOUS
  <2>7. doc'[o] = doc[o] /\ StatusesOf(o, type)' = StatusesOf(o, type)
    BY <2>4, <2>5
  <2>8. hasApproved(o, type)' <=> hasApproved(o, type)
    BY <2>7 DEF hasApproved
  <2> QED
    BY <2>2, <2>3, <2>5, <2>6, <2>7, <2>8, StandingFrame
<1>7. ASSUME NEW o \in Targets PROVE DocAt(o)'
  <2>1. CASE o = tx[p].d
    BY <2>1
  <2>2. CASE o # tx[p].d
    <3>1. DocAt(o)
      BY DocSplit DEF IInv, DocInv
    <3>2. doc'[o] = doc[o] /\ \A type : StatusesOf(o, type)' = StatusesOf(o, type)
      BY <2>2
    <3>3. \A type : hasApproved(o, type)' <=> hasApproved(o, type)
      BY <3>2 DEF hasApproved
    <3>4. \A type : assertNoOpenRequest(o, type)' <=> assertNoOpenRequest(o, type)
      BY <3>2 DEF assertNoOpenRequest
    <3>5. MarksAt(o)' /\ LifecycleAt(o)' /\ UndoneAt(o)' /\ PostedAt(o)' /\ ConfirmedAt(o)'
      BY <3>1, <3>2, <3>3, <3>4
         DEF DocAt, MarksAt, LifecycleAt, UndoneAt, PostedAt, ConfirmedAt
    <3> QED
      BY <2>2, <3>5 DEF DocAt
  <2> QED
    BY <2>1, <2>2
<1>8. DocInv'
  BY <1>7, DocSplitNext
<1> QED
  BY <1>4, <1>5, <1>6, <1>8 DEF IInv, DocInv

(* An operation that writes the document alone. *)
LEMMA DocumentWriteKeeps ==
  ASSUME IInv, NEW p \in Procs, NEW e, Finish(p, e), UNCHANGED requests,
         NEW d \in Targets, d = tx[p].d, doc' \in [Targets -> Document],
         \A o \in Targets : o # d => doc'[o] = doc[o], DocAt(d)'
  PROVE  IInv'
<1>1. ApprovalTypeOK' /\ Sessions' /\ Versions' /\ DecisionsAddUp' /\ OneOpenRequest'
  BY DEF Finish, IInv, TypeOK, ApprovalTypeOK, Sessions, Versions, DecisionsAddUp,
         OneOpenRequest, Undecided
<1>2. \A o : \A type : StatusesOf(o, type)' = StatusesOf(o, type)
  BY DEF StatusesOf
<1>3. ASSUME NEW o \in Targets, o # d PROVE ShownAt(o)'
  <2>1. ShownAt(o)
    BY DocSplit DEF IInv, DocInv, DocAt
  <2> QED
    BY <1>3, <2>1 DEF ShownAt
<1> QED
  BY <1>1, <1>2, <1>3, FinishKeeps

(* A request made for a document that has none open leaves the others as   *)
(* they are.                                                               *)
LEMMA RequestWriteKeeps ==
  ASSUME IInv, NEW p \in Procs, NEW e, Finish(p, e),
         NEW d \in Targets, d = tx[p].d, NEW type \in ApprovalTypes, type = tx[p].op.type,
         doc' \in [Targets -> Document], \A o \in Targets : o # d => doc'[o] = doc[o],
         AddRequest(d, type, doc[d].content, tx[p].steps),
         assertNoOpenRequest(d, type), tx[p].steps \in 1..MaxSteps, DocAt(d)'
  PROVE  IInv'
<1> DEFINE c == doc[d].content
           n == tx[p].steps
           r == NewRequest(d, type, c, n)
           k == Len(requests) + 1
<1>1. ApprovalTypeOK /\ requests \in Seq(Request) /\ c \in Contents
  BY DEF IInv, TypeOK, ApprovalTypeOK, Document
<1>2. /\ r \in Request /\ r.target = d /\ r.type = type
      /\ r.status = "PENDING" /\ r.version = 1 /\ Len(r.decision) = n
      /\ \A i \in 1..n : r.decision[i] = NoCode
      /\ DOMAIN r.decision = 1..n
  BY <1>1, NewShape
<1>3. requests' = Append(requests, r)
  BY DEF AddRequest
<1> HIDE DEF r, c
<1>4. /\ k \in Nat /\ DOMAIN requests' = DOMAIN requests \cup {k} /\ k \notin DOMAIN requests
      /\ requests' \in Seq(Request)
      /\ requests'[k] = r /\ \A j \in DOMAIN requests : requests'[j] = requests[j]
  BY <1>1, <1>2, <1>3
<1> HIDE DEF k
<1>5. UNCHANGED <<route, routeChanges, session>>
  BY DEF Finish
<1>6. ApprovalTypeOK'
  BY <1>1, <1>4, <1>5 DEF ApprovalTypeOK
<1>7. Sessions'
  <2> SUFFICES ASSUME NEW a \in Approvers, session[a] # NoSession
               PROVE  LET s == session[a]  q == requests'[s.req] IN
                      /\ s.seen <= q.version
                      /\ s.seen = q.version =>
                           q.status = "PENDING" /\ (s.cur # 0 => s.cur = q.version)
    BY <1>5 DEF Sessions
  <2>1. session[a].req \in DOMAIN requests
    BY SessionShape
  <2>2. requests'[session[a].req] = requests[session[a].req]
    BY <1>4, <2>1
  <2> QED
    BY <2>2, SessionShape
<1>8. r.version \in 1..(Len(r.decision) + 1) /\ AddsUp(r)
  <2>1. Undecided(r) = 1..n
    BY <1>2 DEF Undecided
  <2>2. n \in Nat /\ n > 0
    BY ApprovalAssumption
  <2> HIDE DEF n
  <2>3. r.version - 1 = 0 /\ r.status # "APPROVED" /\ r.status # "REJECTED"
    BY <1>2
  <2>4. Undecided(r) = (0 + 1)..Len(r.decision) /\ 0 # Len(r.decision) /\ ~(0 > 0)
        /\ \A i \in 1..(0 - 1) : r.decision[i] = "APPROVED"
    BY <1>2, <2>1, <2>2
  <2>5. AddsUp(r)
    BY <2>3, <2>4, Zenon DEF AddsUp
  <2> QED
    BY <1>2, <2>2, <2>5
<1>9. Versions'
  BY <1>4, <1>8 DEF IInv, Versions
<1>10. DecisionsAddUp'
  <2>1. \A j \in DOMAIN requests : AddsUp(requests[j])
    BY DEF IInv, DecisionsAddUp, AddsUp
  <2>2. \A j \in DOMAIN requests' : AddsUp(requests'[j])
    BY <1>4, <1>8, <2>1
  <2> QED
    BY <2>2 DEF DecisionsAddUp, AddsUp, Undecided
<1>11. OneOpenRequest'
  <2>1. \A j \in DOMAIN requests :
          requests[j].target = d /\ requests[j].type = type => requests[j].status # "PENDING"
    BY DEF assertNoOpenRequest, StatusesOf
  <2> QED
    BY <1>2, <1>4, <2>1 DEF IInv, OneOpenRequest
<1>12. ASSUME NEW o, o # d, NEW t PROVE StatusesOf(o, t)' = StatusesOf(o, t)
  BY <1>1, <1>12, AddedStatuses DEF c
<1>13. ASSUME NEW o \in Targets, o # d PROVE ShownAt(o)'
  <2>1. ShownAt(o)
    BY DocSplit DEF IInv, DocInv, DocAt
  <2> QED
    BY <1>2, <1>4, <1>13, <2>1 DEF ShownAt
<1> QED
  BY <1>6, <1>7, <1>9, <1>10, <1>11, <1>12, <1>13, FinishKeeps

(* A document without an open request and without an approval has had all  *)
(* its requests rejected.                                                  *)
LEMMA AllRejected ==
  ASSUME ApprovalTypeOK, NEW d, NEW type, assertNoOpenRequest(d, type), ~hasApproved(d, type),
         NEW j \in DOMAIN requests, requests[j].target = d, requests[j].type = type
  PROVE  requests[j].status = "REJECTED"
<1>1. requests[j] \in Request
  BY DEF ApprovalTypeOK
<1>2. requests[j].status \in {"PENDING", "APPROVED", "REJECTED"}
  BY <1>1 DEF Request, Decisions
<1>3. requests[j].status \in StatusesOf(d, type)
  BY DEF StatusesOf
<1> QED
  BY <1>2, <1>3 DEF assertNoOpenRequest, hasApproved

(* What the proof of every write starts from. *)
LEMMA WrittenDocument ==
  ASSUME IInv, NEW p \in Procs, NEW e, Finish(p, e)
  PROVE  /\ doc \in [Targets -> Document] /\ doc[tx[p].d] \in Document
         /\ DocAt(tx[p].d) /\ ApprovalTypeOK
         /\ tx[p].d \in DOMAIN doc
         /\ doc[tx[p].d].marks \in [Marks -> Nat] /\ doc[tx[p].d].version \in Nat
<1>1. tx[p].d \in Targets
  BY FinishFacts
<1> QED
  BY <1>1, DocSplit DEF IInv, TypeOK, DocInv, Document

LEMMA EditKeeps ==
  ASSUME IInv, NEW p \in Procs, Edit(p)
  PROVE  IInv'
<1>1. Finish(p, "edit") /\ UNCHANGED requests
  BY DEF Edit
<1>2. PICK d \in Targets : d = tx[p].d
  BY <1>1, FinishFacts
<1>3. /\ doc \in [Targets -> Document] /\ doc[d] \in Document
      /\ DocAt(d) /\ ApprovalTypeOK
  BY <1>1, <1>2, WrittenDocument
<1>4. PICK c \in Contents :
        doc' = [doc EXCEPT ![d].content = c, ![d].version = @ + 1]
  BY <1>2 DEF Edit
<1>5. /\ doc' \in [Targets -> Document] /\ \A o \in Targets : o # d => doc'[o] = doc[o]
      /\ doc'[d].kind = doc[d].kind /\ doc'[d].status = doc[d].status
      /\ doc'[d].marks = doc[d].marks
  BY <1>3, <1>4 DEF Document
<1>6. \A type : StatusesOf(d, type)' = StatusesOf(d, type)
  BY <1>1 DEF StatusesOf
<1>7. MarksAt(d)' /\ LifecycleAt(d)' /\ UndoneAt(d)' /\ PostedAt(d)' /\ ConfirmedAt(d)'
  BY <1>3, <1>5, <1>6
     DEF DocAt, MarksAt, LifecycleAt, UndoneAt, PostedAt, ConfirmedAt, hasApproved,
         assertNoOpenRequest
<1>8. ShownAt(d)'
  <2> SUFFICES ASSUME doc[d].kind \in Stocked, NEW j \in DOMAIN requests,
                      requests[j].target = d, requests[j].type = "BUSINESS"
               PROVE  requests[j].status = "REJECTED"
    BY <1>1, <1>5 DEF ShownAt
  <2>1. assertNoOpenRequest(d, "BUSINESS") /\ ~hasApproved(d, "BUSINESS")
    BY <1>1, <1>2, FinishFacts DEF Sound
  <2> QED
    BY <1>3, <2>1, AllRejected
<1>9. DocAt(d)'
  BY <1>7, <1>8 DEF DocAt
<1> QED
  BY <1>1, <1>2, <1>5, <1>9, DocumentWriteKeeps

LEMMA PostKeeps ==
  ASSUME IInv, NEW p \in Procs, Post(p)
  PROVE  IInv'
<1>1. Finish(p, "post") /\ UNCHANGED requests
  BY DEF Post
<1>2. PICK d \in Targets : d = tx[p].d
  BY <1>1, FinishFacts
<1>3. /\ doc \in [Targets -> Document] /\ DocAt(d)
      /\ doc[d].marks \in [Marks -> Nat] /\ doc[d].version \in Nat
  BY <1>1, <1>2, WrittenDocument
<1>4. /\ doc[d].kind \in Stocked /\ doc[d].status = "REGISTERED"
      /\ assertApproved(d, "BUSINESS")
  BY <1>1, <1>2, FinishFacts DEF Sound
<1> DEFINE m == doc[d].marks
<1>5. doc' = [doc EXCEPT ![d].status = "POSTED", ![d].version = @ + 1, ![d].marks["post"] = @ + 1]
  BY <1>2 DEF Post
<1>6. /\ doc' \in [Targets -> Document] /\ \A o \in Targets : o # d => doc'[o] = doc[o]
      /\ doc'[d].kind = doc[d].kind /\ doc'[d].status = "POSTED"
      /\ doc'[d].content = doc[d].content
      /\ doc'[d].marks = [m EXCEPT !["post"] = @ + 1]
  BY <1>3, <1>5 DEF Document, Statuses, Marks
<1>7. /\ doc'[d].marks["post"] = m["post"] + 1
      /\ \A k \in Marks : k # "post" => doc'[d].marks[k] = m[k]
  BY <1>3, <1>6 DEF Marks
<1>8. \A type : StatusesOf(d, type)' = StatusesOf(d, type)
  BY <1>1 DEF StatusesOf
<1>9. m["post"] = 0
  BY <1>3, <1>4 DEF DocAt, LifecycleAt
<1>10. MarksAt(d)'
  BY <1>3, <1>4, <1>6, <1>7, <1>9 DEF DocAt, MarksAt, Marks, Stocked
<1>11. LifecycleAt(d)' /\ ConfirmedAt(d)'
  BY <1>6 DEF LifecycleAt, ConfirmedAt
<1>12. UndoneAt(d)'
  BY <1>3, <1>6, <1>7, <1>8 DEF DocAt, UndoneAt, Marks, hasApproved
<1>13. PostedAt(d)'
  BY <1>4, <1>8 DEF PostedAt, assertApproved, hasApproved
<1>14. ShownAt(d)'
  BY <1>1, <1>3, <1>6 DEF DocAt, ShownAt
<1>15. DocAt(d)'
  BY <1>10, <1>11, <1>12, <1>13, <1>14 DEF DocAt
<1> QED
  BY <1>1, <1>2, <1>6, <1>15, DocumentWriteKeeps

LEMMA CancelKeeps ==
  ASSUME IInv, NEW p \in Procs, Cancel(p)
  PROVE  IInv'
<1>1. Finish(p, "cancel") /\ UNCHANGED requests
  BY DEF Cancel
<1>2. PICK d \in Targets : d = tx[p].d
  BY <1>1, FinishFacts
<1>3. /\ doc \in [Targets -> Document] /\ DocAt(d)
      /\ doc[d].marks \in [Marks -> Nat] /\ doc[d].version \in Nat
  BY <1>1, <1>2, WrittenDocument
<1>4. /\ doc[d].status \in {"CANCEL_REQUESTED", "UNCONFIRMED"}
      /\ doc[d].kind = "SHIPMENT" => doc[d].status = "UNCONFIRMED"
      /\ doc[d].status = "CANCEL_REQUESTED" => assertApproved(d, "CANCEL")
      /\ doc[d].status = "UNCONFIRMED" => hasApproved(d, "CANCEL")
  BY <1>1, <1>2, FinishFacts DEF Sound
<1> DEFINE m == doc[d].marks
           n == [m EXCEPT !["reverse"] = IF m["post"] > 0 THEN @ + 1 ELSE @,
                          !["retract"] = IF m["queue"] > 0 THEN @ + 1 ELSE @]
<1>5. doc' = [doc EXCEPT ![d].status = "CANCELLED", ![d].version = @ + 1, ![d].marks = n]
  BY <1>2 DEF Cancel
<1>6. /\ n \in [Marks -> Nat]
      /\ n["reverse"] = IF m["post"] > 0 THEN m["reverse"] + 1 ELSE m["reverse"]
      /\ n["retract"] = IF m["queue"] > 0 THEN m["retract"] + 1 ELSE m["retract"]
      /\ \A k \in Marks : k \notin {"reverse", "retract"} => n[k] = m[k]
  BY <1>3 DEF Marks
<1> HIDE DEF n
<1>7. /\ doc' \in [Targets -> Document] /\ \A o \in Targets : o # d => doc'[o] = doc[o]
      /\ doc'[d].kind = doc[d].kind /\ doc'[d].status = "CANCELLED"
      /\ doc'[d].content = doc[d].content /\ doc'[d].marks = n
  BY <1>3, <1>5, <1>6 DEF Document, Statuses
<1>8. \A type : StatusesOf(d, type)' = StatusesOf(d, type)
  BY <1>1 DEF StatusesOf
<1>9. hasApproved(d, "CANCEL")
  BY <1>3, <1>4 DEF DocAt, LifecycleAt, assertApproved, hasApproved
<1>10. MarksAt(d)'
  <2>1. /\ \A k \in Marks : m[k] \in 0..1
        /\ m["correctA"] + m["correctB"] <= 1 /\ m["reverse"] = 0 /\ m["retract"] = 0
        /\ doc[d].kind = "SHIPMENT" => m["queue"] = 0
    BY <1>3, <1>4 DEF DocAt, MarksAt, Marks
  <2> QED
    BY <1>6, <1>7, <2>1 DEF MarksAt, Marks
<1>11. LifecycleAt(d)' /\ ConfirmedAt(d)'
  BY <1>7 DEF LifecycleAt, ConfirmedAt
<1>12. UndoneAt(d)'
  BY <1>3, <1>6, <1>7, <1>8, <1>9 DEF DocAt, UndoneAt, Marks, hasApproved
<1>13. PostedAt(d)'
  BY <1>3, <1>6, <1>7, <1>8 DEF DocAt, PostedAt, hasApproved, Marks
<1>14. ShownAt(d)'
  BY <1>1, <1>3, <1>7 DEF DocAt, ShownAt
<1>15. DocAt(d)'
  BY <1>10, <1>11, <1>12, <1>13, <1>14 DEF DocAt
<1> QED
  BY <1>1, <1>2, <1>7, <1>15, DocumentWriteKeeps

LEMMA ConfirmKeeps ==
  ASSUME IInv, NEW p \in Procs, Confirm(p)
  PROVE  IInv'
<1>1. Finish(p, "confirm") /\ UNCHANGED requests
  BY DEF Confirm
<1>2. PICK d \in Targets : d = tx[p].d
  BY <1>1, FinishFacts
<1>3. /\ doc \in [Targets -> Document] /\ DocAt(d)
      /\ doc[d].marks \in [Marks -> Nat] /\ doc[d].version \in Nat
  BY <1>1, <1>2, WrittenDocument
<1>4. /\ doc[d].kind = "SHIPMENT" /\ doc[d].status = "UNCONFIRMED"
      /\ assertNoOpenRequest(d, "CANCEL")
  BY <1>1, <1>2, FinishFacts DEF Sound
<1> DEFINE m == doc[d].marks
<1>5. doc' = [doc EXCEPT ![d].status = "CONFIRMED", ![d].version = @ + 1,
                         ![d].marks["queue"] = @ + 1]
  BY <1>2 DEF Confirm
<1>6. /\ doc' \in [Targets -> Document] /\ \A o \in Targets : o # d => doc'[o] = doc[o]
      /\ doc'[d].kind = doc[d].kind /\ doc'[d].status = "CONFIRMED"
      /\ doc'[d].content = doc[d].content
      /\ doc'[d].marks = [m EXCEPT !["queue"] = @ + 1]
  BY <1>3, <1>5 DEF Document, Statuses, Marks
<1>7. /\ doc'[d].marks["queue"] = m["queue"] + 1
      /\ \A k \in Marks : k # "queue" => doc'[d].marks[k] = m[k]
  BY <1>3, <1>6 DEF Marks
<1>8. \A type : StatusesOf(d, type)' = StatusesOf(d, type)
  BY <1>1 DEF StatusesOf
<1>9. MarksAt(d)'
  <2>1. /\ \A k \in Marks : m[k] <= 1
        /\ m["correctA"] + m["correctB"] <= 1 /\ m["reverse"] = 0 /\ m["retract"] = 0
        /\ m["queue"] = 0
    BY <1>3, <1>4 DEF DocAt, MarksAt, Marks
  <2> QED
    BY <1>6, <1>7, <2>1 DEF MarksAt, Marks
<1>10. LifecycleAt(d)' /\ PostedAt(d)' /\ ShownAt(d)'
  BY <1>4, <1>6 DEF LifecycleAt, PostedAt, ShownAt, Stocked
<1>11. ConfirmedAt(d)'
  BY <1>4, <1>8 DEF ConfirmedAt, assertNoOpenRequest
<1>12. UndoneAt(d)'
  BY <1>3, <1>6, <1>7, <1>8 DEF DocAt, UndoneAt, Marks, hasApproved
<1>13. DocAt(d)'
  BY <1>9, <1>10, <1>11, <1>12 DEF DocAt
<1> QED
  BY <1>1, <1>2, <1>6, <1>13, DocumentWriteKeeps

LEMMA CorrectKeeps ==
  ASSUME IInv, NEW p \in Procs, Correct(p)
  PROVE  IInv'
<1>1. PICK effect \in {"correctA", "correctB"} :
        /\ Finish(p, effect) /\ UNCHANGED requests
        /\ doc' = [doc EXCEPT ![tx[p].d].marks[effect] = @ + 1]
  BY DEF Correct
<1>2. PICK d \in Targets : d = tx[p].d
  BY <1>1, FinishFacts
<1>3. /\ doc \in [Targets -> Document] /\ DocAt(d)
      /\ doc[d].marks \in [Marks -> Nat] /\ doc[d].version \in Nat
  BY <1>1, <1>2, WrittenDocument
<1>4. /\ doc[d].kind = "PRODUCTION_RESULT" /\ assertNotCorrected(d)
      /\ effect = "correctA" => hasApproved(d, "BUSINESS")
  BY <1>1, <1>2, FinishFacts DEF Sound
<1> DEFINE m == doc[d].marks
<1>5. doc' = [doc EXCEPT ![d].marks[effect] = @ + 1]
  BY <1>1, <1>2
<1>6. /\ doc' \in [Targets -> Document] /\ \A o \in Targets : o # d => doc'[o] = doc[o]
      /\ doc'[d].kind = doc[d].kind /\ doc'[d].status = doc[d].status
      /\ doc'[d].content = doc[d].content
      /\ doc'[d].marks = [m EXCEPT ![effect] = @ + 1]
  BY <1>3, <1>5 DEF Document, Marks
<1>7. /\ doc'[d].marks[effect] = m[effect] + 1
      /\ \A k \in Marks : k # effect => doc'[d].marks[k] = m[k]
  BY <1>3, <1>6 DEF Marks
<1>8. \A type : StatusesOf(d, type)' = StatusesOf(d, type)
  BY <1>1 DEF StatusesOf
<1>9. m["correctA"] = 0 /\ m["correctB"] = 0
  BY <1>3, <1>4 DEF assertNotCorrected, Marks
<1>10. MarksAt(d)'
  <2>1. /\ \A k \in Marks : m[k] <= 1
        /\ m["reverse"] = (IF doc[d].status = "CANCELLED" THEN m["post"] ELSE 0)
        /\ m["retract"] = (IF doc[d].status = "CANCELLED" THEN m["queue"] ELSE 0)
    BY <1>3 DEF DocAt, MarksAt
  <2>2. /\ \A k \in Marks : doc'[d].marks[k] <= 1
        /\ doc'[d].marks["correctA"] + doc'[d].marks["correctB"] <= 1
    BY <1>7, <1>9, <2>1 DEF Marks
  <2> QED
    BY <1>4, <1>6, <1>7, <2>1, <2>2 DEF MarksAt, Marks
<1>11. LifecycleAt(d)' /\ PostedAt(d)' /\ ShownAt(d)' /\ ConfirmedAt(d)'
  BY <1>3, <1>4, <1>6, <1>8
     DEF DocAt, LifecycleAt, PostedAt, ShownAt, ConfirmedAt, Stocked, assertNoOpenRequest
<1>12. UndoneAt(d)'
  BY <1>3, <1>4, <1>6, <1>7, <1>8, <1>9 DEF DocAt, UndoneAt, Marks, hasApproved
<1>13. DocAt(d)'
  BY <1>10, <1>11, <1>12 DEF DocAt
<1> QED
  BY <1>1, <1>2, <1>6, <1>13, DocumentWriteKeeps

(* What a new request changes for its document. *)
LEMMA RequestShown ==
  ASSUME IInv, NEW d \in Targets, NEW type \in ApprovalTypes, NEW steps \in 1..MaxSteps,
         AddRequest(d, type, doc[d].content, steps), doc'[d].kind = doc[d].kind,
         doc'[d].content = doc[d].content
  PROVE  /\ ShownAt(d)'
         /\ StatusesOf(d, type)' = StatusesOf(d, type) \cup {"PENDING"}
         /\ \A t : t # type => StatusesOf(d, t)' = StatusesOf(d, t)
<1>1. requests \in Seq(Request) /\ ApprovalTypeOK /\ doc[d].content \in Contents
  BY DEF IInv, TypeOK, ApprovalTypeOK, Document
<1>2. ShownAt(d)
  BY DocSplit DEF IInv, DocInv, DocAt
<1> DEFINE r == NewRequest(d, type, doc[d].content, steps)
<1>3. r \in Request /\ r.subject = doc[d].content
  BY <1>1, NewShape
<1>4. requests' = Append(requests, r)
  BY DEF AddRequest
<1> HIDE DEF r
<1>5. \A j \in DOMAIN requests' :
        (j \in DOMAIN requests /\ requests'[j] = requests[j]) \/ requests'[j] = r
  BY <1>1, <1>3, <1>4
<1>6. ShownAt(d)'
  BY <1>2, <1>3, <1>5 DEF ShownAt
<1>7. ASSUME NEW t
      PROVE  StatusesOf(d, t)' = IF t = type THEN StatusesOf(d, t) \cup {"PENDING"}
                                              ELSE StatusesOf(d, t)
  BY <1>1, AddedStatuses
<1> QED
  BY <1>6, <1>7

LEMMA SubmitKeeps ==
  ASSUME IInv, NEW p \in Procs, SubmitOnly(p)
  PROVE  IInv'
<1>1. Finish(p, "submit") /\ UNCHANGED doc
  BY DEF SubmitOnly
<1>2. PICK d \in Targets : d = tx[p].d
  BY <1>1, FinishFacts
<1>3. doc \in [Targets -> Document] /\ DocAt(d) /\ doc[d].marks \in [Marks -> Nat]
  BY <1>1, <1>2, WrittenDocument
<1>4. PICK type \in ApprovalTypes : type = tx[p].op.type
  BY <1>1, FinishFacts
<1>5. /\ assertNoOpenRequest(d, type) /\ tx[p].steps \in 0..MaxSteps /\ tx[p].steps > 0
      /\ type = "CANCEL" => doc[d].status # "CONFIRMED"
      /\ type = "BUSINESS" /\ doc[d].kind \in Stocked => doc[d].status = "REGISTERED"
  BY <1>1, <1>2, <1>4, FinishFacts DEF Sound
<1>6. tx[p].steps \in 1..MaxSteps
  BY <1>5, ApprovalAssumption
<1>7. AddRequest(d, type, doc[d].content, tx[p].steps)
  BY <1>2, <1>4 DEF SubmitOnly, Submit
<1>8. /\ ShownAt(d)'
      /\ StatusesOf(d, type)' = StatusesOf(d, type) \cup {"PENDING"}
      /\ \A t : t # type => StatusesOf(d, t)' = StatusesOf(d, t)
  BY <1>1, <1>6, <1>7, RequestShown
<1>9. MarksAt(d)' /\ LifecycleAt(d)'
  BY <1>1, <1>3, <1>8 DEF DocAt, MarksAt, LifecycleAt
<1>10. UndoneAt(d)'
  BY <1>1, <1>3, <1>8 DEF DocAt, UndoneAt, hasApproved
<1>11. PostedAt(d)'
  <2>1. CASE type = "BUSINESS"
    BY <1>1, <1>3, <1>5, <2>1 DEF DocAt, PostedAt, LifecycleAt
  <2>2. CASE type # "BUSINESS"
    BY <1>1, <1>3, <1>8, <2>2 DEF DocAt, PostedAt, hasApproved
  <2> QED
    BY <2>1, <2>2
<1>12. ConfirmedAt(d)'
  BY <1>1, <1>3, <1>5, <1>8 DEF DocAt, ConfirmedAt, assertNoOpenRequest
<1>13. DocAt(d)'
  BY <1>8, <1>9, <1>10, <1>11, <1>12 DEF DocAt
<1> QED
  BY <1>1, <1>2, <1>3, <1>4, <1>5, <1>6, <1>7, <1>13, RequestWriteKeeps

LEMMA RequestCancelKeeps ==
  ASSUME IInv, NEW p \in Procs, RequestCancel(p)
  PROVE  IInv'
<1>1. Finish(p, "requestCancel")
  BY DEF RequestCancel
<1>2. PICK d \in Targets : d = tx[p].d
  BY <1>1, FinishFacts
<1>3. /\ doc \in [Targets -> Document] /\ DocAt(d)
      /\ doc[d].marks \in [Marks -> Nat] /\ doc[d].version \in Nat
  BY <1>1, <1>2, WrittenDocument
<1>4. /\ assertNoOpenRequest(d, "CANCEL") /\ tx[p].steps \in 0..MaxSteps /\ tx[p].steps > 0
      /\ doc[d].kind # "SHIPMENT" /\ doc[d].status \in {"REGISTERED", "POSTED"}
      /\ tx[p].op.type = "CANCEL" /\ "CANCEL" \in ApprovalTypes
  BY <1>1, <1>2, FinishFacts DEF Sound
<1>5. tx[p].steps \in 1..MaxSteps
  BY <1>4, ApprovalAssumption
<1>6. doc' = [doc EXCEPT ![d].status = "CANCEL_REQUESTED", ![d].version = @ + 1]
  BY <1>2 DEF RequestCancel
<1>7. /\ doc' \in [Targets -> Document] /\ \A o \in Targets : o # d => doc'[o] = doc[o]
      /\ doc'[d].kind = doc[d].kind /\ doc'[d].status = "CANCEL_REQUESTED"
      /\ doc'[d].content = doc[d].content /\ doc'[d].marks = doc[d].marks
  BY <1>3, <1>6 DEF Document, Statuses
<1>8. AddRequest(d, "CANCEL", doc[d].content, tx[p].steps)
  BY <1>2, <1>4 DEF RequestCancel, Submit
<1>9. /\ ShownAt(d)'
      /\ StatusesOf(d, "CANCEL")' = StatusesOf(d, "CANCEL") \cup {"PENDING"}
      /\ \A t : t # "CANCEL" => StatusesOf(d, t)' = StatusesOf(d, t)
  BY <1>4, <1>5, <1>7, <1>8, RequestShown
<1>10. MarksAt(d)'
  BY <1>3, <1>4, <1>7 DEF DocAt, MarksAt
<1>11. LifecycleAt(d)' /\ ConfirmedAt(d)'
  BY <1>7, <1>9 DEF LifecycleAt, ConfirmedAt
<1>12. UndoneAt(d)' /\ PostedAt(d)'
  BY <1>3, <1>7, <1>9 DEF DocAt, UndoneAt, PostedAt, hasApproved
<1>13. DocAt(d)'
  BY <1>9, <1>10, <1>11, <1>12 DEF DocAt
<1> QED
  BY <1>1, <1>2, <1>4, <1>5, <1>7, <1>8, <1>13, RequestWriteKeeps
-----------------------------------------------------------------------------
(* The initial states. *)
LEMMA InitIInv == Init => IInv
<1> SUFFICES ASSUME Init PROVE IInv
  OBVIOUS
<1>1. /\ requests = <<>> /\ session = [a \in Approvers |-> NoSession]
      /\ tx = [p \in Procs |-> NoCall]
  BY DEF Init, ApprovalInit
<1>2. \A d, type : StatusesOf(d, type) = {}
  BY <1>1 DEF StatusesOf
<1>3. \A p \in Procs : ~Running(p)
  BY <1>1, NotRunning DEF Running
<1>4. ApprovalTypeOK
  <2>1. /\ [type \in ApprovalTypes |-> [active |-> TRUE, steps |-> MaxSteps]]
             \in [ApprovalTypes -> [active : BOOLEAN, steps : 0..MaxSteps]]
        /\ 0 \in 0..MaxRouteChanges /\ requests \in Seq(Request)
    BY <1>1, ApprovalAssumption
  <2> QED
    BY <1>1, <2>1, NoSessionType DEF Init, ApprovalInit, ApprovalTypeOK
<1>5. Locked /\ Standing /\ Sessions /\ Versions /\ OneOpenRequest /\ DecisionsAddUp
  BY <1>1, <1>3 DEF Locked, Standing, Sessions, Versions, OneOpenRequest, DecisionsAddUp
<1>6. ASSUME NEW d \in Targets
      PROVE  /\ doc[d] \in Document /\ doc[d].marks \in [Marks -> 0..1]
             /\ doc[d].status \notin {"CANCEL_REQUESTED", "CANCELLED", "CONFIRMED"}
             /\ \A k \in {"reverse", "retract", "correctA", "correctB"} : doc[d].marks[k] = 0
             /\ doc[d].kind = "SHIPMENT" => doc[d].marks["queue"] = 0
             /\ doc[d].kind \in Stocked =>
                  (doc[d].status = "REGISTERED" => doc[d].marks["post"] = 0)
  <2>1. doc[d] \in NewDocuments
    BY DEF Init
  <2>2. PICK k \in Kinds : \E b \in Born(k), c \in Contents :
          doc[d] = [kind |-> k, status |-> b.status, version |-> 1, content |-> c,
                    marks |-> b.marks]
    BY <2>1 DEF NewDocuments
  <2>3. PICK b \in Born(k), c \in Contents :
          doc[d] = [kind |-> k, status |-> b.status, version |-> 1, content |-> c,
                    marks |-> b.marks]
    BY <2>2
  <2> DEFINE with(status, marks) ==
               [status |-> status, marks |-> [m \in Marks |-> IF m \in marks THEN 1 ELSE 0]]
  <2>4. \/ k = "GOODS_ISSUE" /\ b \in {with("REGISTERED", {}), with("POSTED", {"post"})}
        \/ k = "GOODS_RECEIPT" /\ b \in {with("POSTED", {"post"}),
                                         with("POSTED", {"post", "queue"})}
        \/ k = "INBOUND_RECEIPT" /\ b \in {with("REGISTERED", {}), with("REGISTERED", {"post"})}
        \/ k = "SHIPMENT" /\ b \in {with("UNCONFIRMED", {"post"})}
        \/ k \notin {"GOODS_ISSUE", "GOODS_RECEIPT", "INBOUND_RECEIPT", "SHIPMENT"}
           /\ b \in {with("REGISTERED", {})}
    BY <2>3 DEF Born
  <2>5. /\ b.status \in {"REGISTERED", "POSTED", "UNCONFIRMED"}
        /\ b.marks \in [Marks -> 0..1]
        /\ \A o \in {"reverse", "retract", "correctA", "correctB"} : b.marks[o] = 0
        /\ k = "SHIPMENT" => b.marks["queue"] = 0
        /\ k \in Stocked => (b.status = "REGISTERED" => b.marks["post"] = 0)
    BY <2>4 DEF Marks, Stocked
  <2>6. doc[d] \in Document
    BY <2>3, <2>5 DEF Document, Statuses
  <2> QED
    BY <2>3, <2>5, <2>6
<1>7. TypeOK
  BY <1>1, <1>4, <1>6, DocumentsAssumption DEF Init, TypeOK
<1>8. ASSUME NEW d \in Targets PROVE DocAt(d)
  <2>1. MarksAt(d)
    BY <1>6 DEF MarksAt, Marks
  <2>2. UndoneAt(d) /\ LifecycleAt(d) /\ PostedAt(d) /\ ConfirmedAt(d)
    BY <1>2, <1>6 DEF UndoneAt, LifecycleAt, PostedAt, ConfirmedAt
  <2>3. ShownAt(d)
    BY <1>1 DEF ShownAt
  <2> QED
    BY <2>1, <2>2, <2>3 DEF DocAt
<1> QED
  BY <1>5, <1>7, <1>8, DocSplit DEF IInv, DocInv

(* A step that changes nothing. *)
LEMMA StutterKeeps ==
  ASSUME IInv, UNCHANGED vars
  PROVE  IInv'
<1>1. UNCHANGED <<requests, route, routeChanges, session, doc, successors, tx>>
  BY DEF vars, approvalVars
<1>2. ApprovalKept
  BY <1>1, UnmovedRequests
     DEF ApprovalKept, IInv, TypeOK, ApprovalTypeOK, Sessions, Versions, DecisionsAddUp, Undecided
<1> QED
  BY <1>1, <1>2, ApprovalStepKeeps

(* Every step keeps the inductive invariant. *)
LEMMA NextIInv == IInv /\ [Next]_vars => IInv'
<1> SUFFICES ASSUME IInv, [Next]_vars PROVE IInv'
  OBVIOUS
<1>1. CASE ApprovalNext /\ UNCHANGED <<doc, successors, tx>>
  BY <1>1, ApprovalNextKeeps, ApprovalStepKeeps
<1>2. ASSUME NEW p \in Procs, View(p) \/ Start(p) \/ Gate(p) \/ Abort(p) PROVE IInv'
  BY <1>2, ViewKeeps, StartKeeps, GateKeeps, AbortKeeps
<1>3. ASSUME NEW p \in Procs, \/ Edit(p) \/ SubmitOnly(p) \/ Post(p) \/ RequestCancel(p)
                              \/ Cancel(p) \/ Confirm(p) \/ Correct(p)
      PROVE  IInv'
  BY <1>3, EditKeeps, SubmitKeeps, PostKeeps, RequestCancelKeeps, CancelKeeps, ConfirmKeeps,
     CorrectKeeps
<1>4. ASSUME NEW d \in Targets, CreateSuccessor(d) \/ CancelSuccessor(d) PROVE IInv'
  BY <1>4, SuccessorKeeps
<1>5. CASE UNCHANGED vars
  BY <1>5, StutterKeeps
<1> QED
  BY <1>1, <1>2, <1>3, <1>4, <1>5 DEF Next

LEMMA SpecIInv == Spec => []IInv
BY InitIInv, NextIInv, PTL DEF Spec

(* Requests, sessions, documents and calls keep their types; in particular *)
(* a request is never without steps.                                       *)
THEOREM SpecTypeOK == Spec => []TypeOK
BY SpecIInv, PTL DEF IInv

(* A target never has two open requests of one type, although the question *)
(* whether one is open and the insertion are two statements                *)
(* (approval.service.ts assertNoOpenRequest and request): the lock on the  *)
(* row of the document keeps the answer true.                              *)
THEOREM SpecOneOpenRequest == Spec => []OneOpenRequest
BY SpecIInv, PTL DEF IInv

(* Every decision that commits decides the next step of an open request:   *)
(* no step is skipped, overwritten or decided after the request is closed, *)
(* however the transactions of the approvers interleave                    *)
(* (approval-decision.service.ts decide).                                  *)
THEOREM SpecDecisionsAddUp == Spec => []DecisionsAddUp
BY SpecIInv, PTL DEF IInv

(* What approvers see is what the document holds and what is posted        *)
(* (goods-issue-update.service.ts replaceLines, goods-issue.service.ts     *)
(* post, and their twins of adjustments).                                  *)
THEOREM SpecPostedAsApproved == Spec => []PostedAsApproved
BY SpecIInv, PTL DEF IInv

(* Postings, reversals, outbox rows and corrections of a document happen   *)
(* once, and agree with its status (document-cancel-execute.service.ts     *)
(* cancel, shipment-confirm.service.ts commit,                             *)
(* production-result-correct.service.ts commit).                           *)
THEOREM SpecMarksOnce == Spec => []MarksOnce
BY SpecIInv, PTL DEF IInv

(* Nothing is cancelled, and no quantity corrected, without an approval    *)
(* (document-cancel-execute.service.ts cancel, shipment-cancel.service.ts  *)
(* cancel, production-result-correct.service.ts                            *)
(* assertCorrectionApproved).                                              *)
THEOREM SpecUndoneAfterApproval == Spec => []UndoneAfterApproval
BY SpecIInv, PTL DEF IInv

(* A shipment is not confirmed while its cancellation is being decided     *)
(* (shipment-confirm.service.ts commit and shipment-guards.ts              *)
(* hasOpenCancel).                                                         *)
THEOREM SpecConfirmedNotInCancel == Spec => []ConfirmedNotInCancel
BY SpecIInv, PTL DEF IInv
=============================================================================
