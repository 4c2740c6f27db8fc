------------------------------ MODULE Approval ------------------------------
(***************************************************************************)
(* Approval requests and their sequential decision (src/core/approval,     *)
(* src/app/approval).  A request belongs to a target and an approval type; *)
(* its steps are copied from the route of the type when it is made.  The   *)
(* approvers decide one step at a time, each in a transaction of its own   *)
(* that locks nothing: it reads the request and its steps, and writes on   *)
(* condition that version_no has not moved.                                *)
(*                                                                         *)
(* Requests are made inside the transactions of the callers, which lock    *)
(* the row of the target first; they are in the modules that extend this   *)
(* one and use the gates and AddRequest below.                             *)
(*                                                                         *)
(* Who approves is left out: a decision by anybody but the approver of the *)
(* current step is refused without effect, and at an unchanged version the *)
(* current step, hence its approver, is the one the screen showed.         *)
(***************************************************************************)
EXTENDS Integers, Sequences

CONSTANTS Targets,          \* rows that can be submitted for approval
          ApprovalTypes,
          Contents,         \* what approvers see of a target, and what is posted
          Approvers,        \* sessions of approvers
          MaxSteps,         \* longest route
          MaxRequests,      \* bound: requests made in a run
          MaxRouteChanges   \* bound: changes of routes in a run

Decisions == {"APPROVED", "REJECTED"}
NoCode    == "NONE"

ASSUME ApprovalAssumption ==
  /\ MaxSteps \in Nat \ {0}
  /\ MaxRequests \in Nat /\ MaxRouteChanges \in Nat

VARIABLES
  requests,   \* rows of approval_request with their steps, in the order they were made
  route,      \* the active flag and the number of steps of each type's route
  routeChanges,
  session     \* what each approver's transaction has read

approvalVars == <<requests, route, routeChanges, session>>

(* subject: what the target contained when the request was made. *)
Request == [target : Targets, type : ApprovalTypes, subject : Contents,
            status : {"PENDING"} \cup Decisions, version : Nat,
            decision : UNION {[1..n -> Decisions \cup {NoCode}] : n \in 1..MaxSteps}]

(* seen: the version the transaction read; cur: the step it then read as   *)
(* current, 0 before.                                                      *)
Session == [req : Nat, seen : Nat, cur : 0..MaxSteps]
NoSession == [req |-> 0, seen |-> 0, cur |-> 0]

ApprovalTypeOK ==
  /\ requests \in Seq(Request)
  /\ route \in [ApprovalTypes -> [active : BOOLEAN, steps : 0..MaxSteps]]
  /\ routeChanges \in 0..MaxRouteChanges
  /\ session \in [Approvers -> Session]
  /\ \A a \in Approvers : session[a] # NoSession =>
       /\ session[a].req \in DOMAIN requests
       /\ session[a].cur <= Len(requests[session[a].req].decision)

ApprovalInit ==
  /\ requests = <<>>
  /\ route = [type \in ApprovalTypes |-> [active |-> TRUE, steps |-> MaxSteps]]
  /\ routeChanges = 0
  /\ session = [a \in Approvers |-> NoSession]
-----------------------------------------------------------------------------
(* What the callers ask inside their transactions. *)

StatusesOf(d, type) ==
  {requests[i].status : i \in {j \in DOMAIN requests :
                                 requests[j].target = d /\ requests[j].type = type}}

assertNoOpenRequest(d, type) == "PENDING" \notin StatusesOf(d, type)

(* Targets without any request pass. *)
assertApproved(d, type) == StatusesOf(d, type) = {} \/ "APPROVED" \in StatusesOf(d, type)

selectRoute(type) == route[type].active /\ route[type].steps > 0

(* A bug: the steps are copied without counting them again. *)
copySteps(type) == TRUE

(* expandSteps reads the steps again and refuses a route that has lost them. *)
expandSteps(type) == route[type].steps > 0

NewRequest(d, type, subject, steps) ==
  [target |-> d, type |-> type, subject |-> subject, status |-> "PENDING",
   version |-> 1, decision |-> [i \in 1..steps |-> NoCode]]

AddRequest(d, type, subject, steps) ==
  requests' = Append(requests, NewRequest(d, type, subject, steps))
-----------------------------------------------------------------------------
(* Decisions. *)

Undecided(r) == {i \in DOMAIN r.decision : r.decision[i] = NoCode}

currentStep(r) == CHOOSE i \in Undecided(r) : \A j \in Undecided(r) : i <= j

(* The transaction reads the request, then its steps: two statements,      *)
(* between which another approver may commit.  A call whose If-Match is    *)
(* not the version it reads, or that finds the request closed, is refused  *)
(* without effect; the others go on.                                       *)
DecideRead(a) ==
  /\ session[a] = NoSession
  /\ \E i \in DOMAIN requests :
       /\ requests[i].status = "PENDING"
       /\ session' = [session EXCEPT ![a] = [req |-> i, seen |-> requests[i].version, cur |-> 0]]
  /\ UNCHANGED <<requests, route, routeChanges>>

DecideReadSteps(a) ==
  LET s == session[a]  r == requests[s.req] IN
  /\ s # NoSession /\ s.cur = 0
  /\ session' = [session EXCEPT ![a] = IF Undecided(r) # {}
                                       THEN [s EXCEPT !.cur = currentStep(r)] ELSE NoSession]
  /\ UNCHANGED <<requests, route, routeChanges>>

(* The request after the decision of a step: the last approval and every   *)
(* rejection close it.                                                     *)
decide(r, code, cur) ==
  LET closes == code = "REJECTED" \/ cur = Len(r.decision) IN
  [r EXCEPT !.decision[cur] = code, !.version = r.version + 1,
            !.status = IF closes THEN code ELSE r.status]

(* A bug: the request is updated without its version in the condition. *)
assertNothing(r, seen) == TRUE

(* approval_step is written first and approval_request on condition that   *)
(* its version is still the one that was read; otherwise both roll back.   *)
assertUpdated(r, seen) == r.version = seen

DecideWrite(a) ==
  LET s == session[a]  r == requests[s.req] IN
  /\ s.cur # 0
  /\ \E code \in Decisions :
       requests' = IF assertUpdated(r, s.seen)
                   THEN [requests EXCEPT ![s.req] = decide(r, code, s.cur)] ELSE requests
  /\ session' = [session EXCEPT ![a] = NoSession]
  /\ UNCHANGED <<route, routeChanges>>

(* The connection is lost: nothing was written. *)
DecideAbort(a) ==
  /\ session[a] # NoSession
  /\ session' = [session EXCEPT ![a] = NoSession]
  /\ UNCHANGED <<requests, route, routeChanges>>

(* The administration of routes.  Each call writes on condition of the     *)
(* route's version, which every other call moves: one step.                *)
ChangeRoute(type, new) ==
  /\ routeChanges < MaxRouteChanges
  /\ route' = [route EXCEPT ![type] = new]
  /\ routeChanges' = routeChanges + 1
  /\ UNCHANGED <<requests, session>>

replaceSteps(type) == \E n \in 0..MaxSteps : ChangeRoute(type, [route[type] EXCEPT !.steps = n])
activate(type) ==
  route[type].steps > 0 /\ ChangeRoute(type, [route[type] EXCEPT !.active = TRUE])
deactivate(type) == ChangeRoute(type, [route[type] EXCEPT !.active = FALSE])

ApprovalNext ==
  \/ \E a \in Approvers : \/ DecideRead(a) \/ DecideReadSteps(a) \/ DecideWrite(a)
                            \/ DecideAbort(a)
  \/ \E type \in ApprovalTypes : replaceSteps(type) \/ activate(type) \/ deactivate(type)
-----------------------------------------------------------------------------
(* Properties. *)

(* A target never has two open requests of one type, whatever submissions  *)
(* run at once (approval.service.ts assertNoOpenRequest: the caller's lock *)
(* on the row of the target is what keeps a second one out).               *)
OneOpenRequest ==
  \A i, j \in DOMAIN requests :
    /\ requests[i].target = requests[j].target /\ requests[i].type = requests[j].type
    /\ requests[i].status = "PENDING" /\ requests[j].status = "PENDING"
    => i = j

(* Every committed decision is accounted for: the decided steps are the    *)
(* first ones, each moved version_no by one, the request is approved just  *)
(* when all of them are approvals, and rejected just when the last one     *)
(* decided is a rejection; an open request has a step left to decide.      *)
DecisionsAddUp ==
  \A i \in DOMAIN requests :
    LET r == requests[i]  n == r.version - 1 IN
    /\ Undecided(r) = (n + 1)..Len(r.decision)
    /\ \A k \in 1..(n - 1) : r.decision[k] = "APPROVED"
    /\ r.status = "APPROVED" <=> n = Len(r.decision) /\ r.decision[n] = "APPROVED"
    /\ r.status = "REJECTED" <=> n > 0 /\ r.decision[n] = "REJECTED"
=============================================================================
