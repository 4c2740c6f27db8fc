--------------------------- MODULE WorkOrderProofs ---------------------------
(***************************************************************************)
(* Proofs about a work order, for every number of clients, workers and     *)
(* requests.                                                               *)
(*                                                                         *)
(* A call checks the row of the work order when it has locked it and       *)
(* writes in a later step, so each property rests on what the checks still *)
(* mean at the write (Standing), and that rests on the lock (OneHolder):   *)
(* whoever changes the order, opens a session, or adds a result holds it.  *)
(* The requests have locks of their own (OneSettler): what the end of the  *)
(* order has not locked was not open and does not open again (Settling).   *)
(* That slots add up to their plan, and that each reported event counts    *)
(* once, with its latest correction, come last: they need what sums over   *)
(* finite sets come to, and that corrections form chains (Corrections).    *)
(***************************************************************************)
EXTENDS WorkOrder, SequenceTheorems, FiniteSetTheorems, WellFoundedInduction, TLAPS

OrderStatuses == {"PLANNED", "CONFIRMED", "RELEASED", "IN_PROGRESS", "SUSPENDED", "COMPLETED",
                  "CLOSED", "CANCELLED"}
Judgments == {"NONE", "UNDER", "OVER", "NORMAL"}
Lives == {"WAITING", "ACTIVE", "VOIDED"}

OrderType == [status : OrderStatuses, qty : Nat, released : BOOLEAN, judged : Judgments, version : Nat]
SlotType == [qty : Int, life : Lives]
SessionType == [status : {"RUNNING", "STOPPED", "ENDED"}, main : Workers, in : SUBSET Workers]
ResultType == [good : Nat, corrects : Nat, slots : SUBSET Nat]
RequestType ==
    [status : {"WAITING", "REGISTERED", "POSTED", "CANCELLED"}, sourced : BOOLEAN, auto : BOOLEAN,
     closed : BOOLEAN, progress : {"none", "picked", "issued", "all"},
     picking : {"none", "open", "cancelled"}, posting : BOOLEAN, version : Nat]

Typed ==
    /\ world \in Worlds
    /\ order \in OrderType
    /\ slot \in Seq(SlotType) /\ session \in Seq(SessionType)
    /\ result \in Seq(ResultType) /\ request \in Seq(RequestType)

(* A call and what it carries. *)
Fields(t) ==
    t \in [op : {t.op}, at : {t.at}, version : {t.version}, plan : {t.plan},
           judgment : {t.judgment}, rows : {t.rows}, started : {t.started}]

Carried(t) ==
    /\ t.op.kind = "update" => t.op.qty \in Nat
    /\ t.op.kind = "release" => t.op.lotSize \in LotSizes
    /\ t.op.kind = "start" => assertCrew(t.op) /\ t.op.main \in Workers /\ t.op.subs \subseteq Workers
    /\ t.op.kind = "sessionResume" => t.op.session \in DOMAIN session
    /\ t.op.kind = "report" => t.op.good \in Nat /\ t.op.slots \subseteq DOMAIN slot
    /\ t.op.kind = "correct" => t.op.good \in Nat /\ t.op.result \in Nat
    /\ t.op.kind \in RequestCalls => t.op.request \in DOMAIN request
    /\ t.at = "planned" => t.op.kind = "release"
    /\ t.op.kind = "release" /\ t.at \in {"planned", "locked"} => t.plan \in Seq(Int)
    /\ t.judgment \in Judgments
    /\ t.at = "locked" => t.op.kind \in LocksOrder
    /\ t.at = "settling" => t.op.kind \in {"close", "cancel"} \cup RequestCalls

CallsFit == DOMAIN tx = Clients /\ \A c \in Clients : Fields(tx[c]) /\ Carried(tx[c])

(* The lock of the order, and what the holder has checked under it. *)
OneHolder == \A c, d \in Clients : Holding(c) /\ Holding(d) => c = d

StandingOf(t) ==
    /\ t.op.kind \in {"release", "resume", "cancel", "hold", "close"} => assertTransition(t.op.kind)
    /\ t.op.kind = "start" => order.status = "SUSPENDED" \/ assertTransition("start")
    /\ t.op.kind \in {"start", "close"} => OpenSessions = {}
    /\ t.op.kind = "report" => assertReportable(t.op)
    /\ t.op.kind = "update" => ~ order.released
    /\ t.op.kind = "release" => t.version = order.version
    /\ t.op.kind = "close" => t.judgment = judgeCompletion(goodQty(result), order.qty)

Standing == \A c \in Clients : Holding(c) => StandingOf(tx[c])

(* The plan of a release is stale only if the version it came with is. *)
PlanOf(t) ==
    /\ t.version \in Nat /\ t.version <= order.version
    /\ t.at # "called" /\ t.version = order.version => t.plan = slotQtys(order.qty, t.op.lotSize)

Plans == \A c \in Clients : tx[c].op.kind = "release" => PlanOf(tx[c])

(* The locks of the requests, and what is known of the others. *)
OneSettler ==
    \A c, d \in Clients :
        tx[c].at = "settling" /\ tx[d].at = "settling" /\ c # d => tx[c].rows \cap tx[d].rows = {}

MustSettle(r) == request[r].sourced /\ request[r].auto /\ isOpen(request[r])

SettlingOf(t) ==
    /\ t.rows \subseteq DOMAIN request
    /\ t.op.kind \in RequestCalls => t.rows = {t.op.request} /\ isOpen(request[t.op.request])
    /\ t.op.kind \notin RequestCalls => \A r \in DOMAIN request : MustSettle(r) => r \in t.rows

Settling == \A c \in Clients : tx[c].at = "settling" => SettlingOf(tx[c])

(* The parts of SessionsFit. *)
SessionOK(s) ==
    /\ s.status = "ENDED" <=> s.in = {}
    /\ s.in # {} => s.main \in s.in
    /\ Cardinality(s.in) <= MaxOpenWorkers

Sessions ==
    /\ \A i, j \in OpenSessions : i = j
    /\ OpenSessions # {} => order.status \in {"IN_PROGRESS", "SUSPENDED", "CANCELLED"}
    /\ \A i \in DOMAIN session : SessionOK(session[i])

(* An order has slots once it is released; results are allocated to them. *)
Released ==
    /\ order.status \in {"PLANNED", "CONFIRMED"} => ~ order.released
    /\ ~ order.released => order.status \in NoSlotStatus
    /\ \A j \in DOMAIN result : result[j].slots \subseteq DOMAIN slot

SlotsAsPlanned ==
    order.released =>
        \E lotSize \in LotSizes :
            LET qtys == slotQtys(order.qty, lotSize)
            IN DOMAIN slot = DOMAIN qtys /\ \A i \in DOMAIN slot : slot[i].qty = qtys[i]

IInv ==
    /\ Typed /\ CallsFit
    /\ OneHolder /\ Standing /\ Plans /\ OneSettler /\ Settling
    /\ Sessions /\ Released /\ SlotsAsPlanned /\ SlotLives /\ RequestsSettled
-----------------------------------------------------------------------------
(* Sequences, slots and the shape of a call. *)

LEMMA DomSeq ==
    ASSUME NEW S, NEW s \in Seq(S)
    PROVE  /\ DOMAIN s = 1 .. Len(s) /\ Len(s) \in Nat /\ DOMAIN s \subseteq Nat
           /\ \A i \in DOMAIN s : s[i] \in S
OBVIOUS

LEMMA ReplaceSeq ==
    ASSUME NEW S, NEW s \in Seq(S), NEW i \in DOMAIN s, NEW x \in S
    PROVE  /\ [s EXCEPT ![i] = x] \in Seq(S) /\ DOMAIN [s EXCEPT ![i] = x] = DOMAIN s
           /\ [s EXCEPT ![i] = x][i] = x
           /\ \A j \in DOMAIN s \ {i} : [s EXCEPT ![i] = x][j] = s[j]
OBVIOUS

LEMMA AppendSeq ==
    ASSUME NEW S, NEW s \in Seq(S), NEW x \in S
    PROVE  /\ Append(s, x) \in Seq(S) /\ DOMAIN Append(s, x) = DOMAIN s \cup {Len(s) + 1}
           /\ DOMAIN s \subseteq DOMAIN Append(s, x)
           /\ Append(s, x)[Len(s) + 1] = x
           /\ \A j \in DOMAIN s : Append(s, x)[j] = s[j] /\ j # Len(s) + 1
OBVIOUS

LEMMA MapSeq ==
    ASSUME NEW S, NEW T, NEW s \in Seq(S), NEW f, DOMAIN f = DOMAIN s, f = [i \in DOMAIN s |-> f[i]],
           \A i \in DOMAIN s : f[i] \in T
    PROVE  f \in Seq(T)
<1>1. DOMAIN s = 1 .. Len(s) /\ Len(s) \in Nat
  BY DomSeq
<1>2. f \in [1 .. Len(s) -> T]
  BY <1>1
<1> QED
  BY <1>1, <1>2, SeqDef

(* There is a slot for each full lot and one for what is left. *)
LEMMA SlotsOf ==
    ASSUME NEW q \in Nat, NEW l \in Nat \ {0}
    PROVE  slotQtys(q, l) \in Seq(Int)
<1> DEFINE n == (q + l - 1) \div l
           f == [i \in 1 .. n |-> IF i < n THEN l ELSE q - l * (n - 1)]
<1>1. q + l - 1 \in Nat /\ l > 0
  OBVIOUS
<1>2. n \in Nat
  BY <1>1
<1>3. f = slotQtys(q, l)
  BY DEF slotQtys
<1> HIDE DEF n
<1>4. \A i \in 1 .. n : (IF i < n THEN l ELSE q - l * (n - 1)) \in Int
  BY <1>2
<1>5. f \in [1 .. n -> Int]
  BY <1>4
<1> QED
  BY <1>2, <1>3, <1>5, SeqDef

LEMMA NewSlotsOf ==
    ASSUME NEW qtys \in Seq(Int)
    PROVE  /\ NewSlots(qtys) \in Seq(SlotType) /\ DOMAIN NewSlots(qtys) = DOMAIN qtys
           /\ \A i \in DOMAIN qtys : NewSlots(qtys)[i].qty = qtys[i] /\ NewSlots(qtys)[i].life = "WAITING"
<1>1. \A i \in DOMAIN qtys : [qty |-> qtys[i], life |-> "WAITING"] \in SlotType
  BY DomSeq DEF SlotType, Lives
<1>2. /\ NewSlots(qtys) = [i \in DOMAIN qtys |-> NewSlots(qtys)[i]]
      /\ DOMAIN NewSlots(qtys) = DOMAIN qtys
      /\ \A i \in DOMAIN qtys : NewSlots(qtys)[i] = [qty |-> qtys[i], life |-> "WAITING"]
  BY DEF NewSlots
<1>3. NewSlots(qtys) \in Seq(SlotType)
  BY <1>1, <1>2, MapSeq
<1> QED
  BY <1>2, <1>3

LEMMA MovedSlots ==
    ASSUME Typed, NEW ids, NEW from, NEW to \in Lives
    PROVE  /\ moveSlots(ids, from, to) \in Seq(SlotType)
           /\ DOMAIN moveSlots(ids, from, to) = DOMAIN slot
           /\ \A i \in DOMAIN slot :
                /\ moveSlots(ids, from, to)[i].qty = slot[i].qty
                /\ moveSlots(ids, from, to)[i].life =
                     IF i \in ids /\ slot[i].life \in from THEN to ELSE slot[i].life
<1> DEFINE f == moveSlots(ids, from, to)
<1>1. slot \in Seq(SlotType) /\ \A i \in DOMAIN slot : slot[i] \in SlotType
  BY DomSeq DEF Typed
<1>2. f = [i \in DOMAIN slot |-> f[i]] /\ DOMAIN f = DOMAIN slot
  BY DEF moveSlots
<1>3. ASSUME NEW i \in DOMAIN slot
      PROVE  /\ f[i] \in SlotType /\ f[i].qty = slot[i].qty
             /\ f[i].life = IF i \in ids /\ slot[i].life \in from THEN to ELSE slot[i].life
  <2>1. f[i] = IF i \in ids /\ slot[i].life \in from THEN [slot[i] EXCEPT !.life = to] ELSE slot[i]
    BY DEF moveSlots
  <2> HIDE DEF f
  <2> QED
    BY <1>1, <2>1 DEF SlotType
<1> HIDE DEF f
<1>4. f \in Seq(SlotType)
  BY <1>1, <1>2, <1>3, MapSeq
<1> QED
  BY <1>2, <1>3, <1>4 DEF f
-----------------------------------------------------------------------------
(* Calls. *)

(* What the parameters of a call may be. *)
LEMMA CallShape ==
    ASSUME Typed, NEW op \in Calls
    PROVE  /\ op.kind = "update" => op.qty \in Nat
           /\ op.kind = "release" => op.lotSize \in LotSizes
           /\ op.kind = "start" => op.main \in Workers /\ op.subs \subseteq Workers
           /\ op.kind = "sessionResume" => op.session \in DOMAIN session
           /\ op.kind = "report" => op.good \in Nat /\ op.slots \subseteq DOMAIN slot
           /\ op.kind = "correct" => op.good \in Nat /\ op.result \in Nat
           /\ op.kind \in RequestCalls => op.request \in DOMAIN request
<1>1. Qtys \subseteq Nat /\ world.workers \subseteq Workers
  BY WorkOrderAssumption DEF Typed
<1>2. DOMAIN result \subseteq Nat
  BY DomSeq DEF Typed
<1>3. \/ op \in [kind : {"update"}, qty : Qtys]
      \/ op \in [kind : {"release"}, lotSize : LotSizes, bom : {"empty", "sourced", "unsourced"}]
      \/ op \in [kind : {"hold", "resume", "close", "cancel", "issueMore"}]
      \/ op \in [kind : {"start"}, main : world.workers, subs : SUBSET world.workers]
      \/ op \in [kind : {"sessionResume"}, session : DOMAIN session]
      \/ op \in [kind : {"report"}, good : Qtys, slots : SUBSET (DOMAIN slot)]
      \/ op \in [kind : {"correct"}, result : DOMAIN result, good : Qtys \cup {0}]
      \/ op \in [kind : RequestCalls, request : {r \in DOMAIN request : request[r].sourced}]
  BY DEF Calls
<1>4. CASE op \in [kind : {"update"}, qty : Qtys]
  BY <1>1, <1>4 DEF RequestCalls
<1>5. CASE op \in [kind : {"release"}, lotSize : LotSizes, bom : {"empty", "sourced", "unsourced"}]
  BY <1>5 DEF RequestCalls
<1>6. CASE op \in [kind : {"hold", "resume", "close", "cancel", "issueMore"}]
  BY <1>6 DEF RequestCalls
<1>7. CASE op \in [kind : {"start"}, main : world.workers, subs : SUBSET world.workers]
  BY <1>1, <1>7 DEF RequestCalls
<1>8. CASE op \in [kind : {"sessionResume"}, session : DOMAIN session]
  BY <1>8 DEF RequestCalls
<1>9. CASE op \in [kind : {"report"}, good : Qtys, slots : SUBSET (DOMAIN slot)]
  BY <1>1, <1>9 DEF RequestCalls
<1>10. CASE op \in [kind : {"correct"}, result : DOMAIN result, good : Qtys \cup {0}]
  <2>1. op.kind = "correct" /\ op.result \in DOMAIN result /\ op.good \in Qtys \cup {0}
    BY <1>10
  <2>2. op.good \in Qtys \/ op.good = 0
    BY <2>1
  <2>3. op.good \in Nat
    BY <1>1, <2>2
  <2> QED
    BY <1>2, <2>1, <2>3 DEF RequestCalls
<1>11. CASE op \in [kind : RequestCalls, request : {r \in DOMAIN request : request[r].sourced}]
  BY <1>11 DEF RequestCalls
<1> QED
  BY <1>3, <1>4, <1>5, <1>6, <1>7, <1>8, <1>9, <1>10, <1>11

LEMMA IdleCall ==
    /\ Fields(Idle) /\ Idle.at = "idle" /\ Idle.op.kind = "none" /\ Idle.judgment = "NONE"
    /\ Carried(Idle)
<1> DEFINE op == [kind |-> "none"]
           plan == <<>>
           i == [op |-> op, at |-> "idle", version |-> 0, plan |-> plan,
                 judgment |-> "NONE", rows |-> {}, started |-> {}]
<1>0. i = Idle /\ op.kind = "none"
  BY DEF Idle
<1> HIDE DEF op, plan
<1>1. /\ Fields(Idle) /\ Idle.at = "idle" /\ Idle.op.kind = "none" /\ Idle.judgment = "NONE"
  <2>1. Fields(i) /\ i.at = "idle" /\ i.op = op /\ i.judgment = "NONE"
    BY DEF Fields
  <2> QED
    BY <1>0, <2>1
<1> HIDE DEF Idle
<1>2. Carried(Idle)
  BY <1>1 DEF Carried, RequestCalls, Judgments
<1> QED
  BY <1>1, <1>2

db == <<world, order, slot, session, result, request>>

(* A step of a call that writes nothing. *)
LEMMA CallStep ==
    ASSUME IInv, UNCHANGED db, NEW c \in Clients, NEW t, tx' = [tx EXCEPT ![c] = t],
           Fields(t), Carried(t),
           t.at = "locked" \/ (t.at = "settling" /\ t.op.kind \notin RequestCalls) =>
               (\A d \in Clients \ {c} : ~ Holding(d)) /\ StandingOf(t),
           t.op.kind = "release" => PlanOf(t),
           t.at = "settling" =>
               /\ SettlingOf(t)
               /\ \A d \in Clients \ {c} : tx[d].at = "settling" => tx[d].rows \cap t.rows = {}
    PROVE  IInv'
<1>1. /\ tx'[c] = t /\ DOMAIN tx' = Clients
      /\ \A d \in Clients \ {c} : tx'[d] = tx[d]
  BY DEF IInv, CallsFit
<1>2. Typed' /\ Sessions' /\ Released' /\ SlotsAsPlanned' /\ SlotLives' /\ RequestsSettled'
  <2>1. Typed'
    BY DEF IInv, Typed, db
  <2>2. OpenSessions' = OpenSessions
    BY DEF OpenSessions, db
  <2>3. Sessions'
    BY <2>2 DEF IInv, Sessions, SessionOK, db
  <2>4. Released'
    BY DEF IInv, Released, db
  <2>5. SlotsAsPlanned'
    BY DEF IInv, SlotsAsPlanned, slotQtys, db
  <2>6. SlotLives'
    BY DEF IInv, SlotLives, Allocated, db
  <2>7. RequestsSettled'
    BY DEF IInv, RequestsSettled, isOpen, db
  <2> QED
    BY <2>1, <2>3, <2>4, <2>5, <2>6, <2>7
<1>3. \A x : (Carried(x) => Carried(x)') /\ (Fields(x) => Fields(x)')
  BY DEF Carried, Fields, assertCrew, LocksOrder, TRANSITIONS, db
<1>4. \A x : StandingOf(x) => StandingOf(x)'
  <2>1. OpenSessions' = OpenSessions /\ order' = order /\ slot' = slot /\ result' = result
    BY DEF OpenSessions, db
  <2> QED
    BY <2>1 DEF StandingOf, assertTransition, assertReportable
<1>5. \A x : (PlanOf(x) => PlanOf(x)') /\ (SettlingOf(x) => SettlingOf(x)')
  BY DEF PlanOf, SettlingOf, MustSettle, isOpen, db
<1>6. CallsFit'
  BY <1>1, <1>3 DEF IInv, CallsFit
<1>7. \A d \in Clients \ {c} : Holding(d)' <=> Holding(d)
  BY <1>1 DEF Holding
<1>8. Holding(c)' <=> t.at = "locked" \/ (t.at = "settling" /\ t.op.kind \notin RequestCalls)
  BY <1>1 DEF Holding
<1>9. OneHolder'
  BY <1>7, <1>8 DEF IInv, OneHolder
<1>10. Standing'
  BY <1>1, <1>4, <1>7, <1>8 DEF IInv, Standing
<1>11. Plans'
  BY <1>1, <1>5 DEF IInv, Plans
<1>12. OneSettler'
  BY <1>1 DEF IInv, OneSettler
<1>13. Settling'
  BY <1>1, <1>5 DEF IInv, Settling
<1> QED
  BY <1>2, <1>6, <1>9, <1>10, <1>11, <1>12, <1>13 DEF IInv
-----------------------------------------------------------------------------
(* The steps of a call before it writes. *)

LEMMA InvBegin == ASSUME IInv, NEW c \in Clients, NEW op \in Calls, Begin(c, op) PROVE IInv'
<1>1. Typed
  BY DEF IInv
<1> DEFINE t == [Idle EXCEPT !.op = op, !.at = "called", !.version = View(op)]
<1>2. tx' = [tx EXCEPT ![c] = t] /\ assertCreatable(op) /\ UNCHANGED db
  BY DEF Begin, db
<1>3. /\ t.op = op /\ t.at = "called" /\ t.version = View(op) /\ t.judgment = "NONE" /\ Fields(t)
  <2> HIDE DEF Idle
  <2> QED
    BY IdleCall DEF Fields
<1> HIDE DEF t
<1>4. Carried(t)
  BY <1>1, <1>2, <1>3, CallShape DEF Carried, assertCreatable, Judgments
<1>5. t.op.kind = "release" => PlanOf(t)
  <2>1. order.version \in Nat
    BY <1>1 DEF Typed, OrderType
  <2> QED
    BY <1>3, <2>1 DEF PlanOf, View, RequestCalls
<1> QED
  BY <1>2, <1>3, <1>4, <1>5, CallStep

LEMMA InvReleasePlan == ASSUME IInv, NEW c \in Clients, releasePlan(c) PROVE IInv'
<1>1. Typed /\ CallsFit /\ Plans
  BY DEF IInv
<1>2. Fields(tx[c]) /\ Carried(tx[c]) /\ DOMAIN tx = Clients
  BY <1>1 DEF CallsFit
<1> DEFINE plan == slotQtys(order.qty, tx[c].op.lotSize)
           t == [tx[c] EXCEPT !.at = "planned", !.plan = plan]
<1>3. tx' = [tx EXCEPT ![c] = t] /\ tx[c].op.kind = "release" /\ UNCHANGED db
  BY <1>2 DEF releasePlan, db
<1>4. plan \in Seq(Int)
  <2>1. order.qty \in Nat /\ tx[c].op.lotSize \in Nat \ {0}
    BY <1>1, <1>2, <1>3, WorkOrderAssumption DEF Typed, OrderType, Carried
  <2> QED
    BY <2>1, SlotsOf
<1> HIDE DEF plan
<1>5. /\ t.op = tx[c].op /\ t.at = "planned" /\ t.version = tx[c].version /\ t.plan = plan
      /\ t.judgment = tx[c].judgment /\ Fields(t)
  BY <1>2 DEF Fields
<1> HIDE DEF t
<1>6. Carried(t)
  BY <1>2, <1>3, <1>4, <1>5 DEF Carried
<1>7. PlanOf(t)
  BY <1>1, <1>3, <1>5 DEF Plans, PlanOf, plan
<1> QED
  BY <1>3, <1>5, <1>6, <1>7, CallStep

(* What a handler checks under the lock stands until it writes. *)
LEMMA InvLock == ASSUME IInv, NEW c \in Clients, Lock(c) PROVE IInv'
<1>1. Typed /\ CallsFit /\ Plans
  BY DEF IInv
<1>2. Fields(tx[c]) /\ Carried(tx[c]) /\ DOMAIN tx = Clients
  BY <1>1 DEF CallsFit
<1> DEFINE j == judgeCompletion(goodQty(result), order.qty)
           t == [tx[c] EXCEPT !.at = "locked", !.judgment = j]
<1>3. /\ tx' = [tx EXCEPT ![c] = t] /\ UNCHANGED db
      /\ tx[c].op.kind \in LocksOrder /\ lockWorkOrder(c) /\ assertVersion(c) /\ assertCall(tx[c].op)
      /\ tx[c].op.kind = "release" => tx[c].at = "planned"
  BY <1>2 DEF Lock, db
<1>4. j \in Judgments
  BY DEF judgeCompletion, Judgments
<1> HIDE DEF j
<1>5. /\ t.op = tx[c].op /\ t.at = "locked" /\ t.version = tx[c].version /\ t.plan = tx[c].plan
      /\ t.judgment = j /\ Fields(t)
  BY <1>2 DEF Fields
<1> HIDE DEF t
<1>6. Carried(t)
  BY <1>2, <1>3, <1>4, <1>5 DEF Carried
<1>7. StandingOf(t)
  <2> DEFINE op == tx[c].op
  <2>1. op.kind = "update" => ~ order.released
    BY <1>3 DEF assertCall
  <2>2. op.kind \in {"release", "resume", "cancel"} => assertTransition(op.kind)
    BY <1>3 DEF assertCall
  <2>3. op.kind = "start" => OpenSessions = {} /\ (order.status = "SUSPENDED" \/ assertTransition("start"))
    BY <1>3 DEF assertCall
  <2>4. op.kind = "hold" => assertTransition("hold")
    BY <1>3 DEF assertCall
  <2>5. op.kind = "close" => OpenSessions = {} /\ assertTransition("close")
    BY <1>3 DEF assertCall
  <2>6. op.kind = "report" => assertReportable(op)
    BY <1>3 DEF assertCall
  <2>7. op.kind = "release" => tx[c].version = order.version
    BY <1>3 DEF assertVersion, IfMatch
  <2> QED
    BY <1>5, <2>1, <2>2, <2>3, <2>4, <2>5, <2>6, <2>7 DEF StandingOf, j
<1>8. t.op.kind = "release" => PlanOf(t)
  BY <1>1, <1>3, <1>5 DEF Plans, PlanOf
<1>9. \A d \in Clients \ {c} : ~ Holding(d)
  BY <1>3 DEF lockWorkOrder
<1> QED
  BY <1>3, <1>5, <1>6, <1>7, <1>8, <1>9, CallStep

LEMMA InvLockRequests == ASSUME IInv, NEW c \in Clients, LockRequests(c) PROVE IInv'
<1>1. Typed /\ CallsFit /\ Plans /\ OneHolder /\ Standing
  BY DEF IInv
<1>2. Fields(tx[c]) /\ Carried(tx[c]) /\ DOMAIN tx = Clients
  BY <1>1 DEF CallsFit
<1> DEFINE op == tx[c].op
           rows == IF op.kind \in RequestCalls THEN {op.request}
                   ELSE {r \in DOMAIN request : request[r].sourced /\ isOpen(request[r])}
           started == {r \in rows : Started(request[r])}
           t == [tx[c] EXCEPT !.at = "settling", !.rows = rows, !.started = started]
<1>3. /\ tx' = [tx EXCEPT ![c] = t] /\ UNCHANGED db /\ lockRequests(c, rows)
      /\ \/ tx[c].at = "locked" /\ op.kind \in {"close", "cancel"}
         \/ op.kind \in RequestCalls /\ isOpen(request[op.request])
  BY <1>2 DEF LockRequests, db
<1>4. /\ rows \subseteq DOMAIN request
      /\ op.kind \in RequestCalls => rows = {op.request}
      /\ op.kind \notin RequestCalls => \A r \in DOMAIN request : MustSettle(r) => r \in rows
  BY <1>2 DEF MustSettle, Carried
<1> HIDE DEF rows, started
<1>5. /\ t.op = op /\ t.at = "settling" /\ t.version = tx[c].version /\ t.rows = rows
      /\ t.judgment = tx[c].judgment /\ Fields(t)
  BY <1>2 DEF Fields
<1> HIDE DEF t
<1>6. op.kind \in {"close", "cancel"} \cup RequestCalls /\ op.kind # "release"
  BY <1>3 DEF RequestCalls
<1>7. Carried(t)
  <2>1. op.kind # "start" /\ op.kind # "report" /\ op.kind # "update"
    BY <1>6 DEF RequestCalls
  <2> QED
    BY <1>2, <1>5, <1>6 DEF Carried
<1>8. ASSUME op.kind \notin RequestCalls
      PROVE  (\A d \in Clients \ {c} : ~ Holding(d)) /\ StandingOf(t)
  <2>1. Holding(c)
    BY <1>3, <1>8 DEF Holding
  <2>2. StandingOf(tx[c])
    BY <1>1, <2>1 DEF Standing
  <2> QED
    BY <1>1, <1>5, <2>1, <2>2 DEF OneHolder, StandingOf
<1>9. SettlingOf(t)
  BY <1>3, <1>4, <1>5 DEF SettlingOf, RequestCalls
<1>10. \A d \in Clients \ {c} : tx[d].at = "settling" => tx[d].rows \cap t.rows = {}
  BY <1>3, <1>5 DEF lockRequests
<1> QED
  BY <1>3, <1>5, <1>6, <1>7, <1>8, <1>9, <1>10, CallStep

LEMMA InvAbort == ASSUME IInv, NEW c \in Clients, Abort(c) PROVE IInv'
<1>1. tx' = [tx EXCEPT ![c] = Idle] /\ UNCHANGED db
  BY DEF Abort, db
<1> QED
  BY <1>1, IdleCall, CallStep

LEMMA InitIInv == Init => IInv
<1> SUFFICES ASSUME Init PROVE IInv
  OBVIOUS
<1>1. PICK qty \in Qtys, lotSize \in LotSizes :
          /\ order = [status |-> IF world.begun THEN "IN_PROGRESS" ELSE "PLANNED", qty |-> qty,
                      released |-> world.begun, judged |-> "NONE", version |-> 1]
          /\ slot = IF world.begun THEN NewSlots(slotQtys(qty, lotSize)) ELSE <<>>
  BY DEF Init
<1>2. /\ world \in Worlds /\ world.begun \in BOOLEAN /\ world.workers \subseteq Workers
      /\ world.workers # {} /\ qty \in Nat /\ lotSize \in Nat \ {0}
  BY WorkOrderAssumption DEF Init
<1>3. /\ order \in OrderType /\ order.released = world.begun /\ order.qty = qty
      /\ order.status = IF world.begun THEN "IN_PROGRESS" ELSE "PLANNED"
  BY <1>1, <1>2 DEF OrderType, OrderStatuses, Judgments
<1>4. slotQtys(qty, lotSize) \in Seq(Int)
  BY <1>2, SlotsOf
<1> DEFINE s == NewSlots(slotQtys(qty, lotSize))
<1>5. /\ s \in Seq(SlotType) /\ DOMAIN s = DOMAIN slotQtys(qty, lotSize)
      /\ \A i \in DOMAIN s : s[i].qty = slotQtys(qty, lotSize)[i] /\ s[i].life = "WAITING"
  BY <1>4, NewSlotsOf
<1> HIDE DEF s
<1>6. slot = IF world.begun THEN s ELSE <<>>
  BY <1>1 DEF s
<1>7. slot \in Seq(SlotType) /\ \A i \in DOMAIN slot : slot[i].life = "WAITING"
  BY <1>5, <1>6
<1>8. /\ session \in Seq(SessionType)
      /\ \A i \in DOMAIN session : session[i].status = "ENDED" /\ session[i].in = {}
  <2> DEFINE m == CHOOSE w \in world.workers : TRUE
  <2>1. m \in Workers
    BY <1>2
  <2>2. session = IF world.begun THEN <<[status |-> "ENDED", main |-> m, in |-> {}]>> ELSE <<>>
    BY DEF Init
  <2> HIDE DEF m
  <2>3. [status |-> "ENDED", main |-> m, in |-> {}] \in SessionType
    BY <2>1 DEF SessionType
  <2> QED
    BY <2>2, <2>3
<1>9. request \in Seq(RequestType)
  <2>1. NewRequest(TRUE, TRUE) \in RequestType
    BY DEF NewRequest, RequestType
  <2> DEFINE q == NewRequest(TRUE, TRUE)
  <2>2. request = IF world.begun THEN <<q>> ELSE <<>>
    BY DEF Init
  <2> HIDE DEF q
  <2>3. q \in RequestType
    BY <2>1 DEF q
  <2> QED
    BY <2>2, <2>3
<1>10. result = <<>> /\ result \in Seq(ResultType) /\ DOMAIN result = {}
  BY DEF Init
<1>11. Typed
  BY <1>2, <1>3, <1>7, <1>8, <1>9, <1>10 DEF Typed
<1>12. DOMAIN tx = Clients /\ \A c \in Clients : tx[c] = Idle
  BY DEF Init
<1>13. CallsFit
  BY <1>12, IdleCall DEF CallsFit
<1>14. \A c \in Clients : tx[c].at = "idle" /\ tx[c].op.kind = "none"
  BY <1>12, IdleCall
<1>15. OneHolder /\ Standing /\ OneSettler /\ Settling /\ Plans
  BY <1>14 DEF Holding, OneHolder, Standing, OneSettler, Settling, Plans
<1>16. Sessions
  <2>1. OpenSessions = {}
    BY <1>8 DEF OpenSessions
  <2>2. Cardinality({}) = 0 /\ 0 <= MaxOpenWorkers
    BY FS_EmptySet, WorkOrderAssumption
  <2>3. \A i \in DOMAIN session : SessionOK(session[i])
    BY <1>8, <2>2 DEF SessionOK
  <2> QED
    BY <2>1, <2>3 DEF Sessions
<1>17. Released /\ RequestsSettled
  BY <1>2, <1>3, <1>10 DEF Released, NoSlotStatus, RequestsSettled, Ended
<1>18. SlotsAsPlanned
  BY <1>3, <1>5, <1>6 DEF SlotsAsPlanned
<1>19. SlotLives
  <2>1. \A i \in DOMAIN slot : ~ Allocated(i)
    BY <1>10 DEF Allocated
  <2> QED
    BY <1>2, <1>3, <1>6, <1>7, <2>1 DEF SlotLives
<1> QED
  BY <1>11, <1>13, <1>15, <1>16, <1>17, <1>18, <1>19 DEF IInv
-----------------------------------------------------------------------------
(* Calls on a session. *)

(* A session that a call changes is not opened by it. *)
LEMMA SessionChange ==
    ASSUME IInv, NEW i \in DOMAIN session, NEW new \in SessionType, SessionOK(new),
           OnSession(i, new), new.status # "ENDED" => session[i].status # "ENDED"
    PROVE  IInv'
<1>1. session \in Seq(SessionType)
  BY DEF IInv, Typed
<1>2. /\ session' = [session EXCEPT ![i] = new]
      /\ UNCHANGED <<world, order, slot, result, request, tx>>
  BY DEF OnSession
<1>3. /\ session' \in Seq(SessionType) /\ DOMAIN session' = DOMAIN session
      /\ session'[i] = new /\ \A j \in DOMAIN session \ {i} : session'[j] = session[j]
  BY <1>1, <1>2, ReplaceSeq
<1>4. OpenSessions' \subseteq OpenSessions
  BY <1>3 DEF OpenSessions
<1>5. Typed'
  BY <1>2, <1>3 DEF IInv, Typed
<1>6. CallsFit'
  <2>1. \A x : (Carried(x) => Carried(x)') /\ (Fields(x) => Fields(x)')
    BY <1>2, <1>3 DEF Carried, Fields, assertCrew, LocksOrder, TRANSITIONS
  <2> QED
    BY <1>2, <2>1 DEF IInv, CallsFit
<1>7. OneHolder' /\ OneSettler' /\ Plans' /\ Settling'
  BY <1>2 DEF IInv, OneHolder, Holding, OneSettler, Plans, PlanOf, Settling, SettlingOf, MustSettle, isOpen
<1>8. Standing'
  <2>1. \A x : StandingOf(x) => StandingOf(x)'
    BY <1>2, <1>4 DEF StandingOf, assertTransition, assertReportable
  <2> QED
    BY <1>2, <2>1 DEF IInv, Standing, Holding
<1>9. Sessions'
  BY <1>2, <1>3, <1>4 DEF IInv, Sessions, SessionOK
<1>10. Released' /\ SlotsAsPlanned' /\ SlotLives' /\ RequestsSettled'
  BY <1>2 DEF IInv, Released, SlotsAsPlanned, SlotLives, Allocated, RequestsSettled, isOpen
<1> QED
  BY <1>5, <1>6, <1>7, <1>8, <1>9, <1>10 DEF IInv

LEMMA CrewFinite == ASSUME NEW s \in SUBSET Workers PROVE IsFiniteSet(s) /\ Cardinality(s) \in Nat
BY FS_Subset, FS_CardinalityType, WorkOrderAssumption

LEMMA InvSessionStep == ASSUME IInv, SessionStep PROVE IInv'
<1>1. PICK i \in DOMAIN session :
        \/ StopSession(i) \/ EndSession(i)
        \/ \E w \in world.workers : Join(i, w) \/ Leave(i, w)
  BY DEF SessionStep
<1>2. session \in Seq(SessionType) /\ session[i] \in SessionType /\ SessionOK(session[i])
  BY DomSeq DEF IInv, Typed, Sessions
<1>3. session[i].in \in SUBSET Workers /\ world.workers \subseteq Workers
  BY <1>2, WorkOrderAssumption DEF SessionType, IInv, Typed
<1>4. CASE StopSession(i)
  <2> DEFINE new == [session[i] EXCEPT !.status = "STOPPED"]
  <2>1. new \in SessionType /\ new.status = "STOPPED" /\ new.in = session[i].in /\ new.main = session[i].main
    BY <1>2 DEF SessionType
  <2>2. session[i].status = "RUNNING" /\ OnSession(i, new)
    BY <1>4 DEF StopSession
  <2> HIDE DEF new
  <2>3. SessionOK(new)
    BY <1>2, <2>1, <2>2 DEF SessionOK
  <2> QED
    BY <2>1, <2>2, <2>3, SessionChange
<1>5. CASE EndSession(i)
  <2> DEFINE new == [session[i] EXCEPT !.status = "ENDED", !.in = {}]
  <2>1. new \in SessionType /\ new.status = "ENDED" /\ new.in = {}
    BY <1>2 DEF SessionType
  <2>2. OnSession(i, new)
    BY <1>5 DEF EndSession
  <2> HIDE DEF new
  <2>3. SessionOK(new)
    BY <2>1, FS_EmptySet, WorkOrderAssumption DEF SessionOK
  <2> QED
    BY <2>1, <2>2, <2>3, SessionChange
<1>6. ASSUME NEW w \in world.workers, Join(i, w) PROVE IInv'
  <2> DEFINE in == session[i].in \cup {w}
             new == [session[i] EXCEPT !.in = in]
  <2>1. OnSession(i, new) /\ session[i].status # "ENDED" /\ Cardinality(session[i].in) < MaxOpenWorkers
    BY <1>6 DEF Join
  <2>2. in \in SUBSET Workers
    BY <1>3
  <2>3. w \notin session[i].in
    BY <1>6 DEF Join
  <2>4. Cardinality(in) = Cardinality(session[i].in) + 1
    BY <1>3, <2>3, CrewFinite, FS_AddElement
  <2>5. Cardinality(in) <= MaxOpenWorkers
    BY <1>3, <2>1, <2>4, CrewFinite, WorkOrderAssumption
  <2>6. in # {} /\ session[i].in \subseteq in
    OBVIOUS
  <2> HIDE DEF in
  <2>7. new \in SessionType /\ new.status = session[i].status /\ new.in = in /\ new.main = session[i].main
    BY <1>2, <2>2 DEF SessionType
  <2> HIDE DEF new
  <2>8. SessionOK(new)
    BY <1>2, <2>1, <2>5, <2>6, <2>7 DEF SessionOK
  <2> QED
    BY <2>1, <2>7, <2>8, SessionChange
<1>7. ASSUME NEW w \in world.workers, Leave(i, w) PROVE IInv'
  <2> DEFINE in == session[i].in \ {w}
             new == [session[i] EXCEPT !.in = in]
  <2>1. OnSession(i, new) /\ w \in session[i].in /\ (w = session[i].main => session[i].status = "ENDED")
    BY <1>7 DEF Leave
  <2>2. in \in SUBSET Workers
    BY <1>3
  <2>3. session[i].status # "ENDED" /\ w # session[i].main /\ session[i].main \in session[i].in
    BY <1>2, <2>1 DEF SessionOK
  <2>4. session[i].main \in in
    BY <2>3
  <2>5. Cardinality(in) <= Cardinality(session[i].in)
    BY <1>3, CrewFinite, FS_Subset
  <2>6. Cardinality(in) <= MaxOpenWorkers
    BY <1>2, <1>3, <2>2, <2>5, CrewFinite, WorkOrderAssumption DEF SessionOK
  <2> HIDE DEF in
  <2>7. new \in SessionType /\ new.status = session[i].status /\ new.in = in /\ new.main = session[i].main
    BY <1>2, <2>2 DEF SessionType
  <2> HIDE DEF new
  <2>8. SessionOK(new)
    BY <2>3, <2>4, <2>6, <2>7 DEF SessionOK
  <2> QED
    BY <2>1, <2>3, <2>7, <2>8, SessionChange
<1> QED
  BY <1>1, <1>4, <1>5, <1>6, <1>7
-----------------------------------------------------------------------------
(* Requests. *)

(* A change of the requests that opens none the release made, and leaves   *)
(* open those that others have locked.                                     *)
LEMMA RequestChange ==
    ASSUME IInv, UNCHANGED <<world, order, slot, session, result>>,
           request' \in Seq(RequestType), DOMAIN request \subseteq DOMAIN request',
           \A r \in DOMAIN request' : MustSettle(r)' => r \in DOMAIN request /\ MustSettle(r),
           DOMAIN tx' = Clients, \A d \in Clients : tx'[d] = tx[d] \/ tx'[d] = Idle,
           \A d \in Clients : tx'[d] = tx[d] /\ tx[d].at = "settling" /\ tx[d].op.kind \in RequestCalls
                                  => isOpen(request'[tx[d].op.request])
    PROVE  IInv'
<1>1. Idle.at = "idle" /\ Idle.op.kind = "none" /\ Fields(Idle) /\ Carried(Idle)
  BY IdleCall
<1> HIDE DEF Idle
<1>2. Typed'
  BY DEF IInv, Typed
<1>3. CallsFit'
  <2>1. \A x : (Carried(x) => Carried(x)') /\ (Fields(x) => Fields(x)')
    BY DEF Carried, Fields, assertCrew, LocksOrder, TRANSITIONS
  <2> QED
    BY <1>1, <2>1 DEF IInv, CallsFit
<1>4. \A d \in Clients : Holding(d)' => tx'[d] = tx[d] /\ Holding(d)
  BY <1>1 DEF Holding
<1>5. OneHolder'
  BY <1>4 DEF IInv, OneHolder
<1>6. Standing'
  <2>1. OpenSessions' = OpenSessions
    BY DEF OpenSessions
  <2>2. \A x : StandingOf(x) => StandingOf(x)'
    BY <2>1 DEF StandingOf, assertTransition, assertReportable
  <2> QED
    BY <1>4, <2>2 DEF IInv, Standing
<1>7. Plans'
  BY <1>1 DEF IInv, Plans, PlanOf
<1>8. \A d \in Clients : tx'[d].at = "settling" => tx'[d] = tx[d]
  BY <1>1
<1>9. OneSettler'
  BY <1>8 DEF IInv, OneSettler
<1>10. Settling'
  <2>1. ASSUME NEW d \in Clients, tx'[d].at = "settling" PROVE SettlingOf(tx[d])'
    <3>1. SettlingOf(tx[d]) /\ tx'[d] = tx[d] /\ tx[d].at = "settling"
      BY <1>8, <2>1 DEF IInv, Settling
    <3>2. tx[d].rows \subseteq DOMAIN request'
      BY <3>1 DEF SettlingOf
    <3>3. tx[d].op.kind \in RequestCalls => tx[d].rows = {tx[d].op.request} /\ isOpen(request'[tx[d].op.request])
      BY <3>1 DEF SettlingOf
    <3>4. tx[d].op.kind \notin RequestCalls => \A r \in DOMAIN request' : MustSettle(r)' => r \in tx[d].rows
      BY <3>1 DEF SettlingOf
    <3> QED
      BY <3>1, <3>2, <3>3, <3>4 DEF SettlingOf, RequestCalls
  <2> QED
    BY <2>1 DEF Settling
<1>11. Sessions' /\ Released' /\ SlotsAsPlanned' /\ SlotLives'
  BY DEF IInv, Sessions, OpenSessions, SessionOK, Released, SlotsAsPlanned, SlotLives, Allocated
<1>12. RequestsSettled'
  BY DEF IInv, RequestsSettled, MustSettle
<1> QED
  BY <1>2, <1>3, <1>5, <1>6, <1>7, <1>9, <1>10, <1>11, <1>12 DEF IInv
(* A change of one request: it opens none, and it closes one only while    *)
(* nobody else has it locked.                                              *)
LEMMA OneRow ==
    ASSUME IInv, UNCHANGED <<world, order, slot, session, result>>,
           NEW r \in DOMAIN request, NEW q \in RequestType, request' = [request EXCEPT ![r] = q],
           q.sourced = request[r].sourced, q.auto = request[r].auto,
           isOpen(q) => isOpen(request[r]),
           DOMAIN tx' = Clients, \A d \in Clients : tx'[d] = tx[d] \/ tx'[d] = Idle,
           \/ isOpen(request[r]) => isOpen(q)
           \/ \A d \in Clients : tx'[d] = tx[d] /\ tx[d].at = "settling" => r \notin tx[d].rows
    PROVE  IInv'
<1>1. request \in Seq(RequestType) /\ Settling
  BY DEF IInv, Typed
<1>2. /\ request' \in Seq(RequestType) /\ DOMAIN request' = DOMAIN request
      /\ request'[r] = q /\ \A j \in DOMAIN request \ {r} : request'[j] = request[j]
  BY <1>1, ReplaceSeq
<1>3. ASSUME NEW j \in DOMAIN request', MustSettle(j)' PROVE j \in DOMAIN request /\ MustSettle(j)
  <2>1. CASE j = r
    BY <1>2, <1>3, <2>1 DEF MustSettle, isOpen
  <2>2. CASE j # r
    BY <1>2, <1>3, <2>2 DEF MustSettle, isOpen
  <2> QED
    BY <2>1, <2>2
<1>4. ASSUME NEW d \in Clients, tx'[d] = tx[d], tx[d].at = "settling", tx[d].op.kind \in RequestCalls
      PROVE  isOpen(request'[tx[d].op.request])
  <2>1. /\ tx[d].rows \subseteq DOMAIN request /\ tx[d].rows = {tx[d].op.request}
        /\ isOpen(request[tx[d].op.request])
    BY <1>1, <1>4 DEF Settling, SettlingOf
  <2>2. CASE tx[d].op.request = r
    BY <1>2, <1>4, <2>1, <2>2
  <2>3. CASE tx[d].op.request # r
    <3>1. request'[tx[d].op.request] = request[tx[d].op.request]
      BY <1>2, <2>1, <2>3
    <3> QED
      BY <2>1, <3>1
  <2> QED
    BY <2>2, <2>3
<1> QED
  BY <1>2, <1>3, <1>4, RequestChange

LEMMA ReleasedRow ==
    ASSUME NEW q \in RequestType, NEW x \in released(q)
    PROVE  /\ x \in RequestType /\ x.sourced = q.sourced /\ x.auto = q.auto /\ x.closed = q.closed
           /\ x.status = "REGISTERED"
<1>1. PICK p \in {q.picking, "open"} :
          x = [q EXCEPT !.status = "REGISTERED", !.version = q.version + 1, !.picking = p]
  BY DEF released
<1>2. p \in {"none", "open", "cancelled"} /\ q.version + 1 \in Nat
  BY DEF RequestType
<1> QED
  BY <1>1, <1>2 DEF RequestType

LEMMA PickingsClosed ==
    ASSUME NEW q \in RequestType
    PROVE  /\ closePickings(q) \in RequestType
           /\ closePickings(q).sourced = q.sourced /\ closePickings(q).auto = q.auto
           /\ closePickings(q).closed = q.closed /\ closePickings(q).status = q.status
           /\ closePickings(q).version = q.version
BY DEF closePickings, RequestType

LEMMA SettledRow ==
    ASSUME NEW q \in RequestType, NEW b \in BOOLEAN
    PROVE  /\ settled(q, b) \in RequestType /\ ~ isOpen(settled(q, b))
           /\ settled(q, b).sourced = q.sourced /\ settled(q, b).auto = q.auto
<1> DEFINE v == [q EXCEPT !.version = q.version + 1]
           p == closePickings(v)
<1>1. v \in RequestType /\ v.sourced = q.sourced /\ v.auto = q.auto
  <2>1. q.version + 1 \in Nat
    BY DEF RequestType
  <2> QED
    BY <2>1 DEF RequestType
<1> HIDE DEF v
<1>2. p \in RequestType /\ p.sourced = q.sourced /\ p.auto = q.auto
  BY <1>1, PickingsClosed
<1>3. settled(q, b) = IF b THEN [p EXCEPT !.closed = TRUE] ELSE [p EXCEPT !.status = "CANCELLED"]
  BY DEF settled, v
<1> HIDE DEF p
<1>4. settled(q, b) \in RequestType /\ settled(q, b).sourced = q.sourced /\ settled(q, b).auto = q.auto
  BY <1>2, <1>3 DEF RequestType
<1>5. ~ isOpen(settled(q, b))
  BY <1>2, <1>3 DEF RequestType, isOpen
<1> QED
  BY <1>4, <1>5

LEMMA NewRow ==
    ASSUME NEW s \in BOOLEAN, NEW a \in BOOLEAN
    PROVE  NewRequest(s, a) \in RequestType /\ NewRequest(s, a).auto = a /\ NewRequest(s, a).sourced = s
BY DEF NewRequest, RequestType

LEMMA InvRequestStep == ASSUME IInv, RequestStep PROVE IInv'
<1>1. PICK r \in DOMAIN request : ReleaseOne(r) \/ Pick(r) \/ Issue(r) \/ Post(r)
  BY DEF RequestStep
<1>2. request[r] \in RequestType /\ DOMAIN tx = Clients
  BY DomSeq DEF IInv, Typed, CallsFit
<1>3. CASE ReleaseOne(r)
  <2>1. PICK q \in released(request[r]) : request' = [request EXCEPT ![r] = q]
    BY <1>3 DEF ReleaseOne, OnRequest, OneRequest
  <2>2. /\ q \in RequestType /\ q.sourced = request[r].sourced /\ q.auto = request[r].auto
        /\ q.closed = request[r].closed /\ q.status = "REGISTERED"
    BY <1>2, <2>1, ReleasedRow
  <2>3. isOpen(q) <=> isOpen(request[r])
    BY <1>3, <2>2 DEF ReleaseOne, isOpen
  <2>4. UNCHANGED <<world, order, slot, session, result, tx>>
    BY <1>3 DEF ReleaseOne, OnRequest, OneRequest
  <2> QED
    BY <1>2, <2>1, <2>2, <2>3, <2>4, OneRow
<1>4. CASE Pick(r)
  <2> DEFINE q == [request[r] EXCEPT !.progress = "picked"]
  <2>1. request' = [request EXCEPT ![r] = q] /\ UNCHANGED <<world, order, slot, session, result, tx>>
    BY <1>4 DEF Pick, OnRequest, OneRequest
  <2>2. /\ q \in RequestType /\ q.sourced = request[r].sourced /\ q.auto = request[r].auto
        /\ q.closed = request[r].closed /\ q.status = request[r].status
    BY <1>2 DEF RequestType
  <2> HIDE DEF q
  <2>3. isOpen(q) <=> isOpen(request[r])
    BY <2>2 DEF isOpen
  <2> QED
    BY <1>2, <2>1, <2>2, <2>3, OneRow
<1>5. CASE Issue(r)
  <2> DEFINE p == [request[r] EXCEPT !.progress = "issued"]
             q == [request[r] EXCEPT !.progress = "all"]
             x == [request[r] EXCEPT !.posting = TRUE]
  <2>1. UNCHANGED <<world, order, slot, session, result, tx>>
    BY <1>5 DEF Issue, OnRequest, OneRequest
  <2>2. PICK y \in {p, q, x} : request' = [request EXCEPT ![r] = y]
    BY <1>5 DEF Issue, OnRequest, OneRequest
  <2>3. /\ y \in RequestType /\ y.sourced = request[r].sourced /\ y.auto = request[r].auto
        /\ y.closed = request[r].closed /\ y.status = request[r].status
    BY <1>2 DEF RequestType
  <2> HIDE DEF p, q, x
  <2>4. isOpen(y) <=> isOpen(request[r])
    BY <2>3 DEF isOpen
  <2> QED
    BY <1>2, <2>1, <2>2, <2>3, <2>4, OneRow
<1>6. CASE Post(r)
  <2> DEFINE p == [request[r] EXCEPT !.posting = FALSE]
             v == request[r].version + 1
             q == [request[r] EXCEPT !.posting = FALSE, !.progress = "all", !.status = "POSTED", !.version = v]
  <2>1. UNCHANGED <<world, order, slot, session, result, tx>>
    BY <1>6 DEF Post, OnRequest, OneRequest
  <2>2. \/ request' = [request EXCEPT ![r] = p]
        \/ request' = [request EXCEPT ![r] = q] /\ Unlocked(r)
    BY <1>6 DEF Post, OnRequest, OneRequest
  <2>3. CASE request' = [request EXCEPT ![r] = p]
    <3>1. /\ p \in RequestType /\ p.sourced = request[r].sourced /\ p.auto = request[r].auto
          /\ p.closed = request[r].closed /\ p.status = request[r].status
      BY <1>2 DEF RequestType
    <3> HIDE DEF p
    <3>2. isOpen(p) <=> isOpen(request[r])
      BY <3>1 DEF isOpen
    <3> QED
      BY <1>2, <2>1, <2>3, <3>1, <3>2, OneRow
  <2>4. CASE request' = [request EXCEPT ![r] = q] /\ Unlocked(r)
    <3>1. v \in Nat
      BY <1>2 DEF RequestType
    <3> HIDE DEF v
    <3>2. /\ q \in RequestType /\ q.sourced = request[r].sourced /\ q.auto = request[r].auto
          /\ q.status = "POSTED"
      BY <1>2, <3>1 DEF RequestType
    <3> HIDE DEF q
    <3>3. ~ isOpen(q)
      BY <3>2 DEF isOpen
    <3>4. \A d \in Clients : tx'[d] = tx[d] /\ tx[d].at = "settling" => r \notin tx[d].rows
      BY <2>4 DEF Unlocked
    <3> QED
      BY <1>2, <2>1, <2>4, <3>2, <3>3, <3>4, OneRow
  <2> QED
    BY <2>2, <2>3, <2>4
<1> QED
  BY <1>1, <1>3, <1>4, <1>5, <1>6

(* The call c ends; what it had locked is nobody else's. *)
LEMMA Committed ==
    ASSUME IInv, NEW c \in Clients, tx' = [tx EXCEPT ![c] = Idle]
    PROVE  /\ DOMAIN tx' = Clients /\ tx'[c] = Idle /\ \A d \in Clients \ {c} : tx'[d] = tx[d]
           /\ \A d \in Clients : tx'[d] = tx[d] \/ tx'[d] = Idle
           /\ tx[c].at = "settling" =>
                \A d \in Clients : tx'[d] = tx[d] /\ tx[d].at = "settling" => tx[d].rows \cap tx[c].rows = {}
<1>1. DOMAIN tx = Clients /\ OneSettler
  BY DEF IInv, CallsFit
<1>2. Idle.at = "idle"
  BY IdleCall
<1> HIDE DEF Idle
<1>3. DOMAIN tx' = Clients /\ tx'[c] = Idle /\ \A d \in Clients \ {c} : tx'[d] = tx[d]
  BY <1>1
<1> QED
  BY <1>1, <1>2, <1>3 DEF OneSettler

LEMMA InvCancelRequest == ASSUME IInv, NEW c \in Clients, CancelRequest(c) PROVE IInv'
<1> DEFINE r == tx[c].op.request
           p == closePickings(request[r])
           q == [p EXCEPT !.status = "CANCELLED", !.version = p.version + 1]
<1>1. /\ tx[c].at = "settling" /\ tx[c].op.kind = "cancelRequest" /\ tx' = [tx EXCEPT ![c] = Idle]
      /\ UNCHANGED <<world, order, slot, session, result>> /\ request' = [request EXCEPT ![r] = q]
  BY DEF CancelRequest, Commits, OneRequest
<1>2. r \in DOMAIN request /\ tx[c].rows = {r}
  BY <1>1 DEF IInv, Settling, SettlingOf, RequestCalls
<1>3. request[r] \in RequestType
  BY <1>2, DomSeq DEF IInv, Typed
<1>4. p \in RequestType /\ p.sourced = request[r].sourced /\ p.auto = request[r].auto
  BY <1>3, PickingsClosed
<1> HIDE DEF p
<1>5. p.version + 1 \in Nat
  BY <1>4 DEF RequestType
<1>6. q \in RequestType /\ q.sourced = p.sourced /\ q.auto = p.auto /\ q.status = "CANCELLED"
  BY <1>4, <1>5 DEF RequestType
<1> HIDE DEF q
<1>7. ~ isOpen(q)
  BY <1>6 DEF isOpen
<1>8. /\ DOMAIN tx' = Clients /\ \A d \in Clients : tx'[d] = tx[d] \/ tx'[d] = Idle
      /\ \A d \in Clients : tx'[d] = tx[d] /\ tx[d].at = "settling" => r \notin tx[d].rows
  BY <1>1, <1>2, Committed
<1> HIDE DEF r
<1> QED
  BY <1>1, <1>2, <1>4, <1>6, <1>7, <1>8, OneRow

LEMMA InvUpdateRequest == ASSUME IInv, NEW c \in Clients, UpdateRequest(c) PROVE IInv'
<1> DEFINE r == tx[c].op.request
           o == request[r]
<1>1. /\ tx[c].at = "settling" /\ tx[c].op.kind = "updateRequest" /\ tx' = [tx EXCEPT ![c] = Idle]
      /\ UNCHANGED <<world, order, slot, session, result>>
      /\ \E q \in updateWaiting(o) \cup updateStarted(o) : request' = [request EXCEPT ![r] = q]
  BY DEF UpdateRequest, Commits, OneRequest
<1>2. r \in DOMAIN request /\ tx[c].rows = {r} /\ isOpen(o)
  BY <1>1 DEF IInv, Settling, SettlingOf, RequestCalls
<1>3. o \in RequestType
  BY <1>2, DomSeq DEF IInv, Typed
<1>4. o.version + 1 \in Nat
  BY <1>3 DEF RequestType
<1>5. ASSUME NEW q \in updateWaiting(o) PROVE q \in RequestType /\ q.sourced = o.sourced /\ q.auto = o.auto
  <2> DEFINE p == IF o.status = "REGISTERED" THEN closePickings(o) ELSE o
             back == [p EXCEPT !.status = "WAITING", !.version = p.version + 1]
  <2>1. p \in RequestType /\ p.sourced = o.sourced /\ p.auto = o.auto
    BY <1>3, PickingsClosed
  <2> HIDE DEF p
  <2>2. p.version + 1 \in Nat
    BY <2>1 DEF RequestType
  <2>3. back \in RequestType /\ back.sourced = o.sourced /\ back.auto = o.auto
    BY <2>1, <2>2 DEF RequestType
  <2>4. q = back \/ q \in released(back)
    BY <1>5 DEF updateWaiting, p
  <2> HIDE DEF back
  <2> QED
    BY <2>3, <2>4, ReleasedRow
<1>6. ASSUME NEW q \in updateStarted(o) PROVE q \in RequestType /\ q.sourced = o.sourced /\ q.auto = o.auto
  <2> HIDE DEF o
  <2>1. \/ \E p \in {o.picking, "open"} : q = [o EXCEPT !.version = o.version + 1, !.picking = p]
        \/ q = [o EXCEPT !.version = o.version + 1, !.status = "POSTED", !.progress = "all"]
    BY <1>6 DEF updateStarted
  <2>2. o.picking \in {"none", "open", "cancelled"}
    BY <1>3 DEF RequestType
  <2>3. CASE \E p \in {o.picking, "open"} : q = [o EXCEPT !.version = o.version + 1, !.picking = p]
    <3>1. PICK p \in {"none", "open", "cancelled"} : q = [o EXCEPT !.version = o.version + 1, !.picking = p]
      BY <2>2, <2>3
    <3> QED
      BY <1>3, <1>4, <3>1 DEF RequestType
  <2>4. CASE q = [o EXCEPT !.version = o.version + 1, !.status = "POSTED", !.progress = "all"]
    BY <1>3, <1>4, <2>4 DEF RequestType
  <2> QED
    BY <2>1, <2>3, <2>4
<1>7. PICK q \in RequestType : /\ request' = [request EXCEPT ![r] = q]
                               /\ q.sourced = o.sourced /\ q.auto = o.auto
  BY <1>1, <1>5, <1>6
<1>8. /\ DOMAIN tx' = Clients /\ \A d \in Clients : tx'[d] = tx[d] \/ tx'[d] = Idle
      /\ \A d \in Clients : tx'[d] = tx[d] /\ tx[d].at = "settling" => r \notin tx[d].rows
  BY <1>1, <1>2, Committed
<1> HIDE DEF r
<1> QED
  BY <1>1, <1>2, <1>7, <1>8, OneRow

(* A request made by hand is not one the release made. *)
LEMMA InvIssueMore == ASSUME IInv, NEW c \in Clients, IssueMore(c) PROVE IInv'
<1>1. /\ tx' = [tx EXCEPT ![c] = Idle] /\ UNCHANGED <<world, order, slot, session, result>>
      /\ request \in Seq(RequestType)
  BY DEF IssueMore, Commits, IInv, Typed
<1>2. PICK q \in released(NewRequest(TRUE, FALSE)) : request' = Append(request, q)
  BY DEF IssueMore
<1>3. q \in RequestType /\ q.auto = FALSE
  BY NewRow, ReleasedRow
<1>4. /\ request' \in Seq(RequestType) /\ DOMAIN request' = DOMAIN request \cup {Len(request) + 1}
      /\ request'[Len(request) + 1] = q
      /\ \A j \in DOMAIN request : request'[j] = request[j]
  BY <1>1, <1>2, <1>3, AppendSeq
<1>5. ASSUME NEW j \in DOMAIN request', MustSettle(j)' PROVE j \in DOMAIN request /\ MustSettle(j)
  BY <1>3, <1>4, <1>5 DEF MustSettle, isOpen
<1>6. ASSUME NEW d \in Clients, tx[d].at = "settling", tx[d].op.kind \in RequestCalls
      PROVE  isOpen(request'[tx[d].op.request])
  <2>1. /\ tx[d].rows \subseteq DOMAIN request /\ tx[d].rows = {tx[d].op.request}
        /\ isOpen(request[tx[d].op.request])
    BY <1>6 DEF IInv, Settling, SettlingOf
  <2>2. request'[tx[d].op.request] = request[tx[d].op.request]
    BY <1>4, <2>1
  <2> QED
    BY <2>1, <2>2
<1>7. DOMAIN tx' = Clients /\ \A d \in Clients : tx'[d] = tx[d] \/ tx'[d] = Idle
  BY <1>1, Committed
<1> QED
  BY <1>1, <1>4, <1>5, <1>6, <1>7, RequestChange
-----------------------------------------------------------------------------
(* Calls that write under the lock of the order. *)

(* Nobody else holds the lock, and a plan made before goes stale. *)
LEMMA LockedCommit ==
    ASSUME IInv, NEW c \in Clients, Holding(c), tx' = [tx EXCEPT ![c] = Idle], Typed',
           order' = order \/ order'.version = order.version + 1,
           DOMAIN slot \subseteq DOMAIN slot', DOMAIN session \subseteq DOMAIN session',
           DOMAIN request \subseteq DOMAIN request',
           \A r \in DOMAIN request : request'[r] = request[r] \/ (tx[c].at = "settling" /\ r \in tx[c].rows),
           Sessions', Released', SlotsAsPlanned', SlotLives', RequestsSettled'
    PROVE  IInv'
<1>1. Idle.at = "idle" /\ Idle.op.kind = "none" /\ Fields(Idle) /\ Carried(Idle)
  BY IdleCall
<1>2. /\ DOMAIN tx' = Clients /\ tx'[c] = Idle /\ \A d \in Clients \ {c} : tx'[d] = tx[d]
      /\ tx[c].at = "settling" =>
           \A d \in Clients : tx'[d] = tx[d] /\ tx[d].at = "settling" => tx[d].rows \cap tx[c].rows = {}
  BY Committed
<1> HIDE DEF Idle
<1>3. \A d \in Clients : ~ Holding(d)'
  BY <1>1, <1>2 DEF IInv, OneHolder, Holding
<1>4. OneHolder' /\ Standing'
  BY <1>3 DEF OneHolder, Standing
<1>5. CallsFit'
  <2>1. \A x : (Carried(x) => Carried(x)') /\ (Fields(x) => Fields(x)')
    BY DEF Carried, Fields, assertCrew, LocksOrder, TRANSITIONS
  <2> QED
    BY <1>1, <1>2, <2>1 DEF IInv, CallsFit
<1>6. Plans'
  <2>1. order.version \in Nat
    BY DEF IInv, Typed, OrderType
  <2>2. \A x : PlanOf(x) => PlanOf(x)'
    BY <2>1 DEF PlanOf
  <2> QED
    BY <1>1, <1>2, <2>2 DEF IInv, Plans
<1>7. OneSettler'
  BY <1>1, <1>2 DEF IInv, OneSettler
<1>8. Settling'
  <2>1. ASSUME NEW d \in Clients, tx'[d].at = "settling" PROVE SettlingOf(tx[d])'
    <3>1. d # c /\ tx'[d] = tx[d] /\ tx[d].at = "settling" /\ tx[d].op.kind \in RequestCalls
      BY <1>1, <1>2, <1>3, <2>1 DEF Holding
    <3>2. /\ tx[d].rows \subseteq DOMAIN request /\ tx[d].rows = {tx[d].op.request}
          /\ isOpen(request[tx[d].op.request])
      BY <3>1 DEF IInv, Settling, SettlingOf
    <3>3. request'[tx[d].op.request] = request[tx[d].op.request]
      BY <1>2, <3>1, <3>2
    <3> QED
      BY <3>1, <3>2, <3>3 DEF SettlingOf
  <2> QED
    BY <2>1 DEF Settling
<1> QED
  BY <1>4, <1>5, <1>6, <1>7, <1>8 DEF IInv

LEMMA Writing ==
    ASSUME IInv, NEW c \in Clients, NEW kind, NEW at, Commits(c, kind, at),
           at = "locked" \/ (at = "settling" /\ kind \in {"close", "cancel"})
    PROVE  /\ Holding(c) /\ StandingOf(tx[c]) /\ Carried(tx[c]) /\ tx[c].op.kind = kind /\ tx[c].at = at
           /\ tx' = [tx EXCEPT ![c] = Idle] /\ world' = world
<1>1. Holding(c) /\ tx[c].op.kind = kind /\ tx[c].at = at /\ tx' = [tx EXCEPT ![c] = Idle] /\ world' = world
  BY DEF Commits, Holding, RequestCalls
<1> QED
  BY <1>1 DEF IInv, Standing, CallsFit

LEMMA MovedOrder ==
    ASSUME order \in OrderType, NEW kind \in DOMAIN TRANSITIONS
    PROVE  /\ Moved(kind) \in OrderType /\ Moved(kind).status = TRANSITIONS[kind].to
           /\ Moved(kind).qty = order.qty /\ Moved(kind).released = order.released
           /\ Moved(kind).version = order.version + 1
<1> DEFINE s == TRANSITIONS[kind].to
           v == order.version + 1
           b == [order EXCEPT !.version = v]
<1>1. s \in OrderStatuses
  BY DEF TRANSITIONS, Row, OrderStatuses
<1>2. v \in Nat
  BY DEF OrderType
<1>3. Moved(kind) = [b EXCEPT !.status = s]
  BY DEF Moved, Bumped
<1> HIDE DEF s, v
<1>4. b \in OrderType /\ b.version = v /\ b.qty = order.qty /\ b.released = order.released
  BY <1>2 DEF OrderType
<1> HIDE DEF b
<1>5. /\ Moved(kind) \in OrderType /\ Moved(kind).status = s /\ Moved(kind).qty = b.qty
      /\ Moved(kind).released = b.released /\ Moved(kind).version = b.version
  BY <1>1, <1>3, <1>4 DEF OrderType
<1> QED
  BY <1>4, <1>5 DEF s, v

LEMMA InvUpdate == ASSUME IInv, NEW c \in Clients, Update(c) PROVE IInv'
<1>1. /\ Holding(c) /\ StandingOf(tx[c]) /\ Carried(tx[c]) /\ tx[c].op.kind = "update"
      /\ tx' = [tx EXCEPT ![c] = Idle] /\ world' = world
  BY Writing DEF Update
<1>2. UNCHANGED <<slot, session, result, request>> /\ order \in OrderType
  BY DEF Update, IInv, Typed
<1> DEFINE q == tx[c].op.qty
           v == order.version + 1
           b == [order EXCEPT !.version = v]
<1>3. order' = [b EXCEPT !.qty = q]
  BY DEF Update, Bumped
<1>4. q \in Nat /\ v \in Nat /\ ~ order.released
  BY <1>1, <1>2 DEF Carried, StandingOf, OrderType
<1> HIDE DEF q, v
<1>5. b \in OrderType /\ b.version = v /\ b.status = order.status /\ b.released = order.released
  BY <1>2, <1>4 DEF OrderType
<1> HIDE DEF b
<1>6. /\ order' \in OrderType /\ order'.version = b.version /\ order'.status = b.status
      /\ order'.released = b.released
  BY <1>3, <1>4, <1>5 DEF OrderType
<1>7. order'.version = order.version + 1 /\ order'.status = order.status /\ order'.released = order.released
  BY <1>5, <1>6 DEF v
<1>8. Typed'
  BY <1>1, <1>2, <1>6 DEF IInv, Typed
<1>9. Sessions'
  BY <1>2, <1>7 DEF IInv, Sessions, OpenSessions, SessionOK
<1>10. Released' /\ SlotsAsPlanned' /\ SlotLives'
  BY <1>2, <1>4, <1>7 DEF IInv, Released, SlotsAsPlanned, SlotLives, Allocated
<1>11. RequestsSettled'
  BY <1>2, <1>7 DEF IInv, RequestsSettled, isOpen
<1> QED
  BY <1>1, <1>2, <1>7, <1>8, <1>9, <1>10, <1>11, LockedCommit

LEMMA InvRelease == ASSUME IInv, NEW c \in Clients, Release(c) PROVE IInv'
<1>1. /\ Holding(c) /\ StandingOf(tx[c]) /\ Carried(tx[c]) /\ tx[c].op.kind = "release"
      /\ tx[c].at = "locked" /\ tx' = [tx EXCEPT ![c] = Idle] /\ world' = world
  BY Writing DEF Release
<1>2. UNCHANGED <<session, result>> /\ order \in OrderType /\ request \in Seq(RequestType)
  BY DEF Release, IInv, Typed
<1>3. /\ order.status \in {"PLANNED", "CONFIRMED"} /\ tx[c].version = order.version
      /\ tx[c].plan \in Seq(Int) /\ tx[c].op.lotSize \in LotSizes
  BY <1>1 DEF StandingOf, Carried, assertTransition, TRANSITIONS, Row
<1>4. tx[c].plan = slotQtys(order.qty, tx[c].op.lotSize)
  BY <1>1, <1>3 DEF IInv, Plans, PlanOf
<1>5. OpenSessions = {} /\ ~ order.released /\ slot = <<>>
  BY <1>3 DEF IInv, Sessions, Released, SlotLives
<1> DEFINE m == Moved("release")
<1>6. /\ m \in OrderType /\ m.status = "RELEASED" /\ m.qty = order.qty /\ m.version = order.version + 1
  <2>1. "release" \in DOMAIN TRANSITIONS /\ TRANSITIONS["release"].to = "RELEASED"
    BY DEF TRANSITIONS, Row
  <2> QED
    BY <1>2, <2>1, MovedOrder
<1>7. order' = [m EXCEPT !.released = TRUE]
  BY DEF Release
<1> HIDE DEF m
<1>8. /\ order' \in OrderType /\ order'.status = m.status /\ order'.qty = m.qty
      /\ order'.version = m.version /\ order'.released = TRUE
  BY <1>6, <1>7 DEF OrderType
<1>9. /\ slot' \in Seq(SlotType) /\ DOMAIN slot' = DOMAIN tx[c].plan
      /\ \A i \in DOMAIN slot' : slot'[i].qty = tx[c].plan[i] /\ slot'[i].life = "WAITING"
  BY <1>3, NewSlotsOf DEF Release
<1>10. \A j \in DOMAIN result : result[j].slots = {}
  BY <1>5 DEF IInv, Released
<1>11. /\ request' \in Seq(RequestType) /\ DOMAIN request \subseteq DOMAIN request'
       /\ \A r \in DOMAIN request : request'[r] = request[r]
  <2> DEFINE bom == tx[c].op.bom
             s == bom = "sourced"
             new == NewRequest(s, TRUE)
  <2>1. new \in RequestType
    BY NewRow
  <2>2. request' = request \/ request' = Append(request, new) \/ \E q \in released(new) : request' = Append(request, q)
    BY DEF Release
  <2> HIDE DEF new
  <2>3. request' = request \/ \E q \in RequestType : request' = Append(request, q)
    BY <2>1, <2>2, ReleasedRow
  <2> QED
    BY <1>2, <2>3, AppendSeq
<1>12. Typed'
  BY <1>1, <1>2, <1>8, <1>9, <1>11 DEF IInv, Typed
<1>13. Sessions'
  BY <1>2, <1>5 DEF IInv, Sessions, OpenSessions, SessionOK
<1>14. Released' /\ RequestsSettled'
  BY <1>2, <1>6, <1>8, <1>10 DEF Released, NoSlotStatus, RequestsSettled, Ended
<1>15. SlotsAsPlanned'
  BY <1>3, <1>4, <1>6, <1>8, <1>9 DEF SlotsAsPlanned
<1>16. SlotLives'
  <2>1. \A i : ~ Allocated(i)'
    BY <1>2, <1>10 DEF Allocated
  <2> QED
    BY <1>6, <1>8, <1>9, <2>1 DEF SlotLives
<1>17. DOMAIN slot \subseteq DOMAIN slot'
  BY <1>5
<1> QED
  BY <1>1, <1>2, <1>6, <1>8, <1>11, <1>12, <1>13, <1>14, <1>15, <1>16, <1>17, LockedCommit

(* An order that is worked on: its slots and requests stay what they are. *)
LEMMA WorkStep ==
    ASSUME IInv, NEW c \in Clients, Holding(c), tx' = [tx EXCEPT ![c] = Idle], world' = world,
           order' \in OrderType, order' = order \/ order'.version = order.version + 1,
           order'.qty = order.qty, order'.released = order.released,
           order' = order \/ ( /\ order.status \in {"RELEASED", "IN_PROGRESS", "SUSPENDED"}
                              /\ order'.status \in {"IN_PROGRESS", "SUSPENDED"} ),
           UNCHANGED <<slot, result, request>>,
           session' \in Seq(SessionType), DOMAIN session \subseteq DOMAIN session', Sessions'
    PROVE  IInv'
<1>1. Typed'
  BY DEF IInv, Typed
<1>2. Released'
  BY DEF IInv, Released, NoSlotStatus
<1>3. SlotsAsPlanned'
  BY DEF IInv, SlotsAsPlanned
<1>4. SlotLives'
  BY DEF IInv, SlotLives, Allocated
<1>5. RequestsSettled'
  BY DEF IInv, RequestsSettled, isOpen, Ended
<1> QED
  BY <1>1, <1>2, <1>3, <1>4, <1>5, LockedCommit
LEMMA InvStart == ASSUME IInv, NEW c \in Clients, Start(c) PROVE IInv'
<1>1. /\ Holding(c) /\ StandingOf(tx[c]) /\ Carried(tx[c]) /\ tx[c].op.kind = "start"
      /\ tx' = [tx EXCEPT ![c] = Idle] /\ world' = world
  BY Writing DEF Start
<1>2. UNCHANGED <<slot, result, request>> /\ order \in OrderType /\ session \in Seq(SessionType)
  BY DEF Start, IInv, Typed
<1>3. order.status \in {"RELEASED", "IN_PROGRESS", "SUSPENDED"} /\ OpenSessions = {}
  BY <1>1 DEF StandingOf, assertTransition, TRANSITIONS, Row
<1> DEFINE op == tx[c].op
           in == {op.main} \cup op.subs
           new == [status |-> "RUNNING", main |-> op.main, in |-> in]
<1>4. assertCrew(op) /\ op.main \in Workers /\ op.subs \in SUBSET Workers
  BY <1>1 DEF Carried
<1>5. new \in SessionType /\ new.status = "RUNNING" /\ SessionOK(new)
  <2>1. in \in SUBSET Workers /\ op.main \in in
    BY <1>4
  <2>2. op.main \notin op.subs /\ Cardinality(op.subs) < MaxOpenWorkers
    BY <1>4 DEF assertCrew
  <2>3. in = op.subs \cup {op.main}
    OBVIOUS
  <2>4. Cardinality(in) = Cardinality(op.subs) + 1
    BY <1>4, <2>2, <2>3, CrewFinite, FS_AddElement
  <2>5. Cardinality(in) <= MaxOpenWorkers
    BY <1>4, <2>2, <2>4, CrewFinite, WorkOrderAssumption
  <2> HIDE DEF in
  <2>6. new \in SessionType /\ new.status = "RUNNING" /\ new.main = op.main /\ new.in = in
    BY <1>4, <2>1 DEF SessionType
  <2> HIDE DEF new
  <2> QED
    BY <2>1, <2>5, <2>6 DEF SessionOK
<1>6. session' = Append(session, new)
  BY DEF Start
<1> HIDE DEF new
<1>7. /\ session' \in Seq(SessionType) /\ DOMAIN session' = DOMAIN session \cup {Len(session) + 1}
      /\ DOMAIN session \subseteq DOMAIN session'
      /\ session'[Len(session) + 1] = new /\ \A j \in DOMAIN session : session'[j] = session[j]
  BY <1>2, <1>5, <1>6, AppendSeq
<1>8. \A i \in OpenSessions' : i = Len(session) + 1
  BY <1>3, <1>7 DEF OpenSessions
<1>9. /\ order' \in OrderType
      /\ order' = order \/ order'.version = order.version + 1
      /\ order'.qty = order.qty /\ order'.released = order.released /\ order'.status = "IN_PROGRESS"
  <2>1. CASE order.status = "IN_PROGRESS"
    BY <1>2, <2>1 DEF Start
  <2>2. CASE order.status # "IN_PROGRESS"
    <3>1. "start" \in DOMAIN TRANSITIONS /\ TRANSITIONS["start"].to = "IN_PROGRESS"
      BY DEF TRANSITIONS, Row
    <3>2. order' = Moved("start")
      BY <2>2 DEF Start
    <3> QED
      BY <1>2, <3>1, <3>2, MovedOrder
  <2> QED
    BY <2>1, <2>2
<1>10. Sessions'
  <2>1. \A i \in DOMAIN session' : SessionOK(session'[i])
    BY <1>5, <1>7 DEF IInv, Sessions
  <2>2. \A i, j \in OpenSessions' : i = j
    BY <1>8
  <2> QED
    BY <1>9, <2>1, <2>2 DEF Sessions, SessionOK
<1> QED
  BY <1>1, <1>2, <1>3, <1>7, <1>9, <1>10, WorkStep

LEMMA InvHoldResume ==
    ASSUME IInv, NEW c \in Clients, HoldOrder(c) \/ ResumeOrder(c) PROVE IInv'
<1>1. PICK kind \in {"hold", "resume"} :
        /\ Commits(c, kind, "locked") /\ order' = Moved(kind)
        /\ UNCHANGED <<slot, session, result, request>>
  BY DEF HoldOrder, ResumeOrder
<1>2. /\ Holding(c) /\ StandingOf(tx[c]) /\ tx[c].op.kind = kind
      /\ tx' = [tx EXCEPT ![c] = Idle] /\ world' = world
  BY <1>1, Writing
<1>3. order \in OrderType /\ session \in Seq(SessionType)
  BY DEF IInv, Typed
<1>4. /\ order.status \in {"RELEASED", "IN_PROGRESS", "SUSPENDED"}
      /\ kind \in DOMAIN TRANSITIONS /\ TRANSITIONS[kind].to \in {"IN_PROGRESS", "SUSPENDED"}
  BY <1>2 DEF StandingOf, assertTransition, TRANSITIONS, Row
<1>5. /\ order' \in OrderType /\ order'.version = order.version + 1
      /\ order'.qty = order.qty /\ order'.released = order.released
      /\ order'.status \in {"IN_PROGRESS", "SUSPENDED"}
  BY <1>1, <1>3, <1>4, MovedOrder
<1>6. Sessions'
  BY <1>1, <1>5 DEF IInv, Sessions, OpenSessions, SessionOK
<1> QED
  BY <1>1, <1>2, <1>3, <1>4, <1>5, <1>6, WorkStep

LEMMA InvResumeSession == ASSUME IInv, NEW c \in Clients, ResumeSession(c) PROVE IInv'
<1>1. /\ Holding(c) /\ Carried(tx[c]) /\ tx[c].op.kind = "sessionResume"
      /\ tx' = [tx EXCEPT ![c] = Idle] /\ world' = world
  BY Writing DEF ResumeSession
<1>2. UNCHANGED <<slot, result, request>> /\ order \in OrderType /\ session \in Seq(SessionType)
  BY DEF ResumeSession, IInv, Typed
<1> DEFINE i == tx[c].op.session
           new == [session[i] EXCEPT !.status = "RUNNING"]
<1>3. i \in DOMAIN session /\ session[i].status = "STOPPED" /\ session[i] \in SessionType
  BY <1>1, <1>2, DomSeq DEF Carried, ResumeSession
<1>4. session' = [session EXCEPT ![i] = new]
  BY <1>2, <1>3 DEF ResumeSession
<1>5. new \in SessionType /\ new.status = "RUNNING" /\ new.in = session[i].in /\ new.main = session[i].main
  BY <1>3 DEF SessionType
<1> HIDE DEF new, i
<1>6. /\ session' \in Seq(SessionType) /\ DOMAIN session' = DOMAIN session /\ session'[i] = new
      /\ \A j \in DOMAIN session \ {i} : session'[j] = session[j]
  BY <1>2, <1>3, <1>4, <1>5, ReplaceSeq
<1>7. OpenSessions' = OpenSessions /\ i \in OpenSessions
  BY <1>3, <1>5, <1>6 DEF OpenSessions
<1>8. \A j \in DOMAIN session' : SessionOK(session'[j])
  BY <1>3, <1>5, <1>6 DEF IInv, Sessions, SessionOK
<1>9. /\ order' \in OrderType /\ order'.qty = order.qty /\ order'.released = order.released
      /\ \/ order' = order
         \/ /\ order.status = "SUSPENDED" /\ order'.status = "IN_PROGRESS"
            /\ order'.version = order.version + 1
  <2>1. CASE order.status # "SUSPENDED"
    BY <1>2, <2>1 DEF ResumeSession
  <2>2. CASE order.status = "SUSPENDED"
    <3>1. "resume" \in DOMAIN TRANSITIONS /\ TRANSITIONS["resume"].to = "IN_PROGRESS"
      BY DEF TRANSITIONS, Row
    <3>2. order' = Moved("resume")
      BY <2>2 DEF ResumeSession
    <3> QED
      BY <1>2, <2>2, <3>1, <3>2, MovedOrder
  <2> QED
    BY <2>1, <2>2
<1>10. Sessions'
  BY <1>7, <1>8, <1>9 DEF IInv, Sessions, SessionOK
<1> QED
  BY <1>1, <1>2, <1>6, <1>9, <1>10, WorkStep

(* A result lands on slots that are not voided, and makes them active. *)
LEMMA InvReport == ASSUME IInv, NEW c \in Clients, Report(c) PROVE IInv'
<1>1. /\ Holding(c) /\ StandingOf(tx[c]) /\ Carried(tx[c]) /\ tx[c].op.kind = "report"
      /\ tx' = [tx EXCEPT ![c] = Idle] /\ world' = world
  BY Writing DEF Report
<1>2. UNCHANGED <<order, session, request>> /\ Typed /\ result \in Seq(ResultType)
  BY DEF Report, IInv, Typed
<1> DEFINE op == tx[c].op
           new == [good |-> op.good, corrects |-> 0, slots |-> op.slots]
<1>3. /\ op.good \in Nat /\ op.slots \subseteq DOMAIN slot
      /\ order.status \notin NoSlotStatus /\ \A i \in op.slots : slot[i].life # "VOIDED"
  BY <1>1 DEF Carried, StandingOf, assertReportable
<1>4. op.slots \in SUBSET Nat
  BY <1>2, <1>3, DomSeq DEF Typed
<1>5. new \in ResultType /\ new.slots = op.slots
  BY <1>3, <1>4 DEF ResultType
<1>6. result' = Append(result, new) /\ slot' = moveSlots(op.slots, {"WAITING"}, "ACTIVE")
  BY DEF Report
<1> HIDE DEF new
<1>7. /\ result' \in Seq(ResultType) /\ DOMAIN result' = DOMAIN result \cup {Len(result) + 1}
      /\ result'[Len(result) + 1] = new /\ \A j \in DOMAIN result : result'[j] = result[j]
  BY <1>2, <1>5, <1>6, AppendSeq
<1>8. /\ slot' \in Seq(SlotType) /\ DOMAIN slot' = DOMAIN slot
      /\ \A i \in DOMAIN slot : slot'[i].qty = slot[i].qty
      /\ \A i \in DOMAIN slot :
           slot'[i].life = IF i \in op.slots /\ slot[i].life \in {"WAITING"} THEN "ACTIVE" ELSE slot[i].life
  <2>1. "ACTIVE" \in Lives
    BY DEF Lives
  <2> QED
    BY <1>2, <1>6, <2>1, MovedSlots
<1>9. \A i : Allocated(i)' <=> Allocated(i) \/ i \in op.slots
  BY <1>5, <1>7 DEF Allocated
<1>10. \A i \in DOMAIN slot : slot[i].life \in Lives
  <2>1. \A i \in DOMAIN slot : slot[i] \in SlotType
    BY <1>2, DomSeq DEF Typed
  <2> QED
    BY <2>1 DEF SlotType
<1> HIDE DEF op
<1>11. Typed'
  BY <1>1, <1>2, <1>7, <1>8 DEF Typed
<1>12. Sessions' /\ RequestsSettled'
  BY <1>2 DEF IInv, Sessions, OpenSessions, SessionOK, RequestsSettled, isOpen
<1>13. Released'
  BY <1>2, <1>3, <1>5, <1>7, <1>8 DEF IInv, Released
<1>14. SlotsAsPlanned'
  BY <1>2, <1>8 DEF IInv, SlotsAsPlanned
<1>15. SlotLives'
  <2>1. order.status # "CANCELLED" /\ order.released
    BY <1>3 DEF IInv, Released, NoSlotStatus
  <2>2. ASSUME NEW i \in DOMAIN slot
        PROVE  /\ slot'[i].life = "ACTIVE" <=> Allocated(i)'
               /\ slot'[i].life = "VOIDED" => order.status = "CLOSED"
               /\ order.status = "CLOSED" => slot'[i].life # "WAITING"
    <3>1. /\ slot[i].life = "ACTIVE" <=> Allocated(i)
          /\ slot[i].life = "VOIDED" => order.status = "CLOSED"
          /\ order.status = "CLOSED" => slot[i].life # "WAITING"
      BY <2>1 DEF IInv, SlotLives
    <3>2. CASE i \in op.slots
      <4>1. slot[i].life = "WAITING" \/ slot[i].life = "ACTIVE"
        BY <1>3, <1>10, <3>2 DEF Lives
      <4>2. slot'[i].life = "ACTIVE"
        BY <1>8, <3>2, <4>1
      <4> QED
        BY <1>9, <3>2, <4>2
    <3>3. CASE i \notin op.slots
      BY <1>8, <1>9, <3>1, <3>3
    <3> QED
      BY <3>2, <3>3
  <2> QED
    BY <1>2, <1>8, <2>1, <2>2 DEF SlotLives
<1> QED
  BY <1>1, <1>2, <1>8, <1>11, <1>12, <1>13, <1>14, <1>15, LockedCommit

LEMMA InvCorrect == ASSUME IInv, NEW c \in Clients, Correct(c) PROVE IInv'
<1>1. /\ Holding(c) /\ Carried(tx[c]) /\ tx[c].op.kind = "correct"
      /\ tx' = [tx EXCEPT ![c] = Idle] /\ world' = world
  BY Writing DEF Correct
<1>2. UNCHANGED <<order, slot, session, request>> /\ Typed /\ result \in Seq(ResultType)
  BY DEF Correct, IInv, Typed
<1> DEFINE op == tx[c].op
           new == [good |-> op.good, corrects |-> op.result, slots |-> {}]
<1>3. op.good \in Nat /\ op.result \in Nat
  BY <1>1 DEF Carried
<1>4. new \in ResultType /\ new.slots = {}
  BY <1>3 DEF ResultType
<1>5. result' = Append(result, new)
  BY DEF Correct
<1> HIDE DEF new
<1>6. /\ result' \in Seq(ResultType) /\ DOMAIN result' = DOMAIN result \cup {Len(result) + 1}
      /\ result'[Len(result) + 1] = new /\ \A j \in DOMAIN result : result'[j] = result[j]
  BY <1>2, <1>4, <1>5, AppendSeq
<1>7. \A i : Allocated(i)' <=> Allocated(i)
  BY <1>4, <1>6 DEF Allocated
<1>8. Typed'
  BY <1>1, <1>2, <1>6 DEF Typed
<1>9. Sessions' /\ RequestsSettled' /\ SlotsAsPlanned'
  BY <1>2 DEF IInv, Sessions, OpenSessions, SessionOK, RequestsSettled, isOpen, SlotsAsPlanned
<1>10. Released'
  BY <1>2, <1>4, <1>6 DEF IInv, Released
<1>11. SlotLives'
  BY <1>2, <1>7 DEF IInv, SlotLives
<1> QED
  BY <1>1, <1>2, <1>8, <1>9, <1>10, <1>11, LockedCommit

(* The end of the order settles every request its release left open. *)
LEMMA SettledAll ==
    ASSUME IInv, NEW c \in Clients, tx[c].at = "settling", tx[c].op.kind \in {"close", "cancel"}, SettleAll(c)
    PROVE  /\ request' \in Seq(RequestType) /\ DOMAIN request' = DOMAIN request
           /\ \A r \in DOMAIN request : request'[r] = request[r] \/ r \in tx[c].rows
           /\ \A r \in DOMAIN request' :
                request'[r].sourced /\ request'[r].auto => ~ isOpen(request'[r])
<1>1. request \in Seq(RequestType) /\ \A r \in DOMAIN request : request[r] \in RequestType
  BY DomSeq DEF IInv, Typed
<1>2. \A r \in DOMAIN request : MustSettle(r) => r \in tx[c].rows
  BY DEF IInv, Settling, SettlingOf, RequestCalls
<1>3. DOMAIN request' = DOMAIN request /\ request' = [r \in DOMAIN request |-> request'[r]]
  BY DEF SettleAll
<1>4. ASSUME NEW r \in DOMAIN request
      PROVE  /\ request'[r] \in RequestType
             /\ request'[r] = request[r] \/ r \in tx[c].rows
             /\ request'[r].sourced /\ request'[r].auto => ~ isOpen(request'[r])
  <2>1. CASE r \in tx[c].rows
    <3> DEFINE b == r \in tx[c].started
    <3>1. request'[r] = settled(request[r], b)
      BY <2>1 DEF SettleAll
    <3>2. settled(request[r], b) \in RequestType /\ ~ isOpen(settled(request[r], b))
      <4>1. CASE r \in tx[c].started
        <5>1. settled(request[r], b) = settled(request[r], TRUE)
          BY <4>1 DEF settled
        <5> QED
          BY <1>1, <5>1, SettledRow
      <4>2. CASE r \notin tx[c].started
        <5>1. settled(request[r], b) = settled(request[r], FALSE)
          BY <4>2 DEF settled
        <5> QED
          BY <1>1, <5>1, SettledRow
      <4> QED
        BY <4>1, <4>2
    <3> QED
      BY <2>1, <3>1, <3>2
  <2>2. CASE r \notin tx[c].rows
    <3>1. request'[r] = request[r]
      BY <2>2 DEF SettleAll
    <3> QED
      BY <1>1, <1>2, <2>2, <3>1 DEF MustSettle
  <2> QED
    BY <2>1, <2>2
<1>5. request' \in Seq(RequestType)
  BY <1>1, <1>3, <1>4, MapSeq
<1> QED
  BY <1>3, <1>4, <1>5

LEMMA InvClose == ASSUME IInv, NEW c \in Clients, Close(c) PROVE IInv'
<1>1. /\ Holding(c) /\ StandingOf(tx[c]) /\ Carried(tx[c]) /\ tx[c].op.kind = "close"
      /\ tx[c].at = "settling" /\ tx' = [tx EXCEPT ![c] = Idle] /\ world' = world
  BY Writing DEF Close
<1>2. UNCHANGED <<session, result>> /\ Typed /\ order \in OrderType
  BY DEF Close, IInv, Typed
<1>3. /\ order.status \in {"COMPLETED", "IN_PROGRESS", "SUSPENDED"} /\ OpenSessions = {}
      /\ tx[c].judgment \in Judgments
  BY <1>1 DEF StandingOf, Carried, assertTransition, TRANSITIONS, Row
<1> DEFINE m == Moved("close")
           j == tx[c].judgment
<1>4. /\ m \in OrderType /\ m.status = "CLOSED" /\ m.qty = order.qty /\ m.version = order.version + 1
      /\ m.released = order.released
  <2>1. "close" \in DOMAIN TRANSITIONS /\ TRANSITIONS["close"].to = "CLOSED"
    BY DEF TRANSITIONS, Row
  <2> QED
    BY <1>2, <2>1, MovedOrder
<1>5. order' = [m EXCEPT !.judged = j]
  BY DEF Close
<1> HIDE DEF m, j
<1>6. /\ order' \in OrderType /\ order'.status = m.status /\ order'.qty = m.qty
      /\ order'.version = m.version /\ order'.released = m.released
  BY <1>3, <1>4, <1>5 DEF OrderType, j
<1> DEFINE ids == {i \in DOMAIN slot : ~ Allocated(i)}
<1>7. /\ slot' \in Seq(SlotType) /\ DOMAIN slot' = DOMAIN slot
      /\ \A i \in DOMAIN slot : slot'[i].qty = slot[i].qty
      /\ \A i \in DOMAIN slot :
           slot'[i].life = IF i \in ids /\ slot[i].life \in {"WAITING"} THEN "VOIDED" ELSE slot[i].life
  <2>1. "VOIDED" \in Lives /\ slot' = moveSlots(ids, {"WAITING"}, "VOIDED")
    BY DEF Lives, Close
  <2> HIDE DEF ids
  <2> QED
    BY <1>2, <2>1, MovedSlots
<1>8. /\ request' \in Seq(RequestType) /\ DOMAIN request' = DOMAIN request
      /\ \A r \in DOMAIN request : request'[r] = request[r] \/ r \in tx[c].rows
      /\ \A r \in DOMAIN request' : request'[r].sourced /\ request'[r].auto => ~ isOpen(request'[r])
  BY <1>1, SettledAll DEF Close
<1>9. Typed'
  BY <1>1, <1>2, <1>6, <1>7, <1>8 DEF Typed
<1>10. Sessions'
  BY <1>2, <1>3 DEF IInv, Sessions, OpenSessions, SessionOK
<1>11. Released' /\ SlotsAsPlanned'
  <2>1. Released'
    BY <1>2, <1>3, <1>4, <1>6, <1>7 DEF IInv, Released, NoSlotStatus
  <2>2. SlotsAsPlanned'
    BY <1>4, <1>6, <1>7 DEF IInv, SlotsAsPlanned
  <2> QED
    BY <2>1, <2>2
<1>12. SlotLives'
  <2>1. \A i : Allocated(i)' <=> Allocated(i)
    BY <1>2 DEF Allocated
  <2>2. ASSUME NEW i \in DOMAIN slot
        PROVE  (slot'[i].life = "ACTIVE" <=> Allocated(i)) /\ slot'[i].life # "WAITING"
    BY <1>3, <1>7 DEF IInv, SlotLives
  <2>3. order'.released
    BY <1>3, <1>4, <1>6 DEF IInv, Released, NoSlotStatus
  <2> QED
    BY <1>4, <1>6, <1>7, <2>1, <2>2, <2>3 DEF SlotLives
<1>13. RequestsSettled'
  BY <1>8 DEF RequestsSettled
<1> QED
  BY <1>1, <1>2, <1>4, <1>6, <1>7, <1>8, <1>9, <1>10, <1>11, <1>12, <1>13, LockedCommit

LEMMA InvCancel == ASSUME IInv, NEW c \in Clients, Cancel(c) PROVE IInv'
<1>1. /\ Holding(c) /\ StandingOf(tx[c]) /\ tx[c].op.kind = "cancel"
      /\ tx[c].at = "settling" /\ tx' = [tx EXCEPT ![c] = Idle] /\ world' = world
  BY Writing DEF Cancel
<1>2. UNCHANGED <<session, result>> /\ Typed /\ order \in OrderType
  BY DEF Cancel, IInv, Typed
<1>3. /\ order' \in OrderType /\ order'.status = "CANCELLED" /\ order'.qty = order.qty
      /\ order'.version = order.version + 1 /\ order'.released = order.released
  <2>1. "cancel" \in DOMAIN TRANSITIONS /\ TRANSITIONS["cancel"].to = "CANCELLED"
    BY DEF TRANSITIONS, Row
  <2> QED
    BY <1>2, <2>1, MovedOrder DEF Cancel
<1>4. /\ slot' \in Seq(SlotType) /\ DOMAIN slot' = DOMAIN slot
      /\ \A i \in DOMAIN slot : slot'[i].qty = slot[i].qty
      /\ \A i \in DOMAIN slot :
           slot'[i].life = IF i \in DOMAIN slot /\ slot[i].life \in {"WAITING", "ACTIVE"}
                           THEN "VOIDED" ELSE slot[i].life
  <2>1. "VOIDED" \in Lives /\ slot' = moveSlots(DOMAIN slot, {"WAITING", "ACTIVE"}, "VOIDED")
    BY DEF Lives, Cancel
  <2> QED
    BY <1>2, <2>1, MovedSlots
<1>5. /\ request' \in Seq(RequestType) /\ DOMAIN request' = DOMAIN request
      /\ \A r \in DOMAIN request : request'[r] = request[r] \/ r \in tx[c].rows
      /\ \A r \in DOMAIN request' : request'[r].sourced /\ request'[r].auto => ~ isOpen(request'[r])
  BY <1>1, SettledAll DEF Cancel
<1>6. Typed'
  BY <1>1, <1>2, <1>3, <1>4, <1>5 DEF Typed
<1>7. Sessions'
  BY <1>2, <1>3 DEF IInv, Sessions, OpenSessions, SessionOK
<1>8. Released'
  BY <1>2, <1>3, <1>4 DEF IInv, Released, NoSlotStatus
<1>9. SlotsAsPlanned'
  BY <1>3, <1>4 DEF IInv, SlotsAsPlanned
<1>10. SlotLives'
  <2>1. \A i \in DOMAIN slot : slot[i].life \in Lives
    <3>1. \A i \in DOMAIN slot : slot[i] \in SlotType
      BY <1>2, DomSeq DEF Typed
    <3> QED
      BY <3>1 DEF SlotType
  <2>2. \A i \in DOMAIN slot' : slot'[i].life = "VOIDED"
    BY <1>4, <2>1 DEF Lives
  <2>3. ~ order.released => slot' = <<>>
    <3>1. ~ order.released => slot = <<>>
      BY DEF IInv, SlotLives
    <3> QED
      BY <1>4, <3>1
  <2> QED
    BY <1>3, <2>2, <2>3 DEF SlotLives
<1>11. RequestsSettled'
  BY <1>5 DEF RequestsSettled
<1> QED
  BY <1>1, <1>2, <1>3, <1>4, <1>5, <1>6, <1>7, <1>8, <1>9, <1>10, <1>11, LockedCommit
-----------------------------------------------------------------------------
(* Every step keeps the invariant. *)
LEMMA NextIInv == IInv /\ [Next]_vars => IInv'
<1> SUFFICES ASSUME IInv, [Next]_vars PROVE IInv'
  OBVIOUS
<1>1. ASSUME NEW c \in Clients, Commit(c) PROVE IInv'
  BY <1>1, InvUpdate, InvRelease, InvStart, InvHoldResume, InvResumeSession, InvReport, InvCorrect,
     InvClose, InvCancel, InvCancelRequest, InvUpdateRequest, InvIssueMore DEF Commit
<1>2. ASSUME NEW c \in Clients, NEW op \in Calls, Begin(c, op) PROVE IInv'
  BY <1>2, InvBegin
<1>3. ASSUME NEW c \in Clients, releasePlan(c) \/ Lock(c) \/ LockRequests(c) \/ Abort(c) PROVE IInv'
  BY <1>3, InvReleasePlan, InvLock, InvLockRequests, InvAbort
<1>4. ASSUME UNCHANGED vars PROVE IInv'
  <2>1. DOMAIN tx' = Clients /\ request' = request /\ request \in Seq(RequestType)
    BY <1>4 DEF vars, IInv, CallsFit, Typed
  <2>2. UNCHANGED <<world, order, slot, session, result, tx>>
    BY <1>4 DEF vars
  <2>3. \A r \in DOMAIN request' : MustSettle(r)' => r \in DOMAIN request /\ MustSettle(r)
    BY <2>1 DEF MustSettle, isOpen
  <2>4. \A d \in Clients : tx[d].at = "settling" /\ tx[d].op.kind \in RequestCalls
                              => isOpen(request'[tx[d].op.request])
    BY <2>1 DEF IInv, Settling, SettlingOf, isOpen
  <2> QED
    BY <2>1, <2>2, <2>3, <2>4, RequestChange
<1> QED
  BY <1>1, <1>2, <1>3, <1>4, InvSessionStep, InvRequestStep DEF Next

LEMMA AtMostOne ==
    ASSUME NEW S, \A i, j \in S : i = j
    PROVE  Cardinality(S) <= 1
<1>1. CASE S = {}
  BY <1>1, FS_EmptySet
<1>2. CASE S # {}
  <2>1. PICK i \in S : TRUE
    BY <1>2
  <2>2. S = {i}
    BY <2>1
  <2>3. Cardinality({i}) = 1
    BY FS_Singleton
  <2>4. Cardinality(S) = 1
    BY <2>2, <2>3
  <2> QED
    BY <2>4
<1> QED
  BY <1>1, <1>2

(* Open sessions: never two, none of a work order that is closed or not    *)
(* started; a session is open exactly while its main worker is in, and its *)
(* crew fits (WorkSession start, join, leave, end and the order's close    *)
(* and hold, in any interleaving).                                         *)
THEOREM SpecSessionsFit == Spec => []SessionsFit
<1>1. IInv => SessionsFit
  <2> SUFFICES ASSUME IInv PROVE SessionsFit
    OBVIOUS
  <2>1. Cardinality(OpenSessions) <= 1
    BY AtMostOne DEF IInv, Sessions
  <2> QED
    BY <2>1 DEF IInv, Sessions, SessionsFit, SessionOK
<1> QED
  BY <1>1, InitIInv, NextIInv, PTL DEF Spec

(* FR-028: no request with a source warehouse that the release made is     *)
(* left open when the order has ended (settleWorkOrderRequests against the *)
(* release runner, edits, picking and issues).  A request without a source *)
(* warehouse, which a release without production warehouses makes, is not  *)
(* settled (FR-009a) and not meant.                                        *)
THEOREM SpecRequestsSettled == Spec => []RequestsSettled
<1>1. IInv => RequestsSettled
  BY DEF IInv
<1> QED
  BY <1>1, InitIInv, NextIInv, PTL DEF Spec

(* A slot is active exactly when a result is allocated to it, closing      *)
(* voids the others and cancelling all, and no result lands on a voided    *)
(* slot (LotLifecycleService.moveWithin under the lock of the order).      *)
THEOREM SpecSlotLives == Spec => []SlotLives
<1>1. IInv => SlotLives
  BY DEF IInv
<1> QED
  BY <1>1, InitIInv, NextIInv, PTL DEF Spec

(* The slots of a released order are those of its present quantity,        *)
(* although the plan is read before the transaction and the quantity may   *)
(* be updated meanwhile (If-Match under the lock).                         *)
THEOREM SpecSlotsAsPlanned == Spec => []SlotsAsPlanned
<1>1. IInv => SlotsAsPlanned
  BY DEF IInv
<1> QED
  BY <1>1, InitIInv, NextIInv, PTL DEF Spec

(* What a step that closes the order stores as its judgment.               *)
JudgedAtClose ==
    order'.status = "CLOSED" /\ order.status # "CLOSED" =>
        order'.judged = judgeCompletion(goodQty(result'), order'.qty)

(* The judgment that closing stores is that of the results and quantity    *)
(* there are when it commits: nothing is reported between the judgment and *)
(* the end, although judging and ending are separate writes (close).       *)
THEOREM SpecJudgedAtClose == Spec => [][JudgedAtClose]_vars
<1>1. ASSUME IInv, [Next]_vars, order'.status = "CLOSED", order.status # "CLOSED"
      PROVE  order'.judged = judgeCompletion(goodQty(result'), order'.qty)
  <2>1. order \in OrderType
    BY <1>1 DEF IInv, Typed
  <2>2. PICK c \in Clients : Close(c)
    <3>1. ASSUME NEW c \in Clients, Commit(c), ~ Close(c) PROVE FALSE
      <4>1. order'.status # "CLOSED" \/ order' = order
        <5>1. ASSUME NEW kind \in DOMAIN TRANSITIONS \ {"close"} PROVE Moved(kind).status # "CLOSED"
          <6>1. TRANSITIONS[kind].to # "CLOSED"
            BY DEF TRANSITIONS, Row
          <6> QED
            BY <2>1, <6>1, MovedOrder
        <5>2. \A kind \in {"release", "start", "hold", "resume", "cancel"} : Moved(kind).status # "CLOSED"
          BY <5>1 DEF TRANSITIONS
        <5>3. CASE Update(c)
          <6> DEFINE v == order.version + 1
                     b == [order EXCEPT !.version = v]
          <6>1. v \in Nat
            BY <2>1 DEF OrderType
          <6>2. order' = [b EXCEPT !.qty = tx[c].op.qty]
            BY <5>3 DEF Update, Bumped
          <6> HIDE DEF v
          <6>3. b \in OrderType /\ b.status = order.status
            BY <2>1, <6>1 DEF OrderType
          <6> HIDE DEF b
          <6>4. order'.status = b.status
            BY <6>2, <6>3 DEF OrderType
          <6> QED
            BY <1>1, <6>3, <6>4
        <5>4. CASE Release(c)
          <6> DEFINE m == Moved("release")
          <6>1. m \in OrderType /\ m.status # "CLOSED"
            BY <2>1, <5>2, MovedOrder DEF TRANSITIONS
          <6>2. order' = [m EXCEPT !.released = TRUE]
            BY <5>4 DEF Release
          <6> HIDE DEF m
          <6>3. order'.status = m.status
            BY <6>1, <6>2 DEF OrderType
          <6> QED
            BY <6>1, <6>3
        <5> QED
          BY <3>1, <5>2, <5>3, <5>4 DEF Commit, Start, HoldOrder, ResumeOrder, ResumeSession, Report, Correct,
             Cancel, CancelRequest, UpdateRequest, IssueMore, OneRequest
      <4> QED
        BY <1>1, <4>1
    <3> QED
      BY <1>1, <3>1 DEF Next, vars, Begin, releasePlan, Lock, LockRequests, Abort, SessionStep, StopSession,
         EndSession, Join, Leave, OnSession, RequestStep, ReleaseOne, Pick, Issue, Post, OnRequest, OneRequest
  <2>3. StandingOf(tx[c]) /\ Carried(tx[c]) /\ tx[c].op.kind = "close"
    BY <1>1, <2>2, Writing DEF Close
  <2> DEFINE m == Moved("close")
             j == tx[c].judgment
  <2>4. m \in OrderType /\ m.qty = order.qty
    BY <2>1, MovedOrder DEF TRANSITIONS
  <2>5. order' = [m EXCEPT !.judged = j] /\ result' = result
    BY <2>2 DEF Close
  <2>6. j = judgeCompletion(goodQty(result), order.qty)
    BY <2>3 DEF StandingOf
  <2> HIDE DEF m, j
  <2>7. order'.judged = j /\ order'.qty = m.qty
    BY <2>4, <2>5 DEF OrderType
  <2> QED
    BY <2>4, <2>5, <2>6, <2>7
<1>2. IInv /\ [Next]_vars => [JudgedAtClose]_vars
  BY <1>1 DEF JudgedAtClose
<1> QED
  BY <1>2, InitIInv, NextIInv, PTL DEF Spec

-----------------------------------------------------------------------------
(* Sums over finite sets: MapThenSumSet of a function, which is a fold.    *)
Sum(f, S) == MapThenSumSet(LAMBDA x : f[x], S)

(* Induction over the natural numbers, for a set instead of a predicate.   *)
LEMMA Induction ==
  ASSUME NEW S, 0 \in S, \A n \in Nat : n \in S => n + 1 \in S
  PROVE  Nat \subseteq S
<1> DEFINE T == {n \in Nat : n \notin S}
           R == OpToRel(<, Nat)
<1> SUFFICES ASSUME T # {} PROVE FALSE
  OBVIOUS
<1>1. IsWellFoundedOn(R, Nat)
  BY NatLessThanWellFounded
<1>2. T \subseteq Nat
  OBVIOUS
<1> HIDE DEF T, R
<1>3. PICK x \in T : \A y \in T : ~ (<<y, x>> \in R)
  BY <1>1, <1>2, WFMin
<1> USE DEF T, R
<1>4. x \in Nat /\ x # 0 /\ x - 1 \in Nat
  OBVIOUS
<1>5. <<x - 1, x>> \in R
  BY <1>4 DEF OpToRel
<1>6. x - 1 \notin T
  BY <1>3, <1>5
<1> QED BY <1>4, <1>6

(* Induction over the finite subsets of U: C has the empty one, and each   *)
(* one that it has with any element taken away.                            *)
LEMMA FiniteInduction ==
  ASSUME NEW U, NEW C, {} \in C,
         \A T \in SUBSET U : IsFiniteSet(T) /\ T # {} /\ (\A x \in T : T \ {x} \in C) => T \in C
  PROVE  \A T \in SUBSET U : IsFiniteSet(T) => T \in C
<1> DEFINE N == {n \in Nat : \A T \in SUBSET U : IsFiniteSet(T) /\ Cardinality(T) = n => T \in C}
<1>1. 0 \in N
  BY FS_EmptySet
<1>2. ASSUME NEW n \in Nat, n \in N PROVE n + 1 \in N
  <2> SUFFICES ASSUME NEW T \in SUBSET U, IsFiniteSet(T), Cardinality(T) = n + 1 PROVE T \in C
    OBVIOUS
  <2>1. T # {}
    BY FS_EmptySet
  <2>2. ASSUME NEW x \in T PROVE T \ {x} \in C
    <3>1. IsFiniteSet(T \ {x}) /\ Cardinality(T \ {x}) = Cardinality(T) - 1
      BY FS_RemoveElement
    <3>2. Cardinality(T \ {x}) = n
      BY <3>1
    <3> QED BY <1>2, <3>1, <3>2
  <2> QED BY <2>1, <2>2
<1> HIDE DEF N
<1>3. Nat \subseteq N
  BY <1>1, <1>2, Induction
<1> USE DEF N
<1> QED BY <1>3, FS_CardinalityType

(* The recursion behind the fold: an element, and the rest.                *)
First(s) == CHOOSE x \in s : TRUE
IsIter(f, S, g) == g = [s \in SUBSET S |-> IF s = {} THEN 0 ELSE f[First(s)] + g[s \ {First(s)}]]

(* Sum is a solution of the recursion, if there is one.                    *)
LEMMA SumIsIter ==
  ASSUME NEW f, NEW S, NEW g, IsIter(f, S, g)
  PROVE  \E h : IsIter(f, S, h) /\ Sum(f, S) = h[S]
<1> DEFINE it == CHOOSE h : h = [s \in SUBSET S |-> IF s = {} THEN 0 ELSE f[First(s)] + h[s \ {First(s)}]]
<1>1. Sum(f, S) = it[S]
  BY DEF Sum, MapThenSumSet, MapThenFoldSet, First
<1>2. IsIter(f, S, it)
  BY DEF IsIter
<1> QED BY <1>1, <1>2

(* A solution for the sets of at most n elements.                          *)
Small(S, n) == {s \in SUBSET S : Cardinality(s) <= n}
UpTo(f, S, n, g) ==
  g = [s \in Small(S, n) |-> IF s = {} THEN 0 ELSE f[First(s)] + g[s \ {First(s)}]]

(* The recursion has a solution: there is one for every n.                 *)
LEMMA IterExists ==
  ASSUME NEW f, NEW S, IsFiniteSet(S)
  PROVE  \E g : IsIter(f, S, g)
<1> DEFINE N == {n \in Nat : \E g : UpTo(f, S, n, g)}
<1>0. ASSUME NEW s \in SUBSET S
      PROVE  /\ IsFiniteSet(s) /\ Cardinality(s) \in Nat
             /\ Cardinality(s) = 0 <=> s = {}
             /\ s # {} => /\ First(s) \in s /\ s \ {First(s)} \in SUBSET S
                         /\ Cardinality(s \ {First(s)}) = Cardinality(s) - 1
  BY FS_Subset, FS_CardinalityType, FS_EmptySet, FS_RemoveElement DEF First
<1>1. 0 \in N
  <2>1. ASSUME NEW s \in Small(S, 0) PROVE s = {}
    <3>1. s \in SUBSET S /\ Cardinality(s) <= 0
      BY DEF Small
    <3>2. PICK c \in Nat : c = Cardinality(s)
      BY <1>0, <3>1
    <3>3. c = 0
      BY <3>1, <3>2
    <3> QED BY <1>0, <3>1, <3>2, <3>3
  <2>2. PICK g : g = [s \in Small(S, 0) |-> 0]
    OBVIOUS
  <2>3. g = [s \in Small(S, 0) |-> IF s = {} THEN 0 ELSE f[First(s)] + g[s \ {First(s)}]]
    BY <2>1, <2>2
  <2> QED BY <2>3 DEF UpTo
<1>2. ASSUME NEW n \in Nat, n \in N PROVE n + 1 \in N
  <2>1. PICK g : UpTo(f, S, n, g)
    BY <1>2
  <2>2. PICK h : h = [s \in Small(S, n + 1) |-> IF s = {} THEN 0 ELSE f[First(s)] + g[s \ {First(s)}]]
    OBVIOUS
  <2>3. ASSUME NEW s \in Small(S, n) PROVE s \in Small(S, n + 1) /\ h[s] = g[s]
    <3>1. s \in SUBSET S /\ Cardinality(s) <= n
      BY DEF Small
    <3>a. PICK c \in Nat : c = Cardinality(s)
      BY <1>0, <3>1
    <3>b. c <= n + 1
      BY <3>1, <3>a
    <3>2. s \in Small(S, n + 1)
      BY <3>1, <3>a, <3>b DEF Small
    <3>3. g[s] = IF s = {} THEN 0 ELSE f[First(s)] + g[s \ {First(s)}]
      BY <2>1 DEF UpTo
    <3> QED BY <2>2, <3>2, <3>3
  <2>4. ASSUME NEW s \in Small(S, n + 1), s # {} PROVE s \ {First(s)} \in Small(S, n)
    <3>1. s \in SUBSET S /\ Cardinality(s) <= n + 1
      BY DEF Small
    <3>2. s \ {First(s)} \in SUBSET S /\ Cardinality(s \ {First(s)}) <= n
      BY <1>0, <2>4, <3>1
    <3> QED BY <3>2 DEF Small
  <2>5. h = [s \in Small(S, n + 1) |-> IF s = {} THEN 0 ELSE f[First(s)] + h[s \ {First(s)}]]
    <3>1. ASSUME NEW s \in Small(S, n + 1), s # {}
          PROVE  g[s \ {First(s)}] = h[s \ {First(s)}]
      BY <2>3, <2>4, <3>1
    <3> QED BY <2>2, <3>1
  <2>6. UpTo(f, S, n + 1, h)
    BY <2>5 DEF UpTo
  <2> QED BY <2>6
<1>3. Cardinality(S) \in N
  <2> HIDE DEF N
  <2> QED BY <1>1, <1>2, Induction, FS_CardinalityType
<1>4. Small(S, Cardinality(S)) = SUBSET S
  BY FS_Subset DEF Small
<1> QED BY <1>3, <1>4 DEF IsIter, UpTo

(* Solutions for a set and for a subset of it agree.                       *)
LEMMA IterUnique ==
  ASSUME NEW f, NEW S, NEW T \in SUBSET S, IsFiniteSet(S), NEW g, IsIter(f, S, g), NEW h, IsIter(f, T, h)
  PROVE  g[T] = h[T]
<1> DEFINE C == {s \in SUBSET T : g[s] = h[s]}
<1>1. {} \in C
  BY DEF IsIter
<1>2. ASSUME NEW s \in SUBSET T, s # {}, \A x \in s : s \ {x} \in C
      PROVE  s \in C
  <2>1. First(s) \in s
    BY <1>2 DEF First
  <2>2. g[s \ {First(s)}] = h[s \ {First(s)}]
    BY <1>2, <2>1
  <2>3. g[s] = f[First(s)] + g[s \ {First(s)}] /\ h[s] = f[First(s)] + h[s \ {First(s)}]
    BY <1>2 DEF IsIter
  <2> QED BY <2>2, <2>3
<1>3. IsFiniteSet(T)
  BY FS_Subset
<1> HIDE DEF C
<1>4. T \in C
  BY <1>1, <1>2, <1>3, FiniteInduction
<1> USE DEF C
<1> QED BY <1>4

(* What Sum is: zero for no elements, and one element and the              *)
(* rest otherwise.                                                         *)
LEMMA SumStep ==
  ASSUME NEW f, NEW S, IsFiniteSet(S)
  PROVE  /\ S = {} => Sum(f, S) = 0
         /\ S # {} => /\ First(S) \in S
                     /\ Sum(f, S) = f[First(S)] + Sum(f, S \ {First(S)})
<1>1. PICK g : IsIter(f, S, g) /\ Sum(f, S) = g[S]
  BY IterExists, SumIsIter
<1>2. CASE S = {}
  BY <1>1, <1>2 DEF IsIter
<1>3. CASE S # {}
  <2>1. PICK T : T = S \ {First(S)}
    OBVIOUS
  <2>2. First(S) \in S /\ T \in SUBSET S /\ IsFiniteSet(T)
    BY <1>3, <2>1, FS_Subset DEF First
  <2>3. PICK h : IsIter(f, T, h) /\ Sum(f, T) = h[T]
    BY <2>2, IterExists, SumIsIter
  <2>4. g[T] = h[T]
    BY <1>1, <2>2, <2>3, IterUnique
  <2>5. g[S] = f[First(S)] + g[T]
    BY <1>1, <1>3, <2>1 DEF IsIter
  <2> QED BY <1>1, <1>3, <2>1, <2>2, <2>3, <2>4, <2>5
<1> QED BY <1>2, <1>3

(* No terms: the fold starts at zero.                                      *)
LEMMA SumEmpty == \A f : Sum(f, {}) = 0
<1> TAKE f
<1>1. IsFiniteSet({})
  BY FS_EmptySet
<1> QED BY <1>1, SumStep

(* Whole terms have a whole sum.                                           *)
LEMMA SumIsInt ==
  ASSUME NEW f, NEW S, IsFiniteSet(S), \A x \in S : f[x] \in Int
  PROVE  Sum(f, S) \in Int
<1> DEFINE C == {T \in SUBSET S : Sum(f, T) \in Int}
<1>1. {} \in C
  BY SumEmpty
<1>2. ASSUME NEW T \in SUBSET S, IsFiniteSet(T), T # {}, \A x \in T : T \ {x} \in C
      PROVE  T \in C
  <2>1. PICK x : x = First(T)
    OBVIOUS
  <2>2. x \in T /\ Sum(f, T) = f[x] + Sum(f, T \ {x})
    BY <1>2, <2>1, SumStep
  <2>3. PICK m : m = Sum(f, T \ {x}) /\ m \in Int
    BY <1>2, <2>2
  <2> QED BY <2>2, <2>3
<1> HIDE DEF C
<1>3. S \in C
  BY <1>1, <1>2, FiniteInduction
<1> QED BY <1>3 DEF C

(* Any one element may be taken out of the sum.                            *)
LEMMA SumWithout ==
  ASSUME NEW f, NEW S, IsFiniteSet(S), \A x \in S : f[x] \in Int, NEW x \in S
  PROVE  Sum(f, S) = f[x] + Sum(f, S \ {x})
<1> DEFINE C == {T \in SUBSET S : \A y \in T : Sum(f, T) = f[y] + Sum(f, T \ {y})}
<1>1. {} \in C
  OBVIOUS
<1>2. ASSUME NEW T \in SUBSET S, IsFiniteSet(T), T # {}, \A y \in T : T \ {y} \in C
      PROVE  T \in C
  <2> SUFFICES ASSUME NEW y \in T PROVE Sum(f, T) = f[y] + Sum(f, T \ {y})
    OBVIOUS
  <2>1. PICK z : z = First(T)
    OBVIOUS
  <2>2. z \in T /\ Sum(f, T) = f[z] + Sum(f, T \ {z})
    BY <1>2, <2>1, SumStep
  <2>3. CASE y = z
    BY <2>2, <2>3
  <2>4. CASE y # z
    <3>1. Sum(f, T \ {z}) = f[y] + Sum(f, (T \ {z}) \ {y})
      BY <1>2, <2>2, <2>4
    <3>2. Sum(f, T \ {y}) = f[z] + Sum(f, (T \ {y}) \ {z})
      BY <1>2, <2>2, <2>4
    <3>3. PICK R : R = (T \ {z}) \ {y} /\ R = (T \ {y}) \ {z}
      OBVIOUS
    <3>4. IsFiniteSet(R) /\ R \subseteq S
      BY <1>2, <3>3, FS_Subset
    <3>5. Sum(f, R) \in Int
      BY <3>4, SumIsInt
    <3>6. PICK m : m = Sum(f, R) /\ m \in Int
      BY <3>5
    <3>7. Sum(f, T) = f[z] + (f[y] + m) /\ Sum(f, T \ {y}) = f[z] + m
      BY <2>2, <3>1, <3>2, <3>3, <3>6
    <3>8. f[y] \in Int /\ f[z] \in Int
      BY <2>2
    <3> QED BY <3>6, <3>7, <3>8
  <2> QED BY <2>3, <2>4
<1> HIDE DEF C
<1>3. S \in C
  BY <1>1, <1>2, FiniteInduction
<1> QED BY <1>3 DEF C

(* The same terms have the same sum.                                       *)
LEMMA SumSame ==
  ASSUME NEW f, NEW g, NEW S, IsFiniteSet(S), \A x \in S : f[x] = g[x]
  PROVE  Sum(f, S) = Sum(g, S)
<1> DEFINE C == {T \in SUBSET S : Sum(f, T) = Sum(g, T)}
<1>1. {} \in C
  BY SumEmpty
<1>2. ASSUME NEW T \in SUBSET S, IsFiniteSet(T), T # {}, \A x \in T : T \ {x} \in C
      PROVE  T \in C
  <2>1. PICK x : x = First(T)
    OBVIOUS
  <2>2. x \in T /\ Sum(f, T) = f[x] + Sum(f, T \ {x})
    BY <1>2, <2>1, SumStep
  <2>3. Sum(g, T) = g[x] + Sum(g, T \ {x})
    BY <1>2, <2>1, SumStep
  <2>4. Sum(f, T \ {x}) = Sum(g, T \ {x}) /\ f[x] = g[x]
    BY <1>2, <2>2
  <2> QED BY <2>2, <2>3, <2>4
<1> HIDE DEF C
<1>3. S \in C
  BY <1>1, <1>2, FiniteInduction
<1> QED BY <1>3 DEF C

(* Any solution of the recursion comes to the sum.                         *)
LEMMA IterSum ==
  ASSUME NEW f, NEW S, IsFiniteSet(S), NEW g, IsIter(f, S, g)
  PROVE  g[S] = Sum(f, S)
<1>1. PICK h : IsIter(f, S, h) /\ Sum(f, S) = h[S]
  BY SumIsIter
<1> QED
  BY <1>1, IterUnique

(* The sum of the slots is a Sum.                                          *)
LEMMA SlotSum ==
  ASSUME NEW f, slot \in Seq(SlotType), \A i \in DOMAIN slot : f[i] = slot[i].qty
  PROVE  SlotQty = Sum(f, DOMAIN slot)
<1>1. PICK D : D = DOMAIN slot
  OBVIOUS
<1>2. IsFiniteSet(D)
  BY <1>1, FS_Interval, DomSeq
<1> DEFINE it == CHOOSE h : h = [s \in SUBSET D |-> IF s = {} THEN 0 ELSE slot[First(s)].qty + h[s \ {First(s)}]]
<1>3. SlotQty = it[D]
  BY <1>1 DEF SlotQty, MapThenSumSet, MapThenFoldSet, First
<1>4. PICK g : IsIter(f, D, g)
  BY <1>2, IterExists
<1>5. ASSUME NEW s \in SUBSET D, s # {} PROVE f[First(s)] = slot[First(s)].qty
  BY <1>1, <1>5 DEF First
<1>6. g = [s \in SUBSET D |-> IF s = {} THEN 0 ELSE slot[First(s)].qty + g[s \ {First(s)}]]
  BY <1>4, <1>5 DEF IsIter
<1>7. it = [s \in SUBSET D |-> IF s = {} THEN 0 ELSE slot[First(s)].qty + it[s \ {First(s)}]]
  BY <1>6
<1> HIDE DEF it
<1>8. IsIter(f, D, it)
  BY <1>5, <1>7 DEF IsIter
<1> QED
  BY <1>1, <1>2, <1>3, <1>8, IterSum

(* Full lots, and what is left of the quantity in the last one.            *)
LEMMA PlanSum ==
  ASSUME NEW q \in Nat, NEW l \in Nat \ {0}
  PROVE  Sum(slotQtys(q, l), DOMAIN slotQtys(q, l)) = q
<1>1. PICK n \in Nat : n = (q + l - 1) \div l
  OBVIOUS
<1>2. PICK f : f = slotQtys(q, l)
  OBVIOUS
<1>3. f = [i \in 1 .. n |-> IF i < n THEN l ELSE q - l * (n - 1)]
  BY <1>1, <1>2 DEF slotQtys
<1>4. \A i \in 1 .. n : f[i] = IF i < n THEN l ELSE q - l * (n - 1)
  BY <1>3
<1>a. \A i \in 1 .. n : f[i] \in Int
  BY <1>4
<1> DEFINE K == {k \in Nat : k < n => Sum(f, 1 .. k) = l * k}
<1>5. 0 \in K
  <2>1. 1 .. 0 = {} /\ l * 0 = 0
    OBVIOUS
  <2> QED
    BY <2>1, SumEmpty
<1>6. ASSUME NEW k \in Nat, k \in K PROVE k + 1 \in K
  <2> SUFFICES ASSUME k + 1 < n PROVE Sum(f, 1 .. (k + 1)) = l * (k + 1)
    OBVIOUS
  <2>1. PICK S : S = 1 .. (k + 1)
    OBVIOUS
  <2>2. k + 1 \in S /\ S \ {k + 1} = 1 .. k /\ S \subseteq 1 .. n
    BY <2>1
  <2>3. IsFiniteSet(S)
    BY <2>1, FS_Interval
  <2>4. Sum(f, S) = f[k + 1] + Sum(f, 1 .. k)
    BY <1>a, <2>2, <2>3, SumWithout
  <2>5. f[k + 1] = l /\ Sum(f, 1 .. k) = l * k
    BY <1>4, <1>6, <2>2
  <2> QED
    BY <2>1, <2>4, <2>5
<1> HIDE DEF K
<1>7. Nat \subseteq K
  BY <1>5, <1>6, Induction
<1> USE DEF K
<1>8. CASE n = 0
  <2>1. q = 0
    BY <1>1, <1>8
  <2>2. DOMAIN f = {}
    BY <1>3, <1>8
  <2> QED
    BY <1>2, <2>1, <2>2, SumEmpty
<1>9. CASE n # 0
  <2>1. PICK k \in Nat : n = k + 1
    <3>1. n - 1 \in Nat /\ n = (n - 1) + 1
      BY <1>9
    <3> QED
      BY <3>1
  <2>2. Sum(f, 1 .. k) = l * k
    BY <1>7, <2>1
  <2>3. PICK S : S = 1 .. n
    OBVIOUS
  <2>4. n \in S /\ S \ {n} = 1 .. k /\ DOMAIN f = S
    BY <1>3, <2>1, <2>3
  <2>5. IsFiniteSet(S)
    BY <2>3, FS_Interval
  <2>a. \A x \in S : f[x] \in Int
    BY <1>a, <2>3
  <2>6. Sum(f, S) = f[n] + Sum(f, 1 .. k)
    BY <2>a, <2>4, <2>5, SumWithout
  <2>7. f[n] = q - l * k
    BY <1>4, <2>1, <2>3, <2>4
  <2>8. l * k \in Int
    OBVIOUS
  <2> QED
    BY <1>2, <2>2, <2>4, <2>6, <2>7, <2>8
<1> QED
  BY <1>8, <1>9

(* SlotsFit: the slots of a released order add up to its quantity, an      *)
(* active slot is one with a result, and the end of the order voids the    *)
(* others (releasePlan, Release, Report, Close, Cancel).                   *)
THEOREM SpecSlotsFit == Spec => []SlotsFit
<1>1. ASSUME IInv, order.released PROVE SlotQty = order.qty
  <2>1. order.qty \in Nat /\ slot \in Seq(SlotType)
    BY <1>1 DEF IInv, Typed, OrderType
  <2>2. PICK lotSize \in LotSizes :
           /\ DOMAIN slot = DOMAIN slotQtys(order.qty, lotSize)
           /\ \A i \in DOMAIN slot : slotQtys(order.qty, lotSize)[i] = slot[i].qty
    BY <1>1 DEF IInv, SlotsAsPlanned
  <2>3. lotSize \in Nat \ {0}
    BY WorkOrderAssumption
  <2>4. SlotQty = Sum(slotQtys(order.qty, lotSize), DOMAIN slot)
    BY <2>1, <2>2, SlotSum
  <2> QED
    BY <2>1, <2>2, <2>3, <2>4, PlanSum
<1>2. IInv => SlotsFit
  BY <1>1 DEF IInv, SlotsFit, SlotsAddUp
<1> QED
  BY <1>2, InitIInv, NextIInv, PTL DEF Spec

-----------------------------------------------------------------------------
(* Corrections: what a result corrects came before it, and no two correct  *)
(* the same one; who is about to correct a result still has it uncorrected.*)
Chained(rows) ==
    /\ \A j \in DOMAIN rows : rows[j].corrects < j
    /\ \A j, k \in DOMAIN rows : rows[j].corrects = rows[k].corrects => rows[j].corrects = 0 \/ j = k

Correcting(c) == tx[c].at = "locked" /\ tx[c].op.kind = "correct"

Corrections ==
    /\ Chained(result)
    /\ \A c \in Clients : Correcting(c) => tx[c].op.result \in Leaves(result)

(* A step that adds no result, and lets no call correct unchecked.         *)
LEMMA QuietStep ==
    ASSUME Corrections, result' = result,
           \A c \in Clients : Correcting(c)' =>
              tx'[c].op = tx[c].op /\ (Correcting(c) \/ tx[c].op.result \in Leaves(result))
    PROVE  Corrections'
<1>1. Chained(result)'
  BY DEF Corrections, Chained
<1>2. Leaves(result)' = Leaves(result)
  BY DEF Leaves
<1>3. ASSUME NEW c \in Clients, Correcting(c)' PROVE (tx[c].op.result \in Leaves(result))'
  BY <1>2, <1>3 DEF Corrections
<1> QED
  BY <1>1, <1>3 DEF Corrections

(* A call that moves on, and is not correcting after it.                   *)
LEMMA QuietCall ==
    ASSUME IInv, Corrections, result' = result, NEW c \in Clients, NEW t,
           tx' = [tx EXCEPT ![c] = t], t.at # "locked"
    PROVE  Corrections'
<1>1. tx'[c] = t /\ \A d \in Clients \ {c} : tx'[d] = tx[d]
  BY DEF IInv, CallsFit
<1>2. ~ Correcting(c)' /\ \A d \in Clients \ {c} : Correcting(d)' => Correcting(d)
  BY <1>1 DEF Correcting
<1> QED
  BY <1>1, <1>2, QuietStep

(* A result is added by the call that holds the order.                     *)
LEMMA ResultAdded ==
    ASSUME IInv, Corrections, NEW c \in Clients, Holding(c), tx' = [tx EXCEPT ![c] = Idle],
           NEW x \in ResultType, result' = Append(result, x), x.corrects \in {0} \cup Leaves(result)
    PROVE  Corrections'
<1>1. result \in Seq(ResultType)
  BY DEF IInv, Typed
<1>2. PICK n \in Nat : n = Len(result) /\ DOMAIN result = 1 .. n
  BY <1>1, DomSeq
<1>3. /\ DOMAIN result' = 1 .. (n + 1) /\ result'[n + 1] = x
      /\ \A j \in 1 .. n : result'[j] = result[j]
  BY <1>1, <1>2
<1>4. /\ \A j \in 1 .. n : result[j].corrects \in Nat /\ result[j].corrects < j
      /\ \A j, k \in 1 .. n : result[j].corrects = result[k].corrects => result[j].corrects = 0 \/ j = k
      /\ \A j \in 1 .. n : result[j].corrects = x.corrects => x.corrects = 0
  <2>1. \A j \in 1 .. n : result[j] \in ResultType
    BY <1>1, <1>2, DomSeq
  <2>2. \A j \in 1 .. n : result[j].corrects \in Nat
    BY <2>1 DEF ResultType
  <2> QED
    BY <1>2, <2>2 DEF Corrections, Chained, Leaves
<1>5. x.corrects \in Nat /\ x.corrects < n + 1
  BY <1>2 DEF Leaves
<1>6. \A j \in 1 .. (n + 1) : j = n + 1 \/ j \in 1 .. n
  OBVIOUS
<1>7. Chained(result)'
  <2>1. \A j \in 1 .. (n + 1) : result'[j].corrects < j
    BY <1>3, <1>4, <1>5, <1>6
  <2>2. ASSUME NEW j \in 1 .. (n + 1), NEW k \in 1 .. (n + 1), result'[j].corrects = result'[k].corrects
        PROVE  result'[j].corrects = 0 \/ j = k
    BY <1>3, <1>4, <1>6, <2>2
  <2> QED
    BY <1>3, <2>1, <2>2 DEF Chained
<1>8. ASSUME NEW d \in Clients PROVE ~ Correcting(d)'
  <2>1. CASE d = c
    BY <2>1, IdleCall DEF Correcting, IInv, CallsFit
  <2>2. CASE d # c
    BY <2>2 DEF Correcting, IInv, CallsFit, OneHolder, Holding
  <2> QED
    BY <2>1, <2>2
<1> QED
  BY <1>7, <1>8 DEF Corrections

LEMMA InitCorrections == Init => Corrections
<1> SUFFICES ASSUME Init PROVE Corrections
  OBVIOUS
<1>1. result = <<>> /\ tx = [c \in Clients |-> Idle]
  BY DEF Init
<1>2. DOMAIN result = {}
  BY <1>1
<1> QED
  BY <1>1, <1>2, IdleCall DEF Corrections, Chained, Correcting

(* Every step keeps the corrections a chain.                               *)
LEMMA NextCorrections == IInv /\ Corrections /\ [Next]_vars => Corrections'
<1> SUFFICES ASSUME IInv, Corrections, [Next]_vars PROVE Corrections'
  OBVIOUS
<1>0. \A c \in Clients : Fields(tx[c]) /\ Carried(tx[c])
  BY DEF IInv, CallsFit
<1>1. ASSUME tx' = tx, result' = result PROVE Corrections'
  BY <1>1, QuietStep DEF Correcting
<1>2. ASSUME NEW c \in Clients, tx' = [tx EXCEPT ![c] = Idle], result' = result PROVE Corrections'
  BY <1>2, IdleCall, QuietCall
<1>3. ASSUME NEW c \in Clients, NEW op \in Calls, Begin(c, op) PROVE Corrections'
  <2>1. PICK t : t = [Idle EXCEPT !.op = op, !.at = "called", !.version = View(op)]
    OBVIOUS
  <2>2. tx' = [tx EXCEPT ![c] = t] /\ result' = result
    BY <1>3, <2>1 DEF Begin
  <2>3. t.at = "called"
    BY <2>1, IdleCall DEF Fields
  <2> QED
    BY <2>2, <2>3, QuietCall
<1>4. ASSUME NEW c \in Clients, releasePlan(c) PROVE Corrections'
  <2>1. PICK p : p = slotQtys(order.qty, tx[c].op.lotSize)
    OBVIOUS
  <2>2. PICK t : t = [tx[c] EXCEPT !.at = "planned", !.plan = p]
    OBVIOUS
  <2>3. tx' = [tx EXCEPT ![c] = t] /\ result' = result
    BY <1>4, <2>1, <2>2 DEF releasePlan, IInv, CallsFit
  <2>4. t.at = "planned"
    BY <1>0, <2>2 DEF Fields
  <2> QED
    BY <2>3, <2>4, QuietCall
<1>5. ASSUME NEW c \in Clients, LockRequests(c) PROVE Corrections'
  <2>1. PICK rows, started :
           tx' = [tx EXCEPT ![c].at = "settling", ![c].rows = rows, ![c].started = started]
    BY <1>5 DEF LockRequests
  <2>2. PICK t : t = [tx[c] EXCEPT !.at = "settling", !.rows = rows, !.started = started]
    OBVIOUS
  <2>3. tx' = [tx EXCEPT ![c] = t] /\ result' = result
    BY <1>5, <2>1, <2>2 DEF LockRequests, IInv, CallsFit
  <2>4. t.at = "settling"
    BY <1>0, <2>2 DEF Fields
  <2> QED
    BY <2>3, <2>4, QuietCall
<1>6. ASSUME NEW c \in Clients, Lock(c) PROVE Corrections'
  <2>1. PICK j : j = judgeCompletion(goodQty(result), order.qty)
    OBVIOUS
  <2>2. PICK t : t = [tx[c] EXCEPT !.at = "locked", !.judgment = j]
    OBVIOUS
  <2>3. tx' = [tx EXCEPT ![c] = t] /\ result' = result
    BY <1>6, <2>1, <2>2 DEF Lock, IInv, CallsFit
  <2>4. t.op = tx[c].op
    BY <1>0, <2>2 DEF Fields
  <2>5. t.op.kind = "correct" => tx[c].op.result \in Leaves(result)
    BY <1>6, <2>4 DEF Lock, assertCall, assertNotCorrected
  <2>6. tx'[c] = t /\ \A d \in Clients \ {c} : tx'[d] = tx[d]
    BY <2>3 DEF IInv, CallsFit
  <2>7. \A d \in Clients : Correcting(d)' =>
              tx'[d].op = tx[d].op /\ (Correcting(d) \/ tx[d].op.result \in Leaves(result))
    BY <2>4, <2>5, <2>6 DEF Correcting
  <2> QED
    BY <2>3, <2>7, QuietStep
<1>7. ASSUME NEW c \in Clients, Report(c) PROVE Corrections'
  <2>1. Holding(c) /\ Carried(tx[c]) /\ tx[c].op.kind = "report" /\ tx' = [tx EXCEPT ![c] = Idle]
    BY <1>7, Writing DEF Report
  <2>2. PICK x : x = [good |-> tx[c].op.good, corrects |-> 0, slots |-> tx[c].op.slots]
    OBVIOUS
  <2>3. tx[c].op.good \in Nat /\ tx[c].op.slots \subseteq Nat
    BY <2>1, DomSeq DEF Carried, IInv, Typed
  <2>4. x \in ResultType /\ x.corrects = 0
    BY <2>2, <2>3 DEF ResultType
  <2>5. result' = Append(result, x)
    BY <1>7, <2>2 DEF Report
  <2> QED
    BY <2>1, <2>4, <2>5, ResultAdded
<1>8. ASSUME NEW c \in Clients, Correct(c) PROVE Corrections'
  <2>1. /\ Holding(c) /\ Carried(tx[c]) /\ tx[c].op.kind = "correct" /\ tx[c].at = "locked"
        /\ tx' = [tx EXCEPT ![c] = Idle]
    BY <1>8, Writing DEF Correct
  <2>2. PICK x : x = [good |-> tx[c].op.good, corrects |-> tx[c].op.result, slots |-> {}]
    OBVIOUS
  <2>3. tx[c].op.good \in Nat /\ tx[c].op.result \in Nat
    BY <2>1 DEF Carried
  <2>4. x \in ResultType /\ x.corrects = tx[c].op.result
    BY <2>2, <2>3 DEF ResultType
  <2>5. tx[c].op.result \in Leaves(result)
    BY <2>1 DEF Corrections, Correcting
  <2>6. result' = Append(result, x)
    BY <1>8, <2>2 DEF Correct
  <2> QED
    BY <2>1, <2>4, <2>5, <2>6, ResultAdded
<1>9. ASSUME NEW c \in Clients, Commit(c) PROVE Corrections'
  <2>1. ASSUME ~ Report(c), ~ Correct(c) PROVE tx' = [tx EXCEPT ![c] = Idle] /\ result' = result
    BY <1>9, <2>1 DEF Commit, Commits, Update, Release, Start, HoldOrder, ResumeOrder, ResumeSession,
       Close, Cancel, CancelRequest, UpdateRequest, IssueMore, OneRequest
  <2> QED
    BY <1>2, <1>7, <1>8, <2>1
<1>10. ASSUME NEW c \in Clients, Abort(c) PROVE Corrections'
  BY <1>2, <1>10 DEF Abort
<1>11. ASSUME SessionStep \/ RequestStep PROVE tx' = tx /\ result' = result
  BY <1>11 DEF SessionStep, StopSession, EndSession, Join, Leave, OnSession, RequestStep, ReleaseOne,
     Pick, Issue, Post, OnRequest, OneRequest
<1>12. CASE UNCHANGED vars
  BY <1>1, <1>12 DEF vars
<1> QED
  BY <1>1, <1>3, <1>4, <1>5, <1>6, <1>9, <1>10, <1>11, <1>12 DEF Next

-----------------------------------------------------------------------------
(* Counting: the results that nothing corrects, and the events each in its *)
(* latest correction, are the same results.                                *)

LEMMA MaxOf ==
    ASSUME NEW L \in Nat, NEW J \in SUBSET (1 .. L), J # {}
    PROVE  Max(J) \in J /\ \A y \in J : Max(J) >= y
<1> DEFINE N == {n \in Nat : \A K \in SUBSET (1 .. n) : K # {} => \E x \in K : \A y \in K : x >= y}
<1>1. 0 \in N
  <2>1. 1 .. 0 = {}
    OBVIOUS
  <2> QED
    BY <2>1
<1>2. ASSUME NEW n \in Nat, n \in N PROVE n + 1 \in N
  <2> SUFFICES ASSUME NEW K \in SUBSET (1 .. (n + 1)), K # {}
               PROVE  \E x \in K : \A y \in K : x >= y
    OBVIOUS
  <2>1. CASE n + 1 \in K
    <3>1. \A y \in K : n + 1 >= y
      OBVIOUS
    <3> QED
      BY <2>1, <3>1
  <2>2. CASE n + 1 \notin K
    <3>1. K \in SUBSET (1 .. n)
      BY <2>2
    <3> QED
      BY <1>2, <3>1
  <2> QED
    BY <2>1, <2>2
<1> HIDE DEF N
<1>3. L \in N
  BY <1>1, <1>2, Induction
<1>4. \E x \in J : \A y \in J : x >= y
  BY <1>3 DEF N
<1> QED
  BY <1>4 DEF Max

(* cr[i] is what i corrects, zero if it is an event.                       *)
IsChain(L, cr) ==
    /\ cr \in [1 .. L -> Nat] /\ \A i \in 1 .. L : cr[i] < i
    /\ \A i, j \in 1 .. L : cr[i] = cr[j] => cr[i] = 0 \/ i = j

IsOrigin(L, cr, of) == of = [i \in 1 .. L |-> IF cr[i] = 0 THEN i ELSE of[cr[i]]]

LEMMA OriginExists ==
    ASSUME NEW L \in Nat, NEW cr, IsChain(L, cr)
    PROVE  \E of : IsOrigin(L, cr, of)
<1>a. /\ cr \in [1 .. L -> Nat] /\ \A i \in 1 .. L : cr[i] < i
      /\ \A i, j \in 1 .. L : cr[i] = cr[j] => cr[i] = 0 \/ i = j
  BY DEF IsChain
<1> DEFINE N == {n \in Nat : n <= L => \E h : IsOrigin(n, cr, h)}
<1>1. 0 \in N
  <2>1. PICK h : h = [i \in 1 .. 0 |-> 0]
    OBVIOUS
  <2>2. h = [i \in 1 .. 0 |-> IF cr[i] = 0 THEN i ELSE h[cr[i]]]
    BY <2>1
  <2> QED
    BY <2>2 DEF IsOrigin
<1>2. ASSUME NEW n \in Nat, n \in N PROVE n + 1 \in N
  <2> SUFFICES ASSUME n + 1 <= L PROVE \E h : IsOrigin(n + 1, cr, h)
    OBVIOUS
  <2>1. PICK g : IsOrigin(n, cr, g)
    BY <1>2
  <2>2. \A i \in 1 .. n : g[i] = IF cr[i] = 0 THEN i ELSE g[cr[i]]
    BY <2>1 DEF IsOrigin
  <2>3. PICK h : h = [i \in 1 .. (n + 1) |-> IF cr[i] = 0 THEN i ELSE g[cr[i]]]
    OBVIOUS
  <2>4. \A i \in 1 .. n : h[i] = g[i]
    BY <2>2, <2>3
  <2>5. ASSUME NEW i \in 1 .. (n + 1), cr[i] # 0 PROVE h[cr[i]] = g[cr[i]]
    <3>1. cr[i] \in 1 .. n
      BY <1>a, <2>5
    <3> QED
      BY <2>4, <3>1
  <2>6. h = [i \in 1 .. (n + 1) |-> IF cr[i] = 0 THEN i ELSE h[cr[i]]]
    BY <2>3, <2>5
  <2> QED
    BY <2>6 DEF IsOrigin
<1> HIDE DEF N
<1>3. L \in N
  BY <1>1, <1>2, Induction
<1> QED
  BY <1>3 DEF N

(* An origin is an event, no later than what stands for it.                *)
LEMMA OriginIsEvent ==
    ASSUME NEW L \in Nat, NEW cr, IsChain(L, cr), NEW of, IsOrigin(L, cr, of)
    PROVE  \A i \in 1 .. L : /\ of[i] \in 1 .. L /\ of[i] <= i /\ cr[of[i]] = 0
                             /\ cr[i] = 0 => of[i] = i
                             /\ cr[i] # 0 => cr[i] \in 1 .. L /\ of[i] = of[cr[i]]
<1>a. /\ cr \in [1 .. L -> Nat] /\ \A i \in 1 .. L : cr[i] < i
      /\ \A i, j \in 1 .. L : cr[i] = cr[j] => cr[i] = 0 \/ i = j
  BY DEF IsChain
<1>0. \A i \in 1 .. L : /\ cr[i] = 0 => of[i] = i
                        /\ cr[i] # 0 => cr[i] \in 1 .. L /\ of[i] = of[cr[i]]
  BY <1>a DEF IsOrigin
<1> DEFINE N == {n \in Nat : \A i \in 1 .. L : i <= n => of[i] \in 1 .. L /\ of[i] <= i /\ cr[of[i]] = 0}
<1>1. 0 \in N
  OBVIOUS
<1>2. ASSUME NEW n \in Nat, n \in N PROVE n + 1 \in N
  <2> SUFFICES ASSUME NEW i \in 1 .. L, i <= n + 1
               PROVE  of[i] \in 1 .. L /\ of[i] <= i /\ cr[of[i]] = 0
    OBVIOUS
  <2>1. CASE cr[i] = 0
    BY <1>0, <2>1
  <2>2. CASE cr[i] # 0
    <3>1. PICK p \in 1 .. L : p = cr[i] /\ p <= n /\ p < i /\ of[i] = of[p]
      BY <1>a, <1>0, <2>2
    <3>2. of[p] \in 1 .. L /\ of[p] <= p /\ cr[of[p]] = 0
      BY <1>2, <3>1
    <3> QED
      BY <3>1, <3>2
  <2> QED
    BY <2>1, <2>2
<1> HIDE DEF N
<1>3. L \in N
  BY <1>1, <1>2, Induction
<1> QED
  BY <1>0, <1>3 DEF N

(* Of two that stand for the same event the earlier one is corrected.      *)
LEMMA EarlierIsCorrected ==
    ASSUME NEW L \in Nat, NEW cr, IsChain(L, cr), NEW of, IsOrigin(L, cr, of)
    PROVE  \A k, j \in 1 .. L : j < k /\ of[j] = of[k] => \E m \in 1 .. L : m <= k /\ cr[m] = j
<1>a. /\ cr \in [1 .. L -> Nat] /\ \A i \in 1 .. L : cr[i] < i
      /\ \A i, j \in 1 .. L : cr[i] = cr[j] => cr[i] = 0 \/ i = j
  BY DEF IsChain
<1>0. \A i \in 1 .. L : /\ of[i] \in 1 .. L /\ of[i] <= i
                        /\ cr[i] = 0 => of[i] = i
                        /\ cr[i] # 0 => cr[i] \in 1 .. L /\ of[i] = of[cr[i]]
  BY OriginIsEvent
<1> DEFINE N == {n \in Nat : \A k, j \in 1 .. L :
                     k <= n /\ j < k /\ of[j] = of[k] => \E m \in 1 .. L : m <= k /\ cr[m] = j}
<1>1. 0 \in N
  OBVIOUS
<1>2. ASSUME NEW n \in Nat, n \in N PROVE n + 1 \in N
  <2> SUFFICES ASSUME NEW k \in 1 .. L, NEW j \in 1 .. L, k <= n + 1, j < k, of[j] = of[k]
               PROVE  \E m \in 1 .. L : m <= k /\ cr[m] = j
    OBVIOUS
  <2>1. cr[k] # 0
    <3> SUFFICES ASSUME cr[k] = 0 PROVE FALSE
      OBVIOUS
    <3>1. of[k] = k /\ of[j] <= j /\ of[j] \in 1 .. L
      BY <1>0
    <3> QED
      BY <3>1
  <2>2. PICK p \in 1 .. L : p = cr[k] /\ p < k /\ of[p] = of[k]
    BY <1>a, <1>0, <2>1
  <2>3. CASE p = j
    <3>1. k <= k /\ cr[k] = j
      BY <2>2, <2>3
    <3> QED
      BY <3>1
  <2>4. CASE j < p
    <3>1. p <= n
      BY <2>2
    <3>2. PICK m \in 1 .. L : m <= p /\ cr[m] = j
      BY <1>2, <2>2, <2>4, <3>1
    <3> QED
      BY <2>2, <3>2
  <2>5. CASE p < j
    <3>1. j <= n
      OBVIOUS
    <3>2. PICK m \in 1 .. L : m <= j /\ cr[m] = p
      BY <1>2, <2>2, <2>5, <3>1
    <3>3. m = k
      BY <1>a, <2>1, <2>2, <3>2
    <3> QED
      BY <3>2, <3>3
  <2> QED
    BY <2>3, <2>4, <2>5
<1> HIDE DEF N
<1>3. L \in N
  BY <1>1, <1>2, Induction
<1> QED
  BY <1>3 DEF N

(* The latest result of an event is one that nothing corrects; a result    *)
(* that nothing corrects is the latest of its event.                       *)
LEMMA LatestIsLeaf ==
    ASSUME NEW L \in Nat, NEW cr, IsChain(L, cr), NEW of, IsOrigin(L, cr, of),
           NEW latest, \A i \in 1 .. L : latest[i] = Max({j \in 1 .. L : of[j] = i})
    PROVE  /\ \A i \in 1 .. L : cr[i] = 0 =>
                 /\ latest[i] \in 1 .. L /\ of[latest[i]] = i
                 /\ \A m \in 1 .. L : cr[m] # latest[i]
           /\ \A i \in 1 .. L : (\A m \in 1 .. L : cr[m] # i) =>
                 of[i] \in 1 .. L /\ cr[of[i]] = 0 /\ latest[of[i]] = i
<1>a. /\ cr \in [1 .. L -> Nat] /\ \A i \in 1 .. L : cr[i] < i
      /\ \A i, j \in 1 .. L : cr[i] = cr[j] => cr[i] = 0 \/ i = j
  BY DEF IsChain
<1>0. \A k, j \in 1 .. L : j < k /\ of[j] = of[k] => \E m \in 1 .. L : m <= k /\ cr[m] = j
  BY EarlierIsCorrected
<1>1. \A i \in 1 .. L : /\ of[i] \in 1 .. L /\ of[i] <= i /\ cr[of[i]] = 0
                        /\ cr[i] = 0 => of[i] = i
                        /\ cr[i] # 0 => cr[i] \in 1 .. L /\ of[i] = of[cr[i]]
  BY OriginIsEvent
<1>2. ASSUME NEW i \in 1 .. L, NEW k \in 1 .. L, of[k] = i
      PROVE  /\ latest[i] \in 1 .. L /\ of[latest[i]] = i
             /\ \A j \in 1 .. L : of[j] = i => latest[i] >= j
  <2>1. PICK J : J = {j \in 1 .. L : of[j] = i}
    OBVIOUS
  <2>2. J \in SUBSET (1 .. L) /\ J # {}
    BY <1>2, <2>1
  <2>3. Max(J) \in J /\ \A y \in J : Max(J) >= y
    BY <2>2, MaxOf
  <2> QED
    BY <2>1, <2>3
<1>3. ASSUME NEW i \in 1 .. L, cr[i] = 0
      PROVE  /\ latest[i] \in 1 .. L /\ of[latest[i]] = i
             /\ \A m \in 1 .. L : cr[m] # latest[i]
  <2>1. latest[i] \in 1 .. L /\ of[latest[i]] = i /\ \A j \in 1 .. L : of[j] = i => latest[i] >= j
    BY <1>1, <1>2, <1>3
  <2>2. ASSUME NEW m \in 1 .. L, cr[m] = latest[i] PROVE FALSE
    <3>1. of[m] = i
      BY <1>1, <2>1, <2>2
    <3>2. latest[i] >= m /\ cr[m] < m
      BY <1>a, <2>1, <3>1
    <3> QED
      BY <2>1, <2>2, <3>2
  <2> QED
    BY <2>1, <2>2
<1>4. ASSUME NEW i \in 1 .. L, \A m \in 1 .. L : cr[m] # i
      PROVE  of[i] \in 1 .. L /\ cr[of[i]] = 0 /\ latest[of[i]] = i
  <2>1. PICK o \in 1 .. L : o = of[i] /\ cr[o] = 0
    BY <1>1
  <2>2. PICK z \in 1 .. L : z = latest[o] /\ of[z] = o /\ z >= i
    BY <1>2, <2>1
  <2>3. ~ (i < z)
    <3> SUFFICES ASSUME i < z PROVE FALSE
      OBVIOUS
    <3>1. PICK m \in 1 .. L : cr[m] = i
      BY <1>0, <2>1, <2>2
    <3> QED
      BY <1>4, <3>1
  <2> QED
    BY <2>1, <2>2, <2>3
<1> QED
  BY <1>3, <1>4

(* The terms of one sum are those of the other, one for one.               *)
LEMMA SumBijection ==
    ASSUME NEW f, NEW g, NEW S, NEW T, IsFiniteSet(S), IsFiniteSet(T), \A y \in T : g[y] \in Int,
           NEW b, NEW of, \A x \in S : b[x] \in T /\ of[b[x]] = x /\ f[x] = g[b[x]],
           \A y \in T : of[y] \in S /\ b[of[y]] = y
    PROVE  Sum(f, S) = Sum(g, T)
<1> DEFINE Over(P) == {y \in T : of[y] \in P}
           C == {P \in SUBSET S : Sum(f, P) = Sum(g, Over(P))}
<1>1. {} \in C
  <2>1. Over({}) = {}
    OBVIOUS
  <2> QED
    BY <2>1, SumEmpty
<1>2. ASSUME NEW P \in SUBSET S, IsFiniteSet(P), P # {}, \A x \in P : P \ {x} \in C
      PROVE  P \in C
  <2>1. PICK x \in P : TRUE
    BY <1>2
  <2>2. PICK z : z = b[x]
    OBVIOUS
  <2>3. PICK Q, R : Q = Over(P) /\ R = Over(P \ {x})
    OBVIOUS
  <2>4. z \in Q /\ Q \ {z} = R
    BY <2>1, <2>2, <2>3
  <2>5. IsFiniteSet(Q) /\ \A y \in Q : g[y] \in Int
    BY <2>3, FS_Subset
  <2>6. Sum(g, Q) = g[z] + Sum(g, R)
    BY <2>4, <2>5, SumWithout
  <2>7. \A y \in P : f[y] \in Int
    OBVIOUS
  <2>8. Sum(f, P) = f[x] + Sum(f, P \ {x})
    BY <1>2, <2>1, <2>7, SumWithout
  <2>9. Sum(f, P \ {x}) = Sum(g, R)
    BY <1>2, <2>1, <2>3
  <2>10. f[x] = g[z]
    BY <2>1, <2>2
  <2> QED
    BY <2>3, <2>6, <2>8, <2>9, <2>10
<1> HIDE DEF C
<1>3. S \in C
  BY <1>1, <1>2, FiniteInduction
<1>4. Sum(f, S) = Sum(g, Over(S))
  BY <1>3 DEF C
<1>5. Over(S) = T
  OBVIOUS
<1> QED
  BY <1>4, <1>5

(* The good quantity is a Sum over the results that nothing corrects.      *)
LEMMA LeafSum ==
  ASSUME NEW rows \in Seq(ResultType), NEW f, \A i \in DOMAIN rows : f[i] = rows[i].good
  PROVE  goodQty(rows) = Sum(f, Leaves(rows))
<1>1. PICK D : D = Leaves(rows)
  OBVIOUS
<1>2. IsFiniteSet(D) /\ D \subseteq DOMAIN rows
  <2>1. IsFiniteSet(DOMAIN rows)
    BY FS_Interval, DomSeq
  <2>2. D \subseteq DOMAIN rows
    BY <1>1 DEF Leaves
  <2> QED
    BY <2>1, <2>2, FS_Subset
<1> DEFINE it == CHOOSE h : h = [s \in SUBSET D |-> IF s = {} THEN 0 ELSE rows[First(s)].good + h[s \ {First(s)}]]
<1>3. goodQty(rows) = it[D]
  BY <1>1 DEF goodQty, MapThenSumSet, MapThenFoldSet, First
<1>4. PICK g : IsIter(f, D, g)
  BY <1>2, IterExists
<1>5. ASSUME NEW s \in SUBSET D, s # {} PROVE f[First(s)] = rows[First(s)].good
  BY <1>2, <1>5 DEF First
<1>6. g = [s \in SUBSET D |-> IF s = {} THEN 0 ELSE rows[First(s)].good + g[s \ {First(s)}]]
  BY <1>4, <1>5 DEF IsIter
<1>7. it = [s \in SUBSET D |-> IF s = {} THEN 0 ELSE rows[First(s)].good + it[s \ {First(s)}]]
  BY <1>6
<1> HIDE DEF it
<1>8. IsIter(f, D, it)
  BY <1>5, <1>7 DEF IsIter
<1> QED
  BY <1>1, <1>2, <1>3, <1>8, IterSum

(* What is counted is a Sum over the events.                               *)
LEMMA EventSum ==
  ASSUME NEW rows \in Seq(ResultType), NEW f, NEW E, E = {i \in DOMAIN rows : rows[i].corrects = 0},
         \A i \in E : f[i] = rows[Max({j \in DOMAIN rows : Origin(rows)[j] = i})].good
  PROVE  Counted(rows) = Sum(f, E)
<1>1. PICK of : of = Origin(rows)
  OBVIOUS
<1>2. IsFiniteSet(E)
  <2>1. IsFiniteSet(DOMAIN rows)
    BY FS_Interval, DomSeq
  <2> QED
    BY <2>1, FS_Subset
<1> DEFINE term(i) == rows[Max({j \in DOMAIN rows : of[j] = i})].good
           it == CHOOSE h : h = [s \in SUBSET E |-> IF s = {} THEN 0 ELSE term(First(s)) + h[s \ {First(s)}]]
<1>3. Counted(rows) = it[E]
  BY <1>1 DEF Counted, MapThenSumSet, MapThenFoldSet, First
<1>4. PICK g : IsIter(f, E, g)
  BY <1>2, IterExists
<1>5. ASSUME NEW s \in SUBSET E, s # {} PROVE f[First(s)] = term(First(s))
  <2>1. First(s) \in E
    BY <1>5 DEF First
  <2> QED
    BY <1>1, <2>1
<1> HIDE DEF term
<1>6. g = [s \in SUBSET E |-> IF s = {} THEN 0 ELSE term(First(s)) + g[s \ {First(s)}]]
  BY <1>4, <1>5 DEF IsIter
<1>7. it = [s \in SUBSET E |-> IF s = {} THEN 0 ELSE term(First(s)) + it[s \ {First(s)}]]
  BY <1>6
<1> HIDE DEF it
<1>8. IsIter(f, E, it)
  BY <1>5, <1>7 DEF IsIter
<1> QED
  BY <1>2, <1>3, <1>8, IterSum

(* Of a chain of corrections the good quantity counts every event once.    *)
LEMMA CountedOnce ==
  ASSUME NEW rows \in Seq(ResultType), Chained(rows)
  PROVE  goodQty(rows) = Counted(rows)
<1>1. PICK L \in Nat : DOMAIN rows = 1 .. L
  BY DomSeq
<1>2. \A i \in 1 .. L : rows[i].good \in Nat /\ rows[i].corrects \in Nat
  <2>1. \A i \in 1 .. L : rows[i] \in ResultType
    BY <1>1, DomSeq
  <2> QED
    BY <2>1 DEF ResultType
<1>3. PICK cr : cr = [i \in 1 .. L |-> rows[i].corrects]
  OBVIOUS
<1>4. IsChain(L, cr)
  <2>1. cr \in [1 .. L -> Nat]
    BY <1>2, <1>3
  <2>2. \A i \in 1 .. L : cr[i] = rows[i].corrects
    BY <1>3
  <2> QED
    BY <1>1, <2>1, <2>2 DEF IsChain, Chained
<1>5. PICK of : of = Origin(rows)
  OBVIOUS
<1>6. IsOrigin(L, cr, of)
  <2> DEFINE P(h) == h = [i \in 1 .. L |-> IF rows[i].corrects = 0 THEN i ELSE h[rows[i].corrects]]
  <2>1. of = CHOOSE h : P(h)
    BY <1>1, <1>5 DEF Origin
  <2>2. \A h : P(h) <=> IsOrigin(L, cr, h)
    <3> TAKE h
    <3>1. [i \in 1 .. L |-> IF rows[i].corrects = 0 THEN i ELSE h[rows[i].corrects]]
            = [i \in 1 .. L |-> IF cr[i] = 0 THEN i ELSE h[cr[i]]]
      BY <1>3
    <3> QED
      BY <3>1 DEF IsOrigin
  <2>3. \E h : P(h)
    BY <1>4, <2>2, OriginExists
  <2> HIDE DEF P
  <2>4. P(of)
    BY <2>1, <2>3
  <2> QED
    BY <2>2, <2>4
<1>7. PICK latest : latest = [i \in 1 .. L |-> Max({j \in 1 .. L : of[j] = i})]
  OBVIOUS
<1>8. /\ \A i \in 1 .. L : cr[i] = 0 =>
            /\ latest[i] \in 1 .. L /\ of[latest[i]] = i
            /\ \A m \in 1 .. L : cr[m] # latest[i]
      /\ \A i \in 1 .. L : (\A m \in 1 .. L : cr[m] # i) =>
            of[i] \in 1 .. L /\ cr[of[i]] = 0 /\ latest[of[i]] = i
  <2>1. \A i \in 1 .. L : latest[i] = Max({j \in 1 .. L : of[j] = i})
    BY <1>7
  <2> QED
    BY <1>4, <1>6, <2>1, LatestIsLeaf
<1>9. PICK E, V : E = {i \in DOMAIN rows : rows[i].corrects = 0} /\ V = Leaves(rows)
  OBVIOUS
<1>10. E = {i \in 1 .. L : cr[i] = 0} /\ V = {i \in 1 .. L : \A m \in 1 .. L : cr[m] # i}
  BY <1>1, <1>3, <1>9 DEF Leaves
<1>11. PICK g : g = [i \in 1 .. L |-> rows[i].good]
  OBVIOUS
<1>12. PICK f : f = [i \in E |-> g[latest[i]]]
  OBVIOUS
<1>13. \A i \in E : latest[i] \in V /\ of[latest[i]] = i /\ f[i] = g[latest[i]]
  BY <1>8, <1>10, <1>12
<1>14. \A i \in V : of[i] \in E /\ latest[of[i]] = i /\ g[i] \in Int
  <2> SUFFICES ASSUME NEW i \in V PROVE of[i] \in E /\ latest[of[i]] = i /\ g[i] \in Int
    OBVIOUS
  <2>1. i \in 1 .. L /\ \A m \in 1 .. L : cr[m] # i
    BY <1>10
  <2>2. of[i] \in 1 .. L /\ cr[of[i]] = 0 /\ latest[of[i]] = i
    BY <1>8, <2>1
  <2>3. g[i] = rows[i].good
    BY <1>11, <2>1
  <2> QED
    BY <1>2, <1>10, <2>1, <2>2, <2>3
<1>15. goodQty(rows) = Sum(g, V)
  BY <1>1, <1>9, <1>11, LeafSum
<1>16. Counted(rows) = Sum(f, E)
  <2>1. \A i \in E : f[i] = rows[Max({j \in DOMAIN rows : Origin(rows)[j] = i})].good
    <3> SUFFICES ASSUME NEW i \in E
                 PROVE  f[i] = rows[Max({j \in DOMAIN rows : Origin(rows)[j] = i})].good
      OBVIOUS
    <3>1. i \in 1 .. L /\ latest[i] \in 1 .. L /\ f[i] = g[latest[i]]
      BY <1>8, <1>10, <1>13
    <3>2. latest[i] = Max({j \in DOMAIN rows : Origin(rows)[j] = i})
      BY <1>1, <1>5, <1>7, <3>1
    <3>3. g[latest[i]] = rows[latest[i]].good
      BY <1>11, <3>1
    <3> QED
      BY <3>1, <3>2, <3>3
  <2> QED
    BY <1>9, <2>1, EventSum
<1>17. IsFiniteSet(E) /\ IsFiniteSet(V)
  <2>1. IsFiniteSet(1 .. L) /\ E \in SUBSET (1 .. L) /\ V \in SUBSET (1 .. L)
    BY <1>10, FS_Interval
  <2> QED
    BY <2>1, FS_Subset
<1>18. Sum(f, E) = Sum(g, V)
  BY <1>13, <1>14, <1>17, SumBijection
<1> QED
  BY <1>15, <1>16, <1>18

(* The judgment that closing stores is that of every reported event        *)
(* counted once, in its latest correction, at the moment the order closes  *)
(* (assertNotCorrected, judgeCompletion, close).                           *)
THEOREM SpecJudgedAsCounted == Spec => JudgedAsCounted
<1>1. IInv /\ Corrections /\ IInv' /\ Corrections' /\ JudgedAtClose =>
         (order'.status = "CLOSED" /\ order.status # "CLOSED" =>
             order'.judged = judgeCompletion(Counted(result'), order'.qty))
  <2> SUFFICES ASSUME IInv', Corrections', JudgedAtClose, order'.status = "CLOSED", order.status # "CLOSED"
               PROVE  order'.judged = judgeCompletion(Counted(result'), order'.qty)
    OBVIOUS
  <2>1. result' \in Seq(ResultType) /\ Chained(result')
    BY DEF IInv, Typed, Corrections, Chained
  <2>2. goodQty(result') = Counted(result')
    BY <2>1, CountedOnce
  <2> QED
    BY <2>2 DEF JudgedAtClose
<1>2. Init => IInv /\ Corrections
  BY InitIInv, InitCorrections
<1>3. IInv /\ Corrections /\ [Next]_vars => IInv' /\ Corrections'
  BY NextIInv, NextCorrections
<1> QED
  BY <1>1, <1>2, <1>3, SpecJudgedAtClose, PTL DEF Spec, JudgedAsCounted
=============================================================================
