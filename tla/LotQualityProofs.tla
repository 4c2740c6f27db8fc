--------------------------- MODULE LotQualityProofs ---------------------------
(***************************************************************************)
(* Proofs about the quality of lots, for every number of calls at once,    *)
(* lots, holds and nonconformances.                                        *)
(*                                                                         *)
(* The argument is that of row locks under READ COMMITTED: what a call has *)
(* read of a lot, of its holds, of its incoming inspection and of its      *)
(* nonconformance after locking the row cannot change before it commits    *)
(* (Held, Stands), because whoever changes them holds the same lock.  One  *)
(* write locks nothing beforehand, the request for a disposition: there    *)
(* the version read before says what the row still is (Stands again).      *)
(* Given that, each commit is looked at by itself (Effect, NcEffect).      *)
(* That the holds of a lot fit its stock comes on top (Roomy), with what   *)
(* sums over finite sets come to.                                          *)
(***************************************************************************)
EXTENDS LotQuality, FiniteSetTheorems, SequenceTheorems, WellFoundedInduction, TLAPS

(* What is known of a call. *)
OneLot(op, lots) == \E l \in lots : op.lots = {l}

OpOK(op) ==
  /\ op.kind \in DOMAIN Plan
  /\ op.kind = "holdCreate" =>
       /\ op.lots \subseteq Lots /\ op.action \in {"suspect", "claim"}
       /\ op.reason \in {InspectionWait, "OTHER"} /\ op.qty \in 0 .. OnHand
  /\ op.kind = "holdRelease" =>
       /\ OneLot(op, Lots) /\ op.action \in {"releaseAccepted", "releaseRejected"}
       /\ op.qty \in 0 .. OnHand
  /\ op.kind = "confirm" =>
       \/ op.type = "IQC" /\ OneLot(op, InboundLots) /\ op.judgment \in Judgments \ {"EXCEEDED"}
       \/ op.type \in {"PQC", "OQC"} /\ op.lots = {} /\ op.judgment \in Judgments
  /\ op.kind \in {"pqcSkip", "oqcSkip"} => op.lots = {}
  /\ op.kind = "report" => op.lots \subseteq SlotLots
  /\ op.kind \in {"iqcSkip", "register", "requestDisposition", "dispose", "concede", "apply"} =>
       OneLot(op, InboundLots)
  /\ op.kind = "dispose" => op.type \in {"REWORK", "SCRAP", "NORMAL", "SORT"}
  /\ op.kind \in {"dispose", "concede"} => op.qty \in 1 .. Affected

(* The stages a transaction has behind it. *)
Past(t, stage) ==
  \E k \in DOMAIN Plan[tx[t].op.kind] :
    k < tx[t].stage /\ Plan[tx[t].op.kind][k] = stage

(* The lots the handler works on are those of the call, unless it looks    *)
(* them up by its work order or shipment, or has nothing to apply.         *)
OwnLots(t) ==
  LET op == tx[t].op IN
  \/ op.kind \in {"holdCreate", "holdRelease", "report", "iqcSkip", "register", "dispose"}
  \/ op.kind = "confirm" /\ op.type = "IQC"
  \/ op.kind = "apply" /\ world.approval = "APPROVED"

Framed(t) ==
  LET x == tx[t] IN
  /\ x \in [op : {x.op}, stage : Nat, view : {x.view}, lots : SUBSET Lots, seen : {x.seen},
            note : {x.note}]
  /\ x.stage >= 1
  /\ OpOK(x.op)
  /\ OwnLots(t) => x.lots = x.op.lots
  /\ x.op.kind = "oqcSkip" \/ (x.op.kind = "confirm" /\ x.op.type = "OQC") =>
       x.lots \subseteq PickedLots

(* Rows that have been locked stay locked, and the holds are as read. *)
Held(t) ==
  /\ Past(t, "head") => \A r \in HeadRows(tx[t].op) : lock[r] = t
  /\ Past(t, "lots") => \A l \in tx[t].lots : lock[l] = t /\ tx[t].seen[l].holds = hold[l]

(* The gates that have been passed would be passed again. *)
Undecided(t, l) == ~isDecided(l) /\ tx[t].note = Latest(l).decided

Stands(t) ==
  LET op == tx[t].op  l == Of(op) IN
  /\ op.kind = "holdCreate" /\ Past(t, "lots") =>
       \A k \in op.lots : \A i \in OpenIn(hold[k]) : hold[k][i].qty # Full
  /\ op.kind = "holdRelease" => op.hold \in DOMAIN hold[l]
  /\ op.kind = "holdRelease" /\ Past(t, "lots") => hold[l][op.hold].open
  /\ op.kind = "iqcSkip" /\ Past(t, "lots") => request[IQC(l)].status \in Open
  /\ op.kind = "register" /\ Past(t, "lots") => noOpenNonconformance(l)
  /\ op.kind \in {"requestDisposition", "dispose", "concede", "apply"} => HasNc(l)
  /\ op.kind = "requestDisposition" =>
       LET n == tx[t].view[1]  v == tx[t].view[2] IN
       /\ n \in Nat /\ v \in Nat /\ n <= Len(nc[l])
       /\ n = Len(nc[l]) => /\ v <= Latest(l).version
                            /\ v = Latest(l).version => Latest(l).status = "NOT_REQUESTED"
  /\ op.kind = "dispose" /\ Past(t, "head") =>
       Undecided(t, l) /\ op.qty <= Affected - tx[t].note
  /\ op.kind = "apply" /\ Past(t, "head") =>
       world.approval # "PENDING" /\ (world.approval = "APPROVED" => Undecided(t, l))

Calm == DOMAIN tx = Sessions /\ \A t \in Sessions : Framed(t) /\ Held(t) /\ Stands(t)

(* The status of a lot and its holds. *)
OneFull(l) ==
  \A i, j \in OpenIn(hold[l]) : hold[l][i].qty = Full /\ hold[l][j].qty = Full => i = j

LotFits(l) ==
  /\ lot[l].status = "NORMAL" /\ ~ Uncounted(l) => OpenIn(hold[l]) = {}
  /\ lot[l].by = "suspect" /\ lot[l].status = "INSPECTION_PENDING" => OpenIn(hold[l]) # {}
  /\ OneFull(l)

LotsFit == \A l \in Lots : LotFits(l)

(* Only the latest nonconformance of a lot may be open. *)
NcFits(l) ==
  /\ \A i \in DOMAIN nc[l] : i < Len(nc[l]) => nc[l][i].status = "DECIDED"
  /\ \A i \in DOMAIN nc[l] :
       /\ nc[l][i].decided <= Affected
       /\ nc[l][i].status = "DECIDED" <=> nc[l][i].decided = Affected

NcsFit == \A l \in InboundLots : NcFits(l)

IInv == TypeOK /\ Calm /\ LotsFit /\ NcsFit
-----------------------------------------------------------------------------
(* Helpers: the constants, the plans and the transitions. *)

RequestRow == [status : Open \cup {"COMPLETED", "SKIPPED", "ABSENT"},
               result : {"NONE", "DRAFT", "CONFIRMED"}, judgment : Judgments \cup {"NONE"}]
ConcessionRow == [status : {"NONE", "PENDING", "APPROVED", "REJECTED"}, qty : 1 .. Affected]
LotStatus == NotScrapped \cup {"SCRAPPED"}

LEMMA OfOne ==
  ASSUME NEW op, NEW lots, OneLot(op, lots)
  PROVE  Of(op) \in lots /\ op.lots = {Of(op)}
BY DEF OneLot, Of

LEMMA IqcOf ==
  ASSUME NEW k, NEW l, IQC(k) = IQC(l)
  PROVE  k = l
<1>1. IQC(k).of = {k} /\ IQC(l).of = {l}
  BY DEF IQC
<1> QED
  BY <1>1

LEMMA RequestNames ==
  /\ PQC # OQC
  /\ \A l : IQC(l) # PQC /\ IQC(l) # OQC
<1>1. PQC.type = "PQC" /\ OQC.type = "OQC" /\ \A l : IQC(l).type = "IQC"
  BY DEF PQC, OQC, IQC
<1> QED
  BY <1>1

LEMMA PlanStages ==
  ASSUME NEW kind \in DOMAIN Plan
  PROVE  Plan[kind] \in Seq({"head", "lots", "requests"})
<1> DEFINE S == {"head", "lots", "requests"}
<1>1. \A a, b, c \in S : <<>> \in Seq(S) /\ <<a>> \in Seq(S) /\ <<a, b>> \in Seq(S)
                          /\ <<a, b, c>> \in Seq(S)
  OBVIOUS
<1>2. "head" \in S /\ "lots" \in S /\ "requests" \in S
  OBVIOUS
<1> HIDE DEF S
<1>3. \/ Plan[kind] = <<>>
      \/ \E a \in S : Plan[kind] = <<a>>
      \/ \E a, b \in S : Plan[kind] = <<a, b>>
      \/ \E a, b, c \in S : Plan[kind] = <<a, b, c>>
  BY <1>2 DEF Plan
<1>4. Plan[kind] \in Seq(S)
  BY <1>1, <1>2, <1>3
<1> QED
  BY <1>4 DEF S

(* Where a handler locks requests after lots, it works on its own lots. *)
LEMMA RequestsAfterLots ==
  ASSUME NEW kind \in DOMAIN Plan, NEW j \in DOMAIN Plan[kind], NEW k \in DOMAIN Plan[kind],
         Plan[kind][j] = "lots", Plan[kind][k] = "requests", j < k
  PROVE  kind \in {"iqcSkip", "dispose"}
BY DEF Plan

LEMMA WhoLocks ==
  ASSUME NEW kind \in DOMAIN Plan, NEW k \in DOMAIN Plan[kind]
  PROVE  /\ Plan[kind][k] = "head" =>
              kind \in {"pqcSkip", "oqcSkip", "report", "dispose", "concede", "apply"}
         /\ Plan[kind][k] = "requests" => kind \in {"confirm", "iqcSkip", "pqcSkip", "oqcSkip", "dispose"}
         /\ kind # "none"
BY DEF Plan

LEMMA TransitionTo ==
  ASSUME NEW action \in DOMAIN TRANSITIONS
  PROVE  TRANSITIONS[action].to \in LotStatus
BY DEF TRANSITIONS, Row, LotStatus, NotScrapped

LEMMA Moves ==
  ASSUME TypeOK, NEW L, NEW action \in DOMAIN TRANSITIONS
  PROVE  /\ moveWithin(L, action) \in [Lots -> LotRow]
         /\ \A l \in Lots :
              IF l \in L /\ Movable(l, action)
              THEN /\ moveWithin(L, action)[l].status = TRANSITIONS[action].to
                   /\ moveWithin(L, action)[l].by = action
              ELSE moveWithin(L, action)[l] = lot[l]
<1> DEFINE new(l) == [lot[l] EXCEPT !.status = TRANSITIONS[action].to,
                            !.version = @ + 1, !.by = action]
<1>1. ASSUME NEW l \in Lots
      PROVE  new(l) \in LotRow /\ new(l).status = TRANSITIONS[action].to /\ new(l).by = action
  <2> DEFINE to == TRANSITIONS[action].to
             row == lot[l]
  <2>1. row \in LotRow /\ to \in LotStatus
    BY TransitionTo DEF TypeOK
  <2>2. action \in DOMAIN TRANSITIONS \cup {"born"}
    OBVIOUS
  <2> HIDE DEF to, row
  <2>3. row.version + 1 \in Nat
    BY <2>1 DEF LotRow
  <2> DEFINE a == [row EXCEPT !.status = to]
  <2>4. a \in LotRow /\ a.status = to /\ a.version = row.version
    BY <2>1 DEF LotRow, LotStatus
  <2> HIDE DEF a
  <2> DEFINE b == [a EXCEPT !.version = @ + 1]
  <2>5. b \in LotRow /\ b.status = to
    BY <2>3, <2>4 DEF LotRow
  <2> HIDE DEF b
  <2> DEFINE c == [b EXCEPT !.by = action]
  <2>6. c \in LotRow /\ c.status = to /\ c.by = action
    BY <2>2, <2>5 DEF LotRow
  <2>7. new(l) = c
    BY DEF a, b, row, to
  <2> QED
    BY <2>6, <2>7 DEF to
<1>2. \A l \in Lots : lot[l] \in LotRow
  BY DEF TypeOK
<1> HIDE DEF new
<1>3. moveWithin(L, action) = [l \in Lots |-> IF l \in L /\ Movable(l, action) THEN new(l) ELSE lot[l]]
  BY DEF moveWithin, Movable, new
<1> QED
  BY <1>1, <1>2, <1>3

(* Holds: what closing some of them leaves. *)
Stay(rows, out) ==
  /\ out \in Seq(HoldRow) /\ DOMAIN rows \subseteq DOMAIN out
  /\ \A i \in OpenIn(out) : out[i].qty = Full => i \in OpenIn(rows) /\ rows[i].qty = Full

LEMMA NewHold ==
  ASSUME NEW reason \in {InspectionWait, "OTHER"}, NEW qty \in 0 .. OnHand
  PROVE  /\ Hold(reason, qty) \in HoldRow
         /\ Hold(reason, qty).open /\ Hold(reason, qty).qty = qty
BY DEF Hold, HoldRow

LEMMA Closed ==
  ASSUME NEW rows \in Seq(HoldRow), NEW ids
  PROVE  LET closed == [i \in DOMAIN rows |->
                          IF i \in ids THEN [rows[i] EXCEPT !.open = FALSE] ELSE rows[i]]
         IN /\ closed \in Seq(HoldRow) /\ Len(closed) = Len(rows)
            /\ \A i \in DOMAIN rows : /\ closed[i].qty = rows[i].qty
                                      /\ closed[i].open <=> rows[i].open /\ i \notin ids
<1> DEFINE new(i) == IF i \in ids THEN [rows[i] EXCEPT !.open = FALSE] ELSE rows[i]
           closed == [i \in DOMAIN rows |-> new(i)]
<1>1. ASSUME NEW i \in DOMAIN rows
      PROVE  new(i) \in HoldRow /\ new(i).qty = rows[i].qty
             /\ (new(i).open <=> rows[i].open /\ i \notin ids)
  <2> DEFINE row == rows[i]
  <2>1. row \in HoldRow
    OBVIOUS
  <2> HIDE DEF row
  <2>2. /\ [row EXCEPT !.open = FALSE] \in HoldRow
        /\ [row EXCEPT !.open = FALSE].open = FALSE
        /\ [row EXCEPT !.open = FALSE].qty = row.qty
    BY <2>1 DEF HoldRow
  <2> QED
    BY <2>1, <2>2 DEF row
<1> HIDE DEF new
<1>2. DOMAIN rows = 1 .. Len(rows) /\ Len(rows) \in Nat
  OBVIOUS
<1>3. closed \in Seq(HoldRow) /\ Len(closed) = Len(rows)
  BY <1>1, <1>2
<1>4. \A i \in DOMAIN rows : closed[i] = new(i)
  OBVIOUS
<1> QED
  BY <1>1, <1>3, <1>4 DEF new

LEMMA ReleaseAll ==
  ASSUME NEW rows \in Seq(HoldRow), NEW ids \in SUBSET DOMAIN rows
  PROVE  /\ Stay(rows, releaseWithin(rows, ids, Full))
         /\ OpenIn(releaseWithin(rows, ids, Full)) \subseteq OpenIn(rows)
<1> DEFINE closed == [i \in DOMAIN rows |->
                          IF i \in ids THEN [rows[i] EXCEPT !.open = FALSE] ELSE rows[i]]
<1>1. /\ closed \in Seq(HoldRow) /\ Len(closed) = Len(rows)
      /\ \A i \in DOMAIN rows : closed[i].qty = rows[i].qty
                                /\ (closed[i].open <=> rows[i].open /\ i \notin ids)
  BY Closed
<1>2. \A qty : remainderQty(qty, Full) = <<>>
  BY DEF remainderQty
<1> DEFINE none == [k \in 1 .. 0 |-> Hold(rows[CHOOSE j \in ids : TRUE].reason, <<>>[k])]
<1>3. releaseWithin(rows, ids, Full) = closed \o (IF Cardinality(ids) # 1 THEN <<>> ELSE none)
  BY <1>2 DEF releaseWithin
<1>4. none = <<>>
  OBVIOUS
<1> HIDE DEF closed, none
<1>5. releaseWithin(rows, ids, Full) = closed
  BY <1>1, <1>3, <1>4, ConcatEmptySeq
<1>6. DOMAIN closed = DOMAIN rows
  BY <1>1
<1> QED
  BY <1>1, <1>5, <1>6 DEF Stay, OpenIn

LEMMA ReleaseOne ==
  ASSUME NEW rows \in Seq(HoldRow), NEW i \in OpenIn(rows), NEW qty \in 0 .. OnHand
  PROVE  Stay(rows, releaseWithin(rows, {i}, qty))
<1> DEFINE closed == [j \in DOMAIN rows |->
                          IF j \in {i} THEN [rows[j] EXCEPT !.open = FALSE] ELSE rows[j]]
           rest == remainderQty(rows[i].qty, qty)
           added == [k \in DOMAIN rest |-> Hold(rows[i].reason, rest[k])]
<1>1. /\ closed \in Seq(HoldRow) /\ Len(closed) = Len(rows)
      /\ \A j \in DOMAIN rows : closed[j].qty = rows[j].qty
                                /\ (closed[j].open <=> rows[j].open /\ j \notin {i})
  BY Closed
<1>2. Cardinality({i}) = 1 /\ (CHOOSE j \in {i} : TRUE) = i
  BY FS_Singleton
<1>3. releaseWithin(rows, {i}, qty) = closed \o added
  BY <1>2 DEF releaseWithin
<1>4. i \in DOMAIN rows /\ rows[i] \in HoldRow
  BY DEF OpenIn
<1>5. /\ rest \in Seq(1 .. OnHand)
  <2>1. rows[i].qty \in 0 .. OnHand
    BY <1>4 DEF HoldRow
  <2>2. OnHand \in Nat
    BY LotQualityAssumption
  <2>3. CASE rows[i].qty = Full \/ qty = Full \/ rows[i].qty <= qty
    <3>1. rest = <<>>
      BY <2>3 DEF remainderQty
    <3> QED
      BY <3>1
  <2>4. CASE ~ (rows[i].qty = Full \/ qty = Full \/ rows[i].qty <= qty)
    <3>1. rest = <<rows[i].qty - qty>>
      BY <2>4 DEF remainderQty
    <3>2. rows[i].qty - qty \in 1 .. OnHand
      BY <2>1, <2>2, <2>4 DEF Full
    <3> QED
      BY <3>1, <3>2
  <2> QED
    BY <2>3, <2>4
<1> HIDE DEF rest
<1>6. rows[i].reason \in {InspectionWait, "OTHER"} /\ OnHand \in Nat
  BY <1>4, LotQualityAssumption DEF HoldRow
<1>7. ASSUME NEW k \in DOMAIN rest
      PROVE  added[k] \in HoldRow /\ added[k].qty # Full
  <2> DEFINE S == 1 .. OnHand
  <2> HIDE DEF S
  <2>0. ASSUME NEW s \in Seq(S), NEW n \in DOMAIN s PROVE s[n] \in S
    OBVIOUS
  <2>1. rest[k] \in 1 .. OnHand
    BY <1>5, <2>0 DEF S
  <2>2. rest[k] \in 0 .. OnHand /\ rest[k] # Full
    BY <2>1, <1>6 DEF Full
  <2>3. added[k] = Hold(rows[i].reason, rest[k])
    OBVIOUS
  <2> QED
    BY <1>6, <2>2, <2>3, NewHold
<1>8. added \in Seq(HoldRow) /\ Len(added) = Len(rest) /\ DOMAIN added = DOMAIN rest
  <2>1. DOMAIN rest = 1 .. Len(rest) /\ Len(rest) \in Nat
    BY <1>5
  <2> QED
    BY <1>7, <2>1
<1> HIDE DEF closed, added
<1> DEFINE out == closed \o added
<1>9. /\ out \in Seq(HoldRow) /\ Len(out) = Len(closed) + Len(added)
      /\ \A j \in 1 .. Len(closed) + Len(added) :
           out[j] = IF j <= Len(closed) THEN closed[j] ELSE added[j - Len(closed)]
  BY <1>1, <1>8, ConcatProperties
<1> HIDE DEF out
<1>10. DOMAIN rows = 1 .. Len(rows) /\ DOMAIN out = 1 .. Len(out) /\ DOMAIN added = 1 .. Len(added)
       /\ Len(rows) \in Nat /\ Len(added) \in Nat
  BY <1>8, <1>9
<1>11. DOMAIN rows \subseteq DOMAIN out
  BY <1>1, <1>9, <1>10
<1>12. ASSUME NEW j \in OpenIn(out), out[j].qty = Full
       PROVE  j \in OpenIn(rows) /\ rows[j].qty = Full
  <2>1. j \in 1 .. Len(closed) + Len(added) /\ out[j].open
    BY <1>9, <1>10 DEF OpenIn
  <2>2. CASE j <= Len(closed)
    <3>1. out[j] = closed[j] /\ j \in DOMAIN rows
      BY <1>1, <1>9, <1>10, <2>1, <2>2
    <3> QED
      BY <1>1, <1>12, <2>1, <3>1 DEF OpenIn
  <2>3. CASE ~ (j <= Len(closed))
    <3>1. out[j] = added[j - Len(closed)] /\ j - Len(closed) \in DOMAIN rest
      BY <1>1, <1>8, <1>9, <1>10, <2>1, <2>3
    <3> QED
      BY <1>7, <1>12, <3>1
  <2> QED
    BY <2>2, <2>3
<1>13. Stay(rows, out)
  BY <1>9, <1>11, <1>12 DEF Stay
<1> QED
  BY <1>3, <1>13 DEF out
-----------------------------------------------------------------------------
(* What a commit may do to the lots: those it has not locked it leaves     *)
(* alone, and the others fit their holds afterwards.                       *)
Effect(t) ==
  /\ lot' \in [Lots -> LotRow] /\ hold' \in [Lots -> Seq(HoldRow)]
  /\ request' \in [Requests -> RequestRow] /\ concession' \in [InboundLots -> ConcessionRow]
  /\ \A l \in Lots :
       \/ lot'[l] = lot[l] /\ hold'[l] = hold[l]
       \/ lock[l] = t /\ DOMAIN hold[l] \subseteq DOMAIN hold'[l] /\ LotFits(l)'
  /\ \A l \in InboundLots : lock[l] = t \/ request'[IQC(l)] = request[IQC(l)]

(* What it may do to the nonconformances: open one where none is open, or  *)
(* decide about the one that is open.                                      *)
NcEffect(t) ==
  \A l \in InboundLots :
    \/ nc'[l] = nc[l]
    \/ /\ lock[l] = t /\ noOpenNonconformance(l)
       /\ \E row \in NcRow : /\ row.status # "DECIDED" /\ row.decided = 0
                             /\ nc'[l] = Append(nc[l], row)
    \/ /\ HasNc(l) /\ ~isDecided(l) /\ lock[Nonconformance(l)] \in {t, NoSession}
       /\ \E row \in NcRow :
            /\ row.version = Latest(l).version + 1 /\ row.decided <= Affected
            /\ row.status = "DECIDED" <=> row.decided = Affected
            /\ nc'[l] = [nc[l] EXCEPT ![Len(nc[l])] = row]

NcTyped == nc' \in [InboundLots -> Seq(NcRow)]

LEMMA Types ==
  ASSUME IInv
  PROVE  /\ lot \in [Lots -> LotRow] /\ hold \in [Lots -> Seq(HoldRow)]
         /\ request \in [Requests -> RequestRow] /\ concession \in [InboundLots -> ConcessionRow]
         /\ nc \in [InboundLots -> Seq(NcRow)] /\ world \in Worlds
BY DEF IInv, TypeOK, RequestRow, ConcessionRow

(* At its commit a transaction has all its stages behind it. *)
LEMMA AllPast ==
  ASSUME IInv, NEW t \in Sessions, Done(t)
  PROVE  /\ tx[t].op.kind \in {"holdCreate", "holdRelease", "confirm", "iqcSkip", "pqcSkip", "oqcSkip",
                               "report", "register", "dispose", "apply"} => Past(t, "lots")
         /\ tx[t].op.kind \in {"pqcSkip", "oqcSkip", "report", "dispose", "concede", "apply"} =>
              Past(t, "head")
<1> DEFINE kind == tx[t].op.kind
           stage == tx[t].stage
<1>1. kind \in DOMAIN Plan /\ stage \in Nat /\ stage > Len(Plan[kind])
  BY DEF IInv, Calm, Framed, OpOK, Done
<1>2. Plan[kind] \in Seq({"head", "lots", "requests"})
  BY <1>1, PlanStages
<1>3. \A k \in DOMAIN Plan[kind] : k < stage
  BY <1>1, <1>2
<1>4. kind \in {"holdCreate", "holdRelease", "confirm", "iqcSkip", "pqcSkip", "oqcSkip",
                "report", "register", "dispose", "apply"} =>
        \E k \in DOMAIN Plan[kind] : Plan[kind][k] = "lots"
  <2> HIDE DEF kind
  <2>1. /\ Plan["holdCreate"][1] = "lots" /\ 1 \in DOMAIN Plan["holdCreate"]
        /\ Plan["holdRelease"][1] = "lots" /\ 1 \in DOMAIN Plan["holdRelease"]
        /\ Plan["confirm"][2] = "lots" /\ 2 \in DOMAIN Plan["confirm"]
        /\ Plan["iqcSkip"][1] = "lots" /\ 1 \in DOMAIN Plan["iqcSkip"]
        /\ Plan["pqcSkip"][3] = "lots" /\ 3 \in DOMAIN Plan["pqcSkip"]
        /\ Plan["oqcSkip"][3] = "lots" /\ 3 \in DOMAIN Plan["oqcSkip"]
        /\ Plan["report"][2] = "lots" /\ 2 \in DOMAIN Plan["report"]
        /\ Plan["register"][1] = "lots" /\ 1 \in DOMAIN Plan["register"]
        /\ Plan["dispose"][2] = "lots" /\ 2 \in DOMAIN Plan["dispose"]
        /\ Plan["apply"][2] = "lots" /\ 2 \in DOMAIN Plan["apply"]
    BY DEF Plan
  <2> QED
    BY <2>1
<1>5. kind \in {"pqcSkip", "oqcSkip", "report", "dispose", "concede", "apply"} =>
        \E k \in DOMAIN Plan[kind] : Plan[kind][k] = "head"
  <2> HIDE DEF kind
  <2>1. /\ Plan["pqcSkip"][1] = "head" /\ 1 \in DOMAIN Plan["pqcSkip"]
        /\ Plan["oqcSkip"][1] = "head" /\ 1 \in DOMAIN Plan["oqcSkip"]
        /\ Plan["report"][1] = "head" /\ 1 \in DOMAIN Plan["report"]
        /\ Plan["dispose"][1] = "head" /\ 1 \in DOMAIN Plan["dispose"]
        /\ Plan["concede"][1] = "head" /\ 1 \in DOMAIN Plan["concede"]
        /\ Plan["apply"][1] = "head" /\ 1 \in DOMAIN Plan["apply"]
    BY DEF Plan
  <2> QED
    BY <2>1
<1> QED
  BY <1>3, <1>4, <1>5 DEF Past

(* The lots of a commit are locked, and their holds are as they were read. *)
LEMMA Locked ==
  ASSUME IInv, NEW t \in Sessions, Done(t),
         tx[t].op.kind \in {"holdCreate", "holdRelease", "confirm", "iqcSkip", "pqcSkip", "oqcSkip",
                            "report", "register", "dispose", "apply"}
  PROVE  /\ tx[t].lots \subseteq Lots
         /\ \A l \in tx[t].lots : lock[l] = t /\ tx[t].seen[l].holds = hold[l]
<1>1. Past(t, "lots")
  BY AllPast
<1>2. Held(t) /\ Framed(t)
  BY DEF IInv, Calm
<1> QED
  BY <1>1, <1>2 DEF Held, Framed

(* A call on a lot of its own. *)
LEMMA OwnLot ==
  ASSUME IInv, NEW t \in Sessions, Done(t), OwnLots(t), OneLot(tx[t].op, Lots)
  PROVE  LET l == Of(tx[t].op) IN
         /\ l \in Lots /\ tx[t].lots = {l} /\ tx[t].op.lots = {l}
         /\ lock[l] = t /\ tx[t].seen[l].holds = hold[l]
<1>1. tx[t].lots = tx[t].op.lots
  BY DEF IInv, Calm, Framed
<1>2. Of(tx[t].op) \in Lots /\ tx[t].op.lots = {Of(tx[t].op)}
  BY OfOne
<1>3. \A l \in tx[t].lots : lock[l] = t /\ tx[t].seen[l].holds = hold[l]
  BY Locked DEF OwnLots
<1> QED
  BY <1>1, <1>2, <1>3

LEMMA InboundIsLot ==
  ASSUME NEW op, OneLot(op, InboundLots)
  PROVE  OneLot(op, Lots) /\ Of(op) \in InboundLots
BY OfOne DEF OneLot, Lots

LEMMA StaySame ==
  ASSUME NEW rows \in Seq(HoldRow)
  PROVE  Stay(rows, rows)
BY DEF Stay

(* A lot whose holds have only been closed fits them, if its status does. *)
LEMMA Fits ==
  ASSUME IInv, NEW l \in Lots, Stay(hold[l], hold'[l]),
         lot'[l].status = "NORMAL" /\ ~ Uncounted(l)' => OpenIn(hold'[l]) = {},
         lot'[l].by = "suspect" /\ lot'[l].status = "INSPECTION_PENDING" => OpenIn(hold'[l]) # {}
  PROVE  LotFits(l)' /\ DOMAIN hold[l] \subseteq DOMAIN hold'[l]
<1>1. LotFits(l)
  BY DEF IInv, LotsFit
<1>2. OneFull(l)'
  BY <1>1 DEF LotFits, OneFull, Stay
<1> QED
  BY <1>2 DEF LotFits, Stay

LEMMA EffectLotHoldCreate ==
  ASSUME IInv, NEW t \in Sessions, LotHoldCreate(t)
  PROVE  Effect(t) /\ nc' = nc
<1> DEFINE op == tx[t].op
           h == Hold(op.reason, op.qty)
<1>1. Done(t) /\ op.kind = "holdCreate" /\ nc' = nc /\ request' = request /\ concession' = concession
  BY DEF LotHoldCreate, Does
<1>2. /\ op.lots \subseteq Lots /\ op.action \in {"suspect", "claim"}
      /\ h \in HoldRow /\ h.open /\ h.qty = op.qty
  <2>1. OpOK(op)
    BY DEF IInv, Calm, Framed
  <2> QED
    BY <1>1, <2>1, NewHold DEF OpOK
<1>3. \A l \in op.lots : lock[l] = t
  <2>1. tx[t].lots = op.lots
    BY <1>1 DEF IInv, Calm, Framed, OwnLots
  <2> QED
    BY <1>1, <2>1, Locked
<1>4. hold' = [l \in Lots |-> IF l \in op.lots THEN Append(hold[l], h) ELSE hold[l]]
  BY DEF LotHoldCreate
<1>5. ASSUME NEW l \in op.lots
      PROVE  /\ lot'[l].status # "NORMAL"
  <2>1. op.action \in DOMAIN TRANSITIONS /\ TRANSITIONS[op.action].to # "NORMAL"
    BY <1>2 DEF TRANSITIONS, Row
  <2>2. Movable(l, op.action) /\ lot' = moveWithin(op.lots, op.action)
    BY DEF LotHoldCreate
  <2> QED
    BY <1>2, <2>1, <2>2, Moves DEF IInv
<1>6. ASSUME NEW l \in op.lots
      PROVE  LotFits(l)' /\ DOMAIN hold[l] \subseteq DOMAIN hold'[l]
  <2> DEFINE rows == hold[l]
             out == hold'[l]
  <2>1. \A i \in OpenIn(rows) : rows[i].qty # Full
    <3>1. Past(t, "lots") /\ Stands(t)
      BY <1>1, AllPast DEF IInv, Calm
    <3> QED
      BY <1>1, <3>1 DEF Stands
  <2>2. rows \in Seq(HoldRow) /\ out = Append(rows, h)
    BY <1>2, <1>4, Types
  <2> HIDE DEF rows, out, h
  <2>3. /\ out \in Seq(HoldRow) /\ Len(out) = Len(rows) + 1 /\ out[Len(rows) + 1] = h
        /\ \A i \in 1 .. Len(rows) : out[i] = rows[i]
    BY <1>2, <2>2, AppendProperties
  <2>4. DOMAIN rows = 1 .. Len(rows) /\ DOMAIN out = 1 .. Len(rows) + 1 /\ Len(rows) \in Nat
    BY <2>2, <2>3
  <2>5. Len(rows) + 1 \in OpenIn(out)
    BY <1>2, <2>3, <2>4 DEF OpenIn
  <2>6. \A i \in OpenIn(out) : out[i].qty = Full => i = Len(rows) + 1
    BY <2>1, <2>3, <2>4 DEF OpenIn
  <2>7. OneFull(l)'
    BY <2>6 DEF OneFull, out
  <2> QED
    BY <1>5, <2>4, <2>5, <2>7 DEF LotFits, rows, out
<1>7. lot' \in [Lots -> LotRow] /\ \A l \in Lots \ op.lots : lot'[l] = lot[l]
  <2>1. op.action \in DOMAIN TRANSITIONS /\ lot' = moveWithin(op.lots, op.action)
    BY <1>2 DEF TRANSITIONS, LotHoldCreate
  <2> QED
    BY <2>1, Moves DEF IInv
<1>8. hold' \in [Lots -> Seq(HoldRow)] /\ \A l \in Lots \ op.lots : hold'[l] = hold[l]
  <2>1. \A l \in Lots : Append(hold[l], h) \in Seq(HoldRow) /\ hold[l] \in Seq(HoldRow)
    BY <1>2, Types, AppendProperties
  <2> QED
    BY <1>4, <2>1
<1> QED
  BY <1>1, <1>3, <1>6, <1>7, <1>8, Types DEF Effect

LEMMA EffectLotHoldRelease ==
  ASSUME IInv, NEW t \in Sessions, LotHoldRelease(t)
  PROVE  Effect(t) /\ nc' = nc
<1> DEFINE op == tx[t].op
<1>1. Done(t) /\ op.kind = "holdRelease" /\ nc' = nc /\ request' = request /\ concession' = concession
  BY DEF LotHoldRelease, Does
<1>2. OneLot(op, Lots) /\ op.action \in {"releaseAccepted", "releaseRejected"} /\ op.qty \in 0 .. OnHand
  <2>1. OpOK(op)
    BY DEF IInv, Calm, Framed
  <2> QED
    BY <1>1, <2>1 DEF OpOK
<1>3. PICK l \in Lots : l = Of(op) /\ lock[l] = t /\ tx[t].seen[l].holds = hold[l]
  BY <1>1, <1>2, OwnLot DEF OwnLots
<1> DEFINE out == releaseWithin(hold[l], {op.hold}, op.qty)
           free == OpenIn(out) = {}
<1>4. op.hold \in OpenIn(hold[l]) /\ hold[l] \in Seq(HoldRow)
  <2>1. Past(t, "lots") /\ Stands(t)
    BY <1>1, AllPast DEF IInv, Calm
  <2> QED
    BY <1>1, <1>3, <2>1, Types DEF Stands, OpenIn
<1>5. Stay(hold[l], out)
  BY <1>2, <1>4, ReleaseOne
<1>6. /\ hold' = [hold EXCEPT ![l] = out]
      /\ lot' = moveWithin(IF free THEN {l} ELSE {}, op.action)
      /\ free => Movable(l, op.action)
  BY <1>3 DEF LotHoldRelease, Close, openAfter
<1>7. op.action \in DOMAIN TRANSITIONS /\ TRANSITIONS[op.action].to # "INSPECTION_PENDING"
  BY <1>2 DEF TRANSITIONS, Row
<1> HIDE DEF out
<1>8. hold' \in [Lots -> Seq(HoldRow)] /\ hold'[l] = out /\ \A k \in Lots \ {l} : hold'[k] = hold[k]
  BY <1>3, <1>5, <1>6, Types DEF Stay
<1>9. /\ lot' \in [Lots -> LotRow]
      /\ \A k \in Lots \ {l} : lot'[k] = lot[k]
      /\ free => lot'[l].status # "INSPECTION_PENDING"
      /\ ~free => lot'[l] = lot[l]
  <2> DEFINE L == IF free THEN {l} ELSE {}
  <2>1. /\ moveWithin(L, op.action) \in [Lots -> LotRow]
        /\ \A k \in Lots :
              IF k \in L /\ Movable(k, op.action)
              THEN moveWithin(L, op.action)[k].status = TRANSITIONS[op.action].to
              ELSE moveWithin(L, op.action)[k] = lot[k]
    BY <1>7, Moves DEF IInv
  <2> QED
    BY <1>3, <1>6, <1>7, <2>1
<1>10. ~free => (lot[l].status = "NORMAL" => Uncounted(l))
  <2>1. LotFits(l)
    BY <1>3 DEF IInv, LotsFit
  <2> QED
    BY <1>4, <2>1 DEF LotFits
<1>11. LotFits(l)' /\ DOMAIN hold[l] \subseteq DOMAIN hold'[l]
  <2>1. ~free => (lot'[l].status = "NORMAL" => Uncounted(l)')
    BY <1>9, <1>10 DEF Uncounted
  <2> QED
    BY <1>3, <1>5, <1>8, <1>9, <2>1, Fits
<1> QED
  BY <1>1, <1>3, <1>8, <1>9, <1>11, Types DEF Effect

LEMMA MovedLots ==
  ASSUME IInv, NEW L, NEW action \in DOMAIN TRANSITIONS, lot' = moveWithin(L, action)
  PROVE  /\ lot' \in [Lots -> LotRow]
         /\ \A l \in Lots :
              IF l \in L /\ Movable(l, action)
              THEN lot'[l].status = TRANSITIONS[action].to /\ lot'[l].by = action
              ELSE lot'[l] = lot[l]
BY Moves DEF IInv

LEMMA ClosedHolds ==
  ASSUME IInv, NEW l \in Lots, NEW ids \in SUBSET DOMAIN hold[l], hold' = Close(l, ids, Full)
  PROVE  /\ hold' \in [Lots -> Seq(HoldRow)] /\ \A k \in Lots \ {l} : hold'[k] = hold[k]
         /\ hold'[l] = releaseWithin(hold[l], ids, Full)
         /\ Stay(hold[l], hold'[l]) /\ OpenIn(hold'[l]) \subseteq OpenIn(hold[l])
<1> DEFINE out == releaseWithin(hold[l], ids, Full)
<1>1. hold[l] \in Seq(HoldRow) /\ hold \in [Lots -> Seq(HoldRow)]
  BY Types
<1>2. Stay(hold[l], out) /\ OpenIn(out) \subseteq OpenIn(hold[l])
  BY <1>1, ReleaseAll
<1>3. hold' = [hold EXCEPT ![l] = out]
  BY DEF Close
<1> HIDE DEF out
<1>4. hold' \in [Lots -> Seq(HoldRow)] /\ hold'[l] = out /\ \A k \in Lots \ {l} : hold'[k] = hold[k]
  BY <1>1, <1>2, <1>3 DEF Stay
<1> QED
  BY <1>2, <1>4 DEF out

LEMMA WaitingThere ==
  ASSUME NEW rows
  PROVE  WaitingIn(rows) \in SUBSET DOMAIN rows
BY DEF WaitingIn, OpenIn

LEMMA RequestCompleted ==
  ASSUME IInv, NEW q \in Requests, NEW judgment \in Judgments, request' = Completed(q, judgment)
  PROVE  request' \in [Requests -> RequestRow] /\ \A p \in Requests \ {q} : request'[p] = request[p]
<1> DEFINE row == [status |-> "COMPLETED", result |-> "CONFIRMED", judgment |-> judgment]
<1>1. row \in RequestRow
  BY DEF RequestRow
<1>2. request' = [request EXCEPT ![q] = row]
  BY DEF Completed
<1> HIDE DEF row
<1> QED
  BY <1>1, <1>2, Types

LEMMA RequestSkipped ==
  ASSUME IInv, NEW q \in Requests, request' = Skipped(q)
  PROVE  request' \in [Requests -> RequestRow] /\ \A p \in Requests \ {q} : request'[p] = request[p]
<1> DEFINE old == request[q]
           row == [old EXCEPT !.status = "SKIPPED"]
<1>1. old \in RequestRow /\ request \in [Requests -> RequestRow]
  BY Types
<1>2. request' = [request EXCEPT ![q] = row] \/ request' = request
  BY DEF Skipped
<1> HIDE DEF old
<1>3. row \in RequestRow
  BY <1>1 DEF RequestRow
<1> HIDE DEF row
<1> QED
  BY <1>1, <1>2, <1>3

LEMMA RequestSets ==
  /\ \A l \in InboundLots : IQC(l) \in Requests
  /\ PQC \in Requests /\ OQC \in Requests
  /\ \A l \in InboundLots : l \in Lots
BY DEF Requests, Lots

LEMMA NcAppended ==
  ASSUME IInv, NEW t, NEW l \in InboundLots, NEW row \in NcRow, row.status # "DECIDED", row.decided = 0,
         lock[l] = t, noOpenNonconformance(l), nc' = [nc EXCEPT ![l] = Append(nc[l], row)]
  PROVE  NcEffect(t) /\ NcTyped
<1>1. nc \in [InboundLots -> Seq(NcRow)] /\ nc[l] \in Seq(NcRow)
  BY Types
<1>2. Append(nc[l], row) \in Seq(NcRow)
  BY <1>1, AppendProperties
<1>3. NcTyped /\ nc'[l] = Append(nc[l], row) /\ \A k \in InboundLots \ {l} : nc'[k] = nc[k]
  BY <1>1, <1>2 DEF NcTyped
<1> QED
  BY <1>3 DEF NcEffect

LEMMA NcDecided ==
  ASSUME IInv, NEW t, NEW l \in InboundLots, NEW row \in NcRow, HasNc(l), ~ isDecided(l),
         lock[Nonconformance(l)] \in {t, NoSession},
         row.version = Latest(l).version + 1, row.decided <= Affected,
         row.status = "DECIDED" <=> row.decided = Affected,
         nc' = [nc EXCEPT ![l][Len(nc[l])] = row]
  PROVE  NcEffect(t) /\ NcTyped
<1> DEFINE out == [nc[l] EXCEPT ![Len(nc[l])] = row]
<1>1. nc \in [InboundLots -> Seq(NcRow)] /\ nc[l] \in Seq(NcRow)
  BY Types
<1>2. out \in Seq(NcRow)
  <2>1. nc[l] # <<>>
    BY DEF HasNc
  <2>2. Len(nc[l]) \in 1 .. Len(nc[l])
    BY <1>1, <2>1
  <2> QED
    BY <1>1, <2>2, ExceptSeq
<1>3. nc' = [nc EXCEPT ![l] = out]
  BY <1>1, Zenon
<1>4. NcTyped /\ nc'[l] = out /\ \A k \in InboundLots \ {l} : nc'[k] = nc[k]
  <2> HIDE DEF out
  <2> QED
    BY <1>1, <1>2, <1>3 DEF NcTyped
<1> QED
  BY <1>4 DEF NcEffect

LEMMA NcSame ==
  ASSUME IInv, NEW t, nc' = nc
  PROVE  NcEffect(t) /\ NcTyped
BY Types DEF NcEffect, NcTyped

LEMMA NcNew ==
  ASSUME NEW status \in {"NOT_REQUESTED", "PENDING_DECISION"}, NEW fromIqc \in BOOLEAN
  PROVE  /\ NewNc(status, fromIqc) \in NcRow
         /\ NewNc(status, fromIqc).status = status /\ NewNc(status, fromIqc).decided = 0
BY DEF NewNc, NcRow

LEMMA LatestTyped ==
  ASSUME IInv, NEW l \in InboundLots, HasNc(l)
  PROVE  /\ Len(nc[l]) \in DOMAIN nc[l] /\ Len(nc[l]) \in Nat \ {0} /\ Latest(l) \in NcRow
         /\ Latest(l).decided <= Affected
         /\ Latest(l).status = "DECIDED" <=> Latest(l).decided = Affected
<1>1. nc[l] \in Seq(NcRow) /\ nc[l] # <<>>
  BY Types DEF HasNc
<1>2. Len(nc[l]) \in DOMAIN nc[l] /\ Len(nc[l]) \in Nat \ {0}
  BY <1>1
<1>3. nc[l][Len(nc[l])] \in NcRow
  BY <1>1, <1>2
<1>4. NcFits(l)
  BY DEF IInv, NcsFit
<1> QED
  BY <1>2, <1>3, <1>4 DEF Latest, NcFits

LEMMA EffectConfirmIqc ==
  ASSUME IInv, NEW t \in Sessions, ConfirmIqc(t)
  PROVE  Effect(t) /\ NcEffect(t) /\ NcTyped
<1> DEFINE op == tx[t].op
           judged == op.judgment
           action == [ACCEPTED |-> "accepted", HELD |-> "held", REJECTED |-> "rejected"][op.judgment]
<1>1. Done(t) /\ op.kind = "confirm" /\ op.type = "IQC" /\ concession' = concession
  BY DEF ConfirmIqc
<1>2. OneLot(op, InboundLots) /\ judged \in {"ACCEPTED", "HELD", "REJECTED"}
  <2>1. OpOK(op)
    BY DEF IInv, Calm, Framed
  <2> QED
    BY <1>1, <2>1 DEF OpOK, Judgments
<1>3. PICK l \in InboundLots : /\ l = Of(op) /\ l \in Lots /\ lock[l] = t /\ op.lots = {l}
                               /\ tx[t].seen[l].holds = hold[l]
  BY <1>1, <1>2, InboundIsLot, OwnLot DEF OwnLots
<1> DEFINE ids == WaitingIn(hold[l])
           out == releaseWithin(hold[l], ids, Full)
           free == OpenIn(out) = {}
           moves == judged = "ACCEPTED" => free
<1>4. /\ moves => Movable(l, action)
      /\ hold' = IF judged = "ACCEPTED" THEN Close(l, ids, Full) ELSE hold
      /\ lot' = moveWithin(IF moves THEN {l} ELSE {}, action)
      /\ request' = Completed(RequestOf(op), judged)
      /\ nc' = IF judged = "REJECTED" /\ noOpenNonconformance(l)
               THEN [nc EXCEPT ![l] = Append(nc[l], NewNc("PENDING_DECISION", TRUE))] ELSE nc
  BY <1>3 DEF ConfirmIqc, openAfter
<1>5. /\ action \in DOMAIN TRANSITIONS /\ action # "suspect"
      /\ judged # "ACCEPTED" => TRANSITIONS[action].to # "NORMAL"
      /\ judged = "ACCEPTED" => TRANSITIONS[action].to # "INSPECTION_PENDING"
  BY <1>2 DEF TRANSITIONS, Row
<1> HIDE DEF action
<1>6. NcEffect(t) /\ NcTyped
  <2> DEFINE row == NewNc("PENDING_DECISION", TRUE)
  <2>1. row \in NcRow /\ row.status # "DECIDED" /\ row.decided = 0
    BY NcNew
  <2> HIDE DEF row
  <2>2. CASE judged = "REJECTED" /\ noOpenNonconformance(l)
    <3>1. nc' = [nc EXCEPT ![l] = Append(nc[l], row)]
      BY <1>4, <2>2 DEF row
    <3> QED
      BY <1>3, <2>1, <2>2, <3>1, NcAppended
  <2>3. CASE ~ (judged = "REJECTED" /\ noOpenNonconformance(l))
    BY <1>4, <2>3, NcSame
  <2> QED
    BY <2>2, <2>3
<1>7. /\ request' \in [Requests -> RequestRow]
      /\ \A k \in InboundLots \ {l} : request'[IQC(k)] = request[IQC(k)]
  <2>1. RequestOf(op) = IQC(l)
    BY <1>1, <1>3 DEF RequestOf, IQC
  <2>2. judged \in Judgments /\ IQC(l) \in Requests
    BY <1>2, RequestSets DEF Judgments
  <2>3. request' \in [Requests -> RequestRow] /\ \A p \in Requests \ {IQC(l)} : request'[p] = request[p]
    BY <1>4, <2>1, <2>2, RequestCompleted
  <2> QED
    BY <2>3, IqcOf, RequestSets
<1>8. /\ hold' \in [Lots -> Seq(HoldRow)] /\ \A k \in Lots \ {l} : hold'[k] = hold[k]
      /\ judged = "ACCEPTED" => hold'[l] = out
      /\ Stay(hold[l], hold'[l]) /\ OpenIn(hold'[l]) \subseteq OpenIn(hold[l])
  <2>1. CASE judged = "ACCEPTED"
    BY <1>3, <1>4, <2>1, WaitingThere, ClosedHolds
  <2>2. CASE judged # "ACCEPTED"
    BY <1>3, <1>4, <2>2, StaySame, Types
  <2> QED
    BY <2>1, <2>2
<1> HIDE DEF out, judged
<1>9. /\ lot' \in [Lots -> LotRow]
      /\ \A k \in Lots \ {l} : lot'[k] = lot[k]
      /\ moves => lot'[l].status = TRANSITIONS[action].to /\ lot'[l].by = action
      /\ ~moves => lot'[l] = lot[l]
  <2> DEFINE L == IF moves THEN {l} ELSE {}
  <2>1. L \in SUBSET {l} /\ (moves => l \in L) /\ (~moves => L = {})
    OBVIOUS
  <2>2. lot' = moveWithin(L, action)
    BY <1>4
  <2> HIDE DEF L
  <2> QED
    BY <1>3, <1>4, <1>5, <2>1, <2>2, MovedLots
<1>10. LotFits(l)
  BY <1>3 DEF IInv, LotsFit
<1>11. LotFits(l)' /\ DOMAIN hold[l] \subseteq DOMAIN hold'[l]
  <2>1. CASE judged = "ACCEPTED" /\ free
    <3>1. OpenIn(hold'[l]) = {} /\ lot'[l].status # "INSPECTION_PENDING"
      BY <1>5, <1>8, <1>9, <2>1
    <3> QED
      BY <1>3, <1>8, <3>1, Fits
  <2>2. CASE judged = "ACCEPTED" /\ ~ free
    <3>1. lot'[l] = lot[l] /\ OpenIn(hold'[l]) # {} /\ OpenIn(hold[l]) # {}
      BY <1>8, <1>9, <2>2
    <3>2. lot'[l].status = "NORMAL" => Uncounted(l)'
      BY <1>10, <3>1 DEF LotFits, Uncounted
    <3> QED
      BY <1>3, <1>8, <3>1, <3>2, Fits
  <2>3. CASE judged # "ACCEPTED"
    <3>1. lot'[l].status # "NORMAL" /\ lot'[l].by # "suspect"
      BY <1>5, <1>9, <2>3
    <3> QED
      BY <1>3, <1>8, <3>1, Fits
  <2> QED
    BY <2>1, <2>2, <2>3
<1>12. Effect(t)
  BY <1>1, <1>3, <1>7, <1>8, <1>9, <1>11, Types DEF Effect
<1> QED
  BY <1>6, <1>12

(* Lots that are moved while their holds stay. *)
LEMMA OnlyMoved ==
  ASSUME IInv, NEW t \in Sessions, NEW L \in SUBSET Lots, \A l \in L : lock[l] = t,
         NEW action \in DOMAIN TRANSITIONS, action # "suspect",
         lot' = moveWithin(L, action), hold' = hold, concession' = concession,
         request' \in [Requests -> RequestRow],
         \A l \in InboundLots : request'[IQC(l)] = request[IQC(l)],
         \A l \in L : \/ TRANSITIONS[action].to # "NORMAL" \/ OpenIn(hold[l]) = {}
                      \/ l \in PickedLots /\ action \in {"accepted", "oqcSkipped"}
  PROVE  Effect(t)
<1>1. /\ lot' \in [Lots -> LotRow]
      /\ \A l \in Lots :
              IF l \in L /\ Movable(l, action)
              THEN lot'[l].status = TRANSITIONS[action].to /\ lot'[l].by = action
              ELSE lot'[l] = lot[l]
  BY MovedLots
<1>2. ASSUME NEW l \in L, Movable(l, action)
      PROVE  LotFits(l)'
  <2>1. lot'[l].status = TRANSITIONS[action].to /\ lot'[l].by = action
    BY <1>1, <1>2
  <2>2. lot'[l].status = "NORMAL" /\ ~ Uncounted(l)' => OpenIn(hold'[l]) = {}
    BY <2>1 DEF Uncounted
  <2>3. Stay(hold[l], hold'[l])
    BY StaySame, Types
  <2> QED
    BY <2>1, <2>2, <2>3, Fits
<1> QED
  BY <1>1, <1>2, Types DEF Effect

LEMMA FreeLots ==
  ASSUME IInv, NEW t \in Sessions, Done(t), tx[t].op.kind \in {"confirm", "pqcSkip", "report"}
  PROVE  LET L == lotsFreeOfOpenHolds(tx[t].lots, tx[t].seen) IN
         L \in SUBSET Lots /\ \A l \in L : lock[l] = t /\ OpenIn(hold[l]) = {}
BY Locked DEF lotsFreeOfOpenHolds

LEMMA EffectConfirmPqc ==
  ASSUME IInv, NEW t \in Sessions, ConfirmPqc(t)
  PROVE  Effect(t) /\ nc' = nc
<1> DEFINE op == tx[t].op
           L == IF op.judgment = "EXCEEDED" THEN tx[t].lots
                ELSE lotsFreeOfOpenHolds(tx[t].lots, tx[t].seen)
           action == IF op.judgment = "EXCEEDED" THEN "exceeded" ELSE "accepted"
<1>1. /\ Done(t) /\ op.kind = "confirm" /\ op.type = "PQC" /\ concession' = concession
      /\ hold' = hold /\ nc' = nc /\ request' = Completed(PQC, op.judgment)
      /\ lot' = moveWithin(L, action)
  BY DEF ConfirmPqc
<1>2. op.judgment \in Judgments
  BY <1>1 DEF IInv, Calm, Framed, OpOK
<1>3. /\ request' \in [Requests -> RequestRow]
      /\ \A l \in InboundLots : request'[IQC(l)] = request[IQC(l)]
  BY <1>1, <1>2, RequestCompleted, RequestSets, RequestNames
<1>4. L \in SUBSET Lots /\ \A l \in L : lock[l] = t
  BY <1>1, Locked, FreeLots
<1>5. action \in DOMAIN TRANSITIONS /\ action # "suspect"
  BY DEF TRANSITIONS
<1>6. \A l \in L : TRANSITIONS[action].to # "NORMAL" \/ OpenIn(hold[l]) = {}
  <2>1. CASE op.judgment = "EXCEEDED"
    BY <2>1 DEF TRANSITIONS, Row
  <2>2. CASE op.judgment # "EXCEEDED"
    BY <1>1, <2>2, FreeLots
  <2> QED
    BY <2>1, <2>2
<1> HIDE DEF L, action
<1> QED
  BY <1>1, <1>3, <1>4, <1>5, <1>6, OnlyMoved

LEMMA EffectConfirmOqc ==
  ASSUME IInv, NEW t \in Sessions, ConfirmOqc(t)
  PROVE  Effect(t) /\ nc' = nc
<1> DEFINE op == tx[t].op
           action == IF op.judgment = "ACCEPTED" THEN "accepted" ELSE "rejected"
<1>1. /\ Done(t) /\ op.kind = "confirm" /\ op.type = "OQC" /\ concession' = concession
      /\ hold' = hold /\ nc' = nc /\ request' = Completed(OQC, op.judgment)
      /\ lot' = moveWithin(tx[t].lots, action)
  BY DEF ConfirmOqc
<1>2. op.judgment \in Judgments
  BY <1>1 DEF IInv, Calm, Framed, OpOK
<1>3. /\ request' \in [Requests -> RequestRow]
      /\ \A l \in InboundLots : request'[IQC(l)] = request[IQC(l)]
  BY <1>1, <1>2, RequestCompleted, RequestSets, RequestNames
<1>4. tx[t].lots \in SUBSET Lots /\ \A l \in tx[t].lots : lock[l] = t /\ l \in PickedLots
  <2>1. tx[t].lots \subseteq PickedLots
    BY <1>1 DEF IInv, Calm, Framed
  <2> QED
    BY <1>1, <2>1, Locked
<1>5. action \in DOMAIN TRANSITIONS /\ action # "suspect"
      /\ (TRANSITIONS[action].to # "NORMAL" \/ action = "accepted")
  BY DEF TRANSITIONS, Row
<1> HIDE DEF action
<1> QED
  BY <1>1, <1>3, <1>4, <1>5, OnlyMoved

LEMMA EffectSkipPqc ==
  ASSUME IInv, NEW t \in Sessions, SkipPqc(t)
  PROVE  Effect(t) /\ nc' = nc
<1> DEFINE L == lotsFreeOfOpenHolds(tx[t].lots, tx[t].seen)
<1>1. /\ Done(t) /\ tx[t].op.kind = "pqcSkip" /\ concession' = concession
      /\ hold' = hold /\ nc' = nc /\ request' = Skipped(PQC)
      /\ lot' = moveWithin(L, "pqcSkipApproved")
  BY DEF SkipPqc, Does
<1>2. /\ request' \in [Requests -> RequestRow]
      /\ \A l \in InboundLots : request'[IQC(l)] = request[IQC(l)]
  BY <1>1, RequestSkipped, RequestSets, RequestNames
<1>3. L \in SUBSET Lots /\ \A l \in L : lock[l] = t /\ OpenIn(hold[l]) = {}
  BY <1>1, FreeLots
<1>4. "pqcSkipApproved" \in DOMAIN TRANSITIONS
  BY DEF TRANSITIONS
<1> HIDE DEF L
<1> QED
  BY <1>1, <1>2, <1>3, <1>4, OnlyMoved

LEMMA EffectSkipOqc ==
  ASSUME IInv, NEW t \in Sessions, SkipOqc(t)
  PROVE  Effect(t) /\ nc' = nc
<1>1. /\ Done(t) /\ tx[t].op.kind = "oqcSkip" /\ concession' = concession
      /\ hold' = hold /\ nc' = nc /\ request' = Skipped(OQC)
      /\ lot' = moveWithin(tx[t].lots, "oqcSkipped")
  BY DEF SkipOqc, Does
<1>2. /\ request' \in [Requests -> RequestRow]
      /\ \A l \in InboundLots : request'[IQC(l)] = request[IQC(l)]
  BY <1>1, RequestSkipped, RequestSets, RequestNames
<1>3. tx[t].lots \in SUBSET Lots /\ \A l \in tx[t].lots : lock[l] = t /\ l \in PickedLots
  <2>1. tx[t].lots \subseteq PickedLots
    BY <1>1 DEF IInv, Calm, Framed
  <2> QED
    BY <1>1, <2>1, Locked
<1>4. "oqcSkipped" \in DOMAIN TRANSITIONS
  BY DEF TRANSITIONS
<1> QED
  BY <1>1, <1>2, <1>3, <1>4, OnlyMoved

LEMMA EffectSkipIqc ==
  ASSUME IInv, NEW t \in Sessions, SkipIqc(t)
  PROVE  Effect(t) /\ nc' = nc
<1> DEFINE op == tx[t].op
<1>1. Done(t) /\ op.kind = "iqcSkip" /\ concession' = concession /\ nc' = nc
  BY DEF SkipIqc, Does
<1>2. OneLot(op, InboundLots)
  BY <1>1 DEF IInv, Calm, Framed, OpOK
<1>3. PICK l \in InboundLots : /\ l = Of(op) /\ l \in Lots /\ lock[l] = t
                               /\ tx[t].seen[l].holds = hold[l]
  BY <1>1, <1>2, InboundIsLot, OwnLot DEF OwnLots
<1> DEFINE ids == WaitingIn(hold[l])
<1>4. /\ OpenIn(releaseWithin(hold[l], ids, Full)) = {}
      /\ hold' = Close(l, ids, Full) /\ lot' = moveWithin({l}, "iqcSkipped")
      /\ request' = Skipped(IQC(l))
  BY <1>3 DEF SkipIqc, openAfter
<1>5. /\ request' \in [Requests -> RequestRow]
      /\ \A k \in InboundLots \ {l} : request'[IQC(k)] = request[IQC(k)]
  BY <1>4, RequestSkipped, RequestSets, IqcOf
<1>6. /\ hold' \in [Lots -> Seq(HoldRow)] /\ \A k \in Lots \ {l} : hold'[k] = hold[k]
      /\ Stay(hold[l], hold'[l]) /\ OpenIn(hold'[l]) = {}
  BY <1>3, <1>4, WaitingThere, ClosedHolds
<1> HIDE DEF ids
<1>7. /\ "iqcSkipped" \in DOMAIN TRANSITIONS
      /\ TRANSITIONS["iqcSkipped"].from = {"INSPECTION_PENDING"}
      /\ TRANSITIONS["iqcSkipped"].to = "NORMAL"
  BY DEF TRANSITIONS, Row
<1>8. /\ lot' \in [Lots -> LotRow] /\ \A k \in Lots \ {l} : lot'[k] = lot[k]
      /\ lot'[l].status # "INSPECTION_PENDING"
  <2>1. /\ lot' \in [Lots -> LotRow]
        /\ \A k \in Lots :
              IF k \in {l} /\ Movable(k, "iqcSkipped")
              THEN lot'[k].status = TRANSITIONS["iqcSkipped"].to /\ lot'[k].by = "iqcSkipped"
              ELSE lot'[k] = lot[k]
    BY <1>4, <1>7, MovedLots
  <2>2. Movable(l, "iqcSkipped") <=> lot[l].status = "INSPECTION_PENDING"
    BY <1>7 DEF Movable
  <2> QED
    BY <1>3, <1>7, <2>1, <2>2
<1>9. LotFits(l)' /\ DOMAIN hold[l] \subseteq DOMAIN hold'[l]
  BY <1>3, <1>6, <1>8, Fits
<1> QED
  BY <1>1, <1>3, <1>5, <1>6, <1>8, <1>9, Types DEF Effect

LEMMA UninspectedActions ==
  ASSUME NEW pqc, NEW a \in Uninspected(pqc)
  PROVE  /\ (CHOOSE b \in Uninspected(pqc) : TRUE) = a
         /\ a \in {"notRequired", "pqcSkipped", "accepted"}
<1>1. CASE pqc.status = "ABSENT"
  <2>1. Uninspected(pqc) = {"notRequired"}
    BY <1>1 DEF Uninspected
  <2> QED
    BY <2>1
<1>2. CASE pqc.status = "SKIPPED"
  <2>1. Uninspected(pqc) = {"pqcSkipped"}
    BY <1>2 DEF Uninspected
  <2> QED
    BY <2>1
<1>3. CASE pqc.status # "ABSENT" /\ pqc.status # "SKIPPED"
  <2>1. Uninspected(pqc) \in {{"accepted"}, {}}
    BY <1>3 DEF Uninspected
  <2> QED
    BY <2>1
<1> QED
  BY <1>1, <1>2, <1>3

LEMMA EffectReportProduction ==
  ASSUME IInv, NEW t \in Sessions, ReportProduction(t)
  PROVE  /\ Effect(t) /\ nc' = nc
         /\ \A l \in Lots \ SlotLots : lot'[l] = lot[l]
<1> DEFINE op == tx[t].op
           made(l) == [lot[l] EXCEPT !.life = "ACTIVE", !.version = @ + 1]
           active(l) == IF l \in op.lots /\ lot[l].life = "WAITING" THEN made(l) ELSE lot[l]
           free == lotsFreeOfOpenHolds(op.lots, tx[t].seen)
           passed(l) == l \in free /\ \E a \in Uninspected(tx[t].note) : Movable(l, a)
           a0 == CHOOSE a \in Uninspected(tx[t].note) : TRUE
           moved(l) == [active(l) EXCEPT !.status = TRANSITIONS[a0].to, !.version = @ + 1, !.by = a0]
<1>1. /\ Done(t) /\ op.kind = "report" /\ concession' = concession /\ hold' = hold /\ nc' = nc
      /\ request' = request
      /\ lot' = [l \in Lots |-> IF passed(l) THEN moved(l) ELSE active(l)]
  <2>1. LET act == [l \in Lots |-> active(l)]
        IN lot' = [l \in Lots |-> IF passed(l)
                      THEN [act[l] EXCEPT !.status = TRANSITIONS[a0].to, !.version = @ + 1, !.by = a0]
                      ELSE act[l]]
    BY DEF ReportProduction
  <2> QED
    BY <2>1 DEF ReportProduction, Does
<1>2. op.lots \subseteq SlotLots /\ tx[t].lots = op.lots
  BY <1>1 DEF IInv, Calm, Framed, OpOK, OwnLots
<1>3. \A l \in op.lots : l \in Lots /\ lock[l] = t /\ tx[t].seen[l].holds = hold[l]
  BY <1>1, <1>2, Locked
<1>4. free \subseteq op.lots /\ \A l \in free : OpenIn(hold[l]) = {}
  BY <1>3 DEF lotsFreeOfOpenHolds
<1>5. ASSUME NEW l \in Lots
      PROVE  /\ active(l) \in LotRow /\ active(l).status = lot[l].status /\ active(l).by = lot[l].by
             /\ l \notin op.lots => active(l) = lot[l]
  <2> DEFINE row == lot[l]
             b == [row EXCEPT !.life = "ACTIVE"]
             c == [b EXCEPT !.version = @ + 1]
  <2>1. row \in LotRow
    BY Types
  <2> HIDE DEF row
  <2>2. b \in LotRow /\ b.status = row.status /\ b.by = row.by
    BY <2>1 DEF LotRow
  <2>3. b.version + 1 \in Nat
    BY <2>2 DEF LotRow
  <2> HIDE DEF b
  <2>4. c \in LotRow /\ c.status = row.status /\ c.by = row.by
    BY <2>2, <2>3 DEF LotRow
  <2>5. made(l) = c
    BY DEF c, b, row
  <2> QED
    BY <2>1, <2>4, <2>5 DEF row
<1>6. ASSUME NEW l \in Lots, passed(l)
      PROVE  /\ moved(l) \in LotRow /\ moved(l).status = "NORMAL" /\ moved(l).by = a0
             /\ a0 \in {"notRequired", "pqcSkipped", "accepted"}
  <2>1. a0 \in {"notRequired", "pqcSkipped", "accepted"}
    BY <1>6, UninspectedActions
  <2> HIDE DEF a0
  <2> DEFINE row == active(l)
             to == TRANSITIONS[a0].to
  <2>2. row \in LotRow
    BY <1>5
  <2>3. to = "NORMAL" /\ a0 \in DOMAIN TRANSITIONS \cup {"born"}
    BY <2>1 DEF TRANSITIONS, Row
  <2> HIDE DEF active, to, row
  <2> DEFINE b == [row EXCEPT !.status = to]
             c == [b EXCEPT !.version = @ + 1]
             d == [c EXCEPT !.by = a0]
  <2>4. b \in LotRow /\ b.status = "NORMAL"
    BY <2>2, <2>3 DEF LotRow, NotScrapped
  <2>5. b.version + 1 \in Nat
    BY <2>4 DEF LotRow
  <2> HIDE DEF b
  <2>6. c \in LotRow /\ c.status = "NORMAL"
    BY <2>4, <2>5 DEF LotRow
  <2> HIDE DEF c
  <2>7. d \in LotRow /\ d.status = "NORMAL" /\ d.by = a0
    BY <2>3, <2>6 DEF LotRow
  <2>8. moved(l) = d
    BY DEF d, c, b, to, row
  <2> QED
    BY <2>1, <2>7, <2>8
<1> HIDE DEF active, moved, free
<1>7. lot' \in [Lots -> LotRow] /\ \A l \in Lots \ op.lots : lot'[l] = lot[l]
  <2>1. \A l \in Lots : lot'[l] = IF passed(l) THEN moved(l) ELSE active(l)
    BY <1>1
  <2>2. \A l \in Lots : (IF passed(l) THEN moved(l) ELSE active(l)) \in LotRow
    BY <1>5, <1>6
  <2>3. \A l \in Lots \ op.lots : ~ passed(l)
    BY <1>4
  <2> DEFINE new(l) == IF passed(l) THEN moved(l) ELSE active(l)
  <2>4. lot' = [l \in Lots |-> new(l)] /\ \A l \in Lots : new(l) \in LotRow
    BY <1>1, <2>2
  <2>5. \A l \in Lots \ op.lots : lot'[l] = lot[l]
    BY <1>5, <2>1, <2>3
  <2> HIDE DEF new
  <2> QED
    BY <2>4, <2>5
<1>8. ASSUME NEW l \in op.lots
      PROVE  LotFits(l)' /\ DOMAIN hold[l] \subseteq DOMAIN hold'[l]
  <2>1. l \in Lots /\ LotFits(l) /\ Stay(hold[l], hold'[l])
    BY <1>1, <1>3, StaySame, Types DEF IInv, LotsFit
  <2>2. CASE passed(l)
    <3>1. lot'[l].status = "NORMAL" /\ OpenIn(hold'[l]) = {}
      BY <1>1, <1>4, <1>6, <2>1, <2>2
    <3> QED
      BY <2>1, <3>1, Fits
  <2>3. CASE ~ passed(l)
    <3>1. lot'[l] = active(l)
      BY <1>1, <2>1, <2>3
    <3>2. lot'[l].status = lot[l].status /\ lot'[l].by = lot[l].by
      BY <1>5, <2>1, <3>1
    <3>3. Uncounted(l)' <=> Uncounted(l)
      BY <3>2 DEF Uncounted
    <3> QED
      BY <1>1, <2>1, <3>2, <3>3, Fits DEF LotFits
  <2> QED
    BY <2>2, <2>3
<1>9. Effect(t)
  BY <1>1, <1>3, <1>7, <1>8, Types DEF Effect
<1>10. \A l \in Lots \ SlotLots : lot'[l] = lot[l]
  BY <1>2, <1>7
<1> QED
  BY <1>1, <1>9, <1>10

LEMMA EffectRegister ==
  ASSUME IInv, NEW t \in Sessions, RegisterNonconformance(t)
  PROVE  Effect(t) /\ NcEffect(t) /\ NcTyped /\ lot' = lot
<1> DEFINE op == tx[t].op
           row == NewNc("NOT_REQUESTED", FALSE)
<1>1. /\ Done(t) /\ op.kind = "register" /\ UNCHANGED <<lot, hold, request, concession>>
      /\ nc' = [nc EXCEPT ![Of(op)] = Append(nc[Of(op)], row)]
  BY DEF RegisterNonconformance, Does
<1>2. OneLot(op, InboundLots)
  BY <1>1 DEF IInv, Calm, Framed, OpOK
<1>3. PICK l \in InboundLots : l = Of(op) /\ lock[l] = t
  BY <1>1, <1>2, InboundIsLot, OwnLot DEF OwnLots
<1>4. noOpenNonconformance(l)
  <2>1. Past(t, "lots") /\ Stands(t)
    BY <1>1, AllPast DEF IInv, Calm
  <2> QED
    BY <1>1, <1>3, <2>1 DEF Stands
<1>5. row \in NcRow /\ row.status # "DECIDED" /\ row.decided = 0
  BY NcNew
<1> HIDE DEF row
<1>6. NcEffect(t) /\ NcTyped
  BY <1>1, <1>3, <1>4, <1>5, NcAppended
<1> QED
  BY <1>1, <1>6, Types DEF Effect

NcMoved(old, qty, whole) ==
  [old EXCEPT !.decided = @ + qty, !.version = @ + 1, !.status = IF whole THEN "DECIDED" ELSE @]

LEMMA NcRowChange ==
  ASSUME NEW old \in NcRow, NEW qty \in Nat, NEW whole \in BOOLEAN
  PROVE  LET row == NcMoved(old, qty, whole)
         IN /\ row \in NcRow /\ row.decided = old.decided + qty
            /\ row.status = IF whole THEN "DECIDED" ELSE old.status
            /\ row.version = old.version + 1
<1> DEFINE a == [old EXCEPT !.decided = @ + qty]
           b == [a EXCEPT !.version = @ + 1]
           c == [b EXCEPT !.status = IF whole THEN "DECIDED" ELSE @]
<1>0. old.decided + qty \in Nat
  BY DEF NcRow
<1>1. a \in NcRow /\ a.decided = old.decided + qty /\ a.version = old.version /\ a.status = old.status
  BY <1>0 DEF NcRow
<1>2. a.version + 1 \in Nat
  BY <1>1 DEF NcRow
<1> HIDE DEF a
<1>3. b \in NcRow /\ b.decided = old.decided + qty /\ b.version = old.version + 1
      /\ b.status = old.status
  BY <1>1, <1>2 DEF NcRow
<1> HIDE DEF b
<1>4. c \in NcRow /\ c.decided = old.decided + qty /\ c.version = old.version + 1
      /\ c.status = IF whole THEN "DECIDED" ELSE old.status
  BY <1>3 DEF NcRow
<1>5. c = NcMoved(old, qty, whole)
  BY DEF c, b, a, NcMoved
<1> HIDE DEF c
<1> QED
  BY <1>4, <1>5

LEMMA EffectRequestDisposition ==
  ASSUME IInv, NEW t \in Sessions, RequestDisposition(t)
  PROVE  Effect(t) /\ NcEffect(t) /\ NcTyped /\ lot' = lot
<1> DEFINE op == tx[t].op
<1>1. /\ Done(t) /\ op.kind = "requestDisposition" /\ UNCHANGED <<lot, hold, request, concession>>
      /\ lock[Nonconformance(Of(op))] = NoSession
      /\ tx[t].view = <<Len(nc[Of(op)]), Latest(Of(op)).version>>
      /\ nc' = [nc EXCEPT ![Of(op)][Len(nc[Of(op)])] =
                   [Latest(Of(op)) EXCEPT !.status = "PENDING_DECISION", !.version = @ + 1]]
  BY DEF RequestDisposition, Does
<1>2. OneLot(op, InboundLots)
  BY <1>1 DEF IInv, Calm, Framed, OpOK
<1>3. PICK l \in InboundLots : l = Of(op)
  BY <1>2, OfOne
<1>4. HasNc(l) /\ Latest(l).status = "NOT_REQUESTED"
  <2>1. Stands(t)
    BY DEF IInv, Calm
  <2>2. tx[t].view[1] = Len(nc[l]) /\ tx[t].view[2] = Latest(l).version
    BY <1>1, <1>3
  <2> QED
    BY <1>1, <1>3, <2>1, <2>2 DEF Stands
<1> DEFINE old == Latest(l)
           mid == [old EXCEPT !.status = "PENDING_DECISION"]
           row == [mid EXCEPT !.version = @ + 1]
<1>5. old \in NcRow /\ old.decided <= Affected /\ old.decided # Affected
  BY <1>4, LatestTyped
<1> HIDE DEF old
<1>6. mid \in NcRow /\ mid.status = "PENDING_DECISION" /\ mid.decided = old.decided /\ mid.version = old.version
  BY <1>5 DEF NcRow
<1>7. mid.version + 1 \in Nat
  BY <1>6 DEF NcRow
<1> HIDE DEF mid
<1>8. row \in NcRow /\ row.status = "PENDING_DECISION" /\ row.decided = old.decided
      /\ row.version = old.version + 1
  BY <1>6, <1>7 DEF NcRow
<1>9. nc' = [nc EXCEPT ![l][Len(nc[l])] = row]
  BY <1>1, <1>3 DEF row, mid, old
<1> HIDE DEF row
<1>10. NcEffect(t) /\ NcTyped
  <2>1. row.version = Latest(l).version + 1 /\ row.decided <= Affected
        /\ (row.status = "DECIDED" <=> row.decided = Affected)
    BY <1>5, <1>8 DEF old
  <2>2. ~ isDecided(l) /\ lock[Nonconformance(l)] \in {t, NoSession}
    BY <1>1, <1>3, <1>4 DEF isDecided
  <2> QED
    BY <1>4, <1>8, <1>9, <2>1, <2>2, NcDecided
<1> QED
  BY <1>1, <1>10, Types DEF Effect

(* What Decided does to the open nonconformance of a locked lot. *)
LEMMA DecidedEffect ==
  ASSUME IInv, NEW t \in Sessions, NEW l \in InboundLots, NEW qty \in Nat, HasNc(l), Undecided(t, l),
         qty <= Affected - tx[t].note, lock[Nonconformance(l)] = t, Decided(t, l, qty)
  PROVE  NcEffect(t) /\ NcTyped
<1> DEFINE old == Latest(l)
           whole == tx[t].note + qty = Affected
           row == NcMoved(old, qty, whole)
<1>1. /\ old \in NcRow /\ old.status # "DECIDED" /\ old.decided = tx[t].note
      /\ old.decided \in Nat /\ Affected \in Nat
  BY LatestTyped, LotQualityAssumption DEF Undecided, isDecided, NcRow
<1>2. whole \in BOOLEAN /\ old.decided + qty <= Affected
      /\ (whole <=> old.decided + qty = Affected)
  BY <1>1
<1>4. nc' = [nc EXCEPT ![l][Len(nc[l])] = row]
  BY DEF Decided, NcMoved
<1> HIDE DEF old, whole
<1>5. /\ row \in NcRow /\ row.decided = old.decided + qty /\ row.version = old.version + 1
      /\ row.status = IF whole THEN "DECIDED" ELSE old.status
  BY <1>1, <1>2, NcRowChange
<1> HIDE DEF row
<1>6. row.version = Latest(l).version + 1 /\ row.decided <= Affected
      /\ (row.status = "DECIDED" <=> row.decided = Affected)
  BY <1>1, <1>2, <1>5 DEF old
<1>7. ~ isDecided(l)
  BY DEF Undecided
<1> QED
  BY <1>4, <1>5, <1>6, <1>7, NcDecided

LEMMA HeadOf ==
  ASSUME IInv, NEW t \in Sessions, Done(t), tx[t].op.kind \in {"dispose", "apply"}
  PROVE  Past(t, "head") /\ lock[Nonconformance(Of(tx[t].op))] = t
<1>1. Past(t, "head")
  BY AllPast
<1>2. Nonconformance(Of(tx[t].op)) \in HeadRows(tx[t].op)
  <2>1. CASE tx[t].op.kind = "dispose"
    BY <2>1 DEF HeadRows
  <2>2. CASE tx[t].op.kind = "apply"
    BY <2>2 DEF HeadRows
  <2> QED
    BY <2>1, <2>2
<1> QED
  BY <1>1, <1>2 DEF IInv, Calm, Held

LEMMA EffectDispose ==
  ASSUME IInv, NEW t \in Sessions, Dispose(t)
  PROVE  Effect(t) /\ NcEffect(t) /\ NcTyped
<1> DEFINE op == tx[t].op
<1>1. Done(t) /\ op.kind = "dispose" /\ concession' = concession
  BY DEF Dispose, Does
<1>2. /\ OneLot(op, InboundLots) /\ op.type \in {"REWORK", "SCRAP", "NORMAL", "SORT"}
      /\ op.qty \in 1 .. Affected
  BY <1>1 DEF IInv, Calm, Framed, OpOK
<1>3. PICK l \in InboundLots : l = Of(op) /\ l \in Lots /\ lock[l] = t
  BY <1>1, <1>2, InboundIsLot, OwnLot DEF OwnLots
<1>4. /\ lot' = moveWithin({l}, op.type) /\ Movable(l, op.type) /\ Decided(t, l, op.qty)
      /\ hold' = hold \/ hold' = Close(l, WaitingIn(hold[l]), Full)
      /\ request' = [q \in Requests |->
                       IF q \in RequestRows(op) /\ request[q].status = "COMPLETED"
                       THEN [request[q] EXCEPT !.status = "IN_PROGRESS"] ELSE request[q]]
  BY <1>3 DEF Dispose
<1>5. NcEffect(t) /\ NcTyped
  <2>1. Past(t, "head") /\ lock[Nonconformance(l)] = t /\ Stands(t)
    BY <1>1, <1>3, HeadOf DEF IInv, Calm
  <2>2. HasNc(l) /\ Undecided(t, l) /\ op.qty <= Affected - tx[t].note
    BY <1>1, <1>3, <2>1 DEF Stands
  <2>3. op.qty \in Nat
    BY <1>2, LotQualityAssumption
  <2> QED
    BY <1>4, <2>1, <2>2, <2>3, DecidedEffect
<1>6. /\ request' \in [Requests -> RequestRow]
      /\ \A k \in InboundLots \ {l} : request'[IQC(k)] = request[IQC(k)]
  <2> DEFINE again(q) == [request[q] EXCEPT !.status = "IN_PROGRESS"]
             new(q) == IF q \in RequestRows(op) /\ request[q].status = "COMPLETED"
                       THEN again(q) ELSE request[q]
  <2>1. RequestRows(op) \subseteq {IQC(l)}
    BY <1>1, <1>3 DEF RequestRows
  <2>2. ASSUME NEW q \in Requests PROVE new(q) \in RequestRow
    <3> DEFINE row == request[q]
    <3>1. row \in RequestRow
      BY Types
    <3> HIDE DEF row
    <3>2. [row EXCEPT !.status = "IN_PROGRESS"] \in RequestRow
      BY <3>1 DEF RequestRow, Open
    <3> QED
      BY <3>1, <3>2 DEF row
  <2>3. request' = [q \in Requests |-> new(q)]
    BY <1>4
  <2>4. \A k \in InboundLots \ {l} : new(IQC(k)) = request[IQC(k)]
    BY <2>1, IqcOf
  <2> HIDE DEF new
  <2> QED
    BY <2>2, <2>3, <2>4, RequestSets
<1>7. /\ hold' \in [Lots -> Seq(HoldRow)] /\ \A k \in Lots \ {l} : hold'[k] = hold[k]
      /\ Stay(hold[l], hold'[l])
  <2>1. CASE hold' = hold
    BY <1>3, <2>1, StaySame, Types
  <2>2. CASE hold' = Close(l, WaitingIn(hold[l]), Full)
    BY <1>3, <2>2, WaitingThere, ClosedHolds
  <2> QED
    BY <1>4, <2>1, <2>2
<1>8. /\ op.type \in DOMAIN TRANSITIONS
      /\ TRANSITIONS[op.type].to = "NORMAL" => op.type \in {"NORMAL", "SORT"}
  BY <1>2 DEF TRANSITIONS, Row
<1>9. /\ lot' \in [Lots -> LotRow] /\ \A k \in Lots \ {l} : lot'[k] = lot[k]
      /\ lot'[l].status = TRANSITIONS[op.type].to /\ lot'[l].by = op.type
  BY <1>3, <1>4, <1>8, MovedLots
<1>10. LotFits(l)' /\ DOMAIN hold[l] \subseteq DOMAIN hold'[l]
  <2>1. lot'[l].status = "NORMAL" => Uncounted(l)'
    BY <1>8, <1>9 DEF Uncounted
  <2>2. lot'[l].by # "suspect"
    BY <1>2, <1>9
  <2> QED
    BY <1>3, <1>7, <2>1, <2>2, Fits
<1>11. Effect(t)
  BY <1>1, <1>3, <1>6, <1>7, <1>9, <1>10, Types DEF Effect
<1> QED
  BY <1>5, <1>11

LEMMA EffectRequestConcession ==
  ASSUME IInv, NEW t \in Sessions, RequestConcession(t)
  PROVE  Effect(t) /\ nc' = nc /\ lot' = lot
<1> DEFINE op == tx[t].op
           row == [status |-> "PENDING", qty |-> op.qty]
<1>1. /\ Done(t) /\ op.kind = "concede" /\ UNCHANGED <<lot, hold, request, nc>>
      /\ concession' = [concession EXCEPT ![Of(op)] = row]
  BY DEF RequestConcession, Does
<1>2. row \in ConcessionRow
  BY <1>1 DEF IInv, Calm, Framed, OpOK, ConcessionRow
<1> HIDE DEF row
<1>3. concession' \in [InboundLots -> ConcessionRow]
  BY <1>1, <1>2, Types
<1> QED
  BY <1>1, <1>3, Types DEF Effect

LEMMA EffectApplyConcession ==
  ASSUME IInv, NEW t \in Sessions, ApplyConcession(t)
  PROVE  Effect(t) /\ NcEffect(t) /\ NcTyped
<1> DEFINE op == tx[t].op
<1>1. Done(t) /\ op.kind = "apply" /\ request' = request
  BY DEF ApplyConcession, Does
<1>2. OneLot(op, InboundLots)
  BY <1>1 DEF IInv, Calm, Framed, OpOK
<1>3. PICK l \in InboundLots : l = Of(op) /\ l \in Lots
  BY <1>2, InboundIsLot, OfOne
<1>4. Past(t, "head") /\ lock[Nonconformance(l)] = t /\ Stands(t)
  BY <1>1, <1>3, HeadOf DEF IInv, Calm
<1>5. concession' \in [InboundLots -> ConcessionRow]
  <2> DEFINE old == concession[l]
             row == [old EXCEPT !.status = world.approval]
  <2>1. old \in ConcessionRow /\ concession \in [InboundLots -> ConcessionRow]
    BY Types
  <2>2. world.approval \in {"APPROVED", "REJECTED"}
    BY <1>1, <1>4, Types, LotQualityAssumption DEF Stands
  <2>3. concession' = [concession EXCEPT ![l] = row]
    BY <1>3 DEF ApplyConcession
  <2> HIDE DEF old
  <2>4. row \in ConcessionRow
    BY <2>1, <2>2 DEF ConcessionRow
  <2> HIDE DEF row
  <2> QED
    BY <2>1, <2>3, <2>4
<1>6. CASE world.approval # "APPROVED"
  <2>1. UNCHANGED <<lot, hold, nc>>
    BY <1>6 DEF ApplyConcession
  <2> QED
    BY <1>1, <1>5, <2>1, NcSame, Types DEF Effect
<1>7. CASE world.approval = "APPROVED"
  <2>1. /\ lot' = moveWithin({l}, "concession") /\ Movable(l, "concession")
        /\ hold' = Close(l, WaitingIn(hold[l]), Full) /\ Decided(t, l, Affected - tx[t].note)
    BY <1>3, <1>7 DEF ApplyConcession
  <2>2. lock[l] = t
    BY <1>1, <1>2, <1>3, <1>7, InboundIsLot, OwnLot DEF OwnLots
  <2>3. NcEffect(t) /\ NcTyped
    <3>1. HasNc(l) /\ Undecided(t, l)
      BY <1>1, <1>3, <1>4, <1>7 DEF Stands
    <3>2. tx[t].note = Latest(l).decided /\ Latest(l) \in NcRow /\ Latest(l).decided <= Affected
      BY <3>1, LatestTyped DEF Undecided
    <3>3. Affected - tx[t].note \in Nat
      BY <3>2, LotQualityAssumption DEF NcRow
    <3>4. Affected - tx[t].note <= Affected - tx[t].note
      BY <3>3
    <3> QED
      BY <1>4, <2>1, <3>1, <3>3, <3>4, DecidedEffect
  <2>4. /\ hold' \in [Lots -> Seq(HoldRow)] /\ \A k \in Lots \ {l} : hold'[k] = hold[k]
        /\ Stay(hold[l], hold'[l])
    BY <1>3, <2>1, WaitingThere, ClosedHolds
  <2>5. "concession" \in DOMAIN TRANSITIONS
    BY DEF TRANSITIONS
  <2>6. /\ lot' \in [Lots -> LotRow] /\ \A k \in Lots \ {l} : lot'[k] = lot[k]
        /\ lot'[l].by = "concession"
    BY <1>3, <2>1, <2>5, MovedLots
  <2>7. LotFits(l)' /\ DOMAIN hold[l] \subseteq DOMAIN hold'[l]
    <3>1. Uncounted(l)'
      BY <2>6 DEF Uncounted
    <3> QED
      BY <1>3, <2>4, <2>6, <3>1, Fits
  <2>8. Effect(t)
    BY <1>1, <1>5, <2>2, <2>4, <2>6, <2>7, Types DEF Effect
  <2> QED
    BY <2>3, <2>8
<1> QED
  BY <1>6, <1>7
-----------------------------------------------------------------------------
(* The commits together, and what they leave to the other transactions. *)

LEMMA CommitEffect ==
  ASSUME IInv, NEW t \in Sessions, Commit(t)
  PROVE  Effect(t) /\ NcEffect(t) /\ NcTyped /\ Done(t)
<1>1. Done(t)
  BY DEF Commit, LotHoldCreate, LotHoldRelease, ConfirmIqc, ConfirmPqc, ConfirmOqc, SkipIqc, SkipPqc,
     SkipOqc, ReportProduction, RegisterNonconformance, RequestDisposition, Dispose,
     RequestConcession, ApplyConcession, Does
<1>2. Effect(t) /\ ((NcEffect(t) /\ NcTyped) \/ nc' = nc)
  BY EffectLotHoldCreate, EffectLotHoldRelease, EffectConfirmIqc, EffectConfirmPqc, EffectConfirmOqc,
     EffectSkipIqc, EffectSkipPqc, EffectSkipOqc, EffectReportProduction, EffectRegister,
     EffectRequestDisposition, EffectDispose, EffectRequestConcession, EffectApplyConcession DEF Commit
<1> QED
  BY <1>1, <1>2, NcSame

(* How the nonconformances of a lot change. *)
LEMMA NcChange ==
  ASSUME IInv, NEW t \in Sessions, NcEffect(t), NcTyped, NEW l \in InboundLots
  PROVE  /\ NcFits(l)'
         /\ HasNc(l) => HasNc(l)'
         /\ nc'[l] = nc[l] \/ lock[l] = t \/ lock[Nonconformance(l)] \in {t, NoSession}
         /\ nc'[l] = nc[l] \/ noOpenNonconformance(l) \/ lock[Nonconformance(l)] \in {t, NoSession}
         /\ nc'[l] = nc[l] \/ lock[l] = t \/ (HasNc(l) /\ ~ isDecided(l))
         /\ HasNc(l) => \/ nc'[l] = nc[l]
                        \/ Len(nc'[l]) = Len(nc[l]) + 1
                        \/ /\ Len(nc'[l]) = Len(nc[l])
                           /\ nc'[l][Len(nc[l])].version = Latest(l).version + 1
<1>1. nc[l] \in Seq(NcRow) /\ nc'[l] \in Seq(NcRow) /\ NcFits(l)
  BY Types DEF NcTyped, IInv, NcsFit
<1>2. CASE nc'[l] = nc[l]
  BY <1>1, <1>2 DEF NcFits, HasNc
<1>3. ASSUME lock[l] = t, noOpenNonconformance(l), NEW row \in NcRow,
             row.status # "DECIDED", row.decided = 0, nc'[l] = Append(nc[l], row)
      PROVE  NcFits(l)' /\ Len(nc'[l]) = Len(nc[l]) + 1 /\ HasNc(l)'
  <2> DEFINE rows == nc[l]
             out == nc'[l]
  <2>1. \A i \in DOMAIN rows : rows[i].status = "DECIDED"
    <3>1. CASE rows = <<>>
      BY <3>1
    <3>2. CASE rows # <<>>
      <4>1. rows[Len(rows)].status = "DECIDED"
        BY <1>3, <3>2 DEF noOpenNonconformance, HasNc, isDecided, Latest
      <4>2. \A i \in DOMAIN rows : i < Len(rows) \/ i = Len(rows)
        BY <1>1
      <4> QED
        BY <1>1, <4>1, <4>2 DEF NcFits
    <3> QED
      BY <3>1, <3>2
  <2>2. \A i \in DOMAIN rows : rows[i].decided <= Affected
                               /\ (rows[i].status = "DECIDED" <=> rows[i].decided = Affected)
    BY <1>1 DEF NcFits
  <2>3. rows \in Seq(NcRow) /\ out \in Seq(NcRow) /\ out = Append(rows, row)
    BY <1>1, <1>3
  <2>4. Affected \in Nat \ {0}
    BY LotQualityAssumption
  <2> HIDE DEF rows, out
  <2>5. /\ Len(out) = Len(rows) + 1 /\ Len(rows) \in Nat /\ out[Len(rows) + 1] = row
        /\ \A i \in 1 .. Len(rows) : out[i] = rows[i]
        /\ DOMAIN rows = 1 .. Len(rows) /\ DOMAIN out = 1 .. Len(rows) + 1
    BY <2>3, AppendProperties
  <2>6. \A i \in DOMAIN out : i < Len(out) => out[i].status = "DECIDED"
    BY <2>1, <2>5
  <2>7. ASSUME NEW i \in DOMAIN out
        PROVE  out[i].decided <= Affected /\ (out[i].status = "DECIDED" <=> out[i].decided = Affected)
    <3>1. CASE i \in DOMAIN rows
      BY <2>2, <2>5, <3>1
    <3>2. CASE i = Len(rows) + 1
      BY <1>3, <2>4, <2>5, <3>2
    <3> QED
      BY <2>5, <3>1, <3>2
  <2>8. out # <<>>
    BY <2>5
  <2> QED
    BY <2>5, <2>6, <2>7, <2>8 DEF NcFits, HasNc, rows, out
<1>4. ASSUME HasNc(l), NEW row \in NcRow, row.version = Latest(l).version + 1, row.decided <= Affected,
             row.status = "DECIDED" <=> row.decided = Affected,
             nc'[l] = [nc[l] EXCEPT ![Len(nc[l])] = row]
      PROVE  /\ NcFits(l)' /\ Len(nc'[l]) = Len(nc[l]) /\ HasNc(l)'
             /\ nc'[l][Len(nc[l])].version = Latest(l).version + 1
  <2> DEFINE rows == nc[l]
             out == nc'[l]
  <2>1. rows \in Seq(NcRow) /\ rows # <<>> /\ out = [rows EXCEPT ![Len(rows)] = row]
    BY <1>1, <1>4 DEF HasNc
  <2>2. \A i \in DOMAIN rows :
          /\ i < Len(rows) => rows[i].status = "DECIDED"
          /\ rows[i].decided <= Affected
          /\ rows[i].status = "DECIDED" <=> rows[i].decided = Affected
    BY <1>1 DEF NcFits
  <2> HIDE DEF rows, out
  <2>3. Len(rows) \in 1 .. Len(rows) /\ Len(rows) \in Nat /\ DOMAIN rows = 1 .. Len(rows)
    BY <2>1
  <2>4. /\ out \in Seq(NcRow) /\ Len(out) = Len(rows)
        /\ \A j \in 1 .. Len(rows) : out[j] = IF j = Len(rows) THEN row ELSE rows[j]
    BY <2>1, <2>3, ExceptSeq
  <2>5. DOMAIN out = 1 .. Len(rows) /\ out # <<>> /\ out[Len(rows)] = row
    <3>1. DOMAIN out = 1 .. Len(out)
      BY <2>4
    <3>0. Len(out) = Len(rows)
      BY <2>4
    <3>2. Len(out) # 0
      BY <2>3, <3>0
    <3>3. out # <<>>
      BY <3>2
    <3>4. out[Len(rows)] = row
      BY <2>3, <2>4
    <3> QED
      BY <2>4, <3>1, <3>3, <3>4
  <2>6. \A i \in DOMAIN out : i < Len(out) => out[i].status = "DECIDED"
    <3> TAKE i \in DOMAIN out
    <3> HAVE i < Len(out)
    <3>0. Len(out) = Len(rows)
      BY <2>4
    <3>1. i \in DOMAIN rows /\ i < Len(rows) /\ i # Len(rows)
      BY <2>3, <2>5, <3>0
    <3>2. out[i] = rows[i]
      BY <2>3, <2>4, <3>1
    <3> QED
      BY <2>2, <3>1, <3>2
  <2>7. \A i \in DOMAIN out :
           out[i].decided <= Affected /\ (out[i].status = "DECIDED" <=> out[i].decided = Affected)
    BY <1>4, <2>2, <2>3, <2>4, <2>5
  <2> QED
    BY <1>4, <2>4, <2>5, <2>6, <2>7 DEF NcFits, HasNc, rows, out
<1> QED
  BY <1>2, <1>3, <1>4 DEF NcEffect

LEMMA PastSame ==
  ASSUME NEW u, tx'[u] = tx[u], NEW s
  PROVE  Past(u, s)' <=> Past(u, s)
BY DEF Past

LEMMA OthersFramed ==
  ASSUME NEW u, Framed(u), tx'[u] = tx[u], world' = world
  PROVE  Framed(u)'
BY DEF Framed, OwnLots

(* What another transaction knows still holds after a commit. *)
LEMMA OthersStand ==
  ASSUME IInv, NEW t \in Sessions, Effect(t), NcEffect(t), NcTyped, world' = world,
         NEW u \in Sessions, u # t, tx'[u] = tx[u]
  PROVE  Stands(u)'
<1> DEFINE op == tx[u].op
<1>1. Stands(u) /\ Held(u) /\ Framed(u) /\ OpOK(op) /\ u # NoSession
  BY LotQualityAssumption DEF IInv, Calm, Framed
<1>2. \A s : Past(u, s)' <=> Past(u, s)
  BY PastSame
<1>3. OwnLots(u) /\ Past(u, "lots") => \A l \in op.lots : lock[l] = u
  BY <1>1 DEF Framed, Held
<1>4. op.kind = "holdCreate" /\ Past(u, "lots") =>
        \A k \in op.lots : \A i \in OpenIn(hold'[k]) : hold'[k][i].qty # Full
  <2> HAVE op.kind = "holdCreate" /\ Past(u, "lots")
  <2>1. op.lots \subseteq Lots /\ \A k \in op.lots : lock[k] = u
    BY <1>1, <1>3 DEF OwnLots, OpOK
  <2>2. \A k \in op.lots : hold'[k] = hold[k]
    BY <2>1 DEF Effect
  <2> QED
    BY <1>1, <2>2 DEF Stands
<1>5. ASSUME op.kind = "holdRelease"
      PROVE  /\ op.hold \in DOMAIN hold'[Of(op)]
             /\ Past(u, "lots") => hold'[Of(op)][op.hold].open
  <2>1. PICK l \in Lots : l = Of(op) /\ op.lots = {l}
    BY <1>1, <1>5, OfOne DEF OpOK
  <2>2. DOMAIN hold[l] \subseteq DOMAIN hold'[l]
    BY DEF Effect
  <2>3. Past(u, "lots") => lock[l] = u
    BY <1>3, <1>5, <2>1 DEF OwnLots
  <2>4. Past(u, "lots") => hold'[l] = hold[l]
    BY <2>3 DEF Effect
  <2> QED
    BY <1>1, <1>5, <2>1, <2>2, <2>4 DEF Stands
<1>6. ASSUME op.kind \in {"iqcSkip", "register", "requestDisposition", "dispose", "concede", "apply"}
      PROVE  /\ Of(op) \in InboundLots /\ Of(op) \in Lots
             /\ op.kind = "iqcSkip" /\ Past(u, "lots") => request'[IQC(Of(op))].status \in Open
             /\ op.kind = "register" /\ Past(u, "lots") => noOpenNonconformance(Of(op))'
             /\ op.kind \in {"requestDisposition", "dispose", "concede", "apply"} => HasNc(Of(op))'
  <2>1. PICK l \in InboundLots : l = Of(op) /\ op.lots = {l} /\ l \in Lots
    BY <1>1, <1>6, OfOne, InboundIsLot DEF OpOK
  <2>2. Of(op)' = l
    BY <2>1 DEF Of
  <2>3. ASSUME op.kind \in {"iqcSkip", "register"}, Past(u, "lots")
        PROVE  lock[l] = u
    BY <1>3, <2>1, <2>3 DEF OwnLots
  <2>4. op.kind = "iqcSkip" /\ Past(u, "lots") => request'[IQC(l)].status \in Open
    BY <1>1, <2>1, <2>3 DEF Effect, Stands
  <2>5. op.kind = "register" /\ Past(u, "lots") => noOpenNonconformance(l)'
    <3> HAVE op.kind = "register" /\ Past(u, "lots")
    <3>1. noOpenNonconformance(l) /\ lock[l] = u
      BY <1>1, <2>1, <2>3 DEF Stands
    <3>2. nc'[l] = nc[l]
      BY <3>1, NcChange DEF noOpenNonconformance
    <3> QED
      BY <3>1, <3>2 DEF noOpenNonconformance, HasNc, isDecided, Latest
  <2>6. op.kind \in {"requestDisposition", "dispose", "concede", "apply"} => HasNc(l)'
    BY <1>1, <2>1, NcChange DEF Stands
  <2> QED
    BY <2>1, <2>2, <2>4, <2>5, <2>6
<1>7. ASSUME op.kind = "requestDisposition", NEW l \in InboundLots, l = Of(op)
      PROVE  LET n == tx[u].view[1]  v == tx[u].view[2] IN
             /\ n \in Nat /\ v \in Nat /\ n <= Len(nc'[l])
             /\ n = Len(nc'[l]) => /\ v <= Latest(l)'.version
                                   /\ v = Latest(l)'.version => Latest(l)'.status = "NOT_REQUESTED"
  <2> DEFINE n == tx[u].view[1]
             v == tx[u].view[2]
  <2>1. /\ HasNc(l) /\ n \in Nat /\ v \in Nat /\ n <= Len(nc[l])
        /\ n = Len(nc[l]) => /\ v <= Latest(l).version
                             /\ v = Latest(l).version => Latest(l).status = "NOT_REQUESTED"
    BY <1>1, <1>7 DEF Stands
  <2>2. Len(nc[l]) \in Nat /\ Latest(l).version \in Nat
    BY <2>1, LatestTyped DEF NcRow
  <2>3. Latest(l)' = nc'[l][Len(nc'[l])]
    BY DEF Latest
  <2> HIDE DEF n, v
  <2>4. CASE nc'[l] = nc[l]
    <3>1. Latest(l)' = Latest(l) /\ Len(nc'[l]) = Len(nc[l])
      BY <2>3, <2>4 DEF Latest
    <3> QED
      BY <2>1, <3>1 DEF n, v
  <2>5. CASE Len(nc'[l]) = Len(nc[l]) + 1
    BY <2>1, <2>2, <2>5 DEF n, v
  <2>6. CASE /\ Len(nc'[l]) = Len(nc[l])
             /\ nc'[l][Len(nc[l])].version = Latest(l).version + 1
    <3>1. Latest(l)'.version = Latest(l).version + 1
      BY <2>3, <2>6
    <3> QED
      BY <2>1, <2>2, <2>6, <3>1 DEF n, v
  <2> QED
    BY <2>1, <2>4, <2>5, <2>6, NcChange
<1>8. ASSUME op.kind \in {"dispose", "apply"}, Past(u, "head"), NEW l \in InboundLots, l = Of(op),
             Undecided(u, l)
      PROVE  Undecided(u, l)'
  <2>1. Nonconformance(l) \in HeadRows(op)
    <3>1. CASE op.kind = "dispose"
      BY <1>8, <3>1 DEF HeadRows
    <3>2. CASE op.kind = "apply"
      BY <1>8, <3>2 DEF HeadRows
    <3> QED
      BY <1>8, <3>1, <3>2
  <2>2. lock[Nonconformance(l)] = u
    BY <1>1, <1>8, <2>1 DEF Held
  <2>3. HasNc(l) /\ ~ isDecided(l)
    BY <1>1, <1>8 DEF Stands, Undecided
  <2>4. nc'[l] = nc[l]
    BY <1>1, <2>2, <2>3, NcChange DEF noOpenNonconformance
  <2> QED
    BY <1>8, <2>4 DEF Undecided, isDecided, Latest
<1>9. tx'[u].op = op /\ tx'[u].note = tx[u].note /\ tx'[u].view = tx[u].view
  OBVIOUS
<1> QED
  <2>1. PICK l : l = Of(op)
    OBVIOUS
  <2>2. Of(tx[u].op)' = l
    BY <2>1, <1>9 DEF Of
  <2>3. op.kind \in {"holdCreate"} => Stands(u)'
    BY <1>2, <1>4, <1>9 DEF Stands
  <2>4. op.kind = "holdRelease" => Stands(u)'
    BY <1>2, <1>5, <1>9, <2>1, <2>2 DEF Stands
  <2>5. op.kind \in {"iqcSkip", "register", "concede"} => Stands(u)'
    BY <1>2, <1>6, <1>9, <2>1, <2>2 DEF Stands
  <2>6. op.kind = "requestDisposition" => Stands(u)'
    BY <1>2, <1>6, <1>7, <1>9, <2>1, <2>2 DEF Stands
  <2>7. op.kind = "dispose" => Stands(u)'
    BY <1>1, <1>2, <1>6, <1>8, <1>9, <2>1, <2>2 DEF Stands
  <2>8. op.kind = "apply" => Stands(u)'
    BY <1>1, <1>2, <1>6, <1>8, <1>9, <2>1, <2>2 DEF Stands
  <2>9. op.kind \notin {"holdCreate", "holdRelease", "iqcSkip", "register", "concede",
                        "requestDisposition", "dispose", "apply"} => Stands(u)'
    BY <1>9 DEF Stands
  <2> QED
    BY <2>3, <2>4, <2>5, <2>6, <2>7, <2>8, <2>9

(* A transaction that has ended. *)
LEMMA IdleCalm ==
  ASSUME NEW t, tx'[t] = Idle
  PROVE  Framed(t)' /\ Held(t)' /\ Stands(t)'
<1> DEFINE x == tx'[t]
<1>1. /\ x.op = [kind |-> "none"] /\ x.stage = 1 /\ x.lots = {}
      /\ x \in [op : {x.op}, stage : Nat, view : {x.view}, lots : SUBSET Lots, seen : {x.seen},
                note : {x.note}]
  BY DEF Idle
<1>2. x.op.kind = "none" /\ "none" \in DOMAIN Plan /\ Plan["none"] = <<>>
  BY <1>1 DEF Plan
<1>3. OpOK(tx[t].op)'
  BY <1>2 DEF OpOK
<1>4. \A s : ~ Past(t, s)'
  BY <1>2 DEF Past
<1>5. Framed(t)'
  BY <1>1, <1>2, <1>3 DEF Framed, OwnLots
<1>6. Held(t)'
  BY <1>4 DEF Held
<1>7. Stands(t)'
  BY <1>2 DEF Stands
<1> QED
  BY <1>5, <1>6, <1>7

(* Ending a transaction, committed or not: its locks go. *)
Ends(t) ==
  /\ tx' = [tx EXCEPT ![t] = Idle]
  /\ lock' = [r \in DOMAIN lock |-> IF lock[r] = t THEN NoSession ELSE lock[r]]
  /\ UNCHANGED <<world, calls>>

LEMMA EndsLocks ==
  ASSUME IInv, NEW t \in Sessions, Ends(t)
  PROVE  /\ DOMAIN tx' = Sessions /\ tx'[t] = Idle /\ \A u \in Sessions \ {t} : tx'[u] = tx[u]
         /\ lock' \in [Rows \cup Lots -> Sessions \cup {NoSession}]
         /\ \A r \in Rows \cup Lots : \A u \in Sessions : lock'[r] = u => u # t /\ lock[r] = u
         /\ \A u \in Sessions \ {t} : \A r \in Rows \cup Lots : lock[r] = u => lock'[r] = u
<1>1. /\ DOMAIN tx = Sessions /\ lock \in [Rows \cup Lots -> Sessions \cup {NoSession}]
      /\ NoSession \notin Sessions
  BY LotQualityAssumption DEF IInv, Calm, TypeOK
<1> QED
  BY <1>1 DEF Ends

(* Only rows of the table can be locked. *)
LEMMA HeadRowsOf ==
  ASSUME NEW op, OpOK(op),
         op.kind \in {"pqcSkip", "oqcSkip", "report", "dispose", "concede", "apply"}
  PROVE  HeadRows(op) \subseteq Rows
<1>2. CASE op.kind \in {"pqcSkip", "report"}
  BY <1>2 DEF HeadRows, Rows
<1>3. CASE op.kind = "oqcSkip"
  BY <1>3 DEF HeadRows, Rows
<1>4. CASE op.kind \in {"dispose", "concede", "apply"}
  <2>1. Of(op) \in InboundLots
    BY <1>4, OfOne DEF OpOK
  <2>2. HeadRows(op) \subseteq {Concession(Of(op)), Nonconformance(Of(op))}
    <3>1. CASE op.kind \in {"dispose", "concede"}
      BY <3>1 DEF HeadRows
    <3>2. CASE op.kind = "apply"
      BY <3>2 DEF HeadRows
    <3> QED
      BY <1>4, <3>1, <3>2
  <2> QED
    BY <2>1, <2>2 DEF Rows
<1> QED
  BY <1>2, <1>3, <1>4

LEMMA HeadRowsThere ==
  ASSUME NEW t, Framed(t), Past(t, "head")
  PROVE  HeadRows(tx[t].op) \subseteq Rows
<1>1. tx[t].op.kind \in DOMAIN Plan /\ OpOK(tx[t].op)
  BY DEF Framed, OpOK
<1>2. tx[t].op.kind \in {"pqcSkip", "oqcSkip", "report", "dispose", "concede", "apply"}
  BY <1>1, WhoLocks DEF Past
<1> QED
  BY <1>1, <1>2, HeadRowsOf

LEMMA OthersHeld ==
  ASSUME IInv, NEW u \in Sessions, tx'[u] = tx[u],
         \A r \in Rows \cup Lots : lock[r] = u => lock'[r] = u,
         \A l \in Lots : lock[l] = u => hold'[l] = hold[l]
  PROVE  Held(u)'
<1>1. \A s : Past(u, s)' <=> Past(u, s)
  BY PastSame
<1>2. Framed(u) /\ Held(u) /\ tx[u].lots \subseteq Lots
  BY DEF IInv, Calm, Framed
<1>3. Past(u, "head") => \A r \in HeadRows(tx[u].op) : lock'[r] = u
  BY <1>2, HeadRowsThere DEF Held
<1>4. HeadRows(tx[u].op)' = HeadRows(tx[u].op)
  BY DEF HeadRows, Of
<1>5. Past(u, "lots") => \A l \in tx[u].lots : lock'[l] = u /\ tx[u].seen[l].holds = hold'[l]
  BY <1>2 DEF Held
<1> QED
  BY <1>1, <1>3, <1>4, <1>5 DEF Held

LEMMA EndsIInv ==
  ASSUME IInv, NEW t \in Sessions, Ends(t), Effect(t), NcEffect(t), NcTyped
  PROVE  IInv'
<1>1. /\ DOMAIN tx' = Sessions /\ tx'[t] = Idle /\ \A u \in Sessions \ {t} : tx'[u] = tx[u]
      /\ lock' \in [Rows \cup Lots -> Sessions \cup {NoSession}]
      /\ \A r \in Rows \cup Lots : \A u \in Sessions : lock'[r] = u => u # t /\ lock[r] = u
      /\ \A u \in Sessions \ {t} : \A r \in Rows \cup Lots : lock[r] = u => lock'[r] = u
  BY EndsLocks
<1>2. world' = world /\ calls' = calls
  BY DEF Ends
<1>3. TypeOK'
  <2>1. \A r \in Rows \cup Lots, u \in Sessions : lock'[r] = u => tx'[u].op.kind # "none"
    <3>1. \A r \in Rows \cup Lots : \A u \in Sessions : lock[r] = u => tx[u].op.kind # "none"
      BY DEF IInv, TypeOK
    <3> TAKE r \in Rows \cup Lots, u \in Sessions
    <3> HAVE lock'[r] = u
    <3>2. u # t /\ lock[r] = u
      BY <1>1
    <3>3. tx'[u] = tx[u]
      BY <1>1, <3>2
    <3> QED
      BY <3>1, <3>2, <3>3
  <2>2. world \in Worlds /\ calls \in 0 .. world.calls
    BY DEF IInv, TypeOK
  <2> QED
    BY <1>1, <1>2, <2>1, <2>2 DEF TypeOK, Effect, NcTyped, RequestRow, ConcessionRow
<1>4. LotsFit'
  <2> SUFFICES ASSUME NEW l \in Lots PROVE LotFits(l)'
    BY DEF LotsFit
  <2>1. LotFits(l)
    BY DEF IInv, LotsFit
  <2>2. CASE lot'[l] = lot[l] /\ hold'[l] = hold[l]
    BY <2>1, <2>2 DEF LotFits, OneFull, Uncounted
  <2> QED
    BY <2>2 DEF Effect
<1>5. NcsFit'
  BY NcChange DEF NcsFit
<1>6. ASSUME NEW u \in Sessions
      PROVE  Framed(u)' /\ Held(u)' /\ Stands(u)'
  <2>1. CASE u = t
    BY <1>1, <2>1, IdleCalm
  <2>2. CASE u # t
    <3>1. tx'[u] = tx[u] /\ \A r \in Rows \cup Lots : lock[r] = u => lock'[r] = u
      BY <1>1, <2>2
    <3>2. \A l \in Lots : lock[l] = u => hold'[l] = hold[l]
      BY <2>2 DEF Effect
    <3>3. Framed(u)'
      BY <1>2, <3>1, OthersFramed DEF IInv, Calm
    <3>4. Held(u)'
      BY <3>1, <3>2, OthersHeld
    <3>5. Stands(u)'
      BY <1>2, <2>2, <3>1, OthersStand
    <3> QED
      BY <3>3, <3>4, <3>5
  <2> QED
    BY <2>1, <2>2
<1>7. Calm'
  BY <1>1, <1>6 DEF Calm
<1> QED
  BY <1>3, <1>4, <1>5, <1>7 DEF IInv

LEMMA InvCommit ==
  ASSUME IInv, NEW t \in Sessions, Commit(t)
  PROVE  IInv'
<1>1. Effect(t) /\ NcEffect(t) /\ NcTyped /\ Done(t)
  BY CommitEffect
<1>2. Ends(t)
  BY <1>1 DEF Done, Ends
<1> QED
  BY <1>1, <1>2, EndsIInv

LEMMA InvAbort ==
  ASSUME IInv, NEW t \in Sessions, Abort(t)
  PROVE  IInv'
<1>1. Ends(t) /\ UNCHANGED <<lot, hold, request, nc, concession>>
  BY DEF Abort, Ends
<1>2. Effect(t) /\ NcEffect(t) /\ NcTyped
  BY <1>1, NcSame, Types DEF Effect
<1> QED
  BY <1>1, <1>2, EndsIInv
-----------------------------------------------------------------------------
(* Locking. *)

LEMMA PastStep ==
  ASSUME NEW t, tx[t].stage \in Nat, tx[t].stage \in DOMAIN Plan[tx[t].op.kind],
         tx'[t].op = tx[t].op, tx'[t].stage = tx[t].stage + 1,
         Plan[tx[t].op.kind] \in Seq({"head", "lots", "requests"}), NEW s
  PROVE  Past(t, s)' <=> Past(t, s) \/ Plan[tx[t].op.kind][tx[t].stage] = s
<1> DEFINE plan == Plan[tx[t].op.kind]
           n == tx[t].stage
<1>1. Past(t, s)' <=> \E k \in DOMAIN plan : k < n + 1 /\ plan[k] = s
  BY DEF Past
<1>2. \A k \in DOMAIN plan : k < n + 1 <=> k < n \/ k = n
  OBVIOUS
<1>3. n \in DOMAIN plan
  OBVIOUS
<1>4. Past(t, s) <=> \E k \in DOMAIN plan : k < n /\ plan[k] = s
  BY DEF Past
<1> HIDE DEF plan, n
<1>5. Past(t, s)' <=> Past(t, s) \/ plan[n] = s
  BY <1>1, <1>2, <1>3, <1>4
<1> QED
  BY <1>5 DEF plan, n

LEMMA StandsSame ==
  ASSUME NEW u, Stands(u), tx'[u] = tx[u], UNCHANGED <<world, hold, request, nc>>
  PROVE  Stands(u)'
<1>1. \A s : Past(u, s)' <=> Past(u, s)
  BY PastSame
<1>2. Of(tx[u].op)' = Of(tx[u].op)
  BY DEF Of
<1> QED
  BY <1>1, <1>2 DEF Stands, Undecided, isDecided, Latest, HasNc, noOpenNonconformance

LEMMA LocksIInv ==
  ASSUME IInv, NEW t \in Sessions, NEW rows, Take(t, rows),
         UNCHANGED <<world, lot, hold, request, nc, concession, calls>>,
         DOMAIN tx' = Sessions, \A u \in Sessions \ {t} : tx'[u] = tx[u],
         tx'[t].op.kind # "none", Framed(t)', Held(t)', Stands(t)'
  PROVE  IInv'
<1>1. /\ lock \in [Rows \cup Lots -> Sessions \cup {NoSession}] /\ NoSession \notin Sessions
      /\ \A r \in Rows \cup Lots : \A u \in Sessions : lock[r] = u => tx[u].op.kind # "none"
  BY LotQualityAssumption DEF IInv, TypeOK
<1>2. /\ lock' \in [Rows \cup Lots -> Sessions \cup {NoSession}]
      /\ \A r \in Rows \cup Lots : lock'[r] = lock[r] \/ lock'[r] = t
      /\ \A u \in Sessions \ {t} : \A r \in Rows \cup Lots : lock[r] = u => lock'[r] = u
  BY <1>1 DEF Take
<1>3. \A r \in Rows \cup Lots, u \in Sessions : lock'[r] = u => tx'[u].op.kind # "none"
  <2> TAKE r \in Rows \cup Lots, u \in Sessions
  <2> HAVE lock'[r] = u
  <2>1. u = t \/ (u # t /\ lock[r] = u)
    BY <1>2
  <2>2. u # t => tx'[u] = tx[u]
    OBVIOUS
  <2> QED
    BY <1>1, <2>1, <2>2
<1>4. TypeOK'
  <2>1. TypeOK
    BY DEF IInv
  <2> QED
    BY <1>2, <1>3, <2>1 DEF TypeOK
<1>5. LotsFit' /\ NcsFit'
  <2>1. LotsFit /\ NcsFit
    BY DEF IInv
  <2> QED
    BY <2>1 DEF LotsFit, LotFits, OneFull, Uncounted, NcsFit, NcFits
<1>6. ASSUME NEW u \in Sessions
      PROVE  Framed(u)' /\ Held(u)' /\ Stands(u)'
  <2>1. CASE u = t
    BY <2>1
  <2>2. CASE u # t
    <3>1. tx'[u] = tx[u] /\ \A r \in Rows \cup Lots : lock[r] = u => lock'[r] = u
      BY <1>2, <2>2
    <3>2. Framed(u)'
      BY <3>1, OthersFramed DEF IInv, Calm
    <3>3. Held(u)'
      BY <3>1, OthersHeld
    <3>4. Stands(u)'
      BY <3>1, StandsSame DEF IInv, Calm
    <3> QED
      BY <3>2, <3>3, <3>4
  <2> QED
    BY <2>1, <2>2
<1>7. Calm'
  BY <1>6 DEF Calm
<1> QED
  BY <1>4, <1>5, <1>7 DEF IInv

(* The fields of a transaction after a lock. *)
Shape(x) ==
  x \in [op : {x.op}, stage : Nat, view : {x.view}, lots : SUBSET Lots, seen : {x.seen},
         note : {x.note}]

(* A lock that the code takes is one of the next stage of the plan. *)
LEMMA NextStage ==
  ASSUME IInv, NEW t \in Sessions, NEW stage, At(t, stage)
  PROVE  LET kind == tx[t].op.kind  n == tx[t].stage IN
         /\ Framed(t) /\ Held(t) /\ Stands(t) /\ Shape(tx[t]) /\ OpOK(tx[t].op) /\ DOMAIN tx = Sessions
         /\ kind \in DOMAIN Plan /\ Plan[kind] \in Seq({"head", "lots", "requests"})
         /\ n \in Nat /\ n \in DOMAIN Plan[kind] /\ Plan[kind][n] = stage /\ kind # "none"
<1>1. Framed(t) /\ Held(t) /\ Stands(t) /\ DOMAIN tx = Sessions
  BY DEF IInv, Calm
<1>2. Shape(tx[t]) /\ OpOK(tx[t].op) /\ tx[t].op.kind \in DOMAIN Plan /\ tx[t].stage \in Nat
      /\ tx[t].stage >= 1
  BY <1>1 DEF Framed, Shape, OpOK
<1>3. Plan[tx[t].op.kind] \in Seq({"head", "lots", "requests"})
  BY <1>2, PlanStages
<1>4. tx[t].stage \in DOMAIN Plan[tx[t].op.kind] /\ Plan[tx[t].op.kind][tx[t].stage] = stage
  BY <1>2, <1>3 DEF At
<1> QED
  BY <1>1, <1>2, <1>3, <1>4, WhoLocks

LEMMA TakeKeeps ==
  ASSUME IInv, NEW t \in Sessions, NEW rows, Take(t, rows), NEW r \in Rows \cup Lots
  PROVE  /\ lock[r] = t => lock'[r] = t
         /\ r \in rows => lock'[r] = t
<1>1. DOMAIN lock = Rows \cup Lots
  BY DEF IInv, TypeOK
<1> QED
  BY <1>1 DEF Take

LEMMA InvLockHead ==
  ASSUME IInv, NEW t \in Sessions, LockHead(t)
  PROVE  IInv'
<1> DEFINE op == tx[t].op
           x == tx[t]
           note == IF op.kind \in {"dispose", "apply"} THEN Latest(Of(op)).decided ELSE 0
           L == IF op.kind = "apply" /\ world.approval # "APPROVED" THEN {} ELSE x.lots
           y == [x EXCEPT !.stage = @ + 1, !.note = note, !.lots = L]
<1>1. /\ At(t, "head") /\ Take(t, HeadRows(op)) /\ HeadGate(op)
      /\ tx' = [tx EXCEPT ![t] = y]
      /\ UNCHANGED <<world, lot, hold, request, nc, concession, calls>>
  BY DEF LockHead, lockHead
<1>2. /\ Framed(t) /\ Held(t) /\ Stands(t) /\ Shape(x) /\ OpOK(op) /\ DOMAIN tx = Sessions
      /\ op.kind \in DOMAIN Plan /\ Plan[op.kind] \in Seq({"head", "lots", "requests"})
      /\ x.stage \in Nat /\ x.stage \in DOMAIN Plan[op.kind] /\ Plan[op.kind][x.stage] = "head"
      /\ op.kind # "none"
  BY <1>1, NextStage
<1>3. L \in SUBSET Lots /\ L \subseteq x.lots
  BY <1>2 DEF Shape
<1>4. /\ Shape(y) /\ y.op = op /\ y.stage = x.stage + 1 /\ y.view = x.view
      /\ y.lots = L /\ y.seen = x.seen /\ y.note = note
  <2>1. Shape(x) /\ x.op = op /\ L \in SUBSET Lots
    BY <1>2, <1>3
  <2> HIDE DEF L, note, x, op
  <2>2. x.stage + 1 \in Nat
    BY <2>1 DEF Shape
  <2>3. /\ y.op = x.op /\ y.stage = x.stage + 1 /\ y.view = x.view
        /\ y.lots = L /\ y.seen = x.seen /\ y.note = note
    BY <2>1 DEF Shape
  <2>4. y \in [op : {x.op}, stage : Nat, view : {x.view}, lots : SUBSET Lots, seen : {x.seen},
               note : {note}]
    BY <2>1, <2>2 DEF Shape
  <2> HIDE DEF y
  <2>5. Shape(y)
    BY <2>3, <2>4 DEF Shape
  <2> QED
    BY <2>1, <2>3, <2>5
<1> HIDE DEF y
<1>5. /\ DOMAIN tx' = Sessions /\ tx'[t] = y /\ \A u \in Sessions \ {t} : tx'[u] = tx[u]
  BY <1>1, <1>2
<1>6. \A s : Past(t, s)' <=> Past(t, s) \/ s = "head"
  BY <1>2, <1>4, <1>5, PastStep
<1>7. Framed(t)'
  <2>1. tx'[t] = y /\ world' = world
    BY <1>1, <1>5
  <2>2. OwnLots(t)' <=> OwnLots(t)
    BY <1>4, <2>1 DEF OwnLots
  <2>3. OwnLots(t) => L = op.lots
    BY <1>2 DEF Framed, OwnLots
  <2>4. y.stage >= 1
    BY <1>2, <1>4
  <2>5. op.kind = "oqcSkip" \/ (op.kind = "confirm" /\ op.type = "OQC") => L \subseteq PickedLots
    BY <1>2 DEF Framed
  <2>6. OpOK(y.op)
    BY <1>2, <1>4
  <2>7. OpOK(tx[t].op)'
    BY <2>1, <2>6 DEF OpOK, OneLot, Lots, InspectionWait, Judgments, Plan
  <2> HIDE DEF L
  <2> QED
    BY <1>4, <2>1, <2>2, <2>3, <2>4, <2>5, <2>7 DEF Framed, Shape, Lots
<1>8. Held(t)'
  <2>1. HeadRows(tx[t].op)' = HeadRows(op)
    BY <1>4, <1>5 DEF HeadRows, Of
  <2>2. HeadRows(op) \subseteq Rows
    <3>1. op.kind \in {"pqcSkip", "oqcSkip", "report", "dispose", "concede", "apply"}
      BY <1>2, WhoLocks
    <3> QED
      BY <1>2, <3>1, HeadRowsOf
  <2>3. \A r \in HeadRows(op) : lock'[r] = t
    BY <1>1, <2>2, TakeKeeps
  <2>4. Past(t, "lots")' => Past(t, "lots")
    BY <1>6
  <2>5. Past(t, "lots") => \A l \in L : lock'[l] = t /\ x.seen[l].holds = hold'[l]
    <3> HAVE Past(t, "lots")
    <3>1. \A l \in x.lots : l \in Lots /\ lock[l] = t /\ x.seen[l].holds = hold[l]
      BY <1>2 DEF Held, Shape
    <3> QED
      BY <1>1, <1>3, <3>1, TakeKeeps
  <2> QED
    BY <1>4, <1>5, <2>1, <2>3, <2>4, <2>5 DEF Held
<1>9. Stands(t)'
  <2>1. PICK l : l = Of(op)
    OBVIOUS
  <2>2. Of(tx[t].op)' = l /\ tx'[t].op = op /\ tx'[t].note = note /\ tx'[t].view = x.view
    BY <1>4, <1>5, <2>1 DEF Of
  <2>3. Past(t, "lots")' <=> Past(t, "lots")
    BY <1>6
  <2>4. Past(t, "head")'
    BY <1>6
  <2>5. UNCHANGED <<world, hold, request, nc>>
    BY <1>1
  <2>6. /\ Latest(l)' = Latest(l) /\ (HasNc(l)' <=> HasNc(l))
        /\ (noOpenNonconformance(l)' <=> noOpenNonconformance(l)) /\ (isDecided(l)' <=> isDecided(l))
    BY <2>5 DEF Latest, HasNc, noOpenNonconformance, isDecided
  <2>7. CASE op.kind = "dispose"
    <3>1. ~ isDecided(l) /\ op.qty <= Affected - Latest(l).decided
      BY <1>1, <2>1, <2>7 DEF HeadGate, lockNonconformance, Remaining
    <3>2. note = Latest(l).decided /\ HasNc(l)
      BY <1>2, <2>1, <2>7 DEF Stands
    <3> QED
      BY <2>2, <2>5, <2>6, <2>7, <3>1, <3>2 DEF Stands, Undecided
  <2>8. CASE op.kind = "apply"
    <3>1. /\ world.approval # "PENDING"
          /\ world.approval = "APPROVED" => ~ isDecided(l)
      <4>1. \A q : Of([lots |-> op.lots, qty |-> q]) = l
        BY <2>1 DEF Of
      <4> QED
        BY <1>1, <2>8, <4>1 DEF HeadGate, lockNonconformance
    <3>2. note = Latest(l).decided /\ HasNc(l)
      BY <1>2, <2>1, <2>8 DEF Stands
    <3> QED
      BY <2>2, <2>5, <2>6, <2>8, <3>1, <3>2 DEF Stands, Undecided
  <2>9. CASE op.kind \notin {"dispose", "apply"}
    <3> HIDE DEF note
    <3> QED
      BY <1>2, <2>1, <2>2, <2>3, <2>5, <2>6, <2>9 DEF Stands
  <2> QED
    BY <2>7, <2>8, <2>9
<1> QED
  BY <1>1, <1>2, <1>4, <1>5, <1>7, <1>8, <1>9, LocksIInv

LEMMA TargetsThere ==
  ASSUME NEW op, OpOK(op), op.kind \in {"confirm", "iqcSkip", "pqcSkip", "oqcSkip", "dispose"}
  PROVE  /\ TargetLots(op) \subseteq Lots
         /\ op.kind \in {"iqcSkip", "dispose"} \/ (op.kind = "confirm" /\ op.type = "IQC") =>
              TargetLots(op) = op.lots
         /\ op.kind = "oqcSkip" \/ (op.kind = "confirm" /\ op.type = "OQC") =>
              TargetLots(op) \subseteq PickedLots
<1>1. CASE op.kind \in {"iqcSkip", "dispose"} \/ (op.kind = "confirm" /\ op.type = "IQC")
  <2>1. TargetLots(op) = op.lots
    BY <1>1 DEF TargetLots
  <2>2. op.lots \subseteq Lots
    BY <1>1 DEF OpOK, OneLot, Lots
  <2> QED
    BY <1>1, <2>1, <2>2
<1>2. CASE op.kind = "confirm" /\ op.type = "PQC"
  <2>1. TargetLots(op) \subseteq SlotLots
    BY <1>2 DEF TargetLots, PendingSlots
  <2> QED
    BY <1>2, <2>1 DEF Lots
<1>3. CASE op.kind = "confirm" /\ op.type = "OQC"
  <2>1. TargetLots(op) \subseteq PickedLots
    BY <1>3 DEF TargetLots
  <2> QED
    BY <1>3, <2>1 DEF Lots
<1>4. CASE op.kind = "pqcSkip"
  <2>1. TargetLots(op) \subseteq SlotLots
    BY <1>4 DEF TargetLots, PendingSlots
  <2> QED
    BY <1>4, <2>1 DEF Lots
<1>5. CASE op.kind = "oqcSkip"
  <2>1. TargetLots(op) \subseteq PickedLots
    BY <1>5 DEF TargetLots
  <2> QED
    BY <1>5, <2>1 DEF Lots
<1> QED
  BY <1>1, <1>2, <1>3, <1>4, <1>5 DEF OpOK

(* A further stage does not disturb what was found out before. *)
LEMMA StandsOn ==
  ASSUME NEW t, Stands(t), tx'[t].op = tx[t].op, tx'[t].view = tx[t].view, tx'[t].note = tx[t].note,
         UNCHANGED <<world, hold, request, nc>>,
         Past(t, "lots")' <=> Past(t, "lots"), Past(t, "head")' <=> Past(t, "head")
  PROVE  Stands(t)'
<1>1. PICK l : l = Of(tx[t].op)
  OBVIOUS
<1>2. Of(tx[t].op)' = l
  BY <1>1 DEF Of
<1>3. /\ Latest(l)' = Latest(l) /\ (HasNc(l)' <=> HasNc(l))
      /\ (noOpenNonconformance(l)' <=> noOpenNonconformance(l))
      /\ (Undecided(t, l)' <=> Undecided(t, l))
  BY DEF Latest, HasNc, noOpenNonconformance, isDecided, Undecided
<1> QED
  BY <1>1, <1>2, <1>3 DEF Stands

LEMMA InvLockRequests ==
  ASSUME IInv, NEW t \in Sessions, LockRequests(t)
  PROVE  IInv'
<1> DEFINE op == tx[t].op
           x == tx[t]
           L == TargetLots(op)
           y == [x EXCEPT !.stage = @ + 1, !.lots = L]
<1>1. /\ At(t, "requests") /\ Take(t, RequestRows(op))
      /\ tx' = [tx EXCEPT ![t] = y]
      /\ UNCHANGED <<world, lot, hold, request, nc, concession, calls>>
  BY DEF LockRequests
<1>2. /\ Framed(t) /\ Held(t) /\ Stands(t) /\ Shape(x) /\ OpOK(op) /\ DOMAIN tx = Sessions
      /\ op.kind \in DOMAIN Plan /\ Plan[op.kind] \in Seq({"head", "lots", "requests"})
      /\ x.stage \in Nat /\ x.stage \in DOMAIN Plan[op.kind] /\ Plan[op.kind][x.stage] = "requests"
      /\ op.kind # "none"
  BY <1>1, NextStage
<1>3. /\ L \in SUBSET Lots
      /\ op.kind \in {"iqcSkip", "dispose"} \/ (op.kind = "confirm" /\ op.type = "IQC") => L = op.lots
      /\ op.kind = "oqcSkip" \/ (op.kind = "confirm" /\ op.type = "OQC") => L \subseteq PickedLots
      /\ op.kind \in {"confirm", "iqcSkip", "pqcSkip", "oqcSkip", "dispose"}
  <2>1. op.kind \in {"confirm", "iqcSkip", "pqcSkip", "oqcSkip", "dispose"}
    BY <1>2, WhoLocks
  <2> QED
    BY <1>2, <2>1, TargetsThere
<1>4. /\ Shape(y) /\ y.op = op /\ y.stage = x.stage + 1 /\ y.view = x.view
      /\ y.lots = L /\ y.seen = x.seen /\ y.note = x.note
  <2>1. Shape(x) /\ x.op = op /\ L \in SUBSET Lots
    BY <1>2, <1>3
  <2> HIDE DEF L, x, op
  <2>2. x.stage + 1 \in Nat
    BY <2>1 DEF Shape
  <2>3. /\ y.op = x.op /\ y.stage = x.stage + 1 /\ y.view = x.view
        /\ y.lots = L /\ y.seen = x.seen /\ y.note = x.note
    BY <2>1 DEF Shape
  <2>4. y \in [op : {x.op}, stage : Nat, view : {x.view}, lots : SUBSET Lots, seen : {x.seen},
               note : {x.note}]
    BY <2>1, <2>2 DEF Shape
  <2> HIDE DEF y
  <2>5. Shape(y)
    BY <2>3, <2>4 DEF Shape
  <2> QED
    BY <2>1, <2>3, <2>5
<1> HIDE DEF y, L
<1>5. /\ DOMAIN tx' = Sessions /\ tx'[t] = y /\ \A u \in Sessions \ {t} : tx'[u] = tx[u]
  BY <1>1, <1>2
<1>6. \A s : Past(t, s)' <=> Past(t, s) \/ s = "requests"
  BY <1>2, <1>4, <1>5, PastStep
<1>7. Framed(t)'
  <2>1. tx'[t] = y /\ world' = world
    BY <1>1, <1>5
  <2>2. OwnLots(t)' <=> OwnLots(t)
    BY <1>4, <2>1 DEF OwnLots
  <2>3. OwnLots(t) => L = op.lots
    BY <1>3 DEF OwnLots
  <2>4. y.stage >= 1
    BY <1>2, <1>4
  <2>5. OpOK(y.op)
    BY <1>2, <1>4
  <2>6. OpOK(tx[t].op)'
    BY <2>1, <2>5 DEF OpOK, OneLot, Lots, InspectionWait, Judgments, Plan
  <2> QED
    BY <1>3, <1>4, <2>1, <2>2, <2>3, <2>4, <2>6 DEF Framed, Shape, Lots
<1>8. Held(t)'
  <2>1. HeadRows(tx[t].op)' = HeadRows(op)
    BY <1>4, <1>5 DEF HeadRows, Of
  <2>2. Past(t, "head")' => \A r \in HeadRows(op) : lock'[r] = t
    <3> HAVE Past(t, "head")'
    <3>1. Past(t, "head")
      BY <1>6
    <3>2. \A r \in HeadRows(op) : r \in Rows /\ lock[r] = t
      BY <1>2, <3>1, HeadRowsThere DEF Held
    <3> QED
      BY <1>1, <3>2, TakeKeeps
  <2>3. Past(t, "lots")' => \A l \in L : lock'[l] = t /\ x.seen[l].holds = hold'[l]
    <3> HAVE Past(t, "lots")'
    <3>1. Past(t, "lots")
      BY <1>6
    <3>2. op.kind \in {"iqcSkip", "dispose"}
      BY <1>2, <3>1, RequestsAfterLots DEF Past
    <3>3. L = x.lots
      BY <1>2, <1>3, <3>2 DEF Framed, OwnLots
    <3>4. \A l \in x.lots : l \in Lots /\ lock[l] = t /\ x.seen[l].holds = hold[l]
      BY <1>2, <3>1 DEF Held, Shape
    <3> QED
      BY <1>1, <3>3, <3>4, TakeKeeps
  <2> QED
    BY <1>4, <1>5, <2>1, <2>2, <2>3 DEF Held
<1>9. Stands(t)'
  <2>1. (Past(t, "lots")' <=> Past(t, "lots")) /\ (Past(t, "head")' <=> Past(t, "head"))
    BY <1>6
  <2> QED
    BY <1>1, <1>2, <1>4, <1>5, <2>1, StandsOn
<1> QED
  BY <1>1, <1>2, <1>4, <1>5, <1>7, <1>8, <1>9, LocksIInv

LEMMA InvLockLots ==
  ASSUME IInv, NEW t \in Sessions, LockLots(t)
  PROVE  IInv'
<1> DEFINE op == tx[t].op
           x == tx[t]
           seen == Snapshot(x.lots)
           note == IF op.kind = "report" THEN request[PQC] ELSE x.note
           y == [x EXCEPT !.stage = @ + 1, !.seen = seen, !.note = note]
<1>1. /\ At(t, "lots") /\ Take(t, x.lots) /\ LotsGate(op, x.view)
      /\ tx' = [tx EXCEPT ![t] = y]
      /\ UNCHANGED <<world, lot, hold, request, nc, concession, calls>>
  BY DEF LockLots, lockLotsWithin
<1>2. /\ Framed(t) /\ Held(t) /\ Stands(t) /\ Shape(x) /\ OpOK(op) /\ DOMAIN tx = Sessions
      /\ op.kind \in DOMAIN Plan /\ Plan[op.kind] \in Seq({"head", "lots", "requests"})
      /\ x.stage \in Nat /\ x.stage \in DOMAIN Plan[op.kind] /\ Plan[op.kind][x.stage] = "lots"
      /\ op.kind # "none"
  BY <1>1, NextStage
<1>3. \A l \in x.lots : seen[l].holds = hold[l]
  BY DEF Snapshot
<1>4. /\ Shape(y) /\ y.op = op /\ y.stage = x.stage + 1 /\ y.view = x.view
      /\ y.lots = x.lots /\ y.seen = seen /\ y.note = note
  <2>1. Shape(x) /\ x.op = op
    BY <1>2
  <2> HIDE DEF seen, note, x, op
  <2>2. x.stage + 1 \in Nat
    BY <2>1 DEF Shape
  <2>3. /\ y.op = x.op /\ y.stage = x.stage + 1 /\ y.view = x.view
        /\ y.lots = x.lots /\ y.seen = seen /\ y.note = note
    BY <2>1 DEF Shape
  <2>4. y \in [op : {x.op}, stage : Nat, view : {x.view}, lots : SUBSET Lots, seen : {seen},
               note : {note}]
    BY <2>1, <2>2 DEF Shape
  <2> HIDE DEF y
  <2>5. Shape(y)
    BY <2>3, <2>4 DEF Shape
  <2> QED
    BY <2>1, <2>3, <2>5
<1> HIDE DEF y, seen
<1>5. /\ DOMAIN tx' = Sessions /\ tx'[t] = y /\ \A u \in Sessions \ {t} : tx'[u] = tx[u]
  BY <1>1, <1>2
<1>6. \A s : Past(t, s)' <=> Past(t, s) \/ s = "lots"
  BY <1>2, <1>4, <1>5, PastStep
<1>7. Framed(t)'
  <2>1. tx'[t] = y /\ world' = world
    BY <1>1, <1>5
  <2>2. OwnLots(t)' <=> OwnLots(t)
    BY <1>4, <2>1 DEF OwnLots
  <2>3. OwnLots(t) => x.lots = op.lots
    BY <1>2 DEF Framed
  <2>4. y.stage >= 1
    BY <1>2, <1>4
  <2>5. OpOK(y.op)
    BY <1>2, <1>4
  <2>6. OpOK(tx[t].op)'
    BY <2>1, <2>5 DEF OpOK, OneLot, Lots, InspectionWait, Judgments, Plan
  <2>7. op.kind = "oqcSkip" \/ (op.kind = "confirm" /\ op.type = "OQC") => x.lots \subseteq PickedLots
    BY <1>2 DEF Framed
  <2> HIDE DEF note
  <2> QED
    BY <1>4, <2>1, <2>2, <2>3, <2>4, <2>6, <2>7 DEF Framed, Shape, Lots
<1>8. Held(t)'
  <2>1. HeadRows(tx[t].op)' = HeadRows(op)
    BY <1>4, <1>5 DEF HeadRows, Of
  <2>2. Past(t, "head")' => \A r \in HeadRows(op) : lock'[r] = t
    <3> HAVE Past(t, "head")'
    <3>1. Past(t, "head")
      BY <1>6
    <3>2. \A r \in HeadRows(op) : r \in Rows /\ lock[r] = t
      BY <1>2, <3>1, HeadRowsThere DEF Held
    <3> QED
      BY <1>1, <3>2, TakeKeeps
  <2>3. \A l \in x.lots : lock'[l] = t /\ seen[l].holds = hold'[l]
    <3>1. \A l \in x.lots : l \in Lots
      BY <1>2 DEF Shape
    <3> QED
      BY <1>1, <1>3, <3>1, TakeKeeps
  <2> QED
    BY <1>4, <1>5, <2>1, <2>2, <2>3 DEF Held
<1>9. Stands(t)'
  <2>1. PICK l : l = Of(op)
    OBVIOUS
  <2>2. Of(tx[t].op)' = l /\ tx'[t].op = op /\ tx'[t].note = note /\ tx'[t].view = x.view
    BY <1>4, <1>5, <2>1 DEF Of
  <2>3. (Past(t, "head")' <=> Past(t, "head")) /\ Past(t, "lots")'
    BY <1>6
  <2>5. UNCHANGED <<world, hold, request, nc>>
    BY <1>1
  <2>6. /\ Latest(l)' = Latest(l) /\ (HasNc(l)' <=> HasNc(l))
        /\ (noOpenNonconformance(l)' <=> noOpenNonconformance(l))
        /\ op.kind # "report" => (Undecided(t, l)' <=> Undecided(t, l))
    BY <2>2, <2>5 DEF Latest, HasNc, noOpenNonconformance, isDecided, Undecided
  <2>7. CASE op.kind = "holdCreate"
    <3>1. \A k \in op.lots : \A i \in OpenIn(hold[k]) : hold[k][i].qty # Full
      BY <1>1, <2>7 DEF LotsGate, holdCreateGate
    <3> QED
      BY <2>2, <2>5, <2>7, <3>1 DEF Stands
  <2>8. CASE op.kind = "holdRelease"
    <3>1. hold[l][op.hold].open
      BY <1>1, <2>1, <2>8 DEF LotsGate, holdReleaseGate
    <3>2. op.hold \in DOMAIN hold[l]
      BY <1>2, <2>1, <2>8 DEF Stands
    <3> QED
      BY <2>2, <2>5, <2>8, <3>1, <3>2 DEF Stands
  <2>9. CASE op.kind = "iqcSkip"
    <3>1. request[IQC(l)].status \in Open
      BY <1>1, <2>1, <2>9 DEF LotsGate, isSkippable, skippable
    <3> QED
      BY <2>2, <2>5, <2>9, <3>1 DEF Stands
  <2>10. CASE op.kind = "register"
    <3>1. noOpenNonconformance(l)
      BY <1>1, <2>1, <2>10 DEF LotsGate
    <3> QED
      BY <2>2, <2>5, <2>6, <2>10, <3>1 DEF Stands
  <2>11. CASE op.kind \notin {"holdCreate", "holdRelease", "iqcSkip", "register"}
    <3>1. op.kind # "report" => note = x.note
      OBVIOUS
    <3> HIDE DEF note
    <3>2. CASE op.kind = "report"
      BY <2>2, <3>2 DEF Stands
    <3>3. CASE op.kind # "report"
      BY <1>2, <2>1, <2>2, <2>3, <2>5, <2>6, <2>11, <3>1, <3>3 DEF Stands
    <3> QED
      BY <3>2, <3>3
  <2> QED
    BY <2>7, <2>8, <2>9, <2>10, <2>11
<1> QED
  BY <1>1, <1>2, <1>4, <1>5, <1>7, <1>8, <1>9, LocksIInv
-----------------------------------------------------------------------------
(* Calls, the initial state, and the invariant. *)

LEMMA CallFields ==
  ASSUME IInv, NEW op \in Calls
  PROVE  /\ OpOK(op) /\ op.kind # "none" /\ op.lots \subseteq Lots
         /\ op.kind = "holdRelease" => op.hold \in DOMAIN hold[Of(op)]
         /\ op.kind \in {"requestDisposition", "dispose", "concede", "apply"} => HasNc(Of(op))
<1> DEFINE Susp == [kind : {"holdCreate"}, lots : (SUBSET world.scope) \ {{}}, action : {"suspect"},
                    reason : {InspectionWait, "OTHER"}, qty : 0 .. OnHand]
           Claim == [kind : {"holdCreate"}, lots : (SUBSET world.scope) \ {{}}, action : {"claim"},
                     reason : {"OTHER"}, qty : {Full}]
           Rel(l) == [kind : {"holdRelease"}, lots : {{l}}, hold : DOMAIN hold[l], qty : 0 .. OnHand,
                      action : {"releaseAccepted", "releaseRejected"}]
           Iqc == [kind : {"confirm"}, lots : Each(InboundLots), type : {"IQC"},
                   judgment : Judgments \ {"EXCEEDED"}]
           Pqc == [kind : {"confirm"}, lots : Once(SlotLots), type : {"PQC"}, judgment : Judgments]
           Oqc == [kind : {"confirm"}, lots : Once(PickedLots), type : {"OQC"},
                   judgment : Judgments \ {"EXCEEDED"}]
           SkipP == [kind : {"pqcSkip"}, lots : Once(SlotLots)]
           SkipO == [kind : {"oqcSkip"}, lots : Once(PickedLots)]
           Rep == [kind : {"report"}, lots : (SUBSET (world.scope \cap SlotLots)) \ {{}}]
           Reg == [kind : {"iqcSkip", "register"}, lots : Each(InboundLots)]
           Req == [kind : {"requestDisposition", "apply"},
                   lots : {L \in Each(InboundLots) : \A l \in L : HasNc(l)}]
           Dis == [kind : {"dispose"}, lots : {L \in Each(InboundLots) : \A l \in L : HasNc(l)},
                   type : {"REWORK", "SCRAP", "NORMAL", "SORT"}, qty : 1 .. Affected]
           Con == [kind : {"concede"}, lots : {L \in Each(InboundLots) : \A l \in L : HasNc(l)},
                   qty : 1 .. Affected]
<1>0. world.scope \subseteq Lots
  <2>1. world \in Worlds
    BY Types
  <2> QED
    BY <2>1, LotQualityAssumption DEF Lots
<1>1. \A kind \in {"holdCreate", "holdRelease", "confirm", "iqcSkip", "pqcSkip", "oqcSkip", "report",
                   "register", "requestDisposition", "dispose", "concede", "apply"} :
        kind \in DOMAIN Plan /\ kind # "none"
  BY DEF Plan
<1>2. \A L \in Each(InboundLots) : \E l \in InboundLots : L = {l}
  BY DEF Each
<1>3. 0 \in 0 .. OnHand
  BY LotQualityAssumption
<1>4. ASSUME op.lots \in Each(InboundLots)
      PROVE  OneLot(op, InboundLots) /\ op.lots \subseteq Lots
  BY <1>2, <1>4 DEF OneLot, Lots
<1>5. CASE op \in Susp
  BY <1>0, <1>1, <1>5 DEF OpOK
<1>6. CASE op \in Claim
  BY <1>0, <1>1, <1>3, <1>6 DEF OpOK, Full
<1>7. ASSUME NEW l \in world.scope, op \in Rel(l)
      PROVE  /\ OpOK(op) /\ op.kind = "holdRelease" /\ op.lots \subseteq Lots
             /\ op.hold \in DOMAIN hold[Of(op)]
  <2>1. op.lots = {l} /\ l \in Lots /\ op.kind = "holdRelease" /\ op.hold \in DOMAIN hold[l]
        /\ op.qty \in 0 .. OnHand /\ op.action \in {"releaseAccepted", "releaseRejected"}
    BY <1>0, <1>7
  <2>2. Of(op) = l
    BY <2>1 DEF Of
  <2> QED
    BY <1>1, <2>1, <2>2 DEF OpOK, OneLot
<1>8. CASE op \in Iqc
  BY <1>1, <1>4, <1>8 DEF OpOK
<1>9. CASE op \in Pqc \/ op \in Oqc
  BY <1>1, <1>9 DEF OpOK, Once
<1>10. CASE op \in SkipP \/ op \in SkipO
  BY <1>1, <1>10 DEF OpOK, Once
<1>11. CASE op \in Rep
  BY <1>1, <1>11 DEF OpOK, Lots
<1>12. CASE op \in Reg
  BY <1>1, <1>4, <1>12 DEF OpOK
<1>13. ASSUME op.lots \in {L \in Each(InboundLots) : \A l \in L : HasNc(l)}
       PROVE  HasNc(Of(op))
  <2>1. OneLot(op, InboundLots)
    BY <1>4, <1>13
  <2> QED
    BY <1>13, <2>1, OfOne
<1>14. CASE op \in Req
  BY <1>1, <1>4, <1>13, <1>14 DEF OpOK
<1>15. CASE op \in Dis
  BY <1>1, <1>4, <1>13, <1>15 DEF OpOK
<1>16. CASE op \in Con
  BY <1>1, <1>4, <1>13, <1>16 DEF OpOK
<1>17. CASE \E l \in world.scope : op \in Rel(l)
  BY <1>7, <1>17
<1>18. op \in {o \in Susp : assertHoldCreateShape(o)} \cup Claim \cup (UNION {Rel(l) : l \in world.scope})
            \cup Iqc \cup Pqc \cup Oqc \cup SkipP \cup SkipO \cup Rep \cup Reg \cup Req \cup Dis \cup Con
  BY Zenon DEF Calls
<1> HIDE DEF Susp, Claim, Rel, Iqc, Pqc, Oqc, SkipP, SkipO, Rep, Reg, Req, Dis, Con
<1>19. \/ op \in Susp \/ op \in Claim \/ \E l \in world.scope : op \in Rel(l)
       \/ op \in Iqc \/ op \in Pqc \/ op \in Oqc \/ op \in SkipP \/ op \in SkipO
       \/ op \in Rep \/ op \in Reg \/ op \in Req \/ op \in Dis \/ op \in Con
  BY <1>18
<1> QED
  BY <1>5, <1>6, <1>8, <1>9, <1>10, <1>11, <1>12, <1>14, <1>15, <1>16, <1>17, <1>19

LEMMA InvBegin ==
  ASSUME IInv, NEW t \in Sessions, NEW op \in Calls, Begin(t, op)
  PROVE  IInv'
<1> DEFINE y == [Idle EXCEPT !.op = op, !.view = View(op), !.lots = op.lots]
<1>1. /\ tx[t].op.kind = "none" /\ calls < world.calls /\ calls' = calls + 1
      /\ op.kind = "requestDisposition" => Latest(Of(op)).status = "NOT_REQUESTED"
      /\ tx' = [tx EXCEPT ![t] = y]
      /\ UNCHANGED <<world, lot, hold, request, nc, concession, lock>>
  BY DEF Begin
<1>2. /\ OpOK(op) /\ op.kind # "none" /\ op.lots \subseteq Lots
      /\ op.kind = "holdRelease" => op.hold \in DOMAIN hold[Of(op)]
      /\ op.kind \in {"requestDisposition", "dispose", "concede", "apply"} => HasNc(Of(op))
  BY CallFields
<1>3. /\ y.op = op /\ y.stage = 1 /\ y.view = View(op) /\ y.lots = op.lots
      /\ Shape(y)
  <2> DEFINE v == View(op)
  <2> HIDE DEF v
  <2>1. y = [Idle EXCEPT !.op = op, !.view = v, !.lots = op.lots]
    BY DEF v
  <2>2. y.op = op /\ y.stage = 1 /\ y.view = v /\ y.lots = op.lots
    BY <2>1 DEF Idle
  <2>3. y \in [op : {op}, stage : Nat, view : {v}, lots : {op.lots}, seen : {<<>>}, note : {0}]
    BY <2>1 DEF Idle
  <2> HIDE DEF y
  <2>4. Shape(y)
    BY <1>2, <2>2, <2>3 DEF Shape
  <2> QED
    BY <2>2, <2>4 DEF v
<1> HIDE DEF y
<1>4. DOMAIN tx = Sessions
  BY DEF IInv, Calm
<1>5. DOMAIN tx' = Sessions /\ tx'[t] = y /\ \A u \in Sessions \ {t} : tx'[u] = tx[u]
  BY <1>1, <1>4
<1>6. \A s : ~ Past(t, s)'
  <2>1. Plan[op.kind] \in Seq({"head", "lots", "requests"})
    BY <1>2, PlanStages DEF OpOK
  <2>2. \A k \in DOMAIN Plan[op.kind] : ~ (k < 1)
    BY <2>1
  <2> QED
    BY <1>3, <1>5, <2>2 DEF Past
<1>7. Framed(t)'
  <2>1. OpOK(tx[t].op)'
    BY <1>2, <1>3, <1>5 DEF OpOK, OneLot, Lots, InspectionWait, Judgments, Plan
  <2>2. op.kind = "oqcSkip" \/ (op.kind = "confirm" /\ op.type = "OQC") => op.lots \subseteq PickedLots
    BY <1>2 DEF OpOK
  <2> QED
    BY <1>3, <1>5, <2>1, <2>2 DEF Framed, Shape
<1>8. Held(t)'
  BY <1>6 DEF Held
<1>9. Stands(t)'
  <2>1. PICK l : l = Of(op)
    OBVIOUS
  <2>2. Of(tx[t].op)' = l /\ tx'[t].op = op /\ tx'[t].view = View(op)
    BY <1>3, <1>5, <2>1 DEF Of
  <2>3. UNCHANGED <<world, hold, request, nc>>
    BY <1>1
  <2>4. Latest(l)' = Latest(l) /\ (HasNc(l)' <=> HasNc(l))
    BY <2>3 DEF Latest, HasNc
  <2>5. CASE op.kind = "holdRelease"
    BY <1>2, <1>6, <2>1, <2>2, <2>3, <2>5 DEF Stands
  <2>6. CASE op.kind = "requestDisposition"
    <3>1. View(op) = <<Len(nc[l]), Latest(l).version>>
      BY <2>1, <2>6 DEF View
    <3>2. tx'[t].view[1] = Len(nc[l]) /\ tx'[t].view[2] = Latest(l).version
      BY <2>2, <3>1
    <3>3. HasNc(l) /\ l \in InboundLots /\ Latest(l).status = "NOT_REQUESTED"
      BY <1>1, <1>2, <2>1, <2>6, OfOne DEF OpOK
    <3>4. Len(nc[l]) \in Nat /\ Latest(l).version \in Nat
      BY <3>3, LatestTyped DEF NcRow
    <3> QED
      BY <2>2, <2>3, <2>4, <2>6, <3>2, <3>3, <3>4 DEF Stands
  <2>7. CASE op.kind \in {"dispose", "concede", "apply"}
    BY <1>2, <1>6, <2>1, <2>2, <2>4, <2>7 DEF Stands
  <2>8. CASE op.kind \notin {"holdRelease", "requestDisposition", "dispose", "concede", "apply"}
    BY <1>6, <2>2, <2>8 DEF Stands
  <2> QED
    BY <2>5, <2>6, <2>7, <2>8
<1>10. ASSUME NEW u \in Sessions
       PROVE  Framed(u)' /\ Held(u)' /\ Stands(u)'
  <2>1. CASE u = t
    BY <1>7, <1>8, <1>9, <2>1
  <2>2. CASE u # t
    <3>1. tx'[u] = tx[u]
      BY <1>5, <2>2
    <3>2. Framed(u)'
      BY <1>1, <3>1, OthersFramed DEF IInv, Calm
    <3>3. Held(u)'
      BY <1>1, <3>1, OthersHeld
    <3>4. Stands(u)'
      BY <1>1, <3>1, StandsSame DEF IInv, Calm
    <3> QED
      BY <3>2, <3>3, <3>4
  <2> QED
    BY <2>1, <2>2
<1>11. Calm'
  BY <1>5, <1>10 DEF Calm
<1>12. LotsFit' /\ NcsFit'
  <2>1. LotsFit /\ NcsFit
    BY DEF IInv
  <2> QED
    BY <1>1, <2>1 DEF LotsFit, LotFits, OneFull, Uncounted, NcsFit, NcFits
<1>13. TypeOK'
  <2>1. TypeOK
    BY DEF IInv
  <2>2. calls' \in 0 .. world'.calls
    <3>1. world.calls \in Nat /\ calls \in 0 .. world.calls
      BY <2>1, LotQualityAssumption DEF TypeOK
    <3>2. world'.calls = world.calls
      BY <1>1
    <3> QED
      BY <1>1, <3>1, <3>2
  <2>3. \A r \in Rows \cup Lots : \A u \in Sessions : lock'[r] = u => tx'[u].op.kind # "none"
    <3> TAKE r \in Rows \cup Lots
    <3> TAKE u \in Sessions
    <3> HAVE lock'[r] = u
    <3>1. tx[u].op.kind # "none"
      BY <1>1, <2>1 DEF TypeOK
    <3> QED
      BY <1>1, <1>2, <1>3, <1>5, <3>1
  <2> QED
    BY <1>1, <2>1, <2>2, <2>3 DEF TypeOK
<1> QED
  BY <1>11, <1>12, <1>13 DEF IInv

LEMMA InvNext ==
  ASSUME IInv, [Next]_vars
  PROVE  IInv'
<1>1. CASE Next
  BY <1>1, InvBegin, InvLockHead, InvLockRequests, InvLockLots, InvCommit, InvAbort DEF Next
<1>2. CASE UNCHANGED vars
  <2>1. \A u \in Sessions : Framed(u)' /\ Held(u)' /\ Stands(u)'
    <3> TAKE u \in Sessions
    <3>1. Framed(u) /\ Held(u) /\ Stands(u) /\ tx'[u] = tx[u]
          /\ UNCHANGED <<world, hold, request, nc, lock>>
      BY <1>2 DEF IInv, Calm, vars
    <3> QED
      BY <3>1, OthersFramed, OthersHeld, StandsSame
  <2>2. TypeOK'
    BY <1>2 DEF IInv, TypeOK, vars
  <2>3. LotsFit' /\ NcsFit'
    BY <1>2 DEF IInv, vars, LotsFit, LotFits, OneFull, Uncounted, NcsFit, NcFits
  <2>4. DOMAIN tx' = Sessions
    BY <1>2 DEF IInv, Calm, vars
  <2> QED
    BY <2>1, <2>2, <2>3, <2>4 DEF IInv, Calm
<1> QED
  BY <1>1, <1>2
-----------------------------------------------------------------------------
(* The first state. *)

LEMMA InitCalm ==
  ASSUME Init
  PROVE  Calm
<1>1. DOMAIN tx = Sessions /\ \A t \in Sessions : tx[t] = Idle
  BY DEF Init
<1>2. ASSUME NEW t \in Sessions
      PROVE  Framed(t) /\ Held(t) /\ Stands(t)
  <2> DEFINE x == tx[t]
  <2>1. x = Idle
    BY <1>1
  <2>2. /\ x.op = [kind |-> "none"] /\ x.stage = 1 /\ x.lots = {}
        /\ x \in [op : {x.op}, stage : Nat, view : {x.view}, lots : SUBSET Lots, seen : {x.seen},
                  note : {x.note}]
    BY <2>1 DEF Idle
  <2>3. x.op.kind = "none" /\ "none" \in DOMAIN Plan /\ Plan["none"] = <<>>
    BY <2>2 DEF Plan
  <2>4. OpOK(x.op)
    BY <2>3 DEF OpOK
  <2>5. \A s : ~ Past(t, s)
    BY <2>3 DEF Past
  <2>6. Framed(t)
    BY <2>2, <2>3, <2>4 DEF Framed, OwnLots
  <2>7. Held(t)
    BY <2>5 DEF Held
  <2>8. Stands(t)
    BY <2>3 DEF Stands
  <2> QED
    BY <2>6, <2>7, <2>8
<1> QED
  BY <1>1, <1>2 DEF Calm

LEMMA InitLots ==
  ASSUME Init
  PROVE  lot \in [Lots -> LotRow] /\ hold \in [Lots -> Seq(HoldRow)] /\ LotsFit
<1>1. /\ 0 \in 0 .. OnHand /\ 1 \in 0 .. OnHand
      /\ {"born", "suspect", "accepted", "rejected"} \subseteq DOMAIN TRANSITIONS \cup {"born"}
  BY LotQualityAssumption DEF TRANSITIONS
<1>2. ASSUME NEW status \in NotScrapped, NEW life \in {"WAITING", "ACTIVE"},
             NEW by \in {"born", "suspect", "accepted", "rejected"}
      PROVE  /\ NewLot(status, life, by) \in LotRow
             /\ NewLot(status, life, by).status = status /\ NewLot(status, life, by).by = by
  BY <1>1 DEF NewLot, LotRow
<1>3. PICK produced \in SUBSET (SlotLots \cap world.scope) :
        lot = [l \in Lots |->
                 CASE l \in PickedLots -> IF world.held THEN NewLot("INSPECTION_PENDING", "ACTIVE", "suspect")
                                         ELSE NewLot("NORMAL", "ACTIVE", "accepted")
                   [] l \in SlotLots -> NewLot("INSPECTION_PENDING",
                                             IF l \in produced THEN "ACTIVE" ELSE "WAITING", "born")
                   [] OTHER -> IF world.rejected THEN NewLot("DEFECTIVE", "ACTIVE", "rejected")
                               ELSE NewLot("INSPECTION_PENDING", "ACTIVE", "born")]
  BY DEF Init
<1>4. hold = [l \in Lots |-> CASE l \in InboundLots -> <<Hold(InspectionWait, Full)>>
                               [] l \in PickedLots /\ world.held -> <<Hold("OTHER", 1)>>
                               [] OTHER -> <<>>]
  BY DEF Init
<1>5. /\ Hold(InspectionWait, Full) \in HoldRow /\ Hold(InspectionWait, Full).open
      /\ Hold("OTHER", 1) \in HoldRow /\ Hold("OTHER", 1).open
  BY <1>1 DEF Hold, HoldRow, Full
<1>6. ASSUME NEW h \in HoldRow, h.open, NEW rows, rows = <<h>>
      PROVE  rows \in Seq(HoldRow) /\ OpenIn(rows) = {1}
  BY <1>6 DEF OpenIn
<1>7. ASSUME NEW rows, rows = <<>>
      PROVE  rows \in Seq(HoldRow) /\ OpenIn(rows) = {}
  BY <1>7 DEF OpenIn
<1>8. ASSUME NEW l \in Lots
      PROVE  /\ lot[l] \in LotRow /\ hold[l] \in Seq(HoldRow)
             /\ lot[l].status = "NORMAL" /\ ~ Uncounted(l) => OpenIn(hold[l]) = {}
             /\ lot[l].by = "suspect" /\ lot[l].status = "INSPECTION_PENDING" => OpenIn(hold[l]) # {}
             /\ OneFull(l)
  <2>1. CASE l \in InboundLots
    <3>1. l \notin PickedLots /\ l \notin SlotLots
      BY <2>1, LotQualityAssumption
    <3>2. lot[l] = IF world.rejected THEN NewLot("DEFECTIVE", "ACTIVE", "rejected")
                   ELSE NewLot("INSPECTION_PENDING", "ACTIVE", "born")
      BY <1>3, <3>1
    <3>3. lot[l] \in LotRow /\ lot[l].status # "NORMAL" /\ lot[l].by # "suspect"
      BY <1>2, <3>2 DEF NotScrapped
    <3>4. hold[l] = <<Hold(InspectionWait, Full)>>
      <4> DEFINE A == <<Hold(InspectionWait, Full)>>
                 B == <<Hold("OTHER", 1)>>
      <4>1. hold = [k \in Lots |-> CASE k \in InboundLots -> A
                                    [] k \in PickedLots /\ world.held -> B
                                    [] OTHER -> <<>>]
        BY <1>4
      <4> HIDE DEF A, B
      <4>2. hold[l] = A
        BY <2>1, <3>1, <4>1
      <4> QED
        BY <4>2 DEF A
    <3>5. hold[l] \in Seq(HoldRow) /\ OpenIn(hold[l]) = {1}
      BY <1>5, <1>6, <3>4
    <3> QED
      BY <3>3, <3>5 DEF OneFull
  <2>2. CASE l \in SlotLots
    <3>1. l \notin PickedLots /\ l \notin InboundLots
      BY <2>2, LotQualityAssumption
    <3>2. lot[l] = NewLot("INSPECTION_PENDING", IF l \in produced THEN "ACTIVE" ELSE "WAITING", "born")
      BY <1>3, <2>2, <3>1
    <3>3. lot[l] \in LotRow /\ lot[l].status # "NORMAL" /\ lot[l].by # "suspect"
      BY <1>2, <3>2 DEF NotScrapped
    <3>4. hold[l] \in Seq(HoldRow) /\ OpenIn(hold[l]) = {}
      BY <1>4, <1>7, <3>1
    <3> QED
      BY <3>3, <3>4 DEF OneFull
  <2>3. CASE l \in PickedLots
    <3>1. l \notin SlotLots /\ l \notin InboundLots
      BY <2>3, LotQualityAssumption
    <3>2. lot[l] = IF world.held THEN NewLot("INSPECTION_PENDING", "ACTIVE", "suspect")
                   ELSE NewLot("NORMAL", "ACTIVE", "accepted")
      BY <1>3, <2>3, <3>1
    <3>3. CASE world.held
      <4>1. lot[l] \in LotRow /\ lot[l].status # "NORMAL"
        BY <1>2, <3>2, <3>3 DEF NotScrapped
      <4>2. hold[l] = <<Hold("OTHER", 1)>>
        BY <1>4, <2>3, <3>1, <3>3
      <4>3. hold[l] \in Seq(HoldRow) /\ OpenIn(hold[l]) = {1}
        BY <1>5, <1>6, <4>2
      <4> QED
        BY <4>1, <4>3 DEF OneFull
    <3>4. CASE ~ world.held
      <4>1. lot[l] \in LotRow /\ lot[l].by # "suspect"
        BY <1>2, <3>2, <3>4 DEF NotScrapped
      <4>2. hold[l] \in Seq(HoldRow) /\ OpenIn(hold[l]) = {}
        BY <1>4, <1>7, <3>1, <3>4
      <4> QED
        BY <4>1, <4>2 DEF OneFull
    <3> QED
      BY <3>3, <3>4
  <2> QED
    BY <2>1, <2>2, <2>3 DEF Lots
<1>9. lot \in [Lots -> LotRow] /\ hold \in [Lots -> Seq(HoldRow)]
  BY <1>3, <1>4, <1>8
<1> QED
  BY <1>8, <1>9 DEF LotsFit, LotFits

LEMMA InitIInv ==
  ASSUME Init
  PROVE  IInv
<1>1. Calm /\ lot \in [Lots -> LotRow] /\ hold \in [Lots -> Seq(HoldRow)] /\ LotsFit
  BY InitCalm, InitLots
<1>2. world \in Worlds /\ world.calls \in Nat
  BY LotQualityAssumption DEF Init
<1>3. request \in [Requests -> RequestRow]
  <2>1. PICK pqc \in {"REQUESTED", "SKIPPED", "ABSENT"} :
          request = [q \in Requests |->
                       CASE q = PQC /\ pqc # "REQUESTED" ->
                               [status |-> pqc, result |-> "NONE", judgment |-> "NONE"]
                         [] q.type = "IQC" /\ world.rejected ->
                               [status |-> "COMPLETED", result |-> "CONFIRMED", judgment |-> "REJECTED"]
                         [] OTHER -> [status |-> "REQUESTED", result |-> "DRAFT", judgment |-> "NONE"]]
    BY DEF Init
  <2>2. /\ [status |-> pqc, result |-> "NONE", judgment |-> "NONE"] \in RequestRow
        /\ [status |-> "COMPLETED", result |-> "CONFIRMED", judgment |-> "REJECTED"] \in RequestRow
        /\ [status |-> "REQUESTED", result |-> "DRAFT", judgment |-> "NONE"] \in RequestRow
    BY DEF RequestRow, Open, Judgments
  <2> DEFINE A == [status |-> pqc, result |-> "NONE", judgment |-> "NONE"]
             B == [status |-> "COMPLETED", result |-> "CONFIRMED", judgment |-> "REJECTED"]
             C == [status |-> "REQUESTED", result |-> "DRAFT", judgment |-> "NONE"]
  <2>3. A \in RequestRow /\ B \in RequestRow /\ C \in RequestRow
    BY <2>2
  <2>4. request = [q \in Requests |-> CASE q = PQC /\ pqc # "REQUESTED" -> A
                                         [] q.type = "IQC" /\ world.rejected -> B
                                         [] OTHER -> C]
    BY <2>1
  <2> HIDE DEF A, B, C
  <2> QED
    BY <2>3, <2>4
<1>4. /\ nc \in [InboundLots -> Seq(NcRow)]
      /\ NcsFit
  <2> DEFINE row == NewNc("PENDING_DECISION", TRUE)
  <2>1. row \in NcRow /\ row.decided = 0 /\ row.status = "PENDING_DECISION"
    BY DEF NewNc, NcRow
  <2>2. nc = [l \in InboundLots |-> IF world.rejected THEN <<row>> ELSE <<>>]
    BY DEF Init
  <2> HIDE DEF row
  <2>3. <<row>> \in Seq(NcRow) /\ Len(<<row>>) = 1 /\ DOMAIN <<row>> = {1} /\ <<row>>[1] = row
    BY <2>1
  <2>4. nc \in [InboundLots -> Seq(NcRow)]
    BY <2>2, <2>3
  <2>5. ASSUME NEW l \in InboundLots PROVE NcFits(l)
    <3>1. CASE world.rejected
      <4>1. Len(nc[l]) = 1 /\ DOMAIN nc[l] = {1} /\ nc[l][1] = row
        BY <2>2, <2>3, <3>1
      <4> QED
        BY <2>1, <4>1, LotQualityAssumption DEF NcFits
    <3>2. CASE ~ world.rejected
      <4>1. DOMAIN nc[l] = {}
        BY <2>2, <3>2
      <4> QED
        BY <4>1 DEF NcFits
    <3> QED
      BY <3>1, <3>2
  <2> QED
    BY <2>4, <2>5 DEF NcsFit
<1>5. concession \in [InboundLots -> ConcessionRow]
  <2>1. [status |-> "NONE", qty |-> 1] \in ConcessionRow
    BY LotQualityAssumption DEF ConcessionRow
  <2> QED
    BY <2>1 DEF Init
<1>6. lock \in [Rows \cup Lots -> Sessions \cup {NoSession}]
  BY DEF Init
<1>7. \A r \in Rows \cup Lots : \A t \in Sessions : lock[r] = t => tx[t].op.kind # "none"
  BY LotQualityAssumption DEF Init
<1>8. calls \in 0 .. world.calls
  BY <1>2 DEF Init
<1>9. TypeOK
  BY <1>1, <1>2, <1>3, <1>4, <1>5, <1>6, <1>7, <1>8 DEF TypeOK, RequestRow, ConcessionRow
<1> QED
  BY <1>1, <1>4, <1>9 DEF IInv
-----------------------------------------------------------------------------
(* An incoming inspection is skipped over only while it is open: who else  *)
(* moves a lot records another action.                                     *)

LEMMA SkippedWhileOpen ==
  ASSUME IInv, [Next]_vars, NEW l \in InboundLots,
         lot'[l] # lot[l], lot'[l].by = "iqcSkipped"
  PROVE  request[IQC(l)].status \in Open
<1>1. PICK t \in Sessions : Commit(t)
  BY DEF Next, vars, Begin, LockHead, LockRequests, LockLots, Abort
<1> DEFINE op == tx[t].op
<1>2. l \in Lots
  BY DEF Lots
<1>3. \A L : \A action \in DOMAIN TRANSITIONS \ {"iqcSkipped"} : lot' # moveWithin(L, action)
  BY <1>2, MovedLots
<1>4. {"accepted", "held", "rejected", "exceeded", "releaseAccepted", "releaseRejected", "claim", "suspect",
       "pqcSkipApproved", "oqcSkipped", "REWORK", "SCRAP", "NORMAL", "SORT", "concession"}
        \subseteq DOMAIN TRANSITIONS \ {"iqcSkipped"}
  BY DEF TRANSITIONS
<1>5. OpOK(op)
  BY DEF IInv, Calm, Framed
<1>6. ~ LotHoldCreate(t) /\ ~ LotHoldRelease(t)
  <2>1. ASSUME LotHoldCreate(t) PROVE FALSE
    <3>1. op.kind = "holdCreate" /\ lot' = moveWithin(op.lots, op.action)
      BY <2>1 DEF LotHoldCreate, Does
    <3> QED
      BY <1>3, <1>4, <1>5, <3>1 DEF OpOK
  <2>2. ASSUME LotHoldRelease(t) PROVE FALSE
    <3>1. op.kind = "holdRelease" /\ \E L : lot' = moveWithin(L, op.action)
      BY <2>2 DEF LotHoldRelease, Does
    <3> QED
      BY <1>3, <1>4, <1>5, <3>1 DEF OpOK
  <2> QED
    BY <2>1, <2>2
<1>7. ~ ConfirmIqc(t)
  <2> SUFFICES ASSUME ConfirmIqc(t) PROVE FALSE
    OBVIOUS
  <2> DEFINE action == [ACCEPTED |-> "accepted", HELD |-> "held", REJECTED |-> "rejected"][op.judgment]
  <2>1. op.kind = "confirm" /\ op.type = "IQC" /\ \E L : lot' = moveWithin(L, action)
    BY DEF ConfirmIqc
  <2>2. op.judgment \in {"ACCEPTED", "HELD", "REJECTED"}
    BY <1>5, <2>1 DEF OpOK, Judgments
  <2>3. action \in {"accepted", "held", "rejected"}
    BY <2>2
  <2> HIDE DEF action
  <2> QED
    BY <1>3, <1>4, <2>1, <2>3
<1>8. ~ ConfirmPqc(t)
  <2> SUFFICES ASSUME ConfirmPqc(t) PROVE FALSE
    OBVIOUS
  <2>1. \/ \E L : lot' = moveWithin(L, "exceeded")
        \/ \E L : lot' = moveWithin(L, "accepted")
    BY DEF ConfirmPqc
  <2> QED
    BY <1>3, <1>4, <2>1
<1>9. ~ ConfirmOqc(t) /\ ~ SkipPqc(t) /\ ~ SkipOqc(t)
  <2>1. ASSUME ConfirmOqc(t) \/ SkipPqc(t) \/ SkipOqc(t)
        PROVE  \E L : \E action \in {"accepted", "rejected", "pqcSkipApproved", "oqcSkipped"} :
                 lot' = moveWithin(L, action)
    BY <2>1 DEF ConfirmOqc, SkipPqc, SkipOqc
  <2> QED
    BY <1>3, <1>4, <2>1
<1>10. ~ ReportProduction(t)
  BY <1>2, EffectReportProduction, LotQualityAssumption
<1>11. ~ RegisterNonconformance(t) /\ ~ RequestDisposition(t) /\ ~ RequestConcession(t)
  BY DEF RegisterNonconformance, RequestDisposition, RequestConcession
<1>12. ~ Dispose(t)
  <2> SUFFICES ASSUME Dispose(t) PROVE FALSE
    OBVIOUS
  <2>1. op.kind = "dispose" /\ \E L : lot' = moveWithin(L, op.type)
    BY DEF Dispose, Does
  <2> QED
    BY <1>3, <1>4, <1>5, <2>1 DEF OpOK
<1>13. ~ ApplyConcession(t)
  <2> SUFFICES ASSUME ApplyConcession(t) PROVE FALSE
    OBVIOUS
  <2>1. lot' = lot \/ \E L : lot' = moveWithin(L, "concession")
    BY DEF ApplyConcession
  <2> QED
    BY <1>3, <1>4, <2>1
<1>14. SkipIqc(t)
  BY <1>1, <1>6, <1>7, <1>8, <1>9, <1>10, <1>11, <1>12, <1>13 DEF Commit
<1>15. Done(t) /\ op.kind = "iqcSkip" /\ lot' = moveWithin({Of(op)}, "iqcSkipped")
  BY <1>14 DEF SkipIqc, Does
<1>16. l = Of(op)
  <2>1. "iqcSkipped" \in DOMAIN TRANSITIONS
    BY DEF TRANSITIONS
  <2> QED
    BY <1>2, <1>15, <2>1, MovedLots
<1>17. Past(t, "lots") /\ Stands(t)
  BY <1>15, AllPast DEF IInv, Calm
<1> QED
  BY <1>15, <1>16, <1>17 DEF Stands

LEMMA AtMostOne ==
  ASSUME NEW S, \A i, j \in S : i = j
  PROVE  Cardinality(S) <= 1
<1>1. CASE S = {}
  BY <1>1, FS_EmptySet
<1>2. CASE S # {}
  <2>1. PICK i \in S : TRUE
    BY <1>2
  <2>2. S = {i}
    BY <2>1
  <2>3. Cardinality({i}) = 1
    BY FS_Singleton
  <2>4. Cardinality(S) = 1
    BY <2>2, <2>3
  <2> QED
    BY <2>4
<1> QED
  BY <1>1, <1>2

(* No lot has two open holds over its whole quantity (DUPLICATE_HOLD),     *)
(* although the check and the insert are apart and a partial release adds  *)
(* a hold for the rest: of two such holds that arrive at once the second   *)
(* finds the first (assertNoOpenFullHold under lockLotsWithin).            *)
LEMMA OneFullThere ==
  ASSUME IInv, NEW l \in Lots
  PROVE  Cardinality({i \in OpenIn(hold[l]) : hold[l][i].qty = Full}) <= 1
<1> DEFINE S == {i \in OpenIn(hold[l]) : hold[l][i].qty = Full}
<1>1. OneFull(l)
  BY DEF IInv, LotsFit, LotFits
<1>2. \A i, j \in S : i = j
  BY <1>1 DEF OneFull
<1> HIDE DEF S
<1>3. Cardinality(S) <= 1
  BY <1>2, AtMostOne
<1> QED
  BY <1>3 DEF S
-----------------------------------------------------------------------------
(* Sums over finite sets: MapThenSumSet of a function, which is a fold.    *)
Sum(f, S) == MapThenSumSet(LAMBDA x : f[x], S)

(* Induction over the natural numbers, for a set instead of a predicate.   *)
LEMMA Induction ==
  ASSUME NEW S, 0 \in S, \A n \in Nat : n \in S => n + 1 \in S
  PROVE  Nat \subseteq S
<1> DEFINE T == {n \in Nat : n \notin S}
           R == OpToRel(<, Nat)
<1> SUFFICES ASSUME T # {} PROVE FALSE
  OBVIOUS
<1>1. IsWellFoundedOn(R, Nat)
  BY NatLessThanWellFounded
<1>2. T \subseteq Nat
  OBVIOUS
<1> HIDE DEF T, R
<1>3. PICK x \in T : \A y \in T : ~ (<<y, x>> \in R)
  BY <1>1, <1>2, WFMin
<1> USE DEF T, R
<1>4. x \in Nat /\ x # 0 /\ x - 1 \in Nat
  OBVIOUS
<1>5. <<x - 1, x>> \in R
  BY <1>4 DEF OpToRel
<1>6. x - 1 \notin T
  BY <1>3, <1>5
<1> QED BY <1>4, <1>6

(* Induction over the finite subsets of U: C has the empty one, and each   *)
(* one that it has with any element taken away.                            *)
LEMMA FiniteInduction ==
  ASSUME NEW U, NEW C, {} \in C,
         \A T \in SUBSET U : IsFiniteSet(T) /\ T # {} /\ (\A x \in T : T \ {x} \in C) => T \in C
  PROVE  \A T \in SUBSET U : IsFiniteSet(T) => T \in C
<1> DEFINE N == {n \in Nat : \A T \in SUBSET U : IsFiniteSet(T) /\ Cardinality(T) = n => T \in C}
<1>1. 0 \in N
  BY FS_EmptySet
<1>2. ASSUME NEW n \in Nat, n \in N PROVE n + 1 \in N
  <2> SUFFICES ASSUME NEW T \in SUBSET U, IsFiniteSet(T), Cardinality(T) = n + 1 PROVE T \in C
    OBVIOUS
  <2>1. T # {}
    BY FS_EmptySet
  <2>2. ASSUME NEW x \in T PROVE T \ {x} \in C
    <3>1. IsFiniteSet(T \ {x}) /\ Cardinality(T \ {x}) = Cardinality(T) - 1
      BY FS_RemoveElement
    <3>2. Cardinality(T \ {x}) = n
      BY <3>1
    <3> QED BY <1>2, <3>1, <3>2
  <2> QED BY <2>1, <2>2
<1> HIDE DEF N
<1>3. Nat \subseteq N
  BY <1>1, <1>2, Induction
<1> USE DEF N
<1> QED BY <1>3, FS_CardinalityType

(* The recursion behind the fold: an element, and the rest.                *)
First(s) == CHOOSE x \in s : TRUE
IsIter(f, S, g) == g = [s \in SUBSET S |-> IF s = {} THEN 0 ELSE f[First(s)] + g[s \ {First(s)}]]

(* Sum is a solution of the recursion, if there is one.                    *)
LEMMA SumIsIter ==
  ASSUME NEW f, NEW S, NEW g, IsIter(f, S, g)
  PROVE  \E h : IsIter(f, S, h) /\ Sum(f, S) = h[S]
<1> DEFINE it == CHOOSE h : h = [s \in SUBSET S |-> IF s = {} THEN 0 ELSE f[First(s)] + h[s \ {First(s)}]]
<1>1. Sum(f, S) = it[S]
  BY DEF Sum, MapThenSumSet, MapThenFoldSet, First
<1>2. IsIter(f, S, it)
  BY DEF IsIter
<1> QED BY <1>1, <1>2

(* A solution for the sets of at most n elements.                          *)
Small(S, n) == {s \in SUBSET S : Cardinality(s) <= n}
UpTo(f, S, n, g) ==
  g = [s \in Small(S, n) |-> IF s = {} THEN 0 ELSE f[First(s)] + g[s \ {First(s)}]]

(* The recursion has a solution: there is one for every n.                 *)
LEMMA IterExists ==
  ASSUME NEW f, NEW S, IsFiniteSet(S)
  PROVE  \E g : IsIter(f, S, g)
<1> DEFINE N == {n \in Nat : \E g : UpTo(f, S, n, g)}
<1>0. ASSUME NEW s \in SUBSET S
      PROVE  /\ IsFiniteSet(s) /\ Cardinality(s) \in Nat
             /\ Cardinality(s) = 0 <=> s = {}
             /\ s # {} => /\ First(s) \in s /\ s \ {First(s)} \in SUBSET S
                         /\ Cardinality(s \ {First(s)}) = Cardinality(s) - 1
  BY FS_Subset, FS_CardinalityType, FS_EmptySet, FS_RemoveElement DEF First
<1>1. 0 \in N
  <2>1. ASSUME NEW s \in Small(S, 0) PROVE s = {}
    <3>1. s \in SUBSET S /\ Cardinality(s) <= 0
      BY DEF Small
    <3>2. PICK c \in Nat : c = Cardinality(s)
      BY <1>0, <3>1
    <3>3. c = 0
      BY <3>1, <3>2
    <3> QED BY <1>0, <3>1, <3>2, <3>3
  <2>2. PICK g : g = [s \in Small(S, 0) |-> 0]
    OBVIOUS
  <2>3. g = [s \in Small(S, 0) |-> IF s = {} THEN 0 ELSE f[First(s)] + g[s \ {First(s)}]]
    BY <2>1, <2>2
  <2> QED BY <2>3 DEF UpTo
<1>2. ASSUME NEW n \in Nat, n \in N PROVE n + 1 \in N
  <2>1. PICK g : UpTo(f, S, n, g)
    BY <1>2
  <2>2. PICK h : h = [s \in Small(S, n + 1) |-> IF s = {} THEN 0 ELSE f[First(s)] + g[s \ {First(s)}]]
    OBVIOUS
  <2>3. ASSUME NEW s \in Small(S, n) PROVE s \in Small(S, n + 1) /\ h[s] = g[s]
    <3>1. s \in SUBSET S /\ Cardinality(s) <= n
      BY DEF Small
    <3>a. PICK c \in Nat : c = Cardinality(s)
      BY <1>0, <3>1
    <3>b. c <= n + 1
      BY <3>1, <3>a
    <3>2. s \in Small(S, n + 1)
      BY <3>1, <3>a, <3>b DEF Small
    <3>3. g[s] = IF s = {} THEN 0 ELSE f[First(s)] + g[s \ {First(s)}]
      BY <2>1 DEF UpTo
    <3> QED BY <2>2, <3>2, <3>3
  <2>4. ASSUME NEW s \in Small(S, n + 1), s # {} PROVE s \ {First(s)} \in Small(S, n)
    <3>1. s \in SUBSET S /\ Cardinality(s) <= n + 1
      BY DEF Small
    <3>2. s \ {First(s)} \in SUBSET S /\ Cardinality(s \ {First(s)}) <= n
      BY <1>0, <2>4, <3>1
    <3> QED BY <3>2 DEF Small
  <2>5. h = [s \in Small(S, n + 1) |-> IF s = {} THEN 0 ELSE f[First(s)] + h[s \ {First(s)}]]
    <3>1. ASSUME NEW s \in Small(S, n + 1), s # {}
          PROVE  g[s \ {First(s)}] = h[s \ {First(s)}]
      BY <2>3, <2>4, <3>1
    <3> QED BY <2>2, <3>1
  <2>6. UpTo(f, S, n + 1, h)
    BY <2>5 DEF UpTo
  <2> QED BY <2>6
<1>3. Cardinality(S) \in N
  <2> HIDE DEF N
  <2> QED BY <1>1, <1>2, Induction, FS_CardinalityType
<1>4. Small(S, Cardinality(S)) = SUBSET S
  BY FS_Subset DEF Small
<1> QED BY <1>3, <1>4 DEF IsIter, UpTo

(* Solutions for a set and for a subset of it agree.                       *)
LEMMA IterUnique ==
  ASSUME NEW f, NEW S, NEW T \in SUBSET S, IsFiniteSet(S), NEW g, IsIter(f, S, g), NEW h, IsIter(f, T, h)
  PROVE  g[T] = h[T]
<1> DEFINE C == {s \in SUBSET T : g[s] = h[s]}
<1>1. {} \in C
  BY DEF IsIter
<1>2. ASSUME NEW s \in SUBSET T, s # {}, \A x \in s : s \ {x} \in C
      PROVE  s \in C
  <2>1. First(s) \in s
    BY <1>2 DEF First
  <2>2. g[s \ {First(s)}] = h[s \ {First(s)}]
    BY <1>2, <2>1
  <2>3. g[s] = f[First(s)] + g[s \ {First(s)}] /\ h[s] = f[First(s)] + h[s \ {First(s)}]
    BY <1>2 DEF IsIter
  <2> QED BY <2>2, <2>3
<1>3. IsFiniteSet(T)
  BY FS_Subset
<1> HIDE DEF C
<1>4. T \in C
  BY <1>1, <1>2, <1>3, FiniteInduction
<1> USE DEF C
<1> QED BY <1>4

(* What Sum is: zero for no elements, and one element and the              *)
(* rest otherwise.                                                         *)
LEMMA SumStep ==
  ASSUME NEW f, NEW S, IsFiniteSet(S)
  PROVE  /\ S = {} => Sum(f, S) = 0
         /\ S # {} => /\ First(S) \in S
                     /\ Sum(f, S) = f[First(S)] + Sum(f, S \ {First(S)})
<1>1. PICK g : IsIter(f, S, g) /\ Sum(f, S) = g[S]
  BY IterExists, SumIsIter
<1>2. CASE S = {}
  BY <1>1, <1>2 DEF IsIter
<1>3. CASE S # {}
  <2>1. PICK T : T = S \ {First(S)}
    OBVIOUS
  <2>2. First(S) \in S /\ T \in SUBSET S /\ IsFiniteSet(T)
    BY <1>3, <2>1, FS_Subset DEF First
  <2>3. PICK h : IsIter(f, T, h) /\ Sum(f, T) = h[T]
    BY <2>2, IterExists, SumIsIter
  <2>4. g[T] = h[T]
    BY <1>1, <2>2, <2>3, IterUnique
  <2>5. g[S] = f[First(S)] + g[T]
    BY <1>1, <1>3, <2>1 DEF IsIter
  <2> QED BY <1>1, <1>3, <2>1, <2>2, <2>3, <2>4, <2>5
<1> QED BY <1>2, <1>3

(* No terms: the fold starts at zero.                                      *)
LEMMA SumEmpty == \A f : Sum(f, {}) = 0
<1> TAKE f
<1>1. IsFiniteSet({})
  BY FS_EmptySet
<1> QED BY <1>1, SumStep

(* Whole terms have a whole sum.                                           *)
LEMMA SumIsInt ==
  ASSUME NEW f, NEW S, IsFiniteSet(S), \A x \in S : f[x] \in Int
  PROVE  Sum(f, S) \in Int
<1> DEFINE C == {T \in SUBSET S : Sum(f, T) \in Int}
<1>1. {} \in C
  BY SumEmpty
<1>2. ASSUME NEW T \in SUBSET S, IsFiniteSet(T), T # {}, \A x \in T : T \ {x} \in C
      PROVE  T \in C
  <2>1. PICK x : x = First(T)
    OBVIOUS
  <2>2. x \in T /\ Sum(f, T) = f[x] + Sum(f, T \ {x})
    BY <1>2, <2>1, SumStep
  <2>3. PICK m : m = Sum(f, T \ {x}) /\ m \in Int
    BY <1>2, <2>2
  <2> QED BY <2>2, <2>3
<1> HIDE DEF C
<1>3. S \in C
  BY <1>1, <1>2, FiniteInduction
<1> QED BY <1>3 DEF C

(* Any one element may be taken out of the sum.                            *)
LEMMA SumWithout ==
  ASSUME NEW f, NEW S, IsFiniteSet(S), \A x \in S : f[x] \in Int, NEW x \in S
  PROVE  Sum(f, S) = f[x] + Sum(f, S \ {x})
<1> DEFINE C == {T \in SUBSET S : \A y \in T : Sum(f, T) = f[y] + Sum(f, T \ {y})}
<1>1. {} \in C
  OBVIOUS
<1>2. ASSUME NEW T \in SUBSET S, IsFiniteSet(T), T # {}, \A y \in T : T \ {y} \in C
      PROVE  T \in C
  <2> SUFFICES ASSUME NEW y \in T PROVE Sum(f, T) = f[y] + Sum(f, T \ {y})
    OBVIOUS
  <2>1. PICK z : z = First(T)
    OBVIOUS
  <2>2. z \in T /\ Sum(f, T) = f[z] + Sum(f, T \ {z})
    BY <1>2, <2>1, SumStep
  <2>3. CASE y = z
    BY <2>2, <2>3
  <2>4. CASE y # z
    <3>1. Sum(f, T \ {z}) = f[y] + Sum(f, (T \ {z}) \ {y})
      BY <1>2, <2>2, <2>4
    <3>2. Sum(f, T \ {y}) = f[z] + Sum(f, (T \ {y}) \ {z})
      BY <1>2, <2>2, <2>4
    <3>3. PICK R : R = (T \ {z}) \ {y} /\ R = (T \ {y}) \ {z}
      OBVIOUS
    <3>4. IsFiniteSet(R) /\ R \subseteq S
      BY <1>2, <3>3, FS_Subset
    <3>5. Sum(f, R) \in Int
      BY <3>4, SumIsInt
    <3>6. PICK m : m = Sum(f, R) /\ m \in Int
      BY <3>5
    <3>7. Sum(f, T) = f[z] + (f[y] + m) /\ Sum(f, T \ {y}) = f[z] + m
      BY <2>2, <3>1, <3>2, <3>3, <3>6
    <3>8. f[y] \in Int /\ f[z] \in Int
      BY <2>2
    <3> QED BY <3>6, <3>7, <3>8
  <2> QED BY <2>3, <2>4
<1> HIDE DEF C
<1>3. S \in C
  BY <1>1, <1>2, FiniteInduction
<1> QED BY <1>3 DEF C

(* The same terms have the same sum.                                       *)
LEMMA SumSame ==
  ASSUME NEW f, NEW g, NEW S, IsFiniteSet(S), \A x \in S : f[x] = g[x]
  PROVE  Sum(f, S) = Sum(g, S)
<1> DEFINE C == {T \in SUBSET S : Sum(f, T) = Sum(g, T)}
<1>1. {} \in C
  BY SumEmpty
<1>2. ASSUME NEW T \in SUBSET S, IsFiniteSet(T), T # {}, \A x \in T : T \ {x} \in C
      PROVE  T \in C
  <2>1. PICK x : x = First(T)
    OBVIOUS
  <2>2. x \in T /\ Sum(f, T) = f[x] + Sum(f, T \ {x})
    BY <1>2, <2>1, SumStep
  <2>3. Sum(g, T) = g[x] + Sum(g, T \ {x})
    BY <1>2, <2>1, SumStep
  <2>4. Sum(f, T \ {x}) = Sum(g, T \ {x}) /\ f[x] = g[x]
    BY <1>2, <2>2
  <2> QED BY <2>2, <2>3, <2>4
<1> HIDE DEF C
<1>3. S \in C
  BY <1>1, <1>2, FiniteInduction
<1> QED BY <1>3 DEF C

(* Any solution of the recursion comes to the sum.                         *)
LEMMA IterSum ==
  ASSUME NEW f, NEW S, IsFiniteSet(S), NEW g, IsIter(f, S, g)
  PROVE  g[S] = Sum(f, S)
<1>1. PICK h : IsIter(f, S, h) /\ Sum(f, S) = h[S]
  BY SumIsIter
<1> QED
  BY <1>1, IterUnique

(* A part of a sum of natural numbers is not larger than the sum.          *)
LEMMA SumSubset ==
  ASSUME NEW f, NEW S, IsFiniteSet(S), \A x \in S : f[x] \in Nat, NEW T \in SUBSET S
  PROVE  Sum(f, T) <= Sum(f, S)
<1> DEFINE C == {U \in SUBSET S : \A R \in SUBSET U : Sum(f, R) <= Sum(f, U)}
<1>1. {} \in C
  <2>1. Sum(f, {}) = 0
    BY SumEmpty
  <2>2. \A R \in SUBSET {} : R = {}
    OBVIOUS
  <2> QED
    BY <2>1, <2>2
<1>2. ASSUME NEW U \in SUBSET S, IsFiniteSet(U), U # {}, \A x \in U : U \ {x} \in C
      PROVE  U \in C
  <2> SUFFICES ASSUME NEW R \in SUBSET U PROVE Sum(f, R) <= Sum(f, U)
    OBVIOUS
  <2>1. Sum(f, U) \in Int
    BY <1>2, SumIsInt
  <2>2. CASE R = U
    BY <2>1, <2>2
  <2>3. CASE R # U
    <3>1. PICK x \in U : x \notin R
      BY <2>3
    <3>2. R \in SUBSET (U \ {x}) /\ U \ {x} \in C
      BY <1>2, <3>1
    <3>3. Sum(f, R) <= Sum(f, U \ {x})
      BY <3>2
    <3>4. Sum(f, U) = f[x] + Sum(f, U \ {x})
      BY <1>2, <3>1, SumWithout
    <3>5. IsFiniteSet(R) /\ IsFiniteSet(U \ {x})
      BY <1>2, FS_Subset
    <3>6. Sum(f, R) \in Int /\ Sum(f, U \ {x}) \in Int
      BY <3>5, SumIsInt
    <3>7. f[x] \in Nat
      OBVIOUS
    <3> QED
      BY <3>3, <3>4, <3>6, <3>7
  <2> QED
    BY <2>2, <2>3
<1> HIDE DEF C
<1>3. S \in C
  BY <1>1, <1>2, FiniteInduction
<1> QED
  BY <1>3 DEF C
-----------------------------------------------------------------------------
(* The quantity on hold: closing holds and splitting one does not raise it. *)

LEMMA OpenFinite ==
  ASSUME NEW rows \in Seq(HoldRow)
  PROVE  /\ IsFiniteSet(OpenIn(rows)) /\ OpenIn(rows) \subseteq DOMAIN rows
         /\ \A i \in DOMAIN rows : rows[i].qty \in Nat
<1>1. DOMAIN rows = 1 .. Len(rows) /\ Len(rows) \in Nat
  OBVIOUS
<1>2. IsFiniteSet(DOMAIN rows)
  BY <1>1, FS_Interval
<1>3. OpenIn(rows) \subseteq DOMAIN rows
  BY DEF OpenIn
<1>4. ASSUME NEW i \in DOMAIN rows PROVE rows[i].qty \in Nat
  <2>1. rows[i] \in HoldRow
    OBVIOUS
  <2>2. rows[i].qty \in 0 .. OnHand /\ OnHand \in Nat
    BY <2>1, LotQualityAssumption DEF HoldRow
  <2> QED
    BY <2>2
<1> QED
  BY <1>2, <1>3, <1>4, FS_Subset

LEMMA QtySum ==
  ASSUME NEW rows \in Seq(HoldRow), NEW f, \A i \in OpenIn(rows) : f[i] = rows[i].qty
  PROVE  OpenQty(rows) = Sum(f, OpenIn(rows))
<1>1. PICK D : D = OpenIn(rows)
  OBVIOUS
<1>2. IsFiniteSet(D) /\ D \subseteq DOMAIN rows
  BY <1>1, OpenFinite
<1> DEFINE it == CHOOSE h : h = [s \in SUBSET D |-> IF s = {} THEN 0 ELSE rows[First(s)].qty + h[s \ {First(s)}]]
<1>3. OpenQty(rows) = it[D]
  BY <1>1 DEF OpenQty, MapThenSumSet, MapThenFoldSet, First
<1>4. PICK g : IsIter(f, D, g)
  BY <1>2, IterExists
<1>5. ASSUME NEW s \in SUBSET D, s # {} PROVE f[First(s)] = rows[First(s)].qty
  <2>1. First(s) \in D
    BY <1>5 DEF First
  <2> QED
    BY <1>1, <2>1
<1>6. g = [s \in SUBSET D |-> IF s = {} THEN 0 ELSE rows[First(s)].qty + g[s \ {First(s)}]]
  BY <1>4, <1>5 DEF IsIter
<1>7. it = [s \in SUBSET D |-> IF s = {} THEN 0 ELSE rows[First(s)].qty + it[s \ {First(s)}]]
  BY <1>6
<1> HIDE DEF it
<1>8. IsIter(f, D, it)
  BY <1>5, <1>7 DEF IsIter
<1> QED
  BY <1>1, <1>2, <1>3, <1>8, IterSum

LEMMA QtyIsNat ==
  ASSUME NEW rows \in Seq(HoldRow)
  PROVE  OpenQty(rows) \in Int
<1>1. PICK f : f = [i \in DOMAIN rows |-> rows[i].qty]
  OBVIOUS
<1>2. IsFiniteSet(OpenIn(rows)) /\ \A i \in OpenIn(rows) : f[i] = rows[i].qty /\ f[i] \in Int
  BY <1>1, OpenFinite
<1> QED
  BY <1>2, QtySum, SumIsInt

(* No open hold is added but one that takes the place of a larger one.     *)
Shrunk(rows, out) ==
  /\ out \in Seq(HoldRow)
  /\ \A j \in OpenIn(out) \cap OpenIn(rows) : out[j].qty = rows[j].qty
  /\ \/ OpenIn(out) \subseteq OpenIn(rows)
     \/ \E i \in OpenIn(rows), n \in DOMAIN out \ DOMAIN rows :
          OpenIn(out) = (OpenIn(rows) \ {i}) \cup {n} /\ out[n].qty <= rows[i].qty

LEMMA ShrunkQty ==
  ASSUME NEW rows \in Seq(HoldRow), NEW out, Shrunk(rows, out)
  PROVE  OpenQty(out) <= OpenQty(rows)
<1>1. PICK A, B : A = OpenIn(rows) /\ B = OpenIn(out)
  OBVIOUS
<1>2. PICK f : f = [j \in A \cup B |-> IF j \in B THEN out[j].qty ELSE rows[j].qty]
  OBVIOUS
<1>3. out \in Seq(HoldRow)
  BY DEF Shrunk
<1>4. /\ IsFiniteSet(A) /\ IsFiniteSet(B) /\ A \subseteq DOMAIN rows /\ B \subseteq DOMAIN out
      /\ \A j \in A : rows[j].qty \in Nat
      /\ \A j \in B : out[j].qty \in Nat
  BY <1>1, <1>3, OpenFinite
<1>5. \A j \in A \cup B : f[j] \in Nat
  BY <1>2, <1>4
<1>6. (\A j \in A : f[j] = rows[j].qty) /\ (\A j \in B : f[j] = out[j].qty)
  BY <1>1, <1>2 DEF Shrunk
<1>7. OpenQty(rows) = Sum(f, A) /\ OpenQty(out) = Sum(f, B)
  BY <1>1, <1>3, <1>6, QtySum
<1>8. CASE B \subseteq A
  <2>1. Sum(f, B) <= Sum(f, A)
    BY <1>4, <1>5, <1>8, SumSubset
  <2> QED
    BY <1>7, <2>1
<1>9. CASE ~ (B \subseteq A)
  <2>1. PICK i \in A, n \in DOMAIN out \ DOMAIN rows : B = (A \ {i}) \cup {n} /\ out[n].qty <= rows[i].qty
    BY <1>1, <1>9 DEF Shrunk
  <2>2. n \in B /\ n \notin A /\ B \ {n} = A \ {i}
    BY <1>4, <2>1
  <2>3. \A j \in A : f[j] \in Int
    BY <1>5
  <2>4. \A j \in B : f[j] \in Int
    BY <1>5
  <2>5. Sum(f, A) = f[i] + Sum(f, A \ {i})
    BY <1>4, <2>3, SumWithout
  <2>6. Sum(f, B) = f[n] + Sum(f, B \ {n})
    BY <1>4, <2>2, <2>4, SumWithout
  <2>7. PICK R : R = A \ {i}
    OBVIOUS
  <2>8. IsFiniteSet(R) /\ \A j \in R : f[j] \in Int
    BY <1>4, <2>3, <2>7, FS_Subset
  <2>9. PICK m : m = Sum(f, R) /\ m \in Int
    BY <2>8, SumIsInt
  <2>10. f[n] <= f[i] /\ f[n] \in Int /\ f[i] \in Int
    BY <1>6, <2>1, <2>2, <2>3, <2>4
  <2>11. Sum(f, A) = f[i] + m
    BY <2>5, <2>7, <2>9
  <2>12. Sum(f, B) = f[n] + m
    BY <2>2, <2>6, <2>7, <2>9
  <2>13. Sum(f, B) <= Sum(f, A)
    BY <2>9, <2>10, <2>11, <2>12
  <2> QED
    BY <1>7, <2>13
<1> QED
  BY <1>8, <1>9

(* Closing a set of holds, as confirmations, skips and dispositions do.    *)
LEMMA AllQty ==
  ASSUME NEW rows \in Seq(HoldRow), NEW ids \in SUBSET DOMAIN rows
  PROVE  OpenQty(releaseWithin(rows, ids, Full)) <= OpenQty(rows)
<1> DEFINE closed == [i \in DOMAIN rows |->
                          IF i \in ids THEN [rows[i] EXCEPT !.open = FALSE] ELSE rows[i]]
<1>1. /\ closed \in Seq(HoldRow) /\ Len(closed) = Len(rows)
      /\ \A i \in DOMAIN rows : closed[i].qty = rows[i].qty
                                /\ (closed[i].open <=> rows[i].open /\ i \notin ids)
  BY Closed
<1>2. \A qty : remainderQty(qty, Full) = <<>>
  BY DEF remainderQty
<1> DEFINE none == [k \in 1 .. 0 |-> Hold(rows[CHOOSE j \in ids : TRUE].reason, <<>>[k])]
<1>3. releaseWithin(rows, ids, Full) = closed \o (IF Cardinality(ids) # 1 THEN <<>> ELSE none)
  BY <1>2 DEF releaseWithin
<1>4. none = <<>>
  OBVIOUS
<1>5. DOMAIN closed = DOMAIN rows
  OBVIOUS
<1> HIDE DEF closed, none
<1>6. releaseWithin(rows, ids, Full) = closed
  BY <1>1, <1>3, <1>4, ConcatEmptySeq
<1>7. OpenIn(closed) \subseteq OpenIn(rows) /\ \A j \in OpenIn(rows) : closed[j].qty = rows[j].qty
  BY <1>1, <1>5 DEF OpenIn
<1>8. Shrunk(rows, closed)
  BY <1>1, <1>7 DEF Shrunk
<1> QED
  BY <1>6, <1>8, ShrunkQty

(* Releasing one hold, in part or whole: what remains is a hold again, and *)
(* smaller (remainderQty).                                                 *)
LEMMA OneQty ==
  ASSUME NEW rows \in Seq(HoldRow), NEW i \in OpenIn(rows), NEW qty \in 0 .. OnHand
  PROVE  OpenQty(releaseWithin(rows, {i}, qty)) <= OpenQty(rows)
<1> DEFINE closed == [j \in DOMAIN rows |->
                          IF j \in {i} THEN [rows[j] EXCEPT !.open = FALSE] ELSE rows[j]]
           rest == remainderQty(rows[i].qty, qty)
           added == [k \in DOMAIN rest |-> Hold(rows[i].reason, rest[k])]
<1>1. /\ closed \in Seq(HoldRow) /\ Len(closed) = Len(rows)
      /\ \A j \in DOMAIN rows : closed[j].qty = rows[j].qty
                                /\ (closed[j].open <=> rows[j].open /\ j \notin {i})
  BY Closed
<1>2. Cardinality({i}) = 1 /\ (CHOOSE j \in {i} : TRUE) = i
  BY FS_Singleton
<1>3. releaseWithin(rows, {i}, qty) = closed \o added
  BY <1>2 DEF releaseWithin
<1>4. /\ i \in DOMAIN rows /\ rows[i] \in HoldRow /\ DOMAIN closed = DOMAIN rows
      /\ OpenIn(rows) \subseteq DOMAIN rows /\ rows[i].reason \in {InspectionWait, "OTHER"}
      /\ rows[i].qty \in 0 .. OnHand /\ OnHand \in Nat
  <2>1. i \in DOMAIN rows
    BY DEF OpenIn
  <2>2. rows[i] \in HoldRow
    BY <2>1
  <2> QED
    BY <2>1, <2>2, LotQualityAssumption DEF OpenIn, HoldRow
<1>5. CASE rows[i].qty = Full \/ qty = Full \/ rows[i].qty <= qty
  <2>1. rest = <<>>
    BY <1>5 DEF remainderQty
  <2>2. added = <<>>
    BY <2>1
  <2> HIDE DEF closed, added
  <2>3. closed \o added = closed
    BY <1>1, <2>2, ConcatEmptySeq
  <2>4. OpenIn(closed) \subseteq OpenIn(rows) /\ \A j \in OpenIn(rows) : closed[j].qty = rows[j].qty
    BY <1>1, <1>4 DEF OpenIn
  <2>5. Shrunk(rows, closed)
    BY <1>1, <2>4 DEF Shrunk
  <2> QED
    BY <1>3, <2>3, <2>5, ShrunkQty
<1>6. CASE ~ (rows[i].qty = Full \/ qty = Full \/ rows[i].qty <= qty)
  <2>1. PICK r : r = rows[i].qty - qty
    OBVIOUS
  <2>2. r \in 0 .. OnHand /\ r <= rows[i].qty
    BY <1>4, <1>6, <2>1 DEF Full
  <2>3. PICK h : h = Hold(rows[i].reason, r)
    OBVIOUS
  <2>4. h \in HoldRow /\ h.open /\ h.qty = r
    BY <1>4, <2>2, <2>3, NewHold
  <2>5. rest = <<r>>
    BY <1>6, <2>1 DEF remainderQty
  <2>6. added = <<h>>
    BY <2>3, <2>5
  <2> HIDE DEF closed, added
  <2>7. <<h>> \in Seq(HoldRow) /\ Len(<<h>>) = 1 /\ <<h>>[1] = h
    BY <2>4
  <2>8. PICK out : out = closed \o <<h>>
    OBVIOUS
  <2>9. PICK n : n = Len(rows) + 1 /\ n - 1 = Len(rows) /\ n \in Nat
    <3>1. Len(rows) \in Nat
      OBVIOUS
    <3> QED
      BY <3>1
  <2>10. /\ out \in Seq(HoldRow) /\ DOMAIN out = DOMAIN rows \cup {n} /\ n \notin DOMAIN rows
         /\ out[n] = h /\ \A j \in DOMAIN rows : out[j] = closed[j]
    <3>1. /\ out \in Seq(HoldRow) /\ Len(out) = Len(closed) + 1
          /\ \A j \in 1 .. Len(closed) + 1 :
               out[j] = IF j <= Len(closed) THEN closed[j] ELSE <<h>>[j - Len(closed)]
      BY <1>1, <2>7, <2>8, ConcatProperties
    <3>2. DOMAIN rows = 1 .. n - 1 /\ DOMAIN out = 1 .. n
      BY <1>1, <2>9, <3>1
    <3>3. \A j \in DOMAIN rows : out[j] = closed[j]
      BY <1>1, <2>9, <3>1, <3>2
    <3>4. out[n] = h
      <4>1. n \in 1 .. Len(closed) + 1 /\ ~ (n <= Len(closed)) /\ n - Len(closed) = 1
        BY <1>1, <2>9
      <4> QED
        BY <2>7, <3>1, <4>1
    <3> QED
      BY <2>9, <3>1, <3>2, <3>3, <3>4
  <2>11. OpenIn(out) = (OpenIn(rows) \ {i}) \cup {n}
    BY <1>1, <2>4, <2>10 DEF OpenIn
  <2>12. \A j \in OpenIn(out) \cap OpenIn(rows) : out[j].qty = rows[j].qty
    BY <1>1, <1>4, <2>10
  <2>13. n \in DOMAIN out \ DOMAIN rows /\ out[n].qty <= rows[i].qty
    BY <2>2, <2>4, <2>10
  <2>14. Shrunk(rows, out)
    BY <2>10, <2>11, <2>12, <2>13 DEF Shrunk
  <2> QED
    BY <1>3, <2>6, <2>8, <2>14, ShrunkQty
<1> QED
  BY <1>5, <1>6

(* A new hold adds its quantity.                                           *)
LEMMA AppendQty ==
  ASSUME NEW rows \in Seq(HoldRow), NEW h \in HoldRow, h.open
  PROVE  OpenQty(Append(rows, h)) = OpenQty(rows) + h.qty
<1>1. PICK out : out = Append(rows, h)
  OBVIOUS
<1>2. PICK n : n = Len(rows) + 1 /\ n \in Nat /\ n \notin DOMAIN rows
  <2>1. Len(rows) \in Nat /\ DOMAIN rows = 1 .. Len(rows)
    OBVIOUS
  <2> QED
    BY <2>1
<1>3. /\ out \in Seq(HoldRow) /\ out[n] = h /\ DOMAIN out = DOMAIN rows \cup {n}
      /\ \A j \in DOMAIN rows : out[j] = rows[j]
  <2>1. /\ out \in Seq(HoldRow) /\ Len(out) = Len(rows) + 1 /\ out[Len(rows) + 1] = h
        /\ \A j \in 1 .. Len(rows) : out[j] = rows[j]
    BY <1>1, AppendProperties
  <2>2. DOMAIN rows = 1 .. Len(rows) /\ DOMAIN out = 1 .. Len(rows) + 1 /\ Len(rows) \in Nat
    BY <2>1
  <2> QED
    BY <1>2, <2>1, <2>2
<1>4. PICK A, B : A = OpenIn(rows) /\ B = OpenIn(out)
  OBVIOUS
<1>5. B = A \cup {n} /\ n \notin A
  BY <1>2, <1>3, <1>4 DEF OpenIn
<1>6. PICK f : f = [j \in DOMAIN out |-> out[j].qty]
  OBVIOUS
<1>7. /\ IsFiniteSet(A) /\ IsFiniteSet(B) /\ A \subseteq DOMAIN rows /\ B \subseteq DOMAIN out
      /\ \A j \in DOMAIN out : out[j].qty \in Nat
  BY <1>3, <1>4, OpenFinite
<1>8. (\A j \in A : f[j] = rows[j].qty) /\ (\A j \in B : f[j] = out[j].qty) /\ \A j \in B : f[j] \in Int
  BY <1>3, <1>6, <1>7
<1>9. OpenQty(rows) = Sum(f, A) /\ OpenQty(out) = Sum(f, B)
  BY <1>3, <1>4, <1>8, QtySum
<1>10. Sum(f, B) = f[n] + Sum(f, B \ {n})
  BY <1>5, <1>7, <1>8, SumWithout
<1>11. B \ {n} = A /\ f[n] = h.qty /\ h.qty \in Int
  BY <1>3, <1>5, <1>6, <1>7
<1>12. Sum(f, A) \in Int
  <2>1. \A j \in A : f[j] \in Int
    BY <1>5, <1>8
  <2> QED
    BY <1>7, <2>1, SumIsInt
<1>13. PICK m : m = Sum(f, A) /\ m \in Int
  BY <1>12
<1>14. Sum(f, B) = h.qty + m
  BY <1>10, <1>11, <1>13
<1>15. Sum(f, B) = m + h.qty
  BY <1>11, <1>13, <1>14
<1> QED
  BY <1>1, <1>9, <1>13, <1>15
-----------------------------------------------------------------------------
(* The open holds of a lot fit its stock.  The sum is taken when the lot   *)
(* has been locked, the hold is added at the commit; Room says that what   *)
(* has been checked is still so, because nobody else can add a hold.       *)
Room(t) ==
  LET op == tx[t].op IN
  op.kind = "holdCreate" /\ Past(t, "lots") /\ op.qty # Full =>
    \A l \in op.lots : OpenQty(hold[l]) + op.qty <= OnHand

Bounded(l) == OpenQty(hold[l]) <= OnHand

Roomy == (\A l \in Lots : Bounded(l)) /\ \A t \in Sessions : Room(t)

(* What another call has checked of the lots it has locked.                *)
LEMMA RoomKeeps ==
  ASSUME IInv, NEW u \in Sessions, Room(u), tx'[u] = tx[u],
         \A l \in Lots : lock[l] = u => hold'[l] = hold[l]
  PROVE  Room(u)'
<1>1. Past(u, "lots")' <=> Past(u, "lots")
  BY PastSame
<1>2. SUFFICES ASSUME tx[u].op.kind = "holdCreate", Past(u, "lots"), tx[u].op.qty # Full,
                      NEW l \in tx[u].op.lots
               PROVE  OpenQty(hold'[l]) + tx[u].op.qty <= OnHand
  BY <1>1 DEF Room
<1>3. tx[u].lots = tx[u].op.lots /\ tx[u].lots \subseteq Lots /\ Held(u)
  BY <1>2 DEF IInv, Calm, Framed, OwnLots
<1>4. l \in Lots /\ lock[l] = u
  BY <1>2, <1>3 DEF Held
<1>5. hold'[l] = hold[l]
  BY <1>4
<1> QED
  BY <1>2, <1>5 DEF Room

LEMMA SmallerFits ==
  ASSUME NEW a \in Seq(HoldRow), NEW b \in Seq(HoldRow), OpenQty(a) <= OnHand, OpenQty(b) <= OpenQty(a)
  PROVE  OpenQty(b) <= OnHand
<1>1. PICK m, n : m = OpenQty(a) /\ n = OpenQty(b)
  OBVIOUS
<1>2. m \in Int /\ n \in Int /\ OnHand \in Int
  BY <1>1, QtyIsNat, LotQualityAssumption
<1> QED
  BY <1>1, <1>2

LEMMA CloseBound ==
  ASSUME IInv, Roomy, NEW k \in Lots, NEW ids \in SUBSET DOMAIN hold[k], hold' = Close(k, ids, Full),
         NEW l \in Lots
  PROVE  Bounded(l)'
<1>1. Bounded(l) /\ hold[k] \in Seq(HoldRow)
  BY Types DEF Roomy
<1>2. /\ hold' \in [Lots -> Seq(HoldRow)] /\ \A j \in Lots \ {k} : hold'[j] = hold[j]
      /\ hold'[k] = releaseWithin(hold[k], ids, Full)
  BY ClosedHolds
<1>3. CASE l # k
  BY <1>1, <1>2, <1>3 DEF Bounded
<1>4. CASE l = k
  <2>1. OpenQty(hold'[k]) <= OpenQty(hold[k])
    BY <1>1, <1>2, AllQty
  <2>2. hold'[k] \in Seq(HoldRow) /\ OpenQty(hold[k]) <= OnHand
    BY <1>1, <1>2, <1>4 DEF Bounded
  <2> QED
    BY <1>1, <1>4, <2>1, <2>2, SmallerFits DEF Bounded
<1> QED
  BY <1>3, <1>4

LEMMA SameBound ==
  ASSUME Roomy, hold' = hold, NEW l \in Lots
  PROVE  Bounded(l)'
BY DEF Roomy, Bounded

LEMMA CreateBound ==
  ASSUME IInv, Roomy, NEW t \in Sessions, LotHoldCreate(t), NEW l \in Lots
  PROVE  Bounded(l)'
<1> DEFINE op == tx[t].op
           h == Hold(op.reason, op.qty)
<1>1. Done(t) /\ op.kind = "holdCreate"
  BY DEF LotHoldCreate, Does
<1>2. op.qty \in 0 .. OnHand /\ h \in HoldRow /\ h.open /\ h.qty = op.qty
  <2>1. OpOK(op)
    BY DEF IInv, Calm, Framed
  <2> QED
    BY <1>1, <2>1, NewHold DEF OpOK
<1>3. hold'[l] = IF l \in op.lots THEN Append(hold[l], h) ELSE hold[l]
  BY DEF LotHoldCreate
<1>4. Bounded(l) /\ hold[l] \in Seq(HoldRow)
  BY Types DEF Roomy
<1>5. CASE l \notin op.lots
  BY <1>3, <1>4, <1>5 DEF Bounded
<1>6. CASE l \in op.lots
  <2> HIDE DEF h
  <2>1. OpenQty(hold'[l]) = OpenQty(hold[l]) + op.qty
    BY <1>2, <1>3, <1>4, <1>6, AppendQty
  <2>2. CASE op.qty = Full
    <3>1. OpenQty(hold'[l]) = OpenQty(hold[l])
      <4>1. OpenQty(hold[l]) \in Int
        BY <1>4, QtyIsNat
      <4> QED
        BY <2>1, <2>2, <4>1 DEF Full
    <3> QED
      BY <1>4, <3>1 DEF Bounded
  <2>3. CASE op.qty # Full
    <3>1. Past(t, "lots") /\ Room(t)
      BY <1>1, AllPast DEF Roomy
    <3>2. OpenQty(hold[l]) + op.qty <= OnHand
      BY <1>1, <1>6, <2>3, <3>1 DEF Room
    <3> QED
      BY <2>1, <3>2 DEF Bounded
  <2> QED
    BY <2>2, <2>3
<1> QED
  BY <1>5, <1>6

LEMMA ReleaseBound ==
  ASSUME IInv, Roomy, NEW t \in Sessions, LotHoldRelease(t), NEW l \in Lots
  PROVE  Bounded(l)'
<1> DEFINE op == tx[t].op
<1>1. Done(t) /\ op.kind = "holdRelease"
  BY DEF LotHoldRelease, Does
<1>2. OneLot(op, Lots) /\ op.qty \in 0 .. OnHand
  <2>1. OpOK(op)
    BY DEF IInv, Calm, Framed
  <2> QED
    BY <1>1, <2>1 DEF OpOK
<1>3. PICK k \in Lots : k = Of(op)
  BY <1>2, OfOne
<1>4. op.hold \in OpenIn(hold[k]) /\ hold[k] \in Seq(HoldRow) /\ hold \in [Lots -> Seq(HoldRow)]
  <2>1. Past(t, "lots") /\ Stands(t)
    BY <1>1, AllPast DEF IInv, Calm
  <2> QED
    BY <1>1, <1>3, <2>1, Types DEF Stands, OpenIn
<1>5. PICK out : out = releaseWithin(hold[k], {op.hold}, op.qty)
  OBVIOUS
<1>6. hold' = [hold EXCEPT ![k] = out]
  BY <1>3, <1>5 DEF LotHoldRelease, Close
<1>7. out \in Seq(HoldRow) /\ OpenQty(out) <= OpenQty(hold[k])
  BY <1>2, <1>4, <1>5, ReleaseOne, OneQty DEF Stay
<1>8. Bounded(l) /\ Bounded(k)
  BY DEF Roomy
<1>9. OpenQty(out) <= OnHand
  BY <1>4, <1>7, <1>8, SmallerFits DEF Bounded
<1>10. hold'[l] = IF l = k THEN out ELSE hold[l]
  BY <1>4, <1>6
<1> QED
  BY <1>8, <1>9, <1>10 DEF Bounded

(* The inspections that close the holds that wait for them.                *)
LEMMA InspectionBound ==
  ASSUME IInv, Roomy, NEW t \in Sessions,
         ConfirmIqc(t) \/ SkipIqc(t) \/ Dispose(t) \/ ApplyConcession(t), NEW l \in Lots
  PROVE  Bounded(l)'
<1> DEFINE op == tx[t].op
<1>1. Done(t)
  BY DEF ConfirmIqc, SkipIqc, Dispose, ApplyConcession, Does
<1>2. \/ op.kind = "confirm" /\ op.type = "IQC"
      \/ op.kind \in {"iqcSkip", "dispose", "apply"}
  BY DEF ConfirmIqc, SkipIqc, Dispose, ApplyConcession, Does
<1>3. OneLot(op, InboundLots)
  <2>1. OpOK(op)
    BY DEF IInv, Calm, Framed
  <2> QED
    BY <1>2, <2>1 DEF OpOK
<1>4. PICK k \in Lots : k = Of(op)
  BY <1>3, InboundIsLot, OfOne
<1>5. OwnLots(t) => tx[t].seen[k].holds = hold[k]
  BY <1>1, <1>3, <1>4, InboundIsLot, OwnLot
<1>6. hold' = hold \/ hold' = Close(k, WaitingIn(hold[k]), Full)
  <2>1. CASE ConfirmIqc(t)
    <3>1. tx[t].seen[k].holds = hold[k]
      BY <1>5, <2>1 DEF OwnLots, ConfirmIqc
    <3> QED
      BY <1>4, <2>1, <3>1 DEF ConfirmIqc
  <2>2. CASE SkipIqc(t)
    <3>1. tx[t].seen[k].holds = hold[k]
      BY <1>5, <2>2 DEF OwnLots, SkipIqc, Does
    <3> QED
      BY <1>4, <2>2, <3>1 DEF SkipIqc
  <2>3. CASE Dispose(t)
    BY <1>4, <2>3 DEF Dispose
  <2>4. CASE ApplyConcession(t)
    BY <1>4, <2>4 DEF ApplyConcession
  <2> QED
    BY <2>1, <2>2, <2>3, <2>4
<1>7. WaitingIn(hold[k]) \in SUBSET DOMAIN hold[k]
  BY WaitingThere
<1> QED
  BY <1>6, <1>7, SameBound, CloseBound

LEMMA CommitBound ==
  ASSUME IInv, Roomy, NEW t \in Sessions, Commit(t), NEW l \in Lots
  PROVE  Bounded(l)'
<1>1. CASE LotHoldCreate(t) \/ LotHoldRelease(t)
  BY <1>1, CreateBound, ReleaseBound
<1>2. CASE ConfirmIqc(t) \/ SkipIqc(t) \/ Dispose(t) \/ ApplyConcession(t)
  BY <1>2, InspectionBound
<1>3. CASE ~ (\/ LotHoldCreate(t) \/ LotHoldRelease(t)
              \/ ConfirmIqc(t) \/ SkipIqc(t) \/ Dispose(t) \/ ApplyConcession(t))
  <2>1. \/ ConfirmPqc(t) \/ ConfirmOqc(t) \/ SkipPqc(t) \/ SkipOqc(t) \/ ReportProduction(t)
        \/ RegisterNonconformance(t) \/ RequestDisposition(t) \/ RequestConcession(t)
    BY <1>3 DEF Commit
  <2>2. hold' = hold
    BY <2>1 DEF ConfirmPqc, ConfirmOqc, SkipPqc, SkipOqc, ReportProduction, RegisterNonconformance,
       RequestDisposition, RequestConcession
  <2> QED
    BY <2>2, SameBound
<1> QED
  BY <1>1, <1>2, <1>3

(* A transaction that begins or has ended has checked nothing.             *)
LEMMA IdleRoom ==
  ASSUME NEW t, tx'[t] = Idle
  PROVE  Room(t)'
BY DEF Room, Idle

LEMMA EndsRoomy ==
  ASSUME IInv, Roomy, NEW t \in Sessions, Ends(t), Effect(t), \A l \in Lots : Bounded(l)'
  PROVE  Roomy'
<1>1. tx'[t] = Idle /\ \A u \in Sessions \ {t} : tx'[u] = tx[u]
  BY EndsLocks
<1>2. ASSUME NEW u \in Sessions PROVE Room(u)'
  <2>1. CASE u = t
    BY <1>1, <2>1, IdleRoom
  <2>2. CASE u # t
    <3>1. tx'[u] = tx[u] /\ Room(u)
      BY <1>1, <2>2 DEF Roomy
    <3>2. \A l \in Lots : lock[l] = u => hold'[l] = hold[l]
      BY <2>2 DEF Effect
    <3> QED
      BY <3>1, <3>2, RoomKeeps
  <2> QED
    BY <2>1, <2>2
<1> QED
  BY <1>2 DEF Roomy

(* A step that changes no hold and only the transaction t.                 *)
LEMMA QuietRoomy ==
  ASSUME IInv, Roomy, NEW t \in Sessions, hold' = hold, \A u \in Sessions \ {t} : tx'[u] = tx[u],
         Room(t)'
  PROVE  Roomy'
<1>1. ASSUME NEW u \in Sessions PROVE Room(u)'
  <2>1. CASE u = t
    BY <2>1
  <2>2. CASE u # t
    BY <2>2, RoomKeeps DEF Roomy
  <2> QED
    BY <2>1, <2>2
<1> QED
  BY <1>1, SameBound DEF Roomy

LEMMA LockedRoomy ==
  ASSUME IInv, Roomy, NEW t \in Sessions, LockHead(t) \/ LockRequests(t) \/ LockLots(t)
  PROVE  Roomy'
<1> DEFINE op == tx[t].op
<1>1. PICK stage \in {"head", "requests", "lots"} :
        /\ At(t, stage)
        /\ stage = "lots" => LotsGate(op, tx[t].view)
  BY DEF LockHead, LockRequests, LockLots
<1>2. /\ Framed(t) /\ Shape(tx[t]) /\ DOMAIN tx = Sessions
      /\ op.kind \in DOMAIN Plan /\ Plan[op.kind] \in Seq({"head", "lots", "requests"})
      /\ tx[t].stage \in Nat /\ tx[t].stage \in DOMAIN Plan[op.kind] /\ Plan[op.kind][tx[t].stage] = stage
  BY <1>1, NextStage
<1>3. /\ hold' = hold /\ \A u \in Sessions \ {t} : tx'[u] = tx[u]
      /\ tx'[t].op = op /\ tx'[t].stage = tx[t].stage + 1
  <2>1. PICK x : x = tx[t] /\ Shape(x)
    BY <1>2
  <2>3. CASE LockHead(t)
    <3>1. PICK note, lots : tx' = [tx EXCEPT ![t] = [x EXCEPT !.stage = @ + 1, !.note = note, !.lots = lots]]
      BY <2>1, <2>3 DEF LockHead
    <3>2. PICK y : y = [x EXCEPT !.stage = @ + 1, !.note = note, !.lots = lots]
      OBVIOUS
    <3>3. y.op = x.op /\ y.stage = x.stage + 1
      BY <2>1, <3>2 DEF Shape
    <3>4. hold' = hold
      BY <2>3 DEF LockHead
    <3> QED
      BY <1>2, <2>1, <3>1, <3>2, <3>3, <3>4
  <2>4. CASE LockRequests(t)
    <3>1. PICK lots : tx' = [tx EXCEPT ![t] = [x EXCEPT !.stage = @ + 1, !.lots = lots]]
      BY <2>1, <2>4 DEF LockRequests
    <3>2. PICK y : y = [x EXCEPT !.stage = @ + 1, !.lots = lots]
      OBVIOUS
    <3>3. y.op = x.op /\ y.stage = x.stage + 1
      BY <2>1, <3>2 DEF Shape
    <3>4. hold' = hold
      BY <2>4 DEF LockRequests
    <3> QED
      BY <1>2, <2>1, <3>1, <3>2, <3>3, <3>4
  <2>5. CASE LockLots(t)
    <3>1. PICK seen, note : tx' = [tx EXCEPT ![t] = [x EXCEPT !.stage = @ + 1, !.seen = seen, !.note = note]]
      BY <2>1, <2>5 DEF LockLots
    <3>2. PICK y : y = [x EXCEPT !.stage = @ + 1, !.seen = seen, !.note = note]
      OBVIOUS
    <3>3. y.op = x.op /\ y.stage = x.stage + 1
      BY <2>1, <3>2 DEF Shape
    <3>4. hold' = hold
      BY <2>5 DEF LockLots
    <3> QED
      BY <1>2, <2>1, <3>1, <3>2, <3>3, <3>4
  <2> QED
    BY <2>3, <2>4, <2>5
<1>4. Past(t, "lots")' <=> Past(t, "lots") \/ stage = "lots"
  BY <1>2, <1>3, PastStep
<1>5. Room(t)'
  <2>1. SUFFICES ASSUME op.kind = "holdCreate", Past(t, "lots")', op.qty # Full, NEW l \in op.lots
                 PROVE  OpenQty(hold[l]) + op.qty <= OnHand
    BY <1>3 DEF Room
  <2>2. CASE Past(t, "lots")
    BY <2>1, <2>2 DEF Roomy, Room
  <2>3. CASE stage = "lots"
    BY <1>1, <2>1, <2>3 DEF LotsGate, holdCreateGate
  <2> QED
    BY <1>4, <2>1, <2>2, <2>3
<1> QED
  BY <1>3, <1>5, QuietRoomy

LEMMA BeginRoomy ==
  ASSUME IInv, Roomy, NEW t \in Sessions, NEW op \in Calls, Begin(t, op)
  PROVE  Roomy'
<1>1. PICK y : y = [Idle EXCEPT !.op = op, !.view = View(op), !.lots = op.lots]
  OBVIOUS
<1>2. hold' = hold /\ DOMAIN tx = Sessions /\ tx' = [tx EXCEPT ![t] = y]
  BY <1>1 DEF Begin, IInv, Calm
<1>3. y.op = op /\ y.stage = 1
  BY <1>1 DEF Idle
<1>4. tx'[t] = y /\ \A u \in Sessions \ {t} : tx'[u] = tx[u]
  BY <1>2
<1>5. ~ Past(t, "lots")'
  <2>1. op.kind \in DOMAIN Plan
    BY CallFields DEF OpOK
  <2>2. Plan[op.kind] \in Seq({"head", "lots", "requests"})
    BY <2>1, PlanStages
  <2>3. \A k \in DOMAIN Plan[op.kind] : ~ (k < 1)
    BY <2>2
  <2> QED
    BY <1>3, <1>4, <2>3 DEF Past
<1>6. Room(t)'
  BY <1>5 DEF Room
<1> QED
  BY <1>2, <1>4, <1>6, QuietRoomy

LEMMA NextRoomy ==
  ASSUME IInv, Roomy, [Next]_vars
  PROVE  Roomy'
<1>1. ASSUME NEW t \in Sessions, NEW op \in Calls, Begin(t, op) PROVE Roomy'
  BY <1>1, BeginRoomy
<1>2. ASSUME NEW t \in Sessions, LockHead(t) \/ LockRequests(t) \/ LockLots(t) PROVE Roomy'
  BY <1>2, LockedRoomy
<1>3. ASSUME NEW t \in Sessions, Commit(t) PROVE Roomy'
  <2>1. Effect(t) /\ Done(t)
    BY <1>3, CommitEffect
  <2>2. Ends(t)
    BY <2>1 DEF Done, Ends
  <2>3. \A l \in Lots : Bounded(l)'
    BY <1>3, CommitBound
  <2> QED
    BY <2>1, <2>2, <2>3, EndsRoomy
<1>4. ASSUME NEW t \in Sessions, Abort(t) PROVE Roomy'
  <2>1. Ends(t) /\ UNCHANGED <<lot, hold, request, nc, concession>>
    BY <1>4 DEF Abort, Ends
  <2>2. Effect(t)
    BY <2>1, Types DEF Effect
  <2> QED
    BY <2>1, <2>2, SameBound, EndsRoomy
<1>5. CASE UNCHANGED vars
  <2>1. hold' = hold /\ \A u \in Sessions : tx'[u] = tx[u]
    BY <1>5 DEF vars
  <2>2. \A u \in Sessions : Room(u)'
    BY <2>1, RoomKeeps DEF Roomy
  <2> QED
    BY <2>1, <2>2, SameBound DEF Roomy
<1> QED
  BY <1>1, <1>2, <1>3, <1>4, <1>5 DEF Next

LEMMA InitRoomy ==
  ASSUME Init
  PROVE  Roomy
<1>1. hold \in [Lots -> Seq(HoldRow)]
  BY InitLots
<1>2. ASSUME NEW l \in Lots PROVE Bounded(l)
  <2>1. PICK rows : rows = hold[l]
    OBVIOUS
  <2>2. rows \in Seq(HoldRow)
    BY <1>1, <2>1
  <2>3. rows = <<Hold(InspectionWait, Full)>> \/ rows = <<Hold("OTHER", 1)>> \/ rows = <<>>
    <3> DEFINE A == <<Hold(InspectionWait, Full)>>
               B == <<Hold("OTHER", 1)>>
    <3>1. hold = [k \in Lots |-> CASE k \in InboundLots -> A
                                  [] k \in PickedLots /\ world.held -> B
                                  [] OTHER -> <<>>]
      BY DEF Init
    <3> HIDE DEF A, B
    <3>2. rows = A \/ rows = B \/ rows = <<>>
      BY <2>1, <3>1
    <3> QED
      BY <3>2 DEF A, B
  <2>4. \A i \in OpenIn(rows) : i = 1 /\ rows[i].qty <= 1
    BY <2>3 DEF OpenIn, Hold, Full
  <2>5. PICK f : f = [i \in {1} |-> IF 1 \in OpenIn(rows) THEN rows[1].qty ELSE 0]
    OBVIOUS
  <2>6. OpenQty(rows) = Sum(f, OpenIn(rows))
    BY <2>2, <2>4, <2>5, QtySum
  <2>7. f[1] \in Int /\ f[1] <= 1
    <3>1. 1 \in OpenIn(rows) => rows[1].qty \in Nat
      BY <2>2, OpenFinite
    <3> QED
      BY <2>4, <2>5, <3>1
  <2>8. Sum(f, OpenIn(rows)) <= 1
    <3>1. CASE OpenIn(rows) = {}
      BY <3>1, SumEmpty
    <3>2. CASE OpenIn(rows) # {}
      <4>1. OpenIn(rows) = {1} /\ IsFiniteSet({1}) /\ {1} \ {1} = {}
        BY <2>4, <3>2, FS_Singleton
      <4>2. Sum(f, {1}) = f[1] + Sum(f, {})
        BY <2>7, <4>1, SumWithout
      <4>3. Sum(f, {}) = 0
        BY SumEmpty
      <4>4. Sum(f, {1}) = f[1]
        BY <2>7, <4>2, <4>3
      <4> QED
        BY <2>7, <4>1, <4>4
    <3> QED
      BY <3>1, <3>2
  <2>9. OpenQty(rows) \in Int /\ OnHand \in Nat /\ 1 <= OnHand
    BY <2>2, QtyIsNat, LotQualityAssumption
  <2>10. OpenQty(rows) <= OnHand
    <3>1. PICK q : q = OpenQty(rows) /\ q \in Int
      BY <2>9
    <3>2. q <= 1
      BY <2>6, <2>8, <3>1
    <3> QED
      BY <2>9, <3>1, <3>2
  <2> QED
    BY <2>1, <2>10 DEF Bounded
<1>3. ASSUME NEW t \in Sessions PROVE Room(t)
  BY DEF Init, Idle, Room
<1> QED
  BY <1>2, <1>3 DEF Roomy
-----------------------------------------------------------------------------
(* Rows keep their shape, and a row lock belongs to a session that has a   *)
(* call: every commit and every rollback gives its locks back.             *)
THEOREM SpecTypeOK == Spec => []TypeOK
<1>1. IInv => TypeOK
  BY DEF IInv
<1> QED
  BY <1>1, InitIInv, InvNext, PTL DEF Spec

(* What a lot's status says and its open holds agree: no move that counts  *)
(* the holds of a lot makes it NORMAL while one is open, no suspected lot  *)
(* is left without a hold, at most one open hold is over the whole lot,    *)
(* and the open holds fit the stock (LotHoldService: assertNoOpenFullHold, *)
(* assertHoldQtyWithinOnHand and the recounts under lockLotsWithin),       *)
(* however the calls interleave.  Moves that do not count are left out by  *)
(* Uncounted: dispositions, concessions, and the acceptance or skip of an  *)
(* outgoing inspection, which do make a held lot NORMAL.                   *)
THEOREM SpecStatusFitsHolds == Spec => []StatusFitsHolds
<1>1. IInv => NormalIsFree /\ SuspectHasHold
  BY DEF IInv, LotsFit, LotFits, NormalIsFree, SuspectHasHold
<1>2. IInv /\ Roomy => HoldsFit
  BY OneFullThere DEF Roomy, Bounded, HoldsFit
<1>3. IInv /\ Roomy => StatusFitsHolds
  BY <1>1, <1>2 DEF StatusFitsHolds
<1>4. Init => IInv /\ Roomy
  BY InitIInv, InitRoomy
<1>5. IInv /\ Roomy /\ [Next]_vars => (IInv /\ Roomy)'
  BY InvNext, NextRoomy
<1> QED
  BY <1>3, <1>4, <1>5, PTL DEF Spec

(* A lot has at most one open nonconformance, whether it was registered or *)
(* opened by a rejected incoming inspection: both look under the lock of   *)
(* the lot (create, createIqcNonconformanceWithin).                        *)
THEOREM SpecOneOpenNonconformance == Spec => []OneOpenNonconformance
<1>1. IInv => OneOpenNonconformance
  <2> SUFFICES ASSUME IInv, NEW l \in InboundLots
               PROVE  Cardinality({i \in DOMAIN nc[l] : nc[l][i].status # "DECIDED"}) <= 1
    BY DEF OneOpenNonconformance
  <2> DEFINE S == {i \in DOMAIN nc[l] : nc[l][i].status # "DECIDED"}
  <2>1. NcFits(l) /\ nc[l] \in Seq(NcRow)
    BY Types DEF IInv, NcsFit
  <2>2. \A i \in S : i \in 1 .. Len(nc[l]) /\ ~ (i < Len(nc[l]))
    BY <2>1 DEF NcFits
  <2>3. \A i \in S : i = Len(nc[l])
    BY <2>1, <2>2
  <2> HIDE DEF S
  <2>4. Cardinality(S) <= 1
    BY <2>3, AtMostOne
  <2> QED
    BY <2>4 DEF S
<1> QED
  BY <1>1, InitIInv, InvNext, PTL DEF Spec

(* Dispositions and concessions never decide more than the affected        *)
(* quantity, and a nonconformance is closed exactly when nothing of it     *)
(* remains (lockNonconformance and the conditional update of the row).     *)
THEOREM SpecDecidedWithinAffected == Spec => []DecidedWithinAffected
<1>1. IInv => DecidedWithinAffected
  BY DEF IInv, NcsFit, NcFits, DecidedWithinAffected
<1> QED
  BY <1>1, InitIInv, InvNext, PTL DEF Spec

(* An approved skip of an incoming inspection releases the lot only while  *)
(* the inspection is open: whoever completes the request holds the lock of *)
(* the lot under which the skip found it open (LotIqcSkipExecuteService).         *)
THEOREM SpecIqcSkipsOnlyOpen == Spec => IqcSkipsOnlyOpen
<1>1. ASSUME IInv, [Next]_vars
      PROVE  [\A l \in InboundLots :
                lot'[l] # lot[l] /\ lot'[l].by = "iqcSkipped" => request[IQC(l)].status \in Open]_vars
  BY <1>1, SkippedWhileOpen
<1> QED
  BY <1>1, InitIInv, InvNext, PTL DEF Spec, IqcSkipsOnlyOpen
=============================================================================
