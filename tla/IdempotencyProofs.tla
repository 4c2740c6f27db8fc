------------------------- MODULE IdempotencyProofs -------------------------
(***************************************************************************)
(* Proofs about IdempotencyService.run, for every set of requests, every   *)
(* assignment of keys and fingerprints, and every pool size.               *)
(*                                                                         *)
(* The inductive invariant says who owns a record row: an uncommitted row  *)
(* belongs to a request that is past CreateRecord and whose transaction is *)
(* open (OwnedRecords, OwnersHold), and a committed row is COMPLETED and   *)
(* stores the answer of applied work (CommittedRecords).  When the work is *)
(* joined to the transaction, applied work has left a committed row        *)
(* (AppliedRecords), which is what makes the key single-use and lets a     *)
(* resend find the effect whose answer was lost.                           *)
(***************************************************************************)
EXTENDS Idempotency, TLAPS, FiniteSetTheorems

PastCreate == {"work", "ownWork", "ownCommitted", "complete", "commit"}

(* A row with an open writer was created by it, under its key. *)
OwnedRecords ==
  \A k \in Keys : record[k].writer # NoRequest =>
    /\ record[k].by = record[k].writer
    /\ record[k].status # "NONE"
    /\ KeyOf[record[k].writer] = k
    /\ record[k].writer \in outer
    /\ pc[record[k].writer] \in PastCreate

(* A request past CreateRecord whose transaction is open owns its key's row. *)
OwnersHold ==
  \A r \in outer : pc[r] \in PastCreate =>
    /\ record[KeyOf[r]].writer = r
    /\ pc[r] = "commit" => record[KeyOf[r]].status = "COMPLETED"

(* A committed row is complete, and its body comes from committed work. *)
CommittedRecords ==
  \A k \in Keys : record[k].writer = NoRequest =>
    \/ record[k] = NoRecord
    \/ /\ record[k].status = "COMPLETED"
       /\ record[k].by \in applied
       /\ KeyOf[record[k].by] = k

(* The label that a request of the other kind of handler would have. *)
WorkLabels ==
  \A r \in Requests : /\ Joined  => pc[r] \notin {"ownWork", "ownCommitted"} /\ r \notin inner
                      /\ ~Joined => pc[r] # "work"

(* Joined work that is committed has committed its record with it. *)
AppliedRecords ==
  Joined => \A r \in applied :
    /\ pc[r] \in {"committed", "over"}
    /\ record[KeyOf[r]].status = "COMPLETED"
    /\ record[KeyOf[r]].by = r
    /\ record[KeyOf[r]].writer = NoRequest

(* A request past its COMMIT has had its effect. *)
CommittedWork == \A r \in Requests : pc[r] = "committed" => r \in applied

(* No transaction is open before BeginTransaction or after the answer. *)
OuterLabels ==
  \A r \in outer : pc[r] \in PastCreate \cup {"create"}

(* Only a request that is over has an answer. *)
AnswersAreFinal ==
  \A r \in Requests : pc[r] # "over" => answer[r].kind = "NONE"

IInv == /\ TypeOK /\ OwnedRecords /\ OwnersHold /\ CommittedRecords
        /\ WorkLabels /\ AppliedRecords /\ OuterLabels /\ AnswersAreFinal
        /\ CommittedWork /\ ReplayIsTruthful /\ NeverSeenInProgress

(* The initial state satisfies the inductive invariant. *)
LEMMA InitIInv == Init => IInv
  BY IdempotencyAssumption
  DEF Init, IInv, TypeOK, OwnedRecords, OwnersHold, CommittedRecords, WorkLabels,
      AppliedRecords, OuterLabels, AnswersAreFinal, CommittedWork, ReplayIsTruthful,
      NeverSeenInProgress, NoRecord, Record, NoAnswer, Answer, Labels, PastCreate

(* A request that ends without a commit takes its uncommitted row along, so *)
(* no throwing path disturbs the invariant.                                 *)
LEMMA ThrowIInv ==
  ASSUME IInv, NEW r \in Requests, NEW kind \in {"REJECTED", "ERROR"},
         pc[r] \notin {"over", "committed"}, Throw(r, kind)
  PROVE  IInv'
<1>1. TypeOK'
  BY IdempotencyAssumption DEF IInv, TypeOK, Throw, Respond, RolledBack, Record, NoRecord, Answer, Labels
<1>2. OwnedRecords'
  BY IdempotencyAssumption DEF IInv, OwnedRecords, Throw, Respond, RolledBack, TypeOK, Record, NoRecord, PastCreate, OwnersHold
<1>3. OwnersHold'
  <2> SUFFICES ASSUME NEW q \in outer', pc'[q] \in PastCreate
               PROVE  /\ record'[KeyOf[q]].writer = q
                      /\ pc'[q] = "commit" => record'[KeyOf[q]].status = "COMPLETED"
    BY DEF OwnersHold
  <2>1. q \in outer /\ q \in Requests /\ q # r /\ pc'[q] = pc[q] /\ KeyOf[q] \in Keys
    BY IdempotencyAssumption DEF IInv, TypeOK, Throw, Respond
  <2>2. record'[KeyOf[q]] = record[KeyOf[q]]
    BY <2>1 DEF IInv, OwnersHold, Throw, RolledBack
  <2> QED BY <2>1, <2>2 DEF IInv, OwnersHold
<1>4. CommittedRecords'
  BY IdempotencyAssumption DEF IInv, CommittedRecords, Throw, Respond, RolledBack, TypeOK, Record, NoRecord, OwnedRecords
<1>5. WorkLabels'
  BY IdempotencyAssumption DEF IInv, WorkLabels, Throw, Respond, RolledBack, TypeOK
<1>6. AppliedRecords'
  <2> SUFFICES ASSUME Joined, NEW q \in applied'
               PROVE  /\ pc'[q] \in {"committed", "over"}
                      /\ record'[KeyOf[q]].status = "COMPLETED"
                      /\ record'[KeyOf[q]].by = q
                      /\ record'[KeyOf[q]].writer = NoRequest
    BY DEF AppliedRecords
  <2>1. q \in applied /\ q \in Requests /\ KeyOf[q] \in Keys
    BY IdempotencyAssumption DEF IInv, TypeOK, Throw
  <2>2. /\ pc[q] \in {"committed", "over"}
        /\ record[KeyOf[q]].status = "COMPLETED" /\ record[KeyOf[q]].by = q
        /\ record[KeyOf[q]].writer = NoRequest
    BY <2>1 DEF IInv, AppliedRecords
  <2>3. pc'[q] = pc[q] /\ record'[KeyOf[q]] = record[KeyOf[q]]
    BY <2>1, <2>2, IdempotencyAssumption DEF IInv, TypeOK, Throw, Respond, RolledBack
  <2> QED BY <2>2, <2>3
<1>7. OuterLabels'
  BY IdempotencyAssumption DEF IInv, OuterLabels, Throw, Respond, RolledBack, TypeOK, PastCreate
<1>8. AnswersAreFinal'
  BY IdempotencyAssumption DEF IInv, AnswersAreFinal, Throw, Respond, RolledBack, TypeOK, Answer
<1>9. ReplayIsTruthful'
  BY IdempotencyAssumption DEF IInv, ReplayIsTruthful, Throw, Respond, RolledBack, TypeOK, Answer, Visible, CommittedRecords, NoRecord
<1>10. NeverSeenInProgress'
  BY IdempotencyAssumption DEF IInv, NeverSeenInProgress, Throw, Respond, RolledBack, TypeOK, Answer, Visible, CommittedRecords, NoRecord
<1>11. CommittedWork'
  BY IdempotencyAssumption DEF IInv, CommittedWork, Throw, Respond, TypeOK
<1> QED BY <1>1, <1>2, <1>3, <1>4, <1>5, <1>6, <1>7, <1>8, <1>9, <1>10, <1>11 DEF IInv

(* Answering from the record changes nothing but the answer. *)
LEMMA ReplayIInv ==
  ASSUME IInv, NEW r \in Requests, pc[r] \in {"arrive", "reread"},
         Visible(KeyOf[r]), replay(r)
  PROVE  IInv'
<1>1. TypeOK'
  <2>1. record[KeyOf[r]].by \in Requests \cup {NoRequest}
    BY IdempotencyAssumption DEF IInv, TypeOK, Record
  <2>2. PICK kind \in {"DUPLICATE", "IN_PROGRESS", "REPLAYED"},
             body \in Requests \cup {NoRequest} : Respond(r, kind, body)
    BY <2>1 DEF replay
  <2>3. [kind |-> kind, body |-> body] \in Answer /\ "over" \in Labels
    BY DEF Answer, Labels
  <2> QED BY <2>2, <2>3 DEF IInv, TypeOK, replay, Respond
<1>2. OwnedRecords'
  BY IdempotencyAssumption DEF IInv, OwnedRecords, replay, Respond, TypeOK, Record, NoRecord, PastCreate, OwnersHold
<1>3. OwnersHold'
  BY IdempotencyAssumption DEF IInv, OwnersHold, replay, Respond, TypeOK, PastCreate, Record, NoRecord, OuterLabels, OwnedRecords
<1>4. CommittedRecords'
  BY IdempotencyAssumption DEF IInv, CommittedRecords, replay, Respond, TypeOK, Record, NoRecord, OwnedRecords
<1>5. WorkLabels'
  BY IdempotencyAssumption DEF IInv, WorkLabels, replay, Respond, TypeOK
<1>6. AppliedRecords'
  BY IdempotencyAssumption DEF IInv, AppliedRecords, replay, Respond, TypeOK, Record, NoRecord, Answer
<1>7. OuterLabels'
  BY IdempotencyAssumption DEF IInv, OuterLabels, replay, Respond, TypeOK, PastCreate
<1>8. AnswersAreFinal'
  BY IdempotencyAssumption DEF IInv, AnswersAreFinal, replay, Respond, TypeOK, Answer
<1>9. ReplayIsTruthful'
  BY IdempotencyAssumption DEF IInv, ReplayIsTruthful, replay, Respond, TypeOK, Answer, Visible, CommittedRecords, NoRecord
<1>10. NeverSeenInProgress'
  BY IdempotencyAssumption DEF IInv, NeverSeenInProgress, replay, Respond, TypeOK, Answer, Visible, CommittedRecords, NoRecord
<1>11. CommittedWork'
  BY IdempotencyAssumption DEF IInv, CommittedWork, replay, Respond, TypeOK
<1> QED BY <1>1, <1>2, <1>3, <1>4, <1>5, <1>6, <1>7, <1>8, <1>9, <1>10, <1>11 DEF IInv

(* Every step preserves the inductive invariant. *)
LEMMA NextIInv == IInv /\ [Next]_vars => IInv'
<1> SUFFICES ASSUME IInv, [Next]_vars PROVE IInv'
  OBVIOUS
<1> USE IdempotencyAssumption
<1>1. ASSUME NEW r \in Requests, replayExisting(r) PROVE IInv'
  <2>1. CASE Visible(KeyOf[r]) /\ replay(r)
    BY <1>1, <2>1, ReplayIInv DEF replayExisting
  <2>2. CASE /\ ~Visible(KeyOf[r])
             /\ pc' = [pc EXCEPT ![r] = "begin"]
             /\ UNCHANGED <<record, outer, inner, applied, answer>>
    BY <1>1, <2>2 DEF replayExisting, IInv, TypeOK, OwnedRecords, OwnersHold, CommittedRecords,
      WorkLabels, AppliedRecords, OuterLabels, AnswersAreFinal, CommittedWork, ReplayIsTruthful,
      NeverSeenInProgress, NoRecord, Record, NoAnswer, Answer, Labels, PastCreate
  <2> QED BY <1>1, <2>1, <2>2 DEF replayExisting
<1>2. ASSUME NEW r \in Requests, BeginTransaction(r) PROVE IInv'
  BY <1>2 DEF BeginTransaction, IInv, TypeOK, OwnedRecords, OwnersHold, CommittedRecords,
      WorkLabels, AppliedRecords, OuterLabels, AnswersAreFinal, CommittedWork, ReplayIsTruthful,
      NeverSeenInProgress, NoRecord, Record, NoAnswer, Answer, Labels, PastCreate
<1>3. ASSUME NEW r \in Requests, CreateRecord(r) PROVE IInv'
  <2>1. TypeOK'
    <3>1. pc' \in [Requests -> Labels]
      <4>1. PICK l \in {"work", "ownWork", "reread"} : pc' = [pc EXCEPT ![r] = l]
        BY <1>3 DEF CreateRecord
      <4>2. l \in Labels
        BY DEF Labels
      <4> QED BY <4>1, <4>2 DEF IInv, TypeOK
    <3>2. record' \in [Keys -> Record]
      BY <1>3 DEF IInv, TypeOK, CreateRecord, Record
    <3> QED BY <1>3, <3>1, <3>2 DEF IInv, TypeOK, CreateRecord
  <2>2. OwnedRecords'
    <3> SUFFICES ASSUME NEW k \in Keys, record'[k].writer # NoRequest
                 PROVE  /\ record'[k].by = record'[k].writer
                        /\ record'[k].status # "NONE"
                        /\ KeyOf[record'[k].writer] = k
                        /\ record'[k].writer \in outer'
                        /\ pc'[record'[k].writer] \in PastCreate
      BY DEF OwnedRecords
    <3>1. pc[r] = "create" /\ r \in outer
      BY <1>3 DEF CreateRecord
    <3>2. CASE record[KeyOf[r]] = NoRecord /\ k = KeyOf[r]
      <4>1. /\ record'[k] = [status |-> "IN_PROGRESS", by |-> r, writer |-> r]
            /\ outer' = outer /\ pc'[r] \in PastCreate
        BY <1>3, <3>2 DEF CreateRecord, IInv, TypeOK, Visible, NoRecord, PastCreate
      <4> QED BY <4>1, <3>1, <3>2
    <3>3. CASE ~(record[KeyOf[r]] = NoRecord /\ k = KeyOf[r])
      <4>1. record'[k] = record[k]
        BY <1>3, <3>3 DEF CreateRecord, IInv, TypeOK
      <4>2. /\ record[k].by = record[k].writer /\ record[k].status # "NONE"
            /\ KeyOf[record[k].writer] = k /\ record[k].writer \in outer
            /\ pc[record[k].writer] \in PastCreate
        BY <4>1 DEF IInv, OwnedRecords
      <4>3. record[k].writer # r
        BY <4>2, <3>1 DEF PastCreate
      <4>4. record[k].writer \in outer' /\ pc'[record[k].writer] = pc[record[k].writer]
        BY <1>3, <4>2, <4>3 DEF CreateRecord, IInv, TypeOK
      <4> QED BY <4>1, <4>2, <4>4
    <3> QED BY <3>2, <3>3
  <2>3. OwnersHold'
    BY <1>3 DEF IInv, OwnersHold, CreateRecord, TypeOK, PastCreate, Record, NoRecord, OuterLabels, OwnedRecords
  <2>4. CommittedRecords'
    BY <1>3 DEF IInv, CommittedRecords, CreateRecord, TypeOK, Record, NoRecord, OwnedRecords
  <2>5. WorkLabels'
    BY <1>3 DEF IInv, WorkLabels, CreateRecord, TypeOK
  <2>6. AppliedRecords'
    <3> SUFFICES ASSUME Joined, NEW q \in applied
                 PROVE  /\ pc'[q] \in {"committed", "over"}
                        /\ record'[KeyOf[q]].status = "COMPLETED"
                        /\ record'[KeyOf[q]].by = q
                        /\ record'[KeyOf[q]].writer = NoRequest
      BY <1>3 DEF AppliedRecords, CreateRecord
    <3>1. q \in Requests /\ KeyOf[q] \in Keys
      BY DEF IInv, TypeOK, IdempotencyAssumption
    <3>2. /\ pc[q] \in {"committed", "over"}
          /\ record[KeyOf[q]].status = "COMPLETED" /\ record[KeyOf[q]].by = q
          /\ record[KeyOf[q]].writer = NoRequest
      BY DEF IInv, AppliedRecords
    <3>3. q # r /\ pc'[q] = pc[q]
      BY <1>3, <3>1, <3>2 DEF CreateRecord, IInv, TypeOK
    <3>4. record'[KeyOf[q]] = record[KeyOf[q]]
      <4>1. CASE record' = record
        BY <4>1
      <4>2. CASE record[KeyOf[r]] = NoRecord
        <5>1. KeyOf[q] # KeyOf[r]
          BY <4>2, <3>2 DEF NoRecord
        <5> QED BY <1>3, <3>1, <5>1 DEF CreateRecord, IInv, TypeOK
      <4> QED BY <1>3, <4>1, <4>2 DEF CreateRecord
    <3> QED BY <3>2, <3>3, <3>4
  <2>7. OuterLabels'
    BY <1>3 DEF IInv, OuterLabels, CreateRecord, TypeOK, PastCreate
  <2>8. AnswersAreFinal'
    BY <1>3 DEF IInv, AnswersAreFinal, CreateRecord, TypeOK, Answer
  <2>9. ReplayIsTruthful'
    BY <1>3 DEF IInv, ReplayIsTruthful, CreateRecord, TypeOK, Answer, Visible, CommittedRecords, NoRecord
  <2>10. NeverSeenInProgress'
    BY <1>3 DEF IInv, NeverSeenInProgress, CreateRecord, TypeOK, Answer, Visible, CommittedRecords, NoRecord
  <2>11. CommittedWork'
    BY <1>3 DEF IInv, CommittedWork, CreateRecord, TypeOK
  <2> QED BY <2>1, <2>2, <2>3, <2>4, <2>5, <2>6, <2>7, <2>8, <2>9, <2>10, <2>11 DEF IInv
<1>4. ASSUME NEW r \in Requests, Reread(r) PROVE IInv'
  <2>1. pc[r] = "reread"
    BY <1>4 DEF Reread
  <2>2. CASE Visible(KeyOf[r])
    BY <1>4, <2>1, <2>2, ReplayIInv DEF Reread
  <2>3. CASE ~Visible(KeyOf[r])
    BY <1>4, <2>1, <2>3, ThrowIInv DEF Reread
  <2> QED BY <2>2, <2>3
<1>5. ASSUME NEW r \in Requests, WorkInTransaction(r) PROVE IInv'
  <2>1. CASE Throw(r, "REJECTED")
    BY <1>5, <2>1, ThrowIInv DEF WorkInTransaction
  <2>2. CASE /\ r \in outer
             /\ pc' = [pc EXCEPT ![r] = "complete"]
             /\ UNCHANGED <<record, outer, inner, applied, answer>>
    BY <1>5, <2>2 DEF WorkInTransaction, IInv, TypeOK, OwnedRecords, OwnersHold, CommittedRecords,
      WorkLabels, AppliedRecords, OuterLabels, AnswersAreFinal, CommittedWork, ReplayIsTruthful,
      NeverSeenInProgress, NoRecord, Record, NoAnswer, Answer, Labels, PastCreate
  <2> QED BY <1>5, <2>1, <2>2 DEF WorkInTransaction
<1>6. ASSUME NEW r \in Requests, WorkOpensTransaction(r) PROVE IInv'
  BY <1>6 DEF WorkOpensTransaction, IInv, TypeOK, OwnedRecords, OwnersHold, CommittedRecords,
      WorkLabels, AppliedRecords, OuterLabels, AnswersAreFinal, CommittedWork, ReplayIsTruthful,
      NeverSeenInProgress, NoRecord, Record, NoAnswer, Answer, Labels, PastCreate
<1>7. ASSUME NEW r \in Requests, WorkCommitsOwn(r) PROVE IInv'
  <2>1. CASE Throw(r, "REJECTED")
    BY <1>7, <2>1, ThrowIInv DEF WorkCommitsOwn
  <2>2. CASE /\ inner'   = inner \ {r}
             /\ applied' = applied \cup {r}
             /\ pc'      = [pc EXCEPT ![r] = "ownCommitted"]
             /\ UNCHANGED <<record, outer, answer>>
    BY <1>7, <2>2 DEF WorkCommitsOwn, IInv, TypeOK, OwnedRecords, OwnersHold, CommittedRecords,
      WorkLabels, AppliedRecords, OuterLabels, AnswersAreFinal, CommittedWork, ReplayIsTruthful,
      NeverSeenInProgress, NoRecord, Record, NoAnswer, Answer, Labels, PastCreate
  <2> QED BY <1>7, <2>1, <2>2 DEF WorkCommitsOwn
<1>8. ASSUME NEW r \in Requests, CompleteRecord(r) PROVE IInv'
  BY <1>8 DEF CompleteRecord, IInv, TypeOK, OwnedRecords, OwnersHold, CommittedRecords,
      WorkLabels, AppliedRecords, OuterLabels, AnswersAreFinal, CommittedWork, ReplayIsTruthful,
      NeverSeenInProgress, NoRecord, Record, NoAnswer, Answer, Labels, PastCreate
<1>9. ASSUME NEW r \in Requests, Commit(r) PROVE IInv'
  BY <1>9 DEF Commit, Respond, IInv, TypeOK, OwnedRecords, OwnersHold, CommittedRecords,
      WorkLabels, AppliedRecords, OuterLabels, AnswersAreFinal, CommittedWork, ReplayIsTruthful,
      NeverSeenInProgress, NoRecord, Record, NoAnswer, Answer, Labels, PastCreate
<1>10. ASSUME NEW r \in Requests, StatementOnClosed(r) PROVE IInv'
  BY <1>10, ThrowIInv DEF StatementOnClosed
<1>11. ASSUME NEW r \in Requests, TransactionTimeout(r) PROVE IInv'
  BY <1>11 DEF TransactionTimeout, RolledBack, IInv, TypeOK, OwnedRecords, OwnersHold, CommittedRecords,
      WorkLabels, AppliedRecords, OuterLabels, AnswersAreFinal, CommittedWork, ReplayIsTruthful,
      NeverSeenInProgress, NoRecord, Record, NoAnswer, Answer, Labels, PastCreate
<1>12. ASSUME NEW r \in Requests, PoolTimeout(r) PROVE IInv'
  BY <1>12, ThrowIInv DEF PoolTimeout
<1>13. CASE Crash
  BY <1>13 DEF Crash, IInv, TypeOK, OwnedRecords, OwnersHold, CommittedRecords,
      WorkLabels, AppliedRecords, OuterLabels, AnswersAreFinal, CommittedWork, ReplayIsTruthful,
      NeverSeenInProgress, NoRecord, Record, NoAnswer, Answer, Labels, PastCreate
<1>14. CASE UNCHANGED vars
  BY <1>14 DEF vars, IInv, TypeOK, OwnedRecords, OwnersHold, CommittedRecords,
      WorkLabels, AppliedRecords, OuterLabels, AnswersAreFinal, CommittedWork, ReplayIsTruthful,
      NeverSeenInProgress, NoRecord, Record, NoAnswer, Answer, Labels, PastCreate
<1>15. ASSUME NEW r \in Requests, WorkReturns(r) PROVE IInv'
  <2>1. CASE Throw(r, "ERROR")
    BY <1>15, <2>1, ThrowIInv DEF WorkReturns
  <2>2. CASE /\ pc' = [pc EXCEPT ![r] = "complete"]
             /\ UNCHANGED <<record, outer, inner, applied, answer>>
    BY <1>15, <2>2 DEF WorkReturns, IInv, TypeOK, OwnedRecords, OwnersHold, CommittedRecords,
      WorkLabels, AppliedRecords, OuterLabels, AnswersAreFinal, CommittedWork, ReplayIsTruthful,
      NeverSeenInProgress, NoRecord, Record, NoAnswer, Answer, Labels, PastCreate
  <2> QED BY <1>15, <2>1, <2>2 DEF WorkReturns
<1>16. ASSUME NEW r \in Requests, Return(r) PROVE IInv'
  <2>1. PICK kind \in {"DONE", "ERROR"}, body \in Requests \cup {NoRequest} :
               /\ Respond(r, kind, body) /\ pc[r] = "committed"
               /\ UNCHANGED <<record, outer, inner, applied>>
    BY <1>16 DEF Return
  <2>2. TypeOK'
    <3>1. [kind |-> kind, body |-> body] \in Answer /\ "over" \in Labels
      BY DEF Answer, Labels
    <3> QED BY <2>1, <3>1 DEF IInv, TypeOK, Respond
  <2>3. OwnedRecords'
    BY <2>1 DEF Respond, IInv, TypeOK, OwnedRecords, Answer, PastCreate
  <2>4. OwnersHold'
    BY <2>1 DEF Respond, IInv, TypeOK, OwnersHold, Answer, PastCreate
  <2>5. CommittedRecords'
    BY <2>1 DEF Respond, IInv, TypeOK, CommittedRecords, Answer, PastCreate
  <2>6. WorkLabels'
    BY <2>1 DEF Respond, IInv, TypeOK, WorkLabels, Answer, PastCreate
  <2>7. AppliedRecords'
    BY <2>1 DEF Respond, IInv, TypeOK, AppliedRecords, Answer, PastCreate
  <2>8. OuterLabels'
    BY <2>1 DEF Respond, IInv, TypeOK, OuterLabels, Answer, PastCreate
  <2>9. AnswersAreFinal'
    BY <2>1 DEF Respond, IInv, TypeOK, AnswersAreFinal, Answer, PastCreate
  <2>10. CommittedWork'
    BY <2>1 DEF Respond, IInv, TypeOK, CommittedWork, Answer, PastCreate
  <2>11. ReplayIsTruthful'
    BY <2>1 DEF Respond, IInv, TypeOK, ReplayIsTruthful, Answer, PastCreate
  <2>12. NeverSeenInProgress'
    BY <2>1 DEF Respond, IInv, TypeOK, NeverSeenInProgress, Answer, PastCreate
  <2> QED BY <2>2, <2>3, <2>4, <2>5, <2>6, <2>7, <2>8, <2>9, <2>10, <2>11, <2>12 DEF IInv
<1> QED
  BY <1>1, <1>2, <1>3, <1>4, <1>5, <1>6, <1>7, <1>8, <1>9, <1>10, <1>11, <1>12,
     <1>13, <1>14, <1>15, <1>16
  DEF Next, run, Done

(* The inductive invariant holds of every behaviour. *)
THEOREM Invariance == Spec => []IInv
  BY InitIInv, NextIInv, PTL DEF Spec

(* Every variable keeps its type. *)
THEOREM TypeCorrect == Spec => []TypeOK
<1>1. IInv => TypeOK
  BY DEF IInv
<1> QED BY <1>1, Invariance, PTL

(* Work that runs in the transaction of its record (idempotency.service.ts: *)
(* 119-152) is committed at most once per key, whatever crashes, timeouts   *)
(* and resends there are.                                                   *)
THEOREM JoinedWorkAtMostOnce == ASSUME Joined PROVE Spec => []AtMostOnce
<1>1. IInv => AtMostOnce
  <2> SUFFICES ASSUME IInv, NEW r \in applied, NEW q \in applied, KeyOf[r] = KeyOf[q]
               PROVE  r = q
    BY DEF AtMostOnce
  <2> QED BY DEF IInv, AppliedRecords
<1> QED BY <1>1, Invariance, PTL

(* Record and work agree (idempotency.service.ts:115-117): whatever errors, *)
(* crashes and lost answers there are, joined work is committed exactly     *)
(* when its record is there for a resend to find.                           *)
THEOREM JoinedRecordMatchesWork == ASSUME Joined PROVE Spec => []RecordMatchesWork
<1>1. IInv => RecordMatchesWork
  BY IdempotencyAssumption
  DEF IInv, TypeOK, AppliedRecords, CommittedRecords, RecordMatchesWork, Visible, NoRecord
<1> QED BY <1>1, Invariance, PTL

(* In both kinds of handler a replayed answer is the answer of committed    *)
(* work of the same key and content (replay, idempotency.service.ts:169).   *)
THEOREM ReplaysAreTruthful == Spec => []ReplayIsTruthful
<1>1. IInv => ReplayIsTruthful
  BY DEF IInv
<1> QED BY <1>1, Invariance, PTL

(* The "being processed" answer (idempotency.service.ts:184-190) is dead    *)
(* code in both kinds of handler, against what the comments there say: the  *)
(* row is invisible until it is COMPLETED, and until then a request of the  *)
(* key waits at its INSERT.                                                 *)
THEOREM InProgressIsInvisible == Spec => []NeverSeenInProgress
<1>1. IInv => NeverSeenInProgress
  BY DEF IInv
<1> QED BY <1>1, Invariance, PTL

(* A request that throws before its commit is one that fails, or one that  *)
(* is rejected without effect.                                             *)
LEMMA ThrowFails ==
  ASSUME IInv, Joined, NEW r \in Requests, NEW kind \in {"REJECTED", "ERROR"},
         pc[r] \notin {"over", "committed"}, Throw(r, kind)
  PROVE  Once!OnceNext
<1>1. r \notin applied /\ answer[r].kind = "NONE" /\ applied' = applied
  BY DEF IInv, AppliedRecords, AnswersAreFinal, Throw
<1>2. CASE kind = "REJECTED"
  <2>1. Once!Reject(r)
    BY <1>1, <1>2 DEF Throw, Respond, Once!Reject, Once!Waiting, Once!Reply
  <2> QED BY <2>1 DEF Once!OnceNext
<1>3. CASE kind = "ERROR"
  <2>1. Once!Fail(r)
    BY <1>1, <1>3 DEF Throw, Respond, Once!Fail, Once!Waiting, Once!Reply
  <2> QED BY <2>1 DEF Once!OnceNext
<1> QED BY <1>2, <1>3

(* A request answered from a visible record repeats the applied work whose *)
(* answer the record stores.                                               *)
LEMMA ReplayRepeats ==
  ASSUME IInv, Joined, NEW r \in Requests, pc[r] \in {"arrive", "reread"},
         Visible(KeyOf[r]), replay(r)
  PROVE  Once!OnceNext
<1> DEFINE q == record[KeyOf[r]].by
<1>1. /\ record[KeyOf[r]].status = "COMPLETED" /\ q \in applied /\ KeyOf[q] = KeyOf[r]
      /\ answer[r].kind = "NONE"
  BY IdempotencyAssumption
  DEF IInv, TypeOK, CommittedRecords, Visible, NoRecord, AnswersAreFinal
<1>2. q # r
  BY <1>1 DEF IInv, AppliedRecords
<1>3. answer' = [answer EXCEPT ![r] =
                   IF FingerprintOf[q] = FingerprintOf[r]
                   THEN [kind |-> "REPLAYED", body |-> q]
                   ELSE [kind |-> "DUPLICATE", body |-> NoRequest]]
  BY <1>1 DEF replay, Respond
<1>4. applied' = applied
  BY DEF replay
<1>5. Once!Repeat(r)
  BY <1>1, <1>2, <1>3, <1>4 DEF Once!Repeat, Once!Waiting, Once!Reply
<1> QED BY <1>5 DEF Once!OnceNext

(* The commit of joined work is the one step that performs the request: no *)
(* applied work of the key is there, for its committed record would be.    *)
LEMMA CommitPerforms ==
  ASSUME IInv, Joined, NEW r \in Requests, Commit(r)
  PROVE  Once!OnceNext
<1>1. pc[r] = "commit" /\ record[KeyOf[r]].writer = r /\ r # NoRequest
  BY IdempotencyAssumption DEF Commit, IInv, OwnersHold, PastCreate
<1>2. ASSUME NEW q \in applied PROVE KeyOf[q] # KeyOf[r]
  BY <1>1 DEF IInv, AppliedRecords
<1>3. answer[r].kind = "NONE"
  BY <1>1 DEF IInv, AnswersAreFinal
<1>4. Once!Perform(r)
  BY <1>2, <1>3 DEF Commit, Once!Perform, Once!Waiting
<1> QED BY <1>4 DEF Once!OnceNext

(* What follows the commit confirms the effect, or fails to. *)
LEMMA ReturnConfirms ==
  ASSUME IInv, NEW r \in Requests, Return(r)
  PROVE  Once!OnceNext
<1>1. answer[r].kind = "NONE" /\ r \in applied /\ applied' = applied
  BY DEF Return, IInv, AnswersAreFinal, CommittedWork
<1>2. CASE Respond(r, "DONE", r)
  <2>1. Once!Confirm(r)
    BY <1>1, <1>2 DEF Respond, Once!Confirm, Once!Waiting, Once!Reply
  <2> QED BY <2>1 DEF Once!OnceNext
<1>3. CASE Respond(r, "ERROR", NoRequest)
  <2>1. Once!Fail(r)
    BY <1>1, <1>3 DEF Respond, Once!Fail, Once!Waiting, Once!Reply
  <2> QED BY <2>1 DEF Once!OnceNext
<1> QED BY <1>2, <1>3 DEF Return

(* A crash loses exactly the requests in flight. *)
LEMMA CrashLoses == ASSUME IInv, Crash PROVE Once!OnceNext
<1> DEFINE S == {r \in Requests : pc[r] \notin {"arrive", "over"}}
<1>1. \A r \in S : answer[r].kind = "NONE"
  BY DEF IInv, AnswersAreFinal
<1>2. answer' = [r \in Requests |-> IF r \in S THEN [kind |-> "LOST", body |-> NoRequest]
                                    ELSE answer[r]]
  BY DEF Crash
<1>3. Once!Lose(S)
  BY <1>1, <1>2 DEF Crash, Once!Lose, Once!Waiting, Once!Reply
<1> QED BY <1>3 DEF Once!OnceNext

(* run implements the promise of the key (OnceOnly) for every number of    *)
(* requests, keys and connections, when the work joins the transaction it  *)
(* is given (idempotency.service.ts:112-152), with errors, crashes and     *)
(* lost answers before and after the COMMIT: one effect per key, truthful  *)
(* answers, and no effect of a rejected request.                           *)
THEOREM JoinedImplementsOnce == ASSUME Joined PROVE Spec => ImplementsOnce
<1>1. Init => Once!OnceInit
  BY DEF Init, NoAnswer, Once!OnceInit, Once!Reply
<1>2. IInv /\ [Next]_vars => [Once!OnceNext]_Once!onceVars
  <2> SUFFICES ASSUME IInv, [Next]_vars, ~UNCHANGED <<applied, answer>>
               PROVE  Once!OnceNext
    BY DEF Once!onceVars
  <2>1. ASSUME NEW r \in Requests, replayExisting(r) PROVE Once!OnceNext
    BY <2>1, ReplayRepeats DEF replayExisting
  <2>2. ASSUME NEW r \in Requests, Reread(r) PROVE Once!OnceNext
    BY <2>2, ReplayRepeats, ThrowFails DEF Reread
  <2>3. ASSUME NEW r \in Requests, WorkInTransaction(r) PROVE Once!OnceNext
    BY <2>3, ThrowFails DEF WorkInTransaction
  <2>4. ASSUME NEW r \in Requests, WorkCommitsOwn(r) PROVE Once!OnceNext
    BY <2>4 DEF WorkCommitsOwn, IInv, WorkLabels
  <2>5. ASSUME NEW r \in Requests, Commit(r) PROVE Once!OnceNext
    BY <2>5, CommitPerforms
  <2>6. ASSUME NEW r \in Requests, StatementOnClosed(r) \/ PoolTimeout(r) PROVE Once!OnceNext
    BY <2>6, ThrowFails DEF StatementOnClosed, PoolTimeout
  <2>10. ASSUME NEW r \in Requests, Return(r) PROVE Once!OnceNext
    BY <2>10, ReturnConfirms
  <2>11. ASSUME NEW r \in Requests, WorkReturns(r) PROVE Once!OnceNext
    BY <2>11 DEF WorkReturns, IInv, WorkLabels
  <2>7. CASE Crash
    BY <2>7, CrashLoses
  <2>8. ASSUME NEW r \in Requests,
               \/ BeginTransaction(r) \/ CreateRecord(r) \/ WorkOpensTransaction(r)
               \/ CompleteRecord(r) \/ TransactionTimeout(r)
        PROVE FALSE
    BY <2>8 DEF BeginTransaction, CreateRecord, WorkOpensTransaction, CompleteRecord,
                TransactionTimeout
  <2>9. CASE UNCHANGED vars
    BY <2>9 DEF vars
  <2> QED BY <2>1, <2>2, <2>3, <2>4, <2>5, <2>6, <2>7, <2>8, <2>9, <2>10, <2>11 DEF Next, run, Done
<1> QED BY <1>1, <1>2, Invariance, PTL DEF Spec, ImplementsOnce, Once!OnceSpec

============================================================================
