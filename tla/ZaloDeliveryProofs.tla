------------------------- MODULE ZaloDeliveryProofs -------------------------
(***************************************************************************)
(* Proofs about the delivery of Zalo messages, for every number of         *)
(* runners, deliveries, attempts, faults and tokens.                       *)
(*                                                                         *)
(* The inductive invariant says what a runner may hold in memory.  A       *)
(* delivery it has claimed, or is sending, is held by no other runner, is  *)
(* SENDING or was settled by another one (FAILED), and has not reached the *)
(* phone unless the runner is about to write that it has (Holding).  A row *)
(* that can be claimed has not been sent (Rows).  Settling an orphan as    *)
(* FAILED, and never as PENDING, is what keeps a delivery with its holder. *)
(***************************************************************************)
EXTENDS ZaloDelivery, TLAPS

Held(r) == run[r].claimed \cup {run[r].cur}

(* The answer that says the message has gone out is about to be written. *)
Answered(r, d) == run[r].cur = d /\ run[r].pc = "finish" /\ run[r].reply = "OK"

(* What a runner has in memory at each step of its tick. *)
Shape ==
  \A r \in Runners :
    /\ run[r].pc \in {"idle", "orphans", "expire", "claim", "down"} =>
         run[r].claimed = {} /\ run[r].cur = NoDelivery /\ ~run[r].force
    /\ run[r].pc \in {"access", "save"} /\ ~run[r].force =>
         run[r].claimed = {} /\ run[r].cur = NoDelivery
    /\ run[r].pc = "go" /\ ~run[r].force => run[r].cur = NoDelivery
    /\ run[r].pc = "release" => run[r].cur = NoDelivery /\ ~run[r].force
    /\ run[r].force \/ run[r].pc = "finish" => run[r].cur # NoDelivery
    /\ run[r].pc = "finish" => run[r].reply # "NONE"
    /\ run[r].cur \notin run[r].claimed

Holding ==
  \A r \in Runners : \A d \in Deliveries : d \in Held(r) =>
    /\ delivery[d].status \in {"SENDING", "FAILED"}
    /\ delivery[d].attempts < MAX_ATTEMPTS
    /\ \A q \in Runners : d \in Held(q) => q = r
    /\ Answered(r, d) => reached[d] > 0
    /\ ~Lost /\ ~Answered(r, d) => reached[d] = 0

Rows ==
  \A d \in Deliveries :
    /\ delivery[d].status = "PENDING" => delivery[d].attempts < MAX_ATTEMPTS
    /\ ~Lost /\ delivery[d].status = "PENDING" => reached[d] = 0
    /\ ~Lost => reached[d] <= 1

(* A refresh token that was used is not taken again, and what is refused is *)
(* remembered as refused.                                                   *)
Spent ==
  \A r \in Runners : run[r].pc = "save" =>
    /\ run[r].reply \in {"OK", "RETRY", "FAIL"}
    /\ run[r].reply = "OK" => run[r].key \in dead
    /\ run[r].reply = "FAIL" => run[r].key \in refused

IInv == TypeOK /\ Shape /\ Holding /\ Rows /\ SentHasReached /\ Spent
-----------------------------------------------------------------------------
RowType == [status : Ended \cup {"PENDING", "SENDING"}, attempts : 0 .. MAX_ATTEMPTS,
            due : BOOLEAN, stale : BOOLEAN, expired : BOOLEAN]
RunType == [pc : Steps, stopping : BOOLEAN, out : SUBSET Deliveries, claimed : SUBSET Deliveries,
            full : BOOLEAN, cur : Deliveries \cup {NoDelivery}, force : BOOLEAN,
            key : Keys, new : Keys, reply : Replies]

ConnType == [status : {"ACTIVE", "REAUTH_REQUIRED", "NOT_CONFIGURED"}, fresh : BOOLEAN, key : Keys,
             right : BOOLEAN]
LeaseType == [owner : Runners \cup {NoRunner}, live : BOOLEAN]

(* The initial state satisfies the inductive invariant. *)
LEMMA InitIInv == Init => IInv
<1> SUFFICES ASSUME Init PROVE IInv
  OBVIOUS
<1> USE ZaloDeliveryAssumption
<1>1. 1 \in Keys /\ 0 \in 0 .. MAX_ATTEMPTS /\ 0 \in 0 .. MaxFaults
  BY DEF Keys
<1>2. Written \in RowType /\ Later \in RowType /\ Past \in RowType
  BY <1>1 DEF Written, Later, Past, RowType, Ended
<1>3. NoRun \in RunType /\ Down \in RunType
  BY <1>1 DEF NoRun, Down, RunType, Steps, Replies
<1>4. delivery \in [Deliveries -> RowType] /\ run \in [Runners -> RunType]
  BY <1>2, <1>3 DEF Init
<1>5. TypeOK
  <2>1. conn.key \in Keys /\ issued = conn.key /\ conn \in ConnType
    BY DEF Init, ConnType
  <2>2. dead \subseteq Keys
    BY <2>1 DEF Init, Keys
  <2> QED BY <1>1, <1>4, <2>1, <2>2 DEF Init, TypeOK, RowType, RunType, ConnType
<1>6. Shape /\ Spent
  BY DEF Init, Shape, Spent, NoRun, Down
<1>7. Holding
  BY DEF Init, Holding, Held, NoRun, Down
<1>8. Rows /\ SentHasReached
  <2>1. /\ Written.status = "PENDING" /\ Written.attempts = 0
        /\ Later.status = "PENDING" /\ Later.attempts = 0
        /\ Past.status = "EXPIRED" /\ Past.attempts = 0
    BY DEF Written, Later, Past
  <2>2. \A d \in Deliveries : delivery[d] \in {Written, Later, Past} /\ reached[d] = 0
    BY DEF Init
  <2> QED BY <2>1, <2>2 DEF Rows, SentHasReached
<1> QED BY <1>5, <1>6, <1>7, <1>8 DEF IInv

(* Updates of what a runner has in memory, and of a row, keep their type. *)
LEMMA RunAccess ==
  ASSUME NEW x \in RunType, NEW pc \in Steps, NEW key \in Keys, NEW new \in Keys, NEW reply \in Replies
  PROVE  [x EXCEPT !.pc = pc, !.key = key, !.new = new, !.reply = reply] \in RunType
  BY DEF RunType

LEMMA RunExpire ==
  ASSUME NEW x \in RunType, NEW pc \in Steps, NEW out \in SUBSET Deliveries
  PROVE  [x EXCEPT !.pc = pc, !.out = out] \in RunType
  BY DEF RunType

LEMMA RunClaim ==
  ASSUME NEW x \in RunType, NEW pc \in Steps, NEW claimed \in SUBSET Deliveries, NEW full \in BOOLEAN
  PROVE  [x EXCEPT !.pc = pc, !.claimed = claimed, !.full = full] \in RunType
  BY DEF RunType

LEMMA RunReply ==
  ASSUME NEW x \in RunType, NEW pc \in Steps, NEW cur \in Deliveries, NEW reply \in Replies
  PROVE  [x EXCEPT !.pc = pc, !.cur = cur, !.claimed = @ \ {cur}, !.reply = reply] \in RunType
  BY DEF RunType

LEMMA RunForce ==
  ASSUME NEW x \in RunType, NEW pc \in Steps, NEW cur \in Deliveries
  PROVE  [x EXCEPT !.pc = pc, !.cur = cur, !.claimed = @ \ {cur}, !.force = TRUE] \in RunType
  BY DEF RunType

LEMMA RunFinish ==
  ASSUME NEW x \in RunType, NEW pc \in Steps, NEW out \in SUBSET Deliveries
  PROVE  [[x EXCEPT !.cur = NoDelivery, !.force = FALSE, !.reply = "NONE", !.out = out]
             EXCEPT !.pc = pc] \in RunType
  BY DEF RunType, Replies

LEMMA RunStop == ASSUME NEW x \in RunType PROVE [x EXCEPT !.stopping = TRUE] \in RunType
  BY DEF RunType

LEMMA RowAges == ASSUME NEW x \in RowType PROVE [x EXCEPT !.stale = TRUE] \in RowType
  BY DEF RowType

LEMMA RowDue == ASSUME NEW x \in RowType PROVE [x EXCEPT !.due = TRUE] \in RowType
  BY DEF RowType

LEMMA RowExpires == ASSUME NEW x \in RowType PROVE [x EXCEPT !.expired = TRUE] \in RowType
  BY DEF RowType

LEMMA RowFinish ==
  ASSUME NEW d \in Deliveries, delivery[d] \in RowType, delivery[d].attempts < MAX_ATTEMPTS,
         NEW reply \in Replies \ {"NONE"}
  PROVE  Finished(d, reply) \in RowType
<1> USE ZaloDeliveryAssumption
<1> DEFINE row == [delivery[d] EXCEPT !.stale = FALSE]
           counted == [row EXCEPT !.attempts = @ + 1]
<1>1. row \in RowType /\ row.attempts = delivery[d].attempts
  BY DEF RowType
<1>2. counted \in RowType
  <2>1. row.attempts + 1 \in 0 .. MAX_ATTEMPTS
    BY <1>1 DEF RowType
  <2>2. ASSUME NEW x \in RowType, NEW n \in 0 .. MAX_ATTEMPTS
        PROVE  [x EXCEPT !.attempts = n] \in RowType
    BY DEF RowType
  <2> QED BY <1>1, <2>1, <2>2
<1>3. ASSUME NEW x \in RowType, NEW status \in Ended \cup {"PENDING"}
      PROVE  [x EXCEPT !.status = status] \in RowType
  BY DEF RowType, Ended
<1>4. ASSUME NEW x \in RowType
      PROVE  [x EXCEPT !.status = "PENDING", !.due = FALSE] \in RowType
  BY DEF RowType
<1> HIDE DEF row, counted
<1>5. \/ Finished(d, reply) = [counted EXCEPT !.status = "SENT"]
      \/ Finished(d, reply) = [row EXCEPT !.status = "FAILED"]
      \/ Finished(d, reply) = [row EXCEPT !.status = "PENDING"]
      \/ Finished(d, reply) = [row EXCEPT !.status = "PENDING", !.due = FALSE]
      \/ Finished(d, reply) = [counted EXCEPT !.status = "FAILED"]
      \/ Finished(d, reply) = [counted EXCEPT !.status = "PENDING", !.due = FALSE]
  BY DEF Finished, row, counted, Replies
<1> QED BY <1>1, <1>2, <1>3, <1>4, <1>5 DEF Ended

(* Every step keeps the types; a sending is counted only below MAX_ATTEMPTS. *)
LEMMA TypeNext ==
  ASSUME IInv, [Next]_vars PROVE TypeOK'
<1> USE ZaloDeliveryAssumption
<1> DEFINE Typed == /\ delivery \in [Deliveries -> RowType] /\ run \in [Runners -> RunType]
                    /\ conn \in ConnType /\ lease \in LeaseType
                    /\ reached \in [Deliveries -> Nat] /\ dead \subseteq Keys /\ refused \subseteq Keys /\ issued \in Keys
                    /\ faults \in 0 .. MaxFaults
<1>t. Typed /\ 1 \in Keys
  BY DEF IInv, TypeOK, RowType, RunType, ConnType, LeaseType, Keys
<1>g. Typed' => TypeOK'
  BY DEF TypeOK, RowType, RunType, ConnType, LeaseType
<1>r. ASSUME NEW r \in Runners, NEW rec \in RunType PROVE [run EXCEPT ![r] = rec] \in [Runners -> RunType]
  BY <1>t
<1>s. ASSUME NEW S, NEW status \in Ended \cup {"PENDING", "SENDING"}
      PROVE Set(S, status) \in [Deliveries -> RowType]
  <2>1. ASSUME NEW row \in RowType
        PROVE  [row EXCEPT !.status = status, !.stale = FALSE] \in RowType
    BY DEF RowType
  <2> QED BY <1>t, <2>1 DEF Set
<1>e. ASSUME NEW r \in Runners, EndTick(r) PROVE run' \in [Runners -> RunType]
  <2>1. [NoRun EXCEPT !.stopping = run[r].stopping] \in RunType
    BY <1>t DEF NoRun, RunType, Steps, Replies
  <2> QED BY <1>e, <1>r, <2>1 DEF EndTick
<1>f. ASSUME Fault PROVE faults' \in 0 .. MaxFaults
  BY <1>f, <1>t DEF Fault
<1>p. ASSUME NEW r \in Runners, NEW step \in Steps, Goto(r, step) PROVE run' \in [Runners -> RunType]
  <2>1. [run[r] EXCEPT !.pc = step] \in RunType
    BY <1>t DEF RunType
  <2>2. run' = [run EXCEPT ![r] = [run[r] EXCEPT !.pc = step]]
    BY <1>p DEF Goto
  <2> QED BY <2>1, <2>2, <1>t
<1>1. ASSUME NEW r \in Runners, acquire(r) PROVE TypeOK'
  <2>1. lease' \in LeaseType
    BY <1>1 DEF acquire, Extend, LeaseType
  <2> QED BY <1>1, <1>t, <1>p, <1>g, <2>1 DEF acquire, zalo, tokens, Steps
<1>2. ASSUME NEW r \in Runners, settleOrphans(r) PROVE TypeOK'
  BY <1>2, <1>t, <1>p, <1>s, <1>g DEF settleOrphans, zalo, tokens, Steps, Ended
<1>3. ASSUME NEW r \in Runners, expire(r) PROVE TypeOK'
  <2> DEFINE out == {d \in Deliveries : delivery[d].expired \/ ~delivery[d].due}
  <2>1. [run[r] EXCEPT !.pc = "access", !.out = out] \in RunType
    BY <1>t, RunExpire DEF Steps
  <2>2. run' = [run EXCEPT ![r] = [run[r] EXCEPT !.pc = "access", !.out = out]]
    BY <1>3 DEF expire
  <2>3. run' \in [Runners -> RunType]
    BY <2>1, <2>2, <1>r
  <2> QED BY <1>3, <1>t, <1>s, <1>g, <2>3 DEF expire, zalo, tokens, Ended
<1>a. ASSUME NEW r \in Runners, Accessed(r) \/ NotAccessed(r) PROVE run' \in [Runners -> RunType]
  <2>1. CASE EndTick(r)
    BY <2>1, <1>e
  <2>2. ASSUME NEW step \in Steps, NEW reply \in Replies,
               run' = [run EXCEPT ![r].pc = step, ![r].key = 1, ![r].new = 1, ![r].reply = reply]
        PROVE  run' \in [Runners -> RunType]
    <3>1. [run[r] EXCEPT !.pc = step, !.key = 1, !.new = 1, !.reply = reply] \in RunType
      BY <1>t, RunAccess
    <3>2. run' = [run EXCEPT ![r] = [run[r] EXCEPT !.pc = step, !.key = 1, !.new = 1, !.reply = reply]]
      BY <2>2
    <3> QED BY <3>1, <3>2, <1>r
  <2> QED BY <1>a, <2>1, <2>2 DEF Accessed, NotAccessed, Steps, Replies
<1>4. ASSUME NEW r \in Runners, access(r) PROVE TypeOK'
  <2>1. ASSUME NEW new \in Keys, NEW reply \in Replies,
               run' = [run EXCEPT ![r].pc = "save", ![r].key = conn.key, ![r].new = new, ![r].reply = reply]
        PROVE  run' \in [Runners -> RunType]
    <3>1. [run[r] EXCEPT !.pc = "save", !.key = conn.key, !.new = new, !.reply = reply] \in RunType
      BY <1>t, RunAccess DEF Steps, ConnType
    <3>2. run' = [run EXCEPT ![r] = [run[r] EXCEPT !.pc = "save", !.key = conn.key, !.new = new, !.reply = reply]]
      BY <2>1
    <3> QED BY <3>1, <3>2, <1>r
  <2>2. issued < MaxKeys => issued + 1 \in Keys
    BY <1>t DEF Keys
  <2>3. conn.key \in Keys
    BY <1>t DEF ConnType
  <2>4. run' \in [Runners -> RunType] /\ dead' \subseteq Keys /\ refused' \subseteq Keys /\ issued' \in Keys
    BY <1>4, <1>t, <1>a, <2>1, <2>2, <2>3 DEF access, tokens, Replies
  <2> QED BY <1>4, <1>t, <1>g, <2>4 DEF access, tokens
<1>5. ASSUME NEW r \in Runners, save(r) PROVE TypeOK'
  <2>1. run[r].new \in Keys
    BY <1>t DEF RunType
  <2>2. conn' \in ConnType
    BY <1>5, <1>t, <2>1 DEF save, ConnType
  <2> QED BY <1>5, <1>t, <1>a, <1>g, <2>2 DEF save, zalo, tokens
<1>6. ASSUME NEW r \in Runners, claim(r) PROVE TypeOK'
  <2>1. PICK S \in SUBSET Claimable(r) :
          /\ delivery' = Set(S, "SENDING")
          /\ IF S = {} THEN EndTick(r)
             ELSE run' = [run EXCEPT ![r].pc = "go", ![r].claimed = S, ![r].full = Cardinality(S) = BATCH_SIZE]
    BY <1>6 DEF claim
  <2>2. S \subseteq Deliveries
    BY DEF Claimable
  <2>3. ASSUME NEW full \in BOOLEAN,
               run' = [run EXCEPT ![r].pc = "go", ![r].claimed = S, ![r].full = full]
        PROVE  run' \in [Runners -> RunType]
    <3>1. [run[r] EXCEPT !.pc = "go", !.claimed = S, !.full = full] \in RunType
      BY <1>t, <2>2, RunClaim DEF Steps
    <3>2. run' = [run EXCEPT ![r] = [run[r] EXCEPT !.pc = "go", !.claimed = S, !.full = full]]
      BY <2>3
    <3> QED BY <3>1, <3>2, <1>r
  <2>4. run' \in [Runners -> RunType]
    BY <2>1, <2>3, <1>e
  <2>5. delivery' \in [Deliveries -> RowType]
    BY <2>1, <1>s
  <2> QED BY <1>6, <1>t, <1>g, <2>4, <2>5 DEF claim, zalo, tokens
<1>d. ASSUME NEW r \in Runners, NEW d \in Deliveries, NEW reply \in Replies, Reply(r, d, reply)
      PROVE  run' \in [Runners -> RunType]
  <2>1. [run[r] EXCEPT !.pc = "finish", !.cur = d, !.claimed = @ \ {d}, !.reply = reply] \in RunType
    BY <1>t, RunReply DEF Steps
  <2>2. run' = [run EXCEPT ![r] = [run[r] EXCEPT !.pc = "finish", !.cur = d, !.claimed = @ \ {d},
                                                 !.reply = reply]]
    BY <1>d DEF Reply
  <2> QED BY <2>1, <2>2, <1>r
<1>v. ASSUME NEW r \in Runners, NEW d \in Deliveries, deliver(r, d)
      PROVE  run' \in [Runners -> RunType] /\ reached' \in [Deliveries -> Nat]
  BY <1>v, <1>t, <1>d DEF deliver, Replies
<1>7. ASSUME NEW r \in Runners, keepGoing(r) PROVE TypeOK'
  <2>1. lease' \in LeaseType
    <3>1. lease' = lease \/ lease' = [owner |-> r, live |-> TRUE]
      BY <1>7 DEF keepGoing, Extend
    <3>2. [owner |-> r, live |-> TRUE] \in LeaseType
      BY DEF LeaseType
    <3> QED BY <3>1, <3>2, <1>t
  <2>2. PICK d \in run[r].claimed :
       \/ Reply(r, d, "NO_TEMPLATE") /\ UNCHANGED reached
       \/ deliver(r, d)
       \/ /\ run' = [run EXCEPT ![r].pc = "access", ![r].cur = d, ![r].claimed = @ \ {d}, ![r].force = TRUE]
          /\ UNCHANGED reached
    BY <1>7 DEF keepGoing
  <2>3. d \in Deliveries
    BY <1>t DEF RunType
  <2>4. [run[r] EXCEPT !.pc = "access", !.cur = d, !.claimed = @ \ {d}, !.force = TRUE] \in RunType
    BY <1>t, <2>3, RunForce DEF Steps
  <2>5. [run EXCEPT ![r].pc = "access", ![r].cur = d, ![r].claimed = @ \ {d}, ![r].force = TRUE]
          \in [Runners -> RunType]
    <3>1. [run EXCEPT ![r].pc = "access", ![r].cur = d, ![r].claimed = @ \ {d}, ![r].force = TRUE]
            = [run EXCEPT ![r] = [run[r] EXCEPT !.pc = "access", !.cur = d, !.claimed = @ \ {d}, !.force = TRUE]]
      OBVIOUS
    <3> QED BY <2>4, <3>1, <1>r
  <2>6. run' \in [Runners -> RunType] /\ reached' \in [Deliveries -> Nat]
    BY <2>2, <2>3, <2>5, <1>d, <1>v, <1>t DEF Replies
  <2> QED BY <1>7, <1>t, <1>g, <2>1, <2>6 DEF keepGoing, tokens
<1>8. ASSUME NEW r \in Runners, sendAgain(r) PROVE TypeOK'
  <2>1. run[r].cur \in Deliveries
    BY <1>8, <1>t DEF sendAgain, IInv, Shape, RunType
  <2>2. run' \in [Runners -> RunType] /\ reached' \in [Deliveries -> Nat]
    BY <1>8, <2>1, <1>d, <1>v, <1>t DEF sendAgain, Replies
  <2> QED BY <1>8, <1>t, <1>g, <2>2 DEF sendAgain, tokens
<1>9. ASSUME NEW r \in Runners, keepGoingThrows(r) PROVE TypeOK'
  BY <1>9, <1>t, <1>p, <1>f, <1>g DEF keepGoingThrows, zalo, tokens, Steps
<1>10. ASSUME NEW r \in Runners, finish(r) PROVE TypeOK'
  <2> DEFINE d == run[r].cur
             out == IF Finished(d, run[r].reply).due THEN run[r].out ELSE run[r].out \cup {d}
             Next1(pc) == [[run[r] EXCEPT !.cur = NoDelivery, !.force = FALSE, !.reply = "NONE", !.out = out]
                             EXCEPT !.pc = pc]
  <2>1. d \in Deliveries /\ run[r].reply \in Replies \ {"NONE"}
    BY <1>10, <1>t DEF finish, At, IInv, Shape, RunType
  <2>2. delivery[d] \in RowType /\ delivery[d].attempts < MAX_ATTEMPTS
    BY <2>1, <1>t DEF IInv, Holding, Held
  <2>3. delivery' \in [Deliveries -> RowType]
    BY <1>10, <1>t, <2>1, <2>2, RowFinish DEF finish
  <2>4. out \in SUBSET Deliveries
    BY <2>1, <1>t DEF RunType
  <2>5. ASSUME NEW pc \in Steps PROVE Next1(pc) \in RunType
    BY <2>4, <1>t, RunFinish
  <2>6. \/ EndTick(r)
        \/ \E pc \in {"release", "go", "claim"} : run' = [run EXCEPT ![r] = Next1(pc)]
    BY <1>10 DEF finish
  <2>7. run' \in [Runners -> RunType]
    BY <2>5, <2>6, <1>e, <1>r DEF Steps
  <2> QED BY <1>10, <1>t, <1>g, <2>3, <2>7 DEF finish, zalo, tokens
<1>11. ASSUME NEW r \in Runners, release(r) PROVE TypeOK'
  BY <1>11, <1>t, <1>s, <1>e, <1>g DEF release, zalo, tokens
<1>12. ASSUME NEW r \in Runners, leave(r) PROVE TypeOK'
  <2>1. lease' \in LeaseType
    BY <1>12, <1>t DEF leave, LeaseType
  <2> QED BY <1>12, <1>t, <1>p, <1>g, <2>1 DEF leave, zalo, tokens, Steps
<1>13. ASSUME NEW r \in Runners, stop(r) PROVE TypeOK'
  <2>1. run' = [run EXCEPT ![r] = [run[r] EXCEPT !.stopping = TRUE]]
    BY <1>13 DEF stop
  <2>2. run' \in [Runners -> RunType]
    BY <2>1, <1>t, <1>r, RunStop
  <2> QED BY <1>13, <1>t, <1>f, <1>g, <2>2 DEF stop, zalo, tokens
<1>14. ASSUME NEW r \in Runners, crash(r) PROVE TypeOK'
  <2>1. Down \in RunType
    BY <1>t DEF NoRun, Down, RunType, Steps, Replies
  <2> QED BY <1>14, <1>t, <1>f, <1>r, <1>g, <2>1 DEF crash, zalo, tokens
<1>15. ASSUME NEW r \in Runners, statementFails(r) PROVE TypeOK'
  BY <1>15, <1>t, <1>e, <1>f, <1>g DEF statementFails, zalo, tokens
<1>16. ASSUME NEW d \in Deliveries, claimAges(d) \/ backoffEnds(d) \/ expires(d) PROVE TypeOK'
  <2>1. \E row \in RowType : delivery' = [delivery EXCEPT ![d] = row]
    BY <1>16, <1>t, RowAges, RowDue, RowExpires DEF claimAges, backoffEnds, expires
  <2>2. delivery' \in [Deliveries -> RowType]
    BY <2>1, <1>t
  <2> QED BY <1>16, <1>t, <1>g, <2>2 DEF claimAges, backoffEnds, expires, zalo, tokens
<1>17. CASE replaceWithin \/ secretChanges \/ tokenAges
  <2>1. issued < MaxKeys => issued + 1 \in Keys
    BY <1>t DEF Keys
  <2>2. [conn EXCEPT !.fresh = FALSE] \in ConnType /\ [conn EXCEPT !.right = FALSE] \in ConnType
    BY <1>t DEF ConnType
  <2>3. CASE replaceWithin
    <3>1. issued' \in Keys
      BY <2>1, <2>3, <1>t DEF replaceWithin
    <3>2. PICK app \in App :
            conn' = [status |-> app.status, fresh |-> FALSE, right |-> app.right,
                     key |-> IF issued' = issued THEN conn.key ELSE issued']
      BY <2>3 DEF replaceWithin
    <3>3. conn.key \in Keys /\ conn.right \in BOOLEAN
      BY <1>t DEF ConnType
    <3>5. app.status \in {"ACTIVE", "NOT_CONFIGURED"} /\ app.right \in BOOLEAN
      <4>1. CASE app \in [status : {"ACTIVE"}, right : BOOLEAN]
        BY <4>1
      <4>2. CASE app = [status |-> "NOT_CONFIGURED", right |-> FALSE]
        BY <4>2
      <4>3. CASE app = [status |-> "ACTIVE", right |-> conn.right]
        BY <3>3, <4>3
      <4> QED BY <4>1, <4>2, <4>3 DEF App
    <3>4. conn' \in ConnType
      BY <3>1, <3>2, <3>3, <3>5 DEF ConnType
    <3> QED BY <2>3, <1>t, <1>g, <3>1, <3>4 DEF replaceWithin
  <2>4. CASE secretChanges \/ tokenAges
    BY <2>4, <1>t, <1>g, <2>2 DEF secretChanges, tokenAges, zalo, tokens
  <2> QED BY <1>17, <2>3, <2>4
<1>18. CASE leaseExpires
  <2>1. lease' \in LeaseType
    BY <1>18, <1>t DEF leaseExpires, LeaseType
  <2> QED BY <1>18, <1>t, <1>g, <2>1 DEF leaseExpires, zalo, tokens
<1>19. CASE UNCHANGED vars
  BY <1>19, <1>t, <1>g DEF vars
<1> QED BY <1>1, <1>2, <1>3, <1>4, <1>5, <1>6, <1>7, <1>8, <1>9, <1>10, <1>11, <1>12, <1>13,
           <1>14, <1>15, <1>16, <1>17, <1>18, <1>19 DEF Next, tick

(* ZaloTokenService.access ends the tick, or goes on with the deliveries in *)
(* hand: with an access token, without one, or with an answer to save.      *)
Onward(r) ==
  /\ run'[r].claimed = run[r].claimed /\ run'[r].cur = run[r].cur /\ (run'[r].force <=> run[r].force)
  /\ \A q \in Runners \ {r} : run'[q] = run[q]
  /\ \/ run'[r].pc = "go" /\ run[r].force
     \/ run'[r].pc = "claim" /\ ~run[r].force
     \/ run'[r].pc = "finish" /\ run[r].force /\ run'[r].reply = "NOT_READY"
     \/ /\ run'[r].pc = "save" /\ run'[r].reply \in {"OK", "RETRY", "FAIL"}
        /\ run'[r].reply = "OK" => run'[r].key \in dead'
        /\ run'[r].reply = "FAIL" => run'[r].key \in refused'

LEMMA AccessOnward ==
  ASSUME run \in [Runners -> RunType], NEW r \in Runners, access(r) \/ save(r)
  PROVE  EndTick(r) \/ Onward(r)
<1>1. ASSUME Accessed(r) PROVE Onward(r)
  <2>1. CASE run[r].force
    <3>1. run' = [run EXCEPT ![r].pc = "go", ![r].key = 1, ![r].new = 1, ![r].reply = "NONE"]
      BY <1>1, <2>1 DEF Accessed
    <3> QED BY <2>1, <3>1 DEF Onward, RunType
  <2>2. CASE ~run[r].force
    <3>1. run' = [run EXCEPT ![r].pc = "claim", ![r].key = 1, ![r].new = 1, ![r].reply = "NONE"]
      BY <1>1, <2>2 DEF Accessed
    <3> QED BY <2>2, <3>1 DEF Onward, RunType
  <2> QED BY <2>1, <2>2
<1>2. ASSUME NotAccessed(r) PROVE EndTick(r) \/ Onward(r)
  <2>1. CASE run[r].force
    <3>1. run' = [run EXCEPT ![r].pc = "finish", ![r].key = 1, ![r].new = 1, ![r].reply = "NOT_READY"]
      BY <1>2, <2>1 DEF NotAccessed
    <3> QED BY <2>1, <3>1 DEF Onward, RunType
  <2>2. CASE ~run[r].force
    BY <1>2, <2>2 DEF NotAccessed
  <2> QED BY <2>1, <2>2
<1>3. ASSUME run' = [run EXCEPT ![r].pc = "save", ![r].key = conn.key, ![r].new = issued + 1, ![r].reply = "OK"],
             conn.key \in dead'
      PROVE  Onward(r)
  BY <1>3 DEF Onward, RunType
<1>4. ASSUME run' = [run EXCEPT ![r].pc = "save", ![r].key = conn.key, ![r].new = conn.key, ![r].reply = "RETRY"]
      PROVE  Onward(r)
  BY <1>4 DEF Onward, RunType
<1>5. ASSUME run' = [run EXCEPT ![r].pc = "save", ![r].key = conn.key, ![r].new = conn.key, ![r].reply = "FAIL"],
             conn.key \in refused'
      PROVE  Onward(r)
  BY <1>5 DEF Onward, RunType
<1>6. CASE access(r)
  BY <1>1, <1>2, <1>3, <1>4, <1>5, <1>6 DEF access, tokens
<1>7. CASE save(r)
  BY <1>1, <1>2, <1>7 DEF save
<1> QED BY <1>6, <1>7

(* Every step leaves in memory what its next step needs. *)
LEMMA ShapeNext ==
  ASSUME IInv, TypeOK', [Next]_vars PROVE Shape' /\ Spent'
<1> USE ZaloDeliveryAssumption
<1>t. run \in [Runners -> RunType]
  BY DEF IInv, TypeOK, RunType
<1>i. Shape /\ Spent
  BY DEF IInv
<1>1. ASSUME NEW r \in Runners, acquire(r) PROVE Shape' /\ Spent'
  BY <1>1, <1>t, <1>i DEF acquire, At, Goto, zalo, tokens, Shape, Spent, RunType
<1>2. ASSUME NEW r \in Runners, settleOrphans(r) PROVE Shape' /\ Spent'
  <2>1. run[r].pc = "orphans" /\ run' = [run EXCEPT ![r].pc = "expire"] /\ dead' = dead /\ refused' = refused
    BY <1>2 DEF settleOrphans, At, Goto, zalo, tokens
  <2> QED BY <2>1, <1>t, <1>i DEF Shape, Spent, RunType
<1>3. ASSUME NEW r \in Runners, expire(r) PROVE Shape' /\ Spent'
  <2>1. PICK out : /\ run[r].pc = "expire" /\ dead' = dead /\ refused' = refused
                   /\ run' = [run EXCEPT ![r].pc = "access", ![r].out = out]
    BY <1>3 DEF expire, At, zalo, tokens
  <2> QED BY <2>1, <1>t, <1>i DEF Shape, Spent, RunType
<1>4. ASSUME NEW r \in Runners, access(r) \/ save(r) PROVE Shape' /\ Spent'
  <2>1. run[r].pc \in {"access", "save"} /\ dead \subseteq dead' /\ refused \subseteq refused'
    BY <1>4 DEF access, save, At, zalo, tokens
  <2>2. CASE EndTick(r)
    BY <2>1, <2>2, <1>t, <1>i DEF EndTick, NoRun, Shape, Spent
  <2>3. CASE Onward(r)
    <3>1. /\ ~run[r].force => run[r].claimed = {} /\ run[r].cur = NoDelivery
          /\ run[r].force => run[r].cur # NoDelivery
          /\ run[r].cur \notin run[r].claimed
      BY <2>1, <1>i DEF Shape
    <3>2. Shape'
      BY <2>3, <3>1, <1>i DEF Onward, Shape
    <3>3. Spent'
      BY <2>1, <2>3, <1>i DEF Onward, Spent
    <3> QED BY <3>2, <3>3
  <2> QED BY <1>4, <1>t, <2>2, <2>3, AccessOnward
<1>6. ASSUME NEW r \in Runners, keepGoingThrows(r) PROVE Shape' /\ Spent'
  BY <1>6, <1>t, <1>i DEF keepGoingThrows, At, Goto, zalo, tokens, Shape, Spent, RunType
<1>7. ASSUME NEW r \in Runners, release(r) PROVE Shape' /\ Spent'
  BY <1>7, <1>t, <1>i DEF release, At, Set, EndTick, NoRun, zalo, tokens, Shape, Spent, RunType
<1>8. ASSUME NEW r \in Runners, leave(r) PROVE Shape' /\ Spent'
  BY <1>8, <1>t, <1>i DEF leave, At, Goto, zalo, tokens, Shape, Spent, RunType
<1>9. ASSUME NEW r \in Runners, stop(r) PROVE Shape' /\ Spent'
  BY <1>9, <1>t, <1>i DEF stop, At, zalo, tokens, Shape, Spent, RunType
<1>10. ASSUME NEW r \in Runners, crash(r) PROVE Shape' /\ Spent'
  BY <1>10, <1>t, <1>i DEF crash, At, Down, NoRun, zalo, tokens, Shape, Spent, RunType
<1>11. ASSUME NEW r \in Runners, statementFails(r) PROVE Shape' /\ Spent'
  BY <1>11, <1>t, <1>i DEF statementFails, At, EndTick, NoRun, zalo, tokens, Shape, Spent, RunType
<1>12. ASSUME NEW r \in Runners, claim(r) PROVE Shape' /\ Spent'
  <2>1. PICK S \in SUBSET Claimable(r) :
          IF S = {} THEN EndTick(r)
          ELSE run' = [run EXCEPT ![r].pc = "go", ![r].claimed = S, ![r].full = Cardinality(S) = BATCH_SIZE]
    BY <1>12 DEF claim
  <2>2. NoDelivery \notin S
    BY DEF Claimable
  <2> QED BY <1>12, <2>1, <2>2, <1>t, <1>i DEF claim, zalo, tokens, At, EndTick, NoRun, Shape, Spent, RunType
<1>13. ASSUME NEW r \in Runners, keepGoing(r) PROVE Shape' /\ Spent'
  <2>1. PICK d \in run[r].claimed :
          \/ \E reply \in Replies \ {"NONE"} : Reply(r, d, reply)
          \/ run' = [run EXCEPT ![r].pc = "access", ![r].cur = d, ![r].claimed = @ \ {d}, ![r].force = TRUE]
    BY <1>13 DEF keepGoing, deliver, Replies
  <2>2. d \in Deliveries /\ dead' = dead /\ refused' = refused
    BY <1>13, <1>t DEF keepGoing, tokens, RunType
  <2> QED BY <2>1, <2>2, <1>t, <1>i DEF Reply, Shape, Spent, RunType
<1>14. ASSUME NEW r \in Runners, sendAgain(r) PROVE Shape' /\ Spent'
  <2>1. \E reply \in Replies \ {"NONE"} : Reply(r, run[r].cur, reply)
    BY <1>14 DEF sendAgain, deliver, Replies
  <2>2. run[r].cur # NoDelivery /\ dead' = dead /\ refused' = refused
    BY <1>14, <1>i DEF sendAgain, tokens, Shape
  <2>3. PICK reply \in Replies \ {"NONE"} :
          run' = [run EXCEPT ![r].pc = "finish", ![r].cur = run[r].cur,
                             ![r].claimed = @ \ {run[r].cur}, ![r].reply = reply]
    BY <2>1 DEF Reply
  <2>4. /\ run'[r].pc = "finish" /\ run'[r].cur = run[r].cur /\ run'[r].reply = reply
        /\ run'[r].claimed = run[r].claimed \ {run[r].cur}
    BY <2>3, <1>t DEF RunType
  <2>5. \A q \in Runners \ {r} : run'[q] = run[q]
    BY <2>3, <1>t
  <2> QED BY <2>2, <2>4, <2>5, <1>i DEF Shape, Spent
<1>15. ASSUME NEW r \in Runners, finish(r) PROVE Shape' /\ Spent'
  <2> DEFINE out == IF Finished(run[r].cur, run[r].reply).due THEN run[r].out ELSE run[r].out \cup {run[r].cur}
             Next1(pc) == [[run[r] EXCEPT !.cur = NoDelivery, !.force = FALSE, !.reply = "NONE", !.out = out]
                             EXCEPT !.pc = pc]
  <2>1. \/ EndTick(r)
        \/ \E pc \in {"release", "go"} : run' = [run EXCEPT ![r] = Next1(pc)]
        \/ run[r].claimed = {} /\ run' = [run EXCEPT ![r] = Next1("claim")]
    BY <1>15 DEF finish
  <2>2. dead' = dead /\ refused' = refused
    BY <1>15 DEF finish, zalo, tokens
  <2>3. NoDelivery \notin run[r].claimed
    BY <1>t DEF RunType
  <2> HIDE DEF out
  <2>4. ASSUME NEW pc
        PROVE  /\ Next1(pc).pc = pc /\ Next1(pc).claimed = run[r].claimed
               /\ Next1(pc).cur = NoDelivery /\ ~Next1(pc).force
    BY <1>t DEF RunType
  <2> HIDE DEF Next1
  <2>5. CASE EndTick(r)
    BY <2>5, <2>2, <1>t, <1>i DEF EndTick, NoRun, Shape, Spent
  <2>6. ASSUME NEW pc \in {"release", "go", "claim"}, run' = [run EXCEPT ![r] = Next1(pc)],
               pc = "claim" => run[r].claimed = {}
        PROVE  Shape' /\ Spent'
    <3>1. run'[r] = Next1(pc) /\ \A q \in Runners \ {r} : run'[q] = run[q]
      BY <2>6, <1>t
    <3> QED BY <2>2, <2>3, <2>4, <2>6, <3>1, <1>i DEF Shape, Spent
  <2> QED BY <2>1, <2>5, <2>6
<1>16. ASSUME UNCHANGED run, dead \subseteq dead', refused \subseteq refused' PROVE Shape' /\ Spent'
  BY <1>16, <1>i DEF Shape, Spent
<1> QED BY <1>1, <1>2, <1>3, <1>4, <1>6, <1>7, <1>8, <1>9, <1>10, <1>11, <1>12, <1>13,
           <1>14, <1>15, <1>16
        DEF Next, tick, vars, zalo, tokens, claimAges, backoffEnds, expires, replaceWithin, secretChanges, tokenAges, leaseExpires

(* A step that sends nothing: no runner gets a delivery, a row that it puts *)
(* back is one that a runner held and had not sent, and no row becomes      *)
(* SENT.                                                                    *)
LEMMA NothingSent ==
  ASSUME IInv, UNCHANGED reached,
         \A d \in Deliveries :
           /\ delivery'[d].attempts = delivery[d].attempts
           /\ delivery'[d].status = "SENT" => delivery[d].status = "SENT"
           /\ delivery'[d].status = "PENDING" =>
                \/ delivery[d].status = "PENDING"
                \/ \E q \in Runners : d \in Held(q) /\ ~Answered(q, d),
         \A q \in Runners : \A d \in Deliveries : d \in Held(q)' =>
           /\ d \in Held(q)
           /\ delivery'[d].status \in {"SENDING", "FAILED"}
           /\ (Answered(q, d)' <=> Answered(q, d))
  PROVE  Holding' /\ Rows' /\ SentHasReached'
<1>1. Holding'
  BY DEF IInv, Holding
<1>2. Rows'
  BY DEF IInv, Holding, Rows
<1>3. SentHasReached'
  BY DEF IInv, SentHasReached
<1> QED BY <1>1, <1>2, <1>3

(* Every step keeps what is said of rows and of the deliveries held. *)
LEMMA RowsNext ==
  ASSUME IInv, TypeOK', [Next]_vars PROVE Holding' /\ Rows' /\ SentHasReached'
<1> USE ZaloDeliveryAssumption
<1>t. run \in [Runners -> RunType] /\ delivery \in [Deliveries -> RowType] /\ reached \in [Deliveries -> Nat]
  BY DEF IInv, TypeOK, RunType, RowType
<1>i. Shape /\ Holding /\ Rows /\ SentHasReached
  BY DEF IInv
<1> DEFINE Goal == Holding' /\ Rows' /\ SentHasReached'
<1>s. ASSUME NEW S, NEW status, delivery' = Set(S, status)
      PROVE  \A d \in Deliveries : /\ delivery'[d].attempts = delivery[d].attempts
                                   /\ delivery'[d].status = IF d \in S THEN status ELSE delivery[d].status
  BY <1>s, <1>t DEF Set, RowType
<1>m. ASSUME UNCHANGED <<delivery, reached>>,
             \A q \in Runners : \A d \in Deliveries : d \in Held(q)' =>
               d \in Held(q) /\ (Answered(q, d)' <=> Answered(q, d))
      PROVE  Goal
  <2>1. \A q \in Runners : \A d \in Deliveries : d \in Held(q) => delivery[d].status \in {"SENDING", "FAILED"}
    BY <1>i DEF Holding
  <2> QED BY <1>m, <2>1, NothingSent
<1>e. ASSUME NEW r \in Runners, EndTick(r)
      PROVE  \A q \in Runners : \A d \in Deliveries : d \in Held(q)' =>
               q # r /\ d \in Held(q) /\ (Answered(q, d)' <=> Answered(q, d))
  BY <1>e, <1>t DEF EndTick, NoRun, Held, Answered
<1>1. ASSUME NEW r \in Runners, acquire(r) \/ keepGoingThrows(r) \/ leave(r) \/ stop(r) PROVE Goal
  <2>1. \A q \in Runners : \A d \in Deliveries : d \in Held(q)' =>
          d \in Held(q) /\ (Answered(q, d)' <=> Answered(q, d))
    BY <1>1, <1>t DEF acquire, keepGoingThrows, leave, stop, Goto, At, Held, Answered, RunType
  <2> QED BY <1>1, <2>1, <1>m DEF acquire, keepGoingThrows, leave, stop, zalo, tokens
<1>2. ASSUME NEW r \in Runners, access(r) \/ save(r) PROVE Goal
  <2>1. run[r].pc \in {"access", "save"}
    BY <1>2 DEF access, save, At
  <2> DEFINE Kept == \A q \in Runners : \A d \in Deliveries : d \in Held(q)' =>
                       d \in Held(q) /\ (Answered(q, d)' <=> Answered(q, d))
  <2>2. CASE EndTick(r)
    <3>1. Kept
      BY <2>2, <1>e
    <3> QED BY <1>2, <1>m, <3>1 DEF access, save, zalo, tokens
  <2>3. CASE Onward(r)
    <3>1. Kept
      BY <2>1, <2>3 DEF Onward, Held, Answered
    <3> QED BY <1>2, <1>m, <3>1 DEF access, save, zalo, tokens
  <2> QED BY <1>2, <1>t, <2>2, <2>3, AccessOnward
<1>3. ASSUME NEW r \in Runners, crash(r) \/ statementFails(r) PROVE Goal
  <2>1. \A q \in Runners : \A d \in Deliveries : d \in Held(q)' =>
          d \in Held(q) /\ (Answered(q, d)' <=> Answered(q, d))
    BY <1>3, <1>t DEF crash, statementFails, EndTick, Down, NoRun, Held, Answered
  <2> QED BY <1>3, <2>1, <1>m DEF crash, statementFails, zalo, tokens
<1>4. ASSUME NEW r \in Runners, settleOrphans(r) PROVE Goal
  <2>1. \A q \in Runners : \A d \in Deliveries : d \in Held(q)' =>
          d \in Held(q) /\ (Answered(q, d)' <=> Answered(q, d))
    BY <1>4, <1>t DEF settleOrphans, Goto, At, Held, Answered, RunType
  <2>2. \A d \in Deliveries : /\ delivery'[d].attempts = delivery[d].attempts
                              /\ delivery'[d].status \in {delivery[d].status, "FAILED"}
    BY <1>4, <1>s DEF settleOrphans
  <2>3. \A q \in Runners : \A d \in Deliveries : d \in Held(q) => delivery[d].status \in {"SENDING", "FAILED"}
    BY <1>i DEF Holding
  <2>4. UNCHANGED reached
    BY <1>4 DEF settleOrphans, zalo, tokens
  <2> QED BY <2>1, <2>2, <2>3, <2>4, NothingSent
<1>5. ASSUME NEW r \in Runners, expire(r) PROVE Goal
  <2>1. \A q \in Runners : \A d \in Deliveries : d \in Held(q)' =>
          d \in Held(q) /\ (Answered(q, d)' <=> Answered(q, d))
    BY <1>5, <1>t DEF expire, At, Held, Answered, RunType
  <2>2. \A d \in Deliveries :
          /\ delivery'[d].attempts = delivery[d].attempts
          /\ \/ delivery'[d].status = delivery[d].status
             \/ delivery[d].status = "PENDING" /\ delivery'[d].status = "EXPIRED"
    BY <1>5, <1>s DEF expire
  <2>3. \A q \in Runners : \A d \in Deliveries : d \in Held(q) => delivery[d].status \in {"SENDING", "FAILED"}
    BY <1>i DEF Holding
  <2>4. UNCHANGED reached
    BY <1>5 DEF expire, zalo, tokens
  <2> QED BY <2>1, <2>2, <2>3, <2>4, NothingSent
<1>6. ASSUME NEW r \in Runners, release(r) PROVE Goal
  <2>1. \A q \in Runners : \A d \in Deliveries : d \in Held(q)' =>
          q # r /\ d \in Held(q) /\ (Answered(q, d)' <=> Answered(q, d))
    BY <1>6, <1>t DEF release, EndTick, NoRun, At, Held, Answered
  <2>2. \A d \in Deliveries :
          /\ delivery'[d].attempts = delivery[d].attempts
          /\ \/ delivery'[d].status = delivery[d].status
             \/ d \in Held(r) /\ ~Answered(r, d) /\ delivery'[d].status = "PENDING"
    BY <1>6, <1>s DEF release, Held, Answered, At
  <2>3. \A q \in Runners : \A d \in Deliveries : d \in Held(q) =>
          /\ delivery[d].status \in {"SENDING", "FAILED"}
          /\ d \in Held(r) => q = r
    BY <1>i DEF Holding
  <2>4. UNCHANGED reached
    BY <1>6 DEF release, zalo, tokens
  <2> QED BY <2>1, <2>2, <2>3, <2>4, NothingSent
<1>7. ASSUME NEW e \in Deliveries, claimAges(e) \/ backoffEnds(e) \/ expires(e) PROVE Goal
  <2>1. \A d \in Deliveries : /\ delivery'[d].attempts = delivery[d].attempts
                              /\ delivery'[d].status = delivery[d].status
    BY <1>7, <1>t DEF claimAges, backoffEnds, expires, RowType
  <2>2. UNCHANGED <<run, reached>>
    BY <1>7 DEF claimAges, backoffEnds, expires, zalo, tokens
  <2>3. \A q \in Runners : \A d \in Deliveries : d \in Held(q)' =>
          d \in Held(q) /\ (Answered(q, d)' <=> Answered(q, d))
    BY <2>2 DEF Held, Answered
  <2>4. \A q \in Runners : \A d \in Deliveries : d \in Held(q) => delivery[d].status \in {"SENDING", "FAILED"}
    BY <1>i DEF Holding
  <2> QED BY <2>1, <2>2, <2>3, <2>4, NothingSent
<1>8. ASSUME UNCHANGED <<run, delivery, reached>> PROVE Goal
  BY <1>8, <1>m DEF Held, Answered
<1>h. ASSUME NEW r \in Runners, NEW d \in Deliveries, d \in Held(r)
      PROVE  /\ delivery[d].status \in {"SENDING", "FAILED"} /\ delivery[d].attempts < MAX_ATTEMPTS
             /\ \A q \in Runners : d \in Held(q) => q = r
             /\ Answered(r, d) => reached[d] > 0
             /\ ~Lost /\ ~Answered(r, d) => reached[d] = 0
  BY <1>h, <1>i DEF Holding
(* claim takes rows that nobody holds and that have not been sent. *)
<1>9. ASSUME NEW r \in Runners, claim(r) PROVE Goal
  <2>1. PICK S \in SUBSET Claimable(r) :
          /\ delivery' = Set(S, "SENDING")
          /\ IF S = {} THEN EndTick(r)
             ELSE run' = [run EXCEPT ![r].pc = "go", ![r].claimed = S, ![r].full = Cardinality(S) = BATCH_SIZE]
    BY <1>9 DEF claim
  <2>2. \A d \in S : d \in Deliveries /\ delivery[d].status = "PENDING"
    BY DEF Claimable
  <2>3. \A d \in Deliveries : /\ delivery'[d].attempts = delivery[d].attempts
                              /\ delivery'[d].status = IF d \in S THEN "SENDING" ELSE delivery[d].status
    BY <2>1, <1>s
  <2>4. \A d \in Deliveries : d \in Held(r)' <=> d \in S
    BY <1>9, <1>i, <1>t, <2>1 DEF claim, At, Shape, Held, EndTick, NoRun, RunType
  <2>5. \A d \in Deliveries : ~Answered(r, d)'
    BY <1>9, <1>t, <2>1 DEF claim, At, Answered, EndTick, NoRun, RunType
  <2>6. \A q \in Runners \ {r} : \A d \in Deliveries :
          Held(q)' = Held(q) /\ (Answered(q, d)' <=> Answered(q, d))
    BY <1>t, <2>1 DEF Held, Answered, EndTick
  <2>7. UNCHANGED reached
    BY <1>9 DEF claim, zalo, tokens
  <2>8. \A d \in S : delivery[d].attempts < MAX_ATTEMPTS /\ (~Lost => reached[d] = 0)
    BY <2>2, <1>i DEF Rows
  <2>9. \A q \in Runners : \A d \in S : d \notin Held(q)
    BY <2>2, <1>h
  <2>10. Holding'
    <3> SUFFICES ASSUME NEW q \in Runners, NEW d \in Deliveries, d \in Held(q)'
                 PROVE  /\ delivery'[d].status \in {"SENDING", "FAILED"}
                        /\ delivery'[d].attempts < MAX_ATTEMPTS
                        /\ \A p \in Runners : d \in Held(p)' => p = q
                        /\ Answered(q, d)' => reached'[d] > 0
                        /\ ~Lost /\ ~Answered(q, d)' => reached'[d] = 0
      BY DEF Holding
    <3>1. CASE q = r
      BY <3>1, <2>3, <2>4, <2>5, <2>6, <2>7, <2>8, <2>9
    <3>2. CASE q # r
      <4>1. d \in Held(q) /\ d \notin S
        BY <3>2, <2>6, <2>9
      <4> QED BY <3>2, <4>1, <2>3, <2>4, <2>6, <2>7, <1>h
    <3> QED BY <3>1, <3>2
  <2>11. Rows' /\ SentHasReached'
    BY <2>3, <2>7, <1>i DEF Rows, SentHasReached
  <2> QED BY <2>10, <2>11
(* A message that is sent is one its runner holds, and has not been sent. *)
<1>d. ASSUME NEW r \in Runners, NEW e \in Deliveries, e \in Held(r), ~Answered(r, e),
             UNCHANGED delivery,
             \A d \in Deliveries : d \in Held(r)' => d \in Held(r),
             \A d \in Deliveries \ {e} : ~Answered(r, d) /\ ~Answered(r, d)',
             \A q \in Runners \ {r} : \A d \in Deliveries :
               Held(q)' = Held(q) /\ (Answered(q, d)' <=> Answered(q, d)),
             NEW n \in {0, 1}, reached' = [reached EXCEPT ![e] = @ + n],
             Answered(r, e)' => n = 1, ~Lost /\ n = 1 => Answered(r, e)'
      PROVE  Goal
  <2>1. reached'[e] = reached[e] + n /\ \A d \in Deliveries \ {e} : reached'[d] = reached[d]
    BY <1>d, <1>t
  <2>2. /\ Answered(r, e)' => reached'[e] > 0 /\ (~Lost => reached'[e] = 1)
        /\ ~Answered(r, e)' /\ ~Lost => reached'[e] = 0
        /\ reached'[e] >= reached[e]
    <3>1. reached[e] \in Nat /\ (~Lost => reached[e] = 0)
      BY <1>d, <1>h, <1>t
    <3> QED BY <1>d, <2>1, <3>1
  <2>3. Holding'
    <3> SUFFICES ASSUME NEW q \in Runners, NEW d \in Deliveries, d \in Held(q)'
                 PROVE  /\ delivery'[d].status \in {"SENDING", "FAILED"}
                        /\ delivery'[d].attempts < MAX_ATTEMPTS
                        /\ \A p \in Runners : d \in Held(p)' => p = q
                        /\ Answered(q, d)' => reached'[d] > 0
                        /\ ~Lost /\ ~Answered(q, d)' => reached'[d] = 0
      BY DEF Holding
    <3>1. d \in Held(q) /\ \A p \in Runners : d \in Held(p)' => d \in Held(p)
      BY <1>d
    <3>2. /\ delivery'[d].status \in {"SENDING", "FAILED"} /\ delivery'[d].attempts < MAX_ATTEMPTS
          /\ \A p \in Runners : d \in Held(p)' => p = q
      BY <1>d, <1>h, <3>1
    <3>3. CASE d = e
      <4>1. q = r
        BY <1>d, <1>h, <3>1, <3>3
      <4> QED BY <2>2, <3>2, <3>3, <4>1
    <3>4. CASE d # e
      <4>1. (Answered(q, d)' <=> Answered(q, d))
        BY <1>d, <3>4
      <4> QED BY <1>h, <2>1, <3>1, <3>2, <3>4, <4>1
    <3> QED BY <3>3, <3>4
  <2>4. delivery[e].status \notin {"PENDING", "SENT"}
    BY <1>d, <1>h
  <2>5. Rows'
    <3>1. ~Lost => reached'[e] <= 1
      BY <2>2
    <3> QED BY <1>d, <1>i, <2>1, <2>4, <3>1 DEF Rows
  <2>6. SentHasReached'
    BY <1>d, <1>i, <2>1, <2>4 DEF SentHasReached
  <2> QED BY <2>3, <2>5, <2>6
<1>v. ASSUME NEW r \in Runners, NEW e \in Deliveries, e \in Held(r), UNCHANGED delivery,
             \A d \in Deliveries : ~Answered(r, d),
             NEW reply, NEW n \in {0, 1}, Reply(r, e, reply), reached' = [reached EXCEPT ![e] = @ + n],
             reply = "OK" => n = 1, ~Lost /\ n = 1 => reply = "OK"
      PROVE  Goal
  <2>1. /\ \A d \in Deliveries : d \in Held(r)' => d \in Held(r)
        /\ \A d \in Deliveries \ {e} : ~Answered(r, d)'
        /\ Answered(r, e)' <=> reply = "OK"
    BY <1>v, <1>t DEF Reply, Held, Answered, RunType
  <2>2. \A q \in Runners \ {r} : \A d \in Deliveries :
          Held(q)' = Held(q) /\ (Answered(q, d)' <=> Answered(q, d))
    BY <1>v, <1>t DEF Reply, Held, Answered
  <2> QED BY <1>v, <2>1, <2>2, <1>d
<1>10. ASSUME NEW r \in Runners, keepGoing(r) PROVE Goal
  <2>1. PICK e \in run[r].claimed :
          \/ Reply(r, e, "NO_TEMPLATE") /\ UNCHANGED reached
          \/ deliver(r, e)
          \/ /\ run' = [run EXCEPT ![r].pc = "access", ![r].cur = e, ![r].claimed = @ \ {e}, ![r].force = TRUE]
             /\ UNCHANGED reached
    BY <1>10 DEF keepGoing
  <2>2. e \in Deliveries /\ e \in Held(r) /\ UNCHANGED delivery
    BY <1>10, <1>t DEF keepGoing, tokens, RunType, Held
  <2>3. \A d \in Deliveries : ~Answered(r, d)
    BY <1>10 DEF keepGoing, At, Answered
  <2>4. CASE run' = [run EXCEPT ![r].pc = "access", ![r].cur = e, ![r].claimed = @ \ {e}, ![r].force = TRUE]
             /\ UNCHANGED reached
    <3>1. \A q \in Runners : \A d \in Deliveries : d \in Held(q)' =>
            d \in Held(q) /\ (Answered(q, d)' <=> Answered(q, d))
      BY <2>2, <2>3, <2>4, <1>t DEF Held, Answered, RunType
    <3> QED BY <3>1, <2>2, <2>4, <1>m
  <2>5. ASSUME NEW reply, NEW n \in {0, 1}, Reply(r, e, reply), reached' = [reached EXCEPT ![e] = @ + n],
               reply = "OK" => n = 1, ~Lost /\ n = 1 => reply = "OK"
        PROVE  Goal
    BY <2>2, <2>3, <2>5, <1>v
  <2>6. reached = [reached EXCEPT ![e] = @ + 0]
    BY <2>2, <1>t
  <2> QED BY <2>1, <2>4, <2>5, <2>6 DEF deliver
<1>11. ASSUME NEW r \in Runners, sendAgain(r) PROVE Goal
  <2> DEFINE e == run[r].cur
  <2>1. e \in Deliveries /\ e \in Held(r) /\ UNCHANGED delivery
    BY <1>11, <1>t, <1>i DEF sendAgain, Shape, RunType, Held
  <2>2. \A d \in Deliveries : ~Answered(r, d)
    BY <1>11 DEF sendAgain, At, Answered
  <2> HIDE DEF e
  <2>3. ASSUME NEW reply, NEW n \in {0, 1}, Reply(r, e, reply), reached' = [reached EXCEPT ![e] = @ + n],
               reply = "OK" => n = 1, ~Lost /\ n = 1 => reply = "OK"
        PROVE  Goal
    BY <2>1, <2>2, <2>3, <1>v
  <2>4. reached = [reached EXCEPT ![e] = @ + 0]
    BY <2>1, <1>t
  <2>5. \/ deliver(r, e)
        \/ Reply(r, e, "TOKEN") /\ UNCHANGED reached
    BY <1>11 DEF sendAgain, e
  <2> QED BY <2>3, <2>4, <2>5 DEF deliver
(* finish writes the row of a delivery that nobody holds from then on. *)
<1>12. ASSUME NEW r \in Runners, finish(r) PROVE Goal
  <2> DEFINE e == run[r].cur
             reply == run[r].reply
  <2>1. e \in Deliveries /\ e \in Held(r) /\ e \notin run[r].claimed /\ reply \in Replies \ {"NONE"}
    BY <1>12, <1>t, <1>i DEF finish, At, Shape, RunType, Held
  <2>2. Answered(r, e) <=> reply = "OK"
    BY <1>12 DEF finish, At, Answered
  <2>3. delivery' = [delivery EXCEPT ![e] = Finished(e, reply)] /\ UNCHANGED reached
    BY <1>12 DEF finish, zalo, tokens
  <2>4. \/ EndTick(r)
        \/ \E x : /\ run' = [run EXCEPT ![r] = x] /\ x.claimed = run[r].claimed /\ x.cur = NoDelivery
    <3> DEFINE out == IF Finished(e, reply).due THEN run[r].out ELSE run[r].out \cup {e}
               Next1(pc) == [[run[r] EXCEPT !.cur = NoDelivery, !.force = FALSE, !.reply = "NONE", !.out = out]
                               EXCEPT !.pc = pc]
    <3>1. EndTick(r) \/ \E pc \in {"release", "go", "claim"} : run' = [run EXCEPT ![r] = Next1(pc)]
      BY <1>12 DEF finish
    <3> HIDE DEF out
    <3>2. ASSUME NEW pc PROVE Next1(pc).claimed = run[r].claimed /\ Next1(pc).cur = NoDelivery
      BY <1>t DEF RunType
    <3> QED BY <3>1, <3>2
  <2>5. \A d \in Deliveries : d \in Held(r)' => d \in Held(r) /\ d # e /\ ~Answered(r, d) /\ ~Answered(r, d)'
    <3>1. CASE EndTick(r)
      BY <3>1, <1>t DEF EndTick, NoRun, Held
    <3>2. ASSUME NEW x, run' = [run EXCEPT ![r] = x], x.claimed = run[r].claimed, x.cur = NoDelivery
          PROVE  \A d \in Deliveries : d \in Held(r)' => d \in Held(r) /\ d # e /\ ~Answered(r, d) /\ ~Answered(r, d)'
      BY <3>2, <2>1, <1>t DEF Held, Answered
    <3> QED BY <2>4, <3>1, <3>2
  <2>6. \A q \in Runners \ {r} : \A d \in Deliveries :
          Held(q)' = Held(q) /\ (Answered(q, d)' <=> Answered(q, d))
    BY <2>4, <1>t DEF EndTick, Held, Answered
  <2>7. \A q \in Runners : e \notin Held(q)'
    BY <2>1, <2>5, <2>6, <1>h
  <2>8. \A d \in Deliveries \ {e} : delivery'[d] = delivery[d]
    BY <2>3, <1>t
  <2> HIDE DEF e, reply
  <2>9. Holding'
    BY <2>3, <2>5, <2>6, <2>7, <2>8, <1>h DEF Holding
  <2>10. /\ Finished(e, reply).status = "PENDING" =>
              reply # "OK" /\ Finished(e, reply).attempts < MAX_ATTEMPTS
         /\ Finished(e, reply).status = "SENT" => reply = "OK"
    <3>1. delivery[e] \in RowType /\ delivery[e].attempts < MAX_ATTEMPTS
      BY <2>1, <1>t, <1>h
    <3> QED BY <2>1, <3>1 DEF Finished, TriedEnough, RowType, Replies
  <2>11. delivery'[e] = Finished(e, reply)
    BY <2>1, <2>3, <1>t
  <2>12. /\ reply = "OK" => reached[e] > 0
         /\ ~Lost /\ reply # "OK" => reached[e] = 0
    BY <2>1, <2>2, <1>h
  <2>13. Rows'
    BY <2>3, <2>8, <2>10, <2>11, <2>12, <1>i DEF Rows
  <2>14. SentHasReached'
    BY <2>3, <2>8, <2>10, <2>11, <2>12, <1>i DEF SentHasReached
  <2> QED BY <2>9, <2>13, <2>14
<1> QED BY <1>1, <1>2, <1>3, <1>4, <1>5, <1>6, <1>7, <1>8, <1>9, <1>10, <1>11, <1>12
        DEF Next, tick, vars, zalo, tokens, replaceWithin, secretChanges, tokenAges, leaseExpires

(* The inductive invariant holds of every behaviour. *)
THEOREM Invariance == Spec => []IInv
<1>1. IInv /\ [Next]_vars => IInv'
  BY TypeNext, ShapeNext, RowsNext DEF IInv
<1> QED BY <1>1, InitIInv, PTL DEF Spec

(* Every variable keeps its type: in particular no sending is counted      *)
(* beyond MAX_ATTEMPTS, and a runner has a delivery in hand when it writes *)
(* a result (ZaloDeliveryRunner.finish).                                   *)
THEOREM TypeCorrect == Spec => []TypeOK
<1>1. IInv => TypeOK
  BY DEF IInv
<1> QED BY <1>1, Invariance, PTL

(* FR-026 for every number of processes, deliveries, crashes and lost      *)
(* leases: unless an answer of Zalo gets lost, no message reaches its      *)
(* phone twice (ZaloDeliveryRunner.settleOrphans, release, finish).        *)
THEOREM MessagesGoOutOnce == ASSUME ~Lost PROVE Spec => []NeverTwice
<1>1. IInv => NeverTwice
  BY DEF IInv, Rows, NeverTwice
<1> QED BY <1>1, Invariance, PTL

(* A delivery is SENT only when its message has gone out, lost answers or  *)
(* not (ZaloDeliveryRunner.deliver, finish).                               *)
THEOREM SentMeansSent == Spec => []SentHasReached
<1>1. IInv => SentHasReached
  BY DEF IInv
<1> QED BY <1>1, Invariance, PTL

(* No runner, however late, replaces a refresh token that Zalo still takes *)
(* or asks for a new authorisation before Zalo has refused a renewal with  *)
(* the refresh token that is saved, whichever credentials are replaced     *)
(* meanwhile (ZaloTokenService.access, ZaloConnectionService).             *)
THEOREM LiveKeysStand == Spec => LiveKeyStands
<1> DEFINE Stands ==
  /\ conn'.key # conn.key /\ issued' = issued => conn.key \in dead
  /\ conn'.status = "REAUTH_REQUIRED" /\ conn.status # "REAUTH_REQUIRED" => conn.key \in refused
<1>1. IInv /\ [Next]_vars => [Stands]_vars
  <2> SUFFICES ASSUME IInv, [Next]_vars PROVE Stands
    OBVIOUS
  <2>t. conn \in ConnType /\ issued \in Nat
    BY DEF IInv, TypeOK, ConnType, Keys
  <2>1. ASSUME NEW r \in Runners, save(r) PROVE Stands
    <3>1. CASE ~sameKey(r)
      BY <2>1, <3>1 DEF save
    <3>2. CASE sameKey(r)
      <4>1. /\ run[r].reply \in {"OK", "RETRY", "FAIL"}
            /\ run[r].reply = "OK" => conn.key \in dead
            /\ run[r].reply = "FAIL" => conn.key \in refused
        BY <2>1, <3>2 DEF save, At, sameKey, IInv, Spent
      <4>2. /\ run[r].reply # "OK" => conn'.key = conn.key
            /\ run[r].reply # "FAIL" => conn'.status = conn.status
        BY <2>1, <2>t, <3>2 DEF save, ConnType
      <4> QED BY <4>1, <4>2
    <3> QED BY <3>1, <3>2
  <2>2. CASE tokenAges \/ secretChanges
    BY <2>2, <2>t DEF tokenAges, secretChanges, ConnType
  <2>3. CASE replaceWithin
    <3>1. PICK app \in App :
            conn' = [status |-> app.status, fresh |-> FALSE, right |-> app.right,
                     key |-> IF issued' = issued THEN conn.key ELSE issued']
      BY <2>3 DEF replaceWithin
    <3>2. app.status # "REAUTH_REQUIRED"
      BY DEF App
    <3> QED BY <3>1, <3>2
  <2>4. CASE UNCHANGED conn
    BY <2>4
  <2>5. ASSUME NEW r \in Runners, tick(r), ~save(r) PROVE UNCHANGED conn
    <3>1. ASSUME acquire(r) \/ settleOrphans(r) \/ expire(r) \/ access(r) \/ claim(r) PROVE UNCHANGED conn
      BY <3>1 DEF acquire, settleOrphans, expire, access, claim
    <3>2. ASSUME keepGoing(r) \/ sendAgain(r) \/ keepGoingThrows(r) PROVE UNCHANGED conn
      BY <3>2 DEF keepGoing, sendAgain, keepGoingThrows
    <3>3. ASSUME finish(r) \/ release(r) \/ leave(r) PROVE UNCHANGED conn
      BY <3>3 DEF finish, release, leave
    <3> QED BY <2>5, <3>1, <3>2, <3>3 DEF tick
  <2>6. ASSUME NEW r \in Runners, stop(r) \/ crash(r) \/ statementFails(r) PROVE UNCHANGED conn
    BY <2>6 DEF stop, crash, statementFails
  <2>7. ASSUME NEW d \in Deliveries, claimAges(d) \/ backoffEnds(d) \/ expires(d) PROVE UNCHANGED conn
    BY <2>7 DEF claimAges, backoffEnds, expires
  <2> QED BY <2>1, <2>2, <2>3, <2>4, <2>5, <2>6, <2>7 DEF Next, vars, leaseExpires
<1> QED BY <1>1, Invariance, PTL DEF Spec, LiveKeyStands
=============================================================================
