--------------------------- MODULE ErpSendProofs ---------------------------
(***************************************************************************)
(* Proofs about sending to the ERP, for every number of runners, messages, *)
(* rows of a message, batches and faults.                                  *)
(*                                                                         *)
(* The rows of a message are all reserved or all sent, and once they are   *)
(* sent nothing takes them back (Sent is stable): so what a runner has in  *)
(* memory, however old, either names rows that are gone, which it notices  *)
(* by their ids, or says something that is still true (Mem).  None of that *)
(* needs the lease or the locks.  That a document goes out under one       *)
(* IF_SEQ does need the locks: without stalls a message in somebody's      *)
(* hands is locked by that runner (Exclusive), so nobody else reserves or  *)
(* discards its rows.  So does DONE: a message is finished without rows    *)
(* only by who has it locked (Rowless).                                    *)
(***************************************************************************)
EXTENDS ErpSend, FiniteSetTheorems, TLAPS


Away == {"INSERTED", "APPLIED", "REJECTED"}

MsgType == [status : MsgStatus, lockedBy : Runners \cup {NoRunner}, stale : BOOLEAN, due : BOOLEAN]
RelayType == [Messages -> [Seqs -> [Lines -> RelayStatus]]]

(* The fields of a runner's memory; the answers it has read are left open. *)
Fields(x) ==
  x \in [pc : Steps, stopping : BOOLEAN, claimed : SUBSET Messages, full : BOOLEAN,
         cur : Messages \cup {NoMessage}, own : Reservation, last : 0 .. MaxSeq, out : MsgStatus,
         counted : SUBSET Lines, seen : {x.seen}, changed : {x.changed}, todo : SUBSET Messages]

Typed ==
  /\ msg \in [Messages -> MsgType]
  /\ rows \in [Messages -> Reservation]
  /\ relay \in RelayType
  /\ DOMAIN run = Runners

Reached(m, s) == \A i \in Lines : relay[m][s][i] # "absent"
Absent(m, s)  == \A i \in Lines : relay[m][s][i] = "absent"

(* All rows of the message are recorded as sent, and are in the relay. *)
Sent(m) == /\ rows[m].seq \in Seqs /\ Reached(m, rows[m].seq)
           /\ \A i \in Lines : rows[m].status[i] \in Away

AllReserved(res) == \A i \in Lines : res.status[i] = "RESERVED"

RowsFit(m) ==
  \/ rows[m] = NoRows
  \/ rows[m].id # 0 /\ rows[m].seq \in Seqs /\ (AllReserved(rows[m]) \/ Sent(m))

(* The rows of a reservation go to the relay in one transaction. *)
RelayFits(m) == \A s \in Seqs : Absent(m, s) \/ Reached(m, s)

MsgFits(m) ==
  /\ msg[m].lockedBy # NoRunner => msg[m].status = "PROCESSING"
  /\ msg[m].status = "PROCESSING" /\ msg[m].lockedBy = NoRunner => Sent(m)

(* The steps of a message. *)
Looking == {"of", "build", "reserve"}
Sending == {"insert", "markInserted", "discard"}
Busy == Looking \cup Sending \cup {"rewrite", "markRewritten", "finish"}

(* What a runner has in memory of the message in hand ... *)
InHand(x) ==
  /\ x.pc \in Busy <=> x.cur \in Messages
  /\ x.cur \notin x.claimed
  /\ x.pc \in Looking \/ x.pc \notin Busy => x.own.id = 0
  /\ x.pc \in Sending => AllReserved(x.own) /\ x.own.seq \in Seqs /\ x.own.id # 0
  /\ x.cur \in Messages /\ x.own.id # 0 /\ x.own.id = rows[x.cur].id => x.own.seq = rows[x.cur].seq
  /\ x.pc = "markInserted" => Reached(x.cur, x.own.seq)
  /\ x.pc \in {"rewrite", "markRewritten"} \/ (x.pc = "finish" /\ x.out = "PROCESSING") => Sent(x.cur)

(* ... and of the answers of the ERP. *)
Answers(x) ==
  /\ x.pc = "replies" => \A w \in x.seen : w.m \in Messages /\ Sent(w.m) /\ w.status \in Away
  /\ x.pc = "record" => \A c \in x.changed : c.m \in Messages /\ Sent(c.m) /\ c.status \in Away
  /\ x.pc = "settle" => \A n \in x.todo : Sent(n)

Mem(x) == Fields(x) /\ InHand(x) /\ Answers(x)

IInv ==
  /\ Typed
  /\ \A m \in Messages : MsgFits(m)
  /\ \A m \in Messages : RowsFit(m)
  /\ \A m \in Messages : RelayFits(m)
  /\ \A r \in Runners : Mem(run[r])

(* Without stalls, what a runner has in hand it has locked. *)
Locked(r, x) ==
  \A m \in Messages : x.cur = m \/ m \in x.claimed => msg[m].lockedBy = r /\ ~ msg[m].stale

(* The rows a runner sends are those of the table; those it discards never *)
(* reached the relay.                                                      *)
OwnRows(x) ==
  x.pc \in Sending => /\ x.own.id = rows[x.cur].id
                      /\ x.pc = "discard" => \A s \in Seqs : Absent(x.cur, s)

OneSeq(m) == \A s \in Seqs : ~ Absent(m, s) => rows[m].id # 0 /\ s = rows[m].seq

Exclusive ==
  /\ \A r \in Runners : Locked(r, run[r]) /\ OwnRows(run[r])
  /\ \A m \in Messages : OneSeq(m)

DInv == IInv /\ (~ stalled => Exclusive)
-----------------------------------------------------------------------------
(* How the shared tables may change under what a runner has in memory. *)

RelayGrows ==
  \A m \in Messages, s \in Seqs, i \in Lines : relay[m][s][i] # "absent" => relay'[m][s][i] # "absent"

(* The rows of m: the same rows, no rows, or rows under an id nobody has. *)
IdKept(m) ==
  \/ rows'[m].id = rows[m].id /\ rows'[m].seq = rows[m].seq
  \/ rows'[m].id = 0
  \/ \A q \in Runners : run[q].cur = m => run[q].own.id # rows'[m].id

Kept == RelayGrows /\ \A m \in Messages : IdKept(m) /\ (Sent(m) => Sent(m)')

LEMMA GrowsReached ==
  ASSUME RelayGrows, NEW m \in Messages, NEW s \in Seqs, Reached(m, s)
  PROVE  Reached(m, s)'
BY DEF RelayGrows, Reached

LEMMA MemKept ==
  ASSUME IInv, Kept, NEW q \in Runners, run'[q] = run[q]
  PROVE  Mem(run[q])'
<1> DEFINE x == run[q]
<1>1. PICK y : y = run[q]
  OBVIOUS
<1>2. Fields(y) /\ InHand(y) /\ Answers(y) /\ y = run'[q]
  BY <1>1 DEF IInv, Mem
<1>3. InHand(y)'
  <2>1. y.cur \in Messages /\ y.own.id # 0 /\ y.own.id = rows'[y.cur].id => y.own.seq = rows'[y.cur].seq
    BY <1>1, <1>2 DEF InHand, Kept, IdKept
  <2>2. y.pc = "markInserted" => Reached(y.cur, y.own.seq)'
    BY <1>2, GrowsReached DEF InHand, Kept, Busy, Sending
  <2>3. y.pc \in {"rewrite", "markRewritten"} \/ (y.pc = "finish" /\ y.out = "PROCESSING") => Sent(y.cur)'
    BY <1>2 DEF InHand, Kept, Busy
  <2> QED
    BY <1>2, <2>1, <2>2, <2>3 DEF InHand, AllReserved
<1>4. Answers(y)'
  <2>1. y.todo \subseteq Messages
    BY <1>2 DEF Fields
  <2> QED
    BY <1>2, <2>1 DEF Answers, Kept
<1>5. Fields(y)'
  BY <1>2 DEF Fields
<1>6. Mem(y)'
  BY <1>3, <1>4, <1>5 DEF Mem
<1> QED
  BY <1>2, <1>6 DEF Mem, Fields, InHand, Answers, AllReserved

(* A step keeps IInv when the tables still fit, nothing is taken back, and  *)
(* every runner's memory is as it was or fits the new tables.               *)
LEMMA Assemble ==
  ASSUME IInv, Kept, Typed',
         \A m \in Messages : MsgFits(m)',
         \A m \in Messages : RowsFit(m)',
         \A m \in Messages : RelayFits(m)',
         \A q \in Runners : run'[q] = run[q] \/ Mem(run[q])'
  PROVE  IInv'
BY MemKept DEF IInv

LEMMA SameRows ==
  ASSUME IInv, RelayGrows, rows' = rows
  PROVE  Kept /\ \A m \in Messages : RowsFit(m)'
<1>1. ASSUME NEW m \in Messages PROVE IdKept(m) /\ (Sent(m) => Sent(m)') /\ RowsFit(m)'
  <2>1. IdKept(m)
    BY DEF IdKept
  <2>2. Sent(m) => Sent(m)'
    BY GrowsReached DEF Sent
  <2>3. RowsFit(m)
    BY DEF IInv
  <2> QED
    BY <2>1, <2>2, <2>3 DEF RowsFit, AllReserved, NoRows
<1> QED
  BY <1>1 DEF Kept

LEMMA SameRelay ==
  ASSUME IInv, relay' = relay
  PROVE  RelayGrows /\ \A m \in Messages : RelayFits(m)'
BY DEF IInv, RelayGrows, RelayFits, Absent, Reached

LEMMA SameMsg ==
  ASSUME IInv, Kept, msg' = msg
  PROVE  \A m \in Messages : MsgFits(m)'
BY DEF IInv, Kept, MsgFits
-----------------------------------------------------------------------------
(* What a step does to the runners. *)

RunOK == DOMAIN run' = Runners /\ \A q \in Runners : run'[q] = run[q] \/ Mem(run[q])'

(* Runner r goes on with y in memory. *)
Goes(r, y) == DOMAIN run' = Runners /\ run'[r] = y /\ \A q \in Runners \ {r} : run'[q] = run[q]

LEMMA GoesOn ==
  ASSUME IInv, NEW r \in Runners, NEW y, run' = [run EXCEPT ![r] = y]
  PROVE  Goes(r, y)
BY DEF IInv, Typed, Goes

LEMMA GoesOK ==
  ASSUME IInv, NEW r \in Runners, NEW y, Goes(r, y), Mem(y)'
  PROVE  RunOK
<1>1. Mem(run[r])'
  BY DEF Goes, Mem, Fields, InHand, Answers, AllReserved
<1> QED
  BY <1>1 DEF RunOK, Goes

(* Memory that fits the tables, in a step that leaves them. *)
LEMMA SameMem ==
  ASSUME NEW y, Mem(y), rows' = rows, relay' = relay
  PROVE  Mem(y)'
BY DEF Mem, Fields, InHand, Answers, AllReserved, Sent, Reached

LEMMA LocalStep ==
  ASSUME IInv, RunOK, UNCHANGED <<msg, rows, relay>>
  PROVE  IInv'
<1>1. Kept /\ (\A m \in Messages : RowsFit(m)') /\ (\A m \in Messages : RelayFits(m)')
  BY SameRows, SameRelay
<1>2. \A m \in Messages : MsgFits(m)'
  BY <1>1, SameMsg
<1>3. Typed'
  BY DEF IInv, Typed, RunOK
<1> QED
  BY <1>1, <1>2, <1>3, Assemble DEF RunOK

LEMMA MsgStep ==
  ASSUME IInv, RunOK, UNCHANGED <<rows, relay>>, msg' \in [Messages -> MsgType],
         \A m \in Messages : MsgFits(m)'
  PROVE  IInv'
<1>1. Kept /\ (\A m \in Messages : RowsFit(m)') /\ (\A m \in Messages : RelayFits(m)')
  BY SameRows, SameRelay
<1>3. Typed'
  BY DEF IInv, Typed, RunOK
<1> QED
  BY <1>1, <1>3, Assemble DEF RunOK

LEMMA RowStep ==
  ASSUME IInv, RunOK, UNCHANGED <<msg, relay>>, rows' \in [Messages -> Reservation],
         \A m \in Messages : IdKept(m) /\ (Sent(m) => Sent(m)') /\ RowsFit(m)'
  PROVE  IInv'
<1>1. Kept /\ (\A m \in Messages : RelayFits(m)')
  BY SameRelay DEF Kept
<1>2. \A m \in Messages : MsgFits(m)'
  BY <1>1, SameMsg
<1>3. Typed'
  BY DEF IInv, Typed, RunOK
<1> QED
  BY <1>1, <1>2, <1>3, Assemble DEF RunOK

LEMMA RelayStep ==
  ASSUME IInv, RunOK, UNCHANGED <<msg, rows>>, relay' \in RelayType, RelayGrows,
         \A m \in Messages : RelayFits(m)'
  PROVE  IInv'
<1>1. Kept /\ (\A m \in Messages : RowsFit(m)')
  BY SameRows
<1>2. \A m \in Messages : MsgFits(m)'
  BY <1>1, SameMsg
<1>3. Typed'
  BY DEF IInv, Typed, RunOK
<1> QED
  BY <1>1, <1>2, <1>3, Assemble DEF RunOK

(***************************************************************************)
(* What has to be shown of every step: it keeps IInv, and also who holds   *)
(* what, unless a lease or a lock runs out.                                *)
(***************************************************************************)
Keeps == IInv' /\ (Exclusive => Exclusive')

(* y holds no message that x did not hold. *)
Lighter(x, y) ==
  \A m \in Messages : y.cur = m \/ m \in y.claimed => x.cur = m \/ m \in x.claimed

LEMMA SameOwn ==
  ASSUME NEW y, OwnRows(y), rows' = rows, relay' = relay
  PROVE  OwnRows(y)'
BY DEF OwnRows, Absent

LEMMA SameSeq ==
  ASSUME rows' = rows, relay' = relay, Exclusive
  PROVE  \A m \in Messages : OneSeq(m)'
BY DEF Exclusive, OneSeq, Absent

(* The runners of a step of r, who ends it with y in memory. *)
LEMMA Others ==
  ASSUME NEW r \in Runners, NEW y, Goes(r, y),
         Locked(r, y)', OwnRows(y)',
         \A q \in Runners \ {r} : Locked(q, run[q])' /\ OwnRows(run[q])',
         \A m \in Messages : OneSeq(m)'
  PROVE  Exclusive'
<1>1. Locked(r, run[r])'
  BY DEF Goes, Locked
<1>2. OwnRows(run[r])'
  BY DEF Goes, OwnRows
<1> QED
  BY <1>1, <1>2 DEF Exclusive

LEMMA LocalGo ==
  ASSUME IInv, NEW r \in Runners, NEW y, Goes(r, y), Mem(y), Lighter(run[r], y),
         y.pc \notin Sending \/ (Exclusive => OwnRows(y)), UNCHANGED <<msg, rows, relay>>
  PROVE  Keeps
<1>1. IInv'
  BY GoesOK, SameMem, LocalStep
<1>2. ASSUME Exclusive PROVE Exclusive'
  <2>1. OwnRows(y)'
    BY <1>2, SameOwn DEF OwnRows
  <2>2. Locked(r, y)'
    BY <1>2 DEF Exclusive, Locked, Lighter
  <2>3. ASSUME NEW q \in Runners \ {r} PROVE Locked(q, run[q])' /\ OwnRows(run[q])'
    BY <1>2, <2>3 DEF Exclusive, Locked, OwnRows, Goes, Absent
  <2> QED
    BY <1>2, <2>1, <2>2, <2>3, SameSeq, Others
<1> QED
  BY <1>1, <1>2 DEF Keeps

(* Runner r writes messages. *)
LEMMA MsgGo ==
  ASSUME IInv, NEW r \in Runners, NEW y, Goes(r, y), Mem(y), y.pc \notin Sending,
         UNCHANGED <<rows, relay>>, msg' \in [Messages -> MsgType],
         \A m \in Messages : MsgFits(m)',
         Exclusive => Locked(r, y)',
         Exclusive => \A q \in Runners \ {r} : \A m \in Messages :
                        msg[m].lockedBy = q /\ ~ msg[m].stale => msg'[m].lockedBy = q /\ ~ msg'[m].stale
  PROVE  Keeps
<1>1. IInv'
  BY GoesOK, SameMem, MsgStep
<1>2. ASSUME Exclusive PROVE Exclusive'
  <2>1. OwnRows(y)'
    BY DEF OwnRows
  <2>3. ASSUME NEW q \in Runners \ {r} PROVE Locked(q, run[q])' /\ OwnRows(run[q])'
    BY <1>2, <2>3 DEF Exclusive, Locked, OwnRows, Goes, Absent
  <2> QED
    BY <1>2, <2>1, <2>3, SameSeq, Others
<1> QED
  BY <1>1, <1>2 DEF Keeps

(* No runner moves, and the locks stay. *)
LEMMA LocksStay ==
  ASSUME IInv, UNCHANGED <<rows, relay, run>>, msg' \in [Messages -> MsgType],
         \A m \in Messages : MsgFits(m)' /\ msg'[m].lockedBy = msg[m].lockedBy /\ msg'[m].stale = msg[m].stale
  PROVE  Keeps
<1>1. IInv'
  BY MsgStep DEF RunOK, IInv, Typed
<1>2. ASSUME Exclusive PROVE Exclusive'
  <2>3. ASSUME NEW q \in Runners PROVE Locked(q, run[q])' /\ OwnRows(run[q])'
    BY <1>2, <2>3 DEF Exclusive, Locked, OwnRows, Absent
  <2> QED
    BY <1>2, <2>3, SameSeq DEF Exclusive
<1> QED
  BY <1>1, <1>2 DEF Keeps
-----------------------------------------------------------------------------
(* Steps of a runner in its own memory. *)

(* A runner with nothing in hand. *)
LEMMA Empty ==
  ASSUME NEW y, Fields(y), y.pc \in {"idle", "down"}, y.cur = NoMessage, y.claimed = {}, y.own.id = 0
  PROVE  Mem(y) /\ Mem(y)'
BY ErpSendAssumption DEF Mem, Fields, InHand, Answers, Looking, Sending, Busy

LEMMA NoRowsTyped == NoRows \in Reservation /\ NoRows.id = 0
<1>1. 0 \in Ids /\ 0 \in 0 .. MaxSeq
  BY ErpSendAssumption, FS_CardinalityType DEF Ids
<1> QED
  BY <1>1 DEF NoRows, Reservation, RowStatus

LEMMA NoRunFields ==
  ASSUME NEW b \in BOOLEAN
  PROVE  LET y == [NoRun EXCEPT !.stopping = b]
         IN Fields(y) /\ y.pc = "idle" /\ y.cur = NoMessage /\ y.claimed = {} /\ y.own.id = 0
<1>1. NoRows \in Reservation /\ NoRows.id = 0 /\ 0 \in 0 .. MaxSeq
  BY NoRowsTyped, ErpSendAssumption
<1> HIDE DEF NoRows
<1> QED
  BY <1>1 DEF NoRun, Fields, Steps, MsgStatus

LEMMA DownFields ==
  LET y == [NoRun EXCEPT !.pc = "down"]
  IN Fields(y) /\ y.pc = "down" /\ y.cur = NoMessage /\ y.claimed = {} /\ y.own.id = 0
<1>1. NoRows \in Reservation /\ NoRows.id = 0 /\ 0 \in 0 .. MaxSeq
  BY NoRowsTyped, ErpSendAssumption
<1> HIDE DEF NoRows
<1> QED
  BY <1>1 DEF NoRun, Fields, Steps, MsgStatus

(* The runner ends r's tick or goes down. *)
Ends(r) ==
  \E y : /\ Goes(r, y) /\ Fields(y) /\ y.pc \in {"idle", "down"}
         /\ y.cur = NoMessage /\ y.claimed = {} /\ y.own.id = 0

LEMMA EndTickEnds ==
  ASSUME IInv, NEW r \in Runners, EndTick(r)
  PROVE  Ends(r)
<1>1. run[r].stopping \in BOOLEAN
  BY DEF IInv, Mem, Fields
<1>2. Goes(r, [NoRun EXCEPT !.stopping = run[r].stopping])
  BY GoesOn DEF EndTick
<1> HIDE DEF NoRun
<1> QED
  BY <1>1, <1>2, NoRunFields DEF Ends

LEMMA EndsKeeps ==
  ASSUME IInv, NEW r \in Runners, Ends(r), UNCHANGED <<msg, rows, relay>>
  PROVE  Keeps
<1>1. PICK y : /\ Goes(r, y) /\ Fields(y) /\ y.pc \in {"idle", "down"}
               /\ y.cur = NoMessage /\ y.claimed = {} /\ y.own.id = 0
  BY DEF Ends
<1>2. Mem(y) /\ Lighter(run[r], y) /\ y.pc \notin Sending
  BY <1>1, Empty, ErpSendAssumption DEF Lighter, Sending
<1> QED
  BY <1>1, <1>2, LocalGo

LEMMA CrashKeeps ==
  ASSUME IInv, NEW r \in Runners, Crash(r)
  PROVE  Keeps
<1>1. Goes(r, [NoRun EXCEPT !.pc = "down"])
  BY GoesOn DEF Crash
<1> HIDE DEF NoRun
<1>2. Ends(r)
  BY <1>1, DownFields DEF Ends
<1> QED
  BY <1>2, EndsKeeps DEF Crash

(* A change of some fields of a runner's memory. *)
LEMMA PcTo ==
  ASSUME IInv, NEW r \in Runners, NEW step \in Steps, Goto(r, step)
  PROVE  \E y : /\ Goes(r, y) /\ Fields(y) /\ y.pc = step
                /\ y.cur = run[r].cur /\ y.claimed = run[r].claimed /\ y.own = run[r].own
<1> DEFINE y == [run[r] EXCEPT !.pc = step]
<1>1. run' = [run EXCEPT ![r] = y]
  BY DEF Goto
<1>2. Fields(run[r])
  BY DEF IInv, Mem
<1>3. Goes(r, y)
  BY <1>1, GoesOn
<1>4. Fields(y) /\ y.pc = step /\ y.cur = run[r].cur /\ y.claimed = run[r].claimed /\ y.own = run[r].own
  BY <1>2 DEF Fields
<1> QED
  BY <1>3, <1>4

(* Between two steps that are no steps of a message. *)
Between == {"idle", "orphans", "claim", "go", "release", "goReplies", "waiting", "down"}

LEMMA Moves ==
  ASSUME IInv, NEW r \in Runners, run[r].pc \in Between, NEW step \in Between, Goto(r, step)
  PROVE  \E y : Goes(r, y) /\ Mem(y) /\ y.pc = step /\ Lighter(run[r], y)
<1>0. step \in Steps
  BY DEF Between, Steps
<1>1. PICK y : /\ Goes(r, y) /\ Fields(y) /\ y.pc = step
               /\ y.cur = run[r].cur /\ y.claimed = run[r].claimed /\ y.own = run[r].own
  BY <1>0, PcTo
<1>2. InHand(run[r])
  BY DEF IInv, Mem
<1>3. InHand(y)
  BY <1>1, <1>2 DEF InHand, Between, Looking, Sending, Busy
<1>4. Answers(y)
  BY <1>1 DEF Answers, Between
<1> QED
  BY <1>1, <1>3, <1>4 DEF Mem, Lighter

LEMMA MovesKeep ==
  ASSUME IInv, NEW r \in Runners, run[r].pc \in Between, NEW step \in Between, Goto(r, step),
         UNCHANGED <<msg, rows, relay>>
  PROVE  Keeps
<1>1. PICK y : Goes(r, y) /\ Mem(y) /\ y.pc = step /\ Lighter(run[r], y)
  BY Moves
<1>2. y.pc \notin Sending
  BY <1>1 DEF Sending, Between
<1> QED
  BY <1>1, <1>2, LocalGo

LEMMA AcquireKeeps ==
  ASSUME IInv, NEW r \in Runners, acquire(r)
  PROVE  Keeps
BY MovesKeep DEF acquire, At, Between

LEMMA LeaveKeeps ==
  ASSUME IInv, NEW r \in Runners, leave(r)
  PROVE  Keeps
BY MovesKeep DEF leave, At, Between

LEMMA ThrowsKeeps ==
  ASSUME IInv, NEW r \in Runners, keepGoingThrows(r)
  PROVE  Keeps
<1>1. UNCHANGED <<msg, rows, relay>>
  BY DEF keepGoingThrows
<1>2. CASE At(r, "go") /\ Goto(r, "release")
  BY <1>1, <1>2, MovesKeep DEF At, Between
<1>3. CASE EndTick(r)
  BY <1>1, <1>3, EndTickEnds, EndsKeeps
<1> QED
  BY <1>2, <1>3 DEF keepGoingThrows

LEMMA StopKeeps ==
  ASSUME IInv, NEW r \in Runners, stop(r)
  PROVE  Keeps
<1> DEFINE y == [run[r] EXCEPT !.stopping = TRUE]
<1>1. run' = [run EXCEPT ![r] = y]
  BY DEF stop
<1>2. Mem(run[r])
  BY DEF IInv
<1>3. Goes(r, y)
  BY <1>1, GoesOn
<1>4. /\ Fields(y) /\ y.pc = run[r].pc /\ y.cur = run[r].cur /\ y.claimed = run[r].claimed
      /\ y.own = run[r].own /\ y.out = run[r].out /\ y.seen = run[r].seen
      /\ y.changed = run[r].changed /\ y.todo = run[r].todo
  BY <1>2 DEF Mem, Fields
<1> HIDE DEF y
<1>5. Mem(y)
  BY <1>2, <1>4 DEF Mem, InHand, Answers
<1>6. Lighter(run[r], y) /\ (Exclusive => OwnRows(y))
  BY <1>4 DEF Lighter, Exclusive, OwnRows
<1> QED
  BY <1>3, <1>5, <1>6, LocalGo DEF stop

LEMMA KeepGoingKeeps ==
  ASSUME IInv, NEW r \in Runners, keepGoing(r)
  PROVE  Keeps
<1>1. UNCHANGED <<msg, rows, relay>>
  BY DEF keepGoing
<1>2. CASE At(r, "goReplies") /\ Goto(r, "waiting")
  BY <1>1, <1>2, MovesKeep DEF At, Between
<1>3. ASSUME At(r, "go"), NEW m \in run[r].claimed,
             run' = [run EXCEPT ![r].pc = "of", ![r].cur = m, ![r].claimed = @ \ {m}]
      PROVE  Keeps
  <2> DEFINE y == [run[r] EXCEPT !.pc = "of", !.cur = m, !.claimed = @ \ {m}]
  <2>1. Goes(r, y)
    BY <1>3, GoesOn
  <2>2. Fields(run[r]) /\ InHand(run[r]) /\ m \in Messages
    BY DEF IInv, Mem, Fields
  <2>3. Fields(y) /\ y.pc = "of" /\ y.cur = m /\ y.claimed = run[r].claimed \ {m} /\ y.own = run[r].own
    BY <2>2 DEF Fields, Steps
  <2> HIDE DEF y
  <2>4. InHand(y)
    BY <1>3, <2>2, <2>3 DEF InHand, At, Looking, Sending, Busy
  <2>5. Mem(y) /\ Lighter(run[r], y) /\ y.pc \notin Sending
    BY <2>3, <2>4 DEF Mem, Answers, Lighter, Sending
  <2> QED
    BY <1>1, <2>1, <2>5, LocalGo
<1> QED
  BY <1>2, <1>3 DEF keepGoing
-----------------------------------------------------------------------------
(* Sending one message: what the runner makes of the rows. *)

LEMMA Finishing ==
  ASSUME IInv, NEW r \in Runners, NEW s \in MsgStatus, FinishAs(r, s)
  PROVE  \E y : /\ Goes(r, y) /\ Fields(y) /\ y.pc = "finish" /\ y.out = s
                /\ y.cur = run[r].cur /\ y.claimed = run[r].claimed /\ y.own = run[r].own
<1> DEFINE y == [run[r] EXCEPT !.pc = "finish", !.out = s]
<1>1. run' = [run EXCEPT ![r] = y]
  BY DEF FinishAs
<1>2. Fields(run[r])
  BY DEF IInv, Mem
<1>3. Goes(r, y)
  BY <1>1, GoesOn
<1>4. /\ Fields(y) /\ y.pc = "finish" /\ y.out = s
      /\ y.cur = run[r].cur /\ y.claimed = run[r].claimed /\ y.own = run[r].own
  BY <1>2 DEF Fields, Steps
<1> QED
  BY <1>3, <1>4

(* The message in hand is given up, or nothing had to be sent. *)
LEMMA FinishKeeps ==
  ASSUME IInv, NEW r \in Runners, run[r].pc \in Busy, NEW s \in MsgStatus \ {"PROCESSING"},
         FinishAs(r, s), UNCHANGED <<msg, rows, relay>>
  PROVE  Keeps
<1>1. PICK y : /\ Goes(r, y) /\ Fields(y) /\ y.pc = "finish" /\ y.out = s
               /\ y.cur = run[r].cur /\ y.claimed = run[r].claimed /\ y.own = run[r].own
  BY Finishing
<1>2. InHand(run[r])
  BY DEF IInv, Mem
<1>3. InHand(y)
  BY <1>1, <1>2 DEF InHand, Looking, Sending, Busy
<1>4. Mem(y) /\ Lighter(run[r], y) /\ y.pc \notin Sending
  BY <1>1, <1>3 DEF Mem, Answers, Lighter, Sending
<1> QED
  BY <1>1, <1>4, LocalGo

LEMMA StatementFailsKeeps ==
  ASSUME IInv, NEW r \in Runners, statementFails(r)
  PROVE  Keeps
<1>1. UNCHANGED <<msg, rows, relay>>
  BY DEF statementFails
<1>2. CASE run[r].pc \in {"of", "build", "reserve"} /\ FinishAs(r, "FAILED")
  BY <1>1, <1>2, FinishKeeps DEF Busy, Looking, MsgStatus
<1>3. CASE EndTick(r)
  BY <1>1, <1>3, EndTickEnds, EndsKeeps
<1> QED
  BY <1>2, <1>3 DEF statementFails

(* The rows of a message that has some are all reserved, or all sent. *)
LEMMA SomeRows ==
  ASSUME IInv, NEW m \in Messages, Present(rows[m]) # {}
  PROVE  /\ rows[m] \in Reservation /\ rows[m].id # 0 /\ rows[m].seq \in Seqs
         /\ AllReserved(rows[m]) \/ Sent(m)
BY DEF IInv, Typed, RowsFit, Present, NoRows

LEMMA NoSuchRows ==
  ASSUME IInv, NEW m \in Messages, Present(rows[m]) = {}
  PROVE  rows[m] = NoRows
<1>1. PICK i : i \in Lines
  BY ErpSendAssumption
<1> QED
  BY <1>1 DEF IInv, RowsFit, Present, AllReserved, Sent, Away

(* send() with rows of the table: what is sent already is not sent again. *)
LEMMA SendRowsFits ==
  ASSUME IInv, NEW r \in Runners, run[r].pc \in Looking, SendRows(r, rows[run[r].cur]),
         Present(rows[run[r].cur]) # {}
  PROVE  \E y : Goes(r, y) /\ Mem(y) /\ Lighter(run[r], y) /\ OwnRows(y)
<1> DEFINE m == run[r].cur
           res == rows[run[r].cur]
           step == IF WithStatus(res, "REJECTED") # {} THEN "rewrite"
                   ELSE IF WithStatus(res, "RESERVED") # {} THEN "insert" ELSE "finish"
           y == [run[r] EXCEPT !.own = res, !.out = "PROCESSING", !.pc = step]
<1>1. Fields(run[r]) /\ InHand(run[r]) /\ m \in Messages
  BY DEF IInv, Mem, InHand, Busy
<1>2. /\ res \in Reservation /\ res.id # 0 /\ res.seq \in Seqs
      /\ AllReserved(res) \/ Sent(m)
  BY <1>1, SomeRows
<1>3. PICK i : i \in Lines
  BY ErpSendAssumption
<1>4. /\ step \in {"rewrite", "insert", "finish"}
      /\ step = "insert" => AllReserved(res)
      /\ step # "insert" => Sent(m)
  <2>1. CASE AllReserved(res)
    <3>1. WithStatus(res, "REJECTED") = {} /\ i \in WithStatus(res, "RESERVED")
      BY <1>3, <2>1 DEF AllReserved, WithStatus
    <3> QED
      BY <2>1, <3>1
  <2>2. CASE Sent(m)
    <3>1. WithStatus(res, "RESERVED") = {}
      BY <2>2 DEF Sent, WithStatus, Away
    <3> QED
      BY <2>2, <3>1
  <2> QED
    BY <1>2, <2>1, <2>2
<1>5. Goes(r, y)
  BY GoesOn DEF SendRows
<1> HIDE DEF step, res
<1>6. /\ Fields(y) /\ y.pc = step /\ y.cur = m /\ y.claimed = run[r].claimed /\ y.own = res
      /\ y.out = "PROCESSING"
  BY <1>1, <1>2, <1>4 DEF Fields, Steps, MsgStatus
<1> HIDE DEF y
<1>7. InHand(y)
  BY <1>1, <1>2, <1>4, <1>6 DEF InHand, res, Looking, Sending, Busy
<1>8. Mem(y) /\ Lighter(run[r], y)
  BY <1>4, <1>6, <1>7 DEF Mem, Answers, Lighter
<1>9. OwnRows(y)
  BY <1>4, <1>6 DEF OwnRows, Sending, res
<1> QED
  BY <1>5, <1>8, <1>9

LEMMA OfKeeps ==
  ASSUME IInv, NEW r \in Runners, of(r)
  PROVE  Keeps
<1>1. UNCHANGED <<msg, rows, relay>> /\ run[r].pc = "of"
  BY DEF of, At
<1>2. CASE Present(rows[run[r].cur]) # {} /\ SendRows(r, rows[run[r].cur])
  <2>1. PICK y : Goes(r, y) /\ Mem(y) /\ Lighter(run[r], y) /\ OwnRows(y)
    BY <1>1, <1>2, SendRowsFits DEF Looking
  <2> QED
    BY <1>1, <2>1, LocalGo
<1>3. CASE Goto(r, "build")
  <2>1. PICK y : /\ Goes(r, y) /\ Fields(y) /\ y.pc = "build"
                 /\ y.cur = run[r].cur /\ y.claimed = run[r].claimed /\ y.own = run[r].own
    BY <1>3, PcTo DEF Steps
  <2>2. InHand(run[r])
    BY DEF IInv, Mem
  <2>3. InHand(y)
    BY <1>1, <2>1, <2>2 DEF InHand, Looking, Sending, Busy
  <2>4. Mem(y) /\ Lighter(run[r], y) /\ y.pc \notin Sending
    BY <2>1, <2>3 DEF Mem, Answers, Lighter, Sending
  <2> QED
    BY <1>1, <2>1, <2>4, LocalGo
<1> QED
  BY <1>2, <1>3 DEF of

LEMMA BuildKeeps ==
  ASSUME IInv, NEW r \in Runners, build(r)
  PROVE  Keeps
<1>1. UNCHANGED <<msg, rows, relay>> /\ run[r].pc = "build" /\ run[r].pc \in Busy
  BY DEF build, At, Busy, Looking
<1>2. CASE FinishAs(r, "FAILED") \/ FinishAs(r, "DONE") \/ postpone(r)
  BY <1>1, <1>2, FinishKeeps DEF postpone, MsgStatus
<1>3. ASSUME NEW last \in 0 .. MaxSeq, run' = [run EXCEPT ![r].last = last, ![r].pc = "reserve"]
      PROVE  Keeps
  <2> DEFINE y == [run[r] EXCEPT !.last = last, !.pc = "reserve"]
  <2>1. Goes(r, y)
    BY <1>3, GoesOn
  <2>2. Fields(run[r]) /\ InHand(run[r])
    BY DEF IInv, Mem
  <2>3. Fields(y) /\ y.pc = "reserve" /\ y.cur = run[r].cur /\ y.claimed = run[r].claimed /\ y.own = run[r].own
    BY <2>2 DEF Fields, Steps
  <2> HIDE DEF y
  <2>4. InHand(y)
    BY <1>1, <2>2, <2>3 DEF InHand, Looking, Sending, Busy
  <2>5. Mem(y) /\ Lighter(run[r], y) /\ y.pc \notin Sending
    BY <2>3, <2>4 DEF Mem, Answers, Lighter, Sending
  <2> QED
    BY <1>1, <2>1, <2>5, LocalGo
<1> QED
  BY <1>2, <1>3 DEF build
-----------------------------------------------------------------------------
(* Steps that write rows, of the table or of the relay. *)

(* Nobody else sends what r has in hand. *)
LEMMA Apart ==
  ASSUME IInv, Exclusive, NEW r \in Runners, NEW q \in Runners \ {r}, run[q].pc \in Sending
  PROVE  run[q].cur \in Messages /\ run[q].cur # run[r].cur
BY DEF IInv, Mem, InHand, Exclusive, Locked, Busy

LEMMA RowGo ==
  ASSUME IInv, NEW r \in Runners, NEW y, Goes(r, y), Mem(y)', Lighter(run[r], y),
         NEW m, m = run[r].cur, UNCHANGED <<msg, relay>>, rows' \in [Messages -> Reservation],
         \A n \in Messages : IdKept(n) /\ (Sent(n) => Sent(n)') /\ RowsFit(n)',
         \A n \in Messages \ {m} : rows'[n].id = rows[n].id /\ rows'[n].seq = rows[n].seq,
         Exclusive => OwnRows(y)' /\ (m \in Messages => OneSeq(m)')
  PROVE  Keeps
<1>1. IInv'
  BY GoesOK, RowStep
<1>2. ASSUME Exclusive PROVE Exclusive'
  <2>1. ASSUME NEW q \in Runners \ {r} PROVE Locked(q, run[q])' /\ OwnRows(run[q])'
    <3>1. Locked(q, run[q])'
      BY <1>2 DEF Exclusive, Locked, Goes
    <3>2. run'[q] = run[q] /\ OwnRows(run[q])
      BY <1>2 DEF Exclusive, Goes
    <3>3. run[q].pc \in Sending => run[q].cur \in Messages /\ run[q].cur # m
      BY <1>2, Apart
    <3>4. run[q].pc \in Sending => rows'[run[q].cur].id = rows[run[q].cur].id
      BY <3>3
    <3>5. OwnRows(run[q])'
      BY <3>2, <3>4 DEF OwnRows, Absent
    <3> QED
      BY <3>1, <3>5
  <2>2. Locked(r, y)'
    BY <1>2 DEF Exclusive, Locked, Lighter
  <2>3. \A n \in Messages : OneSeq(n)'
    <3>1. ASSUME NEW n \in Messages, n # m PROVE OneSeq(n)'
      BY <1>2, <3>1 DEF Exclusive, OneSeq, Absent
    <3> QED
      BY <1>2, <3>1
  <2> QED
    BY <1>2, <2>1, <2>2, <2>3, Others
<1> QED
  BY <1>1, <1>2 DEF Keeps

LEMMA RelayGo ==
  ASSUME IInv, NEW r \in Runners, NEW y, Goes(r, y), Mem(y)', Lighter(run[r], y),
         NEW m \in Messages, m = run[r].cur, UNCHANGED <<msg, rows>>, relay' \in RelayType,
         RelayGrows, \A n \in Messages : RelayFits(n)',
         \A n \in Messages \ {m} : relay'[n] = relay[n],
         Exclusive => OwnRows(y)' /\ OneSeq(m)'
  PROVE  Keeps
<1>1. IInv'
  BY GoesOK, RelayStep
<1>2. ASSUME Exclusive PROVE Exclusive'
  <2>1. ASSUME NEW q \in Runners \ {r} PROVE Locked(q, run[q])' /\ OwnRows(run[q])'
    <3>1. Locked(q, run[q])'
      BY <1>2 DEF Exclusive, Locked, Goes
    <3>2. run'[q] = run[q] /\ OwnRows(run[q])
      BY <1>2 DEF Exclusive, Goes
    <3>3. run[q].pc \in Sending => run[q].cur \in Messages /\ run[q].cur # m
      BY <1>2, Apart
    <3>4. run[q].pc \in Sending => relay'[run[q].cur] = relay[run[q].cur]
      BY <3>3
    <3>5. OwnRows(run[q])'
      BY <3>2, <3>4 DEF OwnRows, Absent
    <3> QED
      BY <3>1, <3>5
  <2>2. Locked(r, y)'
    BY <1>2 DEF Exclusive, Locked, Lighter
  <2>3. \A n \in Messages : OneSeq(n)'
    <3>1. ASSUME NEW n \in Messages, n # m PROVE OneSeq(n)'
      BY <1>2, <3>1 DEF Exclusive, OneSeq, Absent
    <3> QED
      BY <1>2, <3>1
  <2> QED
    BY <1>2, <2>1, <2>2, <2>3, Others
<1> QED
  BY <1>1, <1>2 DEF Keeps

(* There is an id for new rows that no runner remembers. *)
LEMMA Fresh ==
  ASSUME IInv, NEW m \in Messages, rows[m].id = 0
  PROVE  /\ FreshId(m) \in Ids \ {0}
         /\ \A q \in Runners : run[q].cur = m => run[q].own.id # FreshId(m)
<1> DEFINE used == {run[q].own.id : q \in Runners}
           f == [q \in Runners |-> run[q].own.id]
           n == Cardinality(Runners)
<1>1. IsFiniteSet(Runners) /\ n \in Nat
  BY ErpSendAssumption, FS_CardinalityType
<1>2. f \in Surjection(Runners, used)
  BY DEF Surjection
<1>3. IsFiniteSet(used) /\ Cardinality(used) <= n
  <2> HIDE DEF used, f, n
  <2>1. IsFiniteSet(used) /\ Cardinality(used) <= Cardinality(Runners)
    BY <1>1, <1>2, FS_Surjection
  <2> QED
    BY <2>1 DEF n
<1>4. Cardinality(1 .. n + 1) = n + 1
  <2>1. 1 \in Int /\ n + 1 \in Int /\ ~ (1 > n + 1) /\ n + 1 - 1 + 1 = n + 1
    BY <1>1
  <2> HIDE DEF n
  <2>2. Cardinality(1 .. n + 1) = IF 1 > n + 1 THEN 0 ELSE n + 1 - 1 + 1
    BY <2>1, FS_Interval
  <2> QED
    BY <2>1, <2>2
<1>5. ~ (1 .. n + 1 \subseteq used)
  <2>1. SUFFICES ASSUME 1 .. n + 1 \subseteq used PROVE FALSE
    OBVIOUS
  <2> HIDE DEF used, n
  <2>2. Cardinality(1 .. n + 1) <= Cardinality(used)
    BY <1>3, <2>1, FS_Subset
  <2>3. Cardinality(used) \in Nat
    BY <1>3, FS_CardinalityType
  <2> QED
    BY <1>1, <1>3, <1>4, <2>2, <2>3
<1>6. PICK g \in 1 .. n + 1 : g \notin used
  BY <1>5
<1>7. g \in Ids \ {0} /\ rows[m].id # g /\ \A q \in Runners : run[q].own.id # g \/ run[q].cur # m
  BY <1>1, <1>6 DEF Ids
<1> QED
  BY <1>7 DEF FreshId

LEMMA ReserveKeeps ==
  ASSUME IInv, NEW r \in Runners, reserve(r)
  PROVE  Keeps
<1>1. PICK m : m = run[r].cur
  OBVIOUS
<1>2. /\ UNCHANGED <<msg, relay>> /\ run[r].pc = "reserve" /\ run[r].pc \in Busy /\ m \in Messages
      /\ Fields(run[r]) /\ InHand(run[r])
  BY <1>1 DEF reserve, At, Busy, Looking, IInv, Mem, InHand
<1>3. CASE Present(rows[m]) # {} /\ SendRows(r, rows[m]) /\ rows' = rows
  <2>1. PICK y : Goes(r, y) /\ Mem(y) /\ Lighter(run[r], y) /\ OwnRows(y)
    BY <1>1, <1>2, <1>3, SendRowsFits DEF Looking
  <2> QED
    BY <1>2, <1>3, <2>1, LocalGo
<1>4. CASE FinishAs(r, "FAILED") /\ rows' = rows
  BY <1>2, <1>4, FinishKeeps DEF MsgStatus
<1>5. ASSUME Present(rows[m]) = {}, run[r].last < MaxSeq, rows' = [rows EXCEPT ![m] = Reserved(r, m)],
             SendRows(r, Reserved(r, m))
      PROVE  Keeps
  <2>1. PICK res : res = Reserved(r, m)
    OBVIOUS
  <2>2. rows[m] = NoRows /\ rows[m].id = 0
    BY <1>2, <1>5, NoSuchRows, NoRowsTyped
  <2>3. /\ res \in Reservation /\ res.id # 0 /\ res.seq \in Seqs /\ AllReserved(res)
        /\ \A q \in Runners : run[q].cur = m => run[q].own.id # res.id
    <3>1. FreshId(m) \in Ids \ {0} /\ \A q \in Runners : run[q].cur = m => run[q].own.id # FreshId(m)
      BY <1>2, <2>2, Fresh
    <3>2. run[r].last + 1 \in 0 .. MaxSeq /\ run[r].last + 1 \in Seqs
      BY <1>2, <1>5, ErpSendAssumption DEF Fields, Seqs
    <3> QED
      BY <2>1, <3>1, <3>2 DEF Reserved, Reservation, RowStatus, AllReserved
  <2>4. rows' = [rows EXCEPT ![m] = res] /\ SendRows(r, res)
    BY <1>5, <2>1
  <2>5. WithStatus(res, "REJECTED") = {} /\ WithStatus(res, "RESERVED") # {}
    BY <2>3, ErpSendAssumption DEF AllReserved, WithStatus
  <2>6. PICK y : y = [run[r] EXCEPT !.own = res, !.out = "PROCESSING", !.pc = "insert"]
    OBVIOUS
  <2>7. /\ Goes(r, y) /\ Fields(y) /\ y.pc = "insert" /\ y.cur = m
        /\ y.claimed = run[r].claimed /\ y.own = res
    <3>1. Goes(r, y)
      BY <2>4, <2>5, <2>6, GoesOn DEF SendRows
    <3> QED
      BY <1>1, <1>2, <2>3, <2>6, <3>1 DEF Fields, Steps, MsgStatus
  <2>8. rows \in [Messages -> Reservation] /\ rows' \in [Messages -> Reservation] /\ rows'[m] = res
        /\ \A n \in Messages \ {m} : rows'[n] = rows[n]
    BY <1>2, <2>3, <2>4 DEF IInv, Typed
  <2>9. Mem(y)'
    <3>1. InHand(y)'
      BY <1>1, <1>2, <2>3, <2>7, <2>8 DEF InHand, AllReserved, Looking, Sending, Busy
    <3>2. Fields(y)'
      BY <2>7 DEF Fields
    <3> QED
      BY <2>7, <3>1, <3>2 DEF Mem, Answers
  <2>10. ASSUME NEW n \in Messages PROVE IdKept(n) /\ (Sent(n) => Sent(n)') /\ RowsFit(n)'
    <3>1. CASE n = m
      <4>1. IdKept(n)
        BY <2>3, <2>8, <3>1 DEF IdKept
      <4>2. ~ Sent(n)
        BY <2>2, <3>1 DEF Sent, NoRows, Seqs
      <4>3. RowsFit(n)'
        BY <2>3, <2>8, <3>1 DEF RowsFit, AllReserved
      <4> QED
        BY <4>1, <4>2, <4>3
    <3>2. CASE n # m
      <4>1. rows'[n] = rows[n] /\ RowsFit(n)
        BY <2>8, <3>2 DEF IInv
      <4> QED
        BY <1>2, <4>1 DEF IdKept, Sent, RowsFit, AllReserved, Reached, NoRows
    <3> QED
      BY <3>1, <3>2
  <2>11. ASSUME Exclusive PROVE OwnRows(y)' /\ OneSeq(m)'
    <3>1. \A s \in Seqs : Absent(m, s)
      BY <1>2, <2>2, <2>11 DEF Exclusive, OneSeq
    <3> QED
      BY <1>2, <2>7, <2>8, <3>1 DEF OwnRows, OneSeq, Absent
  <2>12. Lighter(run[r], y)
    BY <1>1, <2>7 DEF Lighter
  <2> QED
    BY <1>1, <1>2, <2>7, <2>8, <2>9, <2>10, <2>11, <2>12, RowGo
<1> QED
  BY <1>1, <1>3, <1>4, <1>5 DEF reserve

LEMMA InsertOnceFits ==
  ASSUME IInv, NEW m \in Messages, NEW seq \in Seqs, InsertOnce(m, seq, Lines)
  PROVE  /\ relay' \in RelayType /\ RelayGrows /\ \A n \in Messages : RelayFits(n)'
         /\ \A n \in Messages \ {m} : relay'[n] = relay[n]
         /\ \A s \in Seqs \ {seq} : relay'[m][s] = relay[m][s]
         /\ Reached(m, seq)'
<1> DEFINE old == relay[m][seq]
           row == [i \in Lines |-> IF i \in Lines /\ old[i] = "absent" THEN "new" ELSE old[i]]
<1>1. relay \in RelayType /\ old \in [Lines -> RelayStatus]
  BY DEF IInv, Typed, RelayType
<1>2. relay' = [relay EXCEPT ![m][seq] = row]
  BY DEF InsertOnce
<1>3. row \in [Lines -> RelayStatus] /\ \A i \in Lines : row[i] # "absent"
  BY <1>1 DEF RelayStatus
<1> HIDE DEF row, old
<1>4. /\ relay' \in RelayType /\ \A n \in Messages \ {m} : relay'[n] = relay[n]
      /\ \A s \in Seqs \ {seq} : relay'[m][s] = relay[m][s]
      /\ relay'[m][seq] = row
  BY <1>1, <1>2, <1>3 DEF RelayType
<1>5. Reached(m, seq)'
  BY <1>3, <1>4 DEF Reached
<1>6. RelayGrows
  BY <1>3, <1>4 DEF RelayGrows
<1>7. ASSUME NEW n \in Messages PROVE RelayFits(n)'
  <2>1. RelayFits(n)
    BY DEF IInv
  <2>2. CASE n = m
    BY <1>4, <1>5, <2>1, <2>2 DEF RelayFits, Absent, Reached
  <2>3. CASE n # m
    BY <1>4, <2>1, <2>3 DEF RelayFits, Absent, Reached
  <2> QED
    BY <2>2, <2>3
<1> QED
  BY <1>4, <1>5, <1>6, <1>7

LEMMA InsertRowsKeeps ==
  ASSUME IInv, NEW r \in Runners, insertRows(r)
  PROVE  Keeps
<1>1. PICK m, seq : m = run[r].cur /\ seq = run[r].own.seq
  OBVIOUS
<1>2. /\ UNCHANGED <<msg, rows>> /\ run[r].pc = "insert" /\ run[r].pc \in Busy /\ m \in Messages
      /\ run[r].pc \in Sending
      /\ Fields(run[r]) /\ InHand(run[r]) /\ AllReserved(run[r].own) /\ seq \in Seqs
  BY <1>1 DEF insertRows, At, Busy, Sending, IInv, Mem, InHand
<1>3. WithStatus(run[r].own, "RESERVED") = Lines
  BY <1>2 DEF AllReserved, WithStatus
<1>4. Exclusive => /\ run[r].own.id = rows[m].id /\ rows[m].id # 0 /\ rows[m].seq = seq
                   /\ \A s \in Seqs \ {seq} : Absent(m, s)
  <2>1. run[r].own.id # 0 /\ (run[r].own.id = rows[m].id => seq = rows[m].seq)
    BY <1>1, <1>2 DEF InHand
  <2>2. Exclusive => run[r].own.id = rows[m].id
    BY <1>1, <1>2 DEF Exclusive, OwnRows
  <2> QED
    BY <1>2, <2>1, <2>2 DEF Exclusive, OneSeq
(* The rows went in; the runner knows (markInserted) or does not. *)
<1>5. ASSUME InsertOnce(m, seq, Lines),
             Goto(r, "markInserted") \/ FinishAs(r, "PENDING")
      PROVE  Keeps
  <2>1. PICK y : /\ Goes(r, y) /\ Fields(y)
                 /\ y.pc = "markInserted" \/ (y.pc = "finish" /\ y.out = "PENDING")
                 /\ y.cur = m /\ y.claimed = run[r].claimed /\ y.own = run[r].own
    <3>1. CASE Goto(r, "markInserted")
      BY <1>1, <3>1, PcTo DEF Steps
    <3>2. CASE FinishAs(r, "PENDING")
      BY <1>1, <3>2, Finishing DEF MsgStatus
    <3> QED
      BY <1>5, <3>1, <3>2
  <2>2. /\ relay' \in RelayType /\ RelayGrows /\ \A n \in Messages : RelayFits(n)'
        /\ \A n \in Messages \ {m} : relay'[n] = relay[n]
        /\ \A s \in Seqs \ {seq} : relay'[m][s] = relay[m][s]
        /\ Reached(m, seq)'
    BY <1>2, <1>5, InsertOnceFits
  <2>3. InHand(y)'
    BY <1>1, <1>2, <2>1, <2>2 DEF InHand, AllReserved, Looking, Sending, Busy
  <2>4. Mem(y)'
    <3>1. Fields(y)'
      BY <2>1 DEF Fields
    <3> QED
      BY <2>1, <2>3, <3>1 DEF Mem, Answers
  <2>5. Exclusive => OwnRows(y)' /\ OneSeq(m)'
    BY <1>2, <1>4, <2>1, <2>2 DEF OwnRows, OneSeq, Absent
  <2>6. Lighter(run[r], y)
    BY <1>1, <2>1 DEF Lighter
  <2> QED
    BY <1>1, <1>2, <2>1, <2>2, <2>4, <2>5, <2>6, RelayGo
(* The relay refuses a row: none of the rows is there. *)
<1>6. ASSUME NEW i \in Lines, relay[m][seq][i] = "absent", Goto(r, "discard"), relay' = relay
      PROVE  Keeps
  <2>1. PICK y : /\ Goes(r, y) /\ Fields(y) /\ y.pc = "discard"
                 /\ y.cur = m /\ y.claimed = run[r].claimed /\ y.own = run[r].own
    BY <1>1, <1>6, PcTo DEF Steps
  <2>2. InHand(y)
    BY <1>1, <1>2, <2>1 DEF InHand, Looking, Sending, Busy
  <2>3. Mem(y) /\ Lighter(run[r], y)
    BY <1>1, <2>1, <2>2 DEF Mem, Answers, Lighter
  <2>4. Absent(m, seq)
    BY <1>2, <1>6 DEF IInv, RelayFits, Reached
  <2>5. Exclusive => OwnRows(y)
    BY <1>4, <2>1, <2>4 DEF OwnRows
  <2> QED
    BY <1>2, <1>6, <2>1, <2>3, <2>5, LocalGo
<1>7. CASE relay' = relay /\ FinishAs(r, "PENDING")
  BY <1>2, <1>7, FinishKeeps DEF MsgStatus
<1> QED
  BY <1>1, <1>3, <1>5, <1>6, <1>7 DEF insertRows, postpone

(* A step that says of rows that they are sent. *)
LEMMA SetRowsIs ==
  ASSUME IInv, NEW m \in Messages, NEW lines \in SUBSET Lines, NEW s \in RowStatus, SetRows(m, lines, s)
  PROVE  /\ rows' \in [Messages -> Reservation] /\ rows'[m].id = rows[m].id /\ rows'[m].seq = rows[m].seq
         /\ \A i \in Lines : rows'[m].status[i] = IF i \in lines THEN s ELSE rows[m].status[i]
         /\ \A n \in Messages \ {m} : rows'[n] = rows[n]
<1> DEFINE old == rows[m]
           status == [i \in Lines |-> IF i \in lines THEN s ELSE old.status[i]]
           res == [old EXCEPT !.status = status]
<1>1. rows \in [Messages -> Reservation] /\ old \in Reservation
  BY DEF IInv, Typed
<1>2. rows' = [rows EXCEPT ![m] = res]
  BY DEF SetRows
<1> HIDE DEF old
<1>3. status \in [Lines -> RowStatus]
  BY <1>1 DEF Reservation
<1>4. \A i \in Lines : status[i] = IF i \in lines THEN s ELSE old.status[i]
  OBVIOUS
<1> HIDE DEF status
<1>5. res \in Reservation /\ res.id = old.id /\ res.seq = old.seq /\ res.status = status
  BY <1>1, <1>3 DEF Reservation
<1> HIDE DEF res
<1> QED
  BY <1>1, <1>2, <1>4, <1>5 DEF old

(* The rows are sent after the step: r finishes the message as PROCESSING. *)
LEMMA MarkedKeeps ==
  ASSUME IInv, NEW r \in Runners, NEW m \in Messages, m = run[r].cur, run[r].pc \in Busy,
         UNCHANGED <<msg, relay>>, FinishAs(r, "PROCESSING"), rows' \in [Messages -> Reservation],
         rows'[m].id = rows[m].id, rows'[m].seq = rows[m].seq, rows[m].id # 0, Sent(m)',
         \A n \in Messages \ {m} : rows'[n] = rows[n]
  PROVE  Keeps
<1>1. PICK y : /\ Goes(r, y) /\ Fields(y) /\ y.pc = "finish" /\ y.out = "PROCESSING"
               /\ y.cur = m /\ y.claimed = run[r].claimed /\ y.own = run[r].own
  BY Finishing DEF MsgStatus
<1>2. Mem(y)'
  <2>1. InHand(run[r])
    BY DEF IInv, Mem
  <2>2. InHand(y)'
    BY <1>1, <2>1 DEF InHand, Looking, Sending, Busy
  <2>3. Fields(y)'
    BY <1>1 DEF Fields
  <2> QED
    BY <1>1, <2>2, <2>3 DEF Mem, Answers
<1>3. ASSUME NEW n \in Messages PROVE IdKept(n) /\ (Sent(n) => Sent(n)') /\ RowsFit(n)'
  <2>1. CASE n = m
    BY <2>1 DEF IdKept, RowsFit, Sent
  <2>2. CASE n # m
    <3>1. rows'[n] = rows[n] /\ RowsFit(n)
      BY <2>2 DEF IInv
    <3> QED
      BY <3>1 DEF IdKept, Sent, RowsFit, AllReserved, Reached, NoRows
  <2> QED
    BY <2>1, <2>2
<1>4. Exclusive => OwnRows(y)' /\ OneSeq(m)'
  BY <1>1 DEF OwnRows, Sending, Exclusive, OneSeq, Absent
<1>5. Lighter(run[r], y)
  BY <1>1 DEF Lighter
<1> QED
  BY <1>1, <1>2, <1>3, <1>4, <1>5, RowGo

LEMMA MarkInsertedKeeps ==
  ASSUME IInv, NEW r \in Runners, markInserted(r)
  PROVE  Keeps
<1>1. PICK m, own : m = run[r].cur /\ own = run[r].own
  OBVIOUS
<1>2. /\ UNCHANGED <<msg, relay>> /\ run[r].pc \in Busy /\ m \in Messages
      /\ AllReserved(own) /\ own.seq \in Seqs /\ Reached(m, own.seq) /\ own.id # 0
      /\ (own.id = rows[m].id => own.seq = rows[m].seq)
  BY <1>1 DEF markInserted, At, Busy, Sending, IInv, Mem, InHand
<1>3. WithStatus(own, "RESERVED") = Lines
  BY <1>2 DEF AllReserved, WithStatus
<1>4. CASE Updatable(m, own.id, Lines) /\ SetRows(m, Lines, "INSERTED") /\ FinishAs(r, "PROCESSING")
  <2>1. own.id = rows[m].id
    BY <1>4, ErpSendAssumption DEF Updatable
  <2>2. /\ rows' \in [Messages -> Reservation] /\ rows'[m].id = rows[m].id /\ rows'[m].seq = rows[m].seq
        /\ \A i \in Lines : rows'[m].status[i] = "INSERTED"
        /\ \A n \in Messages \ {m} : rows'[n] = rows[n]
    BY <1>2, <1>4, SetRowsIs DEF RowStatus
  <2>3. Sent(m)'
    BY <1>2, <2>1, <2>2 DEF Sent, Reached, Away
  <2> QED
    BY <1>1, <1>2, <1>4, <2>1, <2>2, <2>3, MarkedKeeps
<1>5. CASE EndTick(r) /\ rows' = rows
  BY <1>2, <1>5, EndTickEnds, EndsKeeps
<1> QED
  BY <1>1, <1>3, <1>4, <1>5 DEF markInserted

(* Rows that are sent are rows. *)
LEMMA SentIds ==
  ASSUME IInv, NEW m \in Messages, Sent(m)
  PROVE  rows[m].id # 0 /\ rows[m].seq \in Seqs /\ rows[m] # NoRows /\ Present(rows[m]) # {}
<1>1. PICK i : i \in Lines
  BY ErpSendAssumption
<1>2. rows[m].seq \in Seqs /\ rows[m].status[i] \in Away
  BY <1>1 DEF Sent
<1>3. rows[m] # NoRows
  BY <1>2 DEF NoRows, Seqs
<1>4. i \in Present(rows[m])
  BY <1>1, <1>2 DEF Present, Away
<1> QED
  BY <1>2, <1>3, <1>4 DEF IInv, RowsFit

LEMMA MarkRewrittenKeeps ==
  ASSUME IInv, NEW r \in Runners, markRewritten(r)
  PROVE  Keeps
<1>1. PICK m, lines : m = run[r].cur /\ lines = run[r].counted
  OBVIOUS
<1>2. UNCHANGED <<msg, relay>> /\ run[r].pc \in Busy /\ m \in Messages /\ Sent(m)
  BY <1>1 DEF markRewritten, At, Busy, IInv, Mem, InHand
<1>3. lines \in SUBSET Lines
  BY <1>1 DEF IInv, Mem, Fields
<1>4. CASE SetRows(m, lines, "INSERTED") /\ FinishAs(r, "PROCESSING")
  <2>1. /\ rows' \in [Messages -> Reservation] /\ rows'[m].id = rows[m].id /\ rows'[m].seq = rows[m].seq
        /\ \A i \in Lines : rows'[m].status[i] = IF i \in lines THEN "INSERTED" ELSE rows[m].status[i]
        /\ \A n \in Messages \ {m} : rows'[n] = rows[n]
    BY <1>2, <1>3, <1>4, SetRowsIs DEF RowStatus
  <2>2. Sent(m)' /\ rows[m].id # 0
    BY <1>2, <2>1, SentIds DEF Sent, Reached, Away
  <2> QED
    BY <1>1, <1>2, <1>4, <2>1, <2>2, MarkedKeeps
<1>5. CASE EndTick(r) /\ rows' = rows
  BY <1>2, <1>5, EndTickEnds, EndsKeeps
<1> QED
  BY <1>1, <1>4, <1>5 DEF markRewritten

LEMMA DiscardKeeps ==
  ASSUME IInv, NEW r \in Runners, discard(r)
  PROVE  Keeps
<1>1. PICK m : m = run[r].cur
  OBVIOUS
<1>2. /\ UNCHANGED <<msg, relay>> /\ run[r].pc = "discard" /\ run[r].pc \in Busy /\ m \in Messages
      /\ run[r].pc \in Sending /\ InHand(run[r]) /\ FinishAs(r, "FAILED") /\ run[r].own.id # 0
  BY <1>1 DEF discard, At, Busy, Sending, IInv, Mem, InHand
<1>3. ASSUME rows' = [rows EXCEPT ![m] = NoRows], Present(rows[m]) \ WithStatus(rows[m], "RESERVED") = {}
      PROVE  Keeps
  <2>1. PICK y : /\ Goes(r, y) /\ Fields(y) /\ y.pc = "finish" /\ y.out = "FAILED"
                 /\ y.cur = m /\ y.claimed = run[r].claimed /\ y.own = run[r].own
    BY <1>1, <1>2, Finishing DEF MsgStatus
  <2>2. /\ rows \in [Messages -> Reservation] /\ rows' \in [Messages -> Reservation]
        /\ rows'[m] = NoRows /\ rows'[m].id = 0 /\ \A n \in Messages \ {m} : rows'[n] = rows[n]
    <3> HIDE DEF NoRows
    <3> QED
      BY <1>2, <1>3, NoRowsTyped DEF IInv, Typed
  <2>3. ~ Sent(m)
    BY <1>3, ErpSendAssumption DEF Sent, Present, WithStatus, Away
  <2>4. Mem(y)'
    <3>1. InHand(y)'
      BY <1>1, <1>2, <2>1, <2>2 DEF InHand, Looking, Sending, Busy
    <3>2. Fields(y)'
      BY <2>1 DEF Fields
    <3> QED
      BY <2>1, <3>1, <3>2 DEF Mem, Answers
  <2>5. ASSUME NEW n \in Messages PROVE IdKept(n) /\ (Sent(n) => Sent(n)') /\ RowsFit(n)'
    <3>1. CASE n = m
      BY <2>2, <2>3, <3>1 DEF IdKept, RowsFit, NoRows
    <3>2. CASE n # m
      <4>1. rows'[n] = rows[n] /\ RowsFit(n)
        BY <2>2, <3>2 DEF IInv
      <4> QED
        BY <1>2, <4>1 DEF IdKept, Sent, RowsFit, AllReserved, Reached, NoRows
    <3> QED
      BY <3>1, <3>2
  <2>6. ASSUME Exclusive PROVE OwnRows(y)' /\ OneSeq(m)'
    <3>1. \A s \in Seqs : Absent(m, s)
      BY <1>1, <1>2, <2>6 DEF Exclusive, OwnRows
    <3> QED
      BY <1>2, <2>1, <3>1 DEF OwnRows, Sending, OneSeq, Absent
  <2>7. Lighter(run[r], y)
    BY <1>1, <2>1 DEF Lighter
  <2> HIDE DEF NoRows
  <2>8. \A n \in Messages \ {m} : rows'[n].id = rows[n].id /\ rows'[n].seq = rows[n].seq
    BY <2>2
  <2> QED
    BY <1>1, <1>2, <2>1, <2>2, <2>4, <2>5, <2>6, <2>7, <2>8, RowGo
(* Rows that are not all reserved are all sent: nothing is taken away. *)
<1>4. ASSUME SetRows(m, WithStatus(rows[m], "RESERVED"), "NONE"),
             Present(rows[m]) \ WithStatus(rows[m], "RESERVED") # {}
      PROVE  Keeps
  <2>1. Sent(m)
    BY <1>2, <1>4, SomeRows DEF AllReserved, Present, WithStatus
  <2>2. WithStatus(rows[m], "RESERVED") = {}
    BY <2>1 DEF Sent, WithStatus, Away
  <2>3. /\ rows' \in [Messages -> Reservation] /\ rows'[m].id = rows[m].id /\ rows'[m].seq = rows[m].seq
        /\ \A i \in Lines : rows'[m].status[i] = rows[m].status[i]
        /\ \A n \in Messages \ {m} : rows'[n] = rows[n]
    <3>1. SetRows(m, {}, "NONE")
      BY <1>4, <2>2
    <3> QED
      BY <1>2, <3>1, SetRowsIs DEF RowStatus
  <2>4. rows[m] \in Reservation /\ rows'[m] \in Reservation
    BY <1>2, <2>3 DEF IInv, Typed
  <2>5. rows'[m].status = rows[m].status
    BY <2>3, <2>4 DEF Reservation
  <2>6. rows'[m] = rows[m]
    BY <2>3, <2>4, <2>5 DEF Reservation
  <2>7. rows' = rows
    BY <1>2, <2>3, <2>6 DEF IInv, Typed
  <2> QED
    BY <1>2, <2>7, FinishKeeps DEF MsgStatus
<1> QED
  BY <1>1, <1>3, <1>4 DEF discard

(* No row comes or goes in the relay. *)
SameShape ==
  /\ relay' \in RelayType
  /\ \A m \in Messages : \A s \in Seqs : \A i \in Lines :
       relay'[m][s][i] = "absent" <=> relay[m][s][i] = "absent"

LEMMA ShapeKept ==
  ASSUME IInv, SameShape
  PROVE  /\ relay' \in RelayType /\ RelayGrows /\ \A n \in Messages : RelayFits(n)'
         /\ \A n \in Messages : \A s \in Seqs : Absent(n, s)' <=> Absent(n, s)
<1>1. relay' \in RelayType /\ RelayGrows
  BY DEF SameShape, RelayGrows
<1>2. ASSUME NEW n \in Messages, NEW s \in Seqs
      PROVE  (Absent(n, s)' <=> Absent(n, s)) /\ (Reached(n, s)' <=> Reached(n, s))
  BY DEF SameShape, Absent, Reached
<1> QED
  BY <1>1, <1>2 DEF IInv, RelayFits

LEMMA UpdateUntouchedShape ==
  ASSUME IInv, NEW m \in Messages, NEW seq \in Seqs, NEW lines, UpdateUntouched(m, seq, lines)
  PROVE  SameShape /\ \A n \in Messages \ {m} : relay'[n] = relay[n]
<1> DEFINE old == relay[m][seq]
           row == [i \in Lines |-> IF i \in Untouched(m, seq, lines) THEN "new" ELSE old[i]]
<1>1. relay \in RelayType /\ old \in [Lines -> RelayStatus]
  BY DEF IInv, Typed, RelayType
<1>2. relay' = [relay EXCEPT ![m][seq] = row]
  BY DEF UpdateUntouched
<1>3. row \in [Lines -> RelayStatus] /\ \A i \in Lines : row[i] = "absent" <=> old[i] = "absent"
  BY <1>1 DEF RelayStatus, Untouched
<1> HIDE DEF row
<1>4. /\ relay' \in RelayType /\ \A n \in Messages \ {m} : relay'[n] = relay[n]
      /\ \A s \in Seqs \ {seq} : relay'[m][s] = relay[m][s]
      /\ relay'[m][seq] = row
  BY <1>1, <1>2, <1>3 DEF RelayType
<1> QED
  BY <1>3, <1>4 DEF SameShape

LEMMA RewriteKeeps ==
  ASSUME IInv, NEW r \in Runners, rewrite(r)
  PROVE  Keeps
<1>1. PICK m, seq, lines :
        m = run[r].cur /\ seq = run[r].own.seq /\ lines = WithStatus(run[r].own, "REJECTED")
  OBVIOUS
<1>2. /\ UNCHANGED <<msg, rows>> /\ run[r].pc = "rewrite" /\ run[r].pc \in Busy /\ m \in Messages
      /\ Fields(run[r]) /\ InHand(run[r]) /\ Sent(m)
  BY <1>1 DEF rewrite, At, Busy, IInv, Mem, InHand
<1>3. ASSUME UpdateUntouched(m, seq, lines), NEW y, Goes(r, y), Fields(y),
             y.pc = "markRewritten" \/ (y.pc = "finish" /\ y.out = "PENDING"),
             y.cur = m, y.claimed = run[r].claimed, y.own = run[r].own
      PROVE  Keeps
  <2>1. /\ relay' \in RelayType /\ RelayGrows /\ \A n \in Messages : RelayFits(n)'
        /\ \A n \in Messages : \A s \in Seqs : Absent(n, s)' <=> Absent(n, s)
        /\ \A n \in Messages \ {m} : relay'[n] = relay[n]
    <3>1. CASE seq \in Seqs
      BY <1>2, <1>3, <3>1, UpdateUntouchedShape, ShapeKept
    <3>2. CASE seq \notin Seqs
      <4>1. relay' = relay
        BY <1>2, <1>3, <3>2 DEF UpdateUntouched, IInv, Typed, RelayType
      <4>2. SameShape
        BY <4>1 DEF SameShape, IInv, Typed
      <4> QED
        BY <4>1, <4>2, ShapeKept
    <3> QED
      BY <3>1, <3>2
  <2>2. Sent(m)'
    BY <1>2, <2>1, GrowsReached DEF Sent
  <2>3. InHand(y)'
    BY <1>1, <1>2, <1>3, <2>2 DEF InHand, Looking, Sending, Busy
  <2>4. Mem(y)'
    <3>1. Fields(y)'
      BY <1>3 DEF Fields
    <3> QED
      BY <1>3, <2>3, <3>1 DEF Mem, Answers
  <2>5. Exclusive => OwnRows(y)' /\ OneSeq(m)'
    BY <1>2, <1>3, <2>1 DEF OwnRows, Sending, Exclusive, OneSeq
  <2>6. Lighter(run[r], y)
    BY <1>1, <1>3 DEF Lighter
  <2> QED
    BY <1>1, <1>2, <1>3, <2>1, <2>4, <2>5, <2>6, RelayGo
<1>4. ASSUME UpdateUntouched(m, seq, lines),
             run' = [run EXCEPT ![r].counted = Untouched(m, seq, lines), ![r].pc = "markRewritten"]
      PROVE  Keeps
  <2>1. PICK some : some = Untouched(m, seq, lines)
    OBVIOUS
  <2>2. some \in SUBSET Lines
    BY <1>1, <2>1 DEF Untouched, WithStatus
  <2>3. PICK y : y = [run[r] EXCEPT !.counted = some, !.pc = "markRewritten"]
    OBVIOUS
  <2>4. Goes(r, y)
    BY <1>4, <2>1, <2>3, GoesOn
  <2>5. /\ Fields(y) /\ y.pc = "markRewritten" /\ y.cur = m /\ y.claimed = run[r].claimed
        /\ y.own = run[r].own
    BY <1>1, <1>2, <2>2, <2>3 DEF Fields, Steps
  <2> QED
    BY <1>3, <1>4, <2>4, <2>5
<1>5. CASE relay' = relay /\ (FinishAs(r, "FAILED") \/ FinishAs(r, "PENDING"))
  BY <1>2, <1>5, FinishKeeps DEF MsgStatus
<1>6. CASE UpdateUntouched(m, seq, lines) /\ FinishAs(r, "PENDING")
  <2>1. PICK y : /\ Goes(r, y) /\ Fields(y) /\ y.pc = "finish" /\ y.out = "PENDING"
                 /\ y.cur = m /\ y.claimed = run[r].claimed /\ y.own = run[r].own
    BY <1>1, <1>6, Finishing DEF MsgStatus
  <2> QED
    BY <1>3, <1>6, <2>1
<1> QED
  BY <1>1, <1>4, <1>5, <1>6 DEF rewrite, postpone

(* The ERP. *)
LEMMA ErpKeeps ==
  ASSUME IInv, NEW m \in Messages, NEW s \in Seqs, NEW i \in Lines,
         erpApplies(m, s, i) \/ erpRejects(m, s, i) \/ erpClears(m, s, i)
  PROVE  Keeps
<1>1. UNCHANGED <<msg, rows, run>>
  BY DEF erpApplies, erpRejects, erpClears, ErpStep
<1>2. PICK to \in {"applied", "error", "new"} :
        relay[m][s][i] # "absent" /\ relay' = [relay EXCEPT ![m][s][i] = to]
  BY DEF erpApplies, erpRejects, erpClears, ErpStep
<1>3. SameShape
  BY <1>2 DEF SameShape, IInv, Typed, RelayType, RelayStatus
<1>4. /\ relay' \in RelayType /\ RelayGrows /\ \A n \in Messages : RelayFits(n)'
      /\ \A n \in Messages : \A t \in Seqs : Absent(n, t)' <=> Absent(n, t)
  BY <1>3, ShapeKept
<1>5. IInv'
  BY <1>1, <1>4, RelayStep DEF RunOK, IInv, Typed
<1>6. ASSUME Exclusive PROVE Exclusive'
  <2>1. ASSUME NEW q \in Runners PROVE Locked(q, run[q])' /\ OwnRows(run[q])'
    <3>1. run[q].pc \in Sending => run[q].cur \in Messages
      BY DEF IInv, Mem, InHand, Busy
    <3>2. Locked(q, run[q])'
      BY <1>1, <1>6 DEF Exclusive, Locked
    <3>3. OwnRows(run[q])'
      BY <1>1, <1>4, <1>6, <3>1 DEF Exclusive, OwnRows
    <3> QED
      BY <3>2, <3>3
  <2>2. \A n \in Messages : OneSeq(n)'
    BY <1>1, <1>4, <1>6 DEF Exclusive, OneSeq
  <2> QED
    BY <2>1, <2>2 DEF Exclusive
<1> QED
  BY <1>5, <1>6 DEF Keeps
-----------------------------------------------------------------------------
(* Reading the answers. *)

LEMMA WaitingKeeps ==
  ASSUME IInv, NEW r \in Runners, waiting(r)
  PROVE  Keeps
<1>1. PICK S : /\ S \subseteq WaitingRows
               /\ run' = [run EXCEPT ![r].pc = "replies", ![r].seen = S]
  BY DEF waiting
<1>2. ASSUME NEW w \in S PROVE w.m \in Messages /\ Sent(w.m) /\ w.status \in Away
  <2>1. PICK m \in Messages, i \in Lines :
          /\ rows[m].status[i] \in {"INSERTED", "REJECTED"}
          /\ w = [m |-> m, i |-> i, id |-> rows[m].id, seq |-> rows[m].seq, status |-> rows[m].status[i]]
    BY <1>1 DEF WaitingRows, RowsWith
  <2>2. i \in Present(rows[m]) /\ ~ AllReserved(rows[m])
    BY <2>1 DEF Present, AllReserved
  <2> QED
    BY <2>1, <2>2, SomeRows DEF Away
<1>3. PICK y : y = [run[r] EXCEPT !.pc = "replies", !.seen = S]
  OBVIOUS
<1>4. Goes(r, y)
  BY <1>1, <1>3, GoesOn
<1>5. Fields(run[r]) /\ InHand(run[r]) /\ run[r].pc = "waiting" /\ UNCHANGED <<msg, rows, relay>>
  BY DEF IInv, Mem, waiting, At
<1>6. /\ Fields(y) /\ y.pc = "replies" /\ y.seen = S
      /\ y.cur = run[r].cur /\ y.claimed = run[r].claimed /\ y.own = run[r].own
  BY <1>3, <1>5 DEF Fields, Steps
<1>7. InHand(y) /\ Lighter(run[r], y) /\ y.pc \notin Sending
  BY <1>5, <1>6 DEF InHand, Lighter, Looking, Sending, Busy
<1>8. Answers(y)
  BY <1>2, <1>6 DEF Answers
<1> QED
  BY <1>4, <1>5, <1>6, <1>7, <1>8, LocalGo DEF Mem

LEMMA RepliesKeeps ==
  ASSUME IInv, NEW r \in Runners, replies(r)
  PROVE  Keeps
<1>1. /\ UNCHANGED <<msg, rows, relay>> /\ Fields(run[r]) /\ InHand(run[r]) /\ run[r].pc = "replies"
      /\ \A w \in run[r].seen : w.m \in Messages /\ Sent(w.m) /\ w.status \in Away
  BY DEF replies, At, IInv, Mem, Answers
<1>2. CASE EndTick(r)
  BY <1>1, <1>2, EndTickEnds, EndsKeeps
<1>3. ASSUME NEW S \in SUBSET run[r].seen,
             run' = [run EXCEPT ![r].pc = "record", ![r].seen = {},
                       ![r].changed = {[m |-> w.m, i |-> w.i, id |-> w.id, status |-> Answer(w)] : w \in S}]
      PROVE  Keeps
  <2>1. PICK C : C = {[m |-> w.m, i |-> w.i, id |-> w.id, status |-> Answer(w)] : w \in S}
    OBVIOUS
  <2>2. ASSUME NEW c \in C PROVE c.m \in Messages /\ Sent(c.m) /\ c.status \in Away
    <3>1. PICK w \in S : c = [m |-> w.m, i |-> w.i, id |-> w.id, status |-> Answer(w)]
      BY <2>1
    <3>2. Answer(w) \in Away
      BY <1>1 DEF Answer, Away
    <3> QED
      BY <1>1, <3>1, <3>2
  <2>3. PICK y : y = [run[r] EXCEPT !.pc = "record", !.seen = {}, !.changed = C]
    OBVIOUS
  <2>4. Goes(r, y)
    BY <1>3, <2>1, <2>3, GoesOn
  <2>5. /\ Fields(y) /\ y.pc = "record" /\ y.changed = C
        /\ y.cur = run[r].cur /\ y.claimed = run[r].claimed /\ y.own = run[r].own
    BY <1>1, <2>3 DEF Fields, Steps
  <2>6. InHand(y) /\ Lighter(run[r], y) /\ y.pc \notin Sending
    BY <1>1, <2>5 DEF InHand, Lighter, Looking, Sending, Busy
  <2>7. Answers(y)
    BY <2>2, <2>5 DEF Answers
  <2> QED
    BY <1>1, <2>4, <2>5, <2>6, <2>7, LocalGo DEF Mem
<1>4. {w \in run[r].seen : Answer(w) # w.status} \in SUBSET run[r].seen
  OBVIOUS
<1> QED
  BY <1>2, <1>3, <1>4 DEF replies

LEMMA RecordRepliesKeeps ==
  ASSUME IInv, NEW r \in Runners, recordReplies(r)
  PROVE  Keeps
<1>1. PICK C : C = run[r].changed
  OBVIOUS
<1>2. /\ UNCHANGED <<msg, relay>> /\ Fields(run[r]) /\ InHand(run[r]) /\ run[r].pc = "record"
      /\ \A c \in C : c.m \in Messages /\ Sent(c.m) /\ c.status \in Away
  BY <1>1 DEF recordReplies, At, IInv, Mem, Answers
<1>3. CASE EndTick(r) /\ rows' = rows
  BY <1>2, <1>3, EndTickEnds, EndsKeeps
<1> DEFINE Of(m, i) == {x \in C : x.m = m /\ x.i = i}
           new(m, i) == IF Of(m, i) = {} THEN rows[m].status[i] ELSE (CHOOSE x \in Of(m, i) : TRUE).status
<1>4. ASSUME rows' = [m \in Messages |-> [rows[m] EXCEPT !.status = [i \in Lines |-> new(m, i)]]],
             run' = [run EXCEPT ![r].pc = "settle", ![r].changed = {}, ![r].todo = {c.m : c \in C}]
      PROVE  Keeps
  <2>1. ASSUME NEW m \in Messages, NEW i \in Lines
        PROVE  /\ new(m, i) \in RowStatus
               /\ Sent(m) => new(m, i) \in Away
               /\ (\A c \in C : c.m # m) => new(m, i) = rows[m].status[i]
    <3>1. CASE Of(m, i) = {}
      BY <3>1 DEF IInv, Typed, Reservation, Sent
    <3>2. CASE Of(m, i) # {}
      <4>1. PICK x \in Of(m, i) : x = CHOOSE z \in Of(m, i) : TRUE
        BY <3>2
      <4>2. x \in C /\ x.m = m /\ new(m, i) = x.status
        BY <3>2, <4>1
      <4> QED
        BY <1>2, <4>2 DEF Away, RowStatus
    <3> QED
      BY <3>1, <3>2
  <2> HIDE DEF new
  <2>2. ASSUME NEW m \in Messages
        PROVE  /\ rows'[m] \in Reservation /\ rows'[m].id = rows[m].id /\ rows'[m].seq = rows[m].seq
               /\ \A i \in Lines : rows'[m].status[i] = new(m, i)
    <3>1. PICK status : status = [i \in Lines |-> new(m, i)]
      OBVIOUS
    <3>2. rows'[m] = [rows[m] EXCEPT !.status = status]
      BY <1>4, <3>1
    <3>3. status \in [Lines -> RowStatus] /\ \A i \in Lines : status[i] = new(m, i)
      BY <2>1, <3>1
    <3>4. rows[m] \in Reservation
      BY DEF IInv, Typed
    <3> QED
      BY <3>2, <3>3, <3>4 DEF Reservation
  <2>3. ASSUME NEW m \in Messages PROVE IdKept(m) /\ (Sent(m) => Sent(m)') /\ RowsFit(m)'
    <3>1. IdKept(m)
      BY <2>2 DEF IdKept
    <3>2. Sent(m) => Sent(m)'
      BY <1>2, <2>1, <2>2 DEF Sent, Reached
    <3>3. RowsFit(m)'
      <4>1. CASE Sent(m)
        BY <2>2, <3>2, <4>1, SentIds DEF RowsFit
      <4>2. CASE ~ Sent(m)
        <5>1. \A i \in Lines : rows'[m].status[i] = rows[m].status[i]
          BY <1>2, <2>1, <2>2, <4>2
        <5>2. rows[m] \in Reservation /\ rows'[m] \in Reservation
          BY <2>2 DEF IInv, Typed
        <5>3. rows'[m].status = rows[m].status
          BY <5>1, <5>2 DEF Reservation
        <5>4. rows'[m] = rows[m]
          BY <2>2, <5>2, <5>3 DEF Reservation
        <5> QED
          BY <4>2, <5>4 DEF IInv, RowsFit, AllReserved, NoRows
      <4> QED
        BY <4>1, <4>2
    <3> QED
      BY <3>1, <3>2, <3>3
  <2>4. PICK T : T = {c.m : c \in C}
    OBVIOUS
  <2>5. T \in SUBSET Messages /\ \A n \in T : Sent(n)'
    BY <1>2, <2>3, <2>4
  <2>6. PICK y : y = [run[r] EXCEPT !.pc = "settle", !.changed = {}, !.todo = T]
    OBVIOUS
  <2>7. Goes(r, y)
    BY <1>4, <2>4, <2>6, GoesOn
  <2>8. /\ Fields(y) /\ y.pc = "settle" /\ y.todo = T
        /\ y.cur = run[r].cur /\ y.claimed = run[r].claimed /\ y.own = run[r].own
    BY <1>2, <2>5, <2>6 DEF Fields, Steps
  <2>9. run[r].cur \notin Messages
    BY <1>2 DEF InHand, Busy, Looking, Sending
  <2>10. Mem(y)'
    <3>1. InHand(y)'
      BY <1>2, <2>8, <2>9 DEF InHand, Looking, Sending, Busy
    <3>2. Fields(y)'
      BY <2>8 DEF Fields
    <3>3. Answers(y)'
      BY <2>5, <2>8 DEF Answers
    <3> QED
      BY <3>1, <3>2, <3>3 DEF Mem
  <2>11. Lighter(run[r], y) /\ OwnRows(y)'
    BY <2>8 DEF Lighter, OwnRows, Sending
  <2>12. rows' \in [Messages -> Reservation]
    BY <1>4, <2>2
  <2>13. PICK m : m = run[r].cur /\ m \notin Messages
    BY <2>9
  <2> QED
    BY <1>2, <2>2, <2>3, <2>7, <2>10, <2>11, <2>12, <2>13, RowGo
<1> QED
  BY <1>1, <1>3, <1>4 DEF recordReplies
-----------------------------------------------------------------------------
(* Steps that write messages. *)

LEMMA MsgFitsStill ==
  ASSUME IInv, UNCHANGED <<rows, relay>>, NEW m \in Messages,
         \/ msg'[m] = msg[m]
         \/ msg'[m].lockedBy # NoRunner /\ msg'[m].status = "PROCESSING"
         \/ msg'[m].lockedBy = NoRunner /\ (msg'[m].status = "PROCESSING" => Sent(m))
  PROVE  MsgFits(m)'
<1>1. MsgFits(m)
  BY DEF IInv
<1> QED
  BY <1>1 DEF MsgFits, Sent, Reached

LEMMA LockedIsProcessing ==
  ASSUME IInv, NEW m \in Messages, msg[m].lockedBy # NoRunner
  PROVE  msg[m].status = "PROCESSING"
BY DEF IInv, MsgFits

(* A message that is claimed or released. *)
Passed(x, s, who) == [x EXCEPT !.status = s, !.lockedBy = who, !.stale = FALSE]

LEMMA ReleaseOrphansKeeps ==
  ASSUME IInv, NEW r \in Runners, releaseOrphans(r)
  PROVE  Keeps
<1>1. UNCHANGED <<rows, relay>> /\ run[r].pc \in Between
  BY DEF releaseOrphans, At, Between
<1>2. PICK y : Goes(r, y) /\ Mem(y) /\ y.pc = "claim" /\ Lighter(run[r], y)
  BY <1>1, Moves DEF releaseOrphans, Between
<1>3. ASSUME NEW m \in Messages
      PROVE  /\ msg'[m] \in MsgType
             /\ \/ msg'[m] = msg[m]
                \/ msg[m].stale /\ msg'[m].lockedBy = NoRunner /\ msg'[m].status = "PENDING"
  <2>1. msg[m] \in MsgType
    BY DEF IInv, Typed
  <2>2. CASE msg'[m] = msg[m]
    BY <2>1, <2>2
  <2>3. CASE msg[m].stale
             /\ msg'[m] = Passed(msg[m], "PENDING", NoRunner)
    BY <2>1, <2>3 DEF Passed, MsgType, MsgStatus
  <2> QED
    BY <2>2, <2>3 DEF releaseOrphans, Passed
<1>4. msg' \in [Messages -> MsgType]
  BY <1>3 DEF releaseOrphans
<1>5. \A m \in Messages : MsgFits(m)'
  BY <1>1, <1>3, MsgFitsStill
<1>6. \A m \in Messages : ~ msg[m].stale => msg'[m] = msg[m]
  BY <1>3
<1>7. Exclusive => Locked(r, y)'
  BY <1>2, <1>6 DEF Exclusive, Locked, Lighter
<1>8. y.pc \notin Sending
  BY <1>2 DEF Sending
<1> QED
  BY <1>1, <1>2, <1>4, <1>5, <1>6, <1>7, <1>8, MsgGo

LEMMA ClaimKeeps ==
  ASSUME IInv, NEW r \in Runners, claim(r)
  PROVE  Keeps
<1>1. PICK S \in SUBSET Claimable :
        /\ msg' = [m \in Messages |->
                     IF m \in S THEN [msg[m] EXCEPT !.status = "PROCESSING", !.lockedBy = r, !.stale = FALSE]
                     ELSE msg[m]]
        /\ run' = [run EXCEPT ![r].claimed = S, ![r].full = Cardinality(S) = BATCH_SIZE,
                              ![r].pc = IF S = {} THEN "goReplies" ELSE "go"]
  BY DEF claim
<1>2. /\ UNCHANGED <<rows, relay>> /\ Fields(run[r]) /\ InHand(run[r]) /\ run[r].pc = "claim"
      /\ run[r].cur \notin Messages
  BY DEF claim, At, IInv, Mem, InHand, Busy, Looking, Sending
<1>3. S \in SUBSET Messages /\ \A m \in S : msg[m].status = "PENDING"
  BY DEF Claimable
<1>4. PICK b, step : b = (Cardinality(S) = BATCH_SIZE) /\ step = (IF S = {} THEN "goReplies" ELSE "go")
  OBVIOUS
<1>5. b \in BOOLEAN /\ step \in {"go", "goReplies"}
  BY <1>4
<1>6. PICK y : y = [run[r] EXCEPT !.claimed = S, !.full = b, !.pc = step]
  OBVIOUS
<1>7. Goes(r, y)
  BY <1>1, <1>4, <1>6, GoesOn
<1>8. Fields(y) /\ y.pc = step /\ y.cur = run[r].cur /\ y.claimed = S /\ y.own = run[r].own
  BY <1>2, <1>3, <1>5, <1>6 DEF Fields, Steps
<1>9. InHand(y) /\ y.pc \notin Sending
  BY <1>2, <1>3, <1>5, <1>8 DEF InHand, Looking, Sending, Busy
<1>10. Mem(y)
  BY <1>5, <1>8, <1>9 DEF Mem, Answers
<1>11. ASSUME NEW m \in Messages
       PROVE  /\ msg'[m] \in MsgType
              /\ m \in S => msg'[m].lockedBy = r /\ msg'[m].status = "PROCESSING" /\ ~ msg'[m].stale
              /\ m \notin S => msg'[m] = msg[m]
  <2>1. msg[m] \in MsgType
    BY DEF IInv, Typed
  <2>2. CASE m \notin S
    BY <1>1, <2>1, <2>2
  <2>3. CASE m \in S
    <3>1. msg'[m] = Passed(msg[m], "PROCESSING", r)
      BY <1>1, <2>3 DEF Passed
    <3> QED
      BY <2>1, <2>3, <3>1 DEF Passed, MsgType, MsgStatus
  <2> QED
    BY <2>2, <2>3
<1>12. msg' \in [Messages -> MsgType]
  BY <1>1, <1>11
<1>13. \A m \in Messages : MsgFits(m)'
  BY <1>2, <1>11, MsgFitsStill, ErpSendAssumption
<1>14. Locked(r, y)'
  BY <1>2, <1>8, <1>11 DEF Locked
<1>15. \A q \in Runners : \A m \in Messages : msg[m].lockedBy = q => msg'[m] = msg[m]
  BY <1>3, <1>11, LockedIsProcessing, ErpSendAssumption
<1> QED
  BY <1>2, <1>7, <1>9, <1>10, <1>12, <1>13, <1>14, <1>15, MsgGo

(* What is left in memory of a finished message. *)
Rest(b, f, S, step) == [NoRun EXCEPT !.stopping = b, !.full = f, !.claimed = S, !.pc = step]

LEMMA FinishMemory ==
  ASSUME NEW b \in BOOLEAN, NEW f \in BOOLEAN, NEW S \in SUBSET Messages, NEW step \in Between
  PROVE  LET y == Rest(b, f, S, step)
         IN Fields(y) /\ y.pc = step /\ y.cur = NoMessage /\ y.claimed = S /\ y.own.id = 0
<1>1. NoRows \in Reservation /\ NoRows.id = 0 /\ 0 \in 0 .. MaxSeq /\ step \in Steps
  BY NoRowsTyped, ErpSendAssumption DEF Between, Steps
<1> HIDE DEF NoRows
<1>2. Rest(b, f, S, step) =
        [pc |-> step, stopping |-> b, claimed |-> S, full |-> f, cur |-> NoMessage, own |-> NoRows,
         last |-> 0, out |-> "NONE", counted |-> {}, seen |-> {}, changed |-> {}, todo |-> {}]
  <2>1. PICK z : z = [NoRun EXCEPT !.stopping = b, !.full = f]
    OBVIOUS
  <2>2. z = [pc |-> "idle", stopping |-> b, claimed |-> {}, full |-> f, cur |-> NoMessage, own |-> NoRows,
             last |-> 0, out |-> "NONE", counted |-> {}, seen |-> {}, changed |-> {}, todo |-> {}]
    BY <2>1 DEF NoRun
  <2>3. Rest(b, f, S, step) = [z EXCEPT !.claimed = S, !.pc = step]
    BY <2>1 DEF Rest
  <2> QED
    BY <2>2, <2>3
<1> QED
  BY <1>1, <1>2 DEF Fields, MsgStatus

LEMMA FinishStepKeeps ==
  ASSUME IInv, NEW r \in Runners, finish(r)
  PROVE  Keeps
<1>1. PICK m, out : m = run[r].cur /\ out = run[r].out
  OBVIOUS
<1>2. /\ UNCHANGED <<rows, relay>> /\ Fields(run[r]) /\ InHand(run[r]) /\ run[r].pc = "finish"
      /\ m \in Messages /\ m \notin run[r].claimed /\ out \in MsgStatus /\ (out = "PROCESSING" => Sent(m))
  BY <1>1 DEF finish, At, IInv, Mem, Fields, InHand, Busy
<1>3. PICK step \in {"release", "go", "claim", "goReplies"} :
        run' = [run EXCEPT ![r] = [NoRun EXCEPT !.stopping = run[r].stopping, !.full = run[r].full,
                                                !.claimed = run[r].claimed, !.pc = step]]
  BY DEF finish
<1>4. PICK y : y = Rest(run[r].stopping, run[r].full, run[r].claimed, step)
  OBVIOUS
<1>5. Goes(r, y)
  BY <1>3, <1>4, GoesOn DEF Rest
<1>6. Fields(y) /\ y.pc = step /\ y.cur = NoMessage /\ y.claimed = run[r].claimed /\ y.own.id = 0
  <2>1. /\ run[r].stopping \in BOOLEAN /\ run[r].full \in BOOLEAN /\ run[r].claimed \in SUBSET Messages
        /\ step \in Between
    BY <1>2, <1>3 DEF Fields, Between
  <2> QED
    BY <1>4, <2>1, FinishMemory
<1>7. Mem(y) /\ y.pc \notin Sending
  <2>1. run[r].claimed \in SUBSET Messages
    BY <1>2 DEF Fields
  <2> QED
    BY <1>3, <1>6, <2>1, ErpSendAssumption DEF Mem, InHand, Answers, Looking, Sending, Busy
<1>8. \/ msg' = msg
      \/ /\ msg[m].lockedBy = r
         /\ msg' = [msg EXCEPT ![m] = [status |-> out, lockedBy |-> NoRunner, stale |-> FALSE,
                                       due |-> out # "PENDING"]]
  BY <1>1 DEF finish, MayFinish
<1>9. /\ msg' \in [Messages -> MsgType]
      /\ \A n \in Messages : n # m \/ msg[n].lockedBy # r => msg'[n] = msg[n]
      /\ msg'[m] = msg[m] \/ (msg'[m].lockedBy = NoRunner /\ msg'[m].status = out)
  <2>1. CASE msg' = msg
    BY <2>1 DEF IInv, Typed
  <2>2. ASSUME msg[m].lockedBy = r,
               msg' = [msg EXCEPT ![m] = [status |-> out, lockedBy |-> NoRunner, stale |-> FALSE,
                                          due |-> out # "PENDING"]]
        PROVE  <1>9!:
    <3>1. PICK b : b = (out # "PENDING") /\ b \in BOOLEAN
      OBVIOUS
    <3>2. PICK new : new = [status |-> out, lockedBy |-> NoRunner, stale |-> FALSE, due |-> b]
      OBVIOUS
    <3>3. new \in MsgType /\ new.lockedBy = NoRunner /\ new.status = out
      BY <1>2, <3>1, <3>2 DEF MsgType
    <3>4. msg' = [msg EXCEPT ![m] = new]
      BY <2>2, <3>1, <3>2
    <3> QED
      BY <1>2, <2>2, <3>3, <3>4 DEF IInv, Typed
  <2> QED
    BY <1>8, <2>1, <2>2
<1>10. \A n \in Messages : MsgFits(n)'
  BY <1>2, <1>9, MsgFitsStill
<1>11. Exclusive => Locked(r, y)'
  BY <1>2, <1>6, <1>9, ErpSendAssumption DEF Exclusive, Locked
<1> QED
  BY <1>2, <1>5, <1>7, <1>9, <1>10, <1>11, MsgGo

LEMMA ReleaseKeeps ==
  ASSUME IInv, NEW r \in Runners, release(r)
  PROVE  Keeps
<1>1. UNCHANGED <<rows, relay>> /\ Ends(r)
  BY EndTickEnds DEF release
<1>2. PICK y : /\ Goes(r, y) /\ Fields(y) /\ y.pc \in {"idle", "down"}
               /\ y.cur = NoMessage /\ y.claimed = {} /\ y.own.id = 0
  BY <1>1 DEF Ends
<1>3. Mem(y) /\ y.pc \notin Sending /\ Locked(r, y)'
  BY <1>2, Empty, ErpSendAssumption DEF Sending, Locked
<1>4. ASSUME NEW m \in Messages
      PROVE  /\ msg'[m] \in MsgType
             /\ \/ msg'[m] = msg[m]
                \/ msg[m].lockedBy = r /\ msg'[m].lockedBy = NoRunner /\ msg'[m].status = "PENDING"
  <2>1. msg[m] \in MsgType
    BY DEF IInv, Typed
  <2>2. CASE msg'[m] = msg[m]
    BY <2>1, <2>2
  <2>3. CASE msg[m].lockedBy = r
             /\ msg'[m] = Passed(msg[m], "PENDING", NoRunner)
    BY <2>1, <2>3 DEF Passed, MsgType, MsgStatus
  <2> QED
    BY <2>2, <2>3 DEF release, MayFinish, Passed
<1>5. msg' \in [Messages -> MsgType]
  BY <1>4 DEF release
<1>6. \A m \in Messages : MsgFits(m)'
  BY <1>1, <1>4, MsgFitsStill
<1>7. \A m \in Messages : msg[m].lockedBy # r => msg'[m] = msg[m]
  BY <1>4
<1> QED
  BY <1>1, <1>2, <1>3, <1>5, <1>6, <1>7, MsgGo

LEMMA SettledStatus ==
  ASSUME NEW m \in Messages, msg[m].status \in MsgStatus
  PROVE  Settled(m) \in MsgStatus
BY DEF Settled, MsgStatus

LEMMA StatusChange ==
  ASSUME IInv, NEW m \in Messages, NEW s \in MsgStatus, msg' = [msg EXCEPT ![m].status = s]
  PROVE  /\ msg' \in [Messages -> MsgType] /\ msg'[m].status = s
         /\ msg'[m].lockedBy = msg[m].lockedBy /\ msg'[m].stale = msg[m].stale
         /\ \A n \in Messages \ {m} : msg'[n] = msg[n]
BY DEF IInv, Typed, MsgType

LEMMA SettleKeeps ==
  ASSUME IInv, NEW r \in Runners, settle(r)
  PROVE  Keeps
<1>1. PICK m \in run[r].todo :
        /\ msg' = IF msg[m].lockedBy = NoRunner THEN [msg EXCEPT ![m].status = Settled(m)] ELSE msg
        /\ IF run[r].todo = {m} THEN EndTick(r) ELSE run' = [run EXCEPT ![r].todo = @ \ {m}]
  BY DEF settle
<1>2. /\ UNCHANGED <<rows, relay>> /\ Fields(run[r]) /\ InHand(run[r]) /\ run[r].pc = "settle"
      /\ m \in Messages /\ \A n \in run[r].todo : Sent(n)
  BY <1>1 DEF settle, At, IInv, Mem, Fields, Answers
<1>3. PICK y : Goes(r, y) /\ Mem(y) /\ Lighter(run[r], y) /\ y.pc \notin Sending
  <2>1. CASE EndTick(r)
    <3>1. PICK y : /\ Goes(r, y) /\ Fields(y) /\ y.pc \in {"idle", "down"}
                   /\ y.cur = NoMessage /\ y.claimed = {} /\ y.own.id = 0
      BY <2>1, EndTickEnds DEF Ends
    <3> QED
      BY <3>1, Empty, ErpSendAssumption DEF Lighter, Sending
  <2>2. CASE run' = [run EXCEPT ![r].todo = @ \ {m}]
    <3>1. PICK y : y = [run[r] EXCEPT !.todo = @ \ {m}]
      OBVIOUS
    <3>2. Goes(r, y)
      BY <2>2, <3>1, GoesOn
    <3>3. /\ Fields(y) /\ y.pc = "settle" /\ y.todo = run[r].todo \ {m}
          /\ y.cur = run[r].cur /\ y.claimed = run[r].claimed /\ y.own = run[r].own
      BY <1>2, <3>1 DEF Fields
    <3>4. InHand(y) /\ Lighter(run[r], y) /\ y.pc \notin Sending
      BY <1>2, <3>3 DEF InHand, Lighter, Looking, Sending, Busy
    <3>5. Answers(y)
      BY <1>2, <3>3 DEF Answers
    <3> QED
      BY <3>2, <3>3, <3>4, <3>5 DEF Mem
  <2> QED
    BY <1>1, <2>1, <2>2
<1>4. /\ msg' \in [Messages -> MsgType]
      /\ \A n \in Messages : msg'[n].lockedBy = msg[n].lockedBy /\ msg'[n].stale = msg[n].stale
      /\ \A n \in Messages : msg'[n] = msg[n] \/ (n = m /\ msg[n].lockedBy = NoRunner)
  <2>1. CASE msg' = msg
    BY <2>1 DEF IInv, Typed
  <2>2. CASE msg[m].lockedBy = NoRunner /\ msg' = [msg EXCEPT ![m].status = Settled(m)]
    <3>1. Settled(m) \in MsgStatus
      BY <1>2, SettledStatus DEF IInv, Typed, MsgType
    <3> QED
      BY <1>2, <2>2, <3>1, StatusChange
  <2> QED
    BY <1>1, <2>1, <2>2
<1>5. \A n \in Messages : MsgFits(n)'
  BY <1>2, <1>4, MsgFitsStill
<1>6. Exclusive => Locked(r, y)'
  BY <1>3, <1>4 DEF Exclusive, Locked, Lighter
<1> QED
  BY <1>2, <1>3, <1>4, <1>5, <1>6, MsgGo

(* Enqueueing, retrying, the end of a backoff. *)
LEMMA StatusDueKeeps ==
  ASSUME IInv, NEW m \in Messages, backoffEnds(m) \/ enqueue(m) \/ retry(m)
  PROVE  Keeps
<1>1. UNCHANGED <<rows, relay, run>>
  BY DEF backoffEnds, enqueue, retry
<1>2. /\ msg' \in [Messages -> MsgType] /\ msg'[m].status = "PENDING"
      /\ msg'[m].lockedBy = msg[m].lockedBy /\ msg'[m].stale = msg[m].stale
      /\ \A n \in Messages \ {m} : msg'[n] = msg[n]
  <2>1. PICK new : /\ msg' = [msg EXCEPT ![m] = new] /\ new \in MsgType /\ new.status = "PENDING"
                   /\ new.lockedBy = msg[m].lockedBy /\ new.stale = msg[m].stale
    <3>1. msg[m] \in MsgType
      BY DEF IInv, Typed
    <3>2. CASE backoffEnds(m)
      <4>1. PICK new : new = [msg[m] EXCEPT !.due = TRUE]
        OBVIOUS
      <4>2. msg' = [msg EXCEPT ![m] = new] /\ msg[m].status = "PENDING"
        BY <3>2, <4>1 DEF backoffEnds
      <4>3. /\ new \in MsgType /\ new.status = "PENDING"
            /\ new.lockedBy = msg[m].lockedBy /\ new.stale = msg[m].stale
        BY <3>1, <4>1, <4>2 DEF MsgType
      <4> QED
        BY <4>2, <4>3
    <3>3. CASE enqueue(m) \/ retry(m)
      <4>1. PICK new : new = [msg[m] EXCEPT !.status = "PENDING", !.due = TRUE]
        OBVIOUS
      <4>2. msg' = [msg EXCEPT ![m] = new]
        BY <3>3, <4>1 DEF enqueue, retry
      <4>3. /\ new \in MsgType /\ new.status = "PENDING"
            /\ new.lockedBy = msg[m].lockedBy /\ new.stale = msg[m].stale
        BY <3>1, <4>1 DEF MsgType, MsgStatus
      <4> QED
        BY <4>2, <4>3
    <3> QED
      BY <3>2, <3>3
  <2> QED
    BY <2>1 DEF IInv, Typed
<1>3. msg[m].lockedBy = NoRunner
  BY LockedIsProcessing DEF backoffEnds, enqueue, retry, retryBlocked
<1>4. \A n \in Messages : MsgFits(n)'
  BY <1>1, <1>2, <1>3, MsgFitsStill
<1> QED
  BY <1>1, <1>2, <1>4, LocksStay

(* LOCK_TTL_MS has passed: with the message still in the holder's hands it  *)
(* is a stall, otherwise nobody has it in hand.                             *)
LEMMA LockAgesKeeps ==
  ASSUME IInv, NEW m \in Messages, lockAges(m)
  PROVE  IInv' /\ (Exclusive /\ ~ stalled' => Exclusive')
<1>1. UNCHANGED <<rows, relay, run>> /\ msg[m].lockedBy # NoRunner
  BY DEF lockAges
<1>2. PICK new : new = [msg[m] EXCEPT !.stale = TRUE]
  OBVIOUS
<1>3. new \in MsgType /\ new.status = msg[m].status /\ new.lockedBy = msg[m].lockedBy
  <2>1. msg[m] \in MsgType
    BY DEF IInv, Typed
  <2> QED
    BY <1>2, <2>1 DEF MsgType
<1>4. msg' = [msg EXCEPT ![m] = new]
  BY <1>2 DEF lockAges
<1>5. /\ msg' \in [Messages -> MsgType] /\ msg'[m] = new
      /\ \A n \in Messages \ {m} : msg'[n] = msg[n]
  BY <1>3, <1>4 DEF IInv, Typed
<1>6. \A n \in Messages : MsgFits(n)'
  BY <1>1, <1>3, <1>5, LockedIsProcessing, MsgFitsStill
<1>7. IInv'
  BY <1>1, <1>5, <1>6, MsgStep DEF RunOK, IInv, Typed
<1>8. ASSUME Exclusive, ~ stalled' PROVE Exclusive'
  <2>1. ~ Holds(msg[m].lockedBy, m)
    BY <1>8 DEF lockAges, Overtakes
  <2>2. ASSUME NEW q \in Runners PROVE Locked(q, run[q])' /\ OwnRows(run[q])'
    <3>1. Locked(q, run[q]) /\ OwnRows(run[q])
      BY <1>8 DEF Exclusive
    <3>2. ~ (run[q].cur = m \/ m \in run[q].claimed)
      BY <2>1, <3>1 DEF Locked, Holds
    <3> QED
      BY <1>1, <1>5, <3>1, <3>2 DEF Locked, OwnRows, Absent
  <2> QED
    BY <1>1, <1>8, <2>2, SameSeq DEF Exclusive
<1> QED
  BY <1>7, <1>8

LEMMA NothingKeeps ==
  ASSUME IInv, UNCHANGED <<msg, rows, relay, run>>
  PROVE  Keeps
BY LocksStay DEF IInv, Typed, MsgFits, Sent, Reached
-----------------------------------------------------------------------------
(* The theorems. *)

LEMMA InitDInv == Init => DInv
<1> SUFFICES ASSUME Init PROVE DInv
  OBVIOUS
<1>1. ASSUME NEW r \in Runners
      PROVE  /\ Fields(run[r]) /\ run[r].pc \in {"idle", "down"}
             /\ run[r].cur = NoMessage /\ run[r].claimed = {} /\ run[r].own.id = 0
  <2>1. CASE run[r] = NoRun
    <3>1. NoRows \in Reservation /\ NoRows.id = 0 /\ 0 \in 0 .. MaxSeq
      BY NoRowsTyped, ErpSendAssumption
    <3> HIDE DEF NoRows
    <3> QED
      BY <2>1, <3>1 DEF NoRun, Fields, Steps, MsgStatus
  <2>2. CASE run[r] = Down
    BY <2>2, DownFields DEF Down
  <2> QED
    BY <2>1, <2>2 DEF Init
<1>2. \A r \in Runners : Mem(run[r])
  BY <1>1, Empty
<1>3. ASSUME NEW m \in Messages
      PROVE  msg[m] \in MsgType /\ msg[m].lockedBy = NoRunner /\ msg[m].status # "PROCESSING"
  <2>1. msg[m] \in {NoMsg, PastMsg}
    BY DEF Init
  <2>2. NoMsg \in MsgType /\ NoMsg.lockedBy = NoRunner /\ NoMsg.status # "PROCESSING"
    BY DEF NoMsg, MsgType, MsgStatus
  <2>3. PastMsg \in MsgType /\ PastMsg.lockedBy = NoRunner /\ PastMsg.status # "PROCESSING"
    BY DEF NoMsg, PastMsg, MsgType, MsgStatus
  <2> QED
    BY <2>1, <2>2, <2>3
<1>4. Typed
  <2>1. msg \in [Messages -> MsgType] /\ DOMAIN run = Runners
    BY <1>3 DEF Init
  <2>2. rows \in [Messages -> Reservation]
    <3> HIDE DEF NoRows
    <3> QED
      BY NoRowsTyped DEF Init
  <2>3. relay \in RelayType
    BY DEF Init, RelayType, RelayStatus
  <2> QED
    BY <2>1, <2>2, <2>3 DEF Typed
<1>5. \A m \in Messages, s \in Seqs : Absent(m, s)
  BY DEF Init, Absent
<1>6. \A m \in Messages : rows[m] = NoRows
  BY DEF Init
<1>7. IInv
  BY <1>2, <1>3, <1>4, <1>5, <1>6 DEF IInv, MsgFits, RowsFit, RelayFits
<1>8. \A r \in Runners : Locked(r, run[r]) /\ OwnRows(run[r])
  BY <1>1, ErpSendAssumption DEF Locked, OwnRows, Sending
<1> QED
  BY <1>5, <1>7, <1>8 DEF DInv, Exclusive, OneSeq

LEMMA TickKeeps ==
  ASSUME IInv, NEW r \in Runners, tick(r)
  PROVE  Keeps
BY AcquireKeeps, ReleaseOrphansKeeps, KeepGoingKeeps, ClaimKeeps, OfKeeps, BuildKeeps, ReserveKeeps,
   InsertRowsKeeps, MarkInsertedKeeps, DiscardKeeps, RewriteKeeps, MarkRewrittenKeeps, FinishStepKeeps,
   ReleaseKeeps, WaitingKeeps, RepliesKeeps, RecordRepliesKeeps, SettleKeeps, LeaveKeeps, ThrowsKeeps
   DEF tick

LEMMA TickNoStall ==
  ASSUME NEW r \in Runners, tick(r)
  PROVE  stalled' = stalled
<1>1. CASE acquire(r) \/ releaseOrphans(r) \/ keepGoing(r) \/ claim(r) \/ of(r) \/ build(r) \/ reserve(r)
  BY <1>1 DEF acquire, releaseOrphans, keepGoing, claim, of, build, reserve
<1>2. CASE \/ insertRows(r) \/ markInserted(r) \/ discard(r) \/ rewrite(r) \/ markRewritten(r) \/ finish(r)
           \/ release(r)
  BY <1>2 DEF insertRows, markInserted, discard, rewrite, markRewritten, finish, release
<1>3. CASE waiting(r) \/ replies(r) \/ recordReplies(r) \/ settle(r) \/ leave(r) \/ keepGoingThrows(r)
  BY <1>3 DEF waiting, replies, recordReplies, settle, leave, keepGoingThrows
<1> QED
  BY <1>1, <1>2, <1>3 DEF tick

LEMMA NextDInv == DInv /\ [Next]_vars => DInv'
<1> SUFFICES ASSUME DInv, [Next]_vars PROVE DInv'
  OBVIOUS
<1>1. IInv
  BY DEF DInv
<1>2. ASSUME Keeps, stalled' = stalled PROVE DInv'
  BY <1>2 DEF DInv, Keeps
<1>3. ASSUME NEW r \in Runners, tick(r) \/ statementFails(r) \/ stop(r) \/ Crash(r) PROVE DInv'
  <2>1. Keeps
    BY <1>1, <1>3, TickKeeps, StatementFailsKeeps, StopKeeps, CrashKeeps
  <2>2. stalled' = stalled
    BY <1>3, TickNoStall DEF statementFails, stop, Crash
  <2> QED
    BY <1>2, <2>1, <2>2
<1>4. ASSUME NEW m \in Messages, lockAges(m) PROVE DInv'
  <2>1. IInv' /\ (Exclusive /\ ~ stalled' => Exclusive')
    BY <1>1, <1>4, LockAgesKeeps
  <2>2. stalled => stalled'
    BY <1>4 DEF lockAges, Overtakes
  <2> QED
    BY <2>1, <2>2 DEF DInv
<1>5. ASSUME NEW m \in Messages, backoffEnds(m) \/ enqueue(m) \/ retry(m) PROVE DInv'
  <2>1. stalled' = stalled
    BY <1>5 DEF backoffEnds, enqueue, retry
  <2> QED
    BY <1>1, <1>2, <1>5, <2>1, StatusDueKeeps
<1>6. ASSUME NEW m \in Messages, NEW s \in Seqs, NEW i \in Lines,
             erpApplies(m, s, i) \/ erpRejects(m, s, i) \/ erpClears(m, s, i)
      PROVE  DInv'
  <2>1. stalled' = stalled
    BY <1>6 DEF erpApplies, erpRejects, erpClears, ErpStep
  <2> QED
    BY <1>1, <1>2, <1>6, <2>1, ErpKeeps
<1>7. CASE leaseExpires
  <2>1. Keeps
    BY <1>1, <1>7, NothingKeeps DEF leaseExpires
  <2>2. stalled => stalled'
    BY <1>7 DEF leaseExpires, Overtakes
  <2> QED
    BY <2>1, <2>2 DEF DInv, Keeps
<1>8. CASE UNCHANGED vars
  <2>1. Keeps
    BY <1>1, <1>8, NothingKeeps DEF vars
  <2> QED
    BY <1>2, <1>8, <2>1 DEF vars
<1> QED
  BY <1>3, <1>4, <1>5, <1>6, <1>7, <1>8 DEF Next

THEOREM SpecDInv == Spec => []DInv
BY InitDInv, NextDInv, PTL DEF Spec

(* A message in progress that nobody holds is recorded as sent and is in    *)
(* the relay, whatever crashes and stalls there are: what a runner does not *)
(* know for sure (an insert without an answer) it never says (insertRows,   *)
(* markInserted, finish, settle, releaseOrphans).                           *)
THEOREM SpecInProgressIsSent == Spec => []InProgressIsSent
<1>1. DInv => InProgressIsSent
  BY DEF DInv, IInv, MsgFits, Sent, Reached, Away, InProgressIsSent
<1> QED
  BY <1>1, SpecDInv, PTL

(* Without stalls a document goes to the ERP under one IF_SEQ, through      *)
(* crashes, retries and lost answers: rows are only discarded when none of  *)
(* them reached the relay, and only by who has the message locked (reserve, *)
(* insertRows, discard).                                                    *)
THEOREM SpecNoDuplicateSend == Spec => []NoDuplicateSend
<1>1. ASSUME DInv PROVE NoDuplicateSend
  <2>1. SUFFICES ASSUME ~ stalled, NEW m \in Messages PROVE Cardinality(SeqsOf(m)) <= 1
    BY DEF NoDuplicateSend
  <2>2. OneSeq(m)
    BY <1>1, <2>1 DEF DInv, Exclusive
  <2>3. SeqsOf(m) \subseteq {rows[m].seq}
    BY <2>2 DEF SeqsOf, OneSeq, Absent
  <2>4. PICK s : s = rows[m].seq
    OBVIOUS
  <2>5. IsFiniteSet({s}) /\ Cardinality({s}) = 1
    BY FS_Singleton
  <2>6. Cardinality(SeqsOf(m)) <= Cardinality({s})
    BY <2>3, <2>4, <2>5, FS_Subset
  <2> QED
    BY <2>5, <2>6
<1> QED
  BY <1>1, SpecDInv, PTL

(* A message that is done stays done: who writes a status has the message   *)
(* locked, and a locked message is in progress; settle and retry look at    *)
(* the status they write over (finish, release, settle, retry).             *)
THEOREM SpecDoneIsFinal == Spec => DoneIsFinal
<1>1. ASSUME IInv, [Next]_vars, NEW m \in Messages, msg[m].status = "DONE"
      PROVE  msg'[m].status = "DONE"
  <2>1. msg[m].lockedBy = NoRunner /\ m \notin Claimable /\ msg[m] \in MsgType /\ msg \in [Messages -> MsgType]
    BY <1>1, LockedIsProcessing DEF Claimable, IInv, Typed
  <2>2. CASE msg' = msg
    BY <1>1, <2>2
  <2>3. ASSUME NEW r \in Runners, tick(r) PROVE msg'[m].status = "DONE"
    <3>1. CASE releaseOrphans(r)
      BY <1>1, <2>1, <3>1 DEF releaseOrphans
    <3>2. CASE claim(r)
      BY <1>1, <2>1, <3>2 DEF claim
    <3>3. CASE finish(r)
      <4>1. msg' = msg \/ (\E x : msg' = [msg EXCEPT ![run[r].cur] = x] /\ msg[run[r].cur].lockedBy = r)
        BY <3>3 DEF finish, MayFinish
      <4> QED
        BY <1>1, <2>1, <4>1, ErpSendAssumption
    <3>4. CASE release(r)
      BY <1>1, <2>1, <3>4, ErpSendAssumption DEF release, MayFinish
    <3>5. CASE settle(r)
      <4>1. PICK n \in run[r].todo :
              msg' = IF msg[n].lockedBy = NoRunner THEN [msg EXCEPT ![n].status = Settled(n)] ELSE msg
        BY <3>5 DEF settle
      <4>2. Settled(m) = "DONE"
        BY <1>1 DEF Settled
      <4> QED
        BY <1>1, <2>1, <4>1, <4>2 DEF MsgType
    <3>6. CASE msg' = msg
      BY <1>1, <3>6
    <3> QED
      BY <2>3, <3>1, <3>2, <3>3, <3>4, <3>5, <3>6
      DEF tick, acquire, keepGoing, of, build, reserve, insertRows, markInserted, discard, rewrite,
          markRewritten, waiting, replies, recordReplies, leave, keepGoingThrows
  <2>4. ASSUME NEW r \in Runners, statementFails(r) \/ stop(r) \/ Crash(r) PROVE msg'[m].status = "DONE"
    BY <2>2, <2>4 DEF statementFails, stop, Crash
  <2>5. ASSUME NEW n \in Messages, lockAges(n) \/ backoffEnds(n) \/ enqueue(n) \/ retry(n)
        PROVE  msg'[m].status = "DONE"
    <3>1. n # m
      BY <1>1, <2>1, <2>5 DEF lockAges, backoffEnds, enqueue, retry, retryBlocked
    <3>2. msg'[m] = msg[m]
      BY <2>1, <2>5, <3>1 DEF lockAges, backoffEnds, enqueue, retry
    <3> QED
      BY <1>1, <3>2
  <2>6. ASSUME NEW n \in Messages, NEW s \in Seqs, NEW i \in Lines,
               erpApplies(n, s, i) \/ erpRejects(n, s, i) \/ erpClears(n, s, i)
        PROVE  msg'[m].status = "DONE"
    BY <2>2, <2>6 DEF erpApplies, erpRejects, erpClears, ErpStep
  <2>7. leaseExpires \/ UNCHANGED vars => msg' = msg
    BY DEF leaseExpires, vars
  <2> QED
    BY <1>1, <2>2, <2>3, <2>4, <2>5, <2>6, <2>7 DEF Next
<1>2. IInv /\ [Next]_vars => [\A m \in Messages : msg[m].status = "DONE" => msg'[m].status = "DONE"]_vars
  BY <1>1
<1>3. DInv => IInv
  BY DEF DInv
<1> QED
  BY <1>2, <1>3, SpecDInv, PTL DEF Spec, DoneIsFinal
-----------------------------------------------------------------------------
(***************************************************************************)
(* DONE means applied.  The rows say APPLIED only of what the relay has    *)
(* applied, and a runner brings no other answers (Told); a message that is *)
(* finished as DONE at once has no rows (Rowless); and nobody sends a      *)
(* message that is done (Over).                                            *)
(***************************************************************************)
Truthful(m) ==
  \A i \in Lines : rows[m].status[i] = "APPLIED" => relay[m][rows[m].seq][i] = "applied"

Told(x) ==
  /\ x.pc = "replies" => \A w \in x.seen :
       w.i \in Lines /\ w.seq = rows[w.m].seq /\ w.status # "APPLIED"
  /\ x.pc = "record" => \A c \in x.changed :
       c.i \in Lines /\ (c.status = "APPLIED" => relay[c.m][rows[c.m].seq][c.i] = "applied")

Rowless(x) ==
  x.pc \in {"build", "reserve"} \/ (x.pc = "finish" /\ x.out = "DONE") => rows[x.cur].id = 0

Over(m) ==
  msg[m].status = "DONE" => \A s \in Seqs : \A i \in Lines : relay[m][s][i] \in {"absent", "applied"}

AInv ==
  /\ \A m \in Messages : Truthful(m)
  /\ \A r \in Runners : Told(run[r])
  /\ ~ stalled => /\ \A r \in Runners : Rowless(run[r])
                  /\ \A m \in Messages : Over(m)

(* What has been applied stays applied, and rows that are sent stay. *)
Lasting ==
  /\ \A m \in Messages : \A s \in Seqs : \A i \in Lines :
       relay[m][s][i] = "applied" => relay'[m][s][i] = "applied"
  /\ \A m \in Messages : Sent(m) => rows'[m].seq = rows[m].seq

LEMMA ToldKept ==
  ASSUME IInv, Lasting, NEW q \in Runners, Told(run[q]), run'[q] = run[q]
  PROVE  Told(run[q])'
<1>1. Answers(run[q])
  BY DEF IInv, Mem
<1>2. run[q].pc = "replies" => \A w \in run[q].seen : rows'[w.m].seq = rows[w.m].seq
  BY <1>1 DEF Answers, Lasting
<1>3. run[q].pc = "record" => \A c \in run[q].changed :
        c.m \in Messages /\ rows[c.m].seq \in Seqs /\ rows'[c.m].seq = rows[c.m].seq
  BY <1>1 DEF Answers, Lasting, Sent
<1> QED
  BY <1>2, <1>3 DEF Told, Lasting

LEMMA LastingSame ==
  ASSUME rows' = rows, relay' = relay
  PROVE  Lasting /\ \A m \in Messages : Truthful(m) => Truthful(m)'
BY DEF Lasting, Truthful

(* What the runner that made a step is up to now: none of what Told and    *)
(* Rowless are about.                                                      *)
Settling(r) ==
  /\ run'[r].pc \notin {"replies", "record", "build", "reserve"}
  /\ run'[r].pc = "finish" => run'[r].out # "DONE"

LEMMA GotoSettling ==
  ASSUME IInv, NEW r \in Runners, NEW step \in Steps \ {"replies", "record", "build", "reserve", "finish"},
         Goto(r, step)
  PROVE  Settling(r)
BY PcTo DEF Goes, Settling

LEMMA FinishSettling ==
  ASSUME IInv, NEW r \in Runners, NEW s \in MsgStatus \ {"DONE"}, FinishAs(r, s)
  PROVE  Settling(r)
BY Finishing DEF Goes, Settling

LEMMA EndSettling ==
  ASSUME IInv, NEW r \in Runners, Ends(r)
  PROVE  Settling(r)
BY DEF Ends, Goes, Settling

LEMMA SendSettling ==
  ASSUME IInv, NEW r \in Runners, NEW res, SendRows(r, res)
  PROVE  Settling(r)
<1>1. PICK step \in {"rewrite", "insert", "finish"} :
        run' = [run EXCEPT ![r].own = res, ![r].out = "PROCESSING", ![r].pc = step]
  BY DEF SendRows
<1>2. PICK y : y = [run[r] EXCEPT !.own = res, !.out = "PROCESSING", !.pc = step]
  OBVIOUS
<1>3. Goes(r, y)
  BY <1>1, <1>2, GoesOn
<1>4. y.pc = step /\ y.out = "PROCESSING"
  BY <1>2 DEF IInv, Mem, Fields
<1> QED
  BY <1>3, <1>4 DEF Goes, Settling

LEMMA PcSettling ==
  ASSUME IInv, NEW r \in Runners, NEW y, run' = [run EXCEPT ![r] = y],
         y.pc \notin {"replies", "record", "build", "reserve", "finish"}
  PROVE  Settling(r)
BY GoesOn DEF Goes, Settling

LEMMA TickSettling ==
  ASSUME IInv, NEW r \in Runners, tick(r), ~ of(r), ~ build(r), ~ waiting(r), ~ replies(r)
  PROVE  Settling(r)
<1>1. CASE acquire(r) \/ releaseOrphans(r) \/ leave(r)
  BY <1>1, GotoSettling DEF acquire, releaseOrphans, leave, Steps
<1>2. CASE keepGoing(r)
  <2>1. CASE Goto(r, "waiting")
    BY <2>1, GotoSettling DEF Steps
  <2>2. ASSUME NEW m, run' = [run EXCEPT ![r].pc = "of", ![r].cur = m, ![r].claimed = @ \ {m}]
        PROVE  Settling(r)
    <3>1. PICK y : y = [run[r] EXCEPT !.pc = "of", !.cur = m, !.claimed = @ \ {m}]
      OBVIOUS
    <3>2. run' = [run EXCEPT ![r] = y] /\ y.pc = "of"
      BY <2>2, <3>1 DEF IInv, Mem, Fields
    <3> QED
      BY <3>2, PcSettling
  <2> QED
    BY <1>2, <2>1, <2>2 DEF keepGoing
<1>3. CASE keepGoingThrows(r)
  BY <1>3, GotoSettling, EndTickEnds, EndSettling DEF keepGoingThrows, Steps
<1>4. CASE claim(r)
  <2>1. PICK S, b, step : /\ step \in {"go", "goReplies"} /\ b \in BOOLEAN
                          /\ run' = [run EXCEPT ![r].claimed = S, ![r].full = b, ![r].pc = step]
    <3>1. PICK S : run' = [run EXCEPT ![r].claimed = S, ![r].full = Cardinality(S) = BATCH_SIZE,
                                      ![r].pc = IF S = {} THEN "goReplies" ELSE "go"]
      BY <1>4 DEF claim
    <3>2. PICK b, step : b = (Cardinality(S) = BATCH_SIZE) /\ step = (IF S = {} THEN "goReplies" ELSE "go")
      OBVIOUS
    <3> QED
      BY <3>1, <3>2
  <2>2. PICK y : y = [run[r] EXCEPT !.claimed = S, !.full = b, !.pc = step]
    OBVIOUS
  <2>3. run' = [run EXCEPT ![r] = y]
    BY <2>1, <2>2
  <2>4. y.pc = step
    BY <2>2 DEF IInv, Mem, Fields
  <2> QED
    BY <2>1, <2>3, <2>4, PcSettling
<1>5. CASE reserve(r)
  BY <1>5, SendSettling, FinishSettling DEF reserve, MsgStatus
<1>6. CASE insertRows(r)
  BY <1>6, GotoSettling, FinishSettling DEF insertRows, postpone, Steps, MsgStatus
<1>7. CASE markInserted(r) \/ markRewritten(r)
  BY <1>7, FinishSettling, EndTickEnds, EndSettling DEF markInserted, markRewritten, MsgStatus
<1>8. CASE discard(r)
  BY <1>8, FinishSettling DEF discard, MsgStatus
<1>9. CASE rewrite(r)
  <2>1. CASE FinishAs(r, "FAILED") \/ FinishAs(r, "PENDING")
    BY <2>1, FinishSettling DEF MsgStatus
  <2>2. ASSUME NEW S, run' = [run EXCEPT ![r].counted = S, ![r].pc = "markRewritten"]
        PROVE  Settling(r)
    <3>1. PICK y : y = [run[r] EXCEPT !.counted = S, !.pc = "markRewritten"]
      OBVIOUS
    <3>2. run' = [run EXCEPT ![r] = y] /\ y.pc = "markRewritten"
      BY <2>2, <3>1 DEF IInv, Mem, Fields
    <3> QED
      BY <3>2, PcSettling
  <2> QED
    BY <1>9, <2>1, <2>2 DEF rewrite, postpone
<1>10. CASE finish(r)
  <2>1. PICK step \in {"release", "go", "claim", "goReplies"} :
          run' = [run EXCEPT ![r] = [NoRun EXCEPT !.stopping = run[r].stopping, !.full = run[r].full,
                                                  !.claimed = run[r].claimed, !.pc = step]]
    BY <1>10 DEF finish
  <2>2. PICK y : y = Rest(run[r].stopping, run[r].full, run[r].claimed, step)
    OBVIOUS
  <2>3. run' = [run EXCEPT ![r] = y]
    BY <2>1, <2>2 DEF Rest
  <2>4. y.pc = step
    BY <2>2 DEF Rest, NoRun
  <2> QED
    BY <2>3, <2>4, PcSettling
<1>11. CASE release(r)
  BY <1>11, EndTickEnds, EndSettling DEF release
<1>12. CASE recordReplies(r)
  <2>1. CASE EndTick(r)
    BY <2>1, EndTickEnds, EndSettling
  <2>2. ASSUME NEW T, run' = [run EXCEPT ![r].pc = "settle", ![r].changed = {}, ![r].todo = T]
        PROVE  Settling(r)
    <3>1. PICK y : y = [run[r] EXCEPT !.pc = "settle", !.changed = {}, !.todo = T]
      OBVIOUS
    <3>2. run' = [run EXCEPT ![r] = y] /\ y.pc = "settle"
      BY <2>2, <3>1 DEF IInv, Mem, Fields
    <3> QED
      BY <3>2, PcSettling
  <2> QED
    BY <1>12, <2>1, <2>2 DEF recordReplies
<1>13. CASE settle(r)
  <2>1. CASE EndTick(r)
    BY <2>1, EndTickEnds, EndSettling
  <2>2. ASSUME NEW m, run' = [run EXCEPT ![r].todo = @ \ {m}]
        PROVE  Settling(r)
    <3>1. PICK y : y = [run[r] EXCEPT !.todo = @ \ {m}]
      OBVIOUS
    <3>2. run' = [run EXCEPT ![r] = y] /\ y.pc = "settle"
      BY <1>13, <2>2, <3>1 DEF settle, At, IInv, Mem, Fields
    <3> QED
      BY <3>2, PcSettling
  <2> QED
    BY <1>13, <2>1, <2>2 DEF settle
<1> QED
  BY <1>1, <1>2, <1>3, <1>4, <1>5, <1>6, <1>7, <1>8, <1>9, <1>10, <1>11, <1>12, <1>13 DEF tick

(* What a step of a runner does to its rows and to the relay. *)
Careful(r) ==
  /\ Lasting
  /\ \A m \in Messages : Truthful(m)'
  /\ \A m \in Messages : run[r].cur # m => rows'[m].id = rows[m].id /\ relay'[m] = relay[m]

LEMMA StillCareful ==
  ASSUME IInv, AInv, NEW r, UNCHANGED <<rows, relay>>
  PROVE  Careful(r)
BY LastingSame DEF AInv, Careful

LEMMA ReserveCareful ==
  ASSUME IInv, AInv, NEW r \in Runners, reserve(r)
  PROVE  Careful(r)
<1>1. CASE UNCHANGED <<rows, relay>>
  BY <1>1, StillCareful
<1>2. ASSUME NEW m, m = run[r].cur, Present(rows[m]) = {}, rows' = [rows EXCEPT ![m] = Reserved(r, m)],
             relay' = relay
      PROVE  Careful(r)
  <2>1. m \in Messages
    BY <1>2 DEF reserve, At, IInv, Mem, InHand, Busy, Looking
  <2>2. ~ Sent(m)
    <3>1. rows[m] = NoRows
      BY <1>2, <2>1, NoSuchRows
    <3> QED
      BY <3>1 DEF Sent, NoRows, Seqs
  <2>3. PICK res : res = Reserved(r, m) /\ \A i \in Lines : res.status[i] = "RESERVED"
    <3>1. \A i \in Lines : Reserved(r, m).status[i] = "RESERVED"
      BY DEF Reserved
    <3> QED
      BY <3>1
  <2>4. rows'[m] = res /\ \A n \in Messages \ {m} : rows'[n] = rows[n]
    BY <1>2, <2>1, <2>3 DEF IInv, Typed
  <2>5. Lasting
    BY <1>2, <2>2, <2>4 DEF Lasting
  <2>6. \A n \in Messages : Truthful(n)'
    BY <1>2, <2>3, <2>4 DEF AInv, Truthful
  <2> QED
    BY <1>2, <2>4, <2>5, <2>6 DEF Careful
<1> QED
  BY <1>1, <1>2 DEF reserve

LEMMA InsertRowsCareful ==
  ASSUME IInv, AInv, NEW r \in Runners, insertRows(r)
  PROVE  Careful(r)
<1>1. PICK m, seq : m = run[r].cur /\ seq = run[r].own.seq
  OBVIOUS
<1>2. /\ rows' = rows /\ m \in Messages /\ seq \in Seqs
      /\ WithStatus(run[r].own, "RESERVED") = Lines
  BY <1>1 DEF insertRows, At, Busy, Sending, IInv, Mem, InHand, AllReserved, WithStatus
<1>3. CASE relay' = relay
  BY <1>2, <1>3, StillCareful
<1>4. CASE InsertOnce(m, seq, Lines)
  <2>1. \A n \in Messages \ {m} : relay'[n] = relay[n]
    BY <1>2, <1>4, InsertOnceFits
  <2>2. \A n \in Messages : \A s \in Seqs : \A i \in Lines :
          relay[n][s][i] = "applied" => relay'[n][s][i] = "applied"
    BY <1>2, <1>4 DEF InsertOnce, IInv, Typed, RelayType
  <2>3. Lasting
    BY <1>2, <2>2 DEF Lasting
  <2>4. ASSUME NEW n \in Messages, NEW i \in Lines, rows[n].status[i] = "APPLIED"
        PROVE  relay'[n][rows[n].seq][i] = "applied"
    <3>1. rows[n].seq \in Seqs
      BY <2>4 DEF IInv, RowsFit, NoRows
    <3> QED
      BY <2>2, <2>4, <3>1 DEF AInv, Truthful
  <2> QED
    BY <1>1, <1>2, <2>1, <2>3, <2>4 DEF Careful, Truthful
<1> QED
  BY <1>1, <1>2, <1>3, <1>4 DEF insertRows

LEMMA RewriteCareful ==
  ASSUME IInv, AInv, NEW r \in Runners, rewrite(r)
  PROVE  Careful(r)
<1>1. PICK m, seq, lines :
        m = run[r].cur /\ seq = run[r].own.seq /\ lines = WithStatus(run[r].own, "REJECTED")
  OBVIOUS
<1>2. rows' = rows /\ m \in Messages
  BY <1>1 DEF rewrite, At, Busy, IInv, Mem, InHand
<1>3. CASE relay' = relay
  BY <1>2, <1>3, StillCareful
<1>4. CASE UpdateUntouched(m, seq, lines)
  <2>1. \A n \in Messages \ {m} : relay'[n] = relay[n]
    BY <1>2, <1>4 DEF UpdateUntouched, IInv, Typed, RelayType
  <2>2. \A n \in Messages : \A s \in Seqs : \A i \in Lines :
          relay[n][s][i] = "applied" => relay'[n][s][i] = "applied"
    BY <1>2, <1>4 DEF UpdateUntouched, Untouched, IInv, Typed, RelayType
  <2>3. Lasting
    BY <1>2, <2>2 DEF Lasting
  <2>4. ASSUME NEW n \in Messages, NEW i \in Lines, rows[n].status[i] = "APPLIED"
        PROVE  relay'[n][rows[n].seq][i] = "applied"
    <3>1. rows[n].seq \in Seqs
      BY <2>4 DEF IInv, RowsFit, NoRows
    <3> QED
      BY <2>2, <2>4, <3>1 DEF AInv, Truthful
  <2> QED
    BY <1>1, <1>2, <2>1, <2>3, <2>4 DEF Careful, Truthful
<1> QED
  BY <1>1, <1>3, <1>4 DEF rewrite

LEMMA MarkCareful ==
  ASSUME IInv, AInv, NEW r \in Runners, markInserted(r) \/ markRewritten(r)
  PROVE  Careful(r)
<1>1. CASE rows' = rows
  BY <1>1, StillCareful DEF markInserted, markRewritten
<1>2. ASSUME NEW m, m = run[r].cur, NEW lines \in SUBSET Lines, SetRows(m, lines, "INSERTED")
      PROVE  Careful(r)
  <2>1. m \in Messages /\ relay' = relay
    BY <1>2 DEF markInserted, markRewritten, At, IInv, Mem, InHand, Busy, Sending
  <2>2. /\ rows'[m].id = rows[m].id /\ rows'[m].seq = rows[m].seq
        /\ \A i \in Lines : rows'[m].status[i] = IF i \in lines THEN "INSERTED" ELSE rows[m].status[i]
        /\ \A n \in Messages \ {m} : rows'[n] = rows[n]
    BY <1>2, <2>1, SetRowsIs DEF RowStatus
  <2>3. \A n \in Messages : rows'[n].id = rows[n].id /\ rows'[n].seq = rows[n].seq
    BY <2>2
  <2>4. Lasting
    BY <2>1, <2>3 DEF Lasting
  <2>5. \A n \in Messages : Truthful(n)'
    BY <2>1, <2>2 DEF AInv, Truthful
  <2> QED
    BY <2>1, <2>3, <2>4, <2>5 DEF Careful
<1>3. WithStatus(run[r].own, "RESERVED") \in SUBSET Lines /\ run[r].counted \in SUBSET Lines
  BY DEF WithStatus, IInv, Mem, Fields
<1> QED
  BY <1>1, <1>2, <1>3 DEF markInserted, markRewritten

LEMMA DiscardCareful ==
  ASSUME IInv, AInv, NEW r \in Runners, discard(r)
  PROVE  Careful(r)
<1>1. PICK m : m = run[r].cur
  OBVIOUS
<1>2. relay' = relay /\ m \in Messages
  BY <1>1 DEF discard, At, Busy, Sending, IInv, Mem, InHand
<1>3. ASSUME rows' = [rows EXCEPT ![m] = NoRows], Present(rows[m]) \ WithStatus(rows[m], "RESERVED") = {}
      PROVE  Careful(r)
  <2>1. rows'[m] = NoRows /\ \A n \in Messages \ {m} : rows'[n] = rows[n]
    <3> HIDE DEF NoRows
    <3> QED
      BY <1>2, <1>3 DEF IInv, Typed
  <2>2. ~ Sent(m)
    BY <1>3, ErpSendAssumption DEF Sent, Present, WithStatus, Away
  <2>3. Lasting
    BY <1>2, <2>1, <2>2 DEF Lasting
  <2>4. \A i \in Lines : rows'[m].status[i] = "NONE"
    BY <2>1 DEF NoRows
  <2>5. \A n \in Messages : Truthful(n)'
    BY <1>2, <2>1, <2>4 DEF AInv, Truthful
  <2> HIDE DEF NoRows
  <2> QED
    BY <1>1, <1>2, <2>1, <2>3, <2>5 DEF Careful
<1>4. ASSUME SetRows(m, WithStatus(rows[m], "RESERVED"), "NONE") PROVE Careful(r)
  <2>1. WithStatus(rows[m], "RESERVED") \in SUBSET Lines
    BY DEF WithStatus
  <2>2. /\ rows'[m].id = rows[m].id /\ rows'[m].seq = rows[m].seq
        /\ \A i \in Lines : rows'[m].status[i] = IF i \in WithStatus(rows[m], "RESERVED") THEN "NONE"
                                                 ELSE rows[m].status[i]
        /\ \A n \in Messages \ {m} : rows'[n] = rows[n]
    BY <1>2, <1>4, <2>1, SetRowsIs DEF RowStatus
  <2>3. \A n \in Messages : rows'[n].id = rows[n].id /\ rows'[n].seq = rows[n].seq
    BY <2>2
  <2>4. Lasting
    BY <1>2, <2>3 DEF Lasting
  <2>5. \A n \in Messages : Truthful(n)'
    BY <1>2, <2>2 DEF AInv, Truthful
  <2> QED
    BY <1>2, <2>3, <2>4, <2>5 DEF Careful
<1> QED
  BY <1>1, <1>3, <1>4 DEF discard

LEMMA RecordCareful ==
  ASSUME IInv, AInv, NEW r \in Runners, recordReplies(r)
  PROVE  Careful(r)
<1>1. PICK C : C = run[r].changed
  OBVIOUS
<1>2. /\ relay' = relay
      /\ \A c \in C : c.status = "APPLIED" => relay[c.m][rows[c.m].seq][c.i] = "applied"
  BY <1>1 DEF recordReplies, At, AInv, Told
<1>3. CASE rows' = rows
  BY <1>2, <1>3, StillCareful
<1> DEFINE Of(m, i) == {x \in C : x.m = m /\ x.i = i}
           new(m, i) == IF Of(m, i) = {} THEN rows[m].status[i] ELSE (CHOOSE x \in Of(m, i) : TRUE).status
<1>4. ASSUME rows' = [m \in Messages |-> [rows[m] EXCEPT !.status = [i \in Lines |-> new(m, i)]]]
      PROVE  Careful(r)
  <2>1. ASSUME NEW m \in Messages, NEW i \in Lines, new(m, i) = "APPLIED"
        PROVE  relay[m][rows[m].seq][i] = "applied"
    <3>1. CASE Of(m, i) = {}
      BY <2>1, <3>1 DEF AInv, Truthful
    <3>2. CASE Of(m, i) # {}
      <4>1. PICK x \in Of(m, i) : x = CHOOSE z \in Of(m, i) : TRUE
        BY <3>2
      <4>2. x \in C /\ x.m = m /\ x.i = i /\ x.status = "APPLIED"
        BY <2>1, <3>2, <4>1
      <4> QED
        BY <1>2, <4>2
    <3> QED
      BY <3>1, <3>2
  <2> HIDE DEF new
  <2>2. ASSUME NEW m \in Messages
        PROVE  /\ rows'[m].id = rows[m].id /\ rows'[m].seq = rows[m].seq
               /\ \A i \in Lines : rows'[m].status[i] = new(m, i)
    <3>1. PICK status : status = [i \in Lines |-> new(m, i)]
      OBVIOUS
    <3>2. rows'[m] = [rows[m] EXCEPT !.status = status]
      BY <1>4, <3>1
    <3>3. \A i \in Lines : status[i] = new(m, i)
      BY <3>1
    <3>4. rows[m] \in Reservation
      BY DEF IInv, Typed
    <3> QED
      BY <3>2, <3>3, <3>4 DEF Reservation
  <2> QED
    BY <1>2, <2>1, <2>2 DEF Careful, Lasting, Truthful
<1> QED
  BY <1>1, <1>3, <1>4 DEF recordReplies

LEMMA TickCareful ==
  ASSUME IInv, AInv, NEW r \in Runners, tick(r)
  PROVE  Careful(r)
<1>1. CASE UNCHANGED <<rows, relay>>
  BY <1>1, StillCareful
<1> QED
  BY <1>1, ReserveCareful, InsertRowsCareful, RewriteCareful, MarkCareful, DiscardCareful, RecordCareful
  DEF tick, acquire, releaseOrphans, keepGoing, claim, of, build, finish, release, waiting, replies,
      settle, leave, keepGoingThrows

(* The steps that come to what Told and Rowless are about. *)
LEMMA OfRowless ==
  ASSUME IInv, NEW r \in Runners, of(r)
  PROVE  Told(run[r])' /\ Rowless(run[r])'
<1>1. PICK m : m = run[r].cur
  OBVIOUS
<1>2. m \in Messages /\ rows' = rows
  BY <1>1 DEF of, At, Busy, Looking, IInv, Mem, InHand
<1>3. CASE SendRows(r, rows[m])
  BY <1>3, SendSettling DEF Settling, Told, Rowless
<1>4. CASE Goto(r, "build") /\ Present(rows[m]) = {}
  <2>1. PICK y : Goes(r, y) /\ y.pc = "build" /\ y.cur = run[r].cur
    BY <1>4, PcTo DEF Steps
  <2>2. rows[m].id = 0
    BY <1>2, <1>4, NoSuchRows, NoRowsTyped
  <2> QED
    BY <1>1, <1>2, <2>1, <2>2 DEF Goes, Told, Rowless
<1> QED
  BY <1>1, <1>3, <1>4 DEF of

LEMMA BuildRowless ==
  ASSUME IInv, NEW r \in Runners, build(r), Rowless(run[r])
  PROVE  Told(run[r])' /\ Rowless(run[r])'
<1>1. rows[run[r].cur].id = 0 /\ rows' = rows
  BY DEF build, At, Rowless
<1>2. CASE FinishAs(r, "FAILED") \/ FinishAs(r, "DONE") \/ postpone(r)
  <2>1. PICK y : Goes(r, y) /\ y.pc = "finish" /\ y.cur = run[r].cur
    BY <1>2, Finishing DEF postpone, MsgStatus
  <2> QED
    BY <1>1, <2>1 DEF Goes, Told, Rowless
<1>3. ASSUME NEW last, run' = [run EXCEPT ![r].last = last, ![r].pc = "reserve"]
      PROVE  Told(run[r])' /\ Rowless(run[r])'
  <2>1. PICK y : y = [run[r] EXCEPT !.last = last, !.pc = "reserve"]
    OBVIOUS
  <2>2. Goes(r, y)
    BY <1>3, <2>1, GoesOn
  <2>3. y.pc = "reserve" /\ y.cur = run[r].cur
    BY <2>1 DEF IInv, Mem, Fields
  <2> QED
    BY <1>1, <2>2, <2>3 DEF Goes, Told, Rowless
<1> QED
  BY <1>2, <1>3 DEF build

LEMMA WaitingTold ==
  ASSUME IInv, NEW r \in Runners, waiting(r)
  PROVE  Told(run[r])' /\ Rowless(run[r])'
<1>1. PICK S : /\ S \subseteq WaitingRows
               /\ run' = [run EXCEPT ![r].pc = "replies", ![r].seen = S]
  BY DEF waiting
<1>2. PICK y : y = [run[r] EXCEPT !.pc = "replies", !.seen = S]
  OBVIOUS
<1>3. Goes(r, y)
  BY <1>1, <1>2, GoesOn
<1>4. y.pc = "replies" /\ y.seen = S
  BY <1>2 DEF IInv, Mem, Fields
<1>5. ASSUME NEW w \in S PROVE w.i \in Lines /\ w.seq = rows[w.m].seq /\ w.status # "APPLIED"
  <2>1. w \in WaitingRows
    BY <1>1
  <2>2. PICK m \in Messages, i \in Lines :
          /\ rows[m].status[i] \in {"INSERTED", "REJECTED"}
          /\ w = [m |-> m, i |-> i, id |-> rows[m].id, seq |-> rows[m].seq, status |-> rows[m].status[i]]
    BY <2>1 DEF WaitingRows, RowsWith
  <2> QED
    BY <2>2
<1>6. rows' = rows
  BY DEF waiting
<1> QED
  BY <1>3, <1>4, <1>5, <1>6 DEF Goes, Told, Rowless

LEMMA RepliesTold ==
  ASSUME IInv, NEW r \in Runners, replies(r), Told(run[r])
  PROVE  Told(run[r])' /\ Rowless(run[r])'
<1>1. /\ UNCHANGED <<rows, relay>>
      /\ \A w \in run[r].seen : w.i \in Lines /\ w.seq = rows[w.m].seq /\ w.status # "APPLIED"
  BY DEF replies, At, Told
<1>2. CASE EndTick(r)
  BY <1>2, EndTickEnds, EndSettling DEF Settling, Told, Rowless
<1>3. PICK D : D = {w \in run[r].seen : Answer(w) # w.status}
  OBVIOUS
<1>4. PICK C : C = {[m |-> w.m, i |-> w.i, id |-> w.id, status |-> Answer(w)] : w \in D}
  OBVIOUS
<1>5. CASE run' = [run EXCEPT ![r].pc = "record", ![r].seen = {}, ![r].changed = C]
  <2>1. PICK y : y = [run[r] EXCEPT !.pc = "record", !.seen = {}, !.changed = C]
    OBVIOUS
  <2>2. Goes(r, y)
    BY <1>5, <2>1, GoesOn
  <2>3. y.pc = "record" /\ y.changed = C
    BY <2>1 DEF IInv, Mem, Fields
  <2>4. ASSUME NEW c \in C
        PROVE  c.i \in Lines /\ (c.status = "APPLIED" => relay[c.m][rows[c.m].seq][c.i] = "applied")
    <3>1. PICK w \in D : c = [m |-> w.m, i |-> w.i, id |-> w.id, status |-> Answer(w)]
      BY <1>4, <2>4
    <3>2. w.i \in Lines /\ w.seq = rows[w.m].seq /\ w.status # "APPLIED"
      BY <1>1, <1>3
    <3>3. Answer(w) = "APPLIED" => relay[w.m][w.seq][w.i] = "applied"
      BY <3>2 DEF Answer
    <3> QED
      BY <3>1, <3>2, <3>3
  <2> QED
    BY <1>1, <2>2, <2>3, <2>4 DEF Goes, Told, Rowless
<1> QED
  BY <1>2, <1>3, <1>4, <1>5 DEF replies

LEMMA TickTold ==
  ASSUME IInv, AInv, NEW r \in Runners, tick(r)
  PROVE  Told(run[r])' /\ (~ stalled => Rowless(run[r])')
<1>1. CASE of(r)
  BY <1>1, OfRowless
<1>2. CASE build(r)
  <2>1. Told(run[r])'
    <3>1. CASE FinishAs(r, "FAILED") \/ FinishAs(r, "DONE") \/ postpone(r)
      BY <3>1, Finishing DEF postpone, MsgStatus, Goes, Told
    <3>2. ASSUME NEW last, run' = [run EXCEPT ![r].last = last, ![r].pc = "reserve"]
          PROVE  Told(run[r])'
      <4>1. PICK y : y = [run[r] EXCEPT !.last = last, !.pc = "reserve"]
        OBVIOUS
      <4>2. Goes(r, y) /\ y.pc = "reserve"
        BY <3>2, <4>1, GoesOn DEF IInv, Mem, Fields
      <4> QED
        BY <4>2 DEF Goes, Told
    <3> QED
      BY <1>2, <3>1, <3>2 DEF build
  <2> QED
    BY <1>2, <2>1, BuildRowless DEF AInv
<1>3. CASE waiting(r)
  BY <1>3, WaitingTold
<1>4. CASE replies(r)
  BY <1>4, RepliesTold DEF AInv
<1>5. CASE Settling(r)
  BY <1>5 DEF Settling, Told, Rowless
<1> QED
  BY <1>1, <1>2, <1>3, <1>4, <1>5, TickSettling
-----------------------------------------------------------------------------
(* A step of a runner, and what the others make of it. *)

LEMMA TickOthers ==
  ASSUME NEW r \in Runners, tick(r), NEW q \in Runners \ {r}, DOMAIN run = Runners
  PROVE  run'[q] = run[q]
<1>1. CASE acquire(r) \/ releaseOrphans(r) \/ keepGoing(r) \/ claim(r)
  BY <1>1 DEF acquire, releaseOrphans, keepGoing, claim, Goto
<1>2. CASE of(r) \/ build(r) \/ reserve(r)
  BY <1>2 DEF of, build, reserve, SendRows, Goto, FinishAs, postpone
<1>3. CASE insertRows(r) \/ markInserted(r) \/ discard(r)
  BY <1>3 DEF insertRows, markInserted, discard, Goto, FinishAs, EndTick, postpone
<1>4. CASE rewrite(r) \/ markRewritten(r) \/ finish(r) \/ release(r)
  BY <1>4 DEF rewrite, markRewritten, finish, release, FinishAs, EndTick, postpone
<1>5. CASE waiting(r) \/ replies(r) \/ recordReplies(r) \/ settle(r)
  BY <1>5 DEF waiting, replies, recordReplies, settle, EndTick
<1>6. CASE leave(r) \/ keepGoingThrows(r)
  BY <1>6 DEF leave, keepGoingThrows, Goto, EndTick
<1> QED
  BY <1>1, <1>2, <1>3, <1>4, <1>5, <1>6 DEF tick

(* Nobody has a message in hand that is done. *)
LEMMA DoneIsFree ==
  ASSUME DInv, ~ stalled, NEW r \in Runners, NEW m \in Messages, msg[m].status = "DONE"
  PROVE  run[r].cur # m
<1>1. msg[m].lockedBy = NoRunner
  BY LockedIsProcessing DEF DInv
<1> QED
  BY <1>1, ErpSendAssumption DEF DInv, Exclusive, Locked

LEMMA OverStill ==
  ASSUME DInv, AInv, ~ stalled, NEW r \in Runners, Careful(r), NEW m \in Messages,
         msg'[m].status = "DONE" => msg[m].status = "DONE"
  PROVE  Over(m)'
BY DoneIsFree DEF Over, AInv, Careful

(* Another runner has another message in hand. *)
LEMMA RowlessStill ==
  ASSUME DInv, AInv, ~ stalled, NEW r \in Runners, Careful(r), NEW q \in Runners \ {r}, run'[q] = run[q]
  PROVE  Rowless(run[q])'
<1>1. Rowless(run[q])
  BY DEF AInv
<1>2. SUFFICES ASSUME run[q].pc \in {"build", "reserve", "finish"}
               PROVE  rows'[run[q].cur].id = rows[run[q].cur].id
  BY <1>1 DEF Rowless
<1>3. run[q].cur \in Messages
  BY <1>2 DEF DInv, IInv, Mem, InHand, Busy, Looking
<1>4. run[r].cur # run[q].cur
  BY <1>3 DEF DInv, Exclusive, Locked
<1> QED
  BY <1>3, <1>4 DEF Careful

LEMMA RunnerStep ==
  ASSUME DInv, AInv, NEW r \in Runners, Careful(r), stalled' = stalled,
         \A q \in Runners \ {r} : run'[q] = run[q],
         Told(run[r])', ~ stalled => Rowless(run[r])',
         ~ stalled => \A m \in Messages : Over(m)'
  PROVE  AInv'
<1>1. IInv /\ Lasting
  BY DEF DInv, Careful
<1>2. \A q \in Runners : Told(run[q])'
  BY <1>1, ToldKept DEF AInv
<1>3. ~ stalled => \A q \in Runners : Rowless(run[q])'
  BY RowlessStill
<1> QED
  BY <1>2, <1>3 DEF AInv, Careful

(* A message without rows, or with all its rows applied. *)
LEMMA NothingSent ==
  ASSUME DInv, ~ stalled, NEW m \in Messages, rows[m].id = 0
  PROVE  \A s \in Seqs : \A i \in Lines : relay[m][s][i] = "absent"
BY DEF DInv, Exclusive, OneSeq, Absent

LEMMA AllOfItApplied ==
  ASSUME DInv, AInv, ~ stalled, NEW m \in Messages, \A i \in Lines : rows[m].status[i] = "APPLIED"
  PROVE  \A s \in Seqs : \A i \in Lines : relay[m][s][i] \in {"absent", "applied"}
<1>1. ASSUME NEW s \in Seqs, NEW i \in Lines PROVE relay[m][s][i] \in {"absent", "applied"}
  <2>1. CASE Absent(m, s)
    BY <2>1 DEF Absent
  <2>2. CASE s = rows[m].seq
    BY <2>2 DEF AInv, Truthful
  <2> QED
    BY <2>1, <2>2 DEF DInv, Exclusive, OneSeq
<1> QED
  BY <1>1

LEMMA FinishOver ==
  ASSUME DInv, AInv, ~ stalled, NEW r \in Runners, finish(r), NEW m \in Messages
  PROVE  Over(m)'
<1>1. PICK c, out : c = run[r].cur /\ out = run[r].out
  OBVIOUS
<1>2. UNCHANGED <<rows, relay>> /\ run[r].pc = "finish"
  BY DEF finish, At
<1>3. CASE msg'[m] = msg[m]
  BY <1>2, <1>3 DEF AInv, Over
<1>4. CASE m = c /\ msg'[m].status = out
  <2>1. SUFFICES ASSUME out = "DONE" PROVE Over(m)'
    BY <1>4 DEF Over
  <2>2. rows[m].id = 0
    BY <1>1, <1>2, <1>4, <2>1 DEF AInv, Rowless
  <2> QED
    BY <1>2, <2>2, NothingSent DEF Over
<1>5. msg \in [Messages -> MsgType]
  BY DEF DInv, IInv, Typed
<1>6. PICK b : b = (out # "PENDING")
  OBVIOUS
<1>7. PICK new : new = [status |-> out, lockedBy |-> NoRunner, stale |-> FALSE, due |-> b]
  OBVIOUS
<1>8. new.status = out
  BY <1>7
<1>9. msg' = msg \/ msg' = [msg EXCEPT ![c] = new]
  BY <1>1, <1>6, <1>7 DEF finish
<1> QED
  BY <1>3, <1>4, <1>5, <1>8, <1>9

LEMMA SettleOver ==
  ASSUME DInv, AInv, ~ stalled, NEW r \in Runners, settle(r), NEW m \in Messages
  PROVE  Over(m)'
<1>1. PICK n \in run[r].todo :
        msg' = IF msg[n].lockedBy = NoRunner THEN [msg EXCEPT ![n].status = Settled(n)] ELSE msg
  BY DEF settle
<1>2. UNCHANGED <<rows, relay>> /\ n \in Messages /\ Sent(n)
  BY <1>1 DEF settle, At, DInv, IInv, Mem, Fields, Answers
<1>3. CASE msg'[m] = msg[m]
  BY <1>2, <1>3 DEF AInv, Over
<1>4. CASE m = n /\ msg'[m].status = Settled(m)
  <2>1. SUFFICES ASSUME Settled(m) = "DONE", msg[m].status # "DONE" PROVE Over(m)'
    BY <1>2, <1>4 DEF AInv, Over
  <2>2. Present(rows[m]) = Lines
    BY <1>2, <1>4 DEF Sent, Present, Away
  <2>3. \A i \in Lines : rows[m].status[i] = "APPLIED"
    BY <2>1, <2>2 DEF Settled
  <2> QED
    BY <1>2, <2>3, AllOfItApplied DEF Over
<1>5. Settled(n) \in MsgStatus
  BY <1>2, SettledStatus DEF DInv, IInv, Typed, MsgType
<1> QED
  BY <1>1, <1>2, <1>3, <1>4, <1>5, StatusChange DEF DInv

LEMMA TickOver ==
  ASSUME DInv, AInv, ~ stalled, NEW r \in Runners, tick(r), Careful(r), NEW m \in Messages
  PROVE  Over(m)'
<1>1. msg[m] \in MsgType
  BY DEF DInv, IInv, Typed
<1>2. CASE finish(r)
  BY <1>2, FinishOver
<1>3. CASE settle(r)
  BY <1>3, SettleOver
<1>4. CASE msg' = msg
  BY <1>4, OverStill
<1>5. CASE releaseOrphans(r)
  BY <1>1, <1>5, OverStill DEF releaseOrphans, MsgType
<1>6. CASE claim(r)
  <2>1. msg'[m] = msg[m] \/ msg'[m] = Passed(msg[m], "PROCESSING", r)
    BY <1>6 DEF claim, Passed
  <2>2. Passed(msg[m], "PROCESSING", r).status = "PROCESSING"
    BY <1>1 DEF Passed, MsgType
  <2> QED
    BY <2>1, <2>2, OverStill
<1>7. CASE release(r)
  BY <1>1, <1>7, OverStill DEF release, MsgType
<1> QED
  BY <1>2, <1>3, <1>4, <1>5, <1>6, <1>7
  DEF tick, acquire, keepGoing, of, build, reserve, insertRows, markInserted, discard, rewrite,
      markRewritten, waiting, replies, recordReplies, leave, keepGoingThrows

LEMMA TickAInv ==
  ASSUME DInv, AInv, NEW r \in Runners, tick(r)
  PROVE  AInv'
<1>1. IInv /\ DOMAIN run = Runners
  BY DEF DInv, IInv, Typed
<1>2. Careful(r) /\ stalled' = stalled /\ Told(run[r])' /\ (~ stalled => Rowless(run[r])')
  BY <1>1, TickCareful, TickNoStall, TickTold
<1>3. \A q \in Runners \ {r} : run'[q] = run[q]
  BY <1>1, TickOthers
<1>4. ~ stalled => \A m \in Messages : Over(m)'
  BY <1>2, TickOver
<1> QED
  BY <1>2, <1>3, <1>4, RunnerStep

LEMMA EndAInv ==
  ASSUME DInv, AInv, NEW r \in Runners, statementFails(r) \/ stop(r) \/ Crash(r)
  PROVE  AInv'
<1>1. IInv /\ DOMAIN run = Runners /\ run[r] \in {run[r]}
  BY DEF DInv, IInv, Typed
<1>2. UNCHANGED <<msg, rows, relay, stalled>>
  BY DEF statementFails, stop, Crash
<1>3. \A q \in Runners \ {r} : run'[q] = run[q]
  BY <1>1 DEF statementFails, stop, Crash, FinishAs, EndTick
<1>4. Careful(r)
  BY <1>1, <1>2, StillCareful
<1>5. Told(run[r])' /\ (~ stalled => Rowless(run[r])')
  <2>1. CASE statementFails(r)
    <3>1. Settling(r)
      BY <1>1, <2>1, FinishSettling, EndTickEnds, EndSettling DEF statementFails, MsgStatus
    <3> QED
      BY <3>1 DEF Settling, Told, Rowless
  <2>2. CASE Crash(r)
    <3>1. run'[r].pc = "down"
      BY <1>1, <2>2, DownFields DEF Crash
    <3> QED
      BY <3>1 DEF Told, Rowless
  <2>3. CASE stop(r)
    <3>1. PICK y : y = [run[r] EXCEPT !.stopping = TRUE]
      OBVIOUS
    <3>2. run'[r] = y
      BY <1>1, <2>3, <3>1 DEF stop
    <3>3. /\ y.pc = run[r].pc /\ y.cur = run[r].cur /\ y.out = run[r].out
          /\ y.seen = run[r].seen /\ y.changed = run[r].changed
      BY <1>1, <3>1 DEF IInv, Mem, Fields
    <3> QED
      BY <1>2, <3>2, <3>3 DEF AInv, Told, Rowless
  <2> QED
    BY <2>1, <2>2, <2>3
<1>6. ~ stalled => \A m \in Messages : Over(m)'
  BY <1>2, <1>4, OverStill
<1> QED
  BY <1>2, <1>3, <1>4, <1>5, <1>6, RunnerStep

(* Steps of users and of time change nothing but status and locks. *)
LEMMA QuietAInv ==
  ASSUME DInv, AInv, UNCHANGED <<rows, relay, run>>, stalled => stalled',
         \A m \in Messages : msg'[m].status = "DONE" => msg[m].status = "DONE"
  PROVE  AInv'
BY DEF AInv, Truthful, Told, Rowless, Over

LEMMA ErpAInv ==
  ASSUME DInv, AInv, NEW m \in Messages, NEW s \in Seqs, NEW i \in Lines,
         erpApplies(m, s, i) \/ erpRejects(m, s, i) \/ erpClears(m, s, i)
  PROVE  AInv'
<1>1. PICK to : /\ relay[m][s][i] \in {"new", "error"}
                /\ relay' = [relay EXCEPT ![m][s][i] = to]
                /\ UNCHANGED <<msg, rows, run, stalled>>
  BY DEF erpApplies, erpRejects, erpClears, ErpStep
<1>2. \A n \in Messages : \A t \in Seqs : \A j \in Lines :
        n # m \/ t # s \/ j # i => relay'[n][t][j] = relay[n][t][j]
  BY <1>1 DEF DInv, IInv, Typed, RelayType
<1>3. Lasting
  BY <1>1, <1>2 DEF Lasting
<1>4. ASSUME NEW n \in Messages PROVE Truthful(n)'
  <2>1. SUFFICES ASSUME NEW j \in Lines, rows[n].status[j] = "APPLIED"
                 PROVE  relay'[n][rows[n].seq][j] = "applied"
    BY <1>1 DEF Truthful
  <2>2. rows[n].seq \in Seqs
    BY <2>1 DEF DInv, IInv, RowsFit, NoRows
  <2> QED
    BY <1>3, <2>1, <2>2 DEF AInv, Truthful, Lasting
<1>5. \A q \in Runners : Told(run[q])'
  BY <1>1, <1>3, ToldKept DEF AInv, DInv
<1>6. \A q \in Runners : Rowless(run[q]) => Rowless(run[q])'
  BY <1>1 DEF Rowless
<1>7. ~ stalled => \A n \in Messages : Over(n)'
  BY <1>1, <1>2 DEF AInv, Over
<1> QED
  BY <1>1, <1>4, <1>5, <1>6, <1>7 DEF AInv

LEMMA InitAInv == Init => AInv
<1> SUFFICES ASSUME Init PROVE AInv
  OBVIOUS
<1>1. \A m \in Messages : Truthful(m) /\ Over(m)
  BY DEF Init, NoRows, Truthful, Over
<1>2. ASSUME NEW r \in Runners PROVE run[r].pc \in {"idle", "down"}
  <2>1. NoRun.pc = "idle"
    BY DEF NoRun
  <2>2. Down.pc = "down"
    BY DownFields DEF Down
  <2> HIDE DEF NoRun, Down
  <2> QED
    BY <2>1, <2>2 DEF Init
<1> QED
  BY <1>1, <1>2 DEF AInv, Told, Rowless

LEMMA NextAInv == DInv /\ AInv /\ [Next]_vars => AInv'
<1> SUFFICES ASSUME DInv, AInv, [Next]_vars PROVE AInv'
  OBVIOUS
<1>1. msg \in [Messages -> MsgType]
  BY DEF DInv, IInv, Typed
<1>2. ASSUME NEW r \in Runners, tick(r) \/ statementFails(r) \/ stop(r) \/ Crash(r) PROVE AInv'
  BY <1>2, TickAInv, EndAInv
<1>3. ASSUME NEW m \in Messages, lockAges(m) \/ backoffEnds(m) \/ enqueue(m) \/ retry(m) PROVE AInv'
  <2>1. UNCHANGED <<rows, relay, run>> /\ (stalled => stalled')
    BY <1>3 DEF lockAges, backoffEnds, enqueue, retry, Overtakes
  <2>2. \A n \in Messages : msg'[n].status = "DONE" => msg[n].status = "DONE"
    BY <1>1, <1>3 DEF lockAges, backoffEnds, enqueue, retry, MsgType
  <2> QED
    BY <2>1, <2>2, QuietAInv
<1>4. ASSUME NEW m \in Messages, NEW s \in Seqs, NEW i \in Lines,
             erpApplies(m, s, i) \/ erpRejects(m, s, i) \/ erpClears(m, s, i)
      PROVE  AInv'
  BY <1>4, ErpAInv
<1>5. CASE leaseExpires \/ UNCHANGED vars
  BY <1>5, QuietAInv DEF leaseExpires, Overtakes, vars
<1> QED
  BY <1>2, <1>3, <1>4, <1>5 DEF Next

(* Without stalls a message is DONE only when the ERP has applied whatever  *)
(* of it is in the relay: an answer is recorded only for a row the relay    *)
(* has it for, an applied row stays applied, and who finishes a message     *)
(* without rows has it locked while it builds it (build, finish, replies,   *)
(* recordReplies, settle).                                                  *)
THEOREM SpecDoneMeansApplied == Spec => []DoneMeansApplied
<1>1. AInv => DoneMeansApplied
  BY DEF AInv, Over, DoneMeansApplied
<1> QED
  BY <1>1, InitDInv, NextDInv, InitAInv, NextAInv, PTL DEF Spec
=============================================================================
