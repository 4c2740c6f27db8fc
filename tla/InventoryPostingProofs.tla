----------------------- MODULE InventoryPostingProofs -----------------------
(***************************************************************************)
(* InventoryPosting keeps its types, two reversals of one posting do not   *)
(* collide, committed stock is the sum of the committed ledger, programs   *)
(* that lock first deadlock over new rows only, and checked issues do not  *)
(* meet the trigger, for any number of transactions, rows and postings.    *)
(*                                                                         *)
(* Reversals: the argument is the one of the comment in reverse(), the two *)
(* meet on the balance rows.  A reversal that has passed its locks holds   *)
(* every row that the posting touched (Covered) - they all exist, since a  *)
(* posting creates the rows it moves (Written, Kept) and none is ever      *)
(* deleted.  A reversal that has been written but not committed holds them *)
(* too (Holding).  So when the reread under the locks finds no reversal,   *)
(* there is none, and nobody else can write one (Clear).                   *)
(*                                                                         *)
(* Stock: a row differs from its saved version by what its holder has      *)
(* moved so far (Balanced), and by nothing if nobody holds it (Untouched). *)
(* A commit adds the ends of its lines to the committed ledger and the     *)
(* rows it holds to the saved ones.  The sums are those of                 *)
(* SumFunctionOnSet, a fold, which is first shown to add up.               *)
(*                                                                         *)
(* Deadlock: of the rows that were there before (Fixed), an ordered        *)
(* program that has written a header holds all it will ask for (Secured,   *)
(* Kept1st, HasPosted; Reversible: what a reversal takes back is known     *)
(* beforehand), so that in a cycle over such rows all wait to lock one;    *)
(* each holds lesser ones than that (Ordered), and ids are bounded.        *)
(*                                                                         *)
(* The trigger: the rows are always as it wants them (Valid), and who has  *)
(* checked the sum of its lines still has what they have yet to take       *)
(* (Passed, Enough).                                                       *)
(***************************************************************************)
EXTENDS InventoryPosting, FiniteSetTheorems, WellFoundedInduction, TLAPS

(* A call of post, reverse or lock has begun and is not over. *)
Busy == {"snapshot", "locking", "locked", "insert", "lines"}
Original(t)  == <<Cur(t).key, "post">>
Reversing(t) == step[t] \in Busy /\ Cur(t).op = "reverse"

(* The statement a transaction is at fits the call it is in. *)
Sane(t) ==
  /\ step[t] \notin {"idle", "over"} => prog[t] \in Programs
  /\ call[t] >= 1
  /\ step[t] # "over" => outcome[t] = "none"
  /\ step[t] \in Busy => call[t] <= Len(prog[t]) /\ Cur(t).op \in {"post", "reverse", "lock"}
  /\ step[t] = "locked" => Cur(t).op \in {"reverse", "lock"}
  /\ step[t] \in {"insert", "lines"} => Cur(t).op \in {"post", "reverse"}

(* A reversal sees what it reverses, and holds the rows of it that it has  *)
(* not still to lock.                                                      *)
Covered(t) ==
  Reversing(t) =>
    /\ SeenBy(t, Original(t))
    /\ step[t] # "snapshot" =>
         \A d \in Ends(header[Original(t)].lines) :
           lock[d] = t \/ (step[t] = "locking" /\ d \in toLock[t])

(* While lines are moved, the header is the transaction's own. *)
Moving(t) ==
  step[t] = "lines" =>
    /\ header[HeaderOf(t)] = [lines |-> LinesOf(t), writer |-> t]
    /\ cursor[t][1] \in DOMAIN LinesOf(t)

(* move() has not come to this side of this line yet. *)
Pending(t, h, i, side) ==
  /\ step[t] = "lines" /\ h = HeaderOf(t)
  /\ \/ i > cursor[t][1]
     \/ i = cursor[t][1] /\ (cursor[t][2] = "from" \/ side = "to")

(* The rows of the lines moved so far exist and are held. *)
Written(t) ==
  \A h \in Headers : header[h].writer = t =>
    \A i \in DOMAIN header[h].lines : \A side \in {"from", "to"} :
      \/ header[h].lines[i][side] = NoDim
      \/ Pending(t, h, i, side)
      \/ lock[header[h].lines[i][side]] = t /\ row[header[h].lines[i][side]].id # 0

(* Whoever has written a reversal holds the rows of the posting. *)
Holding(t) ==
  \A k \in Keys : header[<<k, "reversal">>].writer = t =>
    /\ SeenBy(t, <<k, "post">>)
    /\ \A d \in Ends(header[<<k, "post">>].lines) : lock[d] = t

(* What is said of one transaction and survives the steps of the others. *)
TxInv(t) == Sane(t) /\ Covered(t) /\ Moving(t) /\ Written(t) /\ Holding(t)

(* A reversal about to be inserted is the first. *)
Clear(t) ==
  step[t] = "insert" /\ Cur(t).op = "reverse" => header[HeaderOf(t)] = NoHeader

(* A header without lines is one that is not there. *)
Whole == \A h \in Headers : header[h].lines = <<>> => header[h].writer = NoTx

(* The rows of committed postings exist. *)
Kept ==
  /\ nextId > 0
  /\ \A d \in Dims : saved[d].id # 0 => row[d].id # 0
  /\ \A h \in Headers : header[h].writer = NoTx =>
       \A d \in Ends(header[h].lines) : saved[d].id # 0

IInv ==
  /\ TypeOK
  /\ Whole
  /\ Kept
  /\ \A t \in Txs : TxInv(t) /\ Clear(t)
-----------------------------------------------------------------------------
(* Facts about the operators. *)

(* The two ends of a line are dimensions, or missing. *)
LEMMA LineEnds ==
  ASSUME NEW lines \in Seq(Lines), NEW i \in DOMAIN lines, NEW side \in {"from", "to"}
  PROVE  /\ lines[i] \in Lines
         /\ lines[i][side] \in Dims \cup {NoDim}
         /\ lines[i][side] # NoDim => lines[i][side] \in Ends(lines)
<1>1. lines[i] \in Lines
  OBVIOUS
<1>2. lines[i].from \in Dims \cup {NoDim} /\ lines[i].to \in Dims \cup {NoDim}
  BY <1>1 DEF Lines
<1>3. CASE side = "from"
  BY <1>1, <1>2, <1>3 DEF Ends
<1>4. CASE side = "to"
  BY <1>1, <1>2, <1>4 DEF Ends
<1> QED BY <1>3, <1>4

(* Every member of Ends is a side of some line, and a dimension. *)
LEMMA EndsAreSides ==
  ASSUME NEW lines \in Seq(Lines), NEW d \in Ends(lines)
  PROVE  /\ d \in Dims /\ d # NoDim
         /\ \E i \in DOMAIN lines, side \in {"from", "to"} : d = lines[i][side]
<1>1. PICK i \in DOMAIN lines : d = lines[i].from \/ d = lines[i].to
  BY DEF Ends
<1>2. lines[i] \in Lines
  OBVIOUS
<1> QED BY <1>1, <1>2 DEF Ends, Lines

(* A posting that has lines touches a row (ck_inventory_transaction_direction). *)
LEMMA SomeEnd ==
  ASSUME NEW lines \in Seq(Lines), lines # <<>>
  PROVE  \E d \in Dims : d \in Ends(lines)
<1>1. 1 \in DOMAIN lines
  OBVIOUS
<1>2. lines[1] \in Lines
  BY <1>1
<1>3. lines[1].from # NoDim \/ lines[1].to # NoDim
  BY <1>2 DEF Lines
<1>4. CASE lines[1].from # NoDim
  BY <1>1, <1>2, <1>4 DEF Ends, Lines
<1>5. CASE lines[1].to # NoDim
  BY <1>1, <1>2, <1>5 DEF Ends, Lines
<1> QED BY <1>3, <1>4, <1>5

(* A reversal touches the rows of the posting and no others. *)
LEMMA ReversedLines ==
  ASSUME NEW lines \in Seq(Lines)
  PROVE  LET back == [i \in DOMAIN lines |-> reversedLine(lines[i])]
         IN  /\ back \in Seq(Lines)
             /\ back = <<>> => lines = <<>>
             /\ Ends(back) = Ends(lines)
<1> DEFINE back == [i \in DOMAIN lines |-> reversedLine(lines[i])]
<1>1. \A i \in DOMAIN lines : /\ reversedLine(lines[i]) \in Lines
                              /\ reversedLine(lines[i]).from = lines[i].to
                              /\ reversedLine(lines[i]).to = lines[i].from
  <2> TAKE i \in DOMAIN lines
  <2>1. lines[i] \in Lines
    OBVIOUS
  <2> QED BY <2>1 DEF Lines, reversedLine
<1>2. DOMAIN lines = 1 .. Len(lines) /\ Len(lines) \in Nat
  OBVIOUS
<1>3. back \in Seq(Lines) /\ Len(back) = Len(lines)
  BY <1>1, <1>2
<1>4. Ends(back) = Ends(lines)
  BY <1>1 DEF Ends
<1> QED BY <1>2, <1>3, <1>4

(* The call a transaction is in is one of its program. *)
LEMMA CallFacts ==
  ASSUME NEW t \in Txs, TypeOK, Sane(t), step[t] \notin {"idle", "over"}, call[t] <= Len(prog[t])
  PROVE  /\ Cur(t) \in Call
         /\ CallOK(Cur(t))
<1>1. prog[t] \in Programs /\ prog[t] \in Seq(Call)
  BY InventoryPostingAssumption DEF Sane
<1>2. call[t] \in DOMAIN prog[t]
  BY <1>1 DEF TypeOK, Sane
<1> QED BY <1>1, <1>2, InventoryPostingAssumption DEF Cur

(* What the lines of a post or reverse are. *)
LEMMA LinesFacts ==
  ASSUME NEW t \in Txs, TypeOK, Sane(t), step[t] \notin {"idle", "over"}, call[t] <= Len(prog[t]),
         Cur(t).op \in {"post", "reverse"}
  PROVE  /\ Cur(t).key \in Keys
         /\ HeaderOf(t) \in Headers /\ Original(t) \in Headers
         /\ HeaderOf(t) = <<Cur(t).key, Cur(t).op>> \/ HeaderOf(t) = <<Cur(t).key, "reversal">>
         /\ LinesOf(t) \in Seq(Lines)
         /\ Cur(t).op = "post" => LinesOf(t) # <<>>
         /\ Cur(t).op = "reverse" /\ header[Original(t)].lines # <<>> => LinesOf(t) # <<>>
         /\ Cur(t).op = "reverse" => Ends(LinesOf(t)) = Ends(header[Original(t)].lines)
<1>1. Cur(t) \in Call /\ CallOK(Cur(t))
  BY CallFacts
<1>2. Cur(t).key \in Keys /\ Cur(t).lines \in Seq(Lines)
  BY <1>1 DEF Call, CallOK
<1>3. HeaderOf(t) \in Headers /\ Original(t) \in Headers
  BY <1>2 DEF HeaderOf, Original, Headers
<1>4. header[Original(t)].lines \in Seq(Lines)
  BY <1>3 DEF TypeOK
<1>5. CASE Cur(t).op = "post"
  BY <1>1, <1>2, <1>3, <1>5 DEF CallOK, LinesOf, HeaderOf
<1>6. CASE Cur(t).op = "reverse"
  <2> DEFINE original == header[Original(t)].lines
  <2>1. LinesOf(t) = [i \in DOMAIN original |-> reversedLine(original[i])]
    BY <1>6 DEF LinesOf, Original
  <2>2. HeaderOf(t) = <<Cur(t).key, "reversal">>
    BY <1>6 DEF HeaderOf
  <2> QED BY <2>1, <2>2, <1>2, <1>3, <1>4, <1>6, ReversedLines
<1> QED BY <1>5, <1>6

(* Two transactions cannot both hold the rows of a posting. *)
LEMMA Exclusion ==
  ASSUME NEW t \in Txs, NEW u \in Txs, NEW lines \in Seq(Lines), lines # <<>>,
         \A d \in Ends(lines) : lock[d] = t, \A d \in Ends(lines) : lock[d] = u
  PROVE  t = u
BY SomeEnd

-----------------------------------------------------------------------------
(* Every step of a transaction leaves the others, the rows they hold, what *)
(* they have written and what is committed in the ledger alone.            *)

LeavesTx(u) ==
  /\ prog'[u] = prog[u] /\ call'[u] = call[u] /\ step'[u] = step[u]
  /\ toLock'[u] = toLock[u] /\ cursor'[u] = cursor[u] /\ outcome'[u] = outcome[u]

LeavesRows(u) == \A d \in Dims : lock[d] = u => lock'[d] = u /\ row'[d] = row[d]

LeavesHeaders(u) ==
  \A h \in Headers :
    /\ header[h].writer = u => header'[h] = header[h]
    /\ header[h].writer = NoTx /\ header[h].lines # <<>> => header'[h] = header[h]
    /\ header'[h].writer = u => header'[h] = header[h]

Leaves(u) == LeavesTx(u) /\ LeavesRows(u) /\ LeavesHeaders(u)

(* A rollback puts back only rows and headers of its own transaction. *)
LEMMA AbortLeaves ==
  ASSUME TypeOK, NEW t \in Txs, NEW why \in Outcomes, Abort(t, why), NEW u \in Txs, u # t
  PROVE  Leaves(u)
<1>1. LeavesTx(u)
  BY DEF Abort, LeavesTx, TypeOK
<1>2. LeavesRows(u)
  BY InventoryPostingAssumption DEF Abort, LeavesRows, Release, TypeOK
<1>3. LeavesHeaders(u)
  BY InventoryPostingAssumption DEF Abort, LeavesHeaders, NoHeader, TypeOK
<1> QED BY <1>1, <1>2, <1>3 DEF Leaves

(* A commit touches only what its own transaction holds and has written. *)
LEMMA CommitLeaves ==
  ASSUME TypeOK, NEW t \in Txs, Commit(t), NEW u \in Txs, u # t
  PROVE  Leaves(u)
<1>1. LeavesTx(u)
  BY DEF Commit, LeavesTx, TypeOK
<1>2. LeavesRows(u)
  BY InventoryPostingAssumption DEF Commit, LeavesRows, Release, TypeOK
<1>3. LeavesHeaders(u)
  BY InventoryPostingAssumption DEF Commit, LeavesHeaders, TypeOK
<1> QED BY <1>1, <1>2, <1>3 DEF Leaves

(* An UPDATE waits for a row that another transaction holds (move, reservation-qty.ts). *)
LEMMA WriteLeaves ==
  ASSUME TypeOK, NEW t \in Txs, NEW d, NEW b, Write(t, d, b), NEW u \in Txs, u # t
  PROVE  LeavesRows(u)
BY InventoryPostingAssumption DEF Write, Free, LeavesRows, TypeOK

(* Going to another statement of the call touches nothing else. *)
LEMMA GotoLeaves ==
  ASSUME TypeOK, NEW t \in Txs, NEW s, Goto(t, s), NEW u \in Txs, u # t
  PROVE  Leaves(u)
BY DEF Goto, Leaves, LeavesTx, LeavesRows, LeavesHeaders, dbVars, TypeOK

(* Nor does going to the next call. *)
LEMMA NextCallLeaves ==
  ASSUME TypeOK, NEW t \in Txs, NextCall(t), UNCHANGED <<prog, toLock, cursor, outcome, dbVars>>,
         NEW u \in Txs, u # t
  PROVE  Leaves(u)
BY DEF NextCall, Leaves, LeavesTx, LeavesRows, LeavesHeaders, dbVars, TypeOK

(* Nor does absorbing a resend, or failing on it. *)
LEMMA AbsorbLeaves ==
  ASSUME TypeOK, NEW t \in Txs, Absorb(t), NEW u \in Txs, u # t
  PROVE  Leaves(u)
<1>1. CASE Abort(t, "posted")
  BY <1>1, AbortLeaves DEF Outcomes
<1>2. CASE NextCall(t) /\ UNCHANGED <<prog, toLock, cursor, outcome, dbVars>>
  BY <1>2, NextCallLeaves
<1> QED BY <1>1, <1>2 DEF Absorb

(* Every action of Run, and Start, leaves the others alone. *)
LEMMA StepLeaves ==
  ASSUME TypeOK, NEW t \in Txs, Start(t) \/ Run(t), NEW u \in Txs, u # t
  PROVE  Leaves(u)
<1> USE DEF Outcomes
<1>1. CASE Start(t)
  BY <1>1 DEF Start, Leaves, LeavesTx, LeavesRows, LeavesHeaders, dbVars, TypeOK
<1>2. CASE post(t)
  BY <1>2, AbsorbLeaves, AbortLeaves, GotoLeaves DEF post
<1>3. CASE reverse(t)
  BY <1>3, AbsorbLeaves, AbortLeaves, GotoLeaves DEF reverse
<1>4. CASE callerLock(t)
  BY <1>4, GotoLeaves DEF callerLock
<1>5. CASE SnapshotRows(t)
  BY <1>5 DEF SnapshotRows, Leaves, LeavesTx, LeavesRows, LeavesHeaders, dbVars, TypeOK
<1>6. CASE lockBalancesInOrder(t)
  <2>1. LeavesTx(u) /\ LeavesHeaders(u)
    BY <1>6 DEF lockBalancesInOrder, LeavesTx, LeavesHeaders, dbVars, TypeOK
  <2>2. LeavesRows(u)
    BY <1>6, InventoryPostingAssumption DEF lockBalancesInOrder, Free, LeavesRows, dbVars, TypeOK
  <2> QED BY <2>1, <2>2 DEF Leaves
<1>7. CASE ChooseRows(t)
  BY <1>7, NextCallLeaves, AbortLeaves DEF ChooseRows
<1>8. CASE RereadReversal(t)
  BY <1>8, AbsorbLeaves, AbortLeaves, GotoLeaves DEF RereadReversal
<1>9. CASE InsertHeader(t)
  <2>1. CASE Abort(t, "unique")
    BY <2>1, AbortLeaves
  <2>2. CASE /\ header[HeaderOf(t)] = NoHeader
             /\ header' = [header EXCEPT ![HeaderOf(t)] = [lines |-> LinesOf(t), writer |-> t]]
             /\ step'   = [step EXCEPT ![t] = "lines"]
             /\ cursor' = [cursor EXCEPT ![t] = <<1, "from">>]
             /\ UNCHANGED <<prog, call, toLock, outcome, row, saved, lock, nextId>>
    <3>1. LeavesTx(u) /\ LeavesRows(u)
      BY <2>2 DEF LeavesTx, LeavesRows, TypeOK
    <3>2. LeavesHeaders(u)
      BY <2>2, InventoryPostingAssumption DEF LeavesHeaders, NoHeader, TypeOK
    <3> QED BY <3>1, <3>2 DEF Leaves
  <2> QED BY <1>9, <2>1, <2>2 DEF InsertHeader
<1>10. CASE writeLine(t)
  <2>1. CASE Abort(t, "trigger")
    BY <2>1, AbortLeaves
  <2>2. CASE Advance(t) /\ UNCHANGED dbVars /\ UNCHANGED <<prog, toLock, outcome>>
    BY <2>2 DEF Advance, NextCall, Leaves, LeavesTx, LeavesRows, LeavesHeaders, dbVars, TypeOK
  <2>3. CASE /\ Write(t, Target(t), Moved(t)) /\ Advance(t)
             /\ UNCHANGED <<saved, header, prog, toLock, outcome>>
    <3>1. LeavesRows(u)
      BY <2>3, WriteLeaves
    <3>2. LeavesTx(u) /\ LeavesHeaders(u)
      BY <2>3 DEF Advance, NextCall, LeavesTx, LeavesHeaders, TypeOK
    <3> QED BY <3>1, <3>2 DEF Leaves
  <2> QED BY <1>10, <2>1, <2>2, <2>3 DEF writeLine
<1>11. CASE updateQty(t)
  <2>1. PICK d \in Cur(t).dims :
           \/ /\ Write(t, d, Updated(Cur(t), row[d]))
              /\ NextCall(t)
              /\ UNCHANGED <<prog, toLock, cursor, outcome, saved, header>>
           \/ Abort(t, "trigger")
           \/ Abort(t, "negative")
    BY <1>11 DEF updateQty
  <2>2. CASE Abort(t, "trigger") \/ Abort(t, "negative")
    BY <2>2, AbortLeaves
  <2>3. CASE /\ Write(t, d, Updated(Cur(t), row[d]))
             /\ NextCall(t)
             /\ UNCHANGED <<prog, toLock, cursor, outcome, saved, header>>
    <3>1. LeavesRows(u)
      BY <2>3, WriteLeaves
    <3>2. LeavesTx(u) /\ LeavesHeaders(u)
      BY <2>3 DEF NextCall, LeavesTx, LeavesHeaders, TypeOK
    <3> QED BY <3>1, <3>2 DEF Leaves
  <2> QED BY <2>1, <2>2, <2>3
<1>12. CASE handCheck(t)
  BY <1>12, NextCallLeaves, AbortLeaves DEF handCheck
<1>13. CASE Commit(t)
  BY <1>13, CommitLeaves
<1>14. CASE DeadlockVictim(t)
  BY <1>14, AbortLeaves DEF DeadlockVictim
<1> QED BY <1>1, <1>2, <1>3, <1>4, <1>5, <1>6, <1>7, <1>8, <1>9, <1>10, <1>11, <1>12, <1>13, <1>14
         DEF Run

(* So what holds of a transaction goes on holding while others move. *)
LEMMA OthersKeep ==
  ASSUME TypeOK, NEW u \in Txs, TxInv(u), Leaves(u)
  PROVE  TxInv(u)'
<1> USE DEF TxInv
<1>1. Cur(u)' = Cur(u) /\ HeaderOf(u)' = HeaderOf(u) /\ Original(u)' = Original(u)
  BY DEF Leaves, LeavesTx, Cur, HeaderOf, Original
<1>2. Sane(u)'
  BY <1>1 DEF Leaves, LeavesTx, Sane
<1>3. ASSUME NEW h \in Headers, SeenBy(u, h)
      PROVE  header'[h] = header[h] /\ SeenBy(u, h)'
  BY <1>3 DEF Leaves, LeavesHeaders, SeenBy
<1>4. ASSUME NEW lines \in Seq(Lines), NEW d \in Ends(lines), lock[d] = u
      PROVE  lock'[d] = u
  BY <1>4, EndsAreSides DEF Leaves, LeavesRows
<1>5. ASSUME Reversing(u)
      PROVE  /\ Original(u) \in Headers /\ header[Original(u)].lines \in Seq(Lines)
             /\ LinesOf(u)' = LinesOf(u)
             /\ header'[Original(u)] = header[Original(u)] /\ SeenBy(u, Original(u))'
  <2>1. Original(u) \in Headers
    BY <1>5, LinesFacts DEF Reversing, Busy, Sane
  <2>2. SeenBy(u, Original(u))
    BY <1>5 DEF Covered
  <2>3. header'[Original(u)] = header[Original(u)] /\ SeenBy(u, Original(u))'
    BY <1>1, <1>3, <2>1, <2>2 DEF SeenBy
  <2> QED BY <1>1, <1>5, <2>1, <2>3 DEF LinesOf, Original, Reversing, TypeOK
<1>6. Reversing(u)' <=> Reversing(u)
  BY <1>1 DEF Reversing, Leaves, LeavesTx
<1>7. Covered(u)'
  BY <1>1, <1>4, <1>5, <1>6 DEF Covered, Leaves, LeavesTx
<1>8. ASSUME step[u] = "lines"
      PROVE  HeaderOf(u) \in Headers /\ LinesOf(u)' = LinesOf(u)
  <2>1. HeaderOf(u) \in Headers
    BY <1>8, LinesFacts DEF Busy, Sane
  <2>2. CASE Cur(u).op = "post"
    BY <1>1, <2>1, <2>2 DEF LinesOf
  <2>3. CASE Cur(u).op = "reverse"
    BY <1>5, <1>8, <2>1, <2>3 DEF Reversing, Busy
  <2> QED BY <1>8, <2>2, <2>3 DEF Sane
<1>9. Moving(u)'
  BY <1>1, <1>8 DEF Moving, Leaves, LeavesTx, LeavesHeaders
<1>10. Written(u)'
  <2> SUFFICES ASSUME NEW h \in Headers, header'[h].writer = u,
                      NEW i \in DOMAIN header'[h].lines, NEW side \in {"from", "to"}
               PROVE  \/ header'[h].lines[i][side] = NoDim
                      \/ Pending(u, h, i, side)'
                      \/ lock'[header'[h].lines[i][side]] = u /\ row'[header'[h].lines[i][side]].id # 0
    BY DEF Written
  <2> DEFINE d == header[h].lines[i][side]
  <2>1. header'[h] = header[h]
    BY DEF Leaves, LeavesHeaders
  <2>2. header[h].lines \in Seq(Lines)
    BY DEF TypeOK
  <2>3. d \in Dims \cup {NoDim}
    BY <2>1, <2>2, LineEnds
  <2>4. Pending(u, h, i, side) => Pending(u, h, i, side)'
    BY <1>1 DEF Pending, Leaves, LeavesTx
  <2>5. d \in Dims /\ lock[d] = u => lock'[d] = u /\ row'[d] = row[d]
    BY DEF Leaves, LeavesRows
  <2> QED BY <2>1, <2>3, <2>4, <2>5 DEF Written
<1>11. Holding(u)'
  <2> SUFFICES ASSUME NEW k \in Keys, header'[<<k, "reversal">>].writer = u
               PROVE  /\ SeenBy(u, <<k, "post">>)'
                      /\ \A d \in Ends(header'[<<k, "post">>].lines) : lock'[d] = u
    BY DEF Holding
  <2>1. <<k, "post">> \in Headers /\ <<k, "reversal">> \in Headers
    BY DEF Headers
  <2>2. header[<<k, "reversal">>].writer = u
    BY <2>1 DEF Leaves, LeavesHeaders
  <2>3. SeenBy(u, <<k, "post">>) /\ \A d \in Ends(header[<<k, "post">>].lines) : lock[d] = u
    BY <2>2 DEF Holding
  <2>4. header[<<k, "post">>].lines \in Seq(Lines)
    BY <2>1 DEF TypeOK
  <2> QED BY <2>1, <2>3, <2>4, <1>3, <1>4
<1> QED BY <1>2, <1>7, <1>9, <1>10, <1>11

-----------------------------------------------------------------------------
(* Types. *)

(* A rollback keeps the types. *)
LEMMA AbortTypes ==
  ASSUME TypeOK, NEW t \in Txs, NEW why \in Outcomes, Abort(t, why)
  PROVE  TypeOK'
<1>1. row' \in [Dims -> Rows] /\ saved' \in [Dims -> Rows] /\ lock' \in [Dims -> Txs \cup {NoTx}]
  BY DEF Abort, Release, TypeOK
<1>2. header' \in [Headers -> [lines : Seq(Lines), writer : Txs \cup {NoTx}]]
  BY DEF Abort, NoHeader, TypeOK
<1> QED BY <1>1, <1>2 DEF Abort, TypeOK, Steps

(* An UPDATE with a well-formed row keeps the types of the rows. *)
LEMMA WriteTypes ==
  ASSUME TypeOK, NEW t \in Txs, NEW d \in Dims, NEW b \in Rows, Write(t, d, b)
  PROVE  /\ row' \in [Dims -> Rows] /\ lock' \in [Dims -> Txs \cup {NoTx}] /\ nextId' \in Nat
<1>1. [b EXCEPT !.id = IF @ = 0 THEN nextId ELSE @] \in Rows
  BY DEF Rows, TypeOK
<1>2. row' \in [Dims -> Rows] /\ lock' \in [Dims -> Txs \cup {NoTx}]
  BY <1>1 DEF Write, TypeOK
<1>3. nextId' \in Nat
  BY DEF Write, TypeOK
<1> QED BY <1>2, <1>3

(* So does going to the next call, *)
LEMMA NextCallTypes ==
  ASSUME TypeOK, NEW t \in Txs, NextCall(t), UNCHANGED <<prog, toLock, cursor, outcome, dbVars>>
  PROVE  TypeOK'
BY DEF NextCall, TypeOK, Steps, dbVars

(* going to another statement, *)
LEMMA GotoTypes ==
  ASSUME TypeOK, NEW t \in Txs, NEW s \in Steps, Goto(t, s)
  PROVE  TypeOK'
BY DEF Goto, TypeOK, dbVars

(* and absorbing a resend. *)
LEMMA AbsorbTypes ==
  ASSUME TypeOK, NEW t \in Txs, Absorb(t)
  PROVE  TypeOK'
BY AbortTypes, NextCallTypes DEF Absorb, Outcomes

(* The guards of the quantity updates keep the columns from going below zero. *)
LEMMA UpdatedType ==
  ASSUME NEW c \in Call, CallOK(c), c.op \in QtyOps, NEW b \in Rows, LowerBound(c, b)
  PROVE  Updated(c, b) \in Rows
<1>1. /\ c.qty \in Int /\ b.reserved \in Nat /\ b.picked \in Nat /\ b.onHand \in Int /\ b.id \in Nat
  BY DEF Call, Rows
<1>2. CASE c.op = "reserve"
  BY <1>1, <1>2 DEF Updated, CallOK, Rows
<1>3. CASE c.op = "pick"
  <2>1. b.picked + c.qty \in Nat
    BY <1>1, <1>3 DEF LowerBound
  <2> QED BY <1>1, <1>3, <2>1 DEF Updated, Rows
<1>4. CASE c.op = "pickReserved"
  <2>1. b.picked + c.qty \in Nat /\ b.reserved - c.qty \in Nat
    BY <1>1, <1>4 DEF LowerBound
  <2> QED BY <1>1, <1>4, <2>1 DEF Updated, Rows
<1>5. CASE c.op = "consume"
  <2>1. b.picked - c.qty \in Nat
    BY <1>1, <1>5 DEF LowerBound
  <2> QED BY <1>1, <1>5, <2>1 DEF Updated, Rows
<1> QED BY <1>2, <1>3, <1>4, <1>5 DEF QtyOps

(* move() is at a line of the header, and at a dimension or a missing end. *)
LEMMA TargetFacts ==
  ASSUME TypeOK, NEW t \in Txs, Sane(t), Moving(t), step[t] = "lines"
  PROVE  /\ LinesOf(t) \in Seq(Lines)
         /\ cursor[t][1] \in 1 .. Len(LinesOf(t)) /\ cursor[t][2] \in {"from", "to"}
         /\ Target(t) \in Dims \cup {NoDim}
         /\ Target(t) # NoDim => Moved(t) \in Rows
<1>1. LinesOf(t) \in Seq(Lines)
  BY LinesFacts DEF Sane, Busy
<1>2. cursor[t][1] \in DOMAIN LinesOf(t) /\ cursor[t][2] \in {"from", "to"}
  BY DEF Moving, TypeOK
<1>3. Target(t) \in Dims \cup {NoDim}
  BY <1>1, <1>2, LineEnds DEF Target
<1>4. LinesOf(t)[cursor[t][1]].qty \in Nat
  BY <1>1, <1>2 DEF Lines
<1>5. Target(t) # NoDim => Moved(t) \in Rows
  <2> SUFFICES ASSUME Target(t) # NoDim PROVE Moved(t) \in Rows
    OBVIOUS
  <2>1. row[Target(t)] \in Rows
    BY <1>3 DEF TypeOK
  <2> QED BY <1>4, <2>1 DEF Moved, Rows
<1> QED BY <1>1, <1>2, <1>3, <1>5

(* writeLine goes to a side of a line, or to the next call. *)
LEMMA AdvanceTypes ==
  ASSUME TypeOK, NEW t \in Txs, Sane(t), Moving(t), step[t] = "lines", Advance(t)
  PROVE  /\ call' \in [Txs -> Nat] /\ step' \in [Txs -> Steps]
         /\ cursor' \in [Txs -> Nat \X {"from", "to"}]
<1>1. cursor[t][1] \in Nat
  BY DEF TypeOK
<1>2. \/ cursor' = cursor
      \/ cursor' = [cursor EXCEPT ![t] = <<cursor[t][1], "to">>]
      \/ cursor' = [cursor EXCEPT ![t] = <<cursor[t][1] + 1, "from">>]
  BY DEF Advance
<1>3. cursor' \in [Txs -> Nat \X {"from", "to"}]
  <2> DEFINE Positions == Nat \X {"from", "to"}
  <2>1. cursor \in [Txs -> Positions]
    BY DEF TypeOK
  <2>2. <<cursor[t][1], "to">> \in Positions /\ <<cursor[t][1] + 1, "from">> \in Positions
    BY <1>1
  <2> HIDE DEF Positions
  <2>3. cursor' \in [Txs -> Positions]
    BY <1>2, <2>1, <2>2
  <2> QED BY <2>3 DEF Positions
<1>4. UNCHANGED <<step, call>> \/ NextCall(t)
  BY DEF Advance
<1>5. call' \in [Txs -> Nat]
  BY <1>4 DEF NextCall, TypeOK
<1>6. step' \in [Txs -> Steps]
  BY <1>4 DEF NextCall, TypeOK, Steps
<1> QED BY <1>3, <1>5, <1>6

(* Every action keeps the types. *)
LEMMA TypeStep ==
  ASSUME TypeOK, \A u \in Txs : TxInv(u), NEW t \in Txs, Start(t) \/ Run(t)
  PROVE  TypeOK'
<1> USE DEF Outcomes
<1>0. Sane(t) /\ Moving(t)
  BY DEF TxInv
<1>1. CASE Start(t)
  BY <1>1 DEF Start, TypeOK, Steps, dbVars
<1>2. CASE post(t)
  BY <1>2, AbsorbTypes, AbortTypes, GotoTypes DEF post, Steps
<1>3. CASE reverse(t)
  BY <1>3, AbsorbTypes, AbortTypes, GotoTypes DEF reverse, Steps
<1>4. CASE callerLock(t)
  BY <1>4, GotoTypes DEF callerLock, Steps
<1>5. CASE SnapshotRows(t)
  <2>1. toLock' \in [Txs -> SUBSET Dims]
    BY <1>5 DEF SnapshotRows, TypeOK
  <2> QED BY <1>5, <2>1 DEF SnapshotRows, TypeOK, Steps, dbVars
<1>6. CASE lockBalancesInOrder(t)
  <2>1. lock' \in [Dims -> Txs \cup {NoTx}]
    BY <1>6 DEF lockBalancesInOrder, TypeOK, dbVars
  <2>2. toLock' = toLock \/ toLock' = [toLock EXCEPT ![t] = toLock[t] \ {FirstOf(t)}]
    BY <1>6 DEF lockBalancesInOrder
  <2>3. toLock' \in [Txs -> SUBSET Dims]
    <3>1. toLock \in [Txs -> SUBSET Dims]
      BY DEF TypeOK
    <3>2. (toLock[t] \ {FirstOf(t)}) \in SUBSET Dims
      BY <3>1
    <3> QED BY <2>2, <3>1, <3>2
  <2> QED BY <1>6, <2>1, <2>3 DEF lockBalancesInOrder, TypeOK, Steps, dbVars
<1>7. CASE ChooseRows(t)
  BY <1>7, NextCallTypes, AbortTypes DEF ChooseRows
<1>8. CASE RereadReversal(t)
  BY <1>8, AbsorbTypes, AbortTypes, GotoTypes DEF RereadReversal, Steps
<1>9. CASE InsertHeader(t)
  <2>1. CASE Abort(t, "unique")
    BY <2>1, AbortTypes
  <2>2. CASE /\ header' = [header EXCEPT ![HeaderOf(t)] = [lines |-> LinesOf(t), writer |-> t]]
             /\ step'   = [step EXCEPT ![t] = "lines"]
             /\ cursor' = [cursor EXCEPT ![t] = <<1, "from">>]
             /\ UNCHANGED <<prog, call, toLock, outcome, row, saved, lock, nextId>>
    <3>1. LinesOf(t) \in Seq(Lines)
      BY <1>0, <1>9, LinesFacts DEF InsertHeader, Sane, Busy
    <3>2. header' \in [Headers -> [lines : Seq(Lines), writer : Txs \cup {NoTx}]]
      BY <2>2, <3>1 DEF TypeOK
    <3>3. <<1, "from">> \in Nat \X {"from", "to"}
      OBVIOUS
    <3>4. cursor' \in [Txs -> Nat \X {"from", "to"}]
      BY <2>2, <3>3 DEF TypeOK
    <3> QED BY <2>2, <3>2, <3>4 DEF TypeOK, Steps
  <2> QED BY <1>9, <2>1, <2>2 DEF InsertHeader
<1>10. CASE writeLine(t)
  <2>1. CASE Abort(t, "trigger")
    BY <2>1, AbortTypes
  <2>2. CASE Advance(t) /\ UNCHANGED dbVars /\ UNCHANGED <<prog, toLock, outcome>>
    BY <1>0, <1>10, <2>2, AdvanceTypes DEF writeLine, TypeOK, dbVars
  <2>3. CASE /\ Target(t) # NoDim /\ Write(t, Target(t), Moved(t)) /\ Advance(t)
             /\ UNCHANGED <<saved, header, prog, toLock, outcome>>
    <3>1. Target(t) \in Dims /\ Moved(t) \in Rows
      BY <1>0, <1>10, <2>3, TargetFacts DEF writeLine
    <3>2. row' \in [Dims -> Rows] /\ lock' \in [Dims -> Txs \cup {NoTx}] /\ nextId' \in Nat
      BY <2>3, <3>1, WriteTypes
    <3>3. /\ call' \in [Txs -> Nat] /\ step' \in [Txs -> Steps]
          /\ cursor' \in [Txs -> Nat \X {"from", "to"}]
      BY <1>0, <1>10, <2>3, AdvanceTypes DEF writeLine
    <3> QED BY <2>3, <3>2, <3>3 DEF TypeOK
  <2> QED BY <1>10, <2>1, <2>2, <2>3 DEF writeLine
<1>11. CASE updateQty(t)
  <2>1. PICK d \in Cur(t).dims :
           \/ /\ LowerBound(Cur(t), row[d])
              /\ Write(t, d, Updated(Cur(t), row[d]))
              /\ NextCall(t)
              /\ UNCHANGED <<prog, toLock, cursor, outcome, saved, header>>
           \/ Abort(t, "trigger")
           \/ Abort(t, "negative")
    BY <1>11 DEF updateQty
  <2>2. CASE Abort(t, "trigger") \/ Abort(t, "negative")
    BY <2>2, AbortTypes
  <2>3. CASE /\ LowerBound(Cur(t), row[d])
             /\ Write(t, d, Updated(Cur(t), row[d]))
             /\ NextCall(t)
             /\ UNCHANGED <<prog, toLock, cursor, outcome, saved, header>>
    <3>1. Cur(t) \in Call /\ CallOK(Cur(t)) /\ Cur(t).op \in QtyOps
      BY <1>0, <1>11, CallFacts DEF updateQty
    <3>2. d \in Dims /\ row[d] \in Rows
      BY <2>1, <3>1 DEF Call, TypeOK
    <3>3. Updated(Cur(t), row[d]) \in Rows
      BY <2>3, <3>1, <3>2, UpdatedType
    <3>4. row' \in [Dims -> Rows] /\ lock' \in [Dims -> Txs \cup {NoTx}] /\ nextId' \in Nat
      BY <2>3, <3>2, <3>3, WriteTypes
    <3> QED BY <2>3, <3>4 DEF NextCall, TypeOK, Steps
  <2> QED BY <2>1, <2>2, <2>3
<1>12. CASE handCheck(t)
  BY <1>12, NextCallTypes, AbortTypes DEF handCheck
<1>13. CASE Commit(t)
  <2>1. saved' \in [Dims -> Rows] /\ lock' \in [Dims -> Txs \cup {NoTx}]
    BY <1>13 DEF Commit, Release, TypeOK
  <2>2. header' \in [Headers -> [lines : Seq(Lines), writer : Txs \cup {NoTx}]]
    BY <1>13 DEF Commit, TypeOK
  <2> QED BY <1>13, <2>1, <2>2 DEF Commit, TypeOK, Steps
<1>14. CASE DeadlockVictim(t)
  BY <1>14, AbortTypes DEF DeadlockVictim
<1> QED BY <1>1, <1>2, <1>3, <1>4, <1>5, <1>6, <1>7, <1>8, <1>9, <1>10, <1>11, <1>12, <1>13, <1>14
         DEF Run

-----------------------------------------------------------------------------
(* The ledger and the rows of what is committed. *)

(* A rollback removes only what was not committed. *)
LEMMA AbortKeeps ==
  ASSUME TypeOK, Whole, Kept, NEW t \in Txs, NEW why \in Outcomes, Abort(t, why)
  PROVE  Whole' /\ Kept'
<1>1. \A h \in Headers : header'[h] = header[h] \/ header'[h] = NoHeader
  BY DEF Abort, TypeOK
<1>2. Whole'
  BY <1>1 DEF Whole, NoHeader
<1>3. \A d \in Dims : saved'[d].id # 0 => row'[d].id # 0
  BY DEF Abort, Kept, TypeOK
<1>4. Ends(<<>>) = {}
  BY DEF Ends
<1>5. \A h \in Headers : header'[h].writer = NoTx =>
        \A d \in Ends(header'[h].lines) : saved'[d].id # 0
  <2> SUFFICES ASSUME NEW h \in Headers, header'[h].writer = NoTx, NEW d \in Ends(header'[h].lines)
               PROVE  saved'[d].id # 0
    OBVIOUS
  <2>1. header'[h] = header[h]
    BY <1>1, <1>4 DEF NoHeader
  <2> QED BY <2>1 DEF Abort, Kept
<1> QED BY <1>2, <1>3, <1>5 DEF Kept, Abort

(* A commit makes the rows of its postings permanent: it holds them all. *)
LEMMA CommitKeeps ==
  ASSUME TypeOK, Whole, Kept, NEW t \in Txs, TxInv(t), Commit(t)
  PROVE  Whole' /\ Kept'
<1>1. \A h \in Headers : header'[h].lines = header[h].lines
  BY DEF Commit, TypeOK
<1>2. \A h \in Headers : header'[h].writer = IF header[h].writer = t THEN NoTx ELSE header[h].writer
  BY DEF Commit, TypeOK
<1>3. Whole'
  BY <1>1, <1>2 DEF Whole
<1>4. \A d \in Dims : /\ saved[d].id # 0 => saved'[d].id # 0
                      /\ lock[d] = t => saved'[d] = row[d]
                      /\ saved'[d].id # 0 => row'[d].id # 0
  BY DEF Commit, Kept, TypeOK
<1>5. ASSUME NEW h \in Headers, header'[h].writer = NoTx, NEW d \in Ends(header'[h].lines)
      PROVE  saved'[d].id # 0
  <2>1. header[h].lines \in Seq(Lines) /\ d \in Ends(header[h].lines)
    BY <1>1, <1>5 DEF TypeOK
  <2>2. d \in Dims /\ d # NoDim
    BY <2>1, EndsAreSides
  <2>3. CASE header[h].writer = t
    <3>1. PICK i \in DOMAIN header[h].lines, side \in {"from", "to"} : d = header[h].lines[i][side]
      BY <2>1, EndsAreSides
    <3>2. ~Pending(t, h, i, side)
      BY DEF Pending, Commit
    <3>3. lock[d] = t /\ row[d].id # 0
      BY <2>2, <2>3, <3>1, <3>2 DEF TxInv, Written
    <3> QED BY <1>4, <2>2, <3>3
  <2>4. CASE header[h].writer # t
    <3>1. header[h].writer = NoTx
      BY <1>2, <1>5, <2>4
    <3>2. saved[d].id # 0
      BY <2>1, <3>1 DEF Kept
    <3> QED BY <1>4, <2>2, <3>2
  <2> QED BY <2>3, <2>4
<1> QED BY <1>3, <1>4, <1>5 DEF Kept, Commit

(* An UPDATE creates the row if need be, and never removes one. *)
LEMMA WriteKeeps ==
  ASSUME TypeOK, Kept, NEW t \in Txs, NEW d \in Dims, NEW b \in Rows, Write(t, d, b),
         UNCHANGED <<saved, header>>
  PROVE  /\ Kept'
         /\ lock'[d] = t /\ row'[d].id # 0
         /\ \A e \in Dims : lock[e] = t => lock'[e] = t
         /\ \A e \in Dims : row[e].id # 0 => row'[e].id # 0
<1> DEFINE new == [b EXCEPT !.id = IF @ = 0 THEN nextId ELSE @]
<1>1. new.id # 0
  BY DEF Kept, Rows, TypeOK
<1>2. row' = [row EXCEPT ![d] = new] /\ lock' = [lock EXCEPT ![d] = t]
  BY DEF Write
<1>3. nextId' > 0
  BY DEF Write, Kept, TypeOK
<1> HIDE DEF new
<1>4. /\ lock'[d] = t /\ row'[d].id # 0
      /\ \A e \in Dims : lock[e] = t => lock'[e] = t
      /\ \A e \in Dims : row[e].id # 0 => row'[e].id # 0
  BY <1>1, <1>2 DEF TypeOK
<1> QED BY <1>3, <1>4 DEF Kept

-----------------------------------------------------------------------------
(* What a step does to the transaction that takes it. *)

(* After a commit or a rollback it holds and has written nothing. *)
LEMMA OverOwn ==
  ASSUME TypeOK, NEW t \in Txs, TxInv(t), step' = [step EXCEPT ![t] = "over"],
         UNCHANGED call, \A h \in Headers : header'[h].writer # t
  PROVE  TxInv(t)' /\ Clear(t)'
<1>1. step'[t] = "over"
  BY DEF TypeOK
<1>2. Sane(t)' /\ Covered(t)' /\ Moving(t)' /\ Clear(t)'
  BY <1>1 DEF TxInv, Sane, Covered, Moving, Clear, Reversing, Busy
<1>3. Written(t)' /\ Holding(t)'
  BY DEF Written, Holding, Headers
<1> QED BY <1>2, <1>3 DEF TxInv

(* A rollback releases every lock and removes every header of its transaction. *)
LEMMA AbortOwn ==
  ASSUME TypeOK, NEW t \in Txs, TxInv(t), NEW why \in Outcomes, Abort(t, why)
  PROVE  TxInv(t)' /\ Clear(t)'
<1>1. \A h \in Headers : header'[h].writer # t
  BY InventoryPostingAssumption DEF Abort, NoHeader, TypeOK
<1> QED BY <1>1, OverOwn DEF Abort

(* A commit releases every lock of its transaction. *)
LEMMA CommitOwn ==
  ASSUME TypeOK, NEW t \in Txs, TxInv(t), Commit(t)
  PROVE  TxInv(t)' /\ Clear(t)'
<1>1. \A h \in Headers : header'[h].writer # t
  BY InventoryPostingAssumption DEF Commit, TypeOK
<1> QED BY <1>1, OverOwn DEF Commit

(* Outside writeLine, what it has written and holds stays. *)
LEMMA WrittenStays ==
  ASSUME TypeOK, NEW t \in Txs, TxInv(t), step[t] # "lines", UNCHANGED header,
         \A d \in Dims : lock[d] = t => lock'[d] = t,
         \A d \in Dims : row[d].id # 0 => row'[d].id # 0
  PROVE  Written(t)' /\ Holding(t)'
<1>1. Written(t)'
  <2> SUFFICES ASSUME NEW h \in Headers, header[h].writer = t,
                      NEW i \in DOMAIN header[h].lines, NEW side \in {"from", "to"},
                      header[h].lines[i][side] # NoDim
               PROVE  lock'[header[h].lines[i][side]] = t /\ row'[header[h].lines[i][side]].id # 0
    BY DEF Written
  <2>1. header[h].lines \in Seq(Lines)
    BY DEF TypeOK
  <2>2. header[h].lines[i][side] \in Dims
    BY <2>1, LineEnds
  <2>3. ~Pending(t, h, i, side)
    BY DEF Pending
  <2> QED BY <2>2, <2>3 DEF TxInv, Written
<1>2. Holding(t)'
  <2> SUFFICES ASSUME NEW k \in Keys, header[<<k, "reversal">>].writer = t
               PROVE  /\ SeenBy(t, <<k, "post">>)
                      /\ \A d \in Ends(header[<<k, "post">>].lines) : lock'[d] = t
    BY DEF Holding, SeenBy
  <2>1. header[<<k, "post">>].lines \in Seq(Lines)
    BY DEF TypeOK, Headers
  <2> QED BY <2>1, EndsAreSides DEF TxInv, Holding
<1> QED BY <1>1, <1>2

(* A call that is over leaves the transaction as the next one needs it. *)
LEMMA NextCallOwn ==
  ASSUME TypeOK, NEW t \in Txs, TxInv(t), step[t] \in {"call", "locked"},
         NextCall(t), UNCHANGED <<prog, toLock, cursor, outcome, dbVars>>
  PROVE  TxInv(t)' /\ Clear(t)'
<1>1. step'[t] = "call" /\ call'[t] = call[t] + 1
  BY DEF NextCall, TypeOK
<1>2. call[t] \in Nat
  BY DEF TypeOK
<1>3. Sane(t)' /\ Covered(t)' /\ Moving(t)' /\ Clear(t)'
  BY <1>1, <1>2 DEF TxInv, Sane, Covered, Moving, Clear, Reversing, Busy
<1>4. Written(t)' /\ Holding(t)'
  BY WrittenStays DEF dbVars
<1> QED BY <1>3, <1>4 DEF TxInv

(* So does a call whose header was already there. *)
LEMMA AbsorbOwn ==
  ASSUME TypeOK, NEW t \in Txs, TxInv(t), step[t] \in {"call", "locked"}, Absorb(t)
  PROVE  TxInv(t)' /\ Clear(t)'
BY AbortOwn, NextCallOwn DEF Absorb, Outcomes

(* A call goes to its lock statement, and from its locks to the header. *)
LEMMA GotoOwn ==
  ASSUME TypeOK, NEW t \in Txs, TxInv(t), NEW s \in {"snapshot", "insert"}, Goto(t, s),
         call[t] <= Len(prog[t]),
         s = "snapshot" => /\ step[t] = "call" /\ Cur(t).op \in {"post", "reverse", "lock"}
                           /\ Cur(t).op = "reverse" => SeenBy(t, Original(t)),
         s = "insert" => step[t] = "locked" /\ Cur(t).op = "reverse"
  PROVE  TxInv(t)'
<1>1. step'[t] = s
  BY DEF Goto, TypeOK
<1>2. Cur(t)' = Cur(t) /\ Original(t)' = Original(t) /\ UNCHANGED <<header, lock, prog, call, outcome>>
  BY DEF Goto, Cur, Original, dbVars
<1>3. Sane(t)' /\ Moving(t)'
  BY <1>1, <1>2 DEF TxInv, Sane, Moving, Busy
<1>4. Covered(t)'
  BY <1>1, <1>2 DEF TxInv, Covered, Reversing, Busy, SeenBy
<1>5. Written(t)' /\ Holding(t)'
  BY WrittenStays DEF Goto, dbVars
<1> QED BY <1>3, <1>4, <1>5 DEF TxInv

(* The lock statement of a reversal sees every row of the posting: the     *)
(* rows of a committed posting exist, and those of its own it holds.       *)
LEMMA SnapshotOwn ==
  ASSUME TypeOK, Kept, NEW t \in Txs, TxInv(t), SnapshotRows(t)
  PROVE  TxInv(t)' /\ Clear(t)'
<1>1. /\ step[t] = "snapshot" /\ step'[t] = "locking"
      /\ toLock'[t] = {d \in Dims : /\ Place(d) \in balanceKeys(t)
                                    /\ saved[d].id # 0 \/ (lock[d] = t /\ row[d].id # 0)}
      /\ UNCHANGED <<prog, call, cursor, outcome, header, lock, row>>
  BY DEF SnapshotRows, dbVars, TypeOK
<1>2. Cur(t)' = Cur(t) /\ Original(t)' = Original(t)
  BY <1>1 DEF Cur, Original
<1>3. Sane(t)' /\ Moving(t)' /\ Clear(t)'
  BY <1>1, <1>2 DEF TxInv, Sane, Moving, Clear, Busy
<1>4. Covered(t)'
  <2> SUFFICES ASSUME Cur(t).op = "reverse"
               PROVE  /\ SeenBy(t, Original(t))
                      /\ \A d \in Ends(header[Original(t)].lines) : d \in toLock'[t]
    BY <1>1, <1>2 DEF Covered, Reversing, SeenBy
  <2>1. SeenBy(t, Original(t))
    BY <1>1 DEF TxInv, Covered, Reversing, Busy
  <2>2. /\ Original(t) \in Headers /\ header[Original(t)].lines \in Seq(Lines)
        /\ Ends(LinesOf(t)) = Ends(header[Original(t)].lines)
    BY <1>1, LinesFacts DEF TxInv, Sane, Busy, TypeOK
  <2>3. ASSUME NEW d \in Ends(header[Original(t)].lines)
        PROVE  d \in toLock'[t]
    <3>1. d \in Dims /\ d # NoDim
      BY <2>2, EndsAreSides
    <3>2. Place(d) \in balanceKeys(t)
      BY <2>2 DEF balanceKeys
    <3>3. CASE header[Original(t)].writer = NoTx
      BY <1>1, <2>2, <3>1, <3>2, <3>3 DEF Kept
    <3>4. CASE header[Original(t)].writer = t
      <4>1. PICK i \in DOMAIN header[Original(t)].lines, side \in {"from", "to"} :
               d = header[Original(t)].lines[i][side]
        BY <2>2, EndsAreSides
      <4>2. ~Pending(t, Original(t), i, side)
        BY <1>1 DEF Pending
      <4>3. lock[d] = t /\ row[d].id # 0
        BY <2>2, <3>1, <3>4, <4>1, <4>2 DEF TxInv, Written
      <4> QED BY <1>1, <3>1, <3>2, <4>3
    <3> QED BY <2>1, <3>3, <3>4 DEF SeenBy
  <2> QED BY <2>1, <2>3
<1>5. Written(t)' /\ Holding(t)'
  BY <1>1, WrittenStays
<1> QED BY <1>3, <1>4, <1>5 DEF TxInv

(* Every row leaves the list of rows to lock only when it is locked. *)
LEMMA LockOwn ==
  ASSUME TypeOK, NEW t \in Txs, TxInv(t), lockBalancesInOrder(t)
  PROVE  TxInv(t)' /\ Clear(t)'
<1>1. /\ step[t] = "locking"
      /\ UNCHANGED <<prog, call, cursor, outcome, header, row>>
  BY DEF lockBalancesInOrder, dbVars
<1>2. Cur(t)' = Cur(t) /\ Original(t)' = Original(t)
  BY <1>1 DEF Cur, Original
<1>3. \A d \in Dims : lock[d] = t => lock'[d] = t
  BY DEF lockBalancesInOrder, dbVars, TypeOK
<1>4. \/ /\ step'[t] = "locking"
         /\ lock' = [lock EXCEPT ![FirstOf(t)] = t]
         /\ toLock'[t] = toLock[t] \ {FirstOf(t)}
      \/ /\ toLock[t] = {} /\ UNCHANGED lock
         /\ step'[t] = IF Cur(t).op = "post" THEN "insert" ELSE "locked"
  BY <1>1 DEF lockBalancesInOrder, dbVars, TypeOK
<1>5. Sane(t)' /\ Moving(t)' /\ Clear(t)'
  BY <1>1, <1>2, <1>4 DEF TxInv, Sane, Moving, Clear, Busy
<1>6. Covered(t)'
  <2> SUFFICES ASSUME Cur(t).op = "reverse"
               PROVE  /\ SeenBy(t, Original(t))
                      /\ \A d \in Ends(header[Original(t)].lines) :
                           lock'[d] = t \/ (step'[t] = "locking" /\ d \in toLock'[t])
    BY <1>1, <1>2 DEF Covered, Reversing, SeenBy
  <2>1. /\ SeenBy(t, Original(t))
        /\ \A d \in Ends(header[Original(t)].lines) : lock[d] = t \/ d \in toLock[t]
    BY <1>1 DEF TxInv, Covered, Reversing, Busy
  <2>2. header[Original(t)].lines \in Seq(Lines)
    BY <1>1, LinesFacts DEF TxInv, Sane, Busy, TypeOK
  <2>3. ASSUME NEW d \in Ends(header[Original(t)].lines)
        PROVE  lock'[d] = t \/ (step'[t] = "locking" /\ d \in toLock'[t])
    <3>1. d \in Dims
      BY <2>2, EndsAreSides
    <3> QED BY <1>3, <1>4, <2>1, <3>1 DEF TypeOK
  <2> QED BY <2>1, <2>3
<1>7. Written(t)' /\ Holding(t)'
  BY <1>1, <1>3, WrittenStays
<1> QED BY <1>5, <1>6, <1>7 DEF TxInv

(* Under the locks, a reversal that is not seen is not there. *)
LEMMA RereadClear ==
  ASSUME TypeOK, Whole, \A u \in Txs : TxInv(u), NEW t \in Txs,
         step[t] = "locked", Cur(t).op = "reverse", ~SeenBy(t, HeaderOf(t))
  PROVE  header[HeaderOf(t)] = NoHeader
<1> DEFINE k == Cur(t).key
<1>1. /\ k \in Keys /\ HeaderOf(t) = <<k, "reversal">> /\ Original(t) = <<k, "post">>
      /\ <<k, "reversal">> \in Headers /\ <<k, "post">> \in Headers
  BY LinesFacts DEF TxInv, Sane, Busy, HeaderOf, Original
<1>2. SeenBy(t, <<k, "post">>) /\ \A d \in Ends(header[<<k, "post">>].lines) : lock[d] = t
  BY <1>1 DEF TxInv, Covered, Reversing, Busy
<1>3. header[<<k, "post">>].lines \in Seq(Lines) /\ header[<<k, "post">>].lines # <<>>
  BY <1>1, <1>2 DEF SeenBy, TypeOK
<1>4. header[<<k, "reversal">>].writer \in Txs \cup {NoTx}
  BY <1>1 DEF TypeOK
<1>5. header[<<k, "reversal">>].writer \in {NoTx, t}
  <2> SUFFICES ASSUME NEW u \in Txs, header[<<k, "reversal">>].writer = u PROVE u = t
    BY <1>4
  <2>1. \A d \in Ends(header[<<k, "post">>].lines) : lock[d] = u
    BY <1>1 DEF TxInv, Holding
  <2> QED BY <1>2, <1>3, <2>1, Exclusion
<1>6. header[<<k, "reversal">>].lines = <<>>
  BY <1>1, <1>5 DEF SeenBy
<1>7. header[<<k, "reversal">>].writer = NoTx
  BY <1>1, <1>6 DEF Whole
<1>8. header[<<k, "reversal">>] \in [lines : Seq(Lines), writer : Txs \cup {NoTx}]
  BY <1>1 DEF TypeOK
<1> QED BY <1>1, <1>6, <1>7, <1>8 DEF NoHeader

(* The header of a reversal is inserted under the locks of all its rows. *)
LEMMA InsertOwn ==
  ASSUME TypeOK, NEW t \in Txs, TxInv(t), step[t] = "insert", header[HeaderOf(t)] = NoHeader,
         header' = [header EXCEPT ![HeaderOf(t)] = [lines |-> LinesOf(t), writer |-> t]],
         step'   = [step EXCEPT ![t] = "lines"],
         cursor' = [cursor EXCEPT ![t] = <<1, "from">>],
         UNCHANGED <<prog, call, toLock, outcome, row, saved, lock, nextId>>
  PROVE  TxInv(t)' /\ Clear(t)'
<1> DEFINE H == HeaderOf(t)
           L == LinesOf(t)
<1>1. step'[t] = "lines" /\ cursor'[t] = <<1, "from">>
  BY DEF TypeOK
<1>2. Cur(t)' = Cur(t) /\ HeaderOf(t)' = H /\ Original(t)' = Original(t)
  BY DEF Cur, HeaderOf, Original
<1>3. Cur(t).op \in {"post", "reverse"} /\ call[t] <= Len(prog[t])
  BY DEF TxInv, Sane, Busy
<1>4. /\ H \in Headers /\ Original(t) \in Headers /\ L \in Seq(Lines)
      /\ Cur(t).op = "post" => L # <<>>
      /\ Cur(t).op = "reverse" /\ header[Original(t)].lines # <<>> => L # <<>>
  BY <1>3, LinesFacts DEF TxInv
<1>5. \A h \in Headers : header'[h] = IF h = H THEN [lines |-> L, writer |-> t] ELSE header[h]
  BY DEF TypeOK
<1>6. Cur(t).op = "reverse" =>
        /\ Original(t) # H /\ SeenBy(t, Original(t))
        /\ \A d \in Ends(header[Original(t)].lines) : lock[d] = t
  BY DEF TxInv, Covered, Reversing, Busy, Original, HeaderOf
<1>7. LinesOf(t)' = L
  <2>1. CASE Cur(t).op = "post"
    BY <1>2, <2>1 DEF LinesOf
  <2>2. CASE Cur(t).op = "reverse"
    <3>1. header'[Original(t)] = header[Original(t)]
      BY <1>4, <1>5, <1>6, <2>2
    <3> QED BY <1>2, <2>2, <3>1 DEF LinesOf, Original
  <2> QED BY <1>3, <2>1, <2>2
<1>8. L # <<>>
  BY <1>3, <1>4, <1>6 DEF SeenBy
<1>9. Sane(t)' /\ Clear(t)'
  BY <1>1, <1>2, <1>3 DEF TxInv, Sane, Clear, Busy
<1>10. Covered(t)'
  <2> SUFFICES ASSUME Cur(t).op = "reverse"
               PROVE  /\ SeenBy(t, Original(t))'
                      /\ \A d \in Ends(header'[Original(t)].lines) : lock[d] = t
    BY <1>2 DEF Covered, Reversing
  <2>1. header'[Original(t)] = header[Original(t)]
    BY <1>4, <1>5, <1>6
  <2> QED BY <1>2, <1>6, <2>1 DEF SeenBy
<1>11. Moving(t)'
  <2>1. 1 \in DOMAIN L
    BY <1>4, <1>8
  <2> QED BY <1>1, <1>2, <1>4, <1>5, <1>7, <2>1 DEF Moving
<1>12. Written(t)'
  <2> SUFFICES ASSUME NEW h \in Headers, header'[h].writer = t,
                      NEW i \in DOMAIN header'[h].lines, NEW side \in {"from", "to"}
               PROVE  \/ header'[h].lines[i][side] = NoDim
                      \/ Pending(t, h, i, side)'
                      \/ lock[header'[h].lines[i][side]] = t /\ row[header'[h].lines[i][side]].id # 0
    BY DEF Written
  <2>1. CASE h = H
    <3>1. i \in DOMAIN L
      BY <1>4, <1>5, <2>1
    <3>2. i > 1 \/ i = 1
      BY <1>4, <3>1
    <3> QED BY <1>1, <1>2, <2>1, <3>2 DEF Pending
  <2>2. CASE h # H
    <3>1. header'[h] = header[h] /\ ~Pending(t, h, i, side)
      BY <1>5, <2>2 DEF Pending
    <3> QED BY <3>1 DEF TxInv, Written
  <2> QED BY <2>1, <2>2
<1>13. Holding(t)'
  <2> SUFFICES ASSUME NEW k \in Keys, header'[<<k, "reversal">>].writer = t
               PROVE  /\ SeenBy(t, <<k, "post">>)'
                      /\ \A d \in Ends(header'[<<k, "post">>].lines) : lock[d] = t
    BY DEF Holding
  <2>1. <<k, "post">> \in Headers /\ <<k, "reversal">> \in Headers
    BY DEF Headers
  <2>2. SeenBy(t, <<k, "post">>) /\ \A d \in Ends(header[<<k, "post">>].lines) : lock[d] = t
    <3>1. CASE <<k, "reversal">> = H
      <4>1. Cur(t).op = "reverse" /\ Original(t) = <<k, "post">>
        BY <1>3, <3>1 DEF HeaderOf, Original
      <4> QED BY <1>6, <4>1
    <3>2. CASE <<k, "reversal">> # H
      BY <1>5, <2>1, <3>2 DEF TxInv, Holding
    <3> QED BY <3>1, <3>2
  <2>3. <<k, "post">> # H
    BY <2>2 DEF SeenBy, NoHeader
  <2> QED BY <1>5, <2>1, <2>2, <2>3 DEF SeenBy
<1> QED BY <1>9, <1>10, <1>11, <1>12, <1>13 DEF TxInv

(* move() is done with the side it was at: the row exists and is held, or  *)
(* there is none; writeLine goes on.                                       *)
LEMMA AdvanceOwn ==
  ASSUME TypeOK, NEW t \in Txs, TxInv(t), step[t] = "lines", Advance(t),
         UNCHANGED <<prog, outcome, header>>,
         Target(t) = NoDim \/ (lock'[Target(t)] = t /\ row'[Target(t)].id # 0),
         \A e \in Dims : lock[e] = t => lock'[e] = t,
         \A e \in Dims : row[e].id # 0 => row'[e].id # 0
  PROVE  TxInv(t)' /\ Clear(t)'
<1> DEFINE H == HeaderOf(t)
           L == LinesOf(t)
           n == cursor[t][1]
           at == cursor[t][2]
<1>1. Sane(t) /\ Covered(t) /\ Moving(t) /\ Written(t) /\ Holding(t)
  BY DEF TxInv
<1>2. Cur(t).op \in {"post", "reverse"} /\ call[t] <= Len(prog[t]) /\ call[t] \in Nat
  BY <1>1 DEF Sane, Busy, TypeOK
<1>3. H \in Headers /\ L \in Seq(Lines) /\ n \in 1 .. Len(L) /\ at \in {"from", "to"} /\ n \in Nat
  BY <1>1, <1>2, LinesFacts, TargetFacts
<1>4. header[H] = [lines |-> L, writer |-> t]
  BY <1>1 DEF Moving
<1>5. \/ /\ step'[t] = "lines" /\ UNCHANGED <<step, call>>
         /\ \/ at = "from" /\ cursor'[t] = <<n, "to">>
            \/ at = "to" /\ n < Len(L) /\ cursor'[t] = <<n + 1, "from">>
      \/ at = "to" /\ n = Len(L) /\ step'[t] = "call" /\ call'[t] = call[t] + 1
  BY DEF Advance, NextCall, TypeOK
<1>6. ASSUME UNCHANGED <<step, call>>
      PROVE  Cur(t)' = Cur(t) /\ HeaderOf(t)' = H /\ LinesOf(t)' = L /\ Original(t)' = Original(t)
  BY <1>6 DEF Cur, HeaderOf, LinesOf, Original
<1>7. ASSUME NEW lines \in Seq(Lines), NEW d \in Ends(lines), lock[d] = t
      PROVE  lock'[d] = t
  BY <1>7, EndsAreSides
<1>8. Sane(t)' /\ Clear(t)'
  BY <1>1, <1>2, <1>5, <1>6 DEF Sane, Clear, Busy
<1>9. Covered(t)'
  <2>1. CASE step'[t] = "call"
    BY <2>1 DEF Covered, Reversing, Busy
  <2>2. CASE step'[t] = "lines" /\ UNCHANGED <<step, call>>
    <3> SUFFICES ASSUME Cur(t).op = "reverse"
                 PROVE  /\ SeenBy(t, Original(t))
                        /\ \A d \in Ends(header[Original(t)].lines) : lock'[d] = t
      BY <1>6, <2>2 DEF Covered, Reversing, SeenBy
    <3>1. SeenBy(t, Original(t)) /\ \A d \in Ends(header[Original(t)].lines) : lock[d] = t
      BY <1>1 DEF Covered, Reversing, Busy
    <3>2. header[Original(t)].lines \in Seq(Lines)
      BY <1>1, <1>2, LinesFacts DEF TypeOK
    <3> QED BY <1>7, <3>1, <3>2
  <2> QED BY <1>5, <2>1, <2>2
<1>10. Moving(t)'
  <2>1. CASE step'[t] = "call"
    BY <2>1 DEF Moving
  <2>2. CASE step'[t] = "lines" /\ UNCHANGED <<step, call>>
    <3>1. cursor'[t][1] \in DOMAIN L
      BY <1>3, <1>5, <2>2
    <3> QED BY <1>4, <1>6, <2>2, <3>1 DEF Moving
  <2> QED BY <1>5, <2>1, <2>2
<1>11. Written(t)'
  <2> SUFFICES ASSUME NEW h \in Headers, header[h].writer = t,
                      NEW i \in DOMAIN header[h].lines, NEW side \in {"from", "to"},
                      header[h].lines[i][side] # NoDim, ~Pending(t, h, i, side)'
               PROVE  /\ lock'[header[h].lines[i][side]] = t
                      /\ row'[header[h].lines[i][side]].id # 0
    BY DEF Written
  <2> DEFINE d == header[h].lines[i][side]
  <2>1. header[h].lines \in Seq(Lines)
    BY DEF TypeOK
  <2>2. d \in Dims
    BY <2>1, LineEnds
  <2>3. CASE ~Pending(t, h, i, side)
    <3>1. lock[d] = t /\ row[d].id # 0
      BY <1>1, <2>3 DEF Written
    <3> QED BY <2>2, <3>1
  <2>4. CASE Pending(t, h, i, side)
    <3>1. h = H /\ (i > n \/ (i = n /\ (at = "from" \/ side = "to")))
      BY <2>4 DEF Pending
    <3>2. i \in 1 .. Len(L) /\ d = L[i][side]
      BY <1>3, <1>4, <3>1
    <3>3. i = n /\ side = at
      <4>1. CASE UNCHANGED <<step, call>> /\ at = "from" /\ cursor'[t] = <<n, "to">>
        BY <1>3, <1>5, <1>6, <3>1, <3>2, <4>1 DEF Pending
      <4>2. CASE UNCHANGED <<step, call>> /\ at = "to" /\ cursor'[t] = <<n + 1, "from">>
        BY <1>3, <1>5, <1>6, <3>1, <3>2, <4>2 DEF Pending
      <4>3. CASE at = "to" /\ n = Len(L)
        BY <1>3, <3>1, <3>2, <4>3
      <4> QED BY <1>5, <4>1, <4>2, <4>3
    <3>4. d = Target(t)
      BY <3>2, <3>3 DEF Target
    <3> QED BY <3>4
  <2> QED BY <2>3, <2>4
<1>12. Holding(t)'
  <2> SUFFICES ASSUME NEW k \in Keys, header[<<k, "reversal">>].writer = t
               PROVE  /\ SeenBy(t, <<k, "post">>)
                      /\ \A d \in Ends(header[<<k, "post">>].lines) : lock'[d] = t
    BY DEF Holding, SeenBy
  <2>1. header[<<k, "post">>].lines \in Seq(Lines)
    BY DEF TypeOK, Headers
  <2> QED BY <1>1, <1>7, <2>1 DEF Holding
<1> QED BY <1>8, <1>9, <1>10, <1>11, <1>12 DEF TxInv

(* reserve, pick and consume keep what was written before them. *)
LEMMA QtyOwn ==
  ASSUME TypeOK, Kept, NEW t \in Txs, TxInv(t), step[t] = "call",
         NEW d \in Dims, NEW b \in Rows, Write(t, d, b), NextCall(t),
         UNCHANGED <<prog, toLock, cursor, outcome, saved, header>>
  PROVE  TxInv(t)' /\ Clear(t)'
<1>1. step'[t] = "call" /\ call'[t] = call[t] + 1 /\ call[t] \in Nat
  BY DEF NextCall, TypeOK
<1>2. Sane(t)' /\ Covered(t)' /\ Moving(t)' /\ Clear(t)'
  BY <1>1 DEF TxInv, Sane, Covered, Moving, Clear, Reversing, Busy
<1>3. Written(t)' /\ Holding(t)'
  BY WriteKeeps, WrittenStays
<1> QED BY <1>2, <1>3 DEF TxInv

(* A transaction starts with nothing held and nothing written. *)
LEMMA StartOwn ==
  ASSUME TypeOK, NEW t \in Txs, TxInv(t), Start(t)
  PROVE  TxInv(t)' /\ Clear(t)'
<1>1. /\ step[t] = "idle" /\ step'[t] = "call" /\ prog'[t] \in Programs
      /\ UNCHANGED <<call, outcome, header, lock, row>>
  BY DEF Start, dbVars, TypeOK
<1>2. Sane(t)' /\ Covered(t)' /\ Moving(t)' /\ Clear(t)'
  BY <1>1 DEF TxInv, Sane, Covered, Moving, Clear, Reversing, Busy
<1>3. Written(t)' /\ Holding(t)'
  BY <1>1, WrittenStays
<1> QED BY <1>2, <1>3 DEF TxInv

(* Every step keeps what is said of its own transaction, and of the ledger *)
(* and the rows.                                                           *)
LEMMA OwnStep ==
  ASSUME TypeOK, Whole, Kept, \A u \in Txs : TxInv(u), NEW t \in Txs, Start(t) \/ Run(t)
  PROVE  TxInv(t)' /\ Clear(t)' /\ Whole' /\ Kept'
<1> USE DEF Outcomes
<1>0. TxInv(t) /\ Sane(t) /\ Moving(t)
  BY DEF TxInv
<1>a. ASSUME NEW why \in Outcomes, Abort(t, why)
      PROVE  TxInv(t)' /\ Clear(t)' /\ Whole' /\ Kept'
  BY <1>0, <1>a, AbortOwn, AbortKeeps
<1>b. UNCHANGED <<row, saved, header, nextId>> => Whole' /\ Kept'
  BY DEF Whole, Kept
<1>c. ASSUME Absorb(t), step[t] \in {"call", "locked"}
      PROVE  TxInv(t)' /\ Clear(t)' /\ Whole' /\ Kept'
  <2>1. CASE Abort(t, "posted")
    BY <1>a, <2>1
  <2>2. CASE NextCall(t) /\ UNCHANGED <<prog, toLock, cursor, outcome, dbVars>>
    BY <1>0, <1>b, <1>c, <2>2, NextCallOwn DEF dbVars
  <2> QED BY <1>c, <2>1, <2>2 DEF Absorb
<1>d. ASSUME NEW s \in {"snapshot", "insert"}, Goto(t, s)
      PROVE  Whole' /\ Kept' /\ (s = "snapshot" => Clear(t)')
  BY <1>b, <1>d DEF Goto, Clear, dbVars, TypeOK
<1>1. CASE Start(t)
  BY <1>0, <1>1, <1>b, StartOwn DEF Start, dbVars
<1>2. CASE post(t)
  BY <1>0, <1>2, <1>a, <1>c, <1>d, GotoOwn DEF post
<1>3. CASE reverse(t)
  BY <1>0, <1>3, <1>a, <1>c, <1>d, GotoOwn DEF reverse, Original
<1>4. CASE callerLock(t)
  BY <1>0, <1>4, <1>d, GotoOwn DEF callerLock
<1>5. CASE SnapshotRows(t)
  BY <1>0, <1>5, <1>b, SnapshotOwn DEF SnapshotRows, dbVars
<1>6. CASE lockBalancesInOrder(t)
  BY <1>0, <1>6, <1>b, LockOwn DEF lockBalancesInOrder, dbVars
<1>7. CASE ChooseRows(t)
  <2>1. CASE Abort(t, "ambiguous")
    BY <1>a, <2>1
  <2>2. CASE NextCall(t) /\ UNCHANGED <<prog, toLock, cursor, outcome, dbVars>>
    BY <1>0, <1>7, <1>b, <2>2, NextCallOwn DEF ChooseRows, dbVars
  <2> QED BY <1>7, <2>1, <2>2 DEF ChooseRows
<1>8. CASE RereadReversal(t)
  <2>1. CASE Absorb(t)
    BY <1>8, <1>c, <2>1 DEF RereadReversal
  <2>2. CASE Abort(t, "negative")
    BY <1>a, <2>2
  <2>3. CASE ~SeenBy(t, HeaderOf(t)) /\ Goto(t, "insert")
    <3>1. step[t] = "locked" /\ Cur(t).op = "reverse" /\ call[t] <= Len(prog[t])
      BY <1>0, <1>8 DEF RereadReversal, Sane, Busy
    <3>2. TxInv(t)' /\ Whole' /\ Kept'
      BY <1>0, <1>d, <2>3, <3>1, GotoOwn
    <3>3. header[HeaderOf(t)] = NoHeader
      BY <2>3, <3>1, RereadClear
    <3>4. Clear(t)'
      BY <2>3, <3>3 DEF Goto, Clear, HeaderOf, Cur, dbVars
    <3> QED BY <3>2, <3>4
  <2> QED BY <1>8, <2>1, <2>2, <2>3 DEF RereadReversal
<1>9. CASE InsertHeader(t)
  <2>1. CASE Abort(t, "unique")
    BY <1>a, <2>1
  <2>2. CASE /\ header[HeaderOf(t)] = NoHeader
             /\ header' = [header EXCEPT ![HeaderOf(t)] = [lines |-> LinesOf(t), writer |-> t]]
             /\ step'   = [step EXCEPT ![t] = "lines"]
             /\ cursor' = [cursor EXCEPT ![t] = <<1, "from">>]
             /\ UNCHANGED <<prog, call, toLock, outcome, row, saved, lock, nextId>>
    <3>1. TxInv(t)' /\ Clear(t)'
      BY <1>0, <1>9, <2>2, InsertOwn DEF InsertHeader
    <3>2. HeaderOf(t) \in Headers /\ LinesOf(t) # <<>>
      <4>1. Cur(t).op \in {"post", "reverse"} /\ call[t] <= Len(prog[t]) /\ step[t] = "insert"
        BY <1>0, <1>9 DEF InsertHeader, Sane, Busy
      <4>2. Cur(t).op = "reverse" => header[Original(t)].lines # <<>>
        BY <4>1 DEF TxInv, Covered, Reversing, Busy, SeenBy
      <4> QED BY <1>0, <4>1, <4>2, LinesFacts
    <3>3. \A h \in Headers : header'[h] = header[h] \/ header'[h] = [lines |-> LinesOf(t), writer |-> t]
      BY <2>2 DEF TypeOK
    <3>4. Whole'
      BY <3>2, <3>3 DEF Whole
    <3>5. \A h \in Headers : header'[h].writer = NoTx => header'[h] = header[h]
      BY <3>3, InventoryPostingAssumption
    <3>6. Kept'
      BY <2>2, <3>5 DEF Kept
    <3> QED BY <3>1, <3>4, <3>6
  <2> QED BY <1>9, <2>1, <2>2 DEF InsertHeader
<1>10. CASE writeLine(t)
  <2>1. CASE Abort(t, "trigger")
    BY <1>a, <2>1
  <2>2. CASE /\ Target(t) = NoDim /\ Advance(t)
             /\ UNCHANGED dbVars /\ UNCHANGED <<prog, toLock, outcome>>
    BY <1>0, <1>10, <1>b, <2>2, AdvanceOwn DEF writeLine, dbVars
  <2>3. CASE /\ Target(t) # NoDim /\ Write(t, Target(t), Moved(t)) /\ Advance(t)
             /\ UNCHANGED <<saved, header, prog, toLock, outcome>>
    <3>1. Target(t) \in Dims /\ Moved(t) \in Rows
      BY <1>0, <1>10, <2>3, TargetFacts DEF writeLine
    <3>2. /\ Kept' /\ lock'[Target(t)] = t /\ row'[Target(t)].id # 0
          /\ \A e \in Dims : lock[e] = t => lock'[e] = t
          /\ \A e \in Dims : row[e].id # 0 => row'[e].id # 0
      BY <2>3, <3>1, WriteKeeps
    <3>3. TxInv(t)' /\ Clear(t)'
      BY <1>0, <1>10, <2>3, <3>2, AdvanceOwn DEF writeLine
    <3> QED BY <2>3, <3>2, <3>3 DEF Whole
  <2> QED BY <1>10, <2>1, <2>2, <2>3 DEF writeLine
<1>11. CASE updateQty(t)
  <2>1. PICK d \in Cur(t).dims :
           \/ /\ LowerBound(Cur(t), row[d])
              /\ Write(t, d, Updated(Cur(t), row[d]))
              /\ NextCall(t)
              /\ UNCHANGED <<prog, toLock, cursor, outcome, saved, header>>
           \/ Abort(t, "trigger")
           \/ Abort(t, "negative")
    BY <1>11 DEF updateQty
  <2>2. CASE Abort(t, "trigger") \/ Abort(t, "negative")
    BY <1>a, <2>2
  <2>3. CASE /\ LowerBound(Cur(t), row[d])
             /\ Write(t, d, Updated(Cur(t), row[d]))
             /\ NextCall(t)
             /\ UNCHANGED <<prog, toLock, cursor, outcome, saved, header>>
    <3>1. Cur(t) \in Call /\ CallOK(Cur(t)) /\ Cur(t).op \in QtyOps /\ step[t] = "call"
      BY <1>0, <1>11, CallFacts DEF updateQty
    <3>2. d \in Dims /\ row[d] \in Rows
      BY <2>1, <3>1 DEF Call, TypeOK
    <3>3. Updated(Cur(t), row[d]) \in Rows
      BY <2>3, <3>1, <3>2, UpdatedType
    <3>4. TxInv(t)' /\ Clear(t)'
      BY <1>0, <2>3, <3>1, <3>2, <3>3, QtyOwn
    <3>5. Kept'
      BY <2>3, <3>2, <3>3, WriteKeeps
    <3> QED BY <2>3, <3>4, <3>5 DEF Whole
  <2> QED BY <2>1, <2>2, <2>3
<1>12. CASE handCheck(t)
  <2>1. CASE Abort(t, "negative")
    BY <1>a, <2>1
  <2>2. CASE NextCall(t) /\ UNCHANGED <<prog, toLock, cursor, outcome, dbVars>>
    BY <1>0, <1>12, <1>b, <2>2, NextCallOwn DEF handCheck, dbVars
  <2> QED BY <1>12, <2>1, <2>2 DEF handCheck
<1>13. CASE Commit(t)
  BY <1>0, <1>13, CommitOwn, CommitKeeps
<1>14. CASE DeadlockVictim(t)
  BY <1>14, <1>a DEF DeadlockVictim
<1> QED BY <1>1, <1>2, <1>3, <1>4, <1>5, <1>6, <1>7, <1>8, <1>9, <1>10, <1>11, <1>12, <1>13, <1>14
         DEF Run

-----------------------------------------------------------------------------
(* A header that is not there is only made by its INSERT. *)
LEMMA NoHeaderStays ==
  ASSUME TypeOK, NEW t \in Txs, Start(t) \/ Run(t), NEW h \in Headers,
         header[h] = NoHeader, ~(step[t] = "insert" /\ h = HeaderOf(t))
  PROVE  header'[h] = NoHeader
<1>1. CASE UNCHANGED header
  BY <1>1
<1>2. CASE \E why \in Outcomes : Abort(t, why)
  BY <1>2 DEF Abort, TypeOK
<1>3. CASE Commit(t)
  BY <1>3, InventoryPostingAssumption DEF Commit, NoHeader, TypeOK
<1>4. CASE /\ step[t] = "insert"
           /\ header' = [header EXCEPT ![HeaderOf(t)] = [lines |-> LinesOf(t), writer |-> t]]
  BY <1>4 DEF TypeOK
<1>5. \/ UNCHANGED header \/ Commit(t) \/ \E why \in Outcomes : Abort(t, why)
      \/ /\ step[t] = "insert"
         /\ header' = [header EXCEPT ![HeaderOf(t)] = [lines |-> LinesOf(t), writer |-> t]]
  <2> USE DEF Outcomes, dbVars
  <2>1. CASE Start(t)
    BY <2>1 DEF Start
  <2>2. CASE post(t) \/ reverse(t) \/ callerLock(t) \/ RereadReversal(t)
    BY <2>2 DEF post, reverse, callerLock, RereadReversal, Absorb, Goto
  <2>3. CASE SnapshotRows(t) \/ lockBalancesInOrder(t) \/ ChooseRows(t) \/ handCheck(t)
    BY <2>3 DEF SnapshotRows, lockBalancesInOrder, ChooseRows, handCheck
  <2>4. CASE InsertHeader(t) \/ writeLine(t) \/ updateQty(t)
    BY <2>4 DEF InsertHeader, writeLine, updateQty
  <2>5. CASE Commit(t) \/ DeadlockVictim(t)
    BY <2>5 DEF DeadlockVictim
  <2> QED BY <2>1, <2>2, <2>3, <2>4, <2>5 DEF Run
<1> QED BY <1>1, <1>2, <1>3, <1>4, <1>5

(* Nobody else can insert the reversal that a transaction is about to. *)
LEMMA ClearStep ==
  ASSUME TypeOK, \A w \in Txs : TxInv(w), NEW t \in Txs, Start(t) \/ Run(t),
         NEW u \in Txs, u # t, Clear(u)
  PROVE  Clear(u)'
<1>1. Leaves(u)
  BY StepLeaves
<1>2. step'[u] = step[u] /\ Cur(u)' = Cur(u) /\ HeaderOf(u)' = HeaderOf(u)
  BY <1>1 DEF Leaves, LeavesTx, Cur, HeaderOf
<1> SUFFICES ASSUME step[u] = "insert", Cur(u).op = "reverse"
             PROVE  header'[HeaderOf(u)] = NoHeader
  BY <1>2 DEF Clear
<1> DEFINE k == Cur(u).key
<1>3. /\ k \in Keys /\ HeaderOf(u) = <<k, "reversal">> /\ Original(u) = <<k, "post">>
      /\ HeaderOf(u) \in Headers /\ <<k, "post">> \in Headers
  BY LinesFacts DEF TxInv, Sane, Busy, HeaderOf, Original
<1>4. SeenBy(u, <<k, "post">>) /\ \A d \in Ends(header[<<k, "post">>].lines) : lock[d] = u
  BY <1>3 DEF TxInv, Covered, Reversing, Busy
<1>5. header[<<k, "post">>].lines \in Seq(Lines) /\ header[<<k, "post">>].lines # <<>>
  BY <1>3, <1>4 DEF SeenBy, TypeOK
<1>6. ~(step[t] = "insert" /\ HeaderOf(u) = HeaderOf(t))
  <2> SUFFICES ASSUME step[t] = "insert", HeaderOf(u) = HeaderOf(t) PROVE FALSE
    OBVIOUS
  <2>1. Cur(t).op = "reverse" /\ Original(t) = <<k, "post">>
    BY <1>3 DEF TxInv, Sane, HeaderOf, Original
  <2>2. \A d \in Ends(header[<<k, "post">>].lines) : lock[d] = t
    BY <2>1 DEF TxInv, Covered, Reversing, Busy
  <2> QED BY <1>4, <1>5, <2>2, Exclusion
<1>7. header[HeaderOf(u)] = NoHeader
  BY DEF Clear
<1> QED BY <1>3, <1>6, <1>7, NoHeaderStays

(* The invariant holds before the first request. *)
LEMMA InitIInv == Init => IInv
<1> SUFFICES ASSUME Init PROVE IInv
  OBVIOUS
<1>0. \A t \in Txs : step[t] = "idle" /\ call[t] = 1 /\ outcome[t] = "none"
  BY DEF Init
<1> USE InventoryPostingAssumption DEF Init
<1>1. nextId \in Nat /\ nextId > 0
  <2>1. Cardinality(Dims) \in Nat
    BY FS_CardinalityType
  <2> QED BY <2>1
<1>2. header \in [Headers -> [lines : Seq(Lines), writer : Txs \cup {NoTx}]]
  BY DEF Headers
<1>3. <<1, "from">> \in Nat \X {"from", "to"}
  OBVIOUS
<1>4. TypeOK
  BY <1>1, <1>2, <1>3 DEF TypeOK, Steps, Outcomes
<1>5. \A h \in Headers : header[h].writer = NoTx
  OBVIOUS
<1>6. Whole
  BY <1>5 DEF Whole
<1>7. Kept
  <2>1. ASSUME NEW h \in Headers, NEW d \in Ends(header[h].lines)
        PROVE  saved[d].id # 0
    <3>1. header[h].lines \in Seq(Lines)
      BY <1>2
    <3>2. PICK i \in DOMAIN header[h].lines :
             d \in {header[h].lines[i].from, header[h].lines[i].to} \ {NoDim}
      BY <2>1 DEF Ends
    <3>3. h[1] \in Keys /\ header[h].lines = OpeningLedger[h[1]]
      BY <3>2 DEF Headers
    <3> QED BY <3>2, <3>3, OpeningAssumption
  <2> QED BY <1>1, <2>1 DEF Kept
<1>8. ASSUME NEW t \in Txs PROVE TxInv(t) /\ Clear(t)
  <2>1. step[t] = "idle" /\ call[t] = 1 /\ outcome[t] = "none"
    BY <1>0
  <2>2. Written(t) /\ Holding(t)
    BY <1>5 DEF Written, Holding, Headers
  <2> QED BY <2>1, <2>2 DEF TxInv, Sane, Covered, Moving, Reversing, Busy, Clear
<1> QED BY <1>4, <1>6, <1>7, <1>8 DEF IInv

(* Every step keeps the invariant. *)
LEMMA NextIInv == IInv /\ [Next]_vars => IInv'
<1> SUFFICES ASSUME IInv, [Next]_vars PROVE IInv'
  OBVIOUS
<1>1. CASE UNCHANGED vars
  <2>1. TypeOK' /\ Whole' /\ Kept'
    BY <1>1 DEF vars, IInv, TypeOK, Whole, Kept
  <2>2. ASSUME NEW u \in Txs PROVE TxInv(u)' /\ Clear(u)'
    <3>1. Leaves(u)
      BY <1>1 DEF vars, Leaves, LeavesTx, LeavesRows, LeavesHeaders
    <3>2. TxInv(u)'
      BY <3>1, OthersKeep DEF IInv
    <3>3. Clear(u)'
      BY <1>1 DEF vars, IInv, Clear, HeaderOf, Cur
    <3> QED BY <3>2, <3>3
  <2> QED BY <2>1, <2>2 DEF IInv
<1>2. ASSUME NEW t \in Txs, Start(t) \/ Run(t)
      PROVE  IInv'
  <2>1. TypeOK'
    BY <1>2, TypeStep DEF IInv
  <2>2. TxInv(t)' /\ Clear(t)' /\ Whole' /\ Kept'
    BY <1>2, OwnStep DEF IInv
  <2>3. ASSUME NEW u \in Txs, u # t
        PROVE  TxInv(u)' /\ Clear(u)'
    BY <1>2, <2>3, StepLeaves, OthersKeep, ClearStep DEF IInv
  <2> QED BY <2>1, <2>2, <2>3 DEF IInv
<1> QED BY <1>1, <1>2 DEF Next, Done

(* The inductive invariant holds in every behaviour of the posting core. *)
THEOREM Invariance == Spec => []IInv
BY InitIInv, NextIInv, PTL DEF Spec

(* Every variable keeps its type: in particular no statement of reserve,    *)
(* pick and consume takes reserved_qty or picked_qty below zero.            *)
THEOREM TypeCorrect == Spec => []TypeOK
<1>1. IInv => TypeOK
  BY DEF IInv
<1> QED BY <1>1, Invariance, PTL

(* Two reversals of one posting never collide: a reversal that fails does   *)
(* so because the stock is gone, never on the unique index and never        *)
(* because of an earlier reversal.                                          *)
THEOREM ReversalsAreAbsorbed == Spec => ReverseNeverCollides
<1> DEFINE Absorbed == \A t \in Txs : ReverseFails(t) => /\ outcome'[t] = "negative"
                                                         /\ ~SeenBy(t, <<Cur(t).key, "reversal">>)
<1>1. IInv /\ Next => Absorbed
  <2> SUFFICES ASSUME IInv, Next, NEW t \in Txs, ReverseFails(t)
               PROVE  outcome'[t] = "negative" /\ ~SeenBy(t, <<Cur(t).key, "reversal">>)
    OBVIOUS
  <2>1. TypeOK /\ TxInv(t) /\ Sane(t) /\ Clear(t) /\ outcome[t] = "none"
    BY DEF IInv, TxInv, Sane, ReverseFails
  <2>2. outcome'[t] \in {"negative", "unique"} /\ Cur(t).op = "reverse"
    BY DEF ReverseFails
  <2>3. PICK u \in Txs : Start(u) \/ Run(u)
    BY <2>1, <2>2 DEF Next, Done, vars
  <2>4. u = t
    BY <2>1, <2>2, <2>3, StepLeaves DEF Leaves, LeavesTx
  <2>5. ASSUME NEW why \in Outcomes, Abort(t, why)
        PROVE  outcome'[t] = why
    BY <2>1, <2>5 DEF Abort, TypeOK
  <2>6. outcome'[t] # outcome[t]
    BY <2>1, <2>2
  <2>7. CASE RereadReversal(t)
    <3>1. ~SeenBy(t, HeaderOf(t)) /\ outcome'[t] = "negative"
      BY <2>2, <2>5, <2>6, <2>7 DEF RereadReversal, Absorb, Goto, Outcomes
    <3> QED BY <2>2, <3>1 DEF HeaderOf
  <2>8. CASE InsertHeader(t)
    <3>1. header[HeaderOf(t)] = NoHeader
      BY <2>1, <2>2, <2>8 DEF InsertHeader, Clear
    <3> QED BY <2>6, <2>8, <3>1 DEF InsertHeader, SeenBy, NoHeader
  <2>9. ~(RereadReversal(t) \/ InsertHeader(t)) => FALSE
    <3> SUFFICES ASSUME ~RereadReversal(t), ~InsertHeader(t) PROVE FALSE
      OBVIOUS
    <3> USE DEF Outcomes
    <3>1. CASE Start(t) \/ callerLock(t) \/ SnapshotRows(t) \/ lockBalancesInOrder(t)
      BY <2>6, <3>1 DEF Start, callerLock, Goto, SnapshotRows, lockBalancesInOrder
    <3>2. CASE post(t) \/ updateQty(t) \/ handCheck(t)
      BY <2>2, <3>2 DEF post, updateQty, handCheck, QtyOps
    <3>3. CASE reverse(t)
      BY <2>2, <2>5, <2>6, <3>3 DEF reverse, Absorb, Goto
    <3>4. CASE ChooseRows(t)
      BY <2>2, <3>4 DEF ChooseRows
    <3>5. CASE writeLine(t)
      BY <2>2, <2>5, <2>6, <3>5 DEF writeLine
    <3>6. CASE Commit(t)
      BY <2>1, <2>2, <3>6 DEF Commit, TypeOK
    <3>7. CASE DeadlockVictim(t)
      BY <2>2, <2>5, <3>7 DEF DeadlockVictim
    <3> QED BY <2>3, <2>4, <3>1, <3>2, <3>3, <3>4, <3>5, <3>6, <3>7 DEF Run
  <2> QED BY <2>7, <2>8, <2>9
<1> QED BY <1>1, Invariance, PTL DEF Spec, ReverseNeverCollides

-----------------------------------------------------------------------------
(* Sums over finite sets: what SumFunctionOnSet, a fold, comes to.         *)

(* Induction over the natural numbers, for a set instead of a predicate.   *)
LEMMA Induction ==
  ASSUME NEW S, 0 \in S, \A n \in Nat : n \in S => n + 1 \in S
  PROVE  Nat \subseteq S
<1> DEFINE T == {n \in Nat : n \notin S}
           R == OpToRel(<, Nat)
<1> SUFFICES ASSUME T # {} PROVE FALSE
  OBVIOUS
<1>1. IsWellFoundedOn(R, Nat)
  BY NatLessThanWellFounded
<1>2. T \subseteq Nat
  OBVIOUS
<1> HIDE DEF T, R
<1>3. PICK x \in T : \A y \in T : ~ (<<y, x>> \in R)
  BY <1>1, <1>2, WFMin
<1> USE DEF T, R
<1>4. x \in Nat /\ x # 0 /\ x - 1 \in Nat
  OBVIOUS
<1>5. <<x - 1, x>> \in R
  BY <1>4 DEF OpToRel
<1>6. x - 1 \notin T
  BY <1>3, <1>5
<1> QED BY <1>4, <1>6

(* Induction over the finite subsets of U: C has the empty one, and each   *)
(* one that it has with any element taken away.                            *)
LEMMA FiniteInduction ==
  ASSUME NEW U, NEW C, {} \in C,
         \A T \in SUBSET U : IsFiniteSet(T) /\ T # {} /\ (\A x \in T : T \ {x} \in C) => T \in C
  PROVE  \A T \in SUBSET U : IsFiniteSet(T) => T \in C
<1> DEFINE N == {n \in Nat : \A T \in SUBSET U : IsFiniteSet(T) /\ Cardinality(T) = n => T \in C}
<1>1. 0 \in N
  BY FS_EmptySet
<1>2. ASSUME NEW n \in Nat, n \in N PROVE n + 1 \in N
  <2> SUFFICES ASSUME NEW T \in SUBSET U, IsFiniteSet(T), Cardinality(T) = n + 1 PROVE T \in C
    OBVIOUS
  <2>1. T # {}
    BY FS_EmptySet
  <2>2. ASSUME NEW x \in T PROVE T \ {x} \in C
    <3>1. IsFiniteSet(T \ {x}) /\ Cardinality(T \ {x}) = Cardinality(T) - 1
      BY FS_RemoveElement
    <3>2. Cardinality(T \ {x}) = n
      BY <3>1
    <3> QED BY <1>2, <3>1, <3>2
  <2> QED BY <2>1, <2>2
<1> HIDE DEF N
<1>3. Nat \subseteq N
  BY <1>1, <1>2, Induction
<1> USE DEF N
<1> QED BY <1>3, FS_CardinalityType

(* The recursion behind the fold: an element, and the rest. *)
First(s) == CHOOSE x \in s : TRUE
IsIter(f, S, g) == g = [s \in SUBSET S |-> IF s = {} THEN 0 ELSE f[First(s)] + g[s \ {First(s)}]]

(* SumFunctionOnSet is a solution of the recursion, if there is one.       *)
LEMMA SumIsIter ==
  ASSUME NEW f, NEW S, NEW g, IsIter(f, S, g)
  PROVE  \E h : IsIter(f, S, h) /\ SumFunctionOnSet(f, S) = h[S]
<1> DEFINE it == CHOOSE h : h = [s \in SUBSET S |-> IF s = {} THEN 0 ELSE f[First(s)] + h[s \ {First(s)}]]
<1>1. SumFunctionOnSet(f, S) = it[S]
  BY DEF SumFunctionOnSet, FoldFunctionOnSet, MapThenFoldSet, First
<1>2. IsIter(f, S, it)
  BY DEF IsIter
<1> QED BY <1>1, <1>2

(* A solution for the sets of at most n elements. *)
Small(S, n) == {s \in SUBSET S : Cardinality(s) <= n}
Fits(f, S, n, g) ==
  g = [s \in Small(S, n) |-> IF s = {} THEN 0 ELSE f[First(s)] + g[s \ {First(s)}]]

(* The recursion has a solution: there is one for every n. *)
LEMMA IterExists ==
  ASSUME NEW f, NEW S, IsFiniteSet(S)
  PROVE  \E g : IsIter(f, S, g)
<1> DEFINE N == {n \in Nat : \E g : Fits(f, S, n, g)}
<1>0. ASSUME NEW s \in SUBSET S
      PROVE  /\ IsFiniteSet(s) /\ Cardinality(s) \in Nat
             /\ Cardinality(s) = 0 <=> s = {}
             /\ s # {} => /\ First(s) \in s /\ s \ {First(s)} \in SUBSET S
                         /\ Cardinality(s \ {First(s)}) = Cardinality(s) - 1
  BY FS_Subset, FS_CardinalityType, FS_EmptySet, FS_RemoveElement DEF First
<1>1. 0 \in N
  <2>1. ASSUME NEW s \in Small(S, 0) PROVE s = {}
    <3>1. s \in SUBSET S /\ Cardinality(s) <= 0
      BY DEF Small
    <3>2. PICK c \in Nat : c = Cardinality(s)
      BY <1>0, <3>1
    <3>3. c = 0
      BY <3>1, <3>2
    <3> QED BY <1>0, <3>1, <3>2, <3>3
  <2>2. PICK g : g = [s \in Small(S, 0) |-> 0]
    OBVIOUS
  <2>3. g = [s \in Small(S, 0) |-> IF s = {} THEN 0 ELSE f[First(s)] + g[s \ {First(s)}]]
    BY <2>1, <2>2
  <2> QED BY <2>3 DEF Fits
<1>2. ASSUME NEW n \in Nat, n \in N PROVE n + 1 \in N
  <2>1. PICK g : Fits(f, S, n, g)
    BY <1>2
  <2>2. PICK h : h = [s \in Small(S, n + 1) |-> IF s = {} THEN 0 ELSE f[First(s)] + g[s \ {First(s)}]]
    OBVIOUS
  <2>3. ASSUME NEW s \in Small(S, n) PROVE s \in Small(S, n + 1) /\ h[s] = g[s]
    <3>1. s \in SUBSET S /\ Cardinality(s) <= n
      BY DEF Small
    <3>a. PICK c \in Nat : c = Cardinality(s)
      BY <1>0, <3>1
    <3>b. c <= n + 1
      BY <3>1, <3>a
    <3>2. s \in Small(S, n + 1)
      BY <3>1, <3>a, <3>b DEF Small
    <3>3. g[s] = IF s = {} THEN 0 ELSE f[First(s)] + g[s \ {First(s)}]
      BY <2>1 DEF Fits
    <3> QED BY <2>2, <3>2, <3>3
  <2>4. ASSUME NEW s \in Small(S, n + 1), s # {} PROVE s \ {First(s)} \in Small(S, n)
    <3>1. s \in SUBSET S /\ Cardinality(s) <= n + 1
      BY DEF Small
    <3>2. s \ {First(s)} \in SUBSET S /\ Cardinality(s \ {First(s)}) <= n
      BY <1>0, <2>4, <3>1
    <3> QED BY <3>2 DEF Small
  <2>5. h = [s \in Small(S, n + 1) |-> IF s = {} THEN 0 ELSE f[First(s)] + h[s \ {First(s)}]]
    <3>1. ASSUME NEW s \in Small(S, n + 1), s # {}
          PROVE  g[s \ {First(s)}] = h[s \ {First(s)}]
      BY <2>3, <2>4, <3>1
    <3> QED BY <2>2, <3>1
  <2>6. Fits(f, S, n + 1, h)
    BY <2>5 DEF Fits
  <2> QED BY <2>6
<1>3. Cardinality(S) \in N
  <2> HIDE DEF N
  <2> QED BY <1>1, <1>2, Induction, FS_CardinalityType
<1>4. Small(S, Cardinality(S)) = SUBSET S
  BY FS_Subset DEF Small
<1> QED BY <1>3, <1>4 DEF IsIter, Fits

(* Solutions for a set and for a subset of it agree.                       *)
LEMMA IterUnique ==
  ASSUME NEW f, NEW S, NEW T \in SUBSET S, IsFiniteSet(S), NEW g, IsIter(f, S, g), NEW h, IsIter(f, T, h)
  PROVE  g[T] = h[T]
<1> DEFINE C == {s \in SUBSET T : g[s] = h[s]}
<1>1. {} \in C
  BY DEF IsIter
<1>2. ASSUME NEW s \in SUBSET T, s # {}, \A x \in s : s \ {x} \in C
      PROVE  s \in C
  <2>1. First(s) \in s
    BY <1>2 DEF First
  <2>2. g[s \ {First(s)}] = h[s \ {First(s)}]
    BY <1>2, <2>1
  <2>3. g[s] = f[First(s)] + g[s \ {First(s)}] /\ h[s] = f[First(s)] + h[s \ {First(s)}]
    BY <1>2 DEF IsIter
  <2> QED BY <2>2, <2>3
<1>3. IsFiniteSet(T)
  BY FS_Subset
<1> HIDE DEF C
<1>4. T \in C
  BY <1>1, <1>2, <1>3, FiniteInduction
<1> USE DEF C
<1> QED BY <1>4

(* What SumFunctionOnSet is: zero for no elements, and one element and the *)
(* rest otherwise.                                                         *)
LEMMA SumStep ==
  ASSUME NEW f, NEW S, IsFiniteSet(S)
  PROVE  /\ S = {} => SumFunctionOnSet(f, S) = 0
         /\ S # {} => /\ First(S) \in S
                     /\ SumFunctionOnSet(f, S) = f[First(S)] + SumFunctionOnSet(f, S \ {First(S)})
<1>1. PICK g : IsIter(f, S, g) /\ SumFunctionOnSet(f, S) = g[S]
  BY IterExists, SumIsIter
<1>2. CASE S = {}
  BY <1>1, <1>2 DEF IsIter
<1>3. CASE S # {}
  <2>1. PICK T : T = S \ {First(S)}
    OBVIOUS
  <2>2. First(S) \in S /\ T \in SUBSET S /\ IsFiniteSet(T)
    BY <1>3, <2>1, FS_Subset DEF First
  <2>3. PICK h : IsIter(f, T, h) /\ SumFunctionOnSet(f, T) = h[T]
    BY <2>2, IterExists, SumIsIter
  <2>4. g[T] = h[T]
    BY <1>1, <2>2, <2>3, IterUnique
  <2>5. g[S] = f[First(S)] + g[T]
    BY <1>1, <1>3, <2>1 DEF IsIter
  <2> QED BY <1>1, <1>3, <2>1, <2>2, <2>3, <2>4, <2>5
<1> QED BY <1>2, <1>3

(* No terms: the fold starts at zero.                                      *)
LEMMA SumEmpty == \A f : SumFunctionOnSet(f, {}) = 0
<1> TAKE f
<1>1. IsFiniteSet({})
  BY FS_EmptySet
<1> QED BY <1>1, SumStep

(* Whole terms have a whole sum.                                           *)
LEMMA SumIsInt ==
  ASSUME NEW f, NEW S, IsFiniteSet(S), \A x \in S : f[x] \in Int
  PROVE  SumFunctionOnSet(f, S) \in Int
<1> DEFINE C == {T \in SUBSET S : SumFunctionOnSet(f, T) \in Int}
<1>1. {} \in C
  BY SumEmpty
<1>2. ASSUME NEW T \in SUBSET S, IsFiniteSet(T), T # {}, \A x \in T : T \ {x} \in C
      PROVE  T \in C
  <2>1. PICK x : x = First(T)
    OBVIOUS
  <2>2. x \in T /\ SumFunctionOnSet(f, T) = f[x] + SumFunctionOnSet(f, T \ {x})
    BY <1>2, <2>1, SumStep
  <2>3. PICK m : m = SumFunctionOnSet(f, T \ {x}) /\ m \in Int
    BY <1>2, <2>2
  <2> QED BY <2>2, <2>3
<1> HIDE DEF C
<1>3. S \in C
  BY <1>1, <1>2, FiniteInduction
<1> QED BY <1>3 DEF C

(* Any one element may be taken out of the sum.                            *)
LEMMA SumWithout ==
  ASSUME NEW f, NEW S, IsFiniteSet(S), \A x \in S : f[x] \in Int, NEW x \in S
  PROVE  SumFunctionOnSet(f, S) = f[x] + SumFunctionOnSet(f, S \ {x})
<1> DEFINE C == {T \in SUBSET S : \A y \in T : SumFunctionOnSet(f, T) = f[y] + SumFunctionOnSet(f, T \ {y})}
<1>1. {} \in C
  OBVIOUS
<1>2. ASSUME NEW T \in SUBSET S, IsFiniteSet(T), T # {}, \A y \in T : T \ {y} \in C
      PROVE  T \in C
  <2> SUFFICES ASSUME NEW y \in T PROVE SumFunctionOnSet(f, T) = f[y] + SumFunctionOnSet(f, T \ {y})
    OBVIOUS
  <2>1. PICK z : z = First(T)
    OBVIOUS
  <2>2. z \in T /\ SumFunctionOnSet(f, T) = f[z] + SumFunctionOnSet(f, T \ {z})
    BY <1>2, <2>1, SumStep
  <2>3. CASE y = z
    BY <2>2, <2>3
  <2>4. CASE y # z
    <3>1. SumFunctionOnSet(f, T \ {z}) = f[y] + SumFunctionOnSet(f, (T \ {z}) \ {y})
      BY <1>2, <2>2, <2>4
    <3>2. SumFunctionOnSet(f, T \ {y}) = f[z] + SumFunctionOnSet(f, (T \ {y}) \ {z})
      BY <1>2, <2>2, <2>4
    <3>3. PICK R : R = (T \ {z}) \ {y} /\ R = (T \ {y}) \ {z}
      OBVIOUS
    <3>4. IsFiniteSet(R) /\ R \subseteq S
      BY <1>2, <3>3, FS_Subset
    <3>5. SumFunctionOnSet(f, R) \in Int
      BY <3>4, SumIsInt
    <3>6. PICK m : m = SumFunctionOnSet(f, R) /\ m \in Int
      BY <3>5
    <3>7. SumFunctionOnSet(f, T) = f[z] + (f[y] + m) /\ SumFunctionOnSet(f, T \ {y}) = f[z] + m
      BY <2>2, <3>1, <3>2, <3>3, <3>6
    <3>8. f[y] \in Int /\ f[z] \in Int
      BY <2>2
    <3> QED BY <3>6, <3>7, <3>8
  <2> QED BY <2>3, <2>4
<1> HIDE DEF C
<1>3. S \in C
  BY <1>1, <1>2, FiniteInduction
<1> QED BY <1>3 DEF C

(* The same terms have the same sum.                                       *)
LEMMA SumSame ==
  ASSUME NEW f, NEW g, NEW S, IsFiniteSet(S), \A x \in S : f[x] = g[x]
  PROVE  SumFunctionOnSet(f, S) = SumFunctionOnSet(g, S)
<1> DEFINE C == {T \in SUBSET S : SumFunctionOnSet(f, T) = SumFunctionOnSet(g, T)}
<1>1. {} \in C
  BY SumEmpty
<1>2. ASSUME NEW T \in SUBSET S, IsFiniteSet(T), T # {}, \A x \in T : T \ {x} \in C
      PROVE  T \in C
  <2>1. PICK x : x = First(T)
    OBVIOUS
  <2>2. x \in T /\ SumFunctionOnSet(f, T) = f[x] + SumFunctionOnSet(f, T \ {x})
    BY <1>2, <2>1, SumStep
  <2>3. SumFunctionOnSet(g, T) = g[x] + SumFunctionOnSet(g, T \ {x})
    BY <1>2, <2>1, SumStep
  <2>4. SumFunctionOnSet(f, T \ {x}) = SumFunctionOnSet(g, T \ {x}) /\ f[x] = g[x]
    BY <1>2, <2>2
  <2> QED BY <2>2, <2>3, <2>4
<1> HIDE DEF C
<1>3. S \in C
  BY <1>1, <1>2, FiniteInduction
<1> QED BY <1>3 DEF C

(* Terms that are zero may be left out.                                    *)
LEMMA SumZeros ==
  ASSUME NEW f, NEW S, NEW T \in SUBSET S, IsFiniteSet(S), \A x \in S : f[x] \in Int,
         \A x \in S \ T : f[x] = 0
  PROVE  SumFunctionOnSet(f, S) = SumFunctionOnSet(f, T)
<1>0. PICK U : U = S \ T
  OBVIOUS
<1> DEFINE C == {R \in SUBSET U : SumFunctionOnSet(f, T \cup R) = SumFunctionOnSet(f, T)}
<1>1. {} \in C
  OBVIOUS
<1>2. ASSUME NEW R \in SUBSET U, R # {}, \A x \in R : R \ {x} \in C
      PROVE  R \in C
  <2>1. PICK x \in R : TRUE
    BY <1>2
  <2>2. PICK P, V : P = T \cup R /\ V = T \cup (R \ {x})
    OBVIOUS
  <2>3. IsFiniteSet(P) /\ x \in P /\ P \ {x} = V /\ \A y \in P : f[y] \in Int
    BY <1>0, <2>1, <2>2, FS_Subset
  <2>4. SumFunctionOnSet(f, P) = f[x] + SumFunctionOnSet(f, V)
    BY <2>3, SumWithout
  <2>5. SumFunctionOnSet(f, V) = SumFunctionOnSet(f, T)
    BY <1>2, <2>1, <2>2
  <2>6. SumFunctionOnSet(f, T) \in Int
    BY SumIsInt, FS_Subset
  <2> QED BY <1>0, <2>1, <2>2, <2>4, <2>5, <2>6
<1>3. IsFiniteSet(U) /\ T \cup U = S
  BY <1>0, FS_Subset
<1> HIDE DEF C
<1>4. U \in C
  BY <1>1, <1>2, <1>3, FiniteInduction
<1> QED BY <1>3, <1>4 DEF C

(* The sum of two sets of terms that have none in common. *)
LEMMA SumUnion ==
  ASSUME NEW f, NEW S, NEW T, IsFiniteSet(S), IsFiniteSet(T), S \cap T = {},
         \A x \in S \cup T : f[x] \in Int
  PROVE  /\ SumFunctionOnSet(f, S) \in Int /\ SumFunctionOnSet(f, T) \in Int
         /\ SumFunctionOnSet(f, S \cup T) = SumFunctionOnSet(f, S) + SumFunctionOnSet(f, T)
<1>0. SumFunctionOnSet(f, S) \in Int /\ SumFunctionOnSet(f, T) \in Int
  BY SumIsInt
<1> DEFINE C == {R \in SUBSET T : SumFunctionOnSet(f, S \cup R)
                                   = SumFunctionOnSet(f, S) + SumFunctionOnSet(f, R)}
<1>1. {} \in C
  <2>1. S \cup {} = S
    OBVIOUS
  <2> QED BY <1>0, <2>1, SumEmpty
<1>2. ASSUME NEW R \in SUBSET T, IsFiniteSet(R), R # {}, \A x \in R : R \ {x} \in C
      PROVE  R \in C
  <2>1. PICK x \in R : TRUE
    BY <1>2
  <2>2. PICK P, Q : P = S \cup R /\ Q = R \ {x}
    OBVIOUS
  <2>a. IsFiniteSet(P)
    BY <1>2, <2>2, FS_Union
  <2>b. x \in R /\ x \in T /\ x \notin S
    BY <2>1
  <2>c. P \ {x} = S \cup Q
    BY <2>2, <2>b
  <2>3. IsFiniteSet(P) /\ x \in P /\ P \ {x} = S \cup Q /\ \A y \in P : f[y] \in Int
    BY <2>2, <2>a, <2>b, <2>c
  <2>4. SumFunctionOnSet(f, P) = f[x] + SumFunctionOnSet(f, S \cup Q)
    BY <2>3, SumWithout
  <2>5. IsFiniteSet(Q) /\ \A y \in R : f[y] \in Int
    BY <1>2, <2>2, FS_Subset
  <2>6. SumFunctionOnSet(f, R) = f[x] + SumFunctionOnSet(f, Q)
    BY <1>2, <2>1, <2>2, <2>5, SumWithout
  <2>7. SumFunctionOnSet(f, S \cup Q) = SumFunctionOnSet(f, S) + SumFunctionOnSet(f, Q)
    BY <1>2, <2>1, <2>2
  <2>8. SumFunctionOnSet(f, Q) \in Int /\ f[x] \in Int
    BY <2>1, <2>2, <2>5, SumIsInt
  <2>9. SumFunctionOnSet(f, P) = SumFunctionOnSet(f, S) + SumFunctionOnSet(f, R)
    BY <1>0, <2>4, <2>6, <2>7, <2>8
  <2> QED BY <2>2, <2>9
<1> HIDE DEF C
<1>3. T \in C
  BY <1>1, <1>2, FiniteInduction
<1> QED BY <1>0, <1>3 DEF C

-----------------------------------------------------------------------------
(* The ledger.  What a transaction has moved so far, its own ends without  *)
(* the pending ones, is what the rows it holds differ by from their saved  *)
(* versions; a commit hands both over at once.                             *)
Sides == {"from", "to"}
By(t) == {h \in Headers : header[h].writer = t}
MovedEnds(t) == {e \in EndsOf(By(t)) : ~Pending(t, e[1], e[2], e[3])}

(* The postings made before the run stay as they are. *)
Opened == \A h \in Before : header[h].writer = NoTx /\ header[h].lines # <<>>

(* A row that nobody holds is as it was saved. *)
Untouched == \A d \in Dims : lock[d] = NoTx => row[d].onHand = saved[d].onHand

(* A row that t holds differs by what t has moved. *)
Balanced(t) ==
  /\ IsFiniteSet(EndsOf(By(t)))
  /\ \A d \in Dims : lock[d] = t => row[d].onHand = saved[d].onHand + Net(MovedEnds(t), d)

(* The inductive invariant of BalanceIsLedger, beside IInv. *)
LedgerInv ==
  /\ Opened
  /\ Untouched
  /\ IsFiniteSet(EndsOf(Committed))
  /\ BalanceIsLedger
  /\ \A t \in Txs : Balanced(t)

(* What is in EndsOf. *)
LEMMA EndsOfAre ==
  ASSUME NEW hs \in SUBSET Headers
  PROVE  \A e : e \in EndsOf(hs) <=>
            \E h \in hs : \E i \in DOMAIN header[h].lines, side \in Sides : e = <<h, i, side>>
BY DEF EndsOf, Sides

(* An end of a line has an effect, a whole number. *)
LEMMA EffectFacts ==
  ASSUME TypeOK, NEW hs \in SUBSET Headers, NEW e \in EndsOf(hs), NEW d
  PROVE  /\ e[1] \in hs /\ e[2] \in DOMAIN header[e[1]].lines /\ e[3] \in Sides
         /\ e = <<e[1], e[2], e[3]>>
         /\ Effect(e, d) \in Int
         /\ Effect(e, d) # 0 => header[e[1]].lines[e[2]][e[3]] = d
<1>0. PICK h \in hs : \E i \in DOMAIN header[h].lines, side \in Sides : e = <<h, i, side>>
  BY EndsOfAre
<1>1. PICK i \in DOMAIN header[h].lines, side \in Sides : e = <<h, i, side>>
  BY <1>0
<1>2. e[1] = h /\ e[2] = i /\ e[3] = side
  BY <1>1
<1>3. header[h].lines \in Seq(Lines)
  BY DEF TypeOK
<1>4. header[h].lines[i].qty \in Nat
  BY <1>3 DEF Lines
<1>5. Effect(e, d) \in Int /\ (Effect(e, d) # 0 => header[h].lines[i][side] = d)
  BY <1>2, <1>4 DEF Effect
<1> QED BY <1>1, <1>2, <1>5

(* A posting has finitely many ends. *)
LEMMA OneFinite ==
  ASSUME NEW h, NEW n \in Nat
  PROVE  IsFiniteSet({h} \X (1 .. n) \X Sides)
<1>1. PICK D : D = 1 .. n /\ IsFiniteSet(D)
  BY FS_Interval
<1>2. IsFiniteSet(Sides)
  <2>1. IsFiniteSet({"from"})
    BY FS_Singleton
  <2>2. IsFiniteSet({"from"} \cup {"to"})
    BY <2>1, FS_AddElement
  <2>3. Sides = {"from"} \cup {"to"}
    BY DEF Sides
  <2> QED BY <2>2, <2>3
<1>3. PICK P : P = D \X Sides /\ IsFiniteSet(P)
  BY <1>1, <1>2, FS_Product
<1>4. PICK T : T = {h} \X D \X Sides
  OBVIOUS
<1>5. PICK g : g = [p \in P |-> <<h, p[1], p[2]>>]
  OBVIOUS
<1>6. g \in Surjection(P, T)
  <2>1. ASSUME NEW p \in P PROVE g[p] \in T
    BY <1>3, <1>4, <1>5
  <2>2. ASSUME NEW x \in T PROVE \E p \in P : g[p] = x
    <3>1. PICK i \in D, side \in Sides : x = <<h, i, side>>
      BY <1>4
    <3>2. <<i, side>> \in P
      BY <1>3
    <3>3. g[<<i, side>>] = x
      BY <1>5, <3>1, <3>2
    <3> QED BY <3>2, <3>3
  <2>3. g \in [P -> T]
    BY <1>5, <2>1
  <2> QED BY <2>2, <2>3 DEF Surjection
<1>7. IsFiniteSet(T)
  BY <1>3, <1>6, FS_Surjection
<1> QED BY <1>1, <1>4, <1>7

(* What a set of ends does, whichever function lists the effects. *)
LEMMA NetIs ==
  ASSUME NEW E, NEW d, IsFiniteSet(E), NEW f, \A e \in E : f[e] = Effect(e, d)
  PROVE  Net(E, d) = SumFunctionOnSet(f, E)
<1>1. PICK g : g = [e \in E |-> Effect(e, d)] /\ Net(E, d) = SumFunctionOnSet(g, E)
  BY DEF Net
<1>2. \A e \in E : g[e] = f[e]
  BY <1>1
<1> QED BY <1>1, <1>2, SumSame

(* The same after a step.                                                  *)
LEMMA NetIsAfter ==
  ASSUME NEW E, NEW d, IsFiniteSet(E), NEW f, \A e \in E : f[e] = Effect(e, d)'
  PROVE  Net(E, d)' = SumFunctionOnSet(f, E)
<1>1. PICK g : g = [e \in E |-> Effect(e, d)'] /\ Net(E, d)' = SumFunctionOnSet(g, E)
  BY DEF Net
<1>2. \A e \in E : g[e] = f[e]
  BY <1>1
<1> QED BY <1>1, <1>2, SumSame

(* Ends that leave row d alone add nothing. *)
LEMMA NetZero ==
  ASSUME NEW E, NEW d, IsFiniteSet(E), \A e \in E : Effect(e, d) = 0
  PROVE  Net(E, d) = 0
<1>1. PICK f : f = [e \in E |-> 0]
  OBVIOUS
<1>2. Net(E, d) = SumFunctionOnSet(f, E)
  BY <1>1, NetIs
<1>3. SumFunctionOnSet(f, E) = SumFunctionOnSet(f, {})
  BY <1>1, SumZeros
<1> QED BY <1>2, <1>3, SumEmpty

(* The same ends with the same effects have the same sum. *)
LEMMA NetSame ==
  ASSUME NEW E, NEW d, IsFiniteSet(E), \A e \in E : Effect(e, d)' = Effect(e, d)
  PROVE  Net(E, d)' = Net(E, d)
<1>1. PICK f : f = [e \in E |-> Effect(e, d)]
  OBVIOUS
<1>2. Net(E, d) = SumFunctionOnSet(f, E)
  BY <1>1, NetIs
<1>3. Net(E, d)' = SumFunctionOnSet(f, E)
  BY <1>1, NetIsAfter
<1> QED BY <1>2, <1>3

(* What two sets of ends do adds up.                                       *)
LEMMA NetUnion ==
  ASSUME NEW E, NEW F, NEW d, IsFiniteSet(E), IsFiniteSet(F), E \cap F = {},
         \A e \in E \cup F : Effect(e, d) \in Int
  PROVE  Net(E, d) \in Int /\ Net(F, d) \in Int /\ Net(E \cup F, d) = Net(E, d) + Net(F, d)
<1>1. PICK f : f = [e \in E \cup F |-> Effect(e, d)]
  OBVIOUS
<1>2. IsFiniteSet(E \cup F)
  BY FS_Union
<1>3. Net(E, d) = SumFunctionOnSet(f, E) /\ Net(F, d) = SumFunctionOnSet(f, F)
  BY <1>1, NetIs
<1>4. Net(E \cup F, d) = SumFunctionOnSet(f, E \cup F)
  BY <1>1, <1>2, NetIs
<1> QED BY <1>1, <1>3, <1>4, SumUnion

(* What one end does.                                                      *)
LEMMA NetOne ==
  ASSUME NEW e, NEW d, Effect(e, d) \in Int
  PROVE  Net({e}, d) = Effect(e, d)
<1>1. PICK f : f = [x \in {e} |-> Effect(x, d)]
  OBVIOUS
<1>2. IsFiniteSet({e})
  BY FS_Singleton
<1>3. Net({e}, d) = SumFunctionOnSet(f, {e})
  BY <1>1, <1>2, NetIs
<1>4. {e} \ {e} = {} /\ f[e] = Effect(e, d)
  BY <1>1
<1>5. SumFunctionOnSet(f, {e}) = f[e] + SumFunctionOnSet(f, {})
  BY <1>1, <1>2, <1>4, SumWithout
<1> QED BY <1>3, <1>4, <1>5, SumEmpty

-----------------------------------------------------------------------------
(* An end of a header that stays has the effect it had. *)
LEMMA EffectSame ==
  ASSUME NEW e, NEW d, header'[e[1]] = header[e[1]]
  PROVE  Effect(e, d)' = Effect(e, d)
BY DEF Effect

(* The ledger is as it was when the committed ends are, and the committed rows. *)
LEMMA LedgerSame ==
  ASSUME TypeOK, BalanceIsLedger, IsFiniteSet(EndsOf(Committed)), UNCHANGED saved,
         EndsOf(Committed)' = EndsOf(Committed),
         \A h \in Committed : header'[h] = header[h]
  PROVE  BalanceIsLedger' /\ IsFiniteSet(EndsOf(Committed))'
<1>1. PICK E : E = EndsOf(Committed)
  OBVIOUS
<1>2. IsFiniteSet(E) /\ EndsOf(Committed)' = E
  BY <1>1
<1>3. Committed \in SUBSET Headers
  BY DEF Committed
<1>4. ASSUME NEW d \in Dims PROVE saved'[d].onHand = Opening[d].onHand + Net(EndsOf(Committed), d)'
  <2>1. ASSUME NEW e \in E PROVE Effect(e, d)' = Effect(e, d)
    <3>1. e[1] \in Committed
      BY <1>1, <1>3, EffectFacts
    <3> QED BY <3>1, EffectSame
  <2>2. Net(E, d)' = Net(E, d)
    BY <1>2, <2>1, NetSame
  <2>3. Net(EndsOf(Committed), d)' = Net(E, d)'
    BY <1>2 DEF Net
  <2>4. saved[d].onHand = Opening[d].onHand + Net(E, d)
    BY <1>1 DEF BalanceIsLedger
  <2> QED BY <2>2, <2>3, <2>4
<1> QED BY <1>2, <1>4 DEF BalanceIsLedger

(* A transaction has moved finitely many ends.                             *)
LEMMA MovedFinite ==
  ASSUME NEW t, Balanced(t)
  PROVE  IsFiniteSet(MovedEnds(t))
<1>1. MovedEnds(t) \in SUBSET EndsOf(By(t))
  BY DEF MovedEnds
<1> QED BY <1>1, FS_Subset DEF Balanced

(* A transaction has moved nothing in a row it does not hold. *)
LEMMA NotHeld ==
  ASSUME TypeOK, NEW t \in Txs, Written(t), Balanced(t), NEW d \in Dims, lock[d] # t
  PROVE  Net(MovedEnds(t), d) = 0
<1>1. ASSUME NEW e \in MovedEnds(t) PROVE Effect(e, d) = 0
  <2>1. e \in EndsOf(By(t)) /\ ~Pending(t, e[1], e[2], e[3]) /\ By(t) \in SUBSET Headers
    BY DEF MovedEnds, By
  <2>2. /\ e[1] \in By(t) /\ e[2] \in DOMAIN header[e[1]].lines /\ e[3] \in {"from", "to"}
        /\ Effect(e, d) # 0 => header[e[1]].lines[e[2]][e[3]] = d
    BY <2>1, EffectFacts DEF Sides
  <2>3. e[1] \in Headers /\ header[e[1]].writer = t
    BY <2>2 DEF By
  <2>4. d # NoDim
    BY InventoryPostingAssumption
  <2> QED BY <2>1, <2>2, <2>3, <2>4 DEF Written
<1> QED BY <1>1, MovedFinite, NetZero

(* The others stay balanced. *)
LEMMA OthersBalanced ==
  ASSUME TypeOK, NEW u \in Txs, Balanced(u), Leaves(u),
         \A d \in Dims : lock'[d] = u => lock[d] = u /\ saved'[d] = saved[d]
  PROVE  Balanced(u)'
<1>1. By(u)' = By(u) /\ \A h \in By(u) : header'[h] = header[h]
  BY DEF By, Leaves, LeavesHeaders
<1>2. PICK E : E = EndsOf(By(u))
  OBVIOUS
<1>3. EndsOf(By(u))' = E
  BY <1>1, <1>2 DEF EndsOf
<1>4. \A h, i, side : Pending(u, h, i, side)' = Pending(u, h, i, side)
  BY DEF Pending, Leaves, LeavesTx, HeaderOf, Cur
<1>5. PICK M : M = MovedEnds(u)
  OBVIOUS
<1>6. MovedEnds(u)' = M
  BY <1>2, <1>3, <1>4, <1>5 DEF MovedEnds
<1>7. IsFiniteSet(M) /\ M \subseteq E
  BY <1>2, <1>5, MovedFinite DEF MovedEnds
<1>8. ASSUME NEW d \in Dims, lock'[d] = u
      PROVE  row'[d].onHand = saved'[d].onHand + Net(MovedEnds(u), d)'
  <2>1. ASSUME NEW e \in M PROVE Effect(e, d)' = Effect(e, d)
    <3>1. By(u) \in SUBSET Headers
      BY DEF By
    <3>2. e[1] \in By(u)
      BY <1>2, <1>7, <3>1, EffectFacts
    <3> QED BY <1>1, <3>2, EffectSame
  <2>2. Net(M, d)' = Net(M, d)
    BY <1>7, <2>1, NetSame
  <2>3. Net(MovedEnds(u), d)' = Net(M, d)'
    BY <1>6 DEF Net
  <2>4. row[d].onHand = saved[d].onHand + Net(M, d)
    BY <1>5, <1>8 DEF Balanced
  <2>5. row'[d] = row[d] /\ saved'[d] = saved[d]
    BY <1>8 DEF Leaves, LeavesRows
  <2> QED BY <2>2, <2>3, <2>4, <2>5
<1>9. IsFiniteSet(EndsOf(By(u)))'
  BY <1>2, <1>3 DEF Balanced
<1> QED BY <1>8, <1>9 DEF Balanced

-----------------------------------------------------------------------------
(* What a step does to stock and ledger: nothing ... *)
Calm(t) ==
  /\ UNCHANGED <<saved, header>>
  /\ step[t] # "lines" /\ step'[t] # "lines"
  /\ \A d \in Dims : /\ row'[d].onHand = row[d].onHand
                     /\ row[d].id # 0 => row'[d].id = row[d].id
                     /\ lock'[d] = lock[d] \/ (Free(t, d) /\ lock'[d] = t)

(* ... or it writes a header ... *)
Inserts(t) ==
  /\ step[t] = "insert"
  /\ header[HeaderOf(t)] = NoHeader
  /\ header' = [header EXCEPT ![HeaderOf(t)] = [lines |-> LinesOf(t), writer |-> t]]
  /\ step'   = [step EXCEPT ![t] = "lines"]
  /\ cursor' = [cursor EXCEPT ![t] = <<1, "from">>]
  /\ UNCHANGED <<prog, call, row, saved, lock>>

(* ... or it moves one end of a line. *)
Moves(t) ==
  /\ step[t] = "lines" /\ Advance(t)
  /\ UNCHANGED <<prog, saved, header>>
  /\ \/ Target(t) = NoDim /\ UNCHANGED <<row, lock>>
     \/ Target(t) # NoDim /\ Write(t, Target(t), Moved(t))

(* A statement of reserve, pick or consume leaves on_hand_qty alone. *)
LEMMA UpdatedOnHand ==
  ASSUME NEW c, c.op \in QtyOps, NEW b \in Rows
  PROVE  Updated(c, b).onHand = b.onHand
BY DEF QtyOps, Updated, Rows

(* There is no other kind of step.                                         *)
LEMMA StepKinds ==
  ASSUME TypeOK, NEW t \in Txs, TxInv(t), Start(t) \/ Run(t)
  PROVE  Calm(t) \/ Inserts(t) \/ Moves(t) \/ Commit(t) \/ \E why \in Outcomes : Abort(t, why)
<1> USE DEF Outcomes
<1>0. Sane(t)
  BY DEF TxInv
<1>a. ASSUME UNCHANGED dbVars, step[t] # "lines", step'[t] # "lines"
      PROVE  Calm(t)
  BY <1>a DEF Calm, dbVars
<1>b. ASSUME step[t] # "lines", NEW s, s # "lines", Goto(t, s)
      PROVE  Calm(t)
  BY <1>a, <1>b DEF Goto, TypeOK
<1>c. ASSUME step[t] # "lines", NextCall(t), UNCHANGED dbVars
      PROVE  Calm(t)
  BY <1>a, <1>c DEF NextCall, TypeOK
<1>d. ASSUME step[t] # "lines", Absorb(t)
      PROVE  Calm(t) \/ Abort(t, "posted")
  BY <1>c, <1>d DEF Absorb
<1>1. CASE Start(t)
  BY <1>a, <1>1 DEF Start, TypeOK
<1>2. CASE post(t)
  BY <1>b, <1>d, <1>2 DEF post
<1>3. CASE reverse(t)
  BY <1>b, <1>d, <1>3 DEF reverse
<1>4. CASE callerLock(t)
  BY <1>b, <1>4 DEF callerLock
<1>5. CASE SnapshotRows(t)
  BY <1>a, <1>5 DEF SnapshotRows, TypeOK
<1>6. CASE lockBalancesInOrder(t)
  <2>1. step[t] # "lines" /\ step'[t] # "lines" /\ UNCHANGED <<row, saved, header>>
    BY <1>6 DEF lockBalancesInOrder, TypeOK, dbVars
  <2>2. ASSUME NEW d \in Dims PROVE lock'[d] = lock[d] \/ (Free(t, d) /\ lock'[d] = t)
    BY <1>6 DEF lockBalancesInOrder, TypeOK, dbVars
  <2> QED BY <2>1, <2>2 DEF Calm
<1>7. CASE ChooseRows(t)
  BY <1>c, <1>7 DEF ChooseRows
<1>8. CASE RereadReversal(t)
  BY <1>b, <1>d, <1>8 DEF RereadReversal
<1>9. CASE InsertHeader(t)
  BY <1>9 DEF InsertHeader, Inserts
<1>10. CASE writeLine(t)
  BY <1>10 DEF writeLine, Moves, dbVars
<1>11. CASE updateQty(t)
  <2>1. PICK d \in Cur(t).dims :
           \/ /\ Write(t, d, Updated(Cur(t), row[d]))
              /\ NextCall(t)
              /\ UNCHANGED <<prog, toLock, cursor, outcome, saved, header>>
           \/ Abort(t, "trigger")
           \/ Abort(t, "negative")
    BY <1>11 DEF updateQty
  <2>2. CASE /\ Write(t, d, Updated(Cur(t), row[d]))
             /\ NextCall(t)
             /\ UNCHANGED <<prog, toLock, cursor, outcome, saved, header>>
    <3>1. Cur(t) \in Call /\ Cur(t).op \in QtyOps /\ step[t] = "call"
      BY <1>0, <1>11, CallFacts DEF updateQty
    <3>2. d \in Dims /\ row[d] \in Rows
      BY <2>1, <3>1 DEF Call, TypeOK
    <3>3. PICK b : b = Updated(Cur(t), row[d])
      OBVIOUS
    <3>4. b.onHand = row[d].onHand /\ b.id = row[d].id /\ DOMAIN b = DOMAIN row[d]
      BY <3>1, <3>2, <3>3, UpdatedOnHand DEF Updated, QtyOps, Rows
    <3>5. row' = [row EXCEPT ![d] = [b EXCEPT !.id = IF @ = 0 THEN nextId ELSE @]]
      BY <2>2, <3>3 DEF Write
    <3>6. \A e \in Dims : row'[e].onHand = row[e].onHand /\ (row[e].id # 0 => row'[e].id = row[e].id)
      BY <3>2, <3>4, <3>5 DEF TypeOK, Rows
    <3>7. \A e \in Dims : lock'[e] = lock[e] \/ (Free(t, e) /\ lock'[e] = t)
      BY <2>2, <3>2 DEF Write, TypeOK
    <3>8. step'[t] # "lines"
      BY <2>2 DEF NextCall, TypeOK
    <3> QED BY <2>2, <3>1, <3>6, <3>7, <3>8 DEF Calm
  <2> QED BY <2>1, <2>2
<1>12. CASE handCheck(t)
  BY <1>c, <1>12 DEF handCheck
<1>13. CASE Commit(t)
  BY <1>13
<1>14. CASE DeadlockVictim(t)
  BY <1>14 DEF DeadlockVictim
<1> QED BY <1>1, <1>2, <1>3, <1>4, <1>5, <1>6, <1>7, <1>8, <1>9, <1>10, <1>11, <1>12, <1>13, <1>14
         DEF Run

(* A row that a transaction may write holds what is saved and what it moved. *)
LEMMA FreeRow ==
  ASSUME TypeOK, NEW t \in Txs, Written(t), Untouched, Balanced(t), NEW d \in Dims, Free(t, d)
  PROVE  row[d].onHand = saved[d].onHand + Net(MovedEnds(t), d)
<1>1. CASE lock[d] = t
  BY <1>1 DEF Balanced
<1>2. CASE lock[d] = NoTx
  <2>1. Net(MovedEnds(t), d) = 0
    BY <1>2, NotHeld, InventoryPostingAssumption
  <2>2. row[d].onHand = saved[d].onHand /\ saved[d].onHand \in Int
    BY <1>2 DEF Untouched, TypeOK, Rows
  <2> QED BY <2>1, <2>2
<1> QED BY <1>1, <1>2 DEF Free

(* A step gives no row to another transaction, and saves none of its rows. *)
LEMMA OthersRows ==
  ASSUME TypeOK, NEW t \in Txs, TxInv(t), Start(t) \/ Run(t), NEW u \in Txs, u # t
  PROVE  \A d \in Dims : lock'[d] = u => lock[d] = u /\ saved'[d] = saved[d]
<1> SUFFICES ASSUME NEW d \in Dims, lock'[d] = u PROVE lock[d] = u /\ saved'[d] = saved[d]
  OBVIOUS
<1>1. CASE Calm(t)
  BY <1>1 DEF Calm
<1>2. CASE Inserts(t)
  BY <1>2 DEF Inserts
<1>3. CASE Moves(t)
  BY <1>3, TargetFacts DEF TxInv, Moves, Write, TypeOK
<1>4. CASE Commit(t)
  BY <1>4, InventoryPostingAssumption DEF Commit, Release
<1>5. CASE \E why \in Outcomes : Abort(t, why)
  BY <1>5, InventoryPostingAssumption DEF Abort, Release
<1> QED BY <1>1, <1>2, <1>3, <1>4, <1>5, StepKinds

(* LedgerInv as far as it is about the transaction that takes the step. *)
LedgerOwn(t) == Opened /\ Untouched /\ IsFiniteSet(EndsOf(Committed)) /\ BalanceIsLedger /\ Balanced(t)

(* No headers, or no lines, change. *)
LEMMA CalmLedger ==
  ASSUME TypeOK, TypeOK', NEW t \in Txs, TxInv(t), LedgerOwn(t), Calm(t)
  PROVE  LedgerOwn(t)'
<1>0. Opened /\ Untouched /\ IsFiniteSet(EndsOf(Committed)) /\ BalanceIsLedger /\ Balanced(t) /\ Written(t)
  BY DEF LedgerOwn, TxInv
<1>1. UNCHANGED <<saved, header>>
  BY DEF Calm
<1>2. EndsOf(Committed)' = EndsOf(Committed) /\ EndsOf(By(t))' = EndsOf(By(t))
  BY <1>1 DEF EndsOf, Committed, By
<1>3. BalanceIsLedger' /\ IsFiniteSet(EndsOf(Committed))'
  BY <1>0, <1>1, <1>2, LedgerSame
<1>4. Opened'
  BY <1>0, <1>1 DEF Opened
<1>5. PICK M : M = MovedEnds(t)
  OBVIOUS
<1>6. MovedEnds(t)' = M
  BY <1>2, <1>5 DEF MovedEnds, Pending, Calm
<1>7. ASSUME NEW d \in Dims, lock'[d] = t
      PROVE  row'[d].onHand = saved'[d].onHand + Net(MovedEnds(t), d)'
  <2>1. \A e \in M : Effect(e, d)' = Effect(e, d)
    BY <1>1, EffectSame
  <2>2. IsFiniteSet(M)
    BY <1>0, <1>5, MovedFinite
  <2>3. Net(MovedEnds(t), d)' = Net(M, d)
    <3>1. Net(MovedEnds(t), d)' = Net(M, d)'
      BY <1>6 DEF Net
    <3> QED BY <2>1, <2>2, <3>1, NetSame
  <2>4. row'[d].onHand = row[d].onHand /\ saved'[d] = saved[d] /\ Free(t, d)
    BY <1>7 DEF Calm, Free
  <2>5. row[d].onHand = saved[d].onHand + Net(M, d)
    BY <1>0, <1>5, <2>4, FreeRow
  <2> QED BY <2>3, <2>4, <2>5
<1>8. IsFiniteSet(EndsOf(By(t)))'
  BY <1>0, <1>2 DEF Balanced
<1>9. Balanced(t)'
  BY <1>7, <1>8 DEF Balanced
<1>10. Untouched'
  <2> SUFFICES ASSUME NEW d \in Dims, lock'[d] = NoTx PROVE row'[d].onHand = saved'[d].onHand
    BY DEF Untouched
  <2>1. lock[d] = NoTx /\ row'[d].onHand = row[d].onHand
    BY InventoryPostingAssumption DEF Calm
  <2> QED BY <1>0, <1>1, <2>1 DEF Untouched
<1> QED BY <1>3, <1>4, <1>9, <1>10 DEF LedgerOwn

(* A rollback takes back what its transaction moved, with its headers. *)
LEMMA AbortLedger ==
  ASSUME TypeOK, TypeOK', NEW t \in Txs, TxInv(t), LedgerOwn(t), NEW why \in Outcomes, Abort(t, why)
  PROVE  LedgerOwn(t)'
<1>0. Opened /\ Untouched /\ IsFiniteSet(EndsOf(Committed)) /\ BalanceIsLedger /\ Balanced(t)
  BY DEF LedgerOwn
<1>1. \A h \in Headers : header'[h] = IF header[h].writer = t THEN NoHeader ELSE header[h]
  BY DEF Abort
<1>2. \A h \in Headers : header'[h].writer # t
  BY <1>1, InventoryPostingAssumption DEF NoHeader
<1>3. \A d \in Dims : lock'[d] # t /\ saved'[d] = saved[d]
  BY InventoryPostingAssumption DEF Abort, Release
<1>4. Opened'
  BY <1>0, <1>1, InventoryPostingAssumption DEF Opened, Before
<1>5. EndsOf(Committed)' = EndsOf(Committed)
  <2>1. ASSUME NEW e PROVE e \in EndsOf(Committed)' <=> e \in EndsOf(Committed)
    <3>1. ASSUME NEW h \in Headers, header'[h].writer = NoTx, header[h].writer # NoTx
          PROVE  DOMAIN header'[h].lines = {}
      BY <1>1, <3>1 DEF NoHeader
    <3>2. ASSUME NEW h \in Headers, header[h].writer = NoTx
          PROVE  header'[h] = header[h]
      BY <1>1, <3>2, InventoryPostingAssumption
    <3> QED BY <3>1, <3>2 DEF EndsOf, Committed
  <2> QED BY <2>1
<1>6. \A h \in Committed : header'[h] = header[h]
  BY <1>1, InventoryPostingAssumption DEF Committed
<1>7. UNCHANGED saved
  BY DEF Abort
<1>8. BalanceIsLedger' /\ IsFiniteSet(EndsOf(Committed))'
  BY <1>0, <1>5, <1>6, <1>7, LedgerSame
<1>9. EndsOf(By(t))' = {}
  BY <1>2 DEF EndsOf, By
<1>10. Balanced(t)'
  BY <1>3, <1>9, FS_EmptySet DEF Balanced
<1>11. Untouched'
  <2> SUFFICES ASSUME NEW d \in Dims, lock'[d] = NoTx PROVE row'[d].onHand = saved'[d].onHand
    BY DEF Untouched
  <2>1. lock[d] \in {t, NoTx} /\ row'[d] = IF lock[d] = t THEN saved[d] ELSE row[d]
    BY InventoryPostingAssumption DEF Abort, Release
  <2> QED BY <1>0, <1>3, <2>1 DEF Untouched
<1> QED BY <1>4, <1>8, <1>10, <1>11 DEF LedgerOwn

(* A header is written before its lines are moved. *)
LEMMA InsertLedger ==
  ASSUME TypeOK, TypeOK', NEW t \in Txs, TxInv(t), LedgerOwn(t), Inserts(t)
  PROVE  LedgerOwn(t)'
<1>0. Opened /\ Untouched /\ IsFiniteSet(EndsOf(Committed)) /\ BalanceIsLedger /\ Balanced(t)
      /\ Sane(t)
  BY DEF LedgerOwn, TxInv
<1>1. PICK H : H = HeaderOf(t)
  OBVIOUS
<1>2. PICK L \in Seq(Lines) : L = LinesOf(t)
  BY <1>0, LinesFacts DEF Sane, Busy, Inserts
<1>3. H \in Headers /\ header[H] = NoHeader /\ H \notin Before
  BY <1>0, <1>1, LinesFacts DEF Sane, Busy, Inserts, Opened, NoHeader
<1>4. header' = [header EXCEPT ![H] = [lines |-> L, writer |-> t]] /\ UNCHANGED <<prog, call, row, saved, lock>>
  BY <1>1, <1>2 DEF Inserts
<1>5. header'[H].writer = t /\ header'[H].lines = L /\ \A h \in Headers : h # H => header'[h] = header[h]
  BY <1>3, <1>4 DEF TypeOK
<1>6. t # NoTx /\ header[H].writer # t /\ DOMAIN header[H].lines = {}
  BY <1>3, InventoryPostingAssumption DEF NoHeader
<1>7. Opened'
  BY <1>0, <1>3, <1>5 DEF Opened, Before
<1>8. EndsOf(Committed)' = EndsOf(Committed)
  <2>1. ASSUME NEW e PROVE e \in EndsOf(Committed)' <=> e \in EndsOf(Committed)
    BY <1>5, <1>6 DEF EndsOf, Committed
  <2> QED BY <2>1
<1>9. BalanceIsLedger' /\ IsFiniteSet(EndsOf(Committed))'
  <2>1. PICK E : E = EndsOf(Committed)
    OBVIOUS
  <2>2. IsFiniteSet(E) /\ EndsOf(Committed)' = E
    BY <1>0, <1>8, <2>1
  <2>3. ASSUME NEW d \in Dims PROVE saved'[d].onHand = Opening[d].onHand + Net(EndsOf(Committed), d)'
    <3>1. ASSUME NEW e \in E PROVE Effect(e, d)' = Effect(e, d)
      <4>1. Committed \in SUBSET Headers
        BY DEF Committed
      <4>2. e[1] \in Headers /\ e[2] \in DOMAIN header[e[1]].lines
        BY <2>1, <4>1, EffectFacts
      <4> QED BY <1>5, <1>6, <4>2, EffectSame
    <3>2. Net(E, d)' = Net(E, d)
      BY <2>2, <3>1, NetSame
    <3>3. Net(EndsOf(Committed), d)' = Net(E, d)'
      BY <2>2 DEF Net
    <3> QED BY <1>0, <1>4, <2>1, <3>2, <3>3 DEF BalanceIsLedger
  <2> QED BY <2>2, <2>3 DEF BalanceIsLedger
<1>10. PICK New : New = {H} \X (1 .. Len(L)) \X Sides
  OBVIOUS
<1>11. IsFiniteSet(New)
  <2>1. PICK k \in Nat : k = Len(L)
    BY <1>2
  <2>2. IsFiniteSet({H} \X (1 .. k) \X Sides)
    BY OneFinite
  <2> QED BY <1>10, <2>1, <2>2
<1>12. PICK E : E = EndsOf(By(t))
  OBVIOUS
<1>13. EndsOf(By(t))' = E \cup New
  <2>1. ASSUME NEW e PROVE e \in EndsOf(By(t))' <=> e \in E \cup New
    <3>1. DOMAIN L = 1 .. Len(L)
      BY <1>2
    <3>2. \A h \in Headers : header'[h].writer = t <=> h = H \/ header[h].writer = t
      BY <1>5
    <3> QED BY <1>3, <1>5, <1>6, <1>10, <1>12, <3>1, <3>2 DEF EndsOf, By, Sides
  <2> QED BY <2>1
<1>14. IsFiniteSet(EndsOf(By(t)))'
  BY <1>0, <1>11, <1>12, <1>13, FS_Union DEF Balanced
<1>15. ASSUME NEW e \in E PROVE e[1] \in Headers /\ e[1] # H
  <2>1. By(t) \in SUBSET Headers
    BY DEF By
  <2>2. e[1] \in By(t)
    BY <1>12, <2>1, EffectFacts
  <2> QED BY <1>6, <2>2 DEF By
<1>16. step'[t] = "lines" /\ cursor'[t] = <<1, "from">> /\ HeaderOf(t)' = H
  BY <1>1, <1>4 DEF Inserts, TypeOK, HeaderOf, Cur
<1>17. MovedEnds(t) = E
  BY <1>12 DEF MovedEnds, Pending, Inserts
<1>18. MovedEnds(t)' = E
  <2>1. ASSUME NEW e \in E PROVE ~Pending(t, e[1], e[2], e[3])'
    BY <1>15, <1>16 DEF Pending
  <2>2. ASSUME NEW e \in New PROVE Pending(t, e[1], e[2], e[3])'
    <3>1. e[1] = H /\ e[2] \in 1 .. Len(L)
      BY <1>10
    <3>2. e[2] > 1 \/ e[2] = 1
      BY <1>2, <3>1
    <3> QED BY <1>16, <3>1, <3>2 DEF Pending
  <2> QED BY <1>13, <2>1, <2>2 DEF MovedEnds
<1>19. Balanced(t)'
  <2> SUFFICES ASSUME NEW d \in Dims, lock'[d] = t
               PROVE  row'[d].onHand = saved'[d].onHand + Net(MovedEnds(t), d)'
    BY <1>14 DEF Balanced
  <2>1. \A e \in E : Effect(e, d)' = Effect(e, d)
    BY <1>5, <1>15, EffectSame
  <2>2. Net(E, d)' = Net(E, d)
    BY <1>0, <1>12, <2>1, NetSame DEF Balanced
  <2>3. Net(MovedEnds(t), d)' = Net(E, d)'
    BY <1>18 DEF Net
  <2>4. row[d].onHand = saved[d].onHand + Net(E, d)
    BY <1>0, <1>4, <1>17 DEF Balanced
  <2> QED BY <1>4, <2>2, <2>3, <2>4
<1>20. Untouched'
  BY <1>0, <1>4 DEF Untouched
<1> QED BY <1>7, <1>9, <1>19, <1>20 DEF LedgerOwn

(* move() adds one end to those that are moved, and its effect to the row. *)
LEMMA MoveLedger ==
  ASSUME TypeOK, TypeOK', NEW t \in Txs, TxInv(t), LedgerOwn(t), Moves(t)
  PROVE  LedgerOwn(t)'
<1>0. /\ Opened /\ Untouched /\ IsFiniteSet(EndsOf(Committed)) /\ BalanceIsLedger /\ Balanced(t)
      /\ Sane(t) /\ Moving(t) /\ Written(t)
      /\ step[t] = "lines" /\ Advance(t) /\ UNCHANGED <<prog, saved, header>>
  BY DEF LedgerOwn, TxInv, Moves
<1>1. PICK H, L, n, at : H = HeaderOf(t) /\ L = LinesOf(t) /\ n = cursor[t][1] /\ at = cursor[t][2]
  OBVIOUS
<1>2. H \in Headers /\ L \in Seq(Lines) /\ n \in 1 .. Len(L) /\ n \in Nat /\ at \in Sides
      /\ Cur(t).op \in {"post", "reverse"}
  BY <1>0, <1>1, LinesFacts, TargetFacts DEF Sane, Busy, Sides
<1>3. header[H].lines = L /\ header[H].writer = t
  BY <1>0, <1>1 DEF Moving
<1>4. PICK d0 : d0 = Target(t) /\ d0 = L[n][at] /\ d0 \in Dims \cup {NoDim}
  BY <1>0, <1>1, TargetFacts DEF Target
<1>5. PICK e0 : e0 = <<H, n, at>>
  OBVIOUS
<1>6. PICK E, M : E = EndsOf(By(t)) /\ M = MovedEnds(t)
  OBVIOUS
<1>7. EndsOf(Committed)' = EndsOf(Committed) /\ EndsOf(By(t))' = E
  BY <1>0, <1>6 DEF EndsOf, Committed, By
<1>8. BalanceIsLedger' /\ IsFiniteSet(EndsOf(Committed))' /\ Opened'
  <2>1. BalanceIsLedger' /\ IsFiniteSet(EndsOf(Committed))'
    BY <1>0, <1>7, LedgerSame
  <2> QED BY <1>0, <2>1 DEF Opened
<1>9. \/ /\ step'[t] = "lines" /\ UNCHANGED <<step, call>>
         /\ \/ at = "from" /\ cursor'[t] = <<n, "to">>
            \/ at = "to" /\ n < Len(L) /\ cursor'[t] = <<n + 1, "from">>
      \/ at = "to" /\ n = Len(L) /\ step'[t] = "call"
  BY <1>0, <1>1 DEF Advance, NextCall, TypeOK
<1>10. ASSUME NEW e \in E
       PROVE  /\ e = <<e[1], e[2], e[3]>> /\ e[3] \in Sides
              /\ e[1] = H => e[2] \in 1 .. Len(L)
  <2>1. By(t) \in SUBSET Headers
    BY DEF By
  <2> QED BY <1>2, <1>3, <1>6, <2>1, EffectFacts
<1>11. e0 \in E /\ e0[1] = H /\ e0[2] = n /\ e0[3] = at
  <2>1. By(t) \in SUBSET Headers /\ H \in By(t)
    BY <1>2, <1>3 DEF By
  <2> QED BY <1>2, <1>3, <1>5, <1>6, <2>1, EndsOfAre
<1>12. e0 \notin M
  BY <1>0, <1>1, <1>2, <1>6, <1>11 DEF MovedEnds, Pending, Sides
<1>13. MovedEnds(t)' = M \cup {e0}
  <2>1. ASSUME NEW e \in E
        PROVE  Pending(t, e[1], e[2], e[3])' <=> Pending(t, e[1], e[2], e[3]) /\ e # e0
    <3>1. Pending(t, e[1], e[2], e[3])
            <=> e[1] = H /\ (e[2] > n \/ (e[2] = n /\ (at = "from" \/ e[3] = "to")))
      BY <1>0, <1>1 DEF Pending
    <3>2. e = e0 <=> e[1] = H /\ e[2] = n /\ e[3] = at
      BY <1>5, <1>10
    <3>3. e[3] \in {"from", "to"} /\ (e[1] = H => e[2] \in 1 .. Len(L))
      BY <1>10 DEF Sides
    <3>4. CASE UNCHANGED <<step, call>> /\ step'[t] = "lines" /\ at = "from" /\ cursor'[t] = <<n, "to">>
      <4>1. HeaderOf(t)' = H
        BY <1>0, <1>1, <3>4 DEF HeaderOf, Cur
      <4> QED BY <1>2, <3>1, <3>2, <3>3, <3>4, <4>1 DEF Pending
    <3>5. CASE UNCHANGED <<step, call>> /\ step'[t] = "lines" /\ at = "to" /\ cursor'[t] = <<n + 1, "from">>
      <4>1. HeaderOf(t)' = H
        BY <1>0, <1>1, <3>5 DEF HeaderOf, Cur
      <4> QED BY <1>2, <3>1, <3>2, <3>3, <3>5, <4>1 DEF Pending
    <3>6. CASE at = "to" /\ n = Len(L) /\ step'[t] = "call"
      BY <1>2, <3>1, <3>2, <3>3, <3>6 DEF Pending
    <3> QED BY <1>9, <3>4, <3>5, <3>6
  <2> QED BY <1>6, <1>7, <1>11, <2>1 DEF MovedEnds
<1>14. \A d \in Dims : Effect(e0, d) =
          IF d0 # d THEN 0 ELSE IF at = "from" THEN -L[n].qty ELSE L[n].qty
  BY <1>3, <1>4, <1>11 DEF Effect
<1>15. IsFiniteSet(M) /\ M \subseteq E
  BY <1>0, <1>6, MovedFinite DEF MovedEnds
<1>16. ASSUME NEW d \in Dims
       PROVE  /\ Net(M, d) \in Int /\ Effect(e0, d) \in Int
              /\ Net(MovedEnds(t), d)' = Net(M, d) + Effect(e0, d)
  <2>1. By(t) \in SUBSET Headers
    BY DEF By
  <2>2. \A e \in E : Effect(e, d) \in Int /\ Effect(e, d)' = Effect(e, d)
    BY <1>0, <1>6, <2>1, EffectFacts, EffectSame
  <2>3. PICK P : P = M \cup {e0}
    OBVIOUS
  <2>4. PICK Q : Q = {e0}
    OBVIOUS
  <2>5. IsFiniteSet(P) /\ IsFiniteSet(Q) /\ P \subseteq E /\ M \cap Q = {} /\ P = M \cup Q
    BY <1>11, <1>12, <1>15, <2>3, <2>4, FS_AddElement, FS_Singleton
  <2>6. Net(P, d)' = Net(P, d)
    BY <2>2, <2>5, NetSame
  <2>7. Net(M, d) \in Int /\ Net(P, d) = Net(M, d) + Net(Q, d)
    BY <1>15, <2>2, <2>5, NetUnion
  <2>8. Net(Q, d) = Effect(e0, d)
    BY <1>11, <2>2, <2>4, NetOne
  <2>9. Net(MovedEnds(t), d)' = Net(P, d)'
    BY <1>13, <2>3 DEF Net
  <2> QED BY <1>11, <2>2, <2>6, <2>7, <2>8, <2>9
<1>17. ASSUME NEW d \in Dims, lock'[d] = t
       PROVE  row'[d].onHand = saved'[d].onHand + Net(MovedEnds(t), d)'
  <2>1. saved'[d] = saved[d] /\ saved[d].onHand \in Int
    BY <1>0 DEF TypeOK, Rows
  <2>2. CASE d # d0 \/ d0 = NoDim
    <3>1. d # d0
      BY <2>2, InventoryPostingAssumption
    <3>2. Effect(e0, d) = 0
      BY <1>14, <3>1
    <3>3. row'[d] = row[d] /\ lock'[d] = lock[d]
      BY <1>4, <3>1 DEF Moves, Write, TypeOK
    <3>4. row[d].onHand = saved[d].onHand + Net(M, d)
      BY <1>0, <1>6, <1>17, <3>3 DEF Balanced
    <3> QED BY <1>16, <2>1, <3>2, <3>3, <3>4
  <2>3. CASE d = d0 /\ d0 # NoDim
    <3>1. Write(t, d, Moved(t)) /\ Target(t) = d
      BY <1>4, <2>3 DEF Moves
    <3>2. row[d].onHand = saved[d].onHand + Net(M, d)
      BY <1>0, <1>6, <3>1, FreeRow DEF Write
    <3>3. row[d] \in Rows /\ L[n].qty \in Nat
      <4>1. L[n] \in Lines
        BY <1>2
      <4> QED BY <4>1 DEF TypeOK, Lines
    <3>4. row'[d].onHand = Moved(t).onHand
      <4>1. Moved(t) \in Rows
        BY <1>0, <1>4, <2>3, TargetFacts
      <4>2. row' = [row EXCEPT ![d] = [Moved(t) EXCEPT !.id = IF @ = 0 THEN nextId ELSE @]]
        BY <3>1 DEF Write
      <4> QED BY <4>1, <4>2 DEF TypeOK, Rows
    <3>5. Moved(t).onHand = row[d].onHand + Effect(e0, d)
      <4>1. Moved(t) = [row[d] EXCEPT !.onHand = IF at = "from" THEN @ - L[n].qty ELSE @ + L[n].qty]
        BY <1>1, <3>1 DEF Moved
      <4>2. Moved(t).onHand = IF at = "from" THEN row[d].onHand - L[n].qty ELSE row[d].onHand + L[n].qty
        BY <3>3, <4>1 DEF Rows
      <4> QED BY <1>14, <2>3, <3>3, <4>2 DEF Rows
    <3> QED BY <1>16, <2>1, <3>2, <3>4, <3>5
  <2> QED BY <2>2, <2>3
<1>18. Balanced(t)'
  BY <1>0, <1>6, <1>7, <1>17 DEF Balanced
<1>19. Untouched'
  <2> SUFFICES ASSUME NEW d \in Dims, lock'[d] = NoTx PROVE row'[d].onHand = saved'[d].onHand
    BY DEF Untouched
  <2>1. lock[d] = NoTx /\ row'[d] = row[d]
    BY <1>4, InventoryPostingAssumption DEF Moves, Write, TypeOK
  <2> QED BY <1>0, <2>1 DEF Untouched
<1> QED BY <1>8, <1>18, <1>19 DEF LedgerOwn

(* A commit makes the ends of its transaction part of the ledger. *)
LEMMA CommitLedger ==
  ASSUME TypeOK, TypeOK', NEW t \in Txs, TxInv(t), LedgerOwn(t), Commit(t)
  PROVE  LedgerOwn(t)'
<1>0. /\ Opened /\ Untouched /\ IsFiniteSet(EndsOf(Committed)) /\ BalanceIsLedger /\ Balanced(t)
      /\ Written(t) /\ t # NoTx
  BY InventoryPostingAssumption DEF LedgerOwn, TxInv
<1>1. \A h \in Headers : /\ header'[h].lines = header[h].lines
                         /\ header'[h].writer = IF header[h].writer = t THEN NoTx ELSE header[h].writer
  BY DEF Commit, TypeOK
<1>2. \A d \in Dims : /\ saved'[d] = IF lock[d] = t THEN row[d] ELSE saved[d]
                      /\ row'[d] = row[d]
                      /\ lock'[d] = IF lock[d] = t THEN NoTx ELSE lock[d]
  BY DEF Commit, Release
<1>3. Opened'
  BY <1>0, <1>1 DEF Opened, Before
<1>4. PICK E, T : E = EndsOf(Committed) /\ T = EndsOf(By(t))
  OBVIOUS
<1>5. MovedEnds(t) = T
  BY <1>4 DEF MovedEnds, Pending, Commit
<1>6. Committed \in SUBSET Headers /\ By(t) \in SUBSET Headers
  BY DEF Committed, By
<1>7. \A h \in Headers : h \in Committed' <=> h \in Committed \/ h \in By(t)
  <2>1. \A h \in By(t) : h \notin Before
    BY <1>0 DEF Opened, By
  <2> QED BY <1>1, <2>1 DEF Committed, By
<1>8. EndsOf(Committed)' = E \cup T
  <2>1. ASSUME NEW e PROVE e \in EndsOf(Committed)' <=> e \in E \cup T
    <3>1. Committed' \subseteq Headers
      BY DEF Committed
    <3>2. e \in EndsOf(Committed)' <=>
             \E h \in Committed' : e \in {h} \X (DOMAIN header'[h].lines) \X {"from", "to"}
      BY DEF EndsOf
    <3>3. e \in E \cup T <=>
             \E h \in Headers : (h \in Committed \/ h \in By(t))
                                /\ e \in {h} \X (DOMAIN header[h].lines) \X {"from", "to"}
      BY <1>4, <1>6 DEF EndsOf
    <3> QED BY <1>1, <1>7, <3>1, <3>2, <3>3
  <2> QED BY <2>1
<1>9. IsFiniteSet(E) /\ IsFiniteSet(T) /\ E \cap T = {}
  <2>1. ASSUME NEW e \in E, e \in T PROVE FALSE
    <3>1. e[1] \in Committed /\ e[1] \in By(t)
      BY <1>4, <1>6, <2>1, EffectFacts
    <3> QED BY <1>0, <3>1 DEF Committed, By
  <2> QED BY <1>0, <1>4, <2>1 DEF Balanced
<1>10. PICK P : P = E \cup T /\ IsFiniteSet(P)
  BY <1>9, FS_Union
<1>11. ASSUME NEW d \in Dims
       PROVE  saved'[d].onHand = Opening[d].onHand + Net(EndsOf(Committed), d)'
  <2>1. ASSUME NEW e \in P PROVE Effect(e, d) \in Int /\ Effect(e, d)' = Effect(e, d)
    <3>1. e[1] \in Headers /\ Effect(e, d) \in Int
      BY <1>4, <1>6, <1>10, EffectFacts
    <3>2. header'[e[1]].lines = header[e[1]].lines
      BY <1>1, <3>1
    <3> QED BY <3>1, <3>2 DEF Effect
  <2>2. Net(P, d)' = Net(P, d)
    BY <1>10, <2>1, NetSame
  <2>3. Net(EndsOf(Committed), d)' = Net(P, d)'
    BY <1>8, <1>10 DEF Net
  <2>4. Net(E, d) \in Int /\ Net(T, d) \in Int /\ Net(P, d) = Net(E, d) + Net(T, d)
    BY <1>9, <1>10, <2>1, NetUnion
  <2>5. saved[d].onHand = Opening[d].onHand + Net(E, d)
    BY <1>0, <1>4 DEF BalanceIsLedger
  <2>6. Opening[d].onHand \in Int
    BY InventoryPostingAssumption DEF Rows
  <2>7. CASE lock[d] = t
    <3>1. row[d].onHand = saved[d].onHand + Net(T, d)
      BY <1>0, <1>5, <2>7 DEF Balanced
    <3> QED BY <1>2, <2>2, <2>3, <2>4, <2>5, <2>6, <2>7, <3>1
  <2>8. CASE lock[d] # t
    <3>1. Net(T, d) = 0
      BY <1>0, <1>5, <2>8, NotHeld
    <3> QED BY <1>2, <2>2, <2>3, <2>4, <2>5, <2>6, <2>8, <3>1
  <2> QED BY <2>7, <2>8
<1>12. BalanceIsLedger' /\ IsFiniteSet(EndsOf(Committed))'
  BY <1>8, <1>10, <1>11 DEF BalanceIsLedger
<1>13. EndsOf(By(t))' = {}
  BY <1>0, <1>1 DEF EndsOf, By
<1>14. Balanced(t)'
  BY <1>0, <1>2, <1>13, FS_EmptySet DEF Balanced
<1>15. Untouched'
  BY <1>0, <1>2 DEF Untouched
<1> QED BY <1>3, <1>12, <1>14, <1>15 DEF LedgerOwn

(* The ledger is balanced before the first request. *)
LEMMA InitLedger == Init => LedgerInv
<1> SUFFICES ASSUME Init PROVE LedgerInv
  OBVIOUS
<1>0. IInv
  BY InitIInv
<1>1. \A h \in Headers : /\ header[h].writer = NoTx
                         /\ header[h].lines = IF h[2] = "post" THEN OpeningLedger[h[1]] ELSE <<>>
  BY DEF Init
<1>2. Opened /\ Untouched
  BY <1>1 DEF Opened, Before, Untouched, Init
<1>3. EndsOf(Committed) = {}
  <2>1. ASSUME NEW h \in Committed PROVE DOMAIN header[h].lines = {}
    <3>1. h \in Headers /\ header[h].lines = <<>>
      BY <1>1 DEF Committed, Before
    <3> QED BY <3>1
  <2> QED BY <2>1 DEF EndsOf
<1>4. IsFiniteSet(EndsOf(Committed)) /\ BalanceIsLedger
  <2>1. PICK E : E = {} /\ IsFiniteSet(E)
    BY FS_EmptySet
  <2>2. ASSUME NEW d \in Dims PROVE saved[d].onHand = Opening[d].onHand + Net(EndsOf(Committed), d)
    <3>1. Net(E, d) = 0
      BY <2>1, NetZero
    <3>2. Net(EndsOf(Committed), d) = Net(E, d)
      BY <1>3, <2>1
    <3>3. saved[d] = Opening[d] /\ Opening[d].onHand \in Int
      BY InventoryPostingAssumption DEF Init, Rows
    <3> QED BY <3>1, <3>2, <3>3
  <2> QED BY <1>3, <2>1, <2>2 DEF BalanceIsLedger
<1>5. ASSUME NEW t \in Txs PROVE Balanced(t)
  <2>1. EndsOf(By(t)) = {}
    BY <1>1, InventoryPostingAssumption DEF EndsOf, By
  <2>2. \A d \in Dims : lock[d] # t
    BY InventoryPostingAssumption DEF Init
  <2> QED BY <2>1, <2>2, FS_EmptySet DEF Balanced
<1> QED BY <1>2, <1>4, <1>5 DEF LedgerInv

(* Every step keeps it balanced. *)
LEMMA NextLedger == IInv /\ LedgerInv /\ [Next]_vars => LedgerInv'
<1> SUFFICES ASSUME IInv, LedgerInv, [Next]_vars PROVE LedgerInv'
  OBVIOUS
<1>0. TypeOK /\ TypeOK' /\ \A t \in Txs : TxInv(t)
  BY NextIInv DEF IInv
<1>1. CASE UNCHANGED vars
  <2>1. EndsOf(Committed)' = EndsOf(Committed) /\ \A h \in Committed : header'[h] = header[h]
    BY <1>1 DEF vars, EndsOf, Committed
  <2>2. BalanceIsLedger' /\ IsFiniteSet(EndsOf(Committed))'
    BY <1>0, <1>1, <2>1, LedgerSame DEF vars, LedgerInv
  <2>3. Opened' /\ Untouched'
    BY <1>1 DEF vars, LedgerInv, Opened, Untouched
  <2>4. ASSUME NEW u \in Txs PROVE Balanced(u)'
    <3>1. Leaves(u)
      BY <1>1 DEF vars, Leaves, LeavesTx, LeavesRows, LeavesHeaders
    <3> QED BY <1>0, <1>1, <3>1, OthersBalanced DEF vars, LedgerInv
  <2> QED BY <2>2, <2>3, <2>4 DEF LedgerInv
<1>2. ASSUME NEW t \in Txs, Start(t) \/ Run(t)
      PROVE  LedgerInv'
  <2>1. LedgerOwn(t)
    BY DEF LedgerInv, LedgerOwn
  <2>2. Calm(t) \/ Inserts(t) \/ Moves(t) \/ Commit(t) \/ \E why \in Outcomes : Abort(t, why)
    BY <1>0, <1>2, StepKinds
  <2>3. LedgerOwn(t)'
    BY <1>0, <2>1, <2>2, CalmLedger, InsertLedger, MoveLedger, CommitLedger, AbortLedger
  <2>4. ASSUME NEW u \in Txs, u # t PROVE Balanced(u)'
    <3>1. Leaves(u)
      BY <1>0, <1>2, <2>4, StepLeaves
    <3>2. \A d \in Dims : lock'[d] = u => lock[d] = u /\ saved'[d] = saved[d]
      BY <1>0, <1>2, <2>4, OthersRows
    <3> QED BY <1>0, <3>1, <3>2, OthersBalanced DEF LedgerInv
  <2> QED BY <2>3, <2>4 DEF LedgerInv, LedgerOwn
<1> QED BY <1>1, <1>2 DEF Next, Done

(* The committed stock of every dimension is its opening stock and what the *)
(* committed ledger lines moved, of any number of concurrent transactions,  *)
(* lines and rows.                                                          *)
THEOREM LedgerIsBalanced == Spec => []BalanceIsLedger
<1>1. Init => IInv /\ LedgerInv
  BY InitIInv, InitLedger
<1>2. IInv /\ LedgerInv /\ [Next]_vars => (IInv /\ LedgerInv)'
  BY NextIInv, NextLedger
<1>3. IInv /\ LedgerInv => BalanceIsLedger
  BY DEF LedgerInv
<1> QED BY <1>1, <1>2, <1>3, PTL DEF Spec

-----------------------------------------------------------------------------
(* Locks in order.  Of the rows that were there before the run, an ordered  *)
(* program waits for one only while it holds lesser ones, and once it has   *)
(* written a header it waits for none of them.                              *)

(* Those rows keep their ids, and what was posted before stays posted. *)
Fixed == \A d \in Old : row[d].id = Opening[d].id /\ saved[d].id = Opening[d].id
Reversible ==
  \A k \in Keys : OpeningLedger[k] # <<>> =>
    header[<<k, "post">>] = [lines |-> OpeningLedger[k], writer |-> NoTx]

(* Nothing is held before the first lock statement. *)
Fresh(t) ==
  /\ step[t] = "idle" => call[t] = 1
  /\ step[t] = "idle" \/ (call[t] = 1 /\ step[t] \in {"call", "snapshot"}) =>
       \A d \in Dims : lock[d] # t

(* What is still to be locked comes after what is held. *)
Ordered(t) ==
  step[t] = "locking" /\ LocksFirst(prog[t]) =>
    \A d \in Old, e \in toLock[t] \cap Old : lock[d] = t /\ lock[e] # t => row[d].id < row[e].id

(* A call has the rows of its places after its lock statement, and the     *)
(* later calls have those of the first.                                    *)
Wanted(t) == {d \in Dims : Place(d) \in balanceKeys(t)}
Secured(t) ==
  /\ step[t] \in Busy \ {"snapshot"} =>
       \A d \in Wanted(t) \cap Old : lock[d] = t \/ (step[t] = "locking" /\ d \in toLock[t])
  /\ step[t] = "locking" => toLock[t] \subseteq Wanted(t)
Kept1st(t) ==
  step[t] \notin {"idle", "over"} /\ call[t] > 1 /\ Covers(prog[t]) =>
    \A d \in Old : Place(d) \in LockedBy(prog[t][1]) => lock[d] = t

(* A header is written by the posting or reversal of the program. *)
HasPosted(t) ==
  \A h \in Headers : header[h].writer = t =>
    /\ step[t] \notin {"idle", "over"}
    /\ \E i \in DOMAIN prog[t] : /\ prog[t][i].op \in {"post", "reverse"}
                                 /\ i < call[t] \/ (i = call[t] /\ step[t] = "lines")

OrderTx(t) == Fresh(t) /\ Ordered(t) /\ Secured(t) /\ Kept1st(t) /\ HasPosted(t)
OrderInv == Fixed /\ Reversible /\ \A t \in Txs : OrderTx(t)

(* No statement changes the id of a row that is there. *)
LEMMA FixedStep ==
  ASSUME TypeOK, Fixed, NEW t \in Txs, TxInv(t), Start(t) \/ Run(t)
  PROVE  Fixed'
<1> SUFFICES ASSUME NEW d \in Old
             PROVE  row'[d].id = Opening[d].id /\ saved'[d].id = Opening[d].id
  BY DEF Fixed
<1>0. row[d].id = Opening[d].id /\ saved[d].id = Opening[d].id /\ row[d].id # 0 /\ d \in Dims
  BY DEF Fixed, Old
<1>1. CASE Calm(t)
  BY <1>0, <1>1 DEF Calm
<1>2. CASE Inserts(t)
  BY <1>0, <1>2 DEF Inserts
<1>3. CASE Moves(t)
  <2>1. CASE UNCHANGED row
    BY <1>0, <1>3, <2>1 DEF Moves
  <2>2. CASE Target(t) # NoDim /\ Write(t, Target(t), Moved(t))
    <3>1. PICK e \in Dims : e = Target(t)
      BY <1>3, <2>2, TargetFacts DEF TxInv, Moves
    <3>2. row[e] \in Rows
      BY DEF TypeOK
    <3>3. PICK b \in Rows : b = Moved(t) /\ b.id = row[e].id
      BY <1>3, <2>2, <3>1, <3>2, TargetFacts DEF TxInv, Moves, Moved, Rows
    <3>4. row' = [row EXCEPT ![e] = [b EXCEPT !.id = IF @ = 0 THEN nextId ELSE @]]
      BY <2>2, <3>1, <3>3 DEF Write
    <3>5. row'[d].id = row[d].id
      BY <1>0, <3>1, <3>2, <3>3, <3>4 DEF TypeOK, Rows
    <3> QED BY <1>0, <1>3, <3>5 DEF Moves
  <2> QED BY <1>3, <2>1, <2>2 DEF Moves
<1>4. CASE Commit(t)
  BY <1>0, <1>4 DEF Commit
<1>5. CASE \E why \in Outcomes : Abort(t, why)
  BY <1>0, <1>5 DEF Abort
<1> QED BY <1>1, <1>2, <1>3, <1>4, <1>5, StepKinds

(* What a transaction has written is all that it can take back: what was    *)
(* posted before the run stays posted.                                      *)
LEMMA ReversibleStep ==
  ASSUME TypeOK, Reversible, NEW t \in Txs, TxInv(t), Start(t) \/ Run(t)
  PROVE  Reversible'
<1> SUFFICES ASSUME NEW k \in Keys, OpeningLedger[k] # <<>>
             PROVE  header'[<<k, "post">>] = header[<<k, "post">>]
  BY DEF Reversible
<1>0. PICK h \in Headers : h = <<k, "post">>
  BY DEF Headers
<1>1. header[h].writer = NoTx /\ header[h].lines # <<>> /\ header[h].writer # t
  <2>1. header[h] = [lines |-> OpeningLedger[k], writer |-> NoTx]
    BY <1>0 DEF Reversible
  <2>2. NoTx # t
    BY InventoryPostingAssumption
  <2> QED BY <2>1, <2>2
<1>2. CASE Calm(t)
  BY <1>0, <1>2 DEF Calm
<1>3. CASE Inserts(t)
  <2>1. h # HeaderOf(t)
    BY <1>1, <1>3 DEF Inserts, NoHeader
  <2> QED BY <1>0, <1>3, <2>1 DEF Inserts, TypeOK
<1>4. CASE Moves(t)
  BY <1>0, <1>4 DEF Moves
<1>5. CASE Commit(t)
  BY <1>0, <1>1, <1>5 DEF Commit, TypeOK
<1>6. CASE \E why \in Outcomes : Abort(t, why)
  <2>1. header' = [g \in Headers |-> IF header[g].writer = t THEN NoHeader ELSE header[g]]
    BY <1>6 DEF Abort
  <2>2. header'[h] = header[h]
    BY <1>1, <2>1
  <2> QED BY <1>0, <2>2
<1> QED BY <1>2, <1>3, <1>4, <1>5, <1>6, StepKinds

(* A call locks the rows of the places that the program names for it. *)
LEMMA KeysNamed ==
  ASSUME TypeOK, Reversible, NEW t \in Txs, Sane(t), step[t] \in Busy,
         Cur(t).op = "reverse" => OpeningLedger[Cur(t).key] # <<>>
  PROVE  balanceKeys(t) = LockedBy(Cur(t))
<1>1. call[t] <= Len(prog[t]) /\ Cur(t).op \in {"post", "reverse", "lock"}
  BY DEF Sane
<1>2. CASE Cur(t).op = "lock"
  BY <1>2 DEF balanceKeys, LockedBy
<1>3. CASE Cur(t).op = "post"
  BY <1>3 DEF balanceKeys, LockedBy, LinesNamed, LinesOf
<1>4. CASE Cur(t).op = "reverse"
  <2>1. Cur(t).key \in Keys /\ Ends(LinesOf(t)) = Ends(header[Original(t)].lines)
    BY <1>1, <1>4, LinesFacts DEF Sane, Busy
  <2>2. header[Original(t)].lines = OpeningLedger[Cur(t).key]
    <3>1. PICK k \in Keys : k = Cur(t).key
      BY <2>1
    <3>2. header[<<k, "post">>] = [lines |-> OpeningLedger[k], writer |-> NoTx]
      BY <1>4, <3>1 DEF Reversible
    <3>3. header[Original(t)].lines = OpeningLedger[k]
      BY <3>1, <3>2 DEF Original
    <3> QED BY <3>1, <3>3
  <2> QED BY <1>4, <2>1, <2>2 DEF balanceKeys, LockedBy, LinesNamed
<1> QED BY <1>1, <1>2, <1>3, <1>4

(* In an ordered program of several calls the first covers the others. *)
LEMMA LaterCovered ==
  ASSUME NEW t \in Txs, TypeOK, Sane(t), step[t] \notin {"idle", "over"},
         call[t] <= Len(prog[t]), LocksFirst(prog[t]),
         call[t] > 1 \/ Cur(t).op \in QtyOps
  PROVE  /\ Covers(prog[t]) /\ call[t] \in DOMAIN prog[t] /\ call[t] > 1
         /\ NamedBy(Cur(t)) \subseteq LockedBy(prog[t][1])
         /\ Cur(t).op = "reverse" => OpeningLedger[Cur(t).key] # <<>>
<1>1. /\ prog[t] \in Seq(Call) /\ call[t] \in DOMAIN prog[t]
      /\ call[t] \in Nat /\ call[t] >= 1
  BY InventoryPostingAssumption DEF Sane, TypeOK
<1>2. PICK p \in Seq(Call) : p = prog[t]
  BY <1>1
<1>3. PICK i \in DOMAIN p : i = call[t] /\ Cur(t) = p[i]
  BY <1>1, <1>2 DEF Cur
<1>4. Covers(p)
  <2>1. CASE Len(p) = 1 /\ p[1].op \in {"post", "reverse"}
    <3>1. i = 1
      <4>1. PICK n \in Nat : n = Len(p) /\ DOMAIN p = 1 .. n
        OBVIOUS
      <4> QED BY <1>3, <2>1, <4>1
    <3>2. Cur(t) = p[1] /\ ~(call[t] > 1)
      BY <1>3, <3>1
    <3> QED BY <2>1, <3>2 DEF QtyOps
  <2> QED BY <1>2, <2>1 DEF LocksFirst
<1>5. p[1].op \in {"lock", "reverse"}
  BY <1>4 DEF Covers
<1>6. call[t] > 1
  BY <1>1, <1>3, <1>5 DEF QtyOps
<1>7. /\ NamedBy(p[i]) \subseteq LockedBy(p[1])
      /\ p[i].op = "reverse" => OpeningLedger[p[i].key] # <<>>
  BY <1>4 DEF Covers
<1> QED BY <1>1, <1>2, <1>3, <1>4, <1>6, <1>7

(* The rows that a posting or reversal moves are among those of its places. *)
LEMMA WantedEnds ==
  ASSUME TypeOK, NEW t \in Txs, Sane(t), step[t] \in Busy, Cur(t).op \in {"post", "reverse"},
         NEW d \in Ends(LinesOf(t))
  PROVE  d \in Wanted(t)
<1>1. LinesOf(t) \in Seq(Lines)
  BY LinesFacts DEF Sane, Busy
<1>2. d \in Dims
  BY <1>1, EndsAreSides
<1> QED BY <1>2 DEF Wanted, balanceKeys

(* The places of a call stay while its header, and what it reverses, do. *)
LEMMA WantedSame ==
  ASSUME TypeOK, NEW u \in Txs, Sane(u), step[u] \in Busy,
         prog'[u] = prog[u], call'[u] = call[u],
         Cur(u).op = "reverse" => header'[Original(u)] = header[Original(u)]
  PROVE  Wanted(u)' = Wanted(u)
<1>1. Cur(u)' = Cur(u)
  BY DEF Cur
<1>2. Cur(u).op \in {"post", "reverse", "lock"}
  BY DEF Sane
<1>3. CASE Cur(u).op = "lock"
  BY <1>1, <1>3 DEF Wanted, balanceKeys
<1>4. CASE Cur(u).op \in {"post", "reverse"}
  <2>1. LinesOf(u)' = LinesOf(u)
    BY <1>1, <1>4 DEF LinesOf, Original
  <2> QED BY <1>1, <1>4, <2>1 DEF Wanted, balanceKeys
<1> QED BY <1>2, <1>3, <1>4

(* The steps of the others leave all this. *)
LEMMA OrderOthers ==
  ASSUME TypeOK, Fixed, Fixed', NEW u \in Txs, TxInv(u), OrderTx(u), Leaves(u),
         \A d \in Dims : lock'[d] = u => lock[d] = u
  PROVE  OrderTx(u)'
<1>1. /\ Fresh(u) /\ Ordered(u) /\ Secured(u) /\ Kept1st(u) /\ HasPosted(u)
      /\ Sane(u) /\ Covered(u)
  BY DEF OrderTx, TxInv
<1>2. /\ prog'[u] = prog[u] /\ call'[u] = call[u] /\ step'[u] = step[u] /\ toLock'[u] = toLock[u]
      /\ \A d \in Dims : lock[d] = u <=> lock'[d] = u
  BY DEF Leaves, LeavesTx, LeavesRows
<1>3. Fresh(u)'
  BY <1>1, <1>2 DEF Fresh
<1>4. Ordered(u)'
  <2> SUFFICES ASSUME step[u] = "locking", LocksFirst(prog[u]), NEW d \in Old,
                      NEW e \in toLock[u] \cap Old, lock'[d] = u, lock'[e] # u
               PROVE  row'[d].id < row'[e].id
    BY <1>2 DEF Ordered
  <2>1. d \in Dims /\ e \in Dims
    BY DEF Old
  <2>2. row[d].id < row[e].id
    BY <1>1, <1>2, <2>1 DEF Ordered
  <2> QED BY <2>1, <2>2 DEF Fixed
<1>5. Secured(u)'
  <2> SUFFICES ASSUME step[u] \in Busy, step[u] # "snapshot"
               PROVE  Secured(u)'
    BY <1>2 DEF Secured, Busy
  <2>1. Cur(u).op = "reverse" => header'[Original(u)] = header[Original(u)]
    <3> SUFFICES ASSUME Cur(u).op = "reverse" PROVE header'[Original(u)] = header[Original(u)]
      OBVIOUS
    <3>1. SeenBy(u, Original(u)) /\ Original(u) \in Headers
      BY <1>1, LinesFacts DEF Covered, Reversing, Sane, Busy
    <3> QED BY <3>1 DEF SeenBy, Leaves, LeavesHeaders
  <2>2. Wanted(u)' = Wanted(u) /\ Wanted(u) \subseteq Dims
    BY <1>1, <1>2, <2>1, WantedSame DEF Wanted
  <2> QED BY <1>1, <1>2, <2>2 DEF Secured
<1>6. Kept1st(u)'
  BY <1>1, <1>2 DEF Kept1st, Old
<1>7. HasPosted(u)'
  BY <1>1, <1>2 DEF HasPosted, Leaves, LeavesHeaders
<1> QED BY <1>3, <1>4, <1>5, <1>6, <1>7 DEF OrderTx

(* A transaction that is over holds nothing. *)
LEMMA OrderOver ==
  ASSUME NEW t \in Txs, step'[t] = "over", \A h \in Headers : header'[h].writer # t
  PROVE  OrderTx(t)'
BY DEF OrderTx, Fresh, Ordered, Secured, Kept1st, HasPosted, Busy

(* The next call has the rows of the first. *)
LEMMA OrderNextCall ==
  ASSUME TypeOK, Reversible, NEW t \in Txs, TxInv(t), OrderTx(t), NextCall(t), prog' = prog,
         step[t] \in {"call", "locked", "lines"}, call[t] <= Len(prog[t]),
         step[t] = "call" => Cur(t).op # "lock" /\ ~(Cur(t).op = "reverse" /\ Cur(t).strict),
         \A d \in Dims : lock[d] = t => lock'[d] = t,
         \A h \in Headers : header'[h].writer = t => header[h].writer = t
  PROVE  OrderTx(t)'
<1>1. /\ Fresh(t) /\ Secured(t) /\ Kept1st(t) /\ HasPosted(t) /\ Sane(t)
      /\ call[t] \in Nat /\ call[t] >= 1
  BY DEF OrderTx, TxInv, TypeOK, Sane
<1>2. step'[t] = "call" /\ call'[t] = call[t] + 1
  BY DEF NextCall, TypeOK
<1>3. Fresh(t)' /\ Ordered(t)' /\ Secured(t)'
  BY <1>1, <1>2 DEF Fresh, Ordered, Secured, Busy
<1>4. Kept1st(t)'
  <2> SUFFICES ASSUME Covers(prog[t]), NEW d \in Old, Place(d) \in LockedBy(prog[t][1])
               PROVE  lock[d] = t
    BY DEF Kept1st, Old
  <2>1. CASE call[t] > 1
    BY <1>1, <2>1 DEF Kept1st
  <2>2. CASE call[t] = 1
    <3>1. PICK p : p = prog[t]
      OBVIOUS
    <3>2. Cur(t) = p[1]
      BY <2>2, <3>1 DEF Cur
    <3>3. /\ p[1].op = "lock" \/ (p[1].op = "reverse" /\ p[1].strict)
          /\ \A i \in DOMAIN p : p[i].op = "reverse" => OpeningLedger[p[i].key] # <<>>
      BY <3>1 DEF Covers
    <3>4. 1 \in DOMAIN p
      <4>1. p \in Seq(Call)
        BY <1>1, <3>1, InventoryPostingAssumption DEF Sane
      <4> QED BY <2>2, <3>1, <4>1
    <3>5. step[t] \in {"locked", "lines"}
      BY <3>2, <3>3
    <3>6. balanceKeys(t) = LockedBy(Cur(t))
      BY <1>1, <3>2, <3>3, <3>4, <3>5, KeysNamed DEF Busy
    <3>7. d \in Wanted(t) \cap Old
      BY <3>1, <3>2, <3>6 DEF Wanted, Old
    <3> QED BY <1>1, <3>5, <3>7 DEF Secured, Busy
  <2> QED BY <1>1, <2>1, <2>2
<1>5. HasPosted(t)'
  <2> SUFFICES ASSUME NEW h \in Headers, header'[h].writer = t
               PROVE  \E i \in DOMAIN prog[t] : prog[t][i].op \in {"post", "reverse"} /\ i < call[t] + 1
    BY <1>2 DEF HasPosted
  <2>1. PICK i \in DOMAIN prog[t] : /\ prog[t][i].op \in {"post", "reverse"}
                                    /\ i < call[t] \/ i = call[t]
    BY <1>1 DEF HasPosted
  <2>2. i < call[t] + 1
    <3>1. i \in Nat
      <4>1. prog[t] \in Seq(Call)
        BY <1>1, InventoryPostingAssumption DEF Sane
      <4> QED BY <4>1
    <3> QED BY <1>1, <2>1, <3>1
  <2> QED BY <2>1, <2>2
<1> QED BY <1>3, <1>4, <1>5 DEF OrderTx

(* A call that goes on within its statements, with no header of its own yet, *)
(* or with its header written.                                               *)
LEMMA OrderSameCall ==
  ASSUME TypeOK, NEW t \in Txs, TxInv(t), OrderTx(t), prog' = prog, call' = call,
         step[t] \notin {"idle", "over"}, step'[t] \notin {"idle", "over"},
         \A d \in Dims : lock[d] = t => lock'[d] = t,
         Fresh(t)', Ordered(t)', Secured(t)',
         \A h \in Headers : header'[h].writer = t =>
           \/ header[h].writer = t /\ (step[t] = "lines" => step'[t] = "lines")
           \/ step'[t] = "lines" /\ Cur(t).op \in {"post", "reverse"} /\ call[t] <= Len(prog[t])
  PROVE  OrderTx(t)'
<1>1. /\ Kept1st(t) /\ HasPosted(t) /\ Sane(t)
  BY DEF OrderTx, TxInv
<1>2. Kept1st(t)'
  BY <1>1 DEF Kept1st, Old
<1>3. HasPosted(t)'
  <2> SUFFICES ASSUME NEW h \in Headers, header'[h].writer = t
               PROVE  \E i \in DOMAIN prog[t] :
                         /\ prog[t][i].op \in {"post", "reverse"}
                         /\ i < call[t] \/ (i = call[t] /\ step'[t] = "lines")
    BY DEF HasPosted
  <2>1. CASE header[h].writer = t /\ (step[t] = "lines" => step'[t] = "lines")
    BY <1>1, <2>1 DEF HasPosted
  <2>2. CASE step'[t] = "lines" /\ Cur(t).op \in {"post", "reverse"} /\ call[t] <= Len(prog[t])
    <3>1. prog[t] \in Seq(Call) /\ call[t] \in Nat /\ call[t] >= 1
      BY <1>1, InventoryPostingAssumption DEF Sane, TypeOK
    <3>2. call[t] \in DOMAIN prog[t]
      BY <2>2, <3>1
    <3> QED BY <2>2, <3>2 DEF Cur
  <2> QED BY <2>1, <2>2
<1> QED BY <1>2, <1>3 DEF OrderTx

(* The first row in the order of ids is one of those to lock, and the least. *)
LEMMA FirstOfLeast ==
  ASSUME TypeOK, NEW t \in Txs, toLock[t] # {}
  PROVE  FirstOf(t) \in toLock[t] /\ \A e \in toLock[t] : row[FirstOf(t)].id <= row[e].id
<1>1. toLock[t] \subseteq Dims /\ \A e \in toLock[t] : row[e].id \in Nat
  BY DEF TypeOK, Rows
<1>2. PICK R : R = OpToRel(<, Nat) /\ IsWellFoundedOn(R, Nat)
  BY NatLessThanWellFounded
<1>3. PICK T : T = {row[e].id : e \in toLock[t]}
  OBVIOUS
<1>4. T \subseteq Nat /\ T # {}
  BY <1>1, <1>3
<1>5. PICK x \in T : \A y \in T : ~ (<<y, x>> \in R)
  BY <1>2, <1>4, WFMin
<1>6. PICK d \in toLock[t] : row[d].id = x
  BY <1>3
<1>7. ASSUME NEW e \in toLock[t] PROVE row[d].id <= row[e].id
  <2>1. row[e].id \in T
    BY <1>3
  <2>2. ~ (row[e].id < row[d].id)
    BY <1>1, <1>2, <1>5, <1>6, <2>1 DEF OpToRel
  <2> QED BY <1>1, <2>2
<1> QED BY <1>7 DEF FirstOf

(* An absorbed call, or one that goes to its locks. *)
LEMMA OrderGoto ==
  ASSUME TypeOK, NEW t \in Txs, TxInv(t), OrderTx(t), NEW s \in {"snapshot", "insert"}, Goto(t, s),
         s = "snapshot" => step[t] = "call", s = "insert" => step[t] = "locked"
  PROVE  OrderTx(t)'
<1>1. step'[t] = s /\ UNCHANGED <<prog, call, lock, header>>
  BY DEF Goto, TypeOK, dbVars
<1>2. Fresh(t)' /\ Ordered(t)'
  BY <1>1 DEF OrderTx, Fresh, Ordered
<1>3. Secured(t)'
  <2>1. CASE s = "snapshot"
    BY <1>1, <2>1 DEF Secured
  <2>2. CASE s = "insert"
    <3>1. step[t] = "locked" /\ Wanted(t)' = Wanted(t)
      BY <1>1, <2>2, WantedSame DEF TxInv, Busy
    <3> QED BY <1>1, <2>2, <3>1 DEF OrderTx, Secured, Busy
  <2> QED BY <2>1, <2>2
<1> QED BY <1>1, <1>2, <1>3, OrderSameCall

(* A call that finds its header there. *)
LEMMA OrderAbsorb ==
  ASSUME TypeOK, Reversible, NEW t \in Txs, TxInv(t), OrderTx(t), Absorb(t), step[t] \in {"call", "locked"},
         call[t] <= Len(prog[t]), Cur(t).op \in {"post", "reverse"}
  PROVE  OrderTx(t)'
<1>1. CASE Abort(t, "posted")
  <2>1. \A h \in Headers : header'[h].writer # t
    BY <1>1, InventoryPostingAssumption DEF Abort, NoHeader
  <2>2. step'[t] = "over"
    BY <1>1 DEF Abort, TypeOK
  <2> QED BY <2>1, <2>2, OrderOver
<1>2. CASE ~Cur(t).strict /\ NextCall(t) /\ UNCHANGED <<prog, toLock, cursor, outcome, dbVars>>
  BY <1>2, OrderNextCall DEF dbVars
<1> QED BY <1>1, <1>2 DEF Absorb

(* The lock statement finds all the old rows of its places. *)
LEMMA OrderSnapshot ==
  ASSUME TypeOK, Fixed, Reversible, NEW t \in Txs, TxInv(t), OrderTx(t), SnapshotRows(t)
  PROVE  OrderTx(t)'
<1>1. /\ Fresh(t) /\ Kept1st(t) /\ Sane(t) /\ step[t] = "snapshot" /\ step[t] \in Busy
      /\ call[t] \in Nat /\ call[t] >= 1 /\ call[t] <= Len(prog[t])
  BY DEF OrderTx, TxInv, Sane, SnapshotRows, Busy, TypeOK
<1>2. step'[t] = "locking" /\ UNCHANGED <<prog, call, row, saved, lock, header>>
  BY DEF SnapshotRows, TypeOK, dbVars
<1>3. toLock'[t] \subseteq Wanted(t) /\ Wanted(t) \cap Old \subseteq toLock'[t]
  <2>1. toLock'[t] = {d \in Dims : /\ Place(d) \in balanceKeys(t)
                                   /\ saved[d].id # 0 \/ (lock[d] = t /\ row[d].id # 0)}
    BY DEF SnapshotRows, TypeOK
  <2>2. \A d \in Old : saved[d].id # 0
    BY DEF Fixed, Old
  <2> QED BY <2>1, <2>2 DEF Wanted
<1>4. Wanted(t)' = Wanted(t)
  BY <1>1, <1>2, WantedSame
<1>5. Secured(t)'
  BY <1>2, <1>3, <1>4 DEF Secured
<1>6. Ordered(t)'
  <2> SUFFICES ASSUME LocksFirst(prog[t]), NEW d \in Old, NEW e \in toLock'[t] \cap Old,
                      lock[d] = t, lock[e] # t
               PROVE  FALSE
    BY <1>2 DEF Ordered
  <2>1. call[t] > 1
    BY <1>1 DEF Fresh, Old
  <2>2. /\ Covers(prog[t]) /\ NamedBy(Cur(t)) \subseteq LockedBy(prog[t][1])
        /\ Cur(t).op = "reverse" => OpeningLedger[Cur(t).key] # <<>>
    BY <1>1, <2>1, LaterCovered
  <2>3. Place(e) \in balanceKeys(t)
    BY <1>3 DEF Wanted
  <2>4. Place(e) \in LockedBy(prog[t][1])
    BY <1>1, <2>2, <2>3, KeysNamed DEF NamedBy
  <2> QED BY <1>1, <2>1, <2>2, <2>4 DEF Kept1st
<1>7. Fresh(t)'
  BY <1>2 DEF Fresh
<1> QED BY <1>1, <1>2, <1>5, <1>6, <1>7, OrderSameCall

(* The rows are locked in the order of their ids. *)
LEMMA OrderLock ==
  ASSUME TypeOK, Fixed, NEW t \in Txs, TxInv(t), OrderTx(t), lockBalancesInOrder(t)
  PROVE  OrderTx(t)'
<1>1. /\ Ordered(t) /\ Secured(t) /\ Sane(t) /\ step[t] = "locking" /\ step[t] \in Busy
      /\ UNCHANGED <<prog, call, row, header>>
  BY DEF OrderTx, TxInv, lockBalancesInOrder, Busy, dbVars
<1>2. Wanted(t)' = Wanted(t)
  BY <1>1, WantedSame
<1>3. CASE toLock[t] = {}
  <2>1. step'[t] \in {"insert", "locked"} /\ UNCHANGED lock
    BY <1>3 DEF lockBalancesInOrder, TypeOK, dbVars
  <2>2. Fresh(t)' /\ Ordered(t)'
    BY <2>1 DEF Fresh, Ordered
  <2>3. Secured(t)'
    BY <1>1, <1>2, <1>3, <2>1 DEF Secured
  <2> QED BY <1>1, <2>1, <2>2, <2>3, OrderSameCall
<1>4. CASE toLock[t] # {}
  <2>1. PICK f : f = FirstOf(t)
    OBVIOUS
  <2>2. f \in toLock[t] /\ f \in Dims /\ \A e \in toLock[t] : row[f].id <= row[e].id
    BY <1>4, <2>1, FirstOfLeast DEF TypeOK
  <2>3. /\ step'[t] = "locking" /\ lock' = [lock EXCEPT ![f] = t]
        /\ toLock'[t] = toLock[t] \ {f}
    BY <1>1, <1>4, <2>1 DEF lockBalancesInOrder, TypeOK
  <2>4. lock'[f] = t /\ \A d \in Dims : d # f => lock'[d] = lock[d]
    BY <2>2, <2>3 DEF TypeOK
  <2>5. Fresh(t)'
    BY <2>3 DEF Fresh
  <2>6. Ordered(t)'
    <3> SUFFICES ASSUME LocksFirst(prog[t]), NEW d \in Old, NEW e \in (toLock[t] \ {f}) \cap Old,
                        lock'[d] = t, lock'[e] # t
                 PROVE  row[d].id < row[e].id
      BY <1>1, <2>3 DEF Ordered
    <3>1. d \in Dims /\ e \in Dims /\ lock[e] # t
      BY <2>4 DEF Old
    <3>2. CASE d = f
      <4>1. row[f].id # row[e].id
        BY <2>2, <3>1, <3>2, IdsAssumption DEF Fixed, Old
      <4>2. row[f].id <= row[e].id /\ row[f].id \in Nat /\ row[e].id \in Nat
        BY <2>2, <3>1 DEF TypeOK, Rows
      <4> QED BY <3>2, <4>1, <4>2
    <3>3. CASE d # f
      BY <1>1, <2>4, <3>1, <3>3 DEF Ordered
    <3> QED BY <3>2, <3>3
  <2>7. Secured(t)'
    <3>0. toLock[t] \subseteq Wanted(t)
      BY <1>1 DEF Secured
    <3> SUFFICES ASSUME NEW d \in Wanted(t) \cap Old PROVE lock'[d] = t \/ d \in toLock[t] \ {f}
      BY <1>2, <2>3, <3>0 DEF Secured
    <3>1. d \in Dims /\ (lock[d] = t \/ d \in toLock[t])
      BY <1>1 DEF Secured, Wanted
    <3> QED BY <2>4, <3>1
  <2> QED BY <1>1, <2>3, <2>4, <2>5, <2>6, <2>7, OrderSameCall
<1> QED BY <1>3, <1>4

(* The header is written under all the locks. *)
LEMMA OrderInsert ==
  ASSUME TypeOK, NEW t \in Txs, TxInv(t), OrderTx(t), Inserts(t)
  PROVE  OrderTx(t)'
<1>1. /\ Secured(t) /\ Sane(t) /\ step[t] = "insert" /\ step[t] \in Busy
      /\ call[t] <= Len(prog[t]) /\ Cur(t).op \in {"post", "reverse"}
      /\ UNCHANGED <<prog, call, row, lock>>
  BY DEF OrderTx, TxInv, Inserts, Busy, Sane
<1>2. step'[t] = "lines"
  BY DEF Inserts, TypeOK
<1>3. HeaderOf(t) \in Headers
  BY <1>1, LinesFacts
<1>4. Cur(t).op = "reverse" => header'[Original(t)] = header[Original(t)]
  BY <1>1, <1>3, LinesFacts DEF Inserts, TypeOK, HeaderOf, Original
<1>5. Wanted(t)' = Wanted(t)
  BY <1>1, <1>4, WantedSame
<1>6. Fresh(t)' /\ Ordered(t)'
  BY <1>2 DEF Fresh, Ordered
<1>7. Secured(t)'
  BY <1>1, <1>2, <1>5 DEF Secured
<1>8. \A h \in Headers : header'[h].writer = t =>
         (header[h].writer = t /\ (step[t] = "lines" => step'[t] = "lines")) \/ step'[t] = "lines"
  BY <1>2
<1> QED BY <1>1, <1>2, <1>6, <1>7, <1>8, OrderSameCall

(* Lines are moved under all the locks. *)
LEMMA OrderMove ==
  ASSUME TypeOK, Reversible, NEW t \in Txs, TxInv(t), OrderTx(t), Moves(t)
  PROVE  OrderTx(t)'
<1>1. /\ Secured(t) /\ Sane(t) /\ Moving(t) /\ step[t] = "lines" /\ step[t] \in Busy
      /\ call[t] <= Len(prog[t]) /\ Cur(t).op \in {"post", "reverse"}
      /\ UNCHANGED <<prog, header>> /\ Advance(t)
  BY DEF OrderTx, TxInv, Moves, Busy, Sane
<1>2. \A d \in Dims : lock[d] = t => lock'[d] = t
  BY <1>1, TargetFacts DEF Moves, Write, TypeOK
<1>3. CASE NextCall(t)
  BY <1>1, <1>2, <1>3, OrderNextCall
<1>4. CASE UNCHANGED <<step, call>>
  <2>1. Wanted(t)' = Wanted(t)
    BY <1>1, <1>4, WantedSame
  <2>2. Fresh(t)' /\ Ordered(t)'
    BY <1>1, <1>4 DEF Fresh, Ordered
  <2>3. Secured(t)'
    <3> SUFFICES ASSUME NEW d \in Wanted(t) \cap Old PROVE lock'[d] = t
      BY <1>1, <1>4, <2>1 DEF Secured
    <3> QED BY <1>1, <1>2 DEF Secured, Wanted
  <2> QED BY <1>1, <1>2, <1>4, <2>2, <2>3, OrderSameCall
<1> QED BY <1>1, <1>3, <1>4 DEF Advance

(* A step keeps the order of the transaction that takes it. *)
LEMMA OrderOwn ==
  ASSUME TypeOK, Fixed, Reversible, NEW t \in Txs, TxInv(t), OrderTx(t), Start(t) \/ Run(t)
  PROVE  OrderTx(t)'
<1>0. Sane(t) /\ Fresh(t) /\ HasPosted(t)
  BY DEF TxInv, OrderTx
<1>a. ASSUME NEW why \in Outcomes, Abort(t, why) PROVE OrderTx(t)'
  <2>1. \A h \in Headers : header'[h].writer # t
    BY <1>a, InventoryPostingAssumption DEF Abort, NoHeader
  <2>2. step'[t] = "over"
    BY <1>a DEF Abort, TypeOK
  <2> QED BY <2>1, <2>2, OrderOver
<1> USE DEF Outcomes
<1>b. ASSUME NextCall(t), UNCHANGED <<prog, toLock, cursor, outcome, dbVars>>, step[t] \in {"call", "locked"},
             call[t] <= Len(prog[t]), step[t] = "call" => Cur(t).op \notin {"lock", "reverse"}
      PROVE  OrderTx(t)'
  BY <1>b, OrderNextCall DEF dbVars
<1>1. CASE Start(t)
  <2>1. /\ step[t] = "idle" /\ step'[t] = "call" /\ call'[t] = 1
        /\ UNCHANGED <<lock, header>>
    BY <1>0, <1>1 DEF Start, TypeOK, Fresh, dbVars
  <2>2. HasPosted(t)'
    BY <1>0, <2>1 DEF HasPosted
  <2> QED BY <1>0, <2>1, <2>2 DEF OrderTx, Fresh, Ordered, Secured, Kept1st, Busy
<1>2. CASE post(t)
  <2>1. step[t] = "call" /\ call[t] <= Len(prog[t]) /\ Cur(t).op = "post"
    BY <1>2 DEF post
  <2> QED BY <1>2, <1>a, <2>1, OrderAbsorb, OrderGoto DEF post
<1>3. CASE reverse(t)
  <2>1. step[t] = "call" /\ call[t] <= Len(prog[t]) /\ Cur(t).op = "reverse"
    BY <1>3 DEF reverse
  <2> QED BY <1>3, <1>a, <2>1, OrderAbsorb, OrderGoto DEF reverse
<1>4. CASE callerLock(t)
  BY <1>4, OrderGoto DEF callerLock
<1>5. CASE SnapshotRows(t)
  BY <1>5, OrderSnapshot
<1>6. CASE lockBalancesInOrder(t)
  BY <1>6, OrderLock
<1>7. CASE ChooseRows(t)
  BY <1>0, <1>7, <1>a, <1>b DEF ChooseRows, Sane, Busy
<1>8. CASE RereadReversal(t)
  <2>1. step[t] = "locked" /\ Cur(t).op = "reverse" /\ call[t] <= Len(prog[t])
    BY <1>0, <1>8 DEF RereadReversal, Sane, Busy
  <2> QED BY <1>8, <1>a, <2>1, OrderAbsorb, OrderGoto DEF RereadReversal
<1>9. CASE InsertHeader(t)
  BY <1>9, <1>a, OrderInsert DEF InsertHeader, Inserts
<1>10. CASE writeLine(t)
  BY <1>10, <1>a, OrderMove DEF writeLine, Moves, dbVars
<1>11. CASE updateQty(t)
  <2>1. PICK d \in Cur(t).dims :
           \/ /\ Write(t, d, Updated(Cur(t), row[d]))
              /\ NextCall(t)
              /\ UNCHANGED <<prog, toLock, cursor, outcome, saved, header>>
           \/ Abort(t, "trigger")
           \/ Abort(t, "negative")
    BY <1>11 DEF updateQty
  <2>2. CASE /\ Write(t, d, Updated(Cur(t), row[d]))
             /\ NextCall(t)
             /\ UNCHANGED <<prog, toLock, cursor, outcome, saved, header>>
    <3>1. /\ Cur(t) \in Call /\ Cur(t).op \notin {"lock", "reverse"}
          /\ step[t] = "call" /\ call[t] <= Len(prog[t])
      BY <1>0, <1>11, CallFacts DEF updateQty, QtyOps
    <3>2. d \in Dims
      BY <2>1, <3>1 DEF Call
    <3>3. \A e \in Dims : lock[e] = t => lock'[e] = t
      BY <2>2, <3>2 DEF Write, TypeOK
    <3> QED BY <2>2, <3>1, <3>3, OrderNextCall
  <2> QED BY <1>a, <2>1, <2>2
<1>12. CASE handCheck(t)
  BY <1>12, <1>a, <1>b DEF handCheck
<1>13. CASE Commit(t)
  <2>1. \A h \in Headers : header'[h].writer # t
    BY <1>13, InventoryPostingAssumption DEF Commit, TypeOK
  <2>2. step'[t] = "over"
    BY <1>13 DEF Commit, TypeOK
  <2> QED BY <2>1, <2>2, OrderOver
<1>14. CASE DeadlockVictim(t)
  BY <1>14, <1>a DEF DeadlockVictim
<1> QED BY <1>1, <1>2, <1>3, <1>4, <1>5, <1>6, <1>7, <1>8, <1>9, <1>10, <1>11, <1>12, <1>13, <1>14
         DEF Run

(* All this holds at the start. *)
LEMMA InitOrder == Init => OrderInv
<1> SUFFICES ASSUME Init PROVE OrderInv
  OBVIOUS
<1>1. Fixed
  BY DEF Init, Fixed, Old
<1>3. Reversible
  BY DEF Init, Reversible, Headers
<1>2. ASSUME NEW t \in Txs PROVE OrderTx(t)
  <2>1. step[t] = "idle" /\ call[t] = 1 /\ \A d \in Dims : lock[d] # t
    BY InventoryPostingAssumption DEF Init
  <2>2. \A h \in Headers : header[h].writer # t
    BY InventoryPostingAssumption DEF Init
  <2> QED BY <2>1, <2>2 DEF OrderTx, Fresh, Ordered, Secured, Kept1st, HasPosted, Busy
<1> QED BY <1>1, <1>2, <1>3 DEF OrderInv

(* Every step keeps it. *)
LEMMA NextOrder == IInv /\ OrderInv /\ [Next]_vars => OrderInv'
<1> SUFFICES ASSUME IInv, OrderInv, [Next]_vars PROVE OrderInv'
  OBVIOUS
<1>0. TypeOK /\ Fixed /\ Reversible /\ \A t \in Txs : TxInv(t) /\ OrderTx(t)
  BY DEF IInv, OrderInv
<1>2. CASE UNCHANGED vars
  <2>1. Fixed' /\ Reversible'
    BY <1>0, <1>2 DEF vars, Fixed, Reversible
  <2>2. ASSUME NEW u \in Txs PROVE OrderTx(u)'
    <3>1. Leaves(u)
      BY <1>2 DEF vars, Leaves, LeavesTx, LeavesRows, LeavesHeaders
    <3> QED BY <1>0, <1>2, <2>1, <3>1, OrderOthers DEF vars
  <2> QED BY <2>1, <2>2 DEF OrderInv
<1>3. ASSUME NEW t \in Txs, Start(t) \/ Run(t)
      PROVE  OrderInv'
  <2>1. Fixed' /\ Reversible'
    BY <1>0, <1>3, FixedStep, ReversibleStep
  <2>2. OrderTx(t)'
    BY <1>0, <1>3, OrderOwn
  <2>3. ASSUME NEW u \in Txs, u # t PROVE OrderTx(u)'
    <3>1. Leaves(u)
      BY <1>0, <1>3, <2>3, StepLeaves
    <3>2. \A d \in Dims : lock'[d] = u => lock[d] = u
      BY <1>0, <1>3, <2>3, OthersRows
    <3> QED BY <1>0, <2>1, <3>1, <3>2, OrderOthers
  <2> QED BY <2>1, <2>2, <2>3 DEF OrderInv
<1> QED BY <1>2, <1>3 DEF Next, Done

(* Who waits, but not for a new row, waits for an old row that is still to  *)
(* be locked or to write the header of a posting: all else is done under    *)
(* the locks, and a reversal is the first one there.                        *)
LEMMA WaitKinds ==
  ASSUME TypeOK, Fixed, Reversible, NEW t \in Txs, TxInv(t), Clear(t), OrderTx(t),
         LocksFirst(prog[t]), WaitsFor(t) \in Txs, WaitsForRow(t) \notin Dims \ Old
  PROVE  /\ WaitsFor(t) # t
         /\ \/ /\ step[t] = "locking" /\ toLock[t] # {} /\ WaitsFor(t) = lock[FirstOf(t)]
               /\ FirstOf(t) \in Old \cap toLock[t]
            \/ /\ step[t] = "insert" /\ WaitsFor(t) = header[HeaderOf(t)].writer
               /\ Cur(t).op = "post"
<1>0. Sane(t) /\ Moving(t) /\ Secured(t) /\ Kept1st(t) /\ NoTx \notin Txs
  BY InventoryPostingAssumption DEF TxInv, OrderTx
<1>1. CASE step[t] = "locking" /\ toLock[t] # {}
  <2>1. WaitsForRow(t) = FirstOf(t) /\ FirstOf(t) \in toLock[t] /\ FirstOf(t) \in Dims
    BY <1>1, FirstOfLeast DEF WaitsForRow, TypeOK
  <2> QED BY <1>0, <1>1, <2>1 DEF WaitsFor
<1>2. CASE step[t] = "insert"
  <2>1. WaitsFor(t) = header[HeaderOf(t)].writer /\ WaitsFor(t) # t
    BY <1>0, <1>2 DEF WaitsFor
  <2>2. Cur(t).op \in {"post", "reverse"}
    BY <1>0, <1>2 DEF Sane
  <2>3. Cur(t).op # "reverse"
    BY <1>0, <1>2, <2>1 DEF Clear, NoHeader
  <2> QED BY <1>2, <2>1, <2>2, <2>3
<1>3. CASE step[t] = "lines" /\ Target(t) # NoDim
  <2>1. /\ LinesOf(t) \in Seq(Lines) /\ cursor[t][1] \in DOMAIN LinesOf(t)
        /\ cursor[t][2] \in {"from", "to"} /\ Target(t) \in Dims
    BY <1>0, <1>3, TargetFacts
  <2>2. Target(t) \in Ends(LinesOf(t))
    <3>1. CASE cursor[t][2] = "from"
      BY <1>3, <2>1, <3>1 DEF Target, Ends
    <3>2. CASE cursor[t][2] = "to"
      BY <1>3, <2>1, <3>2 DEF Target, Ends
    <3> QED BY <2>1, <3>1, <3>2
  <2>3. Target(t) \in Wanted(t)
    BY <1>0, <1>3, <2>2, WantedEnds DEF Sane, Busy
  <2>4. Target(t) \in Old
    BY <1>3, <2>1 DEF WaitsForRow
  <2>5. lock[Target(t)] = t
    BY <1>0, <1>3, <2>3, <2>4 DEF Secured, Busy
  <2>6. WaitsFor(t) = NoTx
    BY <1>3, <2>5 DEF WaitsFor
  <2> QED BY <1>0, <2>6
<1>4. CASE step[t] = "call" /\ call[t] <= Len(prog[t]) /\ Cur(t).op \in QtyOps
  <2>1. Cur(t) \in Call /\ Cur(t).dims # {}
    BY <1>0, <1>4, CallFacts DEF CallOK, QtyOps
  <2>2. PICK d : d = CHOOSE e \in Cur(t).dims : TRUE
    OBVIOUS
  <2>3. d \in Cur(t).dims /\ d \in Dims
    BY <2>1, <2>2 DEF Call
  <2>4. d \in Old
    BY <1>4, <2>2, <2>3 DEF WaitsForRow
  <2>5. Covers(prog[t]) /\ call[t] > 1 /\ NamedBy(Cur(t)) \subseteq LockedBy(prog[t][1])
    BY <1>0, <1>4, LaterCovered
  <2>6. Place(d) \in NamedBy(Cur(t))
    BY <2>3 DEF NamedBy
  <2>7. lock[d] = t
    BY <1>0, <1>4, <2>4, <2>5, <2>6 DEF Kept1st
  <2>8. WaitsFor(t) = NoTx
    BY <1>4, <2>2, <2>7 DEF WaitsFor
  <2> QED BY <1>0, <2>8
<1>5. CASE /\ ~(step[t] = "locking" /\ toLock[t] # {}) /\ step[t] # "insert"
           /\ ~(step[t] = "lines" /\ Target(t) # NoDim)
           /\ ~(step[t] = "call" /\ call[t] <= Len(prog[t]) /\ Cur(t).op \in QtyOps)
  BY <1>0, <1>5 DEF WaitsFor
<1> QED BY <1>1, <1>2, <1>3, <1>4, <1>5

(* Who has written a header holds all the old rows that its program will    *)
(* ask for, and posts no more.                                              *)
LEMMA WriterNeverWaits ==
  ASSUME TypeOK, Fixed, Reversible, NEW t \in Txs, TxInv(t), Clear(t), OrderTx(t),
         LocksFirst(prog[t]), WaitsForRow(t) \notin Dims \ Old,
         NEW h \in Headers, header[h].writer = t
  PROVE  WaitsFor(t) \notin Txs
<1> SUFFICES ASSUME WaitsFor(t) \in Txs PROVE FALSE
  OBVIOUS
<1>0. Sane(t) /\ Secured(t) /\ Kept1st(t) /\ HasPosted(t)
  BY DEF TxInv, OrderTx
<1>1. /\ WaitsFor(t) # t
      /\ \/ step[t] = "locking" /\ WaitsFor(t) = lock[FirstOf(t)] /\ FirstOf(t) \in Old \cap toLock[t]
         \/ step[t] = "insert" /\ Cur(t).op = "post"
  BY WaitKinds
<1>2. PICK p : p = prog[t]
  OBVIOUS
<1>3. /\ p \in Seq(Call) /\ call[t] \in DOMAIN p /\ call[t] \in Nat /\ step[t] \in Busy
      /\ call[t] <= Len(prog[t])
  <2>1. p \in Programs /\ p \in Seq(Call)
    BY <1>0, <1>1, <1>2, InventoryPostingAssumption DEF Sane
  <2> QED BY <1>0, <1>1, <1>2, <2>1 DEF TypeOK, Sane, Busy
<1>4. PICK i \in DOMAIN p : p[i].op \in {"post", "reverse"} /\ i < call[t]
  BY <1>0, <1>1, <1>2 DEF HasPosted
<1>5. PICK k \in DOMAIN p : k = call[t] /\ Cur(t) = p[k]
  BY <1>2, <1>3 DEF Cur
<1>6. call[t] > 1
  BY <1>3, <1>4
<1>7. /\ Covers(p) /\ NamedBy(Cur(t)) \subseteq LockedBy(p[1])
      /\ Cur(t).op = "reverse" => OpeningLedger[Cur(t).key] # <<>>
  BY <1>0, <1>2, <1>3, <1>6, LaterCovered DEF Busy
<1>8. p[k].op # "post"
  BY <1>4, <1>5, <1>7 DEF Covers
<1>9. step[t] = "locking" /\ WaitsFor(t) = lock[FirstOf(t)] /\ FirstOf(t) \in Old \cap toLock[t]
  BY <1>1, <1>5, <1>8
<1>10. Place(FirstOf(t)) \in balanceKeys(t)
  BY <1>0, <1>9 DEF Secured, Wanted
<1>11. Place(FirstOf(t)) \in LockedBy(p[1])
  BY <1>0, <1>3, <1>7, <1>10, KeysNamed DEF NamedBy
<1>12. lock[FirstOf(t)] = t
  BY <1>0, <1>2, <1>6, <1>7, <1>9, <1>11 DEF Kept1st
<1> QED BY <1>1, <1>9, <1>12

(* There is a greatest id. *)
LEMMA IdsBounded == \E n \in Nat : \A d \in Dims : Opening[d].id <= n
<1>1. \A d \in Dims : Opening[d].id \in Nat
  BY InventoryPostingAssumption DEF Rows
<1>2. PICK C : C = {T \in SUBSET Dims : \E n \in Nat : \A d \in T : Opening[d].id <= n}
  OBVIOUS
<1>3. {} \in C
  BY <1>2
<1>4. ASSUME NEW T \in SUBSET Dims, T # {}, \A x \in T : T \ {x} \in C
      PROVE  T \in C
  <2>1. PICK x \in T : T \ {x} \in C
    BY <1>4
  <2>2. PICK n \in Nat : \A d \in T \ {x} : Opening[d].id <= n
    BY <1>2, <2>1
  <2>3. PICK m \in Nat : m = n + Opening[x].id
    BY <1>1
  <2>4. \A d \in T : Opening[d].id <= m
    BY <1>1, <2>2, <2>3
  <2> QED BY <1>2, <2>4
<1>5. Dims \in C
  BY <1>3, <1>4, FiniteInduction, InventoryPostingAssumption
<1> QED BY <1>2, <1>5

(* A cycle would lock ever greater rows. *)
LEMMA OrderBreaksCycles == IInv /\ OrderInv => DeadlockNeedsNewRow
<1> SUFFICES ASSUME IInv, OrderInv, NEW S \in SUBSET Txs, S # {}, {WaitsFor(u) : u \in S} = S,
                    \A u \in S : LocksFirst(prog[u]),
                    \A u \in S : WaitsForRow(u) \notin Dims \ Old
             PROVE  FALSE
  BY DEF DeadlockNeedsNewRow
<1>0. TypeOK /\ Fixed /\ Reversible /\ \A t \in Txs : TxInv(t) /\ Clear(t) /\ OrderTx(t)
  BY DEF IInv, OrderInv
<1>1. \A u \in S : u \in Txs /\ WaitsFor(u) \in S /\ WaitsFor(u) \in Txs
  OBVIOUS
<1>2. ASSUME NEW u \in S
      PROVE  /\ step[u] = "locking" /\ toLock[u] # {} /\ WaitsFor(u) = lock[FirstOf(u)]
             /\ WaitsFor(u) # u /\ FirstOf(u) \in Old \cap toLock[u]
  <2>1. CASE step[u] = "insert" /\ WaitsFor(u) = header[HeaderOf(u)].writer
    <3>1. HeaderOf(u) \in Headers
      BY <1>0, <1>1, <2>1, LinesFacts DEF TxInv, Sane, Busy
    <3>2. WaitsFor(WaitsFor(u)) \notin Txs
      BY <1>0, <1>1, <2>1, <3>1, WriterNeverWaits
    <3> QED BY <1>1, <3>2
  <2> QED BY <1>0, <1>1, <2>1, WaitKinds
<1>3. ASSUME NEW u \in S
      PROVE  /\ FirstOf(u) \in Dims
             /\ Opening[FirstOf(u)].id < Opening[FirstOf(WaitsFor(u))].id
  <2>1. PICK w \in S : w = WaitsFor(u) /\ w \in Txs
    BY <1>1
  <2>2. FirstOf(u) \in Old /\ FirstOf(w) \in Old \cap toLock[w]
    BY <1>2
  <2>3. FirstOf(u) \in Dims /\ FirstOf(w) \in Dims
    BY <2>2 DEF Old
  <2>4. lock[FirstOf(u)] = w /\ lock[FirstOf(w)] # w /\ step[w] = "locking"
    BY <1>2, <2>1
  <2>5. row[FirstOf(u)].id < row[FirstOf(w)].id
    BY <1>0, <2>1, <2>2, <2>4 DEF OrderTx, Ordered
  <2> QED BY <1>0, <2>1, <2>2, <2>3, <2>5 DEF Fixed
<1>4. PICK n \in Nat : \A d \in Dims : Opening[d].id <= n
  BY IdsBounded
<1>5. PICK f : f = [u \in S |-> Opening[FirstOf(u)].id]
  OBVIOUS
<1>6. \A u \in S : f[u] \in Nat /\ f[u] <= n /\ f[u] < f[WaitsFor(u)]
  BY <1>1, <1>3, <1>4, <1>5, InventoryPostingAssumption DEF Rows
<1>7. PICK M : M = {n - f[u] : u \in S}
  OBVIOUS
<1>8. M \subseteq Nat /\ M # {}
  BY <1>6, <1>7
<1>9. PICK R : R = OpToRel(<, Nat) /\ IsWellFoundedOn(R, Nat)
  BY NatLessThanWellFounded
<1>10. PICK x \in M : \A y \in M : ~ (<<y, x>> \in R)
  BY <1>8, <1>9, WFMin
<1>11. PICK u \in S : x = n - f[u]
  BY <1>7
<1>12. PICK w \in S : w = WaitsFor(u)
  BY <1>1
<1>13. PICK y \in M : y = n - f[w]
  BY <1>7, <1>12
<1>14. y < x
  BY <1>6, <1>11, <1>12, <1>13
<1>15. <<y, x>> \in R
  BY <1>8, <1>9, <1>14 DEF OpToRel
<1> QED BY <1>10, <1>15

(* Locking in the order of ids (balance-lock.ts:61-62) leaves ordered        *)
(* programs no deadlock over rows that are there: whatever else runs, a      *)
(* cycle of waits among them has one that waits for a row which was not      *)
(* there before.  Ordered are all the operations but the registration of a   *)
(* shipment of several lots or of an expedited one.                          *)
THEOREM LockOrderPreventsDeadlock == Spec => []DeadlockNeedsNewRow
<1>1. Init => IInv /\ OrderInv
  BY InitIInv, InitOrder
<1>2. IInv /\ OrderInv /\ [Next]_vars => (IInv /\ OrderInv)'
  BY NextIInv, NextOrder
<1>3. IInv /\ OrderInv => DeadlockNeedsNewRow
  BY OrderBreaksCycles
<1> QED BY <1>1, <1>2, <1>3, PTL DEF Spec

-----------------------------------------------------------------------------
(* The trigger.  Whoever has checked a sum holds the rows and still has it. *)
Valid == \A d \in Dims : check_balance_qty(d, row[d]) /\ check_balance_qty(d, saved[d])

Live(t) == step[t] \notin {"idle", "over"}

(* The rows that the first lock statement chose are held. *)
Chosen(t) ==
  /\ step[t] = "idle" => call[t] = 1
  /\ Live(t) /\ call[t] > 1 /\ prog[t][1].op = "lock" =>
       \A d \in Dims : d \in prog[t][1].dims => lock[d] = t

(* The hand checks right before a call still hold. *)
Passed(t) ==
  Live(t) /\ step[t] # "lines" /\ prog[t][1].op = "lock" =>
    \A j \in DOMAIN prog[t] :
      /\ prog[t][j].op = "check" /\ j < call[t]
      /\ \A k \in DOMAIN prog[t] : j < k /\ k < call[t] => prog[t][k].op = "check"
      => \A d \in Dims : d \in prog[t][1].dims \cap prog[t][j].dims =>
           Available(row[d]) >= prog[t][j].qty

(* What the lines have still to take from row d. *)
Ahead(t) == {i \in DOMAIN LinesOf(t) :
               step[t] = "lines" => i > cursor[t][1] \/ (i = cursor[t][1] /\ cursor[t][2] = "from")}
Quantities(lines) == [i \in DOMAIN lines |-> lines[i].qty]
Left(t, d) == SumFunctionOnSet(Quantities(LinesOf(t)), Ahead(t) \cap NamedAt(LinesOf(t), "from", d))

Guarded(t) == Cur(t).op = "reverse" \/ \E c \in DOMAIN prog[t] : prog[t][c].op = "check"

Enough(t) ==
  step[t] \in {"insert", "lines"} /\ Guarded(t) =>
    \A d \in Dims : NamedAt(LinesOf(t), "from", d) # {} =>
      lock[d] = t /\ Available(row[d]) >= Left(t, d)

Told(t) ==
  outcome[t] = "trigger" => Cur(t).op = "post" /\ \A i \in DOMAIN prog[t] : prog[t][i].op # "check"

ChecksTx(t) == Chosen(t) /\ Passed(t) /\ Enough(t) /\ Told(t)
ChecksInv == IssuesChecked /\ Valid /\ \A t \in Txs : ChecksTx(t)

(* Sums of naturals are naturals. *)
LEMMA SumIsNat ==
  ASSUME NEW f, NEW S, IsFiniteSet(S), \A x \in S : f[x] \in Nat
  PROVE  SumFunctionOnSet(f, S) \in Nat
<1> DEFINE C == {T \in SUBSET S : SumFunctionOnSet(f, T) \in Nat}
<1>1. {} \in C
  BY SumEmpty
<1>2. ASSUME NEW T \in SUBSET S, IsFiniteSet(T), T # {}, \A x \in T : T \ {x} \in C
      PROVE  T \in C
  <2>1. PICK x : x = First(T)
    OBVIOUS
  <2>2. x \in T /\ SumFunctionOnSet(f, T) = f[x] + SumFunctionOnSet(f, T \ {x})
    BY <1>2, <2>1, SumStep
  <2>3. PICK m : m = SumFunctionOnSet(f, T \ {x}) /\ m \in Nat
    BY <1>2, <2>2
  <2> QED BY <2>2, <2>3
<1> HIDE DEF C
<1>3. S \in C
  BY <1>1, <1>2, FiniteInduction
<1> QED BY <1>3 DEF C

(* A sum over some of the lines is a natural, and one line can be taken out. *)
LEMMA LineSums ==
  ASSUME NEW lines \in Seq(Lines), NEW S \in SUBSET DOMAIN lines
  PROVE  /\ IsFiniteSet(S)
         /\ SumFunctionOnSet(Quantities(lines), S) \in Nat
         /\ \A i \in S : SumFunctionOnSet(Quantities(lines), S)
                           = lines[i].qty + SumFunctionOnSet(Quantities(lines), S \ {i})
<1>1. IsFiniteSet(S)
  <2>1. PICK n \in Nat : n = Len(lines)
    OBVIOUS
  <2>2. IsFiniteSet(1 .. n)
    BY FS_Interval
  <2> QED BY <2>1, <2>2, FS_Subset
<1>2. PICK f : f = Quantities(lines)
  OBVIOUS
<1>3. \A i \in S : f[i] = lines[i].qty /\ f[i] \in Nat
  BY <1>2 DEF Quantities, Lines
<1>4. SumFunctionOnSet(f, S) \in Nat
  BY <1>1, <1>3, SumIsNat
<1>5. ASSUME NEW i \in S
      PROVE  SumFunctionOnSet(f, S) = lines[i].qty + SumFunctionOnSet(f, S \ {i})
  <2>1. \A x \in S : f[x] \in Int
    BY <1>3
  <2> QED BY <1>1, <1>3, <2>1, SumWithout
<1> QED BY <1>1, <1>2, <1>4, <1>5

(* A guarded UPDATE never meets the trigger. *)
LEMMA UpdatedValid ==
  ASSUME NEW c \in Call, CallOK(c), c.op \in QtyOps, NEW b \in Rows, LowerBound(c, b),
         NEW d \in Dims, check_balance_qty(d, b)
  PROVE  check_balance_qty(d, Updated(c, b))
<1>1. /\ c.qty \in Int /\ b.reserved \in Nat /\ b.picked \in Nat /\ b.onHand \in Int /\ b.id \in Nat
  BY DEF Call, Rows
<1>2. CASE c.op = "reserve"
  BY <1>1, <1>2 DEF Updated, CallOK, Rows, LowerBound, Available, check_balance_qty
<1>3. CASE c.op = "pick"
  <2>1. PICK v : v = Updated(c, b)
    OBVIOUS
  <2>2. v.onHand = b.onHand /\ v.reserved = b.reserved /\ v.picked = b.picked + c.qty
    BY <1>3, <2>1 DEF Updated, Rows
  <2>3. CASE c.qty <= 0
    <3>1. b.picked >= -c.qty
      BY <1>3, <2>3 DEF LowerBound
    <3>2. check_balance_qty(d, v)
      BY <1>1, <2>2, <2>3, <3>1 DEF check_balance_qty
    <3> QED BY <2>1, <3>2
  <2>4. CASE c.qty > 0
    <3>1. b.onHand - b.reserved - b.picked >= c.qty
      BY <1>1, <1>3, <2>4 DEF LowerBound, Available
    <3>2. check_balance_qty(d, v)
      BY <1>1, <2>2, <2>4, <3>1 DEF check_balance_qty
    <3> QED BY <2>1, <3>2
  <2> QED BY <1>1, <2>3, <2>4
<1>4. CASE c.op = "pickReserved"
  <2>1. PICK v : v = Updated(c, b)
    OBVIOUS
  <2>2. v.onHand = b.onHand /\ v.reserved = b.reserved - c.qty /\ v.picked = b.picked + c.qty
    BY <1>1, <1>4, <2>1 DEF Updated, Rows
  <2>3. check_balance_qty(d, v)
    BY <1>1, <2>2 DEF check_balance_qty
  <2> QED BY <2>1, <2>3
<1>5. CASE c.op = "consume"
  BY <1>1, <1>5 DEF Updated, CallOK, Rows, LowerBound, Available, check_balance_qty
<1> QED BY <1>2, <1>3, <1>4, <1>5 DEF QtyOps

(* Rows stay as the trigger wants them. *)
LEMMA ValidWrite ==
  ASSUME TypeOK, Valid, NEW t \in Txs, NEW d \in Dims, NEW b \in Rows, Write(t, d, b), UNCHANGED saved
  PROVE  Valid'
<1>1. row' = [row EXCEPT ![d] = [b EXCEPT !.id = IF @ = 0 THEN nextId ELSE @]] /\ check_balance_qty(d, b)
  BY DEF Write
<1>2. PICK c : c = [b EXCEPT !.id = IF @ = 0 THEN nextId ELSE @]
  OBVIOUS
<1>3. c.onHand = b.onHand /\ c.reserved = b.reserved /\ c.picked = b.picked
  BY <1>2 DEF Rows
<1>4. check_balance_qty(d, c)
  BY <1>1, <1>3 DEF check_balance_qty
<1>5. row'[d] = c /\ \A e \in Dims : e # d => row'[e] = row[e]
  BY <1>1, <1>2 DEF TypeOK
<1>6. ASSUME NEW e \in Dims PROVE check_balance_qty(e, row[e])' /\ check_balance_qty(e, saved[e])'
  <2>1. check_balance_qty(e, row[e]) /\ check_balance_qty(e, saved[e])
    BY DEF Valid
  <2> QED BY <1>4, <1>5, <2>1 DEF check_balance_qty
<1> QED BY <1>6 DEF Valid

(* So do the ends of transactions. *)
LEMMA ValidEnd ==
  ASSUME TypeOK, Valid, NEW t \in Txs, Commit(t) \/ \E why \in Outcomes : Abort(t, why)
  PROVE  Valid'
<1> SUFFICES ASSUME NEW e \in Dims
             PROVE  check_balance_qty(e, row[e])' /\ check_balance_qty(e, saved[e])'
  BY DEF Valid
<1>1. check_balance_qty(e, row[e]) /\ check_balance_qty(e, saved[e])
  BY DEF Valid
<1>2. row'[e] \in {row[e], saved[e]} /\ saved'[e] \in {row[e], saved[e]}
  BY DEF Commit, Abort
<1> QED BY <1>1, <1>2 DEF check_balance_qty

(* A program is a sequence of calls. *)
LEMMA ProgFacts ==
  ASSUME NEW t \in Txs, Sane(t), Live(t)
  PROVE  /\ prog[t] \in Programs /\ prog[t] \in Seq(Call)
         /\ \A j \in DOMAIN prog[t] : j \in Nat /\ j >= 1
<1>1. prog[t] \in Programs /\ prog[t] \in Seq(Call)
  BY InventoryPostingAssumption DEF Sane, Live
<1>2. PICK p \in Seq(Call) : p = prog[t]
  BY <1>1
<1>3. \A j \in DOMAIN p : j \in Nat /\ j >= 1
  OBVIOUS
<1> QED BY <1>1, <1>2, <1>3

(* The steps of the others leave all this. *)
LEMMA ChecksOthers ==
  ASSUME TypeOK, NEW u \in Txs, TxInv(u), ChecksTx(u), Leaves(u)
  PROVE  ChecksTx(u)'
<1>1. /\ Chosen(u) /\ Passed(u) /\ Enough(u) /\ Told(u) /\ Sane(u) /\ Covered(u)
  BY DEF ChecksTx, TxInv
<1>2. /\ prog'[u] = prog[u] /\ call'[u] = call[u] /\ step'[u] = step[u]
      /\ cursor'[u] = cursor[u] /\ outcome'[u] = outcome[u]
      /\ \A d \in Dims : lock[d] = u => lock'[d] = u /\ row'[d] = row[d]
  BY DEF Leaves, LeavesTx, LeavesRows
<1>3. Cur(u)' = Cur(u)
  BY <1>2 DEF Cur
<1>4. Told(u)'
  BY <1>1, <1>2, <1>3 DEF Told
<1>5. ASSUME Live(u) PROVE \A j \in DOMAIN prog[u] : j \in Nat /\ j >= 1
  BY <1>1, <1>5, ProgFacts
<1>6. Chosen(u)'
  BY <1>1, <1>2 DEF Chosen, Live
<1>7. Passed(u)'
  <2> SUFFICES ASSUME Live(u), step[u] # "lines", prog[u][1].op = "lock",
                      NEW j \in DOMAIN prog[u], prog[u][j].op = "check", j < call[u],
                      \A k \in DOMAIN prog[u] : j < k /\ k < call[u] => prog[u][k].op = "check",
                      NEW d \in Dims, d \in prog[u][1].dims \cap prog[u][j].dims
               PROVE  Available(row'[d]) >= prog[u][j].qty
    BY <1>2 DEF Passed, Live, Available
  <2>1. call[u] > 1
    BY <1>5 DEF TypeOK
  <2>2. row'[d] = row[d]
    BY <1>1, <1>2, <2>1 DEF Chosen
  <2>3. Available(row[d]) >= prog[u][j].qty
    BY <1>1 DEF Passed
  <2> QED BY <2>2, <2>3
<1>8. Enough(u)'
  <2> SUFFICES ASSUME step[u] \in {"insert", "lines"}, Guarded(u)
               PROVE  Enough(u)'
    BY <1>2, <1>3 DEF Enough, Guarded
  <2>1. LinesOf(u)' = LinesOf(u)
    <3>1. CASE Cur(u).op = "post"
      BY <1>3, <3>1 DEF LinesOf
    <3>2. CASE Cur(u).op = "reverse"
      <4>1. SeenBy(u, Original(u)) /\ Original(u) \in Headers
        BY <1>1, <3>2, LinesFacts DEF Covered, Reversing, Sane, Busy
      <4>2. header'[Original(u)] = header[Original(u)]
        BY <4>1 DEF SeenBy, Leaves, LeavesHeaders
      <4> QED BY <1>3, <3>2, <4>2 DEF LinesOf, Original
    <3> QED BY <1>1, <3>1, <3>2 DEF Sane
  <2>2. \A d \in Dims : Left(u, d)' = Left(u, d)
    BY <1>2, <2>1 DEF Left, Ahead
  <2>3. ASSUME NEW d \in Dims, NamedAt(LinesOf(u), "from", d) # {}
        PROVE  lock'[d] = u /\ Available(row'[d]) >= Left(u, d)
    BY <1>1, <1>2, <2>3 DEF Enough
  <2> QED BY <2>1, <2>2, <2>3 DEF Enough, Available
<1> QED BY <1>4, <1>6, <1>7, <1>8 DEF ChecksTx

(* A transaction that is over claims nothing but its outcome. *)
LEMMA ChecksOver ==
  ASSUME NEW t \in Txs, step'[t] = "over", Told(t)'
  PROVE  ChecksTx(t)'
BY DEF ChecksTx, Chosen, Passed, Enough, Live

(* The next call. *)
LEMMA ChecksNextCall ==
  ASSUME TypeOK, NEW t \in Txs, TxInv(t), ChecksTx(t), NextCall(t), UNCHANGED <<prog, outcome>>,
         step[t] \in {"call", "locked", "lines"}, call[t] <= Len(prog[t]),
         \A d \in Dims : lock[d] = t => lock'[d] = t,
         Cur(t).op = "lock" => \A d \in Dims : d \in Cur(t).dims => lock'[d] = t,
         Cur(t).op = "check" => /\ step[t] # "lines" /\ UNCHANGED row
                                /\ \A d \in Dims : d \in Cur(t).dims =>
                                      Available(row[d]) >= Cur(t).qty
  PROVE  ChecksTx(t)'
<1>1. Chosen(t) /\ Passed(t) /\ Sane(t) /\ Live(t) /\ call[t] \in Nat /\ call[t] >= 1
  BY DEF ChecksTx, TxInv, Sane, TypeOK, Live
<1>2. step'[t] = "call" /\ call'[t] = call[t] + 1
  BY DEF NextCall, TypeOK
<1>3. prog[t] \in Seq(Call) /\ \A j \in DOMAIN prog[t] : j \in Nat /\ j >= 1
  BY <1>1, ProgFacts
<1>4. Enough(t)'
  BY <1>2 DEF Enough
<1>5. Told(t)'
  BY <1>1 DEF Told, Sane
<1>6. Chosen(t)'
  <2> SUFFICES ASSUME prog[t][1].op = "lock", NEW d \in Dims, d \in prog[t][1].dims
               PROVE  lock'[d] = t
    BY <1>2 DEF Chosen
  <2>1. CASE call[t] = 1
    BY <2>1 DEF Cur
  <2>2. CASE call[t] > 1
    BY <1>1, <2>2 DEF Chosen
  <2> QED BY <1>1, <2>1, <2>2
<1>7. Passed(t)'
  <2> SUFFICES ASSUME prog[t][1].op = "lock",
                      NEW j \in DOMAIN prog[t], prog[t][j].op = "check", j < call[t] + 1,
                      \A k \in DOMAIN prog[t] : j < k /\ k < call[t] + 1 => prog[t][k].op = "check",
                      NEW d \in Dims, d \in prog[t][1].dims \cap prog[t][j].dims
               PROVE  Available(row'[d]) >= prog[t][j].qty
    BY <1>2 DEF Passed, Live, Available
  <2>1. CASE j = call[t]
    BY <2>1 DEF Cur
  <2>2. CASE j < call[t]
    <3>1. call[t] \in DOMAIN prog[t]
      BY <1>1, <1>3
    <3>2. Cur(t).op = "check"
      BY <1>1, <2>2, <3>1 DEF Cur
    <3>3. \A k \in DOMAIN prog[t] : j < k /\ k < call[t] => prog[t][k].op = "check"
      BY <1>1, <1>3
    <3>4. Available(row[d]) >= prog[t][j].qty
      BY <1>1, <2>2, <3>2, <3>3 DEF Passed
    <3> QED BY <3>2, <3>4
  <2> QED BY <1>1, <1>3, <2>1, <2>2
<1> QED BY <1>4, <1>5, <1>6, <1>7 DEF ChecksTx

(* A call that goes on within its statements. *)
LEMMA ChecksSameCall ==
  ASSUME TypeOK, NEW t \in Txs, TxInv(t), ChecksTx(t), UNCHANGED <<prog, call, outcome>>,
         Live(t), Live(t)',
         \A d \in Dims : lock[d] = t => lock'[d] = t,
         step'[t] # "lines" => step[t] # "lines" /\ UNCHANGED row,
         Enough(t)'
  PROVE  ChecksTx(t)'
<1>1. Chosen(t) /\ Passed(t) /\ Sane(t)
  BY DEF ChecksTx, TxInv
<1>2. Chosen(t)'
  BY <1>1 DEF Chosen, Live
<1>3. Passed(t)'
  BY <1>1 DEF Passed, Live, Available
<1>4. Told(t)'
  BY <1>1 DEF Told, Sane, Live
<1> QED BY <1>2, <1>3, <1>4 DEF ChecksTx

(* Before the first line everything is still ahead. *)
LEMMA AllAhead ==
  ASSUME NEW t \in Txs, step'[t] = "insert" \/ (step'[t] = "lines" /\ cursor'[t] = <<1, "from">>),
         NEW lines \in Seq(Lines), LinesOf(t)' = lines, NEW d \in Dims
  PROVE  Left(t, d)' = Total(lines, "from", d)
<1>1. \A i \in DOMAIN lines : i \in Nat /\ i >= 1
  OBVIOUS
<1>2. Ahead(t)' = DOMAIN lines
  <2>1. CASE step'[t] = "insert"
    BY <2>1 DEF Ahead
  <2>2. CASE cursor'[t] = <<1, "from">>
    <3>1. cursor'[t][1] = 1 /\ cursor'[t][2] = "from"
      BY <2>2
    <3>2. \A i \in DOMAIN lines : i > 1 \/ i = 1
      BY <1>1
    <3> QED BY <3>1, <3>2 DEF Ahead
  <2> QED BY <2>1, <2>2
<1>3. (DOMAIN lines) \cap NamedAt(lines, "from", d) = NamedAt(lines, "from", d)
  BY DEF NamedAt
<1> QED BY <1>2, <1>3 DEF Left, Total, Quantities

(* A posting that was checked, or a reversal, has what it takes. *)
LEMMA EnoughInsert ==
  ASSUME TypeOK, IssuesChecked, NEW t \in Txs, TxInv(t), ChecksTx(t),
         step[t] \in {"locking", "locked"}, step'[t] = "insert", Cur(t).op \in {"post", "reverse"},
         UNCHANGED <<prog, call, row, lock, header>>,
         Cur(t).op = "reverse" => assertReversible(t)
  PROVE  Enough(t)'
<1>1. /\ Chosen(t) /\ Passed(t) /\ Sane(t) /\ Live(t) /\ call[t] \in Nat
      /\ call[t] <= Len(prog[t])
  BY DEF ChecksTx, TxInv, Sane, TypeOK, Live, Busy
<1>2. Cur(t)' = Cur(t) /\ LinesOf(t)' = LinesOf(t) /\ Guarded(t)' = Guarded(t)
  BY DEF Cur, LinesOf, Guarded
<1> SUFFICES ASSUME Guarded(t), NEW d \in Dims, NamedAt(LinesOf(t), "from", d) # {}
             PROVE  lock[d] = t /\ Available(row[d]) >= Left(t, d)'
  BY <1>2 DEF Enough, Available
<1>3. PICK lines \in Seq(Lines) : lines = LinesOf(t)
  BY <1>1, LinesFacts DEF Live
<1>4. Left(t, d)' = Total(lines, "from", d)
  BY <1>2, <1>3, AllAhead
<1>5. PICK n \in DOMAIN lines : lines[n].from = d
  BY <1>3 DEF NamedAt
<1>6. d # NoDim
  BY InventoryPostingAssumption
<1>7. CASE Cur(t).op = "reverse"
  BY <1>3, <1>4, <1>5, <1>6, <1>7 DEF assertReversible
<1>8. CASE Cur(t).op = "post"
  <2>1. lines = Cur(t).lines
    BY <1>3, <1>8 DEF LinesOf
  <2>2. PICK c \in DOMAIN prog[t] : prog[t][c].op = "check"
    BY <1>8 DEF Guarded
  <2>3. PICK p \in Programs : p = prog[t] /\ p \in Seq(Call)
    BY <1>1, ProgFacts
  <2>4. PICK i \in DOMAIN p : i = call[t] /\ p[i] = Cur(t)
    <3>1. call[t] \in DOMAIN p
      BY <1>1, <2>3 DEF Sane
    <3> QED BY <2>3, <3>1 DEF Cur
  <2>5. /\ p[1].op = "lock"
        /\ \E j \in DOMAIN p :
             /\ p[j].op = "check" /\ j < i
             /\ \A k \in DOMAIN p : j < k /\ k < i => p[k].op = "check"
             /\ d \in p[1].dims \cap p[j].dims
             /\ p[j].qty >= Total(lines, "from", d)
    <3>1. ChecksFirst(p)
      BY DEF IssuesChecked
    <3>2. p[c].op = "check" /\ p[i].op = "post" /\ c \in DOMAIN p /\ lines = p[i].lines
      BY <1>8, <2>1, <2>2, <2>3, <2>4
    <3> QED BY <1>5, <1>6, <3>1, <3>2 DEF ChecksFirst
  <2>6. PICK j \in DOMAIN p :
          /\ p[j].op = "check" /\ j < i
          /\ \A k \in DOMAIN p : j < k /\ k < i => p[k].op = "check"
          /\ d \in p[1].dims \cap p[j].dims
          /\ p[j].qty >= Total(lines, "from", d)
    BY <2>5
  <2>7. j \in Nat /\ j >= 1 /\ call[t] > 1
    BY <1>1, <2>3, <2>4, <2>6, ProgFacts
  <2>8. lock[d] = t
    BY <1>1, <2>3, <2>5, <2>6, <2>7 DEF Chosen
  <2>9. Available(row[d]) >= p[j].qty
    BY <1>1, <2>3, <2>4, <2>5, <2>6 DEF Passed
  <2>10. p[j].qty \in Int /\ Available(row[d]) \in Int /\ Total(lines, "from", d) \in Nat
    <3>1. p[j].qty \in Int
      <4>1. p[j] \in Call
        BY <2>3
      <4> QED BY <4>1 DEF Call
    <3>2. row[d] \in Rows
      BY DEF TypeOK
    <3>3. NamedAt(lines, "from", d) \in SUBSET DOMAIN lines
      BY DEF NamedAt
    <3>4. Total(lines, "from", d) \in Nat
      BY <3>3, LineSums DEF Total, Quantities
    <3> QED BY <3>1, <3>2, <3>4 DEF Rows, Available
  <2> QED BY <1>4, <2>6, <2>8, <2>9, <2>10
<1> QED BY <1>7, <1>8

(* The header is written before the first line. *)
LEMMA EnoughHeader ==
  ASSUME TypeOK, NEW t \in Txs, TxInv(t), ChecksTx(t), Inserts(t)
  PROVE  Enough(t)'
<1>1. /\ Enough(t) /\ Sane(t) /\ step[t] = "insert" /\ call[t] <= Len(prog[t])
      /\ Cur(t).op \in {"post", "reverse"}
      /\ UNCHANGED <<prog, call, row, lock>> /\ step'[t] = "lines" /\ cursor'[t] = <<1, "from">>
  BY DEF ChecksTx, TxInv, Inserts, Sane, Busy, TypeOK
<1>2. HeaderOf(t) \in Headers /\ Cur(t)' = Cur(t)
  BY <1>1, LinesFacts DEF Cur
<1>3. LinesOf(t)' = LinesOf(t)
  <2>1. CASE Cur(t).op = "post"
    BY <1>2, <2>1 DEF LinesOf
  <2>2. CASE Cur(t).op = "reverse"
    <3>1. Original(t) \in Headers /\ Original(t) # HeaderOf(t)
      BY <1>1, <2>2, LinesFacts DEF Original, HeaderOf
    <3>2. header'[Original(t)] = header[Original(t)]
      BY <1>2, <3>1 DEF Inserts, TypeOK
    <3> QED BY <1>2, <2>2, <3>2 DEF LinesOf, Original
  <2> QED BY <1>1, <2>1, <2>2
<1>4. PICK lines \in Seq(Lines) : lines = LinesOf(t)
  BY <1>1, LinesFacts
<1> SUFFICES ASSUME Guarded(t), NEW d \in Dims, NamedAt(lines, "from", d) # {}
             PROVE  lock[d] = t /\ Available(row[d]) >= Left(t, d)'
  BY <1>1, <1>2, <1>3, <1>4 DEF Enough, Guarded, Available
<1>5. Left(t, d)' = Total(lines, "from", d)
  BY <1>1, <1>3, <1>4, AllAhead
<1>6. Left(t, d) = Total(lines, "from", d)
  <2>1. Ahead(t) = DOMAIN lines
    BY <1>1, <1>4 DEF Ahead
  <2>2. (DOMAIN lines) \cap NamedAt(lines, "from", d) = NamedAt(lines, "from", d)
    BY DEF NamedAt
  <2> QED BY <1>4, <2>1, <2>2 DEF Left, Total, Quantities
<1> QED BY <1>1, <1>4, <1>5, <1>6 DEF Enough

(* A move that has enough does not meet the trigger. *)
LEMMA MovedValid ==
  ASSUME TypeOK, Valid, NEW t \in Txs, TxInv(t), Enough(t), Guarded(t),
         step[t] = "lines", Target(t) # NoDim
  PROVE  check_balance_qty(Target(t), Moved(t))
<1>1. Sane(t) /\ Moving(t)
  BY DEF TxInv
<1>2. PICK lines \in Seq(Lines) : lines = LinesOf(t)
  BY <1>1, TargetFacts
<1>3. PICK i \in DOMAIN lines : i = cursor[t][1]
  BY <1>1, <1>2 DEF Moving
<1>4. PICK d \in Dims : d = Target(t)
  BY <1>1, TargetFacts
<1>5. PICK q \in Nat : q = lines[i].qty
  BY DEF Lines
<1>6. PICK b \in Rows : b = row[d]
  BY DEF TypeOK
<1>7. check_balance_qty(d, b) /\ b.onHand \in Int /\ b.reserved \in Nat /\ b.picked \in Nat
  BY <1>6 DEF Valid, Rows
<1>8. CASE cursor[t][2] = "from"
  <2>1. lines[i].from = d
    BY <1>2, <1>3, <1>4, <1>8 DEF Target
  <2>2. PICK S \in SUBSET DOMAIN lines : S = Ahead(t) \cap NamedAt(lines, "from", d)
    BY DEF NamedAt
  <2>3. i \in S
    BY <1>2, <1>3, <1>8, <2>1, <2>2 DEF Ahead, NamedAt
  <2>4. PICK r \in Nat : r = SumFunctionOnSet(Quantities(lines), S \ {i})
    BY LineSums
  <2>5. SumFunctionOnSet(Quantities(lines), S) = q + r
    BY <1>5, <2>3, <2>4, LineSums
  <2>6. Left(t, d) = q + r
    BY <1>2, <2>2, <2>5 DEF Left
  <2>7. Available(b) >= q + r
    <3>1. NamedAt(LinesOf(t), "from", d) # {}
      BY <1>2, <2>1 DEF NamedAt
    <3> QED BY <1>6, <2>6, <3>1 DEF Enough
  <2>8. PICK m : m = Moved(t)
    OBVIOUS
  <2>9. m.onHand = b.onHand - q /\ m.reserved = b.reserved /\ m.picked = b.picked
    BY <1>2, <1>3, <1>4, <1>5, <1>6, <1>8, <2>8 DEF Moved, Rows
  <2>10. check_balance_qty(d, m)
    <3>1. PICK on \in Int : on = b.onHand
      BY <1>7
    <3>2. PICK held \in Nat : held = b.reserved
      BY <1>7
    <3>3. PICK taken \in Nat : taken = b.picked
      BY <1>7
    <3>4. on - held - taken >= q + r
      BY <2>7, <3>1, <3>2, <3>3 DEF Available
    <3>5. on - q >= 0 /\ on - q >= held + taken
      BY <3>4, q \in Nat, r \in Nat
    <3>6. m.onHand = on - q /\ m.reserved = held /\ m.picked = taken
      BY <2>9, <3>1, <3>2, <3>3
    <3>7. m.onHand >= 0 /\ m.onHand >= m.reserved + m.picked
      BY <3>5, <3>6
    <3> QED BY <3>7 DEF check_balance_qty
  <2> QED BY <1>4, <2>8, <2>10
<1>9. CASE cursor[t][2] = "to"
  <2>8. PICK m : m = Moved(t)
    OBVIOUS
  <2>9. m.onHand = b.onHand + q /\ m.reserved = b.reserved /\ m.picked = b.picked
    BY <1>2, <1>3, <1>4, <1>5, <1>6, <1>9, <2>8 DEF Moved, Rows
  <2>10. check_balance_qty(d, m)
    BY <1>5, <1>7, <2>9 DEF check_balance_qty
  <2> QED BY <1>4, <2>8, <2>10
<1> QED BY <1>1, <1>8, <1>9, TargetFacts

(* A move takes from the row what it takes off what is left. *)
LEMMA EnoughMove ==
  ASSUME TypeOK, NEW t \in Txs, TxInv(t), ChecksTx(t), Moves(t), UNCHANGED <<step, call>>
  PROVE  Enough(t)'
<1>1. /\ Enough(t) /\ Sane(t) /\ Moving(t) /\ step[t] = "lines" /\ call[t] <= Len(prog[t])
      /\ Cur(t).op \in {"post", "reverse"} /\ UNCHANGED <<prog, header>> /\ Advance(t)
  BY DEF ChecksTx, TxInv, Moves, Sane, Busy
<1>2. Cur(t)' = Cur(t) /\ LinesOf(t)' = LinesOf(t) /\ Guarded(t)' = Guarded(t)
  BY <1>1 DEF Cur, LinesOf, Guarded
<1>3. PICK lines \in Seq(Lines) : lines = LinesOf(t)
  BY <1>1, TargetFacts
<1>4. PICK i \in DOMAIN lines : i = cursor[t][1]
  BY <1>1, <1>3 DEF Moving
<1>5. i \in Nat /\ \A k \in DOMAIN lines : k \in Nat
  OBVIOUS
<1> SUFFICES ASSUME Guarded(t), NEW d \in Dims, NamedAt(lines, "from", d) # {}
             PROVE  lock'[d] = t /\ Available(row[d])' >= Left(t, d)'
  BY <1>1, <1>2, <1>3 DEF Enough
<1>6. lock[d] = t /\ Available(row[d]) >= Left(t, d)
  BY <1>1, <1>3 DEF Enough
<1>7. lock'[d] = t
  BY <1>1, <1>6, TargetFacts DEF Moves, Write, TypeOK
<1>8. PICK b \in Rows : b = row[d]
  BY DEF TypeOK
<1>9. Target(t) # d => row'[d] = b
  BY <1>1, <1>8, TargetFacts DEF Moves, Write, TypeOK
<1>10. Target(t) = d =>
          /\ row'[d].reserved = b.reserved /\ row'[d].picked = b.picked
          /\ row'[d].onHand = IF cursor[t][2] = "from" THEN b.onHand - lines[i].qty
                              ELSE b.onHand + lines[i].qty
  <2> SUFFICES ASSUME Target(t) = d
               PROVE  /\ row'[d].reserved = b.reserved /\ row'[d].picked = b.picked
                      /\ row'[d].onHand = IF cursor[t][2] = "from" THEN b.onHand - lines[i].qty
                                          ELSE b.onHand + lines[i].qty
    OBVIOUS
  <2>1. d # NoDim
    BY InventoryPostingAssumption
  <2>2. PICK m \in Rows : m = Moved(t)
    BY <1>1, <2>1, TargetFacts
  <2>3. row' = [row EXCEPT ![d] = [m EXCEPT !.id = IF @ = 0 THEN nextId ELSE @]]
    BY <2>1, <2>2 DEF Moves, Write
  <2>4. row'[d] = [m EXCEPT !.id = IF @ = 0 THEN nextId ELSE @]
    BY <2>3 DEF TypeOK
  <2>5. row'[d].onHand = m.onHand /\ row'[d].reserved = m.reserved /\ row'[d].picked = m.picked
    BY <2>4 DEF Rows
  <2>6. m.reserved = b.reserved /\ m.picked = b.picked
        /\ m.onHand = IF cursor[t][2] = "from" THEN b.onHand - lines[i].qty
                      ELSE b.onHand + lines[i].qty
    BY <1>3, <1>4, <1>8, <2>2 DEF Moved, Rows
  <2> QED BY <2>5, <2>6
<1>11. PICK S \in SUBSET DOMAIN lines : S = Ahead(t) \cap NamedAt(lines, "from", d)
  BY DEF NamedAt
<1>12. PICK q \in Nat : q = lines[i].qty
  BY DEF Lines
<1>13. b.onHand \in Int /\ b.reserved \in Nat /\ b.picked \in Nat
  BY DEF Rows
<1>14. CASE cursor[t][2] = "from"
  <2>1. cursor'[t] = <<i, "to">>
    BY <1>1, <1>4, <1>14 DEF Advance, TypeOK
  <2>2. Ahead(t)' = {k \in DOMAIN lines : k > i}
    BY <1>1, <1>2, <1>3, <2>1 DEF Ahead
  <2>3. Ahead(t) = {k \in DOMAIN lines : k > i} \cup {i}
    BY <1>1, <1>3, <1>4, <1>14 DEF Ahead
  <2>4. Left(t, d)' = SumFunctionOnSet(Quantities(lines), S \ {i})
    <3>1. Ahead(t)' \cap NamedAt(lines, "from", d) = S \ {i}
      BY <1>5, <1>11, <2>2, <2>3
    <3> QED BY <1>2, <1>3, <3>1 DEF Left
  <2>5. Left(t, d) = SumFunctionOnSet(Quantities(lines), S)
    BY <1>3, <1>11 DEF Left
  <2>6. Target(t) = lines[i].from
    BY <1>3, <1>4, <1>14 DEF Target
  <2>7. CASE Target(t) = d
    <3>1. i \in S
      BY <1>11, <2>3, <2>6, <2>7 DEF NamedAt
    <3>2. PICK r \in Nat : r = SumFunctionOnSet(Quantities(lines), S \ {i})
      BY LineSums
    <3>3. Left(t, d) = q + r
      BY <1>12, <2>5, <3>1, <3>2, LineSums
    <3>4. row'[d].onHand = b.onHand - q /\ row'[d].reserved = b.reserved /\ row'[d].picked = b.picked
      BY <1>10, <1>12, <1>14, <2>7
    <3>5. b.onHand - b.reserved - b.picked >= q + r
      BY <1>6, <1>8, <3>3 DEF Available
    <3>6. Available(row[d])' >= r
      BY <1>13, <3>4, <3>5 DEF Available
    <3> QED BY <1>7, <2>4, <3>2, <3>6
  <2>8. CASE Target(t) # d
    <3>1. S \ {i} = S
      BY <1>11, <2>6, <2>8 DEF NamedAt
    <3> QED BY <1>6, <1>7, <1>8, <1>9, <2>4, <2>5, <2>8, <3>1 DEF Available
  <2> QED BY <2>7, <2>8
<1>15. CASE cursor[t][2] = "to"
  <2>1. cursor'[t] = <<i + 1, "from">>
    <3>1. step'[t] = "lines"
      BY <1>1
    <3>2. ~NextCall(t)
      BY <1>1, <3>1 DEF NextCall, TypeOK
    <3> QED BY <1>1, <1>4, <1>15, <3>2 DEF Advance, TypeOK
  <2>2. Ahead(t)' = {k \in DOMAIN lines : k > i + 1 \/ k = i + 1}
    BY <1>1, <1>2, <1>3, <2>1 DEF Ahead
  <2>3. Ahead(t) = {k \in DOMAIN lines : k > i}
    BY <1>1, <1>3, <1>4, <1>15 DEF Ahead
  <2>4. Ahead(t)' = Ahead(t)
    BY <1>5, <2>2, <2>3
  <2>5. Left(t, d)' = Left(t, d)
    BY <1>2, <2>4 DEF Left
  <2>6. Left(t, d) \in Nat
    BY <1>3, <1>11, LineSums DEF Left
  <2>7. CASE Target(t) = d
    <3>1. row'[d].onHand = b.onHand + q /\ row'[d].reserved = b.reserved /\ row'[d].picked = b.picked
      BY <1>10, <1>12, <1>15, <2>7
    <3>2. b.onHand - b.reserved - b.picked >= Left(t, d)
      BY <1>6, <1>8 DEF Available
    <3>3. Available(row[d])' >= Left(t, d)
      BY <1>13, <2>6, <3>1, <3>2 DEF Available
    <3> QED BY <1>7, <2>5, <3>3
  <2>8. CASE Target(t) # d
    BY <1>6, <1>7, <1>8, <1>9, <2>5, <2>8 DEF Available
  <2> QED BY <2>7, <2>8
<1> QED BY <1>1, <1>14, <1>15, TargetFacts

(* A step keeps the rows valid and the checks of the transaction that takes it. *)
LEMMA ChecksOwn ==
  ASSUME TypeOK, IssuesChecked, Valid, NEW t \in Txs, TxInv(t), ChecksTx(t), Start(t) \/ Run(t)
  PROVE  Valid' /\ ChecksTx(t)'
<1>0. Sane(t) /\ Moving(t) /\ Chosen(t) /\ Enough(t) /\ Told(t)
  BY DEF TxInv, ChecksTx
<1> USE DEF Outcomes
<1>a. ASSUME NEW why \in Outcomes, Abort(t, why), why # "trigger"
      PROVE  Valid' /\ ChecksTx(t)'
  <2>1. step'[t] = "over" /\ outcome'[t] = why
    BY <1>a DEF Abort, TypeOK
  <2>2. Told(t)'
    BY <1>a, <2>1 DEF Told
  <2> QED BY <1>a, <2>1, <2>2, ChecksOver, ValidEnd
<1>b. UNCHANGED <<row, saved>> => Valid'
  BY DEF Valid, check_balance_qty
<1>c. ASSUME NextCall(t), UNCHANGED <<prog, toLock, cursor, outcome, dbVars>>,
             step[t] \in {"call", "locked"}, call[t] <= Len(prog[t]),
             Cur(t).op = "lock" => \A d \in Dims : d \in Cur(t).dims => lock[d] = t,
             Cur(t).op = "check" => \A d \in Dims : d \in Cur(t).dims => Available(row[d]) >= Cur(t).qty
      PROVE  Valid' /\ ChecksTx(t)'
  BY <1>b, <1>c, ChecksNextCall DEF dbVars
<1>d. ASSUME Absorb(t), step[t] \in {"call", "locked"}, call[t] <= Len(prog[t]),
             Cur(t).op \in {"post", "reverse"}
      PROVE  Valid' /\ ChecksTx(t)'
  <2>1. CASE Abort(t, "posted")
    BY <1>a, <2>1
  <2>2. CASE NextCall(t) /\ UNCHANGED <<prog, toLock, cursor, outcome, dbVars>>
    BY <1>c, <1>d, <2>2
  <2> QED BY <1>d, <2>1, <2>2 DEF Absorb
<1>e. ASSUME Goto(t, "snapshot"), step[t] = "call"
      PROVE  Valid' /\ ChecksTx(t)'
  <2>1. step'[t] = "snapshot" /\ UNCHANGED <<prog, call, outcome, row, saved, lock>>
    BY <1>e DEF Goto, TypeOK, dbVars
  <2>2. Enough(t)'
    BY <2>1 DEF Enough
  <2> QED BY <1>b, <1>e, <2>1, <2>2, ChecksSameCall DEF Live
<1>1. CASE Start(t)
  <2>1. /\ step[t] = "idle" /\ step'[t] = "call" /\ call'[t] = 1 /\ outcome'[t] = "none"
        /\ UNCHANGED <<row, saved>>
    BY <1>0, <1>1 DEF Start, TypeOK, dbVars, Chosen, Sane
  <2>2. PICK p \in Programs : prog'[t] = p
    BY <1>1 DEF Start, TypeOK
  <2>3. \A j \in DOMAIN p : j \in Nat /\ j >= 1
    <3>1. p \in Seq(Call)
      BY InventoryPostingAssumption
    <3> QED BY <3>1
  <2>4. Passed(t)'
    BY <2>1, <2>2, <2>3 DEF Passed
  <2> QED BY <1>b, <2>1, <2>4 DEF ChecksTx, Chosen, Enough, Told
<1>2. CASE post(t)
  <2>1. step[t] = "call" /\ call[t] <= Len(prog[t]) /\ Cur(t).op = "post"
    BY <1>2 DEF post
  <2> QED BY <1>2, <1>a, <1>d, <1>e, <2>1 DEF post
<1>3. CASE reverse(t)
  <2>1. step[t] = "call" /\ call[t] <= Len(prog[t]) /\ Cur(t).op = "reverse"
    BY <1>3 DEF reverse
  <2> QED BY <1>3, <1>a, <1>d, <1>e, <2>1 DEF reverse
<1>4. CASE callerLock(t)
  BY <1>4, <1>e DEF callerLock
<1>5. CASE SnapshotRows(t)
  <2>1. /\ step[t] = "snapshot" /\ step'[t] = "locking"
        /\ UNCHANGED <<prog, call, outcome, row, saved, lock>>
    BY <1>5 DEF SnapshotRows, TypeOK, dbVars
  <2>2. Enough(t)'
    BY <2>1 DEF Enough
  <2> QED BY <1>b, <2>1, <2>2, ChecksSameCall DEF Live
<1>6. CASE lockBalancesInOrder(t)
  <2>1. step[t] = "locking" /\ UNCHANGED <<prog, call, outcome, row, saved, header>>
    BY <1>6 DEF lockBalancesInOrder, dbVars
  <2>2. CASE /\ toLock[t] # {} /\ Free(t, FirstOf(t))
             /\ lock' = [lock EXCEPT ![FirstOf(t)] = t]
             /\ UNCHANGED step
    <3>1. \A d \in Dims : lock[d] = t => lock'[d] = t
      BY <2>2 DEF TypeOK
    <3>2. Enough(t)'
      BY <2>1, <2>2 DEF Enough
    <3> QED BY <1>b, <2>1, <2>2, <3>1, <3>2, ChecksSameCall DEF Live
  <2>3. CASE /\ step' = [step EXCEPT ![t] = IF Cur(t).op = "post" THEN "insert" ELSE "locked"]
             /\ UNCHANGED lock
    <3>1. CASE Cur(t).op = "post"
      <4>1. step'[t] = "insert"
        BY <2>3, <3>1 DEF TypeOK
      <4>2. Enough(t)'
        BY <2>1, <2>3, <3>1, <4>1, EnoughInsert
      <4> QED BY <1>b, <2>1, <2>3, <4>1, <4>2, ChecksSameCall DEF Live
    <3>2. CASE Cur(t).op # "post"
      <4>1. step'[t] = "locked"
        BY <2>3, <3>2 DEF TypeOK
      <4>2. Enough(t)'
        BY <4>1 DEF Enough
      <4> QED BY <1>b, <2>1, <2>3, <4>1, <4>2, ChecksSameCall DEF Live
    <3> QED BY <3>1, <3>2
  <2> QED BY <1>6, <2>2, <2>3 DEF lockBalancesInOrder, dbVars
<1>7. CASE ChooseRows(t)
  <2>1. step[t] = "locked" /\ Cur(t).op = "lock" /\ call[t] <= Len(prog[t])
    BY <1>0, <1>7 DEF ChooseRows, Sane, Busy
  <2>2. CASE /\ \A d \in Cur(t).dims : Candidates(t, Place(d)) = {d}
             /\ NextCall(t)
             /\ UNCHANGED <<prog, toLock, cursor, outcome, dbVars>>
    <3>1. ASSUME NEW d \in Dims, d \in Cur(t).dims PROVE lock[d] = t
      <4>1. d \in Candidates(t, Place(d))
        BY <2>2, <3>1
      <4> QED BY <4>1 DEF Candidates
    <3> QED BY <1>c, <2>1, <2>2, <3>1
  <2> QED BY <1>7, <1>a, <2>2 DEF ChooseRows
<1>8. CASE RereadReversal(t)
  <2>1. step[t] = "locked" /\ Cur(t).op = "reverse" /\ call[t] <= Len(prog[t])
    BY <1>0, <1>8 DEF RereadReversal, Sane, Busy
  <2>2. CASE assertReversible(t) /\ Goto(t, "insert")
    <3>1. step'[t] = "insert" /\ UNCHANGED <<prog, call, outcome, row, saved, lock, header>>
      BY <2>2 DEF Goto, TypeOK, dbVars
    <3>2. Enough(t)'
      BY <2>1, <2>2, <3>1, EnoughInsert
    <3> QED BY <1>b, <2>1, <3>1, <3>2, ChecksSameCall DEF Live
  <2> QED BY <1>8, <1>a, <1>d, <2>1, <2>2 DEF RereadReversal
<1>9. CASE InsertHeader(t)
  <2>1. CASE Inserts(t) /\ UNCHANGED outcome
    <3>1. step[t] = "insert" /\ step'[t] = "lines" /\ UNCHANGED <<prog, call, row, saved, lock>>
      BY <2>1 DEF Inserts, TypeOK
    <3>2. Enough(t)'
      BY <2>1, EnoughHeader
    <3> QED BY <1>b, <2>1, <3>1, <3>2, ChecksSameCall DEF Live
  <2> QED BY <1>9, <1>a, <2>1 DEF InsertHeader, Inserts
<1>10. CASE writeLine(t)
  <2>1. step[t] = "lines" /\ Cur(t).op \in {"post", "reverse"} /\ call[t] <= Len(prog[t])
    BY <1>0, <1>10 DEF writeLine, Sane, Busy
  <2>2. CASE Moves(t) /\ UNCHANGED outcome
    <3>1. Valid'
      <4>1. CASE Target(t) = NoDim /\ UNCHANGED <<row, lock>>
        BY <1>b, <2>2, <4>1 DEF Moves
      <4>2. CASE Target(t) # NoDim /\ Write(t, Target(t), Moved(t))
        BY <1>0, <2>1, <2>2, <4>2, TargetFacts, ValidWrite DEF Moves
      <4> QED BY <2>2, <4>1, <4>2 DEF Moves
    <3>2. \A d \in Dims : lock[d] = t => lock'[d] = t
      BY <1>0, <2>1, <2>2, TargetFacts DEF Moves, Write, TypeOK
    <3>3. CASE NextCall(t)
      BY <2>1, <2>2, <3>1, <3>2, <3>3, ChecksNextCall DEF Moves
    <3>4. CASE UNCHANGED <<step, call>>
      BY <2>1, <2>2, <3>1, <3>2, <3>4, EnoughMove, ChecksSameCall DEF Live, Moves
    <3> QED BY <2>2, <3>3, <3>4 DEF Moves, Advance
  <2>3. CASE Target(t) # NoDim /\ ~check_balance_qty(Target(t), Moved(t)) /\ Abort(t, "trigger")
    <3>1. ~Guarded(t)
      BY <1>0, <2>1, <2>3, MovedValid
    <3>2. /\ step'[t] = "over" /\ UNCHANGED <<prog, call>>
      BY <2>3 DEF Abort, TypeOK
    <3>3. Told(t)'
      BY <2>1, <3>1, <3>2 DEF Told, Guarded, Cur
    <3> QED BY <2>3, <3>2, <3>3, ChecksOver, ValidEnd
  <2> QED BY <1>10, <2>2, <2>3 DEF writeLine, Moves, dbVars
<1>11. CASE updateQty(t)
  <2>1. PICK d \in Cur(t).dims :
           \/ /\ LowerBound(Cur(t), row[d])
              /\ Write(t, d, Updated(Cur(t), row[d]))
              /\ NextCall(t)
              /\ UNCHANGED <<prog, toLock, cursor, outcome, saved, header>>
           \/ /\ LowerBound(Cur(t), row[d])
              /\ ~check_balance_qty(d, Updated(Cur(t), row[d]))
           \/ Abort(t, "negative")
    BY <1>11 DEF updateQty
  <2>2. /\ Cur(t) \in Call /\ CallOK(Cur(t)) /\ Cur(t).op \in QtyOps
        /\ step[t] = "call" /\ call[t] <= Len(prog[t])
    BY <1>0, <1>11, CallFacts DEF updateQty
  <2>3. d \in Dims /\ row[d] \in Rows /\ check_balance_qty(d, row[d])
    BY <2>1, <2>2 DEF Call, TypeOK, Valid
  <2>4. CASE /\ LowerBound(Cur(t), row[d])
             /\ Write(t, d, Updated(Cur(t), row[d]))
             /\ NextCall(t)
             /\ UNCHANGED <<prog, toLock, cursor, outcome, saved, header>>
    <3>1. Updated(Cur(t), row[d]) \in Rows
      BY <2>2, <2>3, <2>4, UpdatedType
    <3>2. Valid'
      BY <2>3, <2>4, <3>1, ValidWrite
    <3>3. \A e \in Dims : lock[e] = t => lock'[e] = t
      BY <2>3, <2>4 DEF Write, TypeOK
    <3>4. Cur(t).op \notin {"lock", "check"}
      BY <2>2 DEF QtyOps
    <3> QED BY <2>2, <2>4, <3>2, <3>3, <3>4, ChecksNextCall
  <2>5. CASE LowerBound(Cur(t), row[d]) /\ ~check_balance_qty(d, Updated(Cur(t), row[d]))
    BY <2>2, <2>3, <2>5, UpdatedValid
  <2> QED BY <1>a, <2>1, <2>4, <2>5
<1>12. CASE handCheck(t)
  <2>1. step[t] = "call" /\ call[t] <= Len(prog[t]) /\ Cur(t).op = "check"
    BY <1>12 DEF handCheck
  <2>2. CASE /\ \A d \in Cur(t).dims : LowerBound(Cur(t), row[d])
             /\ NextCall(t)
             /\ UNCHANGED <<prog, toLock, cursor, outcome, dbVars>>
    <3>1. \A d \in Cur(t).dims : Available(row[d]) >= Cur(t).qty
      BY <2>1, <2>2 DEF LowerBound
    <3> QED BY <1>c, <2>1, <2>2, <3>1
  <2> QED BY <1>12, <1>a, <2>2 DEF handCheck
<1>13. CASE Commit(t)
  <2>1. step'[t] = "over" /\ outcome'[t] = "done"
    BY <1>13 DEF Commit, TypeOK
  <2>2. Told(t)'
    BY <2>1 DEF Told
  <2> QED BY <1>13, <2>1, <2>2, ChecksOver, ValidEnd
<1>14. CASE DeadlockVictim(t)
  BY <1>14, <1>a DEF DeadlockVictim
<1> QED BY <1>1, <1>2, <1>3, <1>4, <1>5, <1>6, <1>7, <1>8, <1>9, <1>10, <1>11, <1>12, <1>13, <1>14
         DEF Run

(* All this holds at the start. *)
LEMMA InitChecks == Init /\ IssuesChecked => ChecksInv
<1> SUFFICES ASSUME Init, IssuesChecked PROVE ChecksInv
  OBVIOUS
<1>1. Valid
  BY RowsAssumption DEF Init, Valid
<1>2. ASSUME NEW t \in Txs PROVE ChecksTx(t)
  <2>1. step[t] = "idle" /\ call[t] = 1 /\ outcome[t] = "none"
    BY DEF Init
  <2> QED BY <2>1 DEF ChecksTx, Chosen, Passed, Enough, Told, Live
<1> QED BY <1>1, <1>2 DEF ChecksInv

(* Every step keeps it. *)
LEMMA NextChecks == IInv /\ ChecksInv /\ [Next]_vars => ChecksInv'
<1> SUFFICES ASSUME IInv, ChecksInv, [Next]_vars PROVE ChecksInv'
  OBVIOUS
<1>0. TypeOK /\ IssuesChecked /\ Valid /\ \A t \in Txs : TxInv(t) /\ ChecksTx(t)
  BY DEF IInv, ChecksInv
<1>1. IssuesChecked'
  BY <1>0 DEF IssuesChecked
<1>2. CASE UNCHANGED vars
  <2>1. Valid'
    BY <1>0, <1>2 DEF vars, Valid, check_balance_qty
  <2>2. ASSUME NEW u \in Txs PROVE ChecksTx(u)'
    <3>1. Leaves(u)
      BY <1>2 DEF vars, Leaves, LeavesTx, LeavesRows, LeavesHeaders
    <3> QED BY <1>0, <3>1, ChecksOthers
  <2> QED BY <1>1, <2>1, <2>2 DEF ChecksInv
<1>3. ASSUME NEW t \in Txs, Start(t) \/ Run(t)
      PROVE  ChecksInv'
  <2>1. Valid' /\ ChecksTx(t)'
    BY <1>0, <1>3, ChecksOwn
  <2>2. ASSUME NEW u \in Txs, u # t PROVE ChecksTx(u)'
    BY <1>0, <1>3, <2>2, StepLeaves, ChecksOthers
  <2> QED BY <1>1, <2>1, <2>2 DEF ChecksInv
<1> QED BY <1>2, <1>3 DEF Next, Done

(* A reversal, a reservation, a pick, and an issue that was checked never   *)
(* fail in the trigger, where issues check the sums of what they post.      *)
THEOREM ChecksSpareTheTrigger == IssuesChecked /\ Spec => []TriggerOnlyUnchecked
<1>1. Init /\ IssuesChecked => IInv /\ ChecksInv
  BY InitIInv, InitChecks
<1>2. IInv /\ ChecksInv /\ [Next]_vars => (IInv /\ ChecksInv)'
  BY NextIInv, NextChecks
<1>3. ChecksInv => TriggerOnlyUnchecked
  BY DEF ChecksInv, ChecksTx, Told, TriggerOnlyUnchecked
<1> QED BY <1>1, <1>2, <1>3, PTL DEF Spec

=============================================================================
