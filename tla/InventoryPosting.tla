-------------------------- MODULE InventoryPosting --------------------------
(***************************************************************************)
(* The inventory posting core (src/core/inventory-posting): the ledger     *)
(* (inventory_transaction and its lines), the balance rows they move, and  *)
(* the row locks that keep concurrent transactions apart.                  *)
(*                                                                         *)
(* A transaction runs a program: the sequence of calls of the core that    *)
(* one operation of the server makes.  Each SQL statement of a call is one *)
(* action, except that SELECT ... FOR UPDATE is one action per row, as     *)
(* PostgreSQL locks them one at a time.  The database is external and      *)
(* modelled by what the code relies on: READ COMMITTED reads, row locks    *)
(* held until the end of the transaction, unique indexes that wait for an  *)
(* open inserter, the trigger check_balance_qty, and a deadlock detector   *)
(* that aborts one of the waiting transactions.                            *)
(*                                                                         *)
(* A dimension stands for the 11 columns of uq_inventory_balance_dim:      *)
(* place (the 7 columns legal entity ... item, lot) and status (quality,   *)
(* inventory status, ownership, owner).  The column blocked_qty is zero in *)
(* every row, as nothing in the server writes it.                          *)
(***************************************************************************)
EXTENDS Integers, Sequences, FiniteSets, Functions

CONSTANTS Txs, NoTx,             \* database transactions
          Locations, Items, Statuses, NoDim,
          Keys, NoKey,           \* idempotency key + business date of a posting
          Programs,              \* what the operations of the server run
          Opening,               \* Opening[d]: the balance row before the run
          OpeningLedger,         \* OpeningLedger[k]: the lines posted before it
          NegativeAllowed,       \* items with item.negative_stock_allowed
          Refusing               \* places with active children or an item rule

Places == [loc : Locations, item : Items]
Dims   == [loc : Locations, item : Items, status : Statuses]
Place(d) == [loc |-> d.loc, item |-> d.item]

(* A ledger line; ck_inventory_transaction_direction: it has an end. *)
Lines == {l \in [from : Dims \cup {NoDim}, to : Dims \cup {NoDim}, qty : Nat \ {0}] :
            l.from # NoDim \/ l.to # NoDim}

(* A balance row; id 0 says that there is no row. *)
Rows == [id : Nat, onHand : Int, reserved : Nat, picked : Nat]
NoRow == [id |-> 0, onHand |-> 0, reserved |-> 0, picked |-> 0]

Available(b) == b.onHand - b.reserved - b.picked

(* A ledger header is known by its idempotency key: that of the posting,   *)
(* or "REVERSAL:" and the id of the posting it reverses.                   *)
Headers == Keys \X {"post", "reversal"}

(* The calls of the core, with the arguments their callers give them. *)
Ops  == {"post", "reverse", "lock", "reserve", "pick", "pickReserved", "consume", "check"}
Call == [op : Ops, key : Keys \cup {NoKey}, lines : Seq(Lines), strict : BOOLEAN,
         places : SUBSET Places, dims : SUBSET Dims, qty : Int]

NoArgs == [key |-> NoKey, lines |-> <<>>, strict |-> FALSE,
           places |-> {}, dims |-> {}, qty |-> 0]

(* What the callers see to: a document that is posted has lines, a reversal *)
(* names a posting, an update names its row, and quantities are positive,   *)
(* but for a pick, which is a difference (reservation-qty.ts skips those    *)
(* that are zero).                                                          *)
CallOK(c) ==
  /\ c.op \in {"post", "reverse"} => c.key \in Keys
  /\ c.op = "post" => c.lines # <<>>
  /\ c.op \in {"reserve", "consume", "check"} => c.qty > 0
  /\ c.op \in {"pick", "pickReserved"} => c.qty # 0
  /\ c.op \in {"reserve", "pick", "pickReserved", "consume"} => c.dims # {}

ASSUME InventoryPostingAssumption ==
  /\ NoTx \notin Txs /\ NoDim \notin Dims /\ NoKey \notin Keys
  /\ Programs \subseteq Seq(Call)
  /\ \A p \in Programs : \A i \in DOMAIN p : CallOK(p[i])
  /\ Opening \in [Dims -> Rows]
  /\ OpeningLedger \in [Keys -> Seq(Lines)]
  /\ IsFiniteSet(Dims)
  /\ NegativeAllowed \subseteq Items /\ Refusing \subseteq Places

(* Balance rows are never deleted: what was posted before the run has rows. *)
ASSUME OpeningAssumption ==
  \A k \in Keys : \A i \in DOMAIN OpeningLedger[k] :
    \A d \in {OpeningLedger[k][i].from, OpeningLedger[k][i].to} \ {NoDim} : Opening[d].id # 0

(* Ids are those of a primary key. *)
ASSUME IdsAssumption ==
  \A d, e \in Dims : Opening[d].id # 0 /\ Opening[d].id = Opening[e].id => d = e

VARIABLES
  prog, call, step,   \* the program of each transaction, the call it is in, the statement
  toLock,             \* rows its SELECT ... FOR UPDATE has still to lock
  cursor,             \* <<line, side>> of the next move()
  outcome,            \* how it ended
  row, saved,         \* each balance row: newest version, last committed version
  lock,               \* the transaction that holds the row
  header,             \* ledger headers: their lines and the open transaction that wrote them
  nextId              \* sequence of inventory_balance_id

dbVars == <<row, saved, lock, header, nextId>>
vars   == <<prog, call, step, toLock, cursor, outcome, row, saved, lock, header, nextId>>

Steps    == {"idle", "call", "snapshot", "locking", "locked", "insert", "lines", "over"}
Outcomes == {"none", "done", "refused", "posted", "ambiguous", "negative",
             "trigger", "unique", "deadlock"}
NoHeader == [lines |-> <<>>, writer |-> NoTx]

Init ==
  /\ prog    = [t \in Txs |-> <<>>]
  /\ call    = [t \in Txs |-> 1]
  /\ step    = [t \in Txs |-> "idle"]
  /\ toLock  = [t \in Txs |-> {}]
  /\ cursor  = [t \in Txs |-> <<1, "from">>]
  /\ outcome = [t \in Txs |-> "none"]
  /\ row     = Opening
  /\ saved   = Opening
  /\ lock    = [d \in Dims |-> NoTx]
  /\ header  = [h \in Headers |-> [lines  |-> IF h[2] = "post" THEN OpeningLedger[h[1]] ELSE <<>>,
                                   writer |-> NoTx]]
  /\ nextId  = 1 + Cardinality(Dims)
-----------------------------------------------------------------------------
(* The database. *)

Cur(t) == prog[t][call[t]]

(* A header row as transaction t reads it. *)
SeenBy(t, h) == header[h].lines # <<>> /\ header[h].writer \in {NoTx, t}

Free(t, d) == lock[d] \in {NoTx, t}

(* inventory.check_balance_qty, run before every insert and update of a row. *)
check_balance_qty(d, b) ==
  IF b.onHand >= 0 THEN b.onHand >= b.reserved + b.picked
  ELSE d.item \in NegativeAllowed /\ b.reserved + b.picked = 0

(* It was in force before the run, too. *)
ASSUME RowsAssumption == \A d \in Dims : check_balance_qty(d, Opening[d])

Release(t) == [d \in Dims |-> IF lock[d] = t THEN NoTx ELSE lock[d]]

(* An exception leaves the callback of $transaction: everything is undone. *)
Abort(t, why) ==
  /\ row'     = [d \in Dims |-> IF lock[d] = t THEN saved[d] ELSE row[d]]
  /\ lock'    = Release(t)
  /\ header'  = [h \in Headers |-> IF header[h].writer = t THEN NoHeader ELSE header[h]]
  /\ step'    = [step EXCEPT ![t] = "over"]
  /\ outcome' = [outcome EXCEPT ![t] = why]
  /\ UNCHANGED <<prog, call, toLock, cursor, saved, nextId>>

Commit(t) ==
  /\ step[t] = "call" /\ call[t] > Len(prog[t])
  /\ saved'   = [d \in Dims |-> IF lock[d] = t THEN row[d] ELSE saved[d]]
  /\ lock'    = Release(t)
  /\ header'  = [h \in Headers |-> IF header[h].writer = t
                                   THEN [header[h] EXCEPT !.writer = NoTx] ELSE header[h]]
  /\ step'    = [step EXCEPT ![t] = "over"]
  /\ outcome' = [outcome EXCEPT ![t] = "done"]
  /\ UNCHANGED <<prog, call, toLock, cursor, row, nextId>>

NextCall(t) ==
  /\ call' = [call EXCEPT ![t] = @ + 1]
  /\ step' = [step EXCEPT ![t] = "call"]

(* UPDATE of row d to b (inserted first if it is absent) by t. *)
Write(t, d, b) ==
  /\ Free(t, d)
  /\ check_balance_qty(d, b)
  /\ lock'   = [lock EXCEPT ![d] = t]
  /\ row'    = [row EXCEPT ![d] = [b EXCEPT !.id = IF @ = 0 THEN nextId ELSE @]]
  /\ nextId' = IF b.id = 0 THEN nextId + 1 ELSE nextId

-----------------------------------------------------------------------------
(* post() and reverse(). *)

reversedLine(l) == [from |-> l.to, to |-> l.from, qty |-> l.qty]

HeaderOf(t) == <<Cur(t).key, IF Cur(t).op = "post" THEN "post" ELSE "reversal">>

LinesOf(t) ==
  IF Cur(t).op = "post" THEN Cur(t).lines
  ELSE LET original == header[<<Cur(t).key, "post">>].lines
       IN  [i \in DOMAIN original |-> reversedLine(original[i])]

Ends(lines) ==
  ({lines[i].from : i \in DOMAIN lines} \cup {lines[i].to : i \in DOMAIN lines}) \ {NoDim}

(* What the lines take from (side "from") or bring to (side "to") row d. *)
NamedAt(lines, side, d) == {i \in DOMAIN lines : lines[i][side] = d}
Total(lines, side, d) == SumFunctionOnSet([i \in DOMAIN lines |-> lines[i].qty], NamedAt(lines, side, d))

(* Lines that bring stock in from elsewhere; a change of status within one *)
(* location is not one of them.                                            *)
incomingLines(lines) ==
  {i \in DOMAIN lines : /\ lines[i].to # NoDim
                        /\ lines[i].from # NoDim => lines[i].from.loc # lines[i].to.loc}

(* assertLeafDestinations and assertAllowedItems. *)
Acceptable(lines) == \A i \in incomingLines(lines) : Place(lines[i].to) \notin Refusing

(* The call finds its header already there: most callers go on, those that *)
(* hold a state lock on the document treat it as an error.                 *)
Absorb(t) ==
  \/ Cur(t).strict /\ Abort(t, "posted")
  \/ /\ ~Cur(t).strict
     /\ NextCall(t)
     /\ UNCHANGED <<prog, toLock, cursor, outcome, dbVars>>

Goto(t, s) ==
  /\ step' = [step EXCEPT ![t] = s]
  /\ UNCHANGED <<prog, call, toLock, cursor, outcome, dbVars>>

post(t) ==
  /\ step[t] = "call" /\ call[t] <= Len(prog[t]) /\ Cur(t).op = "post"
  /\ \/ SeenBy(t, HeaderOf(t)) /\ Absorb(t)
     \/ ~SeenBy(t, HeaderOf(t)) /\ ~Acceptable(Cur(t).lines) /\ Abort(t, "refused")
     \/ ~SeenBy(t, HeaderOf(t)) /\ Acceptable(Cur(t).lines) /\ Goto(t, "snapshot")

reverse(t) ==
  /\ step[t] = "call" /\ call[t] <= Len(prog[t]) /\ Cur(t).op = "reverse"
  /\ \/ SeenBy(t, HeaderOf(t)) /\ Absorb(t)
     \/ /\ ~SeenBy(t, HeaderOf(t))
        /\ ~SeenBy(t, <<Cur(t).key, "post">>)
        /\ Abort(t, "refused")
     \/ /\ ~SeenBy(t, HeaderOf(t))
        /\ SeenBy(t, <<Cur(t).key, "post">>)
        /\ Goto(t, "snapshot")

(* A caller's own lock statement (goods issue, picking, product picking). *)
callerLock(t) ==
  /\ step[t] = "call" /\ call[t] <= Len(prog[t]) /\ Cur(t).op = "lock"
  /\ Goto(t, "snapshot")

(* lockBalancesInOrder: the statement sees the rows of its places that are *)
(* there when it starts ...                                                *)
balanceKeys(t) == IF Cur(t).op = "lock" THEN Cur(t).places
                  ELSE {Place(d) : d \in Ends(LinesOf(t))}

SnapshotRows(t) ==
  /\ step[t] = "snapshot"
  /\ toLock' = [toLock EXCEPT ![t] =
                  {d \in Dims : /\ Place(d) \in balanceKeys(t)
                                /\ \/ saved[d].id # 0
                                   \/ lock[d] = t /\ row[d].id # 0}]
  /\ step'   = [step EXCEPT ![t] = "locking"]
  /\ UNCHANGED <<prog, call, cursor, outcome, dbVars>>

(* Mutation: the rows are locked as the lines name them. *)
FirstNamed(t) ==
  LET ends == IF Cur(t).op = "lock" THEN {} ELSE {LinesOf(t)[1].from} \cap toLock[t]
  IN  CHOOSE d \in (IF ends = {} THEN toLock[t] ELSE ends) : TRUE

(* ... and locks them in the order of their ids. *)
FirstOf(t) == CHOOSE d \in toLock[t] : \A e \in toLock[t] : row[d].id <= row[e].id

lockBalancesInOrder(t) ==
  /\ step[t] = "locking"
  /\ \/ /\ toLock[t] # {}
        /\ Free(t, FirstOf(t))
        /\ lock'   = [lock EXCEPT ![FirstOf(t)] = t]
        /\ toLock' = [toLock EXCEPT ![t] = @ \ {FirstOf(t)}]
        /\ UNCHANGED <<step, row, saved, header, nextId>>
     \/ /\ toLock[t] = {}
        /\ step' = [step EXCEPT ![t] = IF Cur(t).op = "post" THEN "insert" ELSE "locked"]
        /\ UNCHANGED <<toLock, dbVars>>
  /\ UNCHANGED <<prog, call, cursor, outcome>>

(* withoutEmptyBalances: the caller must find exactly one row to take from. *)
Candidates(t, p) ==
  LET rows == {d \in Dims : Place(d) = p /\ lock[d] = t /\ row[d].id # 0}
      held == {d \in rows : row[d].onHand # 0}
  IN  IF Cardinality(rows) < 2 \/ held = {} THEN rows ELSE held

ChooseRows(t) ==
  /\ step[t] = "locked" /\ Cur(t).op = "lock"
  /\ \/ /\ \A d \in Cur(t).dims : Candidates(t, Place(d)) = {d}
        /\ NextCall(t)
        /\ UNCHANGED <<prog, toLock, cursor, outcome, dbVars>>
     \/ /\ \E d \in Cur(t).dims : Candidates(t, Place(d)) # {d}
        /\ Abort(t, "ambiguous")

assertReversible(t) ==
  LET lines == LinesOf(t)
  IN  \A d \in {lines[i].from : i \in DOMAIN lines} \ {NoDim} :
        /\ lock[d] = t /\ row[d].id # 0
        /\ Available(row[d]) >= Total(lines, "from", d)

(* Mutation: no second findReversal. *)
AssertWithoutReread(t) ==
  /\ step[t] = "locked" /\ Cur(t).op = "reverse"
  /\ \/ ~assertReversible(t) /\ Abort(t, "negative")
     \/ assertReversible(t) /\ Goto(t, "insert")

(* The second findReversal, under the locks, and then the lower bound. *)
RereadReversal(t) ==
  /\ step[t] = "locked" /\ Cur(t).op = "reverse"
  /\ \/ SeenBy(t, HeaderOf(t)) /\ Absorb(t)
     \/ ~SeenBy(t, HeaderOf(t)) /\ ~assertReversible(t) /\ Abort(t, "negative")
     \/ ~SeenBy(t, HeaderOf(t)) /\ assertReversible(t) /\ Goto(t, "insert")

(* INSERT of the header under uq_inventory_idempotency. *)
InsertHeader(t) ==
  /\ step[t] = "insert"
  /\ \/ /\ header[HeaderOf(t)] = NoHeader
        /\ header' = [header EXCEPT ![HeaderOf(t)] = [lines |-> LinesOf(t), writer |-> t]]
        /\ step'   = [step EXCEPT ![t] = "lines"]
        /\ cursor' = [cursor EXCEPT ![t] = <<1, "from">>]
        /\ UNCHANGED <<prog, call, toLock, outcome, row, saved, lock, nextId>>
     \/ /\ SeenBy(t, HeaderOf(t))
        /\ Abort(t, "unique")

(* move() is done with one side of a line; writeLine goes to the next. *)
Advance(t) ==
  LET i == cursor[t][1] IN
  \/ /\ cursor[t][2] = "from"
     /\ cursor' = [cursor EXCEPT ![t] = <<i, "to">>]
     /\ UNCHANGED <<step, call>>
  \/ /\ cursor[t][2] = "to" /\ i < Len(LinesOf(t))
     /\ cursor' = [cursor EXCEPT ![t] = <<i + 1, "from">>]
     /\ UNCHANGED <<step, call>>
  \/ /\ cursor[t][2] = "to" /\ i = Len(LinesOf(t))
     /\ NextCall(t)
     /\ UNCHANGED cursor

Target(t) == LinesOf(t)[cursor[t][1]][cursor[t][2]]

(* Mutation: the quantity is read outside the transaction. *)
MovedFromCommitted(t) ==
  LET qty == LinesOf(t)[cursor[t][1]].qty
  IN  [row[Target(t)] EXCEPT !.onHand = saved[Target(t)].onHand
                                        + (IF cursor[t][2] = "from" THEN -qty ELSE qty)]

Moved(t) ==
  LET qty == LinesOf(t)[cursor[t][1]].qty
  IN  [row[Target(t)] EXCEPT !.onHand = IF cursor[t][2] = "from" THEN @ - qty ELSE @ + qty]

writeLine(t) ==
  /\ step[t] = "lines"
  /\ \/ /\ Target(t) = NoDim
        /\ Advance(t)
        /\ UNCHANGED dbVars
        /\ UNCHANGED <<prog, toLock, outcome>>
     \/ /\ Target(t) # NoDim
        /\ Write(t, Target(t), Moved(t))
        /\ Advance(t)
        /\ UNCHANGED <<saved, header, prog, toLock, outcome>>
     \/ /\ Target(t) # NoDim
        /\ Free(t, Target(t))
        /\ ~check_balance_qty(Target(t), Moved(t))
        /\ Abort(t, "trigger")

-----------------------------------------------------------------------------
(* reserve, pick and consume: one guarded UPDATE each. *)

(* The columns after the statement, and the lower bound in its WHERE. *)
Updated(c, b) ==
  CASE c.op = "reserve"      -> [b EXCEPT !.reserved = @ + c.qty]
    [] c.op = "pick"         -> [b EXCEPT !.picked = @ + c.qty]
    [] c.op = "pickReserved" -> [b EXCEPT !.reserved = @ - c.qty, !.picked = @ + c.qty]
    [] c.op = "consume"      -> [b EXCEPT !.picked = @ - c.qty]
    [] OTHER                 -> b

(* Mutation: every statement is guarded by the stock on hand. *)
LowerBoundOnHand(c, b) == b.id # 0 /\ b.onHand >= c.qty

LowerBound(c, b) ==
  /\ b.id # 0
  /\ CASE c.op = "consume"                                   -> b.picked >= c.qty
       [] c.op \in {"pick", "pickReserved"} /\ c.qty <= 0    -> b.picked >= -c.qty
       [] c.op = "pickReserved" /\ c.qty > 0                 -> b.reserved >= c.qty
       [] OTHER                                              -> Available(b) >= c.qty

QtyOps == {"reserve", "pick", "pickReserved", "consume"}

updateQty(t) ==
  /\ step[t] = "call" /\ call[t] <= Len(prog[t]) /\ Cur(t).op \in QtyOps
  /\ \E d \in Cur(t).dims :
       \/ /\ LowerBound(Cur(t), row[d])
          /\ Write(t, d, Updated(Cur(t), row[d]))
          /\ NextCall(t)
          /\ UNCHANGED <<prog, toLock, cursor, outcome, saved, header>>
       \/ /\ Free(t, d)
          /\ LowerBound(Cur(t), row[d])
          /\ ~check_balance_qty(d, Updated(Cur(t), row[d]))
          /\ Abort(t, "trigger")
       \/ /\ Free(t, d)
          /\ ~LowerBound(Cur(t), row[d])
          /\ Abort(t, "negative")

(* Mutation: the hand check looks at on_hand_qty alone. *)
handCheckOnHand(t) ==
  /\ step[t] = "call" /\ call[t] <= Len(prog[t]) /\ Cur(t).op = "check"
  /\ \/ /\ \A d \in Cur(t).dims : row[d].onHand >= Cur(t).qty
        /\ NextCall(t)
        /\ UNCHANGED <<prog, toLock, cursor, outcome, dbVars>>
     \/ /\ \E d \in Cur(t).dims : row[d].onHand < Cur(t).qty
        /\ Abort(t, "negative")

(* The hand check of postIssue: what is left after consume() covers the issue. *)
handCheck(t) ==
  /\ step[t] = "call" /\ call[t] <= Len(prog[t]) /\ Cur(t).op = "check"
  /\ \/ /\ \A d \in Cur(t).dims : LowerBound(Cur(t), row[d])
        /\ NextCall(t)
        /\ UNCHANGED <<prog, toLock, cursor, outcome, dbVars>>
     \/ /\ \E d \in Cur(t).dims : ~LowerBound(Cur(t), row[d])
        /\ Abort(t, "negative")

-----------------------------------------------------------------------------
Start(t) ==
  /\ step[t] = "idle"
  /\ \E p \in Programs : prog' = [prog EXCEPT ![t] = p]
  /\ step' = [step EXCEPT ![t] = "call"]
  /\ UNCHANGED <<call, toLock, cursor, outcome, dbVars>>

(* The row lock or index entry that t waits for, by its holder. *)
WaitsFor(t) ==
  LET holder ==
        CASE step[t] = "locking" /\ toLock[t] # {}            -> lock[FirstOf(t)]
          [] step[t] = "insert"                               -> header[HeaderOf(t)].writer
          [] step[t] = "lines" /\ Target(t) # NoDim           -> lock[Target(t)]
          [] /\ step[t] = "call" /\ call[t] <= Len(prog[t])
             /\ Cur(t).op \in QtyOps                          -> lock[CHOOSE d \in Cur(t).dims : TRUE]
          [] OTHER                                            -> NoTx
  IN  IF holder = t THEN NoTx ELSE holder

(* t is on a cycle of waits: a set of transactions that WaitsFor permutes. *)
InCycle(t) == \E S \in SUBSET Txs : t \in S /\ {WaitsFor(u) : u \in S} = S

(* PostgreSQL ends a wait that closed a cycle (40P01). *)
DeadlockVictim(t) == InCycle(t) /\ Abort(t, "deadlock")

Run(t) ==
  \/ post(t) \/ reverse(t) \/ callerLock(t) \/ SnapshotRows(t) \/ lockBalancesInOrder(t)
  \/ ChooseRows(t) \/ RereadReversal(t) \/ InsertHeader(t) \/ writeLine(t)
  \/ updateQty(t) \/ handCheck(t) \/ Commit(t) \/ DeadlockVictim(t)

Done == (\A t \in Txs : step[t] = "over") /\ UNCHANGED vars

Next == (\E t \in Txs : Start(t) \/ Run(t)) \/ Done

Spec == Init /\ [][Next]_vars

-----------------------------------------------------------------------------
TypeOK ==
  /\ prog \in [Txs -> Programs \cup {<<>>}]
  /\ call \in [Txs -> Nat]
  /\ step \in [Txs -> Steps]
  /\ toLock \in [Txs -> SUBSET Dims]
  /\ cursor \in [Txs -> Nat \X {"from", "to"}]
  /\ outcome \in [Txs -> Outcomes]
  /\ row \in [Dims -> Rows] /\ saved \in [Dims -> Rows]
  /\ lock \in [Dims -> Txs \cup {NoTx}]
  /\ header \in [Headers -> [lines : Seq(Lines), writer : Txs \cup {NoTx}]]
  /\ nextId \in Nat

(* The ends of the ledger lines of the headers hs: header, line and side. *)
EndsOf(hs) == UNION {{h} \X (DOMAIN header[h].lines) \X {"from", "to"} : h \in hs}

(* What the end e of a line does to the stock of row d, and what E does. *)
Effect(e, d) ==
  LET line == header[e[1]].lines[e[2]]
  IN  IF line[e[3]] # d THEN 0 ELSE IF e[3] = "from" THEN -line.qty ELSE line.qty

Net(E, d) == SumFunctionOnSet([e \in E |-> Effect(e, d)], E)

(* The postings made before the run, which Opening accounts for. *)
Before == {h \in Headers : h[2] = "post" /\ OpeningLedger[h[1]] # <<>>}

Committed == {h \in Headers \ Before : header[h].writer = NoTx}

(* The committed stock of every dimension is its opening stock and what the *)
(* committed ledger lines moved: no update is lost, none is counted twice,  *)
(* however postings, reversals, resends and aborts interleave               *)
(* (inventory-posting.service.ts:60-228).                                   *)
BalanceIsLedger ==
  \A d \in Dims : saved[d].onHand = Opening[d].onHand + Net(EndsOf(Committed), d)

(* Two reversals of one posting never collide.  The later one is absorbed   *)
(* by the reread under the locks: it neither meets the unique index nor is  *)
(* told that stock would go negative, which it would because of the earlier *)
(* one (inventory-posting.service.ts:145-153, reversal.ts:108-109).         *)
ReverseFails(t) ==
  /\ step[t] # "over" /\ call[t] <= Len(prog[t]) /\ Cur(t).op = "reverse"
  /\ outcome'[t] \in {"negative", "unique"}

ReverseNeverCollides ==
  [][\A t \in Txs : ReverseFails(t) =>
        /\ outcome'[t] = "negative"
        /\ ~SeenBy(t, <<Cur(t).key, "reversal">>)]_vars

(* A goods issue checks the sum per balance row before it posts             *)
(* (issue-posting.ts:131-189), a reversal does so in assertReversible, and  *)
(* reserve, pick and consume guard their UPDATE, so the trigger is left to  *)
(* postings that check nothing: a checked operation fails with a 400, never *)
(* with the trigger's 500.                                                  *)
TriggerOnlyUnchecked ==
  \A t \in Txs : outcome[t] = "trigger" =>
    /\ Cur(t).op = "post"
    /\ \A i \in DOMAIN prog[t] : prog[t][i].op # "check"

(* What it rests on: a program with hand checks locks the rows it chooses    *)
(* and, right before it posts, checks each row that the lines take from for  *)
(* the sum of them (issue-posting.ts:135-191).                               *)
ChecksFirst(p) ==
  \A c, i \in DOMAIN p : p[c].op = "check" /\ p[i].op = "post" =>
    /\ p[1].op = "lock"
    /\ \A n \in DOMAIN p[i].lines :
         p[i].lines[n].from # NoDim =>
           \E j \in DOMAIN p :
             /\ p[j].op = "check" /\ j < i
             /\ \A k \in DOMAIN p : j < k /\ k < i => p[k].op = "check"
             /\ p[i].lines[n].from \in p[1].dims \cap p[j].dims
             /\ p[j].qty >= Total(p[i].lines, "from", p[i].lines[n].from)

IssuesChecked == \A p \in Programs : ChecksFirst(p)

(* An ordered program has locked all its rows with its first lock statement: *)
(* it is a single posting or reversal, or it starts with a lock statement or *)
(* a strict reversal (issue-posting.ts:115-126, shipment-cancel.service.ts:  *)
(* 145-152) whose places are those of all that follows.  It posts before it  *)
(* reverses, and once; what it reverses was posted before the run.           *)
LinesNamed(c) == IF c.op = "reverse" THEN OpeningLedger[c.key] ELSE c.lines
LockedBy(c)   == IF c.op = "lock" THEN c.places ELSE {Place(d) : d \in Ends(LinesNamed(c))}
NamedBy(c)    == LockedBy(c) \cup {Place(d) : d \in Ends(LinesNamed(c)) \cup c.dims}

Covers(p) ==
  /\ p # <<>>
  /\ p[1].op = "lock" \/ (p[1].op = "reverse" /\ p[1].strict)
  /\ \A i \in DOMAIN p : /\ NamedBy(p[i]) \subseteq LockedBy(p[1])
                         /\ p[i].op = "reverse" => OpeningLedger[p[i].key] # <<>>
  /\ \A i, j \in DOMAIN p : i < j /\ p[j].op = "post" => p[i].op \notin {"post", "reverse"}

LocksFirst(p) == (Len(p) = 1 /\ p[1].op \in {"post", "reverse"}) \/ Covers(p)

(* The row a transaction waits for, if it is a row that it waits for. *)
WaitsForRow(t) ==
  CASE step[t] = "locking" /\ toLock[t] # {}  -> FirstOf(t)
    [] step[t] = "lines"                       -> Target(t)
    [] /\ step[t] = "call" /\ call[t] <= Len(prog[t])
       /\ Cur(t).op \in QtyOps                 -> CHOOSE d \in Cur(t).dims : TRUE
    [] OTHER                                   -> NoDim

(* The rows that were there before the run, and are there for good. *)
Old == {d \in Dims : Opening[d].id # 0}

(* Locking the rows in id order before the first move closes the deadlock   *)
(* window between ordered programs that name the same rows in opposite      *)
(* orders (inventory-posting.service.ts:81-84, balance-lock.ts:31-35),      *)
(* whatever the others do, but for rows that were not there yet, which no   *)
(* lock statement sees: where ordered programs wait for one another in a    *)
(* cycle, one of them waits for a row that the run has brought.             *)
DeadlockNeedsNewRow ==
  \A S \in SUBSET Txs :
    /\ S # {} /\ {WaitsFor(t) : t \in S} = S
    /\ \A t \in S : LocksFirst(prog[t])
    => \E t \in S : WaitsForRow(t) \in Dims \ Old
=============================================================================
