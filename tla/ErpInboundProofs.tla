-------------------------- MODULE ErpInboundProofs --------------------------
(***************************************************************************)
(* Proofs about reading a table of the ERP, for every number of runners,   *)
(* keys, versions, units, faults, and every size of a batch.               *)
(*                                                                         *)
(* A run of the table knows nothing but its cursor, its batch, the keys it *)
(* has blocked and the rows it has applied; rows that others flag appear   *)
(* and rows sent meanwhile may fall behind the cursor.  NoGap says what is *)
(* nevertheless true of it: no version of a key is passed over on the way  *)
(* to a later one.  Nothing in it depends on the lease, so the order of    *)
(* the versions is kept even when two runners are at work.  That the MES   *)
(* holds the last version does depend on it (Alone).                       *)
(***************************************************************************)
EXTENDS ErpInbound, FiniteSetTheorems, TLAPS

RunType ==
  [pc : Steps, stopping : BOOLEAN, quarantined : SUBSET Rows, blocked : SUBSET Keys,
   after : Rows \cup {Before}, full : BOOLEAN, units : SUBSET ((SUBSET Rows) \ {{}}), applied : SUBSET Rows]

Typed ==
  /\ grouped \in BOOLEAN
  /\ sent \in [Keys -> Nat] /\ mes \in [Keys -> Nat]
  /\ \A k \in Keys : sent[k] <= Versions[k] /\ mes[k] <= Versions[k]
  /\ acked \subseteq Sent /\ ever \subseteq Rows
  /\ message \in [Rows -> [status : Statuses, retries : 0 .. MAX_ATTEMPTS]]
  /\ lease \in [owner : Runners \cup {NoRunner}, live : BOOLEAN]
  /\ run \in [Runners -> RunType]
  /\ faults \in 0 .. MaxFaults

(* The rows of the batch not yet done with. *)
Batch(r) == UNION run[r].units

(* What the run of r can count on. *)
Done(r) == acked \cup run[r].applied

(* What a run has in memory at each of its steps. *)
Shape(r) ==
  /\ run[r].pc \notin {"units", "record"} => run[r].units = {}
  /\ run[r].pc \in {"idle", "quarantine", "down"} => run[r].after = Before /\ run[r].applied = {}
  /\ run[r].pc \in {"fetch", "go"} => run[r].applied \subseteq acked
  /\ run[r].pc = "record" => run[r].units # {} /\ KeysOf(Unit(r)) \subseteq run[r].blocked
  /\ Batch(r) \subseteq Sent /\ run[r].applied \subseteq Sent \cap ever
  /\ run[r].after # Before => run[r].after \in Sent

(* A key is in one unit; row by row, a unit is a row. *)
Parted(r) ==
  \A u, w \in run[r].units : \A a \in u, b \in w :
    /\ grouped /\ a[1] = b[1] => u = w
    /\ ~grouped /\ u = w => a = b

(* No version of a key is passed over: it is done with, in the batch, or   *)
(* its key is blocked.                                                     *)
Kept(r, row) == row \in Done(r) \cup Batch(r) \/ row[1] \in run[r].blocked

NoGap(r) ==
  /\ \A v \in 1 .. run[r].after[2] : Kept(r, <<run[r].after[1], v>>)
  /\ \A row \in Batch(r) : \A v \in 1 .. row[2] : Kept(r, <<row[1], v>>)
  /\ \A row \in run[r].applied : \A v \in 1 .. row[2] : <<row[1], v>> \in Done(r)

AckedPrefix == \A row \in acked : \A v \in 1 .. row[2] : <<row[1], v>> \in acked

IInv ==
  /\ Typed /\ AckedIsApplied /\ AckedPrefix /\ InOrder
  /\ \A r \in Runners : Shape(r) /\ Parted(r) /\ NoGap(r)

(* Without stalls: one runner at a time is in its tick, so that nobody     *)
(* else flags or applies what it has in hand.                              *)
Active(r) == run[r].pc \notin {"idle", "down"}

Alone ==
  /\ lease.live => lease.owner \in Runners
  /\ \A r \in Runners : Active(r) => lease = [owner |-> r, live |-> TRUE]

Latest ==
  /\ \A k \in Keys : mes[k] <= sent[k]
  /\ \A row \in acked : row[2] <= mes[row[1]]
  /\ \A r \in Runners : \A row \in run[r].applied : row[2] <= mes[row[1]]

Fresh == \A r \in Runners : Batch(r) \cap Done(r) = {}

LInv == IInv /\ Alone /\ Latest /\ Fresh
-----------------------------------------------------------------------------
(* Rows and their order. *)

LEMMA RowShape ==
  ASSUME NEW row \in Rows
  PROVE  /\ row[1] \in Keys /\ row[1] \in Nat /\ row[2] \in Nat /\ row[2] \in 1 .. Versions[row[1]]
         /\ row = <<row[1], row[2]>> /\ Versions[row[1]] \in Nat
<1>1. PICK k \in Keys : row \in {k} \X (1 .. Versions[k])
  BY DEF Rows
<1> QED
  BY <1>1, ErpInboundAssumption

LEMMA RowIn ==
  ASSUME NEW k \in Keys, NEW v \in 1 .. Versions[k]
  PROVE  <<k, v>> \in Rows
<1>1. <<k, v>> \in {k} \X (1 .. Versions[k])
  OBVIOUS
<1> QED
  BY <1>1 DEF Rows

LEMMA EarlierOrder ==
  ASSUME NEW a \in Rows, NEW b \in Rows
  PROVE  /\ ~ Earlier(a, a)
         /\ a # b => Earlier(a, b) \/ Earlier(b, a)
         /\ \A c \in Rows : Earlier(a, b) /\ Earlier(b, c) => Earlier(a, c)
         /\ ~ (Earlier(a, b) /\ Earlier(b, a))
<1>1. \A x \in Rows : x[1] \in Nat /\ x[2] \in Nat /\ x = <<x[1], x[2]>>
  BY RowShape
<1> QED
  BY <1>1 DEF Earlier

LEMMA RowsFinite == IsFiniteSet(Rows)
<1> DEFINE T == {{k} \X (1 .. Versions[k]) : k \in Keys}
           f == [k \in Keys |-> {k} \X (1 .. Versions[k])]
<1>1. f \in Surjection(Keys, T)
  BY DEF Surjection
<1>2. IsFiniteSet(T)
  BY <1>1, FS_Surjection, ErpInboundAssumption
<1>3. ASSUME NEW k \in Keys PROVE IsFiniteSet({k} \X (1 .. Versions[k]))
  <2>1. Versions[k] \in Int /\ 1 \in Int
    BY ErpInboundAssumption
  <2>2. IsFiniteSet(1 .. Versions[k])
    BY <2>1, FS_Interval
  <2>3. IsFiniteSet({k})
    BY FS_Singleton
  <2> QED
    BY <2>2, <2>3, FS_Product
<1>4. IsFiniteSet(UNION T)
  BY <1>2, <1>3, FS_UNION
<1> QED
  BY <1>4 DEF Rows

(* A set of rows that has no first or no last one: the smallest such set   *)
(* would lose it with one of its rows.                                     *)
Endless(T) ==
  \/ \A x \in T : \E y \in T : Earlier(y, x)
  \/ \A x \in T : \E y \in T : Earlier(x, y)

LEMMA FirstAndLast ==
  ASSUME NEW T \in SUBSET Rows, T # {}
  PROVE  /\ \E x \in T : \A y \in T : ~ Earlier(y, x)
         /\ \E x \in T : \A y \in T : ~ Earlier(x, y)
<1> DEFINE Bad == {U \in SUBSET Rows : U # {} /\ Endless(U)}
<1>1. Bad = {}
  <2> SUFFICES ASSUME Bad # {} PROVE FALSE
    OBVIOUS
  <2>1. IsWellFoundedOn(StrictSubsetOrdering(Rows), SUBSET Rows)
    BY RowsFinite, FS_StrictSubsetOrderingWellFounded, FS_FiniteSubsetsOfFinite
  <2>2. PICK U \in Bad : \A W \in Bad : ~ (<<W, U>> \in StrictSubsetOrdering(Rows))
    <3>1. Bad \subseteq SUBSET Rows
      OBVIOUS
    <3> HIDE DEF Bad
    <3> QED
      BY <2>1, <3>1, WFMin
  <2>3. PICK x \in U : TRUE
    OBVIOUS
  <2> DEFINE W == U \ {x}
  <2>4. W \in SUBSET Rows /\ U \in SUBSET Rows /\ x \in Rows
    OBVIOUS
  <2>5. <<W, U>> \in StrictSubsetOrdering(Rows)
    BY <2>3, <2>4 DEF StrictSubsetOrdering
  <2>6. W \notin Bad
    BY <2>2, <2>5
  <2>7. CASE W = {}
    <3>1. U = {x}
      BY <2>3, <2>7
    <3> QED
      BY <2>4, <3>1, EarlierOrder DEF Endless
  <2>8. CASE W # {}
    <3>1. PICK a \in W : \A y \in W : ~ Earlier(y, a)
      BY <2>4, <2>6, <2>8 DEF Endless
    <3>2. PICK b \in W : \A y \in W : ~ Earlier(b, y)
      BY <2>4, <2>6, <2>8 DEF Endless
    <3>3. a \in Rows /\ b \in Rows /\ a \in U /\ b \in U
      BY <2>4
    <3>4. \A y \in U : y = x \/ y \in W
      OBVIOUS
    <3>5. \E z \in U : \A y \in U : ~ Earlier(y, z)
      <4>1. CASE Earlier(x, a)
        <5>1. \A y \in W : ~ Earlier(y, x)
          BY <2>4, <3>1, <3>3, <4>1, EarlierOrder
        <5> QED
          BY <2>3, <2>4, <3>4, <5>1, EarlierOrder
      <4>2. CASE ~ Earlier(x, a)
        BY <3>1, <3>3, <3>4, <4>2
      <4> QED
        BY <4>1, <4>2
    <3>6. \E z \in U : \A y \in U : ~ Earlier(z, y)
      <4>1. CASE Earlier(b, x)
        <5>1. \A y \in W : ~ Earlier(x, y)
          BY <2>4, <3>2, <3>3, <4>1, EarlierOrder
        <5> QED
          BY <2>3, <2>4, <3>4, <5>1, EarlierOrder
      <4>2. CASE ~ Earlier(b, x)
        BY <3>2, <3>3, <3>4, <4>2
      <4> QED
        BY <4>1, <4>2
    <3> QED
      BY <2>2, <3>5, <3>6 DEF Endless
  <2> QED
    BY <2>7, <2>8
<1> QED
  BY <1>1 DEF Endless

(* The unit that is next in a batch holds the first row of the batch. *)
LEMMA FirstUnit ==
  ASSUME NEW units \in SUBSET SUBSET Rows, UNION units # {}
  PROVE  /\ First(units) \in units
         /\ \E row \in First(units) : \A other \in UNION units : ~ Earlier(other, row)
<1>1. PICK x \in UNION units : \A y \in UNION units : ~ Earlier(y, x)
  BY FirstAndLast
<1>2. \E unit \in units : \E row \in unit : \A other \in UNION units : ~ Earlier(other, row)
  BY <1>1
<1> QED
  BY <1>2 DEF First

LEMMA LastOfUnits ==
  ASSUME NEW units \in SUBSET SUBSET Rows, UNION units # {}
  PROVE  /\ LastRow(units) \in UNION units
         /\ \A other \in UNION units : ~ Earlier(LastRow(units), other)
<1>1. \E x \in UNION units : \A y \in UNION units : ~ Earlier(x, y)
  BY FirstAndLast
<1> QED
  BY <1>1 DEF LastRow

(* A batch leaves out no pending row in front of one it takes. *)
LEMMA BatchIsPrefix ==
  ASSUME NEW after, NEW row \in fetchPending(after), NEW other \in Sent \ acked,
         Earlier(after, other), Earlier(other, row)
  PROVE  other \in fetchPending(after)
<1> DEFINE pending == {x \in Sent \ acked : Earlier(after, x)}
           Front(x) == {y \in pending : Earlier(y, x)}
<1>1. pending \subseteq Rows /\ row \in pending /\ other \in pending
  BY DEF fetchPending, Sent
<1>2. Front(other) \subseteq Front(row)
  BY <1>1, EarlierOrder
<1>3. IsFiniteSet(Front(row))
  BY <1>1, RowsFinite, FS_Subset
<1>4. /\ Cardinality(Front(other)) <= Cardinality(Front(row))
      /\ IsFiniteSet(Front(other))
  BY <1>2, <1>3, FS_Subset
<1>5. Cardinality(Front(other)) \in Nat /\ Cardinality(Front(row)) \in Nat
  BY <1>3, <1>4, FS_CardinalityType
<1>6. Cardinality(Front(row)) < BATCH_SIZE
  BY DEF fetchPending
<1>7. Cardinality(Front(other)) < BATCH_SIZE
  BY <1>4, <1>5, <1>6, ErpInboundAssumption
<1> QED
  BY <1>1, <1>7 DEF fetchPending
-----------------------------------------------------------------------------
(* Steps of a runner leave what the others have in memory as true as it    *)
(* was: flags and applied rows only grow.                                  *)

LEMMA TypedIsTypeOK == Typed => TypeOK
<1> SUFFICES ASSUME Typed PROVE TypeOK
  OBVIOUS
<1>1. \A k \in Keys : sent[k] \in 0 .. Versions[k] /\ mes[k] \in 0 .. Versions[k]
  BY ErpInboundAssumption DEF Typed
<1>2. ASSUME NEW r \in Runners
      PROVE  /\ run[r].pc \in Steps /\ run[r].stopping \in BOOLEAN /\ run[r].full \in BOOLEAN
             /\ run[r].quarantined \subseteq Rows /\ run[r].applied \subseteq Rows
             /\ run[r].blocked \subseteq Keys
             /\ run[r].after \in Rows \cup {Before}
             /\ run[r].units \subseteq (SUBSET Rows) \ {{}}
  <2>1. run[r] \in RunType
    BY DEF Typed
  <2> HIDE DEF Steps, Rows, Before
  <2> QED
    BY <2>1 DEF RunType
<1>3. DOMAIN sent = Keys /\ DOMAIN mes = Keys
  BY DEF Typed
<1> QED
  BY <1>1, <1>2, <1>3 DEF Typed, TypeOK

LEMMA RunShape ==
  ASSUME Typed, NEW r \in Runners
  PROVE  /\ run[r] \in RunType
         /\ run[r].pc \in Steps /\ run[r].stopping \in BOOLEAN /\ run[r].full \in BOOLEAN
         /\ run[r].quarantined \subseteq Rows /\ run[r].applied \subseteq Rows
         /\ run[r].blocked \subseteq Keys
         /\ run[r].after \in Rows \cup {Before}
         /\ run[r].units \in SUBSET SUBSET Rows /\ {} \notin run[r].units
         /\ Batch(r) \subseteq Rows
<1>1. run[r] \in RunType
  BY DEF Typed
<1>2. /\ run[r].pc \in Steps /\ run[r].stopping \in BOOLEAN /\ run[r].full \in BOOLEAN
      /\ run[r].quarantined \subseteq Rows /\ run[r].applied \subseteq Rows
      /\ run[r].blocked \subseteq Keys
      /\ run[r].after \in Rows \cup {Before}
      /\ run[r].units \subseteq (SUBSET Rows) \ {{}}
  BY <1>1 DEF RunType
<1> QED
  BY <1>1, <1>2 DEF Batch

LEMMA Undisturbed ==
  ASSUME IInv, NEW q \in Runners, run'[q] = run[q], grouped' = grouped,
         acked \subseteq acked', ever \subseteq ever', Sent \subseteq Sent'
  PROVE  (Shape(q) /\ Parted(q) /\ NoGap(q))'
<1>1. Shape(q) /\ Parted(q) /\ NoGap(q)
  BY DEF IInv
<1>2. Shape(q)'
  BY <1>1 DEF Shape, Batch, Unit
<1>3. Parted(q)'
  BY <1>1 DEF Parted
<1>4. Batch(q)' = Batch(q) /\ Done(q) \subseteq Done(q)'
  BY DEF Batch, Done
<1>5. \A row : Kept(q, row) => Kept(q, row)'
  BY <1>4 DEF Kept
<1>6. NoGap(q)'
  BY <1>1, <1>4, <1>5 DEF NoGap
<1> QED
  BY <1>2, <1>3, <1>6

LEMMA RunnerStep ==
  ASSUME IInv, NEW r \in Runners, \A q \in Runners \ {r} : run'[q] = run[q],
         grouped' = grouped, acked \subseteq acked', ever \subseteq ever', Sent \subseteq Sent',
         Typed', AckedIsApplied', AckedPrefix', InOrder',
         (Shape(r) /\ Parted(r) /\ NoGap(r))'
  PROVE  IInv'
<1>1. ASSUME NEW q \in Runners PROVE (Shape(q) /\ Parted(q) /\ NoGap(q))'
  <2>1. CASE q = r
    BY <2>1
  <2>2. CASE q # r
    BY <2>2, Undisturbed
  <2> QED
    BY <2>1, <2>2
<1> QED
  BY <1>1 DEF IInv

LEMMA LocalStep ==
  ASSUME IInv, NEW r \in Runners, NEW x \in RunType, run' = [run EXCEPT ![r] = x],
         UNCHANGED data, faults' \in 0 .. MaxFaults,
         lease' \in [owner : Runners \cup {NoRunner}, live : BOOLEAN],
         (Shape(r) /\ Parted(r) /\ NoGap(r))'
  PROVE  IInv'
<1>1. Typed
  BY DEF IInv
<1>2. run' \in [Runners -> RunType] /\ \A q \in Runners \ {r} : run'[q] = run[q]
  BY <1>1 DEF Typed
<1>3. Sent' = Sent
  BY DEF Sent, data
<1>4. Typed'
  BY <1>1, <1>2, <1>3 DEF Typed, data
<1>5. AckedIsApplied' /\ AckedPrefix' /\ InOrder'
  BY DEF IInv, AckedIsApplied, AckedPrefix, InOrder, data
<1> QED
  BY <1>2, <1>3, <1>4, <1>5, RunnerStep DEF data

(* A runner that begins a run, or has ended one. *)
LEMMA EmptyRun ==
  ASSUME NEW r \in Runners, run'[r].units = {}, run'[r].applied = {}, run'[r].after = Before,
         run'[r].pc \in {"idle", "down", "quarantine"}
  PROVE  (Shape(r) /\ Parted(r) /\ NoGap(r))'
<1>1. Batch(r)' = {}
  BY DEF Batch
<1>2. Shape(r)'
  BY <1>1 DEF Shape
<1>3. Parted(r)'
  BY DEF Parted
<1>4. NoGap(r)'
  BY <1>1 DEF NoGap, Before
<1> QED
  BY <1>2, <1>3, <1>4

LEMMA NoRunType ==
  ASSUME NEW b \in BOOLEAN
  PROVE  [NoRun EXCEPT !.stopping = b] \in RunType /\ [NoRun EXCEPT !.pc = "down"] \in RunType
BY DEF NoRun, RunType, Steps

LEMMA EndTicked ==
  ASSUME IInv, NEW r \in Runners, EndTick(r)
  PROVE  /\ [NoRun EXCEPT !.stopping = run[r].stopping] \in RunType
         /\ (Shape(r) /\ Parted(r) /\ NoGap(r))'
<1>1. Typed
  BY DEF IInv
<1>2. run[r].stopping \in BOOLEAN
  BY <1>1, RunShape
<1>3. run'[r] = [NoRun EXCEPT !.stopping = run[r].stopping]
  BY <1>1 DEF EndTick, Typed
<1>4. /\ run'[r].units = {} /\ run'[r].applied = {} /\ run'[r].after = Before
      /\ run'[r].pc = "idle"
  BY <1>3 DEF NoRun
<1> QED
  BY <1>2, <1>4, NoRunType, EmptyRun
-----------------------------------------------------------------------------
(* The steps of a run, one lemma per action. *)

LEMMA InitIInv == Init => IInv
<1> SUFFICES ASSUME Init PROVE IInv
  OBVIOUS
<1>1. NoRun \in RunType
  BY DEF NoRun, RunType, Steps
<1>2. Typed
  <2>1. sent \in [Keys -> Nat] /\ mes \in [Keys -> Nat]
    BY DEF Init
  <2>2. \A k \in Keys : sent[k] <= Versions[k] /\ mes[k] <= Versions[k]
    BY ErpInboundAssumption DEF Init
  <2>3. message \in [Rows -> [status : Statuses, retries : 0 .. MAX_ATTEMPTS]]
    <3>1. [status |-> "NONE", retries |-> 0] \in [status : Statuses, retries : 0 .. MAX_ATTEMPTS]
      BY ErpInboundAssumption DEF Statuses
    <3> QED
      BY <3>1 DEF Init
  <2>4. run \in [Runners -> RunType]
    BY <1>1 DEF Init
  <2> QED
    BY <2>1, <2>2, <2>3, <2>4, ErpInboundAssumption DEF Init, Typed
<1>3. AckedIsApplied /\ AckedPrefix /\ InOrder
  BY DEF Init, AckedIsApplied, AckedPrefix, InOrder
<1>4. ASSUME NEW r \in Runners PROVE Shape(r) /\ Parted(r) /\ NoGap(r)
  <2>1. run[r] = NoRun
    BY DEF Init
  <2>2. run[r].units = {} /\ run[r].applied = {} /\ run[r].after = Before /\ run[r].pc = "idle"
    BY <2>1 DEF NoRun
  <2>3. Batch(r) = {}
    BY <2>2 DEF Batch
  <2> QED
    BY <2>2, <2>3 DEF Shape, Parted, NoGap, Before
<1> QED
  BY <1>2, <1>3, <1>4 DEF IInv

LEMMA InvAcquire == ASSUME IInv, NEW r \in Runners, acquire(r) PROVE IInv'
<1>1. Typed /\ Shape(r)
  BY DEF IInv
<1>2. run[r] \in RunType
  BY <1>1, RunShape
<1> DEFINE x == [run[r] EXCEPT !.pc = "quarantine"]
<1>3. x \in RunType
  BY <1>2 DEF RunType, Steps
<1>4. run' = [run EXCEPT ![r] = x]
  BY <1>1 DEF acquire, Goto, Typed
<1>5. run'[r] = x
  BY <1>1, <1>4 DEF Typed
<1>6. /\ run[r].units = {} /\ run[r].applied = {} /\ run[r].after = Before
  BY <1>1 DEF Shape, acquire, At
<1>7. /\ run'[r].units = {} /\ run'[r].applied = {} /\ run'[r].after = Before
      /\ run'[r].pc = "quarantine"
  BY <1>2, <1>5, <1>6 DEF RunType
<1>8. lease' \in [owner : Runners \cup {NoRunner}, live : BOOLEAN] /\ faults' \in 0 .. MaxFaults
  BY <1>1 DEF acquire, Extend, Typed
<1> HIDE DEF x
<1> QED
  BY <1>3, <1>4, <1>7, <1>8, EmptyRun, LocalStep DEF acquire

(* Nothing has been read yet. *)
LEMMA InvQuarantined == ASSUME IInv, NEW r \in Runners, quarantined(r) PROVE IInv'
<1>1. Typed /\ Shape(r)
  BY DEF IInv
<1>2. run[r] \in RunType
  BY <1>1, RunShape
<1> DEFINE rows == {row \in Rows : IsQuarantined(row)}
           x == [run[r] EXCEPT !.pc = "fetch", !.quarantined = rows, !.blocked = KeysOf(rows)]
<1>3. x \in RunType
  <2>1. rows \in SUBSET Rows
    OBVIOUS
  <2>2. KeysOf(rows) \in SUBSET Keys
    BY RowShape DEF KeysOf
  <2> HIDE DEF rows
  <2> QED
    BY <1>2, <2>1, <2>2 DEF RunType, Steps
<1>4. run' = [run EXCEPT ![r] = x]
  BY <1>1 DEF quarantined, Typed
<1>5. run'[r] = x
  BY <1>1, <1>4 DEF Typed
<1>6. /\ run[r].units = {} /\ run[r].applied = {} /\ run[r].after = Before
  BY <1>1 DEF Shape, quarantined, At
<1>7. /\ run'[r].units = {} /\ run'[r].applied = {} /\ run'[r].after = Before
      /\ run'[r].pc = "fetch"
  BY <1>2, <1>5, <1>6 DEF RunType
<1>8. lease' \in [owner : Runners \cup {NoRunner}, live : BOOLEAN] /\ faults' \in 0 .. MaxFaults
  BY <1>1 DEF quarantined, Typed
<1>9. (Shape(r) /\ Parted(r) /\ NoGap(r))'
  <2>1. Batch(r)' = {}
    BY <1>7 DEF Batch
  <2>2. Shape(r)' /\ Parted(r)'
    BY <1>7, <2>1 DEF Shape, Parted
  <2>3. NoGap(r)'
    BY <1>7, <2>1 DEF NoGap, Before
  <2> QED
    BY <2>2, <2>3
<1> HIDE DEF x
<1> QED
  BY <1>3, <1>4, <1>8, <1>9, LocalStep DEF quarantined

LEMMA InvUnitsOver == ASSUME IInv, NEW r \in Runners, unitsOver(r) PROVE IInv'
<1>1. Typed /\ Shape(r) /\ Parted(r) /\ NoGap(r)
  BY DEF IInv
<1>2. run[r] \in RunType
  BY <1>1, RunShape
<1> DEFINE x == [run[r] EXCEPT !.pc = "ack"]
<1>3. x \in RunType
  BY <1>2 DEF RunType, Steps
<1>4. run' = [run EXCEPT ![r] = x]
  BY <1>1 DEF unitsOver, Goto, Typed
<1>5. run'[r] = x
  BY <1>1, <1>4 DEF Typed
<1>6. /\ run'[r].units = run[r].units /\ run'[r].applied = run[r].applied
      /\ run'[r].after = run[r].after /\ run'[r].blocked = run[r].blocked /\ run'[r].pc = "ack"
  BY <1>2, <1>5 DEF RunType
<1>7. run[r].units = {} /\ grouped' = grouped /\ acked' = acked /\ ever' = ever /\ Sent' = Sent
  BY DEF unitsOver, data, Sent
<1>8. (Shape(r) /\ Parted(r) /\ NoGap(r))'
  <2>1. Batch(r)' = Batch(r) /\ Done(r)' = Done(r)
    BY <1>6, <1>7 DEF Batch, Done
  <2>2. Shape(r)'
    BY <1>1, <1>6, <1>7, <2>1 DEF Shape
  <2>3. Parted(r)'
    BY <1>6, <1>7 DEF Parted
  <2>4. NoGap(r)'
    BY <1>1, <1>6, <1>7, <2>1 DEF NoGap, Kept
  <2> QED
    BY <2>2, <2>3, <2>4
<1>9. lease' \in [owner : Runners \cup {NoRunner}, live : BOOLEAN] /\ faults' \in 0 .. MaxFaults
  BY <1>1 DEF unitsOver, Typed
<1> HIDE DEF x
<1> QED
  BY <1>3, <1>4, <1>8, <1>9, LocalStep DEF unitsOver

LEMMA InvEndTick ==
  ASSUME IInv, NEW r \in Runners, EndTick(r), UNCHANGED data, faults' \in 0 .. MaxFaults,
         lease' \in [owner : Runners \cup {NoRunner}, live : BOOLEAN]
  PROVE  IInv'
BY EndTicked, LocalStep DEF EndTick

(* The next batch: what the last one applied is flagged. *)
LEMMA InvKeepGoing == ASSUME IInv, NEW r \in Runners, keepGoing(r) PROVE IInv'
<1>1. Typed /\ Shape(r) /\ Parted(r) /\ NoGap(r)
  BY DEF IInv
<1>2. run[r] \in RunType
  BY <1>1, RunShape
<1>3. lease' \in [owner : Runners \cup {NoRunner}, live : BOOLEAN] /\ faults' \in 0 .. MaxFaults
  BY <1>1 DEF keepGoing, Extend, Typed
<1>4. CASE EndTick(r)
  BY <1>3, <1>4, InvEndTick DEF keepGoing
<1>5. CASE Goto(r, "fetch")
  <2> DEFINE x == [run[r] EXCEPT !.pc = "fetch"]
  <2>1. x \in RunType
    BY <1>2 DEF RunType, Steps
  <2>2. run' = [run EXCEPT ![r] = x]
    BY <1>1, <1>5 DEF Goto, Typed
  <2>3. run'[r] = x
    BY <1>1, <2>2 DEF Typed
  <2>4. /\ run'[r].units = run[r].units /\ run'[r].applied = run[r].applied
        /\ run'[r].after = run[r].after /\ run'[r].blocked = run[r].blocked /\ run'[r].pc = "fetch"
    BY <1>2, <2>3 DEF RunType
  <2>5. /\ grouped' = grouped /\ acked' = acked /\ ever' = ever /\ Sent' = Sent
        /\ run[r].pc = "go"
    BY DEF keepGoing, data, Sent, At
  <2>6. Batch(r)' = Batch(r) /\ Done(r)' = Done(r)
    BY <2>4, <2>5 DEF Batch, Done
  <2>7. Shape(r)'
    BY <1>1, <2>4, <2>5, <2>6 DEF Shape
  <2>8. Parted(r)'
    BY <1>1, <2>4, <2>5 DEF Parted
  <2>9. NoGap(r)'
    BY <1>1, <2>4, <2>5, <2>6 DEF NoGap, Kept
  <2> HIDE DEF x
  <2> QED
    BY <1>3, <2>1, <2>2, <2>7, <2>8, <2>9, LocalStep DEF keepGoing
<1> QED
  BY <1>4, <1>5 DEF keepGoing

LEMMA InvKeepGoingThrows == ASSUME IInv, NEW r \in Runners, keepGoingThrows(r) PROVE IInv'
<1>1. Typed
  BY DEF IInv
<1>2. lease' \in [owner : Runners \cup {NoRunner}, live : BOOLEAN] /\ faults' \in 0 .. MaxFaults
  BY <1>1 DEF keepGoingThrows, Typed
<1> QED
  BY <1>2, InvEndTick DEF keepGoingThrows

LEMMA InvLeave == ASSUME IInv, NEW r \in Runners, leave(r) PROVE IInv'
<1>1. Typed /\ Shape(r)
  BY DEF IInv
<1>2. run[r] \in RunType
  BY <1>1, RunShape
<1> DEFINE x == [run[r] EXCEPT !.pc = "down"]
<1>3. x \in RunType
  BY <1>2 DEF RunType, Steps
<1>4. run' = [run EXCEPT ![r] = x]
  BY <1>1 DEF leave, Goto, Typed
<1>5. run'[r] = x
  BY <1>1, <1>4 DEF Typed
<1>6. /\ run[r].units = {} /\ run[r].applied = {} /\ run[r].after = Before
  BY <1>1 DEF Shape, leave, At
<1>7. /\ run'[r].units = {} /\ run'[r].applied = {} /\ run'[r].after = Before
      /\ run'[r].pc = "down"
  BY <1>2, <1>5, <1>6 DEF RunType
<1>8. lease' \in [owner : Runners \cup {NoRunner}, live : BOOLEAN] /\ faults' \in 0 .. MaxFaults
  BY <1>1 DEF leave, Typed
<1> HIDE DEF x
<1> QED
  BY <1>3, <1>4, <1>7, <1>8, EmptyRun, LocalStep DEF leave

LEMMA InvCrash == ASSUME IInv, NEW r \in Runners, crash(r) PROVE IInv'
<1>1. Typed
  BY DEF IInv
<1> DEFINE x == [NoRun EXCEPT !.pc = "down"]
<1>2. x \in RunType /\ run' = [run EXCEPT ![r] = x]
  BY NoRunType DEF crash
<1>3. run'[r] = x
  BY <1>1, <1>2 DEF Typed
<1>4. /\ run'[r].units = {} /\ run'[r].applied = {} /\ run'[r].after = Before
      /\ run'[r].pc = "down"
  BY <1>3 DEF NoRun
<1>5. lease' \in [owner : Runners \cup {NoRunner}, live : BOOLEAN] /\ faults' \in 0 .. MaxFaults
  BY <1>1, ErpInboundAssumption DEF crash, Typed, Fault
<1> HIDE DEF x
<1> QED
  BY <1>2, <1>4, <1>5, EmptyRun, LocalStep DEF crash

LEMMA InvStop == ASSUME IInv, NEW r \in Runners, stop(r) PROVE IInv'
<1>1. Typed /\ Shape(r) /\ Parted(r) /\ NoGap(r)
  BY DEF IInv
<1>2. run[r] \in RunType
  BY <1>1, RunShape
<1> DEFINE x == [run[r] EXCEPT !.stopping = TRUE]
<1>3. x \in RunType
  BY <1>2 DEF RunType
<1>4. run' = [run EXCEPT ![r] = x]
  BY <1>1 DEF stop, Typed
<1>5. run'[r] = x
  BY <1>1, <1>4 DEF Typed
<1>6. /\ run'[r].units = run[r].units /\ run'[r].applied = run[r].applied
      /\ run'[r].after = run[r].after /\ run'[r].blocked = run[r].blocked /\ run'[r].pc = run[r].pc
  BY <1>2, <1>5 DEF RunType
<1>7. grouped' = grouped /\ acked' = acked /\ ever' = ever /\ Sent' = Sent
  BY DEF stop, data, Sent
<1>8. (Shape(r) /\ Parted(r) /\ NoGap(r))'
  <2>1. Batch(r)' = Batch(r) /\ Done(r)' = Done(r) /\ Unit(r)' = Unit(r)
    BY <1>6, <1>7 DEF Batch, Done, Unit
  <2>2. Shape(r)'
    BY <1>1, <1>6, <1>7, <2>1 DEF Shape
  <2>3. Parted(r)'
    BY <1>1, <1>6, <1>7 DEF Parted
  <2>4. NoGap(r)'
    BY <1>1, <1>6, <1>7, <2>1 DEF NoGap, Kept
  <2> QED
    BY <2>2, <2>3, <2>4
<1>9. lease' \in [owner : Runners \cup {NoRunner}, live : BOOLEAN] /\ faults' \in 0 .. MaxFaults
  BY <1>1, ErpInboundAssumption DEF stop, Typed, Fault
<1> HIDE DEF x
<1> QED
  BY <1>3, <1>4, <1>8, <1>9, LocalStep DEF stop
-----------------------------------------------------------------------------
(* The units of a batch. *)

LEMMA NextUnit ==
  ASSUME Typed, NEW r \in Runners, run[r].units # {}
  PROVE  /\ Unit(r) \in run[r].units /\ Unit(r) \subseteq Rows /\ Unit(r) \subseteq Batch(r)
         /\ \E row \in Unit(r) : \A other \in Batch(r) : ~ Earlier(other, row)
         /\ KeysOf(Unit(r)) \subseteq Keys
<1>1. run[r].units \in SUBSET SUBSET Rows /\ {} \notin run[r].units
  BY RunShape
<1>2. UNION run[r].units # {}
  BY <1>1
<1>3. /\ Unit(r) \in run[r].units
      /\ \E row \in Unit(r) : \A other \in UNION run[r].units : ~ Earlier(other, row)
  BY <1>1, <1>2, FirstUnit DEF Unit
<1>4. Unit(r) \subseteq Rows /\ Unit(r) \subseteq Batch(r)
  BY <1>1, <1>3 DEF Batch
<1>5. KeysOf(Unit(r)) \subseteq Keys
  BY <1>4, RowShape DEF KeysOf
<1> QED
  BY <1>3, <1>4, <1>5 DEF Batch

(* A unit that is not applied leaves the batch with its keys blocked. *)
LEMMA PutOff ==
  ASSUME IInv, NEW r \in Runners, run[r].units # {},
         run'[r].units = run[r].units \ {Unit(r)}, run'[r].applied = run[r].applied,
         run'[r].after = run[r].after, run'[r].pc = "units",
         run[r].blocked \cup KeysOf(Unit(r)) \subseteq run'[r].blocked,
         grouped' = grouped, acked' = acked, ever' = ever, sent' = sent
  PROVE  (Shape(r) /\ Parted(r) /\ NoGap(r))'
<1>1. Typed /\ Shape(r) /\ Parted(r) /\ NoGap(r)
  BY DEF IInv
<1>2. Unit(r) \in run[r].units
  BY <1>1, NextUnit
<1>3. Done(r)' = Done(r) /\ Sent' = Sent
  BY DEF Done, Sent
<1>4. Batch(r)' \subseteq Batch(r) /\ Batch(r) \subseteq Batch(r)' \cup Unit(r)
  BY DEF Batch
<1>5. ASSUME NEW row, Kept(r, row) PROVE Kept(r, row)'
  <2>1. CASE row \in Unit(r)
    <3>1. row[1] \in KeysOf(Unit(r))
      BY <2>1 DEF KeysOf
    <3> QED
      BY <3>1 DEF Kept
  <2>2. CASE row \notin Unit(r)
    BY <1>3, <1>4, <1>5, <2>2 DEF Kept
  <2> QED
    BY <2>1, <2>2
<1>6. Shape(r)'
  BY <1>1, <1>3, <1>4 DEF Shape
<1>7. Parted(r)'
  BY <1>1 DEF Parted
<1>8. NoGap(r)'
  <2>1. \A row : Kept(r, row) => Kept(r, row)'
    BY <1>5
  <2> QED
    BY <1>1, <1>3, <1>4, <2>1 DEF NoGap
<1> QED
  BY <1>6, <1>7, <1>8

LEMMA InvHold == ASSUME IInv, NEW r \in Runners, hold(r) PROVE IInv'
<1>1. Typed
  BY DEF IInv
<1>2. run[r] \in RunType /\ run[r].units # {} /\ run[r].pc = "units"
  BY <1>1, RunShape DEF hold, Units, At
<1>3. KeysOf(Unit(r)) \subseteq Keys
  BY <1>1, <1>2, NextUnit
<1> DEFINE b == run[r].blocked \cup KeysOf(Unit(r))
           s == run[r].units \ {Unit(r)}
           x == [run[r] EXCEPT !.blocked = b, !.units = s]
<1>4. b \in SUBSET Keys
  BY <1>1, <1>3, RunShape
<1>5. s \in SUBSET ((SUBSET Rows) \ {{}})
  BY <1>2 DEF RunType
<1>6. run' = [run EXCEPT ![r] = x]
  BY <1>1 DEF hold, Block, Typed
<1> HIDE DEF b, s
<1>7. x \in RunType
  BY <1>2, <1>4, <1>5 DEF RunType
<1>8. run'[r] = x
  BY <1>1, <1>6 DEF Typed
<1>9. /\ run'[r].units = s /\ run'[r].applied = run[r].applied
      /\ run'[r].after = run[r].after /\ run'[r].blocked = b /\ run'[r].pc = "units"
  BY <1>2, <1>8 DEF RunType
<1>10. (Shape(r) /\ Parted(r) /\ NoGap(r))'
  BY <1>2, <1>9, PutOff DEF hold, data, b, s
<1>11. lease' \in [owner : Runners \cup {NoRunner}, live : BOOLEAN] /\ faults' \in 0 .. MaxFaults
  BY <1>1 DEF hold, Typed
<1> HIDE DEF x
<1> QED
  BY <1>6, <1>7, <1>10, <1>11, LocalStep DEF hold

LEMMA InvApplyFails == ASSUME IInv, NEW r \in Runners, applyFails(r) PROVE IInv'
<1>1. Typed /\ Shape(r) /\ Parted(r) /\ NoGap(r)
  BY DEF IInv
<1>2. run[r] \in RunType /\ run[r].units # {} /\ run[r].pc = "units"
  BY <1>1, RunShape DEF applyFails, Units, At
<1>3. KeysOf(Unit(r)) \subseteq Keys
  BY <1>1, <1>2, NextUnit
<1> DEFINE b == run[r].blocked \cup KeysOf(Unit(r))
           x == [run[r] EXCEPT !.pc = "record", !.blocked = b]
<1>4. b \in SUBSET Keys
  BY <1>1, <1>3, RunShape
<1>5. run' = [run EXCEPT ![r] = x]
  BY <1>1 DEF applyFails, Block, Typed
<1> HIDE DEF b
<1>6. x \in RunType
  BY <1>2, <1>4 DEF RunType, Steps
<1>7. run'[r] = x
  BY <1>1, <1>5 DEF Typed
<1>8. /\ run'[r].units = run[r].units /\ run'[r].applied = run[r].applied
      /\ run'[r].after = run[r].after /\ run'[r].blocked = b /\ run'[r].pc = "record"
  BY <1>2, <1>7 DEF RunType
<1>9. /\ grouped' = grouped /\ acked' = acked /\ ever' = ever /\ Sent' = Sent
      /\ Batch(r)' = Batch(r) /\ Done(r)' = Done(r) /\ Unit(r)' = Unit(r)
  BY <1>8 DEF applyFails, data, Sent, Batch, Done, Unit
<1>10. Shape(r)'
  BY <1>1, <1>2, <1>8, <1>9 DEF Shape, b
<1>11. Parted(r)'
  BY <1>1, <1>8, <1>9 DEF Parted
<1>12. NoGap(r)'
  BY <1>1, <1>8, <1>9 DEF NoGap, Kept, b
<1>13. lease' \in [owner : Runners \cup {NoRunner}, live : BOOLEAN] /\ faults' \in 0 .. MaxFaults
  BY <1>1, ErpInboundAssumption DEF applyFails, Typed, Fault
<1> HIDE DEF x
<1> QED
  BY <1>5, <1>6, <1>10, <1>11, <1>12, <1>13, LocalStep DEF applyFails

LEMMA InvRecordFailure == ASSUME IInv, NEW r \in Runners, recordFailure(r) PROVE IInv'
<1>1. Typed /\ Shape(r)
  BY DEF IInv
<1>2. /\ run[r] \in RunType /\ run[r].units # {}
      /\ KeysOf(Unit(r)) \subseteq run[r].blocked
  BY <1>1, RunShape DEF recordFailure, At, Shape
<1> DEFINE s == run[r].units \ {Unit(r)}
           x == [run[r] EXCEPT !.pc = "units", !.units = s]
<1>3. s \in SUBSET ((SUBSET Rows) \ {{}})
  BY <1>2 DEF RunType
<1>4. run' = [run EXCEPT ![r] = x]
  BY <1>1 DEF recordFailure, Typed
<1> HIDE DEF s
<1>5. x \in RunType
  BY <1>2, <1>3 DEF RunType, Steps
<1>6. run' \in [Runners -> RunType] /\ run'[r] = x /\ \A q \in Runners \ {r} : run'[q] = run[q]
  BY <1>1, <1>4, <1>5 DEF Typed
<1>7. /\ run'[r].units = s /\ run'[r].applied = run[r].applied
      /\ run'[r].after = run[r].after /\ run'[r].blocked = run[r].blocked /\ run'[r].pc = "units"
  BY <1>2, <1>6 DEF RunType
<1>8. /\ UNCHANGED <<grouped, sent, acked, mes, ever, lease, faults>> /\ Sent' = Sent
  BY DEF recordFailure, Sent
<1>9. (Shape(r) /\ Parted(r) /\ NoGap(r))'
  BY <1>2, <1>7, <1>8, PutOff DEF s
<1>10. message' \in [Rows -> [status : Statuses, retries : 0 .. MAX_ATTEMPTS]]
  <2> DEFINE Failed(m) == [status |-> "FAILED",
                    retries |-> IF m.retries < MAX_ATTEMPTS THEN m.retries + 1 ELSE MAX_ATTEMPTS]
  <2>1. ASSUME NEW row \in Rows
        PROVE  /\ message[row] \in [status : Statuses, retries : 0 .. MAX_ATTEMPTS]
               /\ Failed(message[row]) \in [status : Statuses, retries : 0 .. MAX_ATTEMPTS]
    <3>1. message[row] \in [status : Statuses, retries : 0 .. MAX_ATTEMPTS]
      BY <1>1 DEF Typed
    <3>2. message[row].retries \in 0 .. MAX_ATTEMPTS
      BY <3>1
    <3> DEFINE n == IF message[row].retries < MAX_ATTEMPTS THEN message[row].retries + 1 ELSE MAX_ATTEMPTS
    <3>3. n \in 0 .. MAX_ATTEMPTS
      BY <3>2, ErpInboundAssumption
    <3>4. Failed(message[row]) = [status |-> "FAILED", retries |-> n]
      OBVIOUS
    <3> HIDE DEF n, Failed
    <3> QED
      BY <3>1, <3>3, <3>4 DEF Statuses
  <2>2. message' = [row \in Rows |-> IF row \in Unit(r) THEN Failed(message[row]) ELSE message[row]]
    BY DEF recordFailure
  <2> HIDE DEF Failed
  <2> QED
    BY <2>1, <2>2
<1>11. Typed'
  BY <1>1, <1>6, <1>8, <1>10 DEF Typed
<1>12. AckedIsApplied' /\ AckedPrefix' /\ InOrder'
  BY <1>8 DEF IInv, AckedIsApplied, AckedPrefix, InOrder
<1> QED
  BY <1>6, <1>8, <1>9, <1>11, <1>12, RunnerStep
-----------------------------------------------------------------------------
(* Applying a unit and flagging what was applied. *)

(* Of a key in the unit the last version stays. *)
LEMMA LastVersion ==
  ASSUME NEW unit \in SUBSET Rows, NEW k \in KeysOf(unit)
  PROVE  /\ k \in Keys /\ Applied(unit)[k] \in 1 .. Versions[k] /\ <<k, Applied(unit)[k]>> \in unit
         /\ \A row \in unit : row[1] = k => row[2] <= Applied(unit)[k]
<1> DEFINE T == {row \in unit : row[1] = k}
           P(v) == <<k, v>> \in unit /\ \A w \in v + 1 .. Versions[k] : <<k, w>> \notin unit
<1>1. T \in SUBSET Rows /\ T # {}
  BY DEF KeysOf
<1>2. PICK x \in T : \A y \in T : ~ Earlier(x, y)
  BY <1>1, FirstAndLast
<1>3. /\ x[1] = k /\ k \in Keys /\ k \in Nat /\ x[2] \in 1 .. Versions[k] /\ x = <<k, x[2]>>
      /\ Versions[k] \in Nat
  BY <1>1, RowShape
<1>4. P(x[2])
  <2>1. ASSUME NEW w \in x[2] + 1 .. Versions[k], <<k, w>> \in unit PROVE FALSE
    <3>1. <<k, w>> \in T
      BY <2>1
    <3>2. Earlier(x, <<k, w>>)
      BY <1>3 DEF Earlier
    <3> QED
      BY <1>2, <3>1, <3>2
  <2> QED
    BY <1>3, <2>1
<1> DEFINE v == Applied(unit)[k]
<1>5. v = CHOOSE z \in 1 .. Versions[k] : P(z)
  BY <1>3 DEF Applied
<1>6. v \in 1 .. Versions[k] /\ P(v)
  BY <1>3, <1>4, <1>5
<1>7. ASSUME NEW row \in unit, row[1] = k PROVE row[2] <= v
  <2>1. row[2] \in 1 .. Versions[k] /\ row = <<k, row[2]>>
    BY <1>7, RowShape
  <2> HIDE DEF v
  <2> QED
    BY <1>3, <1>6, <2>1
<1> QED
  BY <1>3, <1>6, <1>7

(* The heart of the order: the next unit of a batch follows nothing that   *)
(* the run has not done with.                                              *)
LEMMA NothingBefore ==
  ASSUME IInv, NEW r \in Runners, Units(r), ~ Held(r, Unit(r)),
         NEW row \in Unit(r), NEW v \in 1 .. row[2]
  PROVE  <<row[1], v>> \in Done(r) \cup Unit(r)
<1> DEFINE e == <<row[1], v>>
<1>1. Typed /\ Parted(r) /\ NoGap(r)
  BY DEF IInv
<1>2. run[r].units # {}
  BY DEF Units
<1>3. /\ Unit(r) \in run[r].units /\ Unit(r) \subseteq Rows /\ Unit(r) \subseteq Batch(r)
      /\ \E f \in Unit(r) : \A other \in Batch(r) : ~ Earlier(other, f)
  BY <1>1, <1>2, NextUnit
<1>4. row \in Batch(r) /\ row[1] \in Nat /\ row[2] \in Nat /\ row = <<row[1], row[2]>>
  BY <1>3, RowShape
<1>5. row[1] \notin run[r].blocked
  BY DEF Held, KeysOf
<1>6. Kept(r, e)
  BY <1>1, <1>4 DEF NoGap
<1>7. e \in Done(r) \/ e \in Batch(r)
  BY <1>5, <1>6 DEF Kept
<1>8. ASSUME e \in Batch(r) PROVE e \in Unit(r)
  <2>1. PICK w \in run[r].units : e \in w
    BY <1>8 DEF Batch
  <2>2. CASE grouped
    <3>1. Unit(r) = w
      BY <1>1, <1>3, <2>1, <2>2 DEF Parted
    <3> QED
      BY <2>1, <3>1
  <2>3. CASE ~ grouped
    <3>1. PICK f \in Unit(r) : \A other \in Batch(r) : ~ Earlier(other, f)
      BY <1>3
    <3>2. f = row
      BY <1>1, <1>3, <2>3 DEF Parted
    <3>3. ~ Earlier(e, row)
      BY <1>8, <3>1, <3>2
    <3>4. v = row[2]
      BY <1>4, <3>3 DEF Earlier
    <3> QED
      BY <1>4, <3>4
  <2> QED
    BY <2>2, <2>3
<1> QED
  BY <1>7, <1>8

LEMMA InvApply == ASSUME IInv, NEW r \in Runners, apply(r) PROVE IInv'
<1>1. Typed /\ Shape(r) /\ Parted(r) /\ NoGap(r) /\ AckedIsApplied /\ AckedPrefix /\ InOrder
  BY DEF IInv
<1>2. run[r] \in RunType /\ run[r].units # {} /\ run[r].pc = "units"
  BY <1>1, RunShape DEF apply, Units, At
<1>3. Unit(r) \in run[r].units /\ Unit(r) \in SUBSET Rows /\ Unit(r) \subseteq Batch(r)
  BY <1>1, <1>2, NextUnit
<1> DEFINE s == run[r].units \ {Unit(r)}
           a == run[r].applied \cup Unit(r)
           x == [run[r] EXCEPT !.units = s, !.applied = a]
<1>4. s \in SUBSET ((SUBSET Rows) \ {{}}) /\ a \in SUBSET Rows
  BY <1>2, <1>3 DEF RunType
<1>5. run' = [run EXCEPT ![r] = x]
  BY <1>1 DEF apply, Typed
<1> HIDE DEF s, a
<1>6. x \in RunType
  BY <1>2, <1>4 DEF RunType
<1>7. run' \in [Runners -> RunType] /\ run'[r] = x /\ \A q \in Runners \ {r} : run'[q] = run[q]
  BY <1>1, <1>5, <1>6 DEF Typed
<1>8. /\ run'[r].units = s /\ run'[r].applied = a
      /\ run'[r].after = run[r].after /\ run'[r].blocked = run[r].blocked /\ run'[r].pc = "units"
  BY <1>2, <1>7 DEF RunType
<1>9. /\ UNCHANGED <<grouped, sent, acked, lease, faults>> /\ Sent' = Sent
      /\ ever' = ever \cup Unit(r)
  BY DEF apply, Sent
<1>10. \A row \in Unit(r) : \A v \in 1 .. row[2] : <<row[1], v>> \in Done(r) \cup Unit(r)
  BY NothingBefore DEF apply
<1>11. /\ Done(r)' = Done(r) \cup Unit(r)
       /\ Batch(r)' \subseteq Batch(r) /\ Batch(r) \subseteq Batch(r)' \cup Unit(r)
  BY <1>8, <1>9 DEF Done, Batch, a, s
<1>12. Typed'
  <2>1. mes' \in [Keys -> Nat] /\ \A k \in Keys : mes'[k] <= Versions[k]
    <3>1. ASSUME NEW k \in Keys
          PROVE  Applied(Unit(r))[k] \in Nat /\ Applied(Unit(r))[k] <= Versions[k]
      <4>1. CASE k \in KeysOf(Unit(r))
        <5>1. Applied(Unit(r))[k] \in 1 .. Versions[k]
          BY <1>3, <4>1, LastVersion
        <5>2. Versions[k] \in Nat
          BY ErpInboundAssumption
        <5> QED
          BY <5>1, <5>2
      <4>2. CASE k \notin KeysOf(Unit(r))
        <5>1. Applied(Unit(r))[k] = mes[k]
          BY <4>2 DEF Applied
        <5> QED
          BY <1>1, <5>1 DEF Typed
      <4> QED
        BY <4>1, <4>2
    <3>2. mes' = Applied(Unit(r))
      BY DEF apply
    <3>3. mes' = [k \in Keys |-> mes'[k]]
      BY <3>2 DEF Applied
    <3>4. \A k \in Keys : mes'[k] \in Nat /\ mes'[k] <= Versions[k]
      BY <3>1, <3>2
    <3> QED
      BY <3>3, <3>4
  <2>2. message' \in [Rows -> [status : Statuses, retries : 0 .. MAX_ATTEMPTS]]
    <3>1. ASSUME NEW row \in Rows
          PROVE  /\ message[row] \in [status : Statuses, retries : 0 .. MAX_ATTEMPTS]
                 /\ [message[row] EXCEPT !.status = "DONE"] \in [status : Statuses, retries : 0 .. MAX_ATTEMPTS]
      BY <1>1 DEF Typed, Statuses
    <3>2. message' = [row \in Rows |-> IF row \in Unit(r) THEN [message[row] EXCEPT !.status = "DONE"] ELSE message[row]]
      BY DEF apply
    <3> QED
      BY <3>1, <3>2
  <2> QED
    BY <1>1, <1>3, <1>7, <1>9, <2>1, <2>2 DEF Typed
<1>13. AckedIsApplied' /\ AckedPrefix'
  BY <1>1, <1>9 DEF AckedIsApplied, AckedPrefix
<1>14. InOrder'
  <2>1. Done(r) \subseteq ever
    BY <1>1 DEF Done, AckedIsApplied, Shape
  <2> QED
    BY <1>1, <1>9, <1>10, <2>1 DEF InOrder
<1>15. Shape(r)'
  BY <1>1, <1>3, <1>8, <1>9, <1>11 DEF Shape, a
<1>16. Parted(r)'
  BY <1>1, <1>8, <1>9 DEF Parted, s
<1>17. NoGap(r)'
  <2>1. \A row : Kept(r, row) => Kept(r, row)'
    BY <1>8, <1>11 DEF Kept
  <2>2. \A row \in a : \A v \in 1 .. row[2] : <<row[1], v>> \in Done(r)'
    BY <1>1, <1>10, <1>11 DEF NoGap, a
  <2> QED
    BY <1>1, <1>8, <1>11, <2>1, <2>2 DEF NoGap
<1> QED
  BY <1>7, <1>9, <1>12, <1>13, <1>14, <1>15, <1>16, <1>17, RunnerStep

(* What a run flags was applied, after every earlier version was. *)
LEMMA Flagged ==
  ASSUME IInv, NEW r \in Runners, ever' = ever, sent' = sent,
         acked' = acked \/ acked' = acked \cup run[r].applied
  PROVE  /\ AckedIsApplied' /\ AckedPrefix' /\ InOrder' /\ acked \subseteq acked'
         /\ acked' \subseteq Sent' /\ Sent' = Sent
<1>1. Typed /\ Shape(r) /\ NoGap(r) /\ AckedIsApplied /\ AckedPrefix /\ InOrder
  BY DEF IInv
<1>2. Sent' = Sent /\ acked \subseteq acked'
  BY DEF Sent
<1>3. acked' \subseteq Sent /\ AckedIsApplied' /\ InOrder'
  BY <1>1 DEF Typed, Shape, AckedIsApplied, InOrder
<1>4. AckedPrefix'
  <2>1. CASE acked' = acked
    BY <1>1, <2>1 DEF AckedPrefix
  <2>2. CASE acked' = acked \cup run[r].applied
    BY <1>1, <2>2 DEF AckedPrefix, NoGap, Done
  <2> QED
    BY <2>1, <2>2
<1> QED
  BY <1>2, <1>3, <1>4

LEMMA InvAck == ASSUME IInv, NEW r \in Runners, ack(r) PROVE IInv'
<1>1. Typed /\ Shape(r) /\ Parted(r) /\ NoGap(r)
  BY DEF IInv
<1>2. run[r] \in RunType /\ run[r].pc = "ack" /\ run[r].units = {}
  BY <1>1, RunShape DEF ack, At, Shape
<1> DEFINE x == [run[r] EXCEPT !.pc = "go"]
<1>3. x \in RunType
  BY <1>2 DEF RunType, Steps
<1>4. run' = [run EXCEPT ![r] = x]
  BY <1>1 DEF ack, Goto, Typed
<1>5. run' \in [Runners -> RunType] /\ run'[r] = x /\ \A q \in Runners \ {r} : run'[q] = run[q]
  BY <1>1, <1>3, <1>4 DEF Typed
<1>6. /\ run'[r].units = run[r].units /\ run'[r].applied = run[r].applied
      /\ run'[r].after = run[r].after /\ run'[r].blocked = run[r].blocked /\ run'[r].pc = "go"
  BY <1>2, <1>5 DEF RunType
<1>7. UNCHANGED <<grouped, sent, message, mes, ever, lease, faults>> /\ acked' = acked \cup run[r].applied
  BY DEF ack, toAck
<1>8. /\ AckedIsApplied' /\ AckedPrefix' /\ InOrder' /\ acked \subseteq acked'
      /\ acked' \subseteq Sent' /\ Sent' = Sent
  BY <1>7, Flagged
<1>9. Typed'
  BY <1>1, <1>5, <1>7, <1>8 DEF Typed
<1>10. Batch(r)' = Batch(r) /\ Done(r)' = Done(r)
  BY <1>6, <1>7 DEF Batch, Done
<1>11. Shape(r)'
  BY <1>1, <1>2, <1>6, <1>7, <1>8, <1>10 DEF Shape
<1>12. Parted(r)'
  BY <1>2, <1>6 DEF Parted
<1>13. NoGap(r)'
  BY <1>1, <1>6, <1>10 DEF NoGap, Kept
<1> QED
  BY <1>5, <1>7, <1>8, <1>9, <1>11, <1>12, <1>13, RunnerStep

(* The answer of a statement may be lost after the flags are written. *)
LEMMA InvStatementFails == ASSUME IInv, NEW r \in Runners, statementFails(r) PROVE IInv'
<1>1. Typed
  BY DEF IInv
<1>2. /\ [NoRun EXCEPT !.stopping = run[r].stopping] \in RunType
      /\ (Shape(r) /\ Parted(r) /\ NoGap(r))'
  BY EndTicked DEF statementFails
<1>3. run' \in [Runners -> RunType] /\ \A q \in Runners \ {r} : run'[q] = run[q]
  BY <1>1, <1>2 DEF Typed, statementFails, EndTick
<1>4. /\ UNCHANGED <<grouped, sent, message, mes, ever, lease>>
      /\ acked' = acked \/ acked' = acked \cup run[r].applied
  BY DEF statementFails, toAck
<1>5. /\ AckedIsApplied' /\ AckedPrefix' /\ InOrder' /\ acked \subseteq acked'
      /\ acked' \subseteq Sent' /\ Sent' = Sent
  BY <1>4, Flagged
<1>6. faults' \in 0 .. MaxFaults
  BY <1>1, ErpInboundAssumption DEF statementFails, Fault, Typed
<1>7. Typed'
  BY <1>1, <1>3, <1>4, <1>5, <1>6 DEF Typed
<1> QED
  BY <1>2, <1>3, <1>4, <1>5, <1>7, RunnerStep

(* Users, the ERP and time touch no run. *)
LEMMA InvOthers ==
  ASSUME IInv, UNCHANGED <<grouped, acked, mes, ever, run, faults>>,
         \/ \E row \in Rows : retry(row)
         \/ \E k \in Keys : send(k)
         \/ leaseExpires
         \/ UNCHANGED vars
  PROVE  IInv'
<1>1. Typed /\ AckedIsApplied /\ AckedPrefix /\ InOrder
  BY DEF IInv
<1>2. sent' \in [Keys -> Nat] /\ \A k \in Keys : sent[k] <= sent'[k] /\ sent'[k] <= Versions[k]
  <2>1. CASE sent' = sent
    BY <1>1, <2>1 DEF Typed
  <2>2. CASE \E k \in Keys : send(k)
    <3>1. PICK k \in Keys : send(k)
      BY <2>2
    <3>2. sent[k] \in Nat /\ Versions[k] \in Nat
      BY <1>1, ErpInboundAssumption DEF Typed
    <3> QED
      BY <1>1, <3>1, <3>2, ErpInboundAssumption DEF send, Typed
  <2> QED
    BY <2>1, <2>2 DEF retry, leaseExpires, data, vars
<1>3. Sent \subseteq Sent'
  <2>1. ASSUME NEW row \in Sent PROVE row \in Sent'
    <3>1. row \in Rows /\ row[1] \in Keys /\ row[2] \in Nat /\ row[2] <= sent[row[1]]
      BY RowShape DEF Sent
    <3>2. sent[row[1]] \in Nat /\ sent'[row[1]] \in Nat
      BY <1>1, <1>2, <3>1 DEF Typed
    <3> QED
      BY <1>2, <3>1, <3>2 DEF Sent
  <2> QED
    BY <2>1
<1>4. message' \in [Rows -> [status : Statuses, retries : 0 .. MAX_ATTEMPTS]]
  <2>1. CASE message' = message
    BY <1>1, <2>1 DEF Typed
  <2>2. CASE \E row \in Rows : retry(row)
    <3>1. PICK row \in Rows : retry(row)
      BY <2>2
    <3>2. [message[row] EXCEPT !.status = "PENDING"] \in [status : Statuses, retries : 0 .. MAX_ATTEMPTS]
      BY <1>1 DEF Typed, Statuses
    <3>3. message' = [message EXCEPT ![row] = [message[row] EXCEPT !.status = "PENDING"]]
      BY <1>1, <3>1 DEF retry, Typed
    <3> QED
      BY <1>1, <3>2, <3>3 DEF Typed
  <2> QED
    BY <2>1, <2>2 DEF send, leaseExpires, data, vars
<1>5. lease' \in [owner : Runners \cup {NoRunner}, live : BOOLEAN]
  BY <1>1 DEF Typed, retry, send, leaseExpires, vars
<1>6. Typed'
  BY <1>1, <1>2, <1>3, <1>4, <1>5 DEF Typed
<1>7. AckedIsApplied' /\ AckedPrefix' /\ InOrder'
  BY <1>1 DEF AckedIsApplied, AckedPrefix, InOrder
<1>8. \A q \in Runners : (Shape(q) /\ Parted(q) /\ NoGap(q))'
  BY <1>3, Undisturbed
<1> QED
  BY <1>6, <1>7, <1>8 DEF IInv
-----------------------------------------------------------------------------
(* The next batch. *)

(* The units of a batch: none is empty, a key is in one of them, with all  *)
(* its rows in the batch.                                                  *)
LEMMA UnitsOfBatch ==
  ASSUME grouped \in BOOLEAN, NEW rows \in SUBSET Rows, rows # {},
         NEW units, units = unitsOf(rows, Cardinality(rows) = BATCH_SIZE)
  PROVE  /\ units \in SUBSET ((SUBSET Rows) \ {{}}) /\ UNION units \subseteq rows /\ UNION units # {}
         /\ \A row \in UNION units, other \in rows : other[1] = row[1] => other \in UNION units
         /\ \A u, w \in units : \A a \in u, b \in w :
              /\ grouped /\ a[1] = b[1] => u = w
              /\ ~grouped /\ u = w => a = b
<1>1. CASE ~ grouped
  <2>1. units = {{row} : row \in rows}
    BY <1>1 DEF unitsOf
  <2>2. UNION units = rows
    BY <2>1
  <2>3. \A u \in units : u # {} /\ u \subseteq Rows /\ \A a, b \in u : a = b
    BY <2>1
  <2>4. units \in SUBSET ((SUBSET Rows) \ {{}})
    BY <2>3
  <2> QED
    BY <1>1, <2>2, <2>3, <2>4
<1>2. CASE grouped
  <2> DEFINE Of(k) == {row \in rows : UnitOf[row[1]] = UnitOf[k]}
             all == {Of(k) : k \in KeysOf(rows)}
  <2>1. units = all \/ (Cardinality(all) > 1 /\ units = all \ {Last(all)})
    BY <1>2 DEF unitsOf
  <2>2. ASSUME NEW u \in all PROVE u # {} /\ u \subseteq rows
    <3>1. PICK k \in KeysOf(rows) : u = Of(k)
      OBVIOUS
    <3>2. PICK row \in rows : row[1] = k
      BY DEF KeysOf
    <3>3. row \in Of(k)
      BY <3>2
    <3> QED
      BY <3>1, <3>3
  <2>3. ASSUME NEW u \in all, NEW a \in u, NEW b \in rows, UnitOf[a[1]] = UnitOf[b[1]]
        PROVE  b \in u
    BY <2>3
  <2>4. ASSUME NEW u \in all, NEW w \in all, NEW a \in u, NEW b \in w, a[1] = b[1] PROVE u = w
    BY <2>4
  <2>5. all # {}
    <3>1. PICK row \in rows : TRUE
      OBVIOUS
    <3>2. row[1] \in KeysOf(rows)
      BY DEF KeysOf
    <3>3. Of(row[1]) \in all
      BY <3>2
    <3> QED
      BY <3>3
  <2>6. units # {} /\ units \subseteq all
    <3>1. CASE units = all
      BY <2>5, <3>1
    <3>2. CASE Cardinality(all) > 1 /\ units = all \ {Last(all)}
      <4>1. ASSUME all \ {Last(all)} = {} PROVE FALSE
        <5>1. all = {Last(all)}
          BY <2>5, <4>1
        <5>2. Cardinality({Last(all)}) = 1
          BY FS_Singleton
        <5>3. Cardinality(all) = 1
          BY <5>1, <5>2
        <5> QED
          BY <3>2, <5>3
      <4> QED
        BY <3>2, <4>1
    <3> QED
      BY <2>1, <3>1, <3>2
  <2> HIDE DEF all
  <2>7. units \in SUBSET ((SUBSET Rows) \ {{}}) /\ UNION units \subseteq rows /\ UNION units # {}
    BY <2>2, <2>6
  <2>8. \A row \in UNION units, other \in rows : other[1] = row[1] => other \in UNION units
    BY <2>3, <2>6
  <2> QED
    BY <1>2, <2>4, <2>6, <2>7, <2>8
<1> QED
  BY <1>1, <1>2

(* No pending version in front of the batch is left out of it, unless the  *)
(* cursor has passed it: then its key is blocked.                          *)
LEMMA BatchLeavesNothing ==
  ASSUME IInv, NEW r \in Runners, At(r, "fetch"),
         NEW row \in fetchPending(run[r].after), NEW v \in 1 .. row[2],
         <<row[1], v>> \notin acked, row[1] \notin run[r].blocked
  PROVE  <<row[1], v>> \in fetchPending(run[r].after)
<1> DEFINE e == <<row[1], v>>
           after == run[r].after
<1>1. Typed /\ Shape(r) /\ NoGap(r)
  BY DEF IInv
<1>2. run[r].units = {} /\ run[r].applied \subseteq acked
  BY <1>1 DEF Shape, At
<1>3. Batch(r) = {} /\ Done(r) = acked
  BY <1>2 DEF Batch, Done
<1>4. row \in Sent /\ row \in Rows /\ Earlier(after, row)
  BY DEF fetchPending, Sent
<1>5. /\ row[1] \in Keys /\ row[1] \in Nat /\ row[2] \in Nat /\ row = <<row[1], row[2]>>
      /\ Versions[row[1]] \in Nat /\ row[2] \in 1 .. Versions[row[1]]
  BY <1>4, RowShape
<1>6. e \in Sent
  <2>1. e \in Rows
    BY <1>5, RowIn
  <2>2. sent[row[1]] \in Nat /\ row[2] <= sent[row[1]]
    BY <1>1, <1>4, <1>5 DEF Typed, Sent
  <2> QED
    BY <1>5, <2>1, <2>2 DEF Sent
<1>7. after[1] \in Nat /\ after[2] \in Nat
  <2>1. after \in Rows \cup {Before}
    BY <1>1, RunShape
  <2>2. CASE after \in Rows
    BY <2>2, RowShape
  <2>3. CASE after = Before
    <3>1. Before[1] = 0 /\ Before[2] = 0
      BY DEF Before
    <3> HIDE DEF after
    <3> QED
      BY <2>3, <3>1
  <2> QED
    BY <2>1, <2>2, <2>3
<1>8. CASE v = row[2]
  BY <1>5, <1>8
<1>9. CASE v # row[2] /\ Earlier(after, e)
  <2>1. Earlier(e, row)
    BY <1>5, <1>9 DEF Earlier
  <2> QED
    BY <1>6, <1>9, <2>1, BatchIsPrefix
<1>10. CASE v # row[2] /\ ~ Earlier(after, e)
  <2>1. after[1] = row[1] /\ v \in 1 .. after[2]
    BY <1>4, <1>5, <1>7, <1>10 DEF Earlier
  <2>2. Kept(r, <<after[1], v>>)
    BY <1>1, <2>1 DEF NoGap
  <2> QED
    BY <1>3, <2>1, <2>2 DEF Kept
<1> QED
  BY <1>8, <1>9, <1>10

LEMMA InvFetch == ASSUME IInv, NEW r \in Runners, fetch(r) PROVE IInv'
<1>1. Typed /\ Shape(r)
  BY DEF IInv
<1>2. run[r] \in RunType
  BY <1>1, RunShape
<1> DEFINE rows == fetchPending(run[r].after)
           full == Cardinality(rows) = BATCH_SIZE
           units == unitsOf(rows, full)
           last == LastRow(units)
<1>3. rows \in SUBSET Rows /\ rows \subseteq Sent /\ full \in BOOLEAN /\ grouped \in BOOLEAN
  BY <1>1 DEF fetchPending, Sent, Typed
<1>4. lease' \in [owner : Runners \cup {NoRunner}, live : BOOLEAN] /\ faults' \in 0 .. MaxFaults
  BY <1>1 DEF fetch, Typed
<1>5. CASE rows = {}
  BY <1>4, <1>5, InvEndTick DEF fetch
<1>6. CASE rows # {}
  <2> DEFINE x == [run[r] EXCEPT !.pc = "units", !.full = full, !.units = units,
                                 !.after = last, !.applied = {}]
  <2>1. run' = [run EXCEPT ![r] = x]
    BY <1>1, <1>6 DEF fetch, Typed
  <2>2. /\ units \in SUBSET ((SUBSET Rows) \ {{}}) /\ UNION units \subseteq rows /\ UNION units # {}
        /\ \A row \in UNION units, other \in rows : other[1] = row[1] => other \in UNION units
        /\ \A u, w \in units : \A a \in u, b \in w :
             /\ grouped /\ a[1] = b[1] => u = w
             /\ ~grouped /\ u = w => a = b
    <3>1. units = unitsOf(rows, Cardinality(rows) = BATCH_SIZE)
      OBVIOUS
    <3> HIDE DEF rows, full, units
    <3> QED
      BY <1>3, <1>6, <3>1, UnitsOfBatch
  <2>3. \A row \in rows : \A v \in 1 .. row[2] :
          <<row[1], v>> \in acked \/ <<row[1], v>> \in rows \/ row[1] \in run[r].blocked
    BY BatchLeavesNothing DEF fetch
  <2> HIDE DEF rows, full, units
  <2>4. last \in UNION units
    BY <2>2, LastOfUnits
  <2>5. last \in Rows
    BY <1>3, <2>2, <2>4
  <2> HIDE DEF last
  <2>6. x \in RunType
    BY <1>2, <1>3, <2>2, <2>5 DEF RunType, Steps
  <2>7. run'[r] = x
    BY <1>1, <2>1 DEF Typed
  <2>8. /\ run'[r].units = units /\ run'[r].applied = {} /\ run'[r].after = last
        /\ run'[r].blocked = run[r].blocked /\ run'[r].pc = "units"
    BY <1>2, <2>7 DEF RunType
  <2>9. grouped' = grouped /\ acked' = acked /\ ever' = ever /\ Sent' = Sent
    BY DEF fetch, data, Sent
  <2>10. Batch(r)' = UNION units /\ Done(r)' = acked
    BY <2>8, <2>9 DEF Batch, Done
  <2>11. Shape(r)'
    BY <1>3, <2>2, <2>4, <2>8, <2>9, <2>10 DEF Shape
  <2>12. Parted(r)'
    BY <2>2, <2>8, <2>9 DEF Parted
  <2>13. NoGap(r)'
    <3>1. ASSUME NEW row \in UNION units, NEW v \in 1 .. row[2], NEW e, e = <<row[1], v>>
          PROVE  e \in acked \/ e \in UNION units \/ row[1] \in run[r].blocked
      <4>1. row \in rows
        BY <2>2
      <4>2. e \in acked \/ e \in rows \/ row[1] \in run[r].blocked
        BY <2>3, <3>1, <4>1
      <4>3. e[1] = row[1]
        BY <3>1
      <4>4. e \in rows => e \in UNION units
        BY <2>2, <4>3
      <4> QED
        BY <4>2, <4>4
    <3>2. \A e : (e \in acked \/ e \in UNION units \/ e[1] \in run[r].blocked) => Kept(r, e)'
      BY <2>8, <2>10 DEF Kept
    <3>3. \A row \in UNION units : \A v \in 1 .. row[2] : \A e : e = <<row[1], v>> => Kept(r, e)'
      BY <3>1, <3>2
    <3> QED
      BY <2>4, <2>8, <2>10, <3>3 DEF NoGap
  <2> HIDE DEF x
  <2> QED
    BY <1>4, <2>1, <2>6, <2>11, <2>12, <2>13, LocalStep DEF fetch
<1> QED
  BY <1>5, <1>6

(* Every step keeps the invariant. *)
LEMMA NextIInv == IInv /\ [Next]_vars => IInv'
<1> SUFFICES ASSUME IInv, [Next]_vars PROVE IInv'
  OBVIOUS
<1>1. ASSUME NEW r \in Runners, tick(r) PROVE IInv'
  BY <1>1, InvAcquire, InvQuarantined, InvFetch, InvHold, InvApply, InvRecordFailure, InvUnitsOver,
     InvAck, InvKeepGoing, InvKeepGoingThrows, InvLeave DEF tick
<1>2. ASSUME NEW r \in Runners, applyFails(r) \/ statementFails(r) \/ crash(r) \/ stop(r) PROVE IInv'
  BY <1>2, InvApplyFails, InvStatementFails, InvCrash, InvStop
<1>3. ASSUME NEW row \in Rows, retry(row) PROVE IInv'
  BY <1>3, InvOthers DEF retry
<1>4. ASSUME NEW k \in Keys, send(k) PROVE IInv'
  BY <1>4, InvOthers DEF send
<1>5. ASSUME leaseExpires PROVE IInv'
  BY <1>5, InvOthers DEF leaseExpires, data
<1>6. ASSUME UNCHANGED vars PROVE IInv'
  BY <1>6, InvOthers DEF vars
<1> QED
  BY <1>1, <1>2, <1>3, <1>4, <1>5, <1>6 DEF Next
-----------------------------------------------------------------------------
(* One runner at a time: what the MES holds is the last version. *)

(* A step of r other than reading and applying. *)
Plain(r) ==
  \/ acquire(r) \/ quarantined(r) \/ hold(r) \/ recordFailure(r) \/ unitsOver(r) \/ ack(r)
  \/ keepGoing(r) \/ keepGoingThrows(r) \/ leave(r)
  \/ applyFails(r) \/ statementFails(r) \/ crash(r) \/ stop(r)

(* What such a step does to the memory of r, and to the flags. *)
Shrinks(r) ==
  /\ run'[r].units \subseteq run[r].units /\ run'[r].applied \subseteq run[r].applied
  /\ \A q \in Runners \ {r} : run'[q] = run[q]
  /\ Active(r)' => Active(r) \/ acquire(r)
  /\ UNCHANGED <<mes, sent, ever>>
  /\ acked' = acked \/ (At(r, "ack") /\ acked' = acked \cup run[r].applied)

LEMMA EndTickShrinks ==
  ASSUME Typed, NEW r \in Runners, EndTick(r)
  PROVE  /\ run'[r].units = {} /\ run'[r].applied = {} /\ ~ Active(r)'
         /\ \A q \in Runners \ {r} : run'[q] = run[q]
<1>1. run' = [run EXCEPT ![r] = [NoRun EXCEPT !.stopping = run[r].stopping]]
  BY DEF EndTick
<1>2. run'[r] = [NoRun EXCEPT !.stopping = run[r].stopping] /\ \A q \in Runners \ {r} : run'[q] = run[q]
  BY <1>1 DEF Typed
<1>3. run'[r].units = {} /\ run'[r].applied = {} /\ run'[r].pc = "idle"
  BY <1>2 DEF NoRun
<1> QED
  BY <1>2, <1>3 DEF Active

LEMMA GotoShrinks ==
  ASSUME Typed, NEW r \in Runners, NEW step, Goto(r, step)
  PROVE  /\ run'[r].units = run[r].units /\ run'[r].applied = run[r].applied /\ run'[r].pc = step
         /\ \A q \in Runners \ {r} : run'[q] = run[q]
<1>1. run[r] \in RunType /\ run' = [run EXCEPT ![r] = [run[r] EXCEPT !.pc = step]]
  BY DEF Goto, Typed
<1>2. run'[r] = [run[r] EXCEPT !.pc = step] /\ \A q \in Runners \ {r} : run'[q] = run[q]
  BY <1>1 DEF Typed
<1> QED
  BY <1>1, <1>2 DEF RunType

LEMMA PlainShrinks == ASSUME Typed, NEW r \in Runners, Plain(r) PROVE Shrinks(r)
<1>0. run[r] \in RunType /\ run \in [Runners -> RunType]
  BY DEF Typed
<1>1. CASE acquire(r)
  BY <1>1, GotoShrinks DEF acquire, Shrinks, data
<1>2. CASE quarantined(r)
  <2> DEFINE rows == {row \in Rows : IsQuarantined(row)}
  <2>1. /\ run'[r] = [run[r] EXCEPT !.pc = "fetch", !.quarantined = rows, !.blocked = KeysOf(rows)]
        /\ \A q \in Runners \ {r} : run'[q] = run[q]
    BY <1>0, <1>2 DEF quarantined
  <2> HIDE DEF rows
  <2>2. run'[r].units = run[r].units /\ run'[r].applied = run[r].applied
    BY <1>0, <2>1 DEF RunType
  <2> QED
    BY <1>2, <2>1, <2>2 DEF quarantined, Shrinks, data, Active, At
<1>3. CASE hold(r)
  <2>1. /\ run'[r] = [run[r] EXCEPT !.blocked = Block(r, Unit(r)), !.units = run[r].units \ {Unit(r)}]
        /\ \A q \in Runners \ {r} : run'[q] = run[q]
    BY <1>0, <1>3 DEF hold
  <2>2. run'[r].units = run[r].units \ {Unit(r)} /\ run'[r].applied = run[r].applied
    BY <1>0, <2>1 DEF RunType
  <2> QED
    BY <1>3, <2>1, <2>2 DEF hold, Shrinks, data, Active, At, Units
<1>4. CASE recordFailure(r)
  <2>1. /\ run'[r] = [run[r] EXCEPT !.pc = "units", !.units = run[r].units \ {Unit(r)}]
        /\ \A q \in Runners \ {r} : run'[q] = run[q]
    BY <1>0, <1>4 DEF recordFailure
  <2>2. run'[r].units = run[r].units \ {Unit(r)} /\ run'[r].applied = run[r].applied
    BY <1>0, <2>1 DEF RunType
  <2> QED
    BY <1>4, <2>1, <2>2 DEF recordFailure, Shrinks, Active, At
<1>5. CASE unitsOver(r)
  BY <1>5, GotoShrinks DEF unitsOver, Shrinks, data, Active, At
<1>6. CASE ack(r)
  BY <1>6, GotoShrinks DEF ack, Shrinks, Active, At, toAck
<1>7. CASE keepGoing(r)
  <2>1. CASE EndTick(r)
    BY <1>7, <2>1, EndTickShrinks DEF keepGoing, Shrinks, data
  <2>2. CASE Goto(r, "fetch")
    BY <1>7, <2>2, GotoShrinks DEF keepGoing, Shrinks, data, Active, At
  <2> QED
    BY <1>7, <2>1, <2>2 DEF keepGoing
<1>8. CASE keepGoingThrows(r)
  BY <1>8, EndTickShrinks DEF keepGoingThrows, Shrinks, data
<1>9. CASE leave(r)
  BY <1>9, GotoShrinks DEF leave, Shrinks, data, Active
<1>10. CASE applyFails(r)
  <2>1. /\ run'[r] = [run[r] EXCEPT !.pc = "record", !.blocked = Block(r, Unit(r))]
        /\ \A q \in Runners \ {r} : run'[q] = run[q]
    BY <1>0, <1>10 DEF applyFails
  <2>2. run'[r].units = run[r].units /\ run'[r].applied = run[r].applied
    BY <1>0, <2>1 DEF RunType
  <2> QED
    BY <1>10, <2>1, <2>2 DEF applyFails, Shrinks, data, Active, At, Units
<1>11. CASE statementFails(r)
  BY <1>11, EndTickShrinks DEF statementFails, Shrinks, toAck
<1>12. CASE crash(r)
  <2>1. /\ run'[r] = [NoRun EXCEPT !.pc = "down"]
        /\ \A q \in Runners \ {r} : run'[q] = run[q]
    BY <1>0, <1>12 DEF crash
  <2>2. run'[r].units = {} /\ run'[r].applied = {} /\ run'[r].pc = "down"
    BY <2>1 DEF NoRun
  <2> QED
    BY <1>12, <2>1, <2>2 DEF crash, Shrinks, data, Active
<1>13. CASE stop(r)
  <2>1. /\ run'[r] = [run[r] EXCEPT !.stopping = TRUE]
        /\ \A q \in Runners \ {r} : run'[q] = run[q]
    BY <1>0, <1>13 DEF stop
  <2>2. run'[r].units = run[r].units /\ run'[r].applied = run[r].applied /\ run'[r].pc = run[r].pc
    BY <1>0, <2>1 DEF RunType
  <2> QED
    BY <1>13, <2>1, <2>2 DEF stop, Shrinks, data, Active
<1> QED
  BY <1>1, <1>2, <1>3, <1>4, <1>5, <1>6, <1>7, <1>8, <1>9, <1>10, <1>11, <1>12, <1>13 DEF Plain

(* A runner that is not in its tick has nothing in hand. *)
LEMMA Idle ==
  ASSUME IInv, NEW q \in Runners, ~ Active(q)
  PROVE  Batch(q) = {} /\ run[q].units = {} /\ run[q].applied = {}
<1>1. Shape(q)
  BY DEF IInv
<1>2. run[q].units = {} /\ run[q].applied = {}
  BY <1>1 DEF Shape, Active
<1> QED
  BY <1>2 DEF Batch

LEMMA OnlyOne ==
  ASSUME Alone, NEW r \in Runners, Active(r), NEW q \in Runners, Active(q)
  PROVE  q = r
<1>1. lease = [owner |-> r, live |-> TRUE] /\ lease = [owner |-> q, live |-> TRUE]
  BY DEF Alone
<1>2. lease.owner = r /\ lease.owner = q
  BY <1>1
<1> QED
  BY <1>2

LEMMA PlainLInv ==
  ASSUME LInv, NEW r \in Runners, Shrinks(r)
  PROVE  Latest' /\ Fresh'
<1>1. IInv /\ Typed /\ Alone /\ Latest /\ Fresh
  BY DEF LInv, IInv
<1>2. \A q \in Runners : run'[q].applied \subseteq run[q].applied /\ run'[q].units \subseteq run[q].units
  BY DEF Shrinks
<1>3. Latest'
  <2>1. mes' = mes /\ sent' = sent /\ acked' \subseteq acked \cup run[r].applied
    BY DEF Shrinks
  <2> QED
    BY <1>1, <1>2, <2>1 DEF Latest
<1>4. ASSUME NEW q \in Runners PROVE Batch(q)' \cap Done(q)' = {}
  <2>1. Batch(q)' \subseteq Batch(q)
    BY <1>2 DEF Batch
  <2>2. CASE acked' = acked
    <3>1. Done(q)' \subseteq Done(q)
      BY <1>2, <2>2 DEF Done
    <3> QED
      BY <1>1, <2>1, <3>1 DEF Fresh
  <2>3. CASE At(r, "ack") /\ acked' = acked \cup run[r].applied
    <3>1. CASE q = r
      <4>1. Done(q)' \subseteq Done(q)
        BY <1>2, <2>3, <3>1 DEF Done
      <4> QED
        BY <1>1, <2>1, <4>1 DEF Fresh
    <3>2. CASE q # r
      <4>1. ~ Active(q)
        BY <1>1, <2>3, <3>2, OnlyOne DEF Active, At
      <4> QED
        BY <1>1, <2>1, <4>1, Idle
    <3> QED
      BY <3>1, <3>2
  <2> QED
    BY <2>2, <2>3 DEF Shrinks
<1> QED
  BY <1>3, <1>4 DEF Fresh
LEMMA AloneKept ==
  ASSUME Alone, lease' = lease, \A q \in Runners : Active(q)' => Active(q)
  PROVE  Alone'
BY DEF Alone

(* The lease is taken or extended by nobody but the runner in its tick. *)
LEMMA AloneExtended ==
  ASSUME Typed, Alone, NEW r \in Runners, MayAcquire(r), Extend(r),
         \A q \in Runners \ {r} : run'[q] = run[q]
  PROVE  Alone'
<1>1. ASSUME NEW q \in Runners \ {r} PROVE ~ Active(q)
  <2>1. SUFFICES ASSUME Active(q) PROVE FALSE
    OBVIOUS
  <2>2. lease = [owner |-> q, live |-> TRUE]
    BY <2>1 DEF Alone
  <2>3. lease.owner = q /\ lease.live
    BY <2>2
  <2> QED
    BY <2>3, ErpInboundAssumption DEF MayAcquire
<1>2. \A q \in Runners : Active(q)' => q = r
  BY <1>1 DEF Active
<1>3. lease' = [owner |-> r, live |-> TRUE]
  BY DEF Extend
<1>4. lease'.owner = r
  BY <1>3
<1> QED
  BY <1>2, <1>3, <1>4 DEF Alone

LEMMA PlainAlone == ASSUME Typed, Alone, NEW r \in Runners, Plain(r) PROVE Alone'
<1>1. Shrinks(r)
  BY PlainShrinks
<1>2. CASE acquire(r)
  BY <1>1, <1>2, AloneExtended DEF acquire, Shrinks
<1>3. CASE keepGoing(r)
  BY <1>1, <1>3, AloneExtended DEF keepGoing, Shrinks
<1>4. CASE ~ acquire(r) /\ lease' = lease
  <2>1. \A q \in Runners : Active(q)' => Active(q)
    BY <1>1, <1>4 DEF Shrinks, Active
  <2> QED
    BY <1>4, <2>1, AloneKept
<1>5. CASE leave(r)
  <2>1. run'[r].pc = "down" /\ \A q \in Runners \ {r} : run'[q] = run[q]
    BY <1>5, GotoShrinks DEF leave
  <2>2. ASSUME NEW q \in Runners, Active(q)' PROVE Active(q) /\ q # r
    BY <2>1, <2>2 DEF Active
  <2>3. CASE lease.owner = r
    <3>1. ASSUME NEW q \in Runners, Active(q)' PROVE FALSE
      <4>1. lease = [owner |-> q, live |-> TRUE] /\ q # r
        BY <2>2, <3>1 DEF Alone
      <4>2. lease.owner = q
        BY <4>1
      <4> QED
        BY <2>3, <4>1, <4>2
    <3>2. lease' = [owner |-> NoRunner, live |-> FALSE]
      BY <1>5, <2>3 DEF leave
    <3>3. ~ lease'.live
      BY <3>2
    <3> QED
      BY <3>1, <3>3 DEF Alone
  <2>4. CASE lease.owner # r
    BY <1>5, <2>2, <2>4, AloneKept DEF leave
  <2> QED
    BY <2>3, <2>4
<1> QED
  BY <1>2, <1>3, <1>4, <1>5 DEF Plain, quarantined, hold, recordFailure, unitsOver, ack,
     keepGoingThrows, applyFails, statementFails, crash, stop, acquire, At

(* A batch holds rows that are not flagged. *)
LEMMA FetchLInv == ASSUME LInv, NEW r \in Runners, fetch(r) PROVE Alone' /\ Latest' /\ Fresh'
<1>1. IInv /\ Typed /\ Alone /\ Latest /\ Fresh /\ run[r] \in RunType
  BY DEF LInv, IInv, Typed
<1> DEFINE rows == fetchPending(run[r].after)
           full == Cardinality(rows) = BATCH_SIZE
           units == unitsOf(rows, full)
           last == LastRow(units)
<1>2. Active(r) /\ UNCHANGED <<mes, sent, acked, ever, lease>>
  BY DEF Active, fetch, At, data
<1>3. CASE rows = {}
  <2>1. EndTick(r)
    BY <1>3 DEF fetch
  <2>2. Shrinks(r) /\ ~ Active(r)'
    BY <1>1, <1>2, <2>1, EndTickShrinks DEF Shrinks
  <2>3. Alone'
    <3>1. \A q \in Runners : Active(q)' => Active(q)
      BY <2>2 DEF Shrinks, Active
    <3> QED
      BY <1>1, <1>2, <3>1, AloneKept
  <2> QED
    BY <2>2, <2>3, PlainLInv
<1>4. CASE rows # {}
  <2>1. /\ run'[r] = [run[r] EXCEPT !.pc = "units", !.full = full, !.units = units,
                                    !.after = last, !.applied = {}]
        /\ \A q \in Runners \ {r} : run'[q] = run[q]
    BY <1>1, <1>4 DEF fetch, Typed
  <2>2. rows \in SUBSET Rows /\ rows \cap acked = {} /\ grouped \in BOOLEAN
    BY <1>1 DEF fetchPending, Sent, Typed
  <2>3. units = unitsOf(rows, Cardinality(rows) = BATCH_SIZE)
    OBVIOUS
  <2> HIDE DEF rows, full, units, last
  <2>4. UNION units \subseteq rows
    BY <1>4, <2>2, <2>3, UnitsOfBatch
  <2>5. run'[r].units = units /\ run'[r].applied = {}
    BY <1>1, <2>1 DEF RunType
  <2>6. Alone'
    <3>1. \A q \in Runners : Active(q)' => Active(q)
      BY <1>2, <2>1 DEF Active
    <3> QED
      BY <1>1, <1>2, <3>1, AloneKept
  <2>7. Latest'
    BY <1>1, <1>2, <2>1, <2>5 DEF Latest
  <2>8. Fresh'
    <3>1. Batch(r)' \cap Done(r)' = {}
      BY <1>2, <2>2, <2>4, <2>5 DEF Batch, Done
    <3>2. ASSUME NEW q \in Runners \ {r} PROVE Batch(q)' \cap Done(q)' = {}
      BY <1>1, <1>2, <2>1 DEF Fresh, Batch, Done
    <3> QED
      BY <3>1, <3>2 DEF Fresh
  <2> QED
    BY <2>6, <2>7, <2>8
<1> QED
  BY <1>3, <1>4

(* The unit is newer than all the run can count on: its versions are not   *)
(* done with, and what is done with has no gap.                            *)
LEMMA NewerThanDone ==
  ASSUME LInv, NEW r \in Runners, Units(r), NEW k \in KeysOf(Unit(r)),
         NEW row \in Done(r), row[1] = k
  PROVE  row[2] <= Applied(Unit(r))[k]
<1>1. IInv /\ Typed /\ NoGap(r) /\ AckedPrefix /\ Fresh /\ run[r].units # {}
  BY DEF LInv, IInv, Units
<1>2. Unit(r) \in SUBSET Rows /\ Unit(r) \subseteq Batch(r)
  BY <1>1, NextUnit
<1> DEFINE n == Applied(Unit(r))[k]
<1>3. n \in 1 .. Versions[k] /\ <<k, n>> \in Unit(r) /\ k \in Keys
  BY <1>2, LastVersion
<1>4. row \in Rows
  BY <1>1, RunShape DEF Done, Typed, Sent
<1>5. row[2] \in Nat /\ Versions[k] \in Nat
  BY <1>3, <1>4, RowShape, ErpInboundAssumption
<1>6. \A v \in 1 .. row[2] : <<k, v>> \in Done(r)
  BY <1>1 DEF NoGap, AckedPrefix, Done
<1>7. <<k, n>> \notin Done(r)
  BY <1>1, <1>2, <1>3 DEF Fresh
<1> HIDE DEF n
<1>8. ~ (n \in 1 .. row[2])
  BY <1>6, <1>7
<1>9. row[2] <= n
  BY <1>3, <1>5, <1>8
<1> QED
  BY <1>9 DEF n

LEMMA ApplyLInv == ASSUME LInv, NEW r \in Runners, apply(r) PROVE Alone' /\ Latest' /\ Fresh'
<1>1. IInv /\ Typed /\ Alone /\ Latest /\ Fresh /\ run[r] \in RunType /\ Shape(r) /\ Parted(r)
  BY DEF LInv, IInv, Typed
<1>2. Active(r) /\ Units(r) /\ run[r].units # {} /\ UNCHANGED <<grouped, sent, acked, lease>>
  BY DEF Active, apply, Units, At
<1>3. Unit(r) \in run[r].units /\ Unit(r) \in SUBSET Rows /\ Unit(r) \subseteq Batch(r)
  BY <1>1, <1>2, NextUnit
<1>4. /\ run'[r] = [run[r] EXCEPT !.units = run[r].units \ {Unit(r)},
                                  !.applied = run[r].applied \cup Unit(r)]
      /\ \A q \in Runners \ {r} : run'[q] = run[q]
  BY <1>1 DEF apply, Typed
<1>5. /\ run'[r].units = run[r].units \ {Unit(r)} /\ run'[r].applied = run[r].applied \cup Unit(r)
      /\ run'[r].pc = run[r].pc
  BY <1>1, <1>4 DEF RunType
<1>6. Alone'
  <2>1. \A q \in Runners : Active(q)' => Active(q)
    BY <1>4, <1>5 DEF Active
  <2> QED
    BY <1>1, <1>2, <2>1, AloneKept
<1>7. \A q \in Runners \ {r} : run[q].applied = {} /\ Batch(q) = {}
  BY <1>1, <1>2, OnlyOne, Idle
<1>8. mes' = Applied(Unit(r)) /\ \A k \in Keys \ KeysOf(Unit(r)) : mes'[k] = mes[k]
  BY DEF apply, Applied
<1>9. ASSUME NEW row \in Rows, row \in Done(r) \cup Unit(r) PROVE row[2] <= mes'[row[1]]
  <2>1. row[1] \in Keys
    BY RowShape
  <2>2. CASE row[1] \in KeysOf(Unit(r))
    <3>1. CASE row \in Done(r)
      BY <1>2, <1>8, <2>2, <3>1, NewerThanDone
    <3>2. CASE row \in Unit(r)
      BY <1>3, <1>8, <2>2, <3>2, LastVersion
    <3> QED
      BY <1>9, <3>1, <3>2
  <2>3. CASE row[1] \notin KeysOf(Unit(r))
    <3>1. row \notin Unit(r)
      BY <2>3 DEF KeysOf
    <3> QED
      BY <1>1, <1>8, <1>9, <2>1, <2>3, <3>1 DEF Latest, Done
  <2> QED
    BY <2>2, <2>3
<1>10. \A k \in Keys : mes'[k] <= sent[k]
  <2> SUFFICES ASSUME NEW k \in Keys PROVE mes'[k] <= sent[k]
    OBVIOUS
  <2>1. CASE k \in KeysOf(Unit(r))
    <3>1. <<k, mes'[k]>> \in Unit(r)
      BY <1>3, <1>8, <2>1, LastVersion
    <3>2. <<k, mes'[k]>> \in Sent
      BY <1>1, <1>3, <3>1 DEF Shape
    <3> QED
      BY <3>2 DEF Sent
  <2>2. CASE k \notin KeysOf(Unit(r))
    BY <1>1, <1>8, <2>2 DEF Latest
  <2> QED
    BY <2>1, <2>2
<1>11. Latest'
  <2>1. acked \subseteq Rows /\ run[r].applied \subseteq Rows
    BY <1>1, RunShape DEF Typed, Sent
  <2>2. \A row \in acked : row[2] <= mes'[row[1]]
    BY <1>9, <2>1 DEF Done
  <2>3. \A row \in run'[r].applied : row[2] <= mes'[row[1]]
    BY <1>3, <1>5, <1>9, <2>1 DEF Done
  <2>4. \A q \in Runners \ {r} : run'[q].applied = {}
    BY <1>4, <1>7
  <2> QED
    BY <1>2, <1>10, <2>2, <2>3, <2>4 DEF Latest
<1>12. Fresh'
  <2>1. ASSUME NEW row \in Batch(r)' PROVE row \in Batch(r) /\ row \notin Unit(r)
    <3>1. PICK w \in run[r].units : w # Unit(r) /\ row \in w
      BY <1>5 DEF Batch
    <3>2. row \in Batch(r)
      BY <3>1 DEF Batch
    <3>3. ASSUME row \in Unit(r) PROVE FALSE
      <4>1. CASE grouped
        BY <1>1, <1>3, <3>1, <3>3, <4>1 DEF Parted
      <4>2. CASE ~ grouped
        <5>1. \A a \in Unit(r) : a = row
          BY <1>1, <1>3, <3>3, <4>2 DEF Parted
        <5>2. \A b \in w : b = row
          BY <1>1, <3>1, <4>2 DEF Parted
        <5> QED
          BY <3>1, <3>3, <5>1, <5>2
      <4> QED
        BY <4>1, <4>2
    <3> QED
      BY <3>2, <3>3
  <2>2. Done(r)' = Done(r) \cup Unit(r)
    BY <1>2, <1>5 DEF Done
  <2>3. Batch(r)' \cap Done(r)' = {}
    BY <1>1, <2>1, <2>2 DEF Fresh
  <2>4. \A q \in Runners \ {r} : Batch(q)' = {}
    BY <1>4, <1>7 DEF Batch
  <2> QED
    BY <2>3, <2>4 DEF Fresh
<1> QED
  BY <1>6, <1>11, <1>12

LEMMA OthersLInv ==
  ASSUME ~ Stalls, LInv, UNCHANGED <<grouped, acked, mes, ever, run, faults>>,
         \/ \E row \in Rows : retry(row)
         \/ \E k \in Keys : send(k)
         \/ leaseExpires
         \/ UNCHANGED vars
  PROVE  Alone' /\ Latest' /\ Fresh'
<1>1. IInv /\ Typed /\ Alone /\ Latest /\ Fresh
  BY DEF LInv, IInv
<1>2. Fresh'
  BY <1>1 DEF Fresh, Batch, Done
<1>3. \A k \in Keys : sent[k] <= sent'[k]
  <2>1. CASE sent' = sent
    BY <1>1, <2>1 DEF Typed
  <2>2. CASE \E k \in Keys : send(k)
    BY <1>1, <2>2 DEF send, Typed
  <2> QED
    BY <2>1, <2>2 DEF retry, leaseExpires, data, vars
<1>4. IInv'
  BY InvOthers, <1>1
<1>5. Latest'
  <2>1. \A k \in Keys : mes[k] \in Nat /\ sent[k] \in Nat /\ sent'[k] \in Nat
    BY <1>1, <1>4 DEF IInv, Typed
  <2>2. \A k \in Keys : mes'[k] <= sent'[k]
    BY <1>1, <1>3, <2>1 DEF Latest
  <2> QED
    BY <1>1, <2>2 DEF Latest
<1>6. Alone'
  <2>1. CASE lease' = lease
    BY <1>1, <2>1, AloneKept DEF Active
  <2>2. CASE leaseExpires
    <3>1. ~ Active(lease.owner)
      BY <2>2 DEF leaseExpires, Active
    <3>2. ASSUME NEW q \in Runners, Active(q) PROVE FALSE
      <4>1. lease = [owner |-> q, live |-> TRUE]
        BY <1>1, <3>2 DEF Alone
      <4>2. lease.owner = q
        BY <4>1
      <4> QED
        BY <3>1, <3>2, <4>2
    <3>3. ~ lease'.live
      BY <1>1, <2>2 DEF leaseExpires, Typed
    <3> QED
      BY <3>2, <3>3 DEF Alone, Active
  <2> QED
    BY <2>1, <2>2 DEF retry, send, vars
<1> QED
  BY <1>2, <1>5, <1>6

LEMMA InitLInv == Init => LInv
<1> SUFFICES ASSUME Init PROVE LInv
  OBVIOUS
<1>1. IInv
  BY InitIInv
<1>2. \A r \in Runners : run[r].pc = "idle" /\ run[r].units = {} /\ run[r].applied = {}
  BY DEF Init, NoRun
<1>3. Alone
  BY <1>2 DEF Init, Alone, Active
<1>4. Latest
  BY <1>2 DEF Init, Latest
<1>5. Fresh
  BY <1>2 DEF Fresh, Batch
<1> QED
  BY <1>1, <1>3, <1>4, <1>5 DEF LInv

LEMMA NextLInv == ~ Stalls /\ LInv /\ [Next]_vars => LInv'
<1> SUFFICES ASSUME ~ Stalls, LInv, [Next]_vars PROVE LInv'
  OBVIOUS
<1>1. IInv' /\ IInv /\ Typed /\ Alone
  BY NextIInv DEF LInv, IInv
<1>2. ASSUME NEW r \in Runners, Plain(r) PROVE Alone' /\ Latest' /\ Fresh'
  BY <1>1, <1>2, PlainShrinks, PlainLInv, PlainAlone
<1>3. ASSUME NEW r \in Runners, tick(r) \/ applyFails(r) \/ statementFails(r) \/ crash(r) \/ stop(r)
      PROVE  Alone' /\ Latest' /\ Fresh'
  <2>1. Plain(r) \/ fetch(r) \/ apply(r)
    BY <1>3 DEF tick, Plain
  <2> QED
    BY <1>2, <2>1, FetchLInv, ApplyLInv
<1>4. ASSUME NEW row \in Rows, retry(row) PROVE Alone' /\ Latest' /\ Fresh'
  BY <1>4, OthersLInv DEF retry
<1>5. ASSUME NEW k \in Keys, send(k) PROVE Alone' /\ Latest' /\ Fresh'
  BY <1>5, OthersLInv DEF send
<1>6. ASSUME leaseExpires PROVE Alone' /\ Latest' /\ Fresh'
  BY <1>6, OthersLInv DEF leaseExpires, data
<1>7. ASSUME UNCHANGED vars PROVE Alone' /\ Latest' /\ Fresh'
  BY <1>7, OthersLInv DEF vars
<1>8. Alone' /\ Latest' /\ Fresh'
  BY <1>3, <1>4, <1>5, <1>6, <1>7 DEF Next
<1> QED
  BY <1>1, <1>8 DEF LInv

LEMMA LatestFlags == LInv => FlagsAreTrue
<1> SUFFICES ASSUME LInv PROVE AckedIsApplied /\ AckedIsLatest
  BY DEF FlagsAreTrue
<1>1. Typed /\ AckedIsApplied /\ Latest
  BY DEF LInv, IInv
<1>2. ASSUME NEW k \in Keys, \A v \in 1 .. sent[k] : <<k, v>> \in acked PROVE mes[k] = sent[k]
  <2>1. mes[k] \in Nat /\ sent[k] \in Nat /\ mes[k] <= sent[k]
    BY <1>1 DEF Typed, Latest
  <2>2. CASE sent[k] = 0
    BY <2>1, <2>2
  <2>3. CASE sent[k] # 0
    <3>1. <<k, sent[k]>> \in acked
      BY <1>2, <2>1, <2>3
    <3>2. <<k, sent[k]>>[2] <= mes[<<k, sent[k]>>[1]]
      BY <1>1, <3>1 DEF Latest
    <3>3. sent[k] <= mes[k]
      BY <3>2
    <3> QED
      BY <2>1, <3>3
  <2> QED
    BY <2>2, <2>3
<1> QED
  BY <1>1, <1>2 DEF AckedIsLatest
-----------------------------------------------------------------------------
(* What holds of every behaviour. *)

(* Reading a table keeps the types of its state. *)
THEOREM SpecTypeOK == Spec => []TypeOK
<1>1. IInv => TypeOK
  BY TypedIsTypeOK DEF IInv
<1> QED
  BY <1>1, InitIInv, NextIInv, PTL DEF Spec

(* A row is not applied before the earlier versions of its key            *)
(* (InboundCycle.run: units in order, blocked keys, the cursor of          *)
(* fetchPending), whoever holds the lease.                                 *)
THEOREM SpecInOrder == Spec => []InOrder
<1>1. IInv => InOrder
  BY DEF IInv
<1> QED
  BY <1>1, InitIInv, NextIInv, PTL DEF Spec

(* A row flagged 'Y' in the ERP's database has been applied in the MES     *)
(* (InboundCycle.run: MES first, then RelayClient.ack), whoever holds the  *)
(* lease.                                                                  *)
THEOREM SpecAckedIsApplied == Spec => []AckedIsApplied
<1>1. IInv => AckedIsApplied
  BY DEF IInv
<1> QED
  BY <1>1, InitIInv, NextIInv, PTL DEF Spec

(* While no runner outlives its lease (SyncLease.acquire), a key whose     *)
(* rows are all flagged has its last version in the MES, whatever crashed  *)
(* or failed and was applied again.                                        *)
THEOREM SpecFlagsAreTrue == ASSUME ~ Stalls PROVE Spec => []FlagsAreTrue
<1>1. LInv /\ [Next]_vars => LInv'
  BY NextLInv
<1> QED
  BY <1>1, InitLInv, LatestFlags, PTL DEF Spec
=============================================================================
