CONSTANTS
  A = A  B = B  C = C  parent = parent  part = part  ok = ok  bad = bad
  k0 = k0  k1 = k1  k2 = k2  k3 = k3  k4 = k4  k5 = k5  k6 = k6  k7 = k7  k8 = k8  k9 = k9
  Txs = {t1, t2, t3}
  NoTx = NoTx  NoDim = NoDim  NoKey = NoKey
  Locations <- MCLocations
  Items <- MCItems
  Statuses <- MCStatuses
  Keys <- MCKeys
  Programs <- MCPrograms
  Opening <- MCOpening
  OpeningLedger <- MCOpeningLedger
  NegativeAllowed = {}
  Refusing <- MCRefusing
SPECIFICATION Spec
SYMMETRY TxSymmetry
INVARIANTS
  TypeOK
  BalanceIsLedger
  TriggerOnlyUnchecked
  DeadlockNeedsNewRow
PROPERTY ReverseNeverCollides
