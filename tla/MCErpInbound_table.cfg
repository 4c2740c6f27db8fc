CONSTANTS
  r1 = r1  r2 = r2
  Runners = {r1, r2}
  NoRunner = NoRunner
  Keys = {1, 2, 3}
  Versions <- MCVersions
  UnitOf <- MCUnitOf
  BATCH_SIZE = 2
  MAX_ATTEMPTS = 2
  Mortal = {r1}
  Stalls = FALSE
  MaxFaults = 2
SPECIFICATION FairSpec
INVARIANTS
  FlagsAreTrue
  InOrder
PROPERTIES
  EveryRowArrives
