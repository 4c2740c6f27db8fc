CONSTANTS
  r1 = r1  r2 = r2  d1 = d1  d2 = d2
  Runners = {r1, r2}
  NoRunner = NoRunner
  Deliveries = {d1, d2}
  NoDelivery = NoDelivery
  BATCH_SIZE = 2
  MAX_ATTEMPTS = 2
  Mortal = {r1}
  Lost = FALSE
  Replaced = {"app", "token"}
  MaxFaults = 1
  MaxKeys = 3
SPECIFICATION MCSpec
INVARIANTS
  TypeOK
  NeverTwice
  SentHasReached
PROPERTIES
  LiveKeyStands
  EveryDeliveryEnds
