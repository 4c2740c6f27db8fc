CONSTANTS
  r1 = r1  r2 = r2  d1 = d1  d2 = d2
  Runners = {r2}
  NoRunner = NoRunner
  Deliveries = {d1}
  NoDelivery = NoDelivery
  BATCH_SIZE = 2
  MAX_ATTEMPTS = 2
  Mortal = {}
  Lost = FALSE
  Replaced = {"app", "token"}
  MaxFaults = 0
  MaxKeys = 2
SPECIFICATION Spec
PROPERTIES
  GoodCredentialsStand
