CONSTANTS
  r1 = r1  r2 = r2  m1 = m1  m2 = m2
  Runners = {r1, r2}
  NoRunner = NoRunner
  Messages = {m1}
  NoMessage = NoMessage
  Lines = {1}
  BATCH_SIZE = 2
  REPLY_BATCH = 4
  Mortal = {r1}
  UserRetries = TRUE
  Faults = {}
  MaxFaults = 0
  MaxSeq = 1
SPECIFICATION FreshSpec
PROPERTIES
  AppliedIsDone
