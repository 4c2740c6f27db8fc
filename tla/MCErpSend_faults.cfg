CONSTANTS
  r1 = r1  r2 = r2  m1 = m1  m2 = m2
  Runners = {r1, r2}
  NoRunner = NoRunner
  Messages = {m1, m2}
  NoMessage = NoMessage
  Lines = {1}
  BATCH_SIZE = 3
  REPLY_BATCH = 1
  Mortal = {r1}
  UserRetries = TRUE
  Faults = {"relay", "mes", "stall"}
  MaxFaults = 2
  MaxSeq = 2
SPECIFICATION MCSpec
INVARIANTS
  NoDuplicateSend
  InProgressIsSent
  DoneMeansApplied
PROPERTIES
  DoneIsFinal
  QueueDrains
  AnswersArrive
