CONSTANTS
  r1 = r1  r2 = r2  r3 = r3  r4 = r4
  k1 = k1  k2 = k2  f1 = f1  f2 = f2
  NoRequest = NoRequest
  Requests <- MCRequests
  Keys <- MCKeys
  Fingerprints <- MCFingerprints
  KeyOf <- MCKeyOf
  FingerprintOf <- MCFingerprintOf
  PoolSize = 2
  Joined = TRUE
SPECIFICATION FairSpec
INVARIANTS
  AtMostOnce
  RecordMatchesWork
PROPERTIES
  ImplementsOnce
