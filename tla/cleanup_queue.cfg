SPECIFICATION FairSpec
CONSTANTS
  Keys = {k1, k2}
  Cleaners = {c1, c2}
  MaxCleanupAttempts = 2
  CleanupLease = 0
  CleanupRetryUnit = 1
  MaxCleanerCrashes = 1
  MaxRows = 2
INVARIANTS
  QueueInv
PROPERTIES
  ImplementsReclaimer
  NamedKeysSettle
