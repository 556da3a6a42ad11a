SPECIFICATION Spec
CONSTANTS
  Uploads = {u1}
  Kinds = {"image"}
  Workers = {w1, w2}
  Cleaners = {c1}
  NoUpload = NoUpload
  Keys <- MCKeys
  IntentTTL = 1
  StoryLifetime = 1
  MediaLease = 0
  MaxAttempts = 2
  RetryUnit = 1
  MaxFinalizers = 2
  MaxAbandons = 1
  MaxCleanupAttempts = 1
  CleanupLease = 0
  CleanupRetryUnit = 1
  MaxCleanerCrashes = 0
SYMMETRY MCSymmetry
INVARIANTS
  IInv
PROPERTIES
  FinalizedOnce
  ImplementsLifecycle
