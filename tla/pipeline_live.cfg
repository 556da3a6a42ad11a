SPECIFICATION FairSpec
CONSTANTS
  Uploads = {u1}
  Kinds = {"image", "thumb"}
  Workers = {w1}
  Cleaners = {c1}
  NoUpload = NoUpload
  Keys <- MCKeys
  IntentTTL = 0
  StoryLifetime = 1
  MediaLease = 0
  MaxAttempts = 1
  RetryUnit = 1
  MaxFinalizers = 1
  MaxAbandons = 1
  MaxCleanupAttempts = 1
  CleanupLease = 0
  CleanupRetryUnit = 1
  MaxCleanerCrashes = 1
INVARIANTS
  PublishedHasBytes
PROPERTIES
  ProcessingSettles
  PublishedBytesReclaimed
