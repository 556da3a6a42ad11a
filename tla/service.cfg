SPECIFICATION ServiceSpec
CONSTANTS
  Ids = {i1, i2}
  NoId = NoId
  Logins = {alice, bob, carol}
  Calls = {c1, c2}
  MaxCalls = 3
  MaxRenames = 2
  Uploads = {1, 2}
  Apis = {a1}
  Execs = {e1, e2}
  NoUpload = NoUpload
  Works <- MCWorks
  MaxProcessing = 5
  TriggerGap = 1
  MaxJobs = 1
  MaxDuration = 2
  TaskTimeout = 3
  MediaLease = 3
  SweepPeriod = 4
  RetryUnit = 1
  MaxAttempts = 2
  MaxFaults = 1
  Originals <- MCOriginals
  Edits <- MCEdits
  MaxOriginal = 2
  MaxSide = 6
  MaxPixels = 18
  MaxFrames = 2
  MaxMillis = 2
  DefaultFrames = 2
  CanonicalSide = 4
  ThumbSide = 1
  TerminalSide = 3
INVARIANTS
  ServiceTypeOK
  LoginsKept
  OneHolder
  ProcessedAsPromised
PROPERTIES
  CallsEnd
  UploadsSettle
CHECK_DEADLOCK FALSE
