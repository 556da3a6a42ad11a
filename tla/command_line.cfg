SPECIFICATION CommandLineSpec
CONSTANTS
  Limit = 2
  MaxRetries = 2
  Shells = {p1, p2}
  Services = {s1, s2}
  NoService = NoService
  MaxCommands = 3
  Shelf <- MCShelf
  Videos = {"b"}
  NoItem = NoItem
  ItemTicks = 2
  MaxAnimations = 2
  MaxKeys = 4
  Hosts <- MCHosts
  MaxRuns = 3
  MaxTyped = 1
  upload = upload
  status = status
  Buckets = {upload, status}
  Burst <- MCBurst
  Per <- MCPer
  GCEvery = 1
  IdleAfter = 2
INVARIANTS
  CommandLineTypeOK
  OneStoryPerCommand
  ReplyMeetsItsItem
  WithinRate
  VerdictKept
PROPERTIES
  OthersUntouched
  ViewerEnds
CHECK_DEADLOCK FALSE
