SPECIFICATION IdentitiesSpec
CONSTANTS
  Ids = {i1, i2}
  NoId = NoId
  Logins = {alice, bob, carol}
  Calls = {c1, c2}
  MaxCalls = 3
  MaxRenames = 2
INVARIANTS
  ImportSurvivesRename
CHECK_DEADLOCK FALSE
