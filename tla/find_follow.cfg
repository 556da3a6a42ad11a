SPECIFICATION GraphSpec
CONSTANTS
  Users = {alice, bob}
  NoUser = NoUser
  Calls = {c1}
  MaxEvents = 2
INVARIANTS
  NoFollowAcrossBlock
CHECK_DEADLOCK FALSE
