SPECIFICATION HandlersSpec
CONSTANTS
  WebLogins = {w1}
  DeviceLogins = {d1}
  Flows = {f1}
  NoGrant = NoGrant
  People = {alice, bob}
  Nobody = Nobody
  Tasks = {c1, c2}
  Users = {alice, bob}
  NoUser = NoUser
  Calls = {c1, c2}
  LoginTTL = 1
  PollBudget = 2
  MaxSessions = 2
  MaxEvents = 6
  Authors = {1, 2, 3}
  Me = 2
  Stories = {"m", "a", "b", "c"}
  AuthorOf <- MCAuthorOf
  DefaultLimit = 1
  MaxLimit = 2
  MaxTime = 2
  MaxFeedEvents = 5
SYMMETRY MCSymmetry
INVARIANTS
  SignInInv
  GraphInv
  FeedAsPromised
PROPERTIES
  ImplementsOneTimeGrant
  BlocksStand
  TombstonesHold
CHECK_DEADLOCK FALSE
