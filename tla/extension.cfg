SPECIFICATION ExtensionSpec
CONSTANTS
  Parts = {"rings", "player", "composer"}
  Origins = {o1, o2}
  Home = o1
  NoOrigin = NoOrigin
  People = {p}
  Nobody = Nobody
  Logins = {l1}
  NoLogin = NoLogin
  MaxDisturbances = 2
  Avatars = {i1}
  Faces = {p1, p2}
  NoFace = NoFace
  Flights = {f1, f2}
  Fetches = {x1, x2}
  NoFetch = NoFetch
  BatchLimit = 1
  RingRetries = 3
  MaxMishaps = 2
  Tray <- MCTray
  NoStory = NoStory
  MaxTouches = 4
  MaxPosts = 2
  MaxEvictions = 1
INVARIANTS
  ExtensionTypeOK
  NoInventedAnswer
  PostedHasSettled
PROPERTIES
  AvatarsSettle
  OnlyShownIsFetched
  PlaysToTheEnd
  ProgressEnds
CHECK_DEADLOCK FALSE
