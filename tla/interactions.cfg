SPECIFICATION SocialSpec
CONSTANTS
  alice = alice
  bob = bob
  s1 = s1
  Users = {alice, bob}
  NoUser = NoUser
  Calls = {c1}
  MaxEvents = 3
  Stories = {s1}
  NoStory = NoStory
  Author <- MCAuthor
  Lists = {l1}
  NoList = NoList
  Emojis = {heart}
  NoEmoji = NoEmoji
  Keys = {k1}
  NoKey = NoKey
  Requests = {r1, r2}
  StoryTTL = 1
  Permits = {{"reply", "react"}, {"react"}}
SYMMETRY MCSymmetry
INVARIANTS
  InteractionsInv
PROPERTIES
  ImplementsAudienceGate
