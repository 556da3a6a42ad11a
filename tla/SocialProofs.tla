----------------------------- MODULE SocialProofs ------------------------------
(***************************************************************************)
(* Theorems about the social graph, for any number of people and calls,    *)
(* and about the interactions, for any number of Stories, lists and        *)
(* requests.  The argument about the graph is about one call at a time:    *)
(* what a check has found stays true of the tables unless the call is      *)
(* marked as overtaken.  The interactions add an invariant of their own,   *)
(* and implement the gate of AudienceGate.                                 *)
(***************************************************************************)
EXTENDS InteractionsProperties, SocialGraphProperties, TLAPS

-----------------------------------------------------------------------------
(* Rows *)

LEMMA UnfollowedRow ==
  ASSUME NEW row \in Relationship
  PROVE  /\ Unfollowed(row) \in Relationship
         /\ Unfollowed(row).state # "active"
         /\ Unfollowed(row).provenance = row.provenance
         /\ row.state # "active" => Unfollowed(row) = row
BY DEF Unfollowed, Relationship, NoRelationship

LEMMA FollowedRow ==
  ASSUME NEW row \in Relationship,
         NEW provenance \in {"github_import", "stories_native"}
  PROVE  /\ Followed(row, provenance) \in Relationship
         /\ Followed(row, provenance).state = "active"
         /\ row.provenance = "stories_native" =>
              Followed(row, provenance).provenance = "stories_native"
BY DEF Followed, Relationship, NoRelationship

LEMMA IdleHolds == IdleCall \in CallState /\ CallHolds(IdleCall)
BY SocialAssumption DEF IdleCall, CallState, CallHolds, SocialAssumption

\* What a call holds outlives every step that leaves its caller an account and
\* takes none of its checks away.
LEMMA StillHolds ==
  ASSUME NEW row \in CallState, CallHolds(row),
         row.pc # "idle" => account'[row.user] # "none",
         \A t \in row.checked \ row.overtaken :
           /\ <<row.user, t>> \in blocks' => <<row.user, t>> \in blocks
           /\ row.pc = "import" =>
                /\ <<t, row.user>> \in blocks' => <<t, row.user>> \in blocks
                /\ rel'[<<row.user, t>>].state = "unfollowed" =>
                     rel[<<row.user, t>>].state = "unfollowed"
  PROVE  CallHolds(row)'
BY DEF CallHolds

\* A step that touches the tables no check is about, and puts one call in a
\* state that holds.
LEMMA QuietStep ==
  ASSUME GraphInv, NEW c \in Calls, NEW row \in CallState, CallHolds(row),
         call' = [call EXCEPT ![c] = row],
         UNCHANGED <<account, rel, blocks>>,
         hides' \subseteq Users \X Users, notices' \subseteq Users \X Users,
         events' \in Nat
  PROVE  GraphInv'
<1>1. GraphTypeOK'
  BY DEF GraphInv, GraphTypeOK
<1>2. ASSUME NEW d \in Calls PROVE CallHolds(call[d])'
  <2>1. call'[d] \in CallState /\ CallHolds(call'[d])
    BY DEF GraphInv, GraphTypeOK
  <2> PICK now \in CallState : now = call'[d] /\ CallHolds(now)
    BY <2>1
  <2>2. CallHolds(now)'
    BY DEF CallHolds
  <2> QED  BY <2>2 DEF CallHolds
<1>3. SelfFree' /\ OwnersExist'
  BY DEF GraphInv, SelfFree, OwnersExist
<1> QED  BY <1>1, <1>2, <1>3 DEF GraphInv

LEMMA QuietFinish ==
  ASSUME GraphInv, NEW c \in Calls, Finish(c),
         UNCHANGED <<account, rel, blocks>>,
         hides' \subseteq Users \X Users, notices' \subseteq Users \X Users,
         events' \in Nat
  PROVE  GraphInv'
BY IdleHolds, QuietStep DEF Finish

-----------------------------------------------------------------------------
(* Steps that leave accounts, follows and blocks alone *)

LEMMA RequestBegins ==
  ASSUME GraphInv, NEW c \in Calls, NEW u \in Users, NEW t \in Users,
         NEW kind \in {"follow", "unfollow", "block", "unblock", "hide", "unhide"},
         Request(c, kind, u, t)
  PROVE  GraphInv'
<1> DEFINE row == [IdleCall EXCEPT !.pc = kind, !.user = u, !.target = t]
<1>1. row \in CallState
  BY DEF CallState, IdleCall
<1>2. CallHolds(row)
  BY DEF CallHolds, IdleCall, Request, Active
<1>3. events' \in Nat
  BY DEF GraphInv, GraphTypeOK, Request, CountEvent
<1>4. hides' \subseteq Users \X Users /\ notices' \subseteq Users \X Users
  BY DEF GraphInv, GraphTypeOK, Request
<1>5. call' = [call EXCEPT ![c] = row]
  BY DEF Request
<1> HIDE DEF row
<1> QED  BY <1>1, <1>2, <1>3, <1>4, <1>5, QuietStep DEF Request

LEMMA RequestDeletionStep ==
  ASSUME GraphInv, NEW c \in Calls, NEW u \in Users, RequestDeletion(c, u)
  PROVE  GraphInv'
<1> DEFINE row == [IdleCall EXCEPT !.pc = "delete", !.user = u]
<1>1. row \in CallState
  BY DEF CallState, IdleCall
<1>2. CallHolds(row)
  BY SocialAssumption
     DEF CallHolds, IdleCall, RequestDeletion, Active, SocialAssumption
<1>3. events' \in Nat
  BY DEF GraphInv, GraphTypeOK, RequestDeletion, CountEvent
<1>4. hides' \subseteq Users \X Users /\ notices' \subseteq Users \X Users
  BY DEF GraphInv, GraphTypeOK, RequestDeletion
<1>5. call' = [call EXCEPT ![c] = row]
  BY DEF RequestDeletion
<1> HIDE DEF row
<1> QED  BY <1>1, <1>2, <1>3, <1>4, <1>5, QuietStep DEF RequestDeletion

LEMMA CheckFollowStep ==
  ASSUME GraphInv, NEW c \in Calls, CheckFollow(c)
  PROVE  GraphInv'
<1> PICK now \in CallState : now = call[c] /\ CallHolds(now)
  BY DEF GraphInv, GraphTypeOK
<1>1. CASE <<now.user, now.target>> \notin blocks
  <2> DEFINE row == [now EXCEPT !.pc = "clear", !.checked = {now.target}]
  <2>1. now.pc = "follow" /\ now.target \in Users
    BY DEF CheckFollow, CallHolds
  <2>2. row \in CallState
    BY <2>1 DEF CallState
  <2>3. now.todo = {} \/ now.user \notin now.todo
    BY DEF CallHolds
  <2>4. CallHolds(row)
    BY <1>1, <2>1, <2>3 DEF CallHolds, CallState
  <2>5. call' = [call EXCEPT ![c] = row]
    BY <1>1 DEF CheckFollow, GraphInv, GraphTypeOK
  <2>6. hides' \subseteq Users \X Users /\ notices' \subseteq Users \X Users
        /\ events' \in Nat
    BY DEF GraphInv, GraphTypeOK, CheckFollow
  <2> HIDE DEF row
  <2> QED  BY <2>2, <2>4, <2>5, <2>6, QuietStep DEF CheckFollow
<1>2. CASE <<now.user, now.target>> \in blocks
  <2>1. Finish(c)
    BY <1>2 DEF CheckFollow
  <2>2. hides' \subseteq Users \X Users /\ notices' \subseteq Users \X Users
        /\ events' \in Nat
    BY DEF GraphInv, GraphTypeOK, CheckFollow
  <2> QED  BY <2>1, <2>2, QuietFinish DEF CheckFollow
<1> QED  BY <1>1, <1>2

LEMMA NotifyFollowStep ==
  ASSUME GraphInv, NEW c \in Calls, NotifyFollow(c)
  PROVE  GraphInv'
<1>1. call[c].target \in Users /\ call[c].user \in Users
  BY DEF GraphInv, CallHolds, NotifyFollow
<1>2. notices' \subseteq Users \X Users
  BY <1>1 DEF NotifyFollow, GraphInv, GraphTypeOK
<1>3. hides' \subseteq Users \X Users /\ events' \in Nat
  BY DEF NotifyFollow, GraphInv, GraphTypeOK
<1> QED  BY <1>2, <1>3, QuietFinish DEF NotifyFollow

LEMMA StartImportStep ==
  ASSUME GraphInv, NEW c \in Calls, NEW u \in Users, NEW identities \in SUBSET Users,
         StartImport(c, u, identities)
  PROVE  GraphInv'
<1> DEFINE row == [IdleCall EXCEPT !.pc = "import", !.user = u, !.todo = identities]
<1>1. row \in CallState
  BY DEF CallState, IdleCall
<1>2. CallHolds(row)
  BY SocialAssumption DEF CallHolds, IdleCall, StartImport, SocialAssumption
<1>3. events' \in Nat
  BY DEF GraphInv, GraphTypeOK, StartImport, CountEvent
<1>4. hides' \subseteq Users \X Users /\ notices' \subseteq Users \X Users
  BY DEF GraphInv, GraphTypeOK, StartImport
<1>5. call' = [call EXCEPT ![c] = row]
  BY DEF StartImport
<1> HIDE DEF row
<1> QED  BY <1>1, <1>2, <1>3, <1>4, <1>5, QuietStep DEF StartImport

LEMMA ImportCheckStep ==
  ASSUME GraphInv, NEW c \in Calls, NEW t \in Users, ImportCheck(c, t)
  PROVE  GraphInv'
<1> PICK now \in CallState : now = call[c] /\ CallHolds(now)
  BY DEF GraphInv, GraphTypeOK
<1> DEFINE checked == IF Importable(now.user, t) THEN now.checked \cup {t}
                      ELSE now.checked
           row == [now EXCEPT !.todo = @ \ {t}, !.checked = checked]
<1>1. now.pc = "import" /\ t \in now.todo
  BY DEF ImportCheck
<1>2. Importable(now.user, t) =>
        /\ <<now.user, t>> \notin blocks /\ <<t, now.user>> \notin blocks
        /\ rel[<<now.user, t>>].state # "unfollowed"
  BY DEF Importable, BlockedBetween, NoRelationship
<1>3. row \in CallState
  BY DEF CallState
<1>4. row.user = now.user /\ row.pc = "import" /\ row.target = now.target
      /\ row.todo = now.todo \ {t} /\ row.checked = checked
      /\ row.overtaken = now.overtaken
  BY <1>1 DEF CallState
<1>5. call' = [call EXCEPT ![c] = row]
  BY DEF ImportCheck, GraphInv, GraphTypeOK, CallState
<1> HIDE DEF row
<1>6. CallHolds(row)
  BY <1>1, <1>2, <1>4 DEF CallHolds
<1>7. hides' \subseteq Users \X Users /\ notices' \subseteq Users \X Users
      /\ events' \in Nat
  BY DEF GraphInv, GraphTypeOK, ImportCheck
<1> QED  BY <1>3, <1>5, <1>6, <1>7, QuietStep DEF ImportCheck

LEMMA SetHideStep ==
  ASSUME GraphInv, NEW c \in Calls, SetHide(c)
  PROVE  GraphInv'
<1>1. call[c].target \in Users /\ call[c].user \in Users
  BY DEF GraphInv, CallHolds, SetHide
<1>2. hides' \subseteq Users \X Users
  BY <1>1 DEF SetHide, GraphInv, GraphTypeOK
<1>3. notices' \subseteq Users \X Users /\ events' \in Nat
  BY DEF SetHide, GraphInv, GraphTypeOK
<1> QED  BY <1>2, <1>3, QuietFinish DEF SetHide

LEMMA CallEndsStep ==
  ASSUME GraphInv, NEW c \in Calls, CallEnds(c)
  PROVE  GraphInv'
<1>1. hides' \subseteq Users \X Users /\ notices' \subseteq Users \X Users
      /\ events' \in Nat
  BY DEF CallEnds, GraphInv, GraphTypeOK
<1> QED  BY <1>1, QuietFinish DEF CallEnds

-----------------------------------------------------------------------------
(* Steps that change follows and blocks *)

LEMMA FollowStepHolds ==
  ASSUME GraphInv, NEW c \in Calls, Follow(c)
  PROVE  GraphInv'
<1> PICK now \in CallState : now = call[c] /\ CallHolds(now)
  BY DEF GraphInv, GraphTypeOK
<1> DEFINE pair == <<now.user, now.target>>
           row == [now EXCEPT !.pc = "followed"]
<1>1. /\ now.pc = "clear" /\ now.user \in Users /\ now.target \in Users
      /\ now.target # now.user /\ account[now.user] # "none"
  BY DEF Follow, CallHolds
<1>2. rel' = [rel EXCEPT ![pair] = Followed(rel[pair], "stories_native")]
  BY DEF Follow
<1>3. Followed(rel[pair], "stories_native") \in Relationship
  BY <1>1, FollowedRow DEF GraphInv, GraphTypeOK
<1>4. rel' \in [Users \X Users -> Relationship]
  BY <1>1, <1>2, <1>3 DEF GraphInv, GraphTypeOK
<1>5. row \in CallState /\ call' = [call EXCEPT ![c] = row]
  BY DEF CallState, Follow, GraphInv, GraphTypeOK
<1>6. GraphTypeOK'
  BY <1>4, <1>5 DEF GraphInv, GraphTypeOK, Follow
<1>7. ASSUME NEW p \in Users \X Users
      PROVE  rel'[p].state = "unfollowed" => rel[p].state = "unfollowed"
  BY <1>1, <1>2, FollowedRow DEF GraphInv, GraphTypeOK
<1>8. CallHolds(row)
  BY <1>1 DEF CallHolds, CallState
<1>9. ASSUME NEW d \in Calls PROVE CallHolds(call[d])'
  <2>1. call'[d] \in CallState /\ CallHolds(call'[d])
    BY <1>5, <1>8 DEF GraphInv, GraphTypeOK
  <2> PICK next \in CallState : next = call'[d] /\ CallHolds(next)
    BY <2>1
  <2>2. next.pc # "idle" => next.user \in Users /\ account[next.user] # "none"
    BY DEF CallHolds
  <2>3. CallHolds(next)'
    BY <1>7, <2>2, StillHolds DEF Follow, CallState
  <2> QED  BY <2>3 DEF CallHolds
<1>10. SelfFree'
  BY <1>1, <1>2 DEF SelfFree, GraphInv, GraphTypeOK, Follow
<1>11. OwnersExist'
  BY <1>1, <1>2 DEF OwnersExist, GraphInv, GraphTypeOK, Follow
<1> QED  BY <1>6, <1>9, <1>10, <1>11 DEF GraphInv

\* What a call holds, overtaken by the loss of follows in pairs.
LEMMA OvertakenHolds ==
  ASSUME NEW row \in CallState, CallHolds(row), NEW pairs \in SUBSET (Users \X Users),
         rel \in [Users \X Users -> Relationship],
         rel' \in [Users \X Users -> Relationship],
         UNCHANGED account,
         \A p \in Users \X Users :
           p \notin pairs => rel'[p] = rel[p],
         \A p \in Users \X Users :
           p \in blocks' => p \in blocks \/ p \in pairs,
         \A p \in Users \X Users : p \in pairs /\ p \notin blocks
           /\ p \in blocks' => <<p[2], p[1]>> \in pairs,
         blocks' \subseteq Users \X Users
  PROVE  LET next == [row EXCEPT !.overtaken =
                        @ \cup {t \in row.checked : <<row.user, t>> \in pairs}]
         IN  next \in CallState /\ CallHolds(next)'
<1> DEFINE lost == {t \in row.checked : <<row.user, t>> \in pairs}
           next == [row EXCEPT !.overtaken = @ \cup lost]
<1>1. next \in CallState
  BY DEF CallState
<1>2. /\ next.pc = row.pc /\ next.user = row.user /\ next.target = row.target
      /\ next.todo = row.todo /\ next.checked = row.checked
      /\ next.overtaken = row.overtaken \cup lost
  BY DEF CallState
<1>3. ASSUME NEW t \in row.checked \ (row.overtaken \cup lost)
      PROVE  /\ <<row.user, t>> \notin blocks'
             /\ row.pc = "import" =>
                  /\ <<t, row.user>> \notin blocks'
                  /\ rel'[<<row.user, t>>].state # "unfollowed"
  <2>1. t \in Users /\ <<row.user, t>> \notin pairs /\ <<row.user, t>> \notin blocks
    BY DEF CallState, CallHolds
  <2>2. <<row.user, t>> \notin blocks'
    BY <2>1
  <2>3. ASSUME row.pc = "import"
        PROVE  /\ <<t, row.user>> \notin blocks'
               /\ rel'[<<row.user, t>>].state # "unfollowed"
    <3>1. row.user \in Users /\ <<t, row.user>> \notin blocks
          /\ rel[<<row.user, t>>].state # "unfollowed"
      BY <2>3, <1>3 DEF CallHolds
    <3>2. rel'[<<row.user, t>>] = rel[<<row.user, t>>]
      BY <2>1, <3>1
    <3>3. <<t, row.user>> \notin blocks'
      BY <2>1, <3>1
    <3> QED  BY <3>1, <3>2, <3>3
  <2> QED  BY <2>2, <2>3
<1> HIDE DEF next
<1>4. CallHolds(next)'
  BY <1>2, <1>3 DEF CallHolds
<1> QED  BY <1>1, <1>4 DEF next

\* A step that takes follows away from the calls that had checked them.
LEMMA OvertakeStep ==
  ASSUME GraphInv, NEW c \in Calls, NEW pairs \in SUBSET (Users \X Users),
         Overtake(c, pairs),
         rel' \in [Users \X Users -> Relationship],
         UNCHANGED <<account, hides, notices, events>>,
         \A p \in Users \X Users :
           p \notin pairs => rel'[p] = rel[p],
         \A p \in Users \X Users :
           p \in blocks' => p \in blocks \/ p \in pairs,
         \A p \in Users \X Users : p \in pairs /\ p \notin blocks
           /\ p \in blocks' => <<p[2], p[1]>> \in pairs,
         blocks' \subseteq Users \X Users
  PROVE  GraphTypeOK' /\ \A d \in Calls : CallHolds(call[d])'
<1>1. ASSUME NEW d \in Calls
      PROVE  call'[d] \in CallState /\ CallHolds(call[d])'
  <2>1. CASE d = c
    <3>1. call'[d] = IdleCall
      BY <2>1 DEF Overtake
    <3> QED  BY <3>1, IdleHolds, SocialAssumption
             DEF CallHolds, IdleCall, CallState, SocialAssumption
  <2>2. CASE d # c
    <3> PICK row \in CallState : row = call[d] /\ CallHolds(row)
      BY DEF GraphInv, GraphTypeOK
    <3> DEFINE next == [row EXCEPT !.overtaken =
                          @ \cup {t \in row.checked : <<row.user, t>> \in pairs}]
    <3>1. next \in CallState /\ CallHolds(next)'
      BY OvertakenHolds DEF GraphInv, GraphTypeOK
    <3>2. call'[d] = next
      BY <2>2 DEF Overtake
    <3> HIDE DEF next
    <3> QED  BY <3>1, <3>2 DEF CallHolds
  <2> QED  BY <2>1, <2>2
<1>2. call' \in [Calls -> CallState]
  BY <1>1 DEF Overtake
<1> QED  BY <1>1, <1>2 DEF GraphInv, GraphTypeOK

LEMMA UnfollowStep ==
  ASSUME GraphInv, NEW c \in Calls, Unfollow(c)
  PROVE  GraphInv'
<1> PICK now \in CallState : now = call[c] /\ CallHolds(now)
  BY DEF GraphInv, GraphTypeOK
<1> DEFINE pair == <<now.user, now.target>>
<1>1. now.user \in Users /\ now.target \in Users /\ now.target # now.user
  BY DEF Unfollow, CallHolds
<1>2. rel' = [rel EXCEPT ![pair] = Unfollowed(rel[pair])]
  BY DEF Unfollow
<1>3. Unfollowed(rel[pair]) \in Relationship
  BY <1>1, UnfollowedRow DEF GraphInv, GraphTypeOK
<1>4. rel' \in [Users \X Users -> Relationship]
  BY <1>1, <1>2, <1>3 DEF GraphInv, GraphTypeOK
<1>5. GraphTypeOK' /\ \A d \in Calls : CallHolds(call[d])'
  <2>1. {pair} \in SUBSET (Users \X Users) /\ Overtake(c, {pair})
    BY <1>1 DEF Unfollow
  <2>2. \A p \in Users \X Users : p \notin {pair} => rel'[p] = rel[p]
    BY <1>2 DEF GraphInv, GraphTypeOK
  <2>3. blocks' = blocks /\ blocks \subseteq Users \X Users
        /\ UNCHANGED <<account, hides, notices, events>>
    BY DEF Unfollow, GraphInv, GraphTypeOK
  <2> HIDE DEF pair
  <2> QED  BY <1>4, <2>1, <2>2, <2>3, OvertakeStep
<1>6. SelfFree'
  BY <1>1, <1>2 DEF SelfFree, GraphInv, GraphTypeOK, Unfollow
<1>7. NoRelationship \in Relationship /\ Unfollowed(NoRelationship) = NoRelationship
  BY DEF NoRelationship, Unfollowed, Relationship
<1>8. OwnersExist'
  BY <1>1, <1>2, <1>7 DEF OwnersExist, GraphInv, GraphTypeOK, Unfollow
<1> QED  BY <1>5, <1>6, <1>8 DEF GraphInv

LEMMA SeveredRows ==
  ASSUME rel \in [Users \X Users -> Relationship],
         NEW u \in Users, NEW t \in Users, u # t
  PROVE  /\ Severed(u, t) \in [Users \X Users -> Relationship]
         /\ \A p \in Users \X Users :
              Severed(u, t)[p] = IF p \in {<<u, t>>, <<t, u>>}
                                 THEN Unfollowed(rel[p]) ELSE rel[p]
<1>1. \A p \in Users \X Users : Unfollowed(rel[p]) \in Relationship
  BY UnfollowedRow
<1>2. <<u, t>> # <<t, u>>
  OBVIOUS
<1> QED  BY <1>1, <1>2 DEF Severed

LEMMA SetBlockStep ==
  ASSUME GraphInv, NEW c \in Calls, SetBlock(c)
  PROVE  GraphInv'
<1> PICK now \in CallState : now = call[c] /\ CallHolds(now)
  BY DEF GraphInv, GraphTypeOK
<1> PICK u \in Users, t \in Users : u = now.user /\ t = now.target
  BY DEF SetBlock, CallHolds
<1> DEFINE pairs == {<<u, t>>, <<t, u>>}
<1>1. u # t /\ account[u] # "none"
  BY DEF SetBlock, CallHolds
<1>2. rel' \in [Users \X Users -> Relationship]
      /\ \A p \in Users \X Users :
           rel'[p] = IF p \in pairs THEN Unfollowed(rel[p]) ELSE rel[p]
  BY <1>1, SeveredRows DEF SetBlock, GraphInv, GraphTypeOK
<1>3. blocks' = blocks \cup {<<u, t>>} /\ blocks' \subseteq Users \X Users
  BY DEF SetBlock, GraphInv, GraphTypeOK
<1>4. GraphTypeOK' /\ \A d \in Calls : CallHolds(call[d])'
  <2>1. pairs \in SUBSET (Users \X Users) /\ Overtake(c, pairs)
    BY DEF SetBlock
  <2>2. \A p \in Users \X Users : p \notin pairs => rel'[p] = rel[p]
    BY <1>2
  <2>3. \A p \in Users \X Users : p \in blocks' => p \in blocks \/ p \in pairs
    BY <1>3
  <2>4. \A p \in Users \X Users : p \in pairs => <<p[2], p[1]>> \in pairs
    OBVIOUS
  <2>5. UNCHANGED <<account, hides, notices, events>>
    BY DEF SetBlock
  <2> HIDE DEF pairs
  <2> QED  BY <1>2, <1>3, <2>1, <2>2, <2>3, <2>4, <2>5, OvertakeStep
<1>5. SelfFree'
  BY <1>1, <1>2, <1>3 DEF SelfFree, GraphInv
<1>6. Unfollowed(NoRelationship) = NoRelationship
  BY DEF NoRelationship, Unfollowed
<1>7. OwnersExist'
  BY <1>1, <1>2, <1>3, <1>6 DEF OwnersExist, GraphInv, SetBlock
<1> QED  BY <1>4, <1>5, <1>7 DEF GraphInv

\* A step that finishes or drops calls, keeps their callers' accounts and
\* neither sets a block nor a tombstone.
LEMMA HarmlessStep ==
  ASSUME GraphInv,
         call' \in [Calls -> CallState],
         \A d \in Calls : call'[d] = IdleCall \/ call'[d] = call[d],
         \A d \in Calls : call'[d] # IdleCall /\ call[d].pc # "idle" =>
           account'[call[d].user] # "none",
         account' \in [Users -> {"none", "active", "suspended"}],
         rel' \in [Users \X Users -> Relationship],
         blocks' \subseteq blocks,
         hides' \subseteq Users \X Users, notices' \subseteq Users \X Users,
         events' \in Nat,
         \A p \in Users \X Users :
           rel'[p].state = "unfollowed" => rel[p].state = "unfollowed"
  PROVE  GraphTypeOK' /\ \A d \in Calls : CallHolds(call[d])'
<1>1. GraphTypeOK'
  BY DEF GraphInv, GraphTypeOK
<1>2. ASSUME NEW d \in Calls PROVE CallHolds(call[d])'
  <2>1. CASE call'[d] = IdleCall
    BY <2>1, SocialAssumption DEF CallHolds, IdleCall, SocialAssumption
  <2>2. CASE call'[d] = call[d] /\ call'[d] # IdleCall
    <3> PICK row \in CallState : row = call[d] /\ CallHolds(row)
      BY DEF GraphInv, GraphTypeOK
    <3>1. row.pc # "idle" => row.user \in Users /\ account'[row.user] # "none"
      BY <2>2 DEF CallHolds
    <3>2. CallHolds(row)'
      BY <3>1, StillHolds DEF CallState
    <3> QED  BY <2>2, <3>2 DEF CallHolds
  <2> QED  BY <2>1, <2>2
<1> QED  BY <1>1, <1>2

LEMMA ImportFollowsStep ==
  ASSUME GraphInv, NEW c \in Calls, ImportFollows(c)
  PROVE  GraphInv'
<1> PICK now \in CallState : now = call[c] /\ CallHolds(now)
  BY DEF GraphInv, GraphTypeOK
<1>1. now.user \in Users /\ account[now.user] # "none" /\ now.user \notin now.checked
  BY DEF ImportFollows, CallHolds
<1>2. rel' = [pair \in Users \X Users |->
                IF pair[1] = now.user /\ pair[2] \in now.checked
                THEN Followed(rel[pair], "github_import") ELSE rel[pair]]
  BY DEF ImportFollows
<1>3. \A p \in Users \X Users :
        /\ Followed(rel[p], "github_import") \in Relationship
        /\ Followed(rel[p], "github_import").state = "active"
  BY FollowedRow DEF GraphInv, GraphTypeOK
<1>4. rel' \in [Users \X Users -> Relationship]
  BY <1>2, <1>3 DEF GraphInv, GraphTypeOK
<1>5. \A p \in Users \X Users :
        rel'[p].state = "unfollowed" => rel[p].state = "unfollowed"
  BY <1>2, <1>3
<1>6. call' \in [Calls -> CallState]
      /\ \A d \in Calls : call'[d] = IdleCall \/ call'[d] = call[d]
  BY IdleHolds DEF ImportFollows, Finish, GraphInv, GraphTypeOK
<1>7. \A d \in Calls : call[d].pc # "idle" => account'[call[d].user] # "none"
  BY DEF ImportFollows, GraphInv, CallHolds
<1>8. GraphTypeOK' /\ \A d \in Calls : CallHolds(call[d])'
  BY <1>4, <1>5, <1>6, <1>7, HarmlessStep DEF ImportFollows, GraphInv, GraphTypeOK
<1>9. SelfFree'
  BY <1>1, <1>2 DEF SelfFree, GraphInv, ImportFollows
<1>10. OwnersExist'
  BY <1>1, <1>2 DEF OwnersExist, GraphInv, ImportFollows
<1> QED  BY <1>8, <1>9, <1>10 DEF GraphInv

LEMMA UnblockStep ==
  ASSUME GraphInv, NEW c \in Calls, Unblock(c)
  PROVE  GraphInv'
<1>1. call' \in [Calls -> CallState]
      /\ \A d \in Calls : call'[d] = IdleCall \/ call'[d] = call[d]
  BY IdleHolds DEF Unblock, Finish, GraphInv, GraphTypeOK
<1>2. \A d \in Calls : call[d].pc # "idle" => account'[call[d].user] # "none"
  BY DEF Unblock, GraphInv, CallHolds
<1>3. GraphTypeOK' /\ \A d \in Calls : CallHolds(call[d])'
  BY <1>1, <1>2, HarmlessStep DEF Unblock, GraphInv, GraphTypeOK
<1>4. SelfFree' /\ OwnersExist'
  BY DEF SelfFree, OwnersExist, GraphInv, Unblock
<1> QED  BY <1>3, <1>4 DEF GraphInv

LEMMA DeleteAccountStep ==
  ASSUME GraphInv, NEW c \in Calls, DeleteAccount(c)
  PROVE  GraphInv'
<1> PICK u \in Users : u = call[c].user
  BY DEF DeleteAccount, GraphInv, CallHolds
<1>1. account' = [account EXCEPT ![u] = "none"]
  BY DEF DeleteAccount
<1>2. rel' = [pair \in Users \X Users |->
                IF pair[1] = u THEN NoRelationship ELSE rel[pair]]
  BY DEF DeleteAccount
<1>3. NoRelationship \in Relationship /\ NoRelationship.state # "unfollowed"
  BY DEF NoRelationship, Relationship
<1>4. rel' \in [Users \X Users -> Relationship]
      /\ \A p \in Users \X Users :
           rel'[p].state = "unfollowed" => rel[p].state = "unfollowed"
  BY <1>2, <1>3 DEF GraphInv, GraphTypeOK
<1>5. call' = [d \in Calls |-> IF call[d].user = u THEN IdleCall ELSE call[d]]
  BY DEF DeleteAccount
<1>6. call' \in [Calls -> CallState]
      /\ \A d \in Calls : call'[d] = IdleCall \/ call'[d] = call[d]
  BY <1>5, IdleHolds DEF GraphInv, GraphTypeOK
<1>7. \A d \in Calls : call'[d] # IdleCall /\ call[d].pc # "idle" =>
        account'[call[d].user] # "none"
  BY <1>1, <1>5 DEF GraphInv, GraphTypeOK, CallHolds
<1>8. /\ blocks' \subseteq blocks /\ \A p \in blocks' : p[1] # u
      /\ hides' \subseteq Users \X Users /\ notices' \subseteq Users \X Users
      /\ events' \in Nat /\ account' \in [Users -> {"none", "active", "suspended"}]
  BY <1>1 DEF DeleteAccount, WithoutOwner, WithoutMention, GraphInv, GraphTypeOK
<1>9. GraphTypeOK' /\ \A d \in Calls : CallHolds(call[d])'
  BY <1>4, <1>6, <1>7, <1>8, HarmlessStep
<1>10. SelfFree'
  BY <1>2, <1>8 DEF SelfFree, GraphInv
<1>11. OwnersExist'
  BY <1>1, <1>2, <1>8 DEF OwnersExist, GraphInv, GraphTypeOK
<1> QED  BY <1>9, <1>10, <1>11 DEF GraphInv

\* EnsureUser, SuspendUser and UnsuspendUser: no account goes.
LEMMA AccountChange ==
  ASSUME GraphInv, NEW u \in Users, NEW state \in {"active", "suspended"},
         account' = [account EXCEPT ![u] = state],
         events' \in Nat,
         UNCHANGED <<rel, blocks, hides, notices, call>>
  PROVE  GraphInv'
<1>1. account' \in [Users -> {"none", "active", "suspended"}]
      /\ \A v \in Users : account'[v] = "none" => account[v] = "none"
  BY DEF GraphInv, GraphTypeOK
<1>2. \A d \in Calls : call[d].pc # "idle" => account'[call[d].user] # "none"
  BY <1>1 DEF GraphInv, CallHolds
<1>3. GraphTypeOK' /\ \A d \in Calls : CallHolds(call[d])'
  BY <1>1, <1>2, HarmlessStep DEF GraphInv, GraphTypeOK
<1>4. SelfFree' /\ OwnersExist'
  BY <1>1 DEF SelfFree, OwnersExist, GraphInv
<1> QED  BY <1>3, <1>4 DEF GraphInv

-----------------------------------------------------------------------------
(* The theorems *)

LEMMA InitHolds == GraphInit => GraphInv
<1> SUFFICES ASSUME GraphInit PROVE GraphInv
  OBVIOUS
<1>1. GraphTypeOK
  BY IdleHolds DEF GraphInit, GraphTypeOK, Relationship
<1>2. \A c \in Calls : CallHolds(call[c])
  BY IdleHolds DEF GraphInit
<1>3. SelfFree /\ OwnersExist
  BY DEF GraphInit, SelfFree, OwnersExist
<1> QED  BY <1>1, <1>2, <1>3 DEF GraphInv

LEMMA StepHolds == GraphInv /\ [GraphNext]_graphVars => GraphInv'
<1> SUFFICES ASSUME GraphInv, [GraphNext]_graphVars PROVE GraphInv'
  OBVIOUS
<1>1. ASSUME NEW c \in Calls, AnyRequest(c) PROVE GraphInv'
  BY <1>1, RequestBegins DEF AnyRequest
<1>2. ASSUME NEW c \in Calls, FollowStep(c) PROVE GraphInv'
  BY <1>2, CheckFollowStep, FollowStepHolds, NotifyFollowStep, UnfollowStep
     DEF FollowStep
<1>3. ASSUME NEW c \in Calls, ImportStep(c) PROVE GraphInv'
  BY <1>3, StartImportStep, ImportCheckStep, ImportFollowsStep DEF ImportStep
<1>4. ASSUME NEW c \in Calls, RuleStep(c) PROVE GraphInv'
  BY <1>4, SetBlockStep, UnblockStep, SetHideStep DEF RuleStep
<1>5. ASSUME AccountStep PROVE GraphInv'
  <2>1. ASSUME NEW u \in Users, EnsureUser(u) \/ UnsuspendUser(u) \/ SuspendUser(u)
        PROVE  GraphInv'
    <3>1. events' \in Nat
      BY <2>1 DEF EnsureUser, UnsuspendUser, SuspendUser, CountEvent, GraphInv,
                  GraphTypeOK
    <3> QED  BY <2>1, <3>1, AccountChange
             DEF EnsureUser, UnsuspendUser, SuspendUser
  <2> QED  BY <1>5, <2>1, RequestDeletionStep DEF AccountStep
<1>6. CASE UNCHANGED graphVars
  BY <1>6 DEF graphVars, GraphInv, GraphTypeOK, CallHolds, SelfFree, OwnersExist
<1> QED  BY <1>1, <1>2, <1>3, <1>4, <1>5, <1>6, CallEndsStep, DeleteAccountStep
         DEF GraphNext, GraphStep

\* Whatever the people and calls: types, what a call in progress holds, nobody
\* related to oneself and no row without its owner.
THEOREM Invariance == GraphSpec => []GraphInv
BY InitHolds, StepHolds, PTL DEF GraphSpec

\* The steps that touch follows and blocks.
LEMMA TableSteps ==
  ASSUME [GraphNext]_graphVars
  PROVE  \/ UNCHANGED <<rel, blocks>>
         \/ \E c \in Calls :
              \/ Follow(c) \/ Unfollow(c) \/ ImportFollows(c)
              \/ SetBlock(c) \/ Unblock(c) \/ DeleteAccount(c)
<1>1. ASSUME NEW c \in Calls,
             \/ AnyRequest(c) \/ CheckFollow(c) \/ NotifyFollow(c) \/ SetHide(c)
             \/ CallEnds(c)
             \/ \E u \in Users, identities \in SUBSET Users :
                  StartImport(c, u, identities)
             \/ \E t \in Users : ImportCheck(c, t)
      PROVE  UNCHANGED <<rel, blocks>>
  BY <1>1 DEF AnyRequest, Request, CheckFollow, NotifyFollow, SetHide, CallEnds,
              StartImport, ImportCheck
<1>2. ASSUME AccountStep PROVE UNCHANGED <<rel, blocks>>
  BY <1>2 DEF AccountStep, RequestDeletion, EnsureUser, SuspendUser, UnsuspendUser
<1>3. CASE UNCHANGED graphVars
  BY <1>3 DEF graphVars
<1> QED  BY <1>1, <1>2, <1>3
         DEF GraphNext, GraphStep, FollowStep, ImportStep, RuleStep

\* No follow comes to stand across a block, except by a request that was checked
\* before the block or by the blocked party's own native follow.
THEOREM BlocksHoldHolds == GraphSpec => BlocksHold
<1>1. ASSUME GraphInv, [GraphNext]_graphVars, NEW u \in Users, NEW t \in Users,
             FollowAcross(u, t)', ~FollowAcross(u, t)
      PROVE  \E c \in Calls : MayCross(c, u, t)
  <2>1. <<u, t>> \in Users \X Users /\ rel \in [Users \X Users -> Relationship]
    BY <1>1 DEF GraphInv, GraphTypeOK
  <2>2. rel'[<<u, t>>].state = "active"
        /\ (<<u, t>> \in blocks' \/ <<t, u>> \in blocks')
    BY <1>1 DEF FollowAcross, Follows, BlockedBetween
  <2>3. rel[<<u, t>>].state # "active" \/ (<<u, t>> \notin blocks /\ <<t, u>> \notin blocks)
    BY <1>1 DEF FollowAcross, Follows, BlockedBetween
  <2>4. ASSUME NEW c \in Calls, Follow(c)
        PROVE  MayCross(c, u, t)
    <3>1. call[c].user = u /\ call[c].target = t
      BY <2>1, <2>2, <2>3, <2>4 DEF Follow
    <3> QED  BY <1>1, <2>4, <3>1 DEF Follow, GraphInv, CallHolds, MayCross
  <2>5. ASSUME NEW c \in Calls, ImportFollows(c)
        PROVE  MayCross(c, u, t)
    <3>1. call[c].user = u /\ t \in call[c].checked /\ call[c].pc = "import"
      BY <2>1, <2>2, <2>3, <2>5 DEF ImportFollows
    <3>2. <<u, t>> \in blocks \/ <<t, u>> \in blocks
      BY <2>2, <2>5 DEF ImportFollows
    <3> QED  BY <1>1, <3>1, <3>2 DEF GraphInv, CallHolds, MayCross
  <2>6. ASSUME NEW c \in Calls, Unfollow(c) \/ Unblock(c) \/ DeleteAccount(c)
        PROVE  FALSE
    <3>1. CASE Unfollow(c)
      <4>1. rel' = [rel EXCEPT ![<<call[c].user, call[c].target>>] = Unfollowed(@)]
            /\ blocks' = blocks
        BY <3>1 DEF Unfollow
      <4>2. rel'[<<u, t>>] = rel[<<u, t>>] \/ rel'[<<u, t>>] = Unfollowed(rel[<<u, t>>])
        BY <2>1, <4>1
      <4> QED  BY <2>1, <2>2, <2>3, <4>1, <4>2, UnfollowedRow
    <3>2. CASE Unblock(c)
      BY <2>2, <2>3, <3>2 DEF Unblock
    <3>3. CASE DeleteAccount(c)
      BY <2>1, <2>2, <2>3, <3>3 DEF DeleteAccount, WithoutOwner, NoRelationship
    <3> QED  BY <2>6, <3>1, <3>2, <3>3
  <2>7. ASSUME NEW c \in Calls, SetBlock(c)
        PROVE  FALSE
    <3> PICK a \in Users, b \in Users : a = call[c].user /\ b = call[c].target /\ a # b
      BY <1>1, <2>7 DEF SetBlock, GraphInv, CallHolds
    <3>1. rel'[<<u, t>>] = IF <<u, t>> \in {<<a, b>>, <<b, a>>}
                           THEN Unfollowed(rel[<<u, t>>]) ELSE rel[<<u, t>>]
      BY <2>1, <2>7, SeveredRows DEF SetBlock
    <3>2. <<u, t>> \notin {<<a, b>>, <<b, a>>} /\ rel[<<u, t>>].state = "active"
      BY <2>1, <2>2, <3>1, UnfollowedRow
    <3>3. blocks' = blocks \cup {<<a, b>>}
      BY <2>7 DEF SetBlock
    <3> QED  BY <2>2, <2>3, <3>2, <3>3
  <2>8. CASE UNCHANGED <<rel, blocks>>
    BY <2>2, <2>3, <2>8
  <2> QED  BY <1>1, <2>4, <2>5, <2>6, <2>7, <2>8, TableSteps
<1>2. GraphInv /\ [GraphNext]_graphVars =>
        [\A u, t \in Users :
           FollowAcross(u, t)' /\ ~FollowAcross(u, t) =>
             \E c \in Calls : MayCross(c, u, t)]_graphVars
  BY <1>1
<1> QED  BY <1>2, Invariance, PTL DEF GraphSpec, BlocksHold

\* A tombstone outlives imports that look at it and everybody else's steps; a
\* native follow never becomes an imported one.
THEOREM TombstonesHoldHolds == GraphSpec => TombstonesHold
<1>1. ASSUME GraphInv, [GraphNext]_graphVars, NEW u \in Users, NEW t \in Users
      PROVE  /\ Lifted(u, t) => \E c \in Calls : MayLift(c, u, t)
             /\ ~Downgraded(u, t)
  <2> DEFINE row == rel[<<u, t>>]
             next == rel'[<<u, t>>]
  <2>1. <<u, t>> \in Users \X Users /\ rel \in [Users \X Users -> Relationship]
        /\ row \in Relationship
    BY <1>1 DEF GraphInv, GraphTypeOK
  <2>2. ASSUME NEW c \in Calls, Follow(c), next # row
        PROVE  MayLift(c, u, t) /\ ~Downgraded(u, t)
    <3>1. call[c].user = u /\ call[c].target = t
          /\ next = Followed(row, "stories_native")
      BY <2>1, <2>2 DEF Follow
    <3> QED  BY <2>1, <2>2, <3>1, FollowedRow DEF Follow, MayLift, Downgraded
  <2>3. ASSUME NEW c \in Calls, ImportFollows(c), next # row
        PROVE  (Lifted(u, t) => MayLift(c, u, t)) /\ ~Downgraded(u, t)
    <3>1. call[c].user = u /\ t \in call[c].checked /\ call[c].pc = "import"
          /\ next = Followed(row, "github_import")
      BY <2>1, <2>3 DEF ImportFollows
    <3>2. Lifted(u, t) => t \in call[c].overtaken
      BY <1>1, <3>1 DEF GraphInv, CallHolds, Lifted
    <3> QED  BY <2>1, <3>1, <3>2, FollowedRow DEF MayLift, Downgraded
  <2>4. ASSUME NEW c \in Calls, Unfollow(c) \/ SetBlock(c) \/ Unblock(c)
        PROVE  ~Lifted(u, t) /\ ~Downgraded(u, t)
    <3>1. next = row \/ next = Unfollowed(row)
      <4>1. CASE Unfollow(c)
        BY <2>1, <4>1 DEF Unfollow
      <4>2. CASE SetBlock(c)
        <5> PICK a \in Users, b \in Users :
              a = call[c].user /\ b = call[c].target /\ a # b
          BY <1>1, <4>2 DEF SetBlock, GraphInv, CallHolds
        <5>1. rel' = Severed(a, b)
          BY <4>2 DEF SetBlock
        <5> QED  BY <2>1, <5>1, SeveredRows
      <4>3. CASE Unblock(c)
        BY <4>3 DEF Unblock
      <4> QED  BY <2>4, <4>1, <4>2, <4>3
    <3> QED  BY <2>1, <3>1, UnfollowedRow DEF Lifted, Downgraded
  <2>5. ASSUME NEW c \in Calls, DeleteAccount(c), next # row
        PROVE  MayLift(c, u, t) /\ ~Downgraded(u, t)
    BY <2>1, <2>5 DEF DeleteAccount, NoRelationship, MayLift, Downgraded
  <2>6. CASE next = row
    BY <2>6 DEF Lifted, Downgraded
  <2>7. CASE next # row
    <3> PICK c \in Calls : \/ Follow(c) \/ Unfollow(c) \/ ImportFollows(c)
                           \/ SetBlock(c) \/ Unblock(c) \/ DeleteAccount(c)
      BY <1>1, <2>7, TableSteps
    <3> QED  BY <2>2, <2>3, <2>4, <2>5, <2>7
  <2> QED  BY <2>6, <2>7
<1>2. GraphInv /\ [GraphNext]_graphVars =>
        [\A u, t \in Users :
           /\ Lifted(u, t) => \E c \in Calls : MayLift(c, u, t)
           /\ ~Downgraded(u, t)]_graphVars
  BY <1>1
<1> QED  BY <1>2, Invariance, PTL DEF GraphSpec, TombstonesHold

\* Nobody but the blocker lifts a block, whoever deletes which account.
THEOREM OnlyBlockerUnblocksHolds == GraphSpec => OnlyBlockerUnblocks
<1>1. ASSUME GraphInv, [GraphNext]_graphVars, NEW u \in Users, NEW t \in Users,
             <<u, t>> \in blocks, <<u, t>> \notin blocks'
      PROVE  \E c \in Calls : MayUnblock(c, u, t)
  <2> PICK c \in Calls : \/ Follow(c) \/ Unfollow(c) \/ ImportFollows(c)
                         \/ SetBlock(c) \/ Unblock(c) \/ DeleteAccount(c)
    BY <1>1, TableSteps
  <2>1. Unblock(c) \/ DeleteAccount(c)
    BY <1>1 DEF Follow, Unfollow, ImportFollows, SetBlock
  <2> QED  BY <1>1, <2>1 DEF Unblock, DeleteAccount, WithoutOwner, MayUnblock
<1>2. GraphInv /\ [GraphNext]_graphVars =>
        [\A u, t \in Users :
           <<u, t>> \in blocks /\ <<u, t>> \notin blocks' =>
             \E c \in Calls : MayUnblock(c, u, t)]_graphVars
  BY <1>1
<1> QED  BY <1>2, Invariance, PTL DEF GraphSpec, OnlyBlockerUnblocks

\* A block stands until its owner lifts it, and no follow crosses it but by a
\* request checked before it or by the blocked party's native follow (SetBlock,
\* putFollow, DeleteAccount).
THEOREM BlocksStandHolds == GraphSpec => BlocksStand
BY BlocksHoldHolds, OnlyBlockerUnblocksHolds DEF BlocksStand

-----------------------------------------------------------------------------
(* Interactions *)

LEMMA Authors == \A s \in Stories : Author[s] \in Users /\ Author[s] # NoUser
BY InteractionsAssumption, SocialAssumption
   DEF InteractionsAssumption, SocialAssumption

LEMMA IdleRequestHolds == IdleRequest \in RequestState /\ RequestHolds(IdleRequest)
BY DEF IdleRequest, RequestState, RequestHolds

-----------------------------------------------------------------------------
(* The graph below: requests count as events, and move nothing else of it *)

LEMMA GraphKept ==
  ASSUME GraphInv, UNCHANGED <<account, rel, blocks, hides, notices, call>>,
         events' \in Nat
  PROVE  GraphInv'
<1>1. GraphTypeOK'
  BY DEF GraphInv, GraphTypeOK
<1>2. \A c \in Calls : CallHolds(call[c])'
  BY DEF GraphInv, CallHolds
<1>3. SelfFree' /\ OwnersExist'
  BY DEF GraphInv, SelfFree, OwnersExist
<1> QED  BY <1>1, <1>2, <1>3 DEF GraphInv

LEMMA Counted == ASSUME GraphInv, CountEvent PROVE events' \in Nat
BY DEF GraphInv, GraphTypeOK, CountEvent

-----------------------------------------------------------------------------
(* What one step may change *)

\* A request moves, and what it leaves behind is in order.
LEMMA RequestMoves ==
  ASSUME InteractionsInv, GraphInv',
         NEW r \in Requests, NEW row \in RequestState, RequestHolds(row),
         request' = [request EXCEPT ![r] = row],
         UNCHANGED <<story, list>>,
         MarksTypeOK', InboxMatchesReactions', NoSelfMention'
  PROVE  InteractionsInv'
<1>1. InteractionsTypeOK'
  BY DEF InteractionsInv, InteractionsTypeOK
<1>2. ASSUME NEW q \in Requests PROVE RequestHolds(request[q])'
  <2>1. RequestHolds(request'[q])
    BY DEF InteractionsInv, InteractionsTypeOK
  <2> QED  BY <2>1 DEF RequestHolds
<1>3. CustomListIsOwn'
  BY DEF InteractionsInv, CustomListIsOwn, Live
<1> QED  BY <1>1, <1>2, <1>3 DEF InteractionsInv

LEMMA MarksKept ==
  ASSUME InteractionsInv, UNCHANGED marks
  PROVE  MarksTypeOK' /\ InboxMatchesReactions' /\ NoSelfMention'
BY DEF InteractionsInv, InteractionsTypeOK, MarksTypeOK, InboxMatchesReactions,
       NoSelfMention, marks

LEMMA QuietMove ==
  ASSUME InteractionsInv, GraphInv',
         NEW r \in Requests, NEW row \in RequestState, RequestHolds(row),
         request' = [request EXCEPT ![r] = row],
         UNCHANGED <<story, list, marks>>
  PROVE  InteractionsInv'
BY RequestMoves, MarksKept

LEMMA AnswerMoves ==
  ASSUME InteractionsInv, UNCHANGED graphVars, NEW r \in Requests, Answer(r),
         UNCHANGED <<story, list>>,
         MarksTypeOK', InboxMatchesReactions', NoSelfMention'
  PROVE  InteractionsInv'
<1>1. GraphInv'
  BY StepHolds DEF InteractionsInv
<1> QED  BY <1>1, IdleRequestHolds, RequestMoves DEF Answer

LEMMA QuietAnswer ==
  ASSUME InteractionsInv, UNCHANGED graphVars, NEW r \in Requests, Answer(r),
         UNCHANGED <<story, list, marks>>
  PROVE  InteractionsInv'
BY AnswerMoves, MarksKept

\* A list keeps its owner unless nobody owns it.
LEMMA ListMoves ==
  ASSUME InteractionsInv, GraphInv',
         list' \in [Lists -> ListRow],
         \A l \in Lists : list[l].owner # NoUser => list'[l].owner = list[l].owner,
         UNCHANGED <<story, marks, request>>
  PROVE  InteractionsInv'
<1>1. InteractionsTypeOK' /\ InboxMatchesReactions' /\ NoSelfMention'
  BY MarksKept DEF InteractionsInv, InteractionsTypeOK
<1>2. ASSUME NEW q \in Requests PROVE RequestHolds(request[q])'
  <2> PICK row \in RequestState : row = request[q] /\ RequestHolds(row)
    BY DEF InteractionsInv, InteractionsTypeOK
  <2>1. row.pc = "resolved" /\ row.visibility = "custom_list" =>
          row.list \in Lists /\ list[row.list].owner = row.user /\ row.user # NoUser
    BY DEF RequestHolds, RequestState
  <2>2. RequestHolds(row)'
    BY <2>1 DEF RequestHolds
  <2> QED  BY <2>2 DEF RequestHolds
<1>3. CustomListIsOwn'
  <2> SUFFICES ASSUME NEW s \in Stories
               PROVE  /\ story[s].list # NoList =>
                           /\ story[s].visibility = "custom_list"
                           /\ list'[story[s].list].owner = Author[s]
                      /\ Live(s) /\ story[s].visibility = "custom_list" =>
                           story[s].list # NoList
    BY DEF CustomListIsOwn, Live
  <2>1. story[s].list \in Lists \cup {NoList}
    BY DEF InteractionsInv, InteractionsTypeOK, StoryRow
  <2> QED  BY <2>1, Authors DEF InteractionsInv, CustomListIsOwn
<1> QED  BY <1>1, <1>2, <1>3 DEF InteractionsInv

\* Stories change, and custom audiences stay lists of their authors.
LEMMA StoryMoves ==
  ASSUME InteractionsInv, UNCHANGED graphVars,
         story' \in [Stories -> StoryRow], CustomListIsOwn',
         UNCHANGED <<list, marks, request>>
  PROVE  InteractionsInv'
<1>1. GraphInv'
  BY StepHolds DEF InteractionsInv
<1>2. InteractionsTypeOK' /\ InboxMatchesReactions' /\ NoSelfMention'
  BY MarksKept DEF InteractionsInv, InteractionsTypeOK
<1>3. \A q \in Requests : RequestHolds(request[q])'
  BY DEF InteractionsInv, RequestHolds
<1> QED  BY <1>1, <1>2, <1>3 DEF InteractionsInv

-----------------------------------------------------------------------------
(* Requests *)

LEMMA AskHolds ==
  ASSUME InteractionsInv, NEW r \in Requests, NEW row \in RequestState,
         RequestHolds(row), Ask(r, row)
  PROVE  InteractionsInv'
<1>1. GraphInv'
  BY Counted, GraphKept DEF Ask, InteractionsInv
<1> QED  BY <1>1, QuietMove DEF Ask

LEMMA AskedRow ==
  ASSUME NEW deed \in {"view", "react", "reply", "unreact", "edit"},
         NEW u \in Users \cup {NoUser}, NEW s \in Stories
  PROVE  LET row == Asked(deed, u, s) IN
         /\ row \in RequestState
         /\ row.pc = "asked" /\ row.deed = deed /\ row.user = u /\ row.story = s
         /\ row.emoji = NoEmoji /\ row.key = NoKey
         /\ row.visibility = "unchanged" /\ row.list = NoList
BY IdleRequestHolds DEF Asked, IdleRequest, RequestState

LEMMA AskAnonymouslyHolds ==
  ASSUME InteractionsInv, NEW r \in Requests, AskAnonymously(r)
  PROVE  InteractionsInv'
<1> PICK s \in Stories : Ask(r, Asked("view", NoUser, s))
  BY DEF AskAnonymously
<1>1. Asked("view", NoUser, s) \in RequestState
      /\ RequestHolds(Asked("view", NoUser, s))
  BY AskedRow DEF RequestState, RequestHolds
<1> QED  BY <1>1, AskHolds

LEMMA AskSignedInHolds ==
  ASSUME InteractionsInv, NEW r \in Requests, AskSignedIn(r)
  PROVE  InteractionsInv'
<1> PICK u \in Users, s \in Stories :
      \/ \E deed \in {"view", "unreact"} : Ask(r, Asked(deed, u, s))
      \/ \E emoji \in Emojis : Ask(r, [Asked("react", u, s) EXCEPT !.emoji = emoji])
      \/ \E key \in Keys \cup {NoKey} :
           Ask(r, [Asked("reply", u, s) EXCEPT !.key = key])
  BY DEF AskSignedIn
<1>1. u # NoUser
  BY SocialAssumption DEF SocialAssumption
<1>2. ASSUME NEW deed \in {"view", "unreact"}, Ask(r, Asked(deed, u, s))
      PROVE  InteractionsInv'
  <2>1. Asked(deed, u, s) \in RequestState /\ RequestHolds(Asked(deed, u, s))
    BY <1>1, AskedRow DEF RequestState, RequestHolds
  <2> QED  BY <1>2, <2>1, AskHolds
<1>3. ASSUME NEW emoji \in Emojis,
             Ask(r, [Asked("react", u, s) EXCEPT !.emoji = emoji])
      PROVE  InteractionsInv'
  <2> DEFINE row == [Asked("react", u, s) EXCEPT !.emoji = emoji]
  <2>1. emoji # NoEmoji
    BY InteractionsAssumption DEF InteractionsAssumption
  <2>2. row \in RequestState
    BY AskedRow DEF RequestState
  <2>3. /\ row.pc = "asked" /\ row.deed = "react" /\ row.user = u
        /\ row.story = s /\ row.emoji = emoji
    BY AskedRow DEF RequestState
  <2> HIDE DEF row
  <2>4. RequestHolds(row)
    BY <1>1, <2>1, <2>3 DEF RequestHolds
  <2> QED  BY <1>3, <2>2, <2>4, AskHolds DEF row
<1>4. ASSUME NEW key \in Keys \cup {NoKey},
             Ask(r, [Asked("reply", u, s) EXCEPT !.key = key])
      PROVE  InteractionsInv'
  <2> DEFINE row == [Asked("reply", u, s) EXCEPT !.key = key]
  <2>1. row \in RequestState /\ RequestHolds(row)
    BY <1>1, AskedRow DEF RequestState, RequestHolds
  <2> HIDE DEF row
  <2> QED  BY <1>4, <2>1, AskHolds DEF row
<1> QED  BY <1>2, <1>3, <1>4

\* Records of any fields: two of them may be replaced by values of their sets.
LEMMA EditedRecord ==
  ASSUME NEW A, NEW B, NEW C, NEW D, NEW E, NEW F, NEW V, NEW L,
         NEW base \in [pc: A, deed: B, user: C, story: D, emoji: E, key: F,
                       visibility: V, list: L],
         NEW v \in V, NEW l \in L
  PROVE  [base EXCEPT !.visibility = v, !.list = l]
           \in [pc: A, deed: B, user: C, story: D, emoji: E, key: F,
               visibility: V, list: L]
OBVIOUS

LEMMA EditedRow ==
  ASSUME NEW base \in RequestState, NEW v \in Visibilities \cup {"unchanged"},
         NEW l \in Lists \cup {NoList}
  PROVE  [base EXCEPT !.visibility = v, !.list = l] \in RequestState
BY EditedRecord DEF RequestState

LEMMA AskEditHolds ==
  ASSUME InteractionsInv, NEW r \in Requests, AskEdit(r)
  PROVE  InteractionsInv'
<1> PICK s \in Stories, visibility \in Visibilities \cup {"unchanged"},
         l \in Lists \cup {NoList} :
      /\ visibility # "custom_list" => l = NoList
      /\ Ask(r, [Asked("edit", Author[s], s) EXCEPT !.visibility = visibility,
                                                    !.list = l])
  BY DEF AskEdit
<1>1. /\ Asked("edit", Author[s], s) \in RequestState
      /\ Asked("edit", Author[s], s).pc = "asked"
      /\ Asked("edit", Author[s], s).deed = "edit"
      /\ Asked("edit", Author[s], s).user = Author[s]
      /\ Asked("edit", Author[s], s).story = s
  BY Authors, AskedRow
<1> PICK base \in RequestState : base = Asked("edit", Author[s], s)
  BY <1>1
<1> DEFINE row == [base EXCEPT !.visibility = visibility, !.list = l]
<1>2. row \in RequestState
  BY EditedRow
<1>3. /\ row.pc = "asked" /\ row.deed = "edit" /\ row.user = Author[s]
      /\ row.story = s /\ row.visibility = visibility /\ row.list = l
  BY <1>1 DEF RequestState
<1>4. Ask(r, row)
  OBVIOUS
<1> HIDE DEF row
<1>5. RequestHolds(row)
  BY <1>3, Authors DEF RequestHolds
<1> QED  BY <1>2, <1>4, <1>5, AskHolds

\* A request that only moves on to its next statement.
LEMMA MovesOn ==
  ASSUME InteractionsInv, UNCHANGED graphVars, NEW r \in Requests,
         NEW pc \in {"keyed", "admitted", "answered", "cleared", "resolved"},
         request' = [request EXCEPT ![r].pc = pc],
         RequestHolds([request[r] EXCEPT !.pc = pc]),
         UNCHANGED <<story, list>>,
         MarksTypeOK', InboxMatchesReactions', NoSelfMention'
  PROVE  InteractionsInv'
<1> PICK row \in RequestState : row = request[r]
  BY DEF InteractionsInv, InteractionsTypeOK
<1> DEFINE next == [row EXCEPT !.pc = pc]
<1>1. next \in RequestState /\ RequestHolds(next)
  BY DEF RequestState
<1>2. request' = [request EXCEPT ![r] = next]
  BY DEF InteractionsInv, InteractionsTypeOK
<1>3. GraphInv'
  BY StepHolds DEF InteractionsInv
<1> HIDE DEF next
<1> QED  BY <1>1, <1>2, <1>3, RequestMoves

LEMMA LookUpKeyHolds ==
  ASSUME InteractionsInv, NEW r \in Requests, LookUpKey(r)
  PROVE  InteractionsInv'
<1> PICK row \in RequestState : row = request[r] /\ RequestHolds(row)
  BY DEF InteractionsInv, InteractionsTypeOK
<1>1. CASE Answer(r)
  BY <1>1, QuietAnswer DEF LookUpKey
<1>2. CASE request' = [request EXCEPT ![r].pc = "keyed"]
  <2>1. RequestHolds([row EXCEPT !.pc = "keyed"])
    BY DEF LookUpKey, RequestHolds, RequestState
  <2> QED  BY <1>2, <2>1, MovesOn, MarksKept DEF LookUpKey
<1> QED  BY <1>1, <1>2 DEF LookUpKey

LEMMA AuthorizeHolds ==
  ASSUME InteractionsInv, NEW r \in Requests, Authorize(r)
  PROVE  InteractionsInv'
<1> PICK row \in RequestState : row = request[r] /\ RequestHolds(row)
  BY DEF InteractionsInv, InteractionsTypeOK
<1>1. CASE Answer(r)
  BY <1>1, QuietAnswer DEF Authorize
<1>2. CASE request' = [request EXCEPT ![r].pc = "admitted"]
  <2>1. RequestHolds([row EXCEPT !.pc = "admitted"])
    BY DEF Authorize, RequestHolds, RequestState
  <2> QED  BY <1>2, <2>1, MovesOn, MarksKept DEF Authorize
<1> QED  BY <1>1, <1>2 DEF Authorize

LEMMA ResolveAudienceListHolds ==
  ASSUME InteractionsInv, NEW r \in Requests, ResolveAudienceList(r)
  PROVE  InteractionsInv'
<1> PICK row \in RequestState : row = request[r] /\ RequestHolds(row)
  BY DEF InteractionsInv, InteractionsTypeOK
<1>1. CASE Answer(r)
  BY <1>1, QuietAnswer DEF ResolveAudienceList
<1>2. CASE request' = [request EXCEPT ![r].pc = "resolved"]
           /\ ~(/\ row.visibility = "custom_list"
                /\ row.list = NoList \/ list[row.list].owner # row.user
                                     \/ list[row.list].deleted)
  <2>1. RequestHolds([row EXCEPT !.pc = "resolved"])
    BY <1>2 DEF ResolveAudienceList, RequestHolds, RequestState
  <2> QED  BY <1>2, <2>1, MovesOn, MarksKept DEF ResolveAudienceList
<1> QED  BY <1>1, <1>2 DEF ResolveAudienceList

-----------------------------------------------------------------------------
(* What requests leave *)

\* A signed-in request on a Story.
LEMMA PlaceExists ==
  ASSUME InteractionsInv, NEW r \in Requests, request[r].pc # "idle",
         request[r].deed # "view" \/ request[r].user # NoUser
  PROVE  request[r].user \in Users /\ request[r].story \in Stories
BY DEF InteractionsInv, InteractionsTypeOK, RequestState, RequestHolds

LEMMA RecordViewHolds ==
  ASSUME InteractionsInv, NEW r \in Requests, RecordView(r)
  PROVE  InteractionsInv'
<1>1. MarksTypeOK'
  BY PlaceExists DEF RecordView, InteractionsInv, InteractionsTypeOK, MarksTypeOK, Place
<1>2. InboxMatchesReactions' /\ NoSelfMention'
  BY DEF RecordView, InteractionsInv, InboxMatchesReactions, NoSelfMention
<1> QED  BY <1>1, <1>2, AnswerMoves DEF RecordView

LEMMA RecordAnonymousViewHolds ==
  ASSUME InteractionsInv, NEW r \in Requests, RecordAnonymousView(r)
  PROVE  InteractionsInv'
<1> PICK s \in Stories : s = request[r].story
  BY DEF RecordAnonymousView, InteractionsInv, RequestHolds
<1>1. MarksTypeOK'
  BY DEF RecordAnonymousView, InteractionsInv, InteractionsTypeOK, MarksTypeOK
<1>2. InboxMatchesReactions' /\ NoSelfMention'
  BY DEF RecordAnonymousView, InteractionsInv, InboxMatchesReactions, NoSelfMention
<1> QED  BY <1>1, <1>2, AnswerMoves DEF RecordAnonymousView

LEMMA SetReactionHolds ==
  ASSUME InteractionsInv, NEW r \in Requests, SetReaction(r)
  PROVE  InteractionsInv'
<1> PICK u \in Users, s \in Stories : u = request[r].user /\ s = request[r].story
  BY PlaceExists DEF SetReaction
<1> PICK emoji \in Emojis : emoji = request[r].emoji /\ emoji # NoEmoji
  BY DEF SetReaction, InteractionsInv, InteractionsTypeOK, RequestState, RequestHolds
<1>1. /\ reactions' = [reactions EXCEPT ![<<u, s>>] = emoji]
      /\ mentions' = IF u = Author[s] THEN mentions
                     ELSE [mentions EXCEPT ![<<u, s>>] = emoji]
      /\ UNCHANGED <<views, replies, remembered, anonymous>>
  BY DEF SetReaction, Place
<1>2. MarksTypeOK'
  BY <1>1 DEF InteractionsInv, InteractionsTypeOK, MarksTypeOK
<1>3. InboxMatchesReactions'
  BY <1>1 DEF InteractionsInv, InteractionsTypeOK, MarksTypeOK, InboxMatchesReactions,
              NoSelfMention
<1>4. NoSelfMention'
  BY <1>1, Authors DEF InteractionsInv, InteractionsTypeOK, MarksTypeOK, NoSelfMention
<1> QED  BY <1>2, <1>3, <1>4, AnswerMoves DEF SetReaction

LEMMA ClearReactionHolds ==
  ASSUME InteractionsInv, NEW r \in Requests, ClearReaction(r)
  PROVE  InteractionsInv'
<1> PICK row \in RequestState : row = request[r] /\ RequestHolds(row)
  BY DEF InteractionsInv, InteractionsTypeOK
<1> PICK place \in Users \X Stories : place = Place(r)
  BY PlaceExists DEF ClearReaction, Place
<1>1. CASE /\ reactions' = [reactions EXCEPT ![place] = NoEmoji]
           /\ mentions' = [mentions EXCEPT ![place] = NoEmoji]
           /\ Answer(r)
  <2>1. MarksTypeOK' /\ InboxMatchesReactions' /\ NoSelfMention'
    BY <1>1 DEF ClearReaction, InteractionsInv, InteractionsTypeOK, MarksTypeOK,
                InboxMatchesReactions, NoSelfMention
  <2> QED  BY <1>1, <2>1, AnswerMoves DEF ClearReaction
<1>2. CASE request' = [request EXCEPT ![r].pc = "cleared"]
           /\ UNCHANGED <<reactions, mentions>>
  <2>1. RequestHolds([row EXCEPT !.pc = "cleared"])
    BY DEF ClearReaction, RequestHolds, RequestState
  <2>2. UNCHANGED marks
    BY <1>2 DEF ClearReaction, marks
  <2> QED  BY <1>2, <2>1, <2>2, MovesOn, MarksKept DEF ClearReaction
<1> QED  BY <1>1, <1>2 DEF ClearReaction, Unmentioned

LEMMA ClearReactionInboxHolds ==
  ASSUME InteractionsInv, NEW r \in Requests, ClearReactionInbox(r)
  PROVE  InteractionsInv'
<1> PICK place \in Users \X Stories : place = Place(r)
  BY PlaceExists DEF ClearReactionInbox, Place, InteractionsInv, RequestHolds
<1>1. MarksTypeOK' /\ InboxMatchesReactions' /\ NoSelfMention'
  BY DEF ClearReactionInbox, Unmentioned, InteractionsInv, InteractionsTypeOK,
         MarksTypeOK, InboxMatchesReactions, NoSelfMention
<1> QED  BY <1>1, AnswerMoves DEF ClearReactionInbox

LEMMA CreateReplyHolds ==
  ASSUME InteractionsInv, NEW r \in Requests, CreateReply(r)
  PROVE  InteractionsInv'
<1> PICK row \in RequestState : row = request[r] /\ RequestHolds(row)
  BY DEF InteractionsInv, InteractionsTypeOK
<1>1. RequestHolds([row EXCEPT !.pc = "answered"])
  BY DEF CreateReply, RequestHolds, RequestState
<1> PICK place \in Users \X Stories \X (Keys \cup {NoKey}) :
      place = <<row.user, row.story, row.key>>
  BY PlaceExists DEF CreateReply, RequestState
<1>2. MarksTypeOK'
  BY DEF CreateReply, InteractionsInv, InteractionsTypeOK, MarksTypeOK
<1>3. InboxMatchesReactions' /\ NoSelfMention'
  BY DEF CreateReply, InteractionsInv, InboxMatchesReactions, NoSelfMention
<1> QED  BY <1>1, <1>2, <1>3, MovesOn DEF CreateReply

LEMMA RememberIdempotentHolds ==
  ASSUME InteractionsInv, NEW r \in Requests, RememberIdempotent(r)
  PROVE  InteractionsInv'
<1>1. request[r].user \in Users /\ request[r].key \in Keys \cup {NoKey}
  BY PlaceExists DEF RememberIdempotent, InteractionsInv, InteractionsTypeOK,
                     RequestState, RequestHolds
<1>2. MarksTypeOK'
  BY <1>1 DEF RememberIdempotent, InteractionsInv, InteractionsTypeOK, MarksTypeOK
<1>3. InboxMatchesReactions' /\ NoSelfMention'
  BY DEF RememberIdempotent, InteractionsInv, InboxMatchesReactions, NoSelfMention
<1> QED  BY <1>2, <1>3, AnswerMoves DEF RememberIdempotent


-----------------------------------------------------------------------------
(* Stories and audience lists *)

LEMMA UpdateStoryHolds ==
  ASSUME InteractionsInv, NEW r \in Requests, UpdateStory(r)
  PROVE  InteractionsInv'
<1> PICK row \in RequestState : row = request[r] /\ RequestHolds(row)
  BY DEF InteractionsInv, InteractionsTypeOK
<1> PICK permits \in Permits :
      story' = IF story[row.story].state # "published" THEN story
               ELSE [story EXCEPT ![row.story] =
                       [Edited(@, row.visibility, row.list) EXCEPT
                          !.permits = permits]]
  BY DEF UpdateStory
<1> PICK s \in Stories : s = row.story
  BY DEF UpdateStory, RequestHolds
<1>1. /\ row.user = Author[s] /\ row.visibility \in Visibilities \cup {"unchanged"}
      /\ row.list \in Lists \cup {NoList}
      /\ row.list # NoList => row.visibility = "custom_list"
      /\ row.visibility = "custom_list" =>
           row.list # NoList /\ list[row.list].owner = Author[s]
  BY DEF UpdateStory, RequestHolds, RequestState
<1> PICK old \in StoryRow : old = story[s]
  BY DEF InteractionsInv, InteractionsTypeOK
<1> DEFINE new == [Edited(old, row.visibility, row.list) EXCEPT !.permits = permits]
<1>2. new \in StoryRow
  BY <1>1, InteractionsAssumption DEF Edited, StoryRow, InteractionsAssumption
<1>3. /\ row.visibility = "unchanged" =>
           new.visibility = old.visibility /\ new.list = old.list
      /\ row.visibility # "unchanged" =>
           new.visibility = row.visibility /\ new.list = row.list
      /\ new.state = old.state /\ new.ttl = old.ttl
  BY DEF Edited, StoryRow
<1>4. story' = story \/ story' = [story EXCEPT ![s] = new]
  OBVIOUS
<1> HIDE DEF new
<1>5. story' \in [Stories -> StoryRow]
  BY <1>2, <1>4 DEF InteractionsInv, InteractionsTypeOK
<1>6. CustomListIsOwn'
  <2>1. \A q \in Stories : q # s => story'[q] = story[q]
    BY <1>4 DEF InteractionsInv, InteractionsTypeOK
  <2>2. story'[s] = old \/ story'[s] = new
    BY <1>4 DEF InteractionsInv, InteractionsTypeOK
  <2>3. /\ story'[s].list # NoList =>
             /\ story'[s].visibility = "custom_list"
             /\ list[story'[s].list].owner = Author[s]
        /\ /\ story'[s].state = "published" /\ story'[s].ttl > 0
           /\ story'[s].visibility = "custom_list"
           => story'[s].list # NoList
    <3>1. /\ old.list # NoList =>
               old.visibility = "custom_list" /\ list[old.list].owner = Author[s]
          /\ old.state = "published" /\ old.ttl > 0 /\ old.visibility = "custom_list"
             => old.list # NoList
      BY DEF InteractionsInv, CustomListIsOwn, Live
    <3>2. CASE story'[s] = old
      BY <3>1, <3>2
    <3>3. CASE story'[s] = new /\ row.visibility = "unchanged"
      BY <1>3, <3>1, <3>3
    <3>4. CASE story'[s] = new /\ row.visibility # "unchanged"
      BY <1>1, <1>3, <3>4
    <3> QED  BY <2>2, <3>2, <3>3, <3>4
  <2> QED  BY SMTT(30), <2>1, <2>3 DEF UpdateStory, InteractionsInv, CustomListIsOwn, Live
<1>7. GraphInv'
  BY StepHolds DEF UpdateStory, InteractionsInv
<1>8. \A q \in Requests : request'[q] \in RequestState /\ RequestHolds(request'[q])
  BY IdleRequestHolds DEF UpdateStory, Answer, InteractionsInv, InteractionsTypeOK
<1>9. \A q \in Requests : RequestHolds(request[q])'
  BY <1>8 DEF RequestHolds, UpdateStory
<1>10. InteractionsTypeOK' /\ InboxMatchesReactions' /\ NoSelfMention'
  BY <1>5, <1>8, MarksKept
     DEF UpdateStory, Answer, InteractionsInv, InteractionsTypeOK
<1> QED  BY <1>6, <1>7, <1>9, <1>10 DEF InteractionsInv

LEMMA ListStepHolds ==
  ASSUME InteractionsInv, ListStep
  PROVE  InteractionsInv'
<1> PICK l \in Lists :
      \/ \E u \in Users, members \in SUBSET Users : CreateAudienceList(l, u, members)
      \/ \E members \in SUBSET Users : UpdateAudienceList(l, members)
      \/ DeleteAudienceList(l)
  BY DEF ListStep
<1>1. list \in [Lists -> ListRow]
  BY DEF InteractionsInv, InteractionsTypeOK
<1>2. ASSUME NEW u \in Users, NEW members \in SUBSET Users,
             CreateAudienceList(l, u, members)
      PROVE  InteractionsInv'
  <2>1. GraphInv'
    BY <1>2, Counted, GraphKept DEF CreateAudienceList, InteractionsInv
  <2>2. list' \in [Lists -> ListRow]
        /\ \A m \in Lists : list[m].owner # NoUser => list'[m].owner = list[m].owner
    BY <1>1, <1>2 DEF CreateAudienceList, ListRow, UnusedList
  <2> QED  BY <1>2, <2>1, <2>2, ListMoves DEF CreateAudienceList
<1>3. ASSUME NEW members \in SUBSET Users, UpdateAudienceList(l, members)
      PROVE  InteractionsInv'
  <2>1. GraphInv'
    BY <1>3, Counted, GraphKept DEF UpdateAudienceList, InteractionsInv
  <2>2. PICK left \in SUBSET list[l].members :
          list' = [list EXCEPT ![l].members = members \cup left]
    BY <1>3 DEF UpdateAudienceList
  <2>3. members \cup left \in SUBSET Users
    BY <1>1 DEF ListRow
  <2>4. list' \in [Lists -> ListRow]
        /\ \A m \in Lists : list'[m].owner = list[m].owner
    BY <1>1, <2>2, <2>3 DEF ListRow
  <2> QED  BY <1>3, <2>1, <2>4, ListMoves DEF UpdateAudienceList
<1>4. ASSUME DeleteAudienceList(l) PROVE InteractionsInv'
  <2>1. GraphInv'
    BY <1>4, Counted, GraphKept DEF DeleteAudienceList, InteractionsInv
  <2>2. list' \in [Lists -> ListRow]
        /\ \A m \in Lists : list'[m].owner = list[m].owner
    BY <1>1, <1>4 DEF DeleteAudienceList, ListRow
  <2> QED  BY <1>4, <2>1, <2>2, ListMoves DEF DeleteAudienceList
<1> QED  BY <1>2, <1>3, <1>4

LEMMA GoneRow ==
  ASSUME NEW row \in StoryRow
  PROVE  /\ Gone(row) \in StoryRow
         /\ Gone(row).list = NoList /\ Gone(row).visibility = "public"
<1>1. {} \subseteq {"reply", "react"} /\ 0 \in 0..StoryTTL
  BY InteractionsAssumption DEF InteractionsAssumption
<1>2. "public" \in Visibilities
  BY DEF Visibilities
<1> QED  BY <1>1, <1>2 DEF Gone, StoryRow

LEMMA StoryStepHolds ==
  ASSUME InteractionsInv, StoryStep
  PROVE  InteractionsInv'
<1>1. story \in [Stories -> StoryRow] /\ CustomListIsOwn
  BY DEF InteractionsInv, InteractionsTypeOK
<1>2. ASSUME NEW s \in Stories, PublishStory(s) PROVE InteractionsInv'
  <2> PICK visibility \in Visibilities, l \in Lists \cup {NoList}, permits \in Permits :
        /\ IF visibility = "custom_list" THEN l # NoList /\ list[l].owner = Author[s]
           ELSE l = NoList
        /\ story' = [story EXCEPT ![s] =
             [state |-> "published", ttl |-> StoryTTL, visibility |-> visibility,
              list |-> l, permits |-> permits]]
    BY <1>2 DEF PublishStory
  <2>1. story' \in [Stories -> StoryRow]
    BY <1>1, InteractionsAssumption DEF StoryRow, InteractionsAssumption
  <2>2. CustomListIsOwn'
    BY <1>1, <1>2 DEF PublishStory, CustomListIsOwn, Live
  <2> QED  BY <1>2, <2>1, <2>2, StoryMoves DEF PublishStory
<1>3. ASSUME NEW s \in Stories, StoryGone(s) PROVE InteractionsInv'
  <2>1. story' = [story EXCEPT ![s] = Gone(story[s])]
    BY <1>3 DEF StoryGone
  <2>2. story' \in [Stories -> StoryRow]
    BY <1>1, <2>1, GoneRow
  <2>3. CustomListIsOwn'
    BY <1>1, <1>3, <2>1, GoneRow DEF StoryGone, CustomListIsOwn, Live
  <2> QED  BY <1>3, <2>2, <2>3, StoryMoves DEF StoryGone
<1>4. ASSUME TickStories PROVE InteractionsInv'
  <2>1. ASSUME NEW s \in Stories
        PROVE  /\ story'[s] \in StoryRow
               /\ story'[s].list = story[s].list
               /\ story'[s].visibility = story[s].visibility
               /\ story'[s].state = story[s].state
               /\ story'[s].ttl > 0 => story[s].ttl > 0
    <3> PICK row \in StoryRow : row = story[s]
      BY <1>1
    <3>1. story'[s] = [row EXCEPT !.ttl = IF row.ttl > 0 THEN row.ttl - 1 ELSE 0]
      BY <1>4 DEF TickStories
    <3>2. (IF row.ttl > 0 THEN row.ttl - 1 ELSE 0) \in 0..StoryTTL
      BY InteractionsAssumption DEF StoryRow, InteractionsAssumption
    <3> QED  BY <3>1, <3>2 DEF StoryRow
  <2>2. story' \in [Stories -> StoryRow]
    BY <1>4, <2>1 DEF TickStories
  <2>3. CustomListIsOwn'
    BY <1>1, <1>4, <2>1 DEF TickStories, CustomListIsOwn, Live
  <2> QED  BY <1>4, <2>2, <2>3, StoryMoves DEF TickStories
<1> QED  BY <1>2, <1>3, <1>4 DEF StoryStep


-----------------------------------------------------------------------------
(* The deletion of an account *)

LEMMA DeleteAccountRowsHolds ==
  ASSUME InteractionsInv, NEW c \in Calls, DeleteAccountRows(c)
  PROVE  InteractionsInv'
<1> PICK u \in Users : u = call[c].user
  BY DEF DeleteAccountRows, DeleteAccount, InteractionsInv, GraphInv, CallHolds
<1> Cascade(u)
  BY DEF DeleteAccountRows
<1>1. GraphInv'
  BY DeleteAccountStep DEF DeleteAccountRows, InteractionsInv
<1>2. /\ story' = [s \in Stories |->
                     IF Author[s] = u THEN Gone(story[s]) ELSE story[s]]
      /\ list' = [l \in Lists |-> IF list[l].owner = u THEN UnusedList ELSE list[l]]
      /\ story \in [Stories -> StoryRow] /\ list \in [Lists -> ListRow]
  BY DEF Cascade, InteractionsInv, InteractionsTypeOK
<1>3. story' \in [Stories -> StoryRow]
  BY <1>2, GoneRow
<1>4. list' \in [Lists -> ListRow]
  BY <1>2 DEF ListRow, UnusedList
<1>5. MarksTypeOK'
  BY DEF Cascade, InteractionsInv, InteractionsTypeOK, MarksTypeOK
<1>6. CustomListIsOwn'
  <2> SUFFICES ASSUME NEW s \in Stories
               PROVE  /\ story'[s].list # NoList =>
                           /\ story'[s].visibility = "custom_list"
                           /\ list'[story'[s].list].owner = Author[s]
                      /\ /\ story'[s].state = "published" /\ story'[s].ttl > 0
                         /\ story'[s].visibility = "custom_list"
                         => story'[s].list # NoList
    BY DEF CustomListIsOwn, Live
  <2>1. CASE Author[s] = u
    BY <1>2, <2>1, GoneRow
  <2>2. CASE Author[s] # u
    <3>1. story'[s] = story[s] /\ story[s].list \in Lists \cup {NoList}
      BY <1>2, <2>2 DEF StoryRow
    <3> QED  BY <1>2, <2>2, <3>1 DEF InteractionsInv, CustomListIsOwn, Live
  <2> QED  BY <2>1, <2>2
<1>7. ASSUME NEW v \in Users, NEW s \in Stories
      PROVE  \/ /\ mentions'[<<v, s>>] = mentions[<<v, s>>]
                /\ reactions'[<<v, s>>] = reactions[<<v, s>>]
             \/ mentions'[<<v, s>>] = NoEmoji
  BY DEF Cascade
<1>8. InboxMatchesReactions' /\ NoSelfMention'
  BY <1>7, Authors DEF InteractionsInv, InboxMatchesReactions, NoSelfMention
<1>9. ASSUME NEW q \in Requests
      PROVE  request'[q] \in RequestState /\ RequestHolds(request[q])'
  <2> PICK row \in RequestState : row = request[q] /\ RequestHolds(row)
    BY DEF InteractionsInv, InteractionsTypeOK
  <2>1. CASE request'[q] = IdleRequest
    <3>1. RequestHolds(IdleRequest)'
      BY IdleRequestHolds DEF RequestHolds, IdleRequest
    <3> QED  BY <2>1, <3>1, IdleRequestHolds DEF RequestHolds
  <2>2. CASE request'[q] = row /\ (row.pc = "idle" \/ row.user # u)
    <3>1. row.pc = "resolved" /\ row.visibility = "custom_list" =>
            row.list \in Lists /\ list[row.list].owner = row.user
      BY DEF RequestHolds, RequestState
    <3>2. row.pc = "resolved" /\ row.visibility = "custom_list" =>
            list'[row.list].owner = row.user
      BY <1>2, <2>2, <3>1
    <3>3. RequestHolds(row)'
      BY <3>2 DEF RequestHolds
    <3> QED  BY <2>2, <3>3 DEF RequestHolds
  <2> QED  BY <2>1, <2>2 DEF Cascade
<1>10. InteractionsTypeOK'
  BY <1>3, <1>4, <1>5, <1>9 DEF InteractionsTypeOK, Cascade
<1> QED  BY <1>1, <1>6, <1>8, <1>9, <1>10 DEF InteractionsInv

-----------------------------------------------------------------------------
(* The invariant *)

LEMMA SocialInitHolds == InteractionsInit => InteractionsInv
<1> SUFFICES ASSUME InteractionsInit PROVE InteractionsInv
  OBVIOUS
<1>1. GraphInv
  BY InitHolds DEF InteractionsInit
<1>2. MarksTypeOK
  BY DEF InteractionsInit, MarksTypeOK
<1>3. /\ {} \subseteq {"reply", "react"} /\ 0 \in 0..StoryTTL
      /\ "public" \in Visibilities
  BY InteractionsAssumption DEF InteractionsAssumption, Visibilities
<1>4. InteractionsTypeOK
  BY <1>2, <1>3, IdleRequestHolds
     DEF InteractionsInit, InteractionsTypeOK, StoryRow, ListRow, UnusedList
<1>5. \A r \in Requests : RequestHolds(request[r])
  BY IdleRequestHolds DEF InteractionsInit
<1>6. CustomListIsOwn /\ InboxMatchesReactions /\ NoSelfMention
  BY Authors
     DEF InteractionsInit, CustomListIsOwn, InboxMatchesReactions, NoSelfMention, Live
<1> QED  BY <1>1, <1>4, <1>5, <1>6 DEF InteractionsInv

LEMMA RequestEndsHolds ==
  ASSUME InteractionsInv, NEW r \in Requests, RequestEnds(r)
  PROVE  InteractionsInv'
BY QuietAnswer DEF RequestEnds

LEMMA GraphStepHolds ==
  ASSUME InteractionsInv, GraphStep, UNCHANGED <<story, list, marks, request>>
  PROVE  InteractionsInv'
<1>1. GraphInv'
  BY StepHolds DEF InteractionsInv, GraphNext
<1>2. InteractionsTypeOK' /\ InboxMatchesReactions' /\ NoSelfMention'
  BY MarksKept DEF InteractionsInv, InteractionsTypeOK
<1>3. CustomListIsOwn' /\ \A q \in Requests : RequestHolds(request[q])'
  BY DEF InteractionsInv, CustomListIsOwn, Live, RequestHolds
<1> QED  BY <1>1, <1>2, <1>3 DEF InteractionsInv

LEMMA SocialStutter ==
  ASSUME InteractionsInv, UNCHANGED socialVars PROVE InteractionsInv'
<1>1. GraphInv'
  BY StepHolds DEF socialVars, InteractionsInv
<1>2. InteractionsTypeOK' /\ InboxMatchesReactions' /\ NoSelfMention'
  BY MarksKept DEF InteractionsInv, InteractionsTypeOK, socialVars
<1>3. CustomListIsOwn' /\ \A q \in Requests : RequestHolds(request[q])'
  BY DEF InteractionsInv, CustomListIsOwn, Live, RequestHolds, socialVars
<1> QED  BY <1>1, <1>2, <1>3 DEF InteractionsInv

LEMMA RequestStepHolds ==
  ASSUME InteractionsInv, NEW r \in Requests, RequestStep(r)
  PROVE  InteractionsInv'
BY AskAnonymouslyHolds, AskSignedInHolds, AskEditHolds, LookUpKeyHolds,
   AuthorizeHolds, ResolveAudienceListHolds, RecordViewHolds,
   RecordAnonymousViewHolds, SetReactionHolds, ClearReactionHolds,
   ClearReactionInboxHolds, CreateReplyHolds, RememberIdempotentHolds,
   UpdateStoryHolds, RequestEndsHolds DEF RequestStep

LEMMA SocialStepHolds == InteractionsInv /\ [SocialNext]_socialVars => InteractionsInv'
BY GraphStepHolds, DeleteAccountRowsHolds, ListStepHolds, StoryStepHolds,
   RequestStepHolds, SocialStutter DEF SocialNext

\* Whatever people, Stories, lists and requests there are: types, the graph's
\* invariant, and what requests hold between their statements.
THEOREM SocialInvariance == SocialSpec => []InteractionsInv
BY SocialInitHolds, SocialStepHolds, PTL DEF SocialSpec

\* A custom audience is a list of the author's own, at every moment.
THEOREM CustomListIsOwnHolds == SocialSpec => []CustomListIsOwn
<1>1. InteractionsInv => CustomListIsOwn
  BY DEF InteractionsInv
<1> QED  BY <1>1, SocialInvariance, PTL

\* The inbox shows no reaction but the one that is set.
THEOREM InboxMatchesReactionsHolds == SocialSpec => []InboxMatchesReactions
<1>1. InteractionsInv => InboxMatchesReactions
  BY DEF InteractionsInv
<1> QED  BY <1>1, SocialInvariance, PTL


-----------------------------------------------------------------------------
(* The gate: what admits a request is being in the audience *)

LEMMA AudienceHolds ==
  ASSUME NEW s \in Stories, NEW u \in Users, VisibleToViewer(s, u)
  PROVE  u \in Audience(s)
<1>1. Live(s) /\ account[Author[s]] = "active"
  BY DEF VisibleToViewer, Active
<1>2. CASE u = Author[s]
  BY <1>1, <1>2 DEF Audience
<1>3. CASE u # Author[s]
  <2>1. u \notin Shunned(Author[s])
    BY <1>3 DEF VisibleToViewer, BlockedBetween, Shunned
  <2>2. InAudience(s, u)
    BY <1>3 DEF VisibleToViewer
  <2>3. u \in Circle(s)
    <3>1. CASE story[s].visibility = "followers_of_author"
      BY <2>2, <3>1 DEF InAudience, Circle, Followees
    <3>2. CASE story[s].visibility = "author_follows"
      BY <2>2, <3>2 DEF InAudience, Circle, Followers
    <3>3. CASE story[s].visibility = "mutuals"
      BY <2>2, <3>3 DEF InAudience, Circle, Followers, Followees
    <3>4. CASE story[s].visibility = "custom_list"
      BY <2>2, <3>4 DEF InAudience, Listed, Circle, Members
    <3>5. CASE story[s].visibility = "public"
      BY <3>5 DEF Circle
    <3> QED  BY <2>2, <3>1, <3>2, <3>3, <3>4, <3>5 DEF InAudience
  <2> QED  BY <1>1, <2>1, <2>3 DEF Audience
<1> QED  BY <1>2, <1>3

\* The handlers permit what the audience allows, and no more.
LEMMA PermittedAllowed ==
  ASSUME NEW deed \in Deeds, NEW u \in Users \cup {NoUser}, NEW s \in Stories,
         Permitted(deed, u, s)
  PROVE  <<deed, u, s>> \in AllowedPlaces
<1>1. CASE u = NoUser
  <2>1. deed = "view" /\ PublicStory(s)
    BY <1>1 DEF Permitted
  <2>2. Author[s] \in Audience(s) /\ story[s].visibility = "public"
    BY <2>1 DEF PublicStory, Active, Audience
  <2>3. Allowed(deed, u, s)
    BY <1>1, <2>1, <2>2 DEF Allowed
  <2> QED  BY <2>3 DEF AllowedPlaces, Places
<1>2. CASE u # NoUser
  <2>1. u \in Users /\ VisibleToViewer(s, u)
    BY <1>2 DEF Permitted
  <2>2. Allowed(deed, u, s)
    BY <1>2, <2>1, AudienceHolds DEF Permitted, Allowed
  <2> QED  BY <2>2 DEF AllowedPlaces, Places
<1> QED  BY <1>1, <1>2

LEMMA AllowedKept ==
  ASSUME UNCHANGED <<account, rel, blocks, hides, story, list>>
  PROVE  AllowedPlaces' = AllowedPlaces
<1>1. ASSUME NEW s \in Stories PROVE Circle(s)' = Circle(s)
  BY DEF Circle, Followers, Followees, Follows, Members
<1>2. ASSUME NEW s \in Stories PROVE Audience(s)' = Audience(s)
  BY <1>1 DEF Audience, Live, Shunned
<1>3. ASSUME NEW deed \in Deeds, NEW u \in Users \cup {NoUser}, NEW s \in Stories
      PROVE  Allowed(deed, u, s)' <=> Allowed(deed, u, s)
  BY <1>2 DEF Allowed
<1> QED  BY <1>3 DEF AllowedPlaces, Places

LEMMA TracesFew ==
  ASSUME \A deed \in Deeds, u \in Users \cup {NoUser}, s \in Stories :
           Left(deed, u, s)' => Left(deed, u, s)
  PROVE  Traces' \subseteq Traces
BY DEF Traces, Places

LEMMA TracesKept == ASSUME UNCHANGED marks PROVE Traces' = Traces
BY DEF Traces, Left, marks

\* Nobody is admitted and no trace comes: the gate sees a change of the rules.
LEMMA GateChange ==
  ASSUME \A q \in Requests :
           request'[q] = request[q] \/ request'[q].pc # "admitted",
         Traces' \subseteq Traces
  PROVE  Gate!Change
<1> DEFINE over == {q \in Requests : request'[q] # request[q]}
<1>1. AllowedPlaces' \subseteq Places
  BY DEF AllowedPlaces
<1>2. ASSUME NEW q \in Requests
      PROVE  AdmittedPlaces(request'[q]) =
               IF q \in over THEN {} ELSE AdmittedPlaces(request[q])
  BY DEF AdmittedPlaces
<1>3. [q \in Requests |-> AdmittedPlaces(request[q])]' =
        [q \in Requests |-> IF q \in over THEN {}
           ELSE [p \in Requests |-> AdmittedPlaces(request[p])][q]]
  BY <1>2 DEF AdmittedPlaces
<1>4. over \in SUBSET Requests
  OBVIOUS
<1> HIDE DEF over
<1> QED  BY <1>1, <1>3, <1>4 DEF Gate!Change


\* One request leaves the one trace it was admitted for.
LEMMA GateLeave ==
  ASSUME InteractionsInv, NEW r \in Requests, request[r].pc = "admitted",
         NEW row, row.pc # "admitted", request' = [request EXCEPT ![r] = row],
         UNCHANGED <<graphVars, story, list>>,
         \A deed \in Deeds, u \in Users \cup {NoUser}, s \in Stories :
           Left(deed, u, s)' <=>
             \/ Left(deed, u, s)
             \/ /\ deed = request[r].deed
                /\ u = request[r].user /\ s = request[r].story
  PROVE  Gate!Leave(r)
<1> PICK place \in Places :
      place = <<request[r].deed, request[r].user, request[r].story>>
  BY DEF InteractionsInv, InteractionsTypeOK, RequestState, RequestHolds, Places, Deeds
<1> DEFINE admitted == [q \in Requests |-> AdmittedPlaces(request[q])]
<1>1. admitted[r] = {place}
  BY DEF AdmittedPlaces
<1>2. admitted' = [admitted EXCEPT ![r] = {}]
  BY DEF AdmittedPlaces, InteractionsInv, InteractionsTypeOK
<1>3. Traces' = Traces \cup {place}
  <2>1. ASSUME NEW other \in Places
        PROVE  other \in Traces' <=> other \in Traces \/ other = place
    <3> PICK deed \in Deeds, u \in Users \cup {NoUser}, s \in Stories :
          other = <<deed, u, s>>
      BY DEF Places
    <3> QED  BY DEF Traces
  <2> QED  BY <2>1 DEF Traces
<1>4. AllowedPlaces' = AllowedPlaces
  BY AllowedKept DEF graphVars
<1> HIDE DEF admitted
<1>5. /\ admitted[r] # {}
      /\ Traces' = Traces \cup admitted[r]
      /\ admitted' = [admitted EXCEPT ![r] = {}]
  BY <1>1, <1>2, <1>3
<1> QED  BY <1>4, <1>5 DEF Gate!Leave, admitted

LEMMA GateAuthorize ==
  ASSUME InteractionsInv, NEW r \in Requests, Authorize(r)
  PROVE  Gate!Change \/ Gate!Admit(r)
<1> PICK row \in RequestState : row = request[r] /\ RequestHolds(row)
  BY DEF InteractionsInv, InteractionsTypeOK
<1>1. Traces' = Traces /\ AllowedPlaces' = AllowedPlaces
  BY TracesKept, AllowedKept DEF Authorize, graphVars
<1>2. CASE ~Permitted(row.deed, row.user, row.story)
  <2>1. \A q \in Requests : request'[q] = request[q] \/ request'[q].pc # "admitted"
    BY <1>2 DEF Authorize, Answer, IdleRequest, InteractionsInv, InteractionsTypeOK
  <2> QED  BY <1>1, <2>1, GateChange
<1>3. CASE Permitted(row.deed, row.user, row.story)
  <2>1. /\ row.deed \in Deeds /\ row.user \in Users \cup {NoUser}
        /\ row.story \in Stories
    BY DEF Authorize, RequestHolds, RequestState, Deeds
  <2> PICK place \in AllowedPlaces : place = <<row.deed, row.user, row.story>>
    BY <1>3, <2>1, PermittedAllowed
  <2> DEFINE admitted == [q \in Requests |-> AdmittedPlaces(request[q])]
  <2>2. request' = [request EXCEPT ![r].pc = "admitted"]
    BY <1>3 DEF Authorize
  <2>3. AdmittedPlaces(request'[r]) = {place}
    BY <2>2 DEF AdmittedPlaces, InteractionsInv, InteractionsTypeOK, RequestState
  <2>4. \A q \in Requests : q # r => request'[q] = request[q]
    BY <2>2 DEF InteractionsInv, InteractionsTypeOK
  <2>5. admitted' = [admitted EXCEPT ![r] = {place}]
    BY <2>3, <2>4 DEF AdmittedPlaces
  <2> HIDE DEF admitted
  <2> QED  BY <1>1, <2>5 DEF Gate!Admit, admitted
<1> QED  BY <1>2, <1>3

\* The steps of a request that leave something.
LEMMA GateTrace ==
  ASSUME InteractionsInv, NEW r \in Requests,
         RecordView(r) \/ RecordAnonymousView(r) \/ SetReaction(r) \/ CreateReply(r)
  PROVE  Gate!Change \/ Gate!Leave(r)
<1> PICK now \in RequestState : now = request[r] /\ RequestHolds(now)
  BY DEF InteractionsInv, InteractionsTypeOK
<1> MarksTypeOK
  BY DEF InteractionsInv, InteractionsTypeOK
<1>1. NoUser \notin Users
  BY SocialAssumption DEF SocialAssumption
<1>2. IdleRequest.pc # "admitted"
  BY DEF IdleRequest
<1>3. CASE RecordView(r)
  <2>1. \A deed \in Deeds, u \in Users \cup {NoUser}, s \in Stories :
          Left(deed, u, s)' <=>
            Left(deed, u, s) \/ (deed = now.deed /\ u = now.user /\ s = now.story)
    BY <1>3 DEF RecordView, Left, Place
  <2> QED  BY <1>2, <1>3, <2>1, GateLeave DEF RecordView, Answer
<1>4. CASE RecordAnonymousView(r)
  <2> PICK t \in Stories : t = now.story
    BY <1>4 DEF RecordAnonymousView, RequestHolds
  <2>1. CASE anonymous' = anonymous
    <3>1. UNCHANGED marks
      BY <1>4, <2>1 DEF RecordAnonymousView, marks
    <3>2. \A q \in Requests : request'[q] = request[q] \/ request'[q].pc # "admitted"
      BY <1>2, <1>4
         DEF RecordAnonymousView, Answer, InteractionsInv, InteractionsTypeOK
    <3> QED  BY <3>1, <3>2, TracesKept, GateChange
  <2>2. CASE anonymous' = [anonymous EXCEPT ![t] = @ + 1]
    <3>1. ASSUME NEW s \in Stories
          PROVE  anonymous'[s] > 0 <=> anonymous[s] > 0 \/ s = t
      BY <2>2 DEF MarksTypeOK
    <3>2. \A deed \in Deeds, u \in Users \cup {NoUser}, s \in Stories :
            Left(deed, u, s)' <=>
              Left(deed, u, s) \/ (deed = now.deed /\ u = now.user /\ s = now.story)
      BY <1>4, <3>1 DEF RecordAnonymousView, Left
    <3> QED  BY <1>2, <1>4, <3>2, GateLeave DEF RecordAnonymousView, Answer
  <2> QED  BY <1>4, <2>1, <2>2 DEF RecordAnonymousView
<1>5. CASE SetReaction(r)
  <2> PICK v \in Users, t \in Stories : v = now.user /\ t = now.story
    BY <1>5, PlaceExists DEF SetReaction
  <2>1. reactions' = [reactions EXCEPT ![<<v, t>>] = now.emoji] /\ now.emoji # NoEmoji
    BY <1>5 DEF SetReaction, Place, RequestHolds
  <2>2. ASSUME NEW u \in Users, NEW s \in Stories
        PROVE  reactions'[<<u, s>>] # NoEmoji <=>
                 reactions[<<u, s>>] # NoEmoji \/ (u = v /\ s = t)
    BY <2>1 DEF MarksTypeOK
  <2>3. \A deed \in Deeds, u \in Users \cup {NoUser}, s \in Stories :
          Left(deed, u, s)' <=>
            Left(deed, u, s) \/ (deed = now.deed /\ u = now.user /\ s = now.story)
    <3>1. now.deed = "react" /\ UNCHANGED <<views, anonymous, replies>>
      BY <1>5 DEF SetReaction
    <3>2. ASSUME NEW deed \in Deeds, NEW s \in Stories
          PROVE  Left(deed, NoUser, s)' <=> Left(deed, NoUser, s)
      BY <1>1, <3>1 DEF Left
    <3>3. ASSUME NEW deed \in Deeds \ {"react"}, NEW u \in Users, NEW s \in Stories
          PROVE  Left(deed, u, s)' <=> Left(deed, u, s)
      BY <3>1 DEF Left
    <3>4. ASSUME NEW u \in Users, NEW s \in Stories
          PROVE  Left("react", u, s)' <=> Left("react", u, s) \/ (u = v /\ s = t)
      BY <2>2 DEF Left
    <3> QED  BY <1>1, <3>1, <3>2, <3>3, <3>4
  <2> QED  BY <1>2, <1>5, <2>3, GateLeave DEF SetReaction, Answer
<1>6. CASE CreateReply(r)
  <2> PICK v \in Users, t \in Stories, k \in Keys \cup {NoKey} :
        v = now.user /\ t = now.story /\ k = now.key
    BY <1>6, PlaceExists DEF CreateReply, RequestState
  <2>1. replies' = [replies EXCEPT ![<<v, t, k>>] = @ + 1]
    BY <1>6 DEF CreateReply
  <2>2. ASSUME NEW u \in Users, NEW s \in Stories
        PROVE  (\E key \in Keys \cup {NoKey} : replies'[<<u, s, key>>] > 0) <=>
                 \/ \E key \in Keys \cup {NoKey} : replies[<<u, s, key>>] > 0
                 \/ u = v /\ s = t
    <3>1. \A key \in Keys \cup {NoKey} :
            /\ replies[<<u, s, key>>] \in Nat
            /\ replies'[<<u, s, key>>] =
                 IF u = v /\ s = t /\ key = k THEN replies[<<u, s, key>>] + 1
                 ELSE replies[<<u, s, key>>]
      BY <2>1 DEF MarksTypeOK
    <3>2. CASE u = v /\ s = t
      <4>1. k \in Keys \cup {NoKey} /\ replies'[<<u, s, k>>] > 0
        BY <3>1, <3>2
      <4> QED  BY <3>2, <4>1
    <3>3. CASE ~(u = v /\ s = t)
      BY <3>1, <3>3
    <3> QED  BY <3>2, <3>3
  <2>3. \A deed \in Deeds, u \in Users \cup {NoUser}, s \in Stories :
          Left(deed, u, s)' <=>
            Left(deed, u, s) \/ (deed = now.deed /\ u = now.user /\ s = now.story)
    <3>1. now.deed = "reply" /\ UNCHANGED <<views, anonymous, reactions>>
      BY <1>6 DEF CreateReply
    <3>2. ASSUME NEW deed \in Deeds, NEW s \in Stories
          PROVE  Left(deed, NoUser, s)' <=> Left(deed, NoUser, s)
      BY <1>1, <3>1 DEF Left
    <3>3. ASSUME NEW deed \in Deeds \ {"reply"}, NEW u \in Users, NEW s \in Stories
          PROVE  Left(deed, u, s)' <=> Left(deed, u, s)
      BY <3>1 DEF Left
    <3>4. ASSUME NEW u \in Users, NEW s \in Stories
          PROVE  Left("reply", u, s)' <=> Left("reply", u, s) \/ (u = v /\ s = t)
      BY <2>2 DEF Left
    <3> QED  BY <1>1, <3>1, <3>2, <3>3, <3>4
  <2> DEFINE next == [now EXCEPT !.pc = "answered"]
  <2>4. next.pc # "admitted" /\ request' = [request EXCEPT ![r] = next]
    BY <1>6 DEF CreateReply, InteractionsInv, InteractionsTypeOK, RequestState
  <2> HIDE DEF next
  <2> QED  BY <1>6, <2>3, <2>4, GateLeave DEF CreateReply
<1> QED  BY <1>3, <1>4, <1>5, <1>6


\* Every other step changes the rules, ends requests or takes traces away.
LEMMA GateQuiet ==
  ASSUME InteractionsInv,
         \/ GraphStep /\ UNCHANGED <<story, list, marks, request>>
         \/ ListStep \/ StoryStep
         \/ UNCHANGED socialVars
  PROVE  Gate!Change
<1>1. UNCHANGED <<marks, request>>
  BY DEF ListStep, CreateAudienceList, UpdateAudienceList, DeleteAudienceList,
         StoryStep, PublishStory, StoryGone, TickStories, socialVars
<1> QED  BY <1>1, TracesKept, GateChange

\* A request that begins has not been admitted.
LEMMA AskNotAdmitted ==
  ASSUME InteractionsInv, NEW r \in Requests,
         AskAnonymously(r) \/ AskSignedIn(r) \/ AskEdit(r)
  PROVE  \E row \in RequestState : Ask(r, row) /\ row.pc # "admitted"
<1> DEFINE Begins(row) == row \in RequestState /\ Ask(r, row) /\ row.pc = "asked"
<1>1. CASE AskAnonymously(r)
  <2> PICK s \in Stories : Ask(r, Asked("view", NoUser, s))
    BY <1>1 DEF AskAnonymously
  <2>1. Begins(Asked("view", NoUser, s))
    BY AskedRow
  <2> QED  BY <2>1
<1>2. ASSUME NEW u \in Users, NEW s \in Stories, NEW deed \in {"view", "unreact"},
             Ask(r, Asked(deed, u, s))
      PROVE  \E row \in RequestState : Begins(row)
  <2>1. Begins(Asked(deed, u, s))
    BY <1>2, AskedRow
  <2> QED  BY <2>1
<1>3. ASSUME NEW u \in Users, NEW s \in Stories, NEW emoji \in Emojis,
             Ask(r, [Asked("react", u, s) EXCEPT !.emoji = emoji])
      PROVE  \E row \in RequestState : Begins(row)
  <2>1. Begins([Asked("react", u, s) EXCEPT !.emoji = emoji])
    BY <1>3, AskedRow DEF RequestState
  <2> QED  BY <2>1
<1>4. ASSUME NEW u \in Users, NEW s \in Stories, NEW key \in Keys \cup {NoKey},
             Ask(r, [Asked("reply", u, s) EXCEPT !.key = key])
      PROVE  \E row \in RequestState : Begins(row)
  <2>1. Begins([Asked("reply", u, s) EXCEPT !.key = key])
    BY <1>4, AskedRow DEF RequestState
  <2> QED  BY <2>1
<1>5. ASSUME NEW s \in Stories, NEW visibility \in Visibilities \cup {"unchanged"},
             NEW l \in Lists \cup {NoList},
             Ask(r, [Asked("edit", Author[s], s) EXCEPT !.visibility = visibility,
                                                         !.list = l])
      PROVE  \E row \in RequestState : Begins(row)
  <2> PICK base \in RequestState :
         base = Asked("edit", Author[s], s) /\ base.pc = "asked"
    BY AskedRow, Authors
  <2> PICK row \in RequestState : row = [base EXCEPT !.visibility = visibility,
                                                   !.list = l]
    BY EditedRow
  <2>1. row.pc = "asked" /\ Ask(r, row)
    BY <1>5 DEF RequestState
  <2> QED  BY <2>1
<1> QED  BY <1>1, <1>2, <1>3, <1>4, <1>5 DEF AskSignedIn, AskEdit

LEMMA GateRequest ==
  ASSUME InteractionsInv, NEW r \in Requests,
         \/ AskAnonymously(r) \/ AskSignedIn(r) \/ AskEdit(r)
         \/ LookUpKey(r) \/ ResolveAudienceList(r)
         \/ ClearReaction(r) \/ ClearReactionInbox(r)
         \/ RememberIdempotent(r) \/ UpdateStory(r) \/ RequestEnds(r)
  PROVE  Gate!Change
<1> DEFINE Moved == request'[r].pc # "admitted"
                    /\ \A q \in Requests : q # r => request'[q] = request[q]
<1>1. Moved
  <2>1. CASE Answer(r)
    BY <2>1 DEF Answer, IdleRequest, InteractionsInv, InteractionsTypeOK
  <2>2. ASSUME NEW pc \in {"keyed", "cleared", "resolved"},
               request' = [request EXCEPT ![r].pc = pc]
        PROVE  Moved
    BY <2>2 DEF InteractionsInv, InteractionsTypeOK, RequestState
  <2>3. CASE AskAnonymously(r) \/ AskSignedIn(r) \/ AskEdit(r)
    <3> PICK row \in RequestState : Ask(r, row) /\ row.pc # "admitted"
      BY <2>3, AskNotAdmitted
    <3> QED  BY DEF Ask, InteractionsInv, InteractionsTypeOK
  <2> HIDE DEF Moved
  <2> QED  BY <2>1, <2>2, <2>3
           DEF LookUpKey, ResolveAudienceList, ClearReaction, ClearReactionInbox,
               RememberIdempotent, UpdateStory, RequestEnds
<1>2. \A q \in Requests : request'[q] = request[q] \/ request'[q].pc # "admitted"
  BY <1>1
<1>3. Traces' \subseteq Traces
  <2>1. CASE ClearReaction(r) \/ ClearReactionInbox(r)
    <3>1. \A u \in Users, s \in Stories :
            reactions'[<<u, s>>] # NoEmoji => reactions[<<u, s>>] # NoEmoji
      BY <2>1 DEF ClearReaction, ClearReactionInbox, InteractionsInv,
                  InteractionsTypeOK, MarksTypeOK
    <3>2. UNCHANGED <<views, anonymous, replies>>
      BY <2>1 DEF ClearReaction, ClearReactionInbox
    <3>3. ASSUME NEW deed \in Deeds, NEW u \in Users \cup {NoUser}, NEW s \in Stories,
                 Left(deed, u, s)'
          PROVE  Left(deed, u, s)
      BY <3>1, <3>2, <3>3 DEF Left
    <3> QED  BY <3>3, TracesFew
  <2>2. CASE RememberIdempotent(r)
    BY <2>2 DEF RememberIdempotent, Traces, Left
  <2>3. CASE UNCHANGED marks
    BY <2>3, TracesKept
  <2> QED  BY <2>1, <2>2, <2>3
           DEF AskAnonymously, AskSignedIn, AskEdit, Ask, LookUpKey,
               ResolveAudienceList, UpdateStory, RequestEnds
<1> QED  BY <1>2, <1>3, GateChange

LEMMA GateDeletion ==
  ASSUME InteractionsInv, NEW c \in Calls, DeleteAccountRows(c)
  PROVE  Gate!Change
<1> PICK u \in Users : u = call[c].user
  BY DEF DeleteAccountRows, DeleteAccount, InteractionsInv, GraphInv, CallHolds
<1> Cascade(u)
  BY DEF DeleteAccountRows
<1>1. \A q \in Requests : request'[q] = request[q] \/ request'[q].pc # "admitted"
  BY DEF Cascade, IdleRequest
<1>2. /\ views' \subseteq views
      /\ \A s \in Stories : anonymous'[s] > 0 => anonymous[s] > 0
      /\ \A v \in Users, s \in Stories :
           reactions'[<<v, s>>] # NoEmoji => reactions[<<v, s>>] # NoEmoji
  BY DEF Cascade
<1>3. \A v \in Users, s \in Stories, key \in Keys \cup {NoKey} :
        replies'[<<v, s, key>>] > 0 => replies[<<v, s, key>>] > 0
  BY DEF Cascade
<1>4. ASSUME NEW deed \in Deeds, NEW v \in Users \cup {NoUser}, NEW s \in Stories,
             Left(deed, v, s)'
      PROVE  Left(deed, v, s)
  BY <1>2, <1>3, <1>4 DEF Left
<1> QED  BY <1>1, <1>4, TracesFew, GateChange

\* The handlers implement the gate: every trace on a Story was left by a request
\* whose caller was in the audience, for that deed, at one moment of it.
THEOREM GateRefinement == SocialSpec => ImplementsAudienceGate
<1>1. InteractionsInit => Gate!GateInit
  <2> SUFFICES ASSUME InteractionsInit PROVE Gate!GateInit
    OBVIOUS
  <2>1. AllowedPlaces \subseteq Places
    BY DEF AllowedPlaces
  <2>2. [r \in Requests |-> AdmittedPlaces(request[r])] = [r \in Requests |-> {}]
    BY DEF InteractionsInit, AdmittedPlaces, IdleRequest
  <2>3. ASSUME NEW deed \in Deeds, NEW u \in Users \cup {NoUser}, NEW s \in Stories
        PROVE  ~Left(deed, u, s)
    <3>1. /\ views = {} /\ anonymous[s] = 0
          /\ u \in Users => reactions[<<u, s>>] = NoEmoji
          /\ u \in Users =>
               \A key \in Keys \cup {NoKey} : replies[<<u, s, key>>] = 0
      BY DEF InteractionsInit
    <3>2. ~(anonymous[s] > 0) /\ <<u, s>> \notin views
      BY <3>1
    <3>3. ASSUME u \in Users, NEW key \in Keys \cup {NoKey}
          PROVE  ~(replies[<<u, s, key>>] > 0)
      <4>1. replies[<<u, s, key>>] = 0
        BY <3>1, <3>3
      <4> QED  BY <4>1
    <3> QED  BY <3>1, <3>2, <3>3 DEF Left
  <2>4. Traces = {}
    BY <2>3 DEF Traces, Places
  <2> QED  BY <2>1, <2>2, <2>4 DEF Gate!GateInit
<1>2. InteractionsInv /\ [SocialNext]_socialVars => [Gate!GateNext]_(Gate!gateVars)
  <2> SUFFICES ASSUME InteractionsInv, [SocialNext]_socialVars
               PROVE  Gate!Change \/ \E r \in Requests : Gate!Admit(r) \/ Gate!Leave(r)
    BY DEF Gate!GateNext
  <2>1. ASSUME NEW r \in Requests, RequestStep(r)
        PROVE  Gate!Change \/ Gate!Admit(r) \/ Gate!Leave(r)
    BY <2>1, GateRequest, GateAuthorize, GateTrace DEF RequestStep
  <2> QED  BY <2>1, GateQuiet, GateDeletion DEF SocialNext
<1> QED  BY <1>1, <1>2, SocialInvariance, PTL
         DEF SocialSpec, ImplementsAudienceGate, Gate!GateSpec

=============================================================================
