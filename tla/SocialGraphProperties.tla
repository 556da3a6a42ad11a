------------------------ MODULE SocialGraphProperties -------------------------
(***************************************************************************)
(* What is claimed of the social graph: who may follow whom across a block, *)
(* and what deleting an account may undo.                                  *)
(***************************************************************************)
EXTENDS SocialGraph

\* Every table and call keeps its type.
GraphTypeOK ==
  /\ account \in [Users -> {"none", "active", "suspended"}]
  /\ rel \in [Users \X Users -> Relationship]
  /\ blocks \subseteq Users \X Users
  /\ hides \subseteq Users \X Users
  /\ notices \subseteq Users \X Users
  /\ call \in [Calls -> CallState]
  /\ events \in Nat

\* What a call in progress holds: a caller who has an account, targets other
\* than the caller, and checks that still stand unless they were overtaken.
CallHolds(row) ==
  /\ row.pc # "idle" =>
       row.user \in Users /\ account[row.user] # "none" /\ row.target # row.user
  /\ row.pc \notin {"idle", "delete", "import"} => row.target \in Users
  /\ row.pc \in {"clear", "followed"} => row.checked = {row.target}
  /\ row.user \notin row.checked \cup row.todo
  /\ \A t \in row.checked \ row.overtaken :
       /\ <<row.user, t>> \notin blocks
       /\ row.pc = "import" =>
            <<t, row.user>> \notin blocks /\ rel[<<row.user, t>>].state # "unfollowed"

\* Nobody follows or blocks oneself.
SelfFree ==
  \A u \in Users : rel[<<u, u>>] = NoRelationship /\ <<u, u>> \notin blocks

\* No row is owned by an account that is gone.
OwnersExist ==
  \A u \in Users : account[u] = "none" =>
    \A t \in Users : rel[<<u, t>>] = NoRelationship /\ <<u, t>> \notin blocks

\* The inductive invariant: the types, what the calls hold, and the two above
\* (putFollow, toggleRelation, DeleteAccount).
GraphInv ==
  /\ GraphTypeOK
  /\ \A c \in Calls : CallHolds(call[c])
  /\ SelfFree
  /\ OwnersExist

-----------------------------------------------------------------------------
(* Blocks and follows *)

FollowAcross(u, t) == Follows(u, t) /\ BlockedBetween(u, t)

\* The request was checked before the block was committed, or it is a native
\* follow of the blocked party.
MayCross(c, u, t) ==
  /\ call[c].user = u
  /\ \/ t \in call[c].overtaken
     \/ call[c].pc = "clear" /\ t = call[c].target /\ <<u, t>> \notin blocks

\* A follow comes to stand across a block in two ways only: its request was
\* checked before the block was committed, whichever of the two set it, or the
\* caller is the blocked party and follows natively, which putFollow does not
\* refuse (SetBlock, putFollow, ImportFollows).
BlocksHold ==
  [][\A u, t \in Users :
       FollowAcross(u, t)' /\ ~FollowAcross(u, t) =>
         \E c \in Calls : MayCross(c, u, t)]_graphVars

\* "Blocking also removes the follow relationships in both directions and
\* prevents new interactions" (graph.go).
NoFollowAcrossBlock == \A u, t \in Users : ~FollowAcross(u, t)

MayLift(c, u, t) ==
  /\ call[c].user = u
  /\ \/ call[c].pc = "delete"
     \/ call[c].pc = "clear" /\ call[c].target = t
     \/ call[c].pc = "import" /\ t \in call[c].overtaken

Lifted(u, t) ==
  rel[<<u, t>>].state = "unfollowed" /\ rel'[<<u, t>>].state # "unfollowed"

Downgraded(u, t) ==
  /\ rel[<<u, t>>].provenance = "stories_native"
  /\ rel'[<<u, t>>].provenance = "github_import"

\* A tombstone is lifted by a native follow of its owner, by an import that
\* looked at the row before it was a tombstone, or by the deletion of the
\* account; and a follow the owner chose natively never turns into an imported
\* one (Follow, Unfollow, ImportFollows).
TombstonesHold ==
  [][\A u, t \in Users :
       /\ Lifted(u, t) => \E c \in Calls : MayLift(c, u, t)
       /\ ~Downgraded(u, t)]_graphVars

MayUnblock(c, u, t) ==
  /\ call[c].user = u
  /\ \/ call[c].pc = "delete"
     \/ call[c].pc = "unblock" /\ call[c].target = t

\* A block is lifted only by whoever set it: the blocked party cannot shed it
\* by deleting the account and signing up again (blocks names identities).
OnlyBlockerUnblocks ==
  [][\A u, t \in Users :
       <<u, t>> \in blocks /\ <<u, t>> \notin blocks' =>
         \E c \in Calls : MayUnblock(c, u, t)]_graphVars

\* What a block promises: it stands until its owner lifts it, and while it stands
\* no follow comes to cross it but in the two ways above (SetBlock, putFollow).
BlocksStand == BlocksHold /\ OnlyBlockerUnblocks

=============================================================================
