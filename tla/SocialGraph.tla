----------------------------- MODULE SocialGraph ------------------------------
(***************************************************************************)
(* Accounts and the tables that relate them: follows with their tombstones *)
(* and provenance, blocks and hide rules.  A user stands for a GitHub      *)
(* identity, which outlives the account: rows that a person owns go with   *)
(* the account, rows that others keep about the person stay.               *)
(*                                                                         *)
(* The handlers are calls of several statements, which interleave and may  *)
(* end between any two of them.  A transaction is one step, at its commit, *)
(* unless what it read earlier matters.                                    *)
(***************************************************************************)
EXTENDS Naturals

CONSTANTS
  Users,     \* rows of github_identities
  NoUser,
  Calls,     \* handlers of the graph that can be in progress at once
  MaxEvents  \* bound on the requests and account events of a behaviour

ASSUME SocialAssumption == NoUser \notin Users /\ MaxEvents \in Nat

VARIABLES
  account,  \* users: whether the identity has an account, and its suspension
  rel,      \* relationships, by follower and followee
  blocks,   \* pairs of blocker and blocked
  hides,    \* pairs of author and hidden viewer
  notices,  \* inbox_events of kind 'follow': pairs of followee and follower
  call,     \* the handlers in progress
  events    \* requests and account events so far

graphVars == <<account, rel, blocks, hides, notices, call, events>>

-----------------------------------------------------------------------------
(* Types *)

NoRelationship == [state |-> "none", provenance |-> "none"]

Relationship ==
  {NoRelationship} \cup
  [state: {"active", "unfollowed"}, provenance: {"github_import", "stories_native"}]

\* todo: identities an import has still to look at.  checked: targets that
\* passed the checks of the call.  overtaken: those of them that an unfollow or
\* a block took from the caller since (a history, read by no action).
CallState == [pc: {"idle", "follow", "unfollow", "block", "unblock", "hide",
                   "unhide", "delete", "import", "clear", "followed"},
              user: Users \cup {NoUser},
              target: Users \cup {NoUser},
              todo: SUBSET Users,
              checked: SUBSET Users,
              overtaken: SUBSET Users]

IdleCall == [pc |-> "idle", user |-> NoUser, target |-> NoUser,
             todo |-> {}, checked |-> {}, overtaken |-> {}]

GraphInit ==
  /\ account = [u \in Users |-> "active"]
  /\ rel = [pair \in Users \X Users |-> NoRelationship]
  /\ blocks = {} /\ hides = {} /\ notices = {}
  /\ call = [c \in Calls |-> IdleCall]
  /\ events = 0

Active(u) == account[u] = "active"
Follows(u, t) == rel[<<u, t>>].state = "active"
BlockedBetween(u, t) == {<<u, t>>, <<t, u>>} \cap blocks # {}

CountEvent == events < MaxEvents /\ events' = events + 1

Finish(c) == call' = [call EXCEPT ![c] = IdleCall]

\* c is done, and took the follows in pairs from the calls that have checked
\* them already.
Overtake(c, pairs) ==
  call' = [d \in Calls |->
             IF d = c THEN IdleCall
             ELSE [call[d] EXCEPT !.overtaken =
                     @ \cup {t \in call[d].checked : <<call[d].user, t>> \in pairs}]]

\* What an unfollow or a block leaves of an active row: a tombstone.
Unfollowed(row) ==
  IF row.state = "active" THEN [row EXCEPT !.state = "unfollowed"] ELSE row

-----------------------------------------------------------------------------
(* Requests: mustCaller, resolveTarget and the refusal of oneself *)

Request(c, kind, u, t) ==
  /\ CountEvent
  /\ call[c].pc = "idle" /\ Active(u)
  /\ u # t
  /\ call' = [call EXCEPT ![c] = [IdleCall EXCEPT !.pc = kind, !.user = u,
                                                  !.target = t]]
  /\ UNCHANGED <<account, rel, blocks, hides, notices>>

AnyRequest(c) ==
  \E u, t \in Users :
    \E kind \in {"follow", "unfollow", "block", "unblock", "hide", "unhide"} :
      Request(c, kind, u, t)

RequestDeletion(c, u) ==
  /\ CountEvent
  /\ call[c].pc = "idle" /\ Active(u)
  /\ call' = [call EXCEPT ![c] = [IdleCall EXCEPT !.pc = "delete", !.user = u]]
  /\ UNCHANGED <<account, rel, blocks, hides, notices>>

-----------------------------------------------------------------------------
(* Follows *)

\* The row that Follow writes over row: native always wins, an import never
\* downgrades a native follow.
Followed(row, provenance) ==
  [state |-> "active",
   provenance |-> IF row = NoRelationship \/ provenance = "stories_native"
                  THEN provenance ELSE row.provenance]

\* BlockedEitherWay is asked with the zero id for the target's account, so
\* that only the caller's own blocks are found.
CheckFollow(c) ==
  LET u == call[c].user
      t == call[c].target IN
  /\ call[c].pc = "follow"
  /\ \/ /\ <<u, t>> \notin blocks
        /\ call' = [call EXCEPT ![c].pc = "clear", ![c].checked = {t}]
     \/ <<u, t>> \in blocks /\ Finish(c)
  /\ UNCHANGED <<account, rel, blocks, hides, notices, events>>

Follow(c) ==
  LET pair == <<call[c].user, call[c].target>> IN
  /\ call[c].pc = "clear"
  /\ rel' = [rel EXCEPT ![pair] = Followed(@, "stories_native")]
  /\ call' = [call EXCEPT ![c].pc = "followed"]
  /\ UNCHANGED <<account, blocks, hides, notices, events>>

\* Only a followee who has an account is notified.
NotifyFollow(c) ==
  LET u == call[c].user
      t == call[c].target IN
  /\ call[c].pc = "followed"
  /\ notices' = IF account[t] = "none" THEN notices ELSE notices \cup {<<t, u>>}
  /\ Finish(c)
  /\ UNCHANGED <<account, rel, blocks, hides, events>>

Unfollow(c) ==
  LET pair == <<call[c].user, call[c].target>> IN
  /\ call[c].pc = "unfollow"
  /\ rel' = [rel EXCEPT ![pair] = Unfollowed(@)]
  /\ Overtake(c, {pair})
  /\ UNCHANGED <<account, blocks, hides, notices, events>>

-----------------------------------------------------------------------------
(* The import of GitHub follows *)

\* The caller comes back from GitHub; a suspension is not looked at.
StartImport(c, u, identities) ==
  /\ CountEvent
  /\ call[c].pc = "idle" /\ account[u] # "none"
  /\ identities # {} /\ u \notin identities
  /\ call' = [call EXCEPT ![c] = [IdleCall EXCEPT !.pc = "import", !.user = u,
                                                  !.todo = identities]]
  /\ UNCHANGED <<account, rel, blocks, hides, notices>>

\* A block in either direction, a tombstone and a follow are all skipped.
\* Slips: tombstones are not, or blocks set by the target are not.
ImportableAgain(u, t) == ~BlockedBetween(u, t) /\ ~Follows(u, t)
ImportableAcross(u, t) ==
  <<u, t>> \notin blocks /\ rel[<<u, t>>] = NoRelationship
Importable(u, t) == ~BlockedBetween(u, t) /\ rel[<<u, t>>] = NoRelationship

ImportCheck(c, t) ==
  LET u == call[c].user IN
  /\ call[c].pc = "import" /\ t \in call[c].todo
  /\ call' = [call EXCEPT
       ![c].todo = @ \ {t},
       ![c].checked = IF Importable(u, t) THEN @ \cup {t} ELSE @]
  /\ UNCHANGED <<account, rel, blocks, hides, notices, events>>

\* The upserts become visible together; each overwrites the row it finds.
ImportFollows(c) ==
  /\ call[c].pc = "import" /\ call[c].todo = {}
  /\ rel' = [pair \in Users \X Users |->
               IF pair[1] = call[c].user /\ pair[2] \in call[c].checked
               THEN Followed(rel[pair], "github_import") ELSE rel[pair]]
  /\ Finish(c)
  /\ UNCHANGED <<account, blocks, hides, notices, events>>

-----------------------------------------------------------------------------
(* Blocks and hide rules *)

\* Blocking removes the follows in both directions.  Slip: in one.
SeveredOneWay(u, t) == [rel EXCEPT ![<<u, t>>] = Unfollowed(@)]
Severed(u, t) ==
  [rel EXCEPT ![<<u, t>>] = Unfollowed(@), ![<<t, u>>] = Unfollowed(@)]

SetBlock(c) ==
  LET u == call[c].user
      t == call[c].target IN
  /\ call[c].pc = "block"
  /\ blocks' = blocks \cup {<<u, t>>}
  /\ rel' = Severed(u, t)
  /\ Overtake(c, {<<u, t>>, <<t, u>>})
  /\ UNCHANGED <<account, hides, notices, events>>

Unblock(c) ==
  /\ call[c].pc = "unblock"
  /\ blocks' = blocks \ {<<call[c].user, call[c].target>>}
  /\ Finish(c)
  /\ UNCHANGED <<account, rel, hides, notices, events>>

SetHide(c) ==
  LET pair == <<call[c].user, call[c].target>> IN
  /\ \/ call[c].pc = "hide" /\ hides' = hides \cup {pair}
     \/ call[c].pc = "unhide" /\ hides' = hides \ {pair}
  /\ Finish(c)
  /\ UNCHANGED <<account, rel, blocks, notices, events>>

-----------------------------------------------------------------------------
(* Accounts *)

\* The rules others made about u name the identity and stay; a notice, which
\* names two accounts, goes with either.
WithoutMention(pairs, u) == {pair \in pairs : u \notin {pair[1], pair[2]}}
WithoutOwner(pairs, u) == {pair \in pairs : pair[1] # u}

\* DELETE FROM users cascades to what the user owns, and a call of theirs
\* that is in progress can only fail from now on.
DeleteAccount(c) ==
  LET u == call[c].user IN
  /\ call[c].pc = "delete"
  /\ account' = [account EXCEPT ![u] = "none"]
  /\ rel' = [pair \in Users \X Users |->
               IF pair[1] = u THEN NoRelationship ELSE rel[pair]]
  /\ blocks' = WithoutOwner(blocks, u)
  /\ hides' = WithoutOwner(hides, u)
  /\ notices' = WithoutMention(notices, u)
  /\ call' = [d \in Calls |-> IF call[d].user = u THEN IdleCall ELSE call[d]]
  /\ UNCHANGED events

EnsureUser(u) ==
  /\ CountEvent
  /\ account[u] = "none"
  /\ account' = [account EXCEPT ![u] = "active"]
  /\ UNCHANGED <<rel, blocks, hides, notices, call>>

SuspendUser(u) ==
  /\ CountEvent
  /\ account[u] = "active"
  /\ account' = [account EXCEPT ![u] = "suspended"]
  /\ UNCHANGED <<rel, blocks, hides, notices, call>>

UnsuspendUser(u) ==
  /\ CountEvent
  /\ account[u] = "suspended"
  /\ account' = [account EXCEPT ![u] = "active"]
  /\ UNCHANGED <<rel, blocks, hides, notices, call>>

-----------------------------------------------------------------------------

\* An error, a client that hangs up, a crash; an import's preview.
CallEnds(c) ==
  /\ call[c].pc # "idle"
  /\ Finish(c)
  /\ UNCHANGED <<account, rel, blocks, hides, notices, events>>

FollowStep(c) ==
  \/ CheckFollow(c) \/ Follow(c) \/ NotifyFollow(c) \/ Unfollow(c)

ImportStep(c) ==
  \/ \E u \in Users, identities \in SUBSET Users : StartImport(c, u, identities)
  \/ \E t \in Users : ImportCheck(c, t)
  \/ ImportFollows(c)

RuleStep(c) == SetBlock(c) \/ Unblock(c) \/ SetHide(c)

AccountStep ==
  \/ \E c \in Calls, u \in Users : RequestDeletion(c, u)
  \/ \E u \in Users : EnsureUser(u) \/ SuspendUser(u) \/ UnsuspendUser(u)

GraphStep ==
  \/ \E c \in Calls :
       AnyRequest(c) \/ FollowStep(c) \/ ImportStep(c) \/ RuleStep(c) \/ CallEnds(c)
  \/ AccountStep

GraphNext == GraphStep \/ \E c \in Calls : DeleteAccount(c)

GraphSpec == GraphInit /\ [][GraphNext]_graphVars

=============================================================================
