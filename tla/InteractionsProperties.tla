------------------------ MODULE InteractionsProperties ------------------------
(***************************************************************************)
(* What is claimed of the interactions with a Story: only its audience has *)
(* left them, the inbox agrees with the reactions, and a custom audience   *)
(* is a list of the author.                                                *)
(***************************************************************************)
EXTENDS Interactions, SocialGraphProperties

-----------------------------------------------------------------------------
(* Invariants *)

\* Every table and request keeps its type.
MarksTypeOK ==
  /\ views \subseteq Users \X Stories
  /\ reactions \in [Users \X Stories -> Emojis \cup {NoEmoji}]
  /\ mentions \in [Users \X Stories -> Emojis \cup {NoEmoji}]
  /\ replies \in [Users \X Stories \X (Keys \cup {NoKey}) -> Nat]
  /\ remembered \subseteq Users \X Keys
  /\ anonymous \in [Stories -> Nat]

InteractionsTypeOK ==
  /\ story \in [Stories -> StoryRow]
  /\ list \in [Lists -> ListRow]
  /\ MarksTypeOK
  /\ request \in [Requests -> RequestState]

\* What a request in progress holds.
RequestHolds(row) ==
  /\ row.pc # "idle" => row.story \in Stories
  /\ row.pc # "idle" => row.deed # "none"
  /\ row.user = NoUser => row.deed \in {"none", "view"}
  /\ row.pc = "admitted" => row.deed \in {"view", "react", "reply"}
  /\ row.pc \in {"keyed", "answered"} => row.deed = "reply"
  /\ row.pc = "cleared" => row.deed = "unreact"
  /\ row.pc = "resolved" => row.deed = "edit"
  /\ row.deed = "react" => row.emoji # NoEmoji
  /\ row.deed = "edit" =>
       /\ row.user = Author[row.story]
       /\ row.list # NoList => row.visibility = "custom_list"
       /\ row.pc = "resolved" /\ row.visibility = "custom_list" =>
            row.list # NoList /\ list[row.list].owner = row.user

\* A Story names a list just when its audience is custom, and the list is its
\* author's, through edits that resolve the list before they set it, deletions
\* of lists and of accounts (resolveAudienceList, UpdateStory, DeleteAccount).
CustomListIsOwn ==
  \A s \in Stories :
    /\ story[s].list # NoList =>
         /\ story[s].visibility = "custom_list"
         /\ list[story[s].list].owner = Author[s]
    /\ Live(s) /\ story[s].visibility = "custom_list" => story[s].list # NoList

\* An inbox never shows the author a reaction that is not the one set, however
\* sets and clears overlap (SetReaction, ClearReaction).
InboxMatchesReactions ==
  \A u \in Users, s \in Stories :
    mentions[<<u, s>>] # NoEmoji => mentions[<<u, s>>] = reactions[<<u, s>>]

\* Authors are not told of their own reactions.
NoSelfMention == \A s \in Stories : mentions[<<Author[s], s>>] = NoEmoji

\* The inductive invariant: the properties above, the graph's invariant and what
\* the requests hold between their statements (postReply, putReaction, patchStory,
\* DeleteAccount).
InteractionsInv ==
  /\ GraphInv
  /\ InteractionsTypeOK
  /\ \A r \in Requests : RequestHolds(request[r])
  /\ CustomListIsOwn
  /\ InboxMatchesReactions
  /\ NoSelfMention

-----------------------------------------------------------------------------
(* The audience as one set, and the gate that the handlers implement *)

Followers(u) == {v \in Users : Follows(v, u)}
Followees(u) == {v \in Users : Follows(u, v)}

Members(l) ==
  {v \in Users : l # NoList /\ ~list[l].deleted /\ v \in list[l].members}

\* Whom the author chose.
Circle(s) ==
  LET author == Author[s]
      visibility == story[s].visibility IN
  CASE visibility = "followers_of_author" -> Followees(author)
    [] visibility = "author_follows" -> Followers(author)
    [] visibility = "mutuals" -> Followers(author) \cap Followees(author)
    [] visibility = "custom_list" -> Members(story[s].list)
    [] visibility = "public" -> Users

\* Whom the author hides from, and who is apart by a block of either.
Shunned(u) ==
  {v \in Users : <<u, v>> \in hides \/ <<u, v>> \in blocks \/ <<v, u>> \in blocks}

Audience(s) ==
  IF Live(s) /\ account[Author[s]] = "active"
  THEN {Author[s]} \cup (Circle(s) \ Shunned(Author[s])) ELSE {}

Deeds == {"view", "react", "reply"}
Places == Deeds \X (Users \cup {NoUser}) \X Stories

\* Nobody views or answers a Story of one's own; the public one is anybody's.
Allowed(deed, u, s) ==
  \/ /\ u \in Audience(s)
     /\ deed \in {"view", "reply"} => u # Author[s]
     /\ deed \in {"reply", "react"} => deed \in story[s].permits
  \/ /\ u = NoUser /\ deed = "view"
     /\ Audience(s) # {} /\ story[s].visibility = "public"

Left(deed, u, s) ==
  \/ deed = "view" /\ <<u, s>> \in views
  \/ deed = "view" /\ u = NoUser /\ anonymous[s] > 0
  \/ deed = "react" /\ u \in Users /\ reactions[<<u, s>>] # NoEmoji
  \/ /\ deed = "reply" /\ u \in Users
     /\ \E key \in Keys \cup {NoKey} : replies[<<u, s, key>>] > 0

AllowedPlaces == {place \in Places : Allowed(place[1], place[2], place[3])}
Traces == {place \in Places : Left(place[1], place[2], place[3])}

AdmittedPlaces(row) ==
  IF row.pc = "admitted" THEN {<<row.deed, row.user, row.story>>} ELSE {}

Gate == INSTANCE AudienceGate WITH
  allowed <- AllowedPlaces,
  admitted <- [r \in Requests |-> AdmittedPlaces(request[r])],
  traces <- Traces

\* Whatever is left on a Story was left by somebody who was in its audience at
\* one moment of the request, for the deed at hand (visibility.go, StoryForViewer,
\* PublicStory and every handler that asks them).
ImplementsAudienceGate == Gate!GateSpec

=============================================================================
