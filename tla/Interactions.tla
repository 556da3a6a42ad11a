----------------------------- MODULE Interactions -----------------------------
(***************************************************************************)
(* Who may see a Story and what they leave on it: views, reactions and     *)
(* replies.  Every handler asks the one visibility predicate first and     *)
(* writes afterwards, while the graph, the audience lists, the author's    *)
(* account and the Story itself change under it.                           *)
(*                                                                         *)
(* How a Story comes to be published and is taken back is MediaPipeline's; *)
(* here it is published with some audience and is gone some time later.    *)
(***************************************************************************)
EXTENDS SocialGraph

CONSTANTS
  Stories,
  NoStory,
  Author,    \* story_items.author_user_id
  Lists,     \* rows of audience_lists
  NoList,
  Emojis,
  NoEmoji,
  Keys,      \* Idempotency-Key headers of replies
  NoKey,
  Requests,  \* handlers of Stories that can be in progress at once
  Permits,   \* what authors choose for allow_replies and allow_reactions
  StoryTTL   \* domain.StoryTTL, in ticks

ASSUME InteractionsAssumption ==
  /\ Author \in [Stories -> Users] /\ NoStory \notin Stories
  /\ NoList \notin Lists /\ NoEmoji \notin Emojis /\ NoKey \notin Keys
  /\ Permits \subseteq SUBSET {"reply", "react"} /\ Permits # {}
  /\ StoryTTL \in Nat

VARIABLES
  story,      \* story_items: life and audience
  list,       \* audience_lists with their members
  views,      \* story_views: pairs of viewer and Story
  reactions,  \* reactions, by user and Story
  mentions,   \* inbox_events of kind 'reaction': the emoji, by actor and Story
  replies,    \* number of replies, by sender, Story and key of the request
  remembered, \* idempotency_keys of scope 'reply': pairs of user and key
  anonymous,  \* anonymous_view_count
  request     \* the handlers in progress

marks == <<views, reactions, mentions, replies, remembered, anonymous>>
socialVars == <<graphVars, story, list, marks, request>>

-----------------------------------------------------------------------------
(* Types *)

Visibilities == {"followers_of_author", "author_follows", "mutuals",
                 "custom_list", "public"}

StoryRow == [state: {"none", "published", "gone"},
             ttl: 0..StoryTTL,            \* expires_at - Now()
             visibility: Visibilities,
             list: Lists \cup {NoList},   \* audience_list_id
             permits: SUBSET {"reply", "react"}] \* allow_replies, allow_reactions

ListRow == [owner: Users \cup {NoUser}, members: SUBSET Users, deleted: BOOLEAN]

UnusedList == [owner |-> NoUser, members |-> {}, deleted |-> FALSE]

\* emoji: of a reaction.  visibility and list: of an edit.  A user of NoUser
\* is not signed in.
RequestState ==
  [pc: {"idle", "asked", "keyed", "admitted", "answered", "cleared", "resolved"},
   deed: {"none", "view", "react", "reply", "unreact", "edit"},
   user: Users \cup {NoUser},
   story: Stories \cup {NoStory},
   emoji: Emojis \cup {NoEmoji},
   key: Keys \cup {NoKey},
   visibility: Visibilities \cup {"unchanged"},
   list: Lists \cup {NoList}]

IdleRequest == [pc |-> "idle", deed |-> "none", user |-> NoUser,
                story |-> NoStory, emoji |-> NoEmoji, key |-> NoKey,
                visibility |-> "unchanged", list |-> NoList]

InteractionsInit ==
  /\ GraphInit
  /\ story = [s \in Stories |->
                [state |-> "none", ttl |-> 0, visibility |-> "public",
                 list |-> NoList, permits |-> {}]]
  /\ list = [l \in Lists |-> UnusedList]
  /\ views = {} /\ remembered = {}
  /\ reactions = [row \in Users \X Stories |-> NoEmoji]
  /\ mentions = [row \in Users \X Stories |-> NoEmoji]
  /\ replies = [row \in Users \X Stories \X (Keys \cup {NoKey}) |-> 0]
  /\ anonymous = [s \in Stories |-> 0]
  /\ request = [r \in Requests |-> IdleRequest]

Answer(r) == request' = [request EXCEPT ![r] = IdleRequest]

-----------------------------------------------------------------------------
(* The visibility predicate *)

Live(s) == story[s].state = "published" /\ story[s].ttl > 0

\* A list counts while it is its owner's and the owner is the author.
Listed(s, u) ==
  LET l == story[s].list IN
  /\ l # NoList
  /\ list[l].owner = Author[s] /\ ~list[l].deleted /\ u \in list[l].members

InAudience(s, u) ==
  LET visibility == story[s].visibility IN
  \/ visibility = "followers_of_author" /\ Follows(Author[s], u)
  \/ visibility = "author_follows" /\ Follows(u, Author[s])
  \/ visibility = "mutuals" /\ Follows(Author[s], u) /\ Follows(u, Author[s])
  \/ visibility = "custom_list" /\ Listed(s, u)
  \/ visibility = "public"

\* Slip: only the viewer's own blocks are asked for.
VisibleToBlocked(s, u) ==
  /\ Live(s) /\ Active(Author[s])
  /\ \/ u = Author[s]
     \/ /\ <<u, Author[s]>> \notin blocks
        /\ <<Author[s], u>> \notin hides
        /\ InAudience(s, u)

VisibleToViewer(s, u) ==
  /\ Live(s) /\ Active(Author[s])
  /\ \/ u = Author[s]
     \/ /\ ~BlockedBetween(u, Author[s])
        /\ <<Author[s], u>> \notin hides
        /\ InAudience(s, u)

\* The subset of the predicate that needs no viewer.
PublicStory(s) ==
  Live(s) /\ Active(Author[s]) /\ story[s].visibility = "public"

-----------------------------------------------------------------------------
(* Audience lists *)

CreateAudienceList(l, u, members) ==
  /\ CountEvent
  /\ list[l] = UnusedList /\ Active(u)
  /\ list' = [list EXCEPT ![l] = [owner |-> u, members |-> members, deleted |-> FALSE]]
  /\ UNCHANGED <<account, rel, blocks, hides, notices, call, story, marks, request>>

\* The DELETE of one replacement does not see the rows an overlapping one has
\* not committed: any of the present members may be left beside the new ones.
\* A request overtaken by the list's deletion or the owner's suspension counts
\* as made before: nothing reads the members of such a list.
UpdateAudienceList(l, members) ==
  /\ CountEvent
  /\ list[l].owner # NoUser /\ ~list[l].deleted /\ Active(list[l].owner)
  /\ \E left \in SUBSET list[l].members :
       list' = [list EXCEPT ![l].members = members \cup left]
  /\ UNCHANGED <<account, rel, blocks, hides, notices, call, story, marks, request>>

DeleteAudienceList(l) ==
  /\ CountEvent
  /\ list[l].owner # NoUser /\ ~list[l].deleted /\ Active(list[l].owner)
  /\ list' = [list EXCEPT ![l].deleted = TRUE]
  /\ UNCHANGED <<account, rel, blocks, hides, notices, call, story, marks, request>>

-----------------------------------------------------------------------------
(* The life of a Story *)

\* The audience was checked when the upload was authorized: a custom one names
\* a list of the author, which may be deleted by now.
PublishStory(s) ==
  /\ story[s].state = "none" /\ account[Author[s]] # "none"
  /\ \E visibility \in Visibilities, l \in Lists \cup {NoList}, permits \in Permits :
       /\ IF visibility = "custom_list" THEN l # NoList /\ list[l].owner = Author[s]
          ELSE l = NoList
       /\ story' = [story EXCEPT ![s] =
            [state |-> "published", ttl |-> StoryTTL, visibility |-> visibility,
             list |-> l, permits |-> permits]]
  /\ UNCHANGED <<graphVars, list, marks, request>>

\* The row of a Story that is gone: nothing reads its deadline and audience.
Gone(row) == [row EXCEPT !.state = "gone", !.ttl = 0, !.visibility = "public",
                         !.list = NoList, !.permits = {}]

\* DeleteStory by the author or a moderator, ExpireStories.
StoryGone(s) ==
  /\ story[s].state = "published"
  /\ story' = [story EXCEPT ![s] = Gone(@)]
  /\ UNCHANGED <<graphVars, list, marks, request>>

TickStories ==
  /\ story' = [s \in Stories |->
                 [story[s] EXCEPT !.ttl = IF @ > 0 THEN @ - 1 ELSE 0]]
  /\ UNCHANGED <<graphVars, list, marks, request>>

-----------------------------------------------------------------------------
(* Requests and their authorization *)

Ask(r, fields) ==
  /\ CountEvent
  /\ request[r].pc = "idle"
  /\ story[fields.story].state # "none"
  /\ request' = [request EXCEPT ![r] = fields]
  /\ UNCHANGED <<account, rel, blocks, hides, notices, call, story, list, marks>>

Asked(deed, u, s) ==
  [IdleRequest EXCEPT !.pc = "asked", !.deed = deed, !.user = u, !.story = s]

\* getMedia without a session; whoever is suspended has none either.
AskAnonymously(r) == \E s \in Stories : Ask(r, Asked("view", NoUser, s))

\* getMedia, postView, putReaction, deleteReaction, postReply.
AskSignedIn(r) ==
  \E u \in Users, s \in Stories :
    /\ Active(u)
    /\ \/ \E deed \in {"view", "unreact"} : Ask(r, Asked(deed, u, s))
       \/ \E emoji \in Emojis :
            Ask(r, [Asked("react", u, s) EXCEPT !.emoji = emoji])
       \/ \E key \in Keys \cup {NoKey} :
            Ask(r, [Asked("reply", u, s) EXCEPT !.key = key])

\* IdempotentReplay: a key that is remembered answers at once, with what was
\* stored or with a conflict.
LookUpKey(r) ==
  LET row == request[r] IN
  /\ row.pc = "asked" /\ row.deed = "reply"
  /\ IF <<row.user, row.key>> \in remembered THEN Answer(r)
     ELSE request' = [request EXCEPT ![r].pc = "keyed"]
  /\ UNCHANGED <<graphVars, story, list, marks>>

\* What the handlers ask of StoryForViewer's answer; authors neither view nor
\* answer their own Stories.
Permitted(deed, u, s) ==
  IF u = NoUser THEN deed = "view" /\ PublicStory(s)
  ELSE /\ VisibleToViewer(s, u)
       /\ deed \in {"view", "reply"} => u # Author[s]
       /\ deed \in {"react", "reply"} => deed \in story[s].permits

Authorize(r) ==
  LET row == request[r] IN
  /\ \/ row.pc = "asked" /\ row.deed \in {"view", "react"}
     \/ row.pc = "keyed"
  /\ IF Permitted(row.deed, row.user, row.story)
     THEN request' = [request EXCEPT ![r].pc = "admitted"]
     ELSE Answer(r)
  /\ UNCHANGED <<graphVars, story, list, marks>>

-----------------------------------------------------------------------------
(* What the requests leave *)

Place(r) == <<request[r].user, request[r].story>>

\* RecordView by the media gateway, AcknowledgeView by the client.
RecordView(r) ==
  /\ request[r].pc = "admitted" /\ request[r].deed = "view"
  /\ request[r].user # NoUser
  /\ views' = views \cup {Place(r)}
  /\ Answer(r)
  /\ UNCHANGED <<graphVars, story, list, reactions, mentions, replies,
                 remembered, anonymous>>

\* The UPDATE asks again whether the Story is public, not for its author.
RecordAnonymousView(r) ==
  LET s == request[r].story IN
  /\ request[r].pc = "admitted" /\ request[r].deed = "view"
  /\ request[r].user = NoUser
  /\ anonymous' = IF Live(s) /\ story[s].visibility = "public"
                  THEN [anonymous EXCEPT ![s] = @ + 1] ELSE anonymous
  /\ Answer(r)
  /\ UNCHANGED <<graphVars, story, list, views, reactions, mentions, replies,
                 remembered>>

\* The row of reactions is locked from its upsert to the commit.
SetReaction(r) ==
  LET emoji == request[r].emoji IN
  /\ request[r].pc = "admitted" /\ request[r].deed = "react"
  /\ reactions' = [reactions EXCEPT ![Place(r)] = emoji]
  /\ mentions' = IF request[r].user = Author[request[r].story] THEN mentions
                 ELSE [mentions EXCEPT ![Place(r)] = emoji]
  /\ Answer(r)
  /\ UNCHANGED <<graphVars, story, list, views, replies, remembered, anonymous>>

\* Without the reaction's inbox event.
Unmentioned(place) == [mentions EXCEPT ![place] = NoEmoji]

\* A row that is there is locked to the commit; one that is not may be set
\* before the second DELETE.
ClearReaction(r) ==
  /\ request[r].pc = "asked" /\ request[r].deed = "unreact"
  /\ \/ /\ reactions[Place(r)] # NoEmoji
        /\ reactions' = [reactions EXCEPT ![Place(r)] = NoEmoji]
        /\ mentions' = Unmentioned(Place(r))
        /\ Answer(r)
     \/ /\ reactions[Place(r)] = NoEmoji
        /\ request' = [request EXCEPT ![r].pc = "cleared"]
        /\ UNCHANGED <<reactions, mentions>>
  /\ UNCHANGED <<graphVars, story, list, views, replies, remembered, anonymous>>

ClearReactionInbox(r) ==
  /\ request[r].pc = "cleared"
  /\ mentions' = Unmentioned(Place(r))
  /\ Answer(r)
  /\ UNCHANGED <<graphVars, story, list, views, reactions, replies, remembered,
                 anonymous>>

\* With the author's inbox event, in one transaction.
CreateReply(r) ==
  LET row == request[r] IN
  /\ row.pc = "admitted" /\ row.deed = "reply"
  /\ replies' = [replies EXCEPT ![<<row.user, row.story, row.key>>] = @ + 1]
  /\ request' = [request EXCEPT ![r].pc = "answered"]
  /\ UNCHANGED <<graphVars, story, list, views, reactions, mentions, remembered,
                 anonymous>>

RememberIdempotent(r) ==
  LET row == request[r] IN
  /\ row.pc = "answered"
  /\ remembered' = IF row.key = NoKey THEN remembered
                   ELSE remembered \cup {<<row.user, row.key>>}
  /\ Answer(r)
  /\ UNCHANGED <<graphVars, story, list, views, reactions, mentions, replies,
                 anonymous>>

-----------------------------------------------------------------------------
(* Edits of the audience *)

\* patchStory; a request for somebody else's Story finds no row to update.
AskEdit(r) ==
  \E s \in Stories, visibility \in Visibilities \cup {"unchanged"},
     l \in Lists \cup {NoList} :
    /\ Active(Author[s])
    /\ visibility # "custom_list" => l = NoList
    /\ Ask(r, [Asked("edit", Author[s], s) EXCEPT !.visibility = visibility,
                                                  !.list = l])

\* resolveAudienceList: a custom audience names a list of the caller's.
ResolveAudienceList(r) ==
  LET row == request[r] IN
  /\ row.pc = "asked" /\ row.deed = "edit"
  /\ IF /\ row.visibility = "custom_list"
        /\ row.list = NoList \/ list[row.list].owner # row.user
                             \/ list[row.list].deleted
     THEN Answer(r)
     ELSE request' = [request EXCEPT ![r].pc = "resolved"]
  /\ UNCHANGED <<graphVars, story, list, marks>>

\* Slip: the list outlives the custom audience.
EditedKeepingList(row, visibility, l) ==
  IF visibility = "unchanged" THEN row
  ELSE [row EXCEPT !.visibility = visibility, !.list = IF l = NoList THEN @ ELSE l]

\* The audience columns as UpdateStory sets them.
Edited(row, visibility, l) ==
  IF visibility = "unchanged" THEN row
  ELSE [row EXCEPT !.visibility = visibility, !.list = l]

UpdateStory(r) ==
  LET row == request[r] IN
  /\ row.pc = "resolved"
  /\ \E permits \in Permits :
       story' = IF story[row.story].state # "published" THEN story
                ELSE [story EXCEPT ![row.story] =
                        [Edited(@, row.visibility, row.list) EXCEPT
                           !.permits = permits]]
  /\ Answer(r)
  /\ UNCHANGED <<graphVars, list, marks>>

-----------------------------------------------------------------------------
(* Accounts and failure *)

\* What DELETE FROM users takes with it here: the account's Stories with what
\* others left on them, its own marks and its lists.  Requests of that account
\* or on those Stories can only fail from now on.
Cascade(u) ==
  LET Goes(v, s) == v = u \/ Author[s] = u IN
  /\ story' = [s \in Stories |->
       IF Author[s] = u THEN Gone(story[s]) ELSE story[s]]
  /\ list' = [l \in Lists |-> IF list[l].owner = u THEN UnusedList ELSE list[l]]
  /\ views' = {row \in views : ~Goes(row[1], row[2])}
  /\ reactions' = [row \in Users \X Stories |->
       IF Goes(row[1], row[2]) THEN NoEmoji ELSE reactions[row]]
  /\ mentions' = [row \in Users \X Stories |->
       IF Goes(row[1], row[2]) THEN NoEmoji ELSE mentions[row]]
  /\ replies' = [row \in Users \X Stories \X (Keys \cup {NoKey}) |->
       IF Goes(row[1], row[2]) THEN 0 ELSE replies[row]]
  /\ remembered' = {row \in remembered : row[1] # u}
  /\ anonymous' = [s \in Stories |-> IF Author[s] = u THEN 0 ELSE anonymous[s]]
  /\ request' = [r \in Requests |->
       IF request[r].pc # "idle" /\ Goes(request[r].user, request[r].story)
       THEN IdleRequest ELSE request[r]]

DeleteAccountRows(c) == DeleteAccount(c) /\ Cascade(call[c].user)

\* An error, a client that hangs up, a crash.
RequestEnds(r) ==
  /\ request[r].pc # "idle"
  /\ Answer(r)
  /\ UNCHANGED <<graphVars, story, list, marks>>

-----------------------------------------------------------------------------

ListStep ==
  \E l \in Lists :
    \/ \E u \in Users, members \in SUBSET Users : CreateAudienceList(l, u, members)
    \/ \E members \in SUBSET Users : UpdateAudienceList(l, members)
    \/ DeleteAudienceList(l)

StoryStep == (\E s \in Stories : PublishStory(s) \/ StoryGone(s)) \/ TickStories

RequestStep(r) ==
  \/ AskAnonymously(r) \/ AskSignedIn(r) \/ AskEdit(r)
  \/ LookUpKey(r) \/ Authorize(r) \/ ResolveAudienceList(r)
  \/ RecordView(r) \/ RecordAnonymousView(r) \/ SetReaction(r)
  \/ ClearReaction(r) \/ ClearReactionInbox(r)
  \/ CreateReply(r) \/ RememberIdempotent(r) \/ UpdateStory(r)
  \/ RequestEnds(r)

SocialNext ==
  \/ GraphStep /\ UNCHANGED <<story, list, marks, request>>
  \/ \E c \in Calls : DeleteAccountRows(c)
  \/ ListStep
  \/ StoryStep
  \/ \E r \in Requests : RequestStep(r)

SocialSpec == InteractionsInit /\ [][SocialNext]_socialVars

=============================================================================
