---------------------------- MODULE ExtensionProofs ----------------------------
(***************************************************************************)
(* Theorems about the parts of the browser extension, for any number of    *)
(* accounts, sign-ins, origins, avatars, faces, Stories, requests and      *)
(* posts.  The parts share no state, and each has an invariant of its own: *)
(* PlayerTypeOK for the viewer, ComposerInv for the composer, RingInv for  *)
(* the avatar rings, Shape with StoredInv, GrantInv and HomeInv for the    *)
(* session.                                                                *)
(***************************************************************************)
EXTENDS Extension, TLAPS

-----------------------------------------------------------------------------
(* The viewer *)

LEMMA TrayFacts ==
  /\ Len(Tray) \in Nat \ {0} /\ \A g \in 1..Len(Tray) : Len(Tray[g]) \in Nat \ {0}
  /\ 1 \in 1..Len(Tray) /\ MaxTouches \in Nat
  /\ \A g \in 1..Len(Tray), i \in Nat : i \in 1..Len(Tray[g]) => Tray[g][i] \in Stories
BY TrayAssumption DEF TrayAssumption, Stories

LEMMA ItemShown == \A v \in Viewers : ItemOf(v) \in Stories \cup {NoStory}
BY TrayFacts DEF ItemOf, Viewers

LEMMA ClosedFits ==
  Closed \in Viewers /\ NoMedia \in Caches /\ [Closed EXCEPT !.open = TRUE] \in Viewers
<1>1. 1 \in 1..Len(Tray) /\ 1 \in Nat \ {0} /\ 0 \in Nat
  BY TrayFacts
<1> QED
  BY <1>1 DEF Closed, NoMedia, Viewers, Caches

\* Where a viewer may go.
LEMMA ItemMoves ==
  ASSUME NEW v \in Viewers, NEW i \in Nat \ {0}, NEW w, w = [v EXCEPT !.item = i]
  PROVE  w \in Viewers /\ w.group = v.group
BY DEF Viewers

LEMMA NextFits ==
  ASSUME NEW v \in Viewers, NEW at \in Nat
  PROVE  /\ GoNext(v, at) \in Viewers
         /\ GoNext(v, at).open /\ GoNext(v, at).group > v.group => GoNext(v, at).item = 1
<1>0. at + 1 \in Nat \ {0} /\ v.group \in 1..Len(Tray) /\ Len(Tray) \in Nat /\ 1 \in Nat \ {0}
  BY TrayFacts DEF Viewers
<1>1. CASE at < Len(Tray[v.group])
  <2>1. GoNext(v, at) = [v EXCEPT !.item = at + 1]
    BY <1>1 DEF GoNext
  <2>2. GoNext(v, at) \in Viewers /\ GoNext(v, at).group = v.group
    BY <1>0, <2>1, ItemMoves
  <2> QED
    BY <1>0, <2>2
<1>2. CASE ~(at < Len(Tray[v.group])) /\ v.group < Len(Tray)
  <2> DEFINE g == v.group + 1
             w == GoNext(v, at)
  <2>1. w = [v EXCEPT !.group = g, !.item = 1]
    BY <1>2 DEF GoNext
  <2>2. g \in 1..Len(Tray)
    BY <1>0, <1>2
  <2> HIDE DEF g, w
  <2>3. w \in Viewers /\ w.item = 1
    BY <1>0, <2>1, <2>2 DEF Viewers
  <2> QED
    BY <2>3 DEF w
<1>3. CASE ~(at < Len(Tray[v.group])) /\ ~(v.group < Len(Tray))
  <2>1. GoNext(v, at) = Closed
    BY <1>3 DEF GoNext
  <2> QED
    BY <2>1, ClosedFits DEF Closed
<1> QED
  BY <1>1, <1>2, <1>3

LEMMA PrevFits ==
  ASSUME NEW v \in Viewers, NEW at \in Nat
  PROVE  GoPrev(v, at) \in Viewers /\ ~(GoPrev(v, at).group > v.group)
<1>0. v.group \in 1..Len(Tray) /\ Len(Tray) \in Nat
  BY TrayFacts DEF Viewers
<1>1. CASE at > 1
  <2>1. GoPrev(v, at) = [v EXCEPT !.item = at - 1] /\ at - 1 \in Nat \ {0}
    BY <1>1 DEF GoPrev
  <2>2. GoPrev(v, at) \in Viewers /\ GoPrev(v, at).group = v.group
    BY <1>0, <2>1, ItemMoves
  <2> QED
    BY <1>0, <2>2
<1>2. CASE ~(at > 1) /\ v.group > 1
  <2> DEFINE g == v.group - 1
             i == Len(Tray[g])
             w == GoPrev(v, at)
  <2>1. w = [v EXCEPT !.group = g, !.item = i]
    BY <1>2 DEF GoPrev
  <2>2. g \in 1..Len(Tray) /\ ~(g > v.group)
    BY <1>0, <1>2
  <2>3. i \in Nat \ {0}
    BY <2>2, TrayFacts
  <2> HIDE DEF g, i, w
  <2>4. w \in Viewers /\ w.group = g
    BY <2>1, <2>2, <2>3 DEF Viewers
  <2> QED
    BY <2>2, <2>4 DEF w
<1>3. CASE ~(at > 1) /\ ~(v.group > 1)
  BY <1>0, <1>3 DEF GoPrev
<1> QED
  BY <1>1, <1>2, <1>3

LEMMA QueuedFits ==
  ASSUME NEW v \in Viewers
  PROVE  /\ Queued(v) \in Viewers
         /\ Queued(v).open /\ Queued(v).group > v.group => Queued(v).item = 1
<1>1. v.queued \in Nat /\ v.group \in 1..Len(Tray) /\ ~(v.group > v.group)
  BY TrayFacts DEF Viewers
<1>2. CASE v.queued = 0
  BY <1>1, <1>2 DEF Queued
<1>3. CASE v.queued # 0
  BY <1>1, <1>3, NextFits DEF Queued
<1> QED
  BY <1>2, <1>3

LEMMA EnsuredFits ==
  ASSUME NEW cache \in Caches, NEW story \in Stories \cup {NoStory}
  PROVE  /\ Ensured(cache, story) \in Caches
         /\ Ensured(cache, story).inflight \subseteq cache.inflight \cup {story}
BY DEF Ensured, Caches

\* Warming asks for the first item of a later group only.
LEMMA FollowedFits ==
  ASSUME NEW cache \in Caches, NEW before \in Viewers, NEW after \in Viewers
  PROVE  /\ Followed(cache, before, after) \in Caches
         /\ \A story \in Followed(cache, before, after).inflight \ cache.inflight :
              /\ after.open /\ after.group > before.group
              /\ story = Tray[after.group][1]
<1>1. after.group \in 1..Len(Tray)
  BY DEF Viewers
<1>2. Tray[after.group][1] \in Stories
  BY <1>1, TrayFacts
<1> QED
  BY <1>2, EnsuredFits DEF Followed, Warmed

\* Rendering asks for the item on screen only.
LEMMA RenderFits ==
  ASSUME PlayerTypeOK, NEW v \in Viewers, NEW cache \in Caches, Render(v, cache)
  PROVE  /\ viewer' \in Viewers /\ media' \in Caches
         /\ ItemOf(viewer') = ItemOf(v)
         /\ \A story \in media'.inflight \ cache.inflight : story = ItemOf(v)
<1>1. viewer' \in Viewers /\ ItemOf(viewer') = ItemOf(v)
  BY DEF Render, Rendered, Viewers, ItemOf
<1>2. media' \in Caches /\ \A story \in media'.inflight \ cache.inflight : story = ItemOf(v)
  <2>1. CASE ~v.open
    BY <2>1, ClosedFits DEF Render, RenderedMedia, NoMedia
  <2>2. CASE v.open /\ ItemOf(v) \in lapsed
    BY <2>2 DEF Render, RenderedMedia
  <2>3. CASE v.open /\ ItemOf(v) \notin lapsed
    BY <2>3, ItemShown, EnsuredFits DEF Render, RenderedMedia
  <2> QED
    BY <2>1, <2>2, <2>3
<1> QED
  BY <1>1, <1>2

\* A viewer that has moved to the first item of a group shows that group's first.
LEMMA FirstShown ==
  ASSUME NEW v \in Viewers, v.open, v.item = 1
  PROVE  ItemOf(v) = Tray[v.group][1]
BY TrayFacts DEF ItemOf, Viewers

LEMMA GestureFits ==
  ASSUME PlayerTypeOK, NEW v \in Viewers, Gesture(v)
  PROVE  PlayerTypeOK'
<1> DEFINE first == Queued(viewer)
           then == IF first.open THEN v ELSE first
           warm == Followed(Followed(media, viewer, first), first, then)
<1>1. viewer \in Viewers /\ media \in Caches /\ raced \in BOOLEAN
      /\ touches \in 0..MaxTouches /\ MaxTouches \in Nat
  BY TrayFacts DEF PlayerTypeOK
<1>2. first \in Viewers /\ then \in Viewers
  BY <1>1, QueuedFits
<1>3. Render(then, warm) /\ raced' \in BOOLEAN /\ touches' \in 0..MaxTouches
      /\ UNCHANGED <<opening, lapsed>>
  BY <1>1 DEF Gesture, Touch
<1> HIDE DEF first, then
<1>4. warm \in Caches
  BY <1>1, <1>2, FollowedFits
<1> HIDE DEF warm
<1> QED
  BY <1>2, <1>3, <1>4, RenderFits DEF PlayerTypeOK

\* Unless the gesture has overtaken a render, it fetches what it shows.
LEMMA GestureShows ==
  ASSUME PlayerTypeOK, NEW v \in Viewers, Gesture(v), ~raced',
         v.open /\ v.group > viewer.group => v.item = 1
  PROVE  \A story \in media'.inflight \ media.inflight : story = ItemOf(viewer')
<1>1. viewer \in Viewers /\ media \in Caches /\ viewer.open
  BY DEF PlayerTypeOK, Gesture
<1>2. Queued(viewer) = viewer
  BY DEF Gesture, Queued
<1>3. Followed(media, viewer, viewer) = media
  BY <1>1 DEF Followed, Viewers
<1>4. Render(v, Followed(media, viewer, v))
  BY <1>1, <1>2, <1>3 DEF Gesture
<1>5. Followed(media, viewer, v) \in Caches
  BY <1>1, FollowedFits
<1>6. ASSUME NEW story \in Followed(media, viewer, v).inflight \ media.inflight
      PROVE  story = ItemOf(v)
  BY <1>1, <1>6, FollowedFits, FirstShown
<1> QED
  BY <1>4, <1>5, <1>6, RenderFits

LEMMA QueuedShows ==
  ASSUME PlayerTypeOK, QueuedRendered
  PROVE  /\ PlayerTypeOK'
         /\ \A story \in media'.inflight \ media.inflight : story = ItemOf(viewer')
<1> DEFINE next == Queued(viewer)
           warm == Followed(media, viewer, next)
<1>1. viewer \in Viewers /\ media \in Caches
  BY DEF PlayerTypeOK
<1>2. next \in Viewers /\ (next.open /\ next.group > viewer.group => next.item = 1)
  BY <1>1, QueuedFits
<1>3. Render(next, warm) /\ UNCHANGED <<opening, lapsed, touches, raced>>
  BY DEF QueuedRendered
<1> HIDE DEF next
<1>4. warm \in Caches /\ \A story \in warm.inflight \ media.inflight : story = ItemOf(next)
  BY <1>1, <1>2, FollowedFits, FirstShown
<1> HIDE DEF warm
<1> QED
  BY <1>2, <1>3, <1>4, RenderFits DEF PlayerTypeOK

LEMMA OpenShows ==
  ASSUME PlayerTypeOK, OpenAnswered
  PROVE  /\ PlayerTypeOK'
         /\ \A story \in media'.inflight \ media.inflight : story = ItemOf(viewer')
<1> DEFINE v == [Closed EXCEPT !.open = TRUE]
<1>1. v \in Viewers /\ v.open /\ v.item = 1 /\ v.group = 1 /\ NoMedia \in Caches
      /\ NoMedia.inflight = {}
  BY ClosedFits DEF Closed, NoMedia
<1>2. Tray[1][1] \in Stories /\ ItemOf(v) = Tray[1][1]
  <2>1. 1 \in 1..Len(Tray[1])
    BY TrayFacts
  <2>2. ItemOf(v) = Tray[v.group][1]
    <3> HIDE DEF v
    <3> QED
      BY <1>1, FirstShown
  <2> QED
    BY <1>1, <2>1, <2>2, TrayFacts
<1>3. /\ UNCHANGED <<viewer, media>> \/ Render(v, Warmed(NoMedia, v))
      /\ opening' = FALSE /\ UNCHANGED <<lapsed, touches, raced>>
  BY DEF OpenAnswered
<1> HIDE DEF v
<1>4. Warmed(NoMedia, v) \in Caches /\ Warmed(NoMedia, v).inflight \subseteq {ItemOf(v)}
  BY <1>1, <1>2, EnsuredFits DEF Warmed
<1>5. CASE Render(v, Warmed(NoMedia, v))
  BY <1>1, <1>3, <1>4, <1>5, RenderFits DEF PlayerTypeOK
<1>6. CASE UNCHANGED <<viewer, media>>
  BY <1>3, <1>6 DEF PlayerTypeOK
<1> QED
  BY <1>3, <1>5, <1>6

\* The steps that render nothing new fetch nothing.
LEMMA OthersFetchNothing ==
  ASSUME PlayerTypeOK,
         \/ FrameEnds \/ MediaSteps \/ ElementSteps
         \/ \E story \in Stories : CooldownEnds(story)
         \/ TogglePause \/ ItemLapses \/ Close \/ AskToOpen
  PROVE  PlayerTypeOK' /\ media'.inflight \subseteq media.inflight
<1>1. /\ viewer \in Viewers /\ media \in Caches /\ ItemOf(viewer) \in Stories \cup {NoStory}
      /\ touches \in 0..MaxTouches /\ MaxTouches \in Nat
  BY ItemShown, TrayFacts DEF PlayerTypeOK
<1>2. Touch => touches' \in 0..MaxTouches
  BY <1>1 DEF Touch
<1>3. CASE FrameEnds
  <2>1. viewer' \in Viewers
    BY <1>1, <1>3 DEF FrameEnds, Viewers
  <2> QED
    BY <1>3, <2>1 DEF FrameEnds, PlayerTypeOK
<1>4. CASE MediaSteps
  <2> PICK story \in Stories, ok \in BOOLEAN : MediaAnswered(story, ok)
    BY <1>4 DEF MediaSteps
  <2>1. media' \in Caches /\ media'.inflight \subseteq media.inflight
    BY <1>1 DEF MediaAnswered, Caches
  <2>2. touches' \in 0..MaxTouches
    BY <1>1, <1>2 DEF MediaAnswered
  <2> QED
    BY <2>1, <2>2 DEF MediaAnswered, PlayerTypeOK
<1>5. CASE ElementSteps
  <2> PICK ok \in BOOLEAN : MediaLoads(ok)
    BY <1>5 DEF ElementSteps
  <2>1. viewer' \in Viewers
    BY <1>1 DEF MediaLoads, Viewers
  <2>2. touches' \in 0..MaxTouches
    BY <1>1, <1>2 DEF MediaLoads
  <2> QED
    BY <2>1, <2>2 DEF MediaLoads, PlayerTypeOK
<1>6. ASSUME NEW story \in Stories, CooldownEnds(story)
      PROVE  PlayerTypeOK' /\ media'.inflight \subseteq media.inflight
  <2>1. media' \in Caches /\ media'.inflight = media.inflight
    BY <1>1, <1>6 DEF CooldownEnds, Caches
  <2> QED
    BY <1>6, <2>1 DEF CooldownEnds, PlayerTypeOK
<1>7. CASE TogglePause
  <2>1. viewer' \in Viewers
    BY <1>1, <1>7 DEF TogglePause, Viewers
  <2> QED
    BY <1>2, <1>7, <2>1 DEF TogglePause, PlayerTypeOK
<1>8. CASE ItemLapses
  BY <1>1, <1>2, <1>8 DEF ItemLapses, PlayerTypeOK
<1>9. CASE Close
  BY <1>1, <1>2, <1>9, ClosedFits DEF Close, PlayerTypeOK, NoMedia
<1>10. CASE AskToOpen
  BY <1>1, <1>2, <1>10 DEF AskToOpen, PlayerTypeOK
<1> QED
  BY <1>3, <1>4, <1>5, <1>6, <1>7, <1>8, <1>9, <1>10

LEMMA PlayerStep ==
  ASSUME PlayerTypeOK, PlayerNext
  PROVE  /\ PlayerTypeOK'
         /\ \A story \in media'.inflight \ media.inflight :
              story = ItemOf(viewer') \/ raced'
<1>1. /\ viewer \in Viewers /\ Queued(viewer) \in Viewers /\ viewer.item \in Nat
      /\ raced \in BOOLEAN
  BY QueuedFits DEF PlayerTypeOK, Viewers
<1>2. CASE Gesture(GoNext(Queued(viewer), viewer.item))
  <2> DEFINE v == GoNext(Queued(viewer), viewer.item)
  <2>1. v \in Viewers /\ (v.open /\ v.group > Queued(viewer).group => v.item = 1)
    BY <1>1, NextFits
  <2>2. ~raced' => Queued(viewer) = viewer
    BY <1>2 DEF Gesture, Queued
  <2>3. Gesture(v)
    BY <1>2
  <2> HIDE DEF v
  <2> QED
    BY <2>1, <2>2, <2>3, GestureFits, GestureShows
<1>3. CASE Gesture(GoPrev(Queued(viewer), viewer.item))
  <2> DEFINE v == GoPrev(Queued(viewer), viewer.item)
  <2>1. v \in Viewers /\ ~(v.group > Queued(viewer).group)
    BY <1>1, PrevFits
  <2>2. ~raced' => Queued(viewer) = viewer
    BY <1>3 DEF Gesture, Queued
  <2>3. Gesture(v)
    BY <1>3
  <2> HIDE DEF v
  <2> QED
    BY <2>1, <2>2, <2>3, GestureFits, GestureShows
<1>4. CASE QueuedRendered \/ OpenAnswered
  BY <1>4, QueuedShows, OpenShows
<1>5. CASE \/ FrameEnds \/ MediaSteps \/ ElementSteps
           \/ \E story \in Stories : CooldownEnds(story)
           \/ TogglePause \/ ItemLapses \/ Close \/ AskToOpen
  BY <1>5, OthersFetchNothing
<1> QED
  BY <1>2, <1>3, <1>4, <1>5 DEF PlayerNext

\* The viewer and its media cache keep their shape (StoryViewer.tsx, mediaCache.ts).
THEOREM PlayerTyped == PlayerSpec => []PlayerTypeOK
<1>1. PlayerInit => PlayerTypeOK
  <2>1. 0 \in 0..MaxTouches
    BY TrayFacts
  <2> QED
    BY <2>1, ClosedFits DEF PlayerInit, PlayerTypeOK
<1>2. PlayerTypeOK /\ [PlayerNext]_playerVars => PlayerTypeOK'
  <2>1. PlayerTypeOK /\ UNCHANGED playerVars => PlayerTypeOK'
    BY DEF PlayerTypeOK, playerVars
  <2> QED
    BY <2>1, PlayerStep
<1> QED
  BY <1>1, <1>2, PTL DEF PlayerSpec

\* Media is fetched only for the item that comes on screen, unless a gesture has
\* overtaken the render of a finished item (mediaCache.ts, ViewerBridge.tsx).
THEOREM OnlyShownIsFetchedHolds == PlayerSpec => OnlyShownIsFetched
<1>1. PlayerTypeOK /\ [PlayerNext]_playerVars =>
        [ \A story \in media'.inflight \ media.inflight :
            story = ItemOf(viewer)' \/ raced' ]_playerVars
  BY PlayerStep DEF ItemOf
<1> QED
  BY PlayerTyped, <1>1, PTL DEF PlayerSpec, OnlyShownIsFetched

-----------------------------------------------------------------------------
(* Posting *)

\* A flow that has said "done" belongs to the page that listens to it, and the
\* service had settled its Story by then; before its finalize call is answered
\* it has no Story.
FlowOK(row) ==
  /\ row.pc \in {"done", "resolved"} => row.mine /\ Settled(row.story)
  /\ row.pc \in {"off", "preparing", "creating", "putting", "finalizing"} =>
       row.story = "none"

ComposerInv ==
  /\ ComposerTypeOK
  /\ \A p \in Posts : FlowOK(posts[p])
  /\ PostedHasSettled

LEMMA NoKey == 0 \in 0..MaxPosts /\ 0 \in 0..MaxEvictions
BY ComposerAssumption DEF ComposerAssumption

LEMMA ComposerInitially == ComposerInit => ComposerInv
<1> SUFFICES ASSUME ComposerInit PROVE ComposerInv
  OBVIOUS
<1>1. composer \in Pages /\ evictions \in 0..MaxEvictions
  BY NoKey DEF ComposerInit, Shut, Pages
<1>2. posts \in [Posts -> Flows]
  BY NoKey DEF ComposerInit, NoPost, Flows
<1>3. \A p \in Posts : FlowOK(posts[p])
  BY DEF ComposerInit, NoPost, FlowOK
<1> QED
  BY <1>1, <1>2, <1>3 DEF ComposerInv, ComposerTypeOK, PostedHasSettled, ComposerInit, Shut

\* One flow takes a step to a sound row, and the page to one that says "posted"
\* only if it said so before or has just been told by this flow.
LEMMA FlowMoves ==
  ASSUME ComposerInv, NEW p \in Posts, NEW row \in Flows,
         posts' = [posts EXCEPT ![p] = row], FlowOK(row),
         composer' \in Pages, UNCHANGED evictions,
         posts[p].mine /\ Settled(posts[p].story) => row.mine /\ Settled(row.story),
         composer'.status \in {"processing", "published"} =>
           \/ composer.status \in {"processing", "published"}
           \/ row.mine /\ Settled(row.story)
  PROVE  ComposerInv'
<1>1. ComposerTypeOK'
  BY DEF ComposerInv, ComposerTypeOK
<1>2. posts'[p] = row /\ \A q \in Posts \ {p} : posts'[q] = posts[q]
  BY DEF ComposerInv, ComposerTypeOK
<1>3. \A q \in Posts : FlowOK(posts'[q])
  BY <1>2 DEF ComposerInv
<1>4. PostedHasSettled'
  <2> SUFFICES ASSUME composer'.status \in {"processing", "published"}
               PROVE  \E q \in Posts : posts'[q].mine /\ Settled(posts'[q].story)
    BY DEF PostedHasSettled, Settled
  <2>1. CASE row.mine /\ Settled(row.story)
    BY <1>2, <2>1
  <2>2. CASE composer.status \in {"processing", "published"}
    <3> PICK q \in Posts : posts[q].mine /\ Settled(posts[q].story)
      BY <2>2 DEF ComposerInv, PostedHasSettled
    <3> QED
      BY <1>2
  <2> QED
    BY <2>1, <2>2
<1> QED
  BY <1>1, <1>3, <1>4 DEF ComposerInv, FlowOK, Settled

\* The page alone takes a step, to one that does not say "posted".
LEMMA PageMoves ==
  ASSUME ComposerInv, composer' \in Pages, UNCHANGED <<posts, evictions>>,
         composer'.status \notin {"processing", "published"}
  PROVE  ComposerInv'
BY DEF ComposerInv, ComposerTypeOK, PostedHasSettled, FlowOK, Settled

LEMMA Told ==
  ASSUME ComposerInv, NEW p \in Posts, NEW what \in Telling,
         NEW story \in {"none", "processing", "published", "failed"}, Tell(p, what, story),
         what = "done" => Settled(story),
         Settled(posts[p].story) => Settled(story)
  PROVE  ComposerInv'
<1> DEFINE row == [posts[p] EXCEPT !.pc = IF posts[p].mine THEN what ELSE "over",
                                   !.story = story]
<1>0. posts[p] \in Flows /\ posts \in [Posts -> Flows]
  BY DEF ComposerInv, ComposerTypeOK
<1>1. row \in Flows /\ row.mine = posts[p].mine /\ row.story = story
  BY <1>0 DEF Flows, Telling
<1>2. posts' = [posts EXCEPT ![p] = row]
  BY <1>0 DEF Tell, Flows
<1>3. FlowOK(row)
  BY <1>0 DEF FlowOK, Flows, Telling
<1>4. composer' = composer /\ composer' \in Pages
  BY DEF Tell, ComposerInv, ComposerTypeOK
<1> QED
  BY <1>1, <1>2, <1>3, <1>4, FlowMoves DEF Tell

LEMMA Proceeds ==
  ASSUME ComposerInv, NEW p \in Posts,
         NEW pc \in {"off", "preparing", "resolved", "over"} \cup Running \cup Telling,
         NEW story \in {"none", "processing", "published", "failed"},
         Proceed(p, pc, story), FlowOK([posts[p] EXCEPT !.pc = pc, !.story = story]),
         Settled(posts[p].story) => Settled(story)
  PROVE  ComposerInv'
<1> DEFINE row == [posts[p] EXCEPT !.pc = pc, !.story = story]
<1>0. posts[p] \in Flows /\ posts \in [Posts -> Flows]
  BY DEF ComposerInv, ComposerTypeOK
<1>1. row \in Flows /\ row.mine = posts[p].mine /\ row.story = story
  BY <1>0 DEF Flows
<1>2. posts' = [posts EXCEPT ![p] = row]
  BY <1>0 DEF Proceed, Flows
<1>3. composer' = composer /\ composer' \in Pages
  BY DEF Proceed, ComposerInv, ComposerTypeOK
<1> QED
  BY <1>1, <1>2, <1>3, FlowMoves DEF Proceed

LEMMA FlowStep ==
  ASSUME ComposerInv, NEW p \in Posts, PostSteps(p)
  PROVE  ComposerInv'
<1>0. /\ posts[p] \in Flows /\ posts \in [Posts -> Flows] /\ composer \in Pages
      /\ FlowOK(posts[p])
  BY DEF ComposerInv, ComposerTypeOK
<1>1. CASE ExportFails(p)
  <2> DEFINE row == [posts[p] EXCEPT !.pc = "over"]
  <2>1. row \in Flows /\ FlowOK(row) /\ row.mine = posts[p].mine /\ row.story = posts[p].story
    BY <1>0 DEF Flows, FlowOK
  <2>2. posts' = [posts EXCEPT ![p] = row]
    BY <1>0, <1>1 DEF ExportFails
  <2>3. /\ composer' \in Pages
        /\ composer'.status \in {"processing", "published"} => composer' = composer
    BY <1>0, <1>1 DEF ExportFails, Pages
  <2> QED
    BY <1>1, <2>1, <2>2, <2>3, FlowMoves DEF ExportFails
<1>2. CASE Connect(p)
  <2> PICK key : key = IF posts[p].mine /\ composer.key # 0 THEN composer.key ELSE p
    OBVIOUS
  <2> DEFINE row == [posts[p] EXCEPT !.pc = "creating", !.key = key]
  <2>1. key \in 0..MaxPosts
    BY <1>0 DEF Pages, Posts
  <2>2. posts[p].story = "none"
    BY <1>0, <1>2 DEF Connect, FlowOK
  <2>3. row \in Flows /\ FlowOK(row)
    BY <1>0, <2>1, <2>2 DEF Flows, FlowOK, Running
  <2>4. posts' = [posts EXCEPT ![p] = row]
    BY <1>0, <1>2 DEF Connect
  <2>5. composer' \in Pages /\ composer'.status = composer.status
    BY <1>0, <1>2, <2>1 DEF Connect, Pages
  <2> QED
    BY <1>2, <2>2, <2>3, <2>4, <2>5, FlowMoves DEF Connect, Settled
<1>3. CASE CreateAndPut(p)
  <2>1. posts[p].pc \in {"creating", "putting"} /\ posts[p].story = "none"
    BY <1>0, <1>3 DEF CreateAndPut, FlowOK
  <2>2. CASE Tell(p, "error", "none")
    BY <2>1, <2>2, Told DEF Settled, Telling
  <2>3. ASSUME NEW pc \in {"putting", "finalizing"}, Proceed(p, pc, "none")
        PROVE  ComposerInv'
    <3>1. FlowOK([posts[p] EXCEPT !.pc = pc, !.story = "none"])
      BY <1>0 DEF Flows, FlowOK
    <3> QED
      BY <2>1, <2>3, <3>1, Proceeds DEF Settled, Running
  <2> QED
    BY <1>3, <2>2, <2>3 DEF CreateAndPut
<1>4. CASE FinalizePost(p)
  <2>1. posts[p].story = "none"
    BY <1>0, <1>4 DEF FinalizePost, FlowOK
  <2>2. CASE Tell(p, "error", "none") \/ Tell(p, "error", "processing")
    BY <2>1, <2>2, Told DEF Settled, Telling
  <2>3. CASE Proceed(p, "polling", "processing")
    <3>1. FlowOK([posts[p] EXCEPT !.pc = "polling", !.story = "processing"])
      BY <1>0 DEF Flows, FlowOK
    <3> QED
      BY <2>1, <2>3, <3>1, Proceeds DEF Settled, Running
  <2> QED
    BY <1>4, <2>2, <2>3 DEF FinalizePost
<1>5. CASE PollPost(p)
  <2>1. posts[p].story \in {"none", "processing", "published", "failed"}
    BY <1>0 DEF Flows
  <2> QED
    BY <1>5, <2>1, Told DEF PollPost, Telling
<1>6. CASE HearDone(p)
  <2> DEFINE row == [posts[p] EXCEPT !.pc = "resolved"]
  <2>1. row \in Flows /\ FlowOK(row) /\ row.mine /\ Settled(row.story)
    BY <1>0, <1>6 DEF HearDone, Flows, FlowOK
  <2>2. posts' = [posts EXCEPT ![p] = row]
    BY <1>0, <1>6 DEF HearDone
  <2>3. composer' \in Pages
    BY <1>0, <1>6, NoKey DEF HearDone, Pages
  <2> QED
    BY <1>6, <2>1, <2>2, <2>3, FlowMoves DEF HearDone
<1>7. CASE HearFailure(p)
  <2> DEFINE row == [posts[p] EXCEPT !.pc = "over"]
  <2>1. row \in Flows /\ FlowOK(row) /\ row.mine = posts[p].mine /\ row.story = posts[p].story
    BY <1>0 DEF Flows, FlowOK
  <2>2. posts' = [posts EXCEPT ![p] = row]
    BY <1>0, <1>7 DEF HearFailure
  <2>3. composer' \in Pages /\ composer'.status = "failed"
    BY <1>0, <1>7 DEF HearFailure, Pages
  <2> QED
    BY <1>7, <2>1, <2>2, <2>3, FlowMoves DEF HearFailure
<1>8. CASE ShowPosted(p)
  <2> DEFINE row == [posts[p] EXCEPT !.pc = "over"]
  <2>1. row \in Flows /\ FlowOK(row) /\ row.mine /\ Settled(row.story)
    BY <1>0, <1>8 DEF ShowPosted, Flows, FlowOK
  <2>2. posts' = [posts EXCEPT ![p] = row]
    BY <1>0, <1>8 DEF ShowPosted
  <2>3. composer' \in Pages
    BY <1>0, <1>8 DEF ShowPosted, Pages
  <2> QED
    BY <1>8, <2>1, <2>2, <2>3, FlowMoves DEF ShowPosted
<1> QED
  BY <1>1, <1>2, <1>3, <1>4, <1>5, <1>6, <1>7, <1>8 DEF PostSteps

LEMMA ComposerStep ==
  ASSUME ComposerInv, ComposerNext
  PROVE  ComposerInv'
<1>0. posts \in [Posts -> Flows] /\ composer \in Pages /\ \A p \in Posts : FlowOK(posts[p])
  BY DEF ComposerInv, ComposerTypeOK
<1>1. CASE OpenComposer
  <2>1. composer' = [Shut EXCEPT !.open = TRUE]
    BY <1>1 DEF OpenComposer
  <2>2. composer' \in Pages /\ composer'.status = "idle"
    BY <2>1, NoKey DEF Shut, Pages
  <2> QED
    BY <1>1, <2>2, PageMoves DEF OpenComposer
<1>2. CASE PickFile \/ Back \/ LeaveProgress
  <2>1. composer' \in Pages /\ composer'.status \in {"offline", "validation-error", "preview", "idle"}
    BY <1>0, <1>2 DEF PickFile, Back, LeaveProgress, Pages
  <2> QED
    BY <1>2, <2>1, PageMoves DEF PickFile, Back, LeaveProgress
<1>3. CASE Submit
  <2> PICK p \in Posts :
        /\ posts[p].pc = "off"
        /\ posts' = [posts EXCEPT ![p].pc = "preparing", ![p].mine = TRUE]
    BY <1>3 DEF Submit
  <2> DEFINE row == [posts[p] EXCEPT !.pc = "preparing", !.mine = TRUE]
  <2>1. posts[p] \in Flows /\ posts[p].story = "none"
    BY <1>0 DEF FlowOK
  <2>2. row \in Flows /\ FlowOK(row)
    BY <2>1 DEF Flows, FlowOK
  <2>3. posts' = [posts EXCEPT ![p] = row]
    BY <1>0
  <2>4. composer' \in Pages /\ composer'.status = "uploading"
    BY <1>0, <1>3 DEF Submit, Pages
  <2> QED
    BY <1>3, <2>1, <2>2, <2>3, <2>4, FlowMoves DEF Submit, Settled
<1>4. CASE CloseComposer
  <2> PICK pageLives \in BOOLEAN :
       posts' = [p \in Posts |->
                  [posts[p] EXCEPT
                    !.mine = FALSE,
                    !.pc = IF posts[p].pc = "preparing" /\ ~pageLives THEN "over"
                           ELSE IF posts[p].pc \in Telling \cup {"resolved"} THEN "over"
                           ELSE posts[p].pc]]
    BY <1>4 DEF CloseComposer
  <2>1. ASSUME NEW p \in Posts PROVE posts'[p] \in Flows /\ FlowOK(posts'[p])
    BY <1>0 DEF Flows, FlowOK, Telling
  <2>2. posts' \in [Posts -> Flows]
    BY <2>1
  <2>3. composer' \in Pages /\ composer'.status = "idle"
    BY <1>4, NoKey DEF CloseComposer, Shut, Pages
  <2> QED
    BY <1>4, <2>1, <2>2, <2>3
       DEF CloseComposer, ComposerInv, ComposerTypeOK, PostedHasSettled, FlowOK, Settled
<1>5. ASSUME NEW p \in Posts, ServiceSettles(p) PROVE ComposerInv'
  <2> PICK story \in {"published", "failed"} : Proceed(p, posts[p].pc, story)
    BY <1>5 DEF ServiceSettles
  <2>1. posts[p].story = "processing" /\ posts[p] \in Flows /\ FlowOK(posts[p])
    BY <1>0, <1>5 DEF ServiceSettles
  <2>2. FlowOK([posts[p] EXCEPT !.pc = posts[p].pc, !.story = story])
    BY <2>1 DEF Flows, FlowOK, Settled
  <2>3. posts[p].pc \in {"off", "preparing", "resolved", "over"} \cup Running \cup Telling
    BY <2>1 DEF Flows
  <2> QED
    BY <2>1, <2>2, <2>3, Proceeds DEF Settled
<1>6. CASE EvictUploads
  <2>1. ASSUME NEW p \in Posts
        PROVE  /\ posts'[p] \in Flows /\ FlowOK(posts'[p])
               /\ posts'[p].mine = posts[p].mine /\ posts'[p].story = posts[p].story
    BY <1>0, <1>6 DEF EvictUploads, EvictFlows, Flows, FlowOK, Telling
  <2>2. posts' \in [Posts -> Flows]
    BY <1>6, <2>1 DEF EvictUploads, EvictFlows
  <2>3. evictions' \in 0..MaxEvictions /\ composer' = composer
    <3>1. /\ evictions \in 0..MaxEvictions /\ evictions < MaxEvictions
          /\ evictions' = evictions + 1
      BY <1>6 DEF EvictUploads, ComposerInv, ComposerTypeOK
    <3>2. MaxEvictions \in Nat
      BY ComposerAssumption DEF ComposerAssumption
    <3> QED
      BY <1>6, <3>1, <3>2 DEF EvictUploads
  <2>4. PostedHasSettled'
    BY <2>1, <2>3 DEF ComposerInv, PostedHasSettled, Settled
  <2> QED
    BY <1>0, <2>1, <2>2, <2>3, <2>4 DEF ComposerInv, ComposerTypeOK, FlowOK, Settled
<1> QED
  BY <1>1, <1>2, <1>3, <1>4, <1>5, <1>6, FlowStep DEF ComposerNext

\* A flow that has said "done" has a settled Story, step by step of the composer
\* and its flows (StoryComposer.tsx, uploadPort.ts, upload.ts).
THEOREM ComposerInvariance == ComposerSpec => []ComposerInv
<1>1. ComposerInv /\ UNCHANGED composerVars => ComposerInv'
  BY DEF ComposerInv, ComposerTypeOK, composerVars, PostedHasSettled, FlowOK, Settled
<1> QED
  BY ComposerInitially, ComposerStep, <1>1, PTL DEF ComposerSpec

\* "Story posted." is shown only when a Story of this sitting has been settled
\* (StoryComposer.tsx, uploadPort.ts, upload.ts).
THEOREM PostedHasSettledHolds == ComposerSpec => []PostedHasSettled
<1>1. ComposerInv => PostedHasSettled
  BY DEF ComposerInv
<1> QED
  BY ComposerInvariance, <1>1, PTL

-----------------------------------------------------------------------------
(* Rings *)

Batchers == [queue: SUBSET Faces, waiters: SUBSET Waiters, timer: BOOLEAN]

\* Everyone whose waiter a flush will resolve is somebody the service has spoken
\* about, is about to, or is put back: what the cache holds has been told, and a
\* waiter's people are on the queue until a flush takes both.
FetchOK(row) ==
  /\ \A p \in Faces : row.results[p] # "unknown" => p \in told
  /\ \A w \in row.waiters : w.ids \subseteq row.ids \cup row.over \cup told
  /\ row.over \subseteq overrun

RingInv ==
  /\ RingTypeOK
  /\ \A p \in Faces : ringCache[p] # "unknown" => p \in told
  /\ \A w \in batcher.waiters : w.ids \subseteq batcher.queue
  /\ \A x \in Fetches : FetchOK(fetches[x])
  /\ NoInventedAnswer

LEMMA RingBounds == 0 \in 0..RingRetries /\ 0 \in 0..MaxMishaps
BY RingAssumption DEF RingAssumption

LEMMA MishapCounts ==
  ASSUME mishaps \in 0..MaxMishaps, Mishap
  PROVE  mishaps' \in 0..MaxMishaps
BY RingAssumption DEF RingAssumption, Mishap

LEMMA AttemptCounts ==
  ASSUME NEW n \in 0..RingRetries, n < RingRetries
  PROVE  n + 1 \in 0..RingRetries
BY RingAssumption DEF RingAssumption

LEMMA UnknownAnswers == Unknown \in [Faces -> Answers]
BY DEF Unknown, Answers

LEMMA IdleFetchOK == IdleFetch \in FetchRows /\ FetchOK(IdleFetch) /\ FetchOK(IdleFetch)'
BY UnknownAnswers DEF IdleFetch, FetchRows, FetchOK, Unknown

LEMMA NoFlightOK == NoFlight \in FlightRows /\ NoFlight.answered = {}
BY UnknownAnswers DEF NoFlight, FlightRows

LEMMA RingInitially == RingInit => RingInv
<1> SUFFICES ASSUME RingInit PROVE RingInv
  OBVIOUS
<1>1. avatar \in [Avatars -> AvatarRows]
  BY RingBounds DEF RingInit, AvatarRows, Rings
<1>2. flights \in [Flights -> FlightRows] /\ NoInventedAnswer
  BY NoFlightOK DEF RingInit, NoInventedAnswer
<1>3. fetches \in [Fetches -> FetchRows] /\ \A x \in Fetches : FetchOK(fetches[x])
  BY IdleFetchOK DEF RingInit
<1>4. ringCache \in [Faces -> Answers] /\ \A p \in Faces : ringCache[p] = "unknown"
  BY UnknownAnswers DEF RingInit, Unknown
<1>5. batcher \in Batchers /\ batcher.waiters = {}
  BY DEF RingInit, EmptyBatcher, Batchers
<1> QED
  BY <1>1, <1>2, <1>3, <1>4, <1>5, RingBounds DEF RingInit, RingInv, RingTypeOK, Batchers

-----------------------------------------------------------------------------
(* What the waiters of a flush are given *)

FaceSets == SUBSET Faces
OpenCalls == SUBSET SUBSET Faces
Replies == [Faces -> Answers]

GivenRow(row, open, answered, signedOut, found) ==
  [row EXCEPT !.open = open, !.answered = answered, !.signedOut = signedOut,
              !.found = found]

LEMMA RowGiven ==
  ASSUME NEW row \in FlightRows, NEW open \in OpenCalls,
         NEW answered \in FaceSets, NEW signedOut \in FaceSets, NEW found \in Replies
  PROVE  /\ GivenRow(row, open, answered, signedOut, found) \in FlightRows
         /\ GivenRow(row, open, answered, signedOut, found).answered = answered
         /\ GivenRow(row, open, answered, signedOut, found).signedOut = signedOut
BY DEF GivenRow, FlightRows, OpenCalls, FaceSets, Replies

LEMMA AnswersSound ==
  ASSUME flights \in [Flights -> FlightRows], NoInventedAnswer,
         NEW waiters \in SUBSET Waiters, NEW good \in SUBSET waiters,
         NEW results \in [Faces -> Answers], NEW out \in BOOLEAN,
         flights' = Answered(waiters, good, results, out),
         told \subseteq told', overrun \subseteq overrun',
         out \/ \A w \in good : w.ids \subseteq told' \cup overrun'
  PROVE  flights' \in [Flights -> FlightRows] /\ NoInventedAnswer'
<1> SUFFICES ASSUME NEW f \in Flights
             PROVE  /\ flights'[f] \in FlightRows
                    /\ flights'[f].answered
                         \subseteq told' \cup overrun' \cup flights'[f].signedOut
  BY DEF Answered, NoInventedAnswer
<1> DEFINE mine == {w \in waiters : w.flight = f}
           ids == UNION {w.ids : w \in mine \cap good}
           open == flights[f].open \ {w.ids : w \in mine}
           said == flights[f].answered \cup ids
           out2 == IF out THEN flights[f].signedOut \cup ids ELSE flights[f].signedOut
           found == [p \in Faces |-> IF p \in ids /\ results[p] # "unknown"
                                     THEN results[p] ELSE flights[f].found[p]]
<1>0. flights[f] \in FlightRows
  OBVIOUS
<1>1. ids \subseteq Faces /\ (out \/ ids \subseteq told' \cup overrun')
  BY DEF Waiters
<1>2. found \in Replies
  BY <1>0 DEF FlightRows, Replies
<1>3. flights'[f] = [flights[f] EXCEPT !.open = open,
                                       !.answered = said,
                                       !.signedOut = out2, !.found = found]
  BY Zenon DEF Answered
<1>4. open \in OpenCalls /\ said \in FaceSets /\ out2 \in FaceSets
  BY <1>0, <1>1 DEF FlightRows, OpenCalls, FaceSets
<1> HIDE DEF ids, open, said, out2, found
<1>5. /\ flights'[f] \in FlightRows
      /\ flights'[f].answered = said /\ flights'[f].signedOut = out2
  <2> DEFINE given == GivenRow(flights[f], open, said, out2, found)
  <2>1. flights'[f] = given
    BY <1>3 DEF GivenRow
  <2>2. given \in FlightRows /\ given.answered = said /\ given.signedOut = out2
    BY <1>0, <1>2, <1>4, RowGiven
  <2> QED
    BY <2>1, <2>2
<1>6. flights[f].answered \subseteq told \cup overrun \cup flights[f].signedOut
  BY DEF NoInventedAnswer
<1> QED
  BY <1>1, <1>5, <1>6 DEF said, out2

\* A flush is over: what exceeded its limit is back on the queue.
LEMMA FlushOver ==
  ASSUME RingInv, NEW x \in Fetches, FlushEnds(x),
         told \subseteq told', overrun \subseteq overrun'
  PROVE  /\ fetches' \in [Fetches -> FetchRows]
         /\ \A y \in Fetches : FetchOK(fetches[y])'
         /\ controller' \in Fetches \cup {NoFetch}
         /\ batcher' \in Batchers
         /\ \A w \in batcher'.waiters : w.ids \subseteq batcher'.queue
<1>0. fetches[x] \in FetchRows /\ batcher \in Batchers /\ fetches \in [Fetches -> FetchRows]
  BY DEF RingInv, RingTypeOK, Batchers
<1>1. fetches' \in [Fetches -> FetchRows]
  BY <1>0, IdleFetchOK DEF FlushEnds
<1>2. ASSUME NEW y \in Fetches PROVE FetchOK(fetches[y])'
  <2>1. CASE y = x
    BY <1>0, <2>1, IdleFetchOK DEF FlushEnds, FetchOK
  <2>2. CASE y # x
    <3>1. fetches'[y] = fetches[y] /\ FetchOK(fetches[y])
      BY <1>0, <2>2 DEF FlushEnds, RingInv
    <3> QED
      BY <3>1 DEF FetchOK
  <2> QED
    BY <2>1, <2>2
<1>3. /\ batcher' \in Batchers /\ batcher'.waiters = batcher.waiters
      /\ batcher.queue \subseteq batcher'.queue
  <2> DEFINE queue == batcher.queue \cup fetches[x].over
  <2>1. batcher' = [batcher EXCEPT !.queue = queue,
                                   !.timer = batcher.timer \/ queue # {}]
    BY DEF FlushEnds
  <2>2. queue \in SUBSET Faces
    BY <1>0 DEF FetchRows, Batchers
  <2> HIDE DEF queue
  <2>3. (batcher.timer \/ queue # {}) \in BOOLEAN
    OBVIOUS
  <2>4. batcher' \in Batchers /\ batcher'.waiters = batcher.waiters /\ batcher'.queue = queue
    BY <1>0, <2>1, <2>2, <2>3 DEF Batchers
  <2> QED
    BY <2>4 DEF queue
<1> QED
  BY <1>1, <1>2, <1>3 DEF FlushEnds, RingInv

-----------------------------------------------------------------------------
(* Steps *)

\* A step of the page, or one that leaves everything but the cache alone.
LEMMA PageOnly ==
  ASSUME RingInv, RingTypeOK', UNCHANGED <<batcher, fetches, told, overrun>>,
         \A p \in Faces : ringCache'[p] # "unknown" => ringCache[p] # "unknown",
         \A f \in Flights : \/ flights'[f].answered = {}
                            \/ /\ flights'[f].answered = flights[f].answered
                               /\ flights'[f].signedOut = flights[f].signedOut
  PROVE  RingInv'
BY DEF RingInv, NoInventedAnswer, FetchOK

LEMMA Decorated ==
  ASSUME RingTypeOK, SweepAndDecorate
  PROVE  avatar' \in [Avatars -> AvatarRows] /\ pendingFaces' \subseteq Questions
<1>1. ASSUME NEW i \in Avatars PROVE avatar'[i] \in AvatarRows
  <2>1. avatar[i] \in AvatarRows
    BY DEF RingTypeOK
  <2> QED
    BY <2>1 DEF SweepAndDecorate, Swept, AvatarRows, Rings
<1>2. avatar' \in [Avatars -> AvatarRows]
  BY <1>1 DEF SweepAndDecorate, Swept
<1>3. \A i \in Avatars : avatar[i].shows # NoFace => avatar[i].shows \in Faces
  BY DEF RingTypeOK, AvatarRows
<1>4. \A i \in Redecorated : i \in Avatars
  BY DEF Redecorated
<1>5. \A i \in {j \in Redecorated : avatar[j].shows # NoFace} :
        <<i, avatar[i].shows>> \in Questions
  BY <1>3, <1>4 DEF Questions
<1> QED
  BY <1>2, <1>5 DEF SweepAndDecorate, RingTypeOK

LEMMA RingPageStep ==
  ASSUME RingInv,
         \/ \E i \in Avatars, p \in Faces \cup {NoFace} : Show(i, p)
         \/ PageMutated \/ RefreshStatuses \/ RetriesDue
         \/ \E f \in Flights : FlushStatus(f) \/ PaintRings(f)
         \/ \E f \in Flights : \E ids \in flights[f].calls : Enqueue(f, ids)
         \/ SessionChanges \/ \E p \in Faces : EntryExpires(p)
  PROVE  RingInv'
<1>0. RingTypeOK /\ \A i \in Avatars : avatar[i] \in AvatarRows
  BY DEF RingInv, RingTypeOK
<1>1. ASSUME NEW i \in Avatars, NEW p \in Faces \cup {NoFace}, Show(i, p)
      PROVE  RingInv'
  <2>1. avatar' \in [Avatars -> AvatarRows]
    BY <1>0, <1>1 DEF Show, RingTypeOK, AvatarRows
  <2>2. mishaps' \in 0..MaxMishaps
    BY <1>0, <1>1, MishapCounts DEF Show, RingTypeOK
  <2> QED
    BY <1>0, <1>1, <2>1, <2>2, PageOnly DEF Show, RingTypeOK, batcherVars, ringHistory
<1>2. CASE PageMutated
  BY <1>0, <1>2, Decorated, PageOnly DEF PageMutated, RingTypeOK, batcherVars, ringHistory
<1>3. CASE RefreshStatuses
  <2>1. \A i \in Avatars : avatar[i].of # NoFace => <<i, avatar[i].of>> \in Questions
    BY <1>0 DEF AvatarRows, Questions
  <2>2. pendingFaces' \subseteq Questions
    BY <1>0, <1>3, <2>1 DEF RefreshStatuses, RingTypeOK
  <2>3. mishaps' \in 0..MaxMishaps
    BY <1>0, <1>3, MishapCounts DEF RefreshStatuses, RingTypeOK
  <2> QED
    BY <1>0, <1>3, <2>2, <2>3, PageOnly
       DEF RefreshStatuses, RingTypeOK, batcherVars, ringHistory
<1>4. CASE RetriesDue
  BY <1>0, <1>4, PageOnly DEF RetriesDue, RetryDue, RingTypeOK, batcherVars, ringHistory
<1>5. ASSUME NEW f \in Flights, FlushStatus(f) PROVE RingInv'
  <2> PICK batch, calls :
        /\ batch = {q \in pendingFaces : avatar[q[1]].of # NoFace}
        /\ calls \in Chunks({q[2] : q \in batch})
        /\ flights' = [flights EXCEPT ![f].batch = batch, ![f].calls = calls]
    BY <1>5 DEF FlushStatus
  <2>1. batch \in SUBSET Questions
    BY <1>0 DEF RingTypeOK
  <2>2. {q[2] : q \in batch} \subseteq Faces
    BY <2>1 DEF Questions
  <2>3. calls \in SUBSET SUBSET Faces
    BY <2>2 DEF Chunks
  <2>4. flights[f] \in FlightRows /\ flights \in [Flights -> FlightRows]
    BY <1>0 DEF RingTypeOK
  <2>5. /\ flights' \in [Flights -> FlightRows]
        /\ \A g \in Flights : /\ flights'[g].answered = flights[g].answered
                              /\ flights'[g].signedOut = flights[g].signedOut
    BY <2>1, <2>3, <2>4 DEF FlightRows
  <2> QED
    BY <1>0, <1>5, <2>5, PageOnly DEF FlushStatus, RingTypeOK, batcherVars, ringHistory
<1>6. ASSUME NEW f \in Flights, PaintRings(f) PROVE RingInv'
  <2> DEFINE live == {q \in flights[f].batch : avatar[q[1]].of # NoFace}
             paint == {q \in live : q[2] \in flights[f].answered}
             again == Retried(f, live)
  <2> PICK last \in [Avatars -> Faces \cup {NoFace}] :
        avatar' = [i \in Avatars |->
          [avatar[i] EXCEPT
            !.ring = IF last[i] = NoFace THEN avatar[i].ring ELSE Painted(f, last[i]),
            !.settled = avatar[i].settled \/ <<i, avatar[i].of>> \in paint,
            !.attempts = IF \E q \in again : q[1] = i THEN avatar[i].attempts + 1
                         ELSE avatar[i].attempts]]
    BY <1>6 DEF PaintRings
  <2>1. flights[f] \in FlightRows /\ flights \in [Flights -> FlightRows]
    BY <1>0 DEF RingTypeOK
  <2>2. /\ again \subseteq Questions
        /\ \A q \in again : avatar[q[1]].attempts < RingRetries
    BY <2>1 DEF FlightRows, Retried
  <2>7. retries' = retries \cup again
    BY <1>6 DEF PaintRings
  <2> HIDE DEF live, paint, again
  <2>3. ASSUME NEW i \in Avatars PROVE avatar'[i] \in AvatarRows
    <3> DEFINE ring == IF last[i] = NoFace THEN avatar[i].ring ELSE Painted(f, last[i])
               settled == avatar[i].settled \/ <<i, avatar[i].of>> \in paint
               attempts == IF \E q \in again : q[1] = i THEN avatar[i].attempts + 1
                           ELSE avatar[i].attempts
    <3>1. ring \in Rings
      BY <1>0 DEF Painted, Rings, AvatarRows
    <3>2. settled \in BOOLEAN
      OBVIOUS
    <3>3. attempts \in 0..RingRetries
      <4>1. avatar[i].attempts \in 0..RingRetries /\ RingRetries \in Nat
        BY <1>0, RingAssumption DEF AvatarRows, RingAssumption
      <4>2. CASE \E q \in again : q[1] = i
        <5>1. avatar[i].attempts < RingRetries
          BY <2>2, <4>2
        <5>2. avatar[i].attempts + 1 \in 0..RingRetries
          BY <4>1, <5>1, AttemptCounts
        <5> QED
          BY <4>2, <5>2
      <4>3. CASE ~ \E q \in again : q[1] = i
        BY <4>1, <4>3
      <4> QED
        BY <4>2, <4>3
    <3>4. avatar'[i] = [avatar[i] EXCEPT !.ring = ring, !.settled = settled,
                                         !.attempts = attempts]
      OBVIOUS
    <3> HIDE DEF ring, settled, attempts
    <3> QED
      BY <1>0, <3>1, <3>2, <3>3, <3>4 DEF AvatarRows
  <2>4. avatar' \in [Avatars -> AvatarRows]
    BY <2>3
  <2>5. /\ flights' \in [Flights -> FlightRows]
        /\ \A g \in Flights : flights'[g].answered = {} \/ flights'[g] = flights[g]
    BY <1>6, <2>1, NoFlightOK DEF PaintRings
  <2>6. RingTypeOK'
    BY <1>0, <1>6, <2>2, <2>4, <2>5, <2>7 DEF PaintRings, RingTypeOK, batcherVars, ringHistory
  <2> QED
    BY <1>6, <2>5, <2>6, PageOnly DEF PaintRings, batcherVars, ringHistory
<1>7. ASSUME NEW f \in Flights, NEW ids \in flights[f].calls, Enqueue(f, ids)
      PROVE  RingInv'
  <2>0. /\ flights[f] \in FlightRows /\ flights \in [Flights -> FlightRows]
        /\ batcher \in Batchers
    BY <1>0 DEF RingTypeOK, Batchers
  <2>1. ids \in SUBSET Faces
    BY <2>0 DEF FlightRows
  <2>2. [flight |-> f, ids |-> ids] \in Waiters
    BY <2>1 DEF Waiters
  <2>3. /\ flights' \in [Flights -> FlightRows]
        /\ \A g \in Flights : /\ flights'[g].answered = flights[g].answered
                              /\ flights'[g].signedOut = flights[g].signedOut
    BY <1>7, <2>0, <2>1 DEF Enqueue, FlightRows
  <2>4. /\ batcher' \in Batchers
        /\ batcher'.queue = batcher.queue \cup ids
        /\ batcher'.waiters = batcher.waiters \cup {[flight |-> f, ids |-> ids]}
    BY <1>7, <2>0, <2>1, <2>2 DEF Enqueue, Batchers
  <2>5. RingTypeOK'
    BY <1>0, <1>7, <2>3, <2>4 DEF Enqueue, RingTypeOK, Batchers, ringHistory
  <2>6. \A w \in batcher'.waiters : w.ids \subseteq batcher'.queue
    BY <2>4 DEF RingInv
  <2> QED
    BY <1>7, <2>3, <2>5, <2>6 DEF Enqueue, RingInv, NoInventedAnswer, FetchOK, ringHistory
<1>8. CASE SessionChanges
  <2>1. mishaps' \in 0..MaxMishaps
    BY <1>0, <1>8, MishapCounts DEF SessionChanges, RingTypeOK
  <2>2. /\ ringCache' \in [Faces -> Answers]
        /\ \A p \in Faces : ringCache'[p] # "unknown" => ringCache[p] # "unknown"
    BY <1>0, <1>8, UnknownAnswers DEF SessionChanges, RingTypeOK, Unknown
  <2> QED
    BY <1>0, <1>8, <2>1, <2>2, PageOnly
       DEF SessionChanges, RingTypeOK, pageVars, ringHistory
<1>9. ASSUME NEW p \in Faces, EntryExpires(p) PROVE RingInv'
  <2>1. /\ ringCache' \in [Faces -> Answers]
        /\ \A q \in Faces : ringCache'[q] # "unknown" => ringCache[q] # "unknown"
    BY <1>0, <1>9 DEF EntryExpires, RingTypeOK, Answers
  <2> QED
    BY <1>0, <1>9, <2>1, PageOnly DEF EntryExpires, RingTypeOK, pageVars, ringHistory
<1> QED
  BY <1>1, <1>2, <1>3, <1>4, <1>5, <1>6, <1>7, <1>8, <1>9

LEMMA RingWorkerStep ==
  ASSUME RingInv,
         \/ Navigate
         \/ \E x \in Fetches :
              FlushStarts(x) \/ FlushPlans(x) \/ FetchAnswered(x) \/ FetchFails(x)
  PROVE  RingInv'
<1>0. /\ RingTypeOK /\ NoInventedAnswer /\ flights \in [Flights -> FlightRows]
      /\ fetches \in [Fetches -> FetchRows] /\ batcher \in Batchers
      /\ ringCache \in [Faces -> Answers]
  BY DEF RingInv, RingTypeOK, Batchers
<1>1. CASE Navigate
  <2>1. flights' \in [Flights -> FlightRows] /\ NoInventedAnswer'
    BY <1>0, <1>1, AnswersSound, UnknownAnswers DEF Navigate, Batchers, ringHistory
  <2>2. avatar' \in [Avatars -> AvatarRows] /\ pendingFaces' \subseteq Questions
    BY <1>0, <1>1, Decorated DEF Navigate
  <2>3. mishaps' \in 0..MaxMishaps
    BY <1>0, <1>1, MishapCounts DEF Navigate, RingTypeOK
  <2>4. batcher' \in Batchers /\ batcher'.waiters = {}
    BY <1>1 DEF Navigate, EmptyBatcher, Batchers
  <2>5. /\ fetches' \in [Fetches -> FetchRows]
        /\ \A x \in Fetches : /\ fetches'[x].results = fetches[x].results
                              /\ fetches'[x].waiters = fetches[x].waiters
                              /\ fetches'[x].ids = fetches[x].ids
                              /\ fetches'[x].over = fetches[x].over
    <3>1. CASE controller = NoFetch
      BY <1>0, <1>1, <3>1 DEF Navigate
    <3>2. CASE controller # NoFetch
      <4>1. controller \in Fetches /\ fetches' = [fetches EXCEPT ![controller].pc = "aborted"]
        BY <1>0, <1>1, <3>2 DEF Navigate, RingTypeOK
      <4> QED
        BY <1>0, <4>1 DEF FetchRows
    <3> QED
      BY <3>1, <3>2
  <2>6. \A x \in Fetches : FetchOK(fetches[x])'
    BY <1>1, <2>5 DEF Navigate, RingInv, FetchOK, ringHistory
  <2>7. RingTypeOK'
    BY <1>0, <1>1, <2>1, <2>2, <2>3, <2>4, <2>5
       DEF Navigate, RingTypeOK, Batchers, ringHistory
  <2> QED
    BY <1>1, <2>1, <2>4, <2>6, <2>7 DEF Navigate, RingInv, ringHistory
<1>2. ASSUME NEW x \in Fetches, FlushStarts(x) PROVE RingInv'
  <2>1. /\ batcher' \in Batchers
        /\ batcher'.waiters = batcher.waiters /\ batcher'.queue = batcher.queue
    BY <1>0, <1>2 DEF FlushStarts, Batchers
  <2>2. /\ fetches' \in [Fetches -> FetchRows]
        /\ \A y \in Fetches : /\ fetches'[y].results = fetches[y].results
                              /\ fetches'[y].waiters = fetches[y].waiters
                              /\ fetches'[y].ids = fetches[y].ids
                              /\ fetches'[y].over = fetches[y].over
    BY <1>0, <1>2 DEF FlushStarts, FetchRows
  <2>3. \A y \in Fetches : FetchOK(fetches[y])'
    BY <1>2, <2>2 DEF FlushStarts, RingInv, FetchOK, ringHistory
  <2>4. RingTypeOK'
    BY <1>0, <1>2, <2>1, <2>2 DEF FlushStarts, RingTypeOK, Batchers, pageVars, ringHistory
  <2> QED
    BY <1>0, <1>2, <2>1, <2>3, <2>4
       DEF FlushStarts, RingInv, NoInventedAnswer, pageVars, ringHistory
<1>3. ASSUME NEW x \in Fetches, FlushPlans(x) PROVE RingInv'
  <2> DEFINE known == [p \in Faces |-> IF p \in batcher.queue THEN ringCache[p]
                                       ELSE "unknown"]
             misses == {p \in batcher.queue : ringCache[p] = "unknown"}
  <2>0. /\ known \in [Faces -> Answers] /\ misses \subseteq Faces
        /\ \A p \in Faces : known[p] # "unknown" => p \in told
        /\ batcher.queue \subseteq Faces
        /\ \A p \in batcher.queue : p \in misses \/ p \in told
        /\ \A w \in batcher.waiters : w.ids \subseteq batcher.queue
        /\ batcher.waiters \in SUBSET Waiters
    BY <1>0 DEF RingInv, Batchers, Answers
  <2>1. /\ batcher' \in Batchers /\ batcher'.waiters = {} /\ batcher'.queue = {}
    BY <1>0, <1>3 DEF FlushPlans, Batchers
  <2>2. CASE /\ ~ringSession \/ misses = {}
             /\ flights' = Answered(batcher.waiters, batcher.waiters,
                                    IF ringSession THEN known ELSE Unknown, ~ringSession)
             /\ fetches' = [fetches EXCEPT ![x] = IdleFetch]
             /\ UNCHANGED <<controller, overrun>>
    <3> DEFINE results == IF ringSession THEN known ELSE Unknown
    <3>1. results \in [Faces -> Answers] /\ (~ringSession) \in BOOLEAN
      BY <2>0, UnknownAnswers
    <3>2. ~ringSession \/ \A w \in batcher.waiters : w.ids \subseteq told' \cup overrun'
      BY <1>3, <2>0, <2>2 DEF FlushPlans
    <3>3. told \subseteq told' /\ overrun \subseteq overrun'
      BY <1>3, <2>2 DEF FlushPlans
    <3> HIDE DEF results, known, misses
    <3>4. flights' = Answered(batcher.waiters, batcher.waiters, results, ~ringSession)
      BY <2>2 DEF results
    <3>5. flights' \in [Flights -> FlightRows] /\ NoInventedAnswer'
      BY <1>0, <2>0, <3>1, <3>2, <3>3, <3>4, AnswersSound
    <3>6. fetches' \in [Fetches -> FetchRows]
      BY <1>0, <2>2, IdleFetchOK
    <3>7. \A y \in Fetches : FetchOK(fetches[y])'
      BY <1>0, <1>3, <2>2, IdleFetchOK DEF FlushPlans, RingInv, FetchOK
    <3>8. RingTypeOK'
      BY <1>0, <1>3, <2>1, <2>2, <3>5, <3>6 DEF FlushPlans, RingTypeOK, Batchers
    <3> QED
      BY <1>3, <2>1, <3>5, <3>7, <3>8 DEF FlushPlans, RingInv
  <2>3. ASSUME NEW ids \in SUBSET misses,
               fetches' = [fetches EXCEPT
                  ![x] = [pc |-> "asking", waiters |-> batcher.waiters,
                          ids |-> ids, over |-> misses \ ids, results |-> known]],
               overrun' = overrun \cup (misses \ ids),
               controller' = x, UNCHANGED flights
        PROVE  RingInv'
    <3> DEFINE row == [pc |-> "asking", waiters |-> batcher.waiters,
                       ids |-> ids, over |-> misses \ ids, results |-> known]
    <3> HIDE DEF known, misses
    <3>1. row \in FetchRows
      BY <2>0 DEF FetchRows
    <3>3. fetches'[x] = row /\ \A y \in Fetches \ {x} : fetches'[y] = fetches[y]
      BY <1>0, <2>3
    <3>4. ASSUME NEW y \in Fetches PROVE FetchOK(fetches[y])'
      <4>1. CASE y = x
        BY <1>3, <2>0, <2>3, <3>3, <4>1 DEF FlushPlans, FetchOK
      <4>2. CASE y # x
        <5>1. FetchOK(fetches[y]) /\ fetches'[y] = fetches[y]
          BY <3>3, <4>2 DEF RingInv
        <5> QED
          BY <1>3, <2>3, <5>1 DEF FlushPlans, FetchOK
      <4> QED
        BY <4>1, <4>2
    <3>5. fetches' \in [Fetches -> FetchRows]
      BY <1>0, <2>3, <3>1
    <3>6. overrun' \subseteq Faces /\ overrun \subseteq overrun'
      BY <1>0, <2>0, <2>3 DEF RingTypeOK
    <3>7. RingTypeOK'
      BY <1>0, <1>3, <2>1, <2>3, <3>5, <3>6 DEF FlushPlans, RingTypeOK, Batchers
    <3>8. NoInventedAnswer'
      BY <1>0, <1>3, <2>3, <3>6 DEF FlushPlans, NoInventedAnswer
    <3> QED
      BY <1>3, <2>1, <3>4, <3>7, <3>8 DEF FlushPlans, RingInv
  <2> QED
    BY <1>3, <2>2, <2>3 DEF FlushPlans
<1>4. ASSUME NEW x \in Fetches, FetchAnswered(x) PROVE RingInv'
  <2>0. fetches[x] \in FetchRows /\ FetchOK(fetches[x])
    BY <1>0 DEF RingInv
  <2> PICK says :
        /\ says \in [Faces -> Answers]
        /\ flights' = Answered(fetches[x].waiters, fetches[x].waiters, says, FALSE)
        /\ ringCache' = [p \in Faces |-> IF p \in fetches[x].ids THEN says[p]
                                         ELSE ringCache[p]]
    <3> PICK active \in SUBSET fetches[x].ids :
          LET says == [p \in Faces |->
                        CASE p \in active -> "story"
                          [] p \in fetches[x].ids \ active -> "none"
                          [] OTHER -> fetches[x].results[p]]
          IN  /\ flights' = Answered(fetches[x].waiters, fetches[x].waiters, says, FALSE)
              /\ ringCache' = [p \in Faces |-> IF p \in fetches[x].ids THEN says[p]
                                               ELSE ringCache[p]]
      BY <1>4 DEF FetchAnswered
    <3> DEFINE said == [p \in Faces |->
                        CASE p \in active -> "story"
                          [] p \in fetches[x].ids \ active -> "none"
                          [] OTHER -> fetches[x].results[p]]
    <3>1. ASSUME NEW p \in Faces PROVE said[p] \in Answers
      BY <2>0 DEF FetchRows, Answers, Rings
    <3>2. said \in [Faces -> Answers]
      BY <3>1
    <3>3. /\ flights' = Answered(fetches[x].waiters, fetches[x].waiters, said, FALSE)
          /\ ringCache' = [p \in Faces |-> IF p \in fetches[x].ids THEN said[p]
                                           ELSE ringCache[p]]
      BY Zenon
    <3> HIDE DEF said
    <3> QED
      BY <3>2, <3>3
  <2>1. /\ told' = told \cup fetches[x].ids /\ overrun' = overrun /\ told' \subseteq Faces
        /\ told \subseteq told' /\ overrun \subseteq overrun'
    BY <1>0, <1>4, <2>0 DEF FetchAnswered, FetchRows, RingTypeOK
  <2>2. \A w \in fetches[x].waiters : w.ids \subseteq told' \cup overrun'
    BY <2>0, <2>1 DEF FetchOK
  <2>3. flights' \in [Flights -> FlightRows] /\ NoInventedAnswer'
    BY <1>0, <2>0, <2>1, <2>2, AnswersSound DEF FetchRows
  <2>4. /\ ringCache' \in [Faces -> Answers]
        /\ \A p \in Faces : ringCache'[p] # "unknown" => p \in told'
    BY <1>0, <2>1 DEF RingInv
  <2>5. /\ fetches' \in [Fetches -> FetchRows]
        /\ \A y \in Fetches : FetchOK(fetches[y])'
        /\ controller' \in Fetches \cup {NoFetch}
        /\ batcher' \in Batchers
        /\ \A w \in batcher'.waiters : w.ids \subseteq batcher'.queue
    BY <1>4, <2>1, FlushOver DEF FetchAnswered
  <2>6. RingTypeOK'
    BY <1>0, <1>4, <2>1, <2>3, <2>4, <2>5 DEF FetchAnswered, RingTypeOK, Batchers
  <2> QED
    BY <2>3, <2>4, <2>5, <2>6 DEF RingInv
<1>5. ASSUME NEW x \in Fetches, FetchFails(x) PROVE RingInv'
  <2>0. fetches[x] \in FetchRows /\ FetchOK(fetches[x])
    BY <1>0 DEF RingInv
  <2> DEFINE good == Served(fetches[x].waiters, fetches[x].results)
  <2>7. flights' = Answered(fetches[x].waiters, good, fetches[x].results, FALSE)
    BY <1>5 DEF FetchFails
  <2>1. told' = told /\ overrun' = overrun /\ UNCHANGED <<avatar, pendingFaces, retries,
                                                          ringCache, ringSession>>
    BY <1>5 DEF FetchFails, ringHistory
  <2>2. \A w \in good : w.ids \subseteq told' \cup overrun'
    BY <2>0, <2>1 DEF FetchOK, FetchRows, Waiters, Served
  <2>3. flights' \in [Flights -> FlightRows] /\ NoInventedAnswer'
    <3>1. good \in SUBSET fetches[x].waiters /\ fetches[x].waiters \in SUBSET Waiters
      BY <2>0 DEF Served, FetchRows
    <3>2. fetches[x].results \in [Faces -> Answers]
      BY <2>0 DEF FetchRows
    <3> HIDE DEF good
    <3> QED
      BY <1>0, <2>1, <2>2, <2>7, <3>1, <3>2, AnswersSound
  <2>4. mishaps' \in 0..MaxMishaps
    BY <1>0, <1>5, MishapCounts DEF FetchFails, RingTypeOK
  <2>5. /\ fetches' \in [Fetches -> FetchRows]
        /\ \A y \in Fetches : FetchOK(fetches[y])'
        /\ controller' \in Fetches \cup {NoFetch}
        /\ batcher' \in Batchers
        /\ \A w \in batcher'.waiters : w.ids \subseteq batcher'.queue
    BY <1>5, <2>1, FlushOver DEF FetchFails
  <2>6. RingTypeOK'
    BY <1>0, <2>1, <2>3, <2>4, <2>5 DEF RingTypeOK, Batchers
  <2> QED
    BY <2>1, <2>3, <2>5, <2>6 DEF RingInv
<1> QED
  BY <1>1, <1>2, <1>3, <1>4, <1>5

\* What a question has been told, as it passes from the service through the
\* batcher to the avatars (ringCache.ts, content.ts).
THEOREM RingInvariance == RingSpec => []RingInv
<1>1. RingInv /\ RingNext => RingInv'
  BY RingPageStep, RingWorkerStep DEF RingNext, PageSteps, BatcherSteps
<1>2. RingInv /\ UNCHANGED ringVars => RingInv'
  BY DEF RingInv, RingTypeOK, NoInventedAnswer, FetchOK, ringVars, pageVars, batcherVars,
         ringHistory
<1> QED
  BY RingInitially, <1>1, <1>2, PTL DEF RingSpec

\* A failed, cancelled or dropped question never reads as "no Story"
\* (ringCache.ts, content.ts).
THEOREM NoInventedAnswerHolds == RingSpec => []NoInventedAnswer
<1>1. RingInv => NoInventedAnswer
  BY DEF RingInv
<1> QED
  BY RingInvariance, <1>1, PTL

-----------------------------------------------------------------------------
(* The session *)

LEMMA SessionConstants ==
  /\ Home \in Origins /\ NoLogin \notin Logins /\ 0 \in 0..MaxDisturbances
  /\ [p \in People |-> NoLogin] \in Tokens
  /\ NoStarter \in Starters /\ NoPoll \in Polls
  /\ NoCallers \in [Callers -> Origins \cup {NoOrigin}]
  /\ NoSwitch \in Switches /\ NoRemoval \in Removals /\ NoRequest \in Requests
<1>1. [p \in People |-> NoLogin] \in Tokens
  BY DEF Tokens
<1>2. NoPoll \in Polls /\ NoRemoval \in Removals
  BY <1>1 DEF NoPoll, Polls, NoRemoval, Removals
<1>3. NoStarter \in Starters /\ NoCallers \in [Callers -> Origins \cup {NoOrigin}]
  BY DEF NoStarter, Starters, NoCallers
<1>4. NoSwitch \in Switches /\ NoRequest \in Requests
  BY DEF NoSwitch, Switches, NoRequest, Requests
<1> QED
  BY <1>1, <1>2, <1>3, <1>4, SessionAssumption DEF SessionAssumption

LEMMA DisturbCounts ==
  ASSUME disturbances \in 0..MaxDisturbances, Disturb
  PROVE  disturbances' \in 0..MaxDisturbances
BY SessionAssumption DEF SessionAssumption, Disturb

LEMMA Joins ==
  ASSUME SessionTypeOK, NEW who \in Callers, NEW origin \in Origins \cup {NoOrigin},
         Join(who, origin)
  PROVE  /\ poll' \in Polls /\ callers' \in [Callers -> Origins \cup {NoOrigin}]
         /\ poll' = poll \/ (poll'.pc = "reading" /\ poll'.login = NoLogin)
<1>1. /\ [NoPoll EXCEPT !.pc = "reading", !.origin = origin] \in Polls
      /\ [NoPoll EXCEPT !.pc = "reading", !.origin = origin].pc = "reading"
      /\ [NoPoll EXCEPT !.pc = "reading", !.origin = origin].login = NoLogin
  BY SessionConstants DEF NoPoll, Polls
<1> QED
  BY <1>1 DEF Join, SessionTypeOK

LEMMA Settles ==
  ASSUME SessionTypeOK, NEW result, Settle(result),
         poll.login \in Logins \/ result \notin {"denied", "expired"}
  PROVE  /\ poll' \in Polls /\ poll'.pc \in {"off", "reading"} /\ poll'.login = NoLogin
         /\ callers' \in [Callers -> Origins \cup {NoOrigin}]
         /\ loop' \in Origins \cup {NoOrigin}
         /\ popup' \in {"closed", "open", "waiting", "signedin", "failed"}
         /\ alarm' \in BOOLEAN /\ blipped' \in BOOLEAN /\ refused' \subseteq Logins
         /\ refused' = IF result \in {"denied", "expired"} THEN refused \cup {poll.login}
                       ELSE refused
<1> DEFINE heard == {c \in Callers : callers[c] # NoOrigin}
           resumed == {callers[c] : c \in heard \cap {"alarm", "startup"}}
           goesOn == IF "loop" \in heard /\ result \notin {"pending", "error"}
                     THEN NoOrigin ELSE loop
<1>1. callers \in [Callers -> Origins \cup {NoOrigin}] /\ loop \in Origins \cup {NoOrigin}
  BY DEF SessionTypeOK
<1>2. resumed \subseteq Origins \cup {NoOrigin} /\ goesOn \in Origins \cup {NoOrigin}
  BY <1>1
<1>3. /\ popup' = IF "popup" \in heard /\ popup # "closed" THEN PopupAfter(result)
                  ELSE popup
      /\ alarm' = AlarmAfter(heard, result)
      /\ blipped' = (blipped \/ (result = "error" /\ resumed # {}))
      /\ refused' = IF result \in {"denied", "expired"} THEN refused \cup {poll.login}
                    ELSE refused
  BY DEF Settle
<1>4. \/ \E origin \in resumed :
            /\ poll' = [NoPoll EXCEPT !.pc = "reading", !.origin = origin]
            /\ callers' = [NoCallers EXCEPT !["loop"] =
                             IF goesOn = NoOrigin THEN origin ELSE NoOrigin]
            /\ loop' = IF goesOn = NoOrigin THEN origin ELSE goesOn
      \/ poll' = NoPoll /\ callers' = NoCallers /\ loop' = goesOn
  BY DEF Settle
<1> HIDE DEF heard, resumed, goesOn
<1>5. /\ poll' \in Polls /\ poll'.pc \in {"off", "reading"} /\ poll'.login = NoLogin
      /\ callers' \in [Callers -> Origins \cup {NoOrigin}]
      /\ loop' \in Origins \cup {NoOrigin}
  <2>1. ASSUME NEW origin \in resumed,
               poll' = [NoPoll EXCEPT !.pc = "reading", !.origin = origin],
               callers' = [NoCallers EXCEPT !["loop"] =
                             IF goesOn = NoOrigin THEN origin ELSE NoOrigin],
               loop' = IF goesOn = NoOrigin THEN origin ELSE goesOn
        PROVE  /\ poll' \in Polls /\ poll'.pc \in {"off", "reading"} /\ poll'.login = NoLogin
               /\ callers' \in [Callers -> Origins \cup {NoOrigin}]
               /\ loop' \in Origins \cup {NoOrigin}
    BY <1>2, <2>1, SessionConstants DEF NoPoll, Polls
  <2>2. CASE poll' = NoPoll /\ callers' = NoCallers /\ loop' = goesOn
    BY <1>2, <2>2, SessionConstants DEF NoPoll, Polls
  <2> QED
    BY <1>4, <2>1, <2>2
<1>6. popup' \in {"closed", "open", "waiting", "signedin", "failed"}
  BY <1>3 DEF SessionTypeOK, PopupAfter
<1>7. alarm' \in BOOLEAN /\ blipped' \in BOOLEAN
  BY <1>3 DEF SessionTypeOK, AlarmAfter
<1>8. refused' \subseteq Logins
  BY <1>3 DEF SessionTypeOK
<1> QED
  BY <1>3, <1>5, <1>6, <1>7, <1>8

LEMMA SessionTypesInitially == SessionInit => SessionTypeOK
<1> SUFFICES ASSUME SessionInit PROVE SessionTypeOK
  OBVIOUS
<1>1. local \in Stored
  BY SessionConstants DEF SessionInit, Stored
<1>2. service \in [Logins -> Issued]
  BY DEF SessionInit, Issued
<1>3. remover \in [Removers -> Removals]
  BY SessionConstants DEF SessionInit
<1> QED
  BY <1>1, <1>2, <1>3, SessionConstants DEF SessionInit, SessionTypeOK

\* What most steps do to the service: no login changes its issuer, and none that
\* was started is unused again.
OnlyStates ==
  /\ service' \in [Logins -> Issued]
  /\ \A m \in Logins : /\ service'[m].origin = service[m].origin
                       /\ service'[m].state = "unused" => service[m].state = "unused"

LEMMA OneLoginMoves ==
  ASSUME service \in [Logins -> Issued], NEW l \in Logins, NEW row \in Issued,
         row.origin = service[l].origin, row.state # "unused",
         service' = [service EXCEPT ![l] = row]
  PROVE  OnlyStates
BY DEF OnlyStates

LEMMA Collects ==
  ASSUME service \in [Logins -> Issued], NEW l, NEW origin, Collect(l, origin)
  PROVE  OnlyStates
<1>1. CASE l \in Logins /\ Verdict(l, origin) = "approved"
  <2> DEFINE row == [service[l] EXCEPT !.state = "consumed"]
  <2>1. row \in Issued /\ row.origin = service[l].origin /\ row.state # "unused"
    BY <1>1 DEF Issued
  <2>2. service' = [service EXCEPT ![l] = row]
    BY <1>1 DEF Collect
  <2> QED
    BY <1>1, <2>1, <2>2, OneLoginMoves
<1>2. CASE ~ (l \in Logins /\ Verdict(l, origin) = "approved")
  <2>1. service' = service
    BY <1>2 DEF Collect
  <2> QED
    BY <2>1 DEF OnlyStates
<1> QED
  BY <1>1, <1>2

LEMMA IssuerMoves ==
  ASSUME service \in [Logins -> Issued], NEW l \in Logins,
         \/ Deny(l) \/ DeadlinePasses(l) \/ Revoke(l) \/ \E p \in People : Approve(l, p)
  PROVE  OnlyStates
<1>0. service[l] \in Issued
  OBVIOUS
<1>1. ASSUME NEW state \in {"denied", "revoked"}, service' = [service EXCEPT ![l].state = state]
      PROVE  OnlyStates
  <2> DEFINE row == [service[l] EXCEPT !.state = state]
  <2>1. row \in Issued /\ row.origin = service[l].origin /\ row.state # "unused"
    BY <1>0 DEF Issued
  <2> QED
    BY <1>1, <2>1, OneLoginMoves
<1>2. CASE DeadlinePasses(l)
  <2> DEFINE row == [service[l] EXCEPT !.late = TRUE]
  <2>1. row \in Issued /\ row.origin = service[l].origin /\ row.state # "unused"
    BY <1>0, <1>2 DEF Issued, DeadlinePasses
  <2> QED
    BY <1>2, <2>1, OneLoginMoves DEF DeadlinePasses
<1>3. ASSUME NEW p \in People, Approve(l, p) PROVE OnlyStates
  <2> DEFINE row == [service[l] EXCEPT !.state = "approved", !.person = p]
  <2>1. row \in Issued /\ row.origin = service[l].origin /\ row.state # "unused"
    BY <1>0 DEF Issued
  <2>2. service' = [service EXCEPT ![l] = row]
    BY <1>0, <1>3 DEF Approve
  <2> QED
    BY <2>1, <2>2, OneLoginMoves
<1>4. CASE Deny(l) \/ Revoke(l)
  BY <1>1, <1>4 DEF Deny, Revoke
<1> QED
  BY <1>2, <1>3, <1>4

LEMMA Revokes ==
  ASSUME service \in [Logins -> Issued], LogoutRevokes
  PROVE  OnlyStates
<1> DEFINE token == remover["logout"].token
<1>1. \/ service' = service
      \/ service' = [service EXCEPT ![token].state = "revoked"]
  BY DEF LogoutRevokes
<1> HIDE DEF token
<1>2. CASE token \in Logins /\ service' = [service EXCEPT ![token].state = "revoked"]
  <2> DEFINE row == [service[token] EXCEPT !.state = "revoked"]
  <2>1. row \in Issued /\ row.origin = service[token].origin /\ row.state # "unused"
    BY <1>2 DEF Issued
  <2> QED
    BY <1>2, <2>1, OneLoginMoves
<1>3. CASE service' = service
  BY <1>3 DEF OnlyStates
<1> QED
  BY <1>1, <1>2, <1>3

\* The poll and the starter hold a login from the step that gave it to them.
Shape ==
  /\ SessionTypeOK
  /\ poll.pc \in {"off", "reading"} <=> poll.login = NoLogin
  /\ starter.pc \in {"off", "creating"} <=> starter.login = NoLogin
  /\ switcher.pc # "off" => switcher.origin \in Origins
  /\ \A r \in Removers : remover[r].pc # "off" => remover[r].person \in People

\* Every handler keeps the types.
LEMMA ShapeKept ==
  ASSUME Shape, SessionTypeOK',
         poll' = poll \/ (poll'.pc \in {"off", "reading"} /\ poll'.login = NoLogin),
         starter' \in {starter, NoStarter}, switcher' \in {switcher, NoSwitch},
         \A r \in Removers : remover'[r] \in {remover[r], NoRemoval}
  PROVE  Shape'
BY DEF Shape, NoStarter, NoSwitch, NoRemoval

LEMMA PollTypes ==
  ASSUME Shape, PollSteps \/ PollFails
  PROVE  Shape'
<1>0. /\ poll \in Polls /\ local \in Stored /\ service \in [Logins -> Issued]
      /\ local.accounts \in Tokens /\ SessionTypeOK
      /\ poll.pc \notin {"off", "reading"} => poll.login \in Logins
      /\ disturbances \in 0..MaxDisturbances
  BY DEF Shape, SessionTypeOK, Stored, Polls
<1>1. ASSUME NEW result, Settle(result), local' \in Stored,
             service' \in [Logins -> Issued], kept' \subseteq Logins,
             poll.login \in Logins \/ result \notin {"denied", "expired"},
             UNCHANGED <<worker, starter, switcher, remover, request, mixed, crossed>>,
             disturbances' \in 0..MaxDisturbances
      PROVE  Shape'
  <2>1. SessionTypeOK'
    BY <1>0, <1>1, Settles DEF SessionTypeOK
  <2> QED
    BY <1>0, <1>1, <2>1, Settles, ShapeKept
<1>2. ASSUME poll' \in Polls, poll'.pc \notin {"off", "reading"}, poll'.login # NoLogin,
             local' \in Stored, service' \in [Logins -> Issued], kept' \subseteq Logins,
             UNCHANGED <<callers, loop, popup, alarm, refused, blipped, worker, starter,
                         switcher, remover, request, mixed, crossed, disturbances>>
      PROVE  Shape'
  BY <1>2 DEF Shape, SessionTypeOK
<1>3. kept \subseteq Logins
  BY <1>0 DEF SessionTypeOK
<1>4. CASE ReadPending
  <2>1. CASE Settle("idle")
    BY <1>0, <1>1, <1>3, <1>4, <2>1 DEF ReadPending
  <2>2. CASE /\ local.pending # NoLogin
             /\ poll' = IF service[local.pending].late
                        THEN [poll EXCEPT !.pc = "clearing", !.login = local.pending,
                                          !.result = "expired"]
                        ELSE [poll EXCEPT !.pc = "asking", !.login = local.pending]
             /\ UNCHANGED <<callers, loop, popup, alarm, refused, blipped>>
    <3>1. poll' \in Polls /\ poll'.pc \notin {"off", "reading"} /\ poll'.login # NoLogin
      BY <1>0, <2>2 DEF Polls, Stored
    <3> QED
      BY <1>0, <1>2, <1>3, <1>4, <2>2, <3>1 DEF ReadPending
  <2> QED
    BY <1>4, <2>1, <2>2 DEF ReadPending
<1>5. CASE HearVerdict
  <2> DEFINE said == Verdict(poll.login, poll.origin)
  <2>0. /\ said \in {"pending", "approved", "denied", "expired"}
        /\ poll.login \in Logins /\ poll.login # NoLogin
    BY <1>0, <1>5, SessionConstants DEF HearVerdict, Verdict
  <2>1. service' \in [Logins -> Issued]
    BY <1>0, <1>5, Collects DEF HearVerdict, OnlyStates
  <2>2. CASE Settle("pending")
    BY <1>0, <1>1, <1>3, <1>5, <2>1, <2>2 DEF HearVerdict
  <2>3. CASE /\ said # "pending"
             /\ poll' = [poll EXCEPT !.pc = "clearing", !.result = said]
             /\ UNCHANGED <<callers, loop, popup, alarm, refused, blipped>>
    <3> HIDE DEF said
    <3>1. poll' \in Polls /\ poll'.pc = "clearing" /\ poll'.login = poll.login
      BY <1>0, <2>0, <2>3 DEF Polls
    <3> QED
      BY <1>0, <1>2, <1>3, <1>5, <2>0, <2>1, <2>3, <3>1 DEF HearVerdict
  <2> QED
    BY <1>5, <2>2, <2>3 DEF HearVerdict
<1>6. CASE PollFails
  <2>1. service' \in [Logins -> Issued]
    BY <1>0, <1>6, Collects DEF PollFails, OnlyStates
  <2>2. disturbances' \in 0..MaxDisturbances
    BY <1>0, <1>6, DisturbCounts DEF PollFails
  <2>3. Settle("error") \/ Settle("pending")
    BY <1>6 DEF PollFails
  <2> QED
    BY <1>0, <1>1, <1>3, <1>6, <2>1, <2>2, <2>3 DEF PollFails
<1>7. CASE ClearPending
  <2>1. local' \in Stored /\ poll.login \in Logins /\ poll.login # NoLogin
    BY <1>0, <1>7, SessionConstants DEF ClearPending, Forgotten, Stored
  <2>2. CASE Settle(poll.result)
    BY <1>0, <1>1, <1>3, <1>7, <2>1, <2>2 DEF ClearPending
  <2>3. CASE /\ poll' = [poll EXCEPT !.pc = "loading"]
             /\ UNCHANGED <<callers, loop, popup, alarm, refused, blipped>>
    <3>1. poll' \in Polls /\ poll'.pc = "loading" /\ poll'.login = poll.login
      BY <1>0, <2>3 DEF Polls
    <3> QED
      BY <1>0, <1>2, <1>3, <1>7, <2>1, <2>3, <3>1 DEF ClearPending
  <2> QED
    BY <1>7, <2>2, <2>3 DEF ClearPending
<1>8. CASE LoadAccounts
  <2>1. [local.accounts EXCEPT ![service[poll.login].person] = poll.login] \in Tokens
    BY <1>0 DEF Tokens, Polls
  <2>2. poll' \in Polls /\ poll'.pc = "saving" /\ poll'.login = poll.login
    BY <1>0, <1>8, <2>1 DEF LoadAccounts, Polls
  <2>3. poll.login # NoLogin
    BY <1>0, <1>8, SessionConstants DEF LoadAccounts
  <2> QED
    BY <1>0, <1>2, <1>3, <1>8, <2>2, <2>3 DEF LoadAccounts, historyVars
<1>9. CASE SaveAccounts
  <2>1. local' \in Stored
    BY <1>0, <1>9 DEF SaveAccounts, Stored, Polls
  <2>2. poll' \in Polls /\ poll'.pc = "activating" /\ poll'.login = poll.login
    BY <1>0, <1>9 DEF SaveAccounts, Polls
  <2>3. kept' \subseteq Logins /\ poll.login # NoLogin
    BY <1>0, <1>3, <1>9, SessionConstants DEF SaveAccounts
  <2> QED
    BY <1>0, <1>2, <1>9, <2>1, <2>2, <2>3 DEF SaveAccounts
<1>10. CASE Activate
  <2>1. poll.login \in Logins
    BY <1>0, <1>10 DEF Activate
  <2>2. service[poll.login].person \in People \cup {Nobody}
    BY <1>0, <2>1 DEF Issued
  <2>3. local' \in Stored
    BY <1>0, <1>10, <2>2 DEF Activate, Stored
  <2> QED
    BY <1>0, <1>1, <1>3, <1>10, <2>3 DEF Activate
<1> QED
  BY <1>4, <1>5, <1>6, <1>7, <1>8, <1>9, <1>10 DEF PollSteps

LEMMA CallerTypes ==
  ASSUME Shape,
         LoopPolls \/ AlarmPolls \/ WorkerStarts \/ Evict \/ PopupPolls \/ ClosePopup
  PROVE  Shape'
<1>0. local.origin \in Origins /\ loop \in Origins \cup {NoOrigin} /\ SessionTypeOK
  BY DEF Shape, SessionTypeOK, Stored
<1>1. CASE LoopPolls \/ AlarmPolls \/ WorkerStarts \/ PopupPolls
  <2> PICK who \in Callers, origin \in Origins \cup {NoOrigin} : Join(who, origin)
    BY <1>0, <1>1 DEF LoopPolls, AlarmPolls, WorkerStarts, PopupPolls, Callers
  <2>1. /\ poll' \in Polls /\ callers' \in [Callers -> Origins \cup {NoOrigin}]
        /\ poll' = poll \/ (poll'.pc = "reading" /\ poll'.login = NoLogin)
    BY <1>0, Joins
  <2>2. SessionTypeOK' /\ UNCHANGED <<starter, switcher, remover>>
    BY <1>0, <1>1, <2>1
       DEF LoopPolls, AlarmPolls, WorkerStarts, PopupPolls, SessionTypeOK, historyVars
  <2> QED
    BY <2>1, <2>2, ShapeKept
<1>2. CASE Evict
  <2>1. disturbances' \in 0..MaxDisturbances
    BY <1>0, <1>2, DisturbCounts DEF Evict, SessionTypeOK
  <2>2. remover' \in [Removers -> Removals]
    BY <1>2, SessionConstants DEF Evict
  <2>3. SessionTypeOK'
    BY <1>0, <1>2, <2>1, <2>2, SessionConstants DEF Evict, SessionTypeOK, historyVars
  <2> QED
    BY <1>2, <2>3, ShapeKept DEF Evict, NoPoll
<1>3. CASE ClosePopup
  <2>1. callers' \in [Callers -> Origins \cup {NoOrigin}]
    BY <1>0, <1>3 DEF ClosePopup, SessionTypeOK
  <2>2. SessionTypeOK'
    BY <1>0, <1>3, <2>1 DEF ClosePopup, SessionTypeOK, historyVars
  <2> QED
    BY <1>3, <2>2, ShapeKept DEF ClosePopup
<1> QED
  BY <1>1, <1>2, <1>3

LEMMA LoginTypes ==
  ASSUME Shape,
         \/ StartLogin \/ LoginSteps
         \/ \E l \in Logins : Deny(l) \/ DeadlinePasses(l) \/ Revoke(l)
         \/ \E l \in Logins, p \in People : Approve(l, p)
  PROVE  Shape'
<1>0. /\ local \in Stored /\ service \in [Logins -> Issued] /\ starter \in Starters
      /\ local.origin \in Origins /\ SessionTypeOK
  BY DEF Shape, SessionTypeOK, Stored
<1>1. CASE StartLogin
  <2>1. starter' \in Starters /\ starter'.pc = "creating" /\ starter'.login = NoLogin
    BY <1>0, <1>1, SessionConstants DEF StartLogin, NoStarter, Starters
  <2>2. disturbances' \in 0..MaxDisturbances
    BY <1>0, <1>1, DisturbCounts DEF StartLogin, SessionTypeOK
  <2>3. SessionTypeOK'
    BY <1>0, <1>1, <2>1, <2>2 DEF StartLogin, SessionTypeOK
  <2> QED
    BY <1>1, <2>1, <2>3 DEF StartLogin, Shape
<1>2. CASE LoginCreated
  <2> PICK l \in Logins :
        /\ service' = [service EXCEPT ![l].state = "pending", ![l].origin = starter.origin]
        /\ starter' = [starter EXCEPT !.pc = "saving", !.login = l]
    BY <1>2 DEF LoginCreated
  <2> DEFINE row == [service[l] EXCEPT !.state = "pending", !.origin = starter.origin]
  <2>1. row \in Issued
    BY <1>0 DEF Issued, Starters
  <2>2. service' \in [Logins -> Issued]
    <3>1. service' = [service EXCEPT ![l] = row]
      BY <1>0
    <3> QED
      BY <1>0, <2>1, <3>1
  <2>3. starter' \in Starters /\ starter'.pc = "saving" /\ starter'.login # NoLogin
    BY <1>0, SessionConstants DEF Starters
  <2>4. SessionTypeOK'
    BY <1>0, <1>2, <2>2, <2>3 DEF LoginCreated, SessionTypeOK, historyVars
  <2> QED
    BY <1>2, <2>3, <2>4 DEF LoginCreated, Shape
<1>3. CASE SaveLogin
  <2>1. local' \in Stored
    BY <1>0, <1>3 DEF SaveLogin, Stored, Starters
  <2>2. starter' \in Starters /\ starter'.pc = "opening" /\ starter'.login = starter.login
    BY <1>0, <1>3 DEF SaveLogin, Starters
  <2>3. crossed' \subseteq Logins
    BY <1>0, <1>3 DEF SaveLogin, Shape, SessionTypeOK, Starters
  <2>4. SessionTypeOK'
    BY <1>0, <1>3, <2>1, <2>2, <2>3 DEF SaveLogin, SessionTypeOK
  <2> QED
    BY <1>3, <2>2, <2>4 DEF SaveLogin, Shape
<1>4. CASE OpenApproval
  <2>0. starter.origin \in Origins \cup {NoOrigin}
    BY <1>0 DEF Starters
  <2>1. /\ [NoPoll EXCEPT !.pc = "reading", !.origin = starter.origin] \in Polls
        /\ [NoPoll EXCEPT !.pc = "reading", !.origin = starter.origin].pc = "reading"
        /\ [NoPoll EXCEPT !.pc = "reading", !.origin = starter.origin].login = NoLogin
    BY <2>0, SessionConstants DEF NoPoll, Polls
  <2>2. /\ poll' \in Polls /\ callers' \in [Callers -> Origins \cup {NoOrigin}]
        /\ poll' = poll \/ (poll'.pc = "reading" /\ poll'.login = NoLogin)
        /\ loop' \in Origins \cup {NoOrigin}
    <3>1. CASE loop = NoOrigin
      BY <1>0, <1>4, <2>0, <3>1, Joins DEF OpenApproval, Callers
    <3>2. CASE loop # NoOrigin
      BY <1>0, <1>4, <2>1, <3>2 DEF OpenApproval, SessionTypeOK
    <3> QED
      BY <3>1, <3>2
  <2>3. SessionTypeOK'
    BY <1>0, <1>4, <2>2, SessionConstants DEF OpenApproval, SessionTypeOK, historyVars
  <2> QED
    BY <1>4, <2>2, <2>3, ShapeKept DEF OpenApproval
<1>5. ASSUME NEW l \in Logins,
             \/ Deny(l) \/ DeadlinePasses(l) \/ Revoke(l)
             \/ \E p \in People : Approve(l, p)
      PROVE  Shape'
  <2>1. service' \in [Logins -> Issued]
    BY <1>0, <1>5, IssuerMoves DEF OnlyStates
  <2>2. disturbances' \in 0..MaxDisturbances
    BY <1>0, <1>5, DisturbCounts DEF Deny, DeadlinePasses, Revoke, Approve, SessionTypeOK
  <2>3. SessionTypeOK' /\ UNCHANGED <<poll, starter, switcher, remover>>
    BY <1>0, <1>5, <2>1, <2>2
       DEF Deny, DeadlinePasses, Revoke, Approve, SessionTypeOK, workerVars, historyVars
  <2> QED
    BY <2>3, ShapeKept
<1> QED
  BY <1>1, <1>2, <1>3, <1>4, <1>5 DEF LoginSteps

LEMMA AccountTypes ==
  ASSUME Shape,
         \/ \E origin \in Origins : SwitchService(origin)
         \/ SwitchSteps
         \/ Logout \/ LogoutReadsToken \/ LogoutRevokes
         \/ \E r \in Removers :
              RemoveLoads(r) \/ RemoveSaves(r) \/ RemoveChecks(r) \/ RemovePromotes(r)
         \/ RequestStarts \/ RequestSent \/ RequestAnswered
  PROVE  Shape'
<1>0. /\ local \in Stored /\ service \in [Logins -> Issued] /\ switcher \in Switches
      /\ remover \in [Removers -> Removals] /\ request \in Requests
      /\ local.accounts \in Tokens /\ local.origin \in Origins
      /\ local.active \in People \cup {Nobody} /\ local.pending \in Logins \cup {NoLogin}
      /\ "logout" \in Removers /\ "request" \in Removers /\ SessionTypeOK
      /\ disturbances \in 0..MaxDisturbances /\ mixed \in BOOLEAN
  BY DEF Shape, SessionTypeOK, Stored, Removers
<1>1. ASSUME NEW r \in Removers, NEW row \in Removals, Removal(r, row),
             row.pc # "off" => row.person \in People,
             local' \in Stored, service' \in [Logins -> Issued],
             disturbances' \in 0..MaxDisturbances, mixed' \in BOOLEAN, request' \in Requests,
             UNCHANGED <<worker, alarm, starter, poll, callers, loop, switcher, popup,
                         refused, kept, blipped, crossed>>
      PROVE  Shape'
  <2>1. /\ remover' \in [Removers -> Removals]
        /\ \A q \in Removers : remover'[q] = IF q = r THEN row ELSE remover[q]
    BY <1>0, <1>1 DEF Removal
  <2>2. SessionTypeOK'
    BY <1>0, <1>1, <2>1 DEF SessionTypeOK
  <2> QED
    BY <1>1, <2>1, <2>2 DEF Shape
<1>2. ASSUME NEW origin \in Origins, SwitchService(origin) PROVE Shape'
  <2>1. switcher' \in Switches /\ switcher'.origin \in Origins
    BY <1>2 DEF SwitchService, Switches
  <2>2. disturbances' \in 0..MaxDisturbances
    BY <1>0, <1>2, DisturbCounts DEF SwitchService
  <2>3. SessionTypeOK'
    BY <1>0, <1>2, <2>1, <2>2 DEF SwitchService, SessionTypeOK
  <2> QED
    BY <1>2, <2>1, <2>3 DEF SwitchService, Shape
<1>3. ASSUME NEW from, NEW to \in {"off", "active", "pending", "origin"},
             NEW stored \in Stored, SwitchStep(from, to, stored), switcher.pc # "off"
      PROVE  Shape'
  <2>1. /\ switcher' \in Switches
        /\ switcher'.pc # "off" => switcher'.origin = switcher.origin
    BY <1>0, <1>3, SessionConstants DEF SwitchStep, Switches, NoSwitch
  <2>2. SessionTypeOK'
    BY <1>0, <1>3, <2>1 DEF SwitchStep, SessionTypeOK, historyVars
  <2> QED
    BY <1>3, <2>1, <2>2 DEF SwitchStep, Shape, historyVars
<1>4. CASE SwitchSteps
  <2>0. switcher.pc # "off" => switcher.origin \in Origins
    BY DEF Shape
  <2>1. /\ [local EXCEPT !.accounts = [p \in People |-> NoLogin]] \in Stored
        /\ [local EXCEPT !.active = Nobody] \in Stored
        /\ [local EXCEPT !.pending = NoLogin] \in Stored
        /\ switcher.pc # "off" => [local EXCEPT !.origin = switcher.origin] \in Stored
    BY <1>0, <2>0, SessionConstants DEF Stored
  <2>2. switcher.pc # "off"
    BY <1>4 DEF SwitchSteps, SwitchStep
  <2> QED
    BY <1>3, <1>4, <2>1, <2>2 DEF SwitchSteps
<1>5. CASE Logout
  <2> DEFINE row == [NoRemoval EXCEPT !.pc = "token", !.person = local.active]
  <2>1. row \in Removals /\ row.person \in People
    BY <1>0, <1>5, SessionConstants DEF Logout, NoRemoval, Removals
  <2>2. disturbances' \in 0..MaxDisturbances /\ mixed' \in BOOLEAN
    BY <1>0, <1>5, DisturbCounts DEF Logout
  <2> QED
    BY <1>0, <1>1, <1>5, <2>1, <2>2 DEF Logout
<1>6. \A r \in Removers : /\ remover[r] \in Removals
                          /\ remover[r].pc # "off" => remover[r].person \in People
  BY <1>0 DEF Shape
<1>7. CASE LogoutReadsToken
  <2> DEFINE token == local.accounts[remover["logout"].person]
             pc == IF token = NoLogin THEN "loading" ELSE "revoking"
             row == [remover["logout"] EXCEPT !.token = token, !.pc = pc]
  <2>1. remover["logout"] \in Removals /\ remover["logout"].person \in People
    BY <1>0, <1>6, <1>7 DEF LogoutReadsToken
  <2>2. token \in Logins \cup {NoLogin}
    BY <1>0, <2>1 DEF Tokens
  <2>3. Removal("logout", row) /\ UNCHANGED <<local, service>> /\ OthersStay
    BY <1>7 DEF LogoutReadsToken
  <2>4. row \in Removals /\ row.person \in People
    <3>1. pc \in {"loading", "revoking"}
      OBVIOUS
    <3> HIDE DEF token, pc
    <3> QED
      BY <2>1, <2>2, <3>1 DEF Removals
  <2> HIDE DEF row
  <2> QED
    BY <1>0, <1>1, <2>3, <2>4 DEF OthersStay, historyVars
<1>8. CASE LogoutRevokes
  <2> DEFINE row == [remover["logout"] EXCEPT !.pc = "loading"]
  <2>1. row \in Removals /\ row.person \in People
    BY <1>0, <1>6, <1>8 DEF LogoutRevokes, Removals
  <2>2. service' \in [Logins -> Issued]
    BY <1>0, <1>8, Revokes DEF OnlyStates
  <2> QED
    BY <1>0, <1>1, <1>8, <2>1, <2>2 DEF LogoutRevokes, OthersStay, historyVars
<1>9. ASSUME NEW r \in Removers, RemoveLoads(r) PROVE Shape'
  <2> DEFINE left == [local.accounts EXCEPT ![remover[r].person] = NoLogin]
             row == [remover[r] EXCEPT !.pc = "saving", !.accounts = left]
  <2>1. left \in Tokens
    BY <1>0 DEF Tokens
  <2>2. row \in Removals /\ row.person \in People
    <3> HIDE DEF left
    <3> QED
      BY <1>6, <1>9, <2>1 DEF RemoveLoads, Removals
  <2>3. Removal(r, row) /\ UNCHANGED <<local, service>> /\ OthersStay
    BY <1>9 DEF RemoveLoads
  <2> HIDE DEF row
  <2> QED
    BY <1>0, <1>1, <2>2, <2>3 DEF OthersStay, historyVars
<1>10. ASSUME NEW r \in Removers, RemoveSaves(r) PROVE Shape'
  <2> DEFINE row == [remover[r] EXCEPT !.pc = "checking"]
  <2>1. row \in Removals /\ row.person \in People
    BY <1>6, <1>10 DEF RemoveSaves, Removals
  <2>2. local' \in Stored
    BY <1>0, <1>6, <1>10 DEF RemoveSaves, Stored, Removals
  <2> QED
    BY <1>0, <1>1, <1>10, <2>1, <2>2 DEF RemoveSaves, OthersStay, historyVars
<1>11. ASSUME NEW r \in Removers, RemoveChecks(r) PROVE Shape'
  <2> PICK row : /\ row \in {[remover[r] EXCEPT !.pc = "promoting"], NoRemoval}
                 /\ Removal(r, row)
    BY <1>11 DEF RemoveChecks
  <2>1. row \in Removals /\ (row.pc # "off" => row.person \in People)
    BY <1>6, <1>11, SessionConstants DEF RemoveChecks, Removals, NoRemoval
  <2> QED
    BY <1>0, <1>1, <1>11, <2>1 DEF RemoveChecks, OthersStay, historyVars
<1>12. ASSUME NEW r \in Removers, RemovePromotes(r) PROVE Shape'
  <2> PICK p \in People \cup {Nobody} : local' = [local EXCEPT !.active = p]
    BY <1>12 DEF RemovePromotes
  <2>1. local' \in Stored
    BY <1>0 DEF Stored
  <2> QED
    BY <1>0, <1>1, <1>12, <2>1, SessionConstants
       DEF RemovePromotes, OthersStay, historyVars, NoRemoval
<1>13. CASE RequestStarts
  <2>1. request' \in Requests
    BY <1>0, <1>13, SessionConstants DEF RequestStarts, NoRequest, Requests
  <2>2. disturbances' \in 0..MaxDisturbances
    BY <1>0, <1>13, DisturbCounts DEF RequestStarts
  <2>3. SessionTypeOK'
    BY <1>0, <1>13, <2>1, <2>2 DEF RequestStarts, SessionTypeOK, historyVars
  <2> QED
    BY <1>13, <2>3, ShapeKept DEF RequestStarts
<1>14. CASE RequestSent
  <2>1. ActiveToken \in Logins \cup {NoLogin}
    BY <1>0 DEF ActiveToken, Tokens
  <2>2. request' \in Requests
    BY <1>0, <1>14, <2>1, SessionConstants DEF RequestSent, Requests
  <2>3. SessionTypeOK'
    BY <1>0, <1>14, <2>2 DEF RequestSent, SessionTypeOK, historyVars
  <2> QED
    BY <1>14, <2>3, ShapeKept DEF RequestSent
<1>15. CASE RequestAnswered
  <2>1. /\ request' \in Requests /\ UNCHANGED <<local, service, disturbances, worker, alarm,
             starter, poll, callers, loop, switcher, popup, refused, kept, blipped,
            crossed>>
    BY <1>15, SessionConstants DEF RequestAnswered
  <2>2. CASE UNCHANGED <<remover, mixed>>
    <3>1. SessionTypeOK'
      BY <1>0, <2>1, <2>2 DEF SessionTypeOK
    <3> QED
      BY <2>1, <2>2, <3>1, ShapeKept
  <2>3. ASSUME NEW p \in People,
               Removal("request", [NoRemoval EXCEPT !.pc = "loading", !.person = p]),
               mixed' = (mixed \/ switcher.pc # "off")
        PROVE  Shape'
    <3> DEFINE row == [NoRemoval EXCEPT !.pc = "loading", !.person = p]
    <3>1. row \in Removals /\ row.person \in People
      BY SessionConstants DEF NoRemoval, Removals
    <3> QED
      BY <1>0, <1>1, <2>1, <2>3, <3>1
  <2> QED
    BY <1>15, <2>2, <2>3 DEF RequestAnswered
<1> QED
  BY <1>2, <1>4, <1>5, <1>7, <1>8, <1>9, <1>10, <1>11, <1>12, <1>13, <1>14, <1>15

LEMMA ShapeStep ==
  ASSUME Shape, SessionNext
  PROVE  Shape'
BY PollTypes, CallerTypes, LoginTypes, AccountTypes DEF SessionNext

-----------------------------------------------------------------------------
(* A session that is stored is never refused *)

\* A login whose token is stored, or that was refused, is pending no more and is
\* asked about no more; one that is stored next is forgotten already; one that
\* the service has just made is known to its starter only.
LoginOK(l) ==
  /\ l \in kept \cup refused =>
       l # local.pending /\ (l = poll.login => poll.pc = "activating")
  /\ l = poll.login /\ poll.pc \in {"loading", "saving", "activating"} =>
       l # local.pending
  /\ l = starter.login /\ starter.pc = "saving" =>
       l \notin kept \cup refused \cup {local.pending, poll.login}
  /\ service[l].state = "unused" =>
       l \notin kept \cup refused \cup {local.pending, poll.login, starter.login}
  /\ l \notin kept \cap refused

StoredInv == \A l \in Logins : LoginOK(l)

LEMMA StoredInitially == SessionInit => StoredInv
BY SessionConstants DEF SessionInit, StoredInv, LoginOK, NoPoll, NoStarter

LEMMA StoredQuiet ==
  ASSUME Shape, StoredInv, OnlyStates, UNCHANGED <<kept, refused>>,
         local'.pending \in {local.pending, NoLogin},
         poll' = poll \/ poll'.login = NoLogin,
         starter' = starter \/ starter'.login = NoLogin
  PROVE  StoredInv'
<1> SUFFICES ASSUME NEW l \in Logins PROVE LoginOK(l)'
  BY DEF StoredInv
<1>1. LoginOK(l) /\ l # NoLogin
  BY SessionConstants DEF StoredInv
<1>2. service'[l].state = "unused" => service[l].state = "unused"
  BY DEF OnlyStates
<1>3. l = local'.pending => l = local.pending
  BY <1>1
<1>4. l = poll'.login => l = poll.login /\ poll' = poll
  BY <1>1
<1>5. l = starter'.login => l = starter.login /\ starter' = starter
  BY <1>1
<1> QED
  BY <1>1, <1>2, <1>3, <1>4, <1>5 DEF LoginOK

LEMMA Untouched ==
  ASSUME Shape, UNCHANGED service
  PROVE  OnlyStates
BY DEF Shape, SessionTypeOK, OnlyStates

LEMMA StoredByPoll ==
  ASSUME Shape, StoredInv, PollSteps \/ PollFails
  PROVE  StoredInv'
<1>0. /\ poll \in Polls /\ local \in Stored /\ service \in [Logins -> Issued]
      /\ SessionTypeOK /\ NoLogin \notin Logins
      /\ poll.pc \notin {"off", "reading"} => poll.login \in Logins
  BY SessionConstants DEF Shape, SessionTypeOK, Polls
<1>1. ASSUME NEW result, Settle(result), result \notin {"denied", "expired"}
      PROVE  poll'.login = NoLogin /\ refused' = refused
  BY <1>0, <1>1, Settles
<1>2. CASE ReadPending
  <2>1. CASE Settle("idle")
    BY <1>1, <1>2, <2>1, Untouched, StoredQuiet DEF ReadPending
  <2>2. CASE /\ local.pending # NoLogin
             /\ poll' = IF service[local.pending].late
                        THEN [poll EXCEPT !.pc = "clearing", !.login = local.pending,
                                          !.result = "expired"]
                        ELSE [poll EXCEPT !.pc = "asking", !.login = local.pending]
             /\ UNCHANGED refused
    <3>1. poll'.pc \in {"asking", "clearing"} /\ poll'.login = local.pending
      BY <1>0, <2>2 DEF Polls
    <3>2. UNCHANGED <<local, service, starter, kept, refused>>
      BY <1>2, <2>2 DEF ReadPending
    <3> QED
      BY <3>1, <3>2 DEF StoredInv, LoginOK
  <2> QED
    BY <1>2, <2>1, <2>2 DEF ReadPending
<1>3. CASE HearVerdict
  <2>1. OnlyStates /\ UNCHANGED <<local, starter, kept>>
    BY <1>0, <1>3, Collects DEF HearVerdict
  <2>2. CASE Settle("pending")
    BY <1>1, <2>1, <2>2, StoredQuiet
  <2>3. CASE /\ poll' = [poll EXCEPT !.pc = "clearing",
                                     !.result = Verdict(poll.login, poll.origin)]
             /\ UNCHANGED refused
    <3>1. poll'.pc = "clearing" /\ poll'.login = poll.login /\ poll.pc = "asking"
      BY <1>0, <1>3, <2>3 DEF HearVerdict, Polls
    <3> SUFFICES ASSUME NEW l \in Logins PROVE LoginOK(l)'
      BY DEF StoredInv
    <3>2. LoginOK(l) /\ (service'[l].state = "unused" => service[l].state = "unused")
      BY <2>1 DEF StoredInv, OnlyStates
    <3> QED
      BY <2>1, <2>3, <3>1, <3>2 DEF LoginOK
  <2> QED
    BY <1>3, <2>2, <2>3 DEF HearVerdict
<1>4. CASE PollFails
  <2>1. OnlyStates /\ UNCHANGED <<local, starter, kept>>
    BY <1>0, <1>4, Collects, Untouched DEF PollFails
  <2>2. Settle("error") \/ Settle("pending")
    BY <1>4 DEF PollFails
  <2> QED
    BY <1>1, <2>1, <2>2, StoredQuiet
<1>5. CASE ClearPending
  <2>1. local'.pending = NoLogin /\ UNCHANGED <<service, starter, kept>>
    BY <1>0, <1>5 DEF ClearPending, Forgotten, Stored
  <2>2. CASE poll.result = "approved" /\ poll' = [poll EXCEPT !.pc = "loading"]
             /\ UNCHANGED refused
    <3>1. poll'.pc = "loading" /\ poll'.login = poll.login /\ poll.pc = "clearing"
      BY <1>0, <1>5, <2>2 DEF ClearPending, Polls
    <3> QED
      BY <1>0, <2>1, <2>2, <3>1 DEF StoredInv, LoginOK
  <2>3. CASE Settle(poll.result)
    <3>1. poll.login \in Logins /\ poll.pc = "clearing"
      BY <1>0, <1>5 DEF ClearPending
    <3>2. poll'.login = NoLogin /\ refused' \subseteq refused \cup {poll.login}
      BY <1>0, <2>3, <3>1, Settles
    <3> QED
      BY <1>0, <2>1, <3>1, <3>2 DEF StoredInv, LoginOK
  <2> QED
    BY <1>5, <2>2, <2>3 DEF ClearPending
<1>6. CASE LoadAccounts
  <2>1. /\ poll'.pc = "saving" /\ poll'.login = poll.login /\ poll.pc = "loading"
        /\ UNCHANGED <<local, service, starter, kept, refused>>
    BY <1>0, <1>6 DEF LoadAccounts, Polls, historyVars
  <2> QED
    BY <2>1 DEF StoredInv, LoginOK
<1>7. CASE SaveAccounts
  <2>1. /\ poll'.pc = "activating" /\ poll'.login = poll.login /\ poll.pc = "saving"
        /\ local'.pending = local.pending /\ kept' = kept \cup {poll.login}
        /\ UNCHANGED <<service, starter, refused>>
    BY <1>0, <1>7 DEF SaveAccounts, Polls, Stored
  <2> QED
    BY <2>1 DEF StoredInv, LoginOK
<1>8. CASE Activate
  <2>1. /\ local'.pending = local.pending /\ poll'.login = NoLogin
        /\ UNCHANGED <<service, starter, kept, refused>>
    BY <1>0, <1>1, <1>8 DEF Activate, Stored
  <2> QED
    BY <2>1, Untouched, StoredQuiet
<1> QED
  BY <1>2, <1>3, <1>4, <1>5, <1>6, <1>7, <1>8 DEF PollSteps

LEMMA StoredByOthers ==
  ASSUME Shape, StoredInv, SessionNext, ~(PollSteps \/ PollFails)
  PROVE  StoredInv'
<1>0. /\ local \in Stored /\ service \in [Logins -> Issued] /\ starter \in Starters
      /\ SessionTypeOK /\ NoLogin \notin Logins
      /\ starter.pc \in {"off", "creating"} => starter.login = NoLogin
  BY SessionConstants DEF Shape, SessionTypeOK
<1>1. ASSUME NEW who \in Callers, NEW origin \in Origins \cup {NoOrigin}, Join(who, origin)
      PROVE  poll' = poll \/ poll'.login = NoLogin
  BY <1>0, <1>1, Joins
<1>2. local.origin \in Origins /\ loop \in Origins \cup {NoOrigin}
      /\ starter.origin \in Origins \cup {NoOrigin}
  BY <1>0 DEF SessionTypeOK, Stored, Starters
<1>3. CASE LoopPolls \/ AlarmPolls \/ WorkerStarts \/ PopupPolls
  <2>1. poll' = poll \/ poll'.login = NoLogin
    BY <1>1, <1>2, <1>3 DEF LoopPolls, AlarmPolls, WorkerStarts, PopupPolls, Callers
  <2>2. UNCHANGED <<local, service, starter, kept, refused>>
    BY <1>3 DEF LoopPolls, AlarmPolls, WorkerStarts, PopupPolls, historyVars
  <2> QED
    BY <2>1, <2>2, Untouched, StoredQuiet
<1>4. CASE Evict \/ ClosePopup
  <2>1. /\ poll' = poll \/ poll'.login = NoLogin
        /\ starter' = starter \/ starter'.login = NoLogin
        /\ UNCHANGED <<local, service, kept, refused>>
    BY <1>4 DEF Evict, ClosePopup, NoPoll, NoStarter, historyVars
  <2> QED
    BY <2>1, Untouched, StoredQuiet
<1>5. CASE StartLogin
  <2>1. starter'.login = NoLogin /\ UNCHANGED <<local, service, poll, kept, refused>>
    BY <1>5 DEF StartLogin, NoStarter
  <2> QED
    BY <2>1, Untouched, StoredQuiet
<1>6. CASE LoginCreated
  <2> PICK l \in Logins :
        /\ service[l].state = "unused"
        /\ service' = [service EXCEPT ![l].state = "pending", ![l].origin = starter.origin]
        /\ starter' = [starter EXCEPT !.pc = "saving", !.login = l]
    BY <1>6 DEF LoginCreated
  <2>1. /\ starter'.pc = "saving" /\ starter'.login = l /\ starter.login = NoLogin
        /\ UNCHANGED <<local, poll, kept, refused>>
    BY <1>0, <1>6 DEF LoginCreated, Starters, historyVars
  <2>2. /\ service'[l].state = "pending"
        /\ \A m \in Logins \ {l} : service'[m] = service[m]
    BY <1>0 DEF Issued
  <2> QED
    BY <1>0, <2>1, <2>2 DEF StoredInv, LoginOK
<1>7. CASE SaveLogin
  <2>1. /\ starter.pc = "saving" /\ starter'.pc = "opening" /\ starter'.login = starter.login
        /\ local'.pending = starter.login /\ UNCHANGED <<service, poll, kept, refused>>
    BY <1>0, <1>7 DEF SaveLogin, Starters, Stored, historyVars
  <2> QED
    BY <2>1 DEF StoredInv, LoginOK
<1>8. CASE OpenApproval
  <2>1. poll' = poll \/ poll'.login = NoLogin
    <3>1. [NoPoll EXCEPT !.pc = "reading", !.origin = starter.origin].login = NoLogin
      BY DEF NoPoll
    <3>2. CASE loop = NoOrigin
      BY <1>1, <1>2, <1>8, <3>2 DEF OpenApproval, Callers
    <3>3. CASE loop # NoOrigin
      BY <1>8, <3>1, <3>3 DEF OpenApproval
    <3> QED
      BY <3>2, <3>3
  <2>2. starter'.login = NoLogin /\ UNCHANGED <<local, service, kept, refused>>
    BY <1>8 DEF OpenApproval, NoStarter, historyVars
  <2> QED
    BY <2>1, <2>2, Untouched, StoredQuiet
<1>9. ASSUME NEW l \in Logins,
             \/ Deny(l) \/ DeadlinePasses(l) \/ Revoke(l)
             \/ \E p \in People : Approve(l, p)
      PROVE  StoredInv'
  <2>1. OnlyStates
    BY <1>0, <1>9, IssuerMoves
  <2>2. UNCHANGED <<local, poll, starter, kept, refused>>
    BY <1>9 DEF Deny, DeadlinePasses, Revoke, Approve, workerVars, historyVars
  <2> QED
    BY <2>1, <2>2, StoredQuiet
<1>10. CASE \E origin \in Origins : SwitchService(origin)
  BY <1>10, Untouched, StoredQuiet DEF SwitchService
<1>11. CASE SwitchSteps
  <2>1. local'.pending \in {local.pending, NoLogin}
    BY <1>0, <1>11 DEF SwitchSteps, SwitchStep, Stored
  <2>2. UNCHANGED <<service, poll, starter, kept, refused>>
    BY <1>11 DEF SwitchSteps, SwitchStep, historyVars
  <2> QED
    BY <2>1, <2>2, Untouched, StoredQuiet
<1>12. CASE Logout \/ LogoutReadsToken \/ RequestStarts \/ RequestSent \/ RequestAnswered
  <2>1. UNCHANGED <<local, service, poll, starter, kept, refused>>
    BY <1>12 DEF Logout, LogoutReadsToken, RequestStarts, RequestSent, RequestAnswered,
                 OthersStay, historyVars
  <2> QED
    BY <2>1, Untouched, StoredQuiet
<1>13. CASE LogoutRevokes
  <2>1. OnlyStates
    BY <1>0, <1>13, Revokes
  <2> QED
    BY <1>13, <2>1, StoredQuiet DEF LogoutRevokes, OthersStay, historyVars
<1>14. ASSUME NEW r \in Removers,
              RemoveLoads(r) \/ RemoveSaves(r) \/ RemoveChecks(r) \/ RemovePromotes(r)
       PROVE  StoredInv'
  <2>1. local'.pending = local.pending
    BY <1>0, <1>14 DEF RemoveLoads, RemoveSaves, RemoveChecks, RemovePromotes, Stored
  <2>2. UNCHANGED <<service, poll, starter, kept, refused>>
    BY <1>14 DEF RemoveLoads, RemoveSaves, RemoveChecks, RemovePromotes, OthersStay,
                 historyVars
  <2> QED
    BY <2>1, <2>2, Untouched, StoredQuiet
<1> QED
  BY <1>3, <1>4, <1>5, <1>6, <1>7, <1>8, <1>9, <1>10, <1>11, <1>12, <1>13, <1>14
     DEF SessionNext, LoginSteps

LEMMA ShapeInitially == SessionInit => Shape
BY SessionTypesInitially
   DEF Shape, SessionInit, NoPoll, NoStarter, NoSwitch, NoRemoval

LEMMA ShapeStutters == Shape /\ UNCHANGED sessionVars => Shape'
BY DEF Shape, SessionTypeOK, sessionVars, workerVars, historyVars

\* A sign-in whose session was stored is never reported as denied or expired
\* (login.ts, background.ts).
THEOREM SessionInvHolds == SessionSpec => []SessionInv
<1>1. Shape /\ StoredInv /\ SessionNext => StoredInv'
  BY StoredByPoll, StoredByOthers
<1>2. Shape /\ StoredInv /\ UNCHANGED sessionVars => StoredInv'
  BY DEF StoredInv, LoginOK, sessionVars, workerVars, historyVars
<1>3. Shape /\ StoredInv => SessionInv
  <2>1. Shape /\ StoredInv => StoredNotRefused
    BY DEF StoredInv, LoginOK, StoredNotRefused, Shape, SessionTypeOK
  <2> QED
    BY <2>1 DEF SessionInv, Shape
<1> QED
  BY ShapeInitially, ShapeStep, ShapeStutters, StoredInitially, <1>1, <1>2, <1>3, PTL
     DEF SessionSpec

-----------------------------------------------------------------------------
(* Each login is a one-time grant *)

\* One login's move, as the service may make it: started, approved in time by a
\* person, denied, handed over, revoked, or past its deadline.
Legal(old, row) ==
  \/ /\ row.late = old.late /\ row.person = old.person
     /\ <<old.state, row.state>> \in
          {<<"unused", "pending">>, <<"pending", "denied">>, <<"approved", "consumed">>,
           <<"consumed", "revoked">>, <<"revoked", "revoked">>}
  \/ /\ old.state = "pending" /\ ~old.late /\ row.state = "approved"
     /\ row.late = old.late /\ row.person \in People
  \/ /\ old.state \in {"pending", "approved"} /\ row.state = old.state
     /\ row.late /\ row.person = old.person

OneMoves ==
  \E l \in Logins, row \in Issued :
    service' = [service EXCEPT ![l] = row] /\ Legal(service[l], row)

\* The logins whose token the service has handed over.
Known == {l \in Logins : service[l].state \in {"consumed", "revoked"}} \cup {NoLogin}
KnownTokens == [People -> Known]

\* Every token the extension stores or carries has been handed over, and no
\* deadline passes before its login exists.
LocalKnown == local.accounts \in KnownTokens
PollKnown ==
  /\ poll.accounts \in KnownTokens
  /\ poll.result = "approved" => poll.login \in Known
  /\ poll.pc \in {"off", "reading", "asking"} => poll.result = "none"
  /\ poll.pc = "loading" => poll.result = "approved"
RemoverKnown ==
  /\ \A r \in Removers : remover[r].accounts \in KnownTokens /\ remover[r].token \in Known
  /\ remover["logout"].pc = "revoking" => remover["logout"].token # NoLogin
RequestKnown == request.token \in Known
UnusedOnTime == \A l \in Logins : service[l].state = "unused" => ~service[l].late

GrantInv == LocalKnown /\ PollKnown /\ RemoverKnown /\ RequestKnown /\ UnusedOnTime

LEMMA GrantInitially == SessionInit => GrantInv
<1> SUFFICES ASSUME SessionInit PROVE GrantInv
  OBVIOUS
<1>1. [p \in People |-> NoLogin] \in KnownTokens /\ NoLogin \in Known
  BY DEF Known, KnownTokens
<1>2. LocalKnown /\ RequestKnown /\ UnusedOnTime
  BY <1>1 DEF SessionInit, LocalKnown, RequestKnown, UnusedOnTime, NoRequest
<1>3. PollKnown /\ RemoverKnown
  BY <1>1 DEF SessionInit, PollKnown, RemoverKnown, NoPoll, NoRemoval, Removers
<1> QED
  BY <1>2, <1>3 DEF GrantInv

LEMMA KnownGrows ==
  ASSUME service \in [Logins -> Issued], UnusedOnTime,
         UNCHANGED service \/ OneMoves
  PROVE  Known \subseteq Known' /\ UnusedOnTime'
<1>1. ASSUME NEW l \in Logins, NEW row \in Issued,
             service' = [service EXCEPT ![l] = row], Legal(service[l], row)
      PROVE  Known \subseteq Known' /\ UnusedOnTime'
  <2>1. /\ service'[l] = row /\ \A m \in Logins \ {l} : service'[m] = service[m]
    BY <1>1
  <2>2. /\ row.state # "unused"
        /\ service[l].state \in {"consumed", "revoked"} =>
             row.state \in {"consumed", "revoked"}
    BY <1>1 DEF Legal
  <2> QED
    BY <2>1, <2>2 DEF Known, UnusedOnTime
<1>2. CASE UNCHANGED service
  BY <1>2 DEF Known, UnusedOnTime
<1> QED
  BY <1>1, <1>2 DEF OneMoves

\* What an extension that takes nothing up still knows.
LEMMA KnownStays ==
  ASSUME GrantInv, Known \subseteq Known'
  PROVE  /\ local'.accounts = local.accounts => LocalKnown'
         /\ poll' = poll => PollKnown'
         /\ remover' = remover => RemoverKnown'
         /\ request' = request => RequestKnown'
<1>1. KnownTokens \subseteq KnownTokens'
  BY DEF KnownTokens
<1> QED
  BY <1>1 DEF GrantInv, LocalKnown, PollKnown, RemoverKnown, RequestKnown

LEMMA CollectsLegally ==
  ASSUME service \in [Logins -> Issued], NEW l \in Logins, NEW origin, Collect(l, origin)
  PROVE  /\ UNCHANGED service \/ OneMoves
         /\ Verdict(l, origin) = "approved" => service'[l].state = "consumed"
<1>0. service[l] \in Issued
  OBVIOUS
<1>1. CASE Verdict(l, origin) = "approved"
  <2> DEFINE row == [service[l] EXCEPT !.state = "consumed"]
  <2>1. service[l].state = "approved"
    BY <1>1 DEF Verdict
  <2>2. row \in Issued /\ Legal(service[l], row) /\ row.state = "consumed"
    BY <1>0, <2>1 DEF Issued, Legal
  <2>3. service' = [service EXCEPT ![l] = row]
    BY <1>1 DEF Collect
  <2> HIDE DEF row
  <2> QED
    BY <2>2, <2>3 DEF OneMoves
<1>2. CASE Verdict(l, origin) # "approved"
  BY <1>2 DEF Collect
<1> QED
  BY <1>1, <1>2

LEMMA IssuerLegally ==
  ASSUME service \in [Logins -> Issued], NEW l \in Logins,
         \/ Deny(l) \/ DeadlinePasses(l) \/ Revoke(l) \/ \E p \in People : Approve(l, p)
  PROVE  OneMoves
<1>0. service[l] \in Issued
  OBVIOUS
<1>1. CASE Deny(l)
  <2> DEFINE row == [service[l] EXCEPT !.state = "denied"]
  <2>1. row \in Issued /\ Legal(service[l], row)
    BY <1>0, <1>1 DEF Issued, Legal, Deny
  <2> QED
    BY <1>1, <2>1 DEF OneMoves, Deny
<1>2. CASE DeadlinePasses(l)
  <2> DEFINE row == [service[l] EXCEPT !.late = TRUE]
  <2>1. row \in Issued /\ Legal(service[l], row)
    BY <1>0, <1>2 DEF Issued, Legal, DeadlinePasses
  <2> QED
    BY <1>2, <2>1 DEF OneMoves, DeadlinePasses
<1>3. CASE Revoke(l)
  <2> DEFINE row == [service[l] EXCEPT !.state = "revoked"]
  <2>1. row \in Issued /\ Legal(service[l], row)
    BY <1>0, <1>3 DEF Issued, Legal, Revoke
  <2> QED
    BY <1>3, <2>1 DEF OneMoves, Revoke
<1>4. ASSUME NEW p \in People, Approve(l, p) PROVE OneMoves
  <2> DEFINE row == [service[l] EXCEPT !.state = "approved", !.person = p]
  <2>1. row \in Issued /\ Legal(service[l], row)
    BY <1>0, <1>4 DEF Issued, Legal, Approve
  <2>2. service' = [service EXCEPT ![l] = row]
    BY <1>0, <1>4 DEF Approve
  <2> QED
    BY <2>1, <2>2 DEF OneMoves
<1> QED
  BY <1>1, <1>2, <1>3, <1>4

LEMMA CreatesLegally ==
  ASSUME service \in [Logins -> Issued], starter \in Starters, LoginCreated
  PROVE  OneMoves
<1> PICK l \in Logins :
      /\ service[l].state = "unused"
      /\ service' = [service EXCEPT ![l].state = "pending", ![l].origin = starter.origin]
  BY DEF LoginCreated
<1> DEFINE row == [service[l] EXCEPT !.state = "pending", !.origin = starter.origin]
<1>0. service[l] \in Issued /\ starter.origin \in Origins \cup {NoOrigin}
  BY DEF Starters
<1>1. row \in Issued /\ Legal(service[l], row)
  BY <1>0 DEF Issued, Legal
<1>2. service' = [service EXCEPT ![l] = row]
  BY <1>0
<1> QED
  BY <1>1, <1>2 DEF OneMoves

\* The token a sign-out revokes is one the service has handed over.
LEMMA RevokesLegally ==
  ASSUME service \in [Logins -> Issued], RemoverKnown, LogoutRevokes
  PROVE  UNCHANGED service \/ OneMoves
<1> DEFINE token == remover["logout"].token
<1>1. token \in Known \ {NoLogin}
  BY DEF RemoverKnown, LogoutRevokes, Removers
<1>2. \/ service' = service
      \/ service' = [service EXCEPT ![token].state = "revoked"]
  BY DEF LogoutRevokes
<1> HIDE DEF token
<1>3. token \in Logins /\ service[token].state \in {"consumed", "revoked"}
      /\ service[token] \in Issued
  BY <1>1 DEF Known
<1> DEFINE row == [service[token] EXCEPT !.state = "revoked"]
<1>4. row \in Issued /\ Legal(service[token], row)
  BY <1>3 DEF Issued, Legal
<1>5. service' = service \/ service' = [service EXCEPT ![token] = row]
  BY <1>2
<1> QED
  BY <1>3, <1>4, <1>5 DEF OneMoves

LEMMA ServiceMoves ==
  ASSUME Shape, GrantInv, SessionNext
  PROVE  UNCHANGED service \/ OneMoves
<1>0. /\ service \in [Logins -> Issued] /\ poll \in Polls /\ starter \in Starters
      /\ poll.pc = "asking" => poll.login \in Logins
  BY SessionConstants DEF Shape, SessionTypeOK, Polls
<1>1. CASE HearVerdict \/ PollFails
  BY <1>0, <1>1, CollectsLegally DEF HearVerdict, PollFails
<1>2. CASE LoginCreated
  BY <1>0, <1>2, CreatesLegally
<1>3. ASSUME NEW l \in Logins,
             \/ Deny(l) \/ DeadlinePasses(l) \/ Revoke(l)
             \/ \E p \in People : Approve(l, p)
      PROVE  OneMoves
  BY <1>0, <1>3, IssuerLegally
<1>4. CASE LogoutRevokes
  BY <1>0, <1>4, RevokesLegally DEF GrantInv
<1>5. CASE \/ ReadPending \/ ClearPending \/ LoadAccounts \/ SaveAccounts \/ Activate
           \/ LoopPolls \/ AlarmPolls \/ WorkerStarts \/ Evict \/ PopupPolls \/ ClosePopup
           \/ StartLogin \/ SaveLogin \/ OpenApproval
           \/ \E origin \in Origins : SwitchService(origin)
  BY <1>5 DEF ReadPending, ClearPending, LoadAccounts, SaveAccounts, Activate, LoopPolls,
              AlarmPolls, WorkerStarts, Evict, PopupPolls, ClosePopup, StartLogin,
              SaveLogin, OpenApproval, SwitchService
<1>6. CASE \/ SwitchSteps \/ Logout \/ LogoutReadsToken
           \/ RequestStarts \/ RequestSent \/ RequestAnswered
           \/ \E r \in Removers :
                RemoveLoads(r) \/ RemoveSaves(r) \/ RemoveChecks(r) \/ RemovePromotes(r)
  BY <1>6 DEF SwitchSteps, SwitchStep, Logout, LogoutReadsToken, RequestStarts,
              RequestSent, RequestAnswered, RemoveLoads, RemoveSaves, RemoveChecks,
              RemovePromotes
<1> QED
  BY <1>1, <1>2, <1>3, <1>4, <1>5, <1>6 DEF SessionNext, PollSteps, LoginSteps

\* A poll that settles, or one that starts, carries nothing.
LEMMA PollEmpty ==
  ASSUME poll'.accounts = [p \in People |-> NoLogin], poll'.result = "none",
         poll'.pc # "loading"
  PROVE  PollKnown'
BY DEF PollKnown, KnownTokens, Known

LEMMA SettlesEmpty ==
  ASSUME NEW result, Settle(result)
  PROVE  PollKnown'
<1>1. ASSUME NEW origin, poll' = [NoPoll EXCEPT !.pc = "reading", !.origin = origin]
      PROVE  PollKnown'
  BY <1>1, PollEmpty DEF NoPoll
<1>2. CASE poll' = NoPoll
  BY <1>2, PollEmpty DEF NoPoll
<1> QED
  BY <1>1, <1>2 DEF Settle

LEMMA JoinsEmpty ==
  ASSUME NEW who, NEW origin, Join(who, origin)
  PROVE  poll' = poll \/ PollKnown'
<1>1. \/ poll' = [NoPoll EXCEPT !.pc = "reading", !.origin = origin]
      \/ poll' = poll
  BY DEF Join
<1> QED
  BY <1>1, PollEmpty DEF NoPoll

LEMMA KnownByPoll ==
  ASSUME Shape, GrantInv, PollSteps \/ PollFails, Known \subseteq Known', UnusedOnTime'
  PROVE  GrantInv'
<1>0. /\ poll \in Polls /\ local \in Stored /\ service \in [Logins -> Issued]
      /\ poll.pc \notin {"off", "reading"} => poll.login \in Logins
      /\ local.accounts \in KnownTokens /\ PollKnown
  BY SessionConstants
     DEF Shape, SessionTypeOK, Polls, GrantInv, LocalKnown
<1>1. UNCHANGED <<remover, request>>
  BY DEF PollSteps, PollFails, ReadPending, HearVerdict, ClearPending, LoadAccounts,
         SaveAccounts, Activate
<1>2. ASSUME LocalKnown', PollKnown' PROVE GrantInv'
  BY <1>1, <1>2, KnownStays DEF GrantInv
<1>3. KnownTokens \subseteq KnownTokens'
  BY DEF KnownTokens
<1>4. ASSUME local'.accounts = local.accounts PROVE LocalKnown'
  BY <1>4, KnownStays
<1>5. CASE ReadPending
  <2>1. local' = local /\ poll.pc = "reading"
    BY <1>5 DEF ReadPending
  <2>2. CASE Settle("idle")
    BY <1>2, <1>4, <2>1, <2>2, SettlesEmpty
  <2>3. CASE poll' = IF service[local.pending].late
                     THEN [poll EXCEPT !.pc = "clearing", !.login = local.pending,
                                       !.result = "expired"]
                     ELSE [poll EXCEPT !.pc = "asking", !.login = local.pending]
    <3>1. /\ poll'.accounts = poll.accounts /\ poll'.result # "approved"
          /\ \/ poll'.pc = "clearing"
             \/ poll'.pc = "asking" /\ poll'.result = "none"
      BY <1>0, <2>1, <2>3 DEF Polls, PollKnown
    <3> QED
      BY <1>0, <1>2, <1>3, <1>4, <2>1, <3>1 DEF PollKnown
  <2> QED
    BY <1>5, <2>2, <2>3 DEF ReadPending
<1>6. CASE HearVerdict
  <2>1. local' = local /\ poll.pc = "asking" /\ Collect(poll.login, poll.origin)
    BY <1>6 DEF HearVerdict
  <2>2. CASE Settle("pending")
    BY <1>2, <1>4, <2>1, <2>2, SettlesEmpty
  <2>3. CASE poll' = [poll EXCEPT !.pc = "clearing",
                                  !.result = Verdict(poll.login, poll.origin)]
    <3>1. /\ poll'.accounts = poll.accounts /\ poll'.pc = "clearing"
          /\ poll'.login = poll.login /\ poll'.result = Verdict(poll.login, poll.origin)
      BY <1>0, <2>3 DEF Polls
    <3>2. poll'.result = "approved" => service'[poll.login].state = "consumed"
      BY <1>0, <2>1, <3>1, CollectsLegally
    <3>3. poll'.result = "approved" => poll'.login \in Known'
      BY <1>0, <2>1, <3>1, <3>2 DEF Known
    <3> QED
      BY <1>0, <1>2, <1>3, <1>4, <2>1, <3>1, <3>3 DEF PollKnown
  <2> QED
    BY <1>6, <2>2, <2>3 DEF HearVerdict
<1>7. CASE PollFails
  <2>1. local' = local /\ (Settle("error") \/ Settle("pending"))
    BY <1>7 DEF PollFails
  <2> QED
    BY <1>2, <1>4, <2>1, SettlesEmpty
<1>8. CASE ClearPending
  <2>1. local'.accounts = local.accounts /\ poll.pc = "clearing"
    BY <1>0, <1>8 DEF ClearPending, Forgotten, Stored
  <2>2. CASE Settle(poll.result)
    BY <1>2, <1>4, <2>1, <2>2, SettlesEmpty
  <2>3. CASE poll.result = "approved" /\ poll' = [poll EXCEPT !.pc = "loading"]
    <3>1. /\ poll'.pc = "loading" /\ poll'.result = "approved"
          /\ poll'.login = poll.login /\ poll'.accounts = poll.accounts
      BY <1>0, <2>3 DEF Polls
    <3> QED
      BY <1>0, <1>2, <1>3, <1>4, <2>1, <2>3, <3>1 DEF PollKnown
  <2> QED
    BY <1>8, <2>2, <2>3 DEF ClearPending
<1>9. CASE LoadAccounts
  <2> DEFINE accounts == [local.accounts EXCEPT ![service[poll.login].person] = poll.login]
  <2>1. /\ poll.pc = "loading" /\ poll'.pc = "saving" /\ poll'.login = poll.login
        /\ poll'.result = poll.result /\ poll'.accounts = accounts /\ local' = local
    BY <1>0, <1>9 DEF LoadAccounts, Polls
  <2>2. poll.login \in Known
    BY <1>0, <2>1 DEF PollKnown
  <2>3. accounts \in KnownTokens
    BY <1>0, <2>2 DEF KnownTokens
  <2> HIDE DEF accounts
  <2> QED
    BY <1>2, <1>3, <1>4, <2>1, <2>2, <2>3 DEF PollKnown
<1>10. CASE SaveAccounts
  <2>1. /\ poll.pc = "saving" /\ poll'.pc = "activating" /\ poll'.login = poll.login
        /\ poll'.result = poll.result /\ poll'.accounts = poll.accounts
        /\ local'.accounts = poll.accounts
    BY <1>0, <1>10 DEF SaveAccounts, Polls, Stored
  <2> QED
    BY <1>0, <1>2, <1>3, <2>1 DEF PollKnown, LocalKnown
<1>11. CASE Activate
  <2>1. local'.accounts = local.accounts
    BY <1>0, <1>11 DEF Activate, Stored
  <2> QED
    BY <1>2, <1>4, <1>11, <2>1, SettlesEmpty DEF Activate
<1> QED
  BY <1>5, <1>6, <1>7, <1>8, <1>9, <1>10, <1>11 DEF PollSteps

LEMMA KnownByLogin ==
  ASSUME Shape, GrantInv, Known \subseteq Known', UnusedOnTime',
         \/ LoopPolls \/ AlarmPolls \/ WorkerStarts \/ Evict \/ PopupPolls \/ ClosePopup
         \/ StartLogin \/ LoginSteps \/ SwitchSteps
         \/ \E origin \in Origins : SwitchService(origin)
         \/ \E l \in Logins : \/ Deny(l) \/ DeadlinePasses(l) \/ Revoke(l)
                              \/ \E p \in People : Approve(l, p)
  PROVE  GrantInv'
<1>0. local \in Stored
  BY DEF Shape, SessionTypeOK
<1>1. PollKnown'
  <2>1. CASE LoopPolls \/ AlarmPolls \/ WorkerStarts \/ PopupPolls
    BY <2>1, JoinsEmpty, KnownStays DEF LoopPolls, AlarmPolls, WorkerStarts, PopupPolls
  <2>2. CASE Evict
    BY <2>2, PollEmpty DEF Evict, NoPoll
  <2>3. CASE OpenApproval
    <3>1. CASE poll' = [NoPoll EXCEPT !.pc = "reading", !.origin = starter.origin]
      BY <3>1, PollEmpty DEF NoPoll
    <3> QED
      BY <2>3, <3>1, JoinsEmpty, KnownStays DEF OpenApproval
  <2>4. CASE UNCHANGED poll
    BY <2>4, KnownStays
  <2> QED
    BY <2>1, <2>2, <2>3, <2>4
       DEF ClosePopup, StartLogin, LoginSteps, LoginCreated, SaveLogin, SwitchSteps,
           SwitchStep, SwitchService, Deny, DeadlinePasses, Revoke, Approve, workerVars
<1>2. LocalKnown'
  <2>1. CASE SaveLogin
    BY <1>0, <2>1, KnownStays DEF SaveLogin, Stored
  <2>2. CASE SwitchSteps
    <3>1. \/ local'.accounts = local.accounts
          \/ local'.accounts = [p \in People |-> NoLogin]
      BY <1>0, <2>2 DEF SwitchSteps, SwitchStep, Stored
    <3> QED
      BY <3>1, KnownStays DEF LocalKnown, KnownTokens, Known
  <2>3. CASE UNCHANGED local
    BY <2>3, KnownStays
  <2> QED
    BY <2>1, <2>2, <2>3
       DEF LoopPolls, AlarmPolls, WorkerStarts, Evict, PopupPolls, ClosePopup, StartLogin,
           LoginSteps, LoginCreated, OpenApproval, SwitchService, Deny, DeadlinePasses,
           Revoke, Approve
<1>3. RemoverKnown' /\ RequestKnown'
  <2>1. CASE Evict
    <3>1. [p \in People |-> NoLogin] \in KnownTokens' /\ NoLogin \in Known'
      BY DEF Known, KnownTokens
    <3> QED
      BY <2>1, <3>1
         DEF Evict, RemoverKnown, RequestKnown, NoRemoval, NoRequest, Removers
  <2>2. CASE UNCHANGED <<remover, request>>
    BY <2>2, KnownStays
  <2> QED
    BY <2>1, <2>2
       DEF LoopPolls, AlarmPolls, WorkerStarts, PopupPolls, ClosePopup, StartLogin,
           LoginSteps, LoginCreated, SaveLogin, OpenApproval, SwitchSteps, SwitchStep,
           SwitchService, Deny, DeadlinePasses, Revoke, Approve, workerVars
<1> QED
  BY <1>1, <1>2, <1>3 DEF GrantInv

LEMMA KnownByRemoval ==
  ASSUME Shape, GrantInv, Known \subseteq Known', UnusedOnTime',
         \/ Logout \/ LogoutReadsToken \/ LogoutRevokes
         \/ RequestStarts \/ RequestSent \/ RequestAnswered
         \/ \E r \in Removers :
              RemoveLoads(r) \/ RemoveSaves(r) \/ RemoveChecks(r) \/ RemovePromotes(r)
  PROVE  GrantInv'
<1>0. /\ local \in Stored /\ remover \in [Removers -> Removals] /\ request \in Requests
      /\ \A r \in Removers : remover[r] \in Removals
      /\ local.accounts \in KnownTokens /\ RemoverKnown /\ RequestKnown
      /\ \A r \in Removers : remover[r].pc # "off" => remover[r].person \in People
  BY DEF Shape, SessionTypeOK, GrantInv, LocalKnown
<1>1. KnownTokens \subseteq KnownTokens' /\ NoLogin \in Known'
      /\ [p \in People |-> NoLogin] \in KnownTokens'
  BY DEF KnownTokens, Known
<1>2. PollKnown'
  BY KnownStays
     DEF Logout, LogoutReadsToken, LogoutRevokes, RequestStarts, RequestSent,
         RequestAnswered, RemoveLoads, RemoveSaves, RemoveChecks, RemovePromotes, OthersStay
<1>3. LocalKnown'
  <2>1. ASSUME NEW r \in Removers, RemoveSaves(r) PROVE LocalKnown'
    <3>1. local'.accounts = remover[r].accounts
      BY <1>0, <2>1 DEF RemoveSaves, Stored
    <3> QED
      BY <1>0, <1>1, <3>1 DEF LocalKnown, RemoverKnown
  <2>2. ASSUME NEW r \in Removers, RemovePromotes(r) PROVE LocalKnown'
    BY <1>0, <2>2, KnownStays DEF RemovePromotes, Stored
  <2>3. CASE UNCHANGED local
    BY <2>3, KnownStays
  <2> QED
    BY <2>1, <2>2, <2>3
       DEF Logout, LogoutReadsToken, LogoutRevokes, RequestStarts, RequestSent,
           RequestAnswered, RemoveLoads, RemoveChecks
<1>4. ASSUME NEW r \in Removers, NEW row, Removal(r, row), row.accounts \in KnownTokens',
             row.token \in Known', row.pc = "revoking" => row.token # NoLogin
      PROVE  RemoverKnown'
  <2>1. remover'[r] = row /\ \A s \in Removers \ {r} : remover'[s] = remover[s]
    BY <1>0, <1>4 DEF Removal
  <2> QED
    BY <1>0, <1>1, <1>4, <2>1 DEF RemoverKnown, Removers
<1>5. RequestKnown'
  <2>1. CASE RequestStarts \/ RequestAnswered
    <3>1. request' \in {NoRequest, [NoRequest EXCEPT !.pc = "addressed",
                                                    !.origin = local.origin]}
      BY <2>1 DEF RequestStarts, RequestAnswered
    <3>2. [NoRequest EXCEPT !.pc = "addressed", !.origin = local.origin].token = NoLogin
      BY DEF NoRequest
    <3>3. request'.token = NoLogin
      BY <3>1, <3>2 DEF NoRequest
    <3> QED
      BY <1>1, <3>3 DEF RequestKnown
  <2>2. CASE RequestSent
    <3>1. CASE ActiveToken = NoLogin
      BY <1>1, <2>2, <3>1 DEF RequestSent, RequestKnown, NoRequest
    <3>2. CASE ActiveToken # NoLogin
      <4>1. request'.token = ActiveToken
        BY <1>0, <2>2, <3>2 DEF RequestSent, Requests
      <4>2. local.active \in People
        BY <1>0, <3>2 DEF ActiveToken, Stored
      <4>3. ActiveToken \in Known
        BY <1>0, <3>2, <4>2 DEF ActiveToken, KnownTokens
      <4> QED
        BY <4>1, <4>3 DEF RequestKnown
    <3> QED
      BY <3>1, <3>2
  <2>3. CASE UNCHANGED request
    BY <2>3, KnownStays
  <2> QED
    BY <2>1, <2>2, <2>3
       DEF Logout, LogoutReadsToken, LogoutRevokes, RemoveLoads, RemoveSaves, RemoveChecks,
           RemovePromotes, OthersStay
<1>6. CASE Logout
  <2> DEFINE row == [NoRemoval EXCEPT !.pc = "token", !.person = local.active]
  <2>1. /\ row.accounts = [p \in People |-> NoLogin] /\ row.token = NoLogin
        /\ row.pc # "revoking"
    BY DEF NoRemoval
  <2>2. Removal("logout", row)
    BY <1>6 DEF Logout
  <2> HIDE DEF row
  <2>3. RemoverKnown'
    BY <1>1, <1>4, <2>1, <2>2 DEF Removers
  <2> QED
    BY <1>2, <1>3, <1>5, <2>3 DEF GrantInv
<1>7. CASE LogoutReadsToken
  <2> DEFINE token == local.accounts[remover["logout"].person]
             row == [remover["logout"] EXCEPT
                       !.token = token,
                       !.pc = IF token = NoLogin THEN "loading" ELSE "revoking"]
  <2>1. Removal("logout", row)
    BY <1>7 DEF LogoutReadsToken
  <2>2. token \in Known
    <3>1. remover["logout"].person \in People
      BY <1>0, <1>7 DEF LogoutReadsToken, Removers
    <3> QED
      BY <1>0, <3>1 DEF KnownTokens
  <2> HIDE DEF token
  <2>3. /\ row.accounts = remover["logout"].accounts /\ row.token = token
        /\ row.pc = "revoking" => token # NoLogin
    BY <1>0 DEF Removals, Removers
  <2> HIDE DEF row
  <2>4. row.accounts \in KnownTokens' /\ row.token \in Known'
    BY <1>0, <1>1, <2>2, <2>3 DEF RemoverKnown, Removers
  <2>5. RemoverKnown'
    BY <1>4, <2>1, <2>3, <2>4 DEF Removers
  <2> QED
    BY <1>2, <1>3, <1>5, <2>5 DEF GrantInv
<1>8. CASE LogoutRevokes
  <2> DEFINE row == [remover["logout"] EXCEPT !.pc = "loading"]
  <2>1. Removal("logout", row)
    BY <1>8 DEF LogoutRevokes
  <2>2. /\ row.accounts = remover["logout"].accounts
        /\ row.token = remover["logout"].token /\ row.pc # "revoking"
    BY <1>0 DEF Removals, Removers
  <2> HIDE DEF row
  <2>3. row.accounts \in KnownTokens' /\ row.token \in Known'
    BY <1>0, <1>1, <2>2 DEF RemoverKnown, Removers
  <2>4. RemoverKnown'
    BY <1>4, <2>1, <2>2, <2>3 DEF Removers
  <2> QED
    BY <1>2, <1>3, <1>5, <2>4 DEF GrantInv
<1>9. CASE RequestStarts \/ RequestSent
  <2>1. UNCHANGED remover
    BY <1>9 DEF RequestStarts, RequestSent
  <2> QED
    BY <1>2, <1>3, <1>5, <2>1, KnownStays DEF GrantInv
<1>10. CASE RequestAnswered
  <2>1. ASSUME NEW p \in People,
               Removal("request", [NoRemoval EXCEPT !.pc = "loading", !.person = p])
        PROVE  RemoverKnown'
    <3> DEFINE row == [NoRemoval EXCEPT !.pc = "loading", !.person = p]
    <3>1. /\ row.accounts = [q \in People |-> NoLogin] /\ row.token = NoLogin
          /\ row.pc # "revoking"
      BY DEF NoRemoval
    <3> HIDE DEF row
    <3> QED
      BY <1>1, <1>4, <2>1, <3>1 DEF Removers, row
  <2>2. UNCHANGED remover \/ \E p \in People :
          Removal("request", [NoRemoval EXCEPT !.pc = "loading", !.person = p])
    BY <1>10 DEF RequestAnswered
  <2>3. RemoverKnown'
    BY <2>1, <2>2, KnownStays
  <2> QED
    BY <1>2, <1>3, <1>5, <2>3 DEF GrantInv
<1>11. ASSUME NEW r \in Removers,
              RemoveLoads(r) \/ RemoveSaves(r) \/ RemoveChecks(r) \/ RemovePromotes(r)
       PROVE  GrantInv'
  <2>1. PICK row :
          /\ Removal(r, row) /\ row.pc # "revoking" /\ row.token \in Known'
          /\ row.accounts \in KnownTokens'
    <3>1. CASE RemoveLoads(r)
      <4> DEFINE accounts == [local.accounts EXCEPT ![remover[r].person] = NoLogin]
                 row == [remover[r] EXCEPT !.pc = "saving", !.accounts = accounts]
      <4>1. accounts \in KnownTokens
        BY <1>0 DEF KnownTokens, Known
      <4> HIDE DEF accounts
      <4>2. row.accounts = accounts /\ row.token = remover[r].token /\ row.pc = "saving"
        BY <1>0 DEF Removals
      <4>3. Removal(r, row)
        BY <3>1 DEF RemoveLoads, accounts
      <4> HIDE DEF row
      <4> QED
        BY <1>0, <1>1, <4>1, <4>2, <4>3 DEF RemoverKnown
    <3>2. CASE RemoveSaves(r) \/ RemoveChecks(r) \/ RemovePromotes(r)
      <4>1. ASSUME NEW pc \in {"checking", "promoting"},
                   Removal(r, [remover[r] EXCEPT !.pc = pc])
            PROVE  \E row : /\ Removal(r, row) /\ row.pc # "revoking"
                            /\ row.token \in Known' /\ row.accounts \in KnownTokens'
        <5> DEFINE row == [remover[r] EXCEPT !.pc = pc]
        <5>1. /\ row.accounts = remover[r].accounts /\ row.token = remover[r].token
              /\ row.pc # "revoking"
          BY <1>0 DEF Removals
        <5>2. row.accounts \in KnownTokens' /\ row.token \in Known'
          BY <1>0, <1>1, <5>1 DEF RemoverKnown
        <5> HIDE DEF row
        <5> QED
          BY <4>1, <5>1, <5>2 DEF row
      <4>2. ASSUME Removal(r, NoRemoval)
            PROVE  \E row : /\ Removal(r, row) /\ row.pc # "revoking"
                            /\ row.token \in Known' /\ row.accounts \in KnownTokens'
        <5>1. /\ NoRemoval.accounts = [q \in People |-> NoLogin]
              /\ NoRemoval.token = NoLogin /\ NoRemoval.pc # "revoking"
          BY DEF NoRemoval
        <5> QED
          BY <1>1, <4>2, <5>1
      <4>3. \/ Removal(r, [remover[r] EXCEPT !.pc = "checking"])
            \/ Removal(r, [remover[r] EXCEPT !.pc = "promoting"])
            \/ Removal(r, NoRemoval)
        BY <3>2 DEF RemoveSaves, RemoveChecks, RemovePromotes
      <4> QED
        BY <4>1, <4>2, <4>3
    <3> QED
      BY <1>11, <3>1, <3>2
  <2>2. RemoverKnown'
    BY <1>4, <2>1
  <2> QED
    BY <1>2, <1>3, <1>5, <2>2 DEF GrantInv
<1> QED
  BY <1>6, <1>7, <1>8, <1>9, <1>10, <1>11

LEMMA GrantKept ==
  ASSUME Shape, GrantInv, SessionNext
  PROVE  GrantInv'
<1>1. Known \subseteq Known' /\ UnusedOnTime'
  BY ServiceMoves, KnownGrows DEF Shape, SessionTypeOK, GrantInv
<1> QED
  BY <1>1, KnownByPoll, KnownByLogin, KnownByRemoval DEF SessionNext

\* The move of one login is a step of its grant.
LEMMA GrantStep ==
  ASSUME service \in [Logins -> Issued], UnusedOnTime, OneMoves
  PROVE  [Issuer!Next]_(Issuer!vars)
<1> DEFINE Left(m) == IF service[m].state = "unused" \/ service[m].late THEN 0 ELSE 1
           Given(m) == IF PhaseOf(m) = "handed" THEN <<service[m].person>> ELSE << >>
<1> PICK l \in Logins, row \in Issued :
      service' = [service EXCEPT ![l] = row] /\ Legal(service[l], row)
  BY DEF OneMoves
<1>1. /\ service'[l] = row /\ service[l] \in Issued
      /\ \A m \in Logins \ {l} : service'[m] = service[m]
  OBVIOUS
<1>2. \A m \in Logins \ {l} : /\ PhaseOf(m)' = PhaseOf(m) /\ Left(m)' = Left(m)
                              /\ service'[m].person = service[m].person
                              /\ Given(m)' = Given(m)
  BY <1>1 DEF PhaseOf
<1>3. \A m \in Logins : Left(m) \in 0..1 /\ Left(m)' \in 0..1
  OBVIOUS
<1>4. CASE service[l].state = "unused" /\ row.state = "pending"
  <2>1. /\ PhaseOf(l) = "none" /\ PhaseOf(l)' = "open" /\ Left(l)' = 1
        /\ row.person = service[l].person /\ Given(l)' = << >> /\ Given(l) = << >>
    BY <1>1, <1>4 DEF PhaseOf, Legal, UnusedOnTime
  <2> HIDE DEF Left, Given
  <2>2. Issuer!Open(l)
    BY <1>1, <1>2, <2>1 DEF Issuer!Open, Left, Given
  <2> QED
    BY <2>2 DEF Issuer!Next
<1>5. CASE service[l].state = "pending" /\ row.state = "approved"
  <2>1. /\ PhaseOf(l) = "open" /\ PhaseOf(l)' = "granted" /\ Left(l) = 1 /\ Left(l)' = 1
        /\ row.person \in People /\ Given(l)' = << >> /\ Given(l) = << >>
    BY <1>1, <1>5 DEF PhaseOf, Legal
  <2>2. [m \in Logins |-> service'[m].person] =
          [[m \in Logins |-> service[m].person] EXCEPT ![l] = row.person]
    BY <1>1
  <2>3. [m \in Logins |-> PhaseOf(m)'] =
          [[m \in Logins |-> PhaseOf(m)] EXCEPT ![l] = "granted"]
    BY <1>2, <2>1
  <2>4. /\ [m \in Logins |-> Left(m)'] = [m \in Logins |-> Left(m)]
        /\ [m \in Logins |-> Given(m)'] = [m \in Logins |-> Given(m)]
        /\ [m \in Logins |-> PhaseOf(m)][l] = "open" /\ [m \in Logins |-> Left(m)][l] > 0
    BY <1>2, <2>1
  <2> HIDE DEF Left, Given
  <2>5. Issuer!Grant(l)
    BY <2>1, <2>2, <2>3, <2>4 DEF Issuer!Grant, Left, Given
  <2> QED
    BY <2>5 DEF Issuer!Next
<1>6. CASE service[l].state = "pending" /\ row.state = "denied"
  <2>1. /\ PhaseOf(l) = "open" /\ PhaseOf(l)' = "closed" /\ Left(l)' = Left(l)
        /\ row.person = service[l].person /\ Given(l)' = << >> /\ Given(l) = << >>
    BY <1>1, <1>6 DEF PhaseOf, Legal
  <2>2. Issuer!Close(l)
    BY <1>1, <1>2, <2>1 DEF Issuer!Close
  <2> QED
    BY <2>2 DEF Issuer!Next
<1>7. CASE service[l].state = "approved" /\ row.state = "consumed"
  <2>1. /\ PhaseOf(l) = "granted" /\ PhaseOf(l)' = "handed" /\ Left(l)' = Left(l)
        /\ row.person = service[l].person
        /\ Given(l)' = <<service[l].person>> /\ Given(l) = << >>
    BY <1>1, <1>7 DEF PhaseOf, Legal
  <2>2. Given(l)' = Append(Given(l), service[l].person)
    BY <2>1
  <2>3. Issuer!Hand(l)
    BY <1>1, <1>2, <2>1, <2>2 DEF Issuer!Hand
  <2> QED
    BY <2>3 DEF Issuer!Next
<1>8. CASE service[l].state = row.state /\ service[l].late # row.late
  <2>1. /\ PhaseOf(l)' = PhaseOf(l) /\ Left(l)' <= Left(l)
        /\ row.person = service[l].person /\ Given(l)' = Given(l)
    BY <1>1, <1>8 DEF PhaseOf, Legal, Issued
  <2>2. \A m \in Logins : /\ PhaseOf(m)' = PhaseOf(m) /\ Given(m)' = Given(m)
                          /\ service'[m].person = service[m].person
    BY <1>1, <1>2, <2>1
  <2>3. \A m \in Logins : Left(m)' <= Left(m)
    BY <1>2, <1>3, <2>1
  <2> HIDE DEF Left, Given
  <2>4. /\ [m \in Logins |-> Left(m)'] \in [Logins -> 0..1]
        /\ \A m \in Logins : [i \in Logins |-> Left(i)'][m] <= [i \in Logins |-> Left(i)][m]
    BY <1>3, <2>3
  <2>5. Issuer!Elapse
    BY <2>2, <2>4 DEF Issuer!Elapse, Left, Given
  <2> QED
    BY <2>5 DEF Issuer!Next
<1>9. CASE /\ PhaseOf(l)' = PhaseOf(l) /\ Left(l)' = Left(l)
           /\ row.person = service[l].person /\ Given(l)' = Given(l)
  <2>1. UNCHANGED Issuer!vars
    BY <1>1, <1>2, <1>9 DEF Issuer!vars
  <2> QED
    BY <2>1
<1>10. \/ service[l].state = "unused" /\ row.state = "pending"
       \/ service[l].state = "pending" /\ row.state = "approved"
       \/ service[l].state = "pending" /\ row.state = "denied"
       \/ service[l].state = "approved" /\ row.state = "consumed"
       \/ service[l].state = row.state /\ service[l].late # row.late
       \/ /\ PhaseOf(l)' = PhaseOf(l) /\ Left(l)' = Left(l)
          /\ row.person = service[l].person /\ Given(l)' = Given(l)
  BY <1>1 DEF Legal, PhaseOf
<1> QED
  BY <1>4, <1>5, <1>6, <1>7, <1>8, <1>9, <1>10

\* Each login, as the extension drives it, is the one-time grant its service
\* promises (login.ts, background.ts, store/session.go): granted in time or not at
\* all, handed over once and to the person who granted it, and only a token that
\* was handed over is ever revoked.
THEOREM LoginsAreGrantsHolds == SessionSpec => LoginsAreGrants
<1>1. SessionInit => Issuer!Init
  <2> SUFFICES ASSUME SessionInit PROVE Issuer!Init
    OBVIOUS
  <2>1. \A l \in Logins : service[l].state = "unused" /\ service[l].person = Nobody
    BY DEF SessionInit
  <2>2. \A l \in Logins : PhaseOf(l) = "none"
    BY <2>1 DEF PhaseOf
  <2> QED
    BY <2>1, <2>2 DEF Issuer!Init
<1>2. Shape /\ GrantInv /\ [SessionNext]_sessionVars => GrantInv'
  <2>1. Shape /\ GrantInv /\ SessionNext => GrantInv'
    BY GrantKept
  <2>2. GrantInv /\ UNCHANGED sessionVars => GrantInv'
    BY DEF sessionVars, workerVars, GrantInv, LocalKnown, PollKnown, RemoverKnown,
           RequestKnown, UnusedOnTime, Known, KnownTokens
  <2> QED
    BY <2>1, <2>2
<1>3. Shape /\ GrantInv /\ [SessionNext]_sessionVars => [Issuer!Next]_(Issuer!vars)
  <2>0. UNCHANGED service => UNCHANGED Issuer!vars
    BY DEF Issuer!vars, PhaseOf
  <2>1. ASSUME Shape, GrantInv, SessionNext PROVE [Issuer!Next]_(Issuer!vars)
    BY <2>1, <2>0, ServiceMoves, GrantStep DEF Shape, SessionTypeOK, GrantInv
  <2>2. UNCHANGED sessionVars => UNCHANGED service
    BY DEF sessionVars
  <2> QED
    BY <2>0, <2>1, <2>2
<1> QED
  BY ShapeInitially, ShapeStep, ShapeStutters, GrantInitially, <1>1, <1>2, <1>3, PTL
     DEF SessionSpec, LoginsAreGrants, Issuer!Spec

-----------------------------------------------------------------------------
(* No token is sent to another service *)

\* A login, as far as it is one at all, is one of the configured service.
Homely(l) ==
  l = NoLogin \/ (service[l].origin = local.origin /\ service[l].state # "unused")
AllHomely(accounts) == \A p \in People : Homely(accounts[p])

\* As long as no sign-in and no removal has overlapped with a switch, whatever the
\* worker stores or carries is the configured service's, and during a switch it
\* carries nothing.
HeldAtHome ==
  /\ AllHomely(local.accounts)
  /\ Homely(local.pending) /\ Homely(starter.login) /\ Homely(poll.login)
CarriedAtHome ==
  /\ starter.pc # "off" => starter.origin = local.origin
  /\ poll.pc = "saving" => AllHomely(poll.accounts)
  /\ \A r \in Removers : remover[r].pc = "saving" => AllHomely(remover[r].accounts)
AtRest ==
  /\ local.pending = NoLogin /\ starter.pc = "off" /\ poll.pc \in {"off", "reading"}
  /\ \A r \in Removers : remover[r].pc = "off"
SwitchAtRest ==
  /\ switcher.pc # "off" => AtRest
  /\ switcher.pc \in {"active", "pending", "origin"} =>
       \A p \in People : local.accounts[p] = NoLogin
HomeInv == ~mixed => HeldAtHome /\ CarriedAtHome /\ SwitchAtRest

LEMMA HomeInitially == SessionInit => HomeInv
BY DEF SessionInit, HomeInv, HeldAtHome, AllHomely, Homely, CarriedAtHome, NoStarter,
       NoPoll, SwitchAtRest, NoSwitch, NoRemoval

\* What was the configured service's stays so.
StaysHomely == \A l \in Logins \cup {NoLogin} : Homely(l) => Homely(l)'

LEMMA HomelyStays ==
  ASSUME OnlyStates, local'.origin = local.origin
  PROVE  StaysHomely
BY DEF OnlyStates, StaysHomely, Homely

LEMMA HomeTypes ==
  ASSUME Shape
  PROVE  /\ \A p \in People : local.accounts[p] \in Logins \cup {NoLogin}
         /\ \A p \in People : poll.accounts[p] \in Logins \cup {NoLogin}
         /\ \A r \in Removers, p \in People :
              remover[r].accounts[p] \in Logins \cup {NoLogin}
         /\ local.pending \in Logins \cup {NoLogin}
         /\ starter.login \in Logins \cup {NoLogin}
         /\ poll.login \in Logins \cup {NoLogin}
<1>1. local \in Stored /\ poll \in Polls /\ starter \in Starters
      /\ remover \in [Removers -> Removals]
  BY DEF Shape, SessionTypeOK
<1>2. /\ local.accounts \in Tokens /\ poll.accounts \in Tokens
      /\ \A r \in Removers : remover[r].accounts \in Tokens
  BY <1>1 DEF Stored, Polls, Removals
<1> QED
  BY <1>1, <1>2 DEF Tokens, Stored, Starters, Polls

\* A step that stores and carries nothing new.
HandsEmpty ==
  /\ local'.accounts = local.accounts /\ local'.pending \in {local.pending, NoLogin}
  /\ local'.origin = local.origin
  /\ starter' \in {starter, NoStarter} /\ switcher' \in {switcher, NoSwitch}
  /\ poll' = poll \/ (poll'.login = NoLogin /\ poll'.pc \in {"off", "reading"})
  /\ \A r \in Removers : \/ remover'[r] \in {remover[r], NoRemoval}
                         \/ remover'[r].pc # "saving" /\ remover[r].pc # "off"
  /\ mixed' = mixed

LEMMA HomeQuiet ==
  ASSUME Shape, HomeInv, OnlyStates, HandsEmpty
  PROVE  HomeInv'
<1> SUFFICES ASSUME ~mixed PROVE (HeldAtHome /\ CarriedAtHome /\ SwitchAtRest)'
  BY DEF HomeInv, HandsEmpty
<1>0. HeldAtHome /\ CarriedAtHome /\ SwitchAtRest
  BY DEF HomeInv
<1>1. StaysHomely
  BY HomelyStays DEF HandsEmpty
<1>2. HeldAtHome'
  <2>1. \A p \in People : Homely(local.accounts[p])'
    BY <1>0, <1>1, HomeTypes DEF StaysHomely, HandsEmpty, HeldAtHome, AllHomely, Homely
  <2>2. Homely(local.pending)' /\ Homely(starter.login)' /\ Homely(poll.login)'
    BY <1>0, <1>1, HomeTypes
       DEF StaysHomely, HandsEmpty, HeldAtHome, Homely, NoStarter
  <2> QED
    BY <2>1, <2>2 DEF HeldAtHome, AllHomely
<1>3. CarriedAtHome'
  <2>1. (starter.pc # "off" => starter.origin = local.origin)'
    BY <1>0 DEF HandsEmpty, CarriedAtHome, NoStarter
  <2>2. (poll.pc = "saving" => AllHomely(poll.accounts))'
    BY <1>0, <1>1, HomeTypes DEF HandsEmpty, CarriedAtHome, AllHomely, StaysHomely, Homely
  <2>3. ASSUME NEW r \in Removers, remover'[r].pc = "saving"
        PROVE  AllHomely(remover[r].accounts)'
    <3>1. remover'[r] = remover[r]
      BY <2>3 DEF HandsEmpty, NoRemoval
    <3> QED
      BY <1>0, <1>1, <2>3, <3>1, HomeTypes DEF CarriedAtHome, AllHomely, StaysHomely, Homely
  <2> QED
    BY <2>1, <2>2, <2>3 DEF CarriedAtHome
<1>4. SwitchAtRest'
  <2>1. CASE switcher' = NoSwitch
    BY <2>1 DEF SwitchAtRest, NoSwitch
  <2>2. CASE switcher' = switcher
    <3>1. switcher.pc # "off" => AtRest'
      <4>1. ASSUME AtRest, NEW r \in Removers PROVE remover'[r].pc = "off"
        BY <4>1 DEF AtRest, HandsEmpty, NoRemoval
      <4> QED
        BY <1>0, <4>1 DEF SwitchAtRest, AtRest, HandsEmpty, NoStarter
    <3> QED
      BY <1>0, <2>2, <3>1 DEF SwitchAtRest, HandsEmpty
  <2> QED
    BY <2>1, <2>2 DEF HandsEmpty
<1> QED
  BY <1>2, <1>3, <1>4

\* Outside a switch a step may store and carry what is the configured service's.
LEMMA HomeBusy ==
  ASSUME ~mixed' => switcher'.pc = "off" /\ HeldAtHome' /\ CarriedAtHome'
  PROVE  HomeInv'
BY DEF HomeInv, SwitchAtRest

LEMMA HeldStays ==
  ASSUME Shape, HomeInv, ~mixed, OnlyStates, local'.origin = local.origin
  PROVE  /\ local'.accounts = local.accounts => AllHomely(local.accounts)'
         /\ local'.pending \in {local.pending, starter.login, NoLogin} =>
              Homely(local.pending)'
         /\ starter'.login \in {starter.login, NoLogin} => Homely(starter.login)'
         /\ poll'.login \in {poll.login, local.pending, NoLogin} => Homely(poll.login)'
         /\ (starter.pc # "off" => starter.origin = local.origin)
         /\ \A p \in People : local.accounts[p] = NoLogin
              \/ (service'[local.accounts[p]].origin = local.origin
                   /\ service'[local.accounts[p]].state # "unused")
         /\ poll.pc = "saving" => \A p \in People : poll.accounts[p] = NoLogin
              \/ (service'[poll.accounts[p]].origin = local.origin
                   /\ service'[poll.accounts[p]].state # "unused")
         /\ \A r \in Removers : remover'[r].pc = "saving" /\ remover'[r] = remover[r] =>
              AllHomely(remover[r].accounts)'
<1>0. HeldAtHome /\ CarriedAtHome /\ StaysHomely
  BY HomelyStays DEF HomeInv
<1>1. ASSUME NEW l \in Logins \cup {NoLogin}, Homely(l)
      PROVE  l = NoLogin \/ (service'[l].origin = local.origin
                              /\ service'[l].state # "unused")
  BY <1>0, <1>1 DEF StaysHomely, Homely
<1>2. /\ \A p \in People : Homely(local.accounts[p])
      /\ Homely(local.pending) /\ Homely(starter.login) /\ Homely(poll.login)
      /\ starter.pc # "off" => starter.origin = local.origin
      /\ poll.pc = "saving" => \A p \in People : Homely(poll.accounts[p])
      /\ \A r \in Removers : remover[r].pc = "saving" =>
           \A p \in People : Homely(remover[r].accounts[p])
  BY <1>0 DEF HeldAtHome, CarriedAtHome, AllHomely
<1>3. Homely(NoLogin)
  BY DEF Homely
<1>4. \A p \in People : local.accounts[p] = NoLogin
              \/ (service'[local.accounts[p]].origin = local.origin
                   /\ service'[local.accounts[p]].state # "unused")
  BY <1>1, <1>2, HomeTypes
<1>5. poll.pc = "saving" => \A p \in People : poll.accounts[p] = NoLogin
              \/ (service'[poll.accounts[p]].origin = local.origin
                   /\ service'[poll.accounts[p]].state # "unused")
  BY <1>1, <1>2, HomeTypes
<1>6. ASSUME NEW r \in Removers, remover'[r].pc = "saving", remover'[r] = remover[r]
      PROVE  AllHomely(remover[r].accounts)'
  <2>1. \A p \in People : remover[r].accounts[p] = NoLogin
              \/ (service'[remover[r].accounts[p]].origin = local.origin
                   /\ service'[remover[r].accounts[p]].state # "unused")
    BY <1>1, <1>2, <1>6, HomeTypes
  <2> QED
    BY <1>6, <2>1 DEF AllHomely, Homely
<1>7. local'.accounts = local.accounts => AllHomely(local.accounts)'
  BY <1>4 DEF AllHomely, Homely
<1>8. /\ local'.pending \in {local.pending, starter.login, NoLogin} =>
           Homely(local.pending)'
      /\ starter'.login \in {starter.login, NoLogin} => Homely(starter.login)'
      /\ poll'.login \in {poll.login, local.pending, NoLogin} => Homely(poll.login)'
  BY <1>1, <1>2, <1>3, HomeTypes DEF Homely
<1> QED
  BY <1>2, <1>4, <1>5, <1>6, <1>7, <1>8

LEMMA HomeByPoll ==
  ASSUME Shape, HomeInv, PollSteps \/ PollFails
  PROVE  HomeInv'
<1>0. /\ poll \in Polls /\ local \in Stored /\ service \in [Logins -> Issued]
      /\ SessionTypeOK /\ mixed' = mixed /\ switcher' = switcher /\ remover' = remover
      /\ starter' = starter /\ local'.origin = local.origin
  BY DEF Shape, SessionTypeOK, PollSteps, PollFails, ReadPending, HearVerdict,
         ClearPending, Forgotten, LoadAccounts, SaveAccounts, Activate, Stored, historyVars
<1>1. ASSUME NEW result, Settle(result), OnlyStates,
             local'.pending \in {local.pending, NoLogin},
             local'.accounts = local.accounts,
             result \notin {"denied", "expired"} \/ poll.login \in Logins
      PROVE  HomeInv'
  BY <1>0, <1>1, Settles, HomeQuiet DEF HandsEmpty
<1>2. ASSUME OnlyStates, poll.pc \notin {"off", "reading"} \/ local.pending # NoLogin
      PROVE  ~mixed => switcher'.pc = "off"
  BY <1>0, <1>2 DEF HomeInv, SwitchAtRest, AtRest
<1>3. ASSUME OnlyStates, poll.pc \notin {"off", "reading"} \/ local.pending # NoLogin,
             local'.pending \in {local.pending, NoLogin},
             poll'.login \in {poll.login, local.pending},
             ~mixed => AllHomely(local.accounts)',
             ~mixed /\ poll'.pc = "saving" => AllHomely(poll.accounts)'
      PROVE  HomeInv'
  <2> SUFFICES ASSUME ~mixed PROVE HeldAtHome' /\ CarriedAtHome'
    BY <1>0, <1>2, <1>3, HomeBusy
  <2>1. HeldAtHome'
    BY <1>0, <1>3, HeldStays DEF HeldAtHome
  <2>2. CarriedAtHome'
    BY <1>0, <1>3, HeldStays DEF CarriedAtHome
  <2> QED
    BY <2>1, <2>2
<1>4. ASSUME OnlyStates, local'.accounts = local.accounts
      PROVE  ~mixed => AllHomely(local.accounts)'
  BY <1>0, <1>4, HeldStays
<1>5. poll.pc \notin {"off", "reading"} => poll.login \in Logins
  BY SessionConstants DEF Shape, SessionTypeOK, Polls
<1>6. CASE ReadPending
  <2>0. OnlyStates /\ local' = local
    BY <1>6, Untouched DEF ReadPending
  <2>1. CASE Settle("idle")
    BY <1>1, <2>0, <2>1
  <2>2. CASE /\ local.pending # NoLogin
             /\ poll' = IF service[local.pending].late
                        THEN [poll EXCEPT !.pc = "clearing", !.login = local.pending,
                                          !.result = "expired"]
                        ELSE [poll EXCEPT !.pc = "asking", !.login = local.pending]
    <3>1. poll'.pc \in {"asking", "clearing"} /\ poll'.login = local.pending
      BY <1>0, <2>2 DEF Polls
    <3> QED
      BY <1>3, <1>4, <2>0, <2>2, <3>1
  <2> QED
    BY <1>6, <2>1, <2>2 DEF ReadPending
<1>7. CASE HearVerdict
  <2>1. OnlyStates /\ local' = local
    BY <1>0, <1>7, Collects DEF HearVerdict
  <2>2. CASE Settle("pending")
    BY <1>1, <2>1, <2>2
  <2>3. CASE poll' = [poll EXCEPT !.pc = "clearing",
                                  !.result = Verdict(poll.login, poll.origin)]
    <3>1. poll'.pc = "clearing" /\ poll'.login = poll.login /\ poll.pc = "asking"
      BY <1>0, <1>7, <2>3 DEF HearVerdict, Polls
    <3> QED
      BY <1>3, <1>4, <2>1, <3>1
  <2> QED
    BY <1>7, <2>2, <2>3 DEF HearVerdict
<1>8. CASE PollFails
  <2>1. OnlyStates /\ local' = local
    BY <1>0, <1>8, Collects, Untouched DEF PollFails
  <2> QED
    BY <1>1, <1>8, <2>1 DEF PollFails
<1>9. CASE ClearPending
  <2>1. /\ local'.pending = NoLogin /\ local'.accounts = local.accounts
        /\ OnlyStates /\ poll.login \in Logins /\ poll.pc = "clearing"
    BY <1>0, <1>5, <1>9, Untouched DEF ClearPending, Forgotten, Stored
  <2>2. CASE Settle(poll.result)
    BY <1>1, <2>1, <2>2
  <2>3. CASE poll' = [poll EXCEPT !.pc = "loading"]
    <3>1. poll'.pc = "loading" /\ poll'.login = poll.login
      BY <1>0, <2>3 DEF Polls
    <3> QED
      BY <1>3, <1>4, <2>1, <3>1
  <2> QED
    BY <1>9, <2>2, <2>3 DEF ClearPending
<1>10. CASE LoadAccounts
  <2> DEFINE accounts == [local.accounts EXCEPT ![service[poll.login].person] = poll.login]
  <2>1. /\ poll'.pc = "saving" /\ poll'.login = poll.login /\ poll.pc = "loading"
        /\ poll'.accounts = accounts /\ UNCHANGED <<local, service>>
    BY <1>0, <1>10 DEF LoadAccounts, Polls
  <2>2. \A p \in People : accounts[p] \in {local.accounts[p], poll.login}
    <3>1. local.accounts \in Tokens
      BY <1>0 DEF Stored
    <3> QED
      BY <3>1 DEF Tokens
  <2> HIDE DEF accounts
  <2>3. ~mixed => AllHomely(poll.accounts)'
    BY <2>1, <2>2 DEF HomeInv, HeldAtHome, AllHomely, Homely
  <2> QED
    BY <1>3, <1>4, <2>1, <2>3, Untouched
<1>11. CASE SaveAccounts
  <2>1. /\ poll'.pc = "activating" /\ poll'.login = poll.login /\ poll.pc = "saving"
        /\ local'.pending = local.pending /\ local'.accounts = poll.accounts
        /\ service' = service
    BY <1>0, <1>11 DEF SaveAccounts, Polls, Stored
  <2>2. ~mixed => AllHomely(local.accounts)'
    BY <1>0, <2>1 DEF HomeInv, CarriedAtHome, AllHomely, Homely
  <2> QED
    BY <1>3, <2>1, <2>2, Untouched
<1>12. CASE Activate
  <2>1. /\ local'.pending = local.pending /\ local'.accounts = local.accounts
        /\ OnlyStates
    BY <1>0, <1>12, Untouched DEF Activate, Stored
  <2> QED
    BY <1>1, <1>12, <2>1 DEF Activate
<1> QED
  BY <1>6, <1>7, <1>8, <1>9, <1>10, <1>11, <1>12 DEF PollSteps

LEMMA HomeByLogin ==
  ASSUME Shape, HomeInv,
         \/ LoopPolls \/ AlarmPolls \/ WorkerStarts \/ PopupPolls \/ Evict \/ ClosePopup
         \/ StartLogin \/ LoginSteps
  PROVE  HomeInv'
<1>0. /\ local \in Stored /\ service \in [Logins -> Issued] /\ starter \in Starters
      /\ SessionTypeOK /\ NoLogin \notin Logins
      /\ local.origin \in Origins /\ loop \in Origins \cup {NoOrigin}
      /\ starter.origin \in Origins \cup {NoOrigin}
      /\ starter.pc \in {"off", "creating"} <=> starter.login = NoLogin
  BY SessionConstants DEF Shape, SessionTypeOK, Stored, Starters
<1>1. ASSUME NEW who \in Callers, NEW origin \in Origins \cup {NoOrigin}, Join(who, origin)
      PROVE  poll' = poll \/ (poll'.login = NoLogin /\ poll'.pc \in {"off", "reading"})
  BY <1>0, <1>1, Joins
<1>2. starter.pc # "off" /\ ~mixed => switcher.pc = "off"
  BY DEF HomeInv, SwitchAtRest, AtRest
<1>3. CASE LoopPolls \/ AlarmPolls \/ WorkerStarts \/ PopupPolls
  <2>1. poll' = poll \/ (poll'.login = NoLogin /\ poll'.pc \in {"off", "reading"})
    BY <1>0, <1>1, <1>3 DEF LoopPolls, AlarmPolls, WorkerStarts, PopupPolls, Callers
  <2>2. UNCHANGED <<local, service, starter, switcher, remover, mixed>>
    BY <1>3 DEF LoopPolls, AlarmPolls, WorkerStarts, PopupPolls, historyVars
  <2> QED
    BY <2>1, <2>2, Untouched, HomeQuiet DEF HandsEmpty
<1>4. CASE Evict \/ ClosePopup
  <2>1. /\ poll' = poll \/ (poll'.login = NoLogin /\ poll'.pc \in {"off", "reading"})
        /\ starter' \in {starter, NoStarter} /\ switcher' \in {switcher, NoSwitch}
        /\ \A r \in Removers : remover'[r] \in {remover[r], NoRemoval}
        /\ UNCHANGED <<local, service, mixed>>
    BY <1>4 DEF Evict, ClosePopup, NoPoll, historyVars
  <2> QED
    BY <2>1, Untouched, HomeQuiet DEF HandsEmpty
<1>5. CASE StartLogin
  <2>1. /\ starter'.login = NoLogin /\ starter'.origin = local.origin
        /\ starter'.pc = "creating"
        /\ UNCHANGED <<local, service, poll, switcher, remover>>
    BY <1>5 DEF StartLogin, NoStarter
  <2> SUFFICES ASSUME ~mixed, switcher.pc = "off" PROVE HeldAtHome' /\ CarriedAtHome'
    BY <1>5, <2>1, HomeBusy DEF StartLogin
  <2>2. CarriedAtHome /\ HeldAtHome
    BY DEF HomeInv
  <2> QED
    BY <2>1, <2>2 DEF HeldAtHome, CarriedAtHome, AllHomely, Homely
<1>6. CASE LoginCreated
  <2> PICK l \in Logins :
        /\ service[l].state = "unused"
        /\ service' = [service EXCEPT ![l].state = "pending", ![l].origin = starter.origin]
        /\ starter' = [starter EXCEPT !.pc = "saving", !.login = l]
    BY <1>6 DEF LoginCreated
  <2>1. /\ starter'.pc = "saving" /\ starter'.login = l /\ starter'.origin = starter.origin
        /\ starter.pc = "creating" /\ UNCHANGED <<local, poll, switcher, remover, mixed>>
    BY <1>0, <1>6 DEF LoginCreated, Starters, historyVars
  <2>2. /\ service'[l].state = "pending" /\ service'[l].origin = starter.origin
        /\ \A m \in Logins \ {l} : service'[m] = service[m]
    BY <1>0 DEF Issued
  <2> SUFFICES ASSUME ~mixed PROVE HeldAtHome' /\ CarriedAtHome'
    BY <1>2, <2>1, HomeBusy
  <2>3. HeldAtHome /\ CarriedAtHome
    BY DEF HomeInv
  <2>4. \A m \in Logins \cup {NoLogin} : Homely(m) => Homely(m)'
    BY <1>0, <2>1, <2>2 DEF Homely
  <2>5. Homely(starter.login)'
    BY <2>1, <2>2, <2>3 DEF Homely, CarriedAtHome
  <2>6. Homely(local.pending)' /\ Homely(poll.login)'
    BY <2>1, <2>3, <2>4, HomeTypes DEF HeldAtHome, Homely
  <2>7. AllHomely(local.accounts)'
    BY <2>1, <2>3, <2>4, HomeTypes DEF HeldAtHome, AllHomely, Homely
  <2>8. (poll.pc = "saving" => AllHomely(poll.accounts))'
    BY <2>1, <2>3, <2>4, HomeTypes DEF CarriedAtHome, AllHomely, Homely
  <2>9. ASSUME NEW r \in Removers, remover[r].pc = "saving"
        PROVE  AllHomely(remover[r].accounts)'
    BY <2>1, <2>3, <2>4, <2>9, HomeTypes DEF CarriedAtHome, AllHomely, Homely
  <2> QED
    BY <2>1, <2>3, <2>5, <2>6, <2>7, <2>8, <2>9 DEF HeldAtHome, CarriedAtHome
<1>7. CASE SaveLogin
  <2>1. /\ starter'.login = starter.login /\ starter'.origin = starter.origin
        /\ starter.pc = "saving" /\ local'.pending = starter.login
        /\ local'.accounts = local.accounts /\ local'.origin = local.origin
        /\ UNCHANGED <<service, poll, switcher, remover, mixed>>
    BY <1>0, <1>7 DEF SaveLogin, Starters, Stored, historyVars
  <2> SUFFICES ASSUME ~mixed PROVE HeldAtHome' /\ CarriedAtHome'
    BY <1>2, <2>1, HomeBusy
  <2>2. HeldAtHome /\ CarriedAtHome
    BY DEF HomeInv
  <2> QED
    BY <2>1, <2>2 DEF HeldAtHome, CarriedAtHome, AllHomely, Homely
<1>8. CASE OpenApproval
  <2>1. poll' = poll \/ (poll'.login = NoLogin /\ poll'.pc \in {"off", "reading"})
    <3>1. /\ [NoPoll EXCEPT !.pc = "reading", !.origin = starter.origin].login = NoLogin
          /\ [NoPoll EXCEPT !.pc = "reading", !.origin = starter.origin].pc = "reading"
      BY DEF NoPoll
    <3>2. CASE loop = NoOrigin
      BY <1>0, <1>1, <1>8, <3>2 DEF OpenApproval, Callers
    <3>3. CASE loop # NoOrigin
      BY <1>8, <3>1, <3>3 DEF OpenApproval
    <3> QED
      BY <3>2, <3>3
  <2>2. starter' = NoStarter /\ UNCHANGED <<local, service, switcher, remover, mixed>>
    BY <1>8 DEF OpenApproval, historyVars
  <2> QED
    BY <2>1, <2>2, Untouched, HomeQuiet DEF HandsEmpty
<1> QED
  BY <1>3, <1>4, <1>5, <1>6, <1>7, <1>8 DEF LoginSteps

LEMMA HomeBySwitch ==
  ASSUME Shape, HomeInv, SwitchSteps \/ \E origin \in Origins : SwitchService(origin)
  PROVE  HomeInv'
<1>0. local \in Stored /\ SessionTypeOK /\ switcher \in Switches
  BY DEF Shape, SessionTypeOK
<1>1. UNCHANGED <<service, starter, poll, remover>> /\ (~mixed' => ~mixed)
  <2>1. CASE SwitchSteps
    BY <2>1 DEF SwitchSteps, SwitchStep, historyVars
  <2>2. ASSUME NEW origin \in Origins, SwitchService(origin)
        PROVE  UNCHANGED <<service, starter, poll, remover>> /\ (~mixed' => ~mixed)
    <3>1. UNCHANGED <<service, starter, poll, remover>>
      BY <2>2 DEF SwitchService
    <3>2. mixed' = (mixed \/ SigningIn \/ Removing)
      BY <2>2 DEF SwitchService
    <3> QED
      BY <3>1, <3>2
  <2> QED
    BY <2>1, <2>2
<1> SUFFICES ASSUME ~mixed, ~mixed' PROVE (HeldAtHome /\ CarriedAtHome /\ SwitchAtRest)'
  BY <1>1 DEF HomeInv
<1>2. HeldAtHome /\ CarriedAtHome /\ SwitchAtRest
  BY DEF HomeInv
<1>3. CASE \E origin \in Origins : SwitchService(origin)
  <2>1. local' = local /\ switcher'.pc = "accounts"
    BY <1>3 DEF SwitchService
  <2>2. mixed' = (mixed \/ SigningIn \/ Removing)
    BY <1>3 DEF SwitchService
  <2>3. ~SigningIn /\ ~Removing
    BY <2>2
  <2>4. AtRest
    BY <2>3 DEF SigningIn, Removing, AtRest
  <2> QED
    BY <1>1, <1>2, <2>1, <2>4
       DEF HeldAtHome, CarriedAtHome, SwitchAtRest, AtRest, AllHomely, Homely
<1>4. CASE SwitchSteps
  <2>1. AtRest /\ switcher.pc # "off"
    BY <1>2, <1>4 DEF SwitchAtRest, SwitchSteps, SwitchStep
  <2>2. starter.login = NoLogin /\ poll.login = NoLogin
    BY <2>1 DEF Shape, AtRest
  <2>3. \/ /\ switcher.pc = "accounts" /\ switcher'.pc = "active"
           /\ local'.accounts = [p \in People |-> NoLogin]
           /\ local'.origin = local.origin /\ local'.pending = local.pending
        \/ /\ switcher.pc \in {"active", "pending"} /\ switcher'.pc \in {"pending", "origin"}
           /\ local'.accounts = local.accounts
           /\ local'.origin = local.origin /\ local'.pending \in {local.pending, NoLogin}
        \/ /\ switcher.pc = "origin" /\ switcher'.pc = "off"
           /\ local'.accounts = local.accounts /\ local'.pending = local.pending
    BY <1>0, <1>4 DEF SwitchSteps, SwitchStep, Stored, Switches, NoSwitch
  <2>4. \A p \in People : local'.accounts[p] = NoLogin
    BY <1>2, <2>3 DEF SwitchAtRest
  <2>5. local'.pending = NoLogin
    BY <2>1, <2>3 DEF AtRest
  <2>6. HeldAtHome'
    BY <1>1, <2>2, <2>4, <2>5 DEF HeldAtHome, AllHomely, Homely
  <2>7. CarriedAtHome' /\ SwitchAtRest'
    BY <1>1, <2>1, <2>4, <2>5 DEF CarriedAtHome, SwitchAtRest, AtRest
  <2> QED
    BY <2>6, <2>7
<1> QED
  BY <1>3, <1>4

LEMMA HomeByRemoval ==
  ASSUME Shape, HomeInv,
         \/ Logout \/ LogoutReadsToken \/ LogoutRevokes
         \/ RequestStarts \/ RequestSent \/ RequestAnswered
         \/ \E r \in Removers :
              RemoveLoads(r) \/ RemoveSaves(r) \/ RemoveChecks(r) \/ RemovePromotes(r)
  PROVE  HomeInv'
<1>0. /\ local \in Stored /\ service \in [Logins -> Issued] /\ SessionTypeOK
      /\ remover \in [Removers -> Removals] /\ local.accounts \in Tokens
      /\ \A r \in Removers : remover[r] \in Removals
  BY DEF Shape, SessionTypeOK, Stored
<1>1. UNCHANGED <<starter, poll, switcher>>
  BY DEF Logout, LogoutReadsToken, LogoutRevokes, RequestStarts, RequestSent,
         RequestAnswered, RemoveLoads, RemoveSaves, RemoveChecks, RemovePromotes, OthersStay
<1>2. ASSUME NEW r \in Removers, remover[r].pc # "off", ~mixed
      PROVE  switcher.pc = "off"
  BY <1>2 DEF HomeInv, SwitchAtRest, AtRest
<1>3. ASSUME NEW r \in Removers, NEW row, Removal(r, row)
      PROVE  remover'[r] = row /\ \A s \in Removers \ {r} : remover'[s] = remover[s]
  BY <1>0, <1>3 DEF Removal
<1>4. ASSUME NEW r \in Removers, NEW row, Removal(r, row), row.pc # "saving",
             remover[r].pc # "off", OnlyStates, local' = [local EXCEPT !.active = local'.active],
             mixed' = mixed
      PROVE  HomeInv'
  <2>1. \A s \in Removers : \/ remover'[s] \in {remover[s], NoRemoval}
                            \/ remover'[s].pc # "saving" /\ remover[s].pc # "off"
    BY <1>3, <1>4
  <2>2. /\ local'.accounts = local.accounts /\ local'.pending = local.pending
        /\ local'.origin = local.origin
    BY <1>0, <1>4 DEF Stored
  <2> QED
    BY <1>1, <1>4, <2>1, <2>2, HomeQuiet DEF HandsEmpty
<1>5. ASSUME NEW r \in Removers, NEW row, Removal(r, row), row.pc # "saving",
             UNCHANGED <<local, service>>, ~mixed' => ~mixed /\ switcher.pc = "off"
      PROVE  HomeInv'
  <2> SUFFICES ASSUME ~mixed, switcher.pc = "off" PROVE HeldAtHome' /\ CarriedAtHome'
    BY <1>1, <1>5, HomeBusy
  <2>1. HeldAtHome /\ CarriedAtHome
    BY DEF HomeInv
  <2>2. \A s \in Removers : remover'[s].pc = "saving" => remover'[s] = remover[s]
    BY <1>3, <1>5
  <2> QED
    BY <1>1, <1>5, <2>1, <2>2 DEF HeldAtHome, CarriedAtHome, AllHomely, Homely
<1>6. local = [local EXCEPT !.active = local.active]
  BY <1>0 DEF Stored
<1>7. CASE Logout
  BY <1>5, <1>7 DEF Logout, NoRemoval, Removers
<1>8. CASE LogoutReadsToken
  <2> DEFINE token == local.accounts[remover["logout"].person]
             row == [remover["logout"] EXCEPT
                       !.token = token,
                       !.pc = IF token = NoLogin THEN "loading" ELSE "revoking"]
  <2>1. /\ mixed' = mixed /\ UNCHANGED <<local, service>> /\ remover["logout"].pc # "off"
        /\ Removal("logout", row)
    BY <1>8 DEF LogoutReadsToken, OthersStay, historyVars
  <2> HIDE DEF token
  <2>2. row.pc # "saving"
    BY <1>0 DEF Removals, Removers
  <2> HIDE DEF row
  <2> QED
    BY <1>4, <1>6, <2>1, <2>2, Untouched DEF Removers
<1>9. CASE LogoutRevokes
  <2> PICK row : Removal("logout", row) /\ row.pc = "loading"
    BY <1>0, <1>9 DEF LogoutRevokes, Removals, Removers
  <2>1. mixed' = mixed /\ UNCHANGED local /\ remover["logout"].pc # "off"
    BY <1>9 DEF LogoutRevokes, OthersStay, historyVars
  <2> QED
    BY <1>0, <1>4, <1>6, <1>9, <2>1, Revokes DEF Removers
<1>10. CASE RequestStarts \/ RequestSent
  <2>1. UNCHANGED <<local, service, remover, mixed>>
    BY <1>10 DEF RequestStarts, RequestSent, historyVars
  <2> QED
    BY <1>1, <2>1, Untouched, HomeQuiet DEF HandsEmpty
<1>11. CASE RequestAnswered
  <2>1. UNCHANGED <<local, service>>
    BY <1>11 DEF RequestAnswered
  <2>2. CASE UNCHANGED <<remover, mixed>>
    BY <1>1, <2>1, <2>2, Untouched, HomeQuiet DEF HandsEmpty
  <2>3. ASSUME NEW p \in People,
               Removal("request", [NoRemoval EXCEPT !.pc = "loading", !.person = p]),
               mixed' = (mixed \/ switcher.pc # "off")
        PROVE  HomeInv'
    <3>1. [NoRemoval EXCEPT !.pc = "loading", !.person = p].pc # "saving"
      BY DEF NoRemoval
    <3> QED
      BY <1>5, <2>1, <2>3, <3>1 DEF Removers
  <2> QED
    BY <1>11, <2>2, <2>3 DEF RequestAnswered
<1>12. ASSUME NEW r \in Removers, RemoveLoads(r) PROVE HomeInv'
  <2> DEFINE accounts == [local.accounts EXCEPT ![remover[r].person] = NoLogin]
             row == [remover[r] EXCEPT !.pc = "saving", !.accounts = accounts]
  <2>1. \A p \in People : accounts[p] \in {local.accounts[p], NoLogin}
    BY <1>0 DEF Tokens
  <2>2. row.accounts = accounts /\ Removal(r, row)
    BY <1>0, <1>12 DEF RemoveLoads, Removals
  <2>3. UNCHANGED <<local, service, mixed>> /\ remover[r].pc # "off"
    BY <1>12 DEF RemoveLoads, OthersStay, historyVars
  <2> HIDE DEF accounts, row
  <2>4. remover'[r].accounts = accounts /\ \A s \in Removers \ {r} : remover'[s] = remover[s]
    BY <1>3, <2>2
  <2> SUFFICES ASSUME ~mixed PROVE HeldAtHome' /\ CarriedAtHome'
    BY <1>1, <1>2, <2>3, HomeBusy
  <2>5. HeldAtHome /\ CarriedAtHome
    BY DEF HomeInv
  <2>6. AllHomely(remover[r].accounts)'
    BY <2>1, <2>3, <2>4, <2>5 DEF HeldAtHome, AllHomely, Homely
  <2> QED
    BY <1>1, <2>3, <2>4, <2>5, <2>6 DEF HeldAtHome, CarriedAtHome, AllHomely, Homely
<1>13. ASSUME NEW r \in Removers, RemoveSaves(r) PROVE HomeInv'
  <2> PICK row : Removal(r, row) /\ row.pc = "checking"
    BY <1>0, <1>13 DEF RemoveSaves, Removals
  <2>1. /\ UNCHANGED <<service, mixed>> /\ remover[r].pc = "saving"
        /\ local'.accounts = remover[r].accounts /\ local'.pending = local.pending
        /\ local'.origin = local.origin
    BY <1>0, <1>13 DEF RemoveSaves, OthersStay, historyVars, Stored
  <2>2. remover'[r].pc = "checking" /\ \A s \in Removers \ {r} : remover'[s] = remover[s]
    BY <1>3
  <2> SUFFICES ASSUME ~mixed PROVE HeldAtHome' /\ CarriedAtHome'
    BY <1>1, <1>2, <2>1, HomeBusy
  <2>3. HeldAtHome /\ CarriedAtHome
    BY DEF HomeInv
  <2>4. AllHomely(local.accounts)'
    BY <2>1, <2>3 DEF CarriedAtHome, AllHomely, Homely
  <2> QED
    BY <1>1, <2>1, <2>2, <2>3, <2>4 DEF HeldAtHome, CarriedAtHome, AllHomely, Homely
<1>14. ASSUME NEW r \in Removers, RemoveChecks(r) \/ RemovePromotes(r) PROVE HomeInv'
  <2> PICK row : Removal(r, row) /\ row.pc # "saving"
    BY <1>0, <1>14 DEF RemoveChecks, RemovePromotes, Removals, NoRemoval
  <2>1. /\ UNCHANGED <<service, mixed>> /\ remover[r].pc # "off"
        /\ local' = [local EXCEPT !.active = local'.active]
    BY <1>0, <1>14 DEF RemoveChecks, RemovePromotes, OthersStay, historyVars, Stored
  <2> QED
    BY <1>4, <2>1, Untouched
<1> QED
  BY <1>7, <1>8, <1>9, <1>10, <1>11, <1>12, <1>13, <1>14

LEMMA HomeStep ==
  ASSUME Shape, HomeInv, SessionNext
  PROVE  HomeInv'
<1>1. ASSUME NEW l \in Logins,
             \/ Deny(l) \/ DeadlinePasses(l) \/ Revoke(l)
             \/ \E p \in People : Approve(l, p)
      PROVE  HomeInv'
  <2>1. OnlyStates
    BY <1>1, IssuerMoves DEF Shape, SessionTypeOK
  <2>2. UNCHANGED <<local, poll, starter, switcher, remover, mixed>>
    BY <1>1 DEF Deny, DeadlinePasses, Revoke, Approve, workerVars, historyVars
  <2> QED
    BY <2>1, <2>2, HomeQuiet DEF HandsEmpty
<1> QED
  BY <1>1, HomeByPoll, HomeByLogin, HomeBySwitch, HomeByRemoval DEF SessionNext

\* A request sent to the configured service never carries another's token, unless
\* a sign-in or a removal has overlapped with a switch of service (client.ts,
\* session.ts).
THEOREM OldTokensStayHomeHolds == SessionSpec => OldTokensStayHome
<1>1. Shape /\ HomeInv /\ UNCHANGED sessionVars => HomeInv'
  BY DEF HomeInv, HeldAtHome, CarriedAtHome, SwitchAtRest, AtRest, AllHomely, Homely,
         sessionVars, workerVars, historyVars
<1>2. Shape /\ HomeInv /\ [SessionNext]_sessionVars =>
        [ /\ request.pc = "addressed" /\ request'.pc = "sent" /\ ~mixed
          /\ request.origin = local.origin
          => service[request'.token].origin = request.origin ]_sessionVars
  <2> SUFFICES ASSUME Shape, HomeInv, SessionNext, ~mixed,
                      request.pc = "addressed", request'.pc = "sent",
                      request.origin = local.origin
               PROVE  service[request'.token].origin = request.origin
    OBVIOUS
  <2>1. request \in Requests /\ local \in Stored
    BY DEF Shape, SessionTypeOK
  <2>2. RequestSent
    <3>1. request'.pc # request.pc
      OBVIOUS
    <3>2. ~(PollSteps \/ PollFails)
      BY <3>1 DEF PollSteps, PollFails, ReadPending, HearVerdict, ClearPending,
                  LoadAccounts, SaveAccounts, Activate
    <3>3. ~(LoopPolls \/ AlarmPolls \/ WorkerStarts \/ PopupPolls \/ ClosePopup
            \/ StartLogin \/ LoginSteps)
      BY <3>1 DEF LoopPolls, AlarmPolls, WorkerStarts, PopupPolls, ClosePopup, StartLogin,
                  LoginSteps, LoginCreated, SaveLogin, OpenApproval
    <3>4. ~(Evict \/ RequestStarts \/ RequestAnswered)
      BY DEF Evict, NoRequest, RequestStarts, RequestAnswered
    <3>5. \A l \in Logins : ~(Deny(l) \/ DeadlinePasses(l) \/ Revoke(l))
                            /\ \A p \in People : ~Approve(l, p)
      BY <3>1 DEF Deny, DeadlinePasses, Revoke, Approve, workerVars
    <3>6. ~SwitchSteps /\ \A origin \in Origins : ~SwitchService(origin)
      BY <3>1 DEF SwitchService, SwitchSteps, SwitchStep
    <3>7. ~(Logout \/ LogoutReadsToken \/ LogoutRevokes)
          /\ \A r \in Removers : ~(RemoveLoads(r) \/ RemoveSaves(r) \/ RemoveChecks(r)
                                   \/ RemovePromotes(r))
      BY <3>1 DEF Logout, LogoutReadsToken, LogoutRevokes, RemoveLoads, RemoveSaves,
                  RemoveChecks, RemovePromotes, OthersStay
    <3> QED
      BY <3>2, <3>3, <3>4, <3>5, <3>6, <3>7 DEF SessionNext
  <2>3. ActiveToken # NoLogin /\ request'.token = ActiveToken
    BY <2>1, <2>2 DEF RequestSent, NoRequest, Requests
  <2>4. local.active \in People /\ ActiveToken = local.accounts[local.active]
    BY <2>1, <2>3 DEF ActiveToken, Stored
  <2> QED
    BY <2>3, <2>4 DEF HomeInv, HeldAtHome, AllHomely, Homely
<1> QED
  BY ShapeInitially, ShapeStep, ShapeStutters, HomeInitially, HomeStep, <1>1, <1>2, PTL
     DEF SessionSpec, OldTokensStayHome

\* A token is handed over once, to the person who granted its login, and is sent
\* to the service it is of only (login.ts, session.ts, client.ts).
THEOREM TokensGuardedHolds == SessionSpec => TokensGuarded
BY LoginsAreGrantsHolds, OldTokensStayHomeHolds DEF TokensGuarded

-----------------------------------------------------------------------------
(* The parts side by side *)

\* Side by side each part does what it does alone: what is proved of a part holds
\* of the extension (Extension joins them because they share no state).
THEOREM PartsBehave ==
  ExtensionSpec => SessionSpec /\ RingSpec /\ PlayerSpec /\ ComposerSpec
<1>1. ExtensionInit => SessionInit /\ RingInit /\ PlayerInit /\ ComposerInit
  BY DEF ExtensionInit
<1>2. [ExtensionNext]_extensionVars =>
        /\ [SessionNext]_sessionVars /\ [RingNext]_ringVars
        /\ [PlayerNext]_playerVars /\ [ComposerNext]_composerVars
  BY DEF ExtensionNext, extensionVars
<1> QED
  BY <1>1, <1>2, PTL DEF ExtensionSpec, SessionSpec, RingSpec, PlayerSpec, ComposerSpec

\* The state of every part has its type, whichever part acts.
THEOREM ExtensionTyped == ExtensionSpec => []ExtensionTypeOK
<1>1. SessionSpec => []Shape
  BY ShapeInitially, ShapeStep, ShapeStutters, PTL DEF SessionSpec
<1>2. Shape /\ RingInv /\ PlayerTypeOK /\ ComposerInv => ExtensionTypeOK
  BY DEF ExtensionTypeOK, Shape, RingInv, ComposerInv
<1> QED
  BY PartsBehave, <1>1, <1>2, RingInvariance, PlayerTyped, ComposerInvariance, PTL

\* What the run of the extension checks, of the extension as a whole: a stored
\* sign-in is not refused, no answer is invented, a Story said to be posted is
\* settled, a token is handed over once and goes to no other service, and media is
\* fetched for what is shown.
THEOREM ExtensionSafe ==
  ExtensionSpec => /\ []SessionInv /\ []NoInventedAnswer /\ []PostedHasSettled
                   /\ TokensGuarded /\ OnlyShownIsFetched
BY PartsBehave, SessionInvHolds, NoInventedAnswerHolds, PostedHasSettledHolds,
   TokensGuardedHolds, OnlyShownIsFetchedHolds, PTL

=============================================================================
