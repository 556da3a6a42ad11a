------------------------------ MODULE StoryPlayer ------------------------------
(***************************************************************************)
(* The Story viewer of the extension: the overlay that opens it            *)
(* (overlayHost.tsx), its state (StoryViewer.tsx), the bridge that fetches *)
(* what it shows (ViewerBridge.tsx) and the cache of fetched media         *)
(* (mediaCache.ts).  The service records a view when it delivers media, so *)
(* what is fetched, and when, matters.                                     *)
(*                                                                         *)
(* A step that is not an animation frame is rendered at once; the frame    *)
(* that ends an item only queues its update, and a key may come before it  *)
(* is rendered, with the item index of the last render.                    *)
(***************************************************************************)
EXTENDS Integers, Sequences

CONSTANTS
  Tray,         \* the groups of Stories: a sequence of non-empty sequences
  NoStory,
  MaxTouches    \* bound on gestures, failures and expiries

VARIABLES
  viewer,       \* the viewer's state; `queued` is the item index captured by an
                \* update that is queued and not rendered, 0 if there is none
  media,        \* MediaUrlCache of the open viewer
  opening,      \* whether an openViewerForLogin awaits its answer
  lapsed,       \* items whose expiry timer has fired (expiredIds)
  touches,
  raced         \* history: a gesture has come between a frame and its render

playerVars == <<viewer, media, opening, lapsed, touches, raced>>

Stories == UNION {{Tray[g][i] : i \in 1..Len(Tray[g])} : g \in 1..Len(Tray)}

ASSUME TrayAssumption ==
  /\ Len(Tray) \in Nat \ {0} /\ \A g \in 1..Len(Tray) : Len(Tray[g]) \in Nat \ {0}
  /\ MaxTouches \in Nat

ItemOf(v) ==
  IF v.open /\ v.item \in 1..Len(Tray[v.group]) THEN Tray[v.group][v.item] ELSE NoStory

Closed == [open |-> FALSE, group |-> 1, item |-> 1, pause |-> FALSE, busy |-> FALSE,
           status |-> "loading", queued |-> 0]
NoMedia == [urls |-> {}, failed |-> {}, inflight |-> {}]

Viewers == [open: BOOLEAN, group: 1..Len(Tray), item: Nat \ {0}, pause: BOOLEAN,
            busy: BOOLEAN, status: {"loading", "ready", "error"}, queued: Nat]
Caches == [urls: SUBSET Stories, failed: SUBSET Stories, inflight: SUBSET Stories]

PlayerTypeOK ==
  /\ viewer \in Viewers /\ media \in Caches
  /\ opening \in BOOLEAN /\ lapsed \subseteq Stories
  /\ touches \in 0..MaxTouches /\ raced \in BOOLEAN

PlayerInit ==
  /\ viewer = Closed /\ media = NoMedia /\ opening = FALSE
  /\ lapsed = {} /\ touches = 0 /\ raced = FALSE

Touch == touches < MaxTouches /\ touches' = touches + 1

-----------------------------------------------------------------------------
(* MediaUrlCache and the bridge *)

\* ensure: nothing is fetched that is cached, in flight or failed a moment ago.
Ensured(cache, story) ==
  IF story = NoStory \/ story \in cache.urls \cup cache.inflight \cup cache.failed
  THEN cache ELSE [cache EXCEPT !.inflight = @ \cup {story}]

\* The group that follows is warmed: only its first item, once the viewer moves
\* to it.  Slip: the item after it too.
WarmedAhead(cache, v) ==
  Ensured(Ensured(cache, Tray[v.group][1]),
          IF Len(Tray[v.group]) > 1 THEN Tray[v.group][2] ELSE NoStory)
Warmed(cache, v) == Ensured(cache, Tray[v.group][1])

\* Rendering asks for the media of the item on screen, unless it has expired,
\* and shows it as loading when the item is another.
Rendered(v) ==
  [v EXCEPT !.queued = 0, !.status = IF ItemOf(v) = ItemOf(viewer) THEN @ ELSE "loading"]

RenderedMedia(cache, v) ==
  IF ~v.open THEN NoMedia
  ELSE IF ItemOf(v) \in lapsed THEN cache ELSE Ensured(cache, ItemOf(v))

\* The viewer becomes v, having warmed `cache`.
Render(v, cache) ==
  /\ viewer' = Rendered(v)
  /\ media' = RenderedMedia(cache, v)

MediaAnswered(story, ok) ==
  /\ story \in media.inflight
  /\ IF ok THEN UNCHANGED touches ELSE Touch
  /\ media' = [media EXCEPT !.inflight = @ \ {story},
                            !.urls = IF ok THEN @ \cup {story} ELSE @,
                            !.failed = IF ok THEN @ \ {story} ELSE @ \cup {story}]
  /\ UNCHANGED <<viewer, opening, lapsed, raced>>

CooldownEnds(story) ==
  /\ story \in media.failed
  /\ media' = [media EXCEPT !.failed = @ \ {story}]
  /\ UNCHANGED <<viewer, opening, lapsed, touches, raced>>

\* The element has loaded its URL, or cannot.
MediaLoads(ok) ==
  /\ ItemOf(viewer) \in media.urls \ lapsed /\ viewer.status = "loading"
  /\ IF ok THEN UNCHANGED touches ELSE Touch
  /\ viewer' = [viewer EXCEPT !.status = IF ok THEN "ready" ELSE "error"]
  /\ UNCHANGED <<media, opening, lapsed, raced>>

-----------------------------------------------------------------------------
(* Moving on *)

\* goNext and goPrev, with the item index their closure has captured.  Slips: the
\* last item of a group has no successor; the first one has a predecessor.
GoNextInGroup(v, at) == IF at < Len(Tray[v.group]) THEN [v EXCEPT !.item = at + 1] ELSE v
GoNext(v, at) ==
  IF at < Len(Tray[v.group]) THEN [v EXCEPT !.item = at + 1]
  ELSE IF v.group < Len(Tray) THEN [v EXCEPT !.group = @ + 1, !.item = 1]
  ELSE Closed

GoPrevTooFar(v, at) == IF at > 0 THEN [v EXCEPT !.item = at - 1] ELSE v
GoPrev(v, at) ==
  IF at > 1 THEN [v EXCEPT !.item = at - 1]
  ELSE IF v.group > 1 THEN [v EXCEPT !.group = @ - 1, !.item = Len(Tray[v.group - 1])]
  ELSE v

\* onAdvanceGroup, when a goNext has left the group.
Followed(cache, before, after) ==
  IF after.open /\ after.group > before.group THEN Warmed(cache, after) ELSE cache

Queued(v) == IF v.queued = 0 THEN v ELSE GoNext(v, v.queued)

Paused(v) ==
  v.pause \/ v.busy \/ ItemOf(v) \in lapsed \/ ItemOf(v) = NoStory

\* The frame, or the end of the video, at which the item is over.
FrameEnds ==
  /\ viewer.open /\ viewer.status = "ready" /\ ~Paused(viewer) /\ viewer.queued = 0
  /\ viewer' = [viewer EXCEPT !.queued = viewer.item]
  /\ UNCHANGED <<media, opening, lapsed, touches, raced>>

QueuedRendered ==
  LET next == Queued(viewer)
  IN  /\ viewer.open /\ viewer.queued # 0
      /\ Render(next, Followed(media, viewer, next))
      /\ UNCHANGED <<opening, lapsed, touches, raced>>

\* A key or a tap that leads to v: a queued update is applied before it, and may
\* have closed the viewer.
Gesture(v) ==
  LET first == Queued(viewer)
      then == IF first.open THEN v ELSE first
  IN  /\ viewer.open /\ Touch
      /\ Render(then, Followed(Followed(media, viewer, first), first, then))
      /\ raced' = (raced \/ viewer.queued # 0)
      /\ UNCHANGED <<opening, lapsed>>

\* Space or holding the pointer; the reply field, the menu or a hidden document.
TogglePause ==
  /\ viewer.open /\ Touch
  /\ \/ viewer' = [viewer EXCEPT !.pause = ~@]
     \/ viewer' = [viewer EXCEPT !.busy = ~@]
  /\ UNCHANGED <<media, opening, lapsed, raced>>

ItemLapses ==
  /\ ItemOf(viewer) \notin lapsed \cup {NoStory} /\ Touch
  /\ lapsed' = lapsed \cup {ItemOf(viewer)}
  /\ UNCHANGED <<viewer, media, opening, raced>>

Close ==
  /\ viewer.open /\ Touch
  /\ viewer' = Closed /\ media' = NoMedia
  /\ UNCHANGED <<opening, lapsed, raced>>

\* openViewerForLogin, up to its answer and from it; an overlay that is already
\* open keeps its position.
AskToOpen ==
  /\ ~opening /\ ~viewer.open /\ Touch
  /\ opening' = TRUE
  /\ UNCHANGED <<viewer, media, lapsed, raced>>

OpenAnswered ==
  LET v == [Closed EXCEPT !.open = TRUE]
  IN  /\ opening /\ opening' = FALSE
      /\ IF viewer.open THEN UNCHANGED <<viewer, media>>
         ELSE Render(v, Warmed(NoMedia, v))
      /\ UNCHANGED <<lapsed, touches, raced>>

-----------------------------------------------------------------------------
MediaSteps == \E story \in Stories, ok \in BOOLEAN : MediaAnswered(story, ok)
ElementSteps == \E ok \in BOOLEAN : MediaLoads(ok)

PlayerNext ==
  \/ FrameEnds \/ QueuedRendered \/ OpenAnswered
  \/ MediaSteps \/ ElementSteps
  \/ \E story \in Stories : CooldownEnds(story)
  \/ Gesture(GoNext(Queued(viewer), viewer.item))
  \/ Gesture(GoPrev(Queued(viewer), viewer.item))
  \/ TogglePause \/ ItemLapses \/ Close \/ AskToOpen

PlayerSpec == PlayerInit /\ [][PlayerNext]_playerVars

-----------------------------------------------------------------------------
(* Properties *)

\* Media is fetched only for the item that comes on screen, never ahead of it:
\* a fetch records a view (mediaCache.ts, ViewerBridge.tsx).  A gesture that
\* overtakes the render of a finished item is left out (see raced).
OnlyShownIsFetched ==
  [][ \A story \in media'.inflight \ media.inflight :
        story = ItemOf(viewer)' \/ raced' ]_playerVars

\* A viewer nobody pauses plays to its end, as long as the media of each item on
\* screen can be had: no item is waited for that nobody has asked for.
PlaysToTheEnd ==
  <>[](viewer.open => /\ ~Paused(viewer) /\ viewer.status # "error"
                      /\ ItemOf(viewer) \in media.urls \cup media.inflight)
    => <>[]~viewer.open

=============================================================================
