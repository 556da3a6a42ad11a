----------------------------- MODULE TerminalViewer -----------------------------
(***************************************************************************)
(* The full-screen viewer of the command line (internal/tui): one model    *)
(* that handles keys, clock ticks and the answers of tasks one message     *)
(* at a time, and is drawn after each.  Fetches, the decoding of a video   *)
(* and the start of its animation are tasks that run on their own and      *)
(* answer later, maybe about an item the viewer has left.                  *)
(*                                                                         *)
(* Pictures on the terminal are named by the item they show, animations by *)
(* the number they were registered under.                                  *)
(***************************************************************************)
EXTENDS Integers, Sequences

CONSTANTS
  Shelf,          \* the groups: a sequence of sequences of items
  Videos,         \* items that are videos, on a terminal that can animate
  NoItem,
  ItemTicks,      \* clock ticks an item is shown
  MaxAnimations,  \* bound on animations started
  MaxKeys         \* bound on keys, resizes, failures and expiries, with the start

ASSUME TuiAssumption ==
  /\ Len(Shelf) \in Nat \ {0} /\ \A g \in 1..Len(Shelf) : Len(Shelf[g]) \in Nat
  /\ {ItemTicks, MaxAnimations} \subseteq Nat /\ MaxKeys \in Nat \ {0}

VARIABLES
  tui,            \* the Model; `quitting` also before the viewer is opened
  terminal,       \* what the terminal shows, and the frame files on disk
  tasks,          \* tasks that run, and messages not handled yet
  lapsed,        \* items whose expiry has passed
  keys,
  interrupted     \* history: a viewers list arrived while a reply was typed

tuiVars == <<tui, terminal, tasks, lapsed, keys, interrupted>>

Items == UNION {{Shelf[g][i] : i \in 1..Len(Shelf[g])} : g \in 1..Len(Shelf)}
Modes == {"viewing", "replying", "reacting", "viewers"}
Tasks ==
  [kind: {"media", "frames", "animate", "animated", "viewers"},
   item: Items, stale: Items \cup {NoItem}, number: 0..MaxAnimations]

Task(kind, item) == [kind |-> kind, item |-> item, stale |-> NoItem, number |-> 0]

\* currentItem: NoItem in a group without items.
ItemAt(m) ==
  IF m.item \in 1..Len(Shelf[m.group]) THEN Shelf[m.group][m.item] ELSE NoItem

Models ==
  [group: 1..Len(Shelf), item: Int, mode: Modes, typed: Items \cup {NoItem},
   paused: BOOLEAN, loading: BOOLEAN, clock: 0..ItemTicks,
   current: Items \cup {NoItem}, placed: Items \cup {NoItem}, clears: SUBSET Items,
   frames: Items \cup {NoItem}, animation: 0..MaxAnimations,
   stops: SUBSET (1..MaxAnimations), quitting: BOOLEAN]
Screens ==
  [stills: SUBSET Items, playing: SUBSET (1..MaxAnimations),
   files: SUBSET (1..MaxAnimations), started: 0..MaxAnimations]

TuiTypeOK ==
  /\ tui \in Models /\ terminal \in Screens
  /\ tasks \subseteq Tasks
  /\ lapsed \subseteq Items
  /\ keys \in 0..MaxKeys
  /\ interrupted \in BOOLEAN

-----------------------------------------------------------------------------
(* Parts of the handlers, as functions of the Model *)

\* What loading the item on screen asks for: a still or a poster, and for a
\* video its frames.
Loads(m) ==
  LET it == ItemAt(m)
  IN  IF it = NoItem \/ m.quitting THEN {}
      ELSE {Task("media", it)} \cup
           (IF it \in Videos THEN {Task("frames", it)} ELSE {})

LoadCurrent(m) ==
  IF ItemAt(m) = NoItem THEN m
  ELSE [m EXCEPT !.loading = TRUE, !.current = NoItem, !.clock = 0]

\* clearImage: the deletion is queued for the next frame.
ClearImage(m) ==
  IF m.placed = NoItem THEN m
  ELSE [m EXCEPT !.clears = @ \cup {m.placed}, !.placed = NoItem]

StopAnimation(m) ==
  IF m.animation = 0 THEN m
  ELSE [m EXCEPT !.stops = @ \cup {m.animation}, !.animation = 0]

Cleared(m) == ClearImage(StopAnimation(m))

Advance(m) ==
  IF m.item < Len(Shelf[m.group]) THEN LoadCurrent([m EXCEPT !.item = @ + 1])
  ELSE IF m.group < Len(Shelf) THEN LoadCurrent([m EXCEPT !.group = @ + 1, !.item = 1])
  ELSE [m EXCEPT !.quitting = TRUE]

Back(m) ==
  IF m.item > 1 THEN LoadCurrent([m EXCEPT !.item = @ - 1])
  ELSE IF m.group > 1
       THEN LoadCurrent([m EXCEPT !.group = @ - 1,
                                  !.item = IF Shelf[m.group - 1] = <<>> THEN 1
                                           ELSE Len(Shelf[m.group - 1])])
  ELSE m

NextAuthor(m) ==
  IF m.group < Len(Shelf)
  THEN LoadCurrent([Cleared(m) EXCEPT !.group = @ + 1, !.item = 1]) ELSE m

PreviousAuthor(m) ==
  IF m.group > 1
  THEN LoadCurrent([Cleared(m) EXCEPT !.group = @ - 1, !.item = 1]) ELSE m

\* hasInlineVideo
Inline(m) == ItemAt(m) # NoItem /\ m.frames = ItemAt(m)

\* View, drawn after every message unless the viewer is quitting: it deletes
\* what was cleared, stops what was stopped and places the current picture if it
\* is not there already.
Places(m) ==
  m.current # NoItem /\ m.mode = "viewing" /\ ~Inline(m) /\ m.placed # m.current

ViewedModel(m) ==
  IF m.quitting \/ ItemAt(m) = NoItem THEN m
  ELSE [m EXCEPT !.clears = {}, !.stops = {},
                 !.placed = IF Places(m) THEN m.current ELSE @]

ViewedTerminal(m, t) ==
  IF m.quitting \/ ItemAt(m) = NoItem THEN t
  ELSE [t EXCEPT !.stills = IF Places(m)
                            THEN (@ \ (m.clears \cup {m.placed})) \cup {m.current}
                            ELSE @ \ m.clears,
                 !.playing = @ \ m.stops]

\* A message is handled: the Model becomes m and is drawn.  Frame files go with
\* the animation that is stopped.
Handle(m) ==
  /\ tui' = ViewedModel(m)
  /\ terminal' = ViewedTerminal(m, [terminal EXCEPT !.files = @ \ m.stops])

Key == ~tui.quitting /\ keys < MaxKeys /\ keys' = keys + 1

-----------------------------------------------------------------------------
Unopened ==
  [group |-> 1, item |-> 1, mode |-> "viewing", typed |-> NoItem,
   paused |-> FALSE, loading |-> FALSE, clock |-> 0, current |-> NoItem,
   placed |-> NoItem, clears |-> {}, frames |-> NoItem, animation |-> 0,
   stops |-> {}, quitting |-> TRUE]

TuiInit ==
  /\ tui = Unopened
  /\ terminal = [stills |-> {}, playing |-> {}, files |-> {}, started |-> 0]
  /\ tasks = {}
  /\ lapsed = {} /\ keys = 0 /\ interrupted = FALSE

\* The command opens the viewer: Run, and the model's Init.
OpenViewer ==
  LET m == LoadCurrent([tui EXCEPT !.quitting = FALSE])
  IN  /\ keys = 0 /\ keys' = 1
      /\ Handle(m) /\ tasks' = Loads(m)
      /\ UNCHANGED <<lapsed, interrupted>>

\* A key that leads to the Model m, which loads the item it has moved to.
Move(m) ==
  /\ tui.mode = "viewing" /\ Key
  /\ Handle(m)
  /\ tasks' = tasks \cup
       (IF <<m.group, m.item>> = <<tui.group, tui.item>> THEN {} ELSE Loads(m))
  /\ UNCHANGED <<lapsed, interrupted>>

\* "q": the clearing is queued, the program ends.
Quit ==
  /\ tui.mode = "viewing" /\ Key
  /\ Handle(Cleared([tui EXCEPT !.quitting = TRUE]))
  /\ UNCHANGED <<tasks, lapsed, interrupted>>

Resize ==
  LET m == LoadCurrent(Cleared(tui))
  IN  /\ Key
      /\ Handle(m)
      /\ tasks' = tasks \cup Loads(m)
      /\ UNCHANGED <<lapsed, interrupted>>

\* The clock of the item on screen, and what its end or its expiry does.
Leave(m) ==
  LET next == Advance(Cleared(m))
  IN  Handle(next) /\ tasks' = tasks \cup Loads(next)

\* The clock stands still while paused, while something is typed or read, and
\* while the media loads.  Slip: typing does not stop it.
StandsWhenPaused(m) == m.paused \/ m.loading
Stands(m) == m.paused \/ m.mode # "viewing" \/ m.loading

ClockTick ==
  /\ ~tui.quitting
  /\ \/ /\ ItemAt(tui) \in lapsed
        /\ Leave([tui EXCEPT !.current = NoItem])
     \/ /\ ItemAt(tui) \notin lapsed /\ ~Stands(tui)
        /\ IF tui.clock + 1 >= ItemTicks THEN Leave(tui)
           ELSE Handle([tui EXCEPT !.clock = @ + 1]) /\ UNCHANGED tasks
  /\ UNCHANGED <<lapsed, keys, interrupted>>

ItemExpires(it) ==
  /\ it \notin lapsed /\ Key
  /\ lapsed' = lapsed \cup {it}
  /\ UNCHANGED <<tui, terminal, tasks, interrupted>>

-----------------------------------------------------------------------------
(* Keys that do not move *)

Press(m) == Key /\ Handle(m) /\ UNCHANGED <<tasks, lapsed, interrupted>>

PauseKey == tui.mode = "viewing" /\ Press([tui EXCEPT !.paused = ~@])

ReplyKey == tui.mode = "viewing" /\ ItemAt(tui) # NoItem
            /\ Press([tui EXCEPT !.mode = "replying"])

\* Text is typed; text left over from an earlier reply is still there.
TypeKey ==
  /\ tui.mode = "replying"
  /\ Press([tui EXCEPT !.typed = IF @ = NoItem THEN ItemAt(tui) ELSE @])

\* Escape, or Enter: the reply goes to the item on screen.
EndReply == tui.mode = "replying"
            /\ Press([tui EXCEPT !.mode = "viewing", !.typed = NoItem])

ReactKey == tui.mode = "viewing" /\ ItemAt(tui) # NoItem
            /\ Press([tui EXCEPT !.mode = "reacting"])

AnyKey == tui.mode \in {"reacting", "viewers"} /\ Press([tui EXCEPT !.mode = "viewing"])

\* "v": the list of viewers is fetched.
ViewersKey ==
  /\ tui.mode = "viewing" /\ ItemAt(tui) # NoItem /\ Key
  /\ tasks' = tasks \cup {Task("viewers", ItemAt(tui))}
  /\ UNCHANGED <<tui, terminal, lapsed, interrupted>>

-----------------------------------------------------------------------------
(* Tasks and their messages *)

MayFail(ok) == IF ok THEN UNCHANGED keys ELSE keys < MaxKeys /\ keys' = keys + 1

\* mediaMsg: a stale answer says nothing of the picture, yet ends the loading.
\* Slip: a failed fetch does not end it.
LoadedIfFetched(m, ok) == IF ok THEN [m EXCEPT !.loading = FALSE] ELSE m
Loaded(m, ok) == [m EXCEPT !.loading = FALSE]

MediaArrives(c, ok) ==
  LET m == Loaded(tui, ok)
  IN  /\ c.kind = "media" /\ MayFail(ok) /\ ~tui.quitting
      /\ tasks' = tasks \ {c}
      /\ Handle(IF c.item # ItemAt(tui) THEN m
                ELSE [m EXCEPT !.current = IF ok THEN c.item ELSE NoItem])
      /\ UNCHANGED <<lapsed, interrupted>>

\* framesMsg: the frames of the item on screen are kept and their animation is
\* started, which takes over the picture that was placed.
FramesArrive(c, ok) ==
  /\ c.kind = "frames" /\ MayFail(ok) /\ ~tui.quitting
  /\ IF ok /\ c.item = ItemAt(tui) /\ terminal.started < MaxAnimations
     THEN /\ tasks' = (tasks \ {c}) \cup
               {[Task("animate", c.item) EXCEPT !.stale = tui.placed]}
          /\ Handle([tui EXCEPT !.frames = c.item, !.placed = NoItem])
     ELSE tasks' = tasks \ {c} /\ UNCHANGED <<tui, terminal>>
  /\ UNCHANGED <<lapsed, interrupted>>

\* The command writes the frame files and the animation to the terminal.
AnimationStarts(c) ==
  /\ c.kind = "animate" /\ terminal.started < MaxAnimations
  /\ LET n == terminal.started + 1
     IN  /\ terminal' = [stills |-> terminal.stills \ {c.stale},
                         playing |-> terminal.playing \cup {n},
                         files |-> terminal.files \cup {n}, started |-> n]
         /\ tasks' = (tasks \ {c}) \cup
              {[Task("animated", c.item) EXCEPT !.number = n]}
  /\ UNCHANGED <<tui, lapsed, keys, interrupted>>

\* animationMsg: its handle is kept if its item is still on screen, and the
\* item's clock starts anew.
AnimationArrives(c) ==
  /\ c.kind = "animated" /\ ~tui.quitting
  /\ tasks' = tasks \ {c}
  /\ IF c.item = ItemAt(tui)
     THEN Handle([tui EXCEPT !.animation = c.number, !.clock = 0])
     ELSE UNCHANGED <<tui, terminal>>
  /\ UNCHANGED <<lapsed, keys, interrupted>>

ViewersArrive(c, ok) ==
  /\ c.kind = "viewers" /\ MayFail(ok) /\ ~tui.quitting
  /\ tasks' = tasks \ {c}
  /\ Handle([tui EXCEPT !.mode = IF ok THEN "viewers" ELSE "viewing"])
  /\ interrupted' = (interrupted \/ tui.mode = "replying")
  /\ UNCHANGED lapsed

-----------------------------------------------------------------------------
TaskSteps ==
  \E c \in tasks :
    \/ \E ok \in BOOLEAN :
         MediaArrives(c, ok) \/ FramesArrive(c, ok) \/ ViewersArrive(c, ok)
    \/ AnimationStarts(c) \/ AnimationArrives(c)

TuiNext ==
  \/ OpenViewer \/ ClockTick \/ TaskSteps
  \/ Move(Advance(Cleared(tui))) \/ Move(Back(Cleared(tui)))
  \/ Move(NextAuthor(tui)) \/ Move(PreviousAuthor(tui))
  \/ Quit \/ Resize
  \/ PauseKey \/ ReplyKey \/ TypeKey \/ EndReply \/ ReactKey \/ AnyKey \/ ViewersKey
  \/ \E it \in Items : ItemExpires(it)

TuiSpec == TuiInit /\ [][TuiNext]_tuiVars

-----------------------------------------------------------------------------
(* Properties *)

\* What is typed for one item is sent to no other: the clock stands while a
\* reply is typed, so the item under it changes only when it expires, or when a
\* viewers list that arrives late has interrupted the reply (update.go).
ReplyMeetsItsItem ==
  tui.mode = "replying" /\ tui.typed # NoItem =>
    tui.typed = ItemAt(tui) \/ tui.typed \in lapsed \/ interrupted

\* Left alone, not paused, the viewer comes to its end: no failed fetch and no
\* answer about an item it has left keeps it waiting.
ViewerEnds ==
  <>[](tui.mode = "viewing" /\ ~tui.paused) => <>[]tui.quitting

=============================================================================
