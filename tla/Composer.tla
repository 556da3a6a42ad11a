------------------------------- MODULE Composer -------------------------------
(***************************************************************************)
(* Posting from the browser: the composer's page (StoryComposer.tsx), the  *)
(* bridge that keeps its idempotency key (ComposerBridge.tsx), the port    *)
(* between page and service worker (uploadPort.ts) and the flow that       *)
(* authorizes, uploads, finalizes and polls (upload.ts), against the       *)
(* service's upload handlers (handlers_upload.go).                         *)
(*                                                                         *)
(* Leaving the progress view does not stop the flow behind it (nothing     *)
(* sends the port's "cancel"), so several flows of one composer may run,   *)
(* and each of them sets the page's status when it ends.                   *)
(***************************************************************************)
EXTENDS Integers

CONSTANTS
  MaxPosts,    \* flows that may be started
  MaxEvictions \* evictions of the service worker

ASSUME ComposerAssumption == MaxPosts \in Nat /\ MaxEvictions \in Nat

Posts == 1..MaxPosts

VARIABLES
  composer,    \* the page: what it shows, whether a file is picked, and the
               \* idempotency key, 0 when there is none
  posts,       \* each flow, with the page it belongs to and its Story
  evictions

composerVars == <<composer, posts, evictions>>

Shut == [open |-> FALSE, status |-> "idle", file |-> FALSE, key |-> 0]
NoPost == [pc |-> "off", mine |-> FALSE, key |-> 0, story |-> "none"]

\* Where a flow is in the background, and how its end reaches the page.
Running == {"creating", "putting", "finalizing", "polling"}
Telling == {"done", "error", "interrupted"}

Pages == [open: BOOLEAN, file: BOOLEAN, key: 0..MaxPosts,
          status: {"idle", "validation-error", "offline", "preview",
                   "uploading", "processing", "published", "failed"}]
Flows == [pc: {"off", "preparing", "resolved", "over"} \cup Running \cup Telling,
          mine: BOOLEAN, key: 0..MaxPosts,
          story: {"none", "processing", "published", "failed"}]

ComposerTypeOK ==
  /\ composer \in Pages
  /\ posts \in [Posts -> Flows]
  /\ evictions \in 0..MaxEvictions

ComposerInit ==
  /\ composer = Shut
  /\ posts = [p \in Posts |-> NoPost]
  /\ evictions = 0

Settled(story) == story \in {"published", "failed"}

-----------------------------------------------------------------------------
(* The page *)

OpenComposer ==
  /\ ~composer.open
  /\ composer' = [Shut EXCEPT !.open = TRUE]
  /\ UNCHANGED <<posts, evictions>>

\* pickFile: the network and the file's type and size are looked at first.
PickFile ==
  /\ composer.open /\ composer.status \in {"idle", "validation-error", "offline"}
  /\ composer' \in {[composer EXCEPT !.status = "offline"],
                    [composer EXCEPT !.status = "validation-error"],
                    [composer EXCEPT !.status = "preview", !.file = TRUE]}
  /\ UNCHANGED <<posts, evictions>>

Back ==
  /\ composer.open /\ composer.status = "preview"
  /\ composer' = [composer EXCEPT !.status = "idle", !.file = FALSE]
  /\ UNCHANGED <<posts, evictions>>

\* Post and Retry.  (Retry without a file, after a Back, does nothing.)
Submit ==
  /\ composer.open /\ composer.status \in {"preview", "failed"} /\ composer.file
  /\ \E p \in Posts :
       /\ posts[p].pc = "off" /\ \A q \in 1..(p - 1) : posts[q].pc # "off"
       /\ posts' = [posts EXCEPT ![p].pc = "preparing", ![p].mine = TRUE]
  /\ composer' = [composer EXCEPT !.status = "uploading"]
  /\ UNCHANGED evictions

\* The Cancel of the progress view: the flow goes on.
LeaveProgress ==
  /\ composer.open /\ composer.status = "uploading"
  /\ composer' = [composer EXCEPT !.status = "preview"]
  /\ UNCHANGED <<posts, evictions>>

\* Cancel, Done, or the page going away: what the flows tell reaches nobody.  One
\* whose port is not open yet ends with its page, or is opened all the same.
CloseComposer ==
  /\ composer.open
  /\ composer' = Shut
  /\ \E pageLives \in BOOLEAN :
       posts' = [p \in Posts |->
                  [posts[p] EXCEPT
                    !.mine = FALSE,
                    !.pc = IF @ = "preparing" /\ ~pageLives THEN "over"
                           ELSE IF @ \in Telling \cup {"resolved"} THEN "over"
                           ELSE @]]
  /\ UNCHANGED evictions

\* The edited image cannot be exported.
ExportFails(p) ==
  /\ posts[p].pc = "preparing"
  /\ posts' = [posts EXCEPT ![p].pc = "over"]
  /\ composer' = IF posts[p].mine THEN [composer EXCEPT !.status = "failed"] ELSE composer
  /\ UNCHANGED evictions

\* The bridge: a key unless there is one, the port, the start message.
Connect(p) ==
  LET fresh == p
      key == IF posts[p].mine /\ composer.key # 0 THEN composer.key ELSE fresh
  IN  /\ posts[p].pc = "preparing"
      /\ posts' = [posts EXCEPT ![p].pc = "creating", ![p].key = key]
      /\ composer' = IF posts[p].mine THEN [composer EXCEPT !.key = key] ELSE composer
      /\ UNCHANGED evictions

-----------------------------------------------------------------------------
(* runUploadFlow *)

\* The message the flow ends with; its port may lead nowhere.
Tell(p, what, story) ==
  /\ posts' = [posts EXCEPT ![p].pc = IF posts[p].mine THEN what ELSE "over",
                            ![p].story = story]
  /\ UNCHANGED <<composer, evictions>>

Proceed(p, pc, story) ==
  /\ posts' = [posts EXCEPT ![p].pc = pc, ![p].story = story]
  /\ UNCHANGED <<composer, evictions>>

\* postUpload mints an authorization on every call; the call, the target it
\* returns or the PUT may fail.
CreateAndPut(p) ==
  \/ posts[p].pc = "creating" /\ Proceed(p, "putting", "none")
  \/ posts[p].pc = "putting" /\ Proceed(p, "finalizing", "none")
  \/ posts[p].pc \in {"creating", "putting"} /\ Tell(p, "error", "none")

\* postFinalize makes the Story of this authorization, whatever the key; the
\* service may refuse, and its answer may be lost.
FinalizePost(p) ==
  /\ posts[p].pc = "finalizing"
  /\ \/ Proceed(p, "polling", "processing")
     \/ Tell(p, "error", "processing")
     \/ Tell(p, "error", "none")

\* The worker publishes the Story or fails it.
ServiceSettles(p) ==
  /\ posts[p].story = "processing"
  /\ \E story \in {"published", "failed"} : Proceed(p, posts[p].pc, story)

\* pollUntilSettled: the Story has settled; or it has not when the time is up, or
\* the read fails.  Slip: the read after the last wait is taken for an answer.
PollPatiently(p) ==
  /\ posts[p].pc = "polling"
  /\ \/ Tell(p, "done", posts[p].story)
     \/ Tell(p, "error", posts[p].story)
PollPost(p) ==
  /\ posts[p].pc = "polling"
  /\ \/ Settled(posts[p].story) /\ Tell(p, "done", posts[p].story)
     \/ Tell(p, "error", posts[p].story)

\* The browser evicts the service worker: the flows are gone and their ports
\* close.  Slip: an open port that closes is not listened to.
EvictFlowsUnheard ==
  [p \in Posts |-> [posts[p] EXCEPT !.pc = IF @ \in Running THEN "over" ELSE @]]
EvictFlows ==
  [p \in Posts |-> [posts[p] EXCEPT
     !.pc = IF @ \notin Running THEN @
            ELSE IF posts[p].mine THEN "interrupted" ELSE "over"]]

EvictUploads ==
  /\ evictions < MaxEvictions /\ evictions' = evictions + 1
  /\ posts' = EvictFlows
  /\ UNCHANGED composer

-----------------------------------------------------------------------------
(* What the page hears *)

\* The promise of runUploadOverPort resolves: the key is used up.
HearDone(p) ==
  /\ posts[p].pc = "done"
  /\ posts' = [posts EXCEPT ![p].pc = "resolved"]
  /\ composer' = [composer EXCEPT !.status = "processing", !.key = 0]
  /\ UNCHANGED evictions

\* It rejects, on an error or a closed port: the key stays.
HearFailure(p) ==
  /\ posts[p].pc \in {"error", "interrupted"}
  /\ posts' = [posts EXCEPT ![p].pc = "over"]
  /\ composer' = [composer EXCEPT !.status = "failed"]
  /\ UNCHANGED evictions

ShowPosted(p) ==
  /\ posts[p].pc = "resolved"
  /\ posts' = [posts EXCEPT ![p].pc = "over"]
  /\ composer' = [composer EXCEPT !.status = "published"]
  /\ UNCHANGED evictions

-----------------------------------------------------------------------------
PostSteps(p) ==
  \/ ExportFails(p) \/ Connect(p) \/ CreateAndPut(p) \/ FinalizePost(p) \/ PollPost(p)
  \/ HearDone(p) \/ HearFailure(p) \/ ShowPosted(p)

ComposerNext ==
  \/ OpenComposer \/ PickFile \/ Back \/ Submit \/ LeaveProgress \/ CloseComposer
  \/ \E p \in Posts : PostSteps(p) \/ ServiceSettles(p)
  \/ EvictUploads

ComposerSpec == ComposerInit /\ [][ComposerNext]_composerVars

-----------------------------------------------------------------------------
(* Properties *)

\* "Story posted." is on screen only when a Story of this sitting has been settled
\* by the service, however many flows of the page ended in between.
PostedHasSettled ==
  composer.status \in {"processing", "published"} =>
    \E p \in Posts : posts[p].mine /\ Settled(posts[p].story)

\* The progress view never stays for ever: each flow behind it ends in a message,
\* or in a closed port.
ProgressEnds == (composer.status = "uploading") ~> (composer.status # "uploading")

-----------------------------------------------------------------------------
(* What a comment says and the code does not keep *)

\* upload.ts:5-8 of the flow: "A retry after a dropped connection reuses the same
\* Idempotency-Key ... so it can never create a duplicate Story."
OneStoryPerPostKey ==
  \A p, q \in Posts :
    p # q /\ posts[p].key = posts[q].key => "none" \in {posts[p].story, posts[q].story}

=============================================================================
