----------------------- MODULE MediaPipelineProperties -----------------------
(***************************************************************************)
(* What is claimed of MediaPipeline: safety, the fairness the code's loops *)
(* justify, liveness under it, and the abstract Story it implements.       *)
(***************************************************************************)
EXTENDS MediaPipeline

-----------------------------------------------------------------------------
(* Safety *)

Gone == {"deleted", "removed"}

\* A published Story, lapsed or not, has a row and an object for every
\* variant: no interleaving of slow workers, retries, deletions and cleanup
\* loops takes a byte from under it (PublishStory, DeleteStory, ExpireStories,
\* handleCleanupJob).
PublishedHasBytes ==
  \A u \in Uploads :
    story[u].state = "published" =>
      /\ variantRows[u] = Kinds
      /\ VariantKeys(u, Kinds) \subseteq bucket

\* A variant is named for deletion only once its Story is deleted or removed
\* (scheduleStoryObjectCleanup, ExpireStories).
OnlyGoneStoriesReclaimed ==
  \A u \in Uploads, k \in Kinds :
    VariantKey(u, k) \in NamedKeys => story[u].state \in Gone

\* A processing Story always has a job that is queued or leased: whichever
\* attempt finishes the job settles the Story in the same transaction, so no
\* author polls a Story nobody will ever work on (PublishStory, FailMediaJob).
ProcessingHasJob ==
  \A u \in Uploads :
    story[u].state = "processing" => job[u].state \in {"queued", "leased"}

\* Only normalized outputs are kept: a Story that was published or failed has
\* its original named for deletion (PublishStory, FailMediaJob).
SettledOriginalNamed ==
  \A u \in Uploads :
    story[u].state \in {"published", "failed"} => OriginalKey(u) \in NamedKeys

\* Where a Story may go from each state.
Onward(state) ==
  CASE state = "none"       -> {"none", "processing"}
    [] state = "processing" -> {"processing", "published", "failed"} \cup Gone
    [] state = "published"  -> {"published"} \cup Gone
    [] OTHER                -> {state}

\* No step revives a settled Story, fails a published one or extends a
\* deadline, however late the worker that takes it (the state guards of
\* PublishStory, FailMediaJob and DeleteStory).
StoryOnlyAdvances ==
  [][\A u \in Uploads :
       /\ story'[u].state \in Onward(story[u].state)
       /\ story[u].state = "published" => story'[u].left <= story[u].left]_vars

\* FinalizeUpload is idempotent: once an upload has its job, no other call in
\* flight gives it a new one, so its attempts never start again from zero and
\* its row never disappears (media_jobs.upload_intent_id UNIQUE).
FinalizedOnce ==
  [][\A u \in Uploads :
       job[u].state # "none" =>
         /\ job'[u].state # "none"
         /\ job'[u].attempts >= job[u].attempts
         /\ intent'[u].state = "finalized" \/ intent[u].state # "finalized"]_vars

-----------------------------------------------------------------------------
(* The inductive invariant behind the safety properties *)

\* An upload without a job has no Story, and no loop works on it.
JobFirst ==
  /\ \A u \in Uploads : job[u].state = "none" => story[u].state = "none"
  /\ \A w \in Workers :
       worker[w].pc # "idle" => job[worker[w].upload].state # "none"

\* While a Story may still be shown, what an attempt has stored is there: the
\* reason PublishStory may trust the uploads made before its transaction.
StoredInBucket ==
  \A w \in Workers :
    /\ worker[w].pc # "idle"
    /\ story[worker[w].upload].state \in {"processing", "published"}
    => VariantKeys(worker[w].upload, worker[w].stored) \subseteq bucket

IInv ==
  /\ TypeOK
  /\ PublishedHasBytes
  /\ OnlyGoneStoriesReclaimed
  /\ ProcessingHasJob
  /\ SettledOriginalNamed
  /\ JobFirst
  /\ StoredInBucket

-----------------------------------------------------------------------------
(* Fairness: the loops keep running and the clock moves; clients, crashes   *)
(* and database errors owe nothing.                                         *)

Fairness ==
  /\ WF_vars(Tick)
  /\ \A w \in Workers : WF_vars(MediaStep(w))
  /\ \A c \in Cleaners : WF_vars(CleanerStep(c) /\ UNCHANGED mediaVars)
  /\ WF_vars(ReapExpiredLeases)
  /\ \A u \in Uploads : WF_vars(ExpireStory(u))
  /\ WF_vars(GCAbandonedUploads)

FairSpec == Spec /\ Fairness

-----------------------------------------------------------------------------
(* Liveness *)

\* A finalized upload does not stay in processing: it is published, failed or
\* withdrawn, across crashes and lost transactions (runMediaLoop,
\* ClaimMediaJob, ReapExpiredLeases).
ProcessingSettles ==
  \A u \in Uploads :
    story[u].state = "processing" ~> story[u].state # "processing"

\* A row that ran out of attempts, which operators see as a failure.
GivenUp(key) ==
  \E i \in DOMAIN cleanup : key \in cleanup[i].keys /\ cleanup[i].state = "failed"

Reclaimed(key) == key \notin bucket \/ GivenUp(key)

\* A Story that was published and is over, by the deadline or by withdrawal,
\* loses its bytes in storage (ExpireStories, DeleteStory, drainCleanupJobs).
PublishedBytesReclaimed ==
  \A u \in Uploads :
    variantRows[u] # {} /\ story[u].state \in Gone ~>
      \A k \in Kinds : Reclaimed(VariantKey(u, k))

-----------------------------------------------------------------------------
(* What comments of the source say and the code does not do *)

\* "the uploaded variants are orphaned but harmless, and will be swept up by
\* ordinary story-expiry cleanup" (handleMediaJob): no sweep names them.
WithdrawnBytesReclaimed ==
  \A u \in Uploads :
    story[u].state \in Gone ~> \A k \in Kinds : Reclaimed(VariantKey(u, k))

\* GCAbandonedUploads collects uploads "never finalized": no processing Story
\* has an original named for deletion.  FinalizeUpload reads the intent
\* without a lock and overwrites the collector's verdict.
ProcessingOriginalKept ==
  \A u \in Uploads :
    story[u].state = "processing" => OriginalKey(u) \notin NamedKeys

-----------------------------------------------------------------------------
(* The abstract Story *)

Visible(u) == story[u].state = "published" /\ story[u].left > 0

Phase(u) ==
  CASE story[u].state = "none"       -> "none"
    [] story[u].state = "processing" -> "pending"
    [] Visible(u)                    -> "visible"
    [] OTHER                         -> "over"

Lifecycle == INSTANCE StoryLifecycle WITH
  Stories  <- Uploads,
  Lifetime <- StoryLifetime,
  phase    <- [u \in Uploads |-> Phase(u)],
  left     <- [u \in Uploads |-> IF Visible(u) THEN story[u].left ELSE 0],
  bytes    <- [u \in Uploads |-> VariantKeys(u, Kinds) \subseteq bucket]

\* The pipeline implements the abstract Story; in particular visibility ends
\* by the clock, with or without the sweep that deletes the bytes.
ImplementsLifecycle == Lifecycle!Spec

=============================================================================
