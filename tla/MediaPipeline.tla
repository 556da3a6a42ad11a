---------------------------- MODULE MediaPipeline ----------------------------
(***************************************************************************)
(* From an upload authorization to the disappearance of a Story: upload    *)
(* intents, the media job queue with its leases, the worker that turns an  *)
(* original into variants and publishes, deletion, expiry and the garbage  *)
(* collection of abandoned uploads.  Every API process and every worker    *)
(* process runs against the same tables and the same bucket.               *)
(*                                                                         *)
(* An intent, its media job (UNIQUE upload_intent_id) and its Story row    *)
(* (inserted in the same transaction) share one identity, the upload.      *)
(* A transaction is one step at its commit; a read made outside the        *)
(* transaction, or without a row lock, is a step of its own.               *)
(***************************************************************************)
EXTENDS ObjectCleanup, FiniteSets

CONSTANTS
  Uploads,        \* upload intents the clients ask for
  Kinds,          \* the variants media.Process produces for one input
  Workers,        \* media loops
  NoUpload,       \* what an idle media loop is working on
  IntentTTL,      \* Cfg.UploadIntentTTL, in ticks
  StoryLifetime,  \* Config.StoryLifetime (24 hours), in ticks
  MediaLease,     \* Config.MediaLeaseDuration, in ticks
  MaxAttempts,    \* media_jobs.max_attempts
  RetryUnit,      \* the 10 seconds FailMediaJob doubles, in ticks
  MaxFinalizers,  \* bound on finalize calls of one upload in flight at once
  MaxAbandons     \* bound on attempts lost to a crash or a database error

\* FailMediaJob's exponential backoff.
Backoff(attempts) == 2^attempts * RetryUnit

OriginalKey(u) == <<u, "original">>

VariantKey(u, k) == <<u, k>>

VariantKeys(u, ks) == {VariantKey(u, k) : k \in ks}

ASSUME PipelineAssumption ==
  /\ Keys = Uploads \X (Kinds \cup {"original"})
  /\ Kinds # {} /\ "original" \notin Kinds
  /\ NoUpload \notin Uploads
  /\ IntentTTL \in Nat /\ StoryLifetime \in Nat \ {0} /\ MediaLease \in Nat
  /\ MaxAttempts \in Nat \ {0} /\ MaxFinalizers \in Nat /\ MaxAbandons \in Nat
  /\ \A n \in 0..MaxAttempts : Backoff(n) \in Nat

VARIABLES
  intent,      \* upload_intents
  inflight,    \* uploads with a presigned PUT on its way to the bucket
  finalizing,  \* finalize calls that have read a usable intent
  job,         \* media_jobs
  story,       \* story_items
  variantRows, \* media_variants, as the kinds recorded for a Story
  worker,      \* the media loops
  abandons     \* attempts abandoned so far (bounds the model)

mediaVars == <<intent, inflight, finalizing, job, story, variantRows, worker,
               abandons>>

vars == <<mediaVars, cleanupVars>>

-----------------------------------------------------------------------------
(* Types *)

IntentRow == [state: {"none", "issued", "finalized", "expired"},
              ttl: -1..IntentTTL]  \* expires_at - Now(), never below -1

\* attempts stops one above the budget: the code only asks attempts < max.
JobRow == [state: {"none", "queued", "leased", "succeeded", "failed"},
           attempts: 0..MaxAttempts + 1,
           delay: Nat,         \* run_after - Now(), never below 0
           lease: -1..MediaLease]  \* lease_expires_at - Now(), never below -1

StoryRow == [state: {"none", "processing", "published", "failed", "deleted",
                     "removed"},
             left: 0..StoryLifetime]  \* expires_at - Now(), 0 before publication

WorkerState == [pc: {"idle", "claimed", "downloaded", "uploading", "retrying",
                     "rejecting"},
                upload: Uploads \cup {NoUpload},
                stored: SUBSET Kinds, \* variants this attempt has stored
                backoff: Nat]         \* what FailMediaJob computed

IdleWorker == [pc |-> "idle", upload |-> NoUpload, stored |-> {}, backoff |-> 0]

TypeOK ==
  /\ CleanupTypeOK
  /\ intent \in [Uploads -> IntentRow]
  /\ inflight \subseteq Uploads
  /\ finalizing \in [Uploads -> 0..MaxFinalizers]
  /\ job \in [Uploads -> JobRow]
  /\ story \in [Uploads -> StoryRow]
  /\ variantRows \in [Uploads -> SUBSET Kinds]
  /\ worker \in [Workers -> WorkerState]
  /\ \A w \in Workers : worker[w].pc # "idle" => worker[w].upload \in Uploads
  /\ abandons \in 0..MaxAbandons

Init ==
  /\ CleanupInit
  /\ intent = [u \in Uploads |-> [state |-> "none", ttl |-> 0]]
  /\ inflight = {}
  /\ finalizing = [u \in Uploads |-> 0]
  /\ job = [u \in Uploads |->
              [state |-> "none", attempts |-> 0, delay |-> 0, lease |-> 0]]
  /\ story = [u \in Uploads |-> [state |-> "none", left |-> 0]]
  /\ variantRows = [u \in Uploads |-> {}]
  /\ worker = [w \in Workers |-> IdleWorker]
  /\ abandons = 0

-----------------------------------------------------------------------------
(* The upload: API handlers and the client's PUT *)

\* postUpload: the intent, its draft and a presigned URL of the same TTL.
PostUpload(u) ==
  /\ intent[u].state = "none"
  /\ intent' = [intent EXCEPT ![u] = [state |-> "issued", ttl |-> IntentTTL]]
  /\ UNCHANGED <<inflight, finalizing, job, story, variantRows, worker,
                 abandons, cleanupVars>>

\* The bucket checks the URL's expiry when the PUT arrives; the object exists
\* once the body has been received, however long that takes.
StartPut(u) ==
  /\ intent[u].state # "none" /\ intent[u].ttl >= 0
  /\ inflight' = inflight \cup {u}
  /\ UNCHANGED <<intent, finalizing, job, story, variantRows, worker, abandons,
                 cleanupVars>>

PutLands(u) ==
  /\ u \in inflight
  /\ inflight' = inflight \ {u}
  /\ bucket' = bucket \cup {OriginalKey(u)}
  /\ UNCHANGED <<intent, finalizing, job, story, variantRows, worker, abandons,
                 cleanup, cleaner, cleanerCrashes>>

PutAborts(u) ==
  /\ u \in inflight
  /\ inflight' = inflight \ {u}
  /\ UNCHANGED <<intent, finalizing, job, story, variantRows, worker, abandons,
                 cleanupVars>>

\* FinalizeUpload up to its first write: the intent is read without a lock.
\* A replay of a finalized intent only reads, and the other states refuse.
FinalizeRead(u) ==
  /\ finalizing[u] < MaxFinalizers
  /\ intent[u].state = "issued"
  /\ intent[u].ttl >= 0              \* ~Now().After(expires_at)
  /\ finalizing' = [finalizing EXCEPT ![u] = @ + 1]
  /\ UNCHANGED <<intent, inflight, job, story, variantRows, worker, abandons,
                 cleanupVars>>

\* media_jobs.upload_intent_id is UNIQUE.  Slip: without the constraint.
NoUniqueJob(u) == TRUE
JobInsertable(u) == job[u].state = "none"

\* The rest of the transaction: the intent is updated by id alone and the job
\* is inserted with attempts 0, due at once.
FinalizeCommit(u) ==
  /\ finalizing[u] > 0
  /\ JobInsertable(u)
  /\ finalizing' = [finalizing EXCEPT ![u] = @ - 1]
  /\ intent' = [intent EXCEPT ![u].state = "finalized"]
  /\ job' = [job EXCEPT ![u] = [state |-> "queued", attempts |-> 0,
                                 delay |-> 0, lease |-> 0]]
  /\ story' = [story EXCEPT ![u].state = "processing"]
  /\ UNCHANGED <<inflight, variantRows, worker, abandons, cleanupVars>>

\* The INSERT conflicts with another call's job, or the caller went away: the
\* transaction is rolled back.
FinalizeFails(u) ==
  /\ finalizing[u] > 0
  /\ finalizing' = [finalizing EXCEPT ![u] = @ - 1]
  /\ UNCHANGED <<intent, inflight, job, story, variantRows, worker, abandons,
                 cleanupVars>>

\* DeleteStory by its author ("deleted") or by a moderator ("removed").
DeleteStory(u, outcome) ==
  /\ story[u].state \in {"published", "processing"}
  /\ story' = [story EXCEPT ![u].state = outcome]
  /\ ScheduleDelete(VariantKeys(u, variantRows[u]))
  /\ UNCHANGED <<intent, inflight, finalizing, job, variantRows, worker,
                 abandons, bucket, cleaner, cleanerCrashes>>

-----------------------------------------------------------------------------
(* The media loop *)

JobLeaseExpired(u) == job[u].state = "leased" /\ job[u].lease < 0

\* Slip: leaving expired leases to ReapExpiredLeases, which spares spent jobs.
QueuedOnly(u) == job[u].delay = 0 /\ job[u].state = "queued"

\* The claim does not look at max_attempts.
JobClaimable(u) ==
  job[u].delay = 0 /\ (job[u].state = "queued" \/ JobLeaseExpired(u))

ClaimMediaJob(w) ==
  /\ worker[w].pc = "idle"
  /\ \E u \in Uploads :
       /\ JobClaimable(u)
       /\ job' = [job EXCEPT ![u].state = "leased", ![u].lease = MediaLease,
                             ![u].attempts = IF @ <= MaxAttempts THEN @ + 1 ELSE @]
       /\ worker' = [worker EXCEPT ![w] = [pc |-> "claimed", upload |-> u,
                                            stored |-> {}, backoff |-> 0]]
  /\ UNCHANGED <<intent, inflight, finalizing, story, variantRows, abandons,
                 cleanupVars>>

Download(w) ==
  /\ worker[w].pc = "claimed"
  /\ OriginalKey(worker[w].upload) \in bucket
  /\ worker' = [worker EXCEPT ![w].pc = "downloaded"]
  /\ UNCHANGED <<intent, inflight, finalizing, job, story, variantRows,
                 abandons, cleanupVars>>

\* media.Process succeeds.
Process(w) ==
  /\ worker[w].pc = "downloaded"
  /\ worker' = [worker EXCEPT ![w].pc = "uploading"]
  /\ UNCHANGED <<intent, inflight, finalizing, job, story, variantRows,
                 abandons, cleanupVars>>

\* The variant keys are a function of the Story and the kind, so a second
\* attempt overwrites the objects of the first.
UploadVariant(w) ==
  /\ worker[w].pc = "uploading"
  /\ \E k \in Kinds \ worker[w].stored :
       /\ bucket' = bucket \cup {VariantKey(worker[w].upload, k)}
       /\ worker' = [worker EXCEPT ![w].stored = @ \cup {k}]
  /\ UNCHANGED <<intent, inflight, finalizing, job, story, variantRows,
                 abandons, cleanup, cleaner, cleanerCrashes>>

\* The handler publishes after its last variant.  Slip: after its first.
AnyStored(w) == worker[w].stored # {}
AllStored(w) == worker[w].stored = Kinds

\* WHERE id=$1 AND state='processing'.  Slip: a guard that only asks
\* whether the row exists.
RowExists(u) == story[u].state # "none"
Publishable(u) == story[u].state = "processing"

\* expires_at = Now() + lifetime.  Slip: one instant too long.
PublishedTooLong == [state |-> "published", left |-> StoryLifetime + 1]
Published == [state |-> "published", left |-> StoryLifetime]

\* PublishStory: variant rows, the Story, the job and the deletion of the
\* original in one transaction; the job is addressed by id alone.
PublishStory(w) ==
  LET u == worker[w].upload IN
  /\ worker[w].pc = "uploading"
  /\ AllStored(w)
  /\ Publishable(u)
  /\ variantRows' = [variantRows EXCEPT ![u] = Kinds]
  /\ story' = [story EXCEPT ![u] = Published]
  /\ job' = [job EXCEPT ![u].state = "succeeded", ![u].lease = 0]
  /\ ScheduleDelete({OriginalKey(u)})
  /\ worker' = [worker EXCEPT ![w] = IdleWorker]
  /\ UNCHANGED <<intent, inflight, finalizing, abandons, bucket, cleaner,
                 cleanerCrashes>>

\* PublishStory finds no processing Story and rolls back; the handler returns
\* and leaves the job as it is.
PublishRefused(w) ==
  /\ worker[w].pc = "uploading"
  /\ AllStored(w)
  /\ ~Publishable(worker[w].upload)
  /\ worker' = [worker EXCEPT ![w] = IdleWorker]
  /\ UNCHANGED <<intent, inflight, finalizing, job, story, variantRows,
                 abandons, cleanupVars>>

\* A retryable failure before publication (temporary directory, storage, a
\* transient media error, a panic).  FailMediaJob reads attempts first.
AttemptFails(w) ==
  LET n == job[worker[w].upload].attempts IN
  /\ worker[w].pc \in {"claimed", "downloaded", "uploading"}
  /\ \/ /\ n < MaxAttempts
        /\ worker' = [worker EXCEPT ![w].pc = "retrying", ![w].stored = {},
                                    ![w].backoff = Backoff(n)]
     \/ /\ n >= MaxAttempts
        /\ worker' = [worker EXCEPT ![w].pc = "rejecting", ![w].stored = {}]
  /\ UNCHANGED <<intent, inflight, finalizing, job, story, variantRows,
                 abandons, cleanupVars>>

\* A failure no retry can cure: the original is missing or too large, or
\* media.Process refuses the input.
InputRejected(w) ==
  /\ worker[w].pc \in {"claimed", "downloaded"}
  /\ worker' = [worker EXCEPT ![w].pc = "rejecting"]
  /\ UNCHANGED <<intent, inflight, finalizing, job, story, variantRows,
                 abandons, cleanupVars>>

\* FailMediaJob's retry branch: back to the queue, by id alone.
RetryJob(w) ==
  /\ worker[w].pc = "retrying"
  /\ job' = [job EXCEPT ![worker[w].upload] =
               [@ EXCEPT !.state = "queued", !.lease = 0,
                         !.delay = worker[w].backoff]]
  /\ worker' = [worker EXCEPT ![w] = IdleWorker]
  /\ UNCHANGED <<intent, inflight, finalizing, story, variantRows, abandons,
                 cleanupVars>>

\* What the final failure reclaims: the original only.
RejectedKeys(u) == {OriginalKey(u)}

\* The failure reaches the Story only while it is processing.
StoryAfterFailure(u) ==
  IF story[u].state = "processing" THEN [story EXCEPT ![u].state = "failed"]
                                   ELSE story

\* FailMediaJob's final branch: the job by id alone, the Story only while it
\* is processing, and the deletion of the original.
RejectJob(w) ==
  LET u == worker[w].upload IN
  /\ worker[w].pc = "rejecting"
  /\ job' = [job EXCEPT ![u].state = "failed", ![u].lease = 0]
  /\ story' = StoryAfterFailure(u)
  /\ ScheduleDelete(RejectedKeys(u))
  /\ worker' = [worker EXCEPT ![w] = IdleWorker]
  /\ UNCHANGED <<intent, inflight, finalizing, variantRows, abandons, bucket,
                 cleaner, cleanerCrashes>>

\* The process dies, or the database refuses the publish or failure
\* transaction, which the handler only logs: the job keeps its lease.
AbandonAttempt(w) ==
  /\ worker[w].pc # "idle"
  /\ abandons < MaxAbandons
  /\ worker' = [worker EXCEPT ![w] = IdleWorker]
  /\ abandons' = abandons + 1
  /\ UNCHANGED <<intent, inflight, finalizing, job, story, variantRows,
                 cleanupVars>>

-----------------------------------------------------------------------------
(* The cleanup pass *)

\* One transaction over both tables.
ReapExpiredLeases ==
  /\ job' = [u \in Uploads |->
               IF JobLeaseExpired(u) /\ job[u].attempts < MaxAttempts
                 THEN [job[u] EXCEPT !.state = "queued", !.lease = 0]
                 ELSE job[u]]
  /\ ReapCleanupLeases
  /\ UNCHANGED <<intent, inflight, finalizing, story, variantRows, worker,
                 abandons, bucket, cleaner, cleanerCrashes>>

\* One Story of the batch: each gets a row of its own, even with no variants.
ExpireStory(u) ==
  /\ story[u].state = "published" /\ story[u].left = 0
  /\ story' = [story EXCEPT ![u].state = "deleted"]
  /\ ScheduleDelete(VariantKeys(u, variantRows[u]))
  /\ UNCHANGED <<intent, inflight, finalizing, job, variantRows, worker,
                 abandons, bucket, cleaner, cleanerCrashes>>

\* A batch of lapsed intents (LIMIT and SKIP LOCKED make it any non-empty part
\* of them) gets one row naming all their originals.
GCAbandonedUploads ==
  \E due \in SUBSET {u \in Uploads : intent[u].state = "issued"
                                     /\ intent[u].ttl <= 0} :
    /\ due # {}
    /\ intent' = [u \in Uploads |->
                    IF u \in due THEN [intent[u] EXCEPT !.state = "expired"]
                                 ELSE intent[u]]
    /\ ScheduleDelete({OriginalKey(u) : u \in due})
    /\ UNCHANGED <<inflight, finalizing, job, story, variantRows, worker,
                   abandons, bucket, cleaner, cleanerCrashes>>

-----------------------------------------------------------------------------
(* Time *)

ElapseIntent(row) ==
  IF row.state # "none" /\ row.ttl >= 0 THEN [row EXCEPT !.ttl = @ - 1] ELSE row

ElapseJob(row) ==
  [row EXCEPT !.delay = Elapse(@),
              !.lease = IF row.state = "leased" /\ @ >= 0 THEN @ - 1 ELSE @]

Tick ==
  /\ intent' = [u \in Uploads |-> ElapseIntent(intent[u])]
  /\ job' = [u \in Uploads |-> ElapseJob(job[u])]
  /\ story' = [u \in Uploads |-> [story[u] EXCEPT !.left = Elapse(@)]]
  /\ TickCleanup
  /\ UNCHANGED <<inflight, finalizing, variantRows, worker, abandons, bucket,
                 cleaner, cleanerCrashes>>

-----------------------------------------------------------------------------
(* Specification *)

Client(u) ==
  \/ PostUpload(u) \/ StartPut(u) \/ PutLands(u) \/ PutAborts(u)
  \/ FinalizeRead(u) \/ FinalizeCommit(u) \/ FinalizeFails(u)
  \/ \E outcome \in {"deleted", "removed"} : DeleteStory(u, outcome)

MediaStep(w) ==
  \/ ClaimMediaJob(w) \/ Download(w) \/ Process(w) \/ UploadVariant(w)
  \/ PublishStory(w) \/ PublishRefused(w)
  \/ AttemptFails(w) \/ InputRejected(w) \/ RetryJob(w) \/ RejectJob(w)

Sweep ==
  \/ ReapExpiredLeases
  \/ \E u \in Uploads : ExpireStory(u)
  \/ GCAbandonedUploads

Next ==
  \/ \E u \in Uploads : Client(u)
  \/ \E w \in Workers : MediaStep(w) \/ AbandonAttempt(w)
  \/ Sweep
  \/ \E c \in Cleaners : (CleanerStep(c) \/ CrashCleaner(c)) /\ UNCHANGED mediaVars
  \/ Tick

Spec == Init /\ [][Next]_vars

=============================================================================
