-------------------------- MODULE MediaPipelineProofs --------------------------
(***************************************************************************)
(* MediaPipeline, for any number of uploads, variants, workers, cleaners   *)
(* and attempts: type correctness and the safety of a published Story.     *)
(***************************************************************************)
EXTENDS MediaPipelineProperties, ObjectCleanupProofs

\* Keys of different Stories and of different roles differ.
LEMMA KeyFacts ==
  /\ \A u \in Uploads : OriginalKey(u) \in Keys
  /\ \A u \in Uploads, k \in Kinds : VariantKey(u, k) \in Keys
  /\ \A u \in Uploads, v \in Uploads, k \in Kinds : OriginalKey(u) # VariantKey(v, k)
  /\ \A u \in Uploads, v \in Uploads, j \in Kinds, k \in Kinds :
       VariantKey(u, j) = VariantKey(v, k) => u = v /\ j = k
  BY PipelineAssumption DEF OriginalKey, VariantKey

LEMMA VariantKeysFacts ==
  ASSUME NEW u \in Uploads, NEW ks \in SUBSET Kinds
  PROVE  /\ VariantKeys(u, ks) \subseteq Keys
         /\ \A v \in Uploads, k \in Kinds :
              VariantKey(v, k) \in VariantKeys(u, ks) <=> v = u /\ k \in ks
         /\ \A v \in Uploads : OriginalKey(v) \notin VariantKeys(u, ks)
  BY KeyFacts DEF VariantKeys

-----------------------------------------------------------------------------
(* Types *)

LEMMA ClientType ==
  ASSUME TypeOK, NEW u \in Uploads, Client(u)
  PROVE  TypeOK'
  <1> USE PipelineAssumption DEF TypeOK
  <1>1. CASE PostUpload(u)
    <2>1. [state |-> "issued", ttl |-> IntentTTL] \in IntentRow
      BY DEF IntentRow
    <2> QED
      BY <1>1, <2>1 DEF PostUpload, cleanupVars, CleanupTypeOK
  <1>2. CASE StartPut(u) \/ PutAborts(u)
    BY <1>2 DEF StartPut, PutAborts, cleanupVars, CleanupTypeOK
  <1>3. CASE PutLands(u)
    BY SMTT(30), <1>3, KeyFacts DEF PutLands, CleanupTypeOK
  <1>4. CASE FinalizeRead(u)
    <2>1. finalizing[u] + 1 \in 0..MaxFinalizers
      BY <1>4 DEF FinalizeRead
    <2> QED
      BY <1>4, <2>1 DEF FinalizeRead, cleanupVars, CleanupTypeOK
  <1>5. CASE FinalizeFails(u)
    <2>1. finalizing[u] - 1 \in 0..MaxFinalizers
      BY <1>5 DEF FinalizeFails
    <2> QED
      BY <1>5, <2>1 DEF FinalizeFails, cleanupVars, CleanupTypeOK
  <1>6. CASE FinalizeCommit(u)
    <2>1. finalizing[u] - 1 \in 0..MaxFinalizers
      BY <1>6 DEF FinalizeCommit
    <2>2. [state |-> "queued", attempts |-> 0, delay |-> 0, lease |-> 0] \in JobRow
      BY DEF JobRow
    <2>3. [intent[u] EXCEPT !.state = "finalized"] \in IntentRow
      BY DEF IntentRow
    <2>4. [story[u] EXCEPT !.state = "processing"] \in StoryRow
      BY DEF StoryRow
    <2> QED
      BY <1>6, <2>1, <2>2, <2>3, <2>4 DEF FinalizeCommit, cleanupVars, CleanupTypeOK
  <1>7. ASSUME NEW o \in {"deleted", "removed"}, DeleteStory(u, o)
        PROVE  TypeOK'
    <2>1. [story[u] EXCEPT !.state = o] \in StoryRow
      BY DEF StoryRow
    <2>2. CleanupTypeOK'
      BY <1>7, VariantKeysFacts, ScheduleDeleteType DEF DeleteStory
    <2> QED
      BY <1>7, <2>1, <2>2 DEF DeleteStory
  <1> QED
    BY <1>1, <1>2, <1>3, <1>4, <1>5, <1>6, <1>7 DEF Client

\* Every step of a media loop replaces the loop's own record by a typed one.
LEMMA LoopRecord ==
  ASSUME TypeOK, NEW w \in Workers, MediaStep(w) \/ AbandonAttempt(w)
  PROVE  \E ws \in WorkerState :
           /\ worker' = [worker EXCEPT ![w] = ws]
           /\ ws.pc # "idle" => ws.upload \in Uploads
  <1>0. /\ worker[w] \in WorkerState
        /\ worker[w].pc # "idle" => worker[w].upload \in Uploads
    BY DEF TypeOK
  <1>1. CASE ClaimMediaJob(w)
    <2>1. PICK u \in Uploads :
            worker' = [worker EXCEPT ![w] = [pc |-> "claimed", upload |-> u,
                                             stored |-> {}, backoff |-> 0]]
      BY <1>1 DEF ClaimMediaJob
    <2>2. [pc |-> "claimed", upload |-> u, stored |-> {}, backoff |-> 0]
            \in WorkerState
      BY DEF WorkerState
    <2> QED
      BY <2>1, <2>2
  <1>2. CASE Download(w) \/ Process(w) \/ InputRejected(w)
    <2>1. PICK pc \in {"downloaded", "uploading", "rejecting"} :
            worker' = [worker EXCEPT ![w] = [worker[w] EXCEPT !.pc = pc]]
      BY <1>2 DEF Download, Process, InputRejected
    <2>2. /\ [worker[w] EXCEPT !.pc = pc] \in WorkerState
          /\ [worker[w] EXCEPT !.pc = pc].upload = worker[w].upload
      BY <1>0 DEF WorkerState
    <2>3. worker[w].pc # "idle"
      BY <1>2 DEF Download, Process, InputRejected
    <2> QED
      BY <1>0, <2>1, <2>2, <2>3
  <1>3. CASE UploadVariant(w)
    <2>1. PICK k \in Kinds :
            worker' = [worker EXCEPT ![w] =
                         [worker[w] EXCEPT !.stored = worker[w].stored \cup {k}]]
      BY <1>3 DEF UploadVariant
    <2> DEFINE ws == [worker[w] EXCEPT !.stored = worker[w].stored \cup {k}]
    <2>2. ws \in WorkerState /\ ws.upload = worker[w].upload
      BY <1>0 DEF WorkerState
    <2>3. worker[w].pc # "idle"
      BY <1>3 DEF UploadVariant
    <2> QED
      BY <1>0, <2>1, <2>2, <2>3
  <1>4. CASE AttemptFails(w)
    <2> DEFINE n == job[worker[w].upload].attempts
               retrying == [worker[w] EXCEPT !.pc = "retrying", !.stored = {},
                                             !.backoff = Backoff(n)]
               rejecting == [worker[w] EXCEPT !.pc = "rejecting", !.stored = {}]
    <2>1. worker[w].pc # "idle" /\ n \in Nat
      BY <1>0, <1>4 DEF AttemptFails, TypeOK, JobRow
    <2>2. CASE n < MaxAttempts
      <3>1. Backoff(n) \in Nat
        BY <2>1, <2>2, PipelineAssumption
      <3>2. retrying \in WorkerState /\ retrying.upload = worker[w].upload
        BY <1>0, <3>1 DEF WorkerState
      <3>3. worker' = [worker EXCEPT ![w] = retrying]
        <4>1. ~(n >= MaxAttempts)
          BY <2>1, <2>2, PipelineAssumption
        <4>2. worker' = [worker EXCEPT ![w].pc = "retrying", ![w].stored = {},
                                       ![w].backoff = Backoff(n)]
          BY <1>4, <4>1 DEF AttemptFails
        <4> HIDE DEF n
        <4> QED
          BY <4>2
      <3> QED
        BY <1>0, <2>1, <3>2, <3>3
    <2>3. CASE ~(n < MaxAttempts)
      <3>2. rejecting \in WorkerState /\ rejecting.upload = worker[w].upload
        BY <1>0 DEF WorkerState
      <3>3. worker' = [worker EXCEPT ![w] = rejecting]
        BY <1>0, <1>4, <2>1, <2>3, PipelineAssumption DEF AttemptFails, WorkerState
      <3> QED
        BY <1>0, <2>1, <3>2, <3>3
    <2> QED
      BY <2>2, <2>3
  <1>5. CASE PublishStory(w) \/ PublishRefused(w) \/ RetryJob(w) \/ RejectJob(w)
             \/ AbandonAttempt(w)
    <2>1. worker' = [worker EXCEPT ![w] = IdleWorker]
      BY <1>5 DEF PublishStory, PublishRefused, RetryJob, RejectJob, AbandonAttempt
    <2>2. IdleWorker \in WorkerState /\ IdleWorker.pc = "idle"
      BY DEF IdleWorker, WorkerState
    <2> QED
      BY <2>1, <2>2
  <1> QED
    BY <1>1, <1>2, <1>3, <1>4, <1>5 DEF MediaStep

\* Every step of a media loop leaves the job table typed.
LEMMA LoopJob ==
  ASSUME TypeOK, NEW w \in Workers, MediaStep(w) \/ AbandonAttempt(w)
  PROVE  job' \in [Uploads -> JobRow]
  <1>0. /\ job \in [Uploads -> JobRow] /\ worker[w] \in WorkerState
        /\ worker[w].pc # "idle" => worker[w].upload \in Uploads
        /\ 0 \in -1..MediaLease /\ MediaLease \in -1..MediaLease
    BY PipelineAssumption DEF TypeOK
  <1>1. CASE ClaimMediaJob(w)
    <2>1. PICK u \in Uploads :
            job' = [job EXCEPT ![u].state = "leased", ![u].lease = MediaLease,
                      ![u].attempts = IF @ <= MaxAttempts THEN @ + 1 ELSE @]
      BY <1>1 DEF ClaimMediaJob
    <2> DEFINE n == IF job[u].attempts <= MaxAttempts THEN job[u].attempts + 1
                                                      ELSE job[u].attempts
    <2>2. job[u] \in JobRow
      BY <1>0
    <2>3. n \in 0..MaxAttempts + 1
      BY <2>2, PipelineAssumption DEF JobRow
    <2>4. job' = [job EXCEPT ![u] = [job[u] EXCEPT !.state = "leased",
                                       !.lease = MediaLease, !.attempts = n]]
      BY <1>0, <2>1, <2>2 DEF JobRow
    <2> HIDE DEF n
    <2>5. [job[u] EXCEPT !.state = "leased", !.lease = MediaLease,
                         !.attempts = n] \in JobRow
      BY <1>0, <2>2, <2>3 DEF JobRow
    <2> QED
      BY <1>0, <2>4, <2>5
  <1>2. CASE PublishStory(w) \/ RejectJob(w)
    <2> DEFINE u == worker[w].upload
    <2>1. job[u] \in JobRow
      BY <1>0, <1>2 DEF PublishStory, RejectJob
    <2>2. PICK st \in {"succeeded", "failed"} :
            job' = [job EXCEPT ![u] = [job[u] EXCEPT !.state = st, !.lease = 0]]
      BY <1>0, <1>2 DEF PublishStory, RejectJob
    <2>3. [job[u] EXCEPT !.state = st, !.lease = 0] \in JobRow
      BY <1>0, <2>1 DEF JobRow
    <2> QED
      BY <1>0, <2>2, <2>3
  <1>3. CASE RetryJob(w)
    <2> DEFINE u == worker[w].upload
               row == [job[u] EXCEPT !.state = "queued", !.lease = 0,
                                     !.delay = worker[w].backoff]
    <2>1. job[u] \in JobRow /\ worker[w].backoff \in Nat
      BY <1>0, <1>3 DEF RetryJob, WorkerState
    <2>2. job' = [job EXCEPT ![u] = row]
      BY <1>3 DEF RetryJob
    <2>3. row \in JobRow
      BY <1>0, <2>1 DEF JobRow
    <2> QED
      BY <1>0, <2>2, <2>3
  <1>4. CASE Download(w) \/ Process(w) \/ InputRejected(w) \/ UploadVariant(w)
             \/ AttemptFails(w) \/ PublishRefused(w) \/ AbandonAttempt(w)
    BY <1>0, <1>4 DEF Download, Process, InputRejected, UploadVariant,
                      AttemptFails, PublishRefused, AbandonAttempt
  <1> QED
    BY <1>1, <1>2, <1>3, <1>4 DEF MediaStep

\* Every step of a media loop leaves the Stories and their variants typed.
LEMMA LoopStory ==
  ASSUME TypeOK, NEW w \in Workers, MediaStep(w) \/ AbandonAttempt(w)
  PROVE  story' \in [Uploads -> StoryRow] /\ variantRows' \in [Uploads -> SUBSET Kinds]
  <1> DEFINE u == worker[w].upload
  <1>0. /\ story \in [Uploads -> StoryRow] /\ variantRows \in [Uploads -> SUBSET Kinds]
        /\ worker[w].pc # "idle" => u \in Uploads
    BY DEF TypeOK
  <1>1. CASE PublishStory(w)
    <2>1. Published \in StoryRow
      BY PipelineAssumption DEF Published, StoryRow
    <2> QED
      BY <1>0, <1>1, <2>1 DEF PublishStory
  <1>2. CASE RejectJob(w)
    <2>1. story[u] \in StoryRow
      BY <1>0, <1>2 DEF RejectJob
    <2>2. [story[u] EXCEPT !.state = "failed"] \in StoryRow
      BY <2>1 DEF StoryRow
    <2> QED
      BY <1>0, <1>2, <2>2 DEF RejectJob, StoryAfterFailure
  <1>3. CASE UNCHANGED <<story, variantRows>>
    BY <1>0, <1>3
  <1> QED
    BY <1>1, <1>2, <1>3
    DEF MediaStep, ClaimMediaJob, Download, Process, InputRejected, UploadVariant,
        AttemptFails, PublishRefused, RetryJob, AbandonAttempt

\* Every step of a media loop leaves the queue and the bucket typed.
LEMMA LoopCleanup ==
  ASSUME TypeOK, NEW w \in Workers, MediaStep(w) \/ AbandonAttempt(w)
  PROVE  CleanupTypeOK'
  <1> DEFINE u == worker[w].upload
  <1>0. CleanupTypeOK /\ (worker[w].pc # "idle" => u \in Uploads)
    BY DEF TypeOK
  <1>1. CASE PublishStory(w)
    <2>1. {OriginalKey(u)} \in SUBSET Keys
      BY <1>0, <1>1, KeyFacts DEF PublishStory
    <2> QED
      BY <1>0, <1>1, <2>1, ScheduleDeleteType DEF PublishStory
  <1>2. CASE RejectJob(w)
    <2>1. RejectedKeys(u) \in SUBSET Keys
      BY <1>0, <1>2, KeyFacts DEF RejectJob, RejectedKeys
    <2> QED
      BY <1>0, <1>2, <2>1, ScheduleDeleteType DEF RejectJob
  <1>3. CASE UploadVariant(w)
    <2>1. bucket' \subseteq Keys
      BY <1>0, <1>3, KeyFacts DEF UploadVariant, CleanupTypeOK
    <2> QED
      BY <1>0, <1>3, <2>1 DEF UploadVariant, CleanupTypeOK
  <1>4. CASE UNCHANGED cleanupVars
    BY <1>0, <1>4 DEF cleanupVars, CleanupTypeOK
  <1> QED
    BY <1>1, <1>2, <1>3, <1>4
    DEF MediaStep, ClaimMediaJob, Download, Process, InputRejected,
        AttemptFails, PublishRefused, RetryJob, AbandonAttempt

LEMMA LoopType ==
  ASSUME TypeOK, NEW w \in Workers, MediaStep(w) \/ AbandonAttempt(w)
  PROVE  TypeOK'
  <1>1. PICK ws \in WorkerState :
          /\ worker' = [worker EXCEPT ![w] = ws]
          /\ ws.pc # "idle" => ws.upload \in Uploads
    BY LoopRecord
  <1>2. /\ worker' \in [Workers -> WorkerState]
        /\ \A v \in Workers : worker'[v].pc # "idle" => worker'[v].upload \in Uploads
    BY <1>1 DEF TypeOK
  <1>3. UNCHANGED <<intent, inflight, finalizing>>
    BY DEF MediaStep, ClaimMediaJob, Download, Process, InputRejected,
           UploadVariant, PublishStory, PublishRefused, AttemptFails, RetryJob,
           RejectJob, AbandonAttempt
  <1>4. \/ abandons' = abandons
        \/ abandons < MaxAbandons /\ abandons' = abandons + 1
    BY DEF MediaStep, ClaimMediaJob, Download, Process, InputRejected,
           UploadVariant, PublishStory, PublishRefused, AttemptFails, RetryJob,
           RejectJob, AbandonAttempt
  <1>5. abandons' \in 0..MaxAbandons
    BY <1>4, PipelineAssumption DEF TypeOK
  <1> QED
    BY <1>2, <1>3, <1>5, LoopJob, LoopStory, LoopCleanup DEF TypeOK

LEMMA SweepType ==
  ASSUME TypeOK, Sweep
  PROVE  TypeOK'
  <1>0. /\ CleanupTypeOK
        /\ \A u \in Uploads : /\ intent[u] \in IntentRow /\ job[u] \in JobRow
                              /\ story[u] \in StoryRow
                              /\ variantRows[u] \in SUBSET Kinds
    BY DEF TypeOK
  <1>1. CASE ReapExpiredLeases
    <2>1. CleanupTypeOK'
      BY <1>0, <1>1, ReapKeepsKeys, RowsKeepKeysType DEF ReapExpiredLeases
    <2>2. \A u \in Uploads :
            [job[u] EXCEPT !.state = "queued", !.lease = 0] \in JobRow
      <3>1. 0 \in -1..MediaLease
        BY PipelineAssumption
      <3> QED
        BY <1>0, <3>1 DEF JobRow
    <2>3. job' \in [Uploads -> JobRow]
      BY <1>0, <1>1, <2>2 DEF ReapExpiredLeases
    <2> QED
      BY <1>1, <2>1, <2>3 DEF ReapExpiredLeases, TypeOK
  <1>2. ASSUME NEW u \in Uploads, ExpireStory(u)
        PROVE  TypeOK'
    <2>1. CleanupTypeOK'
      <3>1. VariantKeys(u, variantRows[u]) \in SUBSET Keys
        BY <1>0, VariantKeysFacts
      <3> QED
        BY <1>0, <1>2, <3>1, ScheduleDeleteType DEF ExpireStory
    <2>2. [story[u] EXCEPT !.state = "deleted"] \in StoryRow
      BY <1>0 DEF StoryRow
    <2>3. story' \in [Uploads -> StoryRow]
      BY <1>2, <2>2 DEF ExpireStory, TypeOK
    <2> QED
      BY <1>2, <2>1, <2>3 DEF ExpireStory, TypeOK
  <1>3. CASE GCAbandonedUploads
    <2>1. PICK due \in SUBSET Uploads :
            /\ intent' = [u \in Uploads |->
                            IF u \in due THEN [intent[u] EXCEPT !.state = "expired"]
                                         ELSE intent[u]]
            /\ ScheduleDelete({OriginalKey(u) : u \in due})
            /\ UNCHANGED <<inflight, finalizing, job, story, variantRows, worker,
                           abandons, bucket, cleaner, cleanerCrashes>>
      BY <1>3 DEF GCAbandonedUploads
    <2>2. {OriginalKey(u) : u \in due} \in SUBSET Keys
      BY KeyFacts
    <2>3. CleanupTypeOK'
      BY <1>0, <2>1, <2>2, ScheduleDeleteType
    <2>4. \A u \in Uploads : [intent[u] EXCEPT !.state = "expired"] \in IntentRow
      BY <1>0 DEF IntentRow
    <2>5. intent' \in [Uploads -> IntentRow]
      BY <1>0, <2>1, <2>4
    <2> QED
      BY <2>1, <2>3, <2>5 DEF TypeOK
  <1> QED
    BY <1>1, <1>2, <1>3 DEF Sweep

LEMMA TickType ==
  ASSUME TypeOK, Tick
  PROVE  TypeOK'
  <1>1. CleanupTypeOK'
    BY TickKeepsKeys, RowsKeepKeysType DEF Tick, TypeOK
  <1>2. intent' \in [Uploads -> IntentRow]
    <2> SUFFICES ASSUME NEW u \in Uploads
                 PROVE  ElapseIntent(intent[u]) \in IntentRow
      BY DEF Tick
    <2>1. intent[u] \in IntentRow
      BY DEF TypeOK
    <2>2. CASE intent[u].state # "none" /\ intent[u].ttl >= 0
      <3>1. intent[u].ttl - 1 \in -1..IntentTTL
        BY <2>1, <2>2, PipelineAssumption DEF IntentRow
      <3>2. [intent[u] EXCEPT !.ttl = intent[u].ttl - 1] \in IntentRow
        BY <2>1, <3>1 DEF IntentRow
      <3> QED
        BY <2>1, <2>2, <3>2 DEF ElapseIntent, IntentRow
    <2> QED
      BY <2>1, <2>2 DEF ElapseIntent
  <1>3. job' \in [Uploads -> JobRow]
    <2> SUFFICES ASSUME NEW u \in Uploads
                 PROVE  ElapseJob(job[u]) \in JobRow
      BY DEF Tick
    <2>1. job[u] \in JobRow
      BY DEF TypeOK
    <2> DEFINE l == IF job[u].state = "leased" /\ job[u].lease >= 0
                      THEN job[u].lease - 1 ELSE job[u].lease
    <2>2. Elapse(job[u].delay) \in Nat /\ l \in -1..MediaLease
      BY <2>1, PipelineAssumption DEF JobRow, Elapse
    <2>3. ElapseJob(job[u]) = [job[u] EXCEPT !.delay = Elapse(job[u].delay),
                                             !.lease = l]
      BY <2>1 DEF ElapseJob, JobRow
    <2> HIDE DEF l
    <2> QED
      BY <2>1, <2>2, <2>3 DEF JobRow
  <1>4. story' \in [Uploads -> StoryRow]
    <2> SUFFICES ASSUME NEW u \in Uploads
                 PROVE  [story[u] EXCEPT !.left = Elapse(story[u].left)] \in StoryRow
      BY DEF Tick
    <2>1. story[u] \in StoryRow
      BY DEF TypeOK
    <2>2. Elapse(story[u].left) \in 0..StoryLifetime
      BY <2>1, PipelineAssumption DEF StoryRow, Elapse
    <2> QED
      BY <2>1, <2>2 DEF StoryRow
  <1> QED
    BY <1>1, <1>2, <1>3, <1>4 DEF Tick, TypeOK

LEMMA NextType ==
  ASSUME TypeOK, [Next]_vars
  PROVE  TypeOK'
  <1>1. ASSUME NEW c \in Cleaners, CleanerStep(c) \/ CrashCleaner(c),
               UNCHANGED mediaVars
        PROVE  TypeOK'
    <2>1. CleanupTypeOK'
      BY <1>1, CleanerStepType DEF TypeOK
    <2> QED
      BY <1>1, <2>1 DEF TypeOK, mediaVars
  <1>2. CASE UNCHANGED vars
    BY <1>2 DEF vars, mediaVars, cleanupVars, TypeOK, CleanupTypeOK
  <1> QED
    BY <1>1, <1>2, ClientType, LoopType, SweepType, TickType DEF Next

LEMMA InitType ==
  ASSUME Init
  PROVE  TypeOK
  <1>1. CleanupTypeOK
    BY CleanupInitType DEF Init
  <1>2. /\ [state |-> "none", ttl |-> 0] \in IntentRow
        /\ [state |-> "none", attempts |-> 0, delay |-> 0, lease |-> 0] \in JobRow
        /\ [state |-> "none", left |-> 0] \in StoryRow
        /\ IdleWorker \in WorkerState /\ IdleWorker.pc = "idle"
    BY PipelineAssumption DEF IntentRow, JobRow, StoryRow, WorkerState, IdleWorker
  <1> QED
    BY <1>1, <1>2, PipelineAssumption DEF Init, TypeOK

\* Every table, loop and counter keeps its type.
THEOREM TypeCorrect == Spec => []TypeOK
  BY InitType, NextType, PTL DEF Spec

-----------------------------------------------------------------------------
(* The inductive invariant *)

\* A step after which no Story has changed state keeps the invariant if it
\* erases only named keys, names no variant, keeps the jobs there are (open, if
\* they were), and lets a loop count a variant as stored only when it is: the
\* shape of every step but the five that move a Story.
LEMMA QuietStep ==
  ASSUME IInv, TypeOK',
         \A u \in Uploads : story'[u].state = story[u].state,
         variantRows' = variantRows,
         bucket \ bucket' \subseteq NamedKeys,
         NamedKeys \subseteq NamedKeys',
         \A u \in Uploads, k \in Kinds :
           VariantKey(u, k) \in NamedKeys' => VariantKey(u, k) \in NamedKeys,
         \A u \in Uploads :
           /\ job[u].state # "none" => job'[u].state # "none"
           /\ job[u].state = "none" => job'[u].state = "none"
           /\ job[u].state \in {"queued", "leased"} =>
                job'[u].state \in {"queued", "leased"},
         \A w \in Workers :
           worker'[w].pc # "idle" =>
             /\ job[worker'[w].upload].state # "none"
             /\ \/ worker'[w].stored = {}
                \/ /\ worker[w].pc # "idle"
                   /\ worker'[w].upload = worker[w].upload
                   /\ \A k \in worker'[w].stored \ worker[w].stored :
                        VariantKey(worker[w].upload, k) \in bucket'
  PROVE  IInv'
  <1> DEFINE Shown(u) == story[u].state \in {"processing", "published"}
  <1>0. /\ TypeOK
        /\ \A w \in Workers : worker'[w].pc # "idle" =>
             worker'[w].upload \in Uploads /\ worker'[w].stored \subseteq Kinds
    BY DEF IInv, TypeOK, WorkerState
  <1>1. \A u \in Uploads, k \in Kinds :
          VariantKey(u, k) \in bucket /\ Shown(u) => VariantKey(u, k) \in bucket'
    BY DEF IInv, OnlyGoneStoriesReclaimed, Gone
  <1>2. PublishedHasBytes'
    <2> SUFFICES ASSUME NEW u \in Uploads, story'[u].state = "published"
                 PROVE  /\ variantRows'[u] = Kinds
                        /\ VariantKeys(u, Kinds) \subseteq bucket'
      BY DEF PublishedHasBytes
    <2>1. variantRows[u] = Kinds /\ VariantKeys(u, Kinds) \subseteq bucket
      BY DEF IInv, PublishedHasBytes
    <2> QED
      BY <1>1, <2>1 DEF VariantKeys
  <1>3. OnlyGoneStoriesReclaimed'
    BY DEF IInv, OnlyGoneStoriesReclaimed, Gone
  <1>4. ProcessingHasJob'
    BY DEF IInv, ProcessingHasJob
  <1>5. SettledOriginalNamed'
    BY DEF IInv, SettledOriginalNamed
  <1>6. JobFirst'
    BY <1>0 DEF IInv, JobFirst
  <1>7. StoredInBucket'
    <2> SUFFICES ASSUME NEW w \in Workers, worker'[w].pc # "idle",
                        story'[worker'[w].upload].state
                          \in {"processing", "published"},
                        NEW k \in worker'[w].stored
                 PROVE  VariantKey(worker'[w].upload, k) \in bucket'
      BY DEF StoredInBucket, VariantKeys
    <2> DEFINE u == worker'[w].upload
    <2>1. u \in Uploads /\ k \in Kinds /\ Shown(u)
      BY <1>0
    <2>2. CASE k \in worker[w].stored
      <3>1. worker[w].pc # "idle" /\ worker[w].upload = u
        OBVIOUS
      <3>2. VariantKey(u, k) \in bucket
        BY <2>1, <2>2, <3>1 DEF IInv, StoredInBucket, VariantKeys
      <3> QED
        BY <1>1, <2>1, <3>2
    <2>3. CASE k \notin worker[w].stored
      BY <2>3
    <2> QED
      BY <2>2, <2>3
  <1> QED
    BY <1>2, <1>3, <1>4, <1>5, <1>6, <1>7 DEF IInv

\* What the queue's own tables say to the rest when they do not change.
LEMMA SameNames ==
  ASSUME UNCHANGED cleanup
  PROVE  NamedKeys' = NamedKeys
  BY DEF NamedKeys

\* The client's steps before the finalize transaction commits.
LEMMA QuietClient ==
  ASSUME IInv, TypeOK', NEW u \in Uploads,
         \/ PostUpload(u) \/ StartPut(u) \/ PutLands(u) \/ PutAborts(u)
         \/ FinalizeRead(u) \/ FinalizeFails(u)
  PROVE  IInv'
  <1>1. /\ UNCHANGED <<job, story, variantRows, worker, cleanup>>
        /\ bucket \subseteq bucket'
    BY DEF PostUpload, StartPut, PutLands, PutAborts, FinalizeRead,
           FinalizeFails, cleanupVars
  <1>2. NamedKeys' = NamedKeys
    BY <1>1, SameNames
  <1>3. \A w \in Workers :
          worker[w].pc # "idle" => job[worker[w].upload].state # "none"
    BY DEF IInv, JobFirst
  <1> QED
    BY <1>1, <1>2, <1>3, QuietStep

\* An attempt before its last transaction.
LEMMA QuietLoop ==
  ASSUME IInv, TypeOK', NEW w \in Workers,
         \/ ClaimMediaJob(w) \/ Download(w) \/ Process(w) \/ UploadVariant(w)
         \/ PublishRefused(w) \/ AttemptFails(w) \/ InputRejected(w)
         \/ RetryJob(w) \/ AbandonAttempt(w)
  PROVE  IInv'
  <1>0. /\ TypeOK /\ JobFirst
        /\ worker \in [Workers -> WorkerState] /\ job \in [Uploads -> JobRow]
        /\ \A v \in Workers :
             worker[v].pc # "idle" => /\ worker[v].upload \in Uploads
                                      /\ job[worker[v].upload].state # "none"
    BY DEF IInv, TypeOK, JobFirst
  <1>1. /\ UNCHANGED <<story, variantRows, cleanup>>
        /\ bucket \subseteq bucket'
    BY DEF ClaimMediaJob, Download, Process, UploadVariant, PublishRefused,
           AttemptFails, InputRejected, RetryJob, AbandonAttempt, cleanupVars
  <1>2. NamedKeys' = NamedKeys
    BY <1>1, SameNames
  <1>3. \A u \in Uploads :
          /\ job[u].state # "none" => job'[u].state # "none"
          /\ job[u].state = "none" => job'[u].state = "none"
          /\ job[u].state \in {"queued", "leased"} =>
               job'[u].state \in {"queued", "leased"}
    <2>1. CASE ClaimMediaJob(w)
      <3>1. PICK u \in Uploads :
              /\ JobClaimable(u)
              /\ job' = [job EXCEPT ![u].state = "leased", ![u].lease = MediaLease,
                          ![u].attempts = IF @ <= MaxAttempts THEN @ + 1 ELSE @]
        BY <2>1 DEF ClaimMediaJob
      <3>2. /\ job[u].state \in {"queued", "leased"}
            /\ job'[u].state = "leased"
            /\ \A v \in Uploads \ {u} : job'[v] = job[v]
        BY <1>0, <3>1 DEF JobClaimable, JobLeaseExpired, JobRow
      <3> QED
        BY <3>2
    <2>2. CASE RetryJob(w)
      <3> DEFINE u == worker[w].upload
      <3>1. u \in Uploads /\ job[u].state # "none"
        BY <1>0, <2>2 DEF RetryJob
      <3>2. job'[u].state = "queued" /\ \A v \in Uploads \ {u} : job'[v] = job[v]
        BY <1>0, <2>2, <3>1 DEF RetryJob, JobRow
      <3> QED
        BY <3>1, <3>2
    <2>3. CASE UNCHANGED job
      BY <2>3
    <2> QED
      BY <2>1, <2>2, <2>3
      DEF Download, Process, UploadVariant, PublishRefused, AttemptFails,
          InputRejected, AbandonAttempt
  <1>4. \A v \in Workers \ {w} : worker'[v] = worker[v]
    BY <1>0 DEF ClaimMediaJob, Download, Process, UploadVariant, PublishRefused,
                AttemptFails, InputRejected, RetryJob, AbandonAttempt
  <1>5. worker'[w].pc # "idle" =>
          /\ job[worker'[w].upload].state # "none"
          /\ \/ worker'[w].stored = {}
             \/ /\ worker[w].pc # "idle"
                /\ worker'[w].upload = worker[w].upload
                /\ \A k \in worker'[w].stored \ worker[w].stored :
                     VariantKey(worker[w].upload, k) \in bucket'
    <2>1. CASE ClaimMediaJob(w)
      <3>1. PICK u \in Uploads :
              /\ JobClaimable(u)
              /\ worker' = [worker EXCEPT ![w] = [pc |-> "claimed", upload |-> u,
                                                  stored |-> {}, backoff |-> 0]]
        BY <2>1 DEF ClaimMediaJob
      <3>2. job[u].state # "none"
        BY <3>1 DEF JobClaimable, JobLeaseExpired
      <3> QED
        BY <1>0, <3>1, <3>2
    <2>2. CASE Download(w) \/ Process(w) \/ InputRejected(w)
      BY <1>0, <2>2 DEF Download, Process, InputRejected, WorkerState
    <2>3. CASE UploadVariant(w)
      BY <1>0, <2>3 DEF UploadVariant, WorkerState
    <2>4. CASE AttemptFails(w)
      <3>1. /\ worker[w].pc # "idle"
            /\ \/ worker' = [worker EXCEPT ![w].pc = "retrying", ![w].stored = {},
                               ![w].backoff = Backoff(job[worker[w].upload].attempts)]
               \/ worker' = [worker EXCEPT ![w].pc = "rejecting", ![w].stored = {}]
        BY <2>4 DEF AttemptFails
      <3>2. worker'[w].upload = worker[w].upload /\ worker'[w].stored = {}
        BY <1>0, <3>1 DEF WorkerState
      <3> QED
        BY <1>0, <3>1, <3>2
    <2>5. CASE PublishRefused(w) \/ RetryJob(w) \/ AbandonAttempt(w)
      BY <1>0, <2>5 DEF PublishRefused, RetryJob, AbandonAttempt, IdleWorker
    <2> QED
      BY <2>1, <2>2, <2>3, <2>4, <2>5
  <1> QED
    BY <1>0, <1>1, <1>2, <1>3, <1>4, <1>5, QuietStep

\* Time, the sweep of leases and of intents, and the deletion queue.
LEMMA QuietBackground ==
  ASSUME IInv, TypeOK',
         \/ Tick \/ ReapExpiredLeases \/ GCAbandonedUploads
         \/ \E c \in Cleaners : (CleanerStep(c) \/ CrashCleaner(c))
                                /\ UNCHANGED mediaVars
  PROVE  IInv'
  <1>0. /\ TypeOK /\ CleanupTypeOK
        /\ story \in [Uploads -> StoryRow] /\ job \in [Uploads -> JobRow]
        /\ \A w \in Workers :
             worker[w].pc # "idle" => job[worker[w].upload].state # "none"
    BY DEF IInv, TypeOK, JobFirst
  <1>1. variantRows' = variantRows /\ worker' = worker
    BY DEF Tick, ReapExpiredLeases, GCAbandonedUploads, mediaVars
  <1>2. \A u \in Uploads : story'[u].state = story[u].state
    <2>1. CASE Tick
      BY <1>0, <2>1 DEF Tick, StoryRow
    <2>2. CASE story' = story
      BY <2>2
    <2> QED
      BY <2>1, <2>2 DEF ReapExpiredLeases, GCAbandonedUploads, mediaVars
  <1>3. \A u \in Uploads :
          /\ job[u].state # "none" => job'[u].state # "none"
          /\ job[u].state = "none" => job'[u].state = "none"
          /\ job[u].state \in {"queued", "leased"} =>
               job'[u].state \in {"queued", "leased"}
    <2>1. CASE Tick
      <3>1. \A u \in Uploads : job'[u].state = job[u].state
        BY <1>0, <2>1 DEF Tick, ElapseJob, JobRow
      <3> QED
        BY <3>1
    <2>2. CASE ReapExpiredLeases
      <3>1. \A u \in Uploads :
              \/ job'[u] = job[u]
              \/ job[u].state = "leased" /\ job'[u].state = "queued"
        BY <1>0, <2>2 DEF ReapExpiredLeases, JobLeaseExpired, JobRow
      <3> QED
        BY <3>1
    <2>3. CASE job' = job
      BY <2>3
    <2> QED
      BY <2>1, <2>2, <2>3 DEF GCAbandonedUploads, mediaVars
  <1>4. /\ bucket \ bucket' \subseteq NamedKeys
        /\ NamedKeys \subseteq NamedKeys'
        /\ \A u \in Uploads, k \in Kinds :
             VariantKey(u, k) \in NamedKeys' => VariantKey(u, k) \in NamedKeys
    <2>1. CASE Tick \/ ReapExpiredLeases
      <3>1. RowsKeepKeys /\ bucket' = bucket
        BY <1>0, <2>1, TickKeepsKeys, ReapKeepsKeys DEF Tick, ReapExpiredLeases
      <3> QED
        BY <3>1, KeptKeysNamed
    <2>2. CASE GCAbandonedUploads
      <3>1. PICK due \in SUBSET Uploads :
              ScheduleDelete({OriginalKey(u) : u \in due}) /\ bucket' = bucket
        BY <2>2 DEF GCAbandonedUploads
      <3>2. {OriginalKey(u) : u \in due} \in SUBSET Keys
        BY KeyFacts
      <3>3. NamedKeys' = NamedKeys \cup {OriginalKey(u) : u \in due}
        BY <1>0, <3>1, <3>2, ScheduleDeleteNames
      <3> QED
        BY <3>1, <3>3, KeyFacts
    <2>3. ASSUME NEW c \in Cleaners, CleanerStep(c) \/ CrashCleaner(c)
          PROVE  /\ NamedKeys' = NamedKeys
                 /\ bucket \ bucket' \subseteq NamedKeys
      BY <1>0, <2>3, CleanerStepType, CleanerStepErases
    <2> QED
      BY <2>1, <2>2, <2>3
  <1> QED
    BY <1>0, <1>1, <1>2, <1>3, <1>4, QuietStep

\* The finalize transaction: the Story and its job appear together.
LEMMA FinalizeInv ==
  ASSUME IInv, TypeOK', NEW u \in Uploads, FinalizeCommit(u)
  PROVE  IInv'
  <1>0. /\ story \in [Uploads -> StoryRow] /\ job \in [Uploads -> JobRow]
        /\ JobFirst
        /\ \A w \in Workers : worker[w].pc # "idle" => worker[w].upload \in Uploads
    BY DEF IInv, TypeOK
  <1>1. job[u].state = "none" /\ story[u].state = "none"
    BY <1>0 DEF FinalizeCommit, JobInsertable, JobFirst
  <1>2. /\ UNCHANGED <<variantRows, worker, bucket, cleanup>>
        /\ story'[u].state = "processing" /\ job'[u].state = "queued"
        /\ \A v \in Uploads \ {u} : story'[v] = story[v] /\ job'[v] = job[v]
    BY <1>0 DEF FinalizeCommit, cleanupVars, StoryRow
  <1>3. NamedKeys' = NamedKeys
    BY <1>2, SameNames
  <1>4. \A w \in Workers : worker[w].pc # "idle" => worker[w].upload # u
    BY <1>0, <1>1 DEF JobFirst
  <1>5. PublishedHasBytes' /\ ProcessingHasJob' /\ SettledOriginalNamed'
    BY <1>2, <1>3
    DEF IInv, PublishedHasBytes, ProcessingHasJob, SettledOriginalNamed
  <1>6. OnlyGoneStoriesReclaimed'
    BY <1>1, <1>2, <1>3 DEF IInv, OnlyGoneStoriesReclaimed, Gone
  <1>7. JobFirst'
    BY <1>0, <1>2, <1>4 DEF JobFirst
  <1>8. StoredInBucket'
    BY <1>0, <1>2, <1>4 DEF IInv, StoredInBucket
  <1> QED
    BY <1>5, <1>6, <1>7, <1>8 DEF IInv

\* Deletion, removal and expiry: the Story's variants are named with its end.
LEMMA WithdrawInv ==
  ASSUME IInv, TypeOK', NEW u \in Uploads,
         ExpireStory(u) \/ DeleteStory(u, "deleted") \/ DeleteStory(u, "removed")
  PROVE  IInv'
  <1>0. /\ CleanupTypeOK /\ JobFirst
        /\ story \in [Uploads -> StoryRow] /\ variantRows[u] \in SUBSET Kinds
        /\ \A w \in Workers : worker[w].pc # "idle" => worker[w].upload \in Uploads
    BY DEF IInv, TypeOK
  <1>1. /\ UNCHANGED <<job, variantRows, worker, bucket>>
        /\ ScheduleDelete(VariantKeys(u, variantRows[u]))
        /\ story[u].state # "none" /\ story'[u].state \in Gone
        /\ \A v \in Uploads \ {u} : story'[v] = story[v]
    BY <1>0 DEF ExpireStory, DeleteStory, StoryRow, Gone
  <1>2. /\ VariantKeys(u, variantRows[u]) \in SUBSET Keys
        /\ NamedKeys' = NamedKeys \cup VariantKeys(u, variantRows[u])
    BY <1>0, <1>1, VariantKeysFacts, ScheduleDeleteNames
  <1>3. PublishedHasBytes' /\ ProcessingHasJob' /\ SettledOriginalNamed'
    BY <1>1, <1>2
    DEF IInv, PublishedHasBytes, ProcessingHasJob, SettledOriginalNamed, Gone
  <1>4. OnlyGoneStoriesReclaimed'
    BY <1>0, <1>1, <1>2, VariantKeysFacts DEF IInv, OnlyGoneStoriesReclaimed
  <1>5. JobFirst'
    BY <1>0, <1>1 DEF JobFirst
  <1>6. StoredInBucket'
    BY <1>0, <1>1 DEF IInv, StoredInBucket, Gone
  <1> QED
    BY <1>3, <1>4, <1>5, <1>6 DEF IInv

\* Publication: the attempt's own stored variants are the Story's variants.
LEMMA PublishInv ==
  ASSUME IInv, TypeOK', NEW w \in Workers, PublishStory(w)
  PROVE  IInv'
  <1> DEFINE u == worker[w].upload
  <1>0. /\ CleanupTypeOK /\ JobFirst /\ u \in Uploads
        /\ story \in [Uploads -> StoryRow] /\ job \in [Uploads -> JobRow]
        /\ variantRows \in [Uploads -> SUBSET Kinds]
        /\ worker \in [Workers -> WorkerState]
        /\ \A v \in Workers : worker[v].pc # "idle" => worker[v].upload \in Uploads
    BY DEF IInv, TypeOK, PublishStory
  <1>1. /\ bucket' = bucket /\ ScheduleDelete({OriginalKey(u)})
        /\ worker[w].pc # "idle" /\ worker[w].stored = Kinds
        /\ story[u].state = "processing"
    BY DEF PublishStory, AllStored, Publishable
  <1>2. /\ variantRows'[u] = Kinds /\ story'[u].state = "published"
        /\ job'[u].state = "succeeded"
        /\ \A v \in Uploads \ {u} : /\ story'[v] = story[v] /\ job'[v] = job[v]
                                    /\ variantRows'[v] = variantRows[v]
    BY <1>0 DEF PublishStory, Published, JobRow
  <1>3. /\ worker'[w].pc = "idle"
        /\ \A v \in Workers \ {w} : worker'[v] = worker[v]
    BY <1>0 DEF PublishStory, IdleWorker
  <1>4. /\ {OriginalKey(u)} \in SUBSET Keys
        /\ NamedKeys' = NamedKeys \cup {OriginalKey(u)}
    BY <1>0, <1>1, KeyFacts, ScheduleDeleteNames
  <1>5. VariantKeys(u, Kinds) \subseteq bucket
    BY <1>1 DEF IInv, StoredInBucket
  <1>6. PublishedHasBytes'
    BY <1>1, <1>2, <1>5 DEF IInv, PublishedHasBytes
  <1>7. ProcessingHasJob' /\ SettledOriginalNamed'
    BY <1>2, <1>4 DEF IInv, ProcessingHasJob, SettledOriginalNamed
  <1>8. OnlyGoneStoriesReclaimed'
    BY <1>0, <1>1, <1>2, <1>4, KeyFacts DEF IInv, OnlyGoneStoriesReclaimed, Gone
  <1>9. JobFirst'
    BY <1>0, <1>2, <1>3 DEF JobFirst
  <1>10. StoredInBucket'
    <2> SUFFICES ASSUME NEW v \in Workers \ {w}, worker[v].pc # "idle",
                        story'[worker[v].upload].state
                          \in {"processing", "published"}
                 PROVE  VariantKeys(worker[v].upload, worker[v].stored)
                          \subseteq bucket
      BY <1>1, <1>3 DEF StoredInBucket
    <2>1. story[worker[v].upload].state \in {"processing", "published"}
      BY <1>0, <1>1, <1>2
    <2> QED
      BY <2>1 DEF IInv, StoredInBucket
  <1> QED
    BY <1>6, <1>7, <1>8, <1>9, <1>10 DEF IInv

\* The final failure: the Story fails only if it still was processing.
LEMMA RejectInv ==
  ASSUME IInv, TypeOK', NEW w \in Workers, RejectJob(w)
  PROVE  IInv'
  <1> DEFINE u == worker[w].upload
  <1>0. /\ CleanupTypeOK /\ JobFirst /\ u \in Uploads
        /\ story \in [Uploads -> StoryRow] /\ job \in [Uploads -> JobRow]
        /\ worker \in [Workers -> WorkerState] /\ worker[w].pc # "idle"
        /\ \A v \in Workers : worker[v].pc # "idle" => worker[v].upload \in Uploads
    BY DEF IInv, TypeOK, RejectJob
  <1>1. /\ UNCHANGED <<bucket, variantRows>> /\ ScheduleDelete({OriginalKey(u)})
        /\ job'[u].state = "failed"
        /\ \A v \in Uploads \ {u} : job'[v] = job[v]
    BY <1>0 DEF RejectJob, RejectedKeys, JobRow
  <1>2. /\ \A v \in Uploads \ {u} : story'[v] = story[v]
        /\ story[u].state = "processing" => story'[u].state = "failed"
        /\ story[u].state # "processing" => story'[u] = story[u]
    BY <1>0 DEF RejectJob, StoryAfterFailure, StoryRow
  <1>3. /\ worker'[w].pc = "idle"
        /\ \A v \in Workers \ {w} : worker'[v] = worker[v]
    BY <1>0 DEF RejectJob, IdleWorker
  <1>4. /\ {OriginalKey(u)} \in SUBSET Keys
        /\ NamedKeys' = NamedKeys \cup {OriginalKey(u)}
    BY <1>0, <1>1, KeyFacts, ScheduleDeleteNames
  <1>5. job[u].state # "none"
    BY <1>0 DEF JobFirst
  <1>6. PublishedHasBytes'
    BY <1>1, <1>2 DEF IInv, PublishedHasBytes
  <1>7. ProcessingHasJob'
    BY <1>1, <1>2 DEF IInv, ProcessingHasJob
  <1>8. SettledOriginalNamed'
    BY <1>2, <1>4 DEF IInv, SettledOriginalNamed
  <1>9. OnlyGoneStoriesReclaimed'
    BY <1>0, <1>2, <1>4, KeyFacts DEF IInv, OnlyGoneStoriesReclaimed, Gone
  <1>10. JobFirst'
    BY <1>0, <1>1, <1>2, <1>3, <1>5 DEF JobFirst
  <1>11. StoredInBucket'
    <2> SUFFICES ASSUME NEW v \in Workers \ {w}, worker[v].pc # "idle",
                        story'[worker[v].upload].state
                          \in {"processing", "published"}
                 PROVE  VariantKeys(worker[v].upload, worker[v].stored)
                          \subseteq bucket
      BY <1>1, <1>3 DEF StoredInBucket
    <2>1. story[worker[v].upload].state \in {"processing", "published"}
      BY <1>0, <1>2
    <2> QED
      BY <2>1 DEF IInv, StoredInBucket
  <1> QED
    BY <1>6, <1>7, <1>8, <1>9, <1>10, <1>11 DEF IInv

\* IInv is inductive.
THEOREM Invariance == Spec => []IInv
  <1>1. Init => IInv
    <2> SUFFICES ASSUME Init PROVE IInv
      OBVIOUS
    <2>1. /\ TypeOK /\ NamedKeys = {}
          /\ \A u \in Uploads : story[u].state = "none"
          /\ \A w \in Workers : worker[w].pc = "idle"
      BY InitType, CleanupInitType DEF Init, IdleWorker
    <2> QED
      BY <2>1
      DEF IInv, PublishedHasBytes, OnlyGoneStoriesReclaimed, ProcessingHasJob,
          SettledOriginalNamed, JobFirst, StoredInBucket
  <1>2. IInv /\ [Next]_vars => IInv'
    <2> SUFFICES ASSUME IInv, [Next]_vars PROVE IInv'
      OBVIOUS
    <2>0. TypeOK'
      BY NextType DEF IInv
    <2>1. ASSUME NEW u \in Uploads, Client(u)
          PROVE  IInv'
      BY <2>0, <2>1, QuietClient, FinalizeInv, WithdrawInv DEF Client
    <2>2. ASSUME NEW w \in Workers, MediaStep(w) \/ AbandonAttempt(w)
          PROVE  IInv'
      BY <2>0, <2>2, QuietLoop, PublishInv, RejectInv DEF MediaStep
    <2>3. CASE Sweep
      BY <2>0, <2>3, QuietBackground, WithdrawInv DEF Sweep
    <2>4. CASE Tick
      BY <2>0, <2>4, QuietBackground
    <2>5. ASSUME NEW c \in Cleaners, CleanerStep(c) \/ CrashCleaner(c),
                 UNCHANGED mediaVars
          PROVE  IInv'
      BY <2>0, <2>5, QuietBackground
    <2>6. CASE UNCHANGED vars
      BY <2>0, <2>6
      DEF vars, mediaVars, cleanupVars, NamedKeys, IInv, PublishedHasBytes,
          OnlyGoneStoriesReclaimed, ProcessingHasJob, SettledOriginalNamed,
          JobFirst, StoredInBucket
    <2> QED
      BY <2>1, <2>2, <2>3, <2>4, <2>5, <2>6 DEF Next
  <1> QED
    BY <1>1, <1>2, PTL DEF Spec

\* A published Story has all its variants, in the table and in the bucket.
THEOREM PublishedHasBytesHolds == Spec => []PublishedHasBytes
  BY Invariance, PTL DEF IInv

\* A variant is named for deletion only when its Story is gone.
THEOREM OnlyGoneStoriesReclaimedHolds == Spec => []OnlyGoneStoriesReclaimed
  BY Invariance, PTL DEF IInv

\* A processing Story has an open job.
THEOREM ProcessingHasJobHolds == Spec => []ProcessingHasJob
  BY Invariance, PTL DEF IInv

\* A published or failed Story has its original named for deletion.
THEOREM SettledOriginalNamedHolds == Spec => []SettledOriginalNamed
  BY Invariance, PTL DEF IInv

-----------------------------------------------------------------------------
(* Steps: what one step may do to a Story *)

\* The ways a step moves the one Story it moves.
Moves(u) ==
  \/ /\ story[u].state = "none"
     /\ story'[u] = [story[u] EXCEPT !.state = "processing"]
  \/ /\ story[u].state = "processing" /\ VariantKeys(u, Kinds) \subseteq bucket
     /\ story'[u] = Published
  \/ /\ story[u].state = "processing"
     /\ story'[u] = [story[u] EXCEPT !.state = "failed"]
  \/ /\ story[u].state \in {"processing", "published"}
     /\ \E state \in Gone : story'[u] = [story[u] EXCEPT !.state = state]

LEMMA StoryStep ==
  ASSUME IInv, [Next]_vars
  PROVE  \/ story' = story
         \/ /\ bucket' = bucket
            /\ \A u \in Uploads :
                 story'[u] = [story[u] EXCEPT !.left = Elapse(story[u].left)]
         \/ /\ bucket' = bucket
            /\ \E u \in Uploads : /\ Moves(u)
                                  /\ \A v \in Uploads \ {u} : story'[v] = story[v]
  <1>0. /\ story \in [Uploads -> StoryRow] /\ JobFirst
        /\ \A u \in Uploads : story[u] \in StoryRow
        /\ \A w \in Workers : worker[w].pc # "idle" => worker[w].upload \in Uploads
    BY DEF IInv, TypeOK
  <1>1. ASSUME NEW u \in Uploads, FinalizeCommit(u)
        PROVE  /\ bucket' = bucket /\ Moves(u)
               /\ \A v \in Uploads \ {u} : story'[v] = story[v]
    BY <1>0, <1>1
    DEF FinalizeCommit, JobInsertable, JobFirst, cleanupVars, Moves
  <1>2. ASSUME NEW u \in Uploads,
               \/ ExpireStory(u)
               \/ \E o \in {"deleted", "removed"} : DeleteStory(u, o)
        PROVE  /\ bucket' = bucket /\ Moves(u)
               /\ \A v \in Uploads \ {u} : story'[v] = story[v]
    <2>1. PICK o \in {"deleted", "removed"} :
            /\ story' = [story EXCEPT ![u] = [story[u] EXCEPT !.state = o]]
            /\ bucket' = bucket
            /\ story[u].state \in {"published", "processing"}
      BY <1>2 DEF ExpireStory, DeleteStory
    <2> QED
      BY <1>0, <2>1 DEF Moves, Gone
  <1>3. ASSUME NEW w \in Workers, PublishStory(w)
        PROVE  /\ bucket' = bucket /\ worker[w].upload \in Uploads
               /\ Moves(worker[w].upload)
               /\ \A v \in Uploads \ {worker[w].upload} : story'[v] = story[v]
    <2>1. VariantKeys(worker[w].upload, Kinds) \subseteq bucket
      BY <1>3 DEF PublishStory, AllStored, Publishable, IInv, StoredInBucket
    <2> QED
      BY <1>0, <1>3, <2>1 DEF PublishStory, Publishable, Moves
  <1>4. ASSUME NEW w \in Workers, RejectJob(w), story' # story
        PROVE  /\ bucket' = bucket /\ worker[w].upload \in Uploads
               /\ Moves(worker[w].upload)
               /\ \A v \in Uploads \ {worker[w].upload} : story'[v] = story[v]
    BY <1>0, <1>4 DEF RejectJob, StoryAfterFailure, Moves
  <1>5. CASE Tick
    BY <1>0, <1>5 DEF Tick
  <1>6. CASE story' = story
    BY <1>6
  <1> QED
    BY <1>1, <1>2, <1>3, <1>4, <1>5, <1>6
    DEF Next, Client, PostUpload, StartPut, PutLands, PutAborts, FinalizeRead,
        FinalizeFails, MediaStep, ClaimMediaJob, Download, Process,
        UploadVariant, PublishRefused, AttemptFails, InputRejected, RetryJob,
        AbandonAttempt, Sweep, ReapExpiredLeases, GCAbandonedUploads,
        mediaVars, vars

\* A settled Story never comes back and no deadline is ever extended.
THEOREM StoryOnlyAdvancesHolds == Spec => StoryOnlyAdvances
  <1> DEFINE Advances ==
        \A u \in Uploads :
          /\ story'[u].state \in Onward(story[u].state)
          /\ story[u].state = "published" => story'[u].left <= story[u].left
  <1>1. IInv /\ [Next]_vars => Advances
    <2> SUFFICES ASSUME IInv, [Next]_vars, NEW u \in Uploads
                 PROVE  /\ story'[u].state \in Onward(story[u].state)
                        /\ story[u].state = "published" =>
                             story'[u].left <= story[u].left
      OBVIOUS
    <2>0. /\ story[u] \in StoryRow /\ story[u].left \in Nat
          /\ story[u].state \in {"none", "processing", "published", "failed",
                                 "deleted", "removed"}
      BY PipelineAssumption DEF IInv, TypeOK, StoryRow
    <2>1. CASE story'[u] = story[u]
      BY <2>0, <2>1 DEF Onward
    <2>2. CASE story'[u] = [story[u] EXCEPT !.left = Elapse(story[u].left)]
      <3>1. /\ story'[u].state = story[u].state
            /\ story'[u].left = Elapse(story[u].left)
        BY <2>0, <2>2 DEF StoryRow
      <3>2. Elapse(story[u].left) <= story[u].left
        BY <2>0 DEF Elapse
      <3> QED
        BY <2>0, <3>1, <3>2 DEF Onward
    <2>3. CASE Moves(u)
      <3>1. CASE story[u].state = "published"
        <4>1. PICK state \in Gone :
                story'[u] = [story[u] EXCEPT !.state = state]
          BY <2>3, <3>1 DEF Moves
        <4>2. story'[u].state \in Gone /\ story'[u].left = story[u].left
          BY <2>0, <4>1 DEF StoryRow
        <4> QED
          BY <2>0, <3>1, <4>2 DEF Onward
      <3>2. CASE story[u].state # "published"
        BY <2>0, <2>3, <3>2 DEF Moves, Onward, Published, StoryRow, Gone
      <3> QED
        BY <3>1, <3>2
    <2> QED
      BY <2>1, <2>2, <2>3, StoryStep
  <1> QED
    BY <1>1, Invariance, PTL DEF Spec, StoryOnlyAdvances

\* Once an upload has its job, finalizing again changes nothing.
THEOREM FinalizedOnceHolds == Spec => FinalizedOnce
  <1> DEFINE Once ==
        \A u \in Uploads :
          job[u].state # "none" =>
            /\ job'[u].state # "none"
            /\ job'[u].attempts >= job[u].attempts
            /\ intent'[u].state = "finalized" \/ intent[u].state # "finalized"
  <1>1. IInv /\ [Next]_vars => Once
    <2> SUFFICES ASSUME IInv, [Next]_vars, NEW u \in Uploads,
                        job[u].state # "none"
                 PROVE  /\ job'[u].state # "none"
                        /\ job'[u].attempts >= job[u].attempts
                        /\ \/ intent'[u].state = "finalized"
                           \/ intent[u].state # "finalized"
      OBVIOUS
    <2>0. /\ job \in [Uploads -> JobRow] /\ intent \in [Uploads -> IntentRow]
          /\ job[u] \in JobRow /\ intent[u] \in IntentRow
          /\ job[u].attempts \in Nat
      BY PipelineAssumption DEF IInv, TypeOK, JobRow
    <2>1. \/ job'[u] = job[u]
          \/ job'[u].state # "none" /\ job'[u].attempts = job[u].attempts
          \/ job'[u].state # "none" /\ job'[u].attempts = job[u].attempts + 1
      <3>1. ASSUME NEW w \in Workers, ClaimMediaJob(w)
            PROVE  \/ job'[u] = job[u]
                   \/ /\ job'[u].state = "leased"
                      /\ job'[u].attempts \in {job[u].attempts, job[u].attempts + 1}
        BY <2>0, <3>1 DEF ClaimMediaJob, JobRow
      <3>2. ASSUME NEW w \in Workers, PublishStory(w) \/ RetryJob(w) \/ RejectJob(w)
            PROVE  \/ job'[u] = job[u]
                   \/ job'[u].state # "none" /\ job'[u].attempts = job[u].attempts
        <4> DEFINE v == worker[w].upload
        <4>1. CASE PublishStory(w)
          BY <2>0, <4>1 DEF PublishStory, JobRow
        <4>2. CASE RejectJob(w)
          BY <2>0, <4>2 DEF RejectJob, JobRow
        <4>3. CASE RetryJob(w)
          <5>1. job' = [job EXCEPT ![v] = [job[v] EXCEPT !.state = "queued",
                          !.lease = 0, !.delay = worker[w].backoff]]
            BY <4>3 DEF RetryJob
          <5> QED
            BY <2>0, <5>1 DEF JobRow
        <4> QED
          BY <3>2, <4>1, <4>2, <4>3
      <3>3. CASE ReapExpiredLeases
        <4>1. \/ job'[u] = job[u]
              \/ job'[u] = [job[u] EXCEPT !.state = "queued", !.lease = 0]
          BY <3>3 DEF ReapExpiredLeases
        <4> QED
          BY <2>0, <4>1 DEF JobRow
      <3>4. CASE Tick
        <4>1. /\ job'[u] = ElapseJob(job[u])
              /\ ElapseJob(job[u]).state = job[u].state
              /\ ElapseJob(job[u]).attempts = job[u].attempts
          BY <2>0, <3>4 DEF Tick, ElapseJob, JobRow
        <4> QED
          BY <4>1
      <3>5. ASSUME NEW v \in Uploads, FinalizeCommit(v)
            PROVE  job'[u] = job[u]
        BY <2>0, <3>5 DEF FinalizeCommit, JobInsertable
      <3>6. CASE job' = job
        BY <3>6
      <3> QED
        BY <3>1, <3>2, <3>3, <3>4, <3>5, <3>6
        DEF Next, Client, PostUpload, StartPut, PutLands, PutAborts,
            FinalizeRead, FinalizeFails, DeleteStory, MediaStep, Download,
            Process, UploadVariant, PublishRefused, AttemptFails, InputRejected,
            AbandonAttempt, Sweep, ExpireStory, GCAbandonedUploads, mediaVars,
            vars
    <2>2. \/ intent'[u].state = intent[u].state
          \/ intent[u].state # "finalized"
          \/ intent'[u].state = "finalized"
      <3>1. ASSUME NEW v \in Uploads, PostUpload(v) \/ FinalizeCommit(v)
            PROVE  \/ intent'[u] = intent[u]
                   \/ intent[u].state = "none"
                   \/ intent'[u].state = "finalized"
        BY <2>0, <3>1 DEF PostUpload, FinalizeCommit, IntentRow
      <3>2. CASE GCAbandonedUploads
        BY <2>0, <3>2 DEF GCAbandonedUploads, IntentRow
      <3>3. CASE Tick
        <4>1. intent'[u] = ElapseIntent(intent[u])
          BY <3>3 DEF Tick
        <4>2. ElapseIntent(intent[u]).state = intent[u].state
          BY <2>0 DEF ElapseIntent, IntentRow
        <4> QED
          BY <4>1, <4>2
      <3>4. CASE intent' = intent
        BY <3>4
      <3> QED
        BY <3>1, <3>2, <3>3, <3>4
        DEF Next, Client, StartPut, PutLands, PutAborts, FinalizeRead,
            FinalizeFails, DeleteStory, MediaStep, ClaimMediaJob, Download,
            Process, UploadVariant, PublishStory, PublishRefused, AttemptFails,
            InputRejected, RetryJob, RejectJob, AbandonAttempt, Sweep,
            ReapExpiredLeases, ExpireStory, mediaVars, vars
    <2>3. job'[u].attempts >= job[u].attempts /\ job'[u].state # "none"
      BY <2>0, <2>1
    <2> QED
      BY <2>2, <2>3
  <1> QED
    BY <1>1, Invariance, PTL DEF Spec, FinalizedOnce

-----------------------------------------------------------------------------
(* Refinement *)

\* The pipeline implements the abstract Story of StoryLifecycle: whatever the
\* queues, the workers and the sweeps do, a Story becomes visible only with its
\* bytes in storage, stays visible with them, ends by the clock and never
\* returns.
THEOREM Refinement == Spec => ImplementsLifecycle
  <1> DEFINE left(u) == IF Visible(u) THEN story[u].left ELSE 0
             bytes(u) == VariantKeys(u, Kinds) \subseteq bucket
  <1>1. Init => Lifecycle!Init
    <2> SUFFICES ASSUME Init PROVE Lifecycle!Init
      OBVIOUS
    <2>1. /\ \A u \in Uploads : Phase(u) = "none" /\ ~Visible(u)
          /\ bucket = {}
      BY DEF Init, CleanupInit, Phase, Visible
    <2>2. \A u \in Uploads : bytes(u) = FALSE
      BY <2>1, PipelineAssumption DEF VariantKeys
    <2> QED
      BY <2>1, <2>2 DEF Lifecycle!Init
  <1>2. IInv /\ IInv' /\ [Next]_vars => [Lifecycle!Next]_Lifecycle!vars
    <2> SUFFICES ASSUME IInv, IInv', [Next]_vars
                 PROVE  [Lifecycle!Next]_Lifecycle!vars
      OBVIOUS
    <2>0. \A u \in Uploads :
            /\ story[u] \in StoryRow /\ story[u].left \in Nat
            /\ story[u].state \in {"none", "processing", "published", "failed",
                                   "deleted", "removed"}
      BY PipelineAssumption DEF IInv, TypeOK, StoryRow
    <2>1. CASE story' = story
      <3>1. \A u \in Uploads : Visible(u) => bytes(u) /\ bytes(u)'
        BY <2>1 DEF Visible, IInv, PublishedHasBytes
      <3>2. \A u \in Uploads : Phase(u)' = Phase(u) /\ left(u)' = left(u)
        BY <2>1 DEF Phase, Visible
      <3>3. Lifecycle!MoveBytes
        BY <3>1, <3>2 DEF Lifecycle!MoveBytes, Phase
      <3> QED
        BY <3>3 DEF Lifecycle!Next
    <2>2. CASE /\ bucket' = bucket
               /\ \A u \in Uploads :
                    story'[u] = [story[u] EXCEPT !.left = Elapse(story[u].left)]
      <3> SUFFICES Lifecycle!Elapse
        BY DEF Lifecycle!Next
      <3>1. ASSUME NEW u \in Uploads
            PROVE  /\ left(u)' = IF left(u) > 0 THEN left(u) - 1 ELSE 0
                   /\ Phase(u)' = IF Phase(u) = "visible" /\ left(u) = 1
                                    THEN "over" ELSE Phase(u)
        <4>1. /\ story'[u].state = story[u].state
              /\ story'[u].left = IF story[u].left > 0 THEN story[u].left - 1 ELSE 0
          BY <2>0, <2>2 DEF StoryRow, Elapse
        <4> QED
          BY <2>0, <4>1 DEF Phase, Visible
      <3> QED
        BY <2>2, <3>1 DEF Lifecycle!Elapse
    <2>3. CASE /\ bucket' = bucket
               /\ \E u \in Uploads : /\ Moves(u)
                                     /\ \A v \in Uploads \ {u} : story'[v] = story[v]
      <3>1. PICK u \in Uploads :
              Moves(u) /\ \A v \in Uploads \ {u} : story'[v] = story[v]
        BY <2>3
      <3>2. /\ \A v \in Uploads : bytes(v)' = bytes(v)
            /\ \A v \in Uploads \ {u} : Phase(v)' = Phase(v) /\ left(v)' = left(v)
        BY <2>3, <3>1 DEF Phase, Visible
      <3>3. CASE /\ story[u].state = "none"
                 /\ story'[u] = [story[u] EXCEPT !.state = "processing"]
        <4>1. story'[u].state = "processing"
          BY <2>0, <3>3 DEF StoryRow
        <4>2. /\ Phase(u) = "none" /\ Phase(u)' = "pending"
              /\ left(u) = 0 /\ left(u)' = 0
          BY <3>3, <4>1 DEF Phase, Visible
        <4>3. Lifecycle!Submit(u)
          BY <3>2, <4>2 DEF Lifecycle!Submit
        <4> QED
          BY <4>3 DEF Lifecycle!Next
      <3>4. CASE /\ story[u].state = "processing" /\ bytes(u)
                 /\ story'[u] = Published
        <4>1. /\ Phase(u) = "pending" /\ Phase(u)' = "visible"
              /\ left(u)' = StoryLifetime
          BY <3>4, PipelineAssumption DEF Phase, Visible, Published
        <4>2. Lifecycle!Publish(u)
          BY <3>2, <3>4, <4>1 DEF Lifecycle!Publish
        <4> QED
          BY <4>2 DEF Lifecycle!Next
      <3>5. CASE /\ story[u].state \in {"processing", "published"}
                 /\ \E state \in Gone \cup {"failed"} :
                      story'[u] = [story[u] EXCEPT !.state = state]
        <4>1. story'[u].state \in Gone \cup {"failed"}
          BY <2>0, <3>5 DEF StoryRow
        <4>2. /\ Phase(u)' = "over" /\ left(u)' = 0
              /\ Phase(u) \in {"pending", "visible", "over"}
              /\ Phase(u) = "over" => left(u) = 0
          BY <3>5, <4>1 DEF Phase, Visible, Gone
        <4>3. CASE Phase(u) = "over"
          BY <3>2, <4>2, <4>3 DEF Lifecycle!vars
        <4>4. CASE Phase(u) \in {"pending", "visible"}
          <5>1. Lifecycle!Finish(u)
            BY <3>2, <4>2, <4>4 DEF Lifecycle!Finish
          <5> QED
            BY <5>1 DEF Lifecycle!Next
        <4> QED
          BY <4>2, <4>3, <4>4
      <3> QED
        BY <3>1, <3>3, <3>4, <3>5 DEF Moves
    <2> QED
      BY <2>1, <2>2, <2>3, StoryStep
  <1> QED
    BY <1>1, <1>2, Invariance, PTL DEF Spec, ImplementsLifecycle, Lifecycle!Spec

=============================================================================
