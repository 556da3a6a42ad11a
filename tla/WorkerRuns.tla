------------------------------ MODULE WorkerRuns ------------------------------
(***************************************************************************)
(* When the media worker runs, where it is no daemon but a job that runs   *)
(* to completion (infra/deploy/worker-job.yaml): an API process asks for   *)
(* an execution after a finalize (api/trigger.go), a schedule asks every   *)
(* few hours, and an execution (RunOnce) claims due jobs until none is     *)
(* left, its limits are reached or the platform stops it.                  *)
(*                                                                         *)
(* What an attempt does to a Story is MediaPipeline's; here it takes time, *)
(* and succeeds, fails or is cut off.                                      *)
(***************************************************************************)
EXTENDS Integers

CONSTANTS
  Uploads,       \* numbered in the order they are finalized
  Apis,          \* API processes, each with a trigger of its own
  Execs,         \* bound on executions at one time
  NoUpload,
  Works,         \* how many ticks the uploads' processing may take
  MaxProcessing, \* Limits.MaxProcessingTime (3 minutes), in ticks
  TriggerGap,    \* minTriggerGap (10 seconds), in ticks
  MaxJobs,       \* -max-jobs (20)
  MaxDuration,   \* -max-duration (90 seconds), in ticks
  TaskTimeout,   \* the platform's --task-timeout (120 seconds), in ticks
  MediaLease,    \* Config.MediaLeaseDuration (5 minutes), in ticks
  SweepPeriod,   \* of the schedule (6 hours), in ticks
  RetryUnit,     \* the 10 seconds FailMediaJob doubles, in ticks
  MaxAttempts,   \* media_jobs.max_attempts
  MaxFaults      \* bound on executions cancelled or lost before their timeout,
                 \* transactions of the worker that fail and Stories withdrawn
                 \* while processing, taken together

Backoff(attempts) == 2^attempts * RetryUnit

ASSUME WorkerRunsAssumption ==
  /\ Uploads \subseteq Nat /\ NoUpload \notin Uploads
  /\ Works \subseteq [Uploads -> Nat]
  /\ {MaxProcessing, TriggerGap, MaxJobs, MaxDuration, MediaLease,
      SweepPeriod, RetryUnit, MaxFaults} \subseteq Nat
  /\ MaxAttempts \in Nat \ {0}
  /\ TaskTimeout \in 0..MediaLease
  /\ \A n \in 0..MaxAttempts : Backoff(n) \in 0..Backoff(MaxAttempts)

VARIABLES
  work,       \* how many ticks each upload's processing takes: never changes
  job,        \* media_jobs
  trigger,    \* each API process's
  sinceSweep, \* ticks since the schedule last came round
  exec,       \* executions of the worker job
  withdrawn,  \* uploads whose Story was deleted or removed while processing
  faults

uploadVars == <<work, withdrawn>>
runVars == <<uploadVars, job, trigger, sinceSweep, exec, faults>>

IdleExec == [pc |-> "off", age |-> 0, done |-> 0, upload |-> NoUpload,
             worked |-> 0, cancelled |-> FALSE]

WorkerRunsTypeOK ==
  /\ work \in Works
  /\ job \in [Uploads ->
       [state: {"none", "queued", "leased", "succeeded", "failed"},
        attempts: 0..(MaxAttempts + 1),
        delay: 0..Backoff(MaxAttempts), lease: -1..MediaLease]]
  /\ trigger \in [Apis -> [gap: 0..TriggerGap, calling: BOOLEAN]]
  /\ exec \in [Execs ->
       [pc: {"off", "starting", "cleaning", "claiming", "working"},
        age: 0..TaskTimeout, done: 0..MaxJobs, upload: Uploads \cup {NoUpload},
        worked: 0..MaxProcessing, cancelled: BOOLEAN]]
  /\ sinceSweep \in 0..SweepPeriod
  /\ withdrawn \subseteq Uploads
  /\ faults \in 0..MaxFaults

WorkerRunsInit ==
  /\ work \in Works
  /\ job = [u \in Uploads |->
              [state |-> "none", attempts |-> 0, delay |-> 0, lease |-> 0]]
  /\ trigger = [a \in Apis |-> [gap |-> TriggerGap, calling |-> FALSE]]
  /\ sinceSweep = 0
  /\ exec = [e \in Execs |-> IdleExec]
  /\ withdrawn = {} /\ faults = 0

-----------------------------------------------------------------------------
(* What starts an execution *)

Finalized(u) ==
  /\ job[u].state = "none"
  /\ \A v \in Uploads : v < u => job[v].state # "none"
  /\ job' = [job EXCEPT ![u].state = "queued"]

\* FinalizeUpload, kickWorker and Trigger, whose window counts from the attempt.
TriggerAsks(a, u) ==
  /\ Finalized(u)
  /\ trigger[a].gap = TriggerGap /\ ~trigger[a].calling
  /\ trigger' = [trigger EXCEPT ![a] = [gap |-> 0, calling |-> TRUE]]
  /\ UNCHANGED <<exec, uploadVars, faults, sinceSweep>>

TriggerCoalesces(a, u) ==
  /\ Finalized(u)
  /\ trigger[a].gap < TriggerGap
  /\ UNCHANGED <<trigger, exec, uploadVars, faults, sinceSweep>>

StartExecution ==
  \E e \in Execs :
    /\ exec[e].pc = "off"
    /\ exec' = [exec EXCEPT ![e].pc = "starting"]

TriggerStarts(a) ==
  /\ trigger[a].calling /\ StartExecution
  /\ trigger' = [trigger EXCEPT ![a].calling = FALSE]
  /\ UNCHANGED <<job, uploadVars, faults, sinceSweep>>

\* No token, a refusal, or the five seconds are over: it is logged.
TriggerFails(a) ==
  /\ trigger[a].calling
  /\ trigger' = [trigger EXCEPT ![a].calling = FALSE]
  /\ UNCHANGED <<job, exec, uploadVars, faults, sinceSweep>>

ScheduledSweep ==
  /\ sinceSweep = SweepPeriod /\ StartExecution
  /\ sinceSweep' = 0
  /\ UNCHANGED <<job, trigger, uploadVars, faults>>

\* DeleteStory, by the author or a moderator, before the Story is published: the
\* job is not looked at.
DeleteProcessing(u) ==
  /\ job[u].state \in {"queued", "leased"} /\ u \notin withdrawn
  /\ withdrawn' = withdrawn \cup {u}
  /\ faults < MaxFaults /\ faults' = faults + 1
  /\ UNCHANGED <<work, job, trigger, exec, sinceSweep>>

-----------------------------------------------------------------------------
(* An execution *)

Begin(e) ==
  /\ exec[e].pc = "starting"
  /\ exec' = [exec EXCEPT ![e].pc = "cleaning"]
  /\ UNCHANGED <<job, trigger, uploadVars, faults, sinceSweep>>

LeaseExpired(u) == job[u].state = "leased" /\ job[u].lease < 0

\* The cleanup pass, of which ReapExpiredLeases matters here.
CleanupPass(e) ==
  /\ exec[e].pc = "cleaning"
  /\ job' = [u \in Uploads |->
               IF LeaseExpired(u) /\ job[u].attempts < MaxAttempts /\ ~exec[e].cancelled
               THEN [job[u] EXCEPT !.state = "queued", !.lease = 0] ELSE job[u]]
  /\ exec' = [exec EXCEPT ![e].pc = "claiming"]
  /\ UNCHANGED <<trigger, uploadVars, faults, sinceSweep>>

\* Slip: a lease that runs is no obstacle.
ClaimableLeased(u) ==
  job[u].delay = 0 /\ job[u].state \in {"queued", "leased"}

Claimable(u) == job[u].delay = 0 /\ (job[u].state = "queued" \/ LeaseExpired(u))

\* Slip: one job more than allowed.
MayClaimOneMore(e) ==
  /\ exec[e].pc = "claiming" /\ ~exec[e].cancelled
  /\ exec[e].done <= MaxJobs /\ exec[e].age < MaxDuration

\* The conditions of RunOnce's loop.
MayClaim(e) ==
  /\ exec[e].pc = "claiming" /\ ~exec[e].cancelled
  /\ exec[e].done < MaxJobs /\ exec[e].age < MaxDuration

\* Slip: an attempt is counted when it fails, not when it is begun.
LeasedUncounted(row) == [row EXCEPT !.state = "leased", !.lease = MediaLease]

\* Attempts beyond the budget are counted as one.
Leased(row) ==
  [row EXCEPT !.state = "leased", !.lease = MediaLease,
              !.attempts = IF @ > MaxAttempts THEN @ ELSE @ + 1]

\* ClaimMediaJob: the oldest of the claimable.
Claim(e) ==
  /\ MayClaim(e)
  /\ \E u \in Uploads :
       /\ Claimable(u) /\ \A v \in Uploads : v < u => ~Claimable(v)
       /\ job' = [job EXCEPT ![u] = Leased(@)]
       /\ exec' = [exec EXCEPT ![e].pc = "working", ![e].upload = u,
                               ![e].worked = 0, ![e].done = @ + 1]
  /\ UNCHANGED <<trigger, uploadVars, faults, sinceSweep>>

\* Nothing is due, though a retry may be soon; or RunOnce may not go on.
RunEnds(e) ==
  /\ exec[e].pc = "claiming"
  /\ MayClaim(e) => \A u \in Uploads : ~Claimable(u)
  /\ exec' = [exec EXCEPT ![e] = IdleExec]
  /\ UNCHANGED <<job, trigger, uploadVars, faults, sinceSweep>>

BackToLoop(e) == [exec EXCEPT ![e].pc = "claiming", ![e].upload = NoUpload,
                              ![e].worked = 0]

Processed(e) ==
  /\ exec[e].pc = "working" /\ ~exec[e].cancelled
  /\ exec[e].worked >= work[exec[e].upload]

\* PublishStory, for a Story that is still processing.
Succeed(e) ==
  /\ Processed(e) /\ exec[e].upload \notin withdrawn
  /\ job' = [job EXCEPT ![exec[e].upload].state = "succeeded",
                        ![exec[e].upload].lease = 0]
  /\ exec' = BackToLoop(e)
  /\ UNCHANGED <<trigger, uploadVars, faults, sinceSweep>>

\* PublishStory refuses what was withdrawn meanwhile: that is logged, and the
\* job stays leased.
PublishRefused(e) ==
  /\ Processed(e) /\ exec[e].upload \in withdrawn
  /\ exec' = BackToLoop(e)
  /\ UNCHANGED <<job, trigger, uploadVars, faults, sinceSweep>>

\* FailMediaJob, for a failure worth a retry or for one that is not.
AfterFailure(row, retryable) ==
  IF retryable /\ row.attempts < MaxAttempts
  THEN [row EXCEPT !.state = "queued", !.lease = 0, !.delay = Backoff(row.attempts)]
  ELSE [row EXCEPT !.state = "failed", !.lease = 0]

AttemptFails(e, retryable) ==
  /\ exec[e].pc = "working" /\ ~exec[e].cancelled
  /\ job' = [job EXCEPT ![exec[e].upload] = AfterFailure(@, retryable)]
  /\ exec' = BackToLoop(e)
  /\ UNCHANGED <<trigger, uploadVars, faults, sinceSweep>>

\* The transaction that should publish, or record the failure, fails itself: that
\* is logged, and the job stays leased.
EndUnrecorded(e) ==
  /\ exec[e].pc = "working" /\ ~exec[e].cancelled /\ faults < MaxFaults
  /\ exec' = BackToLoop(e) /\ faults' = faults + 1
  /\ UNCHANGED <<job, trigger, uploadVars, sinceSweep>>

\* RunOnce hands its own context to the attempt: once it is cancelled the
\* attempt fails, and the failure cannot be recorded either.
AttemptCancelled(e) ==
  /\ exec[e].pc = "working" /\ exec[e].cancelled
  /\ exec' = BackToLoop(e)
  /\ UNCHANGED <<job, trigger, uploadVars, faults, sinceSweep>>

-----------------------------------------------------------------------------
(* The platform *)

Sigterm(e) ==
  /\ exec[e].pc \in {"cleaning", "claiming", "working"} /\ ~exec[e].cancelled
  /\ faults < MaxFaults
  /\ exec' = [exec EXCEPT ![e].cancelled = TRUE] /\ faults' = faults + 1
  /\ UNCHANGED <<job, trigger, uploadVars, sinceSweep>>

Lost(e) ==
  /\ exec[e].pc # "off" /\ faults < MaxFaults
  /\ exec' = [exec EXCEPT ![e] = IdleExec] /\ faults' = faults + 1
  /\ UNCHANGED <<job, trigger, uploadVars, sinceSweep>>

\* No task outlives its timeout, whatever it does.
TimedOut(e) ==
  /\ exec[e].pc = "working" /\ exec[e].age = TaskTimeout
  /\ exec' = [exec EXCEPT ![e] = IdleExec]
  /\ UNCHANGED <<job, trigger, uploadVars, faults, sinceSweep>>

\* A call of the trigger, a cleanup pass and a claim are shorter than a tick;
\* processing ends when it is done, or with the job's own budget of time.
Overdue(e) ==
  \/ exec[e].pc \in {"cleaning", "claiming"}
  \/ /\ exec[e].pc = "working"
     /\ \/ exec[e].age = TaskTimeout
        \/ exec[e].worked = MaxProcessing
        \/ exec[e].worked >= work[exec[e].upload]

Tick ==
  /\ \A e \in Execs : ~Overdue(e)
  /\ \A a \in Apis : ~trigger[a].calling
  /\ job' = [u \in Uploads |->
       [job[u] EXCEPT !.delay = IF @ = 0 THEN 0 ELSE @ - 1,
                      !.lease = IF job[u].state = "leased" /\ @ >= 0 THEN @ - 1 ELSE @]]
  /\ trigger' = [a \in Apis |->
       [trigger[a] EXCEPT !.gap = IF @ = TriggerGap THEN @ ELSE @ + 1]]
  /\ exec' = [e \in Execs |->
       IF exec[e].pc \in {"off", "starting"} THEN exec[e]
       ELSE [exec[e] EXCEPT !.age = @ + 1,
                            !.worked = IF exec[e].pc = "working" THEN @ + 1 ELSE @]]
  /\ sinceSweep' = IF sinceSweep = SweepPeriod THEN sinceSweep ELSE sinceSweep + 1
  /\ UNCHANGED <<uploadVars, faults>>

-----------------------------------------------------------------------------

TriggerAnswers(a) == TriggerStarts(a) \/ TriggerFails(a)

ExecStep(e) ==
  \/ Begin(e) \/ CleanupPass(e) \/ Claim(e) \/ RunEnds(e)
  \/ Succeed(e) \/ PublishRefused(e) \/ EndUnrecorded(e)
  \/ AttemptCancelled(e) \/ TimedOut(e)
  \/ \E retryable \in BOOLEAN : AttemptFails(e, retryable)

WorkerRunsNext ==
  \/ \E a \in Apis :
       \/ \E u \in Uploads : TriggerAsks(a, u) \/ TriggerCoalesces(a, u)
       \/ TriggerAnswers(a)
  \/ ScheduledSweep
  \/ \E u \in Uploads : DeleteProcessing(u)
  \/ \E e \in Execs : ExecStep(e) \/ Sigterm(e) \/ Lost(e)
  \/ Tick

WorkerRunsSpec == WorkerRunsInit /\ [][WorkerRunsNext]_runVars

-----------------------------------------------------------------------------
(* Properties *)

\* Overlapping executions never work on one job: a task is ended before a lease
\* it took runs out ("lease-based, so overlapping schedules are safe",
\* worker.go:189-190; the five minutes of worker.go:83, worker-job.yaml:15-18).
OneHolder ==
  \A d, e \in Execs :
    d # e /\ exec[d].pc = "working" /\ exec[e].pc = "working" =>
      exec[d].upload # exec[e].upload

Settled(u) == job[u].state \in {"succeeded", "failed"}

\* What no execution settles: nothing publishes a withdrawn Story (story.go:202-206,
\* media_loop.go:143-151), and a task ends before a slow upload's processing does.
Stuck(u) == u \in withdrawn \/ work[u] >= TaskTimeout

\* Every finalized upload is settled, by whichever trigger is missed, whatever
\* execution is lost and whichever transaction fails: "the scheduled sweep is the
\* backstop, so a missed trigger only delays processing" (trigger.go:14-17).  Left
\* out is what no execution settles and, since the oldest job is claimed first, what
\* is younger: as many jobs as an execution may take, or the one that takes all its
\* time, may be stuck ones, every time.
UploadsSettle ==
  \A u \in Uploads :
    job[u].state = "queued" ~> Settled(u) \/ \E v \in Uploads : v <= u /\ Stuck(v)

-----------------------------------------------------------------------------
(* What a comment says and the code does not keep *)

\* "one execution drains the whole queue, so a second start within this window
\* would only bill another container" (trigger.go:24-25): an upload goes without a
\* start of its own only while there is an execution, or may be one soon.
CoalescedIsDrained ==
  [][\A a \in Apis, u \in Uploads :
       TriggerCoalesces(a, u) =>
         trigger[a].calling \/ \E e \in Execs : exec[e].pc # "off"]_runVars

\* "MaxProcessingTime bounds total wall-clock time spent on one job" and a failure
\* is retried "until the attempt budget is spent" (limits.go:60-65,
\* story.go:228-229): what was claimed ends, however slow its processing is.
BudgetsEndJobs == \A u \in Uploads : job[u].state = "leased" ~> Settled(u)

\* RunOnce "always finishes a claimed job" (worker.go:190-191): when an
\* execution is back in its loop, the job it had is settled or queued again.
ClaimedIsFinished ==
  [][\A e \in Execs : exec[e].pc = "working" /\ exec'[e].pc = "claiming" =>
       job'[exec[e].upload].state # "leased"]_runVars

=============================================================================
