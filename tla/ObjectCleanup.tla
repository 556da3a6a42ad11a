---------------------------- MODULE ObjectCleanup ----------------------------
(***************************************************************************)
(* The delete_objects queue: the cleanup_jobs table, the cleanup loops     *)
(* that drain it and the object storage bucket they delete from.  Other    *)
(* components only ever append a row naming the keys that must go.         *)
(*                                                                         *)
(* Instants are stored as the time left until them: a row's delay is       *)
(* run_after - Now() (never below 0) and its lease is                      *)
(* lease_expires_at - Now() (never below -1, which the code's strict       *)
(* comparison with Now() calls expired).                                   *)
(***************************************************************************)
EXTENDS Integers, Sequences

CONSTANTS
  Keys,                \* object keys of the bucket
  Cleaners,            \* cleanup loops, one per worker process with the role
  MaxCleanupAttempts,  \* cleanup_jobs.max_attempts
  CleanupLease,        \* Config.CleanupLeaseDuration, in ticks
  CleanupRetryUnit,    \* the 30 seconds FailCleanupJob doubles, in ticks
  MaxCleanerCrashes    \* bound on crashes and lost transactions of the loops

\* FailCleanupJob's exponential backoff.
CleanupBackoff(attempts) == 2^attempts * CleanupRetryUnit

ASSUME CleanupAssumption ==
  /\ MaxCleanupAttempts \in Nat \ {0}
  /\ CleanupLease \in Nat
  /\ MaxCleanerCrashes \in Nat
  /\ \A n \in 0..MaxCleanupAttempts : CleanupBackoff(n) \in Nat

VARIABLES
  bucket,         \* keys that hold an object
  cleanup,        \* the cleanup_jobs table, in insertion order
  cleaner,        \* the row each cleanup loop is handling, and how far it is
  cleanerCrashes  \* crashes so far (bounds the model)

cleanupVars == <<bucket, cleanup, cleaner, cleanerCrashes>>

-----------------------------------------------------------------------------
(* Types *)

CleanupRow == [keys: SUBSET Keys,
               state: {"queued", "leased", "succeeded", "failed"},
               attempts: 0..MaxCleanupAttempts,
               delay: Nat,
               lease: -1..CleanupLease]

CleanerState == [pc: {"idle", "claimed", "deleted", "failing"},
                 row: Nat,       \* index of the row, 0 when idle
                 attempts: Nat]  \* CleanupJob.Attempts as the claim returned it

IdleCleaner == [pc |-> "idle", row |-> 0, attempts |-> 0]

CleanupTypeOK ==
  /\ bucket \subseteq Keys
  /\ cleanup \in Seq(CleanupRow)
  /\ cleaner \in [Cleaners -> CleanerState]
  /\ \A c \in Cleaners :
       cleaner[c].pc # "idle" =>
         /\ cleaner[c].row \in DOMAIN cleanup
         /\ cleaner[c].attempts \in 1..MaxCleanupAttempts
  /\ cleanerCrashes \in 0..MaxCleanerCrashes

CleanupInit ==
  /\ bucket = {}
  /\ cleanup = << >>
  /\ cleaner = [c \in Cleaners |-> IdleCleaner]
  /\ cleanerCrashes = 0

-----------------------------------------------------------------------------
(* What other components do to this one *)

\* INSERT INTO cleanup_jobs (kind, payload, run_after) VALUES
\* ('delete_objects', ks, Now()).
NewRow(ks) == [keys |-> ks, state |-> "queued", attempts |-> 0,
               delay |-> 0, lease |-> 0]

ScheduleDelete(ks) == cleanup' = Append(cleanup, NewRow(ks))

-----------------------------------------------------------------------------
(* The queue *)

LeaseExpired(row) == row.state = "leased" /\ row.lease < 0

\* Slip: leaving expired leases to ReapExpiredLeases, which spares spent rows.
ClaimableQueued(row) == row.delay = 0 /\ row.state = "queued"
Claimable(row) == row.delay = 0 /\ (row.state = "queued" \/ LeaseExpired(row))

\* attempts + 1, kept at the budget: the code compares it with max_attempts
\* only as >= and <, so a larger count behaves as the budget itself.
CountAttempt(n) == IF n < MaxCleanupAttempts THEN n + 1 ELSE n

\* An idle loop leases a due row; SKIP LOCKED lets it be any due one.
ClaimCleanupJob(c) ==
  /\ cleaner[c].pc = "idle"
  /\ \E i \in DOMAIN cleanup :
       /\ Claimable(cleanup[i])
       /\ cleanup' = [cleanup EXCEPT ![i].state = "leased",
                                     ![i].lease = CleanupLease,
                                     ![i].attempts = CountAttempt(@)]
       /\ cleaner' = [cleaner EXCEPT ![c] =
                        [pc |-> "claimed", row |-> i,
                         attempts |-> CountAttempt(cleanup[i].attempts)]]
  /\ UNCHANGED <<bucket, cleanerCrashes>>

\* The payload's keys.  Slip: the prefix they share, which is the whole bucket.
SharedPrefix(c) == Keys
Payload(c) == cleanup[cleaner[c].row].keys

\* handleCleanupJob: every key of the payload is deleted, present or not.
DeleteObjects(c) ==
  /\ cleaner[c].pc = "claimed"
  /\ bucket' = bucket \ Payload(c)
  /\ cleaner' = [cleaner EXCEPT ![c].pc = "deleted"]
  /\ UNCHANGED <<cleanup, cleanerCrashes>>

\* Where a failed deletion leads.  Slip: on to completion, the error dropped.
DeleteErrorDropped == "deleted"
AfterDeleteError == "failing"

\* The storage call fails after deleting some of the keys; a row without keys
\* makes no call.
DeleteObjectsFails(c) ==
  /\ cleaner[c].pc = "claimed"
  /\ Payload(c) # {}
  /\ \E gone \in SUBSET Payload(c) : bucket' = bucket \ gone
  /\ cleaner' = [cleaner EXCEPT ![c].pc = AfterDeleteError]
  /\ UNCHANGED <<cleanup, cleanerCrashes>>

\* By id only: the loop's lease may have passed to another loop meanwhile.
CompleteCleanupJob(c) ==
  /\ cleaner[c].pc = "deleted"
  /\ cleanup' = [cleanup EXCEPT ![cleaner[c].row].state = "succeeded",
                                ![cleaner[c].row].lease = 0]
  /\ cleaner' = [cleaner EXCEPT ![c] = IdleCleaner]
  /\ UNCHANGED <<bucket, cleanerCrashes>>

Spent(n) == n >= MaxCleanupAttempts

\* By id only, with the attempt count of this loop's own claim.
FailCleanupJob(c) ==
  /\ cleaner[c].pc = "failing"
  /\ LET i == cleaner[c].row
         n == cleaner[c].attempts
     IN  \/ /\ Spent(n)
            /\ cleanup' = [cleanup EXCEPT ![i].state = "failed", ![i].lease = 0]
         \/ /\ ~Spent(n)
            /\ cleanup' = [cleanup EXCEPT ![i].state = "queued", ![i].lease = 0,
                                          ![i].delay = CleanupBackoff(n)]
  /\ cleaner' = [cleaner EXCEPT ![c] = IdleCleaner]
  /\ UNCHANGED <<bucket, cleanerCrashes>>

\* The process dies, or the Complete/Fail statement itself errors: either way
\* the loop forgets the job and the row keeps its lease.
CrashCleaner(c) ==
  /\ cleaner[c].pc # "idle"
  /\ cleanerCrashes < MaxCleanerCrashes
  /\ cleaner' = [cleaner EXCEPT ![c] = IdleCleaner]
  /\ cleanerCrashes' = cleanerCrashes + 1
  /\ UNCHANGED <<bucket, cleanup>>

\* ReapExpiredLeases on this table.
Reaped(row) == LeaseExpired(row) /\ row.attempts < MaxCleanupAttempts

ReapCleanupLeases ==
  cleanup' = [i \in DOMAIN cleanup |->
                IF Reaped(cleanup[i])
                  THEN [cleanup[i] EXCEPT !.state = "queued", !.lease = 0]
                  ELSE cleanup[i]]

-----------------------------------------------------------------------------
(* The outside view *)

\* Keys some row names for deletion, whatever became of the row.
NamedKeys == UNION {cleanup[i].keys : i \in DOMAIN cleanup}

-----------------------------------------------------------------------------
(* Time *)

Elapse(left) == IF left > 0 THEN left - 1 ELSE 0

ElapseLease(row) ==
  IF row.state = "leased" /\ row.lease >= 0 THEN row.lease - 1 ELSE row.lease

TickCleanup ==
  cleanup' = [i \in DOMAIN cleanup |->
                [cleanup[i] EXCEPT !.delay = Elapse(@),
                                   !.lease = ElapseLease(cleanup[i])]]

CleanerStep(c) ==
  \/ ClaimCleanupJob(c)
  \/ DeleteObjects(c)
  \/ DeleteObjectsFails(c)
  \/ CompleteCleanupJob(c)
  \/ FailCleanupJob(c)

=============================================================================
