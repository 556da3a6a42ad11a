----------------------------- MODULE CleanupQueue -----------------------------
(***************************************************************************)
(* ObjectCleanup closed by an environment that stores objects and names    *)
(* them for deletion, so that the queue can be checked with several        *)
(* cleanup loops and more retries than the whole pipeline leaves room for. *)
(* The environment is stricter than MediaPipeline in one respect: a key    *)
(* that was named for deletion is not written again.                       *)
(***************************************************************************)
EXTENDS ObjectCleanup

CONSTANT MaxRows  \* bound on the rows of the cleanup table

ASSUME QueueAssumption == MaxRows \in Nat

-----------------------------------------------------------------------------
(* The queue and its environment *)

StoreObject(k) ==
  /\ k \notin NamedKeys
  /\ bucket' = bucket \cup {k}
  /\ UNCHANGED <<cleanup, cleaner, cleanerCrashes>>

\* EnqueueCleanup, called with the caller's own transaction.
EnqueueCleanup(ks) ==
  /\ Len(cleanup) < MaxRows
  /\ ScheduleDelete(ks)
  /\ UNCHANGED <<bucket, cleaner, cleanerCrashes>>

Reap == ReapCleanupLeases /\ UNCHANGED <<bucket, cleaner, cleanerCrashes>>

Tick == TickCleanup /\ UNCHANGED <<bucket, cleaner, cleanerCrashes>>

Next ==
  \/ \E k \in Keys : StoreObject(k)
  \/ \E ks \in SUBSET Keys : EnqueueCleanup(ks)
  \/ \E c \in Cleaners : CleanerStep(c) \/ CrashCleaner(c)
  \/ Reap
  \/ Tick

Spec == CleanupInit /\ [][Next]_cleanupVars

\* The loops poll for as long as their process lives and time passes; a crash
\* or an append owes nothing.
Fairness ==
  /\ \A c \in Cleaners : WF_cleanupVars(CleanerStep(c))
  /\ WF_cleanupVars(Reap)
  /\ WF_cleanupVars(Tick)

FairSpec == Spec /\ Fairness

-----------------------------------------------------------------------------
(* Properties *)

\* A row marked succeeded has erased every key it names, whichever loop marked
\* it and whoever held its lease by then (CompleteCleanupJob addresses the row
\* by id alone).
DoneMeansGone ==
  \A i \in DOMAIN cleanup :
    cleanup[i].state = "succeeded" => cleanup[i].keys \cap bucket = {}

\* A row is written off only when its attempts are spent, also when the loop
\* that writes it off had lost its lease to another (FailCleanupJob goes by the
\* attempt count of the loop's own claim).
WrittenOffWhenSpent ==
  \A i \in DOMAIN cleanup :
    cleanup[i].state = "failed" => cleanup[i].attempts = MaxCleanupAttempts

\* What makes DoneMeansGone inductive: a loop that is about to mark its row has
\* erased the row's keys.
DeletedMeansGone ==
  \A c \in Cleaners :
    cleaner[c].pc = "deleted" => Payload(c) \cap bucket = {}

\* What makes WrittenOffWhenSpent inductive: the row has counted every claim a
\* loop still acts on.
ClaimsCounted ==
  \A c \in Cleaners :
    cleaner[c].pc # "idle" =>
      cleaner[c].attempts <= cleanup[cleaner[c].row].attempts

QueueInv ==
  /\ CleanupTypeOK
  /\ DoneMeansGone
  /\ WrittenOffWhenSpent
  /\ DeletedMeansGone
  /\ ClaimsCounted

\* A key named for deletion is erased or its row is written off, across lost
\* leases, crashes and storage errors (ClaimCleanupJob, ReapExpiredLeases).
NamedKeysSettle ==
  \A k \in Keys :
    k \in NamedKeys ~>
      \/ k \notin bucket
      \/ \E i \in DOMAIN cleanup :
           k \in cleanup[i].keys /\ cleanup[i].state = "failed"

\* The queue erases only what it was told to (handleCleanupJob).
Contract == INSTANCE Reclaimer WITH stored <- bucket, doomed <- NamedKeys

ImplementsReclaimer == Contract!Spec

=============================================================================
