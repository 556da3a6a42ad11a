-------------------------- MODULE ObjectCleanupProofs --------------------------
(***************************************************************************)
(* Facts about the steps of the deletion queue: they keep its types, never *)
(* forget a key that was named and erase nothing else.                     *)
(***************************************************************************)
EXTENDS ObjectCleanup, TLAPS

\* A table whose rows are changed in place is still a table.
LEMMA MapTable ==
  ASSUME NEW S, NEW s \in Seq(S), NEW t,
         t = [i \in DOMAIN s |-> t[i]],
         \A i \in DOMAIN s : t[i] \in S
  PROVE  t \in Seq(S) /\ DOMAIN t = DOMAIN s
  OBVIOUS

LEMMA AppendTable ==
  ASSUME NEW S, NEW s \in Seq(S), NEW r \in S
  PROVE  /\ Append(s, r) \in Seq(S)
         /\ DOMAIN Append(s, r) = DOMAIN s \cup {Len(s) + 1}
         /\ Len(s) + 1 \notin DOMAIN s
         /\ \A i \in DOMAIN s : Append(s, r)[i] = s[i]
         /\ Append(s, r)[Len(s) + 1] = r
  OBVIOUS

\* A step of the queue itself changes rows in place, and never their keys.
RowsKeepKeys ==
  /\ cleanup' \in Seq(CleanupRow)
  /\ DOMAIN cleanup' = DOMAIN cleanup
  /\ \A i \in DOMAIN cleanup : cleanup'[i].keys = cleanup[i].keys

LEMMA KeptKeysNamed ==
  ASSUME RowsKeepKeys
  PROVE  NamedKeys' = NamedKeys
  BY DEF RowsKeepKeys, NamedKeys

LEMMA UpdateRow ==
  ASSUME cleanup \in Seq(CleanupRow), NEW i \in DOMAIN cleanup,
         NEW r \in CleanupRow, r.keys = cleanup[i].keys,
         cleanup' = [cleanup EXCEPT ![i] = r]
  PROVE  RowsKeepKeys
  <1>1. cleanup' \in Seq(CleanupRow) /\ DOMAIN cleanup' = DOMAIN cleanup
    OBVIOUS
  <1> QED
    BY <1>1 DEF RowsKeepKeys

-----------------------------------------------------------------------------
(* Appending a row *)

LEMMA ScheduleDeleteNames ==
  ASSUME CleanupTypeOK, NEW ks \in SUBSET Keys, ScheduleDelete(ks)
  PROVE  /\ cleanup' \in Seq(CleanupRow)
         /\ DOMAIN cleanup \subseteq DOMAIN cleanup'
         /\ NamedKeys' = NamedKeys \cup ks
  <1>1. NewRow(ks) \in CleanupRow
    BY CleanupAssumption DEF NewRow, CleanupRow
  <1>2. cleanup \in Seq(CleanupRow)
    BY DEF CleanupTypeOK
  <1>3. cleanup' = Append(cleanup, NewRow(ks)) /\ NewRow(ks).keys = ks
    BY DEF ScheduleDelete, NewRow
  <1>4. /\ cleanup' \in Seq(CleanupRow)
        /\ DOMAIN cleanup' = DOMAIN cleanup \cup {Len(cleanup) + 1}
        /\ \A i \in DOMAIN cleanup : cleanup'[i] = cleanup[i]
        /\ cleanup'[Len(cleanup) + 1].keys = ks
    BY <1>1, <1>2, <1>3, AppendTable
  <1> QED
    BY <1>4 DEF NamedKeys

LEMMA ScheduleDeleteType ==
  ASSUME CleanupTypeOK, NEW ks \in SUBSET Keys, ScheduleDelete(ks),
         UNCHANGED <<bucket, cleaner, cleanerCrashes>>
  PROVE  CleanupTypeOK'
  BY ScheduleDeleteNames DEF CleanupTypeOK

-----------------------------------------------------------------------------
(* The cleanup loops *)

LEMMA CleanerStepKeepsKeys ==
  ASSUME CleanupTypeOK, NEW c \in Cleaners, CleanerStep(c)
  PROVE  RowsKeepKeys
  <1>0. /\ cleanup \in Seq(CleanupRow)
        /\ 0 \in -1..CleanupLease /\ CleanupLease \in -1..CleanupLease
    BY CleanupAssumption DEF CleanupTypeOK
  <1>1. CASE ClaimCleanupJob(c)
    <2>1. PICK i \in DOMAIN cleanup :
            cleanup' = [cleanup EXCEPT ![i].state = "leased",
                                       ![i].lease = CleanupLease,
                                       ![i].attempts = CountAttempt(@)]
      BY <1>1 DEF ClaimCleanupJob
    <2> DEFINE n == CountAttempt(cleanup[i].attempts)
               r == [cleanup[i] EXCEPT !.state = "leased", !.attempts = n,
                                       !.lease = CleanupLease]
    <2>2. cleanup[i] \in CleanupRow
      BY <1>0
    <2>3. n \in 0..MaxCleanupAttempts
      BY <2>2, CleanupAssumption DEF CleanupRow, CountAttempt
    <2>4. cleanup' = [cleanup EXCEPT ![i] = r]
      BY <2>1, <2>2, <1>0 DEF CleanupRow
    <2> HIDE DEF n
    <2>5. r \in CleanupRow /\ r.keys = cleanup[i].keys
      BY <1>0, <2>2, <2>3 DEF CleanupRow
    <2> QED
      BY <1>0, <2>4, <2>5, UpdateRow
  <1>2. CASE DeleteObjects(c) \/ DeleteObjectsFails(c)
    BY <1>2, <1>0 DEF DeleteObjects, DeleteObjectsFails, RowsKeepKeys
  <1>3. CASE CompleteCleanupJob(c)
    <2> DEFINE i == cleaner[c].row
               r == [cleanup[i] EXCEPT !.state = "succeeded", !.lease = 0]
    <2>1. i \in DOMAIN cleanup
      BY <1>3 DEF CompleteCleanupJob, CleanupTypeOK
    <2>2. cleanup[i] \in CleanupRow
      BY <1>0, <2>1
    <2>3. cleanup' = [cleanup EXCEPT ![i] = r]
      BY <1>3, <1>0, <2>1 DEF CompleteCleanupJob
    <2>4. r \in CleanupRow /\ r.keys = cleanup[i].keys
      BY <1>0, <2>2 DEF CleanupRow
    <2> QED
      BY <1>0, <2>1, <2>3, <2>4, UpdateRow
  <1>4. CASE FailCleanupJob(c)
    <2> DEFINE i == cleaner[c].row
               n == cleaner[c].attempts
    <2>1. i \in DOMAIN cleanup /\ CleanupBackoff(n) \in Nat
      BY <1>4, CleanupAssumption DEF FailCleanupJob, CleanupTypeOK
    <2>2. cleanup[i] \in CleanupRow
      BY <1>0, <2>1
    <2>3. CASE Spent(n)
      <3> DEFINE r == [cleanup[i] EXCEPT !.state = "failed", !.lease = 0]
      <3>1. cleanup' = [cleanup EXCEPT ![i] = r]
        BY <1>4, <1>0, <2>1, <2>3 DEF FailCleanupJob, Spent
      <3>2. r \in CleanupRow /\ r.keys = cleanup[i].keys
        BY <1>0, <2>2 DEF CleanupRow
      <3> QED
        BY <1>0, <2>1, <3>1, <3>2, UpdateRow
    <2>4. CASE ~Spent(n)
      <3> DEFINE r == [cleanup[i] EXCEPT !.state = "queued", !.lease = 0,
                                         !.delay = CleanupBackoff(n)]
      <3>1. cleanup' = [cleanup EXCEPT ![i] = r]
        BY <1>4, <1>0, <2>1, <2>4 DEF FailCleanupJob, Spent
      <3>2. r \in CleanupRow /\ r.keys = cleanup[i].keys
        BY <1>0, <2>1, <2>2 DEF CleanupRow
      <3> QED
        BY <1>0, <2>1, <3>1, <3>2, UpdateRow
    <2> QED
      BY <2>3, <2>4
  <1> QED
    BY <1>1, <1>2, <1>3, <1>4 DEF CleanerStep

\* What any step of a loop, a crash included, leaves typed.
LEMMA CleanerStepType ==
  ASSUME CleanupTypeOK, NEW c \in Cleaners, CleanerStep(c) \/ CrashCleaner(c)
  PROVE  CleanupTypeOK' /\ NamedKeys' = NamedKeys
  <1>0. RowsKeepKeys
    <2>1. CASE CleanerStep(c)
      BY <2>1, CleanerStepKeepsKeys
    <2>2. CASE CrashCleaner(c)
      BY <2>2 DEF CrashCleaner, RowsKeepKeys, CleanupTypeOK
    <2> QED
      BY <2>1, <2>2
  <1>1. bucket' \subseteq Keys /\ cleanerCrashes' \in 0..MaxCleanerCrashes
    <2>1. bucket' \subseteq bucket
      BY DEF CleanerStep, ClaimCleanupJob, DeleteObjects, DeleteObjectsFails,
             CompleteCleanupJob, FailCleanupJob, CrashCleaner
    <2>2. \/ cleanerCrashes' = cleanerCrashes
          \/ /\ cleanerCrashes < MaxCleanerCrashes
             /\ cleanerCrashes' = cleanerCrashes + 1
      BY DEF CleanerStep, ClaimCleanupJob, DeleteObjects, DeleteObjectsFails,
             CompleteCleanupJob, FailCleanupJob, CrashCleaner
    <2> QED
      BY <2>1, <2>2, CleanupAssumption DEF CleanupTypeOK
  <1>2. PICK cs \in CleanerState :
          /\ cleaner' = [cleaner EXCEPT ![c] = cs]
          /\ cs.pc # "idle" => /\ cs.row \in DOMAIN cleanup
                               /\ cs.attempts \in 1..MaxCleanupAttempts
    <2>0. cleaner \in [Cleaners -> CleanerState] /\ cleaner[c] \in CleanerState
      BY DEF CleanupTypeOK
    <2>1. CASE ClaimCleanupJob(c)
      <3>1. PICK i \in DOMAIN cleanup :
              cleaner' = [cleaner EXCEPT ![c] =
                            [pc |-> "claimed", row |-> i,
                             attempts |-> CountAttempt(cleanup[i].attempts)]]
        BY <2>1 DEF ClaimCleanupJob
      <3>2. i \in Nat /\ cleanup[i] \in CleanupRow
        BY DEF CleanupTypeOK
      <3>3. CountAttempt(cleanup[i].attempts) \in 1..MaxCleanupAttempts
        BY <3>2, CleanupAssumption DEF CleanupRow, CountAttempt
      <3> HIDE DEF CountAttempt
      <3>4. [pc |-> "claimed", row |-> i,
             attempts |-> CountAttempt(cleanup[i].attempts)] \in CleanerState
        BY <3>2, <3>3 DEF CleanerState
      <3> QED
        BY <3>1, <3>3, <3>4
    <2>2. CASE DeleteObjects(c)
      <3>1. [cleaner[c] EXCEPT !.pc = "deleted"] \in CleanerState
        BY <2>0 DEF CleanerState
      <3> QED
        BY <2>0, <2>2, <3>1 DEF DeleteObjects, CleanupTypeOK, CleanerState
    <2>3. CASE DeleteObjectsFails(c)
      <3>1. [cleaner[c] EXCEPT !.pc = "failing"] \in CleanerState
        BY <2>0 DEF CleanerState
      <3> QED
        BY <2>0, <2>3, <3>1
        DEF DeleteObjectsFails, AfterDeleteError, CleanupTypeOK, CleanerState
    <2>4. CASE CompleteCleanupJob(c) \/ FailCleanupJob(c) \/ CrashCleaner(c)
      <3>1. IdleCleaner \in CleanerState /\ IdleCleaner.pc = "idle"
        BY DEF IdleCleaner, CleanerState
      <3>2. cleaner' = [cleaner EXCEPT ![c] = IdleCleaner]
        BY <2>4 DEF CompleteCleanupJob, FailCleanupJob, CrashCleaner
      <3> QED
        BY <3>1, <3>2
    <2> QED
      BY <2>1, <2>2, <2>3, <2>4 DEF CleanerStep
  <1> QED
    BY <1>0, <1>1, <1>2, KeptKeysNamed DEF CleanupTypeOK, RowsKeepKeys

\* Only named keys are ever erased.
LEMMA CleanerStepErases ==
  ASSUME CleanupTypeOK, NEW c \in Cleaners, CleanerStep(c) \/ CrashCleaner(c)
  PROVE  bucket' \subseteq bucket /\ bucket \ bucket' \subseteq NamedKeys
  <1>1. CASE DeleteObjects(c) \/ DeleteObjectsFails(c)
    <2>1. cleaner[c].row \in DOMAIN cleanup
      BY <1>1 DEF DeleteObjects, DeleteObjectsFails, CleanupTypeOK
    <2>2. Payload(c) \subseteq NamedKeys
      BY <2>1 DEF Payload, NamedKeys
    <2> QED
      BY <1>1, <2>2 DEF DeleteObjects, DeleteObjectsFails
  <1>2. CASE ClaimCleanupJob(c) \/ CompleteCleanupJob(c) \/ FailCleanupJob(c)
             \/ CrashCleaner(c)
    BY <1>2 DEF ClaimCleanupJob, CompleteCleanupJob, FailCleanupJob, CrashCleaner
  <1> QED
    BY <1>1, <1>2 DEF CleanerStep

-----------------------------------------------------------------------------
(* The sweep and the clock *)

LEMMA ReapKeepsKeys ==
  ASSUME CleanupTypeOK, ReapCleanupLeases
  PROVE  RowsKeepKeys
  <1>1. cleanup \in Seq(CleanupRow) /\ 0 \in -1..CleanupLease
    BY CleanupAssumption DEF CleanupTypeOK
  <1>2. ASSUME NEW i \in DOMAIN cleanup
        PROVE  cleanup'[i] \in CleanupRow /\ cleanup'[i].keys = cleanup[i].keys
    <2>1. cleanup[i] \in CleanupRow
      BY <1>1
    <2>2. \/ cleanup'[i] = cleanup[i]
          \/ cleanup'[i] = [cleanup[i] EXCEPT !.state = "queued", !.lease = 0]
      BY DEF ReapCleanupLeases
    <2> QED
      BY <1>1, <2>1, <2>2 DEF CleanupRow
  <1>3. cleanup' = [i \in DOMAIN cleanup |-> cleanup'[i]]
    BY DEF ReapCleanupLeases
  <1> QED
    BY <1>1, <1>2, <1>3, MapTable DEF RowsKeepKeys

LEMMA TickKeepsKeys ==
  ASSUME CleanupTypeOK, TickCleanup
  PROVE  RowsKeepKeys
  <1>1. cleanup \in Seq(CleanupRow)
    BY DEF CleanupTypeOK
  <1>2. ASSUME NEW i \in DOMAIN cleanup
        PROVE  cleanup'[i] \in CleanupRow /\ cleanup'[i].keys = cleanup[i].keys
    <2>1. cleanup[i] \in CleanupRow
      BY <1>1
    <2>2. /\ Elapse(cleanup[i].delay) \in Nat
          /\ ElapseLease(cleanup[i]) \in -1..CleanupLease
      BY <2>1, CleanupAssumption DEF CleanupRow, Elapse, ElapseLease
    <2>3. cleanup'[i] = [cleanup[i] EXCEPT !.delay = Elapse(cleanup[i].delay),
                                           !.lease = ElapseLease(cleanup[i])]
      BY <2>1 DEF TickCleanup, CleanupRow
    <2> QED
      BY <2>1, <2>2, <2>3 DEF CleanupRow
  <1>3. cleanup' = [i \in DOMAIN cleanup |-> cleanup'[i]]
    BY DEF TickCleanup
  <1> QED
    BY <1>1, <1>2, <1>3, MapTable DEF RowsKeepKeys

LEMMA RowsKeepKeysType ==
  ASSUME CleanupTypeOK, RowsKeepKeys, UNCHANGED <<bucket, cleaner, cleanerCrashes>>
  PROVE  CleanupTypeOK'
  BY DEF CleanupTypeOK, RowsKeepKeys

LEMMA CleanupInitType ==
  ASSUME CleanupInit
  PROVE  CleanupTypeOK /\ NamedKeys = {}
  <1>1. DOMAIN cleanup = {} /\ cleanup \in Seq(CleanupRow)
    BY DEF CleanupInit
  <1> QED
    BY <1>1, CleanupAssumption
    DEF CleanupInit, CleanupTypeOK, NamedKeys, IdleCleaner, CleanerState

=============================================================================
