--------------------------- MODULE CleanupQueueProofs ---------------------------
(***************************************************************************)
(* CleanupQueue, for any number of keys, loops, attempts and rows: a row   *)
(* marked succeeded has erased its keys, and the queue implements          *)
(* Reclaimer.                                                              *)
(***************************************************************************)
EXTENDS CleanupQueue, ObjectCleanupProofs

\* What one step does to the rows, the keys they name and the bucket: the
\* summary every later proof goes by.
LEMMA NextSummary ==
  ASSUME CleanupTypeOK, [Next]_cleanupVars
  PROVE  /\ CleanupTypeOK'
         /\ NamedKeys \subseteq NamedKeys'
         /\ \/ NamedKeys' = NamedKeys /\ bucket' \subseteq bucket
                 /\ bucket \ bucket' \subseteq NamedKeys
            \/ \E k \in Keys \ NamedKeys :
                 bucket' = bucket \cup {k} /\ NamedKeys' = NamedKeys
            \/ \E ks \in SUBSET Keys :
                 NamedKeys' = NamedKeys \cup ks /\ bucket' = bucket
  <1>1. ASSUME NEW k \in Keys, StoreObject(k)
        PROVE  /\ CleanupTypeOK'
               /\ k \notin NamedKeys /\ NamedKeys' = NamedKeys
               /\ bucket' = bucket \cup {k}
    BY <1>1 DEF StoreObject, CleanupTypeOK, NamedKeys
  <1>2. ASSUME NEW ks \in SUBSET Keys, EnqueueCleanup(ks)
        PROVE  /\ CleanupTypeOK'
               /\ NamedKeys' = NamedKeys \cup ks /\ bucket' = bucket
    BY <1>2, ScheduleDeleteNames, ScheduleDeleteType DEF EnqueueCleanup
  <1>3. ASSUME NEW c \in Cleaners, CleanerStep(c) \/ CrashCleaner(c)
        PROVE  /\ CleanupTypeOK'
               /\ NamedKeys' = NamedKeys /\ bucket' \subseteq bucket
               /\ bucket \ bucket' \subseteq NamedKeys
    BY <1>3, CleanerStepType, CleanerStepErases
  <1>4. ASSUME Reap \/ Tick
        PROVE  CleanupTypeOK' /\ NamedKeys' = NamedKeys /\ bucket' = bucket
    <2>1. RowsKeepKeys /\ UNCHANGED <<bucket, cleaner, cleanerCrashes>>
      BY <1>4, ReapKeepsKeys, TickKeepsKeys DEF Reap, Tick
    <2> QED
      BY <2>1, RowsKeepKeysType, KeptKeysNamed
  <1>5. ASSUME UNCHANGED cleanupVars
        PROVE  CleanupTypeOK' /\ NamedKeys' = NamedKeys /\ bucket' = bucket
    BY <1>5 DEF cleanupVars, CleanupTypeOK, NamedKeys
  <1> QED
    BY <1>1, <1>2, <1>3, <1>4, <1>5 DEF Next

\* The tables, the loops and the bucket keep their types.
THEOREM TypeCorrect == Spec => []CleanupTypeOK
  <1>1. CleanupInit => CleanupTypeOK
    BY CleanupInitType
  <1>2. CleanupTypeOK /\ [Next]_cleanupVars => CleanupTypeOK'
    BY NextSummary
  <1> QED
    BY <1>1, <1>2, PTL DEF Spec

-----------------------------------------------------------------------------
(* The inductive invariant *)

\* A step that keeps every claim and whose rows only change as told below
\* keeps the invariant: the shape shared by the sweep, the clock and the loops.
LEMMA InvFromRows ==
  ASSUME QueueInv, CleanupTypeOK', RowsKeepKeys, bucket' \subseteq bucket,
         \A i \in DOMAIN cleanup :
           /\ cleanup'[i].attempts >= cleanup[i].attempts
           /\ cleanup'[i].state = "succeeded" =>
                \/ cleanup[i].state = "succeeded"
                \/ cleanup[i].keys \cap bucket = {}
           /\ cleanup'[i].state = "failed" =>
                \/ cleanup[i].state = "failed"
                \/ cleanup[i].attempts = MaxCleanupAttempts,
         \A c \in Cleaners :
           cleaner'[c].pc # "idle" =>
             /\ \/ cleaner[c].pc # "idle" /\ cleaner'[c].row = cleaner[c].row
                     /\ cleaner'[c].attempts = cleaner[c].attempts
                \/ cleaner'[c].attempts = cleanup'[cleaner'[c].row].attempts
             /\ cleaner'[c].pc = "deleted" =>
                  \/ cleaner[c].pc = "deleted" /\ cleaner'[c].row = cleaner[c].row
                  \/ cleanup[cleaner'[c].row].keys \cap bucket' = {}
  PROVE  QueueInv'
  <1>0. /\ cleanup \in Seq(CleanupRow) /\ cleanup' \in Seq(CleanupRow)
        /\ DOMAIN cleanup' = DOMAIN cleanup
        /\ \A i \in DOMAIN cleanup :
             /\ cleanup[i].attempts \in 0..MaxCleanupAttempts
             /\ cleanup'[i].attempts \in 0..MaxCleanupAttempts
             /\ cleanup'[i].keys = cleanup[i].keys
    <2>1. /\ cleanup \in Seq(CleanupRow) /\ cleanup' \in Seq(CleanupRow)
          /\ DOMAIN cleanup' = DOMAIN cleanup
      BY DEF QueueInv, CleanupTypeOK, RowsKeepKeys
    <2>2. \A i \in DOMAIN cleanup :
            cleanup[i] \in CleanupRow /\ cleanup'[i] \in CleanupRow
      BY <2>1
    <2> QED
      BY <2>1, <2>2 DEF CleanupRow, RowsKeepKeys
  <1>1. DoneMeansGone'
    BY <1>0 DEF QueueInv, DoneMeansGone
  <1>2. WrittenOffWhenSpent'
    BY <1>0, CleanupAssumption DEF QueueInv, WrittenOffWhenSpent
  <1>3. DeletedMeansGone'
    <2> SUFFICES ASSUME NEW c \in Cleaners, cleaner'[c].pc = "deleted"
                 PROVE  cleanup'[cleaner'[c].row].keys \cap bucket' = {}
      BY DEF DeletedMeansGone, Payload
    <2>1. cleaner'[c].row \in DOMAIN cleanup
      BY <1>0 DEF CleanupTypeOK
    <2> QED
      BY <1>0, <2>1 DEF QueueInv, DeletedMeansGone, Payload
  <1>4. ClaimsCounted'
    <2> SUFFICES ASSUME NEW c \in Cleaners, cleaner'[c].pc # "idle"
                 PROVE  cleaner'[c].attempts <= cleanup'[cleaner'[c].row].attempts
      BY DEF ClaimsCounted
    <2>1. /\ cleaner'[c].row \in DOMAIN cleanup
          /\ cleaner'[c].attempts \in 1..MaxCleanupAttempts
      BY <1>0 DEF CleanupTypeOK
    <2>2. CASE cleaner'[c].attempts = cleanup'[cleaner'[c].row].attempts
      BY <2>1, <2>2, CleanupAssumption
    <2>3. CASE /\ cleaner[c].pc # "idle" /\ cleaner'[c].row = cleaner[c].row
               /\ cleaner'[c].attempts = cleaner[c].attempts
      <3> DEFINE i == cleaner[c].row
      <3>1. i \in DOMAIN cleanup /\ cleaner[c].attempts <= cleanup[i].attempts
        BY <2>1, <2>3 DEF QueueInv, ClaimsCounted
      <3>2. /\ cleanup[i].attempts \in Nat /\ cleanup'[i].attempts \in Nat
            /\ cleaner[c].attempts \in Nat
            /\ cleanup'[i].attempts >= cleanup[i].attempts
        BY <1>0, <2>1, <2>3, <3>1
      <3> HIDE DEF i
      <3>3. cleaner[c].attempts <= cleanup'[i].attempts
        BY <3>1, <3>2
      <3> QED
        BY <2>3, <3>3 DEF i
    <2> QED
      BY <2>2, <2>3
  <1> QED
    BY <1>1, <1>2, <1>3, <1>4 DEF QueueInv

LEMMA CleanerStepInv ==
  ASSUME QueueInv, NEW c \in Cleaners, CleanerStep(c) \/ CrashCleaner(c)
  PROVE  QueueInv'
  <1>0. /\ CleanupTypeOK /\ CleanupTypeOK' /\ cleanup \in Seq(CleanupRow)
        /\ cleaner \in [Cleaners -> CleanerState]
        /\ \A i \in DOMAIN cleanup : cleanup[i] \in CleanupRow
    BY CleanerStepType DEF QueueInv, CleanupTypeOK
  <1>1. RowsKeepKeys
    BY <1>0, CleanerStepKeepsKeys DEF CrashCleaner, RowsKeepKeys
  <1>2. bucket' \subseteq bucket
    BY <1>0, CleanerStepErases
  <1>3. CASE ClaimCleanupJob(c)
    <2>1. PICK i \in DOMAIN cleanup :
            /\ cleanup' = [cleanup EXCEPT ![i].state = "leased",
                                          ![i].lease = CleanupLease,
                                          ![i].attempts = CountAttempt(@)]
            /\ cleaner' = [cleaner EXCEPT ![c] =
                             [pc |-> "claimed", row |-> i,
                              attempts |-> CountAttempt(cleanup[i].attempts)]]
      BY <1>3 DEF ClaimCleanupJob
    <2>2. /\ cleanup'[i].state = "leased"
          /\ cleanup'[i].attempts = CountAttempt(cleanup[i].attempts)
          /\ \A j \in DOMAIN cleanup \ {i} : cleanup'[j] = cleanup[j]
      BY <1>0, <2>1 DEF CleanupRow
    <2>3. \A j \in DOMAIN cleanup : cleanup[j].attempts \in 0..MaxCleanupAttempts
      BY <1>0 DEF CleanupRow
    <2>4. CountAttempt(cleanup[i].attempts) >= cleanup[i].attempts
      BY <2>3, CleanupAssumption DEF CountAttempt
    <2>5. \A j \in DOMAIN cleanup : cleanup'[j].attempts >= cleanup[j].attempts
      BY <2>2, <2>3, <2>4, CleanupAssumption
    <2>6. \A d \in Cleaners \ {c} : cleaner'[d] = cleaner[d]
      BY <2>1
    <2>7. /\ cleaner'[c].pc = "claimed" /\ cleaner'[c].row = i
          /\ cleaner'[c].attempts = cleanup'[i].attempts
      BY <1>0, <2>1, <2>2
    <2> QED
      BY <1>0, <1>1, <1>2, <2>2, <2>5, <2>6, <2>7, InvFromRows
      DEF QueueInv, DeletedMeansGone, Payload
  <1>4. CASE DeleteObjects(c) \/ DeleteObjectsFails(c) \/ CrashCleaner(c)
    <2>1. /\ cleanup' = cleanup
          /\ \A i \in DOMAIN cleanup : cleanup[i].attempts \in Nat
      BY <1>0, <1>4
      DEF DeleteObjects, DeleteObjectsFails, CrashCleaner, CleanupRow
    <2>2. \A d \in Cleaners \ {c} : cleaner'[d] = cleaner[d]
      BY <1>0, <1>4 DEF DeleteObjects, DeleteObjectsFails, CrashCleaner
    <2>3. cleaner'[c].pc # "idle" =>
            /\ cleaner[c].pc # "idle" /\ cleaner'[c].row = cleaner[c].row
            /\ cleaner'[c].attempts = cleaner[c].attempts
            /\ cleaner'[c].pc = "deleted" => Payload(c) \cap bucket' = {}
      BY <1>0, <1>4
      DEF DeleteObjects, DeleteObjectsFails, CrashCleaner, AfterDeleteError,
          IdleCleaner, CleanerState
    <2> QED
      BY <1>0, <1>1, <1>2, <2>1, <2>2, <2>3, InvFromRows
      DEF QueueInv, DeletedMeansGone, Payload
  <1>5. CASE CompleteCleanupJob(c) \/ FailCleanupJob(c)
    <2> DEFINE i == cleaner[c].row
    <2>1. /\ i \in DOMAIN cleanup
          /\ cleaner[c].attempts \in 1..MaxCleanupAttempts
          /\ cleaner[c].attempts <= cleanup[i].attempts
      BY <1>0, <1>5
      DEF CompleteCleanupJob, FailCleanupJob, CleanupTypeOK, QueueInv,
          ClaimsCounted
    <2>2. \A j \in DOMAIN cleanup : cleanup[j].attempts \in 0..MaxCleanupAttempts
      BY <1>0 DEF CleanupRow
    <2>3. /\ \A j \in DOMAIN cleanup \ {i} : cleanup'[j] = cleanup[j]
          /\ cleanup'[i].attempts = cleanup[i].attempts
      <3>1. CASE CompleteCleanupJob(c)
        BY <1>0, <2>1, <3>1 DEF CompleteCleanupJob, CleanupRow
      <3>2. CASE FailCleanupJob(c)
        <4>1. CASE Spent(cleaner[c].attempts)
          <5>1. cleanup' = [cleanup EXCEPT ![i].state = "failed", ![i].lease = 0]
            BY <3>2, <4>1 DEF FailCleanupJob
          <5>2. cleanup \in Seq(CleanupRow) /\ i \in DOMAIN cleanup
            BY <1>0, <2>1
          <5> HIDE DEF i
          <5>3. \A j \in DOMAIN cleanup \ {i} : cleanup'[j] = cleanup[j]
            BY <5>1, <5>2
          <5>4. cleanup'[i] = [cleanup[i] EXCEPT !.state = "failed", !.lease = 0]
            BY <5>1, <5>2
          <5>5. cleanup[i] \in CleanupRow
            BY <5>2
          <5>6. cleanup'[i].attempts = cleanup[i].attempts
            BY <5>4, <5>5 DEF CleanupRow
          <5> QED
            BY <5>3, <5>6
        <4>2. CASE ~Spent(cleaner[c].attempts)
          <5>1. cleanup' = [cleanup EXCEPT
                              ![i].state = "queued", ![i].lease = 0,
                              ![i].delay = CleanupBackoff(cleaner[c].attempts)]
            BY <3>2, <4>2 DEF FailCleanupJob
          <5>2. cleanup \in Seq(CleanupRow) /\ i \in DOMAIN cleanup
            BY <1>0, <2>1
          <5> HIDE DEF i
          <5>3. \A j \in DOMAIN cleanup \ {i} : cleanup'[j] = cleanup[j]
            BY <5>1, <5>2
          <5>4. cleanup'[i] = [cleanup[i] EXCEPT !.state = "queued", !.lease = 0,
                                                 !.delay =
                                   CleanupBackoff(cleaner[c].attempts)]
            BY <5>1, <5>2
          <5>5. cleanup[i] \in CleanupRow
            BY <5>2
          <5>6. cleanup'[i].attempts = cleanup[i].attempts
            BY <5>4, <5>5 DEF CleanupRow
          <5> QED
            BY <5>3, <5>6
        <4> QED
          BY <4>1, <4>2
      <3> QED
        BY <1>5, <3>1, <3>2
    <2>4. cleanup'[i].state = "succeeded" => cleanup[i].keys \cap bucket = {}
      <3>1. CASE CompleteCleanupJob(c)
        <4>1. cleaner[c].pc = "deleted"
          BY <3>1 DEF CompleteCleanupJob
        <4> QED
          BY <4>1 DEF QueueInv, DeletedMeansGone, Payload
      <3>2. CASE FailCleanupJob(c)
        <4>1. cleanup'[i].state \in {"queued", "failed"}
          BY <1>0, <2>1, <3>2 DEF FailCleanupJob, CleanupRow, Spent
        <4> QED
          BY <4>1
      <3> QED
        BY <1>5, <3>1, <3>2
    <2>5. cleanup'[i].state = "failed" =>
            cleaner[c].attempts >= MaxCleanupAttempts
      BY <1>0, <1>5, <2>1
      DEF CompleteCleanupJob, FailCleanupJob, CleanupRow, Spent
    <2>6. cleanup'[i].state = "failed" => cleanup[i].attempts = MaxCleanupAttempts
      BY <2>1, <2>2, <2>5, CleanupAssumption
    <2>7. /\ cleaner'[c].pc = "idle"
          /\ \A d \in Cleaners \ {c} : cleaner'[d] = cleaner[d]
      BY <1>0, <1>5 DEF CompleteCleanupJob, FailCleanupJob, IdleCleaner
    <2>8. \A j \in DOMAIN cleanup : cleanup'[j].attempts >= cleanup[j].attempts
      BY <2>2, <2>3
    <2> HIDE DEF i
    <2> QED
      BY <1>0, <1>1, <1>2, <2>3, <2>4, <2>6, <2>7, <2>8, InvFromRows
      DEF QueueInv, DeletedMeansGone, Payload
  <1> QED
    BY <1>3, <1>4, <1>5 DEF CleanerStep

LEMMA SweepInv ==
  ASSUME QueueInv, Reap \/ Tick
  PROVE  QueueInv'
  <1>0. /\ CleanupTypeOK /\ cleanup \in Seq(CleanupRow)
        /\ \A i \in DOMAIN cleanup : cleanup[i] \in CleanupRow
    BY DEF QueueInv, CleanupTypeOK
  <1>1. RowsKeepKeys /\ UNCHANGED <<bucket, cleaner, cleanerCrashes>>
    BY <1>0, ReapKeepsKeys, TickKeepsKeys DEF Reap, Tick
  <1>2. \A i \in DOMAIN cleanup :
          /\ cleanup'[i].attempts = cleanup[i].attempts
          /\ cleanup'[i].state \in {cleanup[i].state, "queued"}
    <2> SUFFICES ASSUME NEW i \in DOMAIN cleanup
                 PROVE  /\ cleanup'[i].attempts = cleanup[i].attempts
                        /\ cleanup'[i].state \in {cleanup[i].state, "queued"}
      OBVIOUS
    <2>1. cleanup[i] \in CleanupRow
      BY <1>0
    <2>2. CASE Reap
      BY <2>1, <2>2 DEF Reap, ReapCleanupLeases, CleanupRow
    <2>3. CASE Tick
      <3>1. cleanup'[i] = [cleanup[i] EXCEPT !.delay = Elapse(cleanup[i].delay),
                                             !.lease = ElapseLease(cleanup[i])]
        BY <2>1, <2>3 DEF Tick, TickCleanup, CleanupRow
      <3> QED
        BY <2>1, <3>1 DEF CleanupRow
    <2> QED
      BY <2>2, <2>3
  <1>3. \A i \in DOMAIN cleanup : cleanup[i].attempts \in Nat
    BY <1>0 DEF CleanupRow
  <1>4. \A i \in DOMAIN cleanup : cleanup'[i].attempts >= cleanup[i].attempts
    BY <1>2, <1>3
  <1>5. CleanupTypeOK'
    BY <1>0, <1>1, RowsKeepKeysType
  <1> QED
    BY <1>1, <1>2, <1>4, <1>5, InvFromRows
    DEF QueueInv, DeletedMeansGone, Payload

LEMMA EnvironmentInv ==
  ASSUME QueueInv,
         \/ \E k \in Keys : StoreObject(k)
         \/ \E ks \in SUBSET Keys : EnqueueCleanup(ks)
  PROVE  QueueInv'
  <1>0. CleanupTypeOK /\ CleanupTypeOK'
    BY NextSummary DEF QueueInv, Next
  <1>1. ASSUME NEW k \in Keys, StoreObject(k)
        PROVE  QueueInv'
    <2>1. /\ UNCHANGED <<cleanup, cleaner>> /\ bucket' = bucket \cup {k}
          /\ \A i \in DOMAIN cleanup : k \notin cleanup[i].keys
      BY <1>1 DEF StoreObject, NamedKeys
    <2>2. DoneMeansGone' /\ WrittenOffWhenSpent' /\ ClaimsCounted'
      BY <2>1 DEF QueueInv, DoneMeansGone, WrittenOffWhenSpent, ClaimsCounted
    <2>3. DeletedMeansGone'
      BY <1>0, <2>1 DEF QueueInv, DeletedMeansGone, Payload, CleanupTypeOK
    <2> QED
      BY <1>0, <2>2, <2>3 DEF QueueInv
  <1>2. ASSUME NEW ks \in SUBSET Keys, EnqueueCleanup(ks)
        PROVE  QueueInv'
    <2> DEFINE n == Len(cleanup) + 1
    <2>1. /\ cleanup \in Seq(CleanupRow) /\ NewRow(ks) \in CleanupRow
          /\ cleanup' = Append(cleanup, NewRow(ks))
          /\ UNCHANGED <<bucket, cleaner>>
      BY <1>0, <1>2, CleanupAssumption
      DEF EnqueueCleanup, ScheduleDelete, CleanupTypeOK, NewRow, CleanupRow
    <2>2. /\ DOMAIN cleanup' = DOMAIN cleanup \cup {n}
          /\ \A i \in DOMAIN cleanup : cleanup'[i] = cleanup[i]
          /\ cleanup'[n].state = "queued"
      BY <2>1, AppendTable DEF NewRow
    <2>3. \A c \in Cleaners : cleaner[c].pc # "idle" =>
            cleaner[c].row \in DOMAIN cleanup
      BY <1>0 DEF CleanupTypeOK
    <2>4. DoneMeansGone' /\ WrittenOffWhenSpent'
      BY <2>1, <2>2 DEF QueueInv, DoneMeansGone, WrittenOffWhenSpent
    <2>5. DeletedMeansGone' /\ ClaimsCounted'
      BY <2>1, <2>2, <2>3 DEF QueueInv, DeletedMeansGone, ClaimsCounted, Payload
    <2> QED
      BY <1>0, <2>4, <2>5 DEF QueueInv
  <1> QED
    BY <1>1, <1>2

\* No step of a loop, the sweep or a caller breaks the invariant.
THEOREM Invariance == Spec => []QueueInv
  <1>1. CleanupInit => QueueInv
    <2> SUFFICES ASSUME CleanupInit PROVE QueueInv
      OBVIOUS
    <2>1. /\ DOMAIN cleanup = {}
          /\ \A c \in Cleaners : cleaner[c].pc = "idle"
      BY DEF CleanupInit, IdleCleaner
    <2> QED
      BY <2>1, CleanupInitType
      DEF QueueInv, DoneMeansGone, WrittenOffWhenSpent, DeletedMeansGone,
          ClaimsCounted
  <1>2. QueueInv /\ [Next]_cleanupVars => QueueInv'
    <2> SUFFICES ASSUME QueueInv, [Next]_cleanupVars PROVE QueueInv'
      OBVIOUS
    <2>1. CASE UNCHANGED cleanupVars
      <3>1. CleanupTypeOK'
        BY <2>1, NextSummary DEF QueueInv
      <3> QED
        BY <2>1, <3>1
        DEF cleanupVars, QueueInv, DoneMeansGone, WrittenOffWhenSpent,
            DeletedMeansGone, ClaimsCounted, Payload
    <2> QED
      BY <2>1, CleanerStepInv, SweepInv, EnvironmentInv DEF Next
  <1> QED
    BY <1>1, <1>2, PTL DEF Spec

\* A row marked succeeded has erased every key it names.
THEOREM DoneMeansGoneHolds == Spec => []DoneMeansGone
  BY Invariance, PTL DEF QueueInv

\* A row is written off only when its attempts are spent.
THEOREM WrittenOffWhenSpentHolds == Spec => []WrittenOffWhenSpent
  BY Invariance, PTL DEF QueueInv

-----------------------------------------------------------------------------
(* The contract *)

\* The queue implements the Reclaimer: it erases nothing it was not told to
\* erase and never forgets a key it was given.
THEOREM Refinement == Spec => ImplementsReclaimer
  <1>1. CleanupInit => Contract!Init
    BY CleanupInitType DEF Contract!Init, CleanupInit
  <1>2. CleanupTypeOK /\ [Next]_cleanupVars => [Contract!Next]_Contract!vars
    <2> SUFFICES ASSUME CleanupTypeOK, [Next]_cleanupVars
                 PROVE  [Contract!Next]_Contract!vars
      OBVIOUS
    <2>1. CASE NamedKeys' = NamedKeys /\ bucket' \subseteq bucket
                 /\ bucket \ bucket' \subseteq NamedKeys
      <3> DEFINE ks == bucket \ bucket'
      <3>1. ks \in SUBSET Keys
        BY DEF CleanupTypeOK
      <3>2. Contract!Erase(ks)
        BY <2>1 DEF Contract!Erase
      <3> QED
        BY <3>1, <3>2 DEF Contract!Next
    <2>2. CASE \E k \in Keys \ NamedKeys :
                 bucket' = bucket \cup {k} /\ NamedKeys' = NamedKeys
      BY <2>2 DEF Contract!Next, Contract!Store
    <2>3. CASE \E ks \in SUBSET Keys :
                 NamedKeys' = NamedKeys \cup ks /\ bucket' = bucket
      BY <2>3 DEF Contract!Next, Contract!Doom
    <2> QED
      BY <2>1, <2>2, <2>3, NextSummary
  <1> QED
    BY <1>1, <1>2, TypeCorrect, PTL DEF Spec, ImplementsReclaimer, Contract!Spec

=============================================================================
