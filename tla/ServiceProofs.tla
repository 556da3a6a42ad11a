----------------------------- MODULE ServiceProofs -----------------------------
(***************************************************************************)
(* The directory of identities, what a viewer is shown, the executions of  *)
(* the worker and the attempt of a media job, for any number of accounts,  *)
(* calls, Stories, uploads, processes and executions and for any limits: a *)
(* login is one row's and stays with its account, Stories a viewer may not *)
(* see leave no trace in what is read, no two executions work on one job,  *)
(* and what becomes of an upload is its own doing.                         *)
(***************************************************************************)
EXTENDS Service, Feed, FiniteSetTheorems, TLAPS

(* Identities *)

CallRows ==
  [pc: {"idle", "upsert", "release", "ensure", "ensuring", "commit",
        "refused", "failed", "aborted"},
   kind: {"none", "signin", "import", "preview"}, who: Ids \cup {NoId},
   todo: SUBSET Ids, wrote: SUBSET Ids, seen: Answered, known: BOOLEAN]

\* A call is about accounts that GitHub has answered about.
Sound(row) ==
  /\ row.todo \subseteq DOMAIN row.seen /\ row.wrote \subseteq DOMAIN row.seen
  /\ row.pc = "idle" \/ row.who \in DOMAIN row.seen

\* GitHub gives a login to one account at a time.
DirectoryInv ==
  /\ github \in [Ids -> Logins] /\ Injective(github)
  /\ login \in [Ids -> Logins \cup {"absent", "stale"}]
  /\ faithful \subseteq Ids
  /\ call \in [Calls -> CallRows] /\ \A c \in Calls : Sound(call[c])
  /\ LoginsKept

LEMMA IdleCallTyped == IdleCall \in CallRows /\ Sound(IdleCall)
<1>1. [i \in {} |-> NoId] \in [{} -> Logins]
  OBVIOUS
<1>2. [i \in {} |-> NoId] \in Answered
  BY <1>1 DEF Answered
<1> QED
  BY <1>2 DEF IdleCall, CallRows, Sound

LEMMA AnswerTyped ==
  ASSUME github \in [Ids -> Logins], NEW ids \in SUBSET Ids
  PROVE  [j \in ids |-> github[j]] \in Answered
<1>1. [j \in ids |-> github[j]] \in [ids -> Logins]
  OBVIOUS
<1> QED
  BY <1>1 DEF Answered

LEMMA SeenTyped ==
  ASSUME NEW row \in CallRows, NEW i \in DOMAIN row.seen
  PROVE  i \in Ids /\ row.seen[i] \in Logins
<1>1. row.seen \in Answered
  BY DEF CallRows
<1>2. PICK ids \in SUBSET Ids : row.seen \in [ids -> Logins]
  BY <1>1 DEF Answered
<1> QED
  BY <1>2

LEMMA DirectoryInitially == IdentitiesInit => DirectoryInv
<1> SUFFICES ASSUME IdentitiesInit PROVE DirectoryInv
  OBVIOUS
<1>1. github \in [Ids -> Logins] /\ Injective(github)
  BY DEF IdentitiesInit
<1>2. call = [c \in Calls |-> IdleCall] /\ login = [i \in Ids |-> "absent"] /\ faithful = {}
  BY DEF IdentitiesInit
<1> QED
  BY <1>1, <1>2, IdleCallTyped DEF DirectoryInv, LoginsKept

\* Call c goes on, and the rows are left alone.
LEMMA CallMoves ==
  ASSUME DirectoryInv, NEW c \in Calls, NEW row \in CallRows, Sound(row),
         call' = [call EXCEPT ![c] = row], UNCHANGED <<github, login, faithful>>
  PROVE  DirectoryInv'
<1>1. call' \in [Calls -> CallRows] /\ \A d \in Calls : Sound(call'[d])
  BY DEF DirectoryInv
<1> QED
  BY <1>1 DEF DirectoryInv, LoginsKept, Injective

\* Call c goes on, and the rows are changed.
LEMMA RowsMove ==
  ASSUME DirectoryInv, NEW c \in Calls, NEW row \in CallRows, Sound(row),
         call' = [call EXCEPT ![c] = row], UNCHANGED github,
         login' \in [Ids -> Logins \cup {"absent", "stale"}],
         faithful' \subseteq Ids, LoginsKept'
  PROVE  DirectoryInv'
<1>1. call' \in [Calls -> CallRows] /\ \A d \in Calls : Sound(call'[d])
  BY DEF DirectoryInv
<1> QED
  BY <1>1 DEF DirectoryInv, Injective

\* Where a call is may be set, and what it knows of users.
LEMMA PcSet ==
  ASSUME NEW row \in CallRows, Sound(row), row.pc # "idle", NEW known \in BOOLEAN,
         NEW pc \in {"upsert", "release", "ensure", "ensuring", "commit",
                     "refused", "failed", "aborted"}
  PROVE  /\ [row EXCEPT !.pc = pc] \in CallRows /\ Sound([row EXCEPT !.pc = pc])
         /\ [row EXCEPT !.pc = pc, !.known = known] \in CallRows
         /\ Sound([row EXCEPT !.pc = pc, !.known = known])
         /\ [row EXCEPT !.pc = pc, !.wrote = {}] \in CallRows
         /\ Sound([row EXCEPT !.pc = pc, !.wrote = {}])
BY DEF CallRows, Sound

\* A call ends.
LEMMA CallEnds ==
  ASSUME DirectoryInv, NEW c \in Calls, call' = [call EXCEPT ![c] = IdleCall],
         UNCHANGED <<github, login, faithful>>
  PROVE  DirectoryInv'
BY IdleCallTyped, CallMoves

LEMMA DirectoryStep == ASSUME DirectoryInv, IdentitiesNext PROVE DirectoryInv'
<1>1. ASSUME NEW c \in Calls, NEW i \in Ids, SignIn(c, i) PROVE DirectoryInv'
  <2> DEFINE row == [IdleCall EXCEPT !.pc = "upsert", !.kind = "signin", !.who = i,
                                     !.seen = [j \in {i} |-> github[j]]]
  <2>1. [j \in {i} |-> github[j]] \in Answered
    BY AnswerTyped DEF DirectoryInv
  <2>2. row \in CallRows /\ Sound(row)
    BY <2>1, IdleCallTyped DEF CallRows, IdleCall, Sound
  <2>3. call' = [call EXCEPT ![c] = row] /\ UNCHANGED <<github, login, faithful>>
    BY <1>1 DEF SignIn
  <2> QED
    BY <2>2, <2>3, CallMoves
<1>2. ASSUME NEW c \in Calls, NEW ids \in SUBSET Ids, NEW i \in Ids,
             NEW kind \in {"import", "preview"}, ImportFollows(c, ids, i, kind)
      PROVE  DirectoryInv'
  <2> DEFINE row == [IdleCall EXCEPT !.pc = "upsert", !.kind = kind, !.who = i,
                       !.todo = ids \ {i}, !.seen = [j \in ids |-> github[j]]]
  <2>1. [j \in ids |-> github[j]] \in Answered /\ i \in ids
    BY <1>2, AnswerTyped DEF DirectoryInv, ImportFollows
  <2>2. row \in CallRows /\ Sound(row)
    BY <2>1, IdleCallTyped DEF CallRows, IdleCall, Sound
  <2>3. call' = [call EXCEPT ![c] = row] /\ UNCHANGED <<github, login, faithful>>
    BY <1>2 DEF ImportFollows
  <2> QED
    BY <2>2, <2>3, CallMoves
<1>3. ASSUME NEW c \in Calls, CallSteps(c) PROVE DirectoryInv'
  <2>0. call[c] \in CallRows /\ Sound(call[c])
    BY DEF DirectoryInv
  <2>1. CASE Upsert(c)
    <3> DEFINE i == call[c].who  row == [call[c] EXCEPT !.pc = "ensure"]
    <3>1. i \in DOMAIN call[c].seen /\ row \in CallRows /\ Sound(row)
      BY <2>0, <2>1, PcSet DEF Upsert, Sound
    <3>2. i \in Ids /\ call[c].seen[i] \in Logins
      BY <2>0, <3>1, SeenTyped
    <3>3. call' = [call EXCEPT ![c] = row] /\ UNCHANGED github
      BY <2>1 DEF Upsert
    <3>4. login' = [login EXCEPT ![i] = call[c].seen[i]]
      BY <2>1 DEF Upsert, Wants
    <3>5. faithful' = (faithful \ {i}) \cup {j \in {i} : call[c].seen[j] = github[j]}
      BY <2>1 DEF Upsert, Refreshed
    <3>6. login' \in [Ids -> Logins \cup {"absent", "stale"}] /\ faithful' \subseteq Ids
      BY <3>2, <3>4, <3>5 DEF DirectoryInv
    <3>7. LoginsKept'
      BY <3>2, <3>3, <3>4, <3>5 DEF DirectoryInv, LoginsKept
    <3> QED
      BY <3>1, <3>3, <3>6, <3>7, RowsMove
  <2>2. CASE UpsertInTransaction(c)
    <3> DEFINE wrote == call[c].wrote \cup {call[c].who}
    <3>1. call[c].who \in DOMAIN call[c].seen /\ call[c].wrote \subseteq DOMAIN call[c].seen
      BY <2>0, <2>2 DEF UpsertInTransaction, Sound
    <3>2. wrote \subseteq DOMAIN call[c].seen /\ wrote \subseteq Ids
      BY <2>0, <3>1, SeenTyped
    <3>3. CASE call' = [call EXCEPT ![c].wrote = wrote, ![c].pc = "commit"]
      <4> DEFINE row == [call[c] EXCEPT !.wrote = wrote, !.pc = "commit"]
      <4>1. row \in CallRows /\ Sound(row)
        BY <2>0, <3>1, <3>2 DEF CallRows, Sound
      <4>2. call' = [call EXCEPT ![c] = row]
        BY <3>3
      <4> QED
        BY <2>2, <4>1, <4>2, CallMoves DEF UpsertInTransaction
    <3>4. ASSUME NEW i \in call[c].todo,
                 call' = [call EXCEPT ![c].wrote = wrote, ![c].who = i, ![c].todo = @ \ {i}]
          PROVE  DirectoryInv'
      <4> DEFINE row == [call[c] EXCEPT !.wrote = wrote, !.who = i, !.todo = @ \ {i}]
      <4>1. i \in DOMAIN call[c].seen /\ i \in Ids
        BY <2>0, SeenTyped DEF Sound
      <4>2. row \in CallRows /\ Sound(row)
        BY <2>0, <3>2, <4>1 DEF CallRows, Sound
      <4>3. call' = [call EXCEPT ![c] = row]
        BY <3>4
      <4> QED
        BY <2>2, <4>2, <4>3, CallMoves DEF UpsertInTransaction
    <3> QED
      BY <2>2, <3>3, <3>4 DEF UpsertInTransaction
  <2>3. CASE Collide(c)
    <3> DEFINE pc == IF InTransaction(c) THEN "refused" ELSE "release"
               row == [call[c] EXCEPT !.pc = pc, !.wrote = {}]
    <3>1. row \in CallRows /\ Sound(row)
      BY <2>0, <2>3, PcSet DEF Collide
    <3>2. call' = [call EXCEPT ![c] = row]
      BY <2>3 DEF Collide
    <3> QED
      BY <2>3, <3>1, <3>2, CallMoves DEF Collide
  <2>4. CASE Release(c)
    <3> DEFINE i == call[c].who  row == [call[c] EXCEPT !.pc = "upsert"]
               rows == {j \in Ids \ {i} : login[j] = call[c].seen[i]}
    <3>1. i \in DOMAIN call[c].seen /\ row \in CallRows /\ Sound(row)
      BY <2>0, <2>4, PcSet DEF Release, Sound
    <3>2. i \in Ids
      BY <2>0, <3>1, SeenTyped
    <3>3. call' = [call EXCEPT ![c] = row] /\ UNCHANGED github
      BY <2>4 DEF Release
    <3>4. login' = [j \in Ids |-> IF j \in rows THEN "stale" ELSE login[j]]
      BY <2>4 DEF Release, Wants, Holders
    <3>5. faithful' = IF call[c].seen[i] = github[i] THEN faithful ELSE faithful \ rows
      BY <2>4 DEF Release, Wants, Holders
    <3>6. login' \in [Ids -> Logins \cup {"absent", "stale"}] /\ faithful' \subseteq Ids
      BY <3>4, <3>5 DEF DirectoryInv
    <3>7. \A j \in faithful' : j \notin rows
      <4>1. CASE call[c].seen[i] = github[i]
        BY <3>2, <3>5, <4>1 DEF DirectoryInv, LoginsKept, Injective
      <4>2. CASE call[c].seen[i] # github[i]
        BY <3>5, <4>2
      <4> QED
        BY <4>1, <4>2
    <3>8. LoginsKept'
      BY <3>3, <3>4, <3>5, <3>7 DEF DirectoryInv, LoginsKept
    <3> QED
      BY <3>1, <3>3, <3>6, <3>8, RowsMove
  <2>5. CASE Ensure(c)
    <3> DEFINE known == call[c].who \in registered
               row == [call[c] EXCEPT !.pc = "ensuring", !.known = known]
    <3>1. known \in BOOLEAN /\ call[c].pc # "idle"
      BY <2>5 DEF Ensure
    <3>2. call' = [call EXCEPT ![c] = row]
      BY <2>5 DEF Ensure
    <3> HIDE DEF known
    <3>3. row \in CallRows /\ Sound(row)
      BY <2>0, <3>1, PcSet
    <3> QED
      BY <2>5, <3>2, <3>3, CallMoves DEF Ensure
  <2>6. CASE Ensured(c)
    <3> DEFINE row == [call[c] EXCEPT !.pc = "failed"]
    <3>1. row \in CallRows /\ Sound(row)
      BY <2>0, <2>6, PcSet DEF Ensured
    <3>2. \/ call' = [call EXCEPT ![c] = row]
          \/ call' = [call EXCEPT ![c] = IdleCall]
      BY <2>6 DEF Ensured
    <3> QED
      BY <2>6, <3>1, <3>2, CallMoves, CallEnds DEF Ensured
  <2>7. CASE Commit(c)
    <3> DEFINE wrote == call[c].wrote
    <3>1. CASE call[c].kind = "preview"
      BY <2>7, <3>1, CallEnds DEF Commit
    <3>2. CASE call[c].kind # "preview"
      <4>1. login' = [i \in Ids |-> IF i \in wrote THEN call[c].seen[i] ELSE login[i]]
        BY <2>7, <3>2 DEF Commit
      <4>2. faithful' = (faithful \ wrote) \cup {i \in wrote : call[c].seen[i] = github[i]}
        BY <2>7, <3>2 DEF Commit, Refreshed
      <4>3. \A i \in wrote : i \in Ids /\ call[c].seen[i] \in Logins
        BY <2>0, SeenTyped DEF Sound
      <4>4. login' \in [Ids -> Logins \cup {"absent", "stale"}] /\ faithful' \subseteq Ids
        BY <4>1, <4>2, <4>3 DEF DirectoryInv
      <4>5. LoginsKept'
        BY <2>7, <4>1, <4>2, <4>3 DEF Commit, DirectoryInv, LoginsKept
      <4> QED
        BY <2>7, <4>4, <4>5, IdleCallTyped, RowsMove DEF Commit
    <3> QED
      BY <3>1, <3>2
  <2>8. CASE AbortDeadlock(c)
    <3> DEFINE row == [call[c] EXCEPT !.pc = "aborted", !.wrote = {}]
    <3>1. call[c].pc # "idle"
      BY <2>8 DEF AbortDeadlock, Blockers
    <3>2. row \in CallRows /\ Sound(row)
      BY <2>0, <3>1, PcSet
    <3>3. call' = [call EXCEPT ![c] = row]
      BY <2>8 DEF AbortDeadlock
    <3> QED
      BY <2>8, <3>2, <3>3, CallMoves DEF AbortDeadlock
  <2>9. CASE AnswerError(c)
    BY <2>9, CallEnds DEF AnswerError
  <2> QED
    BY <1>3, <2>1, <2>2, <2>3, <2>4, <2>5, <2>6, <2>7, <2>8, <2>9 DEF CallSteps
<1>4. ASSUME NEW i \in Ids, NEW l \in Logins, Rename(i, l) PROVE DirectoryInv'
  <2>1. github' = [github EXCEPT ![i] = l] /\ \A j \in Ids : github[j] # l
    BY <1>4 DEF Rename
  <2>2. github' \in [Ids -> Logins] /\ Injective(github')
    BY <2>1 DEF DirectoryInv, Injective
  <2>3. LoginsKept'
    BY <1>4, <2>1 DEF Rename, DirectoryInv, LoginsKept
  <2> QED
    BY <1>4, <2>2, <2>3 DEF Rename, DirectoryInv
<1> QED
  BY <1>1, <1>2, <1>3, <1>4 DEF IdentitiesNext

\* A login recorded on GitHub's present word stays with its account, whatever
\* sign-ins and imports collide meanwhile (UpsertIdentity, ImportFollows).
THEOREM LoginsKeptHolds == IdentitiesSpec => []LoginsKept
<1>1. DirectoryInv /\ UNCHANGED idVars => DirectoryInv'
  BY DEF DirectoryInv, idVars, LoginsKept, Injective
<1>2. DirectoryInv => LoginsKept
  BY DEF DirectoryInv
<1> QED
  BY DirectoryInitially, DirectoryStep, <1>1, <1>2, PTL DEF IdentitiesSpec

-----------------------------------------------------------------------------
(* The unique index on the login *)

\* What keeps a login with one row: of the rows an open import has written none is
\* another's, and no login it gives is another row's; a sign-in writes nothing ahead.
IndexInv ==
  /\ \A i, j \in Ids : login[i] = login[j] /\ login[i] \in Logins => i = j
  /\ \A c \in Calls : ~InTransaction(c) => call[c].wrote = {}
  /\ \A c \in Calls : Injective(call[c].seen)
  /\ \A c \in Calls : \A i \in call[c].wrote, j \in Ids \ call[c].wrote :
       login[j] # call[c].seen[i]
  /\ \A c, d \in Calls : c # d =>
       \A i \in call[c].wrote, j \in call[d].wrote :
         i # j /\ call[c].seen[i] # call[d].seen[j]

LEMMA IndexInitially == IdentitiesInit => IndexInv
<1> SUFFICES ASSUME IdentitiesInit PROVE IndexInv
  OBVIOUS
<1>1. \A i \in Ids : login[i] \notin Logins
  BY IdentitiesAssumption DEF IdentitiesInit, IdentitiesAssumption
<1>2. \A c \in Calls : call[c].wrote = {} /\ Injective(call[c].seen)
  BY DEF IdentitiesInit, IdleCall, Injective
<1> QED
  BY <1>1, <1>2 DEF IndexInv

\* Call c goes on, and what it has written stays or is given up.
LEMMA ClaimsRest ==
  ASSUME DirectoryInv, IndexInv, NEW c \in Calls, NEW row,
         call' = [call EXCEPT ![c] = row], UNCHANGED login, Injective(row.seen),
         \/ row.wrote = {}
         \/ /\ row.wrote = call[c].wrote /\ row.seen = call[c].seen
            /\ row.kind = call[c].kind
  PROVE  IndexInv'
<1>1. call'[c] = row /\ \A d \in Calls \ {c} : call'[d] = call[d]
  BY DEF DirectoryInv
<1>2. \A d \in Calls : /\ ~InTransaction(d)' => call'[d].wrote = {}
                       /\ Injective(call[d].seen)'
  BY <1>1 DEF IndexInv, InTransaction, Injective
<1>3. \A d \in Calls : \/ call'[d].wrote = {}
                       \/ call'[d].wrote = call[d].wrote /\ call'[d].seen = call[d].seen
  BY <1>1
<1> QED
  BY <1>2, <1>3 DEF IndexInv

\* What an upsert that nothing blocks may count on.
LEMMA Unblocked ==
  ASSUME DirectoryInv, IndexInv, NEW c \in Calls, call[c].pc = "upsert",
         Blockers(c) = {}, ~Taken(c)
  PROVE  /\ call[c].who \in DOMAIN call[c].seen /\ call[c].who \in Ids
         /\ \A d \in Calls \ {c} :
              call[c].who \notin call[d].wrote
              /\ \A j \in call[d].wrote : Wants(c) # call[d].seen[j]
         /\ \A j \in Ids \ call[c].wrote : j # call[c].who => login[j] # Wants(c)
<1>0. call[c] \in CallRows /\ Sound(call[c])
  BY DEF DirectoryInv
<1>1. call[c].who \in DOMAIN call[c].seen
  BY <1>0 DEF Sound
<1>2. call[c].who \in Ids
  BY <1>0, <1>1, SeenTyped
<1>3. UpsertBlockers(c) = {}
  BY DEF Blockers
<1>4. ASSUME NEW d \in Calls \ {c}
      PROVE  call[c].who \notin call[d].wrote
  BY <1>3 DEF UpsertBlockers, Held, Others
<1>5. ASSUME NEW d \in Calls \ {c}, NEW j \in call[d].wrote
      PROVE  Wants(c) # call[d].seen[j]
  BY <1>3, <1>4 DEF UpsertBlockers, IndexBlockers, Others
<1>6. \A j \in Ids \ call[c].wrote : j # call[c].who => login[j] # Wants(c)
  BY DEF Taken, Holders
<1> QED
  BY <1>1, <1>2, <1>4, <1>5, <1>6

LEMMA IndexByUpsert ==
  ASSUME DirectoryInv, IndexInv, NEW c \in Calls, Upsert(c) PROVE IndexInv'
<1> DEFINE i == call[c].who  l == Wants(c)  row == [call[c] EXCEPT !.pc = "ensure"]
<1>1. /\ i \in Ids /\ call[c].wrote = {}
      /\ \A d \in Calls \ {c} : i \notin call[d].wrote
           /\ \A j \in call[d].wrote : l # call[d].seen[j]
      /\ \A j \in Ids : j # i => login[j] # l
  BY Unblocked DEF Upsert, IndexInv
<1>2. call' = [call EXCEPT ![c] = row] /\ login' = [login EXCEPT ![i] = l]
  BY DEF Upsert
<1>3. /\ row.wrote = {} /\ row.seen = call[c].seen /\ row.kind = call[c].kind
  BY <1>1 DEF DirectoryInv, CallRows
<1>4. call'[c] = row /\ \A d \in Calls \ {c} : call'[d] = call[d]
  BY <1>2 DEF DirectoryInv
<1>5. login'[i] = l /\ \A j \in Ids : j # i => login'[j] = login[j]
  BY <1>1, <1>2 DEF DirectoryInv
<1> HIDE DEF i, l, row
<1>6. \A j, k \in Ids : login'[j] = login'[k] /\ login'[j] \in Logins => j = k
  BY <1>1, <1>5 DEF IndexInv
<1>7. \A d \in Calls : /\ ~InTransaction(d)' => call'[d].wrote = {}
                       /\ Injective(call[d].seen)'
  BY <1>1, <1>3, <1>4 DEF IndexInv, InTransaction, Injective
<1>8. \A d \in Calls : call'[d].wrote = call[d].wrote /\ call'[d].seen = call[d].seen
  BY <1>1, <1>3, <1>4
<1>9. ASSUME NEW d \in Calls, NEW k \in call[d].wrote, NEW j \in Ids \ call[d].wrote
      PROVE  login'[j] # call[d].seen[k]
  <2>1. d # c
    BY <1>1, <1>9
  <2>2. login[j] # call[d].seen[k]
    BY <1>9 DEF IndexInv
  <2> QED
    BY <1>1, <1>5, <2>1, <2>2
<1> QED
  BY <1>6, <1>7, <1>8, <1>9 DEF IndexInv

\* The transaction has written the row of i as well.
LEMMA IndexByWrite ==
  ASSUME DirectoryInv, IndexInv, NEW c \in Calls, UpsertInTransaction(c) PROVE IndexInv'
<1> DEFINE i == call[c].who  wrote == call[c].wrote \cup {i}
<1>1. /\ i \in DOMAIN call[c].seen /\ call[c].wrote \subseteq DOMAIN call[c].seen
      /\ \A d \in Calls \ {c} : i \notin call[d].wrote
           /\ \A j \in call[d].wrote : call[c].seen[i] # call[d].seen[j]
      /\ \A j \in Ids \ call[c].wrote : j # i => login[j] # call[c].seen[i]
  BY Unblocked DEF UpsertInTransaction, Wants, DirectoryInv, Sound
<1>2. /\ call'[c].wrote = wrote /\ call'[c].seen = call[c].seen
      /\ call'[c].kind = call[c].kind
      /\ \A d \in Calls \ {c} : call'[d] = call[d]
  <2>0. call \in [Calls -> CallRows] /\ call[c] \in CallRows
    BY DEF DirectoryInv
  <2> HIDE DEF wrote
  <2>1. CASE call' = [call EXCEPT ![c].wrote = wrote, ![c].pc = "commit"]
    BY <2>0, <2>1 DEF CallRows
  <2>2. ASSUME NEW k \in call[c].todo,
               call' = [call EXCEPT ![c].wrote = wrote, ![c].who = k, ![c].todo = @ \ {k}]
        PROVE  /\ call'[c].wrote = wrote /\ call'[c].seen = call[c].seen
               /\ call'[c].kind = call[c].kind
               /\ \A d \in Calls \ {c} : call'[d] = call[d]
    BY <2>0, <2>2 DEF CallRows
  <2> QED
    BY <2>1, <2>2 DEF UpsertInTransaction, wrote
<1>3. login' = login /\ InTransaction(c)
  BY DEF UpsertInTransaction
<1> HIDE DEF i
<1>4. \A d \in Calls : /\ ~InTransaction(d)' => call'[d].wrote = {}
                       /\ Injective(call[d].seen)'
  BY <1>2, <1>3 DEF IndexInv, InTransaction, Injective
<1>5. ASSUME NEW d \in Calls, NEW k \in call'[d].wrote, NEW j \in Ids \ call'[d].wrote
      PROVE  login'[j] # call'[d].seen[k]
  <2>1. CASE d = c
    BY <1>1, <1>2, <1>3, <1>5, <2>1 DEF IndexInv
  <2>2. CASE d # c
    BY <1>2, <1>3, <1>5, <2>2 DEF IndexInv
  <2> QED
    BY <2>1, <2>2
<1>6. ASSUME NEW d \in Calls, d # c, NEW k \in wrote, NEW j \in call[d].wrote
      PROVE  k # j /\ call[c].seen[k] # call[d].seen[j]
  BY <1>1, <1>6 DEF IndexInv
<1>7. ASSUME NEW d \in Calls, NEW e \in Calls, d # e,
             NEW k \in call'[d].wrote, NEW j \in call'[e].wrote
      PROVE  k # j /\ call'[d].seen[k] # call'[e].seen[j]
  <2>1. CASE d # c /\ e # c
    BY <1>2, <1>7, <2>1 DEF IndexInv
  <2>2. CASE d = c
    BY <1>2, <1>6, <1>7, <2>2
  <2>3. CASE e = c
    BY <1>2, <1>6, <1>7, <2>3
  <2> QED
    BY <2>1, <2>2, <2>3
<1> QED
  BY <1>3, <1>4, <1>5, <1>7 DEF IndexInv

LEMMA IndexByRelease ==
  ASSUME DirectoryInv, IndexInv, NEW c \in Calls, Release(c) PROVE IndexInv'
<1>1. \A j \in Ids : login'[j] \in {login[j], "stale"}
  BY DEF Release
<1>2. /\ call'[c].wrote = call[c].wrote /\ call'[c].seen = call[c].seen
      /\ call'[c].kind = call[c].kind
      /\ \A d \in Calls \ {c} : call'[d] = call[d]
  BY DEF Release, DirectoryInv, CallRows
<1>3. "stale" \notin Logins
  BY IdentitiesAssumption DEF IdentitiesAssumption
<1>4. \A j, k \in Ids : login'[j] = login'[k] /\ login'[j] \in Logins => j = k
  BY <1>1, <1>3 DEF IndexInv
<1>5. \A d \in Calls : call'[d].wrote = call[d].wrote /\ call'[d].seen = call[d].seen
  BY <1>2
<1>6. \A d \in Calls : /\ ~InTransaction(d)' => call'[d].wrote = {}
                       /\ Injective(call[d].seen)'
  BY <1>2 DEF IndexInv, InTransaction, Injective
<1>7. ASSUME NEW d \in Calls, NEW k \in call[d].wrote, NEW j \in Ids \ call[d].wrote
      PROVE  login'[j] # call[d].seen[k]
  <2>1. call[d].seen[k] \in Logins
    BY <1>7, SeenTyped DEF DirectoryInv, Sound
  <2>2. login[j] # call[d].seen[k]
    BY <1>7 DEF IndexInv
  <2> QED
    BY <1>1, <1>3, <2>1, <2>2
<1> QED
  BY <1>4, <1>5, <1>6, <1>7 DEF IndexInv

LEMMA IndexByCommit ==
  ASSUME DirectoryInv, IndexInv, NEW c \in Calls, Commit(c), call[c].kind # "preview"
  PROVE  IndexInv'
<1> DEFINE wrote == call[c].wrote
<1>1. login' = [i \in Ids |-> IF i \in wrote THEN call[c].seen[i] ELSE login[i]]
  BY DEF Commit
<1>2. call'[c] = IdleCall /\ \A d \in Calls \ {c} : call'[d] = call[d]
  BY DEF Commit, DirectoryInv
<1>3. IdleCall.wrote = {} /\ Injective(IdleCall.seen)
  BY DEF IdleCall, Injective
<1>4. wrote \subseteq DOMAIN call[c].seen /\ Injective(call[c].seen)
  BY DEF DirectoryInv, Sound, IndexInv
<1>5. \A j, k \in Ids : login'[j] = login'[k] /\ login'[j] \in Logins => j = k
  <2> SUFFICES ASSUME NEW j \in Ids, NEW k \in Ids, login'[j] = login'[k],
                      login'[j] \in Logins
               PROVE  j = k
    OBVIOUS
  <2>1. CASE j \in wrote /\ k \in wrote
    BY <1>1, <1>4, <2>1 DEF Injective
  <2>2. CASE j \notin wrote /\ k \notin wrote
    BY <1>1, <2>2 DEF IndexInv
  <2>3. CASE j \in wrote /\ k \notin wrote
    BY <1>1, <2>3 DEF IndexInv
  <2>4. CASE j \notin wrote /\ k \in wrote
    BY <1>1, <2>4 DEF IndexInv
  <2> QED
    BY <2>1, <2>2, <2>3, <2>4
<1>6. \A d \in Calls : /\ ~InTransaction(d)' => call'[d].wrote = {}
                       /\ Injective(call[d].seen)'
  BY <1>2, <1>3 DEF IndexInv, InTransaction, Injective
<1>7. ASSUME NEW d \in Calls \ {c}, NEW k \in call[d].wrote, NEW j \in Ids \ call[d].wrote
      PROVE  login'[j] # call[d].seen[k]
  BY <1>1, <1>7 DEF IndexInv
<1>8. \A d \in Calls : \/ d # c /\ call'[d] = call[d]
                       \/ call'[d].wrote = {}
  BY <1>2, <1>3
<1> QED
  BY <1>5, <1>6, <1>7, <1>8 DEF IndexInv

LEMMA IndexStep == ASSUME DirectoryInv, IndexInv, IdentitiesNext PROVE IndexInv'
<1>0. Injective(IdleCall.seen) /\ IdleCall.wrote = {}
  BY DEF IdleCall, Injective
<1>1. ASSUME NEW c \in Calls, NEW i \in Ids, SignIn(c, i) PROVE IndexInv'
  <2> DEFINE row == [IdleCall EXCEPT !.pc = "upsert", !.kind = "signin", !.who = i,
                                     !.seen = [j \in {i} |-> github[j]]]
  <2>1. row.wrote = {} /\ row.seen = [j \in {i} |-> github[j]]
    BY DEF IdleCall
  <2>2. Injective(row.seen)
    BY <2>1 DEF Injective
  <2>3. call' = [call EXCEPT ![c] = row] /\ UNCHANGED login
    BY <1>1 DEF SignIn
  <2> QED
    BY <2>1, <2>2, <2>3, ClaimsRest
<1>2. ASSUME NEW c \in Calls, NEW ids \in SUBSET Ids, NEW i \in Ids,
             NEW kind \in {"import", "preview"}, ImportFollows(c, ids, i, kind)
      PROVE  IndexInv'
  <2> DEFINE row == [IdleCall EXCEPT !.pc = "upsert", !.kind = kind, !.who = i,
                       !.todo = ids \ {i}, !.seen = [j \in ids |-> github[j]]]
  <2>1. row.wrote = {} /\ row.seen = [j \in ids |-> github[j]]
    BY DEF IdleCall
  <2>2. Injective(row.seen)
    BY <2>1 DEF DirectoryInv, Injective
  <2>3. call' = [call EXCEPT ![c] = row] /\ UNCHANGED login
    BY <1>2 DEF ImportFollows
  <2> QED
    BY <2>1, <2>2, <2>3, ClaimsRest
<1>3. ASSUME NEW c \in Calls, CallSteps(c) PROVE IndexInv'
  <2>0. call[c] \in CallRows /\ Injective(call[c].seen)
    BY DEF DirectoryInv, IndexInv
  <2>1. CASE Upsert(c)
    BY <2>1, IndexByUpsert
  <2>2. CASE UpsertInTransaction(c)
    BY <2>2, IndexByWrite
  <2>3. CASE Collide(c)
    <3> DEFINE row == [call[c] EXCEPT
                         !.pc = IF InTransaction(c) THEN "refused" ELSE "release",
                         !.wrote = {}]
    <3>1. row.wrote = {} /\ row.seen = call[c].seen
      BY <2>0 DEF CallRows
    <3>2. call' = [call EXCEPT ![c] = row] /\ UNCHANGED login
      BY <2>3 DEF Collide
    <3> QED
      BY <2>0, <3>1, <3>2, ClaimsRest
  <2>4. CASE Release(c)
    BY <2>4, IndexByRelease
  <2>5. CASE Ensure(c)
    <3> DEFINE row == [call[c] EXCEPT !.pc = "ensuring",
                                      !.known = call[c].who \in registered]
    <3>1. row.wrote = call[c].wrote /\ row.seen = call[c].seen /\ row.kind = call[c].kind
      BY <2>0 DEF CallRows
    <3>2. call' = [call EXCEPT ![c] = row] /\ UNCHANGED login
      BY <2>5 DEF Ensure
    <3> QED
      BY <2>0, <3>1, <3>2, ClaimsRest
  <2>6. CASE Ensured(c)
    <3> DEFINE row == [call[c] EXCEPT !.pc = "failed"]
    <3>1. row.wrote = call[c].wrote /\ row.seen = call[c].seen /\ row.kind = call[c].kind
      BY <2>0 DEF CallRows
    <3>2. UNCHANGED login /\ \/ call' = [call EXCEPT ![c] = row]
                             \/ call' = [call EXCEPT ![c] = IdleCall]
      BY <2>6 DEF Ensured
    <3> QED
      BY <1>0, <2>0, <3>1, <3>2, ClaimsRest
  <2>7. CASE Commit(c)
    <3>1. CASE call[c].kind = "preview"
      BY <1>0, <2>7, <3>1, ClaimsRest DEF Commit
    <3> QED
      BY <2>7, <3>1, IndexByCommit
  <2>8. CASE AbortDeadlock(c)
    <3> DEFINE row == [call[c] EXCEPT !.pc = "aborted", !.wrote = {}]
    <3>1. row.wrote = {} /\ row.seen = call[c].seen
      BY <2>0 DEF CallRows
    <3>2. call' = [call EXCEPT ![c] = row] /\ UNCHANGED login
      BY <2>8 DEF AbortDeadlock
    <3> QED
      BY <2>0, <3>1, <3>2, ClaimsRest
  <2>9. CASE AnswerError(c)
    BY <1>0, <2>9, ClaimsRest DEF AnswerError
  <2> QED
    BY <1>3, <2>1, <2>2, <2>3, <2>4, <2>5, <2>6, <2>7, <2>8, <2>9 DEF CallSteps
<1>4. ASSUME NEW i \in Ids, NEW l \in Logins, Rename(i, l) PROVE IndexInv'
  BY <1>4 DEF Rename, IndexInv, InTransaction, Injective
<1> QED
  BY <1>1, <1>2, <1>3, <1>4 DEF IdentitiesNext

\* The rest of the types.
LEMMA CountersTyped ==
  ASSUME DirectoryInv, IdentitiesNext, registered \subseteq Ids,
         calls \in 0..MaxCalls, renames \in 0..MaxRenames
  PROVE  registered' \subseteq Ids /\ calls' \in 0..MaxCalls /\ renames' \in 0..MaxRenames
<1>1. MaxCalls \in Nat /\ MaxRenames \in Nat
  BY IdentitiesAssumption DEF IdentitiesAssumption
<1>2. ASSUME NEW c \in Calls, Ensured(c) PROVE call[c].who \in Ids
  BY <1>2, SeenTyped DEF DirectoryInv, Sound, Ensured
<1>3. /\ calls' = calls \/ (calls < MaxCalls /\ calls' = calls + 1)
      /\ renames' = renames \/ (renames < MaxRenames /\ renames' = renames + 1)
      /\ registered' = registered \/ \E c \in Calls :
           Ensured(c) /\ registered' = registered \cup {call[c].who}
  BY DEF IdentitiesNext, CallSteps, SignIn, ImportFollows, Upsert, UpsertInTransaction,
         Collide, Release, Ensure, Ensured, Commit, AbortDeadlock, AnswerError, Rename
<1> QED
  BY <1>1, <1>2, <1>3

\* A login is one row's, whatever sign-ins and imports interleave: the waits on the
\* index make each import see what the others have taken (UpsertIdentity, UpsertIdentityTx).
THEOREM IdentitiesTyped == IdentitiesSpec => []IdentitiesTypeOK
<1> DEFINE Inv == /\ DirectoryInv /\ IndexInv /\ registered \subseteq Ids
                  /\ calls \in 0..MaxCalls /\ renames \in 0..MaxRenames
<1>1. IdentitiesInit => Inv
  BY DirectoryInitially, IndexInitially, IdentitiesAssumption
     DEF IdentitiesInit, IdentitiesAssumption
<1>2. Inv /\ IdentitiesNext => Inv'
  BY DirectoryStep, IndexStep, CountersTyped
<1>3. Inv /\ UNCHANGED idVars => Inv'
  BY DEF DirectoryInv, IndexInv, idVars, LoginsKept, Injective, InTransaction
<1>4. Inv => IdentitiesTypeOK
  BY DEF DirectoryInv, IndexInv, IdentitiesTypeOK, CallRows
<1> QED
  BY <1>1, <1>2, <1>3, <1>4, PTL DEF IdentitiesSpec

-----------------------------------------------------------------------------
(* Executions of the worker *)

States == {"none", "queued", "leased", "succeeded", "failed"}

JobRows == [state: States, attempts: 0..(MaxAttempts + 1),
            delay: 0..Backoff(MaxAttempts), lease: -1..MediaLease]

ExecRows == [pc: {"off", "starting", "cleaning", "claiming", "working"},
             age: 0..TaskTimeout, done: 0..MaxJobs, upload: Uploads \cup {NoUpload},
             worked: 0..MaxProcessing, cancelled: BOOLEAN]

\* The lease of the job at work was taken when the work began, and no execution
\* is older than its task may be: so the lease runs.
Covered(e) ==
  exec[e].pc = "working" =>
    /\ exec[e].upload \in Uploads /\ job[exec[e].upload].state = "leased"
    /\ job[exec[e].upload].lease + exec[e].worked >= MediaLease
    /\ exec[e].worked <= exec[e].age

RunsInv ==
  /\ job \in [Uploads -> JobRows] /\ exec \in [Execs -> ExecRows]
  /\ \A e \in Execs : Covered(e)
  /\ OneHolder

LEMMA Bounds ==
  /\ MediaLease \in Nat /\ TaskTimeout \in Nat /\ TaskTimeout <= MediaLease
  /\ MaxProcessing \in Nat /\ MaxJobs \in Nat /\ MaxAttempts \in Nat
  /\ Backoff(MaxAttempts) \in Nat /\ NoUpload \notin Uploads
<1>1. MaxAttempts \in 0..MaxAttempts
  BY WorkerRunsAssumption DEF WorkerRunsAssumption
<1>2. Backoff(MaxAttempts) \in 0..Backoff(MaxAttempts)
  BY <1>1, WorkerRunsAssumption DEF WorkerRunsAssumption
<1> QED
  BY <1>2, WorkerRunsAssumption DEF WorkerRunsAssumption

LEMMA Values ==
  /\ 0 \in -1..MediaLease /\ MediaLease \in -1..MediaLease
  /\ 0 \in 0..Backoff(MaxAttempts) /\ 0 \in 0..MaxProcessing /\ 0 \in 0..MaxJobs
  /\ 0 \in 0..TaskTimeout /\ 0 \in 0..(MaxAttempts + 1)
BY Bounds

\* A part of a row may be set.
LEMMA JobRowSet ==
  ASSUME NEW row \in JobRows, NEW state \in States, NEW lease \in -1..MediaLease,
         NEW delay \in 0..Backoff(MaxAttempts), NEW attempts \in 0..(MaxAttempts + 1)
  PROVE  /\ [row EXCEPT !.state = state, !.lease = lease] \in JobRows
         /\ [row EXCEPT !.state = state, !.lease = lease, !.delay = delay] \in JobRows
         /\ [row EXCEPT !.state = state, !.lease = lease, !.attempts = attempts] \in JobRows
         /\ [row EXCEPT !.delay = delay, !.lease = lease] \in JobRows
BY DEF JobRows

LEMMA ExecRowSet ==
  ASSUME NEW row \in ExecRows, NEW upload \in Uploads \cup {NoUpload},
         NEW pc \in {"off", "starting", "cleaning", "claiming", "working"},
         NEW worked \in 0..MaxProcessing, NEW done \in 0..MaxJobs,
         NEW age \in 0..TaskTimeout
  PROVE  /\ [row EXCEPT !.pc = pc, !.upload = upload, !.worked = worked] \in ExecRows
         /\ [row EXCEPT !.pc = pc, !.upload = upload, !.worked = worked, !.done = done]
              \in ExecRows
         /\ [row EXCEPT !.age = age, !.worked = worked] \in ExecRows
         /\ [row EXCEPT !.pc = pc] \in ExecRows
BY DEF ExecRows

LEMMA IdleExecTyped == IdleExec \in ExecRows /\ IdleExec.pc = "off"
BY Values DEF IdleExec, ExecRows

LEMMA RunsInitially == WorkerRunsInit => RunsInv
<1> SUFFICES ASSUME WorkerRunsInit PROVE RunsInv
  OBVIOUS
<1>1. [state |-> "none", attempts |-> 0, delay |-> 0, lease |-> 0] \in JobRows
  BY Values DEF JobRows, States
<1>2. job \in [Uploads -> JobRows] /\ exec \in [Execs -> ExecRows]
  BY <1>1, IdleExecTyped DEF WorkerRunsInit
<1>3. \A e \in Execs : exec[e].pc = "off"
  BY IdleExecTyped DEF WorkerRunsInit
<1> QED
  BY <1>2, <1>3 DEF RunsInv, Covered, OneHolder

\* While a job is worked on its lease does not expire.
LEMMA Unexpired ==
  ASSUME RunsInv, NEW e \in Execs, exec[e].pc = "working"
  PROVE  /\ exec[e].upload \in Uploads /\ ~LeaseExpired(exec[e].upload)
         /\ job[exec[e].upload].state = "leased" /\ job[exec[e].upload].lease >= 0
<1>1. exec[e].worked \in Nat /\ exec[e].worked <= TaskTimeout
  BY Bounds DEF RunsInv, ExecRows, Covered
<1>2. exec[e].upload \in Uploads /\ job[exec[e].upload].lease \in Int
      /\ job[exec[e].upload].state = "leased"
      /\ job[exec[e].upload].lease + exec[e].worked >= MediaLease
  BY Bounds DEF RunsInv, JobRows, Covered
<1> QED
  BY <1>1, <1>2, Bounds DEF LeaseExpired

\* Execution e stops working or goes on without; what the others work on is
\* left alone.
LEMMA ExecMoves ==
  ASSUME RunsInv, NEW e \in Execs, NEW row \in ExecRows, row.pc # "working",
         exec' = [exec EXCEPT ![e] = row], job' \in [Uploads -> JobRows],
         \A d \in Execs \ {e} :
           exec[d].pc = "working" => job'[exec[d].upload] = job[exec[d].upload]
  PROVE  RunsInv'
<1>1. exec' \in [Execs -> ExecRows] /\ exec'[e].pc # "working"
      /\ \A d \in Execs \ {e} : exec'[d] = exec[d]
  BY DEF RunsInv
<1>2. \A d \in Execs : Covered(d)'
  BY <1>1 DEF RunsInv, Covered
<1>3. OneHolder'
  BY <1>1 DEF RunsInv, OneHolder
<1> QED
  BY <1>1, <1>2, <1>3 DEF RunsInv

\* An execution that leaves its attempt settles its own job or none.
LEMMA AttemptEnds ==
  ASSUME RunsInv, NEW e \in Execs, exec[e].pc = "working", exec' = BackToLoop(e),
         NEW row \in JobRows, job' = [job EXCEPT ![exec[e].upload] = row]
  PROVE  RunsInv'
<1> DEFINE after == [exec[e] EXCEPT !.pc = "claiming", !.upload = NoUpload, !.worked = 0]
<1>1. exec[e] \in ExecRows
  BY DEF RunsInv
<1>1a. after \in ExecRows /\ after.pc # "working"
  <2>1. after \in ExecRows
    BY <1>1, Values, ExecRowSet
  <2>2. after.pc = "claiming"
    BY <1>1 DEF ExecRows
  <2> QED
    BY <2>1, <2>2
<1>2. exec' = [exec EXCEPT ![e] = after]
  BY DEF BackToLoop
<1>3. job' \in [Uploads -> JobRows]
  BY DEF RunsInv
<1>4. \A d \in Execs \ {e} : exec[d].pc = "working" => exec[d].upload # exec[e].upload
  BY DEF RunsInv, OneHolder
<1>5. \A d \in Execs \ {e} :
        exec[d].pc = "working" => job'[exec[d].upload] = job[exec[d].upload]
  BY <1>4, Unexpired DEF RunsInv
<1> QED
  BY <1>1a, <1>2, <1>3, <1>5, ExecMoves

\* Execution e goes on and the jobs are left alone.
LEMMA Onward ==
  ASSUME RunsInv, NEW e \in Execs, NEW row \in ExecRows, row.pc # "working",
         exec' = [exec EXCEPT ![e] = row], UNCHANGED job
  PROVE  RunsInv'
BY ExecMoves DEF RunsInv

LEMMA Claimed == ASSUME RunsInv, NEW e \in Execs, Claim(e) PROVE RunsInv'
<1> PICK u \in Uploads :
      /\ Claimable(u) /\ job' = [job EXCEPT ![u] = Leased(@)]
      /\ exec' = [exec EXCEPT ![e].pc = "working", ![e].upload = u,
                              ![e].worked = 0, ![e].done = @ + 1]
  BY DEF Claim
<1> DEFINE row == [exec[e] EXCEPT !.pc = "working", !.upload = u,
                                  !.worked = 0, !.done = @ + 1]
<1>1. exec[e] \in ExecRows /\ job[u] \in JobRows
  BY DEF RunsInv
<1>2. exec[e].done + 1 \in 0..MaxJobs
  BY <1>1, Bounds DEF Claim, MayClaim, ExecRows
<1>3. row \in ExecRows /\ exec' = [exec EXCEPT ![e] = row]
  BY <1>1, <1>2, Values, ExecRowSet
<1>4. exec' \in [Execs -> ExecRows] /\ exec'[e] = row
      /\ \A d \in Execs \ {e} : exec'[d] = exec[d]
  BY <1>3 DEF RunsInv
<1>5. Leased(job[u]) \in JobRows /\ Leased(job[u]).state = "leased"
      /\ Leased(job[u]).lease = MediaLease
  <2> DEFINE n == IF job[u].attempts > MaxAttempts THEN job[u].attempts
                  ELSE job[u].attempts + 1
  <2>1. n \in 0..(MaxAttempts + 1)
    BY <1>1, Bounds DEF JobRows
  <2>2. Leased(job[u]) = [job[u] EXCEPT !.state = "leased", !.lease = MediaLease,
                                        !.attempts = n]
    BY DEF Leased
  <2>3. "leased" \in States
    BY DEF States
  <2>4. [job[u] EXCEPT !.state = "leased", !.lease = MediaLease, !.attempts = n] \in JobRows
    BY <1>1, <2>1, <2>3, Values, JobRowSet
  <2> QED
    BY <1>1, <2>2, <2>4 DEF JobRows
<1>6. job' \in [Uploads -> JobRows] /\ job'[u] = Leased(job[u])
      /\ \A v \in Uploads \ {u} : job'[v] = job[v]
  BY <1>5 DEF RunsInv
<1>7. \A d \in Execs : exec[d].pc = "working" => exec[d].upload \in Uploads \ {u}
  BY Unexpired DEF Claimable
<1>8. Covered(e)'
  <2>1. exec'[e].upload = u /\ exec'[e].worked = 0 /\ exec'[e].age \in Nat
    BY <1>1, <1>4, Bounds DEF ExecRows
  <2> QED
    BY <1>5, <1>6, <2>1, Bounds DEF Covered
<1>9. \A d \in Execs \ {e} : Covered(d)'
  BY <1>4, <1>6, <1>7 DEF RunsInv, Covered
<1>10. OneHolder'
  <2>1. exec'[e].upload = u
    BY <1>1, <1>4 DEF ExecRows
  <2> QED
    BY <1>4, <1>7, <2>1 DEF RunsInv, OneHolder
<1> QED
  BY <1>4, <1>6, <1>8, <1>9, <1>10 DEF RunsInv

LEMMA TimeKeepsRuns == ASSUME RunsInv, Tick PROVE RunsInv'
<1> DEFINE older(e) == [exec[e] EXCEPT !.age = @ + 1,
                          !.worked = IF exec[e].pc = "working" THEN @ + 1 ELSE @]
           ticked(u) == [job[u] EXCEPT !.delay = IF @ = 0 THEN 0 ELSE @ - 1,
                          !.lease = IF job[u].state = "leased" /\ @ >= 0 THEN @ - 1 ELSE @]
<1>1. job' = [u \in Uploads |-> ticked(u)]
  BY DEF Tick
<1>2. exec' = [e \in Execs |->
                 IF exec[e].pc \in {"off", "starting"} THEN exec[e] ELSE older(e)]
  BY DEF Tick
<1>3. ASSUME NEW u \in Uploads
      PROVE  /\ ticked(u) \in JobRows /\ ticked(u).state = job[u].state
             /\ job[u].state = "leased" /\ job[u].lease >= 0
                  => ticked(u).lease = job[u].lease - 1
  <2> DEFINE delay == IF job[u].delay = 0 THEN 0 ELSE job[u].delay - 1
             lease == IF job[u].state = "leased" /\ job[u].lease >= 0
                      THEN job[u].lease - 1 ELSE job[u].lease
  <2>1. job[u] \in JobRows
    BY DEF RunsInv
  <2>2. delay \in 0..Backoff(MaxAttempts) /\ lease \in -1..MediaLease
    BY <2>1, Bounds DEF JobRows
  <2>3. ticked(u) = [job[u] EXCEPT !.delay = delay, !.lease = lease]
    OBVIOUS
  <2>4. [job[u] EXCEPT !.delay = delay, !.lease = lease] \in JobRows
    BY <2>1, <2>2 DEF JobRows
  <2> QED
    BY <2>1, <2>3, <2>4 DEF JobRows
<1>4. ASSUME NEW e \in Execs, exec[e].pc \notin {"off", "starting"}
      PROVE  exec[e].pc = "working" /\ older(e) \in ExecRows
             /\ older(e).worked = exec[e].worked + 1 /\ older(e).age = exec[e].age + 1
             /\ older(e).upload = exec[e].upload /\ older(e).pc = "working"
  <2>1. exec[e] \in ExecRows /\ ~Overdue(e)
    BY DEF RunsInv, Tick
  <2>2. /\ exec[e].pc = "working" /\ exec[e].age # TaskTimeout
        /\ exec[e].worked # MaxProcessing
    BY <1>4, <2>1 DEF Overdue, ExecRows
  <2>3. exec[e].age + 1 \in 0..TaskTimeout /\ exec[e].worked + 1 \in 0..MaxProcessing
    BY <2>1, <2>2, Bounds DEF ExecRows
  <2> QED
    BY <2>1, <2>2, <2>3 DEF ExecRows
<1>5. job' \in [Uploads -> JobRows] /\ exec' \in [Execs -> ExecRows]
  BY <1>1, <1>2, <1>3, <1>4 DEF RunsInv
<1>6. ASSUME NEW e \in Execs, exec'[e].pc = "working"
      PROVE  /\ exec[e].pc = "working" /\ exec'[e].upload = exec[e].upload
             /\ exec'[e].worked = exec[e].worked + 1 /\ exec'[e].age = exec[e].age + 1
  BY <1>2, <1>4, <1>6
<1>7. ASSUME NEW e \in Execs PROVE Covered(e)'
  <2> SUFFICES ASSUME exec'[e].pc = "working" PROVE Covered(e)'
    BY DEF Covered
  <2> DEFINE u == exec[e].upload
  <2>1. exec'[e].upload = u /\ u \in Uploads
        /\ job[u].state = "leased" /\ job[u].lease >= 0
    BY <1>6, Unexpired
  <2>2. job'[u].state = "leased" /\ job'[u].lease = job[u].lease - 1
    BY <1>1, <1>3, <2>1
  <2>3. job[u].lease + exec[e].worked >= MediaLease /\ exec[e].worked <= exec[e].age
    BY <1>6 DEF RunsInv, Covered
  <2>4. job[u].lease \in Int /\ exec[e].worked \in Int /\ exec[e].age \in Int
    BY <2>1, Bounds DEF RunsInv, JobRows, ExecRows
  <2>5. exec'[e].worked = exec[e].worked + 1 /\ exec'[e].age = exec[e].age + 1
    BY <1>6
  <2>6. /\ job'[u].lease + exec'[e].worked >= MediaLease
        /\ exec'[e].worked <= exec'[e].age
    BY <2>2, <2>3, <2>4, <2>5, Bounds
  <2> QED
    BY <2>1, <2>2, <2>6 DEF Covered
<1>8. OneHolder'
  BY <1>6 DEF RunsInv, OneHolder
<1> QED
  BY <1>5, <1>7, <1>8 DEF RunsInv

LEMMA ExecPcSet ==
  ASSUME NEW row \in ExecRows, NEW pc \in {"off", "starting", "cleaning", "claiming"}
  PROVE  [row EXCEPT !.pc = pc] \in ExecRows /\ [row EXCEPT !.pc = pc].pc # "working"
BY DEF ExecRows

LEMMA ExecutionStarts == ASSUME RunsInv, StartExecution, UNCHANGED job PROVE RunsInv'
<1> PICK e \in Execs : exec' = [exec EXCEPT ![e].pc = "starting"]
  BY DEF StartExecution
<1>1. exec[e] \in ExecRows
  BY DEF RunsInv
<1> QED
  BY <1>1, ExecPcSet, Onward

LEMMA ExecSteps == ASSUME RunsInv, NEW e \in Execs, ExecStep(e) PROVE RunsInv'
<1>0. exec[e] \in ExecRows
  BY DEF RunsInv
<1>1. CASE Begin(e)
  BY <1>0, <1>1, ExecPcSet, Onward DEF Begin
<1>2. CASE CleanupPass(e)
  <2> DEFINE requeued(u) == [job[u] EXCEPT !.state = "queued", !.lease = 0]
  <2>1. \A u \in Uploads : job[u] \in JobRows /\ requeued(u) \in JobRows
    BY Values DEF RunsInv, JobRows, States
  <2>2. job' \in [Uploads -> JobRows]
    BY <1>2, <2>1 DEF CleanupPass
  <2>3. \A u \in Uploads : ~LeaseExpired(u) => job'[u] = job[u]
    BY <1>2 DEF CleanupPass
  <2>4. exec' = [exec EXCEPT ![e] = [exec[e] EXCEPT !.pc = "claiming"]]
    BY <1>2 DEF CleanupPass
  <2> QED
    BY <1>0, <2>2, <2>3, <2>4, ExecPcSet, Unexpired, ExecMoves
<1>3. CASE Claim(e)
  BY <1>3, Claimed
<1>4. CASE RunEnds(e)
  BY <1>4, IdleExecTyped, Onward DEF RunEnds
<1>5. CASE Succeed(e)
  <2> DEFINE row == [job[exec[e].upload] EXCEPT !.state = "succeeded", !.lease = 0]
  <2>1. exec[e].pc = "working" /\ exec' = BackToLoop(e)
        /\ job' = [job EXCEPT ![exec[e].upload] = row]
    BY <1>5 DEF Succeed, Processed
  <2>2. job[exec[e].upload] \in JobRows
    BY <2>1, Unexpired DEF RunsInv
  <2>3. row \in JobRows
    BY <2>2, Values DEF JobRows, States
  <2> QED
    BY <2>1, <2>3, AttemptEnds
<1>6. CASE PublishRefused(e) \/ EndUnrecorded(e) \/ AttemptCancelled(e)
  <2>1. exec[e].pc = "working" /\ exec' = BackToLoop(e) /\ job' = job
    BY <1>6 DEF PublishRefused, Processed, EndUnrecorded, AttemptCancelled
  <2>2. job[exec[e].upload] \in JobRows
    BY <2>1, Unexpired DEF RunsInv
  <2>3. job' = [job EXCEPT ![exec[e].upload] = job[exec[e].upload]]
    BY <2>1 DEF RunsInv
  <2> QED
    BY <2>1, <2>2, <2>3, AttemptEnds
<1>7. CASE TimedOut(e)
  BY <1>7, IdleExecTyped, Onward DEF TimedOut
<1>8. ASSUME NEW retryable \in BOOLEAN, AttemptFails(e, retryable) PROVE RunsInv'
  <2> DEFINE row == AfterFailure(job[exec[e].upload], retryable)
  <2>1. exec[e].pc = "working" /\ exec' = BackToLoop(e)
        /\ job' = [job EXCEPT ![exec[e].upload] = row]
    BY <1>8 DEF AttemptFails
  <2>2. job[exec[e].upload] \in JobRows
    BY <2>1, Unexpired DEF RunsInv
  <2>3. row \in JobRows
    <3> DEFINE old == job[exec[e].upload]
    <3>1. old.attempts < MaxAttempts => Backoff(old.attempts) \in 0..Backoff(MaxAttempts)
      BY <2>2, WorkerRunsAssumption, Bounds DEF WorkerRunsAssumption, JobRows
    <3>2. CASE retryable /\ old.attempts < MaxAttempts
      BY <2>2, <3>1, <3>2, Values DEF AfterFailure, JobRows, States
    <3>3. CASE ~(retryable /\ old.attempts < MaxAttempts)
      BY <2>2, <3>3, Values DEF AfterFailure, JobRows, States
    <3> QED
      BY <3>2, <3>3
  <2> QED
    BY <2>1, <2>3, AttemptEnds
<1> QED
  BY <1>1, <1>2, <1>3, <1>4, <1>5, <1>6, <1>7, <1>8 DEF ExecStep

LEMMA RunsStep == ASSUME RunsInv, WorkerRunsNext PROVE RunsInv'
<1>1. ASSUME NEW a \in Apis, NEW u \in Uploads, TriggerAsks(a, u) \/ TriggerCoalesces(a, u)
      PROVE  RunsInv'
  <2>1. job' = [job EXCEPT ![u].state = "queued"] /\ job[u].state = "none"
        /\ UNCHANGED exec
    BY <1>1 DEF TriggerAsks, TriggerCoalesces, Finalized
  <2>2. job[u] \in JobRows
    BY DEF RunsInv
  <2>3. [job[u] EXCEPT !.state = "queued"] \in JobRows
    BY <2>2 DEF JobRows, States
  <2>4. job' \in [Uploads -> JobRows] /\ \A v \in Uploads \ {u} : job'[v] = job[v]
    BY <2>1, <2>3 DEF RunsInv
  <2>5. \A e \in Execs : exec[e].pc = "working" => exec[e].upload \in Uploads \ {u}
    BY <2>1, Unexpired
  <2> QED
    BY <2>1, <2>4, <2>5 DEF RunsInv, Covered, OneHolder
<1>2. ASSUME NEW a \in Apis, TriggerAnswers(a) PROVE RunsInv'
  <2>1. CASE TriggerStarts(a)
    BY <2>1, ExecutionStarts DEF TriggerStarts
  <2>2. CASE TriggerFails(a)
    BY <2>2 DEF TriggerFails, RunsInv, Covered, OneHolder
  <2> QED
    BY <1>2, <2>1, <2>2 DEF TriggerAnswers
<1>3. CASE ScheduledSweep
  BY <1>3, ExecutionStarts DEF ScheduledSweep
<1>4. ASSUME NEW e \in Execs, ExecStep(e) PROVE RunsInv'
  BY <1>4, ExecSteps
<1>5. ASSUME NEW e \in Execs, Sigterm(e) PROVE RunsInv'
  <2> DEFINE row == [exec[e] EXCEPT !.cancelled = TRUE]
  <2>1. UNCHANGED job /\ exec' = [exec EXCEPT ![e] = row] /\ exec[e] \in ExecRows
    BY <1>5 DEF Sigterm, RunsInv
  <2>2. row \in ExecRows /\ row.pc = exec[e].pc /\ row.upload = exec[e].upload
        /\ row.worked = exec[e].worked /\ row.age = exec[e].age
    BY <2>1 DEF ExecRows
  <2>3. exec' \in [Execs -> ExecRows]
        /\ \A d \in Execs : /\ exec'[d].pc = exec[d].pc /\ exec'[d].upload = exec[d].upload
                            /\ exec'[d].worked = exec[d].worked /\ exec'[d].age = exec[d].age
    BY <2>1, <2>2 DEF RunsInv
  <2> QED
    BY <2>1, <2>3 DEF RunsInv, Covered, OneHolder
<1>6. ASSUME NEW e \in Execs, Lost(e) PROVE RunsInv'
  BY <1>6, IdleExecTyped, Onward DEF Lost
<1>8. ASSUME NEW u \in Uploads, DeleteProcessing(u) PROVE RunsInv'
  BY <1>8 DEF DeleteProcessing, RunsInv, Covered, OneHolder
<1>7. CASE Tick
  BY <1>7, TimeKeepsRuns
<1> QED
  BY <1>1, <1>2, <1>3, <1>4, <1>5, <1>6, <1>7, <1>8 DEF WorkerRunsNext

\* A job at work is covered by the lease taken for it (ClaimMediaJob).
THEOREM RunsInvariance == WorkerRunsSpec => []RunsInv
<1>1. RunsInv /\ UNCHANGED runVars => RunsInv'
  BY DEF RunsInv, runVars, Covered, OneHolder
<1> QED
  BY RunsInitially, RunsStep, <1>1, PTL DEF WorkerRunsSpec

\* No two executions work on one job: the lease that one took outlasts the task
\* it runs in (ClaimMediaJob, worker-job.yaml).
THEOREM OneHolderHolds == WorkerRunsSpec => []OneHolder
<1>1. RunsInv => OneHolder
  BY DEF RunsInv
<1> QED
  BY RunsInvariance, <1>1, PTL

\* What the executions leave to the triggers, the schedule and the history.
TriggersOK ==
  /\ trigger \in [Apis -> [gap: 0..TriggerGap, calling: BOOLEAN]]
  /\ sinceSweep \in 0..SweepPeriod
  /\ work \in Works /\ withdrawn \subseteq Uploads /\ faults \in 0..MaxFaults

LEMMA TriggersInitially == WorkerRunsInit => TriggersOK
BY WorkerRunsAssumption DEF WorkerRunsInit, TriggersOK, WorkerRunsAssumption

LEMMA TriggersStep == ASSUME TriggersOK, WorkerRunsNext PROVE TriggersOK'
<1> DEFINE TriggerRows == [gap: 0..TriggerGap, calling: BOOLEAN]
<1>0. TriggerGap \in Nat /\ SweepPeriod \in Nat /\ MaxFaults \in Nat
  BY WorkerRunsAssumption DEF WorkerRunsAssumption
<1>1. ASSUME NEW a \in Apis, NEW u \in Uploads, TriggerAsks(a, u) PROVE TriggersOK'
  BY <1>0, <1>1 DEF TriggerAsks, TriggersOK, uploadVars
<1>2. ASSUME NEW a \in Apis, NEW u \in Uploads, TriggerCoalesces(a, u) PROVE TriggersOK'
  BY <1>2 DEF TriggerCoalesces, TriggersOK, uploadVars
<1>3. ASSUME NEW a \in Apis, TriggerAnswers(a) PROVE TriggersOK'
  <2>1. trigger[a] \in TriggerRows
    BY DEF TriggersOK
  <2>2. [trigger[a] EXCEPT !.calling = FALSE] \in TriggerRows
    BY <2>1
  <2>3. /\ trigger' = [trigger EXCEPT ![a] = [trigger[a] EXCEPT !.calling = FALSE]]
        /\ UNCHANGED <<sinceSweep, faults>> /\ UNCHANGED uploadVars
    BY <1>3 DEF TriggerAnswers, TriggerStarts, TriggerFails
  <2> QED
    BY <2>2, <2>3 DEF TriggersOK, uploadVars
<1>4. ASSUME NEW u \in Uploads, DeleteProcessing(u) PROVE TriggersOK'
  BY <1>0, <1>4 DEF DeleteProcessing, TriggersOK
<1>6. CASE ScheduledSweep
  BY <1>0, <1>6 DEF ScheduledSweep, TriggersOK, uploadVars
<1>7. ASSUME NEW e \in Execs, ExecStep(e) PROVE TriggersOK'
  <2>1. UNCHANGED <<trigger, uploadVars, sinceSweep>> /\ faults' \in 0..MaxFaults
    <3>1. faults \in 0..MaxFaults
      BY DEF TriggersOK
    <3>2. CASE EndUnrecorded(e)
      BY <1>0, <3>1, <3>2 DEF EndUnrecorded
    <3>3. CASE ~EndUnrecorded(e)
      BY <1>7, <3>1, <3>3 DEF ExecStep, Begin, CleanupPass, Claim, RunEnds, Succeed,
         PublishRefused, AttemptCancelled, TimedOut, AttemptFails
    <3> QED
      BY <3>2, <3>3
  <2> QED
    BY <2>1 DEF TriggersOK, uploadVars
<1>8. ASSUME NEW e \in Execs, Sigterm(e) \/ Lost(e) PROVE TriggersOK'
  BY <1>0, <1>8 DEF Sigterm, Lost, TriggersOK, uploadVars
<1>9. CASE Tick
  <2> DEFINE next(a) == IF trigger[a].gap = TriggerGap THEN trigger[a].gap
                        ELSE trigger[a].gap + 1
  <2>1. \A a \in Apis : trigger[a] \in TriggerRows
    BY DEF TriggersOK
  <2>2. \A a \in Apis : next(a) \in 0..TriggerGap
    BY <1>0, <2>1
  <2>3. trigger' = [a \in Apis |-> [trigger[a] EXCEPT !.gap = next(a)]]
    BY <1>9 DEF Tick
  <2> HIDE DEF next
  <2>4. \A a \in Apis : [trigger[a] EXCEPT !.gap = next(a)] \in TriggerRows
    BY <2>1, <2>2
  <2>5. trigger' \in [Apis -> TriggerRows]
    BY <2>3, <2>4
  <2>6. sinceSweep' \in 0..SweepPeriod /\ UNCHANGED <<uploadVars, faults>>
    <3>1. sinceSweep' = IF sinceSweep = SweepPeriod THEN sinceSweep ELSE sinceSweep + 1
      BY <1>9 DEF Tick
    <3>2. sinceSweep \in 0..SweepPeriod
      BY DEF TriggersOK
    <3>3. sinceSweep' \in 0..SweepPeriod
      BY <1>0, <3>1, <3>2
    <3> QED
      BY <1>9, <3>3 DEF Tick
  <2> QED
    BY <2>5, <2>6 DEF TriggersOK, uploadVars
<1> QED
  BY <1>1, <1>2, <1>3, <1>4, <1>6, <1>7, <1>8, <1>9 DEF WorkerRunsNext

\* The bounds of the worker's state: an attempt and a lease stay within the task's
\* time, and attempts within the budget and one (RunOnce, ClaimMediaJob).
THEOREM WorkerRunsTyped == WorkerRunsSpec => []WorkerRunsTypeOK
<1>1. TriggersOK /\ UNCHANGED runVars => TriggersOK'
  BY DEF TriggersOK, runVars, uploadVars
<1>2. RunsInv /\ TriggersOK => WorkerRunsTypeOK
  BY DEF RunsInv, TriggersOK, WorkerRunsTypeOK, JobRows, ExecRows, States
<1> QED
  BY RunsInvariance, TriggersInitially, TriggersStep, <1>1, <1>2, PTL DEF WorkerRunsSpec

-----------------------------------------------------------------------------
(* What one viewer is shown *)

LEMMA FeedBounds ==
  /\ MaxTime \in Nat \ {0} /\ MaxFeedEvents \in Nat /\ MaxLimit \in Nat
  /\ IsFiniteSet(Stories) /\ AuthorOf \in [Stories -> Authors]
BY FeedAssumption DEF FeedAssumption

\* A set of numbers with a bound has a greatest.
LEMMA Greatest ==
  ASSUME NEW n \in Nat, NEW T \in SUBSET (0..n), T # {}
  PROVE  \E t \in T : \A s \in T : s <= t
<1> DEFINE less == {ss \in Nat \X Nat : ss[1] < ss[2]}
           below == {n - t : t \in T}
<1>1. IsWellFoundedOn(less, Nat)
  BY NatLessThanWellFounded DEF OpToRel
<1>2. below \subseteq Nat /\ below # {}
  <2>1. \A t \in T : n - t \in Nat
    OBVIOUS
  <2>2. PICK t \in T : TRUE
    OBVIOUS
  <2>3. n - t \in below
    BY <2>2
  <2> QED
    BY <2>1, <2>3
<1>3. PICK x \in below : \A y \in below : ~ (<<y, x>> \in less)
  <2> HIDE DEF less, below
  <2> QED
    BY <1>1, <1>2, WFMin
<1>4. PICK t \in T : x = n - t
  BY <1>3
<1>5. ASSUME NEW s \in T PROVE s <= t
  <2>1. n - s \in below /\ n - s \in Nat /\ x \in Nat
    BY <1>2, <1>3
  <2>2. ~ (n - s < x)
    BY <1>3, <2>1
  <2> QED
    BY <1>4, <2>1, <2>2
<1> QED
  BY <1>5

LEMMA LatestTyped ==
  ASSUME published \in [Stories -> 0..MaxTime], NEW S \in SUBSET Stories, S # {}
  PROVE  Latest(S) \in {published[s] : s \in S} /\ \A s \in S : published[s] <= Latest(S)
<1> DEFINE T == {published[s] : s \in S}
<1>1. T \in SUBSET (0..MaxTime) /\ T # {}
  OBVIOUS
<1>2. PICK t \in T : \A s \in T : s <= t
  BY <1>1, FeedBounds, Greatest
<1>3. \A s \in S : published[s] <= t
  BY <1>2
<1> QED
  BY <1>3 DEF Latest

\* The change token is a time and a number of Stories.
LEMMA VersionTyped ==
  ASSUME published \in [Stories -> 0..MaxTime]
  PROVE  FeedVersion(Stories) \in (0..MaxTime) \X Nat
<1>1. CASE Visible(Stories) = {}
  BY <1>1, FeedBounds DEF FeedVersion
<1>2. CASE Visible(Stories) # {}
  <2>1. Visible(Stories) \in SUBSET Stories
    BY DEF Visible
  <2>2. Latest(Visible(Stories)) \in 0..MaxTime
    BY <1>2, <2>1, LatestTyped
  <2>3. Cardinality(Visible(Stories)) \in Nat
    BY <2>1, FeedBounds, FS_Subset, FS_CardinalityType
  <2> QED
    BY <1>2, <2>2, <2>3 DEF FeedVersion
<1> QED
  BY <1>1, <1>2

LEMMA FeedInitially == FeedInit => FeedTypeOK
BY FeedBounds DEF FeedInit, FeedTypeOK, NoAnswer, Provenances

LEMMA HappensTyped ==
  ASSUME feedEvents \in 0..MaxFeedEvents, Happens PROVE feedEvents' \in 0..MaxFeedEvents
BY FeedBounds DEF Happens

LEMMA FeedStep == ASSUME FeedTypeOK, FeedNext PROVE FeedTypeOK'
<1>0. published \in [Stories -> 0..MaxTime]
  BY DEF FeedTypeOK
<1>1. ASSUME NEW s \in Stories, NEW admits \in BOOLEAN, Publish(s, admits)
      PROVE  FeedTypeOK'
  <2>1. published' \in [Stories -> 0..MaxTime]
    <3>1. now \in 0..MaxTime
      BY FeedBounds DEF FeedTypeOK
    <3> QED
      BY <1>0, <1>1, <3>1 DEF Publish
  <2> QED
    BY <1>1, <2>1, HappensTyped DEF Publish, FeedTypeOK
<1>2. ASSUME NEW s \in Stories, Withdraw(s) PROVE FeedTypeOK'
  BY <1>2, HappensTyped DEF Withdraw, FeedTypeOK
<1>3. ASSUME NEW s \in Stories, View(s) PROVE FeedTypeOK'
  BY <1>3, HappensTyped DEF View, FeedTypeOK
<1>4. ASSUME NEW a \in Authors, NEW in \in BOOLEAN, Readmit(a, in) PROVE FeedTypeOK'
  BY <1>4, HappensTyped DEF Readmit, Of, FeedTypeOK
<1>5. ASSUME NEW a \in Authors, Mute(a) PROVE FeedTypeOK'
  BY <1>5, HappensTyped DEF Mute, FeedTypeOK
<1>6. ASSUME NEW a \in Authors, NEW provenance \in Provenances, FollowAuthor(a, provenance)
      PROVE  FeedTypeOK'
  BY <1>6, HappensTyped DEF FollowAuthor, FeedTypeOK
<1>7. CASE TimeGoesOn
  BY <1>7, FeedBounds DEF TimeGoesOn, FeedTypeOK
<1>8. CASE GetFeed
  <2>1. feedEvents' \in 0..MaxFeedEvents
    BY <1>8, FeedBounds DEF GetFeed, FeedTypeOK
  <2> QED
    BY <1>8, <2>1 DEF GetFeed, Visible, FeedTypeOK
<1>9. CASE GetVersion
  <2>1. held' = [shown |-> fetch.shown, token |-> FeedVersion(Stories)]
        /\ fetch' = [fetch EXCEPT !.pc = "idle", !.shown = {}]
        /\ UNCHANGED <<now, published, live, admitted, seen, muted, followed, feedEvents>>
    BY <1>9 DEF GetVersion
  <2>2. held' \in [shown: SUBSET Stories, token: (0..MaxTime) \X Nat]
    BY <1>0, <2>1, VersionTyped DEF FeedTypeOK
  <2>3. fetch' \in [pc: {"idle", "token"}, shown: SUBSET Stories]
    BY <2>1 DEF FeedTypeOK
  <2> QED
    BY <2>1, <2>2, <2>3 DEF FeedTypeOK
<1> QED
  BY <1>1, <1>2, <1>3, <1>4, <1>5, <1>6, <1>7, <1>8, <1>9 DEF FeedNext

\* What the viewer is shown has its type; the token's time is one some visible Story
\* was published at (FeedVersion).
THEOREM FeedTyped == FeedSpec => []FeedTypeOK
<1>1. FeedTypeOK /\ UNCHANGED feedVars => FeedTypeOK'
  BY DEF FeedTypeOK, feedVars
<1> QED
  BY FeedInitially, FeedStep, <1>1, PTL DEF FeedSpec

\* The statements see of the visible Stories what they see of all.
LEMMA VisibleOnce == Visible(Visible(Stories)) = Visible(Stories)
BY DEF Visible

\* The feed, an author's page, the rings and the token start from the visible
\* Stories, so that they say the same where the hidden ones had never been (Feed,
\* AuthorSequence, RingStatuses, FeedVersion).
THEOREM HiddenIsAbsentHolds == FeedSpec => []HiddenIsAbsent
<1>1. HiddenIsAbsent
  <2> DEFINE V == Visible(Stories)
  <2>1. \A a \in Authors : RingStatus(V, a) = RingStatus(Stories, a)
    BY VisibleOnce DEF RingStatus
  <2>2. \A a \in Authors : AuthorSequence(V, a) = AuthorSequence(Stories, a)
    BY VisibleOnce DEF AuthorSequence
  <2>3. FeedVersion(V) = FeedVersion(Stories)
    BY VisibleOnce DEF FeedVersion
  <2>4. Rows(V, TRUE) = Rows(Stories, TRUE)
    BY VisibleOnce DEF Rows
  <2>5. FeedOf(V, TRUE, MaxLimit) = FeedOf(Stories, TRUE, MaxLimit)
    BY <2>4 DEF FeedOf
  <2> QED
    BY <2>1, <2>2, <2>3, <2>5 DEF HiddenIsAbsent
<1> QED
  BY <1>1, PTL

(* The order of the feed's rows *)

\* A key is six numbers.
Key == Int \X Int \X Int \X Int \X Int \X Int

LEMMA Lexicographic ==
  ASSUME NEW x \in Key, NEW y \in Key
  PROVE  Precedes(x, y) <=>
           \/ x[1] < y[1]
           \/ x[1] = y[1] /\ x[2] < y[2]
           \/ x[1] = y[1] /\ x[2] = y[2] /\ x[3] < y[3]
           \/ x[1] = y[1] /\ x[2] = y[2] /\ x[3] = y[3] /\ x[4] < y[4]
           \/ x[1] = y[1] /\ x[2] = y[2] /\ x[3] = y[3] /\ x[4] = y[4] /\ x[5] < y[5]
           \/ /\ x[1] = y[1] /\ x[2] = y[2] /\ x[3] = y[3] /\ x[4] = y[4] /\ x[5] = y[5]
              /\ x[6] < y[6]
<1>1. DOMAIN x = 1..6
  BY DEF Key
<1>2. /\ 1..(1-1) = {} /\ 1..(2-1) = {1} /\ 1..(3-1) = {1, 2} /\ 1..(4-1) = {1, 2, 3}
      /\ 1..(5-1) = {1, 2, 3, 4} /\ 1..(6-1) = {1, 2, 3, 4, 5} /\ 1..6 = {1, 2, 3, 4, 5, 6}
  OBVIOUS
<1> QED
  BY ONLY <1>1, <1>2 DEF Precedes

\* Two Stories of one author are of two instants, and a live Story is published.
Dated ==
  /\ \A r, s \in Stories : r # s /\ AuthorOf[r] = AuthorOf[s] /\ published[r] # 0
                             => published[r] # published[s]
  /\ \A s \in live : published[s] # 0

LEMMA DatedStep == ASSUME FeedTypeOK, Dated, FeedNext PROVE Dated'
<1>1. ASSUME NEW s \in Stories, NEW admits \in BOOLEAN, Publish(s, admits) PROVE Dated'
  <2>1. now \in Nat \ {0} /\ published \in [Stories -> 0..MaxTime] /\ live \subseteq Stories
    BY FeedBounds DEF FeedTypeOK
  <2>2. /\ published' = [published EXCEPT ![s] = now] /\ live' = live \cup {s}
        /\ \A r \in Stories : AuthorOf[r] = AuthorOf[s] => published[r] # now
    BY <1>1 DEF Publish, Of
  <2> QED
    BY <2>1, <2>2 DEF Dated
<1>2. ASSUME NEW s \in Stories, Withdraw(s) PROVE Dated'
  BY <1>2 DEF Withdraw, Dated
<1>3. ASSUME UNCHANGED <<published, live>> PROVE Dated'
  BY <1>3 DEF Dated
<1> QED
  BY <1>1, <1>2, <1>3
  DEF FeedNext, View, Readmit, Mute, FollowAuthor, TimeGoesOn, GetFeed, GetVersion

LEMMA LatestOfAuthor ==
  ASSUME FeedTypeOK, NEW s \in Visible(Stories)
  PROVE  Latest(Of(Visible(Stories), AuthorOf[s])) \in 0..MaxTime
<1> DEFINE S == Of(Visible(Stories), AuthorOf[s])
<1>1. published \in [Stories -> 0..MaxTime] /\ S \in SUBSET Stories /\ S # {}
  BY DEF FeedTypeOK, Of, Visible
<1>2. Latest(S) \in {published[t] : t \in S}
  BY <1>1, LatestTyped
<1> QED
  BY <1>1, <1>2

LEMMA StoriesTyped ==
  ASSUME FeedTypeOK, NEW s \in Visible(Stories)
  PROVE  /\ s \in Stories /\ s \in live
         /\ AuthorOf[s] \in Nat /\ published[s] \in Nat
<1>1. s \in Stories /\ s \in live
  BY DEF Visible
<1>2. AuthorOf[s] \in Nat
  BY <1>1, FeedAssumption DEF FeedAssumption
<1>3. published[s] \in 0..MaxTime
  BY <1>1 DEF FeedTypeOK
<1> QED
  BY <1>1, <1>2, <1>3, FeedBounds

LEMMA KeyTyped ==
  ASSUME FeedTypeOK, NEW s \in Visible(Stories)
  PROVE  RowKey(Visible(Stories), s) \in Key
<1> DEFINE V == Visible(Stories)
           a == AuthorOf[s]
<1>1. s \in Stories /\ a \in Nat /\ published[s] \in Int
  BY StoriesTyped
<1>2. Latest(Of(V, a)) \in Int /\ MaxTime \in Int
  BY LatestOfAuthor, FeedBounds
<1>3. Bit(a = Me) \in Int /\ Bit(HasUnseen(V, a)) \in Int /\ ProvenanceRank(a) \in Int
  BY DEF Bit, ProvenanceRank
<1> HIDE DEF V, a
<1> QED
  BY <1>1, <1>2, <1>3 DEF Key, RowKey, V, a

\* Of any two rows one comes first, by a relation that sorts; the viewer's Stories
\* come first, an author's oldest first, and no row of an author comes before one of
\* an author promised to be ahead (feed.go:22-36).
RowsOrdered ==
  LET V == Visible(Stories)
      first(r, s) == Precedes(RowKey(V, r), RowKey(V, s))
  IN /\ \A r, s \in V : r # s => (first(r, s) <=> ~ first(s, r))
     /\ \A r, s, t \in V : first(r, s) /\ first(s, t) => first(r, t)
     /\ \A r, s \in V : first(r, s) =>
          IF AuthorOf[r] = AuthorOf[s] THEN published[r] < published[s]
          ELSE \/ AuthorOf[r] = Me
               \/ AuthorOf[s] # Me /\ ~ Ahead(AuthorOf[s], AuthorOf[r])

LEMMA KeyOrders == ASSUME FeedTypeOK, Dated PROVE RowsOrdered
<1> DEFINE V == Visible(Stories)
           first(r, s) == Precedes(RowKey(V, r), RowKey(V, s))
<1>1. \A r \in V : RowKey(V, r) \in Key
  BY KeyTyped
<1>2. ASSUME NEW r \in V
      PROVE  LET a == AuthorOf[r] IN
             /\ RowKey(V, r)[1] = Bit(a = Me) /\ RowKey(V, r)[2] = Bit(HasUnseen(V, a))
             /\ RowKey(V, r)[3] = ProvenanceRank(a)
             /\ RowKey(V, r)[4] = MaxTime - Latest(Of(V, a))
             /\ RowKey(V, r)[5] = a /\ RowKey(V, r)[6] = published[r]
  BY DEF RowKey
<1>3. \A r \in V : /\ r \in Stories /\ AuthorOf[r] \in Nat /\ published[r] \in Nat
                   /\ r \in live
  BY StoriesTyped
<1>4. \A r, s \in V : r # s /\ AuthorOf[r] = AuthorOf[s] => published[r] # published[s]
  BY <1>3 DEF Dated
<1>5. \A x, y \in Key : x[5] # y[5] \/ x[6] # y[6] => (Precedes(x, y) <=> ~ Precedes(y, x))
  <2>1. \A x \in Key : \A i \in 1..6 : x[i] \in Int
    BY DEF Key
  <2> QED
    BY <2>1, Lexicographic
<1>6. \A x, y, z \in Key : Precedes(x, y) /\ Precedes(y, z) => Precedes(x, z)
  <2>1. \A x \in Key : /\ x[1] \in Int /\ x[2] \in Int /\ x[3] \in Int
                       /\ x[4] \in Int /\ x[5] \in Int /\ x[6] \in Int
    BY DEF Key
  <2> QED
    BY ONLY <2>1, Lexicographic
<1>7. \A r, s \in V : r # s => (first(r, s) <=> ~ first(s, r))
  BY <1>1, <1>2, <1>4, <1>5
<1>8. \A r, s, t \in V : first(r, s) /\ first(s, t) => first(r, t)
  BY <1>1, <1>6
<1>9. ASSUME NEW r \in V, NEW s \in V, first(r, s), AuthorOf[r] = AuthorOf[s]
      PROVE  published[r] < published[s]
  <2>1. \A i \in 1..5 : RowKey(V, r)[i] = RowKey(V, s)[i]
    BY <1>9 DEF RowKey
  <2>2. RowKey(V, r) \in Key /\ RowKey(V, s) \in Key
    BY <1>1
  <2>3. RowKey(V, r)[6] < RowKey(V, s)[6]
    <3>1. \A i \in 1..5 : RowKey(V, r)[i] \in Int
      BY <2>2 DEF Key
    <3> QED
      BY <1>9, <2>1, <2>2, <3>1, Lexicographic
  <2> QED
    BY <1>2, <2>3
<1>10. ASSUME NEW r \in V, NEW s \in V, first(r, s), AuthorOf[r] # AuthorOf[s],
              AuthorOf[r] # Me
       PROVE  AuthorOf[s] # Me /\ ~ Ahead(AuthorOf[s], AuthorOf[r])
  <2> DEFINE a == AuthorOf[r]
             b == AuthorOf[s]
             x == RowKey(V, r)
             y == RowKey(V, s)
  <2>1. x \in Key /\ y \in Key /\ Precedes(x, y)
    BY <1>1, <1>10
  <2>2. /\ x[1] = 1 /\ x[2] = Bit(HasUnseen(V, a)) /\ x[3] = ProvenanceRank(a)
        /\ x[4] = MaxTime - Latest(Of(V, a)) /\ x[5] = a
    BY <1>2, <1>10 DEF Bit
  <2>3. /\ y[1] = Bit(b = Me) /\ y[2] = Bit(HasUnseen(V, b)) /\ y[3] = ProvenanceRank(b)
        /\ y[4] = MaxTime - Latest(Of(V, b)) /\ y[5] = b
    BY <1>2
  <2>4. /\ Latest(Of(V, a)) \in Int /\ Latest(Of(V, b)) \in Int /\ MaxTime \in Int
        /\ a \in Int /\ b \in Int
    BY <1>3, LatestOfAuthor, FeedBounds
  <2> HIDE DEF V, a, b, x, y
  <2>5. x[1] <= y[1]
    BY <2>1, <2>2, <2>3, Lexicographic DEF Bit
  <2>6. b # Me
    BY <2>2, <2>3, <2>5 DEF Bit
  <2>7. y[1] = 1
    BY <2>3, <2>6 DEF Bit
  <2>8. \/ x[2] < y[2]
        \/ x[2] = y[2] /\ x[3] < y[3]
        \/ x[2] = y[2] /\ x[3] = y[3] /\ x[4] < y[4]
        \/ x[2] = y[2] /\ x[3] = y[3] /\ x[4] = y[4] /\ x[5] < y[5]
    <3>1. x[5] # y[5]
      BY <1>10, <2>2, <2>3 DEF a, b
    <3> QED
      BY <2>1, <2>2, <2>7, <3>1, Lexicographic
  <2>9. ~ (HasUnseen(V, b) /\ ~ HasUnseen(V, a))
    BY <2>2, <2>3, <2>8 DEF Bit
  <2>10. HasUnseen(V, a) = HasUnseen(V, b) => x[2] = y[2]
    BY <2>2, <2>3
  <2>11. HasUnseen(V, a) = HasUnseen(V, b) => x[3] <= y[3]
    <3>1. x[2] \in Int /\ x[3] \in Int /\ y[3] \in Int
      BY <2>1 DEF Key
    <3> QED
      BY <2>8, <2>10, <3>1
  <2>12. ~ (/\ HasUnseen(V, a) = HasUnseen(V, b)
            /\ followed[b] = "stories_native" /\ followed[a] = "github_import")
    BY <1>10, <2>2, <2>3, <2>6, <2>11 DEF ProvenanceRank, a
  <2>13. ASSUME HasUnseen(V, a) = HasUnseen(V, b), followed[a] = followed[b]
         PROVE  /\ ~ (Latest(Of(V, b)) > Latest(Of(V, a)))
                /\ ~ (Latest(Of(V, b)) = Latest(Of(V, a)) /\ b < a)
    <3>1. x[2] = y[2] /\ x[3] = y[3]
      BY <1>10, <2>2, <2>3, <2>6, <2>10, <2>13 DEF ProvenanceRank, a
    <3>2. x[4] < y[4] \/ (x[4] = y[4] /\ x[5] < y[5])
      <4>1. x[2] \in Int /\ x[3] \in Int
        BY <2>1 DEF Key
      <4> QED
        BY <2>8, <3>1, <4>1
    <3> QED
      BY <2>2, <2>3, <2>4, <3>2
  <2>14. ~ Ahead(b, a)
    BY <2>9, <2>12, <2>13 DEF Ahead, V
  <2> QED
    BY <2>6, <2>14 DEF a, b
<1> HIDE DEF V
<1>11. V = Visible(Stories)
  BY DEF V
<1> QED
  BY <1>7, <1>8, <1>9, <1>10, <1>11 DEF RowsOrdered

(* Sorted sequences *)

\* R sorts T strictly: no two elements tie.
Sorts(R, T) ==
  /\ \A r \in T : <<r, r>> \notin R
  /\ \A r, s \in T : r # s => <<r, s>> \in R \/ <<s, r>> \in R
  /\ \A r, s, t \in T : <<r, s>> \in R /\ <<s, t>> \in R => <<r, t>> \in R

\* q is T in the order of R, each element once.
Enumerates(q, T, R) ==
  /\ q \in [1..Cardinality(T) -> T]
  /\ \A s \in T : \E i \in 1..Cardinality(T) : q[i] = s
  /\ \A i, j \in 1..Cardinality(T) : i < j => <<q[i], q[j]>> \in R

AheadOf(T, R, s) == {r \in T : <<r, s>> \in R}

\* Fewer elements precede the one that comes first.
LEMMA RanksGrow ==
  ASSUME NEW T, IsFiniteSet(T), NEW R, Sorts(R, T)
  PROVE  /\ \A s \in T : Cardinality(AheadOf(T, R, s)) \in 0..(Cardinality(T) - 1)
         /\ \A r, s \in T : <<r, s>> \in R =>
              Cardinality(AheadOf(T, R, r)) < Cardinality(AheadOf(T, R, s))
<1>1. \A s \in T : IsFiniteSet(AheadOf(T, R, s)) /\ Cardinality(AheadOf(T, R, s)) \in Nat
  <2>1. \A s \in T : AheadOf(T, R, s) \in SUBSET T
    BY DEF AheadOf
  <2> QED
    BY <2>1, FS_Subset, FS_CardinalityType
<1>2. ASSUME NEW s \in T PROVE Cardinality(AheadOf(T, R, s)) \in 0..(Cardinality(T) - 1)
  <2>1. AheadOf(T, R, s) \in SUBSET T /\ AheadOf(T, R, s) # T
    BY DEF AheadOf, Sorts
  <2>2. /\ Cardinality(AheadOf(T, R, s)) <= Cardinality(T)
        /\ Cardinality(T) # Cardinality(AheadOf(T, R, s))
    BY <2>1, FS_Subset
  <2>3. Cardinality(T) \in Nat
    BY FS_CardinalityType
  <2> QED
    BY <1>1, <2>2, <2>3
<1>3. ASSUME NEW r \in T, NEW s \in T, <<r, s>> \in R
      PROVE  Cardinality(AheadOf(T, R, r)) < Cardinality(AheadOf(T, R, s))
  <2>1. /\ AheadOf(T, R, r) \in SUBSET AheadOf(T, R, s)
        /\ r \in AheadOf(T, R, s) /\ r \notin AheadOf(T, R, r)
    BY <1>3 DEF AheadOf, Sorts
  <2>2. /\ Cardinality(AheadOf(T, R, r)) <= Cardinality(AheadOf(T, R, s))
        /\ Cardinality(AheadOf(T, R, s)) # Cardinality(AheadOf(T, R, r))
    BY <1>1, <2>1, FS_Subset
  <2> QED
    BY <1>1, <2>2
<1> QED
  BY <1>2, <1>3

\* What Ranked makes is the sorted set.
LEMMA RankedSorts ==
  ASSUME NEW T, IsFiniteSet(T), NEW R, Sorts(R, T)
  PROVE  Enumerates(Ranked(T, R), T, R)
<1> DEFINE n == Cardinality(T)
           rank == [s \in T |-> Cardinality(AheadOf(T, R, s))]
           q == Ranked(T, R)
<1>1. n \in Nat
  BY FS_CardinalityType
<1>2. rank \in [T -> 0..(n - 1)] /\ \A r, s \in T : <<r, s>> \in R => rank[r] < rank[s]
  BY RanksGrow
<1>3. \A r, s \in T : rank[r] = rank[s] => r = s
  <2> HIDE DEF rank
  <2> SUFFICES ASSUME NEW r \in T, NEW s \in T, r # s PROVE rank[r] # rank[s]
    OBVIOUS
  <2>1. <<r, s>> \in R \/ <<s, r>> \in R
    BY DEF Sorts
  <2>2. rank[r] < rank[s] \/ rank[s] < rank[r]
    BY <1>2, <2>1
  <2>3. rank[r] \in Int /\ rank[s] \in Int
    BY <1>1, <1>2
  <2> QED
    BY <2>2, <2>3
<1>4. rank \in Injection(T, 0..(n - 1))
  <2> HIDE DEF rank
  <2> QED
    BY <1>2, <1>3 DEF Injection, IsInjective
<1>5. IsFiniteSet(0..(n - 1)) /\ Cardinality(0..(n - 1)) = n
  BY <1>1, FS_Interval
<1>6. rank \in Surjection(T, 0..(n - 1))
  <2> HIDE DEF rank
  <2> QED
    BY <1>4, <1>5, FS_Injection
<1>7. \A k \in 0..(n - 1) : \E s \in T : rank[s] = k
  <2> HIDE DEF rank
  <2> QED
    BY <1>6 DEF Surjection
<1>8. /\ DOMAIN q = 1..n
      /\ \A i \in 1..n : q[i] = CHOOSE s \in T : rank[s] = i - 1
  BY DEF Ranked, AheadOf
<1>0. q = [i \in DOMAIN q |-> q[i]]
  <2> DEFINE e(i) == CHOOSE s \in T : Cardinality({r \in T : <<r, s>> \in R}) = i - 1
  <2>1. q = [i \in 1..n |-> e(i)]
    BY DEF Ranked
  <2> HIDE DEF e, q
  <2> QED
    BY <2>1
<1> HIDE DEF rank, q
<1>9. \A i \in 1..n : q[i] \in T /\ rank[q[i]] = i - 1
  <2> SUFFICES ASSUME NEW i \in 1..n PROVE q[i] \in T /\ rank[q[i]] = i - 1
    OBVIOUS
  <2>1. i - 1 \in 0..(n - 1)
    BY <1>1
  <2> QED
    BY <1>7, <1>8, <2>1
<1>10. q \in [1..n -> T]
  <2> DEFINE f == [i \in 1..n |-> q[i]]
  <2>1. f \in [1..n -> T]
    BY <1>9
  <2> QED
    BY <1>0, <1>8, <2>1
<1>11. ASSUME NEW s \in T PROVE \E i \in 1..n : q[i] = s
  <2>1. rank[s] + 1 \in 1..n
    BY <1>1, <1>2
  <2>2. rank[q[rank[s] + 1]] = rank[s]
    BY <1>1, <1>2, <1>9, <2>1
  <2> QED
    BY <1>3, <1>9, <2>1, <2>2
<1>12. ASSUME NEW i \in 1..n, NEW j \in 1..n, i < j PROVE <<q[i], q[j]>> \in R
  <2>1. q[i] \in T /\ q[j] \in T /\ rank[q[i]] = i - 1 /\ rank[q[j]] = j - 1
    BY <1>9
  <2>2. q[i] # q[j] /\ ~ (<<q[j], q[i]>> \in R)
    BY <1>1, <1>2, <1>12, <2>1
  <2> QED
    BY <2>1, <2>2 DEF Sorts
<1> QED
  BY <1>10, <1>11, <1>12 DEF Enumerates, q

\* There is one such sequence.
LEMMA RankedOnly ==
  ASSUME NEW T, IsFiniteSet(T), NEW R, Sorts(R, T), NEW q, Enumerates(q, T, R)
  PROVE  q = Ranked(T, R)
<1> DEFINE n == Cardinality(T)
<1>1. n \in Nat
  BY FS_CardinalityType
<1>2. ASSUME NEW p, Enumerates(p, T, R), NEW i \in 1..n
      PROVE  Cardinality(AheadOf(T, R, p[i])) = i - 1
  <2> DEFINE A == AheadOf(T, R, p[i])
             f == [j \in 1..(i - 1) |-> p[j]]
  <2>1. /\ p \in [1..n -> T] /\ \A s \in T : \E j \in 1..n : p[j] = s
        /\ \A j, k \in 1..n : j < k => <<p[j], p[k]>> \in R
    BY <1>2 DEF Enumerates
  <2>2. \A j \in 1..(i - 1) : j \in 1..n /\ j < i
    BY <1>1
  <2>3. \A j \in 1..(i - 1) : f[j] \in A
    BY <2>1, <2>2 DEF AheadOf
  <2>4. ASSUME NEW s \in A PROVE \E j \in 1..(i - 1) : f[j] = s
    <3>1. PICK j \in 1..n : p[j] = s
      BY <2>1 DEF AheadOf
    <3>2. <<s, p[i]>> \in R /\ s \in T /\ p[i] \in T
      BY <2>1 DEF AheadOf
    <3>3. ~ (j = i) /\ ~ (i < j)
      BY <2>1, <3>1, <3>2 DEF Sorts
    <3>4. j \in 1..(i - 1)
      BY <1>1, <3>3
    <3> QED
      BY <3>1, <3>4
  <2>5. \A j, k \in 1..(i - 1) : f[j] = f[k] => j = k
    <3> SUFFICES ASSUME NEW j \in 1..(i - 1), NEW k \in 1..(i - 1), j # k PROVE f[j] # f[k]
      OBVIOUS
    <3>1. j \in 1..n /\ k \in 1..n /\ (j < k \/ k < j)
      BY <1>1
    <3>2. p[j] \in T /\ p[k] \in T /\ (<<p[j], p[k]>> \in R \/ <<p[k], p[j]>> \in R)
      BY <2>1, <3>1
    <3> QED
      BY <3>2 DEF Sorts
  <2>6. f \in Bijection(1..(i - 1), A)
    <3>1. f \in [1..(i - 1) -> A]
      BY <2>3
    <3> HIDE DEF f, A
    <3>2. f \in Injection(1..(i - 1), A)
      BY <2>5, <3>1 DEF Injection, IsInjective
    <3>3. f \in Surjection(1..(i - 1), A)
      BY <2>4, <3>1 DEF Surjection
    <3> QED
      BY <3>2, <3>3 DEF Bijection
  <2>7. ExistsBijection(1..(i - 1), A) /\ i - 1 \in Nat
    BY <1>1, <2>6 DEF ExistsBijection
  <2> HIDE DEF A
  <2>8. Cardinality(A) = i - 1
    BY <2>7, FS_CountingElements
  <2> QED
    BY <2>8 DEF A
<1>3. Enumerates(Ranked(T, R), T, R)
  BY RankedSorts
<1> DEFINE p == Ranked(T, R)
<1> HIDE DEF p
<1>4. ASSUME NEW i \in 1..n PROVE q[i] = p[i]
  <2>1. q[i] \in T /\ p[i] \in T
    BY <1>3 DEF Enumerates, p
  <2>2. Cardinality(AheadOf(T, R, q[i])) = Cardinality(AheadOf(T, R, p[i]))
    BY <1>2, <1>3 DEF p
  <2>3. Cardinality(AheadOf(T, R, q[i])) \in Int
    BY RanksGrow, <2>1, FS_CardinalityType
  <2>4. ~ (<<q[i], p[i]>> \in R) /\ ~ (<<p[i], q[i]>> \in R)
    BY RanksGrow, <2>1, <2>2, <2>3
  <2> QED
    BY <2>1, <2>4 DEF Sorts
<1>5. q \in [1..n -> T] /\ p \in [1..n -> T]
  BY <1>3 DEF Enumerates, p
<1>6. q = [i \in 1..n |-> q[i]] /\ p = [i \in 1..n |-> p[i]]
  BY <1>5
<1>7. [i \in 1..n |-> q[i]] = [i \in 1..n |-> p[i]]
  BY <1>4
<1> QED
  BY <1>6, <1>7 DEF p

\* Positions in their natural order.
Upward(I) == {ij \in I \X I : ij[1] < ij[2]}

LEMMA PositionsSort ==
  ASSUME NEW n \in Nat, NEW I \in SUBSET (1..n)
  PROVE  /\ IsFiniteSet(I) /\ Cardinality(I) \in Nat /\ Sorts(Upward(I), I)
         /\ Enumerates(Ranked(I, Upward(I)), I, Upward(I))
<1>1. IsFiniteSet(I) /\ Cardinality(I) \in Nat
  <2>1. IsFiniteSet(1..n)
    BY FS_Interval
  <2>2. IsFiniteSet(I)
    BY <2>1, FS_Subset
  <2> QED
    BY <2>2, FS_CardinalityType
<1>2. \A i, j \in I : <<i, j>> \in Upward(I) <=> i < j
  BY DEF Upward
<1>3. \A i \in I : i \in Int
  OBVIOUS
<1>4. Sorts(Upward(I), I)
  BY <1>2, <1>3 DEF Sorts
<1> QED
  BY <1>1, <1>4, RankedSorts

\* What is picked from a sorted sequence is sorted.
LEMMA PickedSorts ==
  ASSUME NEW T, IsFiniteSet(T), NEW R, Sorts(R, T), NEW q, Enumerates(q, T, R),
         NEW I \in SUBSET (1..Cardinality(T))
  PROVE  /\ Enumerates(Picked(q, I), {q[i] : i \in I}, R)
         /\ Cardinality({q[i] : i \in I}) = Cardinality(I)
         /\ Cardinality(I) \in Nat
<1> DEFINE n == Cardinality(T)
           at == Ranked(I, Upward(I))
           S == {q[i] : i \in I}
           m == Cardinality(I)
           p == Picked(q, I)
<1>1. n \in Nat
  BY FS_CardinalityType
<1>2. IsFiniteSet(I) /\ m \in Nat /\ Enumerates(at, I, Upward(I))
  BY <1>1, PositionsSort
<1>3. /\ at \in [1..m -> I] /\ \A i \in I : \E k \in 1..m : at[k] = i
      /\ \A k, l \in 1..m : k < l => at[k] < at[l]
  BY <1>2 DEF Enumerates, Upward
<1>4. /\ q \in [1..n -> T]
      /\ \A i, j \in 1..n : i < j => <<q[i], q[j]>> \in R
  BY DEF Enumerates
<1>5. p = [k \in 1..m |-> q[at[k]]]
  BY <1>3 DEF Picked, Upward
<1> HIDE DEF at, p
<1>6. \A k \in 1..m : at[k] \in I /\ at[k] \in 1..n /\ p[k] = q[at[k]] /\ p[k] \in S
  BY <1>3, <1>5
<1>7. ASSUME NEW k \in 1..m, NEW l \in 1..m, k < l PROVE <<p[k], p[l]>> \in R
  BY <1>3, <1>4, <1>6, <1>7
<1>8. ASSUME NEW s \in S PROVE \E k \in 1..m : p[k] = s
  BY <1>3, <1>6
<1>9. p \in [1..m -> S]
  BY <1>5, <1>6
<1>10. \A k, l \in 1..m : p[k] = p[l] => k = l
  <2> SUFFICES ASSUME NEW k \in 1..m, NEW l \in 1..m, k # l PROVE p[k] # p[l]
    OBVIOUS
  <2>1. k < l \/ l < k
    BY <1>2
  <2>2. <<p[k], p[l]>> \in R \/ <<p[l], p[k]>> \in R
    BY <1>7, <2>1
  <2>3. p[k] \in T
    BY <1>4, <1>6
  <2> QED
    BY <2>2, <2>3 DEF Sorts
<1> HIDE DEF S, m
<1>11. p \in Injection(1..m, S) /\ p \in Surjection(1..m, S)
  BY <1>8, <1>9, <1>10 DEF Injection, IsInjective, Surjection
<1>12. Cardinality(S) = m
  <2>1. ExistsBijection(1..m, S)
    BY <1>11 DEF Bijection, ExistsBijection
  <2> QED
    BY <1>2, <2>1, FS_CountingElements DEF m
<1>13. Enumerates(p, S, R)
  BY <1>7, <1>8, <1>9, <1>12 DEF Enumerates
<1> QED
  BY <1>2, <1>12, <1>13 DEF S, m, p

LEMMA Least ==
  ASSUME NEW T \in SUBSET Nat, T # {}
  PROVE  \E t \in T : \A s \in T : t <= s
<1> DEFINE less == {ss \in Nat \X Nat : ss[1] < ss[2]}
<1>1. IsWellFoundedOn(less, Nat)
  BY NatLessThanWellFounded DEF OpToRel
<1>2. PICK x \in T : \A y \in T : ~ (<<y, x>> \in less)
  <2> HIDE DEF less
  <2> QED
    BY <1>1, WFMin
<1>3. ASSUME NEW y \in T PROVE x <= y
  <2>1. x \in Nat /\ y \in Nat /\ ~ (<<y, x>> \in less)
    BY <1>2
  <2> QED
    BY <2>1
<1> QED
  BY <1>3

\* The loop over the authors

\* Each row's author has a first row, and one.
LEMMA OrderTells ==
  ASSUME NEW n \in Nat, NEW X, NEW rows \in [1..n -> X]
  PROVE  /\ Order(rows) \subseteq 1..n
         /\ \A i \in 1..n : \E f \in Order(rows) :
              f <= i /\ AuthorOf[rows[f]] = AuthorOf[rows[i]]
         /\ \A i, j \in Order(rows) : AuthorOf[rows[i]] = AuthorOf[rows[j]] => i = j
<1>1. Order(rows) \subseteq 1..n
  BY DEF Order
<1>2. ASSUME NEW i \in 1..n
      PROVE  \E f \in Order(rows) : f <= i /\ AuthorOf[rows[f]] = AuthorOf[rows[i]]
  <2> DEFINE T == {j \in 1..i : AuthorOf[rows[j]] = AuthorOf[rows[i]]}
  <2>1. T \in SUBSET Nat /\ T # {}
    OBVIOUS
  <2>2. PICK f \in T : \A j \in T : f <= j
    <3> HIDE DEF T
    <3> QED
      BY <2>1, Least
  <2>3. f \in 1..n /\ f <= i /\ AuthorOf[rows[f]] = AuthorOf[rows[i]]
    OBVIOUS
  <2>4. ASSUME NEW j \in 1..(f - 1) PROVE AuthorOf[rows[j]] # AuthorOf[rows[f]]
    <3>1. j \in 1..i /\ ~ (f <= j)
      BY <2>3
    <3>2. j \notin T
      BY <2>2, <3>1
    <3> QED
      BY <2>3, <3>1, <3>2
  <2>5. f \in Order(rows)
    BY <2>3, <2>4 DEF Order
  <2> QED
    BY <2>3, <2>5
<1>3. ASSUME NEW i \in Order(rows), NEW j \in Order(rows),
             AuthorOf[rows[i]] = AuthorOf[rows[j]]
      PROVE  i = j
  <2>1. i \in 1..n /\ j \in 1..n
    BY <1>1
  <2>2. ~ (i \in 1..(j - 1)) /\ ~ (j \in 1..(i - 1))
    BY <1>3, <2>1 DEF Order
  <2> QED
    BY <2>1, <2>2
<1> QED
  BY <1>1, <1>2, <1>3

\* Of positions with at most L up to them: they come before the others, and if they
\* are fewer than L they are all.
LEMMA FirstFill ==
  ASSUME NEW n \in Nat, NEW O \in SUBSET (1..n), NEW L \in Nat
  PROVE  LET J == {i \in O : Cardinality({j \in O : j <= i}) <= L} IN
         /\ \A i \in J, j \in O \ J : i < j
         /\ Cardinality(J) < L => J = O
<1> DEFINE upto(i) == {j \in O : j <= i}
           J == {i \in O : Cardinality(upto(i)) <= L}
<1>0. \A i \in O : i \in Int
  OBVIOUS
<1>1. ASSUME NEW U \in SUBSET O PROVE IsFiniteSet(U) /\ Cardinality(U) \in Nat
  <2>1. U \in SUBSET (1..n)
    OBVIOUS
  <2> QED
    BY <2>1, PositionsSort
<1>2. ASSUME NEW i \in J, NEW j \in O \ J PROVE i < j
  <2> SUFFICES ASSUME ~ (i < j) PROVE FALSE
    OBVIOUS
  <2>1. upto(j) \in SUBSET upto(i) /\ upto(i) \in SUBSET O /\ upto(j) \in SUBSET O
    <3>1. i \in Int /\ j \in Int /\ j <= i
      BY <1>0, <1>2
    <3>2. \A k \in O : k <= j => k <= i
      BY <1>0, <3>1
    <3> QED
      BY <3>2
  <2>2. Cardinality(upto(j)) <= Cardinality(upto(i)) /\ Cardinality(upto(i)) <= L
    <3>1. Cardinality(upto(i)) <= L
      BY <1>2
    <3> HIDE DEF upto
    <3> QED
      BY <1>1, <2>1, <3>1, FS_Subset
  <2>3. Cardinality(upto(j)) \in Nat /\ Cardinality(upto(i)) \in Nat
    BY <1>1, <2>1
  <2> HIDE DEF upto
  <2> QED
    BY <1>2, <2>2, <2>3
<1>3. ASSUME Cardinality(J) < L PROVE J = O
  <2> DEFINE m == Cardinality(O)
             at == Ranked(O, Upward(O))
  <2>1. m \in Nat /\ Enumerates(at, O, Upward(O))
    BY PositionsSort
  <2>2. /\ at \in [1..m -> O] /\ \A i \in O : \E k \in 1..m : at[k] = i
        /\ \A k, l \in 1..m : k < l => at[k] < at[l]
    BY <2>1 DEF Enumerates, Upward
  <2> HIDE DEF at, m
  <2>3. ASSUME NEW k \in 1..m PROVE Cardinality(upto(at[k])) = k
    <3> DEFINE f == [l \in 1..k |-> at[l]]
               U == upto(at[k])
    <3>1. \A l \in 1..k : l \in 1..m /\ at[l] \in O /\ at[l] \in Int /\ at[l] <= at[k]
      <4>1. \A l \in 1..k : l \in 1..m /\ (l = k \/ l < k)
        BY <2>1
      <4>2. \A l \in 1..m : at[l] \in O /\ at[l] \in Int
        BY <1>0, <2>2
      <4> QED
        BY <2>2, <4>1, <4>2
    <3>2. f \in [1..k -> U]
      BY <3>1
    <3>3. ASSUME NEW i \in U PROVE \E l \in 1..k : f[l] = i
      <4>1. PICK l \in 1..m : at[l] = i
        BY <2>2
      <4>2. i <= at[k] /\ at[k] \in Int /\ at[l] \in Int
        BY <1>0, <2>2
      <4>3. ~ (k < l)
        BY <2>2, <4>1, <4>2
      <4>4. l \in 1..k
        BY <2>1, <4>3
      <4> QED
        BY <4>1, <4>4
    <3>4. \A l, o \in 1..k : f[l] = f[o] => l = o
      <4> SUFFICES ASSUME NEW l \in 1..k, NEW o \in 1..k, l # o PROVE f[l] # f[o]
        OBVIOUS
      <4>1. l \in 1..m /\ o \in 1..m /\ (l < o \/ o < l)
        BY <3>1
      <4> QED
        BY <2>2, <3>1, <4>1
    <3> HIDE DEF f, U
    <3>5. f \in Injection(1..k, U) /\ f \in Surjection(1..k, U)
      BY <3>2, <3>3, <3>4 DEF Injection, IsInjective, Surjection
    <3>6. ExistsBijection(1..k, U) /\ k \in Nat
      BY <2>1, <3>5 DEF Bijection, ExistsBijection
    <3> QED
      BY <3>6, FS_CountingElements DEF U
  <2> HIDE DEF upto
  <2>4. \A k \in 1..m : k <= L <=> at[k] \in J
    BY <2>2, <2>3
  <2>5. ~ (L < m)
    <3> SUFFICES ASSUME L < m PROVE FALSE
      OBVIOUS
    <3> DEFINE f == [k \in 1..L |-> at[k]]
    <3>1. \A k \in 1..L : k \in 1..m /\ at[k] \in J
      BY <2>1, <2>4
    <3>2. \A k, l \in 1..L : f[k] = f[l] => k = l
      <4> SUFFICES ASSUME NEW k \in 1..L, NEW l \in 1..L, k # l PROVE f[k] # f[l]
        OBVIOUS
      <4>1. k \in 1..m /\ l \in 1..m /\ (k < l \/ l < k)
        BY <3>1
      <4>2. at[k] \in Int /\ at[l] \in Int
        BY <1>0, <2>2, <4>1
      <4> QED
        BY <2>2, <4>1, <4>2
    <3>3. f \in [1..L -> J]
      BY <3>1
    <3>4. IsFiniteSet(J) /\ Cardinality(J) \in Nat
      BY <1>1
    <3> HIDE DEF f, J
    <3>5. f \in Injection(1..L, J)
      BY <3>2, <3>3 DEF Injection, IsInjective
    <3>6. Cardinality(1..L) <= Cardinality(J) /\ Cardinality(1..L) = L
      BY <3>4, <3>5, FS_Injection, FS_Interval
    <3> QED
      BY <1>3, <3>4, <3>6
  <2>6. \A k \in 1..m : at[k] \in J
    BY <2>1, <2>4, <2>5
  <2> QED
    BY <2>2, <2>6
<1> QED
  BY <1>2, <1>3

\* The order of the rows among a set T of visible Stories.
RowOrder(T) ==
  {rs \in T \X T : Precedes(RowKey(Visible(Stories), rs[1]), RowKey(Visible(Stories), rs[2]))}

LEMMA RowsSorted ==
  ASSUME FeedTypeOK, Dated, NEW includeMuted \in BOOLEAN
  PROVE  LET T == Shown(Visible(Stories), includeMuted) IN
         /\ T \subseteq Visible(Stories) /\ IsFiniteSet(T) /\ Cardinality(T) \in Nat
         /\ Sorts(RowOrder(T), T)
         /\ Enumerates(Rows(Stories, includeMuted), T, RowOrder(T))
         /\ \A r, s \in T : <<r, s>> \in RowOrder(T) =>
              IF AuthorOf[r] = AuthorOf[s] THEN published[r] < published[s]
              ELSE \/ AuthorOf[r] = Me
                   \/ AuthorOf[s] # Me /\ ~ Ahead(AuthorOf[s], AuthorOf[r])
<1> DEFINE V == Visible(Stories)
           T == Shown(V, includeMuted)
           first(r, s) == Precedes(RowKey(V, r), RowKey(V, s))
<1>1. T \subseteq V /\ V \subseteq Stories
  BY DEF Shown, Visible
<1>2. IsFiniteSet(T) /\ Cardinality(T) \in Nat
  <2>1. T \in SUBSET Stories
    BY <1>1
  <2> HIDE DEF T
  <2> QED
    BY <2>1, FeedBounds, FS_Subset, FS_CardinalityType
<1>3. /\ \A r, s \in V : r # s => (first(r, s) <=> ~ first(s, r))
      /\ \A r, s, t \in V : first(r, s) /\ first(s, t) => first(r, t)
      /\ \A r, s \in V : first(r, s) =>
           IF AuthorOf[r] = AuthorOf[s] THEN published[r] < published[s]
           ELSE \/ AuthorOf[r] = Me
                \/ AuthorOf[s] # Me /\ ~ Ahead(AuthorOf[s], AuthorOf[r])
  BY KeyOrders DEF RowsOrdered
<1>4. \A r, s \in T : <<r, s>> \in RowOrder(T) <=> first(r, s)
  BY DEF RowOrder
<1>5. \A r \in V : ~ first(r, r)
  <2>1. \A r \in V : published[r] \in Int
    BY StoriesTyped
  <2> HIDE DEF first, V
  <2> QED
    BY <1>3, <2>1
<1>6. Rows(Stories, includeMuted) = Ranked(T, RowOrder(T))
  BY DEF Rows, RowOrder
<1> HIDE DEF first, T, V
<1>7. Sorts(RowOrder(T), T)
  BY <1>1, <1>3, <1>4, <1>5 DEF Sorts
<1>8. Enumerates(Rows(Stories, includeMuted), T, RowOrder(T))
  BY <1>2, <1>6, <1>7, RankedSorts
<1>9. \A r, s \in T : <<r, s>> \in RowOrder(T) =>
        IF AuthorOf[r] = AuthorOf[s] THEN published[r] < published[s]
        ELSE \/ AuthorOf[r] = Me
             \/ AuthorOf[s] # Me /\ ~ Ahead(AuthorOf[s], AuthorOf[r])
  BY <1>1, <1>3, <1>4
<1> QED
  BY <1>1, <1>2, <1>7, <1>8, <1>9 DEF T, V

\* A group holds what rows hold of its author, in their order.
LEMMA GroupKeeps ==
  ASSUME NEW T, IsFiniteSet(T), NEW R, Sorts(R, T), NEW rows, Enumerates(rows, T, R), NEW a
  PROVE  /\ Group(rows, a).author = a
         /\ Enumerates(Group(rows, a).items, Of(T, a), R)
         /\ Group(rows, a).unseen <=> Of(T, a) \ seen # {}
<1> DEFINE n == Cardinality(T)
           I == {i \in DOMAIN rows : AuthorOf[rows[i]] = a}
           items == Picked(rows, I)
<1>1. rows \in [1..n -> T] /\ \A s \in T : \E i \in 1..n : rows[i] = s
  BY DEF Enumerates
<1>2. I \in SUBSET (1..n)
  BY <1>1
<1>3. {rows[i] : i \in I} = Of(T, a)
  BY <1>1 DEF Of
<1>4. Enumerates(items, Of(T, a), R)
  <2> HIDE DEF I
  <2> QED
    BY <1>2, <1>3, PickedSorts
<1>5. /\ Group(rows, a).author = a /\ Group(rows, a).items = items
      /\ Group(rows, a).unseen = \E i \in DOMAIN items : items[i] \notin seen
  BY DEF Group
<1>6. (\E i \in DOMAIN items : items[i] \notin seen) <=> Of(T, a) \ seen # {}
  <2>1. /\ items \in [1..Cardinality(Of(T, a)) -> Of(T, a)]
        /\ \A s \in Of(T, a) : \E i \in 1..Cardinality(Of(T, a)) : items[i] = s
    BY <1>4 DEF Enumerates
  <2> HIDE DEF items
  <2> QED
    BY <2>1
<1> QED
  BY <1>4, <1>5, <1>6

\* An author's Stories in the order of the rows are in the order of publication.
LEMMA GroupChronological ==
  ASSUME FeedTypeOK, Dated, NEW includeMuted \in BOOLEAN, NEW a
  PROVE  LET T == Shown(Visible(Stories), includeMuted)
             items == Group(Rows(Stories, includeMuted), a).items
         IN /\ Members(items) = Of(T, a)
            /\ Chronological(items)
<1> DEFINE T == Shown(Visible(Stories), includeMuted)
           m == Cardinality(Of(T, a))
           items == Group(Rows(Stories, includeMuted), a).items
<1>1. /\ Enumerates(items, Of(T, a), RowOrder(T))
      /\ \A r, s \in T : <<r, s>> \in RowOrder(T) /\ AuthorOf[r] = AuthorOf[s]
                         => published[r] < published[s]
  BY RowsSorted, GroupKeeps
<1>2. /\ items \in [1..m -> Of(T, a)] /\ \A s \in Of(T, a) : \E i \in 1..m : items[i] = s
      /\ \A i, j \in 1..m : i < j => <<items[i], items[j]>> \in RowOrder(T)
  BY <1>1 DEF Enumerates
<1> HIDE DEF items, m
<1>3. \A i \in 1..m : items[i] \in T /\ AuthorOf[items[i]] = a
  BY <1>2 DEF Of
<1>4. Chronological(items)
  BY <1>1, <1>2, <1>3 DEF Chronological
<1>5. Members(items) = Of(T, a)
  BY <1>2 DEF Members
<1> QED
  BY <1>4, <1>5 DEF items

\* Which groups there are.
LEMMA GatheredGroups ==
  ASSUME FeedTypeOK, Dated, NEW includeMuted \in BOOLEAN, NEW limit \in 0..(MaxLimit + 1)
  PROVE  LET T == Shown(Visible(Stories), includeMuted)
             rows == Rows(Stories, includeMuted)
             J == {i \in InLimit(rows, limit) : AuthorOf[rows[i]] # Me}
             groups == Gathered(rows, limit).groups
         IN /\ J \subseteq Order(rows) /\ Order(rows) \subseteq 1..Cardinality(T)
            /\ \E at \in [1..Cardinality(J) -> J] :
                 /\ \A i \in J : \E k \in 1..Cardinality(J) : at[k] = i
                 /\ \A k, l \in 1..Cardinality(J) : k < l => at[k] < at[l]
                 /\ groups = [k \in 1..Cardinality(J) |-> Group(rows, AuthorOf[rows[at[k]]])]
            /\ Cardinality(J) \in Nat
            /\ Cardinality({AuthorOf[rows[i]] : i \in J}) = Cardinality(J)
            /\ \A i \in J, j \in Order(rows) : AuthorOf[rows[j]] # Me /\ j \notin J => i < j
            /\ Cardinality(J) < LimitOf(limit) =>
                 \A j \in Order(rows) : AuthorOf[rows[j]] # Me => j \in J
<1> DEFINE T == Shown(Visible(Stories), includeMuted)
           rows == Rows(Stories, includeMuted)
           n == Cardinality(T)
           L == LimitOf(limit)
           O == {i \in Order(rows) : AuthorOf[rows[i]] # Me}
           J == {i \in InLimit(rows, limit) : AuthorOf[rows[i]] # Me}
           m == Cardinality(J)
           at == Ranked(J, Upward(J))
<1>1. n \in Nat /\ Enumerates(rows, T, RowOrder(T)) /\ rows \in [1..n -> T]
  BY RowsSorted DEF Enumerates
<1>2. L \in Nat
  BY FeedAssumption DEF FeedAssumption, LimitOf
<1> HIDE DEF rows, n, L
<1>3. Order(rows) \subseteq 1..n
      /\ \A i, j \in Order(rows) : AuthorOf[rows[i]] = AuthorOf[rows[j]] => i = j
  BY <1>1, OrderTells
<1>4. O \in SUBSET (1..n) /\ J \subseteq O
  BY <1>3 DEF InLimit
<1>5. J = {i \in O : Cardinality({j \in O : j <= i}) <= L}
  <2>1. \A i : OtherAuthors(rows, i) = {j \in O : j <= i}
    BY DEF OtherAuthors
  <2> QED
    BY <2>1 DEF InLimit, L
<1>6. J \in SUBSET (1..n)
  BY <1>4
<1>7. m \in Nat /\ Enumerates(at, J, Upward(J))
  BY <1>1, <1>6, PositionsSort
<1>8. /\ at \in [1..m -> J] /\ \A i \in J : \E k \in 1..m : at[k] = i
      /\ \A k, l \in 1..m : k < l => at[k] < at[l]
  BY <1>7 DEF Enumerates, Upward
<1>9. Gathered(rows, limit).groups
        = [k \in 1..m |-> Group(rows, AuthorOf[rows[at[k]]])]
  <2> DEFINE taken == Picked(rows, J)
  <2>1. taken = [k \in 1..m |-> rows[at[k]]]
    BY <1>8 DEF Picked, Upward
  <2>2. Gathered(rows, limit).groups = [k \in DOMAIN taken |-> Group(rows, AuthorOf[taken[k]])]
    BY DEF Gathered
  <2> HIDE DEF taken, J, at, m
  <2> QED
    BY <2>1, <2>2
<1>10. /\ \A i \in J, j \in O \ J : i < j
       /\ m < L => J = O
  <2> DEFINE K == {i \in O : Cardinality({j \in O : j <= i}) <= L}
  <2> HIDE DEF O
  <2>1. /\ \A i \in K, j \in O \ K : i < j
        /\ Cardinality(K) < L => K = O
    BY ONLY <1>1, <1>2, <1>4, FirstFill
  <2>2. J = K
    BY <1>5
  <2> HIDE DEF J, K
  <2> QED
    BY <2>1, <2>2
<1>11. Cardinality({AuthorOf[rows[i]] : i \in J}) = m
  <2> DEFINE A == {AuthorOf[rows[i]] : i \in J}
             f == [i \in J |-> AuthorOf[rows[i]]]
  <2>1. \A i, j \in J : f[i] = f[j] => i = j
    BY <1>3, <1>4
  <2>2. f \in [J -> A] /\ \A a \in A : \E i \in J : f[i] = a
    OBVIOUS
  <2>3. IsFiniteSet(J)
    BY <1>1, <1>6, PositionsSort
  <2> HIDE DEF A, f, J
  <2>4. f \in Bijection(J, A)
    BY <2>1, <2>2 DEF Injection, IsInjective, Surjection, Bijection
  <2>5. Cardinality(A) = Cardinality(J)
    BY <2>3, <2>4, FS_Bijection DEF ExistsBijection
  <2> QED
    BY <2>5 DEF A
<1> HIDE DEF J, at
<1>12. J \subseteq Order(rows)
  BY <1>4
<1>13. \A i \in J, j \in Order(rows) : AuthorOf[rows[j]] # Me /\ j \notin J => i < j
  BY <1>10
<1>14. m < L => \A j \in Order(rows) : AuthorOf[rows[j]] # Me => j \in J
  BY <1>10
<1> QED
  BY <1>3, <1>7, <1>8, <1>9, <1>11, <1>12, <1>13, <1>14 DEF J, rows, n, L

\* The viewer's own Stories are never beyond the limit: their rows come first.
LEMMA OwnReached ==
  ASSUME FeedTypeOK, Dated, NEW includeMuted \in BOOLEAN, NEW limit \in 0..(MaxLimit + 1)
  PROVE  LET rows == Rows(Stories, includeMuted)
             me == Gathered(rows, limit).me
         IN Members(me) = Of(Visible(Stories), Me) /\ Chronological(me)
<1> DEFINE V == Visible(Stories)
           T == Shown(V, includeMuted)
           rows == Rows(Stories, includeMuted)
           n == Cardinality(T)
           reached == InLimit(rows, limit)
           me == Gathered(rows, limit).me
           own == Group(rows, Me).items
<1>1. /\ n \in Nat /\ rows \in [1..n -> T]
      /\ \A s \in T : \E i \in 1..n : rows[i] = s
      /\ \A i, j \in 1..n : i < j => <<rows[i], rows[j]>> \in RowOrder(T)
      /\ \A r, s \in T : <<r, s>> \in RowOrder(T) /\ AuthorOf[s] = Me => AuthorOf[r] = Me
  BY RowsSorted DEF Enumerates
<1>2. Of(T, Me) = Of(V, Me)
  BY DEF Of, Shown
<1>3. Members(own) = Of(V, Me) /\ Chronological(own)
  BY <1>2, GroupChronological
<1>4. me = IF \E i \in reached : AuthorOf[rows[i]] = Me THEN own ELSE <<>>
  BY DEF Gathered
<1> HIDE DEF rows, n, own, me, T
<1>0. \A i \in 1..n : \E f \in Order(rows) : f <= i /\ AuthorOf[rows[f]] = AuthorOf[rows[i]]
  BY ONLY <1>1, OrderTells
<1>5. CASE \E i \in reached : AuthorOf[rows[i]] = Me
  BY <1>3, <1>4, <1>5 DEF me, rows
<1>6. CASE ~ \E i \in reached : AuthorOf[rows[i]] = Me
  <2>1. me = <<>>
    BY <1>4, <1>6
  <2>2. Members(me) = {} /\ Chronological(me)
    BY <2>1 DEF Members, Chronological
  <2>3. Of(V, Me) = {}
    <3> SUFFICES ASSUME NEW s \in Of(V, Me) PROVE FALSE
      OBVIOUS
    <3>1. s \in T /\ AuthorOf[s] = Me
      BY <1>2 DEF Of
    <3>2. PICK i \in 1..n : rows[i] = s
      BY <1>1, <3>1
    <3>3. PICK f \in Order(rows) : f <= i /\ AuthorOf[rows[f]] = Me
      BY <1>0, <3>1, <3>2
    <3>4. f \in 1..n /\ Order(rows) \subseteq 1..n
      BY <1>1, OrderTells
    <3>5. OtherAuthors(rows, f) = {}
      <4> SUFFICES ASSUME NEW j \in OtherAuthors(rows, f) PROVE FALSE
        OBVIOUS
      <4>1. j \in 1..n /\ j <= f /\ AuthorOf[rows[j]] # Me
        BY <3>4 DEF OtherAuthors
      <4>2. j < f
        BY <3>3, <3>4, <4>1
      <4> QED
        BY <1>1, <3>3, <3>4, <4>1, <4>2
    <3>6. Cardinality(OtherAuthors(rows, f)) <= LimitOf(limit)
      <4>1. LimitOf(limit) \in Nat
        BY FeedAssumption DEF FeedAssumption, LimitOf
      <4> QED
        BY <3>5, <4>1, FS_EmptySet
    <3>7. f \in reached
      BY <3>3, <3>6 DEF InLimit
    <3> QED
      BY <1>6, <3>3, <3>7
  <2> QED
    BY <2>2, <2>3 DEF me, rows
<1> QED
  BY <1>5, <1>6

\* What FeedOrdered says of one feed.
LEMMA FeedOfOrdered ==
  ASSUME FeedTypeOK, Dated, NEW includeMuted \in BOOLEAN, NEW limit \in 0..(MaxLimit + 1)
  PROVE  LET V == Visible(Stories)
             groups == Gathered(Rows(Stories, includeMuted), limit).groups
             authors == {groups[i].author : i \in DOMAIN groups}
             eligible == {a \in {AuthorOf[s] : s \in V} \ {Me} :
                            includeMuted \/ a \notin muted}
         IN /\ authors \subseteq eligible
            /\ Len(groups) = Cardinality(authors)
            /\ Len(groups) < LimitOf(limit) => authors = eligible
            /\ \A i, j \in DOMAIN groups :
                 i < j => ~ Ahead(groups[j].author, groups[i].author)
            /\ \A a \in authors, b \in eligible \ authors : ~ Ahead(b, a)
            /\ \A i \in DOMAIN groups :
                 /\ Members(groups[i].items) = Of(V, groups[i].author)
                 /\ Chronological(groups[i].items)
<1> DEFINE V == Visible(Stories)
           T == Shown(V, includeMuted)
           rows == Rows(Stories, includeMuted)
           n == Cardinality(T)
           J == {i \in InLimit(rows, limit) : AuthorOf[rows[i]] # Me}
           m == Cardinality(J)
           groups == Gathered(rows, limit).groups
           authors == {groups[i].author : i \in DOMAIN groups}
           eligible == {a \in {AuthorOf[s] : s \in V} \ {Me} : includeMuted \/ a \notin muted}
<1>1. /\ n \in Nat /\ rows \in [1..n -> T]
      /\ \A s \in T : \E i \in 1..n : rows[i] = s
      /\ \A i, j \in 1..n : i < j => <<rows[i], rows[j]>> \in RowOrder(T)
      /\ \A r, s \in T : <<r, s>> \in RowOrder(T) /\ AuthorOf[r] # AuthorOf[s]
                         /\ AuthorOf[r] # Me => ~ Ahead(AuthorOf[s], AuthorOf[r])
  BY RowsSorted DEF Enumerates
<1>2. /\ J \subseteq Order(rows) /\ Order(rows) \subseteq 1..n /\ m \in Nat
      /\ Cardinality({AuthorOf[rows[i]] : i \in J}) = m
      /\ \A i \in J, j \in Order(rows) : AuthorOf[rows[j]] # Me /\ j \notin J => i < j
      /\ m < LimitOf(limit) => \A j \in Order(rows) : AuthorOf[rows[j]] # Me => j \in J
  BY GatheredGroups
<1>3. PICK at \in [1..m -> J] :
        /\ \A i \in J : \E k \in 1..m : at[k] = i
        /\ \A k, l \in 1..m : k < l => at[k] < at[l]
        /\ groups = [k \in 1..m |-> Group(rows, AuthorOf[rows[at[k]]])]
  BY GatheredGroups
<1>4. \A a : Group(rows, a).author = a
  BY DEF Group
<1>5. \A s \in V : s \in T <=> (includeMuted \/ AuthorOf[s] \notin muted \/ AuthorOf[s] = Me)
  BY DEF Shown
<1>6. \A i \in J : AuthorOf[rows[i]] # Me
  OBVIOUS
<1>7. \A i, j \in Order(rows) : AuthorOf[rows[i]] = AuthorOf[rows[j]] => i = j
  BY <1>1, OrderTells
<1>9. T \subseteq V
  BY DEF Shown
<1>10. \A a : /\ Members(Group(rows, a).items) = Of(T, a)
              /\ Chronological(Group(rows, a).items)
  BY GroupChronological
<1> HIDE DEF rows, n, J, m, groups, T, V
<1>8. \A i \in 1..n : \E f \in Order(rows) : AuthorOf[rows[f]] = AuthorOf[rows[i]]
  <2>1. \A i \in 1..n : \E f \in Order(rows) :
          f <= i /\ AuthorOf[rows[f]] = AuthorOf[rows[i]]
    BY ONLY <1>1, OrderTells
  <2> QED
    BY <2>1
<1>11. /\ DOMAIN groups = 1..m
       /\ \A k \in 1..m : /\ groups[k] = Group(rows, AuthorOf[rows[at[k]]])
                          /\ groups[k].author = AuthorOf[rows[at[k]]]
                          /\ at[k] \in J /\ at[k] \in Order(rows) /\ at[k] \in 1..n
  BY <1>2, <1>3, <1>4
<1>12. authors = {AuthorOf[rows[i]] : i \in J}
  BY <1>3, <1>11
<1>13. Len(groups) = m
  BY <1>2, <1>11
<1>14. \A a \in eligible : \E f \in Order(rows) : AuthorOf[rows[f]] = a
  <2> SUFFICES ASSUME NEW a \in eligible
               PROVE  \E f \in Order(rows) : AuthorOf[rows[f]] = a
    OBVIOUS
  <2>1. PICK s \in V : AuthorOf[s] = a
    OBVIOUS
  <2>2. s \in T
    BY <1>5, <2>1
  <2> QED
    BY <1>1, <1>8, <2>1, <2>2
<1>15. authors \subseteq eligible
  <2> SUFFICES ASSUME NEW i \in J PROVE AuthorOf[rows[i]] \in eligible
    BY <1>12
  <2>1. rows[i] \in T /\ AuthorOf[rows[i]] # Me
    BY <1>1, <1>2, <1>6
  <2> QED
    BY <1>5, <1>9, <2>1
<1>16. Len(groups) < LimitOf(limit) => authors = eligible
  <2> SUFFICES ASSUME m < LimitOf(limit), NEW a \in eligible PROVE a \in authors
    BY <1>13, <1>15
  <2>1. PICK f \in Order(rows) : AuthorOf[rows[f]] = a
    BY <1>14
  <2>2. f \in J
    BY <1>2, <2>1
  <2> QED
    BY <1>12, <2>1, <2>2
<1>17. \A i, j \in Order(rows) : i < j /\ AuthorOf[rows[i]] # Me =>
         ~ Ahead(AuthorOf[rows[j]], AuthorOf[rows[i]])
  <2> SUFFICES ASSUME NEW i \in Order(rows), NEW j \in Order(rows), i < j,
                      AuthorOf[rows[i]] # Me
               PROVE  ~ Ahead(AuthorOf[rows[j]], AuthorOf[rows[i]])
    OBVIOUS
  <2>1. i \in 1..n /\ j \in 1..n /\ i # j
    BY <1>1, <1>2
  <2>2. AuthorOf[rows[i]] # AuthorOf[rows[j]]
    BY <1>7, <2>1
  <2> QED
    BY <1>1, <2>1, <2>2
<1>18. ASSUME NEW i \in DOMAIN groups, NEW j \in DOMAIN groups, i < j
       PROVE  ~ Ahead(groups[j].author, groups[i].author)
  BY <1>3, <1>6, <1>11, <1>17, <1>18
<1>19. ASSUME NEW a \in authors, NEW b \in eligible \ authors PROVE ~ Ahead(b, a)
  <2>1. PICK i \in J : AuthorOf[rows[i]] = a
    BY <1>12
  <2>2. PICK j \in Order(rows) : AuthorOf[rows[j]] = b
    BY <1>14
  <2>3. j \notin J /\ b # Me
    BY <1>12, <2>2
  <2>4. i < j /\ i \in Order(rows) /\ a # Me
    BY <1>2, <1>6, <2>1, <2>2, <2>3
  <2> QED
    BY <1>17, <2>1, <2>2, <2>4
<1>20. ASSUME NEW i \in DOMAIN groups
       PROVE  /\ Members(groups[i].items) = Of(V, groups[i].author)
              /\ Chronological(groups[i].items)
  <2> DEFINE a == AuthorOf[rows[at[i]]]
  <2>1. groups[i] = Group(rows, a) /\ groups[i].author = a
    BY <1>11
  <2>2. a \in eligible
    BY <1>11, <1>12, <1>15
  <2>3. Of(T, a) = Of(V, a)
    BY <1>5, <1>9, <2>2 DEF Of
  <2> QED
    BY <1>10, <2>1, <2>3
<1> HIDE DEF authors, eligible
<1>21. /\ Len(groups) = Cardinality(authors)
  BY <1>2, <1>12, <1>13
<1> QED
  BY <1>15, <1>16, <1>18, <1>19, <1>20, <1>21 DEF authors, eligible, groups, rows, V

LEMMA OrderKept == ASSUME FeedTypeOK, Dated PROVE FeedOrdered
<1> SUFFICES ASSUME NEW includeMuted \in BOOLEAN, NEW limit \in 0..(MaxLimit + 1)
    PROVE  LET V == Visible(Stories)
               rows == Rows(Stories, includeMuted)
               eligible == {a \in {AuthorOf[s] : s \in V} \ {Me} :
                              includeMuted \/ a \notin muted}
               feed == Gathered(rows, limit)
               authors == {feed.groups[i].author : i \in DOMAIN feed.groups}
           IN /\ Members(feed.me) = Of(V, Me) /\ Chronological(feed.me)
              /\ authors \subseteq eligible
              /\ Len(feed.groups) = Cardinality(authors)
              /\ Len(feed.groups) < LimitOf(limit) => authors = eligible
              /\ \A i, j \in DOMAIN feed.groups :
                   i < j => ~Ahead(feed.groups[j].author, feed.groups[i].author)
              /\ \A a \in authors, b \in eligible \ authors : ~Ahead(b, a)
              /\ \A i \in DOMAIN feed.groups :
                   /\ Members(feed.groups[i].items) = Of(V, feed.groups[i].author)
                   /\ Chronological(feed.groups[i].items)
  BY DEF FeedOrdered
<1> QED
  BY OwnReached, FeedOfOrdered

\* The feed and an author's page put his Stories in one order.
LEMMA PageMatchesGroup ==
  ASSUME FeedTypeOK, Dated, NEW a \in Authors \ {Me}
  PROVE  Group(Rows(Stories, TRUE), a) = AuthorSequence(Stories, a)
<1> DEFINE V == Visible(Stories)
           T == Shown(V, TRUE)
           U == Of(V, a)
           P == {rs \in U \X U : published[rs[1]] < published[rs[2]]}
           rows == Rows(Stories, TRUE)
           old == OldestFirst(U)
<1>1. T = V
  BY DEF Shown
<1>2. /\ IsFiniteSet(T) /\ Sorts(RowOrder(T), T) /\ Enumerates(rows, T, RowOrder(T))
      /\ \A r, s \in T : <<r, s>> \in RowOrder(T) /\ AuthorOf[r] = AuthorOf[s]
                         => published[r] < published[s]
  BY RowsSorted
<1>3. U \subseteq T /\ IsFiniteSet(U)
  <2>1. U \in SUBSET T
    BY <1>1 DEF Of
  <2> HIDE DEF U, T
  <2> QED
    BY <1>2, <2>1, FS_Subset
<1>4. Sorts(P, U)
  <2>1. \A s \in U : published[s] \in Int /\ s \in Stories /\ AuthorOf[s] = a /\ s \in live
    BY StoriesTyped DEF Of
  <2>2. \A r, s \in U : r # s => published[r] # published[s]
    BY <2>1 DEF Dated
  <2>3. \A r, s \in U : <<r, s>> \in P <=> published[r] < published[s]
    OBVIOUS
  <2> HIDE DEF P, U
  <2> QED
    BY <2>1, <2>2, <2>3 DEF Sorts
<1>5. Of(T, a) = U /\ Of(U, a) = U
  BY <1>1 DEF Of
<1>6. Enumerates(Group(rows, a).items, U, RowOrder(T))
  BY <1>2, <1>5, GroupKeeps
<1>7. Enumerates(Group(rows, a).items, U, P)
  <2> DEFINE q == Group(rows, a).items
  <2>1. /\ q \in [1..Cardinality(U) -> U]
        /\ \A s \in U : \E i \in 1..Cardinality(U) : q[i] = s
        /\ \A i, j \in 1..Cardinality(U) : i < j => <<q[i], q[j]>> \in RowOrder(T)
    BY <1>6 DEF Enumerates
  <2>2. \A r, s \in U : <<r, s>> \in RowOrder(T) => <<r, s>> \in P
    <3>1. \A r \in U : AuthorOf[r] = a
      BY DEF Of
    <3> QED
      BY <1>2, <1>3, <3>1
  <2> HIDE DEF q, P, U, T
  <2> QED
    BY <2>1, <2>2 DEF Enumerates, q
<1>8. Enumerates(old, U, P)
  <2>1. old = Ranked(U, P)
    BY DEF OldestFirst
  <2> HIDE DEF U, P
  <2> QED
    BY <1>3, <1>4, <2>1, RankedSorts
<1>9. AuthorSequence(Stories, a) = Group(old, a)
  BY DEF AuthorSequence
<1>10. /\ Enumerates(Group(old, a).items, U, P)
       /\ Group(old, a).unseen <=> U \ seen # {}
  <2> HIDE DEF U, P, old
  <2> QED
    BY <1>3, <1>4, <1>5, <1>8, GroupKeeps
<1>11. Group(rows, a).items = Group(old, a).items
  <2> HIDE DEF U, P, old, rows
  <2> QED
    BY <1>3, <1>4, <1>7, <1>10, RankedOnly
<1>12. Group(rows, a) = Group(old, a)
  <2> HIDE DEF rows, old
  <2> QED
    BY <1>11 DEF Group
<1> QED
  BY <1>9, <1>12

LEMMA RingsAgree == ASSUME FeedTypeOK, Dated PROVE RingsMatchFeed
<1> DEFINE V == Visible(Stories)
           rows == Rows(Stories, TRUE)
           groups == Gathered(rows, MaxLimit).groups
<1> SUFFICES ASSUME NEW a \in Authors \ {Me}
    PROVE  LET ring == RingStatus(Stories, a) IN
           /\ ring.active = (AuthorSequence(Stories, a).items # <<>>)
           /\ \A i \in DOMAIN groups : groups[i].author = a =>
                /\ groups[i] = AuthorSequence(Stories, a)
                /\ ring.active /\ ring.unseen = groups[i].unseen
  BY DEF RingsMatchFeed, FeedOf
<1> DEFINE ring == RingStatus(Stories, a)
           page == AuthorSequence(Stories, a)
<1>1. page = Group(rows, a)
  BY PageMatchesGroup
<1>2. /\ ring.active = (Of(V, a) # {}) /\ ring.unseen = (Of(V, a) \ seen # {})
  BY DEF RingStatus, HasUnseen
<1>3. Shown(V, TRUE) = V
  BY DEF Shown
<1>4. /\ Enumerates(Group(rows, a).items, Of(V, a), RowOrder(V))
      /\ Group(rows, a).unseen <=> Of(V, a) \ seen # {}
  <2>1. IsFiniteSet(V) /\ Sorts(RowOrder(V), V) /\ Enumerates(rows, V, RowOrder(V))
    BY <1>3, RowsSorted
  <2> HIDE DEF V, rows
  <2> QED
    BY <2>1, GroupKeeps
<1>5. Of(V, a) # {} <=> page.items # <<>>
  <2> DEFINE q == page.items
             k == Cardinality(Of(V, a))
  <2>1. q \in [1..k -> Of(V, a)] /\ \A s \in Of(V, a) : \E i \in 1..k : q[i] = s
    BY <1>1, <1>4 DEF Enumerates
  <2>2. Of(V, a) = {} => q = <<>>
    <3> SUFFICES ASSUME Of(V, a) = {} PROVE q = <<>>
      OBVIOUS
    <3>1. k = 0
      BY FS_EmptySet
    <3>2. q \in [1..0 -> Of(V, a)] /\ 1..0 = {}
      BY <2>1, <3>1
    <3> HIDE DEF q
    <3> QED
      BY <3>2
  <2>3. Of(V, a) # {} => q # <<>>
    <3> SUFFICES ASSUME NEW s \in Of(V, a) PROVE q # <<>>
      OBVIOUS
    <3>1. PICK i \in 1..k : q[i] = s
      BY <2>1
    <3>2. DOMAIN q # {}
      BY <2>1, <3>1
    <3> HIDE DEF q
    <3> QED
      BY <3>2
  <2> QED
    BY <2>2, <2>3
<1>6. ASSUME NEW i \in DOMAIN groups, groups[i].author = a
      PROVE  groups[i] = page /\ Of(V, a) # {}
  <2>1. MaxLimit \in 0..(MaxLimit + 1)
    BY FeedBounds
  <2>2. \A k \in DOMAIN groups : groups[k] = Group(rows, groups[k].author)
    <3> DEFINE J == {k \in InLimit(rows, MaxLimit) : AuthorOf[rows[k]] # Me}
    <3>1. PICK at \in [1..Cardinality(J) -> J] :
            groups = [k \in 1..Cardinality(J) |-> Group(rows, AuthorOf[rows[at[k]]])]
      BY <2>1, GatheredGroups
    <3>2. \A b : Group(rows, b).author = b
      BY DEF Group
    <3> HIDE DEF J, groups, rows
    <3> QED
      BY <3>1, <3>2
  <2>3. groups[i] = Group(rows, a)
    BY <1>6, <2>2
  <2>4. a \in {AuthorOf[s] : s \in V}
    BY <1>6, <2>1, FeedOfOrdered
  <2>5. Of(V, a) # {}
    BY <2>4 DEF Of
  <2> QED
    BY <1>1, <2>3, <2>5
<1>8. Group(rows, a).unseen = (Of(V, a) \ seen # {})
  BY <1>4 DEF Group
<1> HIDE DEF ring, page, groups, rows, V
<1>7. ASSUME NEW i \in DOMAIN groups, groups[i].author = a
      PROVE  groups[i] = page /\ ring.active /\ ring.unseen = groups[i].unseen
  BY <1>1, <1>2, <1>6, <1>7, <1>8
<1> QED
  BY <1>2, <1>5, <1>7 DEF ring, page

\* Whatever the limit, the feed has the promised order and leaves out only those at
\* its end, each group is all its author shows, oldest first, the author's page and
\* ring say the same, and no answer tells of what is hidden (Feed, AuthorSequence,
\* RingStatuses, FeedVersion).
THEOREM FeedAsPromisedHolds == FeedSpec => []FeedAsPromised
<1>1. FeedInit => Dated
  BY DEF FeedInit, Dated
<1>2. Dated /\ UNCHANGED feedVars => Dated'
  BY DEF Dated, feedVars
<1>3. FeedTypeOK /\ Dated /\ HiddenIsAbsent => FeedAsPromised
  BY OrderKept, RingsAgree DEF FeedAsPromised
<1> QED
  BY FeedTyped, HiddenIsAbsentHolds, DatedStep, <1>1, <1>2, <1>3, PTL DEF FeedSpec

-----------------------------------------------------------------------------
(* Media processing *)

LEMMA Divided ==
  ASSUME NEW a \in Nat, NEW b \in Nat \ {0}
  PROVE  /\ a \div b \in Nat
         /\ b * (a \div b) <= a
         /\ a < b * (a \div b) + b
OBVIOUS

LEMMA ScaledBrings ==
  ASSUME NEW side \in Nat \ {0}, NEW longer \in Nat \ {0}, NEW bound \in Nat \ {0},
         side <= longer, bound <= longer
  PROVE  /\ Scaled(side, longer, bound) \in Nat \ {0}
         /\ Scaled(side, longer, bound) <= side
         /\ Scaled(side, longer, bound) <= bound
         /\ bound * side - longer * Scaled(side, longer, bound) \in (1 - longer)..(longer - 1)
<1> DEFINE a == bound * side
           q == a \div longer
<1>1. a \in Nat \ {0}
  OBVIOUS
<1>2. q \in Nat /\ longer * q <= a /\ a < longer * q + longer
  BY <1>1, Divided
<1>3. a <= longer * side /\ a <= longer * bound
  OBVIOUS
<1>4. q <= side
  BY <1>2, <1>3
<1>5. q <= bound
  BY <1>2, <1>3
<1>6. Scaled(side, longer, bound) = IF q = 0 THEN 1 ELSE q
  BY DEF Scaled
<1> HIDE DEF q, a
<1>7. CASE q = 0
  <2>1. longer * q = 0 /\ longer * 1 = longer
    BY <1>7
  <2> QED
    BY <1>1, <1>2, <1>6, <1>7, <2>1 DEF a
<1>8. CASE q # 0
  <2>1. longer * q \in Nat
    BY <1>2
  <2> QED
    BY <1>1, <1>2, <1>4, <1>5, <1>6, <1>8, <2>1 DEF a
<1> QED
  BY <1>7, <1>8

Sized(s) == s.w \in Nat \ {0} /\ s.h \in Nat \ {0}

LEMMA FitBrings ==
  ASSUME NEW s, Sized(s), NEW bound \in Nat \ {0}
  PROVE  BroughtDown(s, FitDown(s, bound), bound)
<1>1. CASE s.w <= bound /\ s.h <= bound
  <2>1. FitDown(s, bound) = s
    BY <1>1 DEF FitDown
  <2>2. s.w * s.h - s.h * s.w = 0
    BY DEF Sized
  <2> QED
    BY <1>1, <2>1, <2>2 DEF BroughtDown, Sized
<1>2. CASE ~(s.w <= bound /\ s.h <= bound) /\ s.w > s.h
  <2> DEFINE t == Scaled(s.h, s.w, bound)
  <2>1. FitDown(s, bound) = [w |-> bound, h |-> t]
    BY <1>2 DEF FitDown
  <2>0. /\ s.w \in Nat \ {0} /\ s.h \in Nat \ {0}
        /\ s.h <= s.w /\ bound <= s.w
    BY <1>2 DEF Sized
  <2>2. /\ t \in Nat \ {0} /\ t <= s.h /\ t <= bound
        /\ bound * s.h - s.w * t \in (1 - s.w)..(s.w - 1)
    BY ONLY <2>0, ScaledBrings, bound \in Nat \ {0}
  <2>3. s.w * t = t * s.w
    BY <2>2 DEF Sized
  <2> HIDE DEF t
  <2> QED
    BY <1>2, <2>1, <2>2, <2>3 DEF BroughtDown, Sized
<1>3. CASE ~(s.w <= bound /\ s.h <= bound) /\ ~(s.w > s.h)
  <2> DEFINE t == Scaled(s.w, s.h, bound)
  <2>1. FitDown(s, bound) = [w |-> t, h |-> bound]
    BY <1>3 DEF FitDown
  <2>0. /\ s.w \in Nat \ {0} /\ s.h \in Nat \ {0}
        /\ s.w <= s.h /\ bound <= s.h
    BY <1>3 DEF Sized
  <2>2. /\ t \in Nat \ {0} /\ t <= s.w /\ t <= bound
        /\ bound * s.w - s.h * t \in (1 - s.h)..(s.h - 1)
    BY ONLY <2>0, ScaledBrings, bound \in Nat \ {0}
  <2>3. t * s.h - bound * s.w = 0 - (bound * s.w - s.h * t)
    BY <2>2 DEF Sized
  <2>4. t * s.h - bound * s.w \in (1 - s.h)..(s.h - 1)
    <3> DEFINE d == bound * s.w - s.h * t
    <3>1. d \in (1 - s.h)..(s.h - 1) /\ t * s.h - bound * s.w = 0 - d
      BY <2>2, <2>3
    <3> HIDE DEF d
    <3> QED
      BY <3>1 DEF Sized
  <2> HIDE DEF t
  <2> QED
    BY <1>3, <2>1, <2>2, <2>4 DEF BroughtDown, Sized
<1> QED
  BY <1>1, <1>2, <1>3

LEMMA Halved ==
  ASSUME NEW n \in Nat
  PROVE  /\ 2 * (n \div 2) \in Nat /\ 2 * (n \div 2) <= n
         /\ (2 * (n \div 2)) % 2 = 0
         /\ 2 * (n \div 2) > 0 => 2 * (n \div 2) \in 2..n
OBVIOUS

Filmed(o) == IsVideo(o) \/ Cardinality(Frames(o)) > 1

LEMMA StillsBrought ==
  ASSUME NEW o \in OriginalType, NEW e \in Edits, Acceptable(o, e)
  PROVE  StillsPromised(Still(o), o)
<1>1. Sized(Upright(o))
  BY DEF Acceptable, OriginalType, Sized, Upright
<1>2. {CanonicalSide, ThumbSide, TerminalSide} \subseteq Nat \ {0}
  BY MediaAssumption DEF MediaAssumption, Limits
<1>3. \A b \in Nat \ {0} : BroughtDown(Upright(o), FitDown(Upright(o), b), b)
  BY <1>1, FitBrings
<1>4. \A s, t, b, mime : BroughtDown(s, t, b) => BroughtDown(s, Variant(t, mime, 0, FALSE), b)
  BY DEF BroughtDown, Variant
<1> QED
  BY <1>2, <1>3, <1>4 DEF StillsPromised, Still

LEMMA FilmBrought ==
  ASSUME NEW o \in OriginalType, NEW e \in Edits, Acceptable(o, e), Filmed(o)
  PROVE  FilmPromised(Moving(o, e), o, e)
<1> DEFINE film == Film(o, e)
           size == [w |-> film.w, h |-> film.h]
<1>1. /\ o.w \in 1..MaxSide /\ o.h \in 1..MaxSide /\ MaxSide \in Nat /\ MaxMillis \in Nat
      /\ TerminalSide \in Nat \ {0}
  BY MediaAssumption DEF Acceptable, MediaAssumption, Limits
<1>2. film.w > 0 /\ film.h > 0 /\ film.millis > 0
  BY DEF Acceptable, Filmed, Encodable
<1>3. \E s : /\ film.w = 2 * (s.w \div 2) /\ film.h = 2 * (s.h \div 2)
             /\ s.w \in 1..MaxSide /\ s.h \in 1..MaxSide
  <2>1. CASE IsVideo(o)
    <3>1. Upright(o).w \in 1..MaxSide /\ Upright(o).h \in 1..MaxSide
      BY <1>1 DEF Upright
    <3> QED
      BY <2>1, <3>1 DEF Film, Variant, Even
  <2>2. CASE ~IsVideo(o)
    <3> DEFINE s == [w |-> o.w, h |-> o.h]
    <3>1. s.w \in 1..MaxSide /\ s.h \in 1..MaxSide
      BY <1>1
    <3>2. film.w = 2 * (s.w \div 2) /\ film.h = 2 * (s.h \div 2)
      BY <2>2 DEF Film, Variant, Even
    <3> QED
      BY <3>1, <3>2
  <2> QED
    BY <2>1, <2>2
<1>4. film.w \in 2..MaxSide /\ film.h \in 2..MaxSide /\ film.w % 2 = 0 /\ film.h % 2 = 0
  <2>1. PICK s : /\ film.w = 2 * (s.w \div 2) /\ film.h = 2 * (s.h \div 2)
                 /\ s.w \in 1..MaxSide /\ s.h \in 1..MaxSide
    BY <1>3
  <2>2. \A n \in 1..MaxSide : /\ (2 * (n \div 2)) % 2 = 0
                              /\ 2 * (n \div 2) > 0 => 2 * (n \div 2) \in 2..MaxSide
    BY <1>1, Halved
  <2> QED
    BY <1>2, <2>1, <2>2
<1>5. film.millis \in 1..MaxMillis
  <2>1. CASE IsVideo(o)
    <3>1. Length(o, e) \in 1..MaxMillis
      BY <2>1 DEF Acceptable
    <3>2. film.millis = Lesser(Length(o, e), o.millis - e.start)
      BY <2>1 DEF Film, Variant
    <3>3. o.millis - e.start \in Int
      BY MediaAssumption DEF MediaAssumption, Limits, OriginalType
    <3> QED
      BY <1>1, <1>2, <3>1, <3>2, <3>3 DEF Lesser
  <2>2. CASE ~IsVideo(o)
    <3>1. film.millis = Lesser(o.millis, MaxMillis) /\ o.millis \in Nat
      BY <2>2 DEF Film, Variant, OriginalType
    <3> QED
      BY <1>1, <1>2, <3>1 DEF Lesser
  <2> QED
    BY <2>1, <2>2
<1>6. film.audio => IsVideo(o) /\ o.audio /\ ~e.muted
  BY DEF Film, Variant
<1>7. BroughtDown(size, FitDown(size, TerminalSide), TerminalSide)
  BY <1>1, <1>4, FitBrings DEF Sized
<1>8. /\ Moving(o, e).video = film
      /\ Moving(o, e).poster.w = film.w /\ Moving(o, e).poster.h = film.h
      /\ Moving(o, e).terminal.w = FitDown(size, TerminalSide).w
      /\ Moving(o, e).terminal.h = FitDown(size, TerminalSide).h
  BY DEF Moving, Variant
<1> HIDE DEF film
<1>9. BroughtDown(Moving(o, e).poster, Moving(o, e).terminal, TerminalSide)
  BY <1>7, <1>8 DEF BroughtDown
<1> QED
  BY <1>4, <1>5, <1>6, <1>8, <1>9 DEF FilmPromised

LEMMA FramesFinite == ASSUME NEW o \in OriginalType PROVE Cardinality(Frames(o)) \in Nat
<1>1. DOMAIN o.blocks = 1..Len(o.blocks) /\ Len(o.blocks) \in Nat
  BY DEF OriginalType
<1>2. IsFiniteSet(1..Len(o.blocks))
  BY <1>1, FS_Interval
<1>3. Frames(o) \subseteq 1..Len(o.blocks)
  BY <1>1 DEF Frames, Reached
<1> QED
  BY <1>2, <1>3, FS_Subset, FS_CardinalityType

LEMMA CountingTells ==
  ASSUME NEW o \in OriginalType
  PROVE  /\ Counted(o) \in Nat
         /\ Animated(o) <=> Cardinality(Frames(o)) > 1
         /\ Counted(o) <= MaxFrames <=> Cardinality(Frames(o)) <= MaxFrames
BY FramesFinite, MediaAssumption DEF Counted, Animated, MediaAssumption, Limits

\* All of what is acceptable but that the rest of it decodes and can be encoded.
Admitted(o, e) ==
  /\ o.size \in 1..MaxOriginal
  /\ Sniffed(o) # "none" /\ o.declared \in {"none", Sniffed(o)}
  /\ o.parses /\ o.w <= MaxSide /\ o.h <= MaxSide
  /\ IsVideo(o) => o.w > 0 /\ o.h > 0
  /\ IsImage(o) => o.w * o.h <= MaxPixels /\ ~Unreadable(o)
  /\ Cardinality(Frames(o)) > 1 => Cardinality(Frames(o)) <= MaxFrames
  /\ IsVideo(o) => Length(o, e) \in 1..MaxMillis

LEMMA KindsApart ==
  ASSUME NEW o
  PROVE  /\ IsImage(o) => ~IsVideo(o)
         /\ Sniffed(o) # "none" <=> IsImage(o) \/ IsVideo(o)
         /\ IsVideo(o) => Cardinality(Frames(o)) = 0
<1>1. Sniffed(o) \in {"image/jpeg", "image/png", "image/gif", "image/webp", "video/webm",
                     "video/quicktime", "video/mp4", "none"}
  BY DEF Sniffed
<1>2. IsVideo(o) => Frames(o) = {}
  BY DEF IsVideo, Frames
<1> QED
  BY <1>1, <1>2, FS_EmptySet DEF IsImage, IsVideo

\* What is looked at before the judgement.
Probed(o) ==
  /\ o.size \in 1..MaxOriginal /\ Sniffed(o) # "none" /\ o.parses
  /\ IsImage(o) => ~Unreadable(o)
  /\ IsVideo(o) => o.w > 0 /\ o.h > 0

LEMMA JudgementTells ==
  ASSUME NEW o \in OriginalType, NEW e \in Edits, Probed(o)
  PROVE  /\ Refusal(o, e) = "none" => Admitted(o, e)
         /\ Refusal(o, e) \notin {"none", "ffmpeg_unavailable"} => ~Acceptable(o, e)
         /\ Refusal(o, e) \in {"none", "mime_mismatch", "too_many_pixels",
                              "ffmpeg_unavailable", "corrupt_media", "too_long"}
<1>1. Length(o, e) \in Int /\ MaxMillis \in Nat
  BY MediaAssumption DEF MediaAssumption, Limits, OriginalType, Length
<1>2. IsImage(o) <=> ~IsVideo(o)
  BY KindsApart DEF Probed
<1>3. /\ o.w \in Nat /\ o.h \in Nat /\ MaxSide \in Nat /\ MaxPixels \in Nat /\ MaxFrames \in Nat
      /\ Cardinality(Frames(o)) \in Nat /\ o.w * o.h \in Nat
  BY MediaAssumption, FramesFinite DEF MediaAssumption, Limits, OriginalType
<1>4. Animated(o) /\ Counted(o) > MaxFrames <=>
        Cardinality(Frames(o)) > 1 /\ Cardinality(Frames(o)) > MaxFrames
  BY <1>3, CountingTells
<1> DEFINE px == o.w * o.h
<1>5. px \in Nat
  BY <1>3
<1> HIDE DEF px
<1>6. CASE o.declared \notin {"none", Sniffed(o)}
  BY <1>6 DEF Refusal, Acceptable
<1>7. CASE o.declared \in {"none", Sniffed(o)} /\ IsImage(o)
  <2>1. Refusal(o, e) = IF \/ o.w > MaxSide \/ o.h > MaxSide \/ px > MaxPixels
                           \/ Animated(o) /\ Counted(o) > MaxFrames
                        THEN "too_many_pixels" ELSE "none"
    BY <1>7 DEF Refusal, ImageRefusal, Oversized, px
  <2>2. CASE \/ o.w > MaxSide \/ o.h > MaxSide \/ px > MaxPixels
             \/ Animated(o) /\ Counted(o) > MaxFrames
    <3>1. ~Acceptable(o, e)
      BY <1>3, <1>4, <1>5, <1>7, <2>2 DEF Acceptable, px
    <3> QED
      BY <2>1, <2>2, <3>1
  <2>3. CASE ~(\/ o.w > MaxSide \/ o.h > MaxSide \/ px > MaxPixels
               \/ Animated(o) /\ Counted(o) > MaxFrames)
    <3>1. o.w <= MaxSide /\ o.h <= MaxSide /\ px <= MaxPixels
      BY <1>3, <1>5, <2>3
    <3>2. Cardinality(Frames(o)) > 1 => Cardinality(Frames(o)) <= MaxFrames
      BY <1>3, <1>4, <2>3
    <3>3. Admitted(o, e)
      BY <1>2, <1>7, <3>1, <3>2 DEF Admitted, Probed, px
    <3> QED
      BY <2>1, <2>3, <3>3
  <2> QED
    BY <2>2, <2>3
<1>8. CASE o.declared \in {"none", Sniffed(o)} /\ IsVideo(o)
  <2>1. Refusal(o, e) =
          IF "ffmpeg" \notin tools THEN "ffmpeg_unavailable"
          ELSE IF o.w > MaxSide \/ o.h > MaxSide THEN "too_many_pixels"
          ELSE IF Length(o, e) <= 0 THEN "corrupt_media"
          ELSE IF Length(o, e) > MaxMillis THEN "too_long" ELSE "none"
    BY <1>2, <1>8 DEF Refusal, VideoRefusal, Oversized
  <2>2. Cardinality(Frames(o)) = 0
    BY <1>8, KindsApart
  <2>3. o.w <= MaxSide /\ o.h <= MaxSide /\ Length(o, e) \in 1..MaxMillis => Admitted(o, e)
    BY <1>2, <1>8, <2>2 DEF Admitted, Probed
  <2>4. o.w > MaxSide \/ o.h > MaxSide \/ Length(o, e) \notin 1..MaxMillis => ~Acceptable(o, e)
    BY <1>3, <1>8 DEF Acceptable
  <2> QED
    BY <1>1, <1>3, <2>1, <2>3, <2>4
<1> QED
  BY <1>2, <1>6, <1>7, <1>8

Finished ==
  /\ Acceptable(media, edit)
  /\ made = IF Filmed(media) THEN Moving(media, edit) ELSE Still(media)

Blamed == ~Acceptable(media, edit) \/ gone \/ broke

\* What the attempt knows of its original at each step, what it has on disk, and
\* whom it will blame.
MediaInv ==
  /\ MediaTypeOK
  /\ cut = "cancelled" => stopping
  /\ InProcess => media.size <= MaxOriginal
  /\ step \in {"making", "transcoding", "measuring", "postering"} =>
       Admitted(media, edit) /\ (Filmed(media) <=> step # "making")
  /\ step \in {"measuring", "postering"} => Encodable(media, edit) /\ "video" \in scratch
  /\ step \in {"uploading", "publishing"} \/ verdict = "published" => Finished
  /\ step = "publishing" \/ verdict = "published" => sent = 3
  /\ InProcess \/ step = "downloading" => sent = 0
  /\ step = "uploading" => sent < 3 /\ (Filmed(media) => "video" \in scratch)
  /\ step = "failing" => (fault.final => Blamed \/ stopping)
  /\ verdict = "failed" => Blamed
  /\ step \in {"over", "recovering"} => scratch = {}
  /\ verdict # "none" => step \in {"cleaning", "over", "killed"}

Standing == UNCHANGED <<media, edit, tools>>

Codes == {"unsupported_media", "mime_mismatch", "corrupt_media", "too_large", "too_long",
          "too_many_pixels", "processing_timeout", "ffmpeg_unavailable", "internal"}

LEMMA TypedConstants ==
  ASSUME media \in Originals, edit \in Edits
  PROVE  media \in OriginalType /\ edit \in Edits
BY MediaAssumption DEF MediaAssumption, Limits

\* What is left to know of what was admitted.
LEMMA AdmittedIsAcceptable ==
  ASSUME NEW o \in OriginalType, NEW e \in Edits, Admitted(o, e), o.whole,
         Filmed(o) => Encodable(o, e), ~Filmed(o) => o.w > 0 /\ o.h > 0
  PROVE  Acceptable(o, e)
<1>1. o.w \in Nat /\ o.h \in Nat /\ MaxSide \in Nat
  BY MediaAssumption DEF MediaAssumption, Limits, OriginalType
<1>2. o.w > 0 /\ o.h > 0
  <2>1. CASE Filmed(o) /\ ~IsVideo(o)
    <3>1. Film(o, e).w = 2 * (o.w \div 2) /\ Film(o, e).h = 2 * (o.h \div 2)
      BY <2>1 DEF Film, Variant, Even
    <3>2. Film(o, e).w > 0 /\ Film(o, e).h > 0
      BY <2>1 DEF Encodable
    <3> QED
      BY <1>1, <3>1, <3>2, Halved
  <2>2. CASE IsVideo(o)
    BY <2>2 DEF Admitted
  <2> QED
    BY <2>1, <2>2
<1>3. o.w \in 1..MaxSide /\ o.h \in 1..MaxSide
  BY <1>1, <1>2 DEF Admitted
<1> DEFINE px == o.w * o.h
<1>4. IsImage(o) => px <= MaxPixels /\ ~Unreadable(o)
  BY DEF Admitted
<1> HIDE DEF px
<1> QED
  BY <1>3, <1>4 DEF Acceptable, Admitted, Filmed, px

LEMMA AcceptableMeans ==
  ASSUME NEW o, NEW e, Acceptable(o, e)
  PROVE  /\ o.size \in 1..MaxOriginal /\ Sniffed(o) # "none" /\ o.parses /\ o.whole
         /\ o.w \in 1..MaxSide /\ o.h \in 1..MaxSide
         /\ IsImage(o) => ~Unreadable(o)
         /\ Filmed(o) => Encodable(o, e)
BY DEF Acceptable, Filmed

\* Process, or the download, gives up.
LEMMA ReportKeeps ==
  ASSUME MediaInv, Standing, NEW code \in Codes, NEW final \in BOOLEAN, Reports(code, final),
         step \in {"downloading", "uploading"} \/ InProcess,
         scratch' \subseteq {"original", "video", "poster"},
         cut' = cut, made' = made, gone' \in BOOLEAN, broke' \in BOOLEAN,
         final => Blamed' \/ stopping
  PROVE  MediaInv'
<1>1. MediaTypeOK'
  BY DEF MediaInv, MediaTypeOK, Reports, Standing, Codes
<1>2. verdict = "none"
  BY DEF MediaInv, InProcess
<1> QED
  BY <1>1, <1>2 DEF MediaInv, Reports, InProcess

LEMMA RefuseKeeps ==
  ASSUME MediaInv, Standing, NEW code \in Codes, Refuse(code), InProcess, broke' \in BOOLEAN,
         IsFinal(code) => Blamed' \/ stopping
  PROVE  MediaInv'
<1>1. IsFinal(code) \in BOOLEAN
  BY DEF IsFinal
<1> QED
  BY <1>1, ReportKeeps DEF Refuse, MediaInv, MediaTypeOK

LEMMA DownloadKeeps ==
  ASSUME MediaInv, Standing, DownloadOriginal
  PROVE  MediaInv'
<1>1. /\ cut' = cut /\ made' = made /\ broke' = broke
      /\ media \in OriginalType /\ MaxOriginal \in Nat /\ media.size \in Nat
  BY MediaAssumption, TypedConstants
  DEF MediaInv, MediaTypeOK, DownloadOriginal, Proceed, MediaAssumption, Limits, OriginalType
<1>2. CASE Proceed("inspecting", {"original"}, made) /\ media.size <= MaxOriginal
  <2>1. MediaTypeOK'
    BY <1>1, <1>2 DEF MediaInv, MediaTypeOK, Proceed, Standing
  <2>2. step = "downloading"
    BY DEF DownloadOriginal
  <2> QED
    BY <1>1, <1>2, <2>1, <2>2 DEF MediaInv, Proceed, InProcess, Standing
<1>3. CASE /\ media.size > MaxOriginal /\ Reports("too_large", TRUE) /\ scratch' = {"original"}
           /\ gone' = gone
  <2>1. Blamed'
    BY <1>1, <1>3, AcceptableMeans DEF Blamed, Standing
  <2> QED
    BY <1>1, <1>3, <2>1, ReportKeeps DEF DownloadOriginal, Codes, MediaInv, MediaTypeOK
<1>4. CASE gone' = TRUE /\ Reports("internal", TRUE) /\ scratch' = scratch
  <2>1. Blamed'
    BY <1>4 DEF Blamed
  <2> QED
    BY <1>1, <1>4, <2>1, ReportKeeps DEF DownloadOriginal, Codes, MediaInv, MediaTypeOK
<1>5. CASE Reports("internal", FALSE) /\ scratch' \in {scratch, {"original"}} /\ gone' = gone
  <2>1. scratch' \subseteq {"original", "video", "poster"} /\ gone' \in BOOLEAN
    BY <1>5 DEF MediaInv, MediaTypeOK
  <2> QED
    BY <1>1, <1>5, <2>1, ReportKeeps DEF DownloadOriginal, Codes, MediaInv, MediaTypeOK
<1> QED
  BY <1>2, <1>3, <1>4, <1>5 DEF DownloadOriginal

LEMMA JudgeKeeps ==
  ASSUME MediaInv, Standing, step = "inspecting", Probed(media), Judge, broke' \in BOOLEAN
  PROVE  MediaInv'
<1>1. media \in OriginalType /\ edit \in Edits
  BY TypedConstants DEF MediaInv, MediaTypeOK
<1> DEFINE refusal == Refusal(media, edit)
<1>2. /\ refusal = "none" => Admitted(media, edit)
      /\ refusal \notin {"none", "ffmpeg_unavailable"} => ~Acceptable(media, edit)
      /\ refusal \in {"none", "mime_mismatch", "too_many_pixels",
                      "ffmpeg_unavailable", "corrupt_media", "too_long"}
  BY <1>1, JudgementTells
<1>3. /\ refusal # "none" => Refuse(refusal)
      /\ refusal = "none" =>
           Proceed(IF IsVideo(media) \/ Animated(media) THEN "transcoding" ELSE "making",
                   scratch, made)
  BY DEF Judge
<1>4. IsVideo(media) \/ Animated(media) <=> Filmed(media)
  BY <1>1, CountingTells DEF Filmed
<1> HIDE DEF refusal
<1>5. CASE refusal # "none"
  <2>1. refusal \in Codes
    BY <1>2, <1>5 DEF Codes
  <2>2. IsFinal(refusal) => Blamed'
    BY <1>2, <1>5 DEF IsFinal, Blamed, Standing
  <2> QED
    BY <1>3, <1>5, <2>1, <2>2, RefuseKeeps DEF InProcess
<1>6. CASE refusal = "none"
  <2>1. /\ step' = IF Filmed(media) THEN "transcoding" ELSE "making"
        /\ scratch' = scratch /\ made' = made
        /\ UNCHANGED <<cut, stopping, sent, fault, verdict, gone>>
    BY <1>3, <1>4, <1>6 DEF Proceed
  <2>2. MediaTypeOK'
    BY <2>1 DEF MediaInv, MediaTypeOK, Standing
  <2>3. Admitted(media, edit) /\ verdict = "none" /\ sent = 0 /\ media.size <= MaxOriginal
    BY <1>2, <1>6 DEF MediaInv, InProcess
  <2> QED
    BY <2>1, <2>2, <2>3 DEF MediaInv, InProcess, Standing
<1> QED
  BY <1>5, <1>6

LEMMA InspectBytesKeeps ==
  ASSUME MediaInv, Standing, InspectBytes
  PROVE  MediaInv'
<1>1. media \in OriginalType /\ step = "inspecting" /\ InProcess /\ broke' = broke
      /\ broke' \in BOOLEAN /\ media.size \in Nat /\ media.size <= MaxOriginal
      /\ MaxOriginal \in Nat
  BY TypedConstants, MediaAssumption
  DEF InspectBytes, InProcess, MediaInv, MediaTypeOK, OriginalType, MediaAssumption, Limits
<1>2. CASE /\ media.size = 0 \/ ~IsImage(media) \/ ~media.parses \/ Unreadable(media)
           /\ Refuse("corrupt_media") \/ Refuse("unsupported_media")
  <2>1. ~Acceptable(media, edit)
    BY <1>1, <1>2, AcceptableMeans, KindsApart DEF InspectBytes
  <2>2. Blamed'
    BY <2>1 DEF Blamed, Standing
  <2> QED
    BY <1>1, <1>2, <2>2, RefuseKeeps DEF Codes
<1>3. CASE /\ ~(media.size = 0 \/ ~IsImage(media) \/ ~media.parses \/ Unreadable(media))
           /\ Judge
  <2>1. Probed(media)
    BY <1>1, <1>3, KindsApart DEF Probed
  <2> QED
    BY <1>1, <1>3, <2>1, JudgeKeeps
<1> QED
  BY <1>2, <1>3 DEF InspectBytes

\* A tool that did not do its work: the upload, the machine or the worker is why.
LEMMA ToolKeeps ==
  ASSUME MediaInv, Standing, InProcess, NEW tool, NEW sound \in BOOLEAN, NEW r,
         Run(tool, sound, r), r # "done", Refuse(r), ~sound => ~Acceptable(media, edit)
  PROVE  MediaInv'
<1>1. /\ r \in {"ffmpeg_unavailable", "processing_timeout", "corrupt_media"}
      /\ r = "corrupt_media" => cut # "deadline"
      /\ broke' = (broke \/ (sound /\ cut = "no" /\ r = "corrupt_media"))
  BY DEF Run, Outcomes
<1>2. broke' \in BOOLEAN
  BY <1>1 DEF MediaInv, MediaTypeOK
<1>3. IsFinal(r) => Blamed' \/ stopping
  <2> SUFFICES ASSUME r = "corrupt_media"
               PROVE  Blamed' \/ stopping
    BY <1>1 DEF IsFinal
  <2>1. cut = "no" \/ stopping
    BY <1>1 DEF MediaInv, MediaTypeOK
  <2>2. CASE cut = "no" /\ sound
    BY <1>1, <2>2 DEF Blamed
  <2>3. CASE ~sound
    BY <2>3 DEF Blamed, Standing
  <2> QED
    BY <2>1, <2>2, <2>3
<1> QED
  BY <1>1, <1>2, <1>3, RefuseKeeps DEF Codes

LEMMA InspectVideoKeeps ==
  ASSUME MediaInv, Standing, InspectVideo
  PROVE  MediaInv'
<1>1. /\ media \in OriginalType /\ step = "inspecting" /\ InProcess /\ IsVideo(media)
      /\ media.size \in 1..MaxOriginal
  BY TypedConstants, MediaAssumption
  DEF InspectVideo, InProcess, MediaInv, MediaTypeOK, OriginalType, MediaAssumption, Limits
<1>2. PICK r : /\ Run("ffprobe", media.parses, r)
               /\ IF r # "done" THEN Refuse(r)
                  ELSE IF media.w = 0 \/ media.h = 0 THEN Refuse("corrupt_media")
                  ELSE Judge
  BY DEF InspectVideo
<1>3. media.parses \in BOOLEAN /\ media.w \in Nat /\ media.h \in Nat
  BY <1>1 DEF OriginalType
<1>4. broke' \in BOOLEAN
  BY <1>2, <1>3 DEF Run, MediaInv, MediaTypeOK
<1>5. CASE r # "done"
  <2>1. ~media.parses => ~Acceptable(media, edit)
    BY AcceptableMeans
  <2> QED
    BY <1>1, <1>2, <1>3, <1>5, <2>1, ToolKeeps
<1>6. CASE r = "done" /\ (media.w = 0 \/ media.h = 0)
  <2>1. ~Acceptable(media, edit)
    BY <1>6, AcceptableMeans
  <2>2. Blamed'
    BY <2>1 DEF Blamed, Standing
  <2> QED
    BY <1>1, <1>2, <1>4, <1>6, <2>2, RefuseKeeps DEF Codes
<1>7. CASE r = "done" /\ ~(media.w = 0 \/ media.h = 0)
  <2>1. media.parses
    BY <1>2, <1>7 DEF Run, Outcomes
  <2>2. Probed(media)
    BY <1>1, <1>3, <1>7, <2>1, KindsApart DEF Probed
  <2> QED
    BY <1>1, <1>2, <1>4, <1>7, <2>2, JudgeKeeps
<1> QED
  BY <1>5, <1>6, <1>7

LEMMA MakeStillKeeps ==
  ASSUME MediaInv, Standing, MakeStill
  PROVE  MediaInv'
<1>1. /\ media \in OriginalType /\ edit \in Edits /\ InProcess /\ broke' \in BOOLEAN
      /\ Admitted(media, edit) /\ ~Filmed(media) /\ verdict = "none" /\ sent = 0
  BY TypedConstants DEF MakeStill, InProcess, MediaInv, MediaTypeOK
<1>2. CASE ~media.whole /\ Refuse("corrupt_media")
  <2>1. Blamed'
    BY <1>2, AcceptableMeans DEF Blamed, Standing
  <2> QED
    BY <1>1, <1>2, <2>1, RefuseKeeps DEF Codes
<1>3. CASE /\ media.whole /\ media.w > 0 /\ media.h > 0
           /\ Proceed("uploading", scratch, Still(media))
  <2>1. Acceptable(media, edit)
    BY <1>1, <1>3, AdmittedIsAcceptable
  <2>2. MediaTypeOK'
    BY <1>1, <1>3 DEF MediaInv, MediaTypeOK, Proceed, Standing
  <2>3. Finished'
    BY <1>1, <1>3, <2>1 DEF Finished, Proceed, Standing
  <2> QED
    BY <1>1, <1>3, <2>2, <2>3 DEF MediaInv, InProcess, Proceed, Standing
<1> QED
  BY <1>2, <1>3 DEF MakeStill

LEMMA TranscodeKeeps ==
  ASSUME MediaInv, Standing, Transcode
  PROVE  MediaInv'
<1>1. /\ step = "transcoding" /\ InProcess /\ Admitted(media, edit) /\ Filmed(media)
      /\ verdict = "none" /\ sent = 0 /\ media.size <= MaxOriginal
  BY DEF Transcode, UseTool, InProcess, MediaInv
<1>2. PICK r : /\ Run("ffmpeg", Encodable(media, edit), r)
               /\ IF r = "done" THEN Proceed("measuring", scratch \cup {"video"}, made)
                  ELSE Refuse(r)
  BY DEF Transcode, UseTool
<1>3. CASE r # "done"
  <2>1. Encodable(media, edit) \in BOOLEAN
    BY TypedConstants DEF Encodable, MediaInv, MediaTypeOK, OriginalType
  <2>2. ~Encodable(media, edit) => ~Acceptable(media, edit)
    BY <1>1, AcceptableMeans
  <2> QED
    BY <1>1, <1>2, <1>3, <2>1, <2>2, ToolKeeps
<1>4. CASE r = "done"
  <2>1. Encodable(media, edit)
    BY <1>2, <1>4 DEF Run, Outcomes
  <2>2. broke' \in BOOLEAN
    BY <1>2, <1>4 DEF Run, MediaInv, MediaTypeOK
  <2>3. MediaTypeOK'
    BY <1>2, <1>4, <2>2 DEF MediaInv, MediaTypeOK, Proceed, Standing
  <2> QED
    BY <1>1, <1>2, <1>4, <2>1, <2>3 DEF MediaInv, InProcess, Proceed, Standing
<1> QED
  BY <1>3, <1>4

LEMMA MeasureKeeps ==
  ASSUME MediaInv, Standing, MeasureOutput
  PROVE  MediaInv'
<1>1. /\ step = "measuring" /\ InProcess /\ Admitted(media, edit) /\ Filmed(media)
      /\ Encodable(media, edit) /\ "video" \in scratch
      /\ verdict = "none" /\ sent = 0 /\ media.size <= MaxOriginal
  BY DEF MeasureOutput, UseTool, InProcess, MediaInv
<1>2. PICK r : /\ Run("ffprobe", TRUE, r)
               /\ IF r = "done" THEN Proceed("postering", scratch, made) ELSE Refuse(r)
  BY DEF MeasureOutput, UseTool
<1>3. CASE r # "done"
  BY <1>1, <1>2, <1>3, ToolKeeps
<1>4. CASE r = "done"
  <2>1. broke' \in BOOLEAN
    BY <1>2, <1>4 DEF Run, MediaInv, MediaTypeOK
  <2>2. MediaTypeOK'
    BY <1>2, <1>4, <2>1 DEF MediaInv, MediaTypeOK, Proceed, Standing
  <2> QED
    BY <1>1, <1>2, <1>4, <2>2 DEF MediaInv, InProcess, Proceed, Standing
<1> QED
  BY <1>3, <1>4

LEMMA ExtractPosterKeeps ==
  ASSUME MediaInv, Standing, ExtractPoster
  PROVE  MediaInv'
<1>1. /\ step = "postering" /\ InProcess /\ Admitted(media, edit) /\ Filmed(media)
      /\ Encodable(media, edit) /\ "video" \in scratch
      /\ verdict = "none" /\ sent = 0 /\ media \in OriginalType /\ edit \in Edits
  BY TypedConstants DEF ExtractPoster, UseTool, InProcess, MediaInv, MediaTypeOK
<1>2. PICK r : /\ Run("ffmpeg", TRUE, r)
               /\ IF r = "done"
                  THEN Proceed("uploading", scratch \cup {"poster"}, Moving(media, edit))
                  ELSE Refuse(r)
  BY DEF ExtractPoster, UseTool
<1>3. CASE r # "done"
  BY <1>1, <1>2, <1>3, ToolKeeps
<1>4. CASE r = "done"
  <2>1. broke' \in BOOLEAN
    BY <1>2, <1>4 DEF Run, MediaInv, MediaTypeOK
  <2>2. MediaTypeOK'
    BY <1>2, <1>4, <2>1 DEF MediaInv, MediaTypeOK, Proceed, Standing
  <2>3. Acceptable(media, edit)
    BY <1>1, AdmittedIsAcceptable DEF Encodable
  <2>4. Finished'
    BY <1>1, <1>2, <1>4, <2>3 DEF Finished, Proceed, Standing
  <2> QED
    BY <1>1, <1>2, <1>4, <2>2, <2>4 DEF MediaInv, InProcess, Proceed, Standing
<1> QED
  BY <1>3, <1>4

LEMMA FaultKeeps ==
  ASSUME MediaInv, Standing, InternalError \/ ProcessTimesOut \/ WorkerStops
  PROVE  MediaInv'
<1>1. CASE InternalError
  <2>1. scratch' \subseteq {"original", "video", "poster"} /\ gone' \in BOOLEAN
        /\ broke' \in BOOLEAN
    BY <1>1 DEF InternalError, MediaInv, MediaTypeOK
  <2> QED
    BY <1>1, <2>1, ReportKeeps DEF InternalError, Codes
<1>2. CASE ProcessTimesOut \/ WorkerStops
  <2>1. MediaTypeOK'
    BY <1>2 DEF ProcessTimesOut, WorkerStops, MediaInv, MediaTypeOK, Standing
  <2>2. /\ UNCHANGED <<step, scratch, made, sent, fault, verdict, gone, broke>>
        /\ stopping => stopping'
        /\ cut' = "cancelled" => stopping'
    BY <1>2 DEF ProcessTimesOut, WorkerStops, MediaInv
  <2> HIDE DEF MediaTypeOK
  <2> QED
    BY <2>1, <2>2 DEF MediaInv, InProcess, Standing, Finished, Blamed
<1> QED
  BY <1>1, <1>2

LEMMA UploadKeeps ==
  ASSUME MediaInv, Standing, UploadVariant
  PROVE  MediaInv'
<1>1. /\ step = "uploading" /\ Finished /\ sent < 3 /\ verdict = "none" /\ sent \in 0..3
      /\ cut' = cut /\ scratch' = scratch /\ made' = made /\ gone' = gone /\ broke' = broke
  BY DEF UploadVariant, MediaInv, MediaTypeOK
<1>2. CASE Reports("internal", FALSE)
  BY <1>1, <1>2, ReportKeeps DEF Codes, MediaInv, MediaTypeOK
<1>3. CASE /\ sent' = sent + 1
           /\ step' = IF sent + 1 = Len(Kinds) THEN "publishing" ELSE step
           /\ UNCHANGED <<stopping, fault, verdict>>
  <2>1. Len(Kinds) = 3
    BY DEF Kinds
  <2>2. MediaTypeOK'
    BY <1>1, <1>3 DEF MediaInv, MediaTypeOK, Standing
  <2>3. Finished'
    BY <1>1 DEF Finished, Standing
  <2> QED
    BY <1>1, <1>3, <2>1, <2>2, <2>3 DEF MediaInv, InProcess, Standing
<1> QED
  BY <1>2, <1>3 DEF UploadVariant

Faults ==
  [code: {"none", "unsupported_media", "mime_mismatch", "corrupt_media",
          "too_large", "too_long", "too_many_pixels", "processing_timeout",
          "ffmpeg_unavailable", "internal"},
   final: BOOLEAN]

LEMMA EndKeeps ==
  ASSUME MediaInv, Standing,
         PublishResult \/ FailMediaJob \/ RemoveScratch \/ HandlerPanics \/ RecoverPanic
           \/ WorkerKilled
  PROVE  MediaInv'
<1>1. /\ UNCHANGED <<cut, stopping, made, sent, gone, broke>>
      /\ scratch' \in {scratch, {}}
  BY DEF PublishResult, FailMediaJob, RemoveScratch, HandlerPanics, RecoverPanic, WorkerKilled
<1>2. MediaTypeOK'
  <2>1. step' \in {"cleaning", "over", "recovering", "killed"}
    BY DEF PublishResult, FailMediaJob, RemoveScratch, HandlerPanics, RecoverPanic, WorkerKilled
  <2>2. verdict' \in {verdict, "unrecorded", "published", "dropped", "failed", "requeued"}
    BY DEF PublishResult, FailMediaJob, RemoveScratch, HandlerPanics, RecoverPanic, WorkerKilled
  <2>3. fault' = fault \/ fault' = [code |-> "internal", final |-> FALSE]
    BY DEF PublishResult, FailMediaJob, RemoveScratch, HandlerPanics, RecoverPanic, WorkerKilled
  <2>4. fault' \in Faults
    <3>1. fault \in Faults
      BY DEF MediaInv, MediaTypeOK, Faults
    <3>2. [code |-> "internal", final |-> FALSE] \in Faults
      BY DEF Faults
    <3> QED
      BY <2>3, <3>1, <3>2
  <2>5. verdict' \in {"none", "published", "dropped", "failed", "requeued", "unrecorded"}
    BY <2>2 DEF MediaInv, MediaTypeOK
  <2>6. {gone', broke'} \subseteq BOOLEAN
    BY <1>1 DEF MediaInv, MediaTypeOK
  <2> QED
    BY <1>1, <2>1, <2>4, <2>5, <2>6 DEF MediaInv, MediaTypeOK, Standing, Faults
<1>3. /\ Finished' = Finished /\ Blamed' = Blamed
  BY <1>1 DEF Finished, Blamed, Standing
<1>4. CASE PublishResult
  BY <1>2, <1>3, <1>4 DEF PublishResult, MediaInv, InProcess
<1>5. CASE FailMediaJob
  BY <1>2, <1>3, <1>5 DEF FailMediaJob, Recordable, MediaInv, InProcess
<1>6. CASE RemoveScratch
  BY <1>2, <1>3, <1>6 DEF RemoveScratch, MediaInv, InProcess
<1>7. CASE HandlerPanics
  BY <1>2, <1>3, <1>7 DEF HandlerPanics, MediaInv, InProcess
<1>8. CASE RecoverPanic
  BY <1>2, <1>3, <1>8 DEF RecoverPanic, MediaInv, InProcess
<1>9. CASE WorkerKilled
  BY <1>2, <1>3, <1>9 DEF WorkerKilled, MediaInv, InProcess
<1> QED
  BY <1>4, <1>5, <1>6, <1>7, <1>8, <1>9

LEMMA MediaStarts == MediaInit => MediaInv
<1> SUFFICES ASSUME MediaInit
             PROVE  MediaInv
  OBVIOUS
<1>1. MediaTypeOK
  <2>1. {gone, broke} \subseteq BOOLEAN
    BY DEF MediaInit
  <2>2. fault \in Faults
    BY DEF MediaInit, NoFault, Faults
  <2>3. /\ media \in Originals /\ edit \in Edits /\ tools \subseteq {"ffmpeg", "ffprobe"}
        /\ scratch \subseteq {"original", "video", "poster"} /\ made = Nothing
    BY DEF MediaInit
  <2>4. step = "downloading" /\ cut = "no" /\ sent \in 0..3 /\ verdict = "none"
    BY DEF MediaInit
  <2>5. stopping \in BOOLEAN
    BY DEF MediaInit
  <2> QED
    BY <2>1, <2>2, <2>3, <2>4, <2>5 DEF MediaTypeOK, Faults
<1>2. step = "downloading" /\ cut = "no" /\ sent = 0 /\ verdict = "none"
  BY DEF MediaInit
<1> QED
  BY <1>1, <1>2 DEF MediaInv, InProcess

LEMMA MediaStep ==
  ASSUME MediaInv, [MediaNext]_mediaVars
  PROVE  MediaInv'
<1>1. CASE MediaNext
  <2>1. Standing
    BY <1>1 DEF MediaNext, Standing
  <2> QED
    BY <1>1, <2>1, DownloadKeeps, InspectBytesKeeps, InspectVideoKeeps, MakeStillKeeps,
       TranscodeKeeps, MeasureKeeps, ExtractPosterKeeps, FaultKeeps, UploadKeeps, EndKeeps
    DEF MediaNext
<1>2. CASE UNCHANGED mediaVars
  <2>1. MediaTypeOK'
    BY <1>2 DEF MediaInv, MediaTypeOK, mediaVars, attempt
  <2> QED
    BY <1>2, <2>1 DEF mediaVars, attempt, MediaInv, InProcess, Finished, Blamed
<1> QED
  BY <1>1, <1>2

\* What an attempt knows of its original at each step, and whom it will blame
\* (Process, processImage, processVideo, handleMediaJob).
THEOREM MediaInvariance == MediaSpec => []MediaInv
BY MediaStarts, MediaStep, PTL DEF MediaSpec

LEMMA InvMeansPromised == MediaInv => ProcessedAsPromised
<1> SUFFICES ASSUME MediaInv
             PROVE  ProcessedAsPromised
  OBVIOUS
<1>1. media \in OriginalType /\ edit \in Edits
  BY TypedConstants DEF MediaInv, MediaTypeOK
<1>2. ASSUME verdict = "published"
      PROVE  /\ Acceptable(media, edit) /\ sent = 3
             /\ IF IsVideo(media) \/ Cardinality(Frames(media)) > 1
                THEN FilmPromised(made, media, edit) ELSE StillsPromised(made, media)
  <2>1. Finished /\ sent = 3
    BY <1>2 DEF MediaInv
  <2> QED
    BY <1>1, <2>1, StillsBrought, FilmBrought DEF Finished, Filmed
<1>3. step = "uploading" /\ Kinds[sent + 1] = "video" => "video" \in scratch
  <2> SUFFICES ASSUME step = "uploading", Kinds[sent + 1] = "video", ~Filmed(media)
               PROVE  FALSE
    BY DEF MediaInv
  <2>1. made = Still(media) /\ sent \in 0..2
    BY DEF MediaInv, Finished, MediaTypeOK
  <2>2. Kinds = <<"image", "thumb", "terminal">>
    BY <2>1 DEF Kinds, Still
  <2> QED
    BY <2>1, <2>2
<1> QED
  BY <1>2, <1>3 DEF MediaInv, ProcessedAsPromised, Blamed

\* An attempt's state has its type: its variants are those of its own original, and
\* its fault one the constructors of errors.go make.
THEOREM MediaTyped == MediaSpec => []MediaTypeOK
BY MediaInvariance, PTL DEF MediaInv

\* What is published kept every limit of limits.go, at the sizes it is shown in;
\* a failure without a retry (errors.go:39-43) is the upload's, a tool's of itself or
\* an object's that is gone, never a deadline's or a stop's.
THEOREM ProcessedAsPromisedHolds == MediaSpec => []ProcessedAsPromised
BY MediaInvariance, InvMeansPromised, PTL

-----------------------------------------------------------------------------
(* The parts together *)

\* Each part behaves as its own model says, and what is proved of it holds of the
\* whole.
THEOREM ServicePartsBehave ==
  ServiceSpec => IdentitiesSpec /\ WorkerRunsSpec /\ MediaSpec
<1>1. ServiceInit => IdentitiesInit /\ WorkerRunsInit /\ MediaInit
  BY DEF ServiceInit
<1>2. [ServiceNext]_serviceVars =>
        [IdentitiesNext]_idVars /\ [WorkerRunsNext]_runVars /\ [MediaNext]_mediaVars
  BY DEF ServiceNext, serviceVars
<1> QED
  BY <1>1, <1>2, PTL DEF ServiceSpec, IdentitiesSpec, WorkerRunsSpec, MediaSpec

\* The state of every part has its type, whichever part acts: logins are unique,
\* leases and attempts are within their bounds, and a fault carries one of the codes
\* of errors.go.
THEOREM ServiceTyped == ServiceSpec => []ServiceTypeOK
<1>1. IdentitiesTypeOK /\ WorkerRunsTypeOK /\ MediaTypeOK => ServiceTypeOK
  BY DEF ServiceTypeOK
<1> QED
  BY ServicePartsBehave, IdentitiesTyped, WorkerRunsTyped, MediaTyped, <1>1, PTL

\* What the run of these parts checks, of the service as a whole: a login stays with
\* its account, a job has one holder, and what becomes of an upload is its own doing.
THEOREM ServiceSafe ==
  ServiceSpec => []LoginsKept /\ []OneHolder /\ []ProcessedAsPromised
BY ServicePartsBehave, LoginsKeptHolds, OneHolderHolds, ProcessedAsPromisedHolds, PTL

=============================================================================
