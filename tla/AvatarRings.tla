------------------------------ MODULE AvatarRings ------------------------------
(***************************************************************************)
(* Story rings on the avatars of one GitHub page: the content script that  *)
(* decorates avatars and asks about them (content.ts), and the service     *)
(* worker's batcher and cache that answer it (ringCache.ts).  Questions    *)
(* are batched, answers come late, GitHub reuses an avatar's element for   *)
(* somebody else, and a navigation cancels what is in flight.              *)
(*                                                                         *)
(* People are known by their numeric id; a login-only avatar differs in    *)
(* that the absence of a Story is not cached for it.                       *)
(***************************************************************************)
EXTENDS Integers, FiniteSets

CONSTANTS
  Avatars,       \* image elements of the page
  Faces,         \* people whose avatars they show
  NoFace,
  Flights,       \* flushStatusRequests calls that may overlap
  Fetches,       \* TabRingBatcher.flush calls that may overlap
  NoFetch,
  BatchLimit,    \* MAX_IDS_PER_BATCH and STATUS_BATCH_LIMIT
  RingRetries,   \* length of STATUS_RETRY_DELAYS_MS
  MaxMishaps     \* bound on failures, cancellations, reuses of an avatar,
                 \* refreshes and changes of the session, taken together

VARIABLES
  avatar,        \* each avatar: whom it shows, its decoration, its attempts
  pendingFaces,  \* pendingIdentities: questions the next flush will ask
  retries,       \* questions that wait for a retry timer
  flights,       \* questions in flight, as the page awaits them
  batcher,       \* the tab's TabRingBatcher: queue, waiters and timer
  fetches,       \* its flushes in progress
  controller,    \* the flush a cancellation aborts
  ringCache,
  ringSession,   \* whether somebody is signed in
  mishaps,
  told,          \* history: people the service has answered about
  overrun        \* history: people a flush has put back for the next one

pageVars == <<avatar, pendingFaces, retries, flights>>
batcherVars == <<batcher, fetches, controller, ringCache>>
ringHistory == <<told, overrun>>
ringVars == <<pageVars, batcherVars, ringSession, mishaps, ringHistory>>

ASSUME RingAssumption == RingRetries \in Nat /\ MaxMishaps \in Nat

Rings == {"none", "story"}
Answers == Rings \cup {"unknown"}
Unknown == [p \in Faces |-> "unknown"]
Questions == Avatars \X Faces
Waiters == [flight: Flights, ids: SUBSET Faces]

NoFlight == [batch |-> {}, calls |-> {}, open |-> {}, answered |-> {},
             signedOut |-> {}, found |-> Unknown]
IdleFetch == [pc |-> "off", waiters |-> {}, ids |-> {}, over |-> {},
              results |-> Unknown]
EmptyBatcher == [queue |-> {}, waiters |-> {}, timer |-> FALSE]

AvatarRows == [shows: Faces \cup {NoFace}, of: Faces \cup {NoFace}, ring: Rings,
               settled: BOOLEAN, attempts: 0..RingRetries]
FlightRows == [batch: SUBSET Questions, calls: SUBSET SUBSET Faces,
               open: SUBSET SUBSET Faces, answered: SUBSET Faces,
               signedOut: SUBSET Faces, found: [Faces -> Answers]]
FetchRows == [pc: {"off", "account", "asking", "aborted"},
              waiters: SUBSET Waiters, ids: SUBSET Faces,
              over: SUBSET Faces, results: [Faces -> Answers]]

RingTypeOK ==
  /\ avatar \in [Avatars -> AvatarRows]
  /\ pendingFaces \subseteq Questions /\ retries \subseteq Questions
  /\ flights \in [Flights -> FlightRows]
  /\ batcher \in [queue: SUBSET Faces, waiters: SUBSET Waiters, timer: BOOLEAN]
  /\ fetches \in [Fetches -> FetchRows]
  /\ controller \in Fetches \cup {NoFetch}
  /\ ringCache \in [Faces -> Answers]
  /\ ringSession \in BOOLEAN
  /\ mishaps \in 0..MaxMishaps
  /\ told \subseteq Faces /\ overrun \subseteq Faces

RingInit ==
  /\ avatar = [i \in Avatars |-> [shows |-> NoFace, of |-> NoFace, ring |-> "none",
                                  settled |-> FALSE, attempts |-> 0]]
  /\ pendingFaces = {} /\ retries = {}
  /\ flights = [f \in Flights |-> NoFlight]
  /\ batcher = EmptyBatcher
  /\ fetches = [x \in Fetches |-> IdleFetch] /\ controller = NoFetch
  /\ ringCache = Unknown
  /\ ringSession = TRUE /\ mishaps = 0 /\ told = {} /\ overrun = {}

Mishap == mishaps < MaxMishaps /\ mishaps' = mishaps + 1

-----------------------------------------------------------------------------
(* The page *)

\* The avatar appears, or GitHub reuses its element for somebody else.
Show(i, p) ==
  /\ avatar[i].shows # p
  /\ IF avatar[i].shows = NoFace THEN UNCHANGED mishaps ELSE Mishap
  /\ avatar' = [avatar EXCEPT ![i].shows = p]
  /\ UNCHANGED <<pendingFaces, retries, flights, batcherVars, ringSession, ringHistory>>

\* sweepDetached and decorateAvatars: a decoration whose avatar went or was
\* reused is destroyed, and every undecorated avatar gets one and a question.
Swept ==
  [i \in Avatars |->
     IF avatar[i].of = avatar[i].shows THEN avatar[i]
     ELSE [avatar[i] EXCEPT !.of = avatar[i].shows, !.ring = "none",
                            !.settled = FALSE]]

Redecorated == {i \in Avatars : avatar[i].of # avatar[i].shows}

SweepAndDecorate ==
  /\ avatar' = Swept
  /\ pendingFaces' = pendingFaces \cup
       {<<i, avatar[i].shows>> : i \in {j \in Redecorated : avatar[j].shows # NoFace}}

\* The mutation timer fires.
PageMutated ==
  /\ Redecorated # {}
  /\ SweepAndDecorate
  /\ UNCHANGED <<retries, flights, batcherVars, ringSession, mishaps, ringHistory>>

\* The tab is shown again or the viewer closed: every ring is asked anew.
RefreshStatuses ==
  /\ Mishap
  /\ pendingFaces' = pendingFaces \cup
       {<<i, avatar[i].of>> : i \in {j \in Avatars : avatar[j].of # NoFace}}
  /\ UNCHANGED <<avatar, retries, flights, batcherVars, ringSession, ringHistory>>

Chunks(ids) ==
  {calls \in SUBSET SUBSET ids :
     /\ UNION calls = ids /\ {} \notin calls
     /\ \A a, b \in calls : a # b => a \cap b = {}
     /\ \A a \in calls : Cardinality(a) <= BatchLimit
     /\ \A a, b \in calls : Cardinality(a) < BatchLimit /\ Cardinality(b) < BatchLimit
                            => a = b}

\* flushStatusRequests: one call per chunk of the people asked about.
FlushStatus(f) ==
  LET batch == {q \in pendingFaces : avatar[q[1]].of # NoFace}
  IN  /\ flights[f] = NoFlight /\ pendingFaces # {}
      /\ pendingFaces' = {}
      /\ \E calls \in Chunks({q[2] : q \in batch}) :
           flights' = [flights EXCEPT ![f].batch = batch, ![f].calls = calls]
      /\ UNCHANGED <<avatar, retries, batcherVars, ringSession, mishaps, ringHistory>>

\* What an answered question paints: no Story unless the answer names one.
Painted(f, p) == IF flights[f].found[p] = "story" THEN "story" ELSE "none"

\* Unanswered questions that are asked again: while attempts are left.  Slip: a
\* failed question is not repeated.
RetriedNever(f, live) == {}
Retried(f, live) ==
  {q \in live : q[2] \notin flights[f].answered /\ avatar[q[1]].attempts < RingRetries}

\* Every call of the flush is answered: the avatars that still have a
\* decoration, whosever it now is, are painted, and the unanswered are asked
\* again while they have attempts left.
PaintRings(f) ==
  LET flight == flights[f]
      live == {q \in flight.batch : avatar[q[1]].of # NoFace}
      paint == {q \in live : q[2] \in flight.answered}
      again == Retried(f, live)
  IN  /\ flight.batch # {} /\ flight.calls = {} /\ flight.open = {}
      /\ flights' = [flights EXCEPT ![f] = NoFlight]
      /\ \E last \in [Avatars -> Faces \cup {NoFace}] :
           /\ \A i \in Avatars : \/ last[i] = NoFace /\ \A q \in paint : q[1] # i
                                 \/ <<i, last[i]>> \in paint
           /\ avatar' = [i \in Avatars |->
                [avatar[i] EXCEPT
                  !.ring = IF last[i] = NoFace THEN @ ELSE Painted(f, last[i]),
                  !.settled = @ \/ <<i, avatar[i].of>> \in paint,
                  !.attempts = IF \E q \in again : q[1] = i THEN @ + 1 ELSE @]]
      /\ retries' = retries \cup again
      /\ UNCHANGED <<pendingFaces, batcherVars, ringSession, mishaps, ringHistory>>

\* A retry timer fires.
RetryDue(q) ==
  /\ q \in retries
  /\ retries' = retries \ {q}
  /\ pendingFaces' = pendingFaces \cup {q}
  /\ UNCHANGED <<avatar, flights, batcherVars, ringSession, mishaps, ringHistory>>

-----------------------------------------------------------------------------
(* The service worker *)

\* ghs:ring/status: TabRingBatcher.enqueue.
Enqueue(f, ids) ==
  /\ ids \in flights[f].calls
  /\ flights' = [flights EXCEPT ![f].calls = @ \ {ids}, ![f].open = @ \cup {ids}]
  /\ batcher' = [queue |-> batcher.queue \cup ids, timer |-> TRUE,
                 waiters |-> batcher.waiters \cup {[flight |-> f, ids |-> ids]}]
  /\ UNCHANGED <<avatar, pendingFaces, retries, fetches, controller, ringCache,
                 ringSession, mishaps, ringHistory>>

\* The answers a set of waiters is given: `good` are resolved with what
\* `results` holds, the others are rejected.
Answered(waiters, good, results, out) ==
  [f \in Flights |->
     LET mine == {w \in waiters : w.flight = f}
         ids == UNION {w.ids : w \in mine \cap good}
     IN  [flights[f] EXCEPT
            !.open = @ \ {w.ids : w \in mine},
            !.answered = @ \cup ids,
            !.signedOut = IF out THEN @ \cup ids ELSE @,
            !.found = [p \in Faces |-> IF p \in ids /\ results[p] # "unknown"
                                       THEN results[p] ELSE @[p]]]]

\* The debounce timer fires; without a waiter there is nothing to do.
FlushStarts(x) ==
  /\ batcher.timer /\ fetches[x].pc = "off"
  /\ batcher' = [batcher EXCEPT !.timer = FALSE]
  /\ fetches' = IF batcher.waiters = {} THEN fetches
                ELSE [fetches EXCEPT ![x].pc = "account"]
  /\ UNCHANGED <<pageVars, controller, ringCache, ringSession, mishaps, ringHistory>>

\* The account id is known: the flush takes the waiters and the queue, answers
\* from the cache, and asks the service about the rest, within the limit.
FlushPlans(x) ==
  LET known == [p \in Faces |-> IF p \in batcher.queue THEN ringCache[p]
                                ELSE "unknown"]
      misses == {p \in batcher.queue : ringCache[p] = "unknown"}
  IN  /\ fetches[x].pc = "account"
      /\ batcher' = [batcher EXCEPT !.queue = {}, !.waiters = {}]
      /\ \/ /\ ~ringSession \/ misses = {}
            /\ flights' = Answered(batcher.waiters, batcher.waiters,
                                   IF ringSession THEN known ELSE Unknown, ~ringSession)
            /\ fetches' = [fetches EXCEPT ![x] = IdleFetch]
            /\ UNCHANGED <<controller, overrun>>
         \/ /\ ringSession /\ misses # {}
            /\ \E ids \in SUBSET misses :
                 /\ Cardinality(ids) = IF Cardinality(misses) < BatchLimit
                                       THEN Cardinality(misses) ELSE BatchLimit
                 /\ fetches' = [fetches EXCEPT
                      ![x] = [pc |-> "asking", waiters |-> batcher.waiters,
                              ids |-> ids, over |-> misses \ ids, results |-> known]]
                 /\ overrun' = overrun \cup (misses \ ids)
            /\ controller' = x
            /\ UNCHANGED flights
      /\ UNCHANGED <<avatar, pendingFaces, retries, ringCache, ringSession, mishaps, told>>

\* What exceeded the limit goes back on the queue; the controller is cleared.
FlushEnds(x) ==
  /\ fetches' = [fetches EXCEPT ![x] = IdleFetch]
  /\ controller' = NoFetch
  /\ LET queue == batcher.queue \cup fetches[x].over
     IN  batcher' = [batcher EXCEPT !.queue = queue,
                                    !.timer = @ \/ queue # {}]

\* The service answers: whoever was asked about and is not in the answer has no
\* Story, and that is cached too.
FetchAnswered(x) ==
  LET fetch == fetches[x]
  IN  /\ fetch.pc = "asking"
      /\ \E active \in SUBSET fetch.ids :
           LET says == [p \in Faces |->
                          CASE p \in active -> "story"
                            [] p \in fetch.ids \ active -> "none"
                            [] OTHER -> fetch.results[p]]
           IN  /\ flights' = Answered(fetch.waiters, fetch.waiters, says, FALSE)
               /\ ringCache' = [p \in Faces |-> IF p \in fetch.ids THEN says[p]
                                                ELSE ringCache[p]]
      /\ told' = told \cup fetch.ids
      /\ FlushEnds(x)
      /\ UNCHANGED <<avatar, pendingFaces, retries, ringSession, mishaps, overrun>>

\* Waiters whose questions the cache had answered all the same.  Slip: a failure
\* resolves every waiter.
ServedAll(waiters, results) == waiters
Served(waiters, results) ==
  {w \in waiters : \A p \in w.ids : results[p] # "unknown"}

FetchFails(x) ==
  LET fetch == fetches[x]
  IN  /\ \/ fetch.pc = "asking" /\ Mishap
         \/ fetch.pc = "aborted" /\ UNCHANGED mishaps
      /\ flights' = Answered(fetch.waiters, Served(fetch.waiters, fetch.results),
                             fetch.results, FALSE)
      /\ FlushEnds(x)
      /\ UNCHANGED <<avatar, pendingFaces, retries, ringCache, ringSession, ringHistory>>

\* A navigation: the page sends ghs:ring/cancel behind what it has sent before,
\* sweeps and decorates; the batcher aborts the flush it remembers, drops its
\* queue and rejects the waiters of that queue.
Navigate ==
  /\ Mishap
  /\ \A f \in Flights : flights[f].calls = {}
  /\ SweepAndDecorate
  /\ fetches' = IF controller = NoFetch THEN fetches
                ELSE [fetches EXCEPT ![controller].pc = "aborted"]
  /\ controller' = NoFetch
  /\ flights' = Answered(batcher.waiters, {}, Unknown, FALSE)
  /\ batcher' = EmptyBatcher
  /\ UNCHANGED <<retries, ringCache, ringSession, ringHistory>>

\* The entry's time to live ends.
EntryExpires(p) ==
  /\ ringCache[p] # "unknown"
  /\ ringCache' = [ringCache EXCEPT ![p] = "unknown"]
  /\ UNCHANGED <<pageVars, batcher, fetches, controller, ringSession, mishaps, ringHistory>>

\* Signing in or out; signing out purges the account's rings.
SessionChanges ==
  /\ Mishap
  /\ ringSession' = ~ringSession
  /\ ringCache' = IF ringSession THEN Unknown ELSE ringCache
  /\ UNCHANGED <<pageVars, batcher, fetches, controller, ringHistory>>

-----------------------------------------------------------------------------
PageSteps == PageMutated \/ \E f \in Flights : FlushStatus(f) \/ PaintRings(f)

BatcherSteps ==
  \/ \E f \in Flights : \E ids \in flights[f].calls : Enqueue(f, ids)
  \/ \E x \in Fetches : FlushStarts(x) \/ FlushPlans(x) \/ FetchAnswered(x)
  \/ \E x \in Fetches : fetches[x].pc = "aborted" /\ FetchFails(x)

RetriesDue == \E q \in retries : RetryDue(q)

RingNext ==
  \/ PageSteps \/ BatcherSteps
  \/ \E i \in Avatars, p \in Faces \cup {NoFace} : Show(i, p)
  \/ RefreshStatuses \/ Navigate \/ SessionChanges
  \/ RetriesDue
  \/ \E x \in Fetches : FetchFails(x)
  \/ \E p \in Faces : EntryExpires(p)

RingSpec == RingInit /\ [][RingNext]_ringVars

-----------------------------------------------------------------------------
(* Properties *)

\* A question counts as answered only when the service has spoken about that
\* person, or when nobody was signed in: a failed, cancelled or dropped question
\* never reads as "this person has no Story" (ringCache.ts, content.ts).  Whoever
\* a flush has put back for the next one is left out: the waiters of a flush that
\* succeeds are all resolved, theirs too (see overrun).
NoInventedAnswer ==
  \A f \in Flights :
    flights[f].answered \subseteq told \cup overrun \cup flights[f].signedOut

\* Every decorated avatar is painted with an answer about the person it was
\* decorated for, navigations and failures or not, unless its retries are spent.
AvatarsSettle ==
  \A i \in Avatars, p \in Faces :
    avatar[i].of = p ~>
      (avatar[i].of # p \/ avatar[i].settled \/ avatar[i].attempts = RingRetries)

=============================================================================
