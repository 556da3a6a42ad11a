------------------------------ MODULE Identities ------------------------------
(***************************************************************************)
(* The directory of GitHub identities (store/identity.go): a row per       *)
(* numeric id, its login unique, refreshed by sign-ins and by follow       *)
(* imports from what GitHub said a moment ago.  On GitHub logins change    *)
(* hands meanwhile.                                                        *)
(*                                                                         *)
(* A sign-in makes each statement a transaction of its own; an import is   *)
(* one transaction, whose rows others wait for.  What an import does to    *)
(* the graph is SocialGraph's.                                             *)
(***************************************************************************)
EXTENDS Naturals, FiniteSets

CONSTANTS
  Ids,        \* numeric ids
  NoId,
  Logins,
  Calls,      \* sign-ins and imports that can be in progress at once
  MaxCalls,   \* bound on calls
  MaxRenames  \* bound on changes of a login on GitHub

ASSUME IdentitiesAssumption ==
  /\ NoId \notin Ids /\ {"absent", "stale"} \cap Logins = {}
  /\ MaxCalls \in Nat /\ MaxRenames \in Nat

VARIABLES
  github,     \* who holds which login on GitHub
  login,      \* github_identities.login_lower; "stale" stands for login#stale-id
  registered, \* users, by their github_user_id
  call, calls, renames,
  faithful    \* history: ids whose row was last touched on GitHub's present word

idVars == <<github, login, registered, call, calls, renames, faithful>>

\* seen: what GitHub answered.  wrote: rows an open transaction has written.
\* known: whether the snapshot of EnsureUser's statement held the user.
IdleCall == [pc |-> "idle", kind |-> "none", who |-> NoId, todo |-> {},
             wrote |-> {}, seen |-> [i \in {} |-> NoId], known |-> FALSE]

Answered == UNION {[ids -> Logins] : ids \in SUBSET Ids}

IdentitiesTypeOK ==
  /\ github \in [Ids -> Logins]
  /\ login \in [Ids -> Logins \cup {"absent", "stale"}]
  /\ registered \subseteq Ids /\ faithful \subseteq Ids
  /\ call \in [Calls ->
       [pc: {"idle", "upsert", "release", "ensure", "ensuring", "commit",
             "refused", "failed", "aborted"},
        kind: {"none", "signin", "import", "preview"}, who: Ids \cup {NoId},
        todo: SUBSET Ids, wrote: SUBSET Ids, seen: Answered, known: BOOLEAN]]
  /\ calls \in 0..MaxCalls /\ renames \in 0..MaxRenames
  /\ \A i, j \in Ids : login[i] = login[j] /\ login[i] \in Logins => i = j

Injective(f) == \A i, j \in DOMAIN f : f[i] = f[j] => i = j

IdentitiesInit ==
  /\ github \in {f \in [Ids -> Logins] : Injective(f)}
  /\ login = [i \in Ids |-> "absent"]
  /\ registered = {} /\ faithful = {}
  /\ call = [c \in Calls |-> IdleCall]
  /\ calls = 0 /\ renames = 0

-----------------------------------------------------------------------------
(* Rows, the unique index on the login, and who waits for whom *)

Wants(c) == call[c].seen[call[c].who]
InTransaction(c) == call[c].kind \in {"import", "preview"}
Others(c) == Calls \ {c}

\* The index entry of a login that an open transaction has taken or given up.
IndexBlockers(c) ==
  {d \in Others(c) : \E j \in call[d].wrote \ {call[c].who} :
     Wants(c) \in {call[d].seen[j], login[j]}}

\* A statement that waits for the index holds the row it updates already.
Held(d) ==
  call[d].wrote \cup
    {i \in {call[d].who} \cap Ids :
       /\ call[d].pc = "upsert" /\ login[i] # "absent"
       /\ \A e \in Others(d) : i \notin call[e].wrote
       /\ IndexBlockers(d) # {}}

UpsertBlockers(c) ==
  {d \in Others(c) : call[c].who \in Held(d)} \cup IndexBlockers(c)

Holders(c) == {j \in Ids \ {call[c].who} : login[j] = Wants(c)}

ReleaseBlockers(c) == {d \in Others(c) : Holders(c) \cap Held(d) # {}}

Blockers(c) ==
  IF call[c].pc = "upsert" THEN UpsertBlockers(c)
  ELSE IF call[c].pc = "release" THEN ReleaseBlockers(c) ELSE {}

\* A row another transaction than one's own gives to the login.
Taken(c) == Holders(c) \ call[c].wrote # {}

-----------------------------------------------------------------------------
(* The calls *)

\* GitHub is asked (CurrentUser) before anything is written.
SignIn(c, i) ==
  /\ call[c] = IdleCall /\ calls < MaxCalls
  /\ calls' = calls + 1
  /\ call' = [call EXCEPT ![c] =
       [IdleCall EXCEPT !.pc = "upsert", !.kind = "signin", !.who = i,
                        !.seen = [j \in {i} |-> github[j]]]]
  /\ UNCHANGED <<github, login, registered, renames, faithful>>

\* Following, then the transaction of ImportFollows or of its preview.
ImportFollows(c, ids, first, kind) ==
  /\ call[c] = IdleCall /\ calls < MaxCalls /\ first \in ids
  /\ calls' = calls + 1
  /\ call' = [call EXCEPT ![c] =
       [IdleCall EXCEPT !.pc = "upsert", !.kind = kind, !.who = first,
                        !.todo = ids \ {first}, !.seen = [j \in ids |-> github[j]]]]
  /\ UNCHANGED <<github, login, registered, renames, faithful>>

\* Which of ids speak for GitHub, after c has written what it saw of them.
Refreshed(c, ids) ==
  (faithful \ ids) \cup {i \in ids : call[c].seen[i] = github[i]}

Upsert(c) ==
  /\ call[c].pc = "upsert" /\ ~InTransaction(c) /\ Blockers(c) = {} /\ ~Taken(c)
  /\ login' = [login EXCEPT ![call[c].who] = Wants(c)]
  /\ faithful' = Refreshed(c, {call[c].who})
  /\ call' = [call EXCEPT ![c].pc = "ensure"]
  /\ UNCHANGED <<github, registered, calls, renames>>

UpsertInTransaction(c) ==
  /\ call[c].pc = "upsert" /\ InTransaction(c) /\ Blockers(c) = {} /\ ~Taken(c)
  /\ LET wrote == call[c].wrote \cup {call[c].who} IN
     \/ /\ call[c].todo = {}
        /\ call' = [call EXCEPT ![c].wrote = wrote, ![c].pc = "commit"]
     \/ \E i \in call[c].todo :
          call' = [call EXCEPT ![c].wrote = wrote, ![c].who = i,
                               ![c].todo = @ \ {i}]
  /\ UNCHANGED <<github, login, registered, calls, renames, faithful>>

\* A duplicate key.  It ends a transaction: the statement that releases the
\* login is refused with it, and so the import.
Collide(c) ==
  /\ call[c].pc = "upsert" /\ Blockers(c) = {} /\ Taken(c)
  /\ call' = [call EXCEPT ![c].pc = IF InTransaction(c) THEN "refused" ELSE "release",
                          ![c].wrote = {}]
  /\ UNCHANGED <<github, login, registered, calls, renames, faithful>>

\* Slip: the row of the id itself is released with the others.
ReleaseAll(c) ==
  LET rows == {j \in Ids : login[j] = Wants(c)} IN
  /\ call[c].pc = "release" /\ Blockers(c) = {}
  /\ login' = [j \in Ids |-> IF j \in rows THEN "stale" ELSE login[j]]
  /\ faithful' = IF Wants(c) = github[call[c].who] THEN faithful ELSE faithful \ rows
  /\ call' = [call EXCEPT ![c].pc = "upsert"]
  /\ UNCHANGED <<github, registered, calls, renames>>

\* Slip: the login is matched in the caller's spelling, which no row has.
ReleaseNone(c) ==
  /\ call[c].pc = "release" /\ Blockers(c) = {}
  /\ call' = [call EXCEPT ![c].pc = "upsert"]
  /\ UNCHANGED <<github, login, registered, calls, renames, faithful>>

\* The stale login goes to login#stale-id, and the upsert is tried again.  An
\* observer behind the times may release a rightful holder.
Release(c) ==
  LET rows == Holders(c) IN
  /\ call[c].pc = "release" /\ Blockers(c) = {}
  /\ login' = [j \in Ids |-> IF j \in rows THEN "stale" ELSE login[j]]
  /\ faithful' = IF Wants(c) = github[call[c].who] THEN faithful ELSE faithful \ rows
  /\ call' = [call EXCEPT ![c].pc = "upsert"]
  /\ UNCHANGED <<github, registered, calls, renames>>

\* EnsureUser's one statement: the snapshot it reads users by ...
Ensure(c) ==
  /\ call[c].pc = "ensure"
  /\ call' = [call EXCEPT ![c].pc = "ensuring",
                          ![c].known = call[c].who \in registered]
  /\ UNCHANGED <<github, login, registered, calls, renames, faithful>>

\* ... and the INSERT, which a user committed since makes do nothing: then
\* neither half of the UNION has a row.
Ensured(c) ==
  /\ call[c].pc = "ensuring"
  /\ registered' = registered \cup {call[c].who}
  /\ call' = [call EXCEPT ![c] =
       IF call[c].who \in registered /\ ~call[c].known
       THEN [call[c] EXCEPT !.pc = "failed"] ELSE IdleCall]
  /\ UNCHANGED <<github, login, calls, renames, faithful>>

\* A preview rolls back instead.
Commit(c) ==
  /\ call[c].pc = "commit"
  /\ IF call[c].kind = "preview" THEN UNCHANGED <<login, faithful>>
     ELSE /\ login' = [i \in Ids |-> IF i \in call[c].wrote THEN call[c].seen[i]
                                     ELSE login[i]]
          /\ faithful' = Refreshed(c, call[c].wrote)
  /\ call' = [call EXCEPT ![c] = IdleCall]
  /\ UNCHANGED <<github, registered, calls, renames>>

\* PostgreSQL ends one of two transactions that wait for each other.
AbortDeadlock(c) ==
  /\ \E d \in Blockers(c) : c \in Blockers(d)
  /\ call' = [call EXCEPT ![c].pc = "aborted", ![c].wrote = {}]
  /\ UNCHANGED <<github, login, registered, calls, renames, faithful>>

AnswerError(c) ==
  /\ call[c].pc \in {"refused", "failed", "aborted"}
  /\ call' = [call EXCEPT ![c] = IdleCall]
  /\ UNCHANGED <<github, login, registered, calls, renames, faithful>>

-----------------------------------------------------------------------------
(* GitHub *)

Rename(i, l) ==
  /\ renames < MaxRenames
  /\ \A j \in Ids : github[j] # l
  /\ github' = [github EXCEPT ![i] = l]
  /\ faithful' = faithful \ {i}
  /\ renames' = renames + 1
  /\ UNCHANGED <<login, registered, call, calls>>

-----------------------------------------------------------------------------

CallSteps(c) ==
  \/ Upsert(c) \/ UpsertInTransaction(c) \/ Collide(c) \/ Release(c)
  \/ Ensure(c) \/ Ensured(c) \/ Commit(c) \/ AbortDeadlock(c) \/ AnswerError(c)

IdentitiesNext ==
  \/ \E c \in Calls :
       \/ \E i \in Ids : SignIn(c, i)
       \/ \E ids \in SUBSET Ids, i \in Ids, kind \in {"import", "preview"} :
            ImportFollows(c, ids, i, kind)
       \/ CallSteps(c)
  \/ \E i \in Ids, l \in Logins : Rename(i, l)

IdentitiesSpec == IdentitiesInit /\ [][IdentitiesNext]_idVars

-----------------------------------------------------------------------------
(* Properties *)

\* A login that was recorded on GitHub's present word stays with its account:
\* only a call whose own answer was out of date takes it away, whatever calls
\* collide meanwhile (identity.go:18-20, oauth.go:190-194).
LoginsKept == \A i \in faithful : login[i] = github[i]

\* Every sign-in and import ends: releases do not chase each other, and
\* imports do not wait for each other for ever (identity.go:21-50).
CallsEnd == \A c \in Calls : call[c].pc # "idle" ~> call[c].pc = "idle"

-----------------------------------------------------------------------------
(* What a comment says and the code does not keep *)

\* "Another identity currently holds this login (a rename we have not observed
\* yet). Release the stale login, then retry once" (identity.go:40-41): no
\* import is refused for it.
ImportSurvivesRename == \A c \in Calls : call[c].pc # "refused"

\* "EnsureUser registers an account for a GitHub identity, or returns the
\* existing one" (identity.go:208): no sign-in ends without a user.
SignInHasUser == \A c \in Calls : call[c].pc # "failed"

=============================================================================
