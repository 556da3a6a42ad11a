--------------------------- MODULE ExtensionSession ---------------------------
(***************************************************************************)
(* The browser extension's service worker as the holder of the session:    *)
(* what it keeps in storage.local, the sign-in it drives (login.ts), the   *)
(* account and service handlers (background.ts, session.ts) and the        *)
(* authenticated request (client.ts).  Every storage access is an await:   *)
(* a handler is a process that reads in one step and writes in another,    *)
(* and the worker may be evicted between any two of them, which forgets    *)
(* every handler and keeps the storage and the alarm.                      *)
(*                                                                         *)
(* A session token is named by the sign-in that yielded it.                *)
(***************************************************************************)
EXTENDS Integers

CONSTANTS
  Origins,        \* service origins the user may point the extension at
  Home,           \* DEFAULT_SERVICE_ORIGIN
  NoOrigin,
  People,         \* GitHub accounts
  Nobody,
  Logins,         \* sign-ins that may be started (bounds the model)
  NoLogin,
  MaxDisturbances \* bound on evictions, lost answers, switches, removals,
                  \* revocations, API calls and sign-ins after the first,
                  \* taken together

ASSUME SessionAssumption ==
  Home \in Origins /\ NoLogin \notin Logins /\ MaxDisturbances \in Nat

VARIABLES
  local,     \* browser.storage.local
  service,   \* each sign-in as its issuer knows it
  worker,    \* whether the service worker is running
  alarm,     \* whether the ghs:poll-login alarm is set
  starter,   \* the ghs:session/login-start handler
  poll,      \* the poll in flight (inFlightPoll), at most one
  callers,   \* who awaits it, and the origin each of them would poll
  loop,      \* the origin runLoginLoop polls, NoOrigin when loopRunning is false
  switcher,  \* the ghs:session/set-service-url handler
  remover,   \* account removals: the logout handler's and the failed request's
  request,   \* ApiClient.request with the active account's token
  popup,     \* what the popup's sign-in page shows
  disturbances,
  refused,   \* history: sign-ins reported as denied or expired
  kept,      \* history: sign-ins whose token was written to storage
  mixed,     \* history: a switch of service has overlapped with a sign-in or
             \* with the removal of an account
  blipped,   \* history: a poll that should have resumed the loop failed
  crossed    \* history: sign-ins saved while the poll of another was in flight

workerVars == <<starter, poll, callers, loop, switcher, remover, request>>
historyVars == <<refused, kept, mixed, blipped, crossed>>
sessionVars == <<local, service, worker, alarm, workerVars, popup, disturbances,
                 historyVars>>

Callers == {"loop", "alarm", "startup", "popup"}
Removers == {"logout", "request"}
Tokens == [People -> Logins \cup {NoLogin}]

NoStarter == [pc |-> "off", origin |-> NoOrigin, login |-> NoLogin]
NoPoll == [pc |-> "off", origin |-> NoOrigin, login |-> NoLogin, result |-> "none",
           accounts |-> [p \in People |-> NoLogin]]
NoCallers == [c \in Callers |-> NoOrigin]
NoSwitch == [pc |-> "off", origin |-> NoOrigin]
NoRemoval == [pc |-> "off", person |-> Nobody, token |-> NoLogin,
              accounts |-> [p \in People |-> NoLogin]]
NoRequest == [pc |-> "off", origin |-> NoOrigin, token |-> NoLogin]

Stored == [origin: Origins, accounts: Tokens, active: People \cup {Nobody},
           pending: Logins \cup {NoLogin}]
Issued == [state: {"unused", "pending", "approved", "denied", "expired", "consumed",
                   "revoked"},
           origin: Origins \cup {NoOrigin}, person: People \cup {Nobody}, late: BOOLEAN]
Starters == [pc: {"off", "creating", "saving", "opening"},
             origin: Origins \cup {NoOrigin}, login: Logins \cup {NoLogin}]
Polls == [pc: {"off", "reading", "asking", "clearing", "loading", "saving", "activating"},
          origin: Origins \cup {NoOrigin}, login: Logins \cup {NoLogin},
          result: {"none", "denied", "expired", "approved"}, accounts: Tokens]
Switches == [pc: {"off", "accounts", "active", "pending", "origin"},
             origin: Origins \cup {NoOrigin}]
Removals == [pc: {"off", "token", "revoking", "loading", "saving", "checking",
                  "promoting"},
             person: People \cup {Nobody}, token: Logins \cup {NoLogin},
             accounts: Tokens]
Requests == [pc: {"off", "addressed", "sent"},
             origin: Origins \cup {NoOrigin}, token: Logins \cup {NoLogin}]

SessionTypeOK ==
  /\ local \in Stored
  /\ service \in [Logins -> Issued]
  /\ worker \in BOOLEAN /\ alarm \in BOOLEAN
  /\ starter \in Starters /\ poll \in Polls
  /\ callers \in [Callers -> Origins \cup {NoOrigin}]
  /\ loop \in Origins \cup {NoOrigin}
  /\ switcher \in Switches
  /\ remover \in [Removers -> Removals] /\ request \in Requests
  /\ popup \in {"closed", "open", "waiting", "signedin", "failed"}
  /\ disturbances \in 0..MaxDisturbances
  /\ refused \subseteq Logins /\ kept \subseteq Logins
  /\ mixed \in BOOLEAN /\ blipped \in BOOLEAN /\ crossed \subseteq Logins

SessionInit ==
  /\ local = [origin |-> Home, accounts |-> [p \in People |-> NoLogin],
              active |-> Nobody, pending |-> NoLogin]
  /\ service = [l \in Logins |-> [state |-> "unused", origin |-> NoOrigin,
                                  person |-> Nobody, late |-> FALSE]]
  /\ worker = TRUE /\ alarm = FALSE
  /\ starter = NoStarter /\ poll = NoPoll /\ callers = NoCallers
  /\ loop = NoOrigin /\ switcher = NoSwitch
  /\ remover = [r \in Removers |-> NoRemoval] /\ request = NoRequest
  /\ popup = "closed" /\ disturbances = 0
  /\ refused = {} /\ kept = {} /\ mixed = FALSE /\ blipped = FALSE /\ crossed = {}

Disturb ==
  /\ disturbances < MaxDisturbances
  /\ disturbances' = disturbances + 1

SigningIn ==
  \/ local.pending # NoLogin \/ starter.pc # "off"
  \/ poll.pc # "off" \/ loop # NoOrigin

Removing == \E r \in Removers : remover[r].pc # "off"

-----------------------------------------------------------------------------
(* Polling a pending login *)

\* pollLoginOnce: starts a request at the caller's origin, or joins the one
\* that is in flight.
Join(who, origin) ==
  /\ callers' = [callers EXCEPT ![who] = origin]
  /\ poll' = IF poll.pc = "off" THEN [NoPoll EXCEPT !.pc = "reading", !.origin = origin]
             ELSE poll

\* What the popup's page makes of an answer.
PopupAfter(result) ==
  CASE result = "approved" -> "signedin"
    [] result \in {"denied", "expired"} -> "failed"
    [] result = "pending" -> "waiting"
    [] OTHER -> popup

\* The start-up sets the alarm of a login that is still pending, the alarm clears
\* itself when nothing is.  Slip: it clears itself once it has polled.
AlarmAfterAny(heard, result) == IF "alarm" \in heard THEN FALSE ELSE alarm
AlarmAfter(heard, result) ==
  IF "startup" \in heard /\ result = "pending" THEN TRUE
  ELSE IF "alarm" \in heard /\ result # "pending" THEN FALSE
  ELSE alarm

\* The poll settles: everyone who awaited it goes on.  The loop sleeps or ends;
\* the alarm and the start-up resume the loop of a login that is still pending;
\* a loop asked for while one is running polls once more instead.
Settle(result) ==
  LET heard == {c \in Callers : callers[c] # NoOrigin}
      resumed == {callers[c] : c \in heard \cap {"alarm", "startup"}}
      goesOn == IF "loop" \in heard /\ result \notin {"pending", "error"} THEN NoOrigin
                ELSE loop
  IN  /\ popup' = IF "popup" \in heard /\ popup # "closed" THEN PopupAfter(result)
                  ELSE popup
      /\ alarm' = AlarmAfter(heard, result)
      /\ \/ /\ result = "pending"
            /\ \E origin \in resumed :
                 /\ poll' = [NoPoll EXCEPT !.pc = "reading", !.origin = origin]
                 /\ callers' = [NoCallers EXCEPT !["loop"] =
                                  IF goesOn = NoOrigin THEN origin ELSE NoOrigin]
                 /\ loop' = IF goesOn = NoOrigin THEN origin ELSE goesOn
         \/ /\ result # "pending" \/ resumed = {}
            /\ poll' = NoPoll /\ callers' = NoCallers /\ loop' = goesOn
      /\ refused' = IF result \in {"denied", "expired"} THEN refused \cup {poll.login}
                    ELSE refused
      /\ blipped' = (blipped \/ (result = "error" /\ resumed # {}))

\* pollLoginOnceUnlocked, up to its request: there may be nothing to poll, or
\* only a login whose deadline has passed.
ReadPending ==
  LET l == local.pending
  IN  /\ poll.pc = "reading"
      /\ \/ l = NoLogin /\ Settle("idle")
         \/ /\ l # NoLogin
            /\ poll' = IF service[l].late
                       THEN [poll EXCEPT !.pc = "clearing", !.login = l,
                                         !.result = "expired"]
                       ELSE [poll EXCEPT !.pc = "asking", !.login = l]
            /\ UNCHANGED <<callers, loop, popup, alarm, refused, blipped>>
      /\ UNCHANGED <<local, service, worker, starter, switcher, remover, request,
                     disturbances, kept, mixed, crossed>>

\* What the asked origin says of the login; another origin has never heard of it.
Verdict(l, origin) ==
  CASE origin # service[l].origin -> "expired"
    [] service[l].state = "pending" /\ ~service[l].late -> "pending"
    [] service[l].state \in {"approved", "denied"} -> service[l].state
    [] OTHER -> "expired"

Collect(l, origin) ==
  service' = IF Verdict(l, origin) = "approved"
             THEN [service EXCEPT ![l].state = "consumed"] ELSE service

\* The service answers the poll; the token of an approved login is handed over
\* once, in this answer.
HearVerdict ==
  LET said == Verdict(poll.login, poll.origin)
  IN  /\ poll.pc = "asking"
      /\ Collect(poll.login, poll.origin)
      /\ \/ said = "pending" /\ Settle("pending")
         \/ /\ said # "pending"
            /\ poll' = [poll EXCEPT !.pc = "clearing", !.result = said]
            /\ UNCHANGED <<callers, loop, popup, alarm, refused, blipped>>
      /\ UNCHANGED <<local, worker, starter, switcher, remover, request,
                     disturbances, kept, mixed, crossed>>

\* The poll's fetch fails, before or after the service acted on it, or is
\* answered with a transient status.
PollFails ==
  /\ poll.pc = "asking" /\ Disturb
  /\ \/ Collect(poll.login, poll.origin) /\ Settle("error")
     \/ Settle("error") /\ UNCHANGED service
     \/ Settle("pending") /\ UNCHANGED service
  /\ UNCHANGED <<local, worker, starter, switcher, remover, request, kept, mixed,
                 crossed>>

\* The pending login is forgotten, whichever login that now is; an approved one
\* goes on to store its token.  Slip: it is forgotten only once that is done.
ForgottenLater ==
  IF poll.result = "approved" THEN local ELSE [local EXCEPT !.pending = NoLogin]
Forgotten == [local EXCEPT !.pending = NoLogin]

ClearPending ==
  /\ poll.pc = "clearing"
  /\ local' = Forgotten
  /\ \/ /\ poll.result = "approved"
        /\ poll' = [poll EXCEPT !.pc = "loading"]
        /\ UNCHANGED <<callers, loop, popup, alarm, refused, blipped>>
     \/ poll.result # "approved" /\ Settle(poll.result)
  /\ UNCHANGED <<service, worker, starter, switcher, remover, request,
                 disturbances, kept, mixed, crossed>>

\* upsertAccountSession: three awaits.
LoadAccounts ==
  /\ poll.pc = "loading"
  /\ poll' = [poll EXCEPT !.pc = "saving",
                          !.accounts = [local.accounts EXCEPT
                            ![service[poll.login].person] = poll.login]]
  /\ UNCHANGED <<local, service, worker, alarm, starter, callers, loop, switcher,
                 remover, request, popup, disturbances, historyVars>>

SaveAccounts ==
  /\ poll.pc = "saving"
  /\ local' = [local EXCEPT !.accounts = poll.accounts]
  /\ kept' = kept \cup {poll.login}
  /\ poll' = [poll EXCEPT !.pc = "activating"]
  /\ UNCHANGED <<service, worker, alarm, starter, callers, loop, switcher, remover,
                 request, popup, disturbances, refused, mixed, blipped, crossed>>

Activate ==
  /\ poll.pc = "activating"
  /\ local' = [local EXCEPT !.active = service[poll.login].person]
  /\ Settle("approved")
  /\ UNCHANGED <<service, worker, starter, switcher, remover, request,
                 disturbances, kept, mixed, crossed>>

-----------------------------------------------------------------------------
(* Who polls *)

\* runLoginLoop wakes from its sleep.
LoopPolls ==
  /\ loop # NoOrigin /\ callers["loop"] = NoOrigin
  /\ Join("loop", loop)
  /\ UNCHANGED <<local, service, worker, alarm, starter, loop, switcher, remover,
                 request, popup, disturbances, historyVars>>

AlarmPolls ==
  /\ worker /\ alarm /\ callers["alarm"] = NoOrigin
  /\ Join("alarm", local.origin)
  /\ UNCHANGED <<local, service, worker, alarm, starter, loop, switcher, remover,
                 request, popup, disturbances, historyVars>>

\* An event reaches a worker that was evicted: it starts, and resumes a login.
WorkerStarts ==
  /\ ~worker
  /\ worker' = TRUE
  /\ Join("startup", local.origin)
  /\ UNCHANGED <<local, service, alarm, starter, loop, switcher, remover, request,
                 popup, disturbances, historyVars>>

\* The browser evicts the worker: every handler is forgotten.
Evict ==
  /\ worker /\ Disturb
  /\ worker' = FALSE
  /\ starter' = NoStarter /\ poll' = NoPoll /\ callers' = NoCallers
  /\ loop' = NoOrigin /\ switcher' = NoSwitch
  /\ remover' = [r \in Removers |-> NoRemoval] /\ request' = NoRequest
  /\ UNCHANGED <<local, service, alarm, popup, historyVars>>

\* The popup opens on the sign-in page, or its watch timer fires: both poll.
PopupPolls ==
  /\ worker /\ callers["popup"] = NoOrigin
  /\ \/ popup = "closed" /\ popup' = "open"
     \/ popup = "waiting" /\ UNCHANGED popup
  /\ Join("popup", local.origin)
  /\ UNCHANGED <<local, service, worker, alarm, starter, loop, switcher, remover,
                 request, disturbances, historyVars>>

ClosePopup ==
  /\ popup # "closed"
  /\ popup' = "closed"
  /\ callers' = [callers EXCEPT !["popup"] = NoOrigin]
  /\ UNCHANGED <<local, service, worker, alarm, starter, poll, loop, switcher,
                 remover, request, disturbances, historyVars>>

-----------------------------------------------------------------------------
(* ghs:session/login-start *)

StartLogin ==
  /\ worker /\ starter.pc = "off" /\ popup \in {"open", "failed"}
  /\ \E l \in Logins : service[l].state = "unused"
  /\ IF \A l \in Logins : service[l].state = "unused" THEN UNCHANGED disturbances
     ELSE Disturb
  /\ starter' = [NoStarter EXCEPT !.pc = "creating", !.origin = local.origin]
  /\ popup' = "waiting"
  /\ mixed' = (mixed \/ switcher.pc # "off")
  /\ UNCHANGED <<local, service, worker, alarm, poll, callers, loop, switcher,
                 remover, request, refused, kept, blipped, crossed>>

\* The service creates the pending login and its answer arrives.  The names of
\* logins are interchangeable: the next one is taken.
NextLogin == CHOOSE l \in Logins : service[l].state = "unused"
LoginCreated ==
  /\ starter.pc = "creating"
  /\ \E l \in Logins :
       /\ service[l].state = "unused" /\ l = NextLogin
       /\ service' = [service EXCEPT ![l].state = "pending",
                                     ![l].origin = starter.origin]
       /\ starter' = [starter EXCEPT !.pc = "saving", !.login = l]
  /\ UNCHANGED <<local, worker, alarm, poll, callers, loop, switcher, remover,
                 request, popup, disturbances, historyVars>>

SaveLogin ==
  /\ starter.pc = "saving"
  /\ local' = [local EXCEPT !.pending = starter.login]
  /\ starter' = [starter EXCEPT !.pc = "opening"]
  /\ crossed' = IF poll.login = NoLogin THEN crossed ELSE crossed \cup {starter.login}
  /\ UNCHANGED <<service, worker, alarm, poll, callers, loop, switcher, remover,
                 request, popup, disturbances, refused, kept, mixed, blipped>>

\* The approval page is open: the alarm is set and the loop started, or, when
\* one is running, a single poll.
OpenApproval ==
  /\ starter.pc = "opening"
  /\ alarm' = TRUE
  /\ IF loop = NoOrigin
     THEN loop' = starter.origin /\ Join("loop", starter.origin)
     ELSE /\ poll' = IF poll.pc = "off"
                     THEN [NoPoll EXCEPT !.pc = "reading", !.origin = starter.origin]
                     ELSE poll
          /\ UNCHANGED <<loop, callers>>
  /\ starter' = NoStarter
  /\ UNCHANGED <<local, service, worker, switcher, remover, request, popup,
                 disturbances, historyVars>>

\* The approval tab opens only once the login is saved.
Approve(l, p) ==
  /\ service[l].state = "pending" /\ ~service[l].late /\ starter.login # l
  /\ service' = [service EXCEPT ![l].state = "approved", ![l].person = p]
  /\ UNCHANGED <<local, worker, alarm, workerVars, popup, disturbances, historyVars>>

Deny(l) ==
  /\ service[l].state = "pending" /\ ~service[l].late /\ starter.login # l
  /\ service' = [service EXCEPT ![l].state = "denied"]
  /\ UNCHANGED <<local, worker, alarm, workerVars, popup, disturbances, historyVars>>

DeadlinePasses(l) ==
  /\ service[l].state \in {"pending", "approved"} /\ ~service[l].late
  /\ service' = [service EXCEPT ![l].late = TRUE]
  /\ UNCHANGED <<local, worker, alarm, workerVars, popup, disturbances, historyVars>>

-----------------------------------------------------------------------------
(* ghs:session/set-service-url *)

SwitchService(origin) ==
  /\ worker /\ switcher.pc = "off" /\ origin # local.origin /\ Disturb
  /\ switcher' = [pc |-> "accounts", origin |-> origin]
  /\ mixed' = (mixed \/ SigningIn \/ Removing)
  /\ UNCHANGED <<local, service, worker, alarm, starter, poll, callers, loop,
                 remover, request, popup, refused, kept, blipped, crossed>>

\* setServiceOrigin: credentials first, the origin last.  Slip: the other way round.
SwitchStep(from, to, stored) ==
  /\ switcher.pc = from
  /\ local' = stored
  /\ switcher' = IF to = "off" THEN NoSwitch ELSE [switcher EXCEPT !.pc = to]
  /\ UNCHANGED <<service, worker, alarm, starter, poll, callers, loop, remover,
                 request, popup, disturbances, historyVars>>

SwitchOriginFirst ==
  \/ SwitchStep("accounts", "active", [local EXCEPT !.origin = switcher.origin])
  \/ SwitchStep("active", "pending",
                [local EXCEPT !.accounts = [p \in People |-> NoLogin]])
  \/ SwitchStep("pending", "origin", [local EXCEPT !.active = Nobody])
  \/ SwitchStep("origin", "off", [local EXCEPT !.pending = NoLogin])
SwitchSteps ==
  \/ SwitchStep("accounts", "active",
                [local EXCEPT !.accounts = [p \in People |-> NoLogin]])
  \/ SwitchStep("active", "pending", [local EXCEPT !.active = Nobody])
  \/ SwitchStep("pending", "origin", [local EXCEPT !.pending = NoLogin])
  \/ SwitchStep("origin", "off", [local EXCEPT !.origin = switcher.origin])

-----------------------------------------------------------------------------
(* Account removals *)

Removal(r, row) == remover' = [remover EXCEPT ![r] = row]

OthersStay == UNCHANGED <<worker, alarm, starter, poll, callers, loop, switcher,
                          request, popup, disturbances, historyVars>>

\* logoutAccount(null): the active account, then its stored token.
Logout ==
  /\ worker /\ remover["logout"].pc = "off" /\ local.active # Nobody /\ Disturb
  /\ Removal("logout", [NoRemoval EXCEPT !.pc = "token", !.person = local.active])
  /\ mixed' = (mixed \/ switcher.pc # "off")
  /\ UNCHANGED <<local, service, worker, alarm, starter, poll, callers, loop,
                 switcher, request, popup, refused, kept, blipped, crossed>>

LogoutReadsToken ==
  LET token == local.accounts[remover["logout"].person]
  IN  /\ remover["logout"].pc = "token"
      /\ Removal("logout", [remover["logout"] EXCEPT
                              !.token = token,
                              !.pc = IF token = NoLogin THEN "loading" ELSE "revoking"])
      /\ UNCHANGED <<local, service>> /\ OthersStay

\* logoutToken, at the origin configured now; best effort.
LogoutRevokes ==
  LET token == remover["logout"].token
  IN  /\ remover["logout"].pc = "revoking"
      /\ service' = IF service[token].origin = local.origin
                    THEN [service EXCEPT ![token].state = "revoked"] ELSE service
      /\ Removal("logout", [remover["logout"] EXCEPT !.pc = "loading"])
      /\ UNCHANGED local /\ OthersStay

\* removeAccount: read the accounts, write them back without this one, read the
\* active account, promote another if this one was active.
RemoveLoads(r) ==
  /\ remover[r].pc = "loading"
  /\ Removal(r, [remover[r] EXCEPT
                   !.pc = "saving",
                   !.accounts = [local.accounts EXCEPT ![remover[r].person] = NoLogin]])
  /\ UNCHANGED <<local, service>> /\ OthersStay

RemoveSaves(r) ==
  /\ remover[r].pc = "saving"
  /\ local' = [local EXCEPT !.accounts = remover[r].accounts]
  /\ Removal(r, [remover[r] EXCEPT !.pc = "checking"])
  /\ UNCHANGED service /\ OthersStay

RemoveChecks(r) ==
  /\ remover[r].pc = "checking"
  /\ Removal(r, IF local.active = remover[r].person
                THEN [remover[r] EXCEPT !.pc = "promoting"] ELSE NoRemoval)
  /\ UNCHANGED <<local, service>> /\ OthersStay

RemovePromotes(r) ==
  LET others == {p \in People : remover[r].accounts[p] # NoLogin}
  IN  /\ remover[r].pc = "promoting"
      /\ \E p \in IF others = {} THEN {Nobody} ELSE others :
           local' = [local EXCEPT !.active = p]
      /\ Removal(r, NoRemoval)
      /\ UNCHANGED service /\ OthersStay

-----------------------------------------------------------------------------
(* ApiClient.request *)

\* The origin is read first, the token of the active account after it.
RequestStarts ==
  /\ worker /\ request.pc = "off" /\ remover["request"].pc = "off" /\ Disturb
  /\ request' = [NoRequest EXCEPT !.pc = "addressed", !.origin = local.origin]
  /\ UNCHANGED <<local, service, worker, alarm, starter, poll, callers, loop,
                 switcher, remover, popup, historyVars>>

ActiveToken ==
  IF local.active = Nobody THEN NoLogin ELSE local.accounts[local.active]

RequestSent ==
  /\ request.pc = "addressed"
  /\ request' = IF ActiveToken = NoLogin THEN NoRequest
                ELSE [request EXCEPT !.pc = "sent", !.token = ActiveToken]
  /\ UNCHANGED <<local, service, worker, alarm, starter, poll, callers, loop,
                 switcher, remover, popup, disturbances, historyVars>>

\* The service knows the token, or answers 401 and the account goes: a removal
\* of whoever still holds that very token (dropAccountForToken).
RequestAnswered ==
  LET token == request.token
      holders == {p \in People : local.accounts[p] = token}
  IN  /\ request.pc = "sent"
      /\ request' = NoRequest
      /\ \/ /\ service[token].state = "consumed"
            /\ service[token].origin = request.origin
            /\ UNCHANGED <<remover, mixed>>
         \/ /\ \/ service[token].state = "revoked"
               \/ service[token].origin # request.origin
            /\ \/ holders = {} /\ UNCHANGED <<remover, mixed>>
               \/ \E p \in holders :
                    /\ Removal("request", [NoRemoval EXCEPT !.pc = "loading",
                                                            !.person = p])
                    /\ mixed' = (mixed \/ switcher.pc # "off")
      /\ UNCHANGED <<local, service, worker, alarm, starter, poll, callers, loop,
                     switcher, popup, disturbances, refused, kept, blipped, crossed>>

\* The session is revoked from another client.
Revoke(l) ==
  /\ service[l].state = "consumed" /\ Disturb
  /\ service' = [service EXCEPT ![l].state = "revoked"]
  /\ UNCHANGED <<local, worker, alarm, workerVars, popup, historyVars>>

-----------------------------------------------------------------------------
PollSteps == ReadPending \/ HearVerdict \/ ClearPending \/ LoadAccounts
             \/ SaveAccounts \/ Activate

LoginSteps == LoginCreated \/ SaveLogin \/ OpenApproval

SessionNext ==
  \/ PollSteps \/ PollFails
  \/ LoopPolls \/ AlarmPolls \/ WorkerStarts \/ Evict
  \/ PopupPolls \/ ClosePopup
  \/ StartLogin \/ LoginSteps
  \/ \E l \in Logins : Deny(l) \/ DeadlinePasses(l) \/ Revoke(l)
  \/ \E l \in Logins, p \in People : Approve(l, p)
  \/ \E origin \in Origins : SwitchService(origin)
  \/ SwitchSteps
  \/ Logout \/ LogoutReadsToken \/ LogoutRevokes
  \/ \E r \in Removers :
       RemoveLoads(r) \/ RemoveSaves(r) \/ RemoveChecks(r) \/ RemovePromotes(r)
  \/ RequestStarts \/ RequestSent \/ RequestAnswered

SessionSpec == SessionInit /\ [][SessionNext]_sessionVars

-----------------------------------------------------------------------------
(* Properties *)

\* A sign-in whose session was stored is never reported as denied or expired,
\* whoever polls and whenever the worker is evicted: the login is forgotten
\* before its token is stored, and overlapping polls share one request.
StoredNotRefused == kept \cap refused = {}

\* The same, of a session whose state has its type.
SessionInv == SessionTypeOK /\ StoredNotRefused

\* A request sent to the service the extension is set to never carries the
\* token of another, however it overlaps with a switch of service: the accounts
\* go first and the origin last, and a request reads them the other way round.
\* A sign-in or a removal that overlaps a switch is left out (see mixed): it
\* writes back the accounts it has read.
OldTokensStayHome ==
  [][ /\ request.pc = "addressed" /\ request'.pc = "sent" /\ ~mixed
      /\ request.origin = local.origin
      => service[request'.token].origin = request.origin ]_sessionVars

\* What OneTimeGrant knows of a login.
PhaseOf(l) ==
  CASE service[l].state = "unused" -> "none"
    [] service[l].state = "pending" -> "open"
    [] service[l].state = "approved" -> "granted"
    [] service[l].state \in {"consumed", "revoked"} -> "handed"
    [] OTHER -> "closed"

Issuer == INSTANCE OneTimeGrant WITH
  Grants <- Logins, Users <- People, NoUser <- Nobody, Lifetime <- 1,
  phase  <- [l \in Logins |-> PhaseOf(l)],
  left   <- [l \in Logins |->
               IF service[l].state = "unused" \/ service[l].late THEN 0 ELSE 1],
  holder <- [l \in Logins |-> service[l].person],
  given  <- [l \in Logins |->
               IF PhaseOf(l) = "handed" THEN <<service[l].person>> ELSE << >>]

\* The service the extension talks to keeps the promise that SignIn implements:
\* each login is a one-time grant, and nothing the extension does, overlapping
\* polls, lost answers, a switch or a sign-out, makes it hand over twice, to
\* another person, or after it was closed (login.ts:65, background.ts).
LoginsAreGrants == Issuer!Spec

\* What keeps a session's token its owner's: it is handed over as promised, and
\* sent to its own service only.
TokensGuarded == LoginsAreGrants /\ OldTokensStayHome

\* A pending login that the alarm watches is resolved, evictions or not, unless
\* the very poll that should have resumed the loop failed (blipped), or the login
\* was saved while the poll of an older one was in flight (crossed): what that
\* poll ends is the loop and the alarm of whichever login is pending by then
\* (background.ts:123-128).
WatchedLoginResolves ==
  \A l \in Logins :
    (local.pending = l /\ alarm) ~> (local.pending # l \/ blipped \/ l \in crossed)

-----------------------------------------------------------------------------
(* What a comment says and the code does not keep *)

\* "Drop credentials and any pending login BEFORE switching, so an in-flight
\* request can never send the old bearer token ... to the new origin"
\* (session.ts:83-85), whatever overlaps with the switch.
SwitchDropsTokens ==
  [][ /\ request.pc = "addressed" /\ request'.pc = "sent"
      /\ request.origin = local.origin
      => service[request'.token].origin = request.origin ]_sessionVars

=============================================================================
