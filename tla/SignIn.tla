-------------------------------- MODULE SignIn --------------------------------
(***************************************************************************)
(* The three ways to a session: a login approved on the service's own page *)
(* (pending_logins), GitHub's device grant (device_logins) and the browser *)
(* flow (oauth_flows).  Each row is a grant; the handlers that move it are *)
(* tasks, each of several statements that interleave with other tasks and  *)
(* may end between any two of them.  A session is identified with its      *)
(* token, which is the position at which it was issued.                    *)
(***************************************************************************)
EXTENDS Naturals, Sequences

CONSTANTS
  WebLogins,     \* rows of pending_logins
  DeviceLogins,  \* rows of device_logins
  Flows,         \* rows of oauth_flows
  NoGrant,
  People,        \* who may sign in or approve
  Nobody,
  Tasks,         \* handlers of the API that can be in progress at once
  LoginTTL,      \* Cfg.PendingLoginTTL and GitHub's expires_in, in ticks
  PollBudget,    \* Service.maxPolls
  MaxSessions    \* bound on the sessions issued

Grants == WebLogins \cup DeviceLogins \cup Flows

ASSUME SignInAssumption ==
  /\ WebLogins \cap DeviceLogins = {}
  /\ (WebLogins \cup DeviceLogins) \cap Flows = {}
  /\ NoGrant \notin Grants /\ Nobody \notin People
  /\ LoginTTL \in Nat /\ PollBudget \in Nat /\ MaxSessions \in Nat

VARIABLES
  grant,     \* the three tables
  github,    \* what GitHub knows of each device code
  task,      \* the handlers in progress
  sessions,  \* owners of the sessions, in the order of issue
  handed     \* tokens carried by a response, for each grant

signInVars == <<grant, github, task, sessions, handed>>

-----------------------------------------------------------------------------
(* Types *)

NoToken == 0

\* For a flow, user is the identity its handler holds: the table has none.
GrantRow == [state: {"none", "pending", "approved", "denied", "consumed",
                     "expired"},
             ttl: 0..LoginTTL,    \* expires_at - Now()
             polls: 0..PollBudget, \* poll_count, compared for web logins only
             user: People \cup {Nobody},
             token: Nat]          \* issued_token

DeviceCode ==
  {code \in [state: {"waiting", "granted", "refused", "spent"},
             user: People \cup {Nobody}] :
     code.state = "granted" => code.user \in People}

TaskState == [pc: {"idle", "approving", "polled", "refused", "identified",
                   "parking", "collecting"},
              grant: Grants \cup {NoGrant},
              user: People \cup {Nobody},
              token: Nat]

IdleTask == [pc |-> "idle", grant |-> NoGrant, user |-> Nobody, token |-> NoToken]

SignInTypeOK ==
  /\ grant \in [Grants -> GrantRow]
  /\ github \in [DeviceLogins -> DeviceCode]
  /\ task \in [Tasks -> TaskState]
  /\ sessions \in Seq(People)
  /\ handed \in [Grants -> Seq(Nat)]

SignInInit ==
  /\ grant = [g \in Grants |-> [state |-> "none", ttl |-> 0, polls |-> 0,
                                user |-> Nobody, token |-> NoToken]]
  /\ github = [d \in DeviceLogins |-> [state |-> "waiting", user |-> Nobody]]
  /\ task = [c \in Tasks |-> IdleTask]
  /\ sessions = << >>
  /\ handed = [g \in Grants |-> << >>]

-----------------------------------------------------------------------------
(* The rows *)

\* An insert with expires_at = Now() + the lifetime.
CreateGrant(g) ==
  /\ grant[g].state = "none"
  /\ grant' = [grant EXCEPT ![g].state = "pending", ![g].ttl = LoginTTL]
  /\ UNCHANGED <<github, task, sessions, handed>>

PostPendingLogin == \E l \in WebLogins : CreateGrant(l)
PostDeviceLoginStart == \E d \in DeviceLogins : CreateGrant(d)
GetAuthStart == \E f \in Flows : CreateGrant(f)

\* WHERE state='pending' AND expires_at > now, of both approvals.  Slip: a row
\* past its deadline.
ApprovableLate(g) == grant[g].state = "pending"
Approvable(g) == grant[g].state = "pending" /\ grant[g].ttl > 0

Approved(g, user, token) ==
  [grant EXCEPT ![g].state = "approved", ![g].user = user, ![g].token = token]

\* Collecting a token clears it.  Slip: only the state changes.
CollectedKept(row) == [row EXCEPT !.state = "consumed"]
Collected(row) == [row EXCEPT !.state = "consumed", !.token = NoToken]

Lapsed(row) == row.state = "pending" /\ row.ttl = 0

Parked(row) == row.state = "approved" /\ row.token # NoToken

HandOver(g, token) == handed' = [handed EXCEPT ![g] = Append(@, token)]

-----------------------------------------------------------------------------
(* Logins approved on the service's page *)

\* PollPendingLogin's transaction.  The budget is looked at first and ends the
\* login whatever its state, leaving a parked token where it is.
OutOfPolls(row) == row.polls >= PollBudget

CountPoll(row) == [row EXCEPT !.polls = @ + 1]

PollAnswer(row) ==
  IF OutOfPolls(row) \/ Lapsed(row) THEN "expired"
  ELSE IF Parked(row) THEN "approved"
  ELSE IF row.state \in {"pending", "denied"} THEN row.state
  ELSE "expired"

PolledRow(row) ==
  IF OutOfPolls(row) THEN [row EXCEPT !.state = "expired"]
  ELSE IF Lapsed(row) THEN CountPoll([row EXCEPT !.state = "expired"])
  ELSE CountPoll(IF Parked(row) THEN Collected(row) ELSE row)

\* One poll, from a client that holds the polling secret.
PollPendingLogin(l) ==
  /\ l \in WebLogins /\ grant[l].state # "none"
  /\ grant' = [grant EXCEPT ![l] = PolledRow(grant[l])]
  /\ \/ PollAnswer(grant[l]) = "approved" /\ HandOver(l, grant[l].token)
     \/ PollAnswer(grant[l]) # "approved" /\ UNCHANGED handed
  /\ UNCHANGED <<github, task, sessions>>

\* Service.ApprovePendingLogin reads the row first: a signed-in user who typed
\* the row's code goes on, whether or not the deadline has passed.
StartApproval(c, l, u) ==
  /\ task[c].pc = "idle"
  /\ l \in WebLogins /\ grant[l].state = "pending"
  /\ task' = [task EXCEPT ![c] = [pc |-> "approving", grant |-> l, user |-> u,
                                  token |-> NoToken]]
  /\ UNCHANGED <<grant, github, sessions, handed>>

\* The session exists before the approval that may still fail.
IssueSession(c) ==
  /\ task[c].pc \in {"approving", "identified"}
  /\ Len(sessions) < MaxSessions
  /\ sessions' = Append(sessions, task[c].user)
  /\ task' = [task EXCEPT ![c].pc = "parking", ![c].token = Len(sessions) + 1]
  /\ UNCHANGED <<grant, github, handed>>

ApprovePendingLogin(c) ==
  LET l == task[c].grant IN
  /\ task[c].pc = "parking" /\ l \in WebLogins
  /\ \/ Approvable(l) /\ grant' = Approved(l, task[c].user, task[c].token)
     \/ ~Approvable(l) /\ UNCHANGED grant
  /\ task' = [task EXCEPT ![c] = IdleTask]
  /\ UNCHANGED <<github, sessions, handed>>

DenyPendingLogin(l) ==
  /\ l \in WebLogins /\ grant[l].state = "pending"
  /\ grant' = [grant EXCEPT ![l].state = "denied"]
  /\ UNCHANGED <<github, task, sessions, handed>>

-----------------------------------------------------------------------------
(* GitHub's device grant *)

\* The person enters the code on github.com, refuses it or lets it lapse.
GitHubDecides(d) ==
  /\ d \in DeviceLogins /\ grant[d].state # "none"
  /\ github[d].state = "waiting"
  /\ \/ \E u \in People : github' = [github EXCEPT ![d] =
                                      [state |-> "granted", user |-> u]]
     \/ github' = [github EXCEPT ![d].state = "refused"]
  /\ UNCHANGED <<grant, task, sessions, handed>>

\* Store.PollDeviceLogin: marks a lapsed row and collects a parked token.
PolledDevice(row) ==
  IF Lapsed(row) THEN [row EXCEPT !.state = "expired"]
  ELSE IF Parked(row) THEN Collected(row) ELSE row

\* Service.PollDeviceLogin up to its question to GitHub, which it asks only
\* while the row is pending; the approval below re-enters here.
PollDeviceLogin(c, d) ==
  LET row == PolledDevice(grant[d]) IN
  /\ d \in DeviceLogins /\ grant[d].state # "none"
  /\ \/ task[c].pc = "idle"
     \/ task[c].pc = "collecting" /\ task[c].grant = d
  /\ grant' = [grant EXCEPT ![d] = row]
  /\ \/ Parked(grant[d]) /\ HandOver(d, grant[d].token)
     \/ ~Parked(grant[d]) /\ UNCHANGED handed
  /\ \/ /\ row.state = "pending"
        /\ task' = [task EXCEPT ![c] = [IdleTask EXCEPT !.pc = "polled", !.grant = d]]
     \/ /\ row.state # "pending"
        /\ task' = [task EXCEPT ![c] = IdleTask]
  /\ UNCHANGED <<github, sessions>>

\* A granted code buys one access token, which names the user.  The answer to
\* a code already used is an error (TaskEnds) or an expiry.
ExchangeDeviceToken(c) ==
  LET d == task[c].grant IN
  /\ task[c].pc = "polled"
  /\ \/ /\ github[d].state = "waiting"
        /\ task' = [task EXCEPT ![c] = IdleTask]
        /\ UNCHANGED github
     \/ /\ github[d].state = "granted"
        /\ task' = [task EXCEPT ![c].pc = "identified", ![c].user = github[d].user]
        /\ github' = [github EXCEPT ![d].state = "spent"]
     \/ /\ github[d].state \in {"refused", "spent"}
        /\ task' = [task EXCEPT ![c].pc = "refused"]
        /\ UNCHANGED github
  /\ UNCHANGED <<grant, sessions, handed>>

\* AND state='pending': an approval that came first stands.
Expirable(g) == grant[g].state = "pending"

ExpireDeviceLogin(c) ==
  LET d == task[c].grant IN
  /\ task[c].pc = "refused"
  /\ \/ Expirable(d) /\ grant' = [grant EXCEPT ![d].state = "expired",
                                               ![d].token = NoToken]
     \/ ~Expirable(d) /\ UNCHANGED grant
  /\ task' = [task EXCEPT ![c] = IdleTask]
  /\ UNCHANGED <<github, sessions, handed>>

\* The winner goes back to collect, the loser answers "expired".
ApproveDeviceLogin(c) ==
  LET d == task[c].grant IN
  /\ task[c].pc = "parking" /\ d \in DeviceLogins
  /\ \/ /\ Approvable(d)
        /\ grant' = Approved(d, task[c].user, task[c].token)
        /\ task' = [task EXCEPT ![c].pc = "collecting"]
     \/ /\ ~Approvable(d)
        /\ task' = [task EXCEPT ![c] = IdleTask]
        /\ UNCHANGED grant
  /\ UNCHANGED <<github, sessions, handed>>

-----------------------------------------------------------------------------
(* The browser flow *)

\* consumed_at IS NULL AND expires_at > now.
Consumable(f) == grant[f].state = "pending" /\ grant[f].ttl > 0

\* CompleteAuthorization: the state is claimed, then GitHub says who came.
ConsumeOAuthFlow(c, f) ==
  /\ task[c].pc = "idle"
  /\ f \in Flows /\ Consumable(f)
  /\ \E u \in People :
       /\ grant' = [grant EXCEPT ![f].state = "consumed", ![f].user = u]
       /\ task' = [task EXCEPT ![c] = [pc |-> "identified", grant |-> f,
                                       user |-> u, token |-> NoToken]]
  /\ UNCHANGED <<github, sessions, handed>>

\* getAuthCallback answers with the session cookie.
SetSessionCookie(c) ==
  /\ task[c].pc = "parking" /\ task[c].grant \in Flows
  /\ HandOver(task[c].grant, task[c].token)
  /\ task' = [task EXCEPT ![c] = IdleTask]
  /\ UNCHANGED <<grant, github, sessions>>

-----------------------------------------------------------------------------
(* Failure and time *)

\* An error of GitHub or of the database, a client that hangs up, a crash.
TaskEnds(c) ==
  /\ task[c].pc # "idle"
  /\ task' = [task EXCEPT ![c] = IdleTask]
  /\ UNCHANGED <<grant, github, sessions, handed>>

TickGrants ==
  grant' = [g \in Grants |->
              [grant[g] EXCEPT !.ttl = IF @ > 0 THEN @ - 1 ELSE 0]]

SignInTick == TickGrants /\ UNCHANGED <<github, task, sessions, handed>>

-----------------------------------------------------------------------------
(* Everything but the polls of a web login, which are the client's *)

ServerStep ==
  \/ \E c \in Tasks :
       \/ \E l \in WebLogins, u \in People : StartApproval(c, l, u)
       \/ IssueSession(c) \/ ApprovePendingLogin(c) \/ TaskEnds(c)
  \/ \E l \in WebLogins : DenyPendingLogin(l)

OtherGrants ==
  \/ \E c \in Tasks :
       \/ \E d \in DeviceLogins : PollDeviceLogin(c, d)
       \/ ExchangeDeviceToken(c) \/ ExpireDeviceLogin(c) \/ ApproveDeviceLogin(c)
       \/ \E f \in Flows : ConsumeOAuthFlow(c, f)
       \/ SetSessionCookie(c)
  \/ \E d \in DeviceLogins : GitHubDecides(d)

SignInNext ==
  \/ PostPendingLogin \/ PostDeviceLoginStart \/ GetAuthStart
  \/ \E l \in WebLogins : PollPendingLogin(l)
  \/ ServerStep
  \/ OtherGrants
  \/ SignInTick

SignInSpec == SignInInit /\ [][SignInNext]_signInVars

=============================================================================
