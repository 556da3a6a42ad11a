----------------------------- MODULE SignInProofs -----------------------------
(***************************************************************************)
(* SignIn, for any number of sign-ins, users, handlers and polls: one      *)
(* session per sign-in, handed to the person who approved it.              *)
(***************************************************************************)
EXTENDS SignInProperties, TLAPS

\* A row that only ages keeps its claims while sessions are only added.
LEMMA RowKept ==
  ASSUME SignInInv, NEW g \in Grants,
         grant'[g].state = grant[g].state, grant'[g].user = grant[g].user,
         grant'[g].token = grant[g].token, handed'[g] = handed[g],
         DOMAIN sessions \subseteq DOMAIN sessions',
         \A i \in DOMAIN sessions : sessions'[i] = sessions[i]
  PROVE  /\ ParkedToken(g)'
         /\ handed'[g] # << >> =>
              /\ Len(handed'[g]) = 1
              /\ handed'[g][1] \in DOMAIN sessions'
              /\ sessions'[handed'[g][1]] = grant'[g].user
  BY DEF SignInInv, ParkedToken, HandedToApprover

LEMMA TaskKept ==
  ASSUME SignInInv, NEW c \in Tasks, task'[c] = task[c],
         DOMAIN sessions \subseteq DOMAIN sessions',
         \A i \in DOMAIN sessions : sessions'[i] = sessions[i]
  PROVE  TaskHolds(c)'
  BY DEF SignInInv, TaskHolds

LEMMA IdleFacts ==
  /\ IdleTask \in TaskState
  /\ IdleTask.pc = "idle" /\ IdleTask.grant = NoGrant
  BY DEF IdleTask, TaskState, NoToken

\* What one task does to itself, the tables left alone.
LEMMA TaskStep ==
  ASSUME SignInInv, NEW c \in Tasks, NEW r \in TaskState,
         task' = [task EXCEPT ![c] = r],
         UNCHANGED <<grant, handed>>, github' \in [DeviceLogins -> DeviceCode],
         sessions' \in Seq(People),
         DOMAIN sessions \subseteq DOMAIN sessions',
         \A i \in DOMAIN sessions : sessions'[i] = sessions[i],
         TaskHolds(c)',
         r.pc # "idle" /\ r.grant \in Flows =>
           Working(c, r.grant) /\ r.user = task[c].user
  PROVE  SignInInv'
  <1>1. SignInTypeOK'
    BY DEF SignInInv, SignInTypeOK
  <1>2. HandedToApprover' /\ \A g \in Grants : ParkedToken(g)'
    BY RowKept DEF HandedToApprover
  <1>3. ASSUME NEW b \in Tasks PROVE TaskHolds(b)'
    BY TaskKept DEF SignInInv, SignInTypeOK
  <1>4. ASSUME NEW f \in Flows PROVE FlowOwned(f)'
    <2>1. \A b \in Tasks : Working(b, f)' => Working(b, f) /\ task'[b].user = task[b].user
      BY DEF SignInInv, SignInTypeOK, Working
    <2> QED
      BY <2>1 DEF SignInInv, FlowOwned
  <1> QED
    BY <1>1, <1>2, <1>3, <1>4 DEF SignInInv


\* What a response has carried agrees with the row.
HandedRow(g) ==
  handed[g] # << >> =>
    /\ Len(handed[g]) = 1
    /\ handed[g][1] \in DOMAIN sessions
    /\ sessions[handed[g][1]] = grant[g].user

\* One row changes, and with it what at most that row has handed over.
LEMMA RowStep ==
  ASSUME SignInInv, NEW g \in Grants, NEW r \in GrantRow,
         grant' = [grant EXCEPT ![g] = r],
         handed' \in [Grants -> Seq(Nat)],
         \A h \in Grants \ {g} : handed'[h] = handed[h],
         github' \in [DeviceLogins -> DeviceCode],
         sessions' = sessions, task' \in [Tasks -> TaskState],
         \A c \in Tasks : task'[c] = task[c] \/ TaskHolds(c)',
         \A c \in Tasks, f \in Flows \ {g} :
           Working(c, f)' => task'[c] = task[c],
         ParkedToken(g)', HandedRow(g)',
         g \in Flows => FlowOwned(g)'
  PROVE  SignInInv'
  <1>1. SignInTypeOK'
    BY DEF SignInInv, SignInTypeOK
  <1>2. ASSUME NEW h \in Grants PROVE ParkedToken(h)' /\ HandedRow(h)'
    <2>1. CASE h = g
      BY <2>1
    <2>2. CASE h # g
      <3>1. grant'[h] = grant[h]
        BY <2>2 DEF SignInInv, SignInTypeOK
      <3> QED
        BY <2>2, <3>1, RowKept DEF HandedRow
    <2> QED
      BY <2>1, <2>2
  <1>3. ASSUME NEW c \in Tasks PROVE TaskHolds(c)'
    BY TaskKept
  <1>4. ASSUME NEW f \in Flows, f # g PROVE FlowOwned(f)'
    <2>1. grant'[f] = grant[f] /\ handed'[f] = handed[f]
      BY <1>4 DEF SignInInv, SignInTypeOK, Grants
    <2>2. \A c \in Tasks : Working(c, f)' => Working(c, f) /\ task'[c] = task[c]
      BY <1>4 DEF Working
    <2> QED
      BY ZenonT(30), <2>1, <2>2 DEF SignInInv, FlowOwned
  <1> QED
    BY <1>1, <1>2, <1>3, <1>4 DEF SignInInv, HandedToApprover, HandedRow

-----------------------------------------------------------------------------
(* The steps *)

LEMMA TaskActions ==
  ASSUME SignInInv, NEW c \in Tasks,
         \/ \E l \in WebLogins, u \in People : StartApproval(c, l, u)
         \/ IssueSession(c) \/ ExchangeDeviceToken(c) \/ TaskEnds(c)
  PROVE  SignInInv'
  <1> USE SignInAssumption
  <1>0. /\ task[c] \in TaskState /\ TaskHolds(c) /\ sessions \in Seq(People)
        /\ task \in [Tasks -> TaskState]
        /\ github \in [DeviceLogins -> DeviceCode]
    BY DEF SignInInv, SignInTypeOK
  <1>1. ASSUME NEW l \in WebLogins, NEW u \in People, StartApproval(c, l, u)
        PROVE  SignInInv'
    <2> DEFINE r == [pc |-> "approving", grant |-> l, user |-> u,
                     token |-> NoToken]
    <2>1. r \in TaskState /\ r.grant \notin Flows
      BY DEF TaskState, NoToken, Grants
    <2>2. task' = [task EXCEPT ![c] = r] /\ TaskHolds(c)'
      BY <1>0, <1>1 DEF StartApproval, TaskHolds, Grants
    <2> QED
      BY <1>0, <1>1, <2>1, <2>2, TaskStep DEF StartApproval
  <1>2. CASE IssueSession(c)
    <2> DEFINE r == [task[c] EXCEPT !.pc = "parking", !.token = Len(sessions) + 1]
    <2>0. task[c].pc \in {"approving", "identified"} /\ task[c].user \in People
      BY <1>0, <1>2 DEF IssueSession, TaskHolds
    <2>1. r \in TaskState /\ r.grant = task[c].grant /\ r.user = task[c].user
      <3> DEFINE n == Len(sessions) + 1
      <3>1. n \in Nat
        BY <1>0
      <3> HIDE DEF n
      <3>2. [task[c] EXCEPT !.pc = "parking", !.token = n] \in TaskState
        BY <1>0, <3>1 DEF TaskState
      <3>3. r = [task[c] EXCEPT !.pc = "parking", !.token = n]
        BY DEF n
      <3> QED
        BY <1>0, <3>2, <3>3 DEF TaskState
    <2>2. /\ sessions' \in Seq(People)
          /\ DOMAIN sessions' = 1..(Len(sessions) + 1)
          /\ sessions'[Len(sessions) + 1] = task[c].user
          /\ DOMAIN sessions \subseteq DOMAIN sessions'
          /\ \A i \in DOMAIN sessions : sessions'[i] = sessions[i]
      BY <1>0, <1>2, <2>0 DEF IssueSession
    <2>3. task' = [task EXCEPT ![c] = r]
      BY <1>2 DEF IssueSession
    <2>4. TaskHolds(c)'
      <3>1. task'[c].pc = "parking" /\ task'[c].token = Len(sessions) + 1
            /\ task'[c].user = task[c].user /\ task'[c].grant = task[c].grant
        BY <1>0, <2>3 DEF TaskState
      <3> QED
        BY <1>0, <2>0, <2>2, <3>1 DEF TaskHolds
    <2>5. Working(c, r.grant)
      BY <2>0, <2>1 DEF Working
    <2> QED
      BY <1>0, <1>2, <2>1, <2>2, <2>3, <2>4, <2>5, TaskStep DEF IssueSession
  <1>3. CASE task' = [task EXCEPT ![c] = IdleTask]
             /\ UNCHANGED <<grant, github, sessions, handed>>
    <2>1. TaskHolds(c)'
      BY <1>0, <1>3, IdleFacts DEF TaskHolds
    <2> QED
      BY <1>0, <1>3, <2>1, IdleFacts, TaskStep
  <1>4. CASE ExchangeDeviceToken(c)
    <2> DEFINE d == task[c].grant
    <2>0. d \in DeviceLogins /\ d \notin WebLogins /\ d \notin Flows
          /\ github[d] \in DeviceCode
      BY <1>0, <1>4 DEF ExchangeDeviceToken, TaskHolds, Grants
    <2>1. CASE github[d].state = "waiting"
      BY <1>3, <1>4, <2>1 DEF ExchangeDeviceToken
    <2>2. CASE github[d].state = "granted"
      <3> DEFINE r == [task[c] EXCEPT !.pc = "identified", !.user = github[d].user]
      <3>1. r \in TaskState /\ r.grant = d
        BY <1>0, <2>0 DEF TaskState, DeviceCode
      <3>2. task' = [task EXCEPT ![c] = r]
            /\ github' = [github EXCEPT ![d].state = "spent"]
            /\ UNCHANGED <<grant, handed, sessions>>
        BY <1>4, <2>2 DEF ExchangeDeviceToken
      <3>3. github' \in [DeviceLogins -> DeviceCode]
        BY <1>0, <2>0, <3>2 DEF DeviceCode
      <3>4. TaskHolds(c)'
        <4>1. task'[c].pc = "identified" /\ task'[c].grant = d
              /\ task'[c].user = github[d].user
          BY <1>0, <3>2 DEF TaskState
        <4> QED
          BY <2>0, <2>2, <4>1 DEF TaskHolds, Grants, DeviceCode
      <3> QED
        BY <2>0, <3>1, <3>2, <3>3, <3>4, <1>0, TaskStep
    <2>3. CASE github[d].state \in {"refused", "spent"}
      <3> DEFINE r == [task[c] EXCEPT !.pc = "refused"]
      <3>1. r \in TaskState /\ r.grant = d
        BY <1>0 DEF TaskState
      <3>2. task' = [task EXCEPT ![c] = r]
            /\ UNCHANGED <<github, grant, handed, sessions>>
        BY <1>4, <2>3 DEF ExchangeDeviceToken
      <3>3. TaskHolds(c)'
        BY <1>0, <2>0, <3>1, <3>2 DEF TaskHolds, Grants, TaskState
      <3> QED
        BY <2>0, <3>1, <3>2, <3>3, <1>0, TaskStep
    <2> QED
      BY <1>4, <2>1, <2>2, <2>3 DEF ExchangeDeviceToken
  <1> QED
    BY <1>1, <1>2, <1>3, <1>4 DEF TaskEnds

LEMMA RowFacts ==
  ASSUME SignInInv, NEW g \in Grants
  PROVE  /\ grant[g] \in GrantRow /\ grant \in [Grants -> GrantRow]
         /\ handed[g] \in Seq(Nat) /\ handed \in [Grants -> Seq(Nat)]
         /\ github \in [DeviceLogins -> DeviceCode]
         /\ task \in [Tasks -> TaskState] /\ sessions \in Seq(People)
         /\ ParkedToken(g) /\ HandedRow(g)
         /\ \A c \in Tasks : TaskHolds(c)
         /\ \A f \in Flows : FlowOwned(f)
  BY DEF SignInInv, SignInTypeOK, HandedToApprover, HandedRow

LEMMA Kinds ==
  /\ \A g \in WebLogins : g \in Grants /\ g \notin DeviceLogins /\ g \notin Flows
  /\ \A g \in DeviceLogins : g \in Grants /\ g \notin Flows
  /\ \A g \in Flows : g \in Grants
  /\ NoGrant \notin Grants
  BY SignInAssumption DEF Grants

\* The rows a handler writes.
LEMMA OpenedRow ==
  ASSUME NEW row \in GrantRow
  PROVE  [row EXCEPT !.state = "pending", !.ttl = LoginTTL] \in GrantRow
  <1>1. LoginTTL \in 0..LoginTTL
    BY SignInAssumption
  <1> QED
    BY <1>1 DEF GrantRow

LEMMA CountedRow ==
  ASSUME NEW row \in GrantRow, ~OutOfPolls(row)
  PROVE  /\ CountPoll(row) \in GrantRow
         /\ CountPoll(row).state = row.state /\ CountPoll(row).token = row.token
         /\ CountPoll(row).user = row.user /\ CountPoll(row).ttl = row.ttl
  <1>1. row.polls \in Nat /\ row.polls + 1 \in 0..PollBudget
    BY SignInAssumption DEF OutOfPolls, GrantRow
  <1> QED
    BY <1>1 DEF CountPoll, GrantRow

LEMMA PolledRowFacts ==
  ASSUME NEW row \in GrantRow
  PROVE  /\ PolledRow(row) \in GrantRow /\ PolledRow(row).user = row.user
         /\ PolledRow(row).ttl = row.ttl
         /\ PollAnswer(row) = "approved" =>
              /\ Parked(row)
              /\ PolledRow(row).state = "consumed"
              /\ PolledRow(row).token = NoToken
         /\ PollAnswer(row) # "approved" =>
              /\ PolledRow(row).token = row.token
              /\ PolledRow(row).state \in {row.state, "expired"}
  <1> DEFINE ex == [row EXCEPT !.state = "expired"]
             co == [row EXCEPT !.state = "consumed", !.token = NoToken]
  <1>1. /\ ex \in GrantRow /\ ex.state = "expired" /\ ex.user = row.user
        /\ ex.token = row.token /\ ex.polls = row.polls /\ ex.ttl = row.ttl
    BY DEF GrantRow
  <1>2. /\ co \in GrantRow /\ co.state = "consumed" /\ co.user = row.user
        /\ co.token = NoToken /\ co.polls = row.polls /\ co.ttl = row.ttl
    BY DEF GrantRow, NoToken
  <1>3. Collected(row) = co
    BY DEF Collected
  <1> HIDE DEF ex, co
  <1>4. CASE OutOfPolls(row)
    <2>1. PolledRow(row) = ex /\ PollAnswer(row) = "expired"
      BY <1>4 DEF PolledRow, PollAnswer, ex
    <2> QED
      BY <1>1, <2>1
  <1>5. CASE ~OutOfPolls(row) /\ Lapsed(row)
    <2>1. PolledRow(row) = CountPoll(ex) /\ PollAnswer(row) = "expired"
      BY <1>5 DEF PolledRow, PollAnswer, ex
    <2>2. ~OutOfPolls(ex)
      BY <1>1, <1>5 DEF OutOfPolls
    <2> QED
      BY <1>1, <2>1, <2>2, CountedRow
  <1>6. CASE ~OutOfPolls(row) /\ ~Lapsed(row) /\ Parked(row)
    <2>1. PolledRow(row) = CountPoll(co) /\ PollAnswer(row) = "approved"
      BY <1>3, <1>6 DEF PolledRow, PollAnswer
    <2>2. ~OutOfPolls(co)
      BY <1>2, <1>6 DEF OutOfPolls
    <2> QED
      BY <1>2, <1>6, <2>1, <2>2, CountedRow
  <1>7. CASE ~OutOfPolls(row) /\ ~Lapsed(row) /\ ~Parked(row)
    <2>1. PolledRow(row) = CountPoll(row) /\ PollAnswer(row) # "approved"
      BY <1>7 DEF PolledRow, PollAnswer
    <2> QED
      BY <1>7, <2>1, CountedRow
  <1> QED
    BY <1>4, <1>5, <1>6, <1>7

\* A row that moves by itself, no task involved.
LEMMA LoneRowStep ==
  ASSUME SignInInv, NEW g \in Grants, NEW r \in GrantRow,
         grant' = [grant EXCEPT ![g] = r],
         handed' \in [Grants -> Seq(Nat)],
         \A h \in Grants \ {g} : handed'[h] = handed[h],
         github' \in [DeviceLogins -> DeviceCode],
         UNCHANGED <<sessions, task>>,
         ParkedToken(g)', HandedRow(g)',
         g \in Flows => FlowOwned(g)'
  PROVE  SignInInv'
  <1>1. task' \in [Tasks -> TaskState]
    BY RowFacts
  <1> QED
    BY <1>1, RowStep

LEMMA LoneRowActions ==
  ASSUME SignInInv,
         \/ \E g \in Grants : CreateGrant(g)
         \/ \E l \in WebLogins : PollPendingLogin(l) \/ DenyPendingLogin(l)
         \/ \E d \in DeviceLogins : GitHubDecides(d)
  PROVE  SignInInv'
  <1>1. ASSUME NEW g \in Grants, CreateGrant(g) PROVE SignInInv'
    <2> DEFINE r == [grant[g] EXCEPT !.state = "pending", !.ttl = LoginTTL]
    <2>1. r \in GrantRow /\ r.state = "pending" /\ r.user = grant[g].user
          /\ r.token = grant[g].token
      <3>1. grant[g] \in GrantRow
        BY RowFacts
      <3> QED
        BY <3>1, OpenedRow DEF GrantRow
    <2>2. grant' = [grant EXCEPT ![g] = r] /\ grant'[g] = r
      BY <1>1, RowFacts DEF CreateGrant
    <2>3. grant[g].token = NoToken /\ handed[g] = << >>
      BY <1>1, RowFacts DEF CreateGrant, ParkedToken
    <2>4. ParkedToken(g)' /\ HandedRow(g)'
      BY <1>1, <2>1, <2>2, <2>3 DEF CreateGrant, ParkedToken, HandedRow
    <2>5. g \in Flows => FlowOwned(g)'
      BY <1>1, <2>1, <2>2, <2>3, RowFacts DEF CreateGrant, FlowOwned, Working
    <2> HIDE DEF r
    <2> QED
      BY <1>1, <2>1, <2>2, <2>4, <2>5, RowFacts, LoneRowStep DEF CreateGrant
  <1>2. ASSUME NEW l \in WebLogins, PollPendingLogin(l) PROVE SignInInv'
    <2> DEFINE old == grant[l]
               r == PolledRow(grant[l])
    <2>1. l \in Grants /\ l \notin Flows
      BY Kinds
    <2>2. /\ old \in GrantRow /\ r \in GrantRow /\ r.user = old.user
          /\ PollAnswer(old) = "approved" =>
               Parked(old) /\ r.state = "consumed" /\ r.token = NoToken
          /\ PollAnswer(old) # "approved" =>
               r.token = old.token /\ r.state \in {old.state, "expired"}
      BY <2>1, RowFacts, PolledRowFacts
    <2>3. grant' = [grant EXCEPT ![l] = r] /\ grant'[l] = r
      BY <1>2, <2>1, RowFacts DEF PollPendingLogin
    <2>4. CASE PollAnswer(old) = "approved"
      <3>1. Parked(old)
        BY <2>2, <2>4
      <3>2. r.state = "consumed" /\ r.token = NoToken /\ r.user = old.user
        BY <2>2, <2>4
      <3>3. /\ handed' = [handed EXCEPT ![l] = Append(@, old.token)]
            /\ handed[l] = << >> /\ old.token \in DOMAIN sessions
            /\ sessions[old.token] = old.user /\ old.token \in Nat
        BY <1>2, <2>1, <2>4, <3>1, RowFacts
        DEF PollPendingLogin, HandOver, Parked, ParkedToken, GrantRow
      <3>4. handed' \in [Grants -> Seq(Nat)] /\ handed'[l] = <<old.token>>
        BY <2>1, <3>3, RowFacts
      <3>5. ParkedToken(l)' /\ HandedRow(l)'
        BY <1>2, <2>3, <3>2, <3>3, <3>4
        DEF PollPendingLogin, ParkedToken, HandedRow
      <3> HIDE DEF r, old
      <3>6. \A h \in Grants \ {l} : handed'[h] = handed[h]
        BY <3>3, RowFacts
      <3> QED
        BY <1>2, <2>1, <2>2, <2>3, <3>4, <3>5, <3>6, RowFacts, LoneRowStep
        DEF PollPendingLogin
    <2>5. CASE PollAnswer(old) # "approved"
      <3>1. /\ r.user = old.user /\ r.token = old.token
            /\ r.state = old.state \/ r.state = "expired"
        BY <2>2, <2>5
      <3>2. UNCHANGED <<handed, sessions, task, github>>
        BY <1>2, <2>5 DEF PollPendingLogin
      <3>3. ParkedToken(l)' /\ HandedRow(l)'
        BY <2>1, <2>3, <3>1, <3>2, RowFacts DEF ParkedToken, HandedRow
      <3> HIDE DEF r, old
      <3> QED
        BY <2>1, <2>2, <2>3, <3>2, <3>3, RowFacts, LoneRowStep
    <2> QED
      BY <2>4, <2>5
  <1>3. ASSUME NEW l \in WebLogins, DenyPendingLogin(l) PROVE SignInInv'
    <2> DEFINE r == [grant[l] EXCEPT !.state = "denied"]
    <2>1. l \in Grants /\ l \notin Flows
      BY Kinds
    <2>2. r \in GrantRow /\ r.state = "denied" /\ r.user = grant[l].user
          /\ r.token = grant[l].token
      BY <2>1, RowFacts DEF GrantRow
    <2>3. grant' = [grant EXCEPT ![l] = r] /\ grant'[l] = r
          /\ UNCHANGED <<handed, sessions, task, github>>
      BY <1>3, <2>1, RowFacts DEF DenyPendingLogin
    <2>4. grant[l].token = NoToken /\ handed[l] = << >>
      BY <1>3, <2>1, RowFacts DEF DenyPendingLogin, ParkedToken
    <2>5. ParkedToken(l)' /\ HandedRow(l)'
      BY <2>2, <2>3, <2>4 DEF ParkedToken, HandedRow
    <2> HIDE DEF r
    <2> QED
      BY <2>1, <2>2, <2>3, <2>5, RowFacts, LoneRowStep
  <1>4. ASSUME NEW d \in DeviceLogins, GitHubDecides(d) PROVE SignInInv'
    <2>1. d \in Grants /\ d \notin Flows
      BY Kinds
    <2>2. github' \in [DeviceLogins -> DeviceCode]
      <3>1. github \in [DeviceLogins -> DeviceCode] /\ github[d] \in DeviceCode
        BY RowFacts, <2>1
      <3>2. [github[d] EXCEPT !.state = "refused"] \in DeviceCode
        BY <3>1 DEF DeviceCode
      <3>3. \A u \in People : [state |-> "granted", user |-> u] \in DeviceCode
        BY DEF DeviceCode
      <3> QED
        BY <1>4, <3>1, <3>2, <3>3 DEF GitHubDecides
    <2>3. grant' = [grant EXCEPT ![d] = grant[d]]
          /\ UNCHANGED <<grant, handed, sessions, task>>
      BY <1>4, <2>1, RowFacts DEF GitHubDecides
    <2>4. ParkedToken(d)' /\ HandedRow(d)'
      BY <2>1, <2>3, RowFacts DEF ParkedToken, HandedRow
    <2> QED
      BY <2>1, <2>2, <2>3, <2>4, RowFacts, LoneRowStep
  <1> QED
    BY <1>1, <1>2, <1>3, <1>4

LEMMA MovedTask ==
  ASSUME SignInInv, NEW c \in Tasks, NEW k \in TaskState,
         task' = [task EXCEPT ![c] = k]
  PROVE  /\ task' \in [Tasks -> TaskState] /\ task'[c] = k
         /\ \A b \in Tasks \ {c} : task'[b] = task[b]
  BY RowFacts DEF SignInInv, SignInTypeOK

LEMMA IdleHolds ==
  ASSUME NEW c \in Tasks, task'[c] = IdleTask
  PROVE  TaskHolds(c)'
  BY IdleFacts DEF TaskHolds

\* The statement of a task on a row that is not a browser flow.
LEMMA RowAndTaskStep ==
  ASSUME SignInInv, NEW g \in WebLogins \cup DeviceLogins, NEW r \in GrantRow,
         NEW c \in Tasks, NEW k \in TaskState,
         grant' = [grant EXCEPT ![g] = r], task' = [task EXCEPT ![c] = k],
         handed' \in [Grants -> Seq(Nat)],
         \A h \in Grants \ {g} : handed'[h] = handed[h],
         UNCHANGED <<github, sessions>>,
         TaskHolds(c)', k.pc # "idle" => k.grant \notin Flows,
         ParkedToken(g)', HandedRow(g)'
  PROVE  SignInInv'
  <1>1. g \in Grants /\ g \notin Flows
    BY Kinds
  <1>2. /\ task' \in [Tasks -> TaskState] /\ task'[c] = k
        /\ \A b \in Tasks \ {c} : task'[b] = task[b]
    BY MovedTask
  <1>3. \A b \in Tasks, f \in Flows \ {g} : Working(b, f)' => task'[b] = task[b]
    BY <1>2 DEF Working
  <1>4. github' \in [DeviceLogins -> DeviceCode]
    BY <1>1, RowFacts
  <1>5. \A b \in Tasks : task'[b] = task[b] \/ TaskHolds(b)'
    BY <1>2
  <1> QED
    BY <1>1, <1>2, <1>3, <1>4, <1>5, RowStep

\* The row of a grant that is open for approval, approved by the session of
\* the task.
LEMMA ApprovedRow ==
  ASSUME SignInInv, NEW c \in Tasks, NEW g \in WebLogins \cup DeviceLogins,
         task[c].pc = "parking", Approvable(g),
         grant' = Approved(g, task[c].user, task[c].token),
         UNCHANGED <<handed, sessions>>
  PROVE  \E r \in GrantRow :
           /\ grant' = [grant EXCEPT ![g] = r]
           /\ ParkedToken(g)' /\ HandedRow(g)'
  <1> DEFINE r == [grant[g] EXCEPT !.state = "approved", !.user = task[c].user,
                                   !.token = task[c].token]
  <1>0. g \in Grants /\ g \notin Flows
    BY Kinds
  <1>1. task[c].user \in People /\ task[c].token \in DOMAIN sessions
        /\ sessions[task[c].token] = task[c].user
        /\ task[c].token \in Nat /\ task[c].token # NoToken
    BY <1>0, RowFacts DEF TaskHolds, TaskState, NoToken
  <1>2. r \in GrantRow /\ r.state = "approved" /\ r.user = task[c].user
        /\ r.token = task[c].token
    <2>1. grant[g] \in GrantRow
      BY <1>0, RowFacts
    <2> QED
      BY <1>1, <2>1 DEF GrantRow
  <1>3. grant' = [grant EXCEPT ![g] = r] /\ grant'[g] = r
    BY <1>0, RowFacts DEF Approved
  <1>4. handed[g] = << >>
    BY <1>0, RowFacts DEF Approvable, ParkedToken
  <1>5. ParkedToken(g)' /\ HandedRow(g)'
    BY <1>0, <1>1, <1>2, <1>3, <1>4 DEF ParkedToken, HandedRow
  <1> HIDE DEF r
  <1> QED
    BY <1>2, <1>3, <1>5

LEMMA ApprovePendingLoginKeeps ==
  ASSUME SignInInv, NEW c \in Tasks, ApprovePendingLogin(c)
  PROVE  SignInInv'
  <1> PICK l \in WebLogins : l = task[c].grant
    BY DEF ApprovePendingLogin
  <1>0. l \in Grants /\ task \in [Tasks -> TaskState]
        /\ handed \in [Grants -> Seq(Nat)] /\ sessions \in Seq(People)
        /\ github \in [DeviceLogins -> DeviceCode]
    BY Kinds, RowFacts DEF ApprovePendingLogin
  <1>1. /\ task' = [task EXCEPT ![c] = IdleTask]
        /\ UNCHANGED <<github, sessions, handed>>
    BY DEF ApprovePendingLogin
  <1>2. TaskHolds(c)'
    BY <1>1, IdleFacts, MovedTask, IdleHolds
  <1>3. CASE Approvable(l) /\ grant' = Approved(l, task[c].user, task[c].token)
    <2>1. PICK r \in GrantRow :
            /\ grant' = [grant EXCEPT ![l] = r]
            /\ ParkedToken(l)' /\ HandedRow(l)'
      BY <1>0, <1>1, <1>3, ApprovedRow DEF ApprovePendingLogin
    <2> QED
      BY <1>0, <1>1, <1>2, <2>1, IdleFacts, RowAndTaskStep
  <1>4. CASE UNCHANGED grant
    BY <1>0, <1>1, <1>2, <1>4, IdleFacts, TaskStep
  <1> QED
    BY <1>3, <1>4 DEF ApprovePendingLogin

LEMMA ApproveDeviceLoginKeeps ==
  ASSUME SignInInv, NEW c \in Tasks, ApproveDeviceLogin(c)
  PROVE  SignInInv'
  <1> PICK d \in DeviceLogins : d = task[c].grant
    BY DEF ApproveDeviceLogin
  <1> DEFINE k == [task[c] EXCEPT !.pc = "collecting"]
  <1>0. /\ d \in Grants /\ d \notin Flows
        /\ task \in [Tasks -> TaskState] /\ task[c] \in TaskState
        /\ handed \in [Grants -> Seq(Nat)] /\ sessions \in Seq(People)
        /\ github \in [DeviceLogins -> DeviceCode]
    BY Kinds, RowFacts DEF ApproveDeviceLogin
  <1>1. UNCHANGED <<github, sessions, handed>>
    BY DEF ApproveDeviceLogin
  <1>2. CASE /\ Approvable(d)
             /\ grant' = Approved(d, task[c].user, task[c].token)
             /\ task' = [task EXCEPT ![c] = k]
    <2>1. PICK r \in GrantRow :
            /\ grant' = [grant EXCEPT ![d] = r]
            /\ ParkedToken(d)' /\ HandedRow(d)'
      BY <1>0, <1>1, <1>2, ApprovedRow DEF ApproveDeviceLogin
    <2>2. k \in TaskState /\ k.pc = "collecting" /\ k.grant = d
      BY <1>0 DEF TaskState
    <2> HIDE DEF k
    <2>3. task'[c] = k
      BY <1>2, <2>2, MovedTask
    <2>4. TaskHolds(c)'
      BY <1>0, <2>2, <2>3 DEF TaskHolds
    <2> QED
      BY <1>0, <1>1, <1>2, <2>1, <2>2, <2>4, RowAndTaskStep
  <1>3. CASE UNCHANGED grant /\ task' = [task EXCEPT ![c] = IdleTask]
    <2>1. TaskHolds(c)'
      BY <1>3, IdleFacts, MovedTask, IdleHolds
    <2> QED
      BY <1>0, <1>1, <1>3, <2>1, IdleFacts, TaskStep
  <1> QED
    BY <1>2, <1>3 DEF ApproveDeviceLogin

LEMMA ExpireDeviceLoginKeeps ==
  ASSUME SignInInv, NEW c \in Tasks, ExpireDeviceLogin(c)
  PROVE  SignInInv'
  <1> PICK d \in DeviceLogins : d = task[c].grant
    BY DEF SignInInv, ExpireDeviceLogin, TaskHolds
  <1> DEFINE r == [grant[d] EXCEPT !.state = "expired", !.token = NoToken]
  <1>0. /\ d \in Grants /\ d \notin Flows
        /\ grant[d] \in GrantRow /\ grant \in [Grants -> GrantRow]
        /\ handed \in [Grants -> Seq(Nat)] /\ sessions \in Seq(People)
        /\ github \in [DeviceLogins -> DeviceCode]
    BY Kinds, RowFacts
  <1>1. /\ task' = [task EXCEPT ![c] = IdleTask]
        /\ UNCHANGED <<github, sessions, handed>>
    BY DEF ExpireDeviceLogin
  <1>2. TaskHolds(c)'
    BY <1>1, IdleFacts, MovedTask, IdleHolds
  <1>3. CASE Expirable(d) /\ grant' = [grant EXCEPT ![d].state = "expired",
                                                     ![d].token = NoToken]
    <2>1. r \in GrantRow /\ r.state = "expired" /\ r.token = NoToken
          /\ r.user = grant[d].user
      BY <1>0 DEF GrantRow, NoToken
    <2>2. grant' = [grant EXCEPT ![d] = r] /\ grant'[d] = r
      BY <1>0, <1>3
    <2> HIDE DEF r
    <2>3. handed[d] = << >>
      BY <1>0, <1>3, RowFacts DEF Expirable, ParkedToken
    <2>4. ParkedToken(d)' /\ HandedRow(d)'
      BY <1>1, <2>1, <2>2, <2>3 DEF ParkedToken, HandedRow
    <2> QED
      BY <1>0, <1>1, <1>2, <2>1, <2>2, <2>4, IdleFacts, RowAndTaskStep
  <1>4. CASE UNCHANGED grant
    BY <1>0, <1>1, <1>2, <1>4, IdleFacts, TaskStep
  <1> QED
    BY <1>3, <1>4 DEF ExpireDeviceLogin

LEMMA PolledDeviceFacts ==
  ASSUME NEW row \in GrantRow
  PROVE  /\ PolledDevice(row) \in GrantRow /\ PolledDevice(row).user = row.user
         /\ PolledDevice(row).ttl = row.ttl
         /\ Parked(row) => /\ PolledDevice(row).state = "consumed"
                           /\ PolledDevice(row).token = NoToken
         /\ ~Parked(row) => /\ PolledDevice(row).token = row.token
                            /\ PolledDevice(row).state \in {row.state, "expired"}
  <1>1. CASE Lapsed(row)
    BY <1>1 DEF PolledDevice, Lapsed, Parked, GrantRow
  <1>2. CASE ~Lapsed(row)
    BY <1>2 DEF PolledDevice, Collected, GrantRow, NoToken
  <1> QED
    BY <1>1, <1>2

LEMMA PollDeviceLoginKeeps ==
  ASSUME SignInInv, NEW c \in Tasks, NEW d \in DeviceLogins,
         PollDeviceLogin(c, d)
  PROVE  SignInInv'
  <1> DEFINE old == grant[d]
             r == PolledDevice(grant[d])
             polled == [IdleTask EXCEPT !.pc = "polled", !.grant = d]
  <1>0. /\ d \in Grants /\ d \notin Flows
        /\ grant \in [Grants -> GrantRow] /\ handed \in [Grants -> Seq(Nat)]
        /\ old \in GrantRow /\ ParkedToken(d) /\ HandedRow(d)
    BY Kinds, RowFacts
  <1>1. /\ r \in GrantRow /\ r.user = old.user
        /\ Parked(old) => r.state = "consumed" /\ r.token = NoToken
        /\ ~Parked(old) => r.token = old.token /\ r.state \in {old.state, "expired"}
    BY <1>0, PolledDeviceFacts
  <1>2. /\ grant' = [grant EXCEPT ![d] = r] /\ grant'[d] = r
        /\ UNCHANGED <<github, sessions>>
    BY <1>0 DEF PollDeviceLogin
  <1>3. PICK k \in {polled, IdleTask} : task' = [task EXCEPT ![c] = k]
    BY DEF PollDeviceLogin
  <1>4. k \in TaskState /\ (k.pc # "idle" => k.pc = "polled" /\ k.grant = d)
    BY <1>0, IdleFacts DEF TaskState
  <1>5. TaskHolds(c)'
    <2>1. task'[c] = k
      BY <1>3, <1>4, MovedTask
    <2> QED
      BY <1>0, <1>4, <2>1 DEF TaskHolds
  <1> HIDE DEF r, polled
  <1>6. CASE Parked(old)
    <2>1. /\ handed' = [handed EXCEPT ![d] = Append(@, old.token)]
          /\ handed[d] = << >> /\ old.token \in Nat
          /\ old.token \in DOMAIN sessions /\ sessions[old.token] = old.user
      BY <1>0, <1>6 DEF PollDeviceLogin, HandOver, Parked, ParkedToken, GrantRow
    <2>2. /\ handed' \in [Grants -> Seq(Nat)] /\ handed'[d] = <<old.token>>
          /\ \A h \in Grants \ {d} : handed'[h] = handed[h]
      BY <1>0, <2>1
    <2>3. ParkedToken(d)' /\ HandedRow(d)'
      BY <1>1, <1>2, <1>6, <2>1, <2>2 DEF ParkedToken, HandedRow
    <2> QED
      BY <1>1, <1>2, <1>3, <1>4, <1>5, <1>0, <2>2, <2>3, RowAndTaskStep
  <1>7. CASE ~Parked(old)
    <2>1. UNCHANGED handed
      BY <1>7 DEF PollDeviceLogin
    <2>2. ParkedToken(d)' /\ HandedRow(d)'
      BY <1>0, <1>1, <1>2, <1>7, <2>1 DEF ParkedToken, HandedRow
    <2> QED
      BY <1>0, <1>1, <1>2, <1>3, <1>4, <1>5, <2>1, <2>2, RowAndTaskStep
  <1> QED
    BY <1>6, <1>7

LEMMA ConsumeOAuthFlowKeeps ==
  ASSUME SignInInv, NEW c \in Tasks, NEW f \in Flows, ConsumeOAuthFlow(c, f)
  PROVE  SignInInv'
  <1> PICK u \in People :
        /\ grant' = [grant EXCEPT ![f].state = "consumed", ![f].user = u]
        /\ task' = [task EXCEPT ![c] = [pc |-> "identified", grant |-> f,
                                        user |-> u, token |-> NoToken]]
    BY DEF ConsumeOAuthFlow
  <1> DEFINE r == [grant[f] EXCEPT !.state = "consumed", !.user = u]
             k == [pc |-> "identified", grant |-> f, user |-> u, token |-> NoToken]
  <1>0. /\ f \in Grants /\ f \notin WebLogins /\ grant[f] \in GrantRow
        /\ grant \in [Grants -> GrantRow] /\ handed \in [Grants -> Seq(Nat)]
        /\ github \in [DeviceLogins -> DeviceCode]
        /\ ParkedToken(f) /\ FlowOwned(f) /\ grant[f].state = "pending"
        /\ UNCHANGED <<github, sessions, handed>>
    BY Kinds, RowFacts DEF ConsumeOAuthFlow, Consumable
  <1>1. /\ r \in GrantRow /\ r.state = "consumed" /\ r.user = u
        /\ r.token = grant[f].token
    BY <1>0 DEF GrantRow
  <1>2. grant' = [grant EXCEPT ![f] = r] /\ grant'[f] = r
    BY <1>0
  <1>3. k \in TaskState /\ k.pc = "identified" /\ k.grant = f /\ k.user = u
    BY <1>0 DEF TaskState, NoToken
  <1>4. task' = [task EXCEPT ![c] = k]
    OBVIOUS
  <1> HIDE DEF r, k
  <1>5. /\ task' \in [Tasks -> TaskState] /\ task'[c] = k
        /\ \A b \in Tasks \ {c} : task'[b] = task[b]
    BY <1>3, <1>4, MovedTask
  <1>6. TaskHolds(c)'
    BY <1>0, <1>3, <1>5 DEF TaskHolds
  <1>7. handed[f] = << >> /\ grant[f].token = NoToken
    BY <1>0 DEF ParkedToken
  <1>8. ParkedToken(f)' /\ HandedRow(f)'
    BY <1>0, <1>1, <1>2, <1>7 DEF ParkedToken, HandedRow
  <1>9. FlowOwned(f)'
    <2>1. \A b \in Tasks : Working(b, f)' => b = c
      BY <1>0, <1>5 DEF FlowOwned, Working
    <2> QED
      BY <1>0, <1>1, <1>2, <1>3, <1>5, <1>7, <2>1 DEF FlowOwned
  <1>10. \A b \in Tasks, e \in Flows \ {f} : Working(b, e)' => task'[b] = task[b]
    BY <1>3, <1>5 DEF Working
  <1>11. \A b \in Tasks : task'[b] = task[b] \/ TaskHolds(b)'
    BY <1>5, <1>6
  <1> QED
    BY <1>0, <1>1, <1>2, <1>5, <1>8, <1>9, <1>10, <1>11, RowStep

LEMMA SetSessionCookieKeeps ==
  ASSUME SignInInv, NEW c \in Tasks, SetSessionCookie(c)
  PROVE  SignInInv'
  <1> PICK f \in Flows : f = task[c].grant
    BY DEF SetSessionCookie
  <1> DEFINE t == task[c].token
  <1>0. /\ f \in Grants /\ grant[f] \in GrantRow
        /\ grant \in [Grants -> GrantRow] /\ handed \in [Grants -> Seq(Nat)]
        /\ github \in [DeviceLogins -> DeviceCode] /\ task[c] \in TaskState
        /\ ParkedToken(f) /\ FlowOwned(f) /\ TaskHolds(c)
        /\ task[c].pc = "parking" /\ UNCHANGED <<grant, github, sessions>>
        /\ task' = [task EXCEPT ![c] = IdleTask]
    BY Kinds, RowFacts DEF SetSessionCookie
  <1>1. /\ t \in DOMAIN sessions /\ sessions[t] = task[c].user /\ t \in Nat
    BY <1>0 DEF TaskHolds, TaskState
  <1>2. /\ grant[f].state = "consumed" /\ handed[f] = << >>
        /\ task[c].user = grant[f].user
        /\ \A b \in Tasks : Working(b, f) => b = c
    BY <1>0 DEF FlowOwned, Working
  <1>3. handed' = [handed EXCEPT ![f] = Append(@, t)]
    BY DEF SetSessionCookie, HandOver
  <1>4. /\ handed' \in [Grants -> Seq(Nat)] /\ handed'[f] = <<t>>
        /\ \A h \in Grants \ {f} : handed'[h] = handed[h]
    BY <1>0, <1>1, <1>2, <1>3
  <1>5. /\ task' \in [Tasks -> TaskState] /\ task'[c] = IdleTask
        /\ \A b \in Tasks \ {c} : task'[b] = task[b]
    BY <1>0, IdleFacts, MovedTask
  <1>6. TaskHolds(c)'
    BY <1>5, IdleHolds
  <1>7. grant[f].token = NoToken
    BY <1>0 DEF ParkedToken
  <1>8. ParkedToken(f)'
    BY <1>0, <1>2, <1>7 DEF ParkedToken
  <1>9. HandedRow(f)'
    <2>1. t \in DOMAIN sessions' /\ sessions'[t] = grant'[f].user
      BY <1>0, <1>1, <1>2
    <2>2. Len(<<t>>) = 1 /\ <<t>>[1] = t
      OBVIOUS
    <2> HIDE DEF t
    <2> QED
      BY <1>4, <2>1, <2>2 DEF HandedRow
  <1>10. FlowOwned(f)'
    <2>1. \A b \in Tasks : ~Working(b, f)'
      BY <1>2, <1>5, IdleFacts DEF Working
    <2> QED
      BY <1>0, <1>2, <2>1 DEF FlowOwned
  <1>11. \A b \in Tasks, e \in Flows \ {f} : Working(b, e)' => task'[b] = task[b]
    BY <1>5, IdleFacts DEF Working
  <1>12. \A b \in Tasks : task'[b] = task[b] \/ TaskHolds(b)'
    BY <1>5, <1>6
  <1>13. grant' = [grant EXCEPT ![f] = grant[f]]
    BY <1>0
  <1> QED
    BY <1>0, <1>4, <1>5, <1>8, <1>9, <1>10, <1>11, <1>12, <1>13, RowStep

LEMMA TickKeeps ==
  ASSUME SignInInv, SignInTick
  PROVE  SignInInv'
  <1>0. UNCHANGED <<github, task, sessions, handed>>
    BY DEF SignInTick
  <1>1. ASSUME NEW g \in Grants
        PROVE  /\ grant'[g] \in GrantRow
               /\ grant'[g].state = grant[g].state
               /\ grant'[g].user = grant[g].user
               /\ grant'[g].token = grant[g].token
    <2> DEFINE n == IF grant[g].ttl > 0 THEN grant[g].ttl - 1 ELSE 0
    <2>1. grant[g] \in GrantRow
      BY RowFacts
    <2>2. n \in 0..LoginTTL
      BY <2>1, SignInAssumption DEF GrantRow
    <2>3. grant'[g] = [grant[g] EXCEPT !.ttl = n]
      BY DEF SignInTick, TickGrants
    <2> HIDE DEF n
    <2> QED
      BY <2>1, <2>2, <2>3 DEF GrantRow
  <1>2. SignInTypeOK'
    <2>1. grant' \in [Grants -> GrantRow]
      BY <1>1 DEF SignInTick, TickGrants
    <2> QED
      BY <1>0, <2>1 DEF SignInInv, SignInTypeOK
  <1>3. HandedToApprover' /\ \A g \in Grants : ParkedToken(g)'
    BY <1>0, <1>1, RowKept DEF HandedToApprover
  <1>4. \A c \in Tasks : TaskHolds(c)'
    BY <1>0, TaskKept
  <1>5. ASSUME NEW f \in Flows PROVE FlowOwned(f)'
    <2>1. f \in Grants /\ FlowOwned(f)
      BY Kinds DEF SignInInv
    <2>2. \A c \in Tasks : Working(c, f)' <=> Working(c, f)
      BY <1>0 DEF Working
    <2> QED
      BY <1>0, <1>1, <2>1, <2>2 DEF FlowOwned
  <1> QED
    BY <1>2, <1>3, <1>4, <1>5 DEF SignInInv

LEMMA InitHolds ==
  ASSUME SignInInit
  PROVE  SignInInv
  <1>1. SignInTypeOK
    BY SignInAssumption
    DEF SignInInit, SignInTypeOK, GrantRow, DeviceCode, TaskState, IdleTask, NoToken
  <1>2. HandedToApprover /\ \A g \in Grants : ParkedToken(g)
    BY DEF SignInInit, HandedToApprover, ParkedToken
  <1>3. \A c \in Tasks : TaskHolds(c)
    BY DEF SignInInit, TaskHolds, IdleTask
  <1>4. \A f \in Flows : FlowOwned(f)
    BY Kinds DEF SignInInit, FlowOwned, Working, IdleTask
  <1> QED
    BY <1>1, <1>2, <1>3, <1>4 DEF SignInInv

LEMMA NextKeeps ==
  ASSUME SignInInv, SignInNext
  PROVE  SignInInv'
  <1>1. CASE \/ \E g \in Grants : CreateGrant(g)
             \/ \E l \in WebLogins : PollPendingLogin(l)
    BY <1>1, LoneRowActions
  <1>2. CASE ServerStep
    <2>1. ASSUME NEW c \in Tasks,
                 \/ \E l \in WebLogins, u \in People : StartApproval(c, l, u)
                 \/ IssueSession(c) \/ ApprovePendingLogin(c) \/ TaskEnds(c)
          PROVE  SignInInv'
      BY <2>1, TaskActions, ApprovePendingLoginKeeps
    <2>2. CASE \E l \in WebLogins : DenyPendingLogin(l)
      BY <2>2, LoneRowActions
    <2> QED
      BY <1>2, <2>1, <2>2 DEF ServerStep
  <1>3. CASE OtherGrants
    <2>1. ASSUME NEW c \in Tasks, NEW d \in DeviceLogins, PollDeviceLogin(c, d)
          PROVE  SignInInv'
      BY <2>1, PollDeviceLoginKeeps
    <2>2. ASSUME NEW c \in Tasks,
                 \/ ExchangeDeviceToken(c) \/ ExpireDeviceLogin(c)
                 \/ ApproveDeviceLogin(c) \/ SetSessionCookie(c)
          PROVE  SignInInv'
      BY <2>2, TaskActions, ExpireDeviceLoginKeeps, ApproveDeviceLoginKeeps,
         SetSessionCookieKeeps
    <2>3. ASSUME NEW c \in Tasks, NEW f \in Flows, ConsumeOAuthFlow(c, f)
          PROVE  SignInInv'
      BY <2>3, ConsumeOAuthFlowKeeps
    <2>4. CASE \E d \in DeviceLogins : GitHubDecides(d)
      BY <2>4, LoneRowActions
    <2> QED
      BY <1>3, <2>1, <2>2, <2>3, <2>4 DEF OtherGrants
  <1>4. CASE SignInTick
    BY <1>4, TickKeeps
  <1> QED
    BY <1>1, <1>2, <1>3, <1>4, Kinds
    DEF SignInNext, PostPendingLogin, PostDeviceLoginStart, GetAuthStart

LEMMA StutterKeeps ==
  ASSUME SignInInv, UNCHANGED signInVars
  PROVE  SignInInv'
  <1>0. UNCHANGED <<grant, github, task, sessions, handed>>
    BY DEF signInVars
  <1>1. SignInTypeOK' /\ HandedToApprover'
    BY <1>0 DEF SignInInv, SignInTypeOK, HandedToApprover
  <1>2. \A g \in Grants : ParkedToken(g)'
    BY <1>0 DEF SignInInv, ParkedToken
  <1>3. \A c \in Tasks : TaskHolds(c)'
    BY <1>0 DEF SignInInv, TaskHolds
  <1>4. \A f \in Flows : FlowOwned(f)'
    BY <1>0 DEF SignInInv, FlowOwned, Working
  <1> QED
    BY <1>1, <1>2, <1>3, <1>4 DEF SignInInv

-----------------------------------------------------------------------------
(* The invariant, and what it says of the person who signs in *)

\* Parked tokens, tasks and flows stay as SignInInv describes them through
\* every interleaving of the sign-in handlers (auth/pending.go, device.go,
\* oauth.go and the statements of store/session.go).
THEOREM Invariance == SignInSpec => []SignInInv
  <1>1. SignInInit => SignInInv
    BY InitHolds
  <1>2. SignInInv /\ [SignInNext]_signInVars => SignInInv'
    BY NextKeeps, StutterKeeps
  <1> QED
    BY <1>1, <1>2, PTL DEF SignInSpec

\* A sign-in hands over at most one session, that of the person recorded as
\* its approver (PollPendingLogin, PollDeviceLogin, ConsumeOAuthFlow).
THEOREM OneSession == SignInSpec => []HandedToApprover
  <1>1. SignInInv => HandedToApprover
    BY DEF SignInInv
  <1> QED
    BY <1>1, Invariance, PTL

-----------------------------------------------------------------------------
(* The one-time grant *)

Extends(t, s) == DOMAIN s \subseteq DOMAIN t /\ \A i \in DOMAIN s : t[i] = s[i]

\* A step that touches no sign-in but g.
OnlyRow(g) ==
  /\ \A h \in Grants \ {g} :
       /\ grant'[h] = grant[h] /\ handed'[h] = handed[h]
       /\ h \in Flows => \A c \in Tasks : Working(c, h)' <=> Working(c, h)
  /\ Extends(sessions', sessions)

LEMMA GivenKept ==
  ASSUME SignInInv, NEW g \in Grants, handed'[g] = handed[g],
         Extends(sessions', sessions)
  PROVE  Given(g)' = Given(g)
  <1>1. HandedRow(g)
    BY RowFacts
  <1>2. CASE handed[g] = << >>
    BY <1>2 DEF Given
  <1>3. CASE handed[g] # << >>
    <2>1. /\ DOMAIN handed[g] = {1} /\ handed[g][1] \in DOMAIN sessions
          /\ DOMAIN handed'[g] = {1}
      BY <1>1, <1>3, RowFacts DEF HandedRow
    <2>2. sessions'[handed'[g][1]] = sessions[handed[g][1]]
      BY <2>1 DEF Extends
    <2> QED
      BY <2>1, <2>2 DEF Given
  <1> QED
    BY <1>2, <1>3

LEMMA PhaseKept ==
  ASSUME NEW g \in Grants, grant'[g].state = grant[g].state,
         handed'[g] = handed[g],
         g \in Flows => \A c \in Tasks : Working(c, g)' <=> Working(c, g)
  PROVE  Phase(g)' = Phase(g)
  BY DEF Phase

\* The refinement mapping under such a step.
LEMMA MappedStep ==
  ASSUME SignInInv, NEW g \in Grants, OnlyRow(g)
  PROVE  /\ [h \in Grants |-> Phase(h)]'
              = [[h \in Grants |-> Phase(h)] EXCEPT ![g] = Phase(g)']
         /\ [h \in Grants |-> grant[h].ttl]'
              = [[h \in Grants |-> grant[h].ttl] EXCEPT ![g] = grant'[g].ttl]
         /\ [h \in Grants |-> grant[h].user]'
              = [[h \in Grants |-> grant[h].user] EXCEPT ![g] = grant'[g].user]
         /\ [h \in Grants |-> Given(h)]'
              = [[h \in Grants |-> Given(h)] EXCEPT ![g] = Given(g)']
  <1>1. ASSUME NEW h \in Grants \ {g}
        PROVE  /\ Phase(h)' = Phase(h) /\ grant'[h] = grant[h]
               /\ Given(h)' = Given(h)
    BY GivenKept, PhaseKept DEF OnlyRow
  <1> QED
    BY <1>1

LEMMA OpenStep ==
  ASSUME SignInInv, NEW g \in Grants, OnlyRow(g),
         Phase(g) = "none", Phase(g)' = "open", grant'[g].ttl = LoginTTL,
         grant'[g].user = grant[g].user, Given(g)' = Given(g)
  PROVE  OneTime!Next
  <1>1. OneTime!Open(g)
    BY MappedStep DEF OneTime!Open
  <1> QED
    BY <1>1 DEF OneTime!Next

LEMMA GrantStep ==
  ASSUME SignInInv, NEW g \in Grants, OnlyRow(g),
         Phase(g) = "open", Phase(g)' = "granted", grant[g].ttl > 0,
         grant'[g].ttl = grant[g].ttl, grant'[g].user \in People,
         Given(g)' = Given(g)
  PROVE  OneTime!Next
  <1>1. OneTime!Grant(g)
    BY MappedStep DEF OneTime!Grant
  <1> QED
    BY <1>1 DEF OneTime!Next

LEMMA HandStep ==
  ASSUME SignInInv, NEW g \in Grants, OnlyRow(g),
         Phase(g) = "granted", Phase(g)' = "handed",
         grant'[g].ttl = grant[g].ttl, grant'[g].user = grant[g].user,
         Given(g)' = Append(Given(g), grant[g].user)
  PROVE  OneTime!Next
  <1>1. OneTime!Hand(g)
    BY MappedStep DEF OneTime!Hand
  <1> QED
    BY <1>1 DEF OneTime!Next

LEMMA CloseStep ==
  ASSUME SignInInv, NEW g \in Grants, OnlyRow(g),
         Phase(g) \in {"open", "granted"}, Phase(g)' = "closed",
         grant'[g].ttl = grant[g].ttl, grant'[g].user = grant[g].user,
         Given(g)' = Given(g)
  PROVE  OneTime!Next
  <1>1. OneTime!Close(g)
    BY MappedStep DEF OneTime!Close
  <1> QED
    BY <1>1 DEF OneTime!Next

LEMMA IdleStep ==
  ASSUME SignInInv,
         \A h \in Grants :
           /\ Phase(h)' = Phase(h) /\ grant'[h].ttl = grant[h].ttl
           /\ grant'[h].user = grant[h].user /\ Given(h)' = Given(h)
  PROVE  UNCHANGED OneTime!vars
  BY DEF OneTime!vars

\* Each phase, from the row.
LEMMA PhaseFacts ==
  ASSUME SignInInv, NEW g \in Grants
  PROVE  /\ handed[g] = << >> \/ Phase(g) = "handed"
         /\ grant[g].state = "none" => Phase(g) = "none"
         /\ grant[g].state = "pending" => Phase(g) = "open"
         /\ grant[g].state = "approved" => Phase(g) = "granted"
         /\ g \notin Flows /\ grant[g].state \in {"denied", "expired", "consumed"}
              => Phase(g) \in {"handed", "closed"}
         /\ \A c \in Tasks :
              g \in Flows /\ Working(c, g) => Phase(g) = "granted"
         /\ handed[g] = << >> => Given(g) = << >>
  <1>1. ParkedToken(g)
    BY RowFacts
  <1>2. handed[g] = << >> => Given(g) = << >>
    BY DEF Given
  <1>3. g \in Flows => FlowOwned(g)
    BY RowFacts
  <1> QED
    BY <1>1, <1>2, <1>3 DEF Phase, ParkedToken, FlowOwned

LEMMA HandedGiven ==
  ASSUME SignInInv, NEW g \in Grants, handed[g] = << >>,
         NEW t \in DOMAIN sessions, sessions[t] = grant[g].user,
         handed'[g] = <<t>>, UNCHANGED sessions
  PROVE  Given(g)' = Append(Given(g), grant[g].user)
  <1>1. Given(g) = << >>
    BY PhaseFacts
  <1>2. DOMAIN <<t>> = {1} /\ <<t>>[1] = t
    OBVIOUS
  <1>3. Given(g)' = <<grant[g].user>>
    BY <1>2 DEF Given
  <1> QED
    BY <1>1, <1>3

\* Working, through a statement of a task that concerns no flow.
LEMMA NoFlowTask ==
  ASSUME SignInInv, NEW c \in Tasks, NEW k \in TaskState,
         task' = [task EXCEPT ![c] = k],
         task[c].pc = "idle" \/ task[c].grant \notin Flows,
         k.pc = "idle" \/ k.grant \notin Flows
  PROVE  \A b \in Tasks, f \in Flows : Working(b, f)' <=> Working(b, f)
  BY MovedTask DEF Working

LEMMA OneRowChanges ==
  ASSUME SignInInv, NEW g \in Grants, NEW r \in GrantRow,
         grant' = [grant EXCEPT ![g] = r],
         \A h \in Grants \ {g} : handed'[h] = handed[h],
         UNCHANGED sessions,
         \A b \in Tasks, f \in Flows \ {g} : Working(b, f)' <=> Working(b, f)
  PROVE  OnlyRow(g)
  BY RowFacts DEF OnlyRow, Extends

LEMMA NoRowChanges ==
  ASSUME SignInInv, UNCHANGED <<grant, handed>>, Extends(sessions', sessions),
         \A b \in Tasks, f \in Flows : Working(b, f)' <=> Working(b, f)
  PROVE  UNCHANGED OneTime!vars
  BY GivenKept, PhaseKept, IdleStep

\* A row of the service's page or of a device that is left alone or closed.
LEMMA ClosingStep ==
  ASSUME SignInInv, NEW g \in WebLogins \cup DeviceLogins, NEW r \in GrantRow,
         grant' = [grant EXCEPT ![g] = r],
         r.ttl = grant[g].ttl, r.user = grant[g].user,
         grant[g].state # "none",
         r.state \in {grant[g].state, "denied", "expired", "consumed"},
         UNCHANGED <<handed, sessions>>,
         \A b \in Tasks, f \in Flows : Working(b, f)' <=> Working(b, f)
  PROVE  OneTime!Next \/ UNCHANGED OneTime!vars
  <1>0. g \in Grants /\ g \notin Flows /\ grant'[g] = r /\ grant[g] \in GrantRow
    BY Kinds, RowFacts
  <1>1. OnlyRow(g)
    BY <1>0, OneRowChanges
  <1>2. Given(g)' = Given(g)
    BY <1>0, GivenKept DEF Extends
  <1>3. \/ Phase(g)' = Phase(g)
        \/ Phase(g) \in {"open", "granted"} /\ Phase(g)' = "closed"
    BY <1>0 DEF Phase, GrantRow
  <1>4. CASE Phase(g)' = Phase(g)
    <2>1. ASSUME NEW h \in Grants \ {g}
          PROVE  /\ Phase(h)' = Phase(h) /\ grant'[h] = grant[h]
                 /\ Given(h)' = Given(h)
      BY <1>1, GivenKept, PhaseKept DEF OnlyRow
    <2> QED
      BY <1>0, <1>2, <1>4, <2>1, IdleStep
  <1>5. CASE Phase(g) \in {"open", "granted"} /\ Phase(g)' = "closed"
    BY <1>0, <1>1, <1>2, <1>5, CloseStep
  <1> QED
    BY <1>3, <1>4, <1>5

\* Such a row that hands over its parked token.
LEMMA CollectingStep ==
  ASSUME SignInInv, NEW g \in WebLogins \cup DeviceLogins, NEW r \in GrantRow,
         grant' = [grant EXCEPT ![g] = r], Parked(grant[g]),
         r.ttl = grant[g].ttl, r.user = grant[g].user,
         HandOver(g, grant[g].token), UNCHANGED sessions,
         \A b \in Tasks, f \in Flows : Working(b, f)' <=> Working(b, f)
  PROVE  OneTime!Next
  <1>0. g \in Grants /\ g \notin Flows /\ grant'[g] = r
    BY Kinds, RowFacts
  <1>1. /\ handed[g] = << >> /\ grant[g].token \in DOMAIN sessions
        /\ sessions[grant[g].token] = grant[g].user
    BY <1>0, RowFacts DEF Parked, ParkedToken
  <1>2. /\ handed'[g] = <<grant[g].token>>
        /\ \A h \in Grants \ {g} : handed'[h] = handed[h]
    BY <1>0, <1>1, RowFacts DEF HandOver
  <1>3. OnlyRow(g)
    BY <1>0, <1>2, OneRowChanges
  <1>4. Phase(g) = "granted" /\ Phase(g)' = "handed"
    <2>1. handed'[g] # << >>
      BY <1>2
    <2> QED
      BY <1>0, <2>1, PhaseFacts DEF Parked, Phase
  <1>5. Given(g)' = Append(Given(g), grant[g].user)
    BY <1>0, <1>1, <1>2, HandedGiven
  <1> QED
    BY <1>0, <1>3, <1>4, <1>5, HandStep

\* Such a row that is approved.
LEMMA ApprovingStep ==
  ASSUME SignInInv, NEW g \in WebLogins \cup DeviceLogins, NEW c \in Tasks,
         task[c].pc = "parking", Approvable(g),
         grant' = Approved(g, task[c].user, task[c].token),
         UNCHANGED <<handed, sessions>>,
         \A b \in Tasks, f \in Flows : Working(b, f)' <=> Working(b, f)
  PROVE  OneTime!Next
  <1> DEFINE r == [grant[g] EXCEPT !.state = "approved", !.user = task[c].user,
                                   !.token = task[c].token]
  <1>0. /\ g \in Grants /\ g \notin Flows /\ grant[g] \in GrantRow
        /\ task[c].user \in People /\ task[c].token \in Nat /\ handed[g] = << >>
    BY Kinds, RowFacts DEF TaskHolds, TaskState, Approvable, ParkedToken
  <1>1. /\ r \in GrantRow /\ r.state = "approved" /\ r.user = task[c].user
        /\ r.ttl = grant[g].ttl
    BY <1>0 DEF GrantRow
  <1>2. grant' = [grant EXCEPT ![g] = r] /\ grant'[g] = r
    BY <1>0, RowFacts DEF Approved
  <1> HIDE DEF r
  <1>3. OnlyRow(g)
    BY <1>0, <1>1, <1>2, OneRowChanges
  <1>4. Phase(g) = "open" /\ Phase(g)' = "granted"
    BY <1>0, <1>1, <1>2 DEF Phase, Approvable
  <1>5. Given(g)' = Given(g)
    BY <1>0, GivenKept DEF Extends
  <1> QED
    BY <1>0, <1>1, <1>2, <1>3, <1>4, <1>5, GrantStep DEF Approvable

Mapped == OneTime!Next \/ UNCHANGED OneTime!vars

LEMMA CreateGrantMaps ==
  ASSUME SignInInv, NEW g \in Grants, CreateGrant(g)
  PROVE  Mapped
  <1> DEFINE r == [grant[g] EXCEPT !.state = "pending", !.ttl = LoginTTL]
  <1>0. /\ grant[g] \in GrantRow /\ handed[g] = << >>
        /\ UNCHANGED <<handed, sessions, task>>
    BY RowFacts DEF CreateGrant, ParkedToken
  <1>1. /\ r \in GrantRow /\ r.state = "pending" /\ r.ttl = LoginTTL
        /\ r.user = grant[g].user
    BY <1>0, OpenedRow DEF GrantRow
  <1>2. grant' = [grant EXCEPT ![g] = r] /\ grant'[g] = r
    BY RowFacts DEF CreateGrant
  <1> HIDE DEF r
  <1>3. OnlyRow(g)
    BY <1>0, <1>1, <1>2, OneRowChanges DEF Working
  <1>4. Phase(g) = "none" /\ Phase(g)' = "open"
    BY <1>0, <1>1, <1>2 DEF Phase, CreateGrant
  <1>5. Given(g)' = Given(g)
    BY <1>0, GivenKept DEF Extends
  <1> QED
    BY <1>1, <1>2, <1>3, <1>4, <1>5, OpenStep DEF Mapped

LEMMA WebRowMaps ==
  ASSUME SignInInv, NEW l \in WebLogins,
         PollPendingLogin(l) \/ DenyPendingLogin(l)
  PROVE  Mapped
  <1>0. /\ l \in Grants /\ grant[l] \in GrantRow /\ UNCHANGED <<task, sessions>>
        /\ grant \in [Grants -> GrantRow]
    BY Kinds, RowFacts DEF PollPendingLogin, DenyPendingLogin
  <1>1. \A b \in Tasks, f \in Flows : Working(b, f)' <=> Working(b, f)
    BY <1>0 DEF Working
  <1>2. CASE PollPendingLogin(l)
    <2> DEFINE r == PolledRow(grant[l])
    <2>1. /\ r \in GrantRow /\ r.user = grant[l].user /\ r.ttl = grant[l].ttl
          /\ PollAnswer(grant[l]) = "approved" => Parked(grant[l])
          /\ PollAnswer(grant[l]) # "approved" =>
               r.state \in {grant[l].state, "expired"}
      BY <1>0, PolledRowFacts
    <2>2. grant' = [grant EXCEPT ![l] = r] /\ grant[l].state # "none"
      BY <1>2 DEF PollPendingLogin
    <2> HIDE DEF r
    <2>3. CASE PollAnswer(grant[l]) = "approved"
      <3>1. HandOver(l, grant[l].token)
        BY <1>2, <2>3 DEF PollPendingLogin
      <3> QED
        BY <1>0, <1>1, <2>1, <2>2, <2>3, <3>1, CollectingStep DEF Mapped
    <2>4. CASE PollAnswer(grant[l]) # "approved"
      <3>1. UNCHANGED handed
        BY <1>2, <2>4 DEF PollPendingLogin
      <3> QED
        BY <1>0, <1>1, <2>1, <2>2, <2>4, <3>1, ClosingStep DEF Mapped
    <2> QED
      BY <2>3, <2>4
  <1>3. CASE DenyPendingLogin(l)
    <2> DEFINE r == [grant[l] EXCEPT !.state = "denied"]
    <2>1. /\ r \in GrantRow /\ r.user = grant[l].user /\ r.ttl = grant[l].ttl
          /\ r.state = "denied"
      BY <1>0 DEF GrantRow
    <2>2. /\ grant' = [grant EXCEPT ![l] = r] /\ grant[l].state # "none"
          /\ UNCHANGED handed
      BY <1>3 DEF DenyPendingLogin
    <2> HIDE DEF r
    <2> QED
      BY <1>0, <1>1, <2>1, <2>2, ClosingStep DEF Mapped
  <1> QED
    BY <1>2, <1>3

LEMMA TaskMaps ==
  ASSUME SignInInv, SignInInv', NEW c \in Tasks,
         \/ \E l \in WebLogins, u \in People : StartApproval(c, l, u)
         \/ IssueSession(c) \/ ExchangeDeviceToken(c)
  PROVE  UNCHANGED OneTime!vars
  <1>1. /\ UNCHANGED <<grant, handed>>
        /\ task \in [Tasks -> TaskState] /\ TaskHolds(c)
        /\ sessions \in Seq(People)
    BY DEF SignInInv, SignInTypeOK, StartApproval, IssueSession,
           ExchangeDeviceToken
  <1>2. Extends(sessions', sessions)
    <2>1. CASE IssueSession(c)
      <3>1. task[c].user \in People
        BY <1>1, <2>1 DEF TaskHolds, IssueSession
      <3>2. /\ DOMAIN sessions \subseteq DOMAIN sessions'
            /\ \A i \in DOMAIN sessions : sessions'[i] = sessions[i]
        BY <1>1, <2>1, <3>1 DEF IssueSession
      <3> QED
        BY <3>2 DEF Extends
    <2>2. CASE UNCHANGED sessions
      BY <2>2 DEF Extends
    <2> QED
      BY <2>1, <2>2 DEF StartApproval, ExchangeDeviceToken
  <1>3. \A b \in Tasks, f \in Flows : Working(b, f)' <=> Working(b, f)
    <2>1. CASE \E l \in WebLogins, u \in People : StartApproval(c, l, u)
      BY <1>1, <2>1, Kinds DEF StartApproval, Working
    <2>2. CASE IssueSession(c)
      BY <1>1, <2>2 DEF IssueSession, Working, TaskState
    <2>3. CASE ExchangeDeviceToken(c)
      <3>1. task[c].grant \notin Flows
        BY <1>1, <2>3, Kinds DEF ExchangeDeviceToken, TaskHolds
      <3>2. \A b \in Tasks \ {c} : task'[b] = task[b]
        BY <1>1, <2>3 DEF ExchangeDeviceToken
      <3>3. task'[c].pc = "idle" \/ task'[c].grant = task[c].grant
        BY <1>1, <2>3, IdleFacts DEF ExchangeDeviceToken, TaskState
      <3> QED
        BY <3>1, <3>2, <3>3 DEF Working
    <2> QED
      BY <2>1, <2>2, <2>3
  <1> QED
    BY <1>1, <1>2, <1>3, NoRowChanges

\* A flow whose handler gives up is closed.
LEMMA TaskEndsMaps ==
  ASSUME SignInInv, NEW c \in Tasks, TaskEnds(c)
  PROVE  Mapped
  <1>1. /\ UNCHANGED <<grant, handed, sessions>>
        /\ task' = [task EXCEPT ![c] = IdleTask]
        /\ task'[c] = IdleTask /\ \A b \in Tasks \ {c} : task'[b] = task[b]
    BY IdleFacts, MovedTask DEF TaskEnds
  <1>2. Extends(sessions', sessions)
    BY <1>1 DEF Extends
  <1>3. CASE task[c].grant \notin Flows
    <2>1. \A b \in Tasks, f \in Flows : Working(b, f)' <=> Working(b, f)
      BY <1>1, <1>3, IdleFacts, NoFlowTask
    <2> QED
      BY <1>1, <1>2, <2>1, NoRowChanges DEF Mapped
  <1>4. CASE task[c].grant \in Flows
    <2> PICK f \in Flows : f = task[c].grant
      BY <1>4
    <2>1. /\ f \in Grants /\ Working(c, f) /\ handed[f] = << >>
          /\ grant[f].state = "consumed"
          /\ \A b \in Tasks : Working(b, f) => b = c
      BY Kinds DEF SignInInv, FlowOwned, Working, TaskEnds
    <2>2. /\ \A b \in Tasks : ~Working(b, f)'
          /\ \A b \in Tasks, e \in Flows \ {f} : Working(b, e)' <=> Working(b, e)
      BY <1>1, <2>1, IdleFacts DEF Working
    <2>3. OnlyRow(f)
      BY <1>1, <1>2, <2>2 DEF OnlyRow
    <2>4. Phase(f) = "granted" /\ Phase(f)' = "closed"
      BY <1>1, <2>1, <2>2 DEF Phase
    <2>5. Given(f)' = Given(f)
      BY <1>1, <1>2, <2>1, GivenKept
    <2> QED
      BY <1>1, <2>1, <2>3, <2>4, <2>5, CloseStep DEF Mapped
  <1> QED
    BY <1>3, <1>4

LEMMA ApprovalMaps ==
  ASSUME SignInInv, NEW c \in Tasks,
         \/ ApprovePendingLogin(c) \/ ApproveDeviceLogin(c) \/ ExpireDeviceLogin(c)
  PROVE  Mapped
  <1>0. PICK g \in WebLogins \cup DeviceLogins : g = task[c].grant
    BY DEF SignInInv, TaskHolds, ApprovePendingLogin, ApproveDeviceLogin,
           ExpireDeviceLogin
  <1>1. /\ g \in Grants /\ g \notin Flows /\ grant[g] \in GrantRow
        /\ grant \in [Grants -> GrantRow] /\ task[c] \in TaskState
        /\ UNCHANGED <<handed, sessions>> /\ Extends(sessions', sessions)
    BY Kinds, RowFacts
    DEF ApprovePendingLogin, ApproveDeviceLogin, ExpireDeviceLogin, Extends
  <1>2. PICK k \in {IdleTask, [task[c] EXCEPT !.pc = "collecting"]} :
          task' = [task EXCEPT ![c] = k]
    BY DEF ApprovePendingLogin, ApproveDeviceLogin, ExpireDeviceLogin
  <1>3. k \in TaskState /\ (k.pc = "idle" \/ k.grant \notin Flows)
    BY <1>0, <1>1, IdleFacts DEF TaskState
  <1>4. \A b \in Tasks, f \in Flows : Working(b, f)' <=> Working(b, f)
    BY <1>0, <1>1, <1>2, <1>3, NoFlowTask
  <1>5. CASE UNCHANGED grant
    BY <1>1, <1>4, <1>5, NoRowChanges DEF Mapped
  <1>6. CASE /\ task[c].pc = "parking" /\ Approvable(g)
             /\ grant' = Approved(g, task[c].user, task[c].token)
    BY <1>1, <1>4, <1>6, ApprovingStep DEF Mapped
  <1>7. CASE ExpireDeviceLogin(c) /\ Expirable(g)
             /\ grant' = [grant EXCEPT ![g].state = "expired",
                                       ![g].token = NoToken]
    <2> DEFINE r == [grant[g] EXCEPT !.state = "expired", !.token = NoToken]
    <2>1. /\ r \in GrantRow /\ r.state = "expired" /\ r.ttl = grant[g].ttl
          /\ r.user = grant[g].user
      BY <1>1 DEF GrantRow, NoToken
    <2>2. grant' = [grant EXCEPT ![g] = r] /\ grant[g].state # "none"
      BY <1>1, <1>7 DEF Expirable
    <2> HIDE DEF r
    <2> QED
      BY <1>1, <1>4, <2>1, <2>2, ClosingStep DEF Mapped
  <1>8. CASE ApprovePendingLogin(c)
    BY <1>0, <1>5, <1>6, <1>8 DEF ApprovePendingLogin
  <1>9. CASE ApproveDeviceLogin(c)
    BY <1>0, <1>5, <1>6, <1>9 DEF ApproveDeviceLogin
  <1>10. CASE ExpireDeviceLogin(c)
    BY <1>0, <1>5, <1>7, <1>10 DEF ExpireDeviceLogin
  <1> QED
    BY <1>8, <1>9, <1>10

LEMMA PollDeviceLoginMaps ==
  ASSUME SignInInv, NEW c \in Tasks, NEW d \in DeviceLogins,
         PollDeviceLogin(c, d)
  PROVE  Mapped
  <1> DEFINE r == PolledDevice(grant[d])
             polled == [IdleTask EXCEPT !.pc = "polled", !.grant = d]
  <1>0. d \in Grants /\ d \notin Flows /\ grant[d] \in GrantRow
    BY Kinds, RowFacts
  <1>1. /\ r \in GrantRow /\ r.user = grant[d].user /\ r.ttl = grant[d].ttl
        /\ ~Parked(grant[d]) => r.state \in {grant[d].state, "expired"}
    BY <1>0, PolledDeviceFacts
  <1>2. /\ grant' = [grant EXCEPT ![d] = r] /\ grant[d].state # "none"
        /\ UNCHANGED sessions
    BY DEF PollDeviceLogin
  <1>3. PICK k \in {polled, IdleTask} : task' = [task EXCEPT ![c] = k]
    BY DEF PollDeviceLogin
  <1>4. k \in TaskState /\ (k.pc = "idle" \/ k.grant \notin Flows)
    BY <1>0, IdleFacts DEF TaskState
  <1>5. task[c].pc = "idle" \/ task[c].grant \notin Flows
    BY <1>0 DEF PollDeviceLogin
  <1>6. \A b \in Tasks, f \in Flows : Working(b, f)' <=> Working(b, f)
    BY <1>3, <1>4, <1>5, NoFlowTask
  <1> HIDE DEF r, polled
  <1>7. CASE Parked(grant[d])
    <2>1. HandOver(d, grant[d].token)
      BY <1>7 DEF PollDeviceLogin
    <2> QED
      BY <1>1, <1>2, <1>6, <1>7, <2>1, CollectingStep DEF Mapped
  <1>8. CASE ~Parked(grant[d])
    <2>1. UNCHANGED handed
      BY <1>8 DEF PollDeviceLogin
    <2> QED
      BY <1>1, <1>2, <1>6, <1>8, <2>1, ClosingStep DEF Mapped
  <1> QED
    BY <1>7, <1>8

LEMMA FlowMaps ==
  ASSUME SignInInv, NEW c \in Tasks,
         (\E f \in Flows : ConsumeOAuthFlow(c, f)) \/ SetSessionCookie(c)
  PROVE  Mapped
  <1>1. ASSUME NEW f \in Flows, ConsumeOAuthFlow(c, f) PROVE Mapped
    <2> PICK u \in People :
          /\ grant' = [grant EXCEPT ![f].state = "consumed", ![f].user = u]
          /\ task' = [task EXCEPT ![c] = [pc |-> "identified", grant |-> f,
                                          user |-> u, token |-> NoToken]]
      BY <1>1 DEF ConsumeOAuthFlow
    <2> DEFINE r == [grant[f] EXCEPT !.state = "consumed", !.user = u]
               k == [pc |-> "identified", grant |-> f, user |-> u, token |-> NoToken]
    <2>0. /\ f \in Grants /\ grant[f] \in GrantRow /\ handed[f] = << >>
          /\ grant \in [Grants -> GrantRow] /\ task[c].pc = "idle"
          /\ grant[f].state = "pending" /\ grant[f].ttl > 0
          /\ UNCHANGED <<handed, sessions>>
      BY <1>1, Kinds, RowFacts DEF ConsumeOAuthFlow, Consumable, ParkedToken
    <2>1. /\ r \in GrantRow /\ r.state = "consumed" /\ r.user = u
          /\ r.ttl = grant[f].ttl
      BY <2>0 DEF GrantRow
    <2>2. grant' = [grant EXCEPT ![f] = r] /\ grant'[f] = r
      BY <2>0
    <2>3. k \in TaskState /\ k.pc = "identified" /\ k.grant = f
      BY <2>0 DEF TaskState, NoToken
    <2>4. task' = [task EXCEPT ![c] = k]
      OBVIOUS
    <2> HIDE DEF r, k
    <2>5. task'[c] = k /\ \A b \in Tasks \ {c} : task'[b] = task[b]
      BY <2>3, <2>4, MovedTask
    <2>6. \A b \in Tasks, e \in Flows \ {f} : Working(b, e)' <=> Working(b, e)
      BY <2>0, <2>3, <2>5 DEF Working
    <2>7. OnlyRow(f)
      BY <2>0, <2>1, <2>2, <2>6, OneRowChanges
    <2>8. Phase(f) = "open" /\ Phase(f)' = "granted"
      <3>1. Working(c, f)'
        BY <2>3, <2>5 DEF Working
      <3> QED
        BY <2>0, <2>1, <2>2, <3>1 DEF Phase
    <2>9. Given(f)' = Given(f)
      BY <2>0, GivenKept DEF Extends
    <2> QED
      BY <2>0, <2>1, <2>2, <2>7, <2>8, <2>9, GrantStep DEF Mapped
  <1>2. CASE SetSessionCookie(c)
    <2> PICK f \in Flows : f = task[c].grant
      BY <1>2 DEF SetSessionCookie
    <2> DEFINE t == task[c].token
    <2>0. /\ f \in Grants /\ FlowOwned(f) /\ TaskHolds(c) /\ Working(c, f)
          /\ task[c].pc = "parking" /\ UNCHANGED <<grant, sessions>>
          /\ task' = [task EXCEPT ![c] = IdleTask]
          /\ grant \in [Grants -> GrantRow] /\ grant[f] \in GrantRow
      BY <1>2, Kinds, RowFacts DEF SetSessionCookie, Working
    <2>1. /\ t \in DOMAIN sessions /\ sessions[t] = grant[f].user
          /\ handed[f] = << >> /\ grant[f].state = "consumed"
      BY <2>0 DEF TaskHolds, FlowOwned
    <2>2. /\ handed'[f] = <<t>>
          /\ \A h \in Grants \ {f} : handed'[h] = handed[h]
      BY <1>2, <2>0, <2>1, RowFacts DEF SetSessionCookie, HandOver
    <2>3. \A b \in Tasks, e \in Flows \ {f} : Working(b, e)' <=> Working(b, e)
      <3>1. task'[c] = IdleTask /\ \A b \in Tasks \ {c} : task'[b] = task[b]
        BY <2>0, IdleFacts, MovedTask
      <3> QED
        BY <3>1, IdleFacts DEF Working
    <2>4. OnlyRow(f)
      BY <2>0, <2>2, <2>3 DEF OnlyRow, Extends
    <2>5. Phase(f) = "granted"
      BY <2>0, PhaseFacts
    <2>6. Phase(f)' = "handed"
      <3>1. handed'[f] # << >>
        BY <2>2
      <3> QED
        BY <3>1 DEF Phase
    <2>7. Given(f)' = Append(Given(f), grant[f].user)
      BY <2>0, <2>1, <2>2, HandedGiven
    <2> QED
      BY <2>0, <2>4, <2>5, <2>6, <2>7, HandStep DEF Mapped
  <1> QED
    BY <1>1, <1>2

LEMMA TickMaps ==
  ASSUME SignInInv, SignInTick
  PROVE  Mapped
  <1>1. ASSUME NEW g \in Grants
        PROVE  /\ Phase(g)' = Phase(g) /\ Given(g)' = Given(g)
               /\ grant'[g].user = grant[g].user
               /\ grant'[g].ttl = IF grant[g].ttl > 0 THEN grant[g].ttl - 1 ELSE 0
    <2> DEFINE n == IF grant[g].ttl > 0 THEN grant[g].ttl - 1 ELSE 0
    <2>1. grant[g] \in GrantRow /\ grant'[g] = [grant[g] EXCEPT !.ttl = n]
      BY RowFacts DEF SignInTick, TickGrants
    <2> HIDE DEF n
    <2>2. /\ grant'[g].state = grant[g].state /\ grant'[g].user = grant[g].user
          /\ grant'[g].ttl = n
      BY <2>1 DEF GrantRow
    <2>3. Phase(g)' = Phase(g)
      BY <2>2, PhaseKept DEF SignInTick, Working
    <2>4. Given(g)' = Given(g)
      BY GivenKept DEF SignInTick, Extends
    <2> QED
      BY <2>2, <2>3, <2>4 DEF n
  <1>2. \A g \in Grants : /\ grant[g].ttl \in 0..LoginTTL /\ grant'[g].ttl \in 0..LoginTTL
                          /\ grant'[g].ttl <= grant[g].ttl
    <2> SUFFICES ASSUME NEW g \in Grants
                 PROVE  /\ grant[g].ttl \in 0..LoginTTL /\ grant'[g].ttl \in 0..LoginTTL
                        /\ grant'[g].ttl <= grant[g].ttl
      OBVIOUS
    <2>1. grant[g].ttl \in 0..LoginTTL
      BY RowFacts DEF GrantRow
    <2> QED
      BY <1>1, <2>1, SignInAssumption DEF SignInAssumption
  <1>3. OneTime!Elapse
    BY <1>1, <1>2 DEF OneTime!Elapse
  <1> QED
    BY <1>3 DEF Mapped, OneTime!Next

LEMMA NextMaps ==
  ASSUME SignInInv, SignInInv', SignInNext
  PROVE  Mapped
  <1>1. CASE \/ \E g \in Grants : CreateGrant(g)
             \/ \E l \in WebLogins : PollPendingLogin(l)
    BY <1>1, CreateGrantMaps, WebRowMaps
  <1>2. CASE ServerStep
    <2>1. ASSUME NEW c \in Tasks,
                 \/ \E l \in WebLogins, u \in People : StartApproval(c, l, u)
                 \/ IssueSession(c) \/ ApprovePendingLogin(c) \/ TaskEnds(c)
          PROVE  Mapped
      BY <2>1, TaskMaps, ApprovalMaps, TaskEndsMaps DEF Mapped
    <2>2. CASE \E l \in WebLogins : DenyPendingLogin(l)
      BY <2>2, WebRowMaps
    <2> QED
      BY <1>2, <2>1, <2>2 DEF ServerStep
  <1>3. CASE OtherGrants
    <2>1. ASSUME NEW c \in Tasks, NEW d \in DeviceLogins, PollDeviceLogin(c, d)
          PROVE  Mapped
      BY <2>1, PollDeviceLoginMaps
    <2>2. ASSUME NEW c \in Tasks,
                 \/ ExchangeDeviceToken(c) \/ ExpireDeviceLogin(c)
                 \/ ApproveDeviceLogin(c) \/ SetSessionCookie(c)
                 \/ \E f \in Flows : ConsumeOAuthFlow(c, f)
          PROVE  Mapped
      BY <2>2, TaskMaps, ApprovalMaps, FlowMaps DEF Mapped
    <2>3. CASE \E d \in DeviceLogins : GitHubDecides(d)
      <3>1. /\ UNCHANGED <<grant, handed>> /\ Extends(sessions', sessions)
            /\ \A b \in Tasks, f \in Flows : Working(b, f)' <=> Working(b, f)
        BY <2>3 DEF GitHubDecides, Extends, Working
      <3> QED
        BY <3>1, NoRowChanges DEF Mapped
    <2> QED
      BY <1>3, <2>1, <2>2, <2>3 DEF OtherGrants
  <1>4. CASE SignInTick
    BY <1>4, TickMaps
  <1> QED
    BY <1>1, <1>2, <1>3, <1>4, Kinds
    DEF SignInNext, PostPendingLogin, PostDeviceLoginStart, GetAuthStart

\* Each of the three sign-ins is a one-time grant: approved before its
\* deadline or not at all, handed over once, never after it was denied, has
\* expired or was given up (store/session.go, auth/oauth.go, auth/device.go).
THEOREM Refinement == SignInSpec => ImplementsOneTimeGrant
  <1>1. SignInInit => OneTime!Init
    <2> SUFFICES ASSUME SignInInit PROVE OneTime!Init
      OBVIOUS
    <2>1. ASSUME NEW g \in Grants
          PROVE  /\ Phase(g) = "none" /\ grant[g].ttl = 0
                 /\ grant[g].user = Nobody /\ Given(g) = << >>
      BY DEF SignInInit, Phase, Given
    <2> QED
      BY <2>1 DEF OneTime!Init
  <1>2. SignInInv /\ SignInInv' /\ [SignInNext]_signInVars
          => [OneTime!Next]_(OneTime!vars)
    <2>1. ASSUME SignInInv, SignInInv', SignInNext
          PROVE  [OneTime!Next]_(OneTime!vars)
      BY <2>1, NextMaps DEF Mapped
    <2>2. ASSUME SignInInv, UNCHANGED signInVars
          PROVE  UNCHANGED OneTime!vars
      <3>1. /\ UNCHANGED <<grant, handed>> /\ Extends(sessions', sessions)
            /\ \A b \in Tasks, f \in Flows : Working(b, f)' <=> Working(b, f)
        BY <2>2 DEF signInVars, Extends, Working
      <3> QED
        BY <2>2, <3>1, NoRowChanges
    <2> QED
      BY <2>1, <2>2
  <1> QED
    BY <1>1, <1>2, Invariance, PTL DEF SignInSpec, ImplementsOneTimeGrant, OneTime!Spec

=============================================================================
