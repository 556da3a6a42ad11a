--------------------------- MODULE SignInProperties ---------------------------
(***************************************************************************)
(* What is claimed of SignIn: the invariant its grants rest on, and the    *)
(* one-time grant that all three kinds of sign-in implement.               *)
(***************************************************************************)
EXTENDS SignIn

-----------------------------------------------------------------------------
(* Safety *)

\* At most one session leaves the service for one sign-in, and it belongs to
\* the person the row records as its approver, whoever else was approving,
\* polling or denying meanwhile (PollPendingLogin, PollDeviceLogin,
\* ConsumeOAuthFlow).
HandedToApprover ==
  \A g \in Grants :
    handed[g] # << >> =>
      /\ Len(handed[g]) = 1
      /\ handed[g][1] \in DOMAIN sessions
      /\ sessions[handed[g][1]] = grant[g].user

-----------------------------------------------------------------------------
(* The inductive invariant *)

Working(c, g) == task[c].pc # "idle" /\ task[c].grant = g

\* A token that is parked is a session of the recorded approver, and one that
\* was handed over is parked no longer.
ParkedToken(g) ==
  /\ grant[g].state = "approved" => grant[g].token # NoToken
  /\ grant[g].token # NoToken =>
       /\ grant[g].state \in {"approved", "expired"} /\ g \notin Flows
       /\ grant[g].token \in DOMAIN sessions
       /\ sessions[grant[g].token] = grant[g].user
       /\ handed[g] = << >>
  /\ handed[g] # << >> => grant[g].state \in {"consumed", "expired"}

\* What a task holds between its statements.
TaskHolds(c) ==
  /\ task[c].pc # "idle" => task[c].grant \in Grants
  /\ task[c].pc = "approving" => task[c].grant \in WebLogins
  /\ task[c].pc \in {"polled", "refused", "collecting"} =>
       task[c].grant \in DeviceLogins
  /\ task[c].pc = "identified" => task[c].grant \notin WebLogins
  /\ task[c].pc \in {"approving", "identified", "parking"} =>
       task[c].user \in People
  /\ task[c].pc = "parking" =>
       /\ task[c].token \in DOMAIN sessions
       /\ sessions[task[c].token] = task[c].user

\* A flow belongs to the one task that consumed it.
FlowOwned(f) ==
  /\ grant[f].state \in {"none", "pending", "consumed"}
  /\ grant[f].state # "consumed" => handed[f] = << >>
  /\ \A c \in Tasks : Working(c, f) =>
       /\ grant[f].state = "consumed" /\ handed[f] = << >>
       /\ task[c].user = grant[f].user
       /\ \A b \in Tasks : Working(b, f) => b = c

SignInInv ==
  /\ SignInTypeOK
  /\ HandedToApprover
  /\ \A g \in Grants : ParkedToken(g)
  /\ \A c \in Tasks : TaskHolds(c)
  /\ \A f \in Flows : FlowOwned(f)

-----------------------------------------------------------------------------
(* The one-time grant *)

\* A consumed flow is granted while its handler can still answer.
Phase(g) ==
  IF handed[g] # << >> THEN "handed"
  ELSE IF grant[g].state = "none" THEN "none"
  ELSE IF grant[g].state = "pending" THEN "open"
  ELSE IF \/ grant[g].state = "approved"
          \/ g \in Flows /\ \E c \in Tasks : Working(c, g) THEN "granted"
  ELSE "closed"

\* The owners of the sessions handed over.
Given(g) == [i \in DOMAIN handed[g] |-> sessions[handed[g][i]]]

OneTime == INSTANCE OneTimeGrant WITH
  Users <- People, NoUser <- Nobody, Lifetime <- LoginTTL,
  phase    <- [g \in Grants |-> Phase(g)],
  left     <- [g \in Grants |-> grant[g].ttl],
  holder   <- [g \in Grants |-> grant[g].user],
  given    <- [g \in Grants |-> Given(g)]

\* Every sign-in is granted before its deadline, hands over at most one
\* session, and nothing once it was denied, has expired or was abandoned.
ImplementsOneTimeGrant == OneTime!Spec

=============================================================================
