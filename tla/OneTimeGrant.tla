----------------------------- MODULE OneTimeGrant -----------------------------
(***************************************************************************)
(* What a sign-in promises, whichever way it is approved: a person grants  *)
(* it before its deadline or not at all, at most one session is ever       *)
(* handed over for it, that session belongs to the person who granted it,  *)
(* and a sign-in that was closed hands over nothing.                       *)
(***************************************************************************)
EXTENDS Naturals, Sequences

CONSTANTS
  Grants,
  Users,
  NoUser,
  Lifetime  \* the longest a grant stays open, in ticks

VARIABLES
  phase,   \* none, open, granted, handed or closed
  left,    \* ticks until the deadline
  holder,  \* who granted it
  given    \* owners of the sessions handed over, in order

vars == <<phase, left, holder, given>>

Init ==
  /\ phase = [g \in Grants |-> "none"]
  /\ left = [g \in Grants |-> 0]
  /\ holder = [g \in Grants |-> NoUser]
  /\ given = [g \in Grants |-> << >>]

Open(g) ==
  /\ phase[g] = "none"
  /\ phase' = [phase EXCEPT ![g] = "open"]
  /\ left' = [left EXCEPT ![g] = Lifetime]
  /\ UNCHANGED <<holder, given>>

Grant(g) ==
  /\ phase[g] = "open" /\ left[g] > 0
  /\ phase' = [phase EXCEPT ![g] = "granted"]
  /\ \E u \in Users : holder' = [holder EXCEPT ![g] = u]
  /\ UNCHANGED <<left, given>>

Hand(g) ==
  /\ phase[g] = "granted"
  /\ phase' = [phase EXCEPT ![g] = "handed"]
  /\ given' = [given EXCEPT ![g] = Append(@, holder[g])]
  /\ UNCHANGED <<left, holder>>

Close(g) ==
  /\ phase[g] \in {"open", "granted"}
  /\ phase' = [phase EXCEPT ![g] = "closed"]
  /\ UNCHANGED <<left, holder, given>>

\* Deadlines come nearer, not necessarily all at once.
Elapse ==
  /\ left' \in [Grants -> 0..Lifetime]
  /\ \A g \in Grants : left'[g] <= left[g]
  /\ UNCHANGED <<phase, holder, given>>

Next ==
  \/ \E g \in Grants : Open(g) \/ Grant(g) \/ Hand(g) \/ Close(g)
  \/ Elapse

Spec == Init /\ [][Next]_vars

=============================================================================
