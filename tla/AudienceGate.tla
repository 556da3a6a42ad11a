----------------------------- MODULE AudienceGate -----------------------------
(***************************************************************************)
(* What the visibility rules promise, with one set per Story and deed: the *)
(* people who may do it now.  A request is admitted while its caller is in *)
(* that set, and only an admitted request leaves a trace, for its caller,  *)
(* on its Story, once.                                                     *)
(***************************************************************************)
CONSTANTS Requests, Places

VARIABLES
  allowed,  \* triples of deed, person and Story that are allowed now
  admitted, \* requests: the triple each was admitted for, as a set of one or none
  traces    \* triples that have left a trace

gateVars == <<allowed, admitted, traces>>

GateInit ==
  /\ allowed \subseteq Places
  /\ admitted = [r \in Requests |-> {}]
  /\ traces = {}

\* Rules and Stories change, requests fail, traces are withdrawn.
Change ==
  /\ allowed' \subseteq Places
  /\ \E over \in SUBSET Requests :
       admitted' = [r \in Requests |-> IF r \in over THEN {} ELSE admitted[r]]
  /\ traces' \subseteq traces

Admit(r) ==
  /\ \E place \in allowed : admitted' = [admitted EXCEPT ![r] = {place}]
  /\ UNCHANGED <<allowed, traces>>

Leave(r) ==
  /\ admitted[r] # {}
  /\ traces' = traces \cup admitted[r]
  /\ admitted' = [admitted EXCEPT ![r] = {}]
  /\ UNCHANGED allowed

GateNext == Change \/ \E r \in Requests : Admit(r) \/ Leave(r)

GateSpec == GateInit /\ [][GateNext]_gateVars

=============================================================================
