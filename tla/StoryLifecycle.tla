---------------------------- MODULE StoryLifecycle ----------------------------
(***************************************************************************)
(* What the service promises about one Story, whatever queues, workers and *)
(* sweeps stand behind it: it is pending until its media is durable, then  *)
(* visible for at most Lifetime, ending at the deadline by the clock alone *)
(* or earlier by withdrawal, and once over it never returns.               *)
(***************************************************************************)
EXTENDS Naturals

CONSTANTS
  Stories,
  Lifetime  \* the longest a Story is visible, in ticks

VARIABLES
  phase,  \* what the author and the viewers can observe of a Story
  left,   \* ticks of visibility that remain, 0 unless visible
  bytes   \* is every variant of the Story in storage

vars == <<phase, left, bytes>>

TypeOK ==
  /\ phase \in [Stories -> {"none", "pending", "visible", "over"}]
  /\ left \in [Stories -> 0..Lifetime]
  /\ bytes \in [Stories -> BOOLEAN]

Init ==
  /\ phase = [s \in Stories |-> "none"]
  /\ left = [s \in Stories |-> 0]
  /\ bytes = [s \in Stories |-> FALSE]

Submit(s) ==
  /\ phase[s] = "none"
  /\ phase' = [phase EXCEPT ![s] = "pending"]
  /\ UNCHANGED <<left, bytes>>

Publish(s) ==
  /\ phase[s] = "pending"
  /\ bytes[s]
  /\ phase' = [phase EXCEPT ![s] = "visible"]
  /\ left' = [left EXCEPT ![s] = Lifetime]
  /\ UNCHANGED bytes

\* Processing failed, or the author or a moderator ended the Story.
Finish(s) ==
  /\ phase[s] \in {"pending", "visible"}
  /\ phase' = [phase EXCEPT ![s] = "over"]
  /\ left' = [left EXCEPT ![s] = 0]
  /\ UNCHANGED bytes

\* Attempts store variants and the reclaimer erases them, but never those of
\* a visible Story.
MoveBytes ==
  /\ bytes' \in [Stories -> BOOLEAN]
  /\ \A s \in Stories : phase[s] = "visible" => bytes'[s] = bytes[s]
  /\ UNCHANGED <<phase, left>>

\* A visible Story ends exactly when its time is up; nothing has to run.
Elapse ==
  /\ left' = [s \in Stories |-> IF left[s] > 0 THEN left[s] - 1 ELSE 0]
  /\ phase' = [s \in Stories |->
                 IF phase[s] = "visible" /\ left[s] = 1 THEN "over"
                                                        ELSE phase[s]]
  /\ UNCHANGED bytes

Next ==
  \/ \E s \in Stories : Submit(s) \/ Publish(s) \/ Finish(s)
  \/ MoveBytes
  \/ Elapse

Spec == Init /\ [][Next]_vars

=============================================================================
