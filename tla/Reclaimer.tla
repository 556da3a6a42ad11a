------------------------------ MODULE Reclaimer ------------------------------
(***************************************************************************)
(* What the deletion queue promises the code that appends to it: an object *)
(* is erased only if its key was named, and a key once named stays named,  *)
(* whatever retries, crashes and lost leases stand behind the erasure.     *)
(***************************************************************************)
CONSTANT Keys

VARIABLES
  stored,  \* keys that hold an object
  doomed   \* keys named for deletion

vars == <<stored, doomed>>

Init == stored = {} /\ doomed = {}

\* The writers of the bucket do not write a key that was given up.
Store(k) ==
  /\ k \notin doomed
  /\ stored' = stored \cup {k}
  /\ UNCHANGED doomed

Doom(ks) ==
  /\ doomed' = doomed \cup ks
  /\ UNCHANGED stored

Erase(ks) ==
  /\ ks \subseteq doomed
  /\ stored' = stored \ ks
  /\ UNCHANGED doomed

Next ==
  \/ \E k \in Keys : Store(k)
  \/ \E ks \in SUBSET Keys : Doom(ks) \/ Erase(ks)

Spec == Init /\ [][Next]_vars

=============================================================================
