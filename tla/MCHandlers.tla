------------------------------ MODULE MCHandlers ------------------------------
(* Users and calls are interchangeable; the people and the tasks of the sign-ins *)
(* are the same values. *)
EXTENDS Handlers, TLC

MCAuthorOf == ("m" :> 2) @@ ("a" :> 1) @@ ("b" :> 1) @@ ("c" :> 3)

MCSymmetry == Permutations(Users) \cup Permutations(Calls)

=============================================================================
