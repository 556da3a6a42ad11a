---------------------------- MODULE MCInteractions ----------------------------
(* One Story of one author, beside one other person. *)
EXTENDS InteractionsProperties, TLC

CONSTANTS alice, bob, s1

MCAuthor == (s1 :> alice)
MCSymmetry == Permutations(Requests)

=============================================================================
