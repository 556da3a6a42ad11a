-------------------------------- MODULE Handlers --------------------------------
(***************************************************************************)
(* Handlers of the API side by side: the ways of signing in, the requests  *)
(* on the social graph, and what one viewer is shown.  Their models hold   *)
(* nothing in common, so each behaviour is one part's, chosen at the       *)
(* start, with the others at rest.                                         *)
(***************************************************************************)
EXTENDS SignInProperties, SocialGraphProperties, Feed

VARIABLE part

handlerVars == <<signInVars, graphVars, feedVars, part>>

HandlersInit ==
  /\ part \in {"signin", "graph", "feed"}
  /\ SignInInit /\ GraphInit /\ FeedInit

Only(name) == part = name /\ UNCHANGED part

HandlersNext ==
  \/ Only("signin") /\ SignInNext /\ UNCHANGED <<graphVars, feedVars>>
  \/ Only("graph") /\ GraphNext /\ UNCHANGED <<signInVars, feedVars>>
  \/ Only("feed") /\ FeedNext /\ UNCHANGED <<signInVars, graphVars>>

HandlersSpec == HandlersInit /\ [][HandlersNext]_handlerVars

=============================================================================
