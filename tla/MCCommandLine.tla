---- MODULE MCCommandLine ----
EXTENDS CommandLine, TLC
CONSTANTS upload, status
MCShelf == <<<<"a", "b">>, <<"c">>>>
MCBurst == (upload :> 2) @@ (status :> 1)
MCPer == (upload :> 3) @@ (status :> 2)
MCHosts ==
  {h \in [kitty: BOOLEAN, ghostty: BOOLEAN, itermLike: BOOLEAN,
          passthrough: BOOLEAN, answers: BOOLEAN] :
     h.ghostty => h.kitty /\ ~h.itermLike}
====
