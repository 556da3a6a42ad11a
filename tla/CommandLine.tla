------------------------------ MODULE CommandLine ------------------------------
(***************************************************************************)
(* The parts of the command line side by side: `gh stories post`, the      *)
(* stored credentials, the terminal viewer and the detection of what its   *)
(* terminal can draw, and the limiter the service puts before the calls of *)
(* all of them.  The parts share nothing that their models hold, so each   *)
(* behaviour is one part's, chosen at the start, with the others at rest.  *)
(***************************************************************************)
EXTENDS PostCommand, Credentials, TerminalViewer, TerminalProbe, RateLimiter

VARIABLE part

commandLineVars == <<postVars, credVars, tuiVars, probeVars, rateVars, part>>

\* A terminal matters to the part that asks it.
CommandLineInit ==
  /\ part \in {"post", "credentials", "viewer", "terminal", "limiter"}
  /\ PostInit /\ CredInit /\ TuiInit /\ ProbeInit /\ RateInit
  /\ part # "terminal" => host = (CHOOSE h \in Hosts : TRUE) /\ ~tmux

Only(name) == part = name /\ UNCHANGED part

CommandLineNext ==
  \/ Only("post") /\ PostNext /\ UNCHANGED <<credVars, tuiVars, probeVars, rateVars>>
  \/ Only("credentials") /\ CredNext /\ UNCHANGED <<postVars, tuiVars, probeVars, rateVars>>
  \/ Only("viewer") /\ TuiNext /\ UNCHANGED <<postVars, credVars, probeVars, rateVars>>
  \/ Only("terminal") /\ ProbeNext /\ UNCHANGED <<postVars, credVars, tuiVars, rateVars>>
  \/ Only("limiter") /\ RateNext /\ UNCHANGED <<postVars, credVars, tuiVars, probeVars>>

\* The viewer's ticks keep coming, and every command it starts answers: each has
\* a deadline.
TuiFairness ==
  /\ WF_tuiVars(part = "viewer" /\ ClockTick)
  /\ WF_tuiVars(part = "viewer" /\ TaskSteps)

CommandLineSpec ==
  /\ CommandLineInit /\ [][CommandLineNext]_commandLineVars
  /\ TuiFairness

\* Each part's state has its type, the others' included while they rest.
CommandLineTypeOK ==
  PostTypeOK /\ CredTypeOK /\ TuiTypeOK /\ ProbeTypeOK /\ RateTypeOK

=============================================================================
