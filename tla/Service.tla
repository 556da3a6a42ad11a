-------------------------------- MODULE Service --------------------------------
(***************************************************************************)
(* Parts of the service that the pipeline, the sign-in and the graph rest  *)
(* on, side by side: the directory of GitHub identities, the executions of *)
(* the worker, and one attempt of a media job.                             *)
(* The parts share nothing that their models hold, so each behaviour is    *)
(* one part's, chosen at the start, with the others at rest.               *)
(***************************************************************************)
EXTENDS Identities, WorkerRuns, MediaProcessing

VARIABLE part

serviceVars == <<idVars, runVars, mediaVars, part>>

\* Names of accounts and logins are interchangeable: one of the initial
\* assignments stands for all.  An attempt at rest is at any one original.
ServiceInit ==
  /\ part \in {"identities", "worker", "media"}
  /\ IdentitiesInit /\ WorkerRunsInit /\ MediaInit
  /\ github = CHOOSE f \in [Ids -> Logins] : Injective(f)
  /\ part # "worker" => work = CHOOSE w \in Works : TRUE
  /\ part # "media" => /\ media = CHOOSE o \in Originals : TRUE
                       /\ edit = (CHOOSE e \in Edits : TRUE) /\ tools = {}

Only(name) == part = name /\ UNCHANGED part

ServiceNext ==
  \/ Only("identities") /\ IdentitiesNext /\ UNCHANGED <<runVars, mediaVars>>
  \/ Only("worker") /\ WorkerRunsNext /\ UNCHANGED <<idVars, mediaVars>>
  \/ Only("media") /\ MediaNext /\ UNCHANGED <<idVars, runVars>>

\* A call runs on unless it waits, and PostgreSQL looks for deadlocks.
CallFairness ==
  \A c \in Calls : WF_idVars(part = "identities" /\ CallSteps(c))

\* The schedule comes round, time passes, executions and calls go on.
RunFairness ==
  /\ WF_runVars(part = "worker" /\ ScheduledSweep)
  /\ WF_runVars(part = "worker" /\ Tick)
  /\ \A a \in Apis : WF_runVars(part = "worker" /\ TriggerAnswers(a))
  /\ \A e \in Execs : WF_runVars(part = "worker" /\ ExecStep(e))

ServiceSpec ==
  /\ ServiceInit /\ [][ServiceNext]_serviceVars
  /\ CallFairness /\ RunFairness

\* Each part's state has its type, the others' included while they rest.
ServiceTypeOK == IdentitiesTypeOK /\ WorkerRunsTypeOK /\ MediaTypeOK

=============================================================================
