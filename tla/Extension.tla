------------------------------- MODULE Extension -------------------------------
(***************************************************************************)
(* The parts of the browser extension side by side: the service worker's   *)
(* session, the avatar rings, the Story viewer and the composer.  The      *)
(* parts share nothing that their models hold, so each behaviour is one    *)
(* part's, chosen at the start, with the others at rest.                   *)
(***************************************************************************)
EXTENDS ExtensionSession, AvatarRings, StoryPlayer, Composer

CONSTANT Parts  \* the parts a behaviour may be of

VARIABLE part

extensionVars == <<sessionVars, ringVars, playerVars, composerVars, part>>

ExtensionInit ==
  /\ part \in Parts
  /\ SessionInit /\ RingInit /\ PlayerInit /\ ComposerInit

Only(name) == part = name /\ UNCHANGED part

ExtensionNext ==
  \/ Only("session") /\ SessionNext /\ UNCHANGED <<ringVars, playerVars, composerVars>>
  \/ Only("rings") /\ RingNext /\ UNCHANGED <<sessionVars, playerVars, composerVars>>
  \/ Only("player") /\ PlayerNext /\ UNCHANGED <<sessionVars, ringVars, composerVars>>
  \/ Only("composer") /\ ComposerNext /\ UNCHANGED <<sessionVars, ringVars, playerVars>>

\* The service worker: handlers that have begun go on, the loop's timer and the
\* alarm fire (the alarm starts an evicted worker), and deadlines pass.
SessionFairness ==
  /\ WF_sessionVars(part = "session" /\ PollSteps)
  /\ WF_sessionVars(part = "session" /\ LoopPolls)
  /\ WF_sessionVars(part = "session" /\ AlarmPolls)
  /\ WF_sessionVars(part = "session" /\ alarm /\ WorkerStarts)
  /\ WF_sessionVars(part = "session" /\ LoginSteps)
  /\ \A l \in Logins : WF_sessionVars(part = "session" /\ DeadlinePasses(l))

\* The rings: timers fire, messages arrive, a request ends one way or the other.
RingFairness ==
  /\ WF_ringVars(part = "rings" /\ PageSteps)
  /\ WF_ringVars(part = "rings" /\ BatcherSteps)
  /\ WF_ringVars(part = "rings" /\ RetriesDue)

\* The viewer: frames are drawn and updates rendered, and requests and elements
\* end one way or the other.
PlayerFairness ==
  /\ WF_playerVars(part = "player" /\ FrameEnds)
  /\ WF_playerVars(part = "player" /\ QueuedRendered)
  /\ WF_playerVars(part = "player" /\ OpenAnswered)
  /\ WF_playerVars(part = "player" /\ MediaSteps)
  /\ WF_playerVars(part = "player" /\ ElementSteps)

\* The composer: a flow goes on until it has told its page; its requests end, the
\* PUT too, which has no timeout of its own (upload.ts:73, 96), its polling has a
\* deadline, and a closed port is an event.
ComposerFairness ==
  \A p \in Posts : WF_composerVars(part = "composer" /\ PostSteps(p))

ExtensionSpec ==
  /\ ExtensionInit /\ [][ExtensionNext]_extensionVars
  /\ SessionFairness /\ RingFairness /\ PlayerFairness /\ ComposerFairness

\* Each part's state has its type, the others' included while they rest.
ExtensionTypeOK == SessionTypeOK /\ RingTypeOK /\ PlayerTypeOK /\ ComposerTypeOK

=============================================================================
