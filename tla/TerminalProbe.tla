----------------------------- MODULE TerminalProbe -----------------------------
(***************************************************************************)
(* How the command line learns which pictures a terminal can draw          *)
(* (internal/terminal): it asks the terminal, waits for the answer within  *)
(* a budget, and keeps a good verdict on disk for the runs after it.  The  *)
(* answer may come after the budget, after the process, or to the next     *)
(* one: runs follow each other on one terminal, inside tmux or not.        *)
(*                                                                         *)
(* A read takes all that waits in the input queue; the sizes of cells,     *)
(* which the same replies carry, are left out.                             *)
(***************************************************************************)
EXTENDS Naturals, Sequences

CONSTANTS
  Hosts,    \* terminals to choose from
  MaxRuns,  \* bound on runs of the command
  MaxTyped   \* bound on keys typed

ASSUME ProbeAssumption ==
  /\ Hosts \subseteq [kitty: BOOLEAN, ghostty: BOOLEAN, itermLike: BOOLEAN,
                      passthrough: BOOLEAN, answers: BOOLEAN]
  /\ \A h \in Hosts : h.ghostty => h.kitty
  /\ MaxRuns \in Nat /\ MaxTyped \in Nat

VARIABLES
  host,   \* what the terminal and its environment variables are
  tmux,   \* whether commands are now run inside tmux
  owed,   \* replies the terminal has yet to send, in order
  input,  \* what waits in the tty's input queue
  cache,  \* terminal-caps.json: a verdict and the environment it was found in
  proc,   \* the process
  runs, typed,
  spilled, \* history: replies that the shell has read
  killed   \* history: a run was killed while it probed

probeVars == <<host, tmux, owed, input, cache, proc, runs, typed, spilled, killed>>

Graphics == {"kitty", "iterm"}
Protocols == Graphics \cup {"external"}
Replies == {"graphicsOK", "fence"}
NoCaps == [protocol |-> "external", inTmux |-> FALSE, passthroughOK |-> FALSE]
NoCache == [protocol |-> "none", tmux |-> FALSE]

\* seen: the buffer of runProbe.  readers: goroutines left in a Read of the tty.
Off == [pc |-> "off", forced |-> FALSE, seen |-> {}, readers |-> 0,
        caps |-> NoCaps, drawn |-> "none"]

ProbeTypeOK ==
  /\ host \in Hosts /\ tmux \in BOOLEAN
  /\ owed \in Seq(Replies) /\ input \subseteq Replies \cup {"key"}
  /\ cache \in [protocol: Graphics \cup {"none"}, tmux: BOOLEAN]
  /\ proc \in [pc: {"off", "probing", "draining", "open"}, forced: BOOLEAN,
               seen: SUBSET (Replies \cup {"key"}), readers: 0..2,
               caps: [protocol: Protocols, inTmux: BOOLEAN, passthroughOK: BOOLEAN],
               drawn: {"none", "text", "bare", "wrapped"}]
  /\ runs \in 0..MaxRuns /\ typed \in 0..MaxTyped /\ spilled \subseteq Replies
  /\ killed \in BOOLEAN

ProbeInit ==
  /\ host \in Hosts /\ tmux \in BOOLEAN
  /\ owed = <<>> /\ input = {} /\ cache = NoCache /\ proc = Off
  /\ runs = 0 /\ typed = 0 /\ spilled = {} /\ killed = FALSE

-----------------------------------------------------------------------------
(* The verdict *)

\* What a terminal that the query reaches says to it.
Answers ==
  IF ~host.answers \/ (tmux /\ ~host.passthrough) THEN <<>>
  ELSE IF host.kitty THEN <<"graphicsOK", "fence">> ELSE <<"fence">>

\* decideProtocol.  Ghostty is trusted on the fence alone, outside tmux.
Decide(seen) ==
  LET fenced == "fence" \in seen
      kitty  == "graphicsOK" \in seen \/ (host.ghostty /\ ~tmux)
  IN [protocol |-> IF fenced /\ kitty THEN "kitty"
                   ELSE IF fenced /\ host.itermLike THEN "iterm" ELSE "external",
      inTmux |-> tmux,
      passthroughOK |-> tmux /\ fenced]

\* Slip: the fingerprint leaves out TMUX.
CacheHitAnywhere == cache.protocol \in Graphics

\* loadCapCache: the verdict is for this environment, whose hints are read
\* anew; what the probe found out about passthrough was not stored.
CacheHit == cache.protocol \in Graphics /\ cache.tmux = tmux

Cached == [protocol |-> cache.protocol, inTmux |-> tmux, passthroughOK |-> FALSE]

\* storeCapCache: graphics verdicts behind a fence only, and no word of a failure.
Store(caps, seen) ==
  IF "fence" \in seen /\ caps.protocol \in Graphics
  THEN cache' \in {[protocol |-> caps.protocol, tmux |-> tmux], cache, NoCache}
  ELSE UNCHANGED cache

-----------------------------------------------------------------------------
(* A run *)

StartRun ==
  /\ proc.pc = "off" /\ runs < MaxRuns
  /\ runs' = runs + 1

Settled(caps, forced) ==
  proc' = [Off EXCEPT !.pc = "open", !.forced = forced, !.caps = caps]

\* --renderer=, which asks nothing.
DetectForced ==
  /\ StartRun
  /\ \E p \in Protocols :
       Settled([protocol |-> p, inTmux |-> tmux, passthroughOK |-> FALSE], TRUE)
  /\ UNCHANGED <<host, tmux, owed, input, cache, typed, spilled, killed>>

\* Not a terminal, or one that cannot be put into raw mode.
DetectNothing ==
  /\ StartRun
  /\ Settled([NoCaps EXCEPT !.inTmux = tmux], FALSE)
  /\ UNCHANGED <<host, tmux, owed, input, cache, typed, spilled, killed>>

DetectCached ==
  /\ StartRun /\ CacheHit
  /\ Settled(Cached, FALSE)
  /\ UNCHANGED <<host, tmux, owed, input, cache, typed, spilled, killed>>

DetectProbes ==
  /\ StartRun /\ ~CacheHit
  /\ proc' = [Off EXCEPT !.pc = "probing", !.readers = 1]
  /\ owed' = owed \o Answers
  /\ UNCHANGED <<host, tmux, input, cache, typed, spilled, killed>>

ProbeReads ==
  /\ proc.pc = "probing" /\ input # {}
  /\ LET seen == proc.seen \cup input
     IN proc' = IF "fence" \in seen
                THEN [proc EXCEPT !.pc = "draining", !.seen = seen, !.readers = 2]
                ELSE [proc EXCEPT !.seen = seen]
  /\ input' = {}
  /\ UNCHANGED <<host, tmux, owed, cache, runs, typed, spilled, killed>>

\* The timer, or the deadline of the context.
BudgetSpent ==
  /\ proc.pc = "probing"
  /\ proc' = [proc EXCEPT !.pc = "draining", !.readers = 2]
  /\ UNCHANGED <<host, tmux, owed, input, cache, runs, typed, spilled, killed>>

\* The probe's reader or the drain's takes what has come; no one looks at it.
DrainReads ==
  /\ proc.pc = "draining" /\ input # {}
  /\ input' = {}
  /\ UNCHANGED <<host, tmux, owed, cache, proc, runs, typed, spilled, killed>>

DrainEnds ==
  /\ proc.pc = "draining"
  /\ LET caps == Decide(proc.seen) IN
     /\ proc' = [proc EXCEPT !.pc = "open", !.caps = caps]
     /\ Store(caps, proc.seen)
  /\ UNCHANGED <<host, tmux, owed, input, runs, typed, spilled, killed>>

\* terminal.New and Render: the renderer of the verdict, which wraps its
\* sequence when the capabilities say that a wrap is forwarded.
Draw ==
  /\ proc.pc = "open" /\ proc.drawn = "none"
  /\ proc' = [proc EXCEPT !.drawn =
       IF proc.caps.protocol \notin Graphics THEN "text"
       ELSE IF proc.caps.inTmux /\ proc.caps.passthroughOK THEN "wrapped" ELSE "bare"]
  /\ UNCHANGED <<host, tmux, owed, input, cache, runs, typed, spilled, killed>>

\* The viewer, or a reader the probe left behind.
InputTaken ==
  /\ proc.pc = "open" /\ input # {}
  /\ input' = {}
  /\ UNCHANGED <<host, tmux, owed, cache, proc, runs, typed, spilled, killed>>

\* The readers left behind end with the process.
Exit ==
  /\ proc.pc = "open"
  /\ proc' = Off
  /\ UNCHANGED <<host, tmux, owed, input, cache, runs, typed, spilled, killed>>

Killed ==
  /\ proc.pc \in {"probing", "draining"}
  /\ proc' = Off /\ killed' = TRUE
  /\ UNCHANGED <<host, tmux, owed, input, cache, runs, typed, spilled>>

-----------------------------------------------------------------------------
(* The terminal, the shell and the clock *)

ReplyArrives ==
  /\ owed # <<>>
  /\ input' = input \cup {Head(owed)} /\ owed' = Tail(owed)
  /\ UNCHANGED <<host, tmux, cache, proc, runs, typed, spilled, killed>>

KeyTyped ==
  /\ typed < MaxTyped
  /\ typed' = typed + 1 /\ input' = input \cup {"key"}
  /\ UNCHANGED <<host, tmux, owed, cache, proc, runs, spilled, killed>>

\* Between two commands of one line the shell does not read.
ShellReads ==
  /\ proc.pc = "off" /\ input # {}
  /\ spilled' = spilled \cup (input \cap Replies) /\ input' = {}
  /\ UNCHANGED <<host, tmux, owed, cache, proc, runs, typed, killed>>

\* Commands are now run on the other side of tmux, on another tty.
SwitchTty ==
  /\ proc.pc = "off" /\ runs < MaxRuns
  /\ tmux' = ~tmux /\ owed' = <<>> /\ input' = {}
  /\ UNCHANGED <<host, cache, proc, runs, typed, spilled, killed>>

CacheExpires ==
  /\ cache # NoCache
  /\ cache' = NoCache
  /\ UNCHANGED <<host, tmux, owed, input, proc, runs, typed, spilled, killed>>

ProbeNext ==
  \/ DetectForced \/ DetectNothing \/ DetectCached \/ DetectProbes
  \/ ProbeReads \/ BudgetSpent \/ DrainReads \/ DrainEnds
  \/ Draw \/ InputTaken \/ Exit \/ Killed
  \/ ReplyArrives \/ KeyTyped \/ ShellReads \/ SwitchTty \/ CacheExpires

ProbeSpec == ProbeInit /\ [][ProbeNext]_probeVars

-----------------------------------------------------------------------------
(* Properties *)

\* A verdict that was not forced is one the terminal keeps: the graphics
\* protocol it names is one it speaks, and inside tmux one that tmux forwards.
\* The fence may be another run's late one and the verdict one stored outside
\* tmux, or inside (capability.go:63-67, capcache.go:16-22).
VerdictKept ==
  proc.pc = "open" /\ ~proc.forced =>
    /\ proc.caps.protocol = "kitty" => host.kitty
    /\ proc.caps.protocol = "iterm" => host.itermLike
    /\ proc.caps.protocol \in Graphics =>
         host.answers /\ (tmux => host.passthrough)

-----------------------------------------------------------------------------
(* What a comment says and the code does not keep *)

\* "Kitty and iTerm2 renderers must not emit protocol escapes inside tmux
\* unless" the passthrough was verified (capability.go:50-53); of runs that
\* were not told which renderer to use.
NoBareEscapes ==
  ~proc.forced /\ proc.caps.inTmux => proc.drawn # "bare"

\* The drain "discards probe replies that arrive after the budget (a slow
\* terminal can answer DA seconds later)", so that the shell does not read
\* them (capability_unix.go:149-152); of runs that lived to drain.
ShellSeesNoReplies == ~killed => spilled = {}

=============================================================================
