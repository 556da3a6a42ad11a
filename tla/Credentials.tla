------------------------------ MODULE Credentials ------------------------------
(***************************************************************************)
(* The CLI's stored sessions: which backend a process finds usable         *)
(* (credstore.go, keyring.go), the file of all services' credentials and   *)
(* its replacement through a temporary file (file.go), and the commands    *)
(* that change them (cmd_auth.go).  A process may die at any step; its     *)
(* mutex is its own, so two processes may interleave.                      *)
(*                                                                         *)
(* The keyring's index file is left out: only List reads it, and no        *)
(* command lists.                                                          *)
(***************************************************************************)
EXTENDS Integers

CONSTANTS
  Shells,        \* processes that may run at the same time
  Services,      \* service URLs
  NoService,
  MaxCommands    \* bound on commands; each sign-in's session is named by its command

ASSUME CredAssumption == MaxCommands \in Nat /\ Services # {}

VARIABLES
  keyring,   \* [up, probe, entry]: the OS store, its probe entry, a session per service
  disk,      \* [file, tmp, body]: the inodes the two names have, and what each holds
  sessions,  \* the service's side of each session
  shell,     \* each process
  commands,  \* commands started
  overlap    \* history: two processes have run at the same time

credVars == <<keyring, disk, sessions, shell, commands, overlap>>

Sessions == 1..MaxCommands
StoredTokens == [Services -> Sessions \cup {0}]
NoTokens == [s \in Services |-> 0]
Torn == [s \in {} |-> 0]   \* an inode that holds some of its bytes and not all
Inodes == 1..MaxCommands   \* a process makes at most one

Idle == [pc |-> "off", command |-> "none", service |-> NoService, id |-> 0, token |-> 0,
         backend |-> "none", read |-> NoTokens, inode |-> 0]

Disks ==
  [file: Inodes \cup {0}, tmp: Inodes \cup {0},
   body: [Inodes -> StoredTokens \cup {Torn}]]
Processes ==
  [pc: {"off", "waiting", "probing", "probed", "reprobed", "loading", "revoking",
        "reading", "writing", "filling", "renaming"},
   command: {"none", "login", "logout"}, service: Services \cup {NoService},
   id: Sessions \cup {0}, token: Sessions \cup {0},
   backend: {"none", "keyring", "file"}, read: StoredTokens, inode: Inodes \cup {0}]

CredTypeOK ==
  /\ keyring \in [up: BOOLEAN, probe: BOOLEAN, entry: StoredTokens]
  /\ disk \in Disks
  /\ sessions \in [Sessions -> {"none", "live", "revoked"}]
  /\ shell \in [Shells -> Processes]
  /\ commands \in 0..MaxCommands /\ overlap \in BOOLEAN

CredInit ==
  /\ \E up \in BOOLEAN : keyring = [up |-> up, probe |-> FALSE, entry |-> NoTokens]
  /\ disk = [file |-> 0, tmp |-> 0, body |-> [i \in Inodes |-> NoTokens]]
  /\ sessions = [i \in Sessions |-> "none"]
  /\ shell = [p \in Shells |-> Idle]
  /\ commands = 0 /\ overlap = FALSE

Step(p, row) == shell' = [shell EXCEPT ![p] = row]
At(p, pc) == shell[p].pc = pc
To(p, pc) == [shell[p] EXCEPT !.pc = pc]

Start(p, command, s) ==
  /\ At(p, "off") /\ commands < MaxCommands
  /\ commands' = commands + 1
  /\ Step(p, [Idle EXCEPT !.pc = IF command = "login" THEN "waiting" ELSE "probing",
                          !.command = command, !.service = s, !.id = commands + 1])
  /\ overlap' = (overlap \/ \E q \in Shells : ~At(q, "off"))
  /\ UNCHANGED <<keyring, disk, sessions>>

\* An interrupt, a closed terminal, a crash.
Die(p) ==
  /\ ~At(p, "off") /\ Step(p, Idle)
  /\ UNCHANGED <<keyring, disk, sessions, commands, overlap>>

\* cmdLogin polls until the login is approved, and is handed the token; or it is
\* denied, expires, or a call fails, perhaps after the token was handed over.
LoginPolled(p) ==
  /\ At(p, "waiting")
  /\ \/ /\ sessions' = [sessions EXCEPT ![shell[p].id] = "live"]
        /\ Step(p, [To(p, "probing") EXCEPT !.token = shell[p].id])
     \/ sessions' = [sessions EXCEPT ![shell[p].id] = "live"] /\ Step(p, Idle)
     \/ UNCHANGED sessions /\ Step(p, Idle)
  /\ UNCHANGED <<keyring, disk, commands, overlap>>

-----------------------------------------------------------------------------
(* credstore.Open *)

\* With its backend chosen a login saves; a logout loads its session first.
Opened(p, backend) ==
  [shell[p] EXCEPT !.backend = backend,
                   !.pc = IF shell[p].command = "logout" THEN "loading"
                          ELSE IF backend = "file" THEN "reading" ELSE "writing"]

\* probe sets an entry every process shares, reads it back and deletes it.
Probe(p) ==
  \/ /\ At(p, "probing")
     /\ keyring' = [keyring EXCEPT !.probe = keyring.up]
     /\ Step(p, IF keyring.up THEN To(p, "probed") ELSE Opened(p, "file"))
  \/ /\ At(p, "probed")
     /\ UNCHANGED keyring
     /\ Step(p, [To(p, "reprobed") EXCEPT
                   !.backend = IF keyring.probe THEN "keyring" ELSE "file"])
  \/ /\ At(p, "reprobed")
     /\ keyring' = [keyring EXCEPT !.probe = FALSE]
     /\ Step(p, Opened(p, shell[p].backend))

OpenStore(p) == Probe(p) /\ UNCHANGED <<disk, sessions, commands, overlap>>

-----------------------------------------------------------------------------
(* The credentials *)

FileBody == IF disk.file = 0 THEN NoTokens ELSE disk.body[disk.file]

\* openSession: no session, or a file that cannot be parsed, is "not signed in".
LoadToken(p) ==
  LET token == IF shell[p].backend = "keyring" THEN keyring.entry[shell[p].service]
               ELSE IF FileBody = Torn THEN 0 ELSE FileBody[shell[p].service]
  IN  /\ At(p, "loading")
      /\ Step(p, IF token = 0 THEN Idle ELSE [To(p, "revoking") EXCEPT !.token = token])
      /\ UNCHANGED <<keyring, disk, sessions, commands, overlap>>

\* What follows the call to revoke.
Forgetting(p) ==
  To(p, IF shell[p].backend = "file" THEN "reading" ELSE "writing")

\* cmdLogout revokes before it forgets; the call may fail, and is not insisted on.
RevokeFirst(p) ==
  /\ At(p, "revoking")
  /\ \/ sessions' = [sessions EXCEPT ![shell[p].token] = "revoked"]
     \/ UNCHANGED sessions
  /\ Step(p, Forgetting(p))
  /\ UNCHANGED <<keyring, disk, commands, overlap>>

\* The session this command stores for its service: its own, or none.
Stored(p) == IF shell[p].command = "login" THEN shell[p].token ELSE 0

KeyringWrite(p) ==
  /\ At(p, "writing") /\ shell[p].backend = "keyring"
  /\ keyring' = [keyring EXCEPT !.entry[shell[p].service] = Stored(p)]
  /\ Step(p, Idle)
  /\ UNCHANGED <<disk, sessions, commands, overlap>>

\* readAll: no file, or a file without a byte, is an empty map.  A file that cannot
\* be parsed ends the command, and so does a delete of nothing.  Slip: the map is
\* begun afresh.
WithOwnOnly(p, body) == [NoTokens EXCEPT ![shell[p].service] = Stored(p)]
WithOwn(p, body) == [body EXCEPT ![shell[p].service] = Stored(p)]

FileRead(p) ==
  /\ At(p, "reading")
  /\ IF \/ FileBody = Torn
        \/ shell[p].command = "logout" /\ FileBody[shell[p].service] = 0
     THEN Step(p, Idle)
     ELSE Step(p, [To(p, "writing") EXCEPT !.read = WithOwn(p, FileBody)])
  /\ UNCHANGED <<keyring, disk, sessions, commands, overlap>>

\* writeAll: the temporary file is made, or truncated if there is one, then filled,
\* perhaps in parts, then renamed over the other.
OpenedBeside(p) ==
  LET inode == IF disk.tmp # 0 THEN disk.tmp ELSE shell[p].id
  IN  [disk EXCEPT !.tmp = inode, !.body[inode] = NoTokens]

FileOpen(p) ==
  /\ At(p, "writing") /\ shell[p].backend = "file"
  /\ disk' = OpenedBeside(p)
  /\ Step(p, [To(p, "filling") EXCEPT !.inode = disk'.tmp])
  /\ UNCHANGED <<keyring, sessions, commands, overlap>>

Written(p, body) == [disk EXCEPT !.body[shell[p].inode] = body]

FileFill(p) ==
  /\ At(p, "filling")
  /\ \/ disk' = Written(p, Torn) /\ Step(p, To(p, "filling"))
     \/ disk' = Written(p, shell[p].read) /\ Step(p, To(p, "renaming"))
  /\ UNCHANGED <<keyring, sessions, commands, overlap>>

\* Without a temporary file, which another process has renamed, the command fails.
FileRename(p) ==
  /\ At(p, "renaming")
  /\ disk' = IF disk.tmp = 0 THEN disk ELSE [disk EXCEPT !.file = disk.tmp, !.tmp = 0]
  /\ Step(p, Idle)
  /\ UNCHANGED <<keyring, sessions, commands, overlap>>

-----------------------------------------------------------------------------
CredNext ==
  \E p \in Shells :
    \/ \E command \in {"login", "logout"}, s \in Services : Start(p, command, s)
    \/ Die(p) \/ LoginPolled(p) \/ OpenStore(p)
    \/ LoadToken(p) \/ RevokeFirst(p)
    \/ KeyringWrite(p) \/ FileRead(p) \/ FileOpen(p) \/ FileFill(p) \/ FileRename(p)

CredSpec == CredInit /\ [][CredNext]_credVars

-----------------------------------------------------------------------------
(* Properties *)

\* What a service's session is in the file, unless the file cannot be parsed.
Filed(s) == IF FileBody = Torn THEN 0 ELSE FileBody[s]

\* As long as no two processes have overlapped, the stored session of a service
\* changes only by a command for that service, in one step, and never by a process
\* that dies while it replaces the file: "Other services' credentials are left
\* untouched" (credstore.go), "a crash mid-write can never leave a truncated or
\* corrupted credentials file" (file.go).
OthersUntouched ==
  [][ \A s \in Services :
        overlap \/ Filed(s)' = Filed(s)
        \/ \E p \in Shells : shell[p].pc = "renaming" /\ shell[p].service = s ]_credVars

=============================================================================
