-------------------------- MODULE CommandLineProofs --------------------------
(***************************************************************************)
(* The command line, for any size limit, number of repetitions, processes, *)
(* services, commands, shelf, terminals and rules: one post makes one      *)
(* Story at most; where no two processes overlap, one that dies at any     *)
(* step takes no other service's session along; the pictures drawn are     *)
(* ones the terminal can show; a reply meets the item it was typed for;    *)
(* and no caller gets more than the rate of the limiter's rule.  At the    *)
(* end, the parts together, with the types of all of them.                 *)
(***************************************************************************)
EXTENDS CommandLine, TLAPS

(* Posting *)

Made(state) == state \notin {"none", "authorized"}

\* Whatever has become a Story is the upload the command holds since it was
\* authorized, and the command has reached the call to finalize.
PostInv ==
  /\ PostTypeOK
  /\ \A u \in Authorizations :
       Made(uploads[u]) => /\ posting.upload = u
                           /\ posting.pc \in {"finalizing", "polling", "sleeping", "ended"}

LEMMA PostInitially == PostInit => PostInv
<1> SUFFICES ASSUME PostInit PROVE PostInv
  OBVIOUS
<1>1. posting \in Postings
  BY PostAssumption DEF PostInit, PostAssumption, Postings, Reports
<1>2. uploads \in [Authorizations -> States]
  BY DEF PostInit, States
<1>3. overdue \in BOOLEAN
  BY DEF PostInit
<1>4. \A u \in Authorizations : ~Made(uploads[u])
  BY DEF PostInit, Made
<1> QED
  BY <1>1, <1>2, <1>3, <1>4 DEF PostInv, PostTypeOK

-----------------------------------------------------------------------------
(* What a step does to the command *)

LEMMA Ends ==
  ASSUME posting \in Postings, NEW says \in Reports, EndPost(says)
  PROVE  posting' \in Postings /\ posting'.pc = "ended" /\ posting'.upload = posting.upload
BY DEF Postings, EndPost

LEMMA Enters ==
  ASSUME posting \in Postings, NEW pc \in {"putting"} \cup ApiCalls,
         NEW u \in Authorizations \cup {0}, Enter(pc, u)
  PROVE  posting' \in Postings /\ posting'.pc = pc /\ posting'.upload = u
<1>1. 0 \in 0..MaxRetries
  BY PostAssumption DEF PostAssumption
<1>2. posting' = [posting EXCEPT !.pc = pc, !.upload = u, !.repeat = 0]
  BY DEF Enter
<1>3. pc \in {"off", "putting", "sleeping", "ended"} \cup ApiCalls
  OBVIOUS
<1> QED
  BY <1>1, <1>2, <1>3 DEF Postings

LEMMA Repeats ==
  ASSUME posting \in Postings, Again
  PROVE  /\ posting' \in Postings /\ posting'.upload = posting.upload
         /\ posting'.pc \in {"ended", posting.pc}
<1>1. CASE posting.repeat < MaxRetries
  <2>1. posting' = [posting EXCEPT !.repeat = @ + 1]
    BY <1>1 DEF Again
  <2>2. posting.repeat + 1 \in 0..MaxRetries
    BY <1>1, PostAssumption DEF Postings, PostAssumption
  <2> QED
    BY <2>1, <2>2 DEF Postings
<1>2. CASE ~(posting.repeat < MaxRetries)
  BY <1>2, Ends DEF Again, Reports
<1> QED
  BY <1>1, <1>2

LEMMA Reported ==
  ASSUME posting \in Postings, NEW state \in States, Report(state)
  PROVE  posting' \in Postings /\ posting'.pc = "ended" /\ posting'.upload = posting.upload
<1>1. \E says \in Reports : EndPost(says)
  BY DEF Report, Reports
<1> QED
  BY <1>1, Ends

-----------------------------------------------------------------------------
(* The invariant *)

\* The command moves and the uploads are left alone; its own upload changes only
\* before there is a Story.
LEMMA PostMoves ==
  ASSUME PostInv, UNCHANGED uploads, overdue' \in BOOLEAN, posting' \in Postings,
         \/ /\ posting'.upload = posting.upload
            /\ posting'.pc \in {"finalizing", "polling", "sleeping", "ended", posting.pc}
         \/ posting.pc \in {"off", "creating", "putting"}
  PROVE  PostInv'
BY DEF PostInv, PostTypeOK, Made

LEMMA PostStep == ASSUME PostInv, PostNext PROVE PostInv'
<1>0. posting \in Postings /\ overdue \in BOOLEAN
  BY DEF PostInv, PostTypeOK
<1>1. ASSUME NEW n \in 0..(Limit + 2), NEW known \in BOOLEAN, NEW wait \in BOOLEAN,
             StartPost(n, known, wait)
      PROVE  PostInv'
  <2>1. CASE posting' = [posting EXCEPT !.pc = "ended", !.says = "refused"]
    <3>1. posting' \in Postings
      BY <1>0, <2>1 DEF Postings, Reports
    <3> QED
      BY <1>0, <1>1, <3>1, PostMoves DEF StartPost
  <2>2. CASE posting' = [posting EXCEPT !.pc = "creating", !.wait = wait]
    <3>1. posting' \in Postings
      BY <1>0, <2>2 DEF Postings, ApiCalls
    <3> QED
      BY <1>0, <1>1, <3>1, PostMoves DEF StartPost
  <2> QED
    BY <1>1, <2>1, <2>2 DEF StartPost
<1>2. CASE PostCallFails
  <2>1. /\ posting' \in Postings /\ posting'.upload = posting.upload
        /\ posting'.pc \in {"ended", posting.pc}
    BY <1>0, <1>2, Repeats, Ends DEF PostCallFails, Reports
  <2> QED
    BY <1>0, <1>2, <2>1, PostMoves DEF PostCallFails
<1>3. CASE Authorize
  <2> PICK u \in Authorizations :
        /\ uploads[u] = "none"
        /\ uploads' = [uploads EXCEPT ![u] = "authorized"]
        /\ Enter("putting", u) \/ Again
    BY <1>3 DEF Authorize
  <2>1. posting' \in Postings
    BY <1>0, Enters, Repeats
  <2>2. \A v \in Authorizations : ~Made(uploads[v])
    BY <1>3 DEF PostInv, Authorize
  <2>3. \A v \in Authorizations : ~Made(uploads'[v])
    BY <2>2 DEF PostInv, PostTypeOK, Made
  <2>4. uploads' \in [Authorizations -> States] /\ overdue' \in BOOLEAN
    BY <1>0, <1>3 DEF PostInv, PostTypeOK, States, Authorize
  <2> QED
    BY <2>1, <2>3, <2>4 DEF PostInv, PostTypeOK
<1>4. CASE PutBytes
  <2>1. posting.upload \in Authorizations \cup {0}
    BY <1>0 DEF Postings
  <2>2. posting' \in Postings
    BY <1>0, <1>4, <2>1, Enters, Ends DEF PutBytes, Reports, ApiCalls
  <2> QED
    BY <1>0, <1>4, <2>2, PostMoves DEF PutBytes
<1>5. CASE FinalizePosted
  <2> PICK u, state :
        /\ u = posting.upload
        /\ state = IF uploads[u] = "authorized" THEN "processing" ELSE uploads[u]
    OBVIOUS
  <2>1. /\ posting.pc = "finalizing" /\ uploads' = [uploads EXCEPT ![u] = state]
        /\ \/ Again
           \/ IF Terminal(state) THEN Report(state) ELSE Enter("polling", u)
        /\ UNCHANGED overdue
    BY <1>5 DEF FinalizePosted
  <2>2. uploads' \in [Authorizations -> States]
    BY <2>1 DEF PostInv, PostTypeOK, States
  <2>3. \A v \in Authorizations : v # u => uploads'[v] = uploads[v]
    BY <2>1 DEF PostInv, PostTypeOK
  <2>4. u \in Authorizations \cup {0}
    BY <1>0 DEF Postings
  <2>5. CASE Again
    BY <1>0, <2>1, <2>2, <2>3, <2>5, Repeats DEF PostInv, PostTypeOK, Made
  <2>6. CASE Terminal(state) /\ Report(state)
    <3>1. state \in States
      BY <2>6 DEF Terminal, States
    <3> QED
      BY <1>0, <2>1, <2>2, <2>3, <2>6, <3>1, Reported DEF PostInv, PostTypeOK, Made
  <2>7. CASE Enter("polling", u)
    BY <1>0, <2>1, <2>2, <2>3, <2>4, <2>7, Enters DEF PostInv, PostTypeOK, Made, ApiCalls
  <2> QED
    BY <2>1, <2>5, <2>6, <2>7
<1>6. CASE PollStory
  <2>1. CASE Terminal(uploads[posting.upload])
    <3>1. uploads[posting.upload] \in States
      BY <2>1 DEF Terminal, States
    <3>2. Report(uploads[posting.upload]) /\ UNCHANGED <<uploads, overdue>>
      BY <1>6, <2>1 DEF PollStory
    <3>3. posting' \in Postings /\ posting'.pc = "ended"
                                /\ posting'.upload = posting.upload
      BY <1>0, <3>1, <3>2, Reported
    <3> QED
      BY <1>0, <3>2, <3>3, PostMoves
  <2>2. CASE posting' = [posting EXCEPT !.pc = "sleeping", !.repeat = 0]
    <3>0. 0 \in 0..MaxRetries
      BY PostAssumption DEF PostAssumption
    <3>1. posting' \in Postings /\ posting'.pc = "sleeping"
                                /\ posting'.upload = posting.upload
      BY <1>0, <2>2, <3>0 DEF Postings
    <3> QED
      BY <1>0, <1>6, <3>1, PostMoves DEF PollStory
  <2> QED
    BY <1>6, <2>1, <2>2 DEF PollStory
<1>7. CASE SleepEnds
  <2>1. posting.upload \in Authorizations \cup {0}
    BY <1>0 DEF Postings
  <2>2. /\ posting' \in Postings /\ posting'.pc = "polling"
        /\ posting'.upload = posting.upload
    BY <1>0, <1>7, <2>1, Enters DEF SleepEnds, ApiCalls
  <2> QED
    BY <1>0, <1>7, <2>2, PostMoves DEF SleepEnds
<1>8. CASE WaitIsOver
  BY <1>0, <1>8, Ends, PostMoves DEF WaitIsOver, Reports
<1>9. CASE TimePasses
  BY <1>0, <1>9, PostMoves DEF TimePasses
<1>10. ASSUME NEW u \in Authorizations, StoryMoves(u) PROVE PostInv'
  <2>1. uploads' \in [Authorizations -> States]
    BY <1>10 DEF PostInv, PostTypeOK, StoryMoves, States
  <2>2. Made(uploads[u]) /\ \A v \in Authorizations : v # u => uploads'[v] = uploads[v]
    BY <1>10 DEF PostInv, PostTypeOK, StoryMoves, Made
  <2> QED
    BY <1>0, <1>10, <2>1, <2>2 DEF PostInv, PostTypeOK, StoryMoves
<1> QED
  BY <1>1, <1>2, <1>3, <1>4, <1>5, <1>6, <1>7, <1>8, <1>9, <1>10
     DEF PostNext, PostCommandSteps

-----------------------------------------------------------------------------
(* Theorem *)

\* Whatever has become a Story is the upload the command holds (Upload).
THEOREM PostInvariance == PostSpec => []PostInv
<1>1. PostInv /\ UNCHANGED postVars => PostInv'
  BY DEF PostInv, PostTypeOK, postVars, Made
<1> QED
  BY PostInitially, PostStep, <1>1, PTL DEF PostSpec

\* One `gh stories post` makes one Story at most, however often its calls are
\* repeated (Client.do, Upload).
THEOREM OneStoryHolds == PostSpec => []OneStoryPerCommand
<1>1. PostInv => OneStoryPerCommand
  BY DEF PostInv, OneStoryPerCommand, Made
<1> QED
  BY PostInvariance, <1>1, PTL

-----------------------------------------------------------------------------
(* The stored credentials *)

Active(p) == shell[p].pc # "off"
Replacing == {"filling", "renaming"}

\* The file can be parsed, and the temporary file is another one.
DiskSound ==
  /\ disk.file <= commands /\ disk.tmp <= commands
  /\ disk.file # 0 => disk.file # disk.tmp
  /\ FileBody \in StoredTokens

\* What a process whose inode would be new has read and written is what the file
\* holds, but for its own service.
ProcessHolds(p) ==
  Active(p) =>
    /\ shell[p].id # 0 /\ shell[p].id <= commands
    /\ shell[p].pc \notin Replacing =>
         disk.file # shell[p].id /\ disk.tmp # shell[p].id
    /\ \/ shell[p].pc = "writing" /\ shell[p].backend = "file"
       \/ shell[p].pc \in Replacing
       => \A s \in Services \ {shell[p].service} : shell[p].read[s] = FileBody[s]
    /\ shell[p].pc = "filling" => disk.tmp # 0 /\ shell[p].inode = disk.tmp
    /\ shell[p].pc = "renaming" => disk.tmp # 0 /\ disk.body[disk.tmp] = shell[p].read

CredInv ==
  /\ CredTypeOK
  /\ \A p \in Shells : Active(p) => shell[p].service \in Services
  /\ ~overlap =>
       /\ \A p, q \in Shells : Active(p) /\ Active(q) => p = q
       /\ DiskSound
       /\ \A p \in Shells : ProcessHolds(p)

LEMMA NumbersOfCommands == MaxCommands \in Nat
BY CredAssumption DEF CredAssumption

\* A map of sessions is never a file that cannot be parsed.
LEMMA TornUnlike == Torn \notin StoredTokens
<1> SUFFICES ASSUME Torn \in StoredTokens PROVE FALSE
  OBVIOUS
<1>1. DOMAIN Torn = {}
  BY DEF Torn
<1>2. DOMAIN Torn = Services
  BY DEF StoredTokens
<1> QED
  BY <1>1, <1>2, CredAssumption DEF CredAssumption

LEMMA NoTokensTyped == NoTokens \in StoredTokens
BY DEF NoTokens, StoredTokens

LEMMA IdleTyped == Idle \in Processes /\ Idle.pc = "off"
BY NoTokensTyped DEF Idle, Processes

LEMMA CredInitially == CredInit => CredInv
<1> SUFFICES ASSUME CredInit PROVE CredInv
  OBVIOUS
<1>1. keyring \in [up: BOOLEAN, probe: BOOLEAN, entry: StoredTokens]
  BY NoTokensTyped DEF CredInit
<1>2. disk \in Disks
  BY NoTokensTyped DEF CredInit, Disks
<1>3. sessions \in [Sessions -> {"none", "live", "revoked"}]
  BY DEF CredInit
<1>4. shell \in [Shells -> Processes] /\ \A p \in Shells : ~Active(p)
  BY IdleTyped DEF CredInit, Active
<1>5. commands \in 0..MaxCommands /\ overlap \in BOOLEAN
  <2>1. commands \in 0..MaxCommands
    BY NumbersOfCommands DEF CredInit
  <2>2. overlap \in BOOLEAN
    BY DEF CredInit
  <2> QED
    BY <2>1, <2>2
<1>6. DiskSound
  <2>1. disk.file = 0 /\ disk.tmp = 0 /\ commands = 0
    BY DEF CredInit
  <2> QED
    BY <2>1, NoTokensTyped DEF DiskSound, FileBody
<1> QED
  BY <1>1, <1>2, <1>3, <1>4, <1>5, <1>6 DEF CredInv, CredTypeOK, ProcessHolds

-----------------------------------------------------------------------------
(* One process moves *)

\* Process p becomes row; what the others know still holds if p was alone.
LEMMA ProcessMoves ==
  ASSUME CredInv, NEW p \in Shells, NEW row \in Processes, Step(p, row), Active(p),
         keyring' \in [up: BOOLEAN, probe: BOOLEAN, entry: StoredTokens],
         disk' \in Disks, sessions' \in [Sessions -> {"none", "live", "revoked"}],
         UNCHANGED <<commands, overlap>>,
         row.pc # "off" => row.service = shell[p].service,
         ~overlap => DiskSound' /\ ProcessHolds(p)'
  PROVE  CredInv'
<1>1. shell' \in [Shells -> Processes] /\ shell'[p] = row
      /\ \A q \in Shells : q # p => shell'[q] = shell[q]
  BY DEF CredInv, CredTypeOK, Step
<1>2. CredTypeOK'
  BY <1>1 DEF CredInv, CredTypeOK
<1>3. ASSUME NEW q \in Shells, Active(q)' PROVE shell'[q].service \in Services /\ Active(q)
  BY <1>1, <1>3 DEF CredInv, Active
<1>4. ASSUME ~overlap, NEW q \in Shells, q # p PROVE ~Active(q)' /\ ProcessHolds(q)'
  BY <1>1, <1>4 DEF CredInv, Active, ProcessHolds
<1> QED
  BY <1>2, <1>3, <1>4 DEF CredInv

\* The credentials file is left alone, and p is not about to replace it.
LEMMA DiskKept ==
  ASSUME CredInv, NEW p \in Shells, NEW row \in Processes, Step(p, row), Active(p),
         keyring' \in [up: BOOLEAN, probe: BOOLEAN, entry: StoredTokens],
         sessions' \in [Sessions -> {"none", "live", "revoked"}],
         UNCHANGED <<disk, commands, overlap>>,
         \/ row.pc = "off"
         \/ /\ row.service = shell[p].service /\ row.id = shell[p].id
            /\ shell[p].pc \notin Replacing /\ row.pc \notin Replacing
            /\ row.pc = "writing" /\ row.backend = "file" =>
                 \A s \in Services \ {row.service} : row.read[s] = FileBody[s]
  PROVE  CredInv'
<1>1. shell'[p] = row
  BY DEF CredInv, CredTypeOK, Step
<1>2. ASSUME ~overlap PROVE DiskSound'
  BY <1>2 DEF CredInv, DiskSound, FileBody
<1>3. ASSUME ~overlap PROVE ProcessHolds(p)'
  <2>1. CASE row.pc = "off"
    BY <1>1, <2>1 DEF ProcessHolds, Active
  <2>2. CASE row.pc # "off"
    <3>1. ProcessHolds(p)
      BY <1>3 DEF CredInv
    <3> QED
      BY <1>1, <2>2, <3>1 DEF ProcessHolds, Active, FileBody, Replacing
  <2> QED
    BY <2>1, <2>2
<1>4. disk' \in Disks
  BY DEF CredInv, CredTypeOK
<1> QED
  BY <1>2, <1>3, <1>4, ProcessMoves

-----------------------------------------------------------------------------
(* One step *)

LEMMA RowTyped ==
  ASSUME CredInv, NEW p \in Shells, Active(p)
  PROVE  /\ shell[p] \in Processes /\ shell[p].service \in Services
         /\ keyring.entry \in StoredTokens
         /\ FileBody = Torn \/ FileBody \in StoredTokens
         /\ Stored(p) \in Sessions \cup {0}
<1>1. shell[p] \in Processes /\ shell[p].service \in Services
      /\ keyring.entry \in StoredTokens
  BY DEF CredInv, CredTypeOK
<1>2. Stored(p) \in Sessions \cup {0}
  BY <1>1 DEF Stored, Processes
<1>3. FileBody = Torn \/ FileBody \in StoredTokens
  BY NoTokensTyped DEF FileBody, CredInv, CredTypeOK, Disks
<1> QED
  BY <1>1, <1>2, <1>3

LEMMA Goes ==
  ASSUME NEW p \in Shells, shell[p] \in Processes,
         NEW pc \in {"off", "waiting", "probing", "probed", "reprobed", "loading",
                     "revoking", "reading", "writing", "filling", "renaming"}
  PROVE  /\ To(p, pc) \in Processes /\ To(p, pc).pc = pc
         /\ To(p, pc).service = shell[p].service /\ To(p, pc).id = shell[p].id
         /\ To(p, pc).backend = shell[p].backend /\ To(p, pc).read = shell[p].read
         /\ To(p, pc).inode = shell[p].inode
BY DEF To, Processes

LEMMA Opens ==
  ASSUME NEW p \in Shells, shell[p] \in Processes,
         NEW backend \in {"none", "keyring", "file"}
  PROVE  /\ Opened(p, backend) \in Processes
         /\ Opened(p, backend).pc \in {"loading", "reading", "writing"}
         /\ Opened(p, backend).service = shell[p].service
         /\ Opened(p, backend).id = shell[p].id
         /\ Opened(p, backend).pc = "writing" => Opened(p, backend).backend # "file"
BY DEF Opened, Processes

LEMMA Starting ==
  ASSUME CredInv, NEW p \in Shells, NEW command \in {"login", "logout"},
         NEW s \in Services, Start(p, command, s)
  PROVE  CredInv'
<1> PICK row :
      row = [Idle EXCEPT !.pc = IF command = "login" THEN "waiting" ELSE "probing",
                         !.command = command, !.service = s, !.id = commands + 1]
  OBVIOUS
<1>0. /\ ~Active(p) /\ commands < MaxCommands /\ commands' = commands + 1
      /\ Step(p, row)
      /\ overlap' = (overlap \/ \E q \in Shells : Active(q))
      /\ UNCHANGED <<keyring, disk, sessions>>
  BY DEF Start, At, Active
<1>1. commands \in 0..MaxCommands /\ disk \in Disks
  BY DEF CredInv, CredTypeOK
<1>2. commands + 1 \in Sessions /\ commands' \in 0..MaxCommands
  BY <1>0, <1>1, NumbersOfCommands DEF Sessions
<1>3. /\ row \in Processes /\ row.service = s /\ row.id = commands + 1
      /\ row.pc \in {"waiting", "probing"}
  BY <1>2, IdleTyped DEF Processes
<1>4. shell' \in [Shells -> Processes] /\ shell'[p] = row
      /\ \A q \in Shells : q # p => shell'[q] = shell[q]
  BY <1>0, <1>3 DEF CredInv, CredTypeOK, Step
<1>5. overlap' \in BOOLEAN
  BY <1>0
<1>6. CredTypeOK'
  BY <1>0, <1>2, <1>4, <1>5 DEF CredInv, CredTypeOK
<1>7. ASSUME NEW q \in Shells, Active(q)' PROVE shell'[q].service \in Services
  <2>1. CASE q = p
    BY <1>3, <1>4, <2>1
  <2>2. CASE q # p
    BY <1>4, <1>7, <2>2 DEF CredInv, Active
  <2> QED
    BY <2>1, <2>2
<1>8. ASSUME ~overlap'
      PROVE  /\ \A q, r \in Shells : Active(q)' /\ Active(r)' => q = r
             /\ DiskSound' /\ \A q \in Shells : ProcessHolds(q)'
  <2>1. ~overlap /\ \A q \in Shells : ~Active(q)
    BY <1>0, <1>8
  <2>2. \A q \in Shells : q # p => ~Active(q)'
    BY <2>1, <1>4 DEF Active
  <2>3. DiskSound
    BY <2>1 DEF CredInv
  <2>4. disk.file \in Int /\ disk.tmp \in Int
    BY <1>1, NumbersOfCommands DEF Disks, Inodes
  <2>5. DiskSound'
    BY <1>0, <1>1, <2>3, <2>4 DEF DiskSound, FileBody
  <2>6. ProcessHolds(p)'
    BY <1>0, <1>1, <1>3, <1>4, <2>3, <2>4 DEF ProcessHolds, DiskSound, Replacing
  <2> QED
    BY <2>2, <2>5, <2>6 DEF ProcessHolds
<1> QED
  BY <1>6, <1>7, <1>8 DEF CredInv

\* Steps of a process that has not begun to replace the file.
LEMMA Unreplaced ==
  ASSUME CredInv, NEW p \in Shells, Active(p), shell[p].pc \notin Replacing,
         \/ Die(p) \/ LoginPolled(p) \/ OpenStore(p) \/ LoadToken(p) \/ RevokeFirst(p)
         \/ KeyringWrite(p) \/ FileRead(p)
  PROVE  CredInv'
<1>0. /\ shell[p] \in Processes /\ shell[p].service \in Services
      /\ keyring \in [up: BOOLEAN, probe: BOOLEAN, entry: StoredTokens]
      /\ sessions \in [Sessions -> {"none", "live", "revoked"}]
  BY RowTyped DEF CredInv, CredTypeOK
<1>1. CASE Die(p)
  BY <1>0, <1>1, IdleTyped, DiskKept DEF Die
<1>2. CASE LoginPolled(p)
  <2>1. /\ sessions' \in [Sessions -> {"none", "live", "revoked"}]
        /\ UNCHANGED <<keyring, disk, commands, overlap>>
    BY <1>0, <1>2 DEF LoginPolled
  <2>2. CASE Step(p, Idle)
    BY <1>0, <2>1, <2>2, IdleTyped, DiskKept
  <2>3. CASE Step(p, [To(p, "probing") EXCEPT !.token = shell[p].id])
    <3> PICK row : row = [To(p, "probing") EXCEPT !.token = shell[p].id]
      OBVIOUS
    <3>1. /\ row \in Processes /\ row.pc = "probing" /\ row.id = shell[p].id
          /\ row.service = shell[p].service
      BY <1>0, Goes DEF Processes
    <3>2. Step(p, row)
      BY <2>3
    <3> QED
      BY <1>0, <2>1, <3>1, <3>2, DiskKept DEF Replacing
  <2> QED
    BY <1>2, <2>2, <2>3 DEF LoginPolled
<1>3. CASE OpenStore(p)
  <2>1. UNCHANGED <<disk, sessions, commands, overlap>> /\ Probe(p)
    BY <1>3 DEF OpenStore
  <2>2. keyring' \in [up: BOOLEAN, probe: BOOLEAN, entry: StoredTokens]
    BY <1>0, <2>1 DEF Probe
  <2>3. CASE \E backend \in {"none", "keyring", "file"} : Step(p, Opened(p, backend))
    <3> PICK backend \in {"none", "keyring", "file"} : Step(p, Opened(p, backend))
      BY <2>3
    <3> QED
      BY <1>0, <2>1, <2>2, Opens, DiskKept DEF Replacing
  <2>4. CASE Step(p, To(p, "probed"))
    BY <1>0, <2>1, <2>2, <2>4, Goes, DiskKept DEF Replacing
  <2>5. CASE \E backend \in {"keyring", "file"} :
               Step(p, [To(p, "reprobed") EXCEPT !.backend = backend])
    <3> PICK backend \in {"keyring", "file"} :
               Step(p, [To(p, "reprobed") EXCEPT !.backend = backend])
      BY <2>5
    <3> PICK row : row = [To(p, "reprobed") EXCEPT !.backend = backend]
      OBVIOUS
    <3>1. /\ row \in Processes /\ row.pc = "reprobed" /\ row.id = shell[p].id
          /\ row.service = shell[p].service
      BY <1>0, Goes DEF Processes
    <3> QED
      BY <1>0, <2>1, <2>2, <3>1, DiskKept DEF Replacing
  <2>6. shell[p].backend \in {"none", "keyring", "file"}
    BY <1>0 DEF Processes
  <2> QED
    BY <2>1, <2>3, <2>4, <2>5, <2>6 DEF Probe
<1>4. CASE LoadToken(p)
  <2>1. UNCHANGED <<keyring, disk, sessions, commands, overlap>>
    BY <1>4 DEF LoadToken
  <2>2. CASE Step(p, Idle)
    BY <1>0, <2>1, <2>2, IdleTyped, DiskKept
  <2>3. CASE ~Step(p, Idle)
    <3> PICK token :
          /\ token \in Sessions \cup {0}
          /\ Step(p, [To(p, "revoking") EXCEPT !.token = token])
      BY <1>0, <1>4, <2>3, RowTyped DEF LoadToken, StoredTokens
    <3> PICK row : row = [To(p, "revoking") EXCEPT !.token = token]
      OBVIOUS
    <3>1. /\ row \in Processes /\ row.pc = "revoking" /\ row.id = shell[p].id
          /\ row.service = shell[p].service
      BY <1>0, Goes DEF Processes
    <3> QED
      BY <1>0, <2>1, <3>1, DiskKept DEF Replacing
  <2> QED
    BY <2>2, <2>3
<1>5. CASE RevokeFirst(p)
  <2>1. /\ sessions' \in [Sessions -> {"none", "live", "revoked"}]
        /\ UNCHANGED <<keyring, disk, commands, overlap>> /\ Step(p, Forgetting(p))
    BY <1>0, <1>5 DEF RevokeFirst
  <2>2. /\ Forgetting(p) \in Processes /\ Forgetting(p).id = shell[p].id
        /\ Forgetting(p).service = shell[p].service
        /\ Forgetting(p).pc \in {"reading", "writing"}
        /\ Forgetting(p).pc = "writing" => Forgetting(p).backend # "file"
    BY <1>0, Goes DEF Forgetting
  <2> QED
    BY <1>0, <2>1, <2>2, DiskKept DEF Replacing
<1>6. CASE KeyringWrite(p)
  <2>1. keyring' \in [up: BOOLEAN, probe: BOOLEAN, entry: StoredTokens]
    BY <1>0, <1>6, RowTyped DEF KeyringWrite, StoredTokens
  <2> QED
    BY <1>0, <1>6, <2>1, IdleTyped, DiskKept DEF KeyringWrite
<1>7. CASE FileRead(p)
  <2>1. UNCHANGED <<keyring, disk, sessions, commands, overlap>>
    BY <1>7 DEF FileRead
  <2>2. CASE Step(p, Idle)
    BY <1>0, <2>1, <2>2, IdleTyped, DiskKept
  <2>3. CASE ~Step(p, Idle)
    <3> PICK body : body = WithOwn(p, FileBody)
      OBVIOUS
    <3>1. FileBody \in StoredTokens /\ Step(p, [To(p, "writing") EXCEPT !.read = body])
      BY <1>7, <2>3, RowTyped DEF FileRead
    <3>2. /\ body \in StoredTokens
          /\ \A s \in Services \ {shell[p].service} : body[s] = FileBody[s]
      BY <3>1, RowTyped DEF WithOwn, StoredTokens
    <3> PICK row : row = [To(p, "writing") EXCEPT !.read = body]
      OBVIOUS
    <3>3. /\ row \in Processes /\ row.pc = "writing" /\ row.id = shell[p].id
          /\ row.service = shell[p].service /\ row.read = body
      BY <1>0, <3>2, Goes DEF Processes
    <3> QED
      BY <1>0, <2>1, <3>1, <3>2, <3>3, DiskKept DEF Replacing
  <2> QED
    BY <2>2, <2>3
<1> QED
  BY <1>1, <1>2, <1>3, <1>4, <1>5, <1>6, <1>7

LEMMA Opening ==
  ASSUME CredInv, NEW p \in Shells, FileOpen(p)
  PROVE  /\ CredInv'
         /\ ~overlap => FileBody' = FileBody
<1> PICK inode : inode = IF disk.tmp # 0 THEN disk.tmp ELSE shell[p].id
  OBVIOUS
<1> PICK row : row = [To(p, "filling") EXCEPT !.inode = inode]
  OBVIOUS
<1>0. /\ Active(p) /\ shell[p].pc = "writing" /\ shell[p].backend = "file"
      /\ UNCHANGED <<keyring, sessions, commands, overlap>>
      /\ disk' = [disk EXCEPT !.tmp = inode, !.body[inode] = NoTokens]
      /\ Step(p, [To(p, "filling") EXCEPT !.inode = disk'.tmp])
  BY DEF FileOpen, OpenedBeside, At, Active
<1>1. shell[p] \in Processes /\ disk \in Disks
  BY DEF CredInv, CredTypeOK
<1>2. inode \in Inodes \cup {0}
  BY <1>1 DEF Disks, Processes, Inodes, Sessions
<1>3. /\ disk' \in Disks /\ disk'.tmp = inode /\ disk'.file = disk.file
      /\ \A i \in Inodes \ {inode} : disk'.body[i] = disk.body[i]
  BY <1>0, <1>1, <1>2, NoTokensTyped DEF Disks
<1>4. /\ row \in Processes /\ row.pc = "filling" /\ row.inode = inode
      /\ row.service = shell[p].service /\ row.id = shell[p].id
      /\ row.read = shell[p].read
  BY <1>1, <1>2, Goes DEF Processes
<1>5. Step(p, row)
  BY <1>0, <1>3
<1>6. ASSUME ~overlap
      PROVE  DiskSound' /\ ProcessHolds(p)' /\ FileBody' = FileBody
  <2>1. DiskSound /\ ProcessHolds(p)
    BY <1>6 DEF CredInv
  <2>2. inode # 0 /\ inode <= commands /\ (disk.file # 0 => disk.file # inode)
    BY <1>0, <2>1 DEF DiskSound, ProcessHolds, Replacing
  <2>3. FileBody' = FileBody
    BY <1>1, <1>3, <2>2 DEF FileBody, Disks
  <2>4. DiskSound'
    BY <1>0, <1>3, <2>1, <2>2, <2>3 DEF DiskSound
  <2>5. shell'[p] = row
    BY <1>5 DEF CredInv, CredTypeOK, Step
  <2>6. ProcessHolds(p)'
    BY <1>0, <1>3, <1>4, <2>1, <2>2, <2>3, <2>5 DEF ProcessHolds, Replacing, Active
  <2> QED
    BY <2>3, <2>4, <2>6
<1>7. CredInv'
  BY <1>0, <1>3, <1>4, <1>5, <1>6, ProcessMoves DEF CredInv, CredTypeOK
<1> QED
  BY <1>6, <1>7

LEMMA Filling ==
  ASSUME CredInv, NEW p \in Shells, FileFill(p)
  PROVE  /\ CredInv'
         /\ ~overlap => FileBody' = FileBody
<1> PICK inode : inode = shell[p].inode
  OBVIOUS
<1>1. shell[p] \in Processes /\ disk \in Disks /\ shell[p].read \in StoredTokens
  BY DEF CredInv, CredTypeOK, Processes
<1> PICK pc \in {"filling", "renaming"}, body \in StoredTokens \cup {Torn} :
      /\ disk' = [disk EXCEPT !.body[inode] = body]
      /\ Step(p, To(p, pc))
      /\ pc = "renaming" => body = shell[p].read
  BY <1>1 DEF FileFill, Written
<1>0. /\ Active(p) /\ shell[p].pc = "filling"
      /\ UNCHANGED <<keyring, sessions, commands, overlap>>
  BY DEF FileFill, At, Active
<1>2. inode \in Inodes \cup {0}
  BY <1>1 DEF Processes
<1>3. /\ disk' \in Disks /\ disk'.tmp = disk.tmp /\ disk'.file = disk.file
      /\ \A i \in Inodes \ {inode} : disk'.body[i] = disk.body[i]
      /\ inode # 0 => disk'.body[inode] = body
  BY <1>1, <1>2 DEF Disks
<1>4. /\ To(p, pc) \in Processes /\ To(p, pc).pc = pc
      /\ To(p, pc).service = shell[p].service /\ To(p, pc).id = shell[p].id
      /\ To(p, pc).read = shell[p].read /\ To(p, pc).inode = inode
  BY ONLY p \in Shells, <1>1, Goes, inode = shell[p].inode, pc \in {"filling", "renaming"}
<1>5. ASSUME ~overlap
      PROVE  DiskSound' /\ ProcessHolds(p)' /\ FileBody' = FileBody
  <2>1. DiskSound /\ ProcessHolds(p)
    BY <1>5 DEF CredInv
  <2>2. inode = disk.tmp /\ disk.tmp # 0
    BY <1>0, <2>1 DEF ProcessHolds
  <2>3. FileBody' = FileBody
    BY <1>1, <1>3, <2>1, <2>2 DEF FileBody, Disks, DiskSound
  <2>4. DiskSound'
    BY <1>0, <1>3, <2>1, <2>3 DEF DiskSound
  <2>5. shell'[p] = To(p, pc)
    BY DEF CredInv, CredTypeOK, Step
  <2>6. ProcessHolds(p)'
    BY <1>0, <1>3, <1>4, <2>1, <2>2, <2>3, <2>5 DEF ProcessHolds, Replacing, Active
  <2> QED
    BY <2>3, <2>4, <2>6
<1>6. CredInv'
  BY <1>0, <1>3, <1>4, <1>5, ProcessMoves DEF CredInv, CredTypeOK
<1> QED
  BY <1>5, <1>6

\* The one step that changes the file: for the service of the command alone.
LEMMA Renaming ==
  ASSUME CredInv, NEW p \in Shells, FileRename(p)
  PROVE  /\ CredInv' /\ shell[p].pc = "renaming"
         /\ ~overlap => /\ FileBody \in StoredTokens /\ FileBody' \in StoredTokens
                        /\ \A s \in Services \ {shell[p].service} :
                             FileBody'[s] = FileBody[s]
<1>0. /\ Active(p) /\ shell[p].pc = "renaming"
      /\ UNCHANGED <<keyring, sessions, commands, overlap>>
      /\ disk' = IF disk.tmp = 0 THEN disk ELSE [disk EXCEPT !.file = disk.tmp, !.tmp = 0]
      /\ Step(p, Idle)
  BY DEF FileRename, At, Active
<1>1. shell[p] \in Processes /\ disk \in Disks
  BY DEF CredInv, CredTypeOK
<1>2. /\ disk' \in Disks
      /\ disk.tmp # 0 => /\ disk'.file = disk.tmp /\ disk'.tmp = 0
                         /\ disk'.body = disk.body
  BY <1>0, <1>1 DEF Disks
<1>3. shell'[p] = Idle
  BY <1>0, IdleTyped DEF CredInv, CredTypeOK, Step
<1>4. ASSUME ~overlap
      PROVE  /\ DiskSound' /\ ProcessHolds(p)'
             /\ FileBody \in StoredTokens /\ FileBody' = shell[p].read
             /\ \A s \in Services \ {shell[p].service} : shell[p].read[s] = FileBody[s]
  <2>1. DiskSound /\ ProcessHolds(p)
    BY <1>4 DEF CredInv
  <2>2. /\ disk.tmp # 0 /\ disk.body[disk.tmp] = shell[p].read
        /\ \A s \in Services \ {shell[p].service} : shell[p].read[s] = FileBody[s]
    BY <1>0, <2>1 DEF ProcessHolds, Replacing
  <2>3. FileBody' = shell[p].read /\ shell[p].read \in StoredTokens
    BY <1>1, <1>2, <2>2 DEF FileBody, Processes
  <2>4. 0 <= commands
    BY NumbersOfCommands DEF CredInv, CredTypeOK
  <2>5. DiskSound'
    BY <1>0, <1>2, <2>1, <2>2, <2>3, <2>4 DEF DiskSound
  <2>6. ProcessHolds(p)'
    BY <1>3, IdleTyped DEF ProcessHolds, Active
  <2> QED
    BY <2>1, <2>2, <2>3, <2>5, <2>6 DEF DiskSound
<1>5. CredInv'
  BY <1>0, <1>2, <1>4, IdleTyped, ProcessMoves DEF CredInv, CredTypeOK
<1>6. shell[p].read \in StoredTokens
  BY <1>1 DEF Processes
<1> QED
  BY <1>0, <1>4, <1>5, <1>6

-----------------------------------------------------------------------------
(* Theorems *)

LEMMA CredStep ==
  ASSUME CredInv, CredNext
  PROVE  /\ CredInv'
         /\ \/ overlap \/ FileBody' = FileBody
            \/ \E p \in Shells :
                 /\ shell[p].pc = "renaming"
                 /\ FileBody \in StoredTokens /\ FileBody' \in StoredTokens
                 /\ \A s \in Services \ {shell[p].service} : FileBody'[s] = FileBody[s]
<1> PICK p \in Shells :
      \/ \E command \in {"login", "logout"}, s \in Services : Start(p, command, s)
      \/ Die(p) \/ LoginPolled(p) \/ OpenStore(p)
      \/ LoadToken(p) \/ RevokeFirst(p)
      \/ KeyringWrite(p) \/ FileRead(p) \/ FileOpen(p) \/ FileFill(p) \/ FileRename(p)
  BY DEF CredNext
<1>1. CASE \E command \in {"login", "logout"}, s \in Services : Start(p, command, s)
  <2>1. CredInv'
    BY <1>1, Starting
  <2>2. FileBody' = FileBody
    BY <1>1 DEF Start, FileBody
  <2> QED
    BY <2>1, <2>2
<1>2. CASE \/ Die(p) \/ LoginPolled(p) \/ OpenStore(p) \/ LoadToken(p)
           \/ RevokeFirst(p) \/ KeyringWrite(p) \/ FileRead(p)
  <2>1. Active(p) /\ FileBody' = FileBody
    BY <1>2 DEF Active, At, FileBody, Die, LoginPolled, OpenStore, Probe, LoadToken,
                RevokeFirst, KeyringWrite, FileRead
  <2>2. CASE shell[p].pc \in Replacing
    <3>1. Die(p)
      BY <1>2, <2>2 DEF Replacing, At, LoginPolled, OpenStore, Probe, LoadToken,
                        RevokeFirst, KeyringWrite, FileRead
    <3>2. /\ keyring \in [up: BOOLEAN, probe: BOOLEAN, entry: StoredTokens]
          /\ sessions \in [Sessions -> {"none", "live", "revoked"}]
      BY DEF CredInv, CredTypeOK
    <3> QED
      BY <2>1, <3>1, <3>2, IdleTyped, DiskKept DEF Die
  <2> QED
    BY <1>2, <2>1, <2>2, Unreplaced
<1>3. CASE FileOpen(p) \/ FileFill(p)
  BY <1>3, Opening, Filling
<1>4. CASE FileRename(p)
  BY <1>4, Renaming
<1> QED
  BY <1>1, <1>2, <1>3, <1>4

\* What the processes hold and what the disk holds agree, as long as no two
\* processes have overlapped (file.go, keyring.go).
THEOREM Invariance == CredSpec => []CredInv
<1>1. CredInv /\ UNCHANGED credVars => CredInv'
  BY DEF CredInv, CredTypeOK, credVars, Active, DiskSound, FileBody, ProcessHolds
<1> QED
  BY CredInitially, CredStep, <1>1, PTL DEF CredSpec

\* The stored session of a service changes only by the rename of a command for
\* that service, whichever process dies where (fileStore.Save, Delete, writeAll).
THEOREM OthersUntouchedHolds == CredSpec => OthersUntouched
<1> DEFINE Untouched ==
      \A s \in Services :
        overlap \/ Filed(s)' = Filed(s)
        \/ \E p \in Shells : shell[p].pc = "renaming" /\ shell[p].service = s
<1>1. ASSUME CredInv, CredNext, NEW s \in Services, ~overlap, Filed(s)' # Filed(s)
      PROVE  \E p \in Shells : shell[p].pc = "renaming" /\ shell[p].service = s
  <2>1. FileBody' # FileBody
    BY <1>1 DEF Filed
  <2> PICK p \in Shells :
        /\ shell[p].pc = "renaming"
        /\ FileBody \in StoredTokens /\ FileBody' \in StoredTokens
        /\ \A t \in Services \ {shell[p].service} : FileBody'[t] = FileBody[t]
    BY <1>1, <2>1, CredStep
  <2>2. Filed(s) = FileBody[s] /\ Filed(s)' = FileBody'[s]
    BY TornUnlike DEF Filed
  <2> QED
    BY <1>1, <2>2
<1>2. CredInv /\ [CredNext]_credVars => [Untouched]_credVars
  BY <1>1
<1> QED
  BY Invariance, <1>2, PTL DEF CredSpec, OthersUntouched

-----------------------------------------------------------------------------
(* What the terminal has said *)

\* A reply comes from a terminal that answers, through tmux where it is one that
\* forwards; and it tells the truth about its graphics.
Heard(reply) ==
  /\ host.answers /\ (tmux => host.passthrough)
  /\ reply = "graphicsOK" => host.kitty

\* What is under way to the process, or was read by it, has been said on the
\* side of tmux it runs on; what is on disk was said on the side it names.
ProbeInv ==
  /\ ProbeTypeOK
  /\ \A i \in 1..Len(owed) : Heard(owed[i])
  /\ \A reply \in input \cap Replies : Heard(reply)
  /\ proc.pc \in {"probing", "draining"} =>
       \A reply \in proc.seen \cap Replies : Heard(reply)
  /\ cache.protocol \in Graphics =>
       /\ host.answers /\ (cache.tmux => host.passthrough)
       /\ cache.protocol = "kitty" => host.kitty
       /\ cache.protocol = "iterm" => host.itermLike
  /\ VerdictKept

ProbeRows ==
  [pc: {"off", "probing", "draining", "open"}, forced: BOOLEAN,
   seen: SUBSET (Replies \cup {"key"}), readers: 0..2,
   caps: [protocol: Protocols, inTmux: BOOLEAN, passthroughOK: BOOLEAN],
   drawn: {"none", "text", "bare", "wrapped"}]

LEMMA OffTyped == Off \in ProbeRows /\ Off.pc = "off"
BY DEF Off, ProbeRows, NoCaps, Protocols

LEMMA ReadersBounded == 1 \in 0..2 /\ 2 \in 0..2
OBVIOUS

LEMMA ProbeInitially == ProbeInit => ProbeInv
<1> SUFFICES ASSUME ProbeInit PROVE ProbeInv
  OBVIOUS
<1>1. proc \in ProbeRows /\ proc.pc = "off"
  BY OffTyped DEF ProbeInit
<1>2. cache \in [protocol: Graphics \cup {"none"}, tmux: BOOLEAN]
      /\ cache.protocol \notin Graphics
  BY DEF ProbeInit, NoCache, Graphics
<1>3. owed \in Seq(Replies) /\ Len(owed) = 0 /\ input = {} /\ spilled = {}
  BY DEF ProbeInit
<1>4. /\ runs \in 0..MaxRuns /\ typed \in 0..MaxTyped
      /\ host \in Hosts /\ tmux \in BOOLEAN /\ killed \in BOOLEAN
  <2>1. runs \in 0..MaxRuns /\ typed \in 0..MaxTyped
    BY ProbeAssumption DEF ProbeInit, ProbeAssumption
  <2>2. host \in Hosts /\ tmux \in BOOLEAN /\ killed \in BOOLEAN
    BY DEF ProbeInit
  <2> QED
    BY <2>1, <2>2
<1>5. ProbeTypeOK
  BY <1>1, <1>2, <1>3, <1>4 DEF ProbeTypeOK, ProbeRows
<1> QED
  BY <1>1, <1>2, <1>3, <1>5 DEF ProbeInv, VerdictKept

\* The process becomes row, on the same side of tmux; nothing new is said.
LEMMA ProcMoves ==
  ASSUME ProbeInv, UNCHANGED <<host, tmux, owed, cache>>, proc' \in ProbeRows,
         input' \subseteq input, runs' \in 0..MaxRuns, UNCHANGED <<typed, spilled>>,
         killed' \in BOOLEAN,
         proc'.pc \in {"probing", "draining"} =>
           \A reply \in proc'.seen \cap Replies : Heard(reply),
         VerdictKept'
  PROVE  ProbeInv'
<1>1. ProbeTypeOK'
  BY DEF ProbeInv, ProbeTypeOK, ProbeRows
<1>2. \A reply : Heard(reply)' <=> Heard(reply)
  BY DEF Heard
<1> QED
  BY <1>1, <1>2 DEF ProbeInv

\* The process is left alone, and so is what is on disk.
LEMMA ProcRests ==
  ASSUME ProbeInv, UNCHANGED <<host, cache, proc, runs, killed>>,
         tmux' \in BOOLEAN, tmux' = tmux \/ proc.pc = "off",
         owed' \in Seq(Replies), (\A i \in 1..Len(owed) : Heard(owed[i]))',
         input' \subseteq Replies \cup {"key"},
         (\A reply \in input \cap Replies : Heard(reply))',
         typed' \in 0..MaxTyped, spilled' \subseteq Replies
  PROVE  ProbeInv'
<1>1. ProbeTypeOK'
  BY DEF ProbeInv, ProbeTypeOK
<1>2. proc.pc \in {"probing", "draining"} =>
        \A reply \in proc.seen \cap Replies : Heard(reply)'
  BY DEF ProbeInv, Heard
<1>3. VerdictKept'
  BY DEF ProbeInv, VerdictKept
<1>4. (cache.protocol \in Graphics =>
         /\ host.answers /\ (cache.tmux => host.passthrough)
         /\ cache.protocol = "kitty" => host.kitty
         /\ cache.protocol = "iterm" => host.itermLike)'
  BY DEF ProbeInv
<1> QED
  BY <1>1, <1>2, <1>3, <1>4 DEF ProbeInv

\* What a terminal is asked, it answers truly.
LEMMA AnswersTrue ==
  ASSUME ProbeInv
  PROVE  Answers \in Seq(Replies) /\ \A i \in 1..Len(Answers) : Heard(Answers[i])
<1>1. CASE ~host.answers \/ (tmux /\ ~host.passthrough)
  <2>1. Answers = <<>>
    BY <1>1 DEF Answers
  <2> QED
    BY <2>1
<1>2. CASE ~(~host.answers \/ (tmux /\ ~host.passthrough)) /\ host.kitty
  <2>1. Answers = <<"graphicsOK", "fence">>
    BY <1>2 DEF Answers
  <2> QED
    BY <1>2, <2>1 DEF Heard, Replies
<1>3. CASE ~(~host.answers \/ (tmux /\ ~host.passthrough)) /\ ~host.kitty
  <2>1. Answers = <<"fence">>
    BY <1>3 DEF Answers
  <2> QED
    BY <1>3, <2>1 DEF Heard, Replies
<1> QED
  BY <1>1, <1>2, <1>3

\* decideProtocol says what was heard.
LEMMA DecidedTrue ==
  ASSUME ProbeInv, NEW seen \in SUBSET (Replies \cup {"key"}),
         \A reply \in seen \cap Replies : Heard(reply)
  PROVE  /\ Decide(seen) \in [protocol: Protocols, inTmux: BOOLEAN, passthroughOK: BOOLEAN]
         /\ Decide(seen).protocol = "kitty" => host.kitty
         /\ Decide(seen).protocol = "iterm" => host.itermLike
         /\ Decide(seen).protocol \in Graphics =>
              "fence" \in seen /\ host.answers /\ (tmux => host.passthrough)
<1> DEFINE kitty == "graphicsOK" \in seen \/ (host.ghostty /\ ~tmux)
<1>1. host \in Hosts /\ (host.ghostty => host.kitty)
  BY ProbeAssumption DEF ProbeInv, ProbeTypeOK, ProbeAssumption
<1>2. kitty => host.kitty
  BY <1>1 DEF Heard, Replies
<1>3. "fence" \in seen => host.answers /\ (tmux => host.passthrough)
  BY DEF Heard, Replies
<1>4. Decide(seen).protocol =
        IF "fence" \in seen /\ kitty THEN "kitty"
        ELSE IF "fence" \in seen /\ host.itermLike THEN "iterm" ELSE "external"
  BY DEF Decide
<1> DEFINE fenced == tmux /\ "fence" \in seen  named == Decide(seen).protocol
<1>5. fenced \in BOOLEAN /\ tmux \in BOOLEAN
  BY DEF ProbeInv, ProbeTypeOK
<1>6. Decide(seen) = [protocol |-> named, inTmux |-> tmux, passthroughOK |-> fenced]
  BY DEF Decide
<1>7. named \in Protocols
  BY <1>4 DEF Protocols, Graphics
<1>8. Decide(seen) \in [protocol: Protocols, inTmux: BOOLEAN, passthroughOK: BOOLEAN]
  <2> HIDE DEF fenced, named
  <2> QED
    BY <1>5, <1>6, <1>7
<1> QED
  BY <1>2, <1>3, <1>4, <1>8 DEF Graphics

\* A run begins with a verdict that is forced, empty or on disk.
LEMMA Settles ==
  ASSUME NEW caps \in [protocol: Protocols, inTmux: BOOLEAN, passthroughOK: BOOLEAN],
         NEW forced \in BOOLEAN, Settled(caps, forced)
  PROVE  /\ proc' \in ProbeRows /\ proc'.pc = "open"
         /\ proc'.forced = forced /\ proc'.caps = caps
BY OffTyped DEF Settled, ProbeRows, Off

LEMMA ProbeStep == ASSUME ProbeInv, ProbeNext PROVE ProbeInv'
<1>0. /\ proc \in ProbeRows /\ tmux \in BOOLEAN /\ killed \in BOOLEAN
      /\ cache \in [protocol: Graphics \cup {"none"}, tmux: BOOLEAN]
      /\ owed \in Seq(Replies) /\ input \subseteq Replies \cup {"key"}
      /\ runs \in 0..MaxRuns /\ typed \in 0..MaxTyped /\ spilled \subseteq Replies
  BY DEF ProbeInv, ProbeTypeOK, ProbeRows
<1>1. StartRun => runs' \in 0..MaxRuns
  BY <1>0, ProbeAssumption DEF StartRun, ProbeAssumption
<1>2. CASE DetectForced
  <2> PICK p \in Protocols :
        Settled([protocol |-> p, inTmux |-> tmux, passthroughOK |-> FALSE], TRUE)
    BY <1>2 DEF DetectForced
  <2>1. /\ proc' \in ProbeRows /\ proc'.pc = "open" /\ proc'.forced = TRUE
    BY <1>0, Settles
  <2>2. VerdictKept'
    BY <2>1 DEF VerdictKept
  <2> QED
    BY <1>0, <1>1, <1>2, <2>1, <2>2, ProcMoves DEF DetectForced
<1>3. CASE DetectNothing
  <2> DEFINE caps == [NoCaps EXCEPT !.inTmux = tmux]
  <2>1. caps \in [protocol: Protocols, inTmux: BOOLEAN, passthroughOK: BOOLEAN]
        /\ caps.protocol = "external"
    BY <1>0 DEF NoCaps, Protocols
  <2>2. Settled(caps, FALSE)
    BY <1>3 DEF DetectNothing
  <2>3. proc' \in ProbeRows /\ proc'.pc = "open" /\ proc'.caps = caps
    BY <2>1, <2>2, Settles
  <2>4. VerdictKept'
    BY <2>1, <2>3 DEF VerdictKept, Graphics
  <2> QED
    BY <1>0, <1>1, <1>3, <2>3, <2>4, ProcMoves DEF DetectNothing
<1>4. CASE DetectCached
  <2>1. cache.protocol \in Graphics /\ cache.tmux = tmux /\ Settled(Cached, FALSE)
    BY <1>4 DEF DetectCached, CacheHit
  <2>2. Cached \in [protocol: Protocols, inTmux: BOOLEAN, passthroughOK: BOOLEAN]
        /\ Cached.protocol = cache.protocol
    BY <1>0, <2>1 DEF Cached, Protocols
  <2>3. proc' \in ProbeRows /\ proc'.pc = "open" /\ proc'.caps = Cached
    BY <2>1, <2>2, Settles
  <2>4. VerdictKept'
    BY <1>4, <2>1, <2>2, <2>3 DEF VerdictKept, ProbeInv, DetectCached
  <2> QED
    BY <1>0, <1>1, <1>4, <2>3, <2>4, ProcMoves DEF DetectCached
<1>5. CASE DetectProbes
  <2>1. proc' \in ProbeRows /\ proc'.pc = "probing" /\ proc'.seen = {}
    <3>1. proc' = [Off EXCEPT !.pc = "probing", !.readers = 1]
      BY <1>5 DEF DetectProbes
    <3> QED
      BY <3>1, OffTyped, ReadersBounded DEF ProbeRows, Off
  <2>2. /\ owed' = owed \o Answers /\ runs' \in 0..MaxRuns
        /\ UNCHANGED <<host, tmux, input, cache, typed, spilled, killed>>
    BY <1>1, <1>5 DEF DetectProbes
  <2>3. owed' \in Seq(Replies) /\ \A i \in 1..Len(owed') : Heard(owed'[i])
    BY <1>0, <2>2, AnswersTrue DEF ProbeInv
  <2>4. \A reply : Heard(reply)' <=> Heard(reply)
    BY <2>2 DEF Heard
  <2>5. ProbeTypeOK'
    BY <2>1, <2>2, <2>3 DEF ProbeInv, ProbeTypeOK, ProbeRows
  <2> QED
    BY <2>1, <2>2, <2>3, <2>4, <2>5 DEF ProbeInv, VerdictKept
<1>6. CASE ProbeReads
  <2> DEFINE seen == proc.seen \cup input
  <2>1. seen \in SUBSET (Replies \cup {"key"}) /\ proc.pc = "probing"
    BY <1>0, <1>6 DEF ProbeRows, ProbeReads
  <2>2. \/ proc' = [proc EXCEPT !.pc = "draining", !.seen = seen, !.readers = 2]
        \/ proc' = [proc EXCEPT !.seen = seen]
    BY <1>6 DEF ProbeReads
  <2>3. proc' \in ProbeRows /\ proc'.seen = seen /\ proc'.pc # "open"
    BY <1>0, <2>1, <2>2, ReadersBounded DEF ProbeRows
  <2>4. \A reply \in seen \cap Replies : Heard(reply)
    BY <2>1 DEF ProbeInv
  <2> QED
    BY <1>0, <1>6, <2>3, <2>4, ProcMoves DEF ProbeReads, VerdictKept
<1>7. CASE BudgetSpent
  <2>1. /\ proc' \in ProbeRows /\ proc'.seen = proc.seen /\ proc'.pc = "draining"
        /\ proc.pc = "probing"
    BY <1>0, <1>7, ReadersBounded DEF ProbeRows, BudgetSpent
  <2> QED
    BY <1>0, <1>7, <2>1, ProcMoves DEF BudgetSpent, VerdictKept, ProbeInv
<1>8. CASE DrainReads
  BY <1>0, <1>8, ProcMoves DEF DrainReads, VerdictKept, ProbeInv
<1>9. CASE DrainEnds
  <2> DEFINE caps == Decide(proc.seen)
  <2>1. proc.seen \in SUBSET (Replies \cup {"key"})
        /\ \A reply \in proc.seen \cap Replies : Heard(reply)
    BY <1>0, <1>9 DEF DrainEnds, ProbeInv, ProbeRows
  <2>2. /\ caps \in [protocol: Protocols, inTmux: BOOLEAN, passthroughOK: BOOLEAN]
        /\ caps.protocol = "kitty" => host.kitty
        /\ caps.protocol = "iterm" => host.itermLike
        /\ caps.protocol \in Graphics =>
             "fence" \in proc.seen /\ host.answers /\ (tmux => host.passthrough)
    BY <2>1, DecidedTrue
  <2>3. proc' = [proc EXCEPT !.pc = "open", !.caps = caps]
    BY <1>9 DEF DrainEnds
  <2> HIDE DEF caps
  <2>4. proc' \in ProbeRows /\ proc'.pc = "open" /\ proc'.caps = caps
    BY <1>0, <2>2, <2>3 DEF ProbeRows
  <2>5. VerdictKept'
    BY <1>9, <2>2, <2>4 DEF VerdictKept, DrainEnds
  <2>6. Store(caps, proc.seen)
    BY <1>9 DEF DrainEnds, caps
  <2>7. /\ cache' \in [protocol: Graphics \cup {"none"}, tmux: BOOLEAN]
        /\ cache'.protocol \in Graphics =>
             /\ host.answers /\ (cache'.tmux => host.passthrough)
             /\ cache'.protocol = "kitty" => host.kitty
             /\ cache'.protocol = "iterm" => host.itermLike
    <3>1. CASE cache' = cache
      BY <1>0, <3>1 DEF ProbeInv
    <3>2. CASE cache' = NoCache
      BY <3>2 DEF NoCache, Graphics
    <3>3. CASE caps.protocol \in Graphics
               /\ cache' = [protocol |-> caps.protocol, tmux |-> tmux]
      BY <1>0, <2>2, <3>3
    <3> QED
      BY <2>6, <3>1, <3>2, <3>3 DEF Store
  <2>8. /\ UNCHANGED <<host, tmux, owed, input, runs, typed, spilled, killed>>
        /\ \A reply : Heard(reply)' <=> Heard(reply)
    BY <1>9 DEF DrainEnds, Heard
  <2>9. ProbeTypeOK'
    BY <2>4, <2>7, <2>8 DEF ProbeInv, ProbeTypeOK, ProbeRows
  <2> QED
    BY <2>4, <2>5, <2>7, <2>8, <2>9 DEF ProbeInv
<1>10. CASE Draw
  <2> PICK drawn \in {"text", "bare", "wrapped"} : proc' = [proc EXCEPT !.drawn = drawn]
    BY <1>10 DEF Draw
  <2>1. /\ proc' \in ProbeRows /\ proc'.pc = "open" /\ proc'.forced = proc.forced
        /\ proc'.caps = proc.caps /\ proc.pc = "open"
    BY <1>0, <1>10 DEF ProbeRows, Draw
  <2>2. VerdictKept'
    BY <1>10, <2>1 DEF ProbeInv, VerdictKept, Draw
  <2> QED
    BY <1>0, <1>10, <2>1, <2>2, ProcMoves DEF Draw
<1>11. CASE InputTaken
  BY <1>0, <1>11, ProcMoves DEF InputTaken, VerdictKept, ProbeInv
<1>12. CASE Exit \/ Killed
  <2>1. proc' = Off /\ killed' \in BOOLEAN
    BY <1>0, <1>12 DEF Exit, Killed
  <2>2. VerdictKept'
    BY <2>1, OffTyped DEF VerdictKept
  <2> QED
    BY <1>0, <1>12, <2>1, <2>2, OffTyped, ProcMoves DEF Exit, Killed
<1>13. CASE ReplyArrives
  <2>1. owed # <<>> /\ Head(owed) = owed[1] /\ 1 \in 1..Len(owed)
    BY <1>0, <1>13 DEF ReplyArrives
  <2>2. Tail(owed) \in Seq(Replies) /\ \A i \in 1..Len(Tail(owed)) : Heard(Tail(owed)[i])
    BY <1>0, <2>1 DEF ProbeInv
  <2>3. Head(owed) \in Replies /\ Heard(Head(owed))
    BY <1>0, <2>1 DEF ProbeInv
  <2>4. \A reply : Heard(reply)' <=> Heard(reply)
    BY <1>13 DEF ReplyArrives, Heard
  <2>5. (\A reply \in input \cap Replies : Heard(reply))'
    BY <1>13, <2>3, <2>4 DEF ReplyArrives, ProbeInv
  <2>6. (\A i \in 1..Len(owed) : Heard(owed[i]))' /\ owed' \in Seq(Replies)
    BY <1>13, <2>2, <2>4 DEF ReplyArrives
  <2> QED
    BY <1>0, <1>13, <2>3, <2>5, <2>6, ProcRests DEF ReplyArrives
<1>14. CASE KeyTyped
  <2>1. typed' \in 0..MaxTyped
    BY <1>0, <1>14, ProbeAssumption DEF KeyTyped, ProbeAssumption
  <2>2. "key" \notin Replies /\ \A reply : Heard(reply)' <=> Heard(reply)
    BY <1>14 DEF KeyTyped, Heard, Replies
  <2>3. /\ (\A reply \in input \cap Replies : Heard(reply))'
        /\ (\A i \in 1..Len(owed) : Heard(owed[i]))'
    BY <1>14, <2>2 DEF KeyTyped, ProbeInv
  <2> QED
    BY <1>0, <1>14, <2>1, <2>3, ProcRests DEF KeyTyped
<1>15. CASE ShellReads
  <2>1. \A reply : Heard(reply)' <=> Heard(reply)
    BY <1>15 DEF ShellReads, Heard
  <2>2. /\ (\A reply \in input \cap Replies : Heard(reply))'
        /\ (\A i \in 1..Len(owed) : Heard(owed[i]))'
    BY <1>15, <2>1 DEF ShellReads, ProbeInv
  <2> QED
    BY <1>0, <1>15, <2>2, ProcRests DEF ShellReads
<1>16. CASE SwitchTty
  <2>1. tmux' \in BOOLEAN /\ proc.pc = "off" /\ owed' = <<>> /\ input' = {}
    BY <1>16 DEF SwitchTty
  <2> QED
    BY <1>0, <1>16, <2>1, ProcRests DEF SwitchTty
<1>17. CASE CacheExpires
  <2>1. cache' \in [protocol: Graphics \cup {"none"}, tmux: BOOLEAN]
        /\ cache'.protocol \notin Graphics
    BY <1>17 DEF CacheExpires, NoCache, Graphics
  <2>2. \A reply : Heard(reply)' <=> Heard(reply)
    BY <1>17 DEF CacheExpires, Heard
  <2> QED
    BY <1>17, <2>1, <2>2 DEF CacheExpires, ProbeInv, ProbeTypeOK, VerdictKept
<1> QED
  BY <1>2, <1>3, <1>4, <1>5, <1>6, <1>7, <1>8, <1>9, <1>10, <1>11, <1>12, <1>13,
     <1>14, <1>15, <1>16, <1>17 DEF ProbeNext

\* Every reply on its way, read or stored comes from this terminal (Detect).
THEOREM ProbeInvariance == ProbeSpec => []ProbeInv
<1>1. ProbeInv /\ UNCHANGED probeVars => ProbeInv'
  BY DEF ProbeInv, ProbeTypeOK, probeVars, VerdictKept, Heard
<1> QED
  BY ProbeInitially, ProbeStep, <1>1, PTL DEF ProbeSpec

\* The graphics protocol that detection settles on is one the terminal speaks and
\* tmux forwards, whichever run a reply or a stored verdict comes from (Detect).
THEOREM VerdictKeptHolds == ProbeSpec => []VerdictKept
<1>1. ProbeInv => VerdictKept
  BY DEF ProbeInv
<1> QED
  BY ProbeInvariance, <1>1, PTL

-----------------------------------------------------------------------------
(* The terminal viewer *)

\* The parts of the Model that a reply depends on.
Whole(m) == {"group", "item", "mode", "typed"} \subseteq DOMAIN m

\* Text is left over only from a reply that a viewers list has interrupted.
TuiInv ==
  /\ Whole(tui)
  /\ tui.typed # NoItem => tui.mode = "replying" \/ interrupted
  /\ ReplyMeetsItsItem

\* A part of the handlers leaves mode and text alone.
Same(m, n) == Whole(n) /\ n.mode = m.mode /\ n.typed = m.typed
\* ... and the item on screen too.
SameItem(m, n) == Same(m, n) /\ ItemAt(n) = ItemAt(m)

LEMMA TuiInitially == TuiInit => TuiInv
BY DEF TuiInit, Unopened, TuiInv, Whole, ReplyMeetsItsItem

LEMMA Loading == ASSUME NEW m, Whole(m) PROVE SameItem(m, LoadCurrent(m))
BY DEF Whole, LoadCurrent, SameItem, Same, ItemAt

LEMMA Clearing == ASSUME NEW m, Whole(m) PROVE SameItem(m, Cleared(m))
BY DEF Whole, Cleared, ClearImage, StopAnimation, SameItem, Same, ItemAt

LEMMA Viewing == ASSUME NEW m, Whole(m) PROVE SameItem(m, ViewedModel(m))
BY DEF Whole, ViewedModel, SameItem, Same, ItemAt

LEMMA Advancing == ASSUME NEW m, Whole(m) PROVE Same(m, Advance(m))
<1> DEFINE next == [m EXCEPT !.item = @ + 1]
           first == [m EXCEPT !.group = @ + 1, !.item = 1]
<1>1. Whole(next) /\ next.mode = m.mode /\ next.typed = m.typed
  BY DEF Whole
<1>2. Whole(first) /\ first.mode = m.mode /\ first.typed = m.typed
  BY DEF Whole
<1>3. Same(m, [m EXCEPT !.quitting = TRUE])
  BY DEF Whole, Same
<1>4. \/ Advance(m) = LoadCurrent(next) \/ Advance(m) = LoadCurrent(first)
      \/ Advance(m) = [m EXCEPT !.quitting = TRUE]
  BY DEF Advance
<1> HIDE DEF next, first
<1> QED
  BY <1>1, <1>2, <1>3, <1>4, Loading DEF SameItem, Same

\* The Model becomes m: the same reply about the same item, or no text, or text
\* about an item that has expired or of a reply that was interrupted.
LEMMA Handled ==
  ASSUME TuiInv, NEW m, Handle(m), Whole(m), lapsed \subseteq lapsed',
         interrupted => interrupted',
         \/ m.typed = NoItem
         \/ /\ m.typed = tui.typed
            /\ \/ m.mode = tui.mode /\ (ItemAt(m) = ItemAt(tui) \/ ItemAt(tui) \in lapsed)
               \/ interrupted' \/ tui.mode # "replying"
         \/ m.mode = "replying" /\ m.typed = ItemAt(m)
  PROVE  TuiInv'
<1>1. Whole(tui') /\ tui'.mode = m.mode /\ tui'.typed = m.typed /\ ItemAt(tui') = ItemAt(m)
  BY Viewing DEF Handle, SameItem, Same
<1>2. ItemAt(tui)' = ItemAt(tui')
  BY DEF ItemAt
<1> QED
  BY <1>1, <1>2 DEF TuiInv, ReplyMeetsItsItem

LEMMA TuiStep == ASSUME TuiInv, TuiNext PROVE TuiInv'
<1>0. Whole(tui)
  BY DEF TuiInv
<1>1. CASE OpenViewer
  <2> DEFINE m == [tui EXCEPT !.quitting = FALSE]
  <2>1. Whole(m) /\ m.mode = tui.mode /\ m.typed = tui.typed /\ ItemAt(m) = ItemAt(tui)
    BY <1>0 DEF Whole, ItemAt
  <2>2. Handle(LoadCurrent(m)) /\ UNCHANGED <<lapsed, interrupted>>
    BY <1>1 DEF OpenViewer
  <2> HIDE DEF m
  <2> QED
    BY <2>1, <2>2, Loading, Handled DEF SameItem, Same
<1>2. ASSUME NEW m, Move(m), Same(tui, m) PROVE TuiInv'
  BY <1>2, Handled DEF Move, Same
<1>3. CASE Quit
  <2> DEFINE m == [tui EXCEPT !.quitting = TRUE]
  <2>1. Whole(m) /\ m.mode = tui.mode /\ m.typed = tui.typed /\ ItemAt(m) = ItemAt(tui)
    BY <1>0 DEF Whole, ItemAt
  <2>2. Handle(Cleared(m)) /\ UNCHANGED <<lapsed, interrupted>>
    BY <1>3 DEF Quit
  <2> HIDE DEF m
  <2> QED
    BY <2>1, <2>2, Clearing, Handled DEF SameItem, Same
<1>4. CASE Resize
  <2>1. Handle(LoadCurrent(Cleared(tui))) /\ UNCHANGED <<lapsed, interrupted>>
    BY <1>4 DEF Resize
  <2>2. SameItem(tui, LoadCurrent(Cleared(tui)))
    BY <1>0, Clearing, Loading DEF SameItem, Same
  <2> QED
    BY <2>1, <2>2, Handled DEF SameItem, Same
<1>5. CASE ClockTick
  <2>1. UNCHANGED <<lapsed, interrupted>>
    BY <1>5 DEF ClockTick
  <2>2. ASSUME ItemAt(tui) \in lapsed, Leave([tui EXCEPT !.current = NoItem]) PROVE TuiInv'
    <3> DEFINE m == [tui EXCEPT !.current = NoItem]
    <3>1. Whole(m) /\ m.mode = tui.mode /\ m.typed = tui.typed
      BY <1>0 DEF Whole
    <3>2. Handle(Advance(Cleared(m)))
      BY <2>2 DEF Leave
    <3> HIDE DEF m
    <3>3. Same(tui, Advance(Cleared(m)))
      BY <3>1, Clearing, Advancing DEF SameItem, Same
    <3> QED
      BY <2>1, <2>2, <3>2, <3>3, Handled DEF Same
  <2>3. ASSUME ~Stands(tui), Leave(tui) PROVE TuiInv'
    <3>1. Handle(Advance(Cleared(tui))) /\ tui.mode # "replying"
      BY <2>3 DEF Leave, Stands
    <3>2. Same(tui, Advance(Cleared(tui)))
      BY <1>0, Clearing, Advancing DEF SameItem, Same
    <3> QED
      BY <2>1, <3>1, <3>2, Handled DEF Same
  <2>4. ASSUME Handle([tui EXCEPT !.clock = @ + 1]) PROVE TuiInv'
    <3> DEFINE m == [tui EXCEPT !.clock = @ + 1]
    <3>1. Whole(m) /\ m.mode = tui.mode /\ m.typed = tui.typed /\ ItemAt(m) = ItemAt(tui)
      BY <1>0 DEF Whole, ItemAt
    <3>2. Handle(m)
      BY <2>4
    <3> HIDE DEF m
    <3> QED
      BY <2>1, <3>1, <3>2, Handled
  <2> QED
    BY <1>5, <2>2, <2>3, <2>4 DEF ClockTick
<1>6. ASSUME NEW it \in Items, ItemExpires(it) PROVE TuiInv'
  BY <1>6 DEF ItemExpires, TuiInv, ReplyMeetsItsItem, ItemAt, Whole
<1>7. CASE PauseKey
  <2> DEFINE m == [tui EXCEPT !.paused = ~@]
  <2>1. Whole(m) /\ m.mode = tui.mode /\ m.typed = tui.typed /\ ItemAt(m) = ItemAt(tui)
    BY <1>0 DEF Whole, ItemAt
  <2>2. Handle(m) /\ UNCHANGED <<lapsed, interrupted>>
    BY <1>7 DEF PauseKey, Press
  <2> HIDE DEF m
  <2> QED
    BY <2>1, <2>2, Handled
<1>8. ASSUME NEW mode, Press([tui EXCEPT !.mode = mode]), tui.mode # "replying"
      PROVE  TuiInv'
  <2> DEFINE m == [tui EXCEPT !.mode = mode]
  <2>1. Whole(m) /\ m.typed = tui.typed
    BY <1>0 DEF Whole
  <2>2. Handle(m) /\ UNCHANGED <<lapsed, interrupted>>
    BY <1>8 DEF Press
  <2> HIDE DEF m
  <2> QED
    BY <1>8, <2>1, <2>2, Handled
<1>9. CASE TypeKey
  <2> DEFINE m == [tui EXCEPT !.typed = IF @ = NoItem THEN ItemAt(tui) ELSE @]
  <2>1. /\ Whole(m) /\ m.mode = tui.mode /\ ItemAt(m) = ItemAt(tui)
        /\ m.typed = IF tui.typed = NoItem THEN ItemAt(tui) ELSE tui.typed
    BY <1>0 DEF Whole, ItemAt
  <2>2. Handle(m) /\ UNCHANGED <<lapsed, interrupted>> /\ tui.mode = "replying"
    BY <1>9 DEF TypeKey, Press
  <2> HIDE DEF m
  <2> QED
    BY <2>1, <2>2, Handled
<1>10. CASE EndReply
  <2> DEFINE m == [tui EXCEPT !.mode = "viewing", !.typed = NoItem]
  <2>1. Whole(m) /\ m.typed = NoItem
    BY <1>0 DEF Whole
  <2>2. Handle(m) /\ UNCHANGED <<lapsed, interrupted>>
    BY <1>10 DEF EndReply, Press
  <2> HIDE DEF m
  <2> QED
    BY <2>1, <2>2, Handled
<1>11. CASE ViewersKey
  BY <1>11 DEF ViewersKey, TuiInv, ReplyMeetsItsItem, ItemAt, Whole
<1>12. ASSUME NEW c, NEW ok \in BOOLEAN, MediaArrives(c, ok) PROVE TuiInv'
  <2> DEFINE loaded == Loaded(tui, ok)
             m == IF c.item # ItemAt(tui) THEN loaded
                  ELSE [loaded EXCEPT !.current = IF ok THEN c.item ELSE NoItem]
  <2>1. Whole(m) /\ m.mode = tui.mode /\ m.typed = tui.typed /\ ItemAt(m) = ItemAt(tui)
    BY <1>0 DEF Whole, ItemAt, Loaded
  <2>2. Handle(m) /\ UNCHANGED <<lapsed, interrupted>>
    BY <1>12 DEF MediaArrives
  <2> HIDE DEF m
  <2> QED
    BY <2>1, <2>2, Handled
<1>13. ASSUME NEW c, NEW ok \in BOOLEAN, FramesArrive(c, ok) PROVE TuiInv'
  <2> DEFINE m == [tui EXCEPT !.frames = c.item, !.placed = NoItem]
  <2>1. Whole(m) /\ m.mode = tui.mode /\ m.typed = tui.typed /\ ItemAt(m) = ItemAt(tui)
    BY <1>0 DEF Whole, ItemAt
  <2>2. Handle(m) \/ UNCHANGED tui
    BY <1>13 DEF FramesArrive
  <2>3. UNCHANGED <<lapsed, interrupted>>
    BY <1>13 DEF FramesArrive
  <2>4. CASE UNCHANGED tui
    BY <2>3, <2>4 DEF TuiInv, ReplyMeetsItsItem, ItemAt, Whole
  <2> HIDE DEF m
  <2> QED
    BY <2>1, <2>2, <2>3, <2>4, Handled
<1>14. ASSUME NEW c, AnimationStarts(c) PROVE TuiInv'
  BY <1>14 DEF AnimationStarts, TuiInv, ReplyMeetsItsItem, ItemAt, Whole
<1>15. ASSUME NEW c, AnimationArrives(c) PROVE TuiInv'
  <2> DEFINE m == [tui EXCEPT !.animation = c.number, !.clock = 0]
  <2>1. Whole(m) /\ m.mode = tui.mode /\ m.typed = tui.typed /\ ItemAt(m) = ItemAt(tui)
    BY <1>0 DEF Whole, ItemAt
  <2>2. Handle(m) \/ UNCHANGED tui
    BY <1>15 DEF AnimationArrives
  <2>3. UNCHANGED <<lapsed, interrupted>>
    BY <1>15 DEF AnimationArrives
  <2>4. CASE UNCHANGED tui
    BY <2>3, <2>4 DEF TuiInv, ReplyMeetsItsItem, ItemAt, Whole
  <2> HIDE DEF m
  <2> QED
    BY <2>1, <2>2, <2>3, <2>4, Handled
<1>16. ASSUME NEW c, NEW ok \in BOOLEAN, ViewersArrive(c, ok) PROVE TuiInv'
  <2> DEFINE m == [tui EXCEPT !.mode = IF ok THEN "viewers" ELSE "viewing"]
  <2>1. Whole(m) /\ m.typed = tui.typed
    BY <1>0 DEF Whole
  <2>2. /\ Handle(m) /\ UNCHANGED lapsed
        /\ interrupted' = (interrupted \/ tui.mode = "replying")
    BY <1>16 DEF ViewersArrive
  <2> HIDE DEF m
  <2> QED
    BY <2>1, <2>2, Handled
<1>17. CASE TaskSteps
  BY <1>12, <1>13, <1>14, <1>15, <1>16, <1>17 DEF TaskSteps
<1>18. CASE Move(Advance(Cleared(tui))) \/ Move(Back(Cleared(tui)))
            \/ Move(NextAuthor(tui)) \/ Move(PreviousAuthor(tui))
  <2>1. ASSUME NEW m, Whole(m) PROVE Same(m, Back(m))
    <3> DEFINE before == [m EXCEPT !.item = @ - 1]
    <3>1. Whole(before) /\ before.mode = m.mode /\ before.typed = m.typed
      BY <2>1 DEF Whole
    <3>2. PICK last : Back(m) \in {LoadCurrent(before), m,
                        LoadCurrent([m EXCEPT !.group = @ - 1, !.item = last])}
      BY DEF Back
    <3> DEFINE author == [m EXCEPT !.group = @ - 1, !.item = last]
    <3>3. Whole(author) /\ author.mode = m.mode /\ author.typed = m.typed
      BY <2>1 DEF Whole
    <3>4. Back(m) \in {LoadCurrent(before), m, LoadCurrent(author)}
      BY <3>2
    <3> HIDE DEF before, author
    <3> QED
      BY <2>1, <3>1, <3>3, <3>4, Loading DEF SameItem, Same
  <2>2. ASSUME NEW m, Whole(m), NEW group
        PROVE  Same(m, LoadCurrent([Cleared(m) EXCEPT !.group = group, !.item = 1]))
    <3> DEFINE author == [Cleared(m) EXCEPT !.group = group, !.item = 1]
    <3>1. Whole(author) /\ author.mode = m.mode /\ author.typed = m.typed
      BY <2>2, Clearing DEF Whole, SameItem, Same
    <3> HIDE DEF author
    <3>2. Same(m, LoadCurrent(author))
      BY <3>1, Loading DEF SameItem, Same
    <3> QED
      BY <3>2 DEF author
  <2>3. Same(tui, Cleared(tui)) /\ Same(tui, tui)
    BY <1>0, Clearing DEF SameItem, Same
  <2>4. Same(tui, Advance(Cleared(tui))) /\ Same(tui, Back(Cleared(tui)))
    BY <2>1, <2>3, Advancing DEF Same
  <2>5. Same(tui, NextAuthor(tui)) /\ Same(tui, PreviousAuthor(tui))
    <3>1. /\ NextAuthor(tui) \in {tui, LoadCurrent([Cleared(tui) EXCEPT
                                        !.group = @ + 1, !.item = 1])}
          /\ PreviousAuthor(tui) \in {tui, LoadCurrent([Cleared(tui) EXCEPT
                                        !.group = @ - 1, !.item = 1])}
      BY DEF NextAuthor, PreviousAuthor
    <3> QED
      BY <1>0, <2>2, <2>3, <3>1
  <2> QED
    BY <1>2, <1>18, <2>4, <2>5
<1>19. CASE ReplyKey \/ ReactKey \/ AnyKey
  BY <1>8, <1>19 DEF ReplyKey, ReactKey, AnyKey
<1> QED
  BY <1>1, <1>3, <1>4, <1>5, <1>6, <1>7, <1>9, <1>10, <1>11, <1>17, <1>18, <1>19
     DEF TuiNext

\* What is typed for one item is sent to no other, but where the item has expired
\* or a late viewers list has interrupted the reply (Model.Update).
THEOREM ReplyMeetsItsItemHolds == TuiSpec => []ReplyMeetsItsItem
<1>1. TuiInv /\ UNCHANGED tuiVars => TuiInv'
  BY DEF TuiInv, tuiVars, ReplyMeetsItsItem, ItemAt, Whole
<1>2. TuiInv => ReplyMeetsItsItem
  BY DEF TuiInv
<1> QED
  BY TuiInitially, TuiStep, <1>1, <1>2, PTL DEF TuiSpec

-----------------------------------------------------------------------------
(* The terminal viewer's types *)

LEMMA ShelfFacts ==
  /\ Len(Shelf) \in Nat \ {0} /\ \A g \in 1..Len(Shelf) : Len(Shelf[g]) \in Nat
  /\ ItemTicks \in Nat /\ MaxAnimations \in Nat /\ MaxKeys \in Nat \ {0}
BY TuiAssumption

LEMMA ItemTyped == ASSUME NEW m \in Models PROVE ItemAt(m) \in Items \cup {NoItem}
BY ShelfFacts DEF Models, ItemAt, Items

LEMMA TaskTyped ==
  ASSUME NEW it \in Items,
         NEW kind \in {"media", "frames", "animate", "animated", "viewers"}
  PROVE  Task(kind, it) \in Tasks
BY ShelfFacts DEF Task, Tasks

LEMMA LoadsTyped == ASSUME NEW m \in Models PROVE Loads(m) \subseteq Tasks
BY ItemTyped, TaskTyped DEF Loads

\* A Model with some of its parts replaced.
LEMMA PartTyped ==
  ASSUME NEW m \in Models
  PROVE  /\ \A b \in BOOLEAN :
              /\ [m EXCEPT !.quitting = b] \in Models /\ [m EXCEPT !.loading = b] \in Models
              /\ [m EXCEPT !.paused = b] \in Models
         /\ \A it \in Items \cup {NoItem} :
              [m EXCEPT !.current = it] \in Models /\ [m EXCEPT !.typed = it] \in Models
         /\ \A mode \in Modes : [m EXCEPT !.mode = mode] \in Models
         /\ \A clock \in 0..ItemTicks : [m EXCEPT !.clock = clock] \in Models
         /\ \A i \in Int : /\ [m EXCEPT !.item = i] \in Models
                           /\ \A g \in 1..Len(Shelf) :
                                [m EXCEPT !.group = g, !.item = i] \in Models
<1>1. ASSUME NEW b \in BOOLEAN
      PROVE  /\ [m EXCEPT !.quitting = b] \in Models /\ [m EXCEPT !.loading = b] \in Models
             /\ [m EXCEPT !.paused = b] \in Models
  BY DEF Models
<1>2. ASSUME NEW it \in Items \cup {NoItem}
      PROVE  [m EXCEPT !.current = it] \in Models /\ [m EXCEPT !.typed = it] \in Models
  BY DEF Models
<1>3. ASSUME NEW mode \in Modes PROVE [m EXCEPT !.mode = mode] \in Models
  BY DEF Models
<1>4. ASSUME NEW clock \in 0..ItemTicks PROVE [m EXCEPT !.clock = clock] \in Models
  BY DEF Models
<1>5. ASSUME NEW i \in Int, NEW g \in 1..Len(Shelf)
      PROVE  [m EXCEPT !.item = i] \in Models /\ [m EXCEPT !.group = g, !.item = i] \in Models
  BY DEF Models
<1>6. 1 \in 1..Len(Shelf)
  BY ShelfFacts
<1> QED
  BY <1>1, <1>2, <1>3, <1>4, <1>5, <1>6

LEMMA PartsTyped ==
  ASSUME NEW m \in Models, NEW it \in Items \cup {NoItem}
  PROVE  /\ \A b \in BOOLEAN, clock \in 0..ItemTicks :
              [m EXCEPT !.loading = b, !.current = it, !.clock = clock] \in Models
         /\ \A mode \in Modes : [m EXCEPT !.mode = mode, !.typed = it] \in Models
         /\ \A no \in Items \cup {NoItem} :
              [m EXCEPT !.frames = it, !.placed = no] \in Models
         /\ \A clears \in SUBSET Items :
              /\ [m EXCEPT !.clears = clears, !.placed = it] \in Models
              /\ \A stops \in SUBSET (1..MaxAnimations) :
                   [m EXCEPT !.clears = clears, !.stops = stops, !.placed = it] \in Models
<1>1. ASSUME NEW b \in BOOLEAN, NEW clock \in 0..ItemTicks
      PROVE  [m EXCEPT !.loading = b, !.current = it, !.clock = clock] \in Models
  BY DEF Models
<1>2. ASSUME NEW mode \in Modes PROVE [m EXCEPT !.mode = mode, !.typed = it] \in Models
  BY DEF Models
<1>3. ASSUME NEW no \in Items \cup {NoItem}
      PROVE  [m EXCEPT !.frames = it, !.placed = no] \in Models
  BY DEF Models
<1>4. ASSUME NEW clears \in SUBSET Items
      PROVE  [m EXCEPT !.clears = clears, !.placed = it] \in Models
  BY DEF Models
<1>5. ASSUME NEW clears \in SUBSET Items, NEW stops \in SUBSET (1..MaxAnimations)
      PROVE  [m EXCEPT !.clears = clears, !.stops = stops, !.placed = it] \in Models
  BY DEF Models
<1> QED
  BY <1>1, <1>2, <1>3, <1>4, <1>5

LEMMA AnimationTyped ==
  ASSUME NEW m \in Models, NEW n \in 0..MaxAnimations
  PROVE  /\ \A stops \in SUBSET (1..MaxAnimations) :
              [m EXCEPT !.stops = stops, !.animation = n] \in Models
         /\ \A clock \in 0..ItemTicks : [m EXCEPT !.animation = n, !.clock = clock] \in Models
<1>1. ASSUME NEW stops \in SUBSET (1..MaxAnimations)
      PROVE  [m EXCEPT !.stops = stops, !.animation = n] \in Models
  BY DEF Models
<1>2. ASSUME NEW clock \in 0..ItemTicks
      PROVE  [m EXCEPT !.animation = n, !.clock = clock] \in Models
  BY DEF Models
<1> QED
  BY <1>1, <1>2

LEMMA ScreenTyped ==
  ASSUME NEW t \in Screens, NEW playing \in SUBSET (1..MaxAnimations)
  PROVE  /\ \A stills \in SUBSET Items :
              [t EXCEPT !.stills = stills, !.playing = playing] \in Screens
         /\ [t EXCEPT !.files = playing] \in Screens
BY DEF Screens

\* Values that the handlers put there.
LEMMA Constants ==
  /\ TRUE \in BOOLEAN /\ FALSE \in BOOLEAN /\ NoItem \in Items \cup {NoItem}
  /\ 0 \in 0..ItemTicks /\ 0 \in 0..MaxAnimations /\ 1 \in Int
  /\ {} \in SUBSET Items /\ {} \in SUBSET (1..MaxAnimations)
  /\ {"viewing", "replying", "reacting", "viewers"} \subseteq Modes
BY ShelfFacts DEF Modes

LEMMA LoadTyped ==
  ASSUME NEW m \in Models PROVE LoadCurrent(m) \in Models
BY Constants, PartsTyped DEF LoadCurrent

LEMMA ClearTyped ==
  ASSUME NEW m \in Models PROVE Cleared(m) \in Models /\ Cleared(m).group = m.group
<1>1. StopAnimation(m) \in Models /\ StopAnimation(m).group = m.group
  <2> DEFINE stops == m.stops \cup {m.animation}
  <2>1. m.animation # 0 => stops \in SUBSET (1..MaxAnimations)
    BY ShelfFacts DEF Models
  <2>2. IF m.animation = 0 THEN StopAnimation(m) = m
        ELSE StopAnimation(m) = [m EXCEPT !.stops = stops, !.animation = 0]
    BY DEF StopAnimation, Models
  <2> HIDE DEF stops
  <2>3. [m EXCEPT !.stops = stops, !.animation = 0].group = m.group
    BY DEF Models
  <2>4. m.animation # 0 => [m EXCEPT !.stops = stops, !.animation = 0] \in Models
    BY <2>1, Constants, AnimationTyped
  <2> QED
    BY <2>2, <2>3, <2>4
<1>2. ASSUME NEW n \in Models PROVE ClearImage(n) \in Models /\ ClearImage(n).group = n.group
  <2> DEFINE clears == n.clears \cup {n.placed}
  <2>1. n.placed # NoItem => clears \in SUBSET Items
    BY <1>2 DEF Models
  <2>2. IF n.placed = NoItem THEN ClearImage(n) = n
        ELSE ClearImage(n) = [n EXCEPT !.clears = clears, !.placed = NoItem]
    BY <1>2 DEF ClearImage, Models
  <2> HIDE DEF clears
  <2>3. [n EXCEPT !.clears = clears, !.placed = NoItem].group = n.group
    BY <1>2 DEF Models
  <2>4. n.placed # NoItem => [n EXCEPT !.clears = clears, !.placed = NoItem] \in Models
    BY <1>2, <2>1, Constants, PartsTyped
  <2> QED
    BY <1>2, <2>2, <2>3, <2>4
<1> QED
  BY <1>1, <1>2 DEF Cleared

\* ... with the group one further or one back.
LEMMA GroupTyped ==
  ASSUME NEW n \in Models, NEW i \in Int
  PROVE  /\ n.group < Len(Shelf) =>
              LoadCurrent([n EXCEPT !.group = @ + 1, !.item = i]) \in Models
         /\ n.group > 1 =>
              LoadCurrent([n EXCEPT !.group = @ - 1, !.item = i]) \in Models
<1>0. n.group \in 1..Len(Shelf) /\ Len(Shelf) \in Nat
  BY ShelfFacts DEF Models
<1>1. ASSUME n.group < Len(Shelf)
      PROVE  LoadCurrent([n EXCEPT !.group = @ + 1, !.item = i]) \in Models
  <2> DEFINE g == n.group + 1
  <2>1. g \in 1..Len(Shelf)
    BY <1>0, <1>1
  <2>2. [n EXCEPT !.group = @ + 1, !.item = i] = [n EXCEPT !.group = g, !.item = i]
    BY DEF Models
  <2> HIDE DEF g
  <2> QED
    BY <2>1, <2>2, Constants, PartTyped, LoadTyped
<1>2. ASSUME n.group > 1
      PROVE  LoadCurrent([n EXCEPT !.group = @ - 1, !.item = i]) \in Models
  <2> DEFINE g == n.group - 1
  <2>1. g \in 1..Len(Shelf)
    BY <1>0, <1>2
  <2>2. [n EXCEPT !.group = @ - 1, !.item = i] = [n EXCEPT !.group = g, !.item = i]
    BY DEF Models
  <2> HIDE DEF g
  <2> QED
    BY <2>1, <2>2, Constants, PartTyped, LoadTyped
<1> QED
  BY <1>1, <1>2

LEMMA ItemTurned ==
  ASSUME NEW m \in Models
  PROVE  /\ [m EXCEPT !.item = @ + 1] \in Models /\ [m EXCEPT !.item = @ - 1] \in Models
         /\ [m EXCEPT !.quitting = TRUE] \in Models
<1> DEFINE up == m.item + 1
           down == m.item - 1
<1>1. up \in Int /\ down \in Int
  BY DEF Models
<1>2. /\ [m EXCEPT !.item = @ + 1] = [m EXCEPT !.item = up]
      /\ [m EXCEPT !.item = @ - 1] = [m EXCEPT !.item = down]
  BY DEF Models
<1>3. Len(Shelf) \in Nat /\ m.group \in 1..Len(Shelf)
  BY ShelfFacts DEF Models
<1> HIDE DEF up, down
<1>4. [m EXCEPT !.item = up] \in Models /\ [m EXCEPT !.item = down] \in Models
  BY <1>1 DEF Models
<1>5. [m EXCEPT !.quitting = TRUE] \in Models
  BY <1>3, Constants, PartTyped
<1> QED
  BY <1>2, <1>4, <1>5

LEMMA AdvanceTyped ==
  ASSUME NEW m \in Models
  PROVE  /\ Advance(m) \in Models /\ Back(m) \in Models
         /\ NextAuthor(m) \in Models /\ PreviousAuthor(m) \in Models
<1>1. Advance(m) \in Models
  BY Constants, ItemTurned, GroupTyped, LoadTyped DEF Advance
<1>2. Back(m) \in Models
  <2> DEFINE last == IF Shelf[m.group - 1] = <<>> THEN 1 ELSE Len(Shelf[m.group - 1])
  <2>1. m.group > 1 => last \in Int
    BY ShelfFacts DEF Models
  <2>2. \/ Back(m) = LoadCurrent([m EXCEPT !.item = @ - 1]) \/ Back(m) = m
        \/ m.group > 1 /\ Back(m) = LoadCurrent([m EXCEPT !.group = @ - 1, !.item = last])
    BY DEF Back
  <2> HIDE DEF last
  <2> QED
    BY <2>1, <2>2, ItemTurned, GroupTyped, LoadTyped
<1>3. NextAuthor(m) \in Models
  BY Constants, GroupTyped, ClearTyped DEF NextAuthor
<1>4. PreviousAuthor(m) \in Models
  BY Constants, GroupTyped, ClearTyped DEF PreviousAuthor
<1> QED
  BY <1>1, <1>2, <1>3, <1>4

LEMMA ViewedTyped ==
  ASSUME NEW m \in Models, NEW t \in Screens
  PROVE  /\ ViewedModel(m) \in Models /\ ViewedTerminal(m, t) \in Screens
         /\ [t EXCEPT !.files = @ \ m.stops] \in Screens
<1>0. m.stops \in SUBSET (1..MaxAnimations) /\ m.current \in Items \cup {NoItem}
      /\ m.placed \in Items \cup {NoItem}
  BY DEF Models
<1>1. ViewedModel(m) \in Models
  <2> DEFINE placed == IF Places(m) THEN m.current ELSE m.placed
  <2>1. placed \in Items \cup {NoItem}
    BY <1>0
  <2>2. ViewedModel(m) \in {m, [m EXCEPT !.clears = {}, !.stops = {}, !.placed = placed]}
    BY DEF ViewedModel, Models
  <2> HIDE DEF placed
  <2>3. [m EXCEPT !.clears = {}, !.stops = {}, !.placed = placed] \in Models
    BY <2>1, Constants, PartsTyped
  <2> QED
    BY <2>2, <2>3
<1>2. ViewedTerminal(m, t) \in Screens
  <2>1. Places(m) => m.current \in Items
    BY <1>0 DEF Places
  <2> DEFINE stills == IF Places(m) THEN (t.stills \ (m.clears \cup {m.placed})) \cup {m.current}
                       ELSE t.stills \ m.clears
             playing == t.playing \ m.stops
  <2>2. stills \in SUBSET Items /\ playing \in SUBSET (1..MaxAnimations)
    BY <2>1 DEF Screens
  <2>3. ViewedTerminal(m, t) \in {t, [t EXCEPT !.stills = stills, !.playing = playing]}
    BY DEF ViewedTerminal, Screens
  <2> HIDE DEF stills, playing
  <2> QED
    BY <2>2, <2>3, ScreenTyped
<1>3. [t EXCEPT !.files = @ \ m.stops] \in Screens
  <2> DEFINE files == t.files \ m.stops
  <2>1. files \in SUBSET (1..MaxAnimations)
    BY DEF Screens
  <2>2. [t EXCEPT !.files = @ \ m.stops] = [t EXCEPT !.files = files]
    BY DEF Screens
  <2> HIDE DEF files
  <2> QED
    BY <2>1, <2>2, ScreenTyped
<1> QED
  BY <1>1, <1>2, <1>3

LEMMA HandledTyped ==
  ASSUME tui \in Models, terminal \in Screens, NEW m \in Models, Handle(m)
  PROVE  tui' \in Models /\ terminal' \in Screens
BY ViewedTyped DEF Handle

\* A message that makes the Model m, of the types there are, keeps the types.
LEMMA MessageTyped ==
  ASSUME TuiTypeOK, NEW m \in Models, Handle(m), tasks' \subseteq Tasks,
         lapsed' = lapsed, keys' \in 0..MaxKeys, interrupted' \in BOOLEAN
  PROVE  TuiTypeOK'
BY HandledTyped DEF TuiTypeOK

LEMMA KeysCounted ==
  TuiTypeOK /\ keys < MaxKeys /\ keys' = keys + 1 => keys' \in 0..MaxKeys
BY ShelfFacts DEF TuiTypeOK

LEMMA TuiTypeByKeys ==
  ASSUME TuiTypeOK,
         \/ \E m \in Models : Move(m)
         \/ Quit \/ Resize
         \/ PauseKey \/ ReplyKey \/ TypeKey \/ EndReply \/ ReactKey \/ AnyKey \/ ViewersKey
         \/ \E it \in Items : ItemExpires(it)
  PROVE  TuiTypeOK'
<1>0. tui \in Models /\ tasks \subseteq Tasks /\ interrupted \in BOOLEAN
      /\ ItemAt(tui) \in Items \cup {NoItem}
  BY ItemTyped DEF TuiTypeOK
<1>1. ASSUME NEW m \in Models, Press(m) PROVE TuiTypeOK'
  BY <1>0, <1>1, KeysCounted, MessageTyped DEF Press, Key
<1>2. ASSUME NEW m \in Models, Move(m) PROVE TuiTypeOK'
  <2>1. tasks' \subseteq Tasks
    BY <1>0, <1>2, LoadsTyped DEF Move
  <2> QED
    BY <1>0, <1>2, <2>1, KeysCounted, MessageTyped DEF Move, Key
<1>3. CASE Quit
  <2> DEFINE m == Cleared([tui EXCEPT !.quitting = TRUE])
  <2>1. m \in Models
    BY <1>0, ItemTurned, ClearTyped
  <2>2. Handle(m) /\ Key /\ UNCHANGED <<tasks, lapsed, interrupted>>
    BY <1>3 DEF Quit
  <2> HIDE DEF m
  <2> QED
    BY <1>0, <2>1, <2>2, KeysCounted, MessageTyped DEF Key
<1>4. CASE Resize
  <2> DEFINE m == LoadCurrent(Cleared(tui))
  <2>1. m \in Models
    BY <1>0, ClearTyped, LoadTyped
  <2>2. Handle(m) /\ Key /\ tasks' = tasks \cup Loads(m) /\ UNCHANGED <<lapsed, interrupted>>
    BY <1>4 DEF Resize
  <2> HIDE DEF m
  <2> QED
    BY <1>0, <2>1, <2>2, KeysCounted, MessageTyped, LoadsTyped DEF Key
<1>5. CASE PauseKey
  <2> DEFINE paused == ~tui.paused
  <2>1. paused \in BOOLEAN
    OBVIOUS
  <2>2. Press([tui EXCEPT !.paused = paused])
    BY <1>0, <1>5 DEF PauseKey, Models
  <2> HIDE DEF paused
  <2> QED
    BY <1>0, <1>1, <2>1, <2>2, PartTyped
<1>6. ASSUME NEW mode \in {"viewing", "replying", "reacting", "viewers"},
             Press([tui EXCEPT !.mode = mode])
      PROVE  TuiTypeOK'
  BY <1>0, <1>1, <1>6, PartTyped, Constants
<1>7. CASE TypeKey
  <2> DEFINE pinned == IF tui.typed = NoItem THEN ItemAt(tui) ELSE tui.typed
  <2>1. pinned \in Items \cup {NoItem}
    BY <1>0 DEF Models
  <2>2. Press([tui EXCEPT !.typed = pinned])
    BY <1>0, <1>7 DEF TypeKey, Models
  <2> HIDE DEF pinned
  <2> QED
    BY <1>0, <1>1, <2>1, <2>2, PartTyped
<1>8. CASE EndReply
  BY <1>0, <1>1, <1>8, PartsTyped, Constants DEF EndReply
<1>9. CASE ViewersKey
  <2>1. Task("viewers", ItemAt(tui)) \in Tasks
    BY <1>0, <1>9, TaskTyped DEF ViewersKey
  <2> QED
    BY <1>0, <1>9, <2>1, KeysCounted DEF ViewersKey, Key, TuiTypeOK
<1>10. ASSUME NEW it \in Items, ItemExpires(it) PROVE TuiTypeOK'
  BY <1>0, <1>10, KeysCounted DEF ItemExpires, Key, TuiTypeOK
<1>11. CASE ReplyKey \/ ReactKey \/ AnyKey
  BY <1>6, <1>11 DEF ReplyKey, ReactKey, AnyKey
<1> QED
  BY <1>2, <1>3, <1>4, <1>5, <1>7, <1>8, <1>9, <1>10, <1>11

LEMMA TuiTypeByClock == ASSUME TuiTypeOK, ClockTick PROVE TuiTypeOK'
<1>0. tui \in Models /\ tasks \subseteq Tasks /\ interrupted \in BOOLEAN /\ keys \in 0..MaxKeys
  BY DEF TuiTypeOK
<1>1. UNCHANGED <<lapsed, keys, interrupted>>
  BY DEF ClockTick
<1>2. ASSUME NEW m \in Models, Leave(m) PROVE TuiTypeOK'
  <2> DEFINE next == Advance(Cleared(m))
  <2>1. next \in Models
    BY <1>2, ClearTyped, AdvanceTyped
  <2>2. Handle(next) /\ tasks' = tasks \cup Loads(next)
    BY <1>2 DEF Leave
  <2> HIDE DEF next
  <2> QED
    BY <1>0, <1>1, <2>1, <2>2, LoadsTyped, MessageTyped
<1>3. ASSUME Leave([tui EXCEPT !.current = NoItem]) PROVE TuiTypeOK'
  BY <1>0, <1>2, <1>3, PartTyped, Constants
<1>4. ASSUME tui.clock + 1 < ItemTicks, Handle([tui EXCEPT !.clock = @ + 1]), UNCHANGED tasks
      PROVE  TuiTypeOK'
  <2> DEFINE clock == tui.clock + 1
  <2>1. clock \in 0..ItemTicks
    BY <1>0, <1>4, ShelfFacts DEF Models
  <2>2. Handle([tui EXCEPT !.clock = clock])
    BY <1>0, <1>4 DEF Models
  <2> HIDE DEF clock
  <2> QED
    BY <1>0, <1>1, <1>4, <2>1, <2>2, PartTyped, MessageTyped
<1>5. tui.clock \in 0..ItemTicks /\ ItemTicks \in Nat
  BY <1>0, ShelfFacts DEF Models
<1>6. ~(tui.clock + 1 >= ItemTicks) => tui.clock + 1 < ItemTicks
  BY <1>5
<1> QED
  BY <1>0, <1>2, <1>3, <1>4, <1>6 DEF ClockTick

LEMMA TuiTypeByTasks == ASSUME TuiTypeOK, TaskSteps PROVE TuiTypeOK'
<1>0. /\ tui \in Models /\ terminal \in Screens /\ tasks \subseteq Tasks
      /\ interrupted \in BOOLEAN /\ keys \in 0..MaxKeys /\ ItemAt(tui) \in Items \cup {NoItem}
  BY ItemTyped DEF TuiTypeOK
<1>1. ASSUME NEW ok, MayFail(ok) PROVE keys' \in 0..MaxKeys
  BY <1>0, <1>1, KeysCounted DEF MayFail
<1>2. ASSUME NEW c \in tasks PROVE c \in Tasks /\ c.item \in Items /\ c.number \in 0..MaxAnimations
  BY <1>0, <1>2 DEF Tasks
<1>3. ASSUME NEW c \in tasks, NEW ok \in BOOLEAN, MediaArrives(c, ok) PROVE TuiTypeOK'
  <2> DEFINE loaded == Loaded(tui, ok)
             current == IF ok THEN c.item ELSE NoItem
             m == IF c.item # ItemAt(tui) THEN loaded
                  ELSE [loaded EXCEPT !.current = current]
  <2>1. Handle(m) /\ tasks' = tasks \ {c} /\ UNCHANGED <<lapsed, interrupted>> /\ MayFail(ok)
    BY <1>3 DEF MediaArrives
  <2>2. loaded \in Models /\ current \in Items \cup {NoItem}
    BY <1>0, <1>2, PartTyped, Constants DEF Loaded
  <2> HIDE DEF loaded, current
  <2>3. m \in Models
    BY <2>2, PartTyped
  <2> HIDE DEF m
  <2> QED
    BY <1>0, <1>1, <2>1, <2>3, MessageTyped
<1>4. ASSUME NEW c \in tasks, NEW ok \in BOOLEAN, FramesArrive(c, ok) PROVE TuiTypeOK'
  <2>1. keys' \in 0..MaxKeys /\ UNCHANGED <<lapsed, interrupted>>
    BY <1>1, <1>4 DEF FramesArrive
  <2>2. CASE tasks' = tasks \ {c} /\ UNCHANGED <<tui, terminal>>
    BY <1>0, <2>1, <2>2 DEF TuiTypeOK
  <2>3. ASSUME tasks' = (tasks \ {c}) \cup
                 {[Task("animate", c.item) EXCEPT !.stale = tui.placed]},
               Handle([tui EXCEPT !.frames = c.item, !.placed = NoItem])
        PROVE  TuiTypeOK'
    <3>1. [Task("animate", c.item) EXCEPT !.stale = tui.placed] \in Tasks
      <4>1. tui.placed \in Items \cup {NoItem}
        BY <1>0 DEF Models
      <4> QED
        BY <1>2, <4>1, ShelfFacts DEF Task, Tasks
    <3>2. [tui EXCEPT !.frames = c.item, !.placed = NoItem] \in Models
      BY <1>0, <1>2, PartsTyped, Constants
    <3> QED
      BY <1>0, <2>1, <2>3, <3>1, <3>2, MessageTyped
  <2> QED
    BY <1>4, <2>2, <2>3 DEF FramesArrive
<1>5. ASSUME NEW c \in tasks, AnimationStarts(c) PROVE TuiTypeOK'
  <2> DEFINE n == terminal.started + 1
  <2>1. n \in 1..MaxAnimations /\ n \in 0..MaxAnimations
    BY <1>0, <1>5, ShelfFacts DEF AnimationStarts, Screens
  <2>2. /\ terminal' = [stills |-> terminal.stills \ {c.stale},
                        playing |-> terminal.playing \cup {n},
                        files |-> terminal.files \cup {n}, started |-> n]
        /\ tasks' = (tasks \ {c}) \cup {[Task("animated", c.item) EXCEPT !.number = n]}
        /\ UNCHANGED <<tui, lapsed, keys, interrupted>>
    BY <1>5 DEF AnimationStarts
  <2> HIDE DEF n
  <2>3. terminal' \in Screens
    BY <1>0, <2>1, <2>2 DEF Screens
  <2>4. [Task("animated", c.item) EXCEPT !.number = n] \in Tasks
    BY <1>2, <2>1, ShelfFacts DEF Task, Tasks
  <2> QED
    BY <1>0, <2>2, <2>3, <2>4 DEF TuiTypeOK
<1>6. ASSUME NEW c \in tasks, AnimationArrives(c) PROVE TuiTypeOK'
  <2>1. tasks' \subseteq Tasks /\ UNCHANGED <<lapsed, keys, interrupted>>
    BY <1>0, <1>6 DEF AnimationArrives
  <2>2. CASE UNCHANGED <<tui, terminal>>
    BY <1>0, <2>1, <2>2 DEF TuiTypeOK
  <2>3. ASSUME Handle([tui EXCEPT !.animation = c.number, !.clock = 0]) PROVE TuiTypeOK'
    BY <1>0, <1>2, <2>1, <2>3, AnimationTyped, Constants, MessageTyped
  <2> QED
    BY <1>6, <2>2, <2>3 DEF AnimationArrives
<1>7. ASSUME NEW c \in tasks, NEW ok \in BOOLEAN, ViewersArrive(c, ok) PROVE TuiTypeOK'
  <2> DEFINE mode == IF ok THEN "viewers" ELSE "viewing"
  <2>1. mode \in Modes
    BY Constants
  <2>2. /\ Handle([tui EXCEPT !.mode = mode]) /\ UNCHANGED lapsed /\ tasks' = tasks \ {c}
        /\ MayFail(ok)
    BY <1>7 DEF ViewersArrive
  <2>3. interrupted' = (interrupted \/ tui.mode = "replying")
    BY <1>7 DEF ViewersArrive
  <2>4. interrupted' \in BOOLEAN
    BY <2>3
  <2> HIDE DEF mode
  <2> QED
    BY <1>0, <1>1, <2>1, <2>2, <2>4, PartTyped, MessageTyped
<1> QED
  BY <1>3, <1>4, <1>5, <1>6, <1>7 DEF TaskSteps

\* The viewer's Model, its terminal and its tasks keep their shape, whatever order
\* keys, ticks and answers come in (Model.Update, View).
THEOREM TuiTyped == TuiSpec => []TuiTypeOK
<1>1. TuiInit => TuiTypeOK
  <2>1. 1 \in 1..Len(Shelf) /\ 0 \in 0..MaxKeys
    BY ShelfFacts
  <2>2. Unopened \in Models
    <3>1. /\ NoItem \in Items \cup {NoItem} /\ {} \in SUBSET Items
          /\ 0 \in 0..ItemTicks /\ 0 \in 0..MaxAnimations /\ "viewing" \in Modes
      BY Constants
    <3>2. ASSUME NEW m, m = Unopened PROVE m \in Models
      BY <2>1, <3>1, <3>2 DEF Unopened, Models
    <3> QED
      BY <3>2
  <2>3. TuiInit => terminal \in Screens
    BY Constants DEF TuiInit, Screens
  <2> QED
    BY <2>1, <2>2, <2>3 DEF TuiInit, TuiTypeOK
<1>2. ASSUME TuiTypeOK, TuiNext PROVE TuiTypeOK'
  <2>0. tui \in Models
    BY <1>2 DEF TuiTypeOK
  <2>1. CASE OpenViewer
    <3> DEFINE m == LoadCurrent([tui EXCEPT !.quitting = FALSE])
    <3>1. m \in Models
      BY <2>0, PartTyped, Constants, LoadTyped
    <3>2. Handle(m) /\ tasks' = Loads(m) /\ UNCHANGED <<lapsed, interrupted>>
      BY <2>1 DEF OpenViewer
    <3> HIDE DEF m
    <3>3. keys' \in 0..MaxKeys
      BY <2>1, ShelfFacts DEF OpenViewer
    <3> QED
      BY <1>2, <3>1, <3>2, <3>3, LoadsTyped, MessageTyped DEF TuiTypeOK
  <2>2. ASSUME \/ Move(Advance(Cleared(tui))) \/ Move(Back(Cleared(tui)))
               \/ Move(NextAuthor(tui)) \/ Move(PreviousAuthor(tui))
        PROVE  TuiTypeOK'
    <3>1. \E m \in Models : Move(m)
      BY <2>0, <2>2, ClearTyped, AdvanceTyped
    <3> QED
      BY <1>2, <3>1, TuiTypeByKeys
  <2> QED
    BY <1>2, <2>1, <2>2, TuiTypeByKeys, TuiTypeByClock, TuiTypeByTasks DEF TuiNext
<1>3. TuiTypeOK /\ UNCHANGED tuiVars => TuiTypeOK'
  BY DEF TuiTypeOK, tuiVars
<1> QED
  BY <1>1, <1>2, <1>3, PTL DEF TuiSpec

-----------------------------------------------------------------------------
(* The rate limiter *)

BucketRows(k) == [parts: 0..Full(k), age: 0..Oldest(k)]

\* What a call on a bucket b of key k would find is no more than what the last n
\* ticks have left of a full bucket and their refill; nothing was granted since a
\* bucket was last looked at.
Accounted(k, b, g) ==
  /\ g[0] = 0
  /\ \A n \in 1..Per[k] :
       n <= IdleAfter + 1 => Per[k] * g[n] + Refilled(k, b) <= Full(k) + (n - 1) * Burst[k]
  /\ b # None => \A n \in 0..Per[k] : n <= b.age => g[n] = 0

RateInv == RateTypeOK /\ \A k \in Buckets : Accounted(k, buckets[k], granted[k])

LEMMA RuleFacts ==
  ASSUME NEW k \in Buckets
  PROVE  /\ Burst[k] \in Nat \ {0} /\ Per[k] \in Nat \ {0}
         /\ Full(k) \in Nat /\ Full(k) = Burst[k] * Per[k] /\ Full(k) >= Per[k]
         /\ Oldest(k) \in Nat /\ Oldest(k) > Per[k] /\ Oldest(k) > IdleAfter
         /\ IdleAfter \in Nat /\ GCEvery \in Nat
<1>1. /\ Burst[k] \in Nat \ {0} /\ Per[k] \in Nat \ {0} /\ IdleAfter \in Nat
      /\ GCEvery \in Nat
  BY RateAssumption
<1>2. \A b, p \in Nat \ {0} : b * p \in Nat /\ b * p >= p
  OBVIOUS
<1> QED
  BY <1>1, <1>2 DEF Full, Oldest

\* A refill is at least what there was, at most a bucket, and a tick adds at most
\* Burst parts to it.
LEMMA RefillFacts ==
  ASSUME NEW k \in Buckets, NEW b, b = None \/ b \in BucketRows(k)
  PROVE  /\ Refilled(k, b) \in 0..Full(k)
         /\ b \in BucketRows(k) => Refilled(k, b) >= b.parts
         /\ b \in BucketRows(k) /\ b.age < Oldest(k) =>
              Refilled(k, [b EXCEPT !.age = @ + 1]) <= Refilled(k, b) + Burst[k]
<1>0. Burst[k] \in Nat /\ Full(k) \in Nat /\ Oldest(k) \in Nat
  BY RuleFacts
<1>1. CASE b = None
  <2>1. b \notin BucketRows(k)
    BY <1>0, <1>1 DEF None, BucketRows
  <2> QED
    BY <1>0, <1>1, <2>1 DEF Refilled
<1>2. CASE b \in BucketRows(k)
  <2>1. b # None /\ b.parts \in 0..Full(k) /\ b.age \in 0..Oldest(k)
    BY <1>0, <1>2 DEF None, BucketRows
  <2>2. \A a, c \in Nat : a * c \in Nat /\ (a + 1) * c = a * c + c
    OBVIOUS
  <2>3. b.age * Burst[k] \in Nat /\ (b.age + 1) * Burst[k] = b.age * Burst[k] + Burst[k]
    BY <1>0, <2>1, <2>2
  <2> DEFINE older == [b EXCEPT !.age = @ + 1]
  <2>4. older # None /\ older.parts = b.parts /\ older.age = b.age + 1
    BY <1>2, <2>1 DEF None, BucketRows
  <2> HIDE DEF older
  <2>5. Refilled(k, b) = IF b.parts + b.age * Burst[k] > Full(k) THEN Full(k)
                         ELSE b.parts + b.age * Burst[k]
    BY <2>1 DEF Refilled
  <2>6. Refilled(k, older) =
          IF b.parts + (b.age + 1) * Burst[k] > Full(k) THEN Full(k)
          ELSE b.parts + (b.age + 1) * Burst[k]
    BY <2>4 DEF Refilled
  <2> DEFINE refill == b.age * Burst[k]
  <2>7. /\ refill \in Nat
        /\ Refilled(k, b) = IF b.parts + refill > Full(k) THEN Full(k) ELSE b.parts + refill
        /\ Refilled(k, older) = IF b.parts + (refill + Burst[k]) > Full(k) THEN Full(k)
                                ELSE b.parts + (refill + Burst[k])
    BY <2>3, <2>5, <2>6
  <2> HIDE DEF refill
  <2>8. Refilled(k, older) <= Refilled(k, b) + Burst[k]
    BY <1>0, <2>1, <2>7
  <2>9. Refilled(k, b) \in 0..Full(k) /\ Refilled(k, b) >= b.parts
    BY <1>0, <2>1, <2>7
  <2> QED
    BY <2>8, <2>9 DEF older
<1> QED
  BY <1>1, <1>2

\* Dropping an idle bucket leaves the account as it is.
LEMMA CollectedAccounted ==
  ASSUME NEW k \in Buckets, NEW b, b = None \/ b \in BucketRows(k),
         NEW g \in [0..Per[k] -> Nat], Accounted(k, b, g), b.age > IdleAfter
  PROVE  Accounted(k, None, g)
<1>0. /\ IdleAfter \in Nat /\ Per[k] \in Nat \ {0} /\ Burst[k] \in Nat /\ Full(k) \in Nat
      /\ Oldest(k) \in Nat
  BY RuleFacts
<1>1. b # None /\ b \in BucketRows(k) /\ b.age \in Nat
  BY <1>0 DEF None, BucketRows
<1>2. ASSUME NEW n \in 1..Per[k], n <= IdleAfter + 1
      PROVE  Per[k] * g[n] + Refilled(k, None) <= Full(k) + (n - 1) * Burst[k]
  <2>1. n <= b.age /\ n \in 0..Per[k]
    BY <1>0, <1>1, <1>2
  <2>2. g[n] = 0
    BY <1>1, <2>1 DEF Accounted
  <2>3. Per[k] * g[n] = 0 /\ Refilled(k, None) = Full(k)
    BY <1>0, <2>2 DEF Refilled
  <2>4. \A a, c \in Nat : a * c \in Nat
    OBVIOUS
  <2>5. (n - 1) * Burst[k] \in Nat
    BY <1>0, <2>4
  <2> QED
    BY <1>0, <2>3, <2>5
<1>3. g[0] = 0
  BY DEF Accounted
<1> QED
  BY <1>2, <1>3 DEF Accounted

LEMMA KeptAccounted ==
  ASSUME RateInv, NEW j \in Buckets, NEW due \in BOOLEAN
  PROVE  LET kept == (IF due THEN Collected ELSE buckets)[j]
         IN  (kept = None \/ kept \in BucketRows(j)) /\ Accounted(j, kept, granted[j])
<1>1. /\ buckets[j] = None \/ buckets[j] \in BucketRows(j)
      /\ granted[j] \in [0..Per[j] -> Nat] /\ Accounted(j, buckets[j], granted[j])
  BY DEF RateInv, RateTypeOK, BucketRows
<1>2. Collected[j] = IF buckets[j].age > IdleAfter THEN None ELSE buckets[j]
  BY DEF Collected
<1> QED
  BY <1>1, <1>2, CollectedAccounted

\* A call takes a token or leaves the refill.
LEMMA CallAccounted ==
  ASSUME NEW k \in Buckets, NEW b, b = None \/ b \in BucketRows(k),
         NEW g \in [0..Per[k] -> Nat], Accounted(k, b, g),
         NEW grants \in BOOLEAN, grants => Refilled(k, b) >= Per[k],
         NEW c, c = [parts |-> IF grants THEN Refilled(k, b) - Per[k] ELSE Refilled(k, b),
                     age |-> 0],
         NEW h, h = [n \in 0..Per[k] |-> IF grants /\ n > 0 THEN g[n] + 1 ELSE g[n]]
  PROVE  c \in BucketRows(k) /\ h \in [0..Per[k] -> Nat] /\ Accounted(k, c, h)
<1>0. /\ Per[k] \in Nat \ {0} /\ Burst[k] \in Nat /\ Full(k) \in Nat /\ Oldest(k) \in Nat
      /\ Refilled(k, b) \in 0..Full(k)
  BY RuleFacts, RefillFacts
<1>1. c.parts \in 0..Full(k) /\ c.age = 0 /\ c \in BucketRows(k)
  BY <1>0 DEF BucketRows
<1>2. h \in [0..Per[k] -> Nat] /\ h[0] = 0
  BY <1>0 DEF Accounted
<1>3. Refilled(k, c) = c.parts
  <2>1. c # None
    BY <1>1 DEF None
  <2>2. c.age * Burst[k] = 0
    BY <1>0, <1>1
  <2> QED
    BY <1>0, <1>1, <2>1, <2>2 DEF Refilled
<1>4. ASSUME NEW n \in 1..Per[k], n <= IdleAfter + 1
      PROVE  Per[k] * h[n] + Refilled(k, c) <= Full(k) + (n - 1) * Burst[k]
  <2>1. Per[k] * g[n] + Refilled(k, b) <= Full(k) + (n - 1) * Burst[k] /\ g[n] \in Nat
    BY <1>0, <1>4 DEF Accounted
  <2>2. \A p, m \in Nat : p * m \in Nat /\ p * (m + 1) = p * m + p
    OBVIOUS
  <2>3. Per[k] * g[n] \in Nat /\ Per[k] * (g[n] + 1) = Per[k] * g[n] + Per[k]
    BY <1>0, <2>1, <2>2
  <2>4. (n - 1) * Burst[k] \in Nat
    BY <1>0, <2>2
  <2> DEFINE had == Per[k] * g[n]
             limit == Full(k) + (n - 1) * Burst[k]
  <2>5. had \in Nat /\ limit \in Nat /\ had + Refilled(k, b) <= limit
    BY <1>0, <2>1, <2>3, <2>4
  <2>6. Per[k] * h[n] = IF grants THEN had + Per[k] ELSE had
    BY <1>0, <2>1, <2>3
  <2> HIDE DEF had, limit
  <2>7. Per[k] * h[n] + Refilled(k, c) <= limit
    BY <1>0, <1>3, <2>5, <2>6
  <2> QED
    BY <2>7 DEF limit
<1>5. \A n \in 0..Per[k] : n <= c.age => h[n] = 0
  BY <1>0, <1>1, <1>2
<1> QED
  BY <1>1, <1>2, <1>4, <1>5 DEF Accounted

\* A tick passes.
LEMMA TickAccounted ==
  ASSUME NEW k \in Buckets, NEW b, b = None \/ b \in BucketRows(k),
         NEW g \in [0..Per[k] -> Nat], Accounted(k, b, g),
         NEW c, c = IF b = None \/ b.age = Oldest(k) THEN b ELSE [b EXCEPT !.age = @ + 1],
         NEW h, h = [n \in 0..Per[k] |-> IF n = 0 THEN 0 ELSE g[n - 1]]
  PROVE  (c = None \/ c \in BucketRows(k)) /\ h \in [0..Per[k] -> Nat] /\ Accounted(k, c, h)
<1>0. /\ Per[k] \in Nat \ {0} /\ Burst[k] \in Nat /\ Full(k) \in Nat
      /\ Oldest(k) \in Nat /\ Oldest(k) > Per[k]
  BY RuleFacts
<1>1. h \in [0..Per[k] -> Nat] /\ h[0] = 0 /\ g[0] = 0
  BY <1>0 DEF Accounted
<1>2. c = None \/ c \in BucketRows(k)
  BY <1>0 DEF BucketRows
<1>3. /\ Refilled(k, b) \in 0..Full(k) /\ Refilled(k, c) \in 0..Full(k)
      /\ Refilled(k, c) <= Refilled(k, b) + Burst[k]
  <2>1. Refilled(k, b) \in 0..Full(k) /\ Refilled(k, c) \in 0..Full(k)
    BY <1>2, RefillFacts
  <2>2. CASE b = None \/ b.age = Oldest(k)
    BY <1>0, <2>1, <2>2
  <2>3. CASE ~(b = None \/ b.age = Oldest(k))
    <3>1. b \in BucketRows(k) /\ b.age < Oldest(k)
      BY <1>0, <2>3 DEF BucketRows
    <3> QED
      BY <2>1, <2>3, <3>1, RefillFacts
  <2> QED
    BY <2>1, <2>2, <2>3
<1>4. ASSUME NEW n \in 1..Per[k], n <= IdleAfter + 1
      PROVE  Per[k] * h[n] + Refilled(k, c) <= Full(k) + (n - 1) * Burst[k]
  <2>1. CASE n = 1
    <3>1. h[n] = 0
      BY <1>0, <1>1, <2>1
    <3> QED
      BY <1>0, <1>3, <2>1, <3>1
  <2>2. CASE n > 1
    <3> DEFINE m == n - 1
    <3>0. m \in 1..Per[k] /\ m <= IdleAfter + 1 /\ IdleAfter \in Nat
      BY <1>0, <1>4, <2>2, RuleFacts
    <3>1. Per[k] * g[m] + Refilled(k, b) <= Full(k) + (m - 1) * Burst[k] /\ g[m] \in Nat
      BY <1>0, <3>0 DEF Accounted
    <3>2. h[n] = g[m]
      BY <1>0, <2>2
    <3>3. \A p, q \in Nat : p * q \in Nat /\ (p + 1) * q = p * q + q
      OBVIOUS
    <3>4. /\ Per[k] * g[m] \in Nat /\ (m - 1) * Burst[k] \in Nat
          /\ (m - 1 + 1) * Burst[k] = (m - 1) * Burst[k] + Burst[k]
      <4>1. Per[k] \in Nat /\ g[m] \in Nat /\ m - 1 \in Nat /\ Burst[k] \in Nat
        BY <1>0, <3>0, <3>1
      <4> HIDE DEF m
      <4> QED
        BY ONLY <3>3, <4>1
    <3>5. (n - 1) * Burst[k] = (m - 1) * Burst[k] + Burst[k]
      <4>1. n - 1 = m - 1 + 1
        BY <3>0
      <4> QED
        BY <3>4, <4>1
    <3> DEFINE had == Per[k] * g[m]
               refill == (m - 1) * Burst[k]
    <3>6. /\ had \in Nat /\ refill \in Nat /\ had + Refilled(k, b) <= Full(k) + refill
          /\ Per[k] * h[n] = had /\ (n - 1) * Burst[k] = refill + Burst[k]
      BY <3>1, <3>2, <3>4, <3>5
    <3> HIDE DEF had, refill, m
    <3> QED
      BY <1>0, <1>3, <3>6
  <2> QED
    BY <1>4, <2>1, <2>2
<1>5. ASSUME c # None, NEW n \in 0..Per[k], n <= c.age PROVE h[n] = 0
  <2>1. b # None /\ b \in BucketRows(k) /\ b.age \in 0..Oldest(k)
    BY <1>5 DEF BucketRows
  <2>2. n > 0 => n - 1 \in 0..Per[k] /\ n - 1 <= b.age
    BY <1>0, <1>5, <2>1 DEF BucketRows
  <2> QED
    BY <1>0, <1>1, <2>1, <2>2 DEF Accounted
<1> QED
  BY <1>1, <1>2, <1>4, <1>5 DEF Accounted

LEMMA RateInitially == RateInit => RateInv
<1> SUFFICES ASSUME RateInit PROVE RateInv
  OBVIOUS
<1>1. sinceGC \in 0..GCEvery
  BY RateAssumption DEF RateInit
<1>2. ASSUME NEW k \in Buckets
      PROVE  granted[k] \in [0..Per[k] -> Nat] /\ Accounted(k, buckets[k], granted[k])
  <2>0. Per[k] \in Nat \ {0} /\ Burst[k] \in Nat /\ Full(k) \in Nat
    BY RuleFacts
  <2>1. buckets[k] = None /\ granted[k] = [n \in 0..Per[k] |-> 0]
    BY DEF RateInit
  <2>2. \A p, q \in Nat : p * q \in Nat
    OBVIOUS
  <2>3. ASSUME NEW n \in 1..Per[k]
        PROVE  Per[k] * granted[k][n] + Refilled(k, None) <= Full(k) + (n - 1) * Burst[k]
    <3>1. (n - 1) * Burst[k] \in Nat /\ Per[k] * granted[k][n] = 0
      BY <2>0, <2>1, <2>2
    <3> QED
      BY <2>0, <3>1 DEF Refilled
  <2> QED
    BY <2>0, <2>1, <2>3 DEF Accounted
<1> QED
  BY <1>1, <1>2 DEF RateInv, RateTypeOK, RateInit

LEMMA RateStep == RateInv /\ RateNext => RateInv'
<1> SUFFICES ASSUME RateInv, RateNext PROVE RateInv'
  OBVIOUS
<1>0. /\ DOMAIN buckets = Buckets /\ DOMAIN granted = Buckets /\ sinceGC \in 0..GCEvery
      /\ GCEvery \in Nat
  BY RateAssumption DEF RateInv, RateTypeOK
<1>1. CASE Tick
  <2>1. sinceGC' \in 0..GCEvery
    BY <1>0, <1>1 DEF Tick
  <2>2. ASSUME NEW k \in Buckets
        PROVE  /\ buckets'[k] = None \/ buckets'[k] \in BucketRows(k)
               /\ granted'[k] \in [0..Per[k] -> Nat]
               /\ Accounted(k, buckets'[k], granted'[k])
    <3>1. /\ buckets[k] = None \/ buckets[k] \in BucketRows(k)
          /\ granted[k] \in [0..Per[k] -> Nat] /\ Accounted(k, buckets[k], granted[k])
      BY DEF RateInv, RateTypeOK, BucketRows
    <3>2. /\ buckets'[k] = IF buckets[k] = None \/ buckets[k].age = Oldest(k) THEN buckets[k]
                           ELSE [buckets[k] EXCEPT !.age = @ + 1]
          /\ granted'[k] = [n \in 0..Per[k] |-> IF n = 0 THEN 0 ELSE granted[k][n - 1]]
      BY <1>1 DEF Tick
    <3> QED
      BY <3>1, <3>2, TickAccounted
  <2>3. DOMAIN buckets' = Buckets /\ DOMAIN granted' = Buckets
    BY <1>1 DEF Tick
  <2> QED
    BY <2>1, <2>2, <2>3 DEF RateInv, RateTypeOK, BucketRows, Accounted
<1>2. ASSUME NEW k \in Buckets, Allow(k) PROVE RateInv'
  <2> DEFINE due == sinceGC = GCEvery
             kept == IF due THEN Collected ELSE buckets
             grants == Refilled(k, kept[k]) >= Per[k]
  <2>1. sinceGC' \in 0..GCEvery
    BY <1>0, <1>2 DEF Allow
  <2>2. ASSUME NEW j \in Buckets
        PROVE  /\ kept[j] = None \/ kept[j] \in BucketRows(j)
               /\ granted[j] \in [0..Per[j] -> Nat] /\ Accounted(j, kept[j], granted[j])
    <3>1. due \in BOOLEAN
      OBVIOUS
    <3>2. granted[j] \in [0..Per[j] -> Nat]
      BY DEF RateInv, RateTypeOK
    <3> HIDE DEF due
    <3> QED
      BY <3>1, <3>2, KeptAccounted
  <2>3. DOMAIN kept = Buckets
    BY <1>0 DEF Collected
  <2>4. /\ buckets' = [kept EXCEPT ![k] =
                        [parts |-> IF grants THEN Refilled(k, kept[k]) - Per[k]
                                   ELSE Refilled(k, kept[k]), age |-> 0]]
        /\ granted' = [granted EXCEPT ![k] =
                        [n \in 0..Per[k] |-> IF grants /\ n > 0 THEN granted[k][n] + 1
                                             ELSE granted[k][n]]]
    BY <1>2 DEF Allow
  <2>5. grants \in BOOLEAN /\ (grants => Refilled(k, kept[k]) >= Per[k])
    OBVIOUS
  <2> HIDE DEF kept, grants, due
  <2>6. /\ buckets'[k] \in BucketRows(k) /\ granted'[k] \in [0..Per[k] -> Nat]
        /\ Accounted(k, buckets'[k], granted'[k])
    <3>1. /\ buckets'[k] = [parts |-> IF grants THEN Refilled(k, kept[k]) - Per[k]
                                      ELSE Refilled(k, kept[k]), age |-> 0]
          /\ granted'[k] = [n \in 0..Per[k] |-> IF grants /\ n > 0 THEN granted[k][n] + 1
                                                ELSE granted[k][n]]
      BY <1>0, <2>3, <2>4
    <3> QED
      BY <2>2, <2>5, <3>1, CallAccounted
  <2>7. ASSUME NEW j \in Buckets, j # k
        PROVE  buckets'[j] = kept[j] /\ granted'[j] = granted[j]
    BY <1>0, <2>3, <2>4, <2>7
  <2>8. DOMAIN buckets' = Buckets /\ DOMAIN granted' = Buckets
    BY <1>0, <2>3, <2>4
  <2>9. ASSUME NEW j \in Buckets
        PROVE  /\ buckets'[j] = None \/ buckets'[j] \in BucketRows(j)
               /\ granted'[j] \in [0..Per[j] -> Nat]
               /\ Accounted(j, buckets'[j], granted'[j])
    BY <2>2, <2>6, <2>7
  <2> QED
    BY <2>1, <2>8, <2>9 DEF RateInv, RateTypeOK, BucketRows, Accounted
<1> QED
  BY <1>1, <1>2 DEF RateNext

\* What a bucket holds and what it has granted are accounted for, collections
\* included (Allow, gcLocked).
THEOREM RateInvariance == RateSpec => []RateInv
<1>1. RateInv /\ UNCHANGED rateVars => RateInv'
  BY DEF RateInv, RateTypeOK, rateVars, Accounted
<1> QED
  BY RateInitially, RateStep, <1>1, PTL DEF RateSpec

\* In no window is a caller granted more than a full bucket and the refill of the
\* window (Allow, gcLocked).
THEOREM WithinRateHolds == RateSpec => []WithinRate
<1>1. ASSUME RateInv PROVE WithinRate
  <2> SUFFICES ASSUME NEW k \in Buckets, NEW n \in 1..Per[k], n <= IdleAfter + 1
               PROVE  Per[k] * granted[k][n] <= Full(k) + (n - 1) * Burst[k]
    BY DEF WithinRate
  <2>1. /\ buckets[k] = None \/ buckets[k] \in BucketRows(k)
        /\ granted[k] \in [0..Per[k] -> Nat] /\ Accounted(k, buckets[k], granted[k])
    BY <1>1 DEF RateInv, RateTypeOK, BucketRows
  <2>2. Refilled(k, buckets[k]) \in 0..Full(k) /\ Full(k) \in Nat
        /\ Per[k] \in Nat /\ Burst[k] \in Nat
    BY <2>1, RefillFacts, RuleFacts
  <2>3. Per[k] * granted[k][n] + Refilled(k, buckets[k]) <= Full(k) + (n - 1) * Burst[k]
    BY <2>1 DEF Accounted
  <2>4. Per[k] * granted[k][n] \in Int /\ (n - 1) * Burst[k] \in Int
    BY <2>1, <2>2
  <2> QED
    BY <2>2, <2>3, <2>4
<1> QED
  BY <1>1, RateInvariance, PTL

-----------------------------------------------------------------------------
(* The parts together *)

\* Each part of the command line behaves as its own model says: the models are of
\* the same program, and what is proved of a part holds of the whole (main.go).
THEOREM CommandsBehave ==
  CommandLineSpec => PostSpec /\ CredSpec /\ TuiSpec /\ ProbeSpec /\ RateSpec
<1>1. CommandLineInit => PostInit /\ CredInit /\ TuiInit /\ ProbeInit /\ RateInit
  BY DEF CommandLineInit
<1>2. [CommandLineNext]_commandLineVars =>
        /\ [PostNext]_postVars /\ [CredNext]_credVars /\ [TuiNext]_tuiVars
        /\ [ProbeNext]_probeVars /\ [RateNext]_rateVars
  BY DEF CommandLineNext, commandLineVars
<1> QED
  BY <1>1, <1>2, PTL
     DEF CommandLineSpec, PostSpec, CredSpec, TuiSpec, ProbeSpec, RateSpec

\* The state of every part has its type, whichever part acts.
THEOREM CommandLineTyped == CommandLineSpec => []CommandLineTypeOK
<1>1. PostInv /\ CredInv /\ TuiTypeOK /\ ProbeInv /\ RateInv => CommandLineTypeOK
  BY DEF CommandLineTypeOK, PostInv, CredInv, ProbeInv, RateInv
<1> QED
  BY CommandsBehave, PostInvariance, Invariance, TuiTyped, ProbeInvariance,
     RateInvariance, <1>1, PTL

\* What the run of the command line checks, of the command line as a whole: one
\* post makes one Story, no command touches another service's session, a reply
\* meets its item, a verdict is one the terminal keeps, and nobody gets more than
\* the limiter's rate.
THEOREM CommandLineSafe ==
  CommandLineSpec => /\ []OneStoryPerCommand /\ []ReplyMeetsItsItem
                     /\ []VerdictKept /\ []WithinRate /\ OthersUntouched
BY CommandsBehave, OneStoryHolds, OthersUntouchedHolds, ReplyMeetsItsItemHolds,
   VerdictKeptHolds, WithinRateHolds, PTL

=============================================================================
