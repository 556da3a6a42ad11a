------------------------------ MODULE PostCommand ------------------------------
(***************************************************************************)
(* `gh stories post` (cmd_post.go): the file is spooled to a bounded copy, *)
(* then cliapi's Upload authorizes, uploads, finalizes and polls.  Every   *)
(* API call goes through Client.do, which repeats it when its answer is    *)
(* lost, a 429 or a 5xx; the PUT does not.  The service mints an           *)
(* authorization on every call it is reached by (handlers_upload.go).      *)
(***************************************************************************)
EXTENDS Integers

CONSTANTS
  Limit,      \* session.maxUpload, in units of the model
  MaxRetries  \* Client.maxRetries

ASSUME PostAssumption == Limit \in Nat /\ MaxRetries \in Nat

\* Enough authorizations for two whole uploads whose calls are all repeated.
Authorizations == 1..(2 * (MaxRetries + 1))

VARIABLES
  posting,   \* the command: where it is, the repetition of the call it is in,
             \* its upload, the state of the Story it has last read
  uploads,   \* each authorization the service has minted, and its Story
  overdue    \* --wait-timeout has passed since the polling began

postVars == <<posting, uploads, overdue>>

ApiCalls == {"creating", "finalizing", "polling"}
Terminal(state) == state \in {"published", "failed", "deleted", "removed"}

Reports == {"nothing", "refused", "error", "failed", "accepted", "posted"}
Postings ==
  [pc: {"off", "putting", "sleeping", "ended"} \cup ApiCalls, wait: BOOLEAN,
   repeat: 0..MaxRetries, upload: Authorizations \cup {0}, says: Reports]
States == {"none", "authorized", "processing", "published", "failed", "deleted",
           "removed"}

PostTypeOK ==
  /\ posting \in Postings
  /\ uploads \in [Authorizations -> States]
  /\ overdue \in BOOLEAN

PostInit ==
  /\ posting = [pc |-> "off", wait |-> TRUE, repeat |-> 0, upload |-> 0,
                says |-> "nothing"]
  /\ uploads = [u \in Authorizations |-> "none"]
  /\ overdue = FALSE

\* spool and the checks before the first call: of a source of n units one more
\* than the limit is read, to tell a file at the limit from one over it; neither
\* an empty file nor one of an unknown kind or audience is posted.
StartPost(n, known, wait) ==
  LET read == IF n > Limit THEN Limit + 1 ELSE n
  IN  /\ posting.pc = "off"
      /\ posting' = IF read > Limit \/ read = 0 \/ ~known
                    THEN [posting EXCEPT !.pc = "ended", !.says = "refused"]
                    ELSE [posting EXCEPT !.pc = "creating", !.wait = wait]
      /\ UNCHANGED <<uploads, overdue>>

EndPost(says) == posting' = [posting EXCEPT !.pc = "ended", !.says = says]
Enter(pc, u) ==
  posting' = [posting EXCEPT !.pc = pc, !.upload = u, !.repeat = 0]

\* Client.do: the call is made again until the repetitions are used up.  Slip: the
\* whole upload is started again.
AgainFromTheStart ==
  IF posting.repeat < MaxRetries
  THEN posting' = [posting EXCEPT !.pc = "creating", !.repeat = @ + 1]
  ELSE EndPost("error")
Again ==
  IF posting.repeat < MaxRetries
  THEN posting' = [posting EXCEPT !.repeat = @ + 1]
  ELSE EndPost("error")

\* A call that reached nobody, or was answered 429 or 5xx, is repeated; any other
\* refusal ends the command.
PostCallFails ==
  /\ posting.pc \in ApiCalls
  /\ Again \/ EndPost("error")
  /\ UNCHANGED <<uploads, overdue>>

Authorize ==
  /\ posting.pc = "creating"
  /\ \E u \in Authorizations :
       /\ uploads[u] = "none" /\ \A v \in 1..(u - 1) : uploads[v] # "none"
       /\ uploads' = [uploads EXCEPT ![u] = "authorized"]
       /\ Enter("putting", u) \/ Again
  /\ UNCHANGED overdue

\* PutBytes is not repeated.
PutBytes ==
  /\ posting.pc = "putting"
  /\ Enter("finalizing", posting.upload) \/ EndPost("error")
  /\ UNCHANGED <<uploads, overdue>>

\* What cmdPost prints for the Story it was given.
Report(state) ==
  EndPost(CASE ~posting.wait -> "accepted"
            [] posting.wait /\ state = "failed" -> "failed"
            [] posting.wait /\ state = "published" -> "posted"
            [] OTHER -> "accepted")

\* FinalizeUpload, repeated or not, answers with the Story as it is by then.
FinalizePosted ==
  LET u == posting.upload
      state == IF uploads[u] = "authorized" THEN "processing" ELSE uploads[u]
  IN  /\ posting.pc = "finalizing"
      /\ uploads' = [uploads EXCEPT ![u] = state]
      /\ \/ Again
         \/ IF Terminal(state) THEN Report(state) ELSE Enter("polling", u)
      /\ UNCHANGED overdue

\* PollStoryUntilTerminal: a read of the Story, then a sleep, until the deadline
\* of --wait-timeout interrupts either.
DeadlineHit == overdue

PollStory ==
  /\ posting.pc = "polling" /\ ~DeadlineHit
  /\ IF Terminal(uploads[posting.upload]) THEN Report(uploads[posting.upload])
     ELSE posting' = [posting EXCEPT !.pc = "sleeping", !.repeat = 0]
  /\ UNCHANGED <<uploads, overdue>>

SleepEnds ==
  /\ posting.pc = "sleeping" /\ ~DeadlineHit
  /\ Enter("polling", posting.upload)
  /\ UNCHANGED <<uploads, overdue>>

WaitIsOver ==
  /\ posting.pc \in {"polling", "sleeping"} /\ DeadlineHit
  /\ EndPost("error")
  /\ UNCHANGED <<uploads, overdue>>

TimePasses ==
  /\ posting.pc \in {"polling", "sleeping"} /\ ~overdue
  /\ overdue' = TRUE
  /\ UNCHANGED <<posting, uploads>>

\* The worker settles a Story; its author or a moderator withdraws one.
StoryMoves(u) ==
  /\ \/ /\ uploads[u] = "processing"
        /\ \E state \in {"published", "failed", "deleted", "removed"} :
             uploads' = [uploads EXCEPT ![u] = state]
     \/ /\ uploads[u] = "published"
        /\ \E state \in {"deleted", "removed"} :
             uploads' = [uploads EXCEPT ![u] = state]
  /\ UNCHANGED <<posting, overdue>>

PostCommandSteps ==
  \/ PostCallFails \/ Authorize \/ PutBytes \/ FinalizePosted
  \/ PollStory \/ SleepEnds \/ WaitIsOver

PostNext ==
  \/ \E n \in 0..(Limit + 2), known, wait \in BOOLEAN : StartPost(n, known, wait)
  \/ PostCommandSteps \/ TimePasses
  \/ \E u \in Authorizations : StoryMoves(u)

PostSpec == PostInit /\ [][PostNext]_postVars

-----------------------------------------------------------------------------
(* Properties *)

\* One command makes one Story at most, however often its calls are repeated: only
\* the call to finalize makes one, and it is repeated for the same upload.
OneStoryPerCommand ==
  \A u, v \in Authorizations :
    u # v => {uploads[u], uploads[v]} \cap {"none", "authorized"} # {}

=============================================================================
