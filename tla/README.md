# gh-stories: a formal model

gh-stories is a Stories service for GitHub users: a Go API server and a Go
worker over PostgreSQL and an S3-compatible bucket, a browser extension, a CLI
with a terminal viewer, and a static site. This directory holds TLA+ models of
its core, the TLC configurations that check them on small instances, and TLAPS
proofs of their most important theorems.

    tlc -workers 2 -config pipeline.cfg MCMediaPipeline.tla
    tlapm MediaPipelineProofs.tla

## 1. Inventory

| Component | State | Operations | Talks to |
|---|---|---|---|
| Uploads (`api/handlers_upload.go`, `store/story.go`) | `upload_intents`, the draft | authorize (presigned PUT), finalize | bucket, media jobs, worker trigger |
| Media processing (`internal/media`, `handleMediaJob`) | the files and the variants of one attempt, its deadline | sniff, probe, judge, decode, transcode, extract, upload | ffmpeg, ffprobe, bucket |
| Media worker (`worker/media_loop.go`) | the lease it holds, the files of one attempt | claim, download, process, store variants, publish, fail | `media_jobs`, `story_items`, `media_variants`, bucket |
| Stories (`store/story.go`) | `story_items`, `media_variants` | publish, delete, remove, update, expire | cleanup jobs |
| Cleanup worker (`worker/cleanup_loop.go`, `store/jobs.go`) | `cleanup_jobs` and their leases | reap leases, expire Stories, collect uploads, purge, drain deletions | every table, bucket |
| Object storage (`objstore`) | objects by key | put, get, delete, presign | external S3 |
| Sessions and sign-in (`auth`, `store/session.go`, `store/device.go`) | `sessions`, `oauth_flows`, `pending_logins`, `device_logins` | authorize, approve, deny, poll, revoke, authenticate | GitHub, extension, CLI |
| Social graph (`store/graph.go`, `auth/import.go`) | `relationships`, `blocks`, `hide_rules`, audience lists | follow, unfollow, block, hide, import | visibility |
| Visibility and feed (`store/visibility.go`, `store/feed.go`) | none of its own | the predicate every read applies, feed order, feed version | social graph, Stories |
| Interactions (`store/interact.go`, `store/idempotency.go`) | replies, reactions, views, inbox, idempotency keys | react, reply, view, read | visibility |
| Media gateway (`api/handlers_media.go`) | none | authorize, stream, record the view | visibility, bucket |
| Moderation, accounts (`store/moderation.go`, `store/identity.go`, `account`) | reports, actions, users | remove, suspend, delete an account | Stories, cleanup jobs |
| GitHub identities (`store/identity.go`) | `github_identities`, `users` | refresh, release a stale login, register | sign-in, import |
| Rate limiter (`ratelimit`) | buckets | allow, collect | API middleware |
| Worker as a job (`api/trigger.go`, `worker.RunOnce`, `infra/deploy`) | last trigger; the executions | ask, coalesce, sweep, run to completion, time out | Cloud Run, `media_jobs` |
| Terminal detection (`internal/terminal`) | the tty's input queue, the cached verdict | probe, drain, decide, cache, draw | terminal, tmux, shell |
| Extension: session (`state/login.ts`, `session.ts`, `background.ts`) | origin, pending login, accounts in `storage.local`; the alarm | sign in, poll, switch service, sign out, authenticated request | API, popup |
| Extension: rings (`state/ringCache.ts`, `content.ts`) | cache, batch queue, what each avatar shows | decorate, ask, paint, cancel, refresh | API, page |
| Extension: viewer (`StoryViewer.tsx`, `ViewerBridge.tsx`, `mediaCache.ts`) | item, pauses, fetched media | open, advance, jump, reply, expire | API |
| Extension: composer (`StoryComposer.tsx`, `uploadPort.ts`, `upload.ts`) | draft, status, idempotency key, port | pick, post, leave, retry | uploads |
| CLI (`cli`) | credentials in a keyring or a file | login, logout, post, commands of one call | API |
| Terminal viewer (`internal/tui`) | the viewer's model, images, animations | browse, reply, react, play | API, terminal |

What is hard in it:

* **Leases.** Media and cleanup jobs are leased, and every statement that ends a
  job addresses it by id alone. A worker that outlives its lease keeps writing.
* **Two stores.** The bucket is not transactional. Variants are stored before
  the transaction that publishes them, and deleted after the one that ends them.
* **Crashes.** A process may die, or a statement fail, between any two of these.
* **Clients.** PUT, finalize, poll and approve arrive twice, late, in any order.
* **Check, then act.** Finalize reads without a lock; handlers authorize first
  and write afterwards.
* **Deadlines.** A Story ends at an instant, whatever the sweeps do.
* **Eviction.** The browser may end the extension's service worker between any
  two awaits; storage and the alarm survive, handlers and timers do not.
* **Late answers.** A page or the terminal has moved on to another item, person
  or account when the answer to its question arrives.
* **Processes that know nothing of each other.** Two commands replace one file;
  one run of the command reads what the terminal meant to say to another.
* **Tools that may be missing, slow or broken.** An upload is judged by programs
  the worker starts, under three deadlines and a context that may be cancelled,
  and the verdict says for good whose fault it was.
* **A platform that ends what it started.** The worker's executions overlap and
  are cut off by a timeout nobody in the code knows.
* **A world that moves on.** Logins change hands on GitHub while what GitHub said
  a moment ago is written; a feed and its token are read at two moments.

What makes each part correct: a Story only ever moves onward and is visible at
most its lifetime; what is published has its bytes; what is over loses them; a
job is done once, and says of an upload only what the upload has earned; a sign-in yields one token to one client; a viewer who may not
see a Story changes nothing about it; a client keeps no token but one its service
gave it, shows an answer only for whom it asked, and every flow it starts ends.

## 2. Modules

| Module | Models | Extends |
|---|---|---|
| `ObjectCleanup` | `cleanup_jobs`, the cleanup loops, the bucket | |
| `MediaPipeline` | uploads, media jobs, media loops, Stories, sweeps | `ObjectCleanup` |
| `MediaPipelineProperties` | its properties, fairness, refinement mapping | `MediaPipeline` |
| `StoryLifecycle` | abstract: what one Story promises | |
| `CleanupQueue` | `ObjectCleanup` closed by a small environment, its properties | `ObjectCleanup` |
| `Reclaimer` | abstract: what the deletion queue promises | |
| `SignIn` | `pending_logins`, `device_logins`, `oauth_flows`, the handlers that move them, sessions issued | |
| `SignInProperties` | its invariant and refinement mapping | `SignIn` |
| `OneTimeGrant` | abstract: what a sign-in promises; implemented by `SignIn` and by `service` of `ExtensionSession` | |
| `SocialGraph` | follows with tombstones and provenance, the GitHub import, blocks, hide rules, accounts | |
| `SocialGraphProperties` | its invariant and action properties | `SocialGraph` |
| `Interactions` | the visibility predicate, audience lists and edits; views, reactions, replies | `SocialGraph` |
| `InteractionsProperties` | its invariants, the audience as one set, refinement mapping | `Interactions`, `SocialGraphProperties` |
| `AudienceGate` | abstract: who leaves a trace was let in | |
| `ExtensionSession` | the extension's pending login, its polls, accounts and origin, requests | |
| `AvatarRings` | avatars of a page, the batcher and its cache | |
| `StoryPlayer` | the viewer's sequencing and its media cache | |
| `Composer` | the composer's page, the port, the upload flow | |
| `Extension` | the four of them side by side, their fairness | all four |
| `PostCommand` | `gh stories post` and the client's repetitions | |
| `Credentials` | keyring and file, the processes that use them | |
| `TerminalViewer` | the viewer's `Update`, tasks, images and animations | |
| `RateLimiter` | the token buckets and their collection | |
| `TerminalProbe` | detection of a terminal's pictures, run after run, inside tmux or not | |
| `CommandLine` | the five of them side by side, their fairness | all five |
| `Identities` | the rows of GitHub identities and accounts, written by sign-ins and imports while logins change hands | |
| `Feed` | feed, rings, author's sequence and change token of one viewer, as functions of the rows; `getFeed` | |
| `WorkerRuns` | the trigger, the schedule and the executions of the worker as a job | |
| `MediaProcessing` | one attempt of a media job: probing, limits, what is made at which size, tools, deadlines, stops, panics, its files | |
| `Service` | `Identities`, `WorkerRuns` and `MediaProcessing` side by side, their fairness | these three |
| `Handlers` | `SignIn`, `SocialGraph` and `Feed` side by side | `SignInProperties`, `SocialGraphProperties`, `Feed` |
| `MC...` | constants and symmetry for TLC | |
| `ObjectCleanupProofs`, `MediaPipelineProofs`, `CleanupQueueProofs`, `SignInProofs` | theorems | the module they are named after |
| `SocialProofs` | theorems about the graph and the interactions | `SocialGraphProperties`, `InteractionsProperties` |
| `ExtensionProofs`, `CommandLineProofs`, `ServiceProofs` | theorems about the unions and their parts; the last also about `Feed` | the union they are named after |

`Extension`, `CommandLine`, `Service` and `Handlers` are unions: what their parts
keep is disjoint in the models, so interleaving them would multiply states
and show nothing. Each behaviour is that of one part, chosen at the start, with
the others at rest. `PartsBehave`, `CommandsBehave` and `ServicePartsBehave` prove
that every behaviour of a union is a behaviour of each part, so that what is
proved of `SessionSpec`, `PostSpec` or another part's specification holds of the
union the run checks; the parts of `Handlers` have theorems under their own
specifications. `Service` starts with one assignment of logins to accounts
and, but in their own parts, with one time of processing, one original and no
tools; `CommandLine`, but in its terminal's part, with one terminal: names are
interchangeable, and no other part looks at the rest. `Extension` is run twice,
with its `Parts` shared out: two sign-ins need the room of a run of their own.

### How state and actions correspond to the code

| Variable | Code |
|---|---|
| `intent[u]` | a row of `upload_intents`: state and time to `expires_at` |
| `inflight` | a PUT the bucket is receiving under a presigned URL |
| `finalizing[u]` | `FinalizeUpload` calls between their read and their first write |
| `job[u]` | the row of `media_jobs` with that `upload_intent_id` (UNIQUE) |
| `story[u]`, `variantRows[u]` | the row of `story_items` and its `media_variants` |
| `worker[w]` | `handleMediaJob` in one media loop |
| `cleanup`, `cleaner[c]` | `cleanup_jobs` in insertion order; `handleCleanupJob` in one cleanup loop |
| `bucket` | the keys that hold an object |
| `abandons`, `cleanerCrashes` | none; they bound crashes and lost transactions |
| `grant[g]` | a row of `pending_logins`, `device_logins` or `oauth_flows` |
| `github[d]` | what GitHub knows of a device code |
| `task[c]` | a handler of `SignIn` between two of its statements: the row, user and token it holds |
| `sessions` | the owners of the rows of `sessions`, in order of issue; a token is a position |
| `handed[g]` | tokens a response has carried for `g` |
| `account[u]` | `users`: whether the identity `u` has an account, `suspended_at` |
| `rel[<<u, t>>]` | the row of `relationships` of follower `u` and followee `t` |
| `blocks`, `hides`, `notices` | `blocks`, `hide_rules`; `inbox_events` of kind follow |
| `call[c]` (`SocialGraph`) | a handler of the graph between two of its statements |
| `list[l]` | a row of `audience_lists` with its `audience_list_members` |
| `story[s]` (`Interactions`) | life, deadline and audience columns of `story_items` |
| `views`, `reactions`, `mentions`, `replies`, `anonymous` | `story_views`, `reactions`, their `inbox_events`, `replies`, `anonymous_view_count` |
| `remembered` | `idempotency_keys` of scope reply |
| `request[r]` | a handler on a Story between two of its statements |
| `events` | none; it bounds the requests of a behaviour |
| `local`, `alarm` | `storage.local` (origin, pending login, accounts); the alarm `ghs:poll-login` |
| `service[l]` | what the service knows of a sign-in: its origin, state, and whether its token was handed out or revoked |
| `starter`, `poll`, `callers`, `loop`, `switcher`, `remover`, `request` | handlers of the service worker between two awaits; an eviction forgets them all |
| `avatar[i]`, `retries`, `flights` | an image the page decorated; questions that wait or are in flight |
| `batcher`, `fetches`, `controller`, `ringCache` | `TabRingBatcher` and the cache |
| `viewer`, `media`, `opening`, `lapsed` | the state of `StoryViewer`, `MediaUrlCache`, the overlay's open call, `expiredIds` |
| `composer`, `posts[p]` | the composer's page; a flow of `upload.ts` with its port, and its Story |
| `posting`, `uploads[u]`, `overdue` | the post command; the authorizations minted for it; `--wait-timeout` |
| `keyring`, `disk`, `shell[p]` | the OS store; the inodes behind `credentials.json` and its `.tmp`; a process |
| `tui`, `terminal`, `tasks` | the `Model`; what is on the terminal; running commands and messages not handled yet |
| `buckets`, `sinceGC` | the limiter's map; the time since `gcLocked` |
| `media`, `edit`, `tools` | the upload's original; the trim and mute `Process` is given; the programs installed |
| `step`, `cut`, `stopping` (`MediaProcessing`) | where `handleMediaJob` and `Process` are; why the context of `Process` has ended; whether the worker's own has |
| `scratch`, `made`, `sent` | files of the attempt's directories; the variants `Process` has returned; how many are in the bucket |
| `fault`, `verdict` | the `media.Error`; what the attempt has left in the database |
| `owed`, `input`, `cache`, `proc` (`TerminalProbe`) | replies on their way; the tty's input queue; `terminal-caps.json`; the process, with `readers` left in a `Read` |
| `github`, `login`, `registered` | who holds a login on GitHub; `login_lower`; `users` |
| `call[c]` (`Identities`) | a sign-in between two statements, or an import, with the rows its transaction has written |
| `published`, `live`, `admitted`, `seen`, `muted`, `followed` | what the statements of `feed.go` join, for one viewer |
| `fetch`, `held` | `getFeed` between its two statements; the client's last answer |
| `job[u]`, `trigger[a]`, `exec[e]` (`WorkerRuns`) | the row of `media_jobs`; a process's `CloudRunJobTrigger`; an execution of the worker job |
| `work`, `withdrawn` (`WorkerRuns`) | how long an upload's processing takes; whether its row of `story_items` has left `processing` by a deletion |
| `touches`, `mishaps`, `disturbances`, `faults`, `keys`, `commands`, `evictions` | none; they bound gestures, failures and commands |
| `raced`, `overrun`, `mixed`, `blipped`, `interrupted`, `overlap`, `told`, `kept`, `refused`, `granted`, `spilled`, `killed`, `faithful`, `crossed`, `gone`, `broke` | none; histories that no action's guard reads |

An intent, its media job and its Story share one identity `u`. That is what the
code does: the Story is inserted with the job, and the job names one intent.

Four conventions:

* **A transaction is one step, at its commit.** A read outside the transaction,
  or one that takes no row lock, is a step of its own: `FinalizeRead` and
  `FinalizeCommit` are two steps because `FinalizeUpload` selects the intent
  without `FOR UPDATE`; `AttemptFails` and `RetryJob` because `FailMediaJob`
  reads `attempts` first.
* **An instant is a countdown.** The code only ever compares an instant with
  `Now()`, so a table row keeps the time left, and `Tick` lowers all of them.
  A value stops as soon as no comparison can tell it from a smaller one.
* **A sweep may run at any time.** `runCleanupPass` calls its sweeps in order;
  with several worker processes their steps interleave anyhow, and every worker
  with the cleanup role is one member of `Cleaners`.
* **An attempt counter stops just above its budget.** The code only asks
  whether it has reached `max_attempts`.

In `SignIn`, three kinds of sign-in share one table of grants
and one set of handlers (`Tasks`), because they share their shape: a row that is pending, a
session issued, a guarded update that may come too late. A handler that a client
abandons, that fails or that dies is `TaskEnds` at any point between two of its
statements. `PollPendingLogin` is one step because it is one transaction under
`FOR UPDATE`; `PollDeviceLogin` is not, since it asks GitHub between two of
them, and re-enters itself after an approval. GitHub exchanges a device code
once, which is how `ExchangeDeviceToken` treats it; a refusal stands for a
denial as well as for a code that lapsed at GitHub. Polling secrets and user
codes are not modelled: a poll or an approval is by someone who has the one or
the other.

In `SocialGraph` a user stands for a GitHub identity, because that is what
`relationships`, `blocks` and `hide_rules` name on their far side; the near side
is an account. `putFollow` and the import check first and write in a later
statement. `SetBlock` is one step: what it reads inside its transaction it locks
or overwrites. The import is one step per identity looked at, and one for the
commit of all upserts, since what commits in between is not looked at again.
`overtaken` is a history: it records that an unfollow or a block has taken a
follow from a call that had already checked it, no action reads it, and the
properties use it to name the one race the code leaves open.

`Interactions` adds the handlers on a Story to that graph, as one next-state
relation. Every one of them asks `VisibleToViewer` in one statement and writes
in another. `SetReaction` and the first branch of `ClearReaction` are one step
each, because the row of `reactions` stays locked to the commit; a clear that
finds no row locks nothing, so its second statement is a step of its own. How a
Story is published is `MediaPipeline`'s business and one action here.

In the clients, an await is where a step ends. `ExtensionSession` has one step
per access of the storage and per request; what one synchronous stretch of
JavaScript does is one step. Which of the unused names a sign-in gets is not
open: names of sign-ins are interchangeable, and the next one is taken. `StoryPlayer` separates the animation frame that
ends an item from the render of the update it queues, because a key may come
between them. `TerminalViewer` handles one message per step, as bubbletea does,
and a command is a member of `tasks` until its message is handled. In
`Credentials` the temporary file and the file are names of inodes: a process
that writes after another's rename writes into the file everybody reads. A file
without a byte, made or truncated and not filled yet, is read as an empty map
(`file.go:126`); one that has been filled in part cannot be parsed (`Torn`).
`RateLimiter` counts a bucket in fractions of a token, so that the floating-point
refill is exact in the model; its history `granted` counts, for each instant a
window may start at, what has been let through since.

`TerminalProbe` keeps the bytes of a reply down to what the regular expressions
of `parseProbe` look for: the answer to the query and the fence. A read takes all
that waits. Who reads first while the viewer and the readers left behind compete
is left open, and no property is about keys: the comment accepts one such reader
per process, the code leaves two (`readers`).

In `Identities` a statement waits for the rows and the index entries that an open
transaction has written, as PostgreSQL makes it, and for a row held by a statement
that itself waits; a transaction is gone with its first error. `login#stale-id` is
one value, since nobody looks for it. `Feed` is a state machine of the rows, and
its four answers are operators on them: `Rows` is the statement with its ORDER BY,
`FeedOf` the loop in Go over its result. `Ranked` sorts by the order itself, without
a recursive function, so that the result can be reasoned about. `admitted` stands for the graph and the
audience, whose predicate `Interactions` has in full.

`WorkerRuns` gives time to what `MediaPipeline` leaves untimed: the window of the
trigger, the length of an attempt, the timeout of a task and the lease. A cleanup
pass, a claim and a call of the trigger take less than a tick. An attempt that is
processed ends in `Succeed`, or, for a Story withdrawn meanwhile, in
`PublishRefused`; `EndUnrecorded` is a transaction of either ending, publication or
failure, that fails itself. The last two leave the job leased, as the branches of
`media_loop.go:143-158` do.

`MediaProcessing` keeps of an original what the code reads of it: the first bytes
(`head`), what the client declared, its size, whether its header parses and all
of it decodes, its sides, its blocks or chunks, its length. `Sniffed`, `Counted`,
`Refusal`, `FitDown`, `Even`, `Film` and `Still` are the functions of
`internal/media` on these; the steps are the calls of `handleMediaJob` and of
`Process`, one for every subprocess, since a deadline or a stop may come between
any two. `Outcomes` is what `runFFmpeg` and `runFFprobe` report: they ask the
context for a deadline before they look at the error, so that a tool killed for
any other reason counts as corrupt media. `stopping` is a SIGTERM to a run-once
execution; the loop's attempts have a context nothing cancels
(`media_loop.go:37`) and are the behaviours without that step. Decoders, the
tools and the library's `Fit` are external: they do what the original allows, or
fail. `MediaPipeline` has this attempt in the three steps its own properties tell
apart.

Histories name the races the code leaves open, and the properties exclude those
and nothing else: section 6 lists each.

`MediaPipeline!PostUpload` merges the insert of the intent, of the draft and the
presigning, which no property distinguishes.

The refinement mapping of `StoryLifecycle` sends a published Story whose
deadline has passed to `over` although its row still says `published`: the read
path filters on `expires_at`, so that is what viewers observe. The sweep that
marks the row is a stutter.

## 3. Runs

The deadlock check is on, except in `handlers`, `extension`, `extension_session`,
`command_line`, `service`, `find_follow` and `find_import`, where a behaviour really
stops: a flow ends, or the bound on events, calls, runs or uploads is reached.

| Run | Question | Bounds |
|---|---|---|
| `pipeline` | Can slow or duplicated workers, finalize calls, retries, deletions and cleanup take bytes from under a visible Story, revive a settled one, or give an upload a second life? | 1 upload, 1 kind, 2 media loops, 1 cleanup loop, 2 attempts, 2 finalize calls in flight, 1 abandoned attempt |
| `pipeline_live` | Under fairness, does a processing Story settle, and do published bytes go? | 1 upload, 2 kinds, 1 media loop, 1 cleanup loop, 1 crash of each |
| `cleanup_queue` | With several cleanup loops, retries and crashes, does the queue keep its contract and settle every key? | 2 keys, 2 rows, 2 loops, 2 attempts, 1 crash |
| `handlers` | With approvals, denials, polls, expiry and GitHub's answers in any order, does one sign-in yield one session, of the person who approved it, before its deadline? When follows, imports, blocks and deletions overlap, can a follow cross a block, a tombstone be lifted or a block be shed in a way the code does not leave open? Is the feed in the promised order under every limit, do feed, rings and pages agree about an author, and does nothing tell of what is hidden? | 1 login of each kind, 2 users, 2 calls, 2 polls, 2 sessions, 1 tick; 2 people, 2 calls, 6 events; 3 authors, 4 Stories, 2 instants, 5 events, of which a request of the feed counts as two, limits 0 to 3 |
| `interactions` | Is every view, reaction and reply left by somebody who was in the audience at a moment of the request, whatever changes meanwhile? Does the inbox agree with the reactions? | 1 Story, 2 people, 1 list, 2 requests, 1 call of the graph, 3 events, 1 tick |
| `extension` | With evictions, late and lost answers and changing pages, is an answer ever invented, media fetched before it is shown, a Story called posted that is not settled? Does every avatar, viewing and upload come to an end? | 1 avatar, 2 faces, 2 flights, batches of 1, 3 retries, 2 mishaps; 2 groups of 2 Stories, 4 gestures; 2 flows, 1 eviction |
| `extension_session` | With evictions, lost answers, switches and a second sign-in after or across the first, is a stored session ever reported refused, a token handed over twice or sent to another service? Is every login that the alarm watches resolved? | 2 services, 1 person, 2 sign-ins, 2 disturbances, of which a second sign-in is one |
| `command_line` | With lost answers, processes that die anywhere, keys and late messages, terminals that answer late, and buckets collected while in use: does one command make one Story, keep others' sessions, send a reply to its own item, trust only what the terminal can draw, and does a viewing end? | 2 repetitions, files of up to 1 over the limit; 2 processes, 2 services, 3 commands; 2 groups, 3 items, 1 a video, 2 animations, 4 keys; every terminal, 3 runs, 1 key; 2 buckets |
| `service` | While logins change hands and calls collide, who keeps a login, and does every call end? With coalesced and failed triggers, executions that overlap and are cut off, uploads that are withdrawn or too slow, and transactions that fail, does every finalized upload settle that an execution can settle, and is none worked on twice at once? Is what an attempt publishes within every limit and at the sizes promised, and what it fails for good the upload's own doing, whatever breaks, stops or times out? | 2 accounts, 3 logins, 2 calls at once, 3 in all, 2 renames; 2 uploads, both quick or the younger one slower than a task allows, 1 API process, 2 executions, 2 attempts, 1 fault: an execution cancelled or lost, a transaction that fails, or a Story withdrawn; 44 originals, 3 edits, every set of tools |
| `find_withdrawn` | section 6 | 1 upload, 1 loop |
| `find_follow` | section 6 | 2 people, 1 call, 2 events |
| `find_import` | section 6 | those of `service`'s identities |

Why these bounds are enough to be of interest:

* Uploads share nothing but loops and the cleanup queue: every statement of the
  pipeline addresses rows by one upload's id. The races are between several
  actors of *one* upload, so one upload and two loops is where they are. The
  theorems of section 5 cover any number.
* Two kinds, in `pipeline_live`, let an attempt be interrupted between two
  variants.
* A lease of 0 ticks expires at the next tick. It lets a loop lose its lease at
  any point of an attempt, which is the hard case; a longer lease only removes
  behaviours. `StoryLifetime = 1` likewise lets a Story lapse at any point.
* Two finalize calls suffice for every conflict: the second either finds the job
  or conflicts on the unique index.
* Two attempts exercise the backoff branch and the final branch of
  `FailMediaJob` and `FailCleanupJob`.

* In the sign-ins of `handlers` every statement addresses one row by its id, so one row of each
  kind carries all races; two calls and two users are two people approving the
  same login, two polls that both saw GitHub's approval, or an approval against
  a denial. A lifetime of one tick lets the deadline pass at any point, and a
  budget of two polls lets it run out before or after an approval.

* In its graph a row relates two people and every statement addresses one
  pair, so two people are where the conflicts are; two calls are a check and
  what overtakes it. An event is a request or a change of an account, and six of
  them are enough to block, unblock, follow, unfollow and import in one
  behaviour.
* In `interactions` the audience changes by a call of the graph, a list, an edit
  or the clock, between the check and the write of one request; a second request
  is the retry, the opposite reaction or the edit. Three events are two requests
  and one change; publication, expiry and the steps of requests count as none.

* In `extension_session`, two services let every poll overlap a switch of service,
  and a second sign-in may begin, be created, be saved and open its page at every
  point of the first one's life: beside its loop, across its poll in flight, after
  its end. The other disturbance is an eviction, a lost answer, a request, a removal
  or a switch; without a second sign-in two of these meet.
* In `extension`, a batch
  limit of 1 makes two faces a full queue, so that questions wait for the next
  flush, and three retries let an answer come after each failure. Two groups of
  two Stories have a next item, a next group and an end. Two flows are the one
  left behind and the one that follows it.
* In `command_line`, two repetitions let an answer be lost, and lost again; two
  processes are a replacement and what overtakes it, and three commands leave a
  third to read what they left. Two items and a second group, one of them a
  video, give an animation that starts late and one that is left behind. One
  bucket is kept idle longer than its window and is collected while the other is
  in use.

* In the terminal's part of `command_line` a verdict found in one run is used in
  the second, and a reply of the first read in the third; the terminal is any
  combination of what it speaks, answers and says of itself, so long as that is
  true.
* In `service`, three logins for two accounts let a login be given up, taken and
  taken back; two imports list their people in opposite orders; a third call comes
  when the first two have collided. `MaxJobs = 1` leaves the second upload to another
  execution, `MaxDuration < TaskTimeout` lets an attempt run into the timeout, a
  `work` of 4 with `TaskTimeout = 3` and `MaxProcessing = 5` is the deployment's
  upload that needs between 120 and 180 seconds, and
  the lease is as long as the timeout, the least that `WorkerRunsAssumption`
  allows (300 and 120 seconds in the deployment, 300 and 300 if the timeout is
  raised as `worker-job.yaml:16-17` suggests). A schedule of four ticks comes
  between two attempts. The originals are at and one beyond every limit and of odd,
  turned and thin shapes: sides of 4, 3 and 1 are what stills, terminals and rows
  are brought down to, sides of 0, 1, 5, 6 and 7 lie around the largest of 6, and
  two frames and two instants are the limits of an animation and a video, with
  files that stop before, at and after the frame too many.
* In the feed of `handlers` one author has two Stories, so that groups
  have an order within and between them; limits 1 and 2 cut off authors, 0 and 3
  fall back to the default.
* One key's bucket in `command_line` is collected after two ticks (`IdleAfter`),
  the length of the longest window: within one tick a bucket would be collected
  before its refill could pass the burst.

`pipeline` uses symmetry over loops, `handlers` over users and calls,
`interactions` over requests. The runs with liveness use none.

## 4. Fairness

`FairSpec` asks weak fairness of the media loop, the cleanup loop, the sweeps
and the clock. `worker.go` starts each role in a loop that polls until its
context ends, a failed iteration is logged and the loop goes on, and a restarted
process starts the loops again. With `RunOnce` the assumption is that the
schedule which starts the process recurs. Nothing is assumed of clients
(`PostUpload`, `PutLands`, `FinalizeCommit`, `DeleteStory`), of crashes
(`AbandonAttempt`, `CrashCleaner`), or that a storage call ever succeeds rather
than fails: `DeleteObjects` and `DeleteObjectsFails` are alternatives of one
step, and the attempts that run out lead to a row marked `failed`, which the
liveness properties name (`GivenUp`).

`PublishedBytesReclaimed` is checked with **one** media loop. With two it is
false: a loop that lost its lease long ago can store a variant after the Story
was published by the other, expired and had its objects deleted, and no later
sweep names that key. The comment at `worker.go:189`, "overlapping schedules are
safe", holds for the database and not for the bucket.

The fairness of the other parts is stated part by part, in `Extension`,
`CommandLine` and `Service`:

* `SessionFairness`: handlers that have begun go on, the loop's timer and the
  alarm fire, the alarm starts an evicted worker, and a sign-in's deadline
  passes. No poll is assumed to succeed, nobody to approve. A login that was saved
  while the poll of another was in flight is not promised an end (section 6).
* `RingFairness`: timers fire and a request ends one way or the other. Failures
  are bounded by `MaxMishaps`, as the retries are by the code.
* `PlayerFairness`: frames are drawn, updates rendered, requests and media
  elements end one way or the other; the refusal of autoplay, which
  `StoryViewer.tsx:231` swallows and no timer repairs, is not among them.
* `ComposerFairness`: a flow goes on. Its polling has a deadline and a port that
  closes is an event the page handles, but of its requests it is assumed that they
  end: those of the client time out, while the PUT of the bytes (`upload.ts:73`,
  `:96`) has no limit of its own and ends as the browser and the network let it.
* `TuiFairness`: the viewer's tick re-arms itself, and every command has a
  deadline and answers.
* `CallFairness`: a call goes on unless it waits, and PostgreSQL finds deadlocks.
* `RunFairness`: the schedule recurs, time passes, a call of the trigger returns
  within its five seconds, and an execution goes on, whatever its attempt comes
  to, until it is stopped. Nothing is assumed of how long an upload is processed,
  nor of its Story: what `UploadsSettle` leaves out is `Stuck`, an upload that no
  execution can settle, and what is younger than one (section 6).

The parts without a property of liveness have no fairness.

Of users nothing is assumed, nor of evictions, crashes or the service's worker.
The two properties of viewers are therefore conditional: a viewer that is left
alone, and not paused, comes to its end.

## 5. Proofs

`tlapm` proves, for every value of the constants that satisfies
`PipelineAssumption` and `CleanupAssumption`:

* `TypeCorrect`, and `Invariance` of the inductive invariant `IInv`;
* `PublishedHasBytesHolds`, `OnlyGoneStoriesReclaimedHolds`,
  `ProcessingHasJobHolds`, `SettledOriginalNamedHolds`: each safety property of
  the pipeline, the last two as parts of `IInv`;
* `StoryOnlyAdvancesHolds` and `FinalizedOnceHolds`: the action properties;
* `Refinement`: the pipeline implements `StoryLifecycle`;

and, under `CleanupAssumption` and `QueueAssumption`, the corresponding facts
for the queue: `QueueInv`, `DoneMeansGone`, `WrittenOffWhenSpent`, and that it
implements `Reclaimer`; and, under `SignInAssumption`, for the sign-ins:
`Invariance` of `SignInInv`, `OneSession`, and `Refinement`, that each of them
is a `OneTimeGrant`. Under `SocialAssumption` and `InteractionsAssumption`, of
the graph: `Invariance` of `GraphInv`, `BlocksHoldHolds`, `TombstonesHoldHolds`,
`OnlyBlockerUnblocksHolds` and their sum `BlocksStandHolds`; of the interactions:
`SocialInvariance` of `InteractionsInv`, `CustomListIsOwnHolds`,
`InboxMatchesReactionsHolds`, and `GateRefinement`, that they implement
`AudienceGate`.

Of the clients and of the service around them, each under its own module's
assumption, with the invariant it rests on:

| Theorem | Invariant | For every number of |
|---|---|---|
| `LoginsAreGrantsHolds`, `OldTokensStayHomeHolds`, their sum `TokensGuardedHolds` | `Shape`, `GrantInv`, `HomeInv` | accounts, sign-ins, origins, disturbances |
| `SessionInvHolds` | `Shape`, `StoredInv` | the same |
| `NoInventedAnswerHolds` | `RingInv` | avatars, people, questions, requests, failures, and any size of a batch |
| `OnlyShownIsFetchedHolds` | `PlayerTypeOK` | groups, Stories, gestures |
| `PostedHasSettledHolds` | `ComposerInv` | posts, evictions |
| `OneStoryHolds` | `PostInv` | repetitions, size limits |
| `Invariance`, `OthersUntouchedHolds` | `CredInv` | services, processes, commands |
| `VerdictKeptHolds` | `ProbeInv` | runs, typed keys, terminals |
| `ReplyMeetsItsItemHolds` | `TuiInv` | authors, Stories, keys, late messages |
| `LoginsKeptHolds` | `DirectoryInv` | identities, logins, calls |
| `OneHolderHolds` | `RunsInv` | uploads, processes, executions, and any lease no shorter than the timeout of a task |
| `HiddenIsAbsentHolds` | none: of each answer, a lemma | Stories, authors, viewers |
| `FeedAsPromisedHolds` | `Dated` | Stories, authors, instants, provenances, limits |
| `ProcessedAsPromisedHolds` | `MediaInv` | originals, limits, tools, interruptions |
| `WithinRateHolds` | `RateInv` | keys, callers, rules whose window is not longer than an idle bucket is kept |
| `ExtensionTyped`, `CommandLineTyped`, `ServiceTyped` | those above, `TriggersOK`, `IndexInv` | everything the parts are for every number of |

`PublishedHasBytes` is not inductive. Two things must be known before a step of
`PublishStory`: that the variants a loop believes it stored are still there
(`StoredInBucket`), and that no row names a variant of a Story that is not over
(`OnlyGoneStoriesReclaimed`), since otherwise a cleanup loop could delete one.
`StoredInBucket` is itself stated only for Stories that may still be shown:
after a deletion the cleanup loop does take the bytes of a running attempt. The
two other properties need `JobFirst`, that a Story never precedes its job. So
`IInv` is `TypeOK`, the four properties, `JobFirst` and `StoredInBucket`, and
`pipeline` checks it as an invariant.

For the queue, `DoneMeansGone` needs to know what the loop knows when it marks a
row (`DeletedMeansGone`), and `WrittenOffWhenSpent` that the row has counted
every claim a loop still acts on (`ClaimsCounted`): both loops of a row whose
lease passed on go by the count of their own claim.

`OnlyGoneStoriesReclaimed`, `DoneMeansGone`, `HandedToApprover`, `CustomListIsOwn`
and `InboxMatchesReactions` are conjuncts of the invariants the runs check
(`IInv`, `QueueInv`, `SignInInv`, `InteractionsInv`) and have theorems of their
own, or one with the invariant.

For a sign-in, `HandedToApprover` needs to know what a row parks (`ParkedToken`:
a session of the recorded approver, and of a row that has handed over nothing),
what a handler holds between two statements (`TaskHolds`: a token of the user it
identified), and that a consumed browser flow has at most the one handler that
consumed it (`FlowOwned`), which is what lets that one hand over a session
without looking at the row again. The refinement then has a lemma for each
abstract step (`OpenStep`, `GrantStep`, `HandStep`, `CloseStep`, `IdleStep`)
that asks what changed in one row, and one lemma per handler that cites it.

The three action properties of the graph are about what one commit may do, and
rest on what a call knows when it commits: `CallHolds` says that what a check
found still stands unless the call is marked as overtaken, that its caller has
an account and that its target is somebody else. From the last two follow
`OwnersExist` and `SelfFree`, the facts about rows that `GraphInv` adds. The
lemmas `QuietStep`, `HarmlessStep` and `OvertakeStep` carry it over steps that
leave the tables alone, that only take entries from them, and that take a follow
from a call.

`InboxMatchesReactions` needs `NoSelfMention`, since an author's own reaction
replaces the row and leaves the inbox alone. `CustomListIsOwn` needs
`RequestHolds`: an edit that has resolved its list holds a list of its own
caller, which no other step can give away, even if it is deleted. For
`GateRefinement` the lemma `AudienceHolds` shows that the predicate, written as
the SQL is, admits members of the audience only, `GateAuthorize` that passing it
is the abstract `Admit`, `GateLeave` that one request leaves exactly its own
trace, and `GateRequest`, `GateQuiet` and `GateDeletion` that no other step adds
one.

`OneStoryPerCommand` is not inductive: an authorization other than the one the
command holds could be finalized, for all it says. `PostInv` adds that whatever
has become a Story is the upload the command holds, and that the command has
then reached finalize, from where it never authorizes again.

`OthersUntouched` needs to know what a process is about to write. `CredInv` says
that, as long as no two processes have overlapped, at most one is active, the
file and the temporary file are different inodes and the file parses
(`DiskSound`), and that what a process holds is the file's content but for its
own service (`ProcessHolds`). Inodes are numbered by the commands that make
them, which is how a fresh one is known to be neither of the two. It follows
that the rename is the only step that changes what the file says.

`StoredNotRefused` says nothing of a login on its way. `LoginOK`, for each login,
adds that one whose token is stored, or that was refused, is pending no more and
is asked about no more, that one about to be stored has been forgotten, and that
one the service has just made is known to its starter only. `Shape` adds to the
types that a poll or a starter holds a login from the step that gave it to them.

`LoginsAreGrants` says of `service` in `ExtensionSession` what `Refinement` says of
`SignIn`: that each login implements `OneTimeGrant`. The two modules see the same
logins, one from the handlers of the API and one from the service worker, and are
tied together by this one promise. It does not hold of the service's answers alone,
since a sign-out names the login whose session it revokes: `GrantInv` says that
every token the extension stores or carries has been handed over (`Known`), so that
no revocation reaches a login still open. `ServiceMoves` then lists what one step may
do to one login (`Legal`), and `GrantStep` maps each to a step of the grant. In
`OneTimeGrant` deadlines come nearer, one at a time or all at once, because the
extension's model lets each login's pass by itself.

`OldTokensStayHome` rests on the order of `setServiceOrigin`. As long as no
sign-in and no removal has overlapped with a switch, whatever the worker stores
(`HeldAtHome`) or carries between two awaits (`CarriedAtHome`) belongs to the
configured service, and a switch in progress finds it carrying nothing and, from
its second step on, no account stored (`SwitchAtRest`). The last step may then
change the origin under an empty store. `HomeQuiet` carries `HomeInv` over steps
that take up nothing new, `HomeBusy` over those that do.

`NoInventedAnswer` is about a question already answered; `RingInv` follows a
question there: what a cache or a response holds has been told, and the people of
a waiter are on the queue until one flush takes both.

`OnlyShownIsFetched` needs no more than the types, but a lemma for each way the
viewer moves: a step that enters a later group shows its first item
(`NextFits`), which is the one that is warmed (`FollowedFits`, `FirstShown`).

`PostedHasSettled` needs `FlowOK`: a flow that has said "done" belongs to the page
that listens, and its Story had been settled.

`VerdictKept` needs `ProbeInv`: every reply owed, waiting or read is one the
terminal gives (`Heard`), whichever run asked for it, and a stored verdict names a
protocol it speaks. `ReplyMeetsItsItem` needs `TuiInv`: text belongs to a reply in
progress, unless a late viewers list has interrupted it.

`LoginsKept` needs `DirectoryInv`: GitHub gives a login to one account at a time,
and a call writes only of accounts GitHub has answered it about (`Sound`). For
`OneHolder`, `RunsInv` says (`Covered`) that an execution has worked on its job no
longer than it has run, and that it runs no longer than the timeout, so that its
lease, which is as long, has not ended.

The type of `Identities` says that no two rows hold one login, which PostgreSQL's
index enforces and the model has to earn: a statement waits for an entry that an
open transaction has written. `IndexInv` says what such a transaction holds, that
two calls never hold entries of one login, and that what is committed agrees with
it; one lemma per kind of statement (`IndexByWrite`, `IndexByRelease`,
`IndexByCommit`) carries it on.

`WithinRate` is about sums over windows of every length, and needs no induction
over them: `RateInv` says of every window that has begun, at once, that what it
has granted and the tokens left are together no more than the burst and the
refill of that window. A collected bucket loses its count, and `RateInv` knows
that it was idle for as long as any window it could still be in.

`ProcessedAsPromised` has four parts, and `MediaInv` says what each step knows.
From the judgement on the original is `Admitted`: all that limits.go asks and a
header can tell (`JudgementTells`). Only a decoder or the encoder can tell the
rest, which is why a film becomes acceptable at its poster and a still when it is
decoded (`AdmittedIsAcceptable`). A fault without retry has a culprit (`Blamed`),
or the worker is being stopped and will not be able to record it: `ToolKeeps` is
that lemma, and the reason the property holds at all, since a tool killed with
its context is reported as corrupt media. That the sizes are as promised is
arithmetic on any sides and bounds: `ScaledBrings` for a scaled side, `FitBrings`
for a picture, `Halved` for the sides of a film, and from them `StillsBrought` and
`FilmBrought`. `CountingTells` shows that the scan of frames, though it ends with
the default limit, decides as a full count would for every configured limit that
is not larger.

`FeedAsPromised` is proved from the rows up. `KeyOrders`: the key of `ORDER BY` is
a strict total order of the visible rows, the viewer's in front, each author's
oldest first, and it never puts a row before one of an author the comment of
`feed.go` promises to be `Ahead`. That no two rows tie needs `Dated`: Stories of one
author are of two instants, which `Publish` keeps. Sorting needs no induction over
the rows, because `Feed` says where a row stands instead of how it gets there: a row
is at the place that as many rows precede it. `RanksGrow` and `RankedSorts` show
that these places are a bijection, for any finite set and any strict total order of
it, and `RankedOnly` that no other sequence is sorted so. What the loop in Go picks
from the rows stays sorted (`PickedSorts`), the first rows of the authors keep the
authors' order (`OrderTells`), and a limit takes the first of them and leaves out
only what is behind (`FirstFill`). That gives `FeedOrdered` for every limit. A group
of the feed and the author's page are two statements; that they are one sequence
(`PageMatchesGroup`, for `RingsMatchFeed`) is the uniqueness of `RankedOnly`, since
both hold the same Stories oldest first.

`Greatest` finds the greatest number of a finite set without induction over its
size (by well-founded minimality), which gives the feed's token its type.

The proofs have one step per action, with the queue's actions proved once in
`ObjectCleanupProofs` and used by both other modules. The assumptions on the
constants are types, that bounds are natural numbers, that there is at least one
kind of variant and that the original is not one, that a tray has groups and each
group Stories, that no value stands both for something and for nothing, that a
backoff is a natural number no longer than the last one, that there is a kind of
key, at least one instant and finitely many Stories, in `WorkerRuns`, that a
lease is no shorter than a task's timeout, and in `MediaProcessing`, that
originals have the shape of `OriginalType`, that the bounds of sizes are not zero
and that the configured limit of frames is not above the default one: a probe
counts to the default (`probe.go:176`), and the worker configures no other.

Only model-checked: the liveness properties (fairness and `ENABLED` are out of
the prover's reach), and the disagreements of section 6. Every invariant and every
action property of the passing runs has its theorem. `FeedTyped`, the type of
`Feed`, is proved and not a run's.

## 6. Where the code and its comments disagree

| Run | Comment | Code |
|---|---|---|
| `find_withdrawn` | `worker/media_loop.go:147` "will be swept up by ordinary story-expiry cleanup" | `DeleteStory` names the keys in `media_variants`, empty before publication; `ExpireStories` looks at published Stories only. |
| `find_follow` | `store/graph.go:153` "Blocking also removes the follow relationships in both directions and prevents new interactions" | `putFollow` asks `BlockedEitherWay` with the zero id for the target's account, so that only the caller's own blocks are found. The blocked party may follow, and the follow counts once the block is lifted. |
| `find_import` | `store/identity.go:39` "Release the stale login, then retry once" | In the import's transaction (`store/graph.go:83`) the duplicate key has ended the transaction; the release is refused, and so every import that lists the new holder of a login recorded for somebody else. |

The modules state more of what comments say and the code does not keep. These have
no run of their own; a configuration that names the property shows the trace with
the constants of the runs above.

| Property | Comment | Code |
|---|---|---|
| `ProcessingOriginalKept` (`MediaPipelineProperties`) | `store/jobs.go:104` "authorized but never finalized" | `FinalizeUpload` reads the intent without a lock. A collection that commits in between has named the original of a Story that is then processed. |
| `SwitchDropsTokens` (`ExtensionSession`) | `state/session.ts:83` "Drop credentials and any pending login BEFORE switching, so an in-flight request can never send the old bearer token … to the new origin" | A sign-in, a sign-out or a removal after a 401 that has read the accounts before the switch writes them back after it: `upsertAccountSession` and `removeAccount` read and write the accounts in two awaits. |
| `OneStoryPerPostKey` (`Composer`) | `api/upload.ts:5` "A retry after a dropped connection reuses the same `Idempotency-Key` … so it can never create a duplicate Story" | `postUpload` mints an authorization on every call and never looks at the key (`handlers_upload.go:52`); only `postReply` does. A post whose finalize answer is lost, and is retried, makes a second Story. |
| `NoBareEscapes` (`TerminalProbe`) | `terminal/capability.go:52` "must not emit protocol escapes inside tmux unless this is true" | The cached verdict keeps the protocol and not `TmuxPassthroughOK` (`capcache.go:101`), and `Render` wraps its sequence only if that is set: from the second run inside tmux on, escapes go out bare. |
| `ShellSeesNoReplies` (`TerminalProbe`) | `terminal/capability_unix.go:149` "discards probe replies that arrive after the budget (a slow terminal can answer DA seconds later)" | The drain gives up after 50 ms (line 170). |
| `SignInHasUser` (`Identities`) | `store/identity.go:208` "registers an account for a GitHub identity, or returns the existing one" | Of two first sign-ins at once, the second's INSERT does nothing and its SELECT, on the same snapshot, sees no user: it ends with an error. |
| `TokenTellsChanges` (`Feed`) | `store/feed.go:350` "a cheap change token clients poll instead of refetching" | `getFeed` reads the token after the feed (`handlers_feed.go:28`, `:32`): it covers a Story the answer lacks. No route returns the token alone. |
| `CoalescedIsDrained` (`WorkerRuns`) | `api/trigger.go:24` "one execution drains the whole queue, so a second start within this window would only bill another container" | An execution that has found the queue empty is over or about to be; an upload finalized within ten seconds of its start has none until the schedule. The window counts from the attempt, so it is the same after a start that failed. |
| `ClaimedIsFinished` (`WorkerRuns`) | `worker/worker.go:190` "always finishes a claimed job" | `RunOnce` passes its own context to the attempt (line 212), and SIGTERM cancels it; `runMediaLoop` passes a fresh one for this reason (`media_loop.go:32`). |
| `BudgetsEndJobs` (`WorkerRuns`) | `media/limits.go:60` "bounds total wall-clock time spent on one job"; `store/story.go:228` "retrying with backoff until the attempt budget is spent" | The bound is three minutes and the task ends after 120 seconds (`worker-job.yaml:36`), before the failure is recorded; `ClaimMediaJob` (line 146) takes the expired lease whatever its attempts. The Story stays processing for ever. |

Two kinds of upload are settled by no execution, and `UploadsSettle` leaves them
out (`Stuck`). The Story of one was withdrawn while it was processing:
`worker/media_loop.go:150` logs "dropping job" and the row of `media_jobs` stays
leased, so that it is claimed again when the lease ends, transcoded again and
refused again, for ever (`PublishRefused`). The other is the slow one of
`BudgetsEndJobs`. Both keep the place in the queue their age gives them, and
`ClaimMediaJob` takes the oldest first: twenty withdrawn uploads (`MaxJobs`), or one
upload too slow for a task, take up every execution that finds their leases over, and
hold up whatever is younger. Uploads younger than a stuck one are therefore
left out as well; they go on when an execution finds the stuck ones leased.

Comments the models contradict without a run of their own: `worker-job.yaml:11`
says that the schedule comes "every 15 minutes", and `cleanup_loop.go:67` builds on
that; `scheduler-jobs.sh:51` makes it six hours. `store/idempotency.go:14` says "A retry after a dropped connection must not
create ... a duplicate reply", but `postReply` looks the key up, stores the reply
and records the key in three statements (`handlers_stories.go:356`), and a retry
in between stores a second one.

Other behaviours the model has, that no comment denies: a PUT that lands after
its upload was collected stays in the bucket; an upload can be finalized with no
object stored, and its media job then fails; the size and checksum recorded at
finalization are never compared with the object.

In `SignIn`: a login that is approved when its poll budget is spent ends as
expired, and its token stays in the row, handed to nobody, until the purge; a
denial that comes after an approval is accepted and changes nothing; a session
whose approval lost its race stays live until it expires.

In `SocialGraph`: an import that looked at a person before an unfollow or a
block takes the follow back when it commits, and a block that is committed after
`putFollow` has checked is crossed by its follow. An import does not ask whether
its caller is suspended. In `Interactions`: a set and a clear that overlap can
leave a reaction of which the author's inbox knows nothing, never the reverse;
two replacements of a list's members that overlap may leave the union of both;
an anonymous view is counted of an author suspended since the Story was opened;
a handler admitted before a block or a narrowed audience still leaves its trace,
which is why `AudienceGate` speaks of one moment of the request.

In `ExtensionSession`: a poll of the alarm that fails clears the alarm
(`background.ts`), so a login then waits for the popup or the next start-up
(`blipped`). A second sign-in that is saved while the first one's poll is in flight
(`crossed`) finds the loop running and starts none; when that poll is approved or
refused it ends the loop and, if the alarm awaited it, the alarm
(`background.ts:123-128`), and the second login stays pending, polled by nobody
until the popup or a start-up asks. The poll may even forget the second login in
place of the first, since it clears whichever is pending. A switch of service while
a sign-in is in progress, or while an account
is being removed, may leave the old service's token beside the new origin (`mixed`);
the popup stays on its
waiting page when the loop, and not its own poll, has taken the approval; an
approval whose answer is lost is handed over once and the session is lost.

In `AvatarRings`: waiters of the questions a flush puts back for the next one are
resolved with it, as "no Story" (`ringCache.ts:189`, `overrun`); a request that
began before a sign-out writes its answer into the cache the sign-out has
cleared; an answer may be painted on an avatar that has been reused since it was
asked for.

In `StoryPlayer`: a gesture between the frame that ends an item and its render
advances twice, and may ask for media one past what is shown (`raced`); media
that arrives after the viewer was closed keeps its object URL.

In `Composer`: the progress view's button goes back to the preview and stops
nothing, since no page sends the port's "cancel"; a flow left behind sets the
status of whatever the page shows when it ends. A Story that ended as failed or
deleted is reported like a published one (`upload.ts`, `uploadPort.ts`), which
is why `PostedHasSettled` says settled. The idempotency key is kept when the
draft changes.

In `PostCommand`: `--wait=false` waits all the same, and reports a Story that
failed as accepted (`cmd_post.go:142`).

In `Credentials`: two processes share one temporary file, so that one may rename
what the other has half written, or not begun to write, or write into the file it
has renamed (`overlap`), and a file without a byte counts as one without sessions; their probes share one keyring entry, and a probe that loses this
race makes its process use the file; a session stored under one backend is not
found under the other.

In `TerminalViewer`: quitting leaves the images on the terminal; an animation
whose start is reported after the viewer moved on is never stopped; the answer
of a fetch for an item left behind ends the loading state of the current one; an
item that expires is left even while a reply is typed; a viewers list that
arrives late takes the place of the reply being typed (`interrupted`).

In `TerminalProbe`: a run that was killed while it probed leaves its replies to the
next run, whose fence they may be; the verdict still holds, for the replies are the
same terminal's. A verdict found inside tmux is used on another outer terminal that
the session is attached to later; the model's host does not change.

In `Identities`: an observer behind the times releases the rightful holder of a
login, whose row is then found again at its next sign-in only; `faithful` leaves
such rows out of `LoginsKept`.

In `MediaProcessing`: a tool that fails for a reason of its own machine, a full
disk for instance, is reported as `corrupt_media` and not retried, as is one that
is killed with the worker's context, but for the record that the same context
prevents (`broke`, `stopping`; `ffmpeg.go:150`); `errors.go:42` promises a retry
to "a transient environment problem", which a missing tool and a deadline get. `limits.go:21`
bounds a video "before and after any composer-supplied trim", and `processVideo`
looks at the length after the trim only; the worker asks for no trim. A panic in
a decoder leaves the files `Process` has written (`process.go:109`) until the
worker removes its own directory around them.

In `WorkerRuns`: a start that is missed delays an upload until the schedule; a job
cut off by the timeout waits for its lease besides.

In `RateLimiter`: a rule of an hour is refilled early, since a bucket idle for
fifteen minutes is dropped and the next call gets a full one (`ratelimit.go:76`).
`WithinRate` is therefore about rules whose window is not longer than that.

## 7. Not modelled

* **Pixels, samples and container formats, the bytes of terminal pictures and the
  sanitizer, page layout.** Computation and formatting by third-party code, or
  byte formatting: no state. What the code decides from them is in
  `MediaProcessing`.
* **Media gateway**: its authorization is `VisibleToViewer`, which `Interactions`
  models, as it does the view it records; what is left streams one response.
* **Moderation reports and the record of actions**: rows no other part reads.
  What an action does to a Story or an account is modelled.
* **The objects a deletion of an account names**, and the export of an account.
* **Signing out everywhere, deleting the account and switching accounts in the
  extension**: the removal and activation steps of `ExtensionSession`, from
  other buttons.
* **The keyring's index file**: only `List` reads it, and no command lists.
* **Captions, alternative texts and drafts**: no property tells them apart. An
  edit of a Story's audience is modelled, in `Interactions`.
* **One's own list with Stories still processing, and the counts attached to it**:
  single reads without a rule.
* **Idempotency keys** are consulted for replies only, and modelled there; the
  key of an upload is modelled in `Composer`, where the service ignores it.
* **Revocation and expiry of sessions, and the purges** of replies, views and
  spent logins. A purge deletes rows whose deadline passed an hour ago or more;
  a handler that long in flight finds nothing and fails (`CallEnds`, `TaskEnds`).
* **Configuration, migrations at start-up, presentation, the static site.**

PROJECT.json lists every component, and says of each hazard without a property
why it has none.

## 8. Order of work, and what remains

The modules were written in the order of what would hurt most if it were wrong:
the media pipeline and its deletion queue, sign-in, the social graph and the
interactions on it, then the clients, the extension before the command line, and
last what surrounds them: the worker as a job, identities, the feed, the terminal,
the attempt of a media job. The proofs followed in the same order.

What would be worth adding next, each for a stated reason left out so far:

* the extension's session and `SignIn` composed step by step; they share the promise
  of `OneTimeGrant` so far, which both are proved to keep;
* the deletion of an account against a running worker, which needs the account
  and `media_variants` in one model, and shows the leak `find_withdrawn` shows;
* `WorkerRuns` and `MediaPipeline` as one model, with the attempt's steps timed.
