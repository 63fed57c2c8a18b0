# Formal model of the video platform

TLA+ specifications of the parts of this repository that are hard to test: the
processing of an uploaded video by workers that crash, stall and overtake each
other; the outbox, queue and reconciler that bring every request to an end; the
hand-over of an upload from a browser that loses answers; the visibility of
a video that its owner edits while it is being published; a worker that stops
while its media tools run; playlists under concurrent requests; lists that are
paged through while they change; and a viewer who goes from video to video. TLC
model-checks the specifications on small instances, and TLAPS proves the most
important properties for every value of their constants.

Every definition is translated from the source; `PROJECT.json` names, for each
one, the lines it stands for (`map`). It also lists the components, the runs,
one mutation of the code for every checked property (`mutants`), the hazards of
the code with the properties that watch them, the theorems, and the findings.

    cd tla
    tlc -workers 2 -config MCAttemptOwnership.cfg MCAttemptOwnership
    tlapm AttemptOwnership_proofs.tla

Paths below are relative to the repository: `worker/` stands for
`apps/worker/src/`, `api/` for `apps/api/src/`, `web/` for `apps/web/src/`.

## 1. The system

A browser (Next.js) talks to an API (NestJS); the API and the workers share a
PostgreSQL row per video, a BullMQ queue in Redis, and an S3-compatible store.

    browser --draft, start, complete--> API --row + outbox event--> PostgreSQL
       |                                 |  outbox publisher           ^
       +--signed POST--> object storage  v                             |
                             ^         BullMQ --job--> worker --leases, READY
                             +---- thumbnail, HLS -----+
                                         ^  reconciler (in every API) |
                                         +----------------------------+

### Components

| Component | State it keeps | Operations | Correct when |
| --- | --- | --- | --- |
| Video lifecycle (`packages/types`) | `Video.status` | the transition table | every writer, raw SQL included, stays inside the table |
| Attempt ownership (`worker/processing-lease.ts`, `video-processing.pipeline.ts`) | generation, attempt, lease and committed attempt of the row; objects under one prefix per attempt | acquire, upload, publish, fail, release, clean up, sweep, fail a stranded generation | READY has its complete output, published once; a live owner is not displaced; old generations are inert; nothing is leaked silently |
| Attempt lease timing (`AttemptLease`) | local validity, timers, a chain of renewals | heartbeat, `ensureOwned`, renew, cancel, stop | local validity never outlasts the database's lease; two workers never work at once |
| Worker service (`worker/video-worker.service.ts`) | active jobs and their signals | run a job, react to a terminal failure, shut down | every failure is recorded or left to the reconciler |
| Outbox publisher (`api/infrastructure/queue/processing-outbox.publisher.ts`) | `ProcessingOutbox` rows | enqueue, mark, back off, delete old events | an event is enqueued at least once, and kept as long as it may be needed |
| Queue adapter and BullMQ | one job per video and generation | add, state, requeue | external; modelled from the calls made of it |
| Reconciler (`api/infrastructure/queue/processing-reconciler.ts`) | a claim window and a count on the event | scan, claim, inspect, fail or re-publish | every stranded generation is settled, after a bounded number of recoveries |
| Uploads (`api/uploads`) | `VideoUpload`, the ORIGINAL asset | start, complete | accepted means backed by an object and one event, however many calls overlap |
| Upload form (`web/features/video-upload`) | phase, recovery, abort signal | submit, cancel, retry upload, retry finalization | it never sends bytes again that were accepted, and never reports success that was not |
| Video management (`api/videos/videos.service.ts`) | visibility, publication date, status | create, update, delete, retry, list, watch | public READY videos are listed; retries and deletions lose no work silently |
| Media delivery (`api/videos/media.controller.ts`) | none | send manifest, segment, thumbnail | serves only the committed attempt, to whom it may |
| Playlists (`api/playlists`) | playlists, items with positions, one advisory lock per list | create, list, update, delete, add, remove | at most 200 items in the order they were added, one Watch Later, no caller sees a constraint violation |
| Child processes, media tools (`worker/run-process.ts`, `hls-renditions.ts`) | one child process | run, abort, time out; choose the renditions | no child outlives the promise or runs on untold; every picture fits its source |
| Player (`web/features/video-player`) | the source of the media element, hls.js instance, recovery counts, last position | attach, recover, resume, retry, dispose | only the current source has the element; playback is kept when nothing concerns it |
| Watch tracking, history (`web/features/watch-history`, `api/history`) | last saved position, seconds watched, view of the day | record view, save and flush position | a view is counted only for what was watched, and once a day |
| Likes, comments, subscriptions | rows and counters; optimistic state of the buttons | toggle, add, remove | counters agree with rows |
| Feeds, search, cursors (`api/feeds`, `api/search`, other lists; the lists of `web/widgets`) | none; pages in the browser's cache | keyset pages, load more, refetch | no item twice, none that was there throughout missing |
| Sessions, rate limits, health, HTTP plumbing, pages | session rows, Redis windows | single conditional statements | see "Not modelled" |

### How they interact

* **Through the video row.** The worker, the stranded-job handler, the
  reconciler, the retry, the deletion and `update` each write it with
  conditional statements; there is no other lock between them. Every
  hand-over is decided by what the `WHERE` of a statement still finds.
* **Through the outbox.** Completion and retry write an event in the
  transaction that makes the generation pending. Publishing is at least once:
  BullMQ recognizes the job id, and the worker checks the generation.
* **Through object storage.** Attempts write under prefixes of their own, and
  cleanups read the row before they delete. Storage takes part in no
  transaction.
* **Through answers that may be lost.** The browser learns the outcome of
  `complete` from its answer or from a later look at the owner's view.
* **Through one signal.** A stopping worker aborts every lease, the lease aborts
  the media tool that runs, and each level waits for the one below under a bound.
* **Through caches of the browser.** A list keeps the pages it was given; the
  watch page keeps a player across refetches of the video's data.

### Hard behaviours

Jobs delivered twice or after their generation ended; leases that end during
the work; commits, acquisitions and renewals whose answer is lost; renewals
that wait for a row lock past the lease they renew; crashes between enqueue and
mark, between re-publishing and counting, between two writes of one save; a
queue that loses its data; cleanup that races publication; completions that
overlap; decisions on a row that was read before somebody else wrote it; a
child process that ignores a request to end, or whose end, timeout and abort
coincide; a job delivered after the shutdown has counted; rows that move between
two pages; imports and events that arrive for a source that is gone.
`PROJECT.json` lists these hazards with their lines.

## 2. The modules

| Module | Models | Run(s) |
| --- | --- | --- |
| `VideoStatus` | the statuses and the shared transition table; `GONE` is a deleted row | all |
| `GenerationLifecycle` | abstract: status, generation, and what a viewer is served | implemented by `AttemptOwnership` and `ProcessingQueue` |
| `AttemptOwnership` | executions, janitors, the owner, the row and the objects | `attempt_ownership` |
| `InFlightCommit` | `AttemptOwnership` plus a connection that breaks during COMMIT | `in_flight_commit` |
| `LeaseClock` | the lease on a clock, renewals in transit and at the database | `lease_clock` |
| `ProcessingQueue` | outbox, publisher, BullMQ, worker slots, reconciler, faults | `processing_queue`, `processing_retries`, `recovery_bound` |
| `UploadCompletion` | browser form, start and complete handlers, storage | `upload_completion` |
| `Publication` | `update`, the READY transaction and the deletion | `publication`, `publication_date` |
| `HlsRenditions` | which pictures ffmpeg is asked for: pure operators | `worker_shutdown` |
| `WorkerShutdown` | executions, their media tools, and `onApplicationShutdown` | `worker_shutdown` |
| `Shelf` | abstract: a playlist is one line of distinct videos | implemented by `Playlists` |
| `Playlists` | concurrent requests to the playlists of an owner, by statement | `viewer_pages` |
| `Pages` | nine paged lists, their cursors, and the pages a browser keeps | `viewer_pages` |
| `WatchSession` | player, watch tracking and the API's history | `viewer_pages`, `refetch_tears_down` |
| `ViewerPages` | the last three side by side, and what they promise together | `viewer_pages` |
| `*_proofs` | theorems about the module they are named after | TLAPS |
| `MC*` | the instances for TLC: values of the constants | |

### AttemptOwnership

An *execution* is one delivery of a job: `VideoWorkerService.runJob` around
`VideoProcessingPipeline.execute`. `pc` follows the code: `acquiring` is
`acquireAttempt`; `working` ends in the `ensureOwned` before the uploads;
`uploadThumbnail`, `uploadHls`, `verifying` (the second `ensureOwned`) and
`publishing` follow; `removeObsolete` is the sweep after the commit;
`catching` is `classifyFailure`; `cleaning` and `removing` are the read and
the deletion of `cleanupUnpublished` in `finally`; `settling` is `runJob`'s
`catch`, which fails or releases. Any step may be the last one of an execution:
that is a crash. Since `acquireAttempt` draws a UUID, an attempt is named by
its execution.

A *janitor* is `failStranded` of the worker or one `reconcileOne` of the API:
it reads a candidate, writes conditionally, and cleans up after the attempt it
had *read*, which by then may not be the one recorded.

The two ways in which an answer gets lost are actions: `AcquireUnanswered`
(the row is taken, and the client sees an error), and a `Publish` that commits and
throws. Reads that fail are `ClassifyUnread` and `CleanupUnread`. The read and the
write inside the READY transaction are one step, because the first statement
takes the row lock that the last one releases.

Abstracted: time (a lease may expire at any step, `LeaseClock` measures it);
the media work, one step with any outcome; the objects of an attempt, two
parts, uploaded in order. Deleting a prefix may fail in part: then the model
removes any subset of the *prefixes* in a deletion of the video, and all or
nothing of an attempt's own prefix; a partly removed prefix of an unpublished
attempt is as uncleaned as a whole one.

### LeaseClock

One clock, ticking for the database and the workers: the code never compares a
database time with a local one. An `UPDATE` has three instants: sent by the
client, started at the database, and evaluated, when it has the row lock; and its
answer may be late. An acquisition judges the old lease, and counts its own, from
its start (`acquireStart`, which is `now()`), so one that waits for the row records
a lease of which a part has elapsed, or finds nothing to take (`AcquireNothing`). A
renewal counts from its start too, but judges the old lease when it is evaluated
(`clock_timestamp()`). `renewals` is the promise chain of `AttemptLease.renew`. Timers are
punctual: `Tick` waits until due timers have run, which is the assumption under
which the code's claim is a claim at all; how late a timer may fire in a blocked
event loop is not bounded by anything in the code. A renewal whose connection
breaks was evaluated before the client sees the error, or never is; the
alternative, a commit still under way, is the subject of `InFlightCommit`.

### ProcessingQueue

One outbox row, one BullMQ job and one set of worker slots per generation;
ownership as above with the objects left out. `publishing[a]` is an API between
enqueue and mark, `pass[a]` a reconciler inside `reconcileOne`, with the count it
read. A slot keeps the count of attempts its job had when it was taken, as the
worker's `Job` object does. `republished` is a history: how many jobs the reconciler
put back for a generation, and how many of its passes failed before they
could count one. Grace period and cooldown are one flag that may drop at any time. A BullMQ
job is modelled from its use: adding an id that exists does nothing; attempts
are counted; a job whose lock holder is gone is queued again or fails as
stalled; Redis may lose any job. A job of a superseded or settled generation
completes in one step. `requeue`'s `getState` and `remove` are one step, and the
`add` after them is another.

### UploadCompletion

`call[c]` is an API handler under way or its answer; up to three are, because
the form gives up waiting while the handler runs on. `start` is a read, a
conditional transaction and the signing; `complete` is a read, the HEAD, a
conditional transaction, and the second read of `completionRaceLost`. What happens
to the video after the hand-over is one action, `Process`, with every change of
status that workers and reconciler make. The
signed policy pins key, type and size, so that storage either has the declared
object or has none: the branch in which HEAD finds other metadata is not
reachable and not modelled. Bytes that arrive after the form gave up are part of
`BytesFail`; bytes still arriving after the video was deleted are not modelled
beyond that step.

### Publication

A save reads the row, computes the date it will write from that read, writes
visibility and date, and, if what came back is public, READY and undated, writes
a date in a second statement. All of it races the READY transaction and
the deletion. Saves that set title and description only touch none of this and are
left out.

### WorkerShutdown and HlsRenditions

`stage[j]` is what the shutdown sees of an execution: `reading` is before the lease,
`tool` while a `runProcess` is pending, `cleaning` is `finally` and the record of
a failure, which do not listen to the signal. `child[j]` is the process and
`terminated[j]` the variable of that name in `run-process.ts`: a child that was told
settles with `exit`, any other with `close`. `plan[j]` are the tools still to run,
first ffprobe, then what `HlsRenditions` computes from the stream it found.
`phase` follows `onApplicationShutdown`; each bounded wait may run out at any
step, except that the wait after the cancellation outlasts the two seconds between
SIGTERM and SIGKILL (`ToolsHadTheirGrace`: the configuration gives it five or
more). BullMQ is external: a fetch under way may deliver one job after `pause`.
The hooks of the database and the storage that also run on shutdown are not
modelled, nor is the order NestJS gives them. `HlsRenditions` computes with exact
quotients where the code rounds floating-point numbers; the two agree except where
a quotient is exactly between two even numbers.

### Playlists and Shelf

A request is a sequence of statements, each a step under READ COMMITTED, and may
fail at any of them. `lock[l]` is the transaction's advisory lock: `addVideo` takes
it, `removeVideo` and the deletion of a video do not. `findWatchLater`,
`createWatchLater` and `findWatchLaterAgain` are `ensureWatchLater` with the
unique key in between. `Line(l)` reads the rows in the order of their positions,
and is what implements `Shelf`.

### Pages

One list is open at a time. `Selected` is what each service's query finds, `KeyOf`
the keys it sorts and pages by, `IsAfter` its keyset condition, with the snapshot
`asOf` of search and home and the candidates (`Pool`) of the home feed. The browser's side is TanStack
Query's `useInfiniteQuery`, external: "Load more" appends, a refetch replaces all
pages at once, and each cancels the other. Left out: text matching and engagement are a
fixed weight per row (`docs/SEARCH.md:36-38` admits that engagement shifts a
ranking); two changes never share a moment; the lower end of the seven days of
recent history, and which 200 rows a query without an order returns when there
are more (`feeds.service.ts:88-98`).

The home feed boosts a channel not because the viewer follows it but because one of
its videos is among the `Pool` rows of the third query (`Subscribed`). So rows
that were shown can be demoted behind the cursor without anybody unsubscribing: the viewer
follows another channel, or one whose videos were dated back or are listed again
fills those rows. `LateSave` is a save that overlaps with others and writes a date it made of an
earlier read, which takes a publication date back (finding 3). Both move a row backwards,
and then a list does show it again; `demoted` records the rows they happen to, one by one, and
`NoRowTwice` excepts those and no others. Without either exception TLC finds it
violated. `LateSave` is left out of the studio's list and the history, whose keys are other
dates and whose rows the other changes of visibility already take away and bring back.

A page is the first `Limit` rows ahead of the cursor, and the place of a row in an order is the number
of rows before it (`Rank`, `FirstRows`).

### WatchSession

`attachment` counts the runs of the player's effect, `loader[n]` is how far run n
is with its source: `native`, `importing` hls.js, `live`, or `gone`. A run that is
disposed of while it imports is not stopped, it finds out. `screen` is what the
page shows; `closed` is no player at all, after a query in error. `Open` puts the new
video, its player and a fresh `tracking` on the page in one step: the router mounts the page of
another video anew, with new refs, and where it kept one, React would run the effects of the
commit before the element's next event. `tracking` is the refs
of `useWatchTracking`. The media element is external; what the code depends on is
that an element that loses its source goes back to 0 and says so later
(`rewound`), when the tracking may already belong to the next video. TanStack
Query is external too: a refetch that fails puts a query with data in error.
Positions are whole seconds. `forward` is what the events report, so a jump of
less than two seconds counts as playback, as in the code. What a second error
before the metadata does to the position a retry resumes at (`docs/FRONTEND.md:96`) is
modelled and not checked.

## 3. What the runs show

| Run | Instance | Result |
| --- | --- | --- |
| `attempt_ownership` | 2 executions, 1 janitor, 2 generations | six safety and action properties hold, and the machinery implements `GenerationLifecycle` |
| `in_flight_commit` | 1 execution, 1 janitor | **violated**: `ReadyIsServable` (finding 1) |
| `lease_clock` | 2 executions, lease 2, heartbeat 1, deadline 4, clock 0..5 | local validity is conservative, work is exclusive, no lease is revived |
| `processing_queue` | 2 slots, 1 API, 1 generation, 2 attempts, 1 recovery, 2 faults | re-publications are bounded, every generation settles |
| `processing_retries` | 1 slot, 1 API, 2 generations, 2 faults | the event needed is kept, each generation settles, and the row implements `GenerationLifecycle` |
| `recovery_bound` | 1 slot, 2 APIs | **violated**: `RecoveryIsBounded` (finding 2) |
| `upload_completion` | 3 calls, 3 losses | accepted is backed, no needless re-upload, success is real, uploads get accepted |
| `publication` | 3 saves | only a save leaves a public video out of the listings, and no date comes before READY |
| `publication_date` | 1 save | **violated**: `OriginalDateRetained` (finding 3) |
| `worker_shutdown` | 2 jobs, 2 slots, streams on their side, below the ladder, and unusable | no tool runs on untold, nobody is left behind uncancelled, pictures fit, the process ends |
| `viewer_pages` | playlists: 2 calls, 3 videos, limit 2; pages: 5 rows of 3 channels, 2 per page, 4 moments; session: 2 videos of 3 seconds, 2 attachments, 1 save | playlists implement `Shelf` and no caller gets a conflict; no row twice unless demoted, none skipped; one source has the element; views are earned |
| `refetch_tears_down` | 2 videos of 4 seconds | **violated**: `PlaybackIsKept` (finding 4) |

**Why the bounds are enough.** Two executions are the smallest number with a
winner and a loser, an expired owner and its successor, an old generation and a
new one; the theorems cover any number. One janitor acts between any two steps of
either. Two generations are a superseded and a current one. The clock runs for
two leases and past the deadline, with waits of every length in between. In the
queue, two attempts distinguish "one left" from "none left", one recovery is both
the first and the last, and two faults let any two of a crash, a lost job, a stolen lock and
a failed pass meet in one behaviour: a pass that dies before it counts and a job lost
again is the least that needs the `uncounted` of `RecoveryIsBounded` (with three faults
TLC finds the same on 824 500 states; the theorems cover any number). Three calls are a completion nobody hears, one that is
awaited, and a start. Three saves are two that overlap and one after them. Two
jobs are one that the shutdown counts and one that comes late (110 448 states).

`viewer_pages` (491 180 states) holds three specifications that share no state.
A behaviour moves one of them (`subject`) and leaves the others where they are, so the
states of the three add up and every behaviour of each is explored. Two calls are a
holder of the lock and whoever races it; three videos and a limit of two are a full
list and one too many. Five rows in pages of two are three pages with a boundary
inside a tie of dates, from the viewer's own channel and two others, one of which is
followed from the start where it matters; up to two changes happen while the pages are
fetched. Two attachments are a source and the one that replaces it while it is still
imported. One save is a bound that leaves out a save that overtakes another one (see the
hazards).

**Deadlock** is checked in `attempt_ownership` and `in_flight_commit`, where a
deleted video still receives repeated deletions and deliveries. It is off where the
model rightly stops: the clock has a bound; a settled queue is empty; the form
ends in `observing` or after the deletion; each save happens once; a worker ends.

**Symmetry** over executions is used only in runs without liveness.

**Fairness.** *ProcessingQueue*: publisher and reconciler are interval timers that
re-arm themselves, so each keeps enqueuing, scanning and finishing its passes;
a worker keeps taking jobs and finishing the step it is in, because
`WORKER_ATTEMPT_MAX_SECONDS` bounds the work and every wait has a time limit;
cooldowns are lengths of time; a lease that nobody renews runs out. Nothing
is assumed of retries, deletions, faults or the success of any work. Faults are
bounded by `MaxFaults`, hence end: nothing settles while Redis loses every
job as soon as it is added. *WorkerShutdown*: timers fire, a killed child ends,
and the pipes of a child that has ended close; nothing is assumed of downloads,
tools and uploads, which may take forever, and the process ends all the same. *UploadCompletion*: handlers finish, and the person
at the form follows what it offers; losses are bounded. *Publication*: a
handler that has begun goes on, unless it dies.

Every checked property has a mutation of the code in `PROJECT.json`
(`mutants`), a dropped guard, a wrong boundary, a swapped decision, under which the
same run finds it violated.

## 4. What is proved

For every value of the constants that meets the named assumptions (NULL is not an
identifier; bounds are natural numbers, durations positive):

* **AttemptOwnership_proofs.** `ReadyIsServable`, `NoSilentOrphan`, `PublishedOnce`,
  `LiveOwnerUndisturbed`, `StaleExecutionInert`, `TypeOK`, and the
  refinement `ImplementsLifecycle`; also `LegalTransitions`, which no run checks apart
  because the lifecycle's steps are all in the transition table. None is inductive alone: whether READY keeps
  its objects depends on what every cleanup that is already on its way will delete.
  `IInv` therefore adds: a committed attempt belongs to the current generation and
  the row never becomes pending again (`CommittedIsFinal`); an attempt not yet
  acquired is known to nobody (`UnknownUntilAcquired`: the UUID is fresh); the owner
  still has what it uploaded (`OwnerHasItsUploads`); a janitor past its read, and
  an execution past its own, hold an attempt that neither owns nor is published
  and never will be (`JanitorsRemoveLosers`, `CleanersAreUnpublished`); what
  cleaned-up executions left is logged (`CleanedUp`). One lemma per group of
  actors, one step per action. The refinement maps each step of the row to a
  step of the lifecycle and everything else to a stutter.
* **LeaseClock_proofs.** `ConfirmedMeansOwned`, `WorkIsExclusive`, `NeverResurrected`,
  for all durations and delays. The invariant says of each execution what it may rely
  on until when (`Covered`), and of a renewal at the database that it will not bring the
  end of the lease forward of what its execution already relies on. That last
  part needs renewals to be serialized. `TypeOK` includes that neither the heartbeat nor
  `ensureOwned` waits for two renewals at once; `QueueInv` gives the reasons: the heartbeat
  is not armed while its renewal waits, `ensureOwned` keeps its caller until it
  returns, and an execution has a renewal on its way only for the first who waits.
* **ProcessingQueue_proofs.** `EvidenceKept`: retention, deletion and faults in any
  order leave the event of a pending generation in place. `RecoveryIsBounded` under the
  hypothesis that there is one API instance, for any number of workers,
  generations and faults: nobody else counts while a pass is under way, so it knows
  of every recovery of its generation (`PassKnows`). With two instances the
  property is false (finding 2). The bound is on jobs added, not on the counter that
the guard reads: `CountInv` says that the jobs of a generation are covered by what its event counts,
what its failed passes left uncounted, and one in the hand of the pass under way (`Covers`,
`InHand`, `EventsCover`). `TypeOK`, which takes one lemma per kind of state: a
  job that waits or runs has an attempt left (`JobsTyped`), hence the number of
  attempts stays within its type. `ImplementsLifecycle`, the refinement: a slot, the
  stranded-job handler, the reconciler, the owner or a fault changes status and
  generation only by one of six moves (`RowMoves`, one step per kind of writer), and
  each move is a step of the lifecycle or a stutter.
* **Publication_proofs.** `LeftOutOnlyBySaves`, `DatedOnceReady` and `TypeOK` for any
  set of saves; the strengthening says that a save carries a date only if the video was
  READY, from where it returns to nothing but a deletion.
* **UploadCompletion_proofs.** `AcceptedIsBacked`, `ReuploadOnlyIfNeeded`,
  `ObservedMeansAccepted`, `LegalTransitions` and `TypeOK`, for any number of
  overlapping calls and lost answers. The invariant follows the object key: a handler
  goes on with the row's own key, and one that will commit has seen the object
  (`KeysInFlight`); and the form's phases: while it may send bytes no completion is
  under way (`NoCompletionWhileUploading`), and storage has the object before a
  completion is asked for (`BytesBeforeCompletion`).
* **WorkerShutdown_proofs.** `ChildrenObey` and `LeftBehindWasTold` for any number of
  jobs. The invariant: an abort reaches the tool that runs (`AbortsReachTools`), a
  child that runs was told nothing (`OneChildPerTool`), and at each phase everybody the
  shutdown does not wait for is late (`EverybodyCounted`). `RenditionsFit` and
  `ThumbnailFits`: for every source of at least 2 x 2 and every target height, the sides
  are even and within the source. `PicturesFit` carries that to every reachable state, for
  any streams: `PlanInv` adds that a probed source is remembered only while its tools
  run, and that what is left of a plan was made for it. `TypeOK` follows from both
  invariants; it includes that a child exists exactly while its `runProcess` is pending.
* **Playlists_proofs.** The limit, `NoCallerGetsConflict`, `TypeOK` and the refinement
  `ImplementsShelf`, for any number of calls, lists and videos. The invariant says what
  the owner of a list's lock has found out, and that it stays true while removals,
  which take no lock, go on (`FoundInv`): a count is an upper bound, a maximum is
  one too, and an absent video stays absent.
* **ViewerPages_proofs**, for any number of rows and titles, any page length, pool, duration
  and thresholds. The theorems are about `ViewerSpec`, of which the run checks the behaviours
  that start with the first title.
  * *Lists.* `NoRowTwice` and `NothingSkipped` for all nine lists. The order of the keys is
    strict and total because every key ends with the id, so ranks are distinct, every place
    has its row (`EveryRankIsTaken`), and a page holds the rows ahead of the cursor without
    a gap (`FirstRowsInOrder`, `NextPageFacts`). `PagesInv` says of every view, also of one
    that is being fetched again: a row on its pages is at or before its last cursor, and a
    row that kept its place is on its pages or ahead of it. A change keeps both, because it
    moves keys in one direction only (`KeysOnlyGrow`): dates go on, a ranking is frozen at
    `asOf`, and a row that loses its date leaves the history. It does not do so for the rows that are
    dated back or lose their boost, which become `demoted` in that step: the invariant, like
    `NoRowTwice`, speaks of the others.
  * *Session.* `OnlyCurrentPlays` and `ViewNeedsWatching`. `SessionInv` says that what the
    tracking counts for the video on the page was played since it was opened, and that a
    view under way, or counted, had reached the threshold.
  * *Types.* `AllTypesOK` of the three parts. `PlaylistsBehave` shows that every behaviour of
    `ViewerSpec` is one of `Playlists`, so the theorems about that module hold here too.

**Model-checked only.** Liveness (`EveryGenerationSettles`, `UploadIsAccepted`,
`PublicIsListed`, `ToldToolSettles`, `ShutdownEnds`) is out of reach of the prover, as
is anything that needs `ENABLED`. Every invariant and every action property of the passing
runs is a theorem; the four properties of the runs that expect a violation are false.

## 5. Findings

1. **A commit under way escapes the cleanup's check** (`in_flight_commit`).
   `docs/VIDEO_PIPELINE.md:143` promises that an attempt removes its objects only
   after confirming that it is not committed. When the connection breaks while
   COMMIT is processed, the client sees the error at once, the row is still locked,
   and the plain read of `cleanupUnpublished` returns the old row; the objects are
   removed, and then the commit lands. Reading with `FOR UPDATE`, or updating
   the row conditionally first, would wait for the outcome.
2. **The recovery bound is per scan** (`recovery_bound`). The reconciler compares
   `maxRecoveries` with the count its scan read. A second API instance that scanned
   before the first one counted, and claims after the cooldown, puts a job back once
   more than documented, although no pass failed before it counted.
3. **A save can take back a publication date** (`publication_date`).
   `update` writes the date it read; when the worker (or another save) sets the date
   between the read and the write, it is overwritten with the old value, and set
   anew by a later statement. `docs/DECISIONS.md:135` says that the original
   timestamp is retained.
4. **A refetch that fails takes playback down** (`refetch_tears_down`).
   `docs/FRONTEND.md:94-96` says that a refetch of the watch query never reloads,
   destroys or seeks active playback. `watch-video.tsx:57` shows the error of a query in
   error in the player's place, and a query whose refetch failed is in error although it
   has data. The cleanup of the effect destroys playback, and the next refetch mounts a new
   player at the saved position. Showing the error only without data would keep the
   promise.

## 6. What is left

In the order of what it would add:

1. Two saves of a position under way in `WatchSession`. By the code
   (`use-watch-tracking.ts:46`), two that fail in the order they were sent leave the
   position of the first recorded as saved; no run shows it, for the parts of
   `viewer_pages` would have to be checked apart for the larger bound.
2. Media delivery composed with `AttemptOwnership`: a reader that holds a manifest while
   the video is hidden or deleted.
3. The optimistic state of the like and subscribe buttons against answers that overtake
   each other.
4. An abstract specification of an accepted upload, implemented by `UploadCompletion`.

## 7. Not modelled, and why

* Sessions and rate limits: one conditional statement or Redis script per request.
* Media delivery beyond who may watch: each request reads one row and one object,
  and keeps nothing.
* Optimistic counts of the like and subscribe buttons: they last until the answer,
  which replaces them, and no other state depends on them.
* Health endpoints, configuration, logging, error formatting: they keep no state.
* The output of ffmpeg and ffprobe, and the pixels of the pages: outside of a state model.
* PostgreSQL, BullMQ, Redis, S3, the media element, hls.js and TanStack Query themselves:
  modelled as what the code relies on.
* The development-only parts: scripts, seeds, test harnesses, deployment files.
