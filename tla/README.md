# A verification project for multilinguarr

multilinguarr sits beside several Radarr and Sonarr instances, one per language.
It receives their webhooks, probes each imported file for its audio languages, and
keeps one media library per language made of links into the instances' storage.
This directory holds TLA+ specifications of its core logic, the TLC models that
check them, and TLAPS proofs about them. Paths below are relative to `src/`.

## 1. The system

| Part | Source | State it keeps | Operations |
|---|---|---|---|
| webhook ingress | `src/webhook/` | none | authenticate, decode, drop or enqueue |
| job queue | `src/queue/` | the SQLite table `jobs`; permits of a semaphore | enqueue, claim, ack, sweep, retry, reprocess |
| process | `src/main.rs`, `src/app/` | tokio tasks, cancel token | start, signal, exit |
| handlers | `src/handler/` | none of their own; the libraries' links | import, upgrade, delete of movies and episodes |
| link manager | `src/link/` | the library trees on disk | link, unlink, find a conflict, prune |
| cross-instance | `src/handler/cross_instance.rs` | the siblings' records, over HTTP | propagate an add, propagate a delete |
| arr clients | `src/client/` | none | HTTP calls with a retry loop |
| reconcile | `src/reconcile/` | the library trees | walk storage, link what is missing, report |
| detection | `src/detection/` | none | ffprobe output to a set of languages |
| jellyfin | `src/jellyfin/` | a bounded channel and a timer | debounce, refresh |
| configuration | `src/config/`, `src/api/` | SQLite tables, a snapshot per process | setup, edit, load |
| admin API | `src/api/` | none | jobs, instances, languages, regenerate |
| database, observability | `src/db/`, `src/observability/` | - | open, migrate; metrics |

### How they interact

An instance changes its storage and sends a webhook. The ingress stores it as a row
and answers 200. The dispatcher takes a permit, claims the first due row and spawns
a detached task, which runs the handler the registry picks and acks the row by its
id. The handler runs ffprobe, chooses the libraries by language, and makes or removes
links one file operation at a time; a primary then asks the sibling instances, over
HTTP, to add or delete the title, and Jellyfin is told to refresh. An error is
transient (the job is retried after a backoff, up to `max_attempts`) or permanent.
A sweeper returns claims whose lease ran out. An admin may retry or reprocess jobs
or start a reconcile walk at any time.

### What is hard, and what makes each part correct

- **Queue.** Workers outlive leases, acks go missing, the process dies between a claim
  and its ack. Correct: every stored job is settled, at most `max_attempts` attempts,
  no two workers on one row while handlers keep their lease, no permit lost.
- **Libraries.** Nothing locks a library: with the default concurrency of 2
  (`docs/guide/configuration.md:58`) two handlers interleave at every `await`, jobs are
  retried and arrive out of order, instances move files while a handler runs. Correct:
  one link per episode, the native file wins, no dangling link, a result that does not
  depend on the order of imports.
- **Cross-instance.** A sibling changes between the GET that looks at it and the POST or
  DELETE that follows; a request whose answer is lost is sent again. Correct: never
  destroy a sibling's own file, never ask for a language the library already has.
- **Reconcile** writes to the same libraries as running handlers and meets files in
  another order; it ends with the request that asked for it. Correct: it agrees with what
  the handlers would have done, and does nothing to libraries that are as they left them.
- **Jellyfin.** Triggers are dropped when the channel is full, a pending refresh when
  the process stops. Correct: a dropped trigger is covered by a later refresh, and a burst
  makes one request.
- **Configuration.** A process keeps the snapshot it started with; setup is a check and
  a later insert; two clients' requests overlap. Correct: a process runs only with a whole
  configuration, and a stored webhook comes to nothing only if its instance was deleted.

## 2. Modules

| Module | Models | Lines of code it stands for |
|---|---|---|
| `JobQueue` | table, dispatcher, worker tasks, sweeper, admin endpoints, process | `queue/*`, `app/mod.rs`, `main.rs`, `api/jobs.rs` |
| `JobLedger` | the abstract promise of the queue to the rest of the program | - |
| `JobQueueProofs` | theorems about `JobQueue` | - |
| `Selection` | the elements of a sequence, and the sequence without the others | - |
| `SelectionProofs` | facts about the two, for the modules that prove | - |
| `EpisodeLibrary` | Sonarr import and delete handlers over symlink libraries | `handler/import.rs`, `handler/delete.rs`, `link/mod.rs`, `detection/*` |
| `EpisodeLibraryProofs` | theorems about `EpisodeLibrary` | - |
| `MovieLibrary` | Radarr import and delete handlers over symlink and hardlink libraries | the same files |
| `MovieLibraryProofs` | theorems about `MovieLibrary` | - |
| `Reconcile` | the regenerate walk beside `EpisodeLibrary`'s handlers, which it extends | `reconcile/mod.rs`, `api/regenerate.rs`, `link/mod.rs` |
| `ReconcileProofs` | theorems about `Reconcile` | - |
| `ConfigStore` | the configuration tables, the admin requests, the snapshot of a process | `config/repo.rs`, `api/*`, `app/mod.rs`, `handler/registry.rs` |
| `ConfigStoreProofs` | theorems about `ConfigStore` | - |
| `JellyfinRefresh` | the refresh channel and its debounce pump | `jellyfin/service.rs`, `jellyfin/client.rs` |
| `JellyfinRefreshProofs` | theorems about `JellyfinRefresh` | - |
| `CrossInstance` | propagation of one title to sibling instances over HTTP | `handler/cross_instance.rs`, `client/*` |
| `CrossInstanceProofs` | theorems about `CrossInstance` | - |
| `MC*` | small instances for TLC | - |

### JobQueue

One action per SQL statement, since SQLite makes each statement atomic. `status`,
`attempts`, `due` and `lease` are the columns of the row; `due` and `lease` are kept
relative to now, so `Tick` ages them and no horizon cuts a behaviour off. `taskJob` and
`taskAttempts` are what a detached worker task holds: the row it claimed and the
`attempts` it read then, which is what decides between retry and dead letter. An ack
names the row's id only, as the code does, so a task that lost its lease still acks.
`TaskDies` is both a panic and a failed ack, whose error `let _ =` drops. `Start` leaves
claimed rows alone: `reset_orphaned_claims` exists but nothing calls it, and neither
does anything call `heartbeat`.

`HandlersFitLease` is the one scheduling assumption. With it, time does not pass a
lease whose handler is at work. Nothing in the code enforces it: a lease is 60 s
(`worker.rs:71`) and is never extended, while one ffprobe may take 30 s and one HTTP call three
attempts of 15 s, of which a cascade makes several for each sibling. A handler that waits for a slow
instance does outlive its lease. The properties that need the assumption (`TasksOwnTheirRows`,
`AttemptsAccounted`, `FinishedStaysFinished`, `ImplementsLedger`) therefore say what the queue
does for handlers that are quick enough, not that the code makes them so; the runs `live` and
`replay`, and the theorems `TypeCorrect`, `NoRowStranded`, `PermitsNeverLeak` and `NoEarlyBurial`,
cover the slow ones.

### EpisodeLibrary

A library is one season folder per instance; an entry is a symlink, represented by the
instance whose storage it points into (the file name is the same on both sides). One
action is one file operation: `Detect` (ffprobe), `Find` (read the folder), `Judge`
(read the link again, decide), `Stat`, `Remove`, `Prune` (the three calls of an unlink),
`Prepare` (check the source, make the folder), `Probe` and `Create` (the two halves of
the idempotent symlink), `Check` (whose link is it). Between any two, other handlers
run, Sonarr replaces or deletes files (`Download`, `Delete`, external), and the process
may crash. The queue appears as a list of due jobs claimed in order by at most
`Concurrency` handlers; a retry goes to its end and a swept job to its front, as
`ORDER BY next_attempt_at, id` gives. The delete of a series (`DeleteSeries`, `Clear`) goes
through the tree link by link and keeps what serves another instance's files; `Clear`
makes the look at a link and its removal one step, which is exact with one worker, and
the assumption on `SeriesDeletes` says so. `DetectFails` is ffprobe that cannot run or is
killed at its timeout: a permanent error of the code.

`OwnFileShown` speaks of every moment at which no import of the file is at work, and names the two
things that take an instance's link from its library for good: another primary (`TakenOver`:
an upgrade unlinks its name wherever the file's languages lead, and of two instances of one language
the first keeps its link), and a delete that was put off until after the import that followed it
(`Delayed`). An earlier form spoke of settled states only and excused neither primaries nor
re-downloads under crashes, which the runs' constants happen to leave out; the proof for all
constants found both.

### MovieLibrary

One movie, three libraries. `entry[i]` is whose folder the link in i's library names;
`mirror[i]` are the files hardlinked into the folder that a hardlink library has instead,
and `made[i]` says whether that folder is there. `Detect`, `Upgrade`, `Delete` (of the
movie or its file), `Source`, `Symlink`, `List`, `Hardlink` and `Finish` are the steps of the
handlers; a mirror is made and removed file by file, so a crash leaves part of it. Radarr
sends the delete of a replaced file before the import of its successor. With one worker
nothing else writes a library, so a check and the operation it guards are one step.
`TakenOver` names what `OwnMovieShown` cannot promise: a primary's multi-audio upgrade unlinks
the folder name in every library of its languages, and of its own language's even when the
file has that language no more. The property first excused alternates only; the attempt to prove
it showed that another primary's library can be cleared in the same way.

### Reconcile

`WalkSpec` composes the walk with all of `EpisodeLibrary`: `walk` is how far it is, `Walk`
its steps, one per file operation, and `Beside` any step of the handlers, the queue or
the instances. `Regenerate(dry)` starts a walk or a preview, `Drop` is the client that goes
away (the walk runs in the request's future), `Lose` an operator who removes links, which
is what the documents offer the walk for. Without instances there is nothing to walk, and the request is refused. `WalkInit` also allows files from before the
program was set up. The walk uses `LinkTargets`, `Conflicts` and `Verdict` of the handlers,
as the code shares them or repeats them line by line. `began` records how the libraries
were when the walk began, for the properties only, and `"disturbed"` as soon as anything
else moves: nothing is promised for a walk that runs beside handlers.

### ConfigStore

One action per SQL statement. `request[c]` is what a client's request has read so far: an
endpoint that looks something up and then writes (`CheckInstance` and `WriteInstance`;
`ReadLanguages`, `ReadPrimary`, `ReadInstances` and `MarkSetupComplete`) or that writes two values
(`SetPrimary`, `SetWorkers`) can be overtaken or cut off by `End` in between. `Start` is
`App::build`: `Loadable` is what `load_config` returns a configuration for, `Bootable` what
does not make the start fail, `snapshot` what the process uses until it ends. `Webhook` and
`Work` are the two places that look an instance up in it.

### JellyfinRefresh

`signals` counts what is in the channel (the signals carry nothing), `quiet` the ticks until
the window has elapsed, `pump` where the debounce task is. The handlers show only their
changes, `Change`, and their last call, `Refresh`; `Fail` is a handler that returns before it.
`unseen`, `owed` and `covered` follow the changes, for the properties only. The process as
wired today hands the handlers a `NoopMediaServer` (`src/app/mod.rs`), so the
service modelled here is tested but not in use.

### CrossInstance

One title, its record at each sibling (absent, waiting for a file, holding one), and the
primary's imports and deletes of it. One action is one HTTP attempt: `Source` asks the
primary for the original language, `LookToAdd` and `LookToDelete` are the GET at a
sibling, `Profiles`, `Folders` and `Post` the add, `Resolve` the GET after a 409, `Drop`
the DELETE by record id. A record's `by` is who asked for the title, and nobody once the
sibling's operator has removed it: the only excuse, beside a delete at the primary, that
`EverySiblingAsked` has for a sibling without the title. The movie and the series variants of the code make the same
calls in the same order, so one model stands for both; they differ in what proves that a record
holds no file (`hasFile`, or statistics, which `Silent` siblings do not report). `Lost`
is a transient failure of an attempt, whose effect may have taken place (`Effect`); it is
repeated up to `MaxTries` times and then fails the job for now. `Refused` is a permanent
one. Between attempts siblings download (`Fetch`) and operators edit them (`Meddle`). The
queue keeps no order here, which only adds behaviours. What the import handler does
before it propagates appears as its first outcome: it fails for good if the file is gone.

The header of `cross_instance.rs` says that a delete goes to every instance with
`propagate_delete = true`; the code looks at the flag of the source, as
`docs/guide/configuration.md:101` says, and so does the model.

## 3. Runs

| Run | Question | Result |
|---|---|---|
| `fit` | Handlers fit their lease; crashes, shutdowns, panics, lost acks, replays | all seven properties hold, and the queue refines `JobLedger` |
| `live` | Handlers may outlive their lease; faults; fairness | every job is settled, every orphan taken back, none buried early |
| `replay` | Slow handlers | **violated**: a late failure ack reopens a completed job |
| `episodes_serial` | One worker; upgrades, re-downloads, deletes of files and series, failing ffprobe and siblings | six properties hold |
| `episodes_crash` | The same with two crashes and late retries | links stay native and alive |
| `episodes_parallel` | Two workers | every job settles, folders and entries stay consistent |
| `episodes_race` | Two workers, two releases of one episode | **violated**: both are linked |
| `cascade` | Imports and deletes, faults, crashes, siblings and operators that act in between | six properties hold: nobody in need is left out, no request outlives its title |
| `movies` | Three instances, one with hardlinks; upgrades, deletes, ffprobe and sibling failures, a crash | nothing dangles, libraries fit their language, own links stay |
| `reconcile` | Two walks over any library beside handlers | an undisturbed walk rebuilds, adds no duplicate, keeps healthy libraries |
| `config` | Two clients edit and complete setup, the process ends anywhere | snapshots are whole; setup and webhooks are lost only to deletions |
| `jellyfin` | Three handlers, a full channel, failures, restarts, shutdown | every call is covered, requests are spaced |

The violated runs state what a comment or a document of the repository says; the
`findings` of `PROJECT.json` quote it and name the code that does otherwise.
`episodes_race` needs only the default of two workers, `replay` a handler slower than its lease.

The models show more behaviours that no run is kept for. Each is a change of a
constant or a property away:

- An upgrade from a bilingual to a French file of another name leaves the old link in the
  English library when Sonarr reports no delete (`UpgradeDeletes = FALSE`, `NoDanglingLink`), and a
  primary's upgrade removes an alternate's native link of the same name (both instances
  may have it: `MCSharedAudio`, `OwnFileShown` without `TakenOver`): `unlink_sonarr_targets` looks at
  neither.
- With two workers a delete can overtake the import of the same file, whose link then
  dangles (`Concurrency = 2`, `NoDanglingLink`), and an import can lose its folder to another
  handler's prune and fail for good (`GivesUpOnlyWithoutFile`).
- A release whose name carries no `SxxEyy` marker is not seen as the incumbent of its
  episode (a `Marker` of 0, `OneLinkPerEpisode`).
- A delete that is retried or swept after the title was imported again removes the newer
  link (drop `Delayed`, or the excuses of `OwnMovieShown`). A primary's delete also removes a mirror
  that holds an alternate's own file, which is why that property of `MovieLibrary` is about
  symlink libraries.
- A download that finishes at a sibling between the cascade's look and its DELETE is destroyed:
  `SeenFilesSurvive` only speaks of records that were seen with a file.
- On a signal the process ends with worker tasks at work, which `run` does not join
  (`Exit` of `JobQueue` with `Live # {}`), while `app/mod.rs:228` says they are awaited; the jobs
  are swept and start over. A task that outlived its lease can also bury a job an
  admin has just reopened.
- A walk beside handlers can leave duplicates, dangling links and links for the wrong
  language. Even alone it evicts only one of several conflicting links, takes a
  dangling native link for the native release, removes no dangling link, and skips
  untagged files, which imports do link. Of two instances of one language it links the release of
  the one that comes first in both libraries, and the other's own is skipped (`WalkRebuilds`).
- An instance's url that does not parse, or a missing ffprobe, makes every start fail
  (`Bootable`), and a process that starts without configuration keeps its workers off until it
  is restarted, whatever the tables say by then.
- Two comments promise more than the configuration keeps. `app/mod.rs:123` says of a process without
  one that "webhooks will be accepted and queued": its snapshot has no instances, so `Webhook` stores
  nothing, and each is answered 404 (`server.rs:167`), also after instances have been added.
  `002_config_tables.sql:44` says that presence of the setup row "means webhook processing is
  active": once the primary language is deleted the row is there and the next process runs without
  a configuration (`SetupLostOnlyByDelete` without `primary \in deleted`; with it, the property
  shows that a deletion is the only way there).
- Triggers that come closer than the window, without end, postpone the refresh for ever
  (`EveryCallIsServed` holds because each job calls once).

### Bounds, and why they are enough

Queue: two or three jobs, two task slots, two or three attempts, a lease of one or two
ticks, one to three faults, one admin call. Two jobs and two tasks give every conflict over a row
(two tasks on one row) and over a permit; a third attempt lets a retry follow a retry.
Episodes: two instances (a primary and an alternate), at most three releases of one
episode and one of another, two to four webhooks, two crashes, one failing sibling.
Two writers suffice for a conflict in a library, a third release gives an upgrade after
a conflict; with five webhooks the series can be deleted after an upgrade and imported again. Files carry each set of languages that the link decision tells apart.
Cascade: four siblings, one that cannot take titles before two that can (so that a sibling that
has the title comes before one that lacks it) and one of the primary's language without statistics; three webhooks, so that a title can come, go and come back; two tries per
call, two faults and one act of an operator, which is enough to lose an answer and its retry,
or to meet a 409 or a 404. `NoOrphanRequest` is checked with one worker: with two, a
delete's cascade can pass a sibling before the import's POST reaches it.
Movies: a primary and an alternate with symlinks and an alternate with hardlinks, six
releases (trilingual, bilingual, untagged, mislabelled, two of one name), four webhooks,
one outage, one crash: an upgrade with its delete between two others' imports.
Reconcile: two instances, three names, one of them shared, any initial storage, two webhooks,
two walks (so that one can follow another that was dropped or a preview) and one lost link.
Config: two languages, two instances, two requests in flight, six requests, which is one more
than a complete setup takes, two ends of the process. Jellyfin: three handlers, a channel of one
signal, so that it is full at once, a window of two ticks, two faults.

### Fairness

`JobQueue!Fairness` is weak fairness of each tokio task (they are scheduled and their
timers fire), of a handler's answer (ffprobe and HTTP run under timeouts) and of the
container's restart. Webhooks, admin calls and faults are never owed; faults are
bounded, so they stop. `EpisodeLibrary!Fairness` asks the same of claims, expiring
backoffs and leases, and of each running handler's next file operation;
`CrossInstance!Fairness` of claims and of the calls that are not lost.
`JellyfinRefresh!FairSpec`: the runtime polls the pump, time passes, and a request ends, since
its client has a timeout. `ConfigStore!FairSpec`: the container is started again when its process
has ended, and its workers work; no client ever owes a request. `MovieLibrary` and `Reconcile`
have safety properties only.

## 4. Proofs

`JobQueueProofs` holds for every number of jobs, tasks, permits, attempts, ticks,
faults and admin calls, from `ConstantsAssumption` alone:

- `TypeCorrect`: types, and that the backoff never exceeds its cap (`BackoffIsCapped`).
- `NoRowStranded`: a row is claimed exactly while it has a deadline. Needs only types.
- `PermitsNeverLeak`: counts the live tasks with the cardinality theorems; each step
  moves one permit between the semaphore, the dispatcher and a task.
- `ExclusiveExecution`, `AttemptsKeepTheirBudget`, `FinishedJobsStayFinished`: from one
  invariant, `OwnershipInv`. None of them is inductive alone: that a dead letter used
  all its attempts follows from the task's snapshot being the row's own, which follows
  from no two tasks holding one row, which follows from a lease outlasting its task
  (the guard of `Tick`) and from the sweeper and the admin endpoints not touching a row with a live
  lease. `OwnershipInv` is the conjunction of these with types and `LeaseIffClaimed`.
- `QueueImplementsLedger`: under `HandlersFitLease` each step maps to a step of
  `JobLedger` or a stutter, using `OwnershipInv` in the acks.
- `NoEarlyBurial`, for slow handlers too: the invariant `LateInv` says that no task's
  snapshot of the attempts is ahead of its row, until an admin resets the column.

`CrossInstanceProofs` holds for any siblings, languages, workers, tries, jobs, faults and
operators' acts, from `CrossInstanceAssumption`:

- `CascadeTypeCorrect`: types; a handler in a call has a sibling to talk to and a try left.
- `SeenFilesAreKept`: a record goes only by the DELETE of a handler that saw this very
  record without a file. The invariant `CascadeInv` ties each handler's state to its job's
  and says that one about to send a DELETE saw no file; it survives the steps of the others
  because a step moves one handler (`Moves`, `MovesKeepJobs`) or restarts them all.
- `NoRedundantRequests`, `AllSiblingsAreAsked`, for any number of workers, from `RequestInv`: an import
  at work has asked every sibling it wants but those on its list, one that is done has asked
  them all (`Reached`), until somebody deletes the title; a sibling whose own operator removed it is
  not asked for again.
- `NoRequestIsOrphaned`: with one worker (a condition of the property itself) `OrphanInv` says that
  once the title's file is gone, each request that still waits has a delete that will come to it, and
  that an import at work then has a delete behind it, because it began while the file was there.

`JellyfinRefreshProofs`, for every capacity, window and number of handlers:
`RefreshTypeCorrect`; `CallsAreKept`: a call no request has followed is still a signal or an open
window; `QuietMeansUpToDate`, which needs in addition (`Announced`) that every change of a
successful handler not yet seen was called for or is covered by the request under way;
`RequestsSpaced`, from `WindowCovers`: what an open window still has to run is no less than what
the last request's spacing still has to run.

`ConfigStoreProofs`, for any languages, instances, clients, edits, webhooks and restarts:
`ConfigTypeCorrect`; `SnapshotWhole`; `UnknownMeansDeleted`; `SetupIsKept`. One invariant, `StoreInv`,
gives them: the foreign key (`References`), what a request has read was true once and is unless
something was deleted (`RequestsHold`), setup follows a primary language (`SetupHolds`), and
the names of snapshot and jobs are in the tables unless deleted (`NamesHold`).

`EpisodeLibraryProofs`, for any instances, names, files, webhooks, outages and crashes, from
`EpisodeLibraryAssumption`:

- `EpisodeTypeCorrect`, for any number of workers. `EpisodeInv` adds to `TypeOK` that each
  handler is in a state its kind of job can be in: it has a library in hand, a victim, and
  a reason to unlink (`HandlerOK`).
- `GivesUpOnlyForGood`: an import gives up only without its file. `SerialInv` carries
  what a single handler knows between two file operations: nobody prunes the folder it has made
  and nobody fills the name it has probed.
- `OneReleasePerEpisode`: `OneInv` adds that a handler past its search for conflicts has
  found none left, or has the conflict in hand.
- `NoLinkDangles` and `LibrariesKeepTheirLanguage`, both from `FitInv`: a link fits its file, or a
  delete that will remove it is on its way (`Pending`: it waits, or it runs and has the library
  still before it); an import at work links a file only where it fits in this sense; and an
  instance stores one file of an episode. Neither property is inductive without the last two: an import
  that has read the languages may go on after the file is replaced, and only the delete that
  Sonarr sends with the replacement makes up for it.
- `OwnEpisodesAreShown`: `OwnInv`. An import is *due* once it is past the detection
  of the languages; `OwnShown` says that the last import of a stored file, when due, has its link in
  place or is itself still on its way to make it. To keep this, three sets of facts are needed. About
  the past (`History`): the last import of a file that is there has no delete of it after it, two imports of one
  file come with a delete of it, every link was imported. About the queue
  (`InFront`): without a crash a delete that has not run stands before everything that was sent
  after it, so that the delete has run when the import that follows it is due. About the handlers
  (`HandsOK`, `WorkOwn`): who unlinks may do so (the victim of an eviction loses the comparison, the
  victim of a delete is the deleter's), and an import of an owned file's episode is an import of that
  very file. Then each step that removes a link (`ForGood`, `NoneRemoves`) is the file's own upgrade,
  which makes the link again.
- `AnyOrderWillDo`: while there are only first imports (`Early`), a link that is not the
  library's own is made too and stays, unless the library's own instance has a release of the episode
  (`OthersShown`). With `OwnInv` and `FitInv` this determines the libraries when all imports are done.

All but the first say `Concurrency = 1`, which `episodes_race` and section 3 show they need (two
handlers link two releases, or dangle a link); `OneReleasePerEpisode`, `OwnEpisodesAreShown` and `AnyOrderWillDo` also say that each
name's marker is its episode (`Marker = Episode` on every name), and the last four that Sonarr
reports the files an upgrade replaces (`UpgradeDeletes`). `AnyOrderWillDo` needs instances of distinct
languages: of two of one language the first import stays. Markers and reports are outside the program, and
without either a property fails as section 3 says.

`ReconcileProofs`, for any instances, names, files, initial storage, libraries, webhooks, losses
and walks, and any number of workers. Two invariants say what holds while nothing disturbs the walk:

- `UndisturbedWalkKeepsHealthy`, from `WalkInv`: what the walk has seen still holds (`Seen`: the file in
  hand is there and for the libraries to come, the link in the way is another of its episode, it is
  evicted only if the keep-policy says so, and past the search nothing is in the way), and in healthy
  libraries the walk never gets as far as an unlink or a symlink (`Unharmed`): where nothing is in the way
  the link is made already, and a link in the way is always kept.
- `UndisturbedWalkRebuilds`, from `TreeInv`: a library that wants a link of a file has one of its episode, its own
  file's if it is its own instance's, or the walk has it still to do, or it is between the eviction and
  the link (`Rebuilt`, `ToDo`, `Served`). The step that needs an argument is the eviction: it never takes
  a link that another file was `Served` with.
- `UndisturbedWalkAddsNoDuplicate`: past the search for conflicts the episode has no other link in the
  library (`Single`), and healthy libraries have one link an episode (`HealthyIsSingle`).

All three say that a name's marker is its episode, and that it has one, as `episode_conflict` finds nothing
for a name without; the last two that the instances have distinct languages, as section 3 says why.

`MovieLibraryProofs`, for any instances, releases, strategies, webhooks, outages and crashes, without
further hypotheses:

- `MovieTypeCorrect`, that a library holds links or a mirror and never both, a mirror one file of
  a name, and the worker the one job that runs. `MovieInv` adds that a handler which links or
  mirrors has a library in hand that takes it (`RunOK`).
- `NoEntryDangles`, `MoviesKeepTheirLanguage`: `FitInv`, the counterpart of the episodes': a link
  that dangles or does not fit has a delete on its way, since with movies the delete of a
  replaced file comes before the import of its successor.
- `OwnFilesAreShown`, without crashes and retries (a condition of the property): `OwnInv` says that
  the queue is in the order of the webhooks, that an import which anything of its instance follows
  finds its file gone (so none that is owed a link has a delete after it), and that a link the
  import of a stored file owes is made, was taken over, or is still ahead of its handler.

`SelectionProofs`: what `Filter` and `Elements` do to empty sequences, to an appended or a
prepended element, to concatenations and to heads and tails. `Filter` is a recursive function;
that its recursion has a solution, and what the solution keeps, follows by induction over a set of
naturals, from the well-foundedness of their order.

Only model-checked: liveness (`EventuallySettled`, `OrphansRecovered`, `EveryJobSettles`,
`EveryCascadeSettles`, `EveryCallIsServed`, `JobsWaitOnlyForConfig`), as fairness is out of the prover's reach. Every
other property of a passing run is the property of a theorem.

## 5. Not modelled, and why

- The database layer: SQLite's atomicity is taken as given; a power loss that undoes the
  last commits under `synchronous = NORMAL` is not a crash of these models.
- Observability, OpenAPI and schema descriptions, encodings, log text, authentication.
- Episodes in hardlink libraries. Movies have both strategies.
- The walk over movies, which links folders as an import does and has no conflicts to judge,
  and two walks at once.
- The matching of ISO codes to languages: a file carries a set of configured languages.
- Reads of the admin API (among them the masked `api_key` that a client may write back), the
  jellyfin row of the tables, and updates of a language's codes.
- Rename webhooks, which are acknowledged and dropped, and what an instance does with a 404.
- Path checks of the link manager, and file systems that hardlinks cannot cross.

## 6. Plan

Done: all modules of section 2. Next, in this order:

1. The walk over movies, composed with `MovieLibrary`.
2. Episodes in hardlink libraries.
3. Pure operators for the matching of ISO codes, against a reference.
