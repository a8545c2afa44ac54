# TLA+ verification of the harness

The harness runs tasks through workflows of agents. Its queues are directories
of JSON files, its lease is a rename, and its only memory across a restart is
what the files, the branches and the labels at GitHub say. This directory models
the parts whose correctness depends on that, from the queue on disk to the page
in the browser: modules checked by TLC on small instances, and theorems checked
by TLAPS for every instance. Paths below are relative to `src/src/harness/`
unless they start with `src/`.

## 1. Inventory of the system

| component | state it keeps | operations | correct when | modules |
|---|---|---|---|---|
| task queue: `ports/queue.py`, `drivers/fs_queue.py` | `<q>/<id>.json`, `<q>/.processing/<id>.json`, `lockId` in the file | `list`, `claim`, `put`, `transfer`, `discard`, `recover`, quarantine | one place per task, one holder per claim, nothing lost or stranded | `TaskQueue`, `FsQueue` |
| tasks and routing: `models.py`, `router.py` | status, last outcome, append-only history | `route`, `failure_trace`, `resumable_failure` | (status, outcome) alone decides; a rewind leads back to the failed step | `Models` |
| dispatcher, consumers, operator control, healer: `dispatcher.py`, `consumer.py`, `task_control.py`, `drivers/failed_tasks_check.py` | tasks in flight; the healer's note in the history | ticks, restart, resume, delete, retire, decline | never past a step that did not run; only failures are taken back; each failure attended once | `Harness` |
| triggers and pollers: `drivers/scheduled_trigger.py`, `source_poller.py`, `ports/triggers.py` | last occurrence, seen keys | `poll`, `tick`, `seed`, `occurrence_at_or_before` | one task per key across restarts; what a poll returned is a task; the newest matching minute | `Cron`, `Schedule` |
| issue ingestion: `drivers/github_issues_check.py`, `drivers/github_issue_import.py`, `drivers/source_reflector.py` | labels on the remote issue, claimed pairs | swap label, put, reflect, import | an issue becomes one task, at most once and not never; labels tell its state | `Ingest` |
| pull requests: `drivers/github_unhealthy_prs_check.py`, `drivers/github_mergeable_check.py`, `behaviors/merge_pr.py`, `behaviors/unblock_pr.py` | attempt and give-up labels, seen keys | triage, update, unblock, review, merge | bounded attempts; only what was reviewed is merged | `PullRequest` |
| workspace and landing: `drivers/git_workspace.py`, `behaviors/landing.py`, `drivers/github_forge.py` | branch, work trees | attach, merge, commit, push, propose | no push is lost; a resolution reaches its pull request | `Git`, `PullRequest` |
| reconcilers: `merge_reconciler.py`, `issue_reconciler.py`, `retention_reconciler.py`, `pr_watcher.py` | `pr.checkedAt` | claim, recheck, archive | settled work leaves `done/`; no claim is left behind | `Housekeeping` |
| board: `projection.py`, event sinks | tasks and their columns, one queue per page | `hydrate`, `apply`, `archive`, `remove`, `subscribe` | the columns are where the files are; a page misses nothing | `Board`, `Housekeeping` |
| authoring: `drivers/fs_processes.py`, `drivers/fs_workflows.py`, `drivers/fs_agents.py`, `drivers/fs_triggers.py`, `app.py` `build()` | definition files | init, save, delete, start | what was accepted starts; a missing token drops a process, not the start | `Authoring` |
| agent runner: `behaviors/agent.py`, `behaviors/verify.py`, `drivers/claude_cli.py` | a process and two pipes | run, drain, read verdict, ask again, time out | the outcome is the one the process earned | `AgentRun` |
| live output: `drivers/stage_output.py` | a ring, one queue per viewer | reset, append, close, subscribe | a viewer gets the lines in order, without a gap at the seam | `StageOutput` |
| service and update: `cli.py` `_update`, `drivers/uv_updater.py`, `drivers/launchd.py` | version on disk and in the process, what launchd has loaded | upgrade, compare, gate, restart, install, remove | updates never starve the work; a deferred one is applied | `Service` |
| statistics: `stats.py` | nothing: histories only | `settling_entry`, `summarize`, `report` | the report says what the queues show, archived tasks included | `Stats` |
| the rest: API routes, subcommands, clients, in-memory drivers | - | parsing, rendering, wiring | see section 8 | - |

**How they interact.** All loops share one asyncio event loop and are
synchronous within a tick, except a consumer, which awaits its agent between its
claim and its delivery. The operator's requests and the imports run in threads
beside that loop and go through the same queues. `harness submit`, `harness
update` and hand edits come from other processes; people push, label and merge at
GitHub. Queues are the state that components share; events flow one way, from
whoever moved a file to the board, the labels and the logs, after the move.

**What is hard.** (a) Two clients list the same file and both go on. (b) A copy,
a head or a listing is acted upon after the thing changed. (c) A crash between any
two file operations, label calls or commits. (d) Histories of tasks that failed,
were declined, restarted, resumed and failed again. (e) Dedup keys rebuilt from
disk. (f) Several tasks with one local branch. (g) Files checked against one
start and read by the next. (h) Pipes, queues and rings at their limit.
(i) Everything must eventually move on. The list with its lines is `PROJECT.json`
`hazards`; each names the property that covers it and what that leaves out.

## 2. Modules

`MC*` modules only give constants their values. A module named `...Proofs` holds
the theorems about the module it extends.

| module | what it is | composed of |
|---|---|---|
| `TaskQueue` | the abstract port: a task has a home and a holder | |
| `FsQueue`, `FsQueueProofs` | the filesystem driver, one action per atomic file operation | implements `TaskQueue` |
| `Models` | `models.py` and `router.py` as pure operators | |
| `Harness` | dispatcher, consumers, healer, operator requests, crash and restart over shared queues | `Models` |
| `Stats` | the delivery report over those tasks | `Harness` |
| `HarnessProofs` | the theorems about `Harness` and `Stats` | `Stats` |
| `Ingest`, `IngestProofs` | issues and labels, polls, imports, reflection | |
| `Git` | commits, trees and merges as far as the workspace needs them | |
| `PullRequest`, `PullRequestProofs` | landing, triage, unblocking, review and merge of one pull request | `Git` |
| `Board` | the read model, and a page that is notified of it | |
| `Housekeeping`, `HousekeepingProofs` | the four reconcilers and the request thread, and what they tell the board | `Board` |
| `Cron` | cron expressions, intervals and occurrences as pure operators | |
| `Schedule`, `ScheduleProofs` | triggers on a cadence and their pollers under a clock that jumps | `Cron` |
| `Authoring`, `AuthoringProofs` | definition files, who edits them, and what a start makes of them | |
| `StageOutput` | the ring of a stage's lines and the viewers' queues | |
| `AgentRun` | a stage's process, its pipes, its runner | `StageOutput` |
| `Service`, `ServiceProofs` | the installed service under updates | `AgentRun` |

### FsQueue

`root[q][t]` is the file `<q>/<t>.json`, `held[q][t]` the one in
`.processing/`. A content is a revision and a lock, or `Corrupt`. A client
(the event loop, or a request thread) has a program counter: `Listed` after
`list()`, `Renamed` after the rename in `claim()`, `Working` after it stamped
its lock, `Written` after the first half of `transfer()`, `Sweeping` between
reading an unreadable file and moving it. Any other client's operation, a
crash, or damage to a file may come between. `claim()` writes back the *copy*
that `list()` returned, as `rev[a]` shows. `SubmitOpen` and `SubmitWrite` are
`harness submit`, which writes in place and not through `put()`. After a crash
`RecoverWrite`, `RecoverRename` and `RecoverCorrupt` walk the queues in
`Recovered` file by file; then `Start` lets the clients run. A second crash
during recovery leaves a state from which recovery simply starts again, so it
needs no action of its own.

Temporary files of `_write()` are left out: no listing sees them and the rename
that publishes them is atomic. The semantics of `os.replace` (atomic, fails
when the source is gone) is the one external assumption.

### Models and Harness

A task is its workflow, its single step, where it came from, the failed task it
heals (`of`, the dedup key), status, last outcome and history. Reasons, summaries
and agent output are left out; an entry keeps actor, from, to, outcome, and, for
a resume, the step its reason names.

A tick of the loop is one action up to the write of its `transfer()`, and
`FinishTransfer` is the rename: between the two run threads or falls a crash.
Claim and write of a synchronous tick are one action since a crash between them
leaves what a crash before them leaves (`FsQueue` has them apart). A consumer's
claim is its own action since the loop goes on while the agent runs. The healer
takes a snapshot of `failed/` (`HealStart`), handles candidates one at a time
(`HealSkip`, `HealDecline`, `HealSettle`), and then puts the heal tasks
(`HealPut`), all within one tick, as in the code; `HealStart` leaves out the
ticks that would do nothing. A request reads (`RequestFind`, which keeps the copy),
claims (`RequestClaim` writes that copy back), writes and renames. `Crash` drops
the memory; `Restart` is `recover()` followed by `_seed_pollers()`.

`torn` is an observer: tasks that a crash caught in the middle of a transfer, or
retired with their heal task still to be put. Task ids are handed out in order,
which is the order of `created` that `FifoStrategy` goes by.

`Stats` is `summarize()` over the listed files: where `SettlingEntry`, the newest move
into `done` or `failed`, puts a task (`Counted`). `Swept` and `MergeArchived` are what
the reconcilers make of a file they archive, so that the report can be asked of
every task as if it had been archived at this moment. The groups by kind, repository,
workflow and label are the same tally over fewer tasks; they, the tokens, the
window and the memoised report are left out.

### Ingest

`labels[i]` is what an issue carries on GitHub, `listing` what `list_issues()`
returns for the select label: GitHub's index, which lags (`IndexCatchesUp`).
`claimed` is the source's in-process ledger, `seen` the poller's keys. `loop` is
what the event loop is in the middle of: a poll (`PollList`, `PollRemove`,
`PollAdd`), the puts that follow (`PollPut`, or `PollDrop` of a known key), or a
reflection, `_set_state()`, which removes the other labels and then adds its own
(`TellRemove`, `TellAdd`). Each network call is a step, the removals of one
reflection together being one, and any may raise, carried out or not. The requests
of `GithubIssueImportService.add()` run in threads: one step per queue they list
(`ImportLook`), the label, the put. Between any two steps come people (`Want`),
the operator and a `Crash`, which drops ledger, keys and requests; `Start`
recovers the claimed tasks and seeds the keys from the queues that
`_seed_pollers()` reads.

A task is reduced to where it lies and whether it is claimed, which is all that a
listing or a label can tell; `Harness` has what the moves do to histories. The
claim is the same in `GithubTaskSource.poll()`, `GithubIssuesCheck` and
`JiraIssuesCheck`; what differs is the key of the task, which is `PollKind`.
`told`, `known` and `still` are observers. Closing an issue only takes it off the
listing, which `IndexCatchesUp` would do as well, so it has no action.

### Git and PullRequest

A commit is the set of changes in its history and the set of those its tree still
has. The two differ after a commit made from a working tree that had fallen behind
its parent: git records the tree as it stands, so what the parent brought in is
silently reverted. That is what several work trees on one local branch can do, and
`Git` has exactly enough to see it: `MergedTree`, `Committed`, `NothingStaged`.

`origin` and `bases` are GitHub's branches, `local` the one branch of the clone
that all work trees share, `trees[t]` a work tree with a merge in progress or not.
`pr` has the state, the base, the attempt labels (number and head) and the give-up
label. A task is the step it is at: `queued`, `agent`, `merge`, `land`. The event
loop's triage (`Triage`, `BumpClear`, `BumpAdd`, `GiveUp`, `ScanClean`) and its
landing (`LandSync`, `LandPush`, `LandPropose`) are one step per call to GitHub,
so that people push, a base moves, labels are deleted or a crash falls between any
two; agents run outside the loop, beside it. What a resolver or reviewer writes is
any content; a verdict is `merge`, `hold` or unreadable. `pushed`, `made`,
`read`, `attempted` and `overlapped` are observers.

### Board and Housekeeping

`cards[t]` is the column the projection shows, `slot` whether a revision lies in
the page's queue of depth one, `fresh` whether the page shows the board. An event is
emitted after the file was moved and by another step (`Emit`), since the request
thread and the loop only share the projection's lock: `outbox[w]` is the event of
each. Two events of one task can be told in the other order than the moves
happened; `crossed` observes for which tasks the last two were.

Each reconciler is a claim (`MergeClaims`, `WatchClaims`, `IssueSees` and
`IssueClaims`, `RetentionClaims`) and what follows it (`MergeOpen`,
`MergeArchives`, `MergeRaises`, `Resolve`). `checked` is the order of the
`checkedAt` stamps. `Work` is what the dispatcher, consumers and healer do to
places and statuses. `Restart` recovers the four recovered queues and hydrates
the board, whose page reconnects. `healed/` is a queue of an earlier version: the
retention reconciler reads it, and recovery does not.

### Cron and Schedule

`Cron` is `ports/triggers.py` over minutes since 1970 and civil dates: fields and
their items, `CronOK` (an expression that never matches is refused),
`OccurrenceAtOrBefore` (the walk back over `LookbackDays`), interval buckets. The
text of an expression is represented by its parts.

`Schedule` gives each process its trigger (`last`) and poller (`seen`). A tick is
`Poll`, `PollKeyless` or `PollRaises` - the occurrence is remembered *before* the
check is evaluated, as in the code - and one `Ingest` per observation. The clock
is the wall's: `Pass` goes on by any amount and `SetBack` goes back. `Stop` drops
memory and batch; `Start` seeds the keys from the queues, `Archive` takes a task
out of their sight. `OccurrenceOf` is a table over the instants of the run, so that
a walk of years is made once.

### Authoring

A file is what its parts say; `broken` stands for any text that is no JSON or has
a part of the wrong shape. `Starts` is what `run` and `serve` demand: the
workflows are read, a finisher that cannot be configured drops its workflow, every
step of a kept workflow or present agent is wired (`Wired`), triggers and processes
compile (`Compiles`), a process whose credential is missing is skipped
(`Skipped`), and no two processes claim one label (`Collide`). The dashboard's
saves check a process against `harness`, the wiring of the *running* start, and
not against the files; a workflow is checked for its form alone. `HarnessInit` and
`AgentInit` are the commands; `ByHand` is an editor. `saved` (only accepted saves
of processes and agents since the start) and `tampered` (something no check and no
seed vouches for) are observers.

### StageOutput, AgentRun and Service

Lines are numbered as the agent says them and 0 is the end marker. `buffer` is the
ring, `viewer[v]` a stream: replaying what it copied, or live; either way its queue
gathers what is said, and overflows by dropping the oldest (`Pushed`). One step
serves one line, since the response yields there. `heard` and `lagged` observe.

`child` is the agent's process: what it does next, how much it may still write, the
last result it reported. `out` and `err` are pipes that hold `PipeRoom` messages; a
full one blocks the writer. `ReadOut` and `ReadErr` are the two halves of
`_drain()`, `Conclude` the verdict once both are at their end, `Answer` the second
call that asks a session for its verdict, `TimesOut` the timer. The timer is taken
to be longer than a run in which something moves: it fires only when everything is
`Stuck`, which is what makes a runner that reads one pipe after the other wrong.
`Earned` observes what the process deserved.

`Service` adds versions: `published` out there, `installed` on disk, `runs` in the
process, and updates: the schedule's (`slot`), a person's (`now`), the page's
(`board`). `Kickstart` kills the stage that runs, which recovery gives back to its
queue. `job` is what launchd has: the service `loaded`, `out` between the bootout and
the bootstrap of `load()`, or `absent`. `ServiceInstall` is all before the bootout
and the bootout, `Bootstrap` what follows, which may fail; `ServiceUninstall` removes
it, and after `Dies` launchd starts it again. The jobs that fire updates are
replaced (`AutoupdateInstall`, `AutoupdateSchedule`) or removed
(`AutoupdateUninstall`) in whatever update they are, and the new one fires at once.
`UpdateOnly` is `harness update` without a restart.

## 3. Runs

| run | question | states |
|---|---|---|
| `fsqueue` | does the driver implement the port, with exclusive leases and nothing lost, under every interleaving and crash? | 20 602 |
| `core` | do histories, queues, healing and operator requests stay consistent over five kinds of task, two requests and a crash? | 1 743 142 |
| `core_live` | does every task settle and every failure get attended? | 49 877 |
| `ingest` | does polling make one live task per issue, do labels tell the state, does an import find what rests? | 994 782 |
| `ingest_live` | does every labelled issue become a task? | 574 400 |
| `pull_request` | is no push lost, does a resolution arrive, is the budget that of tries, is only what was read merged? | 2 222 734 |
| `housekeeping` | do board and page show where the files are, and has every claim a holder? | 1 490 305 |
| `housekeeping_live` | does what is over leave `done/`? | 38 478 |
| `schedule` | are occurrences the newest, has a key one task, is what a poll returned a task? | 1 406 201 |
| `authoring` | does what the dashboard accepted start, does a start need no token, does init mend? | 500 291 |
| `service` | has every stage the outcome its process earned, does a page get the lines in order, does everything end while updates fire and the operator interferes? | 1 003 884 |
| `update_deferred` | is an update that a firing left for the next one applied? (no) | - |

### Bounds, and why they suffice

* `fsqueue`: two tasks and two clients, since every race is between two clients
  over one file and the second task shows that others are left alone; one queue
  of each kind (guarded and recovered, recovered, neither); `MaxRev = 2`, so a
  claim can return a copy older than the file. Crashes are unbounded. Tasks and
  clients are symmetric; no liveness is checked there.
* `core`: `MaxTasks = 3` (a submission and its heal tasks), `MaxRequests = 2` (a
  restart or resume of what was restarted or resumed before), `MaxCrashes = 1`
  at any point, `MaxRework = 1` turn of the rework loop, `MaxParallel = 1`. The
  submissions are a workflow with a rework loop, the same filed by the harness
  (declined by the healer), as is one whose workflow has a step without a queue and a
  step that loops back to itself, a task that names only a step, and one whose workflow
  is unknown. One thread serves the requests: `OnlyFailuresTaken` needs that
  (section 5), and a request of the second kind can still find what the first left.
* `core_live`: two submissions that may overtake each other (`MaxParallel = 2`)
  with their heal tasks, one crash, no requests, no rework. A workflow that loops
  on rework for ever never settles in the code either: nothing bounds it.
* `ingest`: one issue, labelled twice, one import, one request of the operator, one
  crash and one call that raises, at any point and in any order: an issue shares
  nothing with another but the batch of a poll. `ingest_live` has two issues for
  that batch, one import, and no crash or raising call: both can lose an issue.
* `pull_request`: three tasks (the one that proposes, and two of triage, so that an
  unblock and a review or two unblocks meet), two bases, a budget of one attempt,
  and one each of a push, a re-arming, a retry, a crash and a raising call, at
  most three of them in one behavior (`MaxEvents`): a hazard here is a pair of
  events around a step, and the third shows the recovery from it.
* `housekeeping`: two tasks, one with a pull request and one with an issue, one
  request, one raising check, one crash. `housekeeping_live`: two pull requests,
  one of which stays open, no request and no page.
* `schedule`: the instants lie around 2032-02-29, a Sunday: an interval, a leap-day
  expression (looked back over the four years) and one whose day fields are both
  restricted; two conditions (symmetric), two changes, two troubles (stop, raising
  check, clock set back).
* `authoring`: three edits from an empty or a seeded root, over six workflow texts,
  six process texts and two trigger texts that differ in what a start checks.
* `service`: one viewer and a ring of two lines, pipes that hold one message,
  processes that write at most two, two stages, one update at a time, one release, and
  one outage: a crash or one command of the operator, at any point.
  One message of room and two writes are enough to block on either pipe while the
  other is read; two lines are enough to overflow. `update_deferred` is the
  smallest instance: one stage, no viewer, no call that fails.
* A bound may stop the model, never the code, so the runs do not check deadlock:
  the system at rest - nothing in a queue, no request - is a deadlock of the
  model and the normal state of the program.

### Fairness

`Harness`: weak fairness of each loop (`_tick_loop` ticks again at once after
a productive tick and after an interval otherwise), of a behavior's return (the
agent process has a timeout), of a request thread that has begun, and of
`Restart` (the service is kept alive by launchd). Nothing makes the operator
ask, a task fail, or a submission come.

`Ingest`: the index catches up in the end (GitHub's listing is eventually
consistent), a tick that has begun goes on (it awaits nothing), and a crashed
process is started again. A poll of new issues is strongly fair: the loop is not
free all the time, but asyncio resumes its ready coroutines in turn, so a poller
whose interval is over gets its turn between the ticks of others.

`Housekeeping`: strong fairness of the merge and the retention reconciler's claim,
for the same reason, and weak fairness of what follows a claim and of telling an
event. The merge check raises at most once there: a check that raises for good
starves the others (section 5).

`Service`: weak fairness of the stages, of the viewers' reading, of an update's
steps, of the bootstrap that follows a bootout (`load()` waits for ten seconds at most),
and of the schedule's firing, which goes on for good whatever it finds. It
is that last one that makes `EverythingEnds` a question: a firing that
restarts without need would kill the stage for ever.

## 4. Properties

Each property of a passing run has a mutant in `PROJECT.json`: a plausible bug of
the code, written beside the definition it changes, under which TLC finds the
property violated.

* **Queue**: `OneFileEach` (a task that was put and not deleted has exactly one file,
  any other none), `ExclusiveClaim` (the rename is a lease), `NoneStranded` (a
  claimed file of a recovered queue has a live holder), `ImplementsPort`.
* **Harness**: `DispatchFollowsDelivery` (a task goes past a step only on an outcome
  which that step delivered since it was entered); `FilesTellQueues` (status and queue
  agree, `StatusMatchesQueue`, and the report derived from the histories says what
  the queues show, before and after archiving, `ReportTellsQueues`);
  `ResumeReturns` (the dispatch after a resume goes to the step that failed);
  `HealedOnce` (one heal task, one decline note, and no failure retired for
  nothing); `OnlyFailuresTaken` (what a request takes is a failure *when it takes
  it*); `EveryTaskSettles`; `EveryFailureIsAttended`.
* **Ingest**: `PolledOnce` (ledger and keys together, over relabelling, lag, raising
  calls and restarts); `LabelTellsState`; `ImportFindsResting`;
  `WantedBecomesTask`.
* **PullRequest**: `NothingPushedIsLost` (whatever was ever on the branch is in its
  tree); `ResolutionReachesPr` (landing attaches again, and must not start over);
  `BudgetMeansTries` (the labels count tried heads, neither less nor more, with
  calls that raise between the two halves of a relabel); `MergesWhatWasRead`.
* **Housekeeping and board**: `ClaimedIsAttended`, `BoardTellsPlace`,
  `PageIsCurrent`, `SettledLeavesDone`.
* **Schedule**: `OccurrenceIsLatest` (against a definition that asks every day and
  minute on its own), `OneTaskPerKey`, `ReturnedIsTasked`.
* **Authoring**: `SavedStarts` (checked against one start, read by the next),
  `TokenlessStarts`, `InitMends`.
* **Agent, output, service**: `VerdictIsRight`, `StreamInOrder`, `EverythingEnds`,
  (of a service that is loaded for good) and `DeferredApplies`, which the code
  violates.

## 5. Where code and words differ, and known limits

**A deferred update is never applied** (run `update_deferred`). A firing of
`harness update --restart --only-if-idle` upgrades the package first and
then skips the restart because a stage runs; the next one compares the version on
disk before and after its own upgrade (`cli.py:1744`), finds no change, and does not
restart either. `src/README.md:92` says the firing "leaves it for the next slot". The
service runs the old version until another release. The page's button
(`drivers/uv_updater.py:63`) has the same order.

The properties name what they leave out, and the code does go wrong there:

* *Queue and harness.* A crash between the two halves of `transfer()` returns the new
  content to the old queue, and the next dispatch skips a step (`torn`). A failure
  whose heal task was still to be put when the process crashed gets none. A resumed
  task that fails again is retired without a second heal task: its key is known. A
  declined failure does not resume, since `failure_trace()` takes the note
  `failed -> failed` for the failure. With two request threads one may look at a
  retired failure in `done/`, the other resume it, the task complete, and the first
  claim the completed task and write its stale copy over it: `claim()` asks only
  whether the file is there (`task_control.py`, `drivers/fs_queue.py:67`). That
  is why `OnlyFailuresTaken` is asked, and proved, of one request at a time, and
  what holds of any number is a theorem of its own (`TakesWhatItFound`). `submit` writes in place, so a listing can
  sweep the half-written file into `failed/`. `healed/` is not recovered.
* *Statistics.* A failure the operator sent back counts as `failed`, not as in flight,
  until it settles again. A workflow may have a step named `archived`, since
  `drivers/fs_workflows.py:26` does not reserve the name; the report takes a task in
  it for an archived one (`stats.py:319`).
* *Service.* `load()` boots the old copy out first: a bootstrap that fails leaves nothing
  running (`drivers/launchd.py:304`). A failed restart after an upgrade is never made
  up for, since the next firing finds nothing new.
* *Ingestion.* The ledger is written before the label calls, so an issue whose call
  raised is skipped until a restart. An import does not see what a consumer holds,
  and its key is not that of a compiled process, so it can put a second task.
* *Schedule.* An occurrence is marked before its check is evaluated
  (`drivers/scheduled_trigger.py:88`): a check that raises gives the occurrence up.
  A condition that clears and comes back has its old key until the task is archived
  and the process restarted; a process with `always` and per-state keys never makes
  a task; per-interval keys keep one observation of several. After an archive and a
  restart the current occurrence fires again.
  The comment at `ports/triggers.py:270` calls the end of the walk unreachable; for
  February 29 it is reached around 2100.
* *Pull requests.* Two live tasks of one branch share it: the second attach moves it
  under the first, whose next commit reverts what came with it
  (`drivers/git_workspace.py:311`; `overlapped`). Landing merges the repository's
  default base even where the pull request has another (`behaviors/landing.py:64`).
  Deleting only the give-up label does not re-arm a spent pull request. A crash
  between the label and the task spends an attempt.
* *Board.* Events that cross leave a card in the wrong column, or a ghost card of a
  deleted task, until the next event or restart (`crossed`). A torn archiving leaves
  the status `archived` in `done/`. A merge check that raises for good starves the
  other candidates.
* *Authoring.* A workflow edited on the dashboard is checked for its form, not for
  what a start makes of it; a process save does not see the label of another process.
  A dropped workflow still stops the start when a process or step depends on it. A
  missing token does stop the start when a workflow binds `label-issue`.
* *Output.* The lines said while a viewer is still served the ring are lost when the
  stage ends before it is through (`drivers/stage_output.py:69`). A timeout discards
  a verdict that was already read. `proc.wait()` after both pipes closed has no timer
  (`drivers/claude_cli.py:438`).

## 6. Proofs

Every safety invariant and action property of the passing runs, and the
refinement, is a theorem: what a run shows of a small instance holds for any
workflows, tasks, queues, threads, bounds and depths. What the theorems need of
the constants is in the `...Assumption` of each module, which TLC evaluates on
every run; four theorems have a hypothesis besides:

| theorem | hypothesis | why |
|---|---|---|
| `FilesTellQueuesHolds` | `ArchivedIsNoStep`: no step is named `archived` | the report cannot tell such a task from an archived one (section 5) |
| `OnlyFailuresTakenHolds` | `Alone`: one request at a time | it is false of two (section 5); `TakesWhatItFoundHolds` is what holds of any number |
| `InitMendsHolds` | `SeedsBuild`: what `init` makes of an empty root starts, with and without credentials | a fact about the shipped texts, which are a constant here; with seeds that do not start there is nothing to mend |
| `OccurrenceIsLatestHolds` | `InReach`: every expression names a minute that the walk reaches | February 29 around 2100 (section 5); `FoundIsLatestHolds` has no such hypothesis |

TLC evaluates the first two on the run `core`. The first state of `authoring`, an
empty root, shows that the seeds there start; `OccurrenceIsLatest` itself shows for the
instants of `schedule` that the walk finds something.

### The queue

`FsQueueProofs`: one inductive invariant, `IInv`. The
safety properties support each other - `OneFile` needs `NothingLost` so that `Put`
of a fresh id finds no file, `NothingLost` needs `ExclusiveClaim` so that a client
discards the file it holds and no other - but are not inductive without
`ClientShape`, what a client in the middle of an operation knows: clients exist only
while the process is up (so recovery races with nobody), a sweep is of a guarded
queue, and what is about to be renamed carries no lock.

`ImplementsPortHolds` is the refinement. `HomeOf` and `HolderOf` choose a queue and a
client; `Mapped` says that under `IInv` there is only one to choose (`Views`), and
`SeenAtOne` that a step which touches one task's file changes the mapped variables at
that task alone. Then each file operation is matched: the rename of a claim is
`Claim`, the rename of a transfer is `Transfer`, the rename of a recovery is
`Recover`, a sweep or the recovery of an unreadable file is `SweepAway`, and every
write, stamp and listing is a stutter (`PutIsPut` to `CrashIsCrash`; `PortStep`
puts them together).

### The harness

`HarnessProofs` has four layers, each an inductive invariant that uses the one before.

1. `Holding` - who holds what. A claim belongs to the loop's transfer, to a consumer
   or to a request, to one only (`OneHolderHolds`), and the copy of a request that
   has claimed is the file. `Written` says once what each writer of the
   loop may make of a task; all later layers go through it.
2. `FilesFit` and `CopiesFit` - what a file's status, outcome and history say in each
   queue (`InInbox`, `InStep`, `InDone`, `InFailed`), and that the copy in a request's
   hands was such a file. A task in the inbox is new or restarted, back from a step with the
   outcome that this step delivered, resumed, or resumed though declined; each leads
   the dispatcher to one decision. `DispatchFollowsDeliveryHolds`, `ResumeReturnsHolds`
   and `FilesTellQueuesHolds` follow; lemmas about `NewestMoveTo`, `Rewind`, `Route` and
   `SettlingEntry` replace each CHOOSE by the one entry it can mean.
3. `NotesOnce`, `Keys` and `RetiredIsTaken` - the healer's books: the dedup keys cover the
   heal tasks there are, across the restart that rebuilds them, and a failure that is
   retired has a heal task, or one on its way. `HealedOnceHolds`.
4. `StaysDone` - for a single request: nobody else takes a task out of `done/`, so the
   copy still is the file. `OnlyFailuresTakenHolds`.

### Ingestion

`IngestProofs`: `IInv` adds to the properties `SeenCovers` - the poller of a running
harness knows the key of every live task a poll put, from its own put or from the
queues that `_seed_pollers()` reads, which is why every place of a live task must be
among them - and `Cleared` - once a reflection removed the other labels, nothing but
its own last call adds a state's label. `PolledOnceHolds`, `OneStateLabelHolds`.

`LabelTellsStateHolds` rests on `Labelled`: an issue without a task (`Untasked`)
carries `queued` only while a poll or an import is on its way to put one, and the
label of an issue with one task (`Single`) is right except between the two calls of a
reflection, whose target is then what was told (`Retells`). `ImportFindsRestingHolds`
rests on `Still`: a task that has lain still since a request began lies, unclaimed,
in a queue that the request has yet to list - so nothing is left of them after the last.

### Pull requests

`PullRequestProofs`: `Staged` and `Ticking` say which steps a task can be at;
`GitHolds` is about git: bases drop nothing, histories tell commits apart (`Told`),
and as long as no two tasks overlapped, everything pushed is in the tree of the branch,
of the clone when it is ahead, and in the files of every task at work (`Safe`). That
is what `NothingPushedIsLostHolds` needs, which by itself says nothing of the clone.
`Pins`, `MadeKept` and `ReadRight` give `ResolutionReachesPrHolds` and the action property
`MergesWhatWasReadHolds`. `LabelsHold` counts: labels are numbered without repetition
(`Numbered`), name tried heads (`Counts`), and fall short of the tries by no more than
the crashes and raising calls (`Spends`, `Slack`), also halfway through a relabel
(`Bumps`): `BudgetMeansTriesHolds`.

### The rest

`HousekeepingProofs`: `ClaimedIsAttendedHolds` from an
invariant that ties a holder to what loop and thread are in the middle of and a
claim to the queues that are recovered (`ClaimShape`, `ClaimPlace`, `LoopTask`);
`PageIsCurrentHolds` from `PageInv`; `BoardTellsPlaceHolds` from `BInv`: of the two
workers' waiting events of a task the *newest* tells the place, unless they
crossed, and a task nobody announces shows it already. `TypeCorrect` includes that the
order of the `checkedAt` stamps names each task once, which is what makes the
reconciler's turns go round.

`ScheduleProofs`: `OneTaskPerKeyHolds`, from `SeenCovers` again;
`ReturnedIsTaskedHolds`, from `Owing` and `BatchOwed`: what an evaluation returned is
tasked or still in the batch. `FoundIsLatestHolds`: the walk over days, hours and minutes
finds the newest minute that a declarative definition names (`WalkedIsNewest`); it
needs the parts of an expression to be of their types (`CadenceAssumption`) and
the instants to be minutes after the epoch (`ClockAssumption`).

`AuthoringProofs` (with `TextsAssumption`: a text names steps
there are): `SavedStartsHolds`, from `Vouched`: since the start, accepted saves left
the served workflows as they were, the steps of the start known and the files
buildable. The step that matters is that a saved process compiles against the
running wiring and must compile against the files (`KnownGrows`, `OneProcess`), and
that a saved agent only adds steps that are wired (`OneAgent`).
`TokenlessStartsHolds`: without credentials fewer processes compile, each as before
(`WithoutCredentials`); it is a theorem about every root, not only reachable ones.
`InitMendsHolds`, from `MInv`: unless somebody tampered, a root is within reach of the seeds -
its files are seeds or what saves could make of them - so seeding completes it.

`ServiceProofs`: `StreamInOrderHolds`. `Fits` relates what a
viewer heard, what it has left to replay and what its queue holds: they are in order,
and unless the queue overflowed they are consecutive across both seams and reach the
last line said, or an end marker. `VerdictIsRightHolds` from `RInv`: what the reader has
taken for the final result, with what the pipe still holds, is what the process said
last (`CaughtUp`), so that the verdict at the end of both pipes is the one earned.
`TypeCorrect` keeps versions in order (`runs <= installed <= published`).

### What the proofs found in the model

* `Counted`, `Earned` and `Wired` were written with CASE arms that overlap. TLC takes
  the first that is true and TLA+ any of them, so the checked definition was one of
  several: they are IF chains now, in the order of the code.
* The labels of a new pull request start from nothing, but the observer of the tried
  heads did not (`CountsAnew`): `BudgetMeansTries` held
  in the run by its bounds, and could not be proved.
* `NoStepSkipped` failed for a workflow with a step that loops back to itself: the
  graph of `core` had none. The property says now what holds of a resume there
  (`GoesRound`), and the graph has such a step.
* `OnlyFailuresTaken` is false of two request threads, see above.

### What is only model-checked, and why

Liveness - `EveryTaskSettles`, `EveryFailureIsAttended`, `WantedBecomesTask`,
`SettledLeavesDone`, `EverythingEnds` - and the violated `DeferredApplies`:
fairness and ENABLED are beyond these provers. So is induction over data, which no
theorem here needs: helpers are sets, functions or CHOOSE, characterised by lemmas.

## 7. Plan

What is left, the most important first:

1. What the liveness properties rest on and can be proved: that no reachable state of
   `Harness` leaves a live task without an enabled step, as an invariant.
2. The harness over the queue: the moves of `Harness` as steps of `TaskQueue`, so that
   the two files of `FsQueue` and the one of `Harness` meet in a theorem.
3. Two request threads in a run of their own.
4. Work trees of tasks without a repository, and the artifacts they read.

## 8. Not modelled, and why

* HTTP routes: their parsing, rendering and status codes. The state changes they
  cause are in `Harness` (operator actions), `Ingest` (import), `Authoring` (saves),
  and their two event streams in `Board` and `StageOutput`.
* `label_issue.py`, `github_issues.py` and `issue_drafts.py`: single calls without
  state of their own.
* The subcommands of the command line that print or edit one file; the text of the
  launchd files; the encodings of the GitHub and Jira clients; the
  Slack sink; prompts and the rendering of an agent's messages.
* Work trees without a repository.
* In-memory and fake drivers: test doubles of the ports.
* The agent itself: any messages, any exit, any content.
