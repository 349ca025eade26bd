# A verification project for BackupCheckup

BackupCheckup is a Home Assistant integration that watches the native backup
manager, checks that the newest backup can be read and decrypted, and, with the
help of a separate add-on (the *runtime runner*), restores it into an isolated
process and sees whether Home Assistant starts from it. The TLA+ here models
the parts of it that keep state across threads, awaits, failures and restarts,
and the rules by which it judges a backup from that state.
TLC checks the models on small instances. TLAPS proves every safety property the
runs check, and that the verification pipeline implements its promise, for every
value of the constants; liveness is left to TLC.

Paths below are relative to the repository. `CC` is
`custom_components/backup_checkup`, `RR` is
`runtime_runner/rootfs/opt/backup-checkup-runner`.

## 1. Inventory

### 1.1 Components

| Component | State it keeps | Operations | What makes it correct | Module |
|---|---|---|---|---|
| Run manager, HTTP handlers, execution thread, reaper (`RR/server.py`) | registry of runs, one `RunState` each (steps, status, evidence, password, upload flags), a directory on disk | create, PUT archive, start, GET, DELETE, the execution of a run, the reaper, a restart that forgets everything | a terminal answer is complete, truthful and, but for one timestamp, final; no secret survives it; one run at a time; nothing is stuck for ever | `RuntimeRunner` |
| Isolated boot (`RR/isolated_boot.py`) | progress file, result file, child process | boot, probe, clean up, write the result, die | stages shown are stages reached | `RuntimeRunner` |
| Runner credentials, TLS, discovery (`RR/server.py`) | token and certificate files | start-up code | - | not modelled |
| Verification scheduling (`CC/coordinator.py`, `CC/task_control.py`) | `integrity_result`, retry state, password marker, running flag, task reference | refresh, manual start, the verification task, its done callback, `async_shutdown` | one check at a time; none without need; published retries bounded; the newest backup is verified in the end; the store follows memory | `VerificationLifecycle` |
| Integrity store (`CC/integrity.py`, `BackupIntegrityStore`) | one file, one lock | save result, update runtime state, load | the store agrees with memory when its writers are served | `VerificationLifecycle` |
| Verification pipeline (`CC/integrity.py`, `CC/security.py`) | staged copies, budgets, ranked failures, worker thread, leftovers of earlier checks | prepare, download, verify per candidate, clean up, sweep, cancellation at every await | a verdict is true of the copy it names and follows the documented ranking; nothing is removed while it is read; what stays behind is reported; every check ends | `VerificationPipeline`, `CopyFallback` |
| Snapshot, adaptive polling, runtime test, runner health (`CC/coordinator.py`, `CC/native_backup.py`) | published data, the stored and the live test, refresh coalescing flags, polling interval, runner state | refresh, outage, the isolated test, native events, health checks | what is claimed was shown for that backup; an outage hides nothing; an event is followed by a refresh that sees it | `Assessment`, `RuntimeTest`, `EntryLifecycle` |
| Automatic history (`CC/history.py`) | attempts and their status, delayed save | `async_observe`, metrics, load, save | no failure is invented, the newest conclusion is right | `AutomaticHistory` |
| Notifications (`CC/notifications.py`, `CC/notification_policy.py`) | last reported set and devices, waiting set, a file | `async_process`, send, save, load | problems are confirmed before they are reported, recoveries follow problems, a lasting state is reported | `NotificationManager` |
| Runner client (`CC/recovery_runtime.py`) | the run it follows, the stored result | require_health, create, upload, start, poll, judge the answer, delete, save | a stored proof is the runner's own and about this archive; the outcome says what happened | `RuntimeTest` |
| Progress model (`CC/progress.py`) | weighted steps of one job | start, begin, measure, complete, adopt the runner's steps, finish, cancel, publish | no step is invented, a job that ended stays ended, none stays open | `ProgressReporter` |
| Activity log (`CC/activity.py`) | entries, coalesced save | append, save, flush | - | not modelled: a journal no decision reads |
| Analytics, problem state, repairs (`CC/analytics.py`, `CC/problem_state.py`, `CC/repairs.py`, `CC/age.py`) | the repair issues shown | problem flags, status, health score, issues | issues and problems agree | `HealthRules`, `Assessment` |
| Inventory normalisation (`CC/backup_normalizer.py`, `CC/classification.py`), agent clean-up | none | conversions, selection, comparison; deletions | the newest backup is the newest | `InventoryRules`; clean-up is not modelled: sequential |
| Recovery readiness, plan, simulation, preparedness, restore tests (`CC/recovery*.py`) | small stores edited by the user | assessments; documents | evidence is about the backup it names | `RecoveryRules`, `Assessment`; documents are not modelled |
| Set-up, unload, discovery monitor, services (`CC/__init__.py`) | entries, one monitor task | set up, unload, reload | an unload leaves nothing running | `EntryLifecycle` |
| Configuration, flows, presets | options | forms | - | not modelled: tables |
| Entities, diagnostics, models | none | views | - | not modelled |
| Panel and its API | none | rendering | - | not modelled |

### 1.2 How they interact

- The **coordinator** is the centre. A refresh reads the inventory, updates the
  password marker (one store write), builds the snapshot, lets the history
  observe it and the notification manager process it, and finally decides
  whether a verification is due. All of this runs on one event loop; the
  interleavings are those of awaits.
- The **verification task** calls the pipeline, stores the result, releases the
  running flag and its own reference, and asks for a refresh - which may start
  the next check before the first task's done callback has run.
- A verification may be followed by a **runtime test**: the client talks HTTPS
  to the runner. The two have independent deadlines, and any response can be
  lost. Its verdict is shown, and counts, before the verification is over.
- What is **claimed** about the newest backup is drawn from all of these: the
  manager's answer, the one verdict in memory, the stored runtime test, the
  history and the user's documents, each of its own age. When the manager
  cannot be read, the claim is drawn from the last snapshot instead.
- The **polling timer**, native events, the end of the start phase, the recheck
  of an unconfirmed problem and finished checks all ask for refreshes, through
  Home Assistant's debouncer or past it, so that two of them may overlap.
- In the **runner** one thread per request, one per execution and the reaper
  share the registry and the run states under one manager lock and one lock per
  run; file system calls are made outside both. The child process talks to its
  thread only through two files.
- Every **store** (integrity, history, notifications, activity) is written
  behind an await; a crash between a decision and its save is a behaviour of
  all of them. A change of options reloads the entry, which is a restart.

### 1.3 What is hard here

Threads that look a run up and act on it later; deletions that race an upload
or an execution; a status published field by field; a progress file sampled by
one process and overwritten by another; decisions made on a snapshot read
several awaits ago; done callbacks that come late; captured values written in a
different order than they were captured; success timestamps that do not say
which attempt they belong to; saves that are delayed; sends that fail; deadlines
on two sides of a connection; verdicts and proofs that outlive their backup;
views merged from parts that change at different moments; requests for a refresh
that a debouncer ignores. The list with lines is `hazards` in
`PROJECT.json`; each entry names the properties that watch it or says why none
does yet.

## 2. Modules

### 2.1 RuntimeRunner

| State | Code |
|---|---|
| `created`, `registered`, `isolationAvailable` | identifiers issued, `RunManager._runs`, the probe made at start-up |
| `run[r]` | `RunState`: status, stage, steps, password, `uploading`, `archive_verified`, evidence, `checked_at` and `duration_seconds` (`published`), activity within ten minutes (`fresh`) |
| `disk[r]` | what the run's directory holds: itself, the archive, the restored tree |
| `exec[r]` | program counter of the thread running `_execute` |
| `child[r]` | `isolated_boot.py` with its progress and result file |
| `handler[h]` | an HTTP thread between looking a run up and acting on it |
| `reapQueue`, `reapPop` | the candidates `_reap_stale_runs` took, and the one whose directory is gone |
| `run[r].late` | the steps whose `finished_at` and `heartbeat_at` were written after the answer was published |
| `milestone[r]` | history variable: restored, started, answered |

A section under a lock is one step, and so is a file system call outside one. A
delete is three steps (look-up, `rmtree`, pop), an upload is look-up, claim,
open, write, step closed. A recursive delete that fails may leave any part
behind. The child may die anywhere, including after its result. The restart
discards the registry and the storage, as `RunManager.__init__` does.

Handlers and the reaper need no fairness from clients: `Request` actions are
never fair.

### 2.2 VerificationLifecycle

One step is the code between two awaits. `refresh[slot]` are the refreshes that
can be in progress at the same time, one of the polling timer (`direct`) and one
of the debouncer (`debounced`), the latter owned by the loop or by the task that
asked for it; `task[t]` are task objects, reused after their done callback;
`writes` is the queue of the store's lock, each entry with the values it
captured; `store` is the file. `running`, `tracked`, `result`, `retry`,
`marker` are the coordinator's attributes. `stopping` is `async_shutdown`:
cancel, await, shut down. `repeated` and `unsaved` are history variables.

`newest` and `password` are the manager's: any backup may become the newest, as
backups are made, deleted and lost, and there may be none (`NewestChanges`). A
refresh keeps in `refresh[slot].latest` what it read, and decides on it several
awaits later. The verifier is one awaited step with any outcome; a check the user
asked for may show its verdict before its runtime test (`TaskShowsVerdict`). The
manager being busy at the end of a refresh is the parameter of `RefreshDone`.
`FailureHandlerRaised` is the internal error that cannot be published: it sets
the result and leaves the retry state.

### 2.3 VerificationPipeline and CopyFallback

One check of one backup, `async_verify` with everything below it, and what its
caller is promised.

| State | Code |
|---|---|
| `content[c]` | what the archive of copy *c* shows when it is read: sound, a damaged database, no database, damage behind the database, protected, too big, or called protected by its agent although it is not |
| `pc` | the await at which the coroutine is; `startup` is the sweep of `async_setup_entry` |
| `copy`, `outcome` | the candidate of the loop, and its outcome while the file is closed and removed |
| `failures`, `verdict` | `_VerificationFailures`, and the result or exception that leaves the loop |
| `worker` | the thread in `_verify_archive`, or what it ended with and nobody has read yet |
| `disk` | the private directory: itself, the staged archives, the extracted database and the copy it came from |
| `left` | directories of earlier checks and processes in the staging root, recent or stale |
| `unclean`, `issue` | `issue_active` of the clean-up in progress, and the repair issue |
| `expired`, `cancels`, `checks` | overall deadline, cancellations of the check, checks so far |
| `tried`, `happened`, `swept` | history: failures in order, events that concern all copies, the last clean-up ended |

A cancellation reaches the coroutine at an await. The executor job it was
waiting for happens or not, and nobody sees its result: `CancelElsewhere` and
`CancelCleanUp` choose. In the download the `finally` clause still closes the
file, and an error there replaces the exception in flight, the cancellation
included (`CloseFails`, event `masked`). While the worker reads, the first
cancellation only tells it to stop and waits (`drain`); a second one leaves it
behind, and then the clean-up may remove what it reads. `StagedWhileRead` says
so. `AgentGone` is there because the candidate is looked up in the live registry
of the backup manager each time, after awaits in which it may have been
unloaded. `DatabaseError` is any `sqlite3.DatabaseError`, which the code takes for
a damaged database, an I/O error on a sound one included.

`CopyFallback` is the promise: copies are tried in order, one that fails on its
own is followed by the next, one that can be judged ends the search, the most
severe and earliest failure is the answer when all failed, and only an event
that concerns every copy lets the check give up early. `Fallback` instantiates
it with `answer` mapped to the verdict of a check that has ended: every step of the pipeline is a
step of the promise or a stutter, which TLC checks and section 5 proves. The
promise lists an agent's own timeout among the events that concern every copy,
because the code treats it so; whether it should is finding 2.

### 2.4 AutomaticHistory

`async_observe` is `Refresh`: record the attempt shown, match the success,
resolve what has expired, drop what is older than the retention, publish the
metrics and arm the delayed save. `attempt`, `success` and `truth` are the
native manager: only the first two are visible to the code. Attempts do not
overlap, as the native manager creates one backup at a time. One may begin right
after a success: `near` is a history variable that keeps the attempts begun within
the matching tolerance of one. `tracking_started_at` is left out.

### 2.5 NotificationManager

`Process` is `async_process` up to its first await; `Sent`, `SendFailed`,
`Saved`, `SaveFailed` are what the awaits bring. `Disable`, `EnableFirst`,
`Unchanged`, `Recover`, `AwaitConfirmation` and `ReportProblem` are the paths of
the code and exclude each other. A signature is a set of problems. No targets
stands for notifications that are switched off as well. `seen`, `told` and
`forgot` are history variables.

### 2.6 RuntimeTest and ProgressReporter

`_async_run_runtime_test` with the client it drives, the runner as its answers
show it, the store of the result and the view that entities and panel read.

| State | Code |
|---|---|
| `test` | the coroutine: the await it is in, the backup and checksum it was given, the run it knows, the result it is about to store |
| `job`, `shown` | `ProgressReporter.progress`, and what was published of it |
| `store` | `RuntimeTestStore`: the snapshot in memory and the one in the file |
| `runs` | the runner's runs: status, phase of the pipeline, where it broke, verdict |
| `stepwise` | the capability `step_progress`; without it the client estimates |
| `latest`, `entry` | the newest backup; the coordinator between set-up and the end of `async_shutdown` |
| `reached`, `sent`, `misled` | history: how far the run came, whether the upload began, whether the answer was not the run's own |

A request has four ends: answered, refused, lost on its way there, lost on its
way back (`Effects` is what the runner may have made of it). `PollForeign` is an
answer that is unsigned, about another archive, or names none. `Deadline` is the
client's, and may come while the run executes. The archive may be gone before the
create request (`ArchiveGone`) or when the upload is put together (`ArchiveLost`). `Delete` is best-effort. A
cancellation reaches the await the test is in: in the pre-run check and the save
nothing closes the job (`CancelUnhandled`), and `ShutdownDone` has to. A crash
during a save leaves the old file or the new one.

`ProgressReporter` has one operator per method, from job to job; each runs under
the reporter's lock. `View` is `_runtime_view`. The runner is that of
`RuntimeRunner`, cut down to what an answer tells: `sweeping` is the time in which the child
reports its clean-up while boot or probe is still running, because nobody knows
yet how the start ended. What the runner guarantees
about terminal answers is proved there.

### 2.7 Assessment and its rules

`InventoryRules`, `HealthRules` and `RecoveryRules` are pure and build on one
another: how the manager's answer becomes records, summaries and freshness; the
problems, status, score and repair issues; readiness, simulation, evidence,
risks. `Assessment` applies them. What a check may say about a copy
(`VerdictsOn`) is everything the code can answer: errors before the archive was
read carry no checksum, later ones do, and the database's status goes with the
error. The content counts as changed when a checksum differs from that of the
last verdict about the same agent's copy; which agent that was is left open.

| State | Code |
|---|---|
| `data` | `coordinator.data`, the fields some claim is made of |
| `issues` | the health repair issues of `_sync_repair_issues`, which runs with every publication |
| `startup` | `_startup_settled`; *reported* once a snapshot was published after it (history) |
| `integrity` | `integrity_result`, the one verdict in memory |
| `checking` | the running check: its backup, the verdict it compares with, whether its runtime test has begun or ended |
| `progress` | `_progress_record` |
| `runtime`, `restore`, `items` | the stored runtime test, the documented restore test, the dependencies |
| `verdicts`, `proved` | history: the last verdict about every backup, the checksums the runner proved |

`Snapshot` is `_async_build_snapshot`, `Outage` is `_manager_error_snapshot`,
`FoldProgress` is `_refresh_progress_data`: the three ways data is published. A
reading is one answer of the manager, of its native state and of the history; a
refresh may take any of them, one that is older than the present verdict
included. Days stand for all ages. `Publish` does nothing to the issues in the start
phase, and removes them with the option off (`IssuesEnabled`); `Settle` ends the
hold, and the refresh it asks for is a step of its own.

### 2.8 EntryLifecycle

| State | Code |
|---|---|
| `phase` | `async_setup_entry`, the loaded entry, and the awaits of `async_shutdown` |
| `settled`, `timers` | `_startup_settled`; what the coordinator has armed or subscribed to |
| `polling` | the refresh of the timer and that of the debouncer (at most one each), the timer, the cooldown, the remembered request |
| `adaptive` | `_adaptive_refresh_task` and `_adaptive_refresh_pending` |
| `view` | manager state of the snapshot, `_manager_backup_active`, `_inventory_error_count` |
| `sighting` | how far the notification manager is with a problem that stands all the time |
| `manager` | the backup manager: its state, and whether it answers, fails or answers nonsense |
| `check`, `health`, `discovery` | the verification that runs and whether it may wait for a runtime test, `_runner_health`, the discovery monitor |

A refresh is three steps: it reads the manager, it is built and notified, it is
published. Between them everything else happens; the state it publishes is the
one it read. `DataUpdateCoordinator` and its debouncer are external and modelled
as the code relies on them: starting a refresh disarms the timer, ending one
arms it while there is a listener, a request made while the debouncer refreshes
is ignored, one made in its cooldown is remembered. `Updated` is
`async_set_updated_data`, with which a check publishes its progress
(`PublishProgress`): it forgets the remembered request and arms the timer again.

### 2.9 MC and proof modules

`MCRuntimeRunner` and `MCVerificationLifecycle` add symmetry and the constraint
of the two-run model, `MCAssessment` the readings of the manager. A module named
`X_proofs` holds the theorems about `X`: `RuntimeRunner_proofs`,
`VerificationLifecycle_proofs`, `VerificationPipeline_proofs` (with the refinement
of `CopyFallback`), `AutomaticHistory_proofs`, `NotificationManager_proofs`,
`RuntimeTest_proofs`, which rests on the lemmas of `ProgressReporter_proofs`, and
`Assessment_proofs`, which treats the three rule modules as well. Definitions
commented *Mutant* are broken forms of an operation, kept to show that a property
notices the bug; nothing else uses them.

## 3. Runs

| Run | What it asks | Bounds |
|---|---|---|
| `runner_one` | evidence, secrets, uploads, truth of one run, and what changes in its terminal answer; executions end; abandoned runs are reaped | 1 run, 2 handlers, any number of restarts |
| `runner_two` | never two registered unfinished runs | 2 runs, 2 handlers |
| `verification` | one check at a time, none without need, retries bounded but for unpublished failures, store and memory agree | 2 tasks, 1 backup that comes or goes, 1 error code, 1 password, 1 change, 1 restart, 1 lost write, 1 unpublished failure in a row, limit 2 |
| `verification_progress` | the backup that stays the newest comes to be the verified one | 3 tasks, 2 backups, 1 change, limit 1, no password, no failing write |
| `verification_busy` | *violation*: a check put off because the manager is busy starts at the next refresh | 2 tasks, 1 backup, 1 password |
| `history` | the failure streak is real, the newest conclusion is right | 6 ticks, grace and tolerance 1, retention 3, window 2 |
| `notifications` | problems confirmed, recovery follows problem, a stable state is reported | 2 problems, 2 devices, 2 ticks to confirm, 2 restarts |
| `pipeline` | a verdict is true but for two named exceptions, nothing is removed while it is read, leftovers are reported, cancellations are heeded, the promise is kept, every check ends that waits for nothing without a deadline | 2 copies of any content, 1 check, 2 cancellations, any number of crashes |
| `runtime_test` | a stored proof is real, the view is honest, the outcome is truthful, no step is invented but for one poll, no job stays open | 2 backups, 2 tests, 1 checksum, any number of crashes |
| `assessment` | evidence is real, an outage hides nothing, issues are the problems after the start phase | 4 readings of 5 backups, 2 locations, 2 checks, 1 document, 2 days, option on |
| `entry` | a shutdown dies out, polling catches up | 2 changes of the manager, backoff after 2 errors |
| `pipeline_fallback` | *violation*: a check that gives up has tried every copy unless something concerned them all | 2 copies, 1 check, no cancellation |

Why the bounds are enough:

- **Runner.** Two handlers are the smallest number for two uploads, or an
  upload, a delete and a start of one run, to meet; the reaper and the execution
  are further threads. Runs share nothing but the registry. `runner_two` looks
  at the time both are unfinished (constraint `Overlapping`): what an execution
  does after its restore concerns its own run alone, which `runner_one` covers.
  The theorems of section 5 need none of these bounds.
- **Verification.** Two task objects are a finishing check and its successor;
  with one backup, a change is that it comes or goes. Two overlapping
  refreshes are all the code can have. The safety run uses a limit of 2 (one
  retry below the limit and one at it; the code's is 3) and one error code, as
  another failure that resets the counter is the password outcome; attempts
  saturate at the limit, as nothing compares beyond it. The progress run has two
  backups, so that retries of one are exhausted when the other becomes the newest,
  and three task objects: with two, an object could be missing for the refresh
  that has a check to start, which is no behaviour of the code. It leaves out
  passwords, failing writes (`StorageFails`), restarts and unpublished failures,
  none of which decides whether the newest backup is checked at last.
  `MaxRestarts` bounds the restarts, `MaxEdits` the changes from outside,
  `MaxUnrecorded` the unpublished failures in a row, and one write can be lost
  between two process starts. The theorems hold for any values of these.
- **History.** Six ticks hold three attempts with a success in between, one that
  begins within the tolerance of a success, and one that leaves the retention;
  grace and tolerance are one tick each.
- **Notifications.** Two problems give a set, another one and both; two devices
  a selected one and an added one; ages saturate at `Confirm`; two restarts give
  a change of settings there and back.

- **Pipeline.** What one copy can do to another is done through the staging
  directory and the ranking; two copies are enough for a database left by the
  first, for two failures of any two ranks, and for a last copy that is not the
  first. The theorems hold for any number. A second check would meet of the
  first only a directory it left, and `Init` and `Crash` provide directories
  already. The second cancellation is the one that breaks off the wait for the
  worker; a third does what the second does elsewhere. The database check is on:
  without it the worker does less.

- **Runtime test.** Two tests of two backups are the least for a run left behind
  to be in the way of the next one, for the proof of an older backup to be shown
  while another is tested, and for a crash between them. Two backups already
  have two archives, told apart by their references; an answer without a checksum
  is the one that fails the comparison of checksums.
- **Assessment.** The readings hold every case the rules tell apart: no backup; a
  duplicate that is malformed; a backup whose size dropped, with a pre-update
  backup and a location that reports an error; a partial backup, with a manual
  one and a failed attempt. Two checks give a verdict about one backup that is
  replaced by one about another, or by one with another checksum. A check ends
  with one of three statuses: good (with warnings), bad, inconclusive; *valid*
  without warnings differs from the first in a warning only. Two days are
  enough for every age limit, which is one day or none. The start phase is over
  within the first day; it takes minutes.
- **Entry.** Two changes are an event and the one that overtakes it, or an error
  and its end. One problem stands for those the notification manager tells
  apart.

The verification, pipeline and entry configurations say `CHECK_DEADLOCK FALSE`: a
coordinator that was shut down and has nothing left to do stops, and so does a
pipeline after its last check. `assessment` says so because its bounds on days,
checks and documents may all be reached. All others check deadlock.

### Fairness

- `RuntimeRunner`: weak fairness for the execution thread, the handler threads
  (socket reads time out), the clock and the reaper; strong for the reaper's
  removal of one directory, that is, a storage error does not come at every
  attempt. Nothing is assumed of clients or of the child: the deadline in
  `_wait_for_runtime` ends a child that hangs.
- `VerificationLifecycle`: refreshes recur (the update interval), an inventory
  read succeeds again and again, a refresh ends again and again while the
  manager is idle, awaited steps of a task and the store end. The verifier and the
  runtime test need not end, as closing an agent's stream and the upload have no
  deadline: `NewestIsVerified` excepts a check that never ends. Nothing is assumed of users, and no write need succeed.
- `NotificationManager`: refreshes recur, awaited calls end, and a notify
  service called again and again does not always fail.
- `VerificationPipeline`: the coroutine goes on wherever it does not wait for a
  storage agent (the event loop and its executor are fair), the worker goes on,
  the clock reaches the deadline. Nothing is assumed of a storage agent, which
  may never deliver: the deadline in `_async_download` ends the wait. Two awaits
  have no deadline and no fairness (`Unbounded`): closing the agent's stream, and
  the callback that is the runtime test. `EveryCheckEnds` says that a check which
  does not end stays in one of them.
- `EntryLifecycle`: timers that are armed fire, tasks of the event loop go on,
  awaited calls end, and Home Assistant finishes its start. A check that
  is not cancelled need not end, for the same two waits. Nothing is assumed of the backup manager, of the runner, of the discovery monitor or of an
  unload. `PollingCatchesUp` speaks about the time after the last change, which
  the bound on changes makes certain to come.
- `AutomaticHistory`, `RuntimeTest` and `Assessment` have no liveness property.
  A test without an end exists: an upload has no deadline, and an answer with a
  status the client does not know is polled until the client's deadline.

## 4. What was found

Two runs show a disagreement between the code and what it says of itself; TLC
refutes the property, and `findings` has the lines.

1. **A password check that was put off is lost** (`verification_busy`). When the
   manager is busy the due check is skipped for the next refresh, but "the
   password has changed" is consumed by the refresh that skipped it. A refresh
   that fails after it has compared the passwords loses the change likewise.
2. **A timeout of one agent is taken for the timeout of the check**
   (`pipeline_fallback`). A `TimeoutError` that the storage agent itself raises
   is caught by the handler of the overall deadline: the check ends with
   `verification_timeout` although the deadline is far and other copies are
   untried. The docstring of `async_verify` promises to "fall back to another
   agent if needed".

Behaviours that a reader of the models meets and may find surprising. The
properties allow them, where they bear on one.

- *Runner.* A run that is uploading can be deleted from the registry and goes
  on; `active_runs` no longer counts it (`RR/server.py:648`). An upload handler
  that is slower than the whole execution writes `finished_at` and `heartbeat_at`
  of its step into an answer that was already terminal (`RR/server.py:1265`), so
  that two signed answers of one run may differ in these. A child that survives
  even the wait after its kill makes the run *inconclusive* (`RR/server.py:974`).
- *Verification.* A refresh in flight may create a verification task after
  `async_shutdown` has looked for one (`CC/coordinator.py:629`); nothing cancels
  that one, and `ShutdownDiesOut` names it. A check that
  starts after overlapping refreshes, or after the newest backup was deleted, may
  be of a backup that is not the newest, or of one older than the last result is
  about. An internal error whose publication fails again is not counted by the
  retry state: such failures are retried without a bound, one base delay after
  each (`CC/coordinator.py:2037`), though the docstring of
  `_update_integrity_retry_state` speaks of bounded backoff. A verdict shown
  before a runtime test is in memory only: when the test is cancelled, a restart
  does not find it.
- *Pipeline.* Every `sqlite3.DatabaseError` is the final verdict *corrupt*, also
  an I/O error on a sound database (`CC/integrity.py:2195`). The agent's flag
  decides that a password is missing, although the archive's own metadata are
  preferred elsewhere (`CC/integrity.py:1003`, `1586`). `VerdictIsTrue` names
  both. A stream that an agent never closes keeps the check, and with it every
  later one, until it is cancelled (`CC/integrity.py:1493`).
- *History.* The last success is matched again at every refresh, each time
  turning one more earlier failure within the tolerance into a success
  (`CC/history.py:151`). An attempt that begins within the tolerance of a success
  is recorded as successful, even when it is the newest and fails
  (`CC/history.py:161`); `NewestIsJudgedRight` makes this one exception.
- *Runtime test.* A running test that is cancelled at a shutdown shows, until
  the entry is gone, the proof of an older result under the status *aborted*;
  `ViewHonest` speaks about a loaded entry. A failure to read the archive
  before the create request is *inconclusive*, although nothing was sent. The
  child reports its clean-up before the runner knows how the start ended: an
  answer taken then has boot or probe running and names the clean-up, and the
  client passes what lies in front of it (`CC/progress.py:751`, `768`), in a failed
  start too. The next answer corrects it; after a deadline, a lost answer or a
  cancellation it stays. The runner takes care not to do this itself (docstring
  of `begin`, `RR/server.py:476`).
- *Assessment.* A documented restore test counts whichever backup it was made
  with: the evidence level is *fully_tested* for a backup nobody has checked.
  The weight of the missing check keeps the status below *ready*, which is what
  `EvidenceIsReal` asks. A verdict reached during an outage is not shown before
  the next reading, because the outage snapshot is drawn from the previous one,
  and the simulation view goes back with it. With the database check on, a
  backup without a local database never passes the simulation.
- *Entry.* Of two refreshes that overlap the older may be published last, and
  stands until the next one. A late refresh arms the confirmation timer after
  the shutdown has disarmed it; the timer fires once and dies out. An
  inventory of the wrong type is an error that the backoff does not count. A
  request made while the debouncer runs another refresh is ignored, and only
  the polling timer catches up.

## 5. What is proved

Eight modules of proofs. What they assume about the constants is named in the
modules they are about, and TLC evaluates it on every run:

| Module | Assumed |
|---|---|
| `RuntimeRunner` | the value for *no run* is not a run |
| `VerificationLifecycle` | the retry limit is positive, the bounds are numbers; an internal error is an error code, and no code is one of the keys the code sets aside; *none* is neither a task, a backup nor a password; the names of the two refreshes are not tasks |
| `VerificationPipeline` | there is a copy, the option is a Boolean, the bounds are numbers |
| `AutomaticHistory` | the times are numbers, and there is a tick |
| `NotificationManager` | the confirmation time is positive, the bound on restarts a number |
| `RuntimeTest`, `ProgressReporter` | there is a backup; *none* is neither a checksum nor a backup, nor the step table of a job |
| `Assessment` and its rules | outcomes, options and documents are of their enumerations; ages and limits are numbers; every list the manager returns is finite, and so are the copies of a backup; *none* is not a value |

Sets of runs, handlers, tasks, backups, agents, problems and devices may be of
any size, infinite ones included where the table does not say *finite*. Every
safety property of a passing run is proved. Except for some of the types none is
inductive alone; the following paragraphs name what each needs.

**RuntimeRunner_proofs.** `TypeCorrect`, `EvidenceIsComplete`,
`NothingIsLeftBehind`, `UploadsExclude`, `PipelineIsTruthful`, `OneRunAtATime`,
`AnswersAreFinal`. The reason a terminal answer is complete is what
the thread had done at each earlier program counter; the reason an execution
never meets an upload is who holds the claim. The inductive invariant is

    IInv == TypeOK /\ Issued /\ Claims /\ (\A r \in Runs : RunInv(r)) /\ OneUnfinishedRun

- `Issued`: handlers and threads refer only to identifiers that were issued, so
  a new run starts untouched;
- `Claims`: a handler that writes is the only one that writes to its run, which
  is marked as uploading and not yet verified; a run with a thread is verified
  and not uploading. The look-up of a handler may be old, and this is what its
  second look under the run's lock re-establishes;
- `RunInv(r)`, one conjunct per concern: `Phase` (status, outcome and password
  against the program counter of the thread), `StepTable` (which steps can be
  open, failed or passed there), `Milestone` (how far the test got, and that an
  outcome *passed* rests on evidence), `Storage` (a passed clean-up left nothing
  sensitive), `Truthful` (what the step table claims has happened).

`Invariance` has one step per action. Action and invariant meet only in the one
run the action changes, so each step proves `RunInv` of that run and takes
`RunInv` of the others from a frame lemma. `AnswersAreFinal` is an action
property proved from the same invariant: the only step that touches an answered
run is the late end of an upload handler, whose step is passed already, so that it
writes times and nothing else.

**VerificationLifecycle_proofs.** `TypeCorrect`, `ChecksRunAlone`,
`RetriesAreBounded`, `NoCheckIsWasted`, `RestartFindsMemory`. The inductive
invariant is

    IInv == Typed /\ OneWorker /\ OwnerWaits /\ Writers /\ Retries
            /\ ChecksAreNeeded /\ Drained

- `OneWorker`: the coordinator refers to the task that still has work to do.
  This, and not the flag `integrity_check_running`, keeps checks apart: the
  callback of a task that failed may clear the flag under the next task;
- `OwnerWaits`: a refresh that a task asked for has that task waiting for it;
- `Writers`: every write in the queue has its caller waiting, and none has two;
- `Retries`: failures in a row that were published are counted by the retry
  state, which is what the limit is about; those that could not be published are
  counted apart and have no limit;
- `ChecksAreNeeded` is the property itself. What a refresh read may be old, but
  what makes a check due is tested in the step that creates the task, and only a
  check changes it, of which `OneWorker` allows one;
- `Drained`: memory is what the file becomes when the queue is served in its
  order, unless a write was lost. It has three parts, as a queue of any length
  ends: the last write carries the retry state, a write of a check carries the
  result, the last write that sets the marker carries the marker.

**VerificationPipeline_proofs.** For any number of copies, checks and
cancellations, and whether or not the database is checked: `TypeCorrect`,
`VerdictsAreTrue`, `StagingOutlivesReaders`, `LeftoversAreReported`,
`CancellationIsHeeded`, `FallsBackAsPromised`. The inductive invariant is

    IInv == Types /\ Position /\ Staged /\ Truthful /\ Heeded /\ Reported

- `Types` says more than `TypeOK`: the records are records, and `tried` is a
  sequence of failures;
- `Position`: one failure is on record for each copy before the present one,
  which is why the loop ends and no copy index leaves its range;
- `Staged`: at which awaits the directory and the archive must be there, and
  that a worker nobody waits for has been cancelled twice;
- `Truthful`: a worker that is past the Home Assistant archive reads the
  database of the copy it was started for. This is what resetting the database
  before each worker buys; the rest carries its conclusion through outcome and
  ranking to the verdict;
- `Heeded`: where a check that was cancelled can be;
- `Reported`: nothing counts as swept while a check runs.

`FallsBackAsPromised` is the refinement `Spec => Fallback`: the initial states of the
pipeline are initial states of `CopyFallback`, and every step is one of its
steps (something happens, a check begins, a copy fails, the check gives up, it
answers) or leaves what its caller sees unchanged. The mapping needs a second
invariant, `RInv == Remembered /\ Caused /\ Answered`. `CopyFallback` decides
at the end, from the list of failures; the code keeps only the best failure so
far, and `Remembered` says that this is the first of the worst ones in the list.
The code decides to give up several awaits before it answers, and `Caused` says
that the event that made it give up is one that has happened. `Answered` says
that a verdict which waits for the clean-up is one the promise allows.

**AutomaticHistory_proofs.** `TypeCorrect`, `StreaksAreReal`, `NewestIsRight`.
The code matches attempts and successes by their timestamps alone, within a
tolerance, and takes one for another if they come too close. The invariant says so
(`Native`): an attempt that has not succeeded began later than the tolerance lets
the last success reach, or is one of those that began too near to it, the
exception in the theorem. `Known`
says that no attempt is recorded that was not made; `JudgedRight` is
`NewestIsJudgedRight` of the table in memory and of the one on disk, because a
restart goes on from the latter. About older attempts the code may be wrong, but
not in a way that prolongs a streak: a success at or after an open attempt is
always given to one at or after it (`MatchedTable`), where it ends the streak.

**NotificationManager_proofs.** For any problems, devices, confirmation time and
number of restarts: `TypeCorrect`, `ProblemsWaitForConfirmation`,
`RecoveryIsEarned`. A message about a problem set depends on the waiting set and
its age, the property speaks about the snapshots: `WaitingIsSeen` relates the
two. A recovery depends on the reported set, the property speaks about the
messages: `ReportedWasTold` relates them, unless a restart lost a save.

**RuntimeTest_proofs and ProgressReporter_proofs.** For any number of backups
and tests and any checksums: `TypeCorrect`, `StoredProofIsReal`,
`ViewShowsOneResult`, `OutcomesAreTruthful`, `StepsAreReal`, `RunningJobsAreOwned`. The
inductive invariant is `Shape` (types, and the five below) with the properties
themselves, which lean on each other:

- `Stage`: what is known of the run at each await of the test, and that nothing
  was sent before the create request;
- `RunsSound`: a run of the runner has a verdict when it has ended and only
  then, and nobody else creates runs;
- `Pace`: the run that is polled is past the steps the test has been told of. A
  client hears of the runner's steps late, and early only from a report of the
  child's clean-up, the exception in `StepsAreReal`;
- `LiveJob`: what the live job may show while the test runs, and that it is
  settled when the test has ended;
- `Results`: what a result contains before it is stored.

The lemmas about `ProgressReporter` say what each of its methods keeps of a job and
which steps it may show as passed. The total in it is a recursive function; for
the seven steps of a job its values are given one by one, so that its existence needs no
induction.

**Assessment_proofs.** For any sets of backups and agents, any readings of
the manager and any day: `IssuesAreTheProblems`, `OutagesHideNothing`,
`ClaimsAreEarned`. A snapshot goes on being shown while the day and the verdict
in memory move on, and an outage is computed from the snapshot before it. The
inductive invariant therefore says what of a snapshot outlives its day:

    IInv == clock \in Nat /\ Shown(clock) /\ Reported /\ Judged /\ CheckSound /\ Proven

- `Shown`: its flags are its problems, its problems of integrity are those of
  its verdict, what was stale or overdue still is, and its score is that of its
  problems at some age the newest backup has had (`GoodSnapshot`);
- `Reported`: the issues follow the snapshot from the first one published after
  the start phase on, and before that there are none;
- `Judged`, `CheckSound`: the verdict in memory is the last one about its
  backup, and checksums are those of the backup they are told with;
- `Proven`: a runtime test that passed is about a checksum the runner proved.

Two facts about the scores carry the theorems. `ScoreWorsens`: more problems and
an older backup never raise the health score, for which the deductions are
regrouped so that each is monotone; an outage adds problems, so it
does not raise the score. `FailedCheckCosts`: the weights of the recovery score leave no way to the
threshold of *ready* without a passed check. Both scores are sums
over sets (`MapThenSumSet`), and the newest backup is a maximum over one. What
this needs of induction on finite sets is argued with a smallest
counterexample (`SmallestSet`, from the well-foundedness of strict inclusion),
because an induction theorem of the library that takes an operator as a
parameter cannot be applied here.

### Only model-checked

- Liveness: `ExecutionsEnd`, `AbandonedRunsReaped`, `NewestIsVerified`,
  `StableStateIsReported`, `EveryCheckEnds`, `ShutdownDiesOut`, `PollingCatchesUp`.
  Fairness and ENABLED are beyond the prover used here. `EntryLifecycle` has
  liveness properties only, and so has no proofs.
- The two disagreements of section 4, `BusySkipIsRetried` and
  `AgentFailureFallsBack`, which TLC refutes.

## 6. What is not modelled

The table in 1.1 names the components: start-up code of the runner, the activity
log, forms and options, entities, diagnostics and the panel keep no state that
another part decides on, or only render it. Within the modelled ones: byte counters,
percentages and messages of a run, TLS and tokens, the signature of a result
(runner); what follows from a child that survives its kill (runner); repair of malformed
store files (verification); archive parsing beyond the seven contents, byte counters, warnings and the comparison with the checksum of
the previous result (pipeline); the sanitising of loaded attempts (history); message texts, the
test message and the repair of a stored state (notifications). The confirmation
timer only makes a refresh come sooner. A thread that cannot be started and an
unlink that fails in the error path of an upload are hazards listed without a
property. `RuntimeTest` leaves out TLS, the bytes of a signature and limits,
`Assessment` backups dated in the future, the fixed and the switched-off size
check, trends over days, texts, severities, the checklist and the rendered
plan, `EntryLifecycle` a health check as more than one step, platforms that fail
to unload, and what removal and migration of an entry do. The pipeline takes the
option for repair issues to be on. A native event that is lost is caught up by
the polling timer, so no property of `EntryLifecycle` notices it.

## 7. Plan

Done, in this order: `RuntimeRunner`, its proofs, `VerificationLifecycle`,
`AutomaticHistory`, `NotificationManager`, its proofs, `CopyFallback` and
`VerificationPipeline`, its proofs, `ProgressReporter` and `RuntimeTest`, the
three rule modules and `Assessment`, `EntryLifecycle`.

The proofs of `VerificationLifecycle`, `AutomaticHistory`, `RuntimeTest`,
`ProgressReporter` and `Assessment`, and the refinement of `CopyFallback`, came
after the models, and changed them where they could not be reasoned about or were
too narrow: what a check may say about a copy (`VerdictsOn` of `Assessment`) is
now everything the code can answer, and what withdraws a write from the queue of
the store (`Withdraw` of `VerificationLifecycle`) is an operator. Later the models
were widened where they had left out what the code does: overlapping refreshes and
a newest backup that may be lost (`VerificationLifecycle`), attempts right after a
success (`AutomaticHistory`), SQLite errors and waits without a deadline
(`VerificationPipeline`), the times of late uploads (`RuntimeRunner`), the child's
clean-up report (`RuntimeTest`), and the start phase (`Assessment`); the properties
name the cases in which the code does less than one might expect.

Theorems to come: `EntryLifecycle` has temporal properties only; the invariants
they rest on (a timer that is armed has someone to fire for, what a refresh read
is not newer than the manager) could be stated and proved beside the rest. A
stronger statement about the runner, that its public answer refines a run that
is *created, executing, ended*, would put `AnswersAreFinal` and
`EvidenceIsComplete` into one theorem.

Further modelling would add: the clean-up of agents and old exports, the removal
and migration of an entry, and the notifications as *announcements* with
their refinement.
