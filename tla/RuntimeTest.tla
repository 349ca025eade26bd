------------------------------ MODULE RuntimeTest ------------------------------
(***************************************************************************)
(* One isolated start of a verified backup as the integration sees it: the *)
(* coordinator's _async_run_runtime_test, the client of recovery_runtime.py*)
(* with its requests, the stored result, the live job (ProgressReporter)   *)
(* and the view that merges the two.                                       *)
(*                                                                         *)
(* Granularity.  One step is the code between two awaits.  A request is    *)
(* lost before or after the runner acted on it, refused, or answered; the  *)
(* runner is RuntimeRunner cut down to what its answers tell, and an       *)
(* answer may come from somewhere else (the client checks signature,       *)
(* subject and identity because it does not rule that out).  Nothing in    *)
(* this module is tried twice: every failure ends the test.                *)
(*                                                                         *)
(* Abstracted data: a checksum stands for the archive; times, limits and   *)
(* capabilities other than step_progress are left out.  Whether the runner *)
(* is usable is asked twice before a run, and either answer may be given:  *)
(* the monitor that keeps the cached one up to date is EntryLifecycle's.   *)
(***************************************************************************)
EXTENDS ProgressReporter

CONSTANTS Newest,    \* bound: backups are numbered in the order they are made
          Checksums, \* of verified archives
          MaxTests   \* bound: tests begun during a behaviour

Backups == 1..Newest

ASSUME RuntimeAssumption ==
  /\ Newest \in Nat \ {0}
  /\ MaxTests \in Nat
  /\ None \notin Checksums \union Backups

VARIABLES entry,     \* the config entry: up, stopping (async_shutdown) or down
          latest,    \* the newest monitored backup
          stepwise,  \* the runner has the capability step_progress
          runs,      \* the runner's runs, the n-th created for the n-th test
          tests,     \* bounded count of tests begun
          test,      \* the test in progress
          job,       \* runtime_progress
          shown,     \* what was published of it
          store,     \* RuntimeTestStore: memory and file
          reached,   \* history: the last phase the run of the last test has passed
          sent,      \* history: the last test began to upload
          misled     \* history: the last test took an answer that was not its run's

runner == <<stepwise, runs>>
live   == <<job, shown>>
past   == <<tests, reached, sent, misled>>
vars   == <<entry, latest, runner, test, live, store, past>>

RunIds   == 1..MaxTests
Targets  == [reference : Backups, sha256 : Checksums]
Verdicts == {"passed", "failed", "aborted", "inconclusive"}

Snapshot(status, target) ==
  [status |-> status, reference |-> target.reference, sha256 |-> target.sha256]
NotRun    == [status |-> "not_run", reference |-> None, sha256 |-> None]
Snapshots == {NotRun} \union
             {Snapshot(s, t) : s \in Verdicts \union {"not_started"}, t \in Targets}

NoTest  == [pc |-> "idle", target |-> NotRun, run |-> 0, result |-> NotRun, cancelled |-> FALSE]
NoRun   == [status |-> "none", target |-> NotRun, phase |-> 1, sweeping |-> FALSE,
            broke |-> 0, verdict |-> "running"]  \* sweeping: the child reports its clean-up

-----------------------------------------------------------------------------
(* What the runner reports *)

\* A run that broke failed everything from there on, and only its clean-up still
\* runs; in one that ended unpassed, what follows the start failed.
StepState(run, k) ==
  IF run.broke # 0 /\ k # Cleanup
  THEN IF k < run.broke THEN "passed" ELSE "failed"
  ELSE IF run.status = "ended"
  THEN IF run.broke # 0 \/ run.verdict = "passed" \/ k < Cleanup THEN "passed" ELSE "failed"
  ELSE CASE k < run.phase -> "passed"
         [] k = run.phase \/ (k = Cleanup /\ run.sweeping) -> "running"
         [] OTHER -> "pending"

\* The step table of a run.
Table(run) ==
  [k \in StepIds |->
     LET state == StepState(run, k)
     IN [state |-> state, determinate |-> RuntimeSteps[k].determinate,
         percent |-> IF state = "passed" /\ RuntimeSteps[k].determinate THEN 100 ELSE 0]]

Report(run) == [table |-> IF stepwise THEN Table(run) ELSE None,
                step  |-> IF run.sweeping THEN Cleanup ELSE run.phase]

\* An answer that does not come from this run: unsigned and praising the
\* backup, or signed and about another archive, or about none it names.
Foreign(target) ==
  {[signed |-> FALSE, status |-> "passed", target |-> target]} \union
  [signed : {TRUE}, status : Verdicts,
   target : [reference : Backups, sha256 : Checksums \union {None}] \ {target}]
Own(run) == [signed |-> TRUE, status |-> run.verdict, target |-> run.target]

Unfinished == {n \in RunIds : runs[n].status \in {"created", "uploaded", "executing"}}

-----------------------------------------------------------------------------
(* Classification of failures *)

NotStartedCodes   == {"unavailable", "not_configured", "protocol_mismatch",
                      "tls_invalid", "too_old", "create_failed"}
AbortedCodes      == {"isolation_unavailable", "timeout", "cancelled"}
InconclusiveCodes == {"internal_error", "cleanup_failed", "poll_failed", "response_invalid"}

\* A mutant: failures are classified by their code alone.
StatusForCode(code, phase) ==
  CASE code \in NotStartedCodes   -> "not_started"
    [] code \in AbortedCodes      -> "aborted"
    [] code \in InconclusiveCodes -> "inconclusive"
    [] OTHER                      -> "failed"

StatusForError(code, phase) ==
  CASE phase = "prepare" \/ code \in NotStartedCodes     -> "not_started"
    [] phase # "prepare" /\ code \in AbortedCodes        -> "aborted"
    [] phase # "prepare" /\ code \in InconclusiveCodes   -> "inconclusive"
    [] OTHER                                             -> "failed"

Failure(code, phase) == Snapshot(StatusForError(code, phase), test.target)

\* A mutant: the signature is not verified.
JudgedUnsigned(answer) ==
  CASE answer.target.reference # test.target.reference -> Failure("backup_mismatch", "run")
    [] answer.target.sha256 # test.target.sha256 -> Failure("checksum_mismatch", "run")
    [] OTHER -> Snapshot(answer.status, answer.target)

\* What is made of a terminal answer: signature, backup, checksum (a
\* runner's identity is part of what it signs).
Judged(answer) ==
  CASE ~answer.signed -> Failure("signature_invalid", "run")
    [] answer.target.reference # test.target.reference -> Failure("backup_mismatch", "run")
    [] answer.target.sha256 # test.target.sha256 -> Failure("checksum_mismatch", "run")
    [] OTHER -> Snapshot(answer.status, answer.target)

-----------------------------------------------------------------------------
Init ==
  /\ entry = "up"
  /\ latest = 1
  /\ stepwise \in BOOLEAN
  /\ runs = [n \in RunIds |-> NoRun]
  /\ tests = 0
  /\ test = NoTest
  /\ job = Create
  /\ shown = Face(Create)
  /\ store = [memory |-> NotRun, disk |-> NotRun]
  /\ reached = 0
  /\ sent = FALSE
  /\ misled = FALSE

\* Every call of the reporter ends in a publication, forced or throttled.
Reported(next, force) ==
  /\ job' = next
  /\ shown' = Emit(next, shown, force)

\* A test ends with a result: the run is deleted first, if the client knows it,
\* and then async_save takes the result into memory and waits for the write.
Conclude(result) ==
  IF test.run # 0
  THEN /\ test' = [test EXCEPT !.pc = "delete", !.result = result]
       /\ UNCHANGED store
  ELSE /\ test' = [test EXCEPT !.pc = "save", !.result = result]
       /\ store' = [store EXCEPT !.memory = result]

-----------------------------------------------------------------------------
(* The test *)

\* The verifier hands over the archive of the newest backup it has read.
Begin ==
  /\ entry = "up" /\ test.pc = "idle" /\ tests < MaxTests
  /\ \E sha \in Checksums :
       LET target == [reference |-> latest, sha256 |-> sha] IN
       /\ test' = [NoTest EXCEPT !.pc = "check", !.target = target]
       /\ Reported(Start(job, latest), TRUE)
  /\ tests' = tests + 1
  /\ reached' = 0
  /\ sent' = FALSE
  /\ misled' = FALSE
  /\ UNCHANGED <<entry, latest, runner, store>>

\* The pre-run check reuses an answer of the last minute, the interval check's
\* for instance, or asks; whichever it is, it may be wrong by now.  An unusable
\* runner ends the test before it starts.
Check ==
  /\ test.pc = "check"
  /\ \/ test' = [test EXCEPT !.pc = "require"] /\ UNCHANGED store
     \/ Conclude(Snapshot("not_started", test.target))
  /\ UNCHANGED <<entry, latest, runner, live, past>>

\* async_run asks for the health once more and never trusts the age of another
\* answer; then the step "prepare" begins.
Require ==
  /\ test.pc = "require"
  /\ \/ /\ test' = [test EXCEPT !.pc = "create"]
        /\ Reported(BeginStep(job, Prepare, FALSE, TRUE), TRUE)
        /\ UNCHANGED store
     \/ /\ Conclude(Failure("unavailable", "prepare"))
        /\ UNCHANGED live
  /\ UNCHANGED <<entry, latest, runner, past>>

Admitted == Unfinished = {}
NewRun   == [NoRun EXCEPT !.status = "created", !.phase = Upload, !.target = test.target]

Executing(run) == [run EXCEPT !.status = "executing", !.phase = 3]

\* What the runner may have made of the request whose answer does not arrive.
Effects ==
  {runs} \union
  CASE test.pc = "create" /\ Admitted -> {[runs EXCEPT ![tests] = NewRun]}
    [] test.pc = "upload" /\ runs[tests].status = "created" ->
                                        {[runs EXCEPT ![tests].status = "uploaded"]}
    [] test.pc = "start" /\ runs[tests].status = "uploaded" ->
                                        {[runs EXCEPT ![tests] = Executing(@)]}
    [] OTHER -> {}

\* The run is created and the client learns its identifier: the upload begins.
Created ==
  /\ test.pc = "create" /\ Admitted
  /\ runs' = [runs EXCEPT ![tests] = NewRun]
  /\ test' = [test EXCEPT !.pc = "upload", !.run = tests]
  /\ sent' = TRUE
  /\ Reported(BeginStep(CompleteStep(job, Prepare, "passed"), Upload, TRUE, TRUE), TRUE)
  /\ UNCHANGED <<entry, latest, stepwise, tests, reached, store, misled>>

\* The request is refused, or lost on its way there or back.
CreateFails ==
  /\ test.pc = "create"
  /\ \/ ~Admitted /\ Conclude(Failure("runner_busy", "prepare")) /\ UNCHANGED runs
     \/ Conclude(Failure("create_failed", "prepare")) /\ runs' \in Effects
  /\ UNCHANGED <<entry, latest, stepwise, live, past>>

\* The archive cannot be read while the request is put together.
ArchiveGone ==
  /\ test.pc = "create"
  /\ Conclude(Failure("internal_error", "run"))
  /\ UNCHANGED <<entry, latest, runner, live, past>>

\* The same when the run exists and the upload is put together: it is deleted.
ArchiveLost ==
  /\ test.pc = "create" /\ Admitted
  /\ runs' = [runs EXCEPT ![tests] = NewRun]
  /\ test' = [test EXCEPT !.pc = "delete", !.run = tests,
                          !.result = Failure("internal_error", "run")]
  /\ Reported(CompleteStep(job, Prepare, "passed"), TRUE)
  /\ UNCHANGED <<entry, latest, stepwise, store, past>>

Uploading ==
  /\ test.pc = "upload"
  /\ \E percent \in {50, 100} : Reported(Update(job, Upload, percent), FALSE)
  /\ UNCHANGED <<entry, latest, runner, test, store, past>>

Uploaded ==
  /\ test.pc = "upload" /\ runs[tests].status = "created"
  /\ runs' = [runs EXCEPT ![tests].status = "uploaded"]
  /\ test' = [test EXCEPT !.pc = "start"]
  /\ Reported(CompleteStep(job, Upload, "passed"), TRUE)
  /\ UNCHANGED <<entry, latest, stepwise, store, past>>

\* The archive arrives or not, the client does not learn of it.
UploadFails ==
  /\ test.pc = "upload"
  /\ runs' \in Effects
  /\ Conclude(Failure("upload_failed", "run"))
  /\ UNCHANGED <<entry, latest, stepwise, live, past>>

\* The poll that follows tells a runner without live data from the others first.
Started ==
  /\ test.pc = "start" /\ runs[tests].status = "uploaded"
  /\ runs' = [runs EXCEPT ![tests] = Executing(@)]
  /\ test' = [test EXCEPT !.pc = "poll"]
  /\ IF stepwise THEN UNCHANGED live ELSE Reported(MarkIndeterminate(job), TRUE)
  /\ UNCHANGED <<entry, latest, stepwise, store, past>>

StartFails ==
  /\ test.pc = "start"
  /\ runs' \in Effects
  /\ Conclude(Failure("start_failed", "run"))
  /\ UNCHANGED <<entry, latest, stepwise, live, past>>

-----------------------------------------------------------------------------
(* Polling *)

PollRunning ==
  /\ test.pc = "poll" /\ runs[tests].status = "executing"
  /\ Reported(ApplyRunnerState(job, Report(runs[tests])), FALSE)
  /\ UNCHANGED <<entry, latest, runner, test, store, past>>

PollEnded ==
  /\ test.pc = "poll" /\ runs[tests].status = "ended"
  /\ Reported(ApplyRunnerState(job, Report(runs[tests])), FALSE)
  /\ Conclude(Judged(Own(runs[tests])))
  /\ UNCHANGED <<entry, latest, runner, past>>

\* The steps of an answer are adopted before its signature is verified.
PollForeign ==
  /\ test.pc = "poll"
  /\ Reported(ApplyRunnerState(job, Report([NoRun EXCEPT !.status = "ended", !.phase = 7,
                                                         !.verdict = "passed"])), FALSE)
  /\ \E answer \in Foreign(test.target) : Conclude(Judged(answer))
  /\ misled' = TRUE
  /\ UNCHANGED <<entry, latest, runner, tests, reached, sent>>

PollFails ==
  /\ test.pc = "poll"
  /\ \/ Conclude(Failure("poll_failed", "run"))
     \/ runs[tests].status = "gone" /\ Conclude(Failure("run_not_found", "run"))
  /\ UNCHANGED <<entry, latest, runner, live, past>>

\* The client's own deadline, which runs from the start request and not from
\* the start of the child: the run may be executing still.
Deadline ==
  /\ test.pc = "poll"
  /\ Conclude(Failure("timeout", "run"))
  /\ UNCHANGED <<entry, latest, runner, live, past>>

-----------------------------------------------------------------------------
(* The end of a test *)

\* Nobody can ask any more how far the run came.
Gone(run)    == [run EXCEPT !.status = "gone", !.phase = 1, !.broke = 0, !.sweeping = FALSE]
Removed(run) == IF run.status = "executing" THEN run ELSE Gone(run)

\* The best-effort delete: it reaches the runner or not, and an executing run
\* refuses it.  A test that was cancelled ends here.
Delete ==
  /\ test.pc = "delete"
  /\ \/ runs' = [runs EXCEPT ![test.run] = Removed(@)]
     \/ UNCHANGED runs
  /\ IF test.cancelled
     THEN test' = NoTest /\ Reported(Cancel(job), TRUE) /\ UNCHANGED store
     ELSE /\ test' = [test EXCEPT !.pc = "save"]
          /\ store' = [store EXCEPT !.memory = test.result]
          /\ UNCHANGED live
  /\ UNCHANGED <<entry, latest, stepwise, past>>

\* The write has succeeded or failed: the job reports what memory already holds.
Save ==
  /\ test.pc = "save"
  /\ \/ store' = [store EXCEPT !.disk = store.memory]
     \/ UNCHANGED store
  /\ test' = NoTest
  /\ Reported(Finish(job, test.result.status), TRUE)
  /\ UNCHANGED <<entry, latest, runner, past>>

-----------------------------------------------------------------------------
(* The entry is unloaded, or the process dies *)

Shutdown ==
  /\ entry = "up"
  /\ entry' = "stopping"
  /\ UNCHANGED <<latest, runner, test, live, store, past>>

\* The cancellation reaches the await the test is in.  In the pre-run check and
\* in the save there is no handler of its own: the job is left running.
CancelUnhandled ==
  /\ test.pc \in {"check", "save"}
  /\ test' = NoTest
  /\ store' \in {store} \union
                (IF test.pc = "save" THEN {[store EXCEPT !.disk = store.memory]} ELSE {})
  /\ UNCHANGED <<runs, live>>

CancelHandled ==
  /\ test.pc \in {"require", "create", "delete"}
  /\ test' = NoTest
  /\ runs' \in Effects
  /\ Reported(Cancel(job), TRUE)
  /\ UNCHANGED store

\* A run the client knows is deleted first.
CancelDeletes ==
  /\ test.pc \in {"upload", "start", "poll"}
  /\ test' = [test EXCEPT !.pc = "delete", !.cancelled = TRUE]
  /\ runs' \in Effects
  /\ UNCHANGED <<live, store>>

Cancelled ==
  /\ entry = "stopping" /\ ~test.cancelled
  /\ CancelUnhandled \/ CancelHandled \/ CancelDeletes
  /\ UNCHANGED <<entry, latest, stepwise, past>>

\* A mutant: the shutdown leaves the job to the task it has cancelled.
ShutdownDoneAlone ==
  /\ entry = "stopping" /\ test.pc = "idle"
  /\ entry' = "down"
  /\ UNCHANGED <<latest, runner, test, live, store, past>>

\* async_shutdown goes on when the task has ended and cancels the reporter.
ShutdownDone ==
  /\ entry = "stopping" /\ test.pc = "idle"
  /\ entry' = "down"
  /\ Reported(Cancel(job), TRUE)
  /\ UNCHANGED <<latest, runner, test, store, past>>

\* A new coordinator: memory is what the file holds.
Load(disk) ==
  /\ entry' = "up"
  /\ test' = NoTest
  /\ job' = Create
  /\ shown' = Face(Create)
  /\ store' = [memory |-> disk, disk |-> disk]
  /\ reached' = 0
  /\ sent' = FALSE
  /\ misled' = FALSE
  /\ UNCHANGED <<latest, runner, tests>>

Restart == entry = "down" /\ Load(store.disk)
Crash   == \E disk \in {store.disk} \union (IF test.pc = "save" THEN {store.memory} ELSE {}) :
             Load(disk)

-----------------------------------------------------------------------------
(* The world *)

NewBackup ==
  /\ latest + 1 \in Backups
  /\ latest' = latest + 1
  /\ UNCHANGED <<entry, runner, test, live, store, past>>

Followed(n) == n = tests /\ test.pc \in {"start", "poll"}

\* An execution goes through its phases.  The child reports its clean-up before
\* the runner knows how the start ended, at the latest in the probe; a start that
\* turns out well then passes what is open.  Where an execution breaks, every
\* open step is failed and the runner's own clean-up begins.
RunGoesOn(n) ==
  LET run == runs[n] IN
  /\ run.status = "executing" /\ Followed(n)
  /\ \/ /\ run.phase \in {Boot, Probe} /\ ~run.sweeping
        /\ runs' = [runs EXCEPT ![n].sweeping = TRUE]
        /\ UNCHANGED reached
     \/ /\ run.phase < Cleanup
        /\ runs' = [runs EXCEPT ![n] =
                       [@ EXCEPT !.phase = IF run.sweeping THEN Cleanup ELSE run.phase + 1,
                                 !.sweeping = FALSE]]
        /\ reached' = IF run.sweeping THEN Probe ELSE run.phase
     \/ /\ run.phase < Cleanup
        /\ runs' = [runs EXCEPT ![n] = [@ EXCEPT !.phase = Cleanup, !.sweeping = FALSE,
                                             !.broke = run.phase]]
        /\ UNCHANGED reached
     \/ /\ run.phase = Cleanup
        /\ UNCHANGED reached
        /\ \E v \in IF run.broke = 0 THEN {"passed", "inconclusive"} ELSE Verdicts \ {"passed"} :
             runs' = [runs EXCEPT ![n] =
                        [@ EXCEPT !.status = "ended", !.verdict = v,
                                  !.phase = IF v = "passed" THEN 7 ELSE Cleanup]]
  /\ UNCHANGED <<entry, latest, stepwise, test, live, store, tests, sent, misled>>

\* Of an execution nobody follows only the end matters, which admits others,
\* and whether it passed.
RunEndsUnseen(n) ==
  /\ runs[n].status = "executing" /\ ~Followed(n)
  /\ \E v \in {"passed", "failed"} :
       runs' = [runs EXCEPT ![n] = [Gone(@) EXCEPT !.status = "ended", !.verdict = v]]
  /\ UNCHANGED <<entry, latest, stepwise, test, live, store, past>>

\* The reaper takes a run nobody cares for, a restart takes all of them.
RunnerForgets ==
  /\ \/ \E n \in RunIds : /\ runs[n].status \in {"created", "uploaded", "ended"}
                          /\ runs' = [runs EXCEPT ![n] = Gone(@)]
     \/ runs' = [n \in RunIds |-> IF runs[n].status = "none" THEN runs[n]
                                  ELSE Gone(runs[n])]
  /\ UNCHANGED <<entry, latest, stepwise, test, live, store, past>>

-----------------------------------------------------------------------------
Next ==
  \/ Begin \/ Check \/ Require \/ Created \/ CreateFails \/ ArchiveGone \/ ArchiveLost
  \/ Uploading \/ Uploaded \/ UploadFails \/ Started \/ StartFails
  \/ PollRunning \/ PollEnded \/ PollForeign \/ PollFails \/ Deadline
  \/ Delete \/ Save
  \/ Shutdown \/ Cancelled \/ ShutdownDone \/ Restart \/ Crash
  \/ NewBackup \/ RunnerForgets
  \/ \E n \in RunIds : RunGoesOn(n) \/ RunEndsUnseen(n)

Spec == Init /\ [][Next]_vars

-----------------------------------------------------------------------------
(* The view of the entities and the panel *)

Passed(snapshot) == snapshot.status = "passed"

\* A mutant: a running test goes on showing the stored evidence.
ViewUnmasked ==
  LET belongs == job.status # "idle" /\ job.reference = latest
      memory  == store.memory
  IN [status    |-> IF belongs THEN job.status ELSE memory.status,
      overall   |-> IF belongs THEN job.overall ELSE 0,
      reference |-> IF belongs THEN job.reference ELSE memory.reference,
      proof     |-> Passed(memory),
      sha256    |-> memory.sha256]

\* A running job is shown with its own backup, anything else with the newest.
\* The live job is merged in only if it is about that backup.
View ==
  LET reference == IF job.status = "running" THEN test.target.reference ELSE latest
      belongs   == job.status # "idle" /\ job.reference = reference
      memory    == store.memory
  IN IF ~belongs
     THEN [status |-> memory.status, proof |-> Passed(memory), overall |-> 0,
           reference |-> memory.reference, sha256 |-> memory.sha256]
     ELSE [status |-> job.status, overall |-> job.overall, reference |-> job.reference,
           proof  |-> job.status # "running" /\ Passed(memory),
           sha256 |-> IF job.status = "running" THEN None ELSE memory.sha256]

-----------------------------------------------------------------------------
(* Correctness *)

JobType == [status : JobStatuses, current : StepIds \union {NoStep},
            steps : Steps, overall : Percents,
            reference : Backups \union {None}, source : {"integration", "runner"}]
TestType == [pc : {"idle", "check", "require", "create", "upload", "start", "poll",
                   "delete", "save"},
             target : Targets \union {NotRun}, run : 0..MaxTests,
             result : Snapshots, cancelled : BOOLEAN]
RunType == [status : {"none", "created", "uploaded", "executing", "ended", "gone"},
            target : Targets \union {NotRun}, phase : StepIds,
            sweeping : BOOLEAN, broke : 0..5, verdict : Verdicts \union {"running"}]

\* Every variable stays in the domain the code gives it.
TypeOK ==
  /\ entry \in {"up", "stopping", "down"}
  /\ latest \in Backups
  /\ stepwise \in BOOLEAN
  /\ runs \in [RunIds -> RunType]
  /\ tests \in 0..MaxTests
  /\ test \in TestType
  /\ job \in JobType
  /\ shown = Face(job)
  /\ store \in [memory : Snapshots, disk : Snapshots]
  /\ reached \in 0..5 /\ sent \in BOOLEAN /\ misled \in BOOLEAN

Proved(snapshot) ==
  \E n \in RunIds : /\ runs[n].verdict = "passed"
                    /\ runs[n].target = [reference |-> snapshot.reference,
                                         sha256    |-> snapshot.sha256]

\* A stored result "passed" is about an archive that the runner itself has
\* started successfully, whatever answers were lost, late or not the run's own,
\* and whatever the process lost in between.
ProofIsReal ==
  \A snapshot \in {store.memory, store.disk} : Passed(snapshot) => Proved(snapshot)

\* What the view presents as proof carries the status, the reference and the
\* checksum of one and the same result, also while a test of another backup
\* runs, while its result is being saved, and after newer backups.
ViewHonest ==
  entry = "up" /\ View.proof => View.status = "passed" /\ Proved(View)

\* The status of a job says what happened: a test that "was not started" sent
\* nothing and shows nothing, one that "failed" had sent its archive, one that
\* passed ended so on the runner, and only that one reads as complete.
OutcomeIsTruthful ==
  /\ job.status = "not_started" => ~sent /\ job.overall = 0 /\ job.steps = FreshSteps
  /\ job.status = "failed" => sent
  /\ job.status = "passed" => runs[tests].verdict = "passed"
  /\ job.status \notin {"running", "passed"} => job.overall < 100

\* The last answer taken said that the clean-up runs, and not yet how the test ended.
Unjudged == job.current = Cleanup /\ job.steps[Complete].state = "pending"

\* If the runner reports its steps, no step of the isolated test is shown as passed
\* that the run has not passed, but for one case.  An answer taken while the child
\* cleans up, its start not judged yet, has the boot or the probe running and the
\* clean-up as the step that runs: the client passes what is open in front of it,
\* in a start that failed too.  The next answer puts it right, and the terminal
\* one always does; where none is taken any more, it stays.
NoInventedSteps ==
  stepwise /\ ~misled =>
    \A k \in 3..5 : job.steps[k].state = "passed" =>
                       reached >= k \/ (k >= Boot /\ Unjudged)

\* A job that reads as running has a test behind it, or a shutdown that will
\* close it: no answer, failure or cancellation leaves it open for ever.
RunningJobIsOwned ==
  job.status = "running" => test.pc # "idle" \/ entry = "stopping"
=============================================================================
