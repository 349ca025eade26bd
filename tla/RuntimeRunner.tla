---------------------------- MODULE RuntimeRunner ----------------------------
(***************************************************************************)
(* The runtime runner app: the run manager of server.py, the HTTP handler  *)
(* threads that call it, one execution thread per started run, the         *)
(* isolated child process it follows, and the storage reaper.              *)
(*                                                                         *)
(* Granularity.  Every section that server.py guards by the manager's lock *)
(* or by one run's lock is one step, and so is every file system call made *)
(* outside a lock.  A handler that looks a run up and then acts on it is   *)
(* therefore two steps, and a delete is three (look-up, rmtree, pop): this *)
(* is where the threads interleave.  Two locked sections are one step only *)
(* where no other thread acts on the difference: an upload's claim and the *)
(* begin of its step, and the begin and finish of the complete step.       *)
(*                                                                         *)
(* Abstracted data: the archive is present or not, a checksum matches or   *)
(* does not, a child result is one of the three the child can write, and   *)
(* ten minutes without activity is the flag fresh.  Of the times a step    *)
(* carries (finished_at, heartbeat_at) only their order matters: late holds*)
(* the steps whose times were written after the answer was published.  Byte*)
(* counters, percent values, error texts and signatures are left out.      *)
(***************************************************************************)
EXTENDS Naturals

CONSTANTS Runs,      \* run identifiers: a uuid4 is never issued twice
          Handlers,  \* HTTP handler threads serving requests at the same time
          NoRun      \* no run: what an idle handler or reaper works on

ASSUME NoRunAssumption == NoRun \notin Runs

VARIABLES isolationAvailable,  \* the result of the probe made at start-up
          created,             \* identifiers issued so far
          registered,          \* the manager's _runs
          run,                 \* the RunState of every identifier
          disk,                \* what the run's directory holds
          exec,                \* program counter of the execution thread
          child,               \* the isolated process and the files it writes
          milestone,           \* history: how far the isolated test really got
          handler,             \* what every handler thread is doing
          reapQueue, reapPop   \* the reaper's candidates, and the one to pop

manager == <<isolationAvailable, created, registered>>
worker  == <<exec, child, milestone>>
reaper  == <<reapQueue, reapPop>>
vars    == <<manager, run, disk, worker, handler, reaper>>

-----------------------------------------------------------------------------
(* The step table and the run state                                        *)

Prepare  == 1
Upload   == 2
Restore  == 3
Boot     == 4
Probe    == 5
Cleanup  == 6
Complete == 7
Steps    == 1..7

StepState == {"pending", "running", "passed", "failed"}
Terminal  == {"passed", "failed", "aborted", "inconclusive"}
Status    == Terminal \union {"running"}
Evidence  == [ready : BOOLEAN, isolation : BOOLEAN, recovery : BOOLEAN]

RunState == [status : Status, pending : Status, stage : Steps,
             steps : [Steps -> StepState], password : BOOLEAN,
             uploading : BOOLEAN, verified : BOOLEAN, evidence : Evidence,
             late : SUBSET Steps, published : BOOLEAN, fresh : BOOLEAN]

\* published stands for checked_at and duration_seconds, which are written
\* together; password says that the RunState still holds the backup password.
NewRun == [status |-> "running", pending |-> "running", stage |-> Prepare,
           steps |-> [s \in Steps |-> "pending"], password |-> TRUE,
           uploading |-> FALSE, verified |-> FALSE,
           evidence |-> [ready |-> FALSE, isolation |-> FALSE, recovery |-> TRUE],
           late |-> {}, published |-> FALSE, fresh |-> TRUE]

\* The times of these steps are written now.
Stamp(state, keys) ==
  [state EXCEPT !.late = IF state.published THEN @ \union keys ELSE @]

Open == {"pending", "running"}

\* A step table in which key has begun; promote closes what came before it.
BegunSteps(steps, key, promote) ==
  [s \in Steps |-> IF s = key THEN "running"
                   ELSE IF promote /\ s < key /\ steps[s] \in Open THEN "passed"
                   ELSE steps[s]]

\* The steps promote closes get their times with it.
Begin(state, key, promote) ==
  LET begun == BegunSteps(state.steps, key, promote) IN
  [Stamp(state, {key} \union {s \in Steps : begun[s] # state.steps[s]}) EXCEPT
     !.steps = begun, !.stage = key, !.fresh = TRUE]

\* The times are written again even if the step was closed before.
FinishStep(state, key, result) ==
  [Stamp(state, {key}) EXCEPT !.steps[key] = result, !.fresh = TRUE]

FailOpen(state) ==
  [Stamp(state, {s \in Steps : state.steps[s] \in Open}) EXCEPT
     !.steps = [s \in Steps |-> IF @[s] \in Open THEN "failed" ELSE @[s]]]

\* What a run directory can hold besides the two small result files.
Sensitive == {"archive", "restored"}
Contents  == {"dir"} \union Sensitive

\* A recursive delete that raises OSError half way leaves any part behind.
PartlyRemoved(held) == {left \in SUBSET held : "dir" \in left}

\* The three results isolated_boot.py writes; "missing" is no (valid) file.
NotIsolated == [ready |-> FALSE, isolation |-> FALSE, recovery |-> TRUE]
NotReady    == [ready |-> FALSE, isolation |-> TRUE, recovery |-> TRUE]
IsReady     == [ready |-> TRUE, isolation |-> TRUE, recovery |-> TRUE]

\* stage is the one in the child's progress file, 0 before it writes one.
Child   == [alive : BOOLEAN, stage : {0, Boot, Probe, Cleanup}, ready : BOOLEAN,
            result : BOOLEAN, isolated : BOOLEAN]
NoChild == [alive |-> FALSE, stage |-> 0, ready |-> FALSE, result |-> FALSE,
            isolated |-> FALSE]

ChildEvidence(c) == IF c.ready THEN IsReady
                    ELSE IF c.isolated THEN NotReady ELSE NotIsolated

ExecPC == {"none", "begin", "open", "extract", "spawn", "wait", "load",
           "finish", "cleanup", "complete", "publish", "exit", "dead"}
HandlerPC == {"idle", "put", "put_open", "put_write", "put_finish", "start",
              "delete_tree", "delete_pop"}
Writing == {"put_open", "put_write"}
Idle    == [pc |-> "idle", run |-> NoRun]

ThreadAlive(r) == exec[r] \notin {"none", "dead"}

\* What active_runs counts.
Active(r) == run[r].uploading \/ ThreadAlive(r)

-----------------------------------------------------------------------------
(* A fresh runner.  A restart is the same state except for the identifiers *)
(* already issued: the constructor wipes the storage of earlier runs, the  *)
(* registry is empty, and the child dies with its namespace owner.         *)

Started ==
  /\ registered = {}
  /\ run = [r \in Runs |-> NewRun]
  /\ disk = [r \in Runs |-> {}]
  /\ exec = [r \in Runs |-> "none"]
  /\ child = [r \in Runs |-> NoChild]
  /\ milestone = [r \in Runs |-> 0]
  /\ handler = [h \in Handlers |-> Idle]
  /\ reapQueue = {}
  /\ reapPop = NoRun

Init ==
  /\ Started
  /\ isolationAvailable \in BOOLEAN
  /\ created = {}

Restart ==
  /\ registered' = {}
  /\ run' = [r \in Runs |-> NewRun]
  /\ disk' = [r \in Runs |-> {}]
  /\ exec' = [r \in Runs |-> "none"]
  /\ child' = [r \in Runs |-> NoChild]
  /\ milestone' = [r \in Runs |-> 0]
  /\ handler' = [h \in Handlers |-> Idle]
  /\ reapQueue' = {}
  /\ reapPop' = NoRun
  /\ isolationAvailable' \in BOOLEAN
  /\ UNCHANGED created

-----------------------------------------------------------------------------
(* HTTP handlers                                                           *)

\* The handler thread goes on with its run, or has answered its request.
Goto(h, pc) == handler' = [handler EXCEPT ![h] = [pc |-> pc, run |-> handler[h].run]]
Reply(h)    == handler' = [handler EXCEPT ![h] = Idle]

\* Mutant: busy means uploading or executing, not unfinished.
CreateWhenInactive(r) ==
  /\ r \notin created
  /\ \A q \in registered : ~Active(q)
  /\ created' = created \union {r}
  /\ registered' = registered \union {r}
  /\ run' = [run EXCEPT ![r] = Begin(NewRun, Prepare, TRUE)]
  /\ disk' = [disk EXCEPT ![r] = {"dir"}]
  /\ UNCHANGED <<isolationAvailable, worker, handler, reaper>>

\* POST /v1/runs.  The whole admission runs under the manager's lock.
Create(r) ==
  /\ r \notin created
  /\ \A q \in registered : run[q].status # "running"
  /\ created' = created \union {r}
  /\ registered' = registered \union {r}
  /\ run' = [run EXCEPT ![r] = Begin(NewRun, Prepare, TRUE)]
  /\ disk' = [disk EXCEPT ![r] = {"dir"}]
  /\ UNCHANGED <<isolationAvailable, worker, handler, reaper>>

\* PUT /v1/runs/{id}/archive, POST /v1/runs/{id}/start: get under the lock.
Lookup(h, r, operation) ==
  /\ handler[h] = Idle
  /\ r \in registered
  /\ handler' = [handler EXCEPT ![h] = [pc |-> operation, run |-> r]]
  /\ UNCHANGED <<manager, run, disk, worker, reaper>>

PutLookup(h, r)   == Lookup(h, r, "put")
StartLookup(h, r) == Lookup(h, r, "start")

\* archive_size_mismatch or archive_state_invalid: nothing was claimed.
PutRefused(h) ==
  /\ handler[h].pc = "put"
  /\ Reply(h)
  /\ UNCHANGED <<manager, run, disk, worker, reaper>>

\* Mutant: a second upload is only refused once the archive is verified.
PutBeginUnclaimed(h) ==
  LET r == handler[h].run IN
  /\ handler[h].pc = "put"
  /\ ~run[r].verified /\ exec[r] = "none"
  /\ Goto(h, "put_open")
  /\ run' = [run EXCEPT ![r] = Begin([@ EXCEPT !.uploading = TRUE], Upload, TRUE)]
  /\ UNCHANGED <<manager, disk, worker, reaper>>

\* The upload claims the run and begins its step.
PutBegin(h) ==
  LET r == handler[h].run IN
  /\ handler[h].pc = "put"
  /\ ~run[r].uploading /\ ~run[r].verified /\ exec[r] = "none"
  /\ Goto(h, "put_open")
  /\ run' = [run EXCEPT ![r] = Begin([@ EXCEPT !.uploading = TRUE], Upload, TRUE)]
  /\ UNCHANGED <<manager, disk, worker, reaper>>

\* Every failure between the claim and the checksum ends here: the partial
\* archive is unlinked and the claim is given up.
PutFailed(h) ==
  LET r == handler[h].run IN
  /\ handler[h].pc \in Writing
  /\ disk' = [disk EXCEPT ![r] = @ \ {"archive"}]
  /\ run' = [run EXCEPT ![r] = [@ EXCEPT !.uploading = FALSE, !.verified = FALSE]]
  /\ Reply(h)
  /\ UNCHANGED <<manager, worker, reaper>>

\* open("xb") needs the run directory, without an archive in it.
PutOpen(h) ==
  LET r == handler[h].run IN
  /\ handler[h].pc = "put_open"
  /\ "dir" \in disk[r] /\ "archive" \notin disk[r]
  /\ disk' = [disk EXCEPT ![r] = @ \union {"archive"}]
  /\ Goto(h, "put_write")
  /\ UNCHANGED <<manager, run, worker, reaper>>

\* All bytes arrived and their checksum matches.  A file that was deleted
\* meanwhile is still written to, so nothing is noticed here.
PutVerified(h) ==
  LET r == handler[h].run IN
  /\ handler[h].pc = "put_write"
  /\ run' = [run EXCEPT ![r] = [@ EXCEPT !.uploading = FALSE, !.verified = TRUE]]
  /\ Goto(h, "put_finish")
  /\ UNCHANGED <<manager, disk, worker, reaper>>

\* The step is closed only after the run was released to a start request.
PutFinish(h) ==
  LET r == handler[h].run IN
  /\ handler[h].pc = "put_finish"
  /\ run' = [run EXCEPT ![r] = FinishStep(@, Upload, "passed")]
  /\ Reply(h)
  /\ UNCHANGED <<manager, disk, worker, reaper>>

\* RunManager.start, under the run's lock.
Start(h) ==
  LET r == handler[h].run IN
  /\ handler[h].pc = "start"
  /\ exec' = IF /\ isolationAvailable
                /\ ~run[r].uploading
                /\ run[r].verified
                /\ exec[r] = "none"
              THEN [exec EXCEPT ![r] = "begin"]
              ELSE exec
  /\ Reply(h)
  /\ UNCHANGED <<manager, run, disk, child, milestone, reaper>>

\* DELETE /v1/runs/{id}: only a live thread refuses it (run_still_active).
DeleteLookup(h, r) ==
  /\ ~ThreadAlive(r)
  /\ Lookup(h, r, "delete_tree")

DeleteTree(h) ==
  LET r == handler[h].run IN
  /\ handler[h].pc = "delete_tree"
  /\ \/ /\ disk' = [disk EXCEPT ![r] = {}]
        /\ Goto(h, "delete_pop")
     \/ /\ \E left \in PartlyRemoved(disk[r]) : disk' = [disk EXCEPT ![r] = left]
        /\ Reply(h)
  /\ UNCHANGED <<manager, run, worker, reaper>>

DeletePop(h) ==
  /\ handler[h].pc = "delete_pop"
  /\ registered' = registered \ {handler[h].run}
  /\ Reply(h)
  /\ UNCHANGED <<isolationAvailable, created, run, disk, worker, reaper>>

-----------------------------------------------------------------------------
(* The storage reaper                                                      *)

\* Ten minutes pass without a sign of life of r.
Age(r) ==
  /\ r \in registered
  /\ run[r].fresh
  /\ run' = [run EXCEPT ![r] = [@ EXCEPT !.fresh = FALSE]]
  /\ UNCHANGED <<manager, disk, worker, handler, reaper>>

\* Mutant: only finished runs are reaped.
StaleEvidence(r) == ~ThreadAlive(r) /\ ~run[r].fresh /\ run[r].published

Stale(r) == ~run[r].uploading /\ ~ThreadAlive(r) /\ ~run[r].fresh

ReaperSelect ==
  /\ reapQueue = {} /\ reapPop = NoRun
  /\ reapQueue' = {r \in registered : Stale(r)}
  /\ UNCHANGED <<manager, run, disk, worker, handler, reapPop>>

\* The directory is gone (or was gone already).
ReaperTree(r) ==
  /\ reapPop = NoRun
  /\ r \in reapQueue
  /\ disk' = [disk EXCEPT ![r] = {}]
  /\ reapQueue' = reapQueue \ {r}
  /\ reapPop' = r
  /\ UNCHANGED <<manager, run, worker, handler>>

\* rmtree raised: the run is kept for the next round.
ReaperTreeFailed(r) ==
  /\ reapPop = NoRun
  /\ r \in reapQueue
  /\ \E left \in PartlyRemoved(disk[r]) : disk' = [disk EXCEPT ![r] = left]
  /\ reapQueue' = reapQueue \ {r}
  /\ UNCHANGED <<manager, run, worker, handler, reapPop>>

ReaperPop ==
  /\ reapPop # NoRun
  /\ registered' = registered \ {reapPop}
  /\ reapPop' = NoRun
  /\ UNCHANGED <<isolationAvailable, created, run, disk, worker, handler, reapQueue>>

-----------------------------------------------------------------------------
(* The execution thread: _execute                                          *)

Advance(r, from, to) ==
  /\ exec[r] = from
  /\ exec' = [exec EXCEPT ![r] = to]

\* A RunnerFailure ends failed or aborted (a limit), anything else
\* inconclusive; in each case _finish_run is next.
Fails(r, outcomes) ==
  /\ \E outcome \in outcomes : run' = [run EXCEPT ![r] = [@ EXCEPT !.pending = outcome]]
  /\ exec' = [exec EXCEPT ![r] = "finish"]

\* Mutant: the restore step starts without closing the upload step.
RestoreBeginAlone(r) ==
  /\ Advance(r, "begin", "open")
  /\ run' = [run EXCEPT ![r] = Begin(@, Restore, FALSE)]
  /\ UNCHANGED <<manager, disk, child, milestone, handler, reaper>>

RestoreBegin(r) ==
  /\ Advance(r, "begin", "open")
  /\ run' = [run EXCEPT ![r] = Begin(@, Restore, TRUE)]
  /\ UNCHANGED <<manager, disk, child, milestone, handler, reaper>>

\* mkdir(parents=True) recreates a deleted directory; the archive does not
\* come back with it.
RestoreOpen(r) ==
  /\ exec[r] = "open"
  /\ disk' = [disk EXCEPT ![r] = @ \union {"dir", "restored"}]
  /\ IF "archive" \in disk[r]
       THEN /\ exec' = [exec EXCEPT ![r] = "extract"]
            /\ UNCHANGED run
       ELSE Fails(r, {"inconclusive"})
  /\ UNCHANGED <<manager, child, milestone, handler, reaper>>

\* The archive is open: a delete cannot stop the extraction, it can only
\* take away what was written before it.
RestoreDone(r) ==
  /\ Advance(r, "extract", "spawn")
  /\ disk' = [disk EXCEPT ![r] = {"dir", "restored"}]
  /\ run' = [run EXCEPT ![r] =
              FinishStep([@ EXCEPT !.password = FALSE], Restore, "passed")]
  /\ milestone' = [milestone EXCEPT ![r] = 1]
  /\ UNCHANGED <<manager, child, handler, reaper>>

RestoreFailed(r) ==
  /\ exec[r] = "extract"
  /\ Fails(r, {"failed", "aborted", "inconclusive"})
  /\ UNCHANGED <<manager, disk, child, milestone, handler, reaper>>

SpawnChild(r) ==
  /\ Advance(r, "spawn", "wait")
  /\ child' = [child EXCEPT ![r] = [NoChild EXCEPT !.alive = TRUE]]
  /\ UNCHANGED <<manager, run, disk, milestone, handler, reaper>>

SpawnFailed(r) ==
  /\ exec[r] = "spawn"
  /\ Fails(r, {"inconclusive"})
  /\ UNCHANGED <<manager, disk, child, milestone, handler, reaper>>

\* Mutant: every stage of the child promotes the stages before it.
ObserveAndPromote(r) ==
  LET stage == child[r].stage IN
  /\ exec[r] = "wait"
  /\ stage # 0 /\ "dir" \in disk[r]
  /\ run[r].stage # stage
  /\ run' = [run EXCEPT ![r] = Begin(@, stage, TRUE)]
  /\ UNCHANGED <<manager, disk, worker, handler, reaper>>

\* _read_runtime_progress: the thread may skip stages the child left quickly.
ObserveProgress(r) ==
  LET stage == child[r].stage IN
  /\ exec[r] = "wait"
  /\ stage # 0 /\ "dir" \in disk[r]
  /\ run[r].stage # stage
  /\ run' = [run EXCEPT ![r] = Begin(@, stage, stage # Cleanup)]
  /\ UNCHANGED <<manager, disk, worker, handler, reaper>>

ObserveExit(r) ==
  /\ ~child[r].alive
  /\ Advance(r, "wait", "load")
  /\ UNCHANGED <<manager, run, disk, child, milestone, handler, reaper>>

\* Mutant: the deadline only counts once the child reported a stage.
WaitTimeoutAfterReport(r) ==
  /\ exec[r] = "wait"
  /\ child[r].alive /\ child[r].stage # 0
  /\ Fails(r, {"aborted"})
  /\ child' = [child EXCEPT ![r] = NoChild]
  /\ UNCHANGED <<manager, disk, milestone, handler, reaper>>

\* The hard deadline: terminate, then kill.  If even the wait for the killed
\* process runs out, its TimeoutExpired is no RunnerFailure.
WaitTimeout(r) ==
  /\ exec[r] = "wait"
  /\ child[r].alive
  /\ Fails(r, {"aborted", "inconclusive"})
  /\ child' = [child EXCEPT ![r] = NoChild]
  /\ UNCHANGED <<manager, disk, milestone, handler, reaper>>

\* Mutant: a missing result stages its error code, not the status it stands for.
LoadResultUnclassified(r) ==
  LET evidence == ChildEvidence(child[r])
      passed == evidence.ready /\ evidence.isolation /\ evidence.recovery IN
  /\ Advance(r, "load", "finish")
  /\ run' = [run EXCEPT ![r] =
              IF child[r].result /\ "dir" \in disk[r]
                THEN [@ EXCEPT !.evidence = evidence,
                               !.pending = IF passed THEN "passed" ELSE "failed"]
                ELSE [@ EXCEPT !.pending = "runtime_result_missing"]]
  /\ child' = [child EXCEPT ![r] = NoChild]
  /\ UNCHANGED <<manager, disk, milestone, handler, reaper>>

\* _load_runtime_result and _apply_runtime_result.  Nothing reads the child's
\* files after this.
LoadResult(r) ==
  LET evidence == ChildEvidence(child[r])
      passed == evidence.ready /\ evidence.isolation /\ evidence.recovery IN
  /\ Advance(r, "load", "finish")
  /\ run' = [run EXCEPT ![r] =
              IF child[r].result /\ "dir" \in disk[r]
                THEN [@ EXCEPT !.evidence = evidence,
                               !.pending = IF passed THEN "passed" ELSE "failed"]
                ELSE [@ EXCEPT !.pending = "failed"]]
  /\ child' = [child EXCEPT ![r] = NoChild]
  /\ UNCHANGED <<manager, disk, milestone, handler, reaper>>

\* Mutant: open steps of a failed run are left open.
FinishBeginLeavesOpen(r) ==
  /\ Advance(r, "finish", "cleanup")
  /\ run' = [run EXCEPT ![r] =
              Begin([@ EXCEPT !.password = FALSE], Cleanup, run[r].pending = "passed")]
  /\ UNCHANGED <<manager, disk, child, milestone, handler, reaper>>

\* _finish_run, up to the clean-up of the directory.
FinishBegin(r) ==
  LET passed == run[r].pending = "passed"
      cleared == [run[r] EXCEPT !.password = FALSE] IN
  /\ Advance(r, "finish", "cleanup")
  /\ run' = [run EXCEPT ![r] =
              Begin(IF passed THEN cleared ELSE FailOpen(cleared), Cleanup, passed)]
  /\ UNCHANGED <<manager, disk, child, milestone, handler, reaper>>

\* Mutant: only the restored tree is removed.
CleanupKeepsArchive(r) ==
  /\ Advance(r, "cleanup", "complete")
  /\ "dir" \in disk[r]
  /\ disk' = [disk EXCEPT ![r] = @ \ {"restored"}]
  /\ run' = [run EXCEPT ![r] = FinishStep(@, Cleanup, "passed")]
  /\ UNCHANGED <<manager, child, milestone, handler, reaper>>

CleanupDone(r) ==
  /\ Advance(r, "cleanup", "complete")
  /\ "dir" \in disk[r]
  /\ disk' = [disk EXCEPT ![r] = {"dir"}]
  /\ run' = [run EXCEPT ![r] = FinishStep(@, Cleanup, "passed")]
  /\ UNCHANGED <<manager, child, milestone, handler, reaper>>

\* Also when the directory is missing: listing it raises OSError.
CleanupFailed(r) ==
  /\ Advance(r, "cleanup", "complete")
  /\ IF "dir" \in disk[r]
       THEN \E left \in PartlyRemoved(disk[r]) : disk' = [disk EXCEPT ![r] = left]
       ELSE UNCHANGED disk
  /\ LET outcome == IF run[r].pending = "passed" THEN "inconclusive" ELSE run[r].pending
     IN run' = [run EXCEPT ![r] =
                 FinishStep([@ EXCEPT !.pending = outcome], Cleanup, "failed")]
  /\ UNCHANGED <<manager, child, milestone, handler, reaper>>

CompleteStep(r) ==
  /\ Advance(r, "complete", "publish")
  /\ run' = [run EXCEPT ![r] =
              IF run[r].pending = "passed"
                THEN FinishStep(Begin(@, Complete, TRUE), Complete, "passed")
                ELSE FinishStep(@, Complete, "failed")]
  /\ UNCHANGED <<manager, disk, child, milestone, handler, reaper>>

\* The timestamps and the status become visible together.
Publish(r) ==
  /\ Advance(r, "publish", "exit")
  /\ run' = [run EXCEPT ![r] = [@ EXCEPT !.published = TRUE, !.status = run[r].pending]]
  /\ UNCHANGED <<manager, disk, child, milestone, handler, reaper>>

\* Until the thread object has ended a delete is refused.
ThreadExit(r) ==
  /\ Advance(r, "exit", "dead")
  /\ UNCHANGED <<manager, run, disk, child, milestone, handler, reaper>>

-----------------------------------------------------------------------------
(* The isolated child: isolated_boot.py.  Its writes need the directory.   *)

ChildBoot(r) ==
  /\ child[r].alive /\ child[r].stage = 0 /\ "dir" \in disk[r]
  /\ child' = [child EXCEPT ![r] = [@ EXCEPT !.stage = Boot]]
  /\ UNCHANGED <<manager, run, disk, exec, milestone, handler, reaper>>

\* The preflight passed and the Home Assistant process was started.
ChildProbe(r) ==
  /\ child[r].alive /\ child[r].stage = Boot /\ ~child[r].result
  /\ "dir" \in disk[r]
  /\ child' = [child EXCEPT ![r] = [@ EXCEPT !.stage = Probe, !.isolated = TRUE]]
  /\ milestone' = [milestone EXCEPT ![r] = 2]
  /\ UNCHANGED <<manager, run, disk, exec, handler, reaper>>

\* The endpoint answered, or the process exited or ran out of time.
ChildCleanup(r) ==
  /\ child[r].alive /\ child[r].stage = Probe /\ "dir" \in disk[r]
  /\ \E ready \in BOOLEAN :
       /\ child' = [child EXCEPT ![r] = [@ EXCEPT !.stage = Cleanup, !.ready = ready]]
       /\ milestone' = [milestone EXCEPT ![r] = IF ready THEN 3 ELSE 2]
  /\ UNCHANGED <<manager, run, disk, exec, handler, reaper>>

\* The result is written after the preflight failed or after the clean-up.
ChildResult(r) ==
  /\ child[r].alive /\ ~child[r].result /\ "dir" \in disk[r]
  /\ child[r].stage \in {Boot, Cleanup}
  /\ child' = [child EXCEPT ![r] = [@ EXCEPT !.result = TRUE]]
  /\ UNCHANGED <<manager, run, disk, exec, milestone, handler, reaper>>

\* It ends after its result, or dies at any point before.
ChildExit(r) ==
  /\ child[r].alive
  /\ child' = [child EXCEPT ![r] = [@ EXCEPT !.alive = FALSE]]
  /\ UNCHANGED <<manager, run, disk, exec, milestone, handler, reaper>>

-----------------------------------------------------------------------------
HandlerStep(h) ==
  \/ PutRefused(h) \/ PutBegin(h) \/ PutOpen(h) \/ PutVerified(h) \/ PutFailed(h)
  \/ PutFinish(h)
  \/ Start(h) \/ DeleteTree(h) \/ DeletePop(h)

Request(h, r) == PutLookup(h, r) \/ StartLookup(h, r) \/ DeleteLookup(h, r)

ExecStep(r) ==
  \/ RestoreBegin(r) \/ RestoreOpen(r) \/ RestoreDone(r) \/ RestoreFailed(r)
  \/ SpawnChild(r) \/ SpawnFailed(r) \/ ObserveProgress(r) \/ ObserveExit(r)
  \/ WaitTimeout(r) \/ LoadResult(r) \/ FinishBegin(r) \/ CleanupDone(r)
  \/ CleanupFailed(r) \/ CompleteStep(r) \/ Publish(r) \/ ThreadExit(r)

ChildStep(r) ==
  ChildBoot(r) \/ ChildProbe(r) \/ ChildCleanup(r) \/ ChildResult(r) \/ ChildExit(r)

Next ==
  \/ \E r \in Runs : Create(r) \/ Age(r) \/ ExecStep(r) \/ ChildStep(r)
  \/ \E h \in Handlers : HandlerStep(h) \/ \E r \in Runs : Request(h, r)
  \/ ReaperSelect \/ ReaperPop
  \/ \E r \in Runs : ReaperTree(r) \/ ReaperTreeFailed(r)
  \/ Restart

Spec == Init /\ [][Next]_vars

\* Threads are scheduled, blocking reads and the child are bounded by timeouts,
\* the reaper wakes every minute, and a storage error does not last for ever.
\* Clients owe the runner nothing.
Fairness ==
  /\ \A r \in Runs : WF_vars(ExecStep(r)) /\ WF_vars(Age(r)) /\ SF_vars(ReaperTree(r))
  /\ \A h \in Handlers : WF_vars(HandlerStep(h))
  /\ WF_vars(ReaperSelect) /\ WF_vars(ReaperPop)

LiveSpec == Spec /\ Fairness

-----------------------------------------------------------------------------
(* Properties                                                              *)

TypeOK ==
  /\ isolationAvailable \in BOOLEAN
  /\ created \subseteq Runs
  /\ registered \subseteq created
  /\ run \in [Runs -> RunState]
  /\ disk \in [Runs -> SUBSET Contents]
  /\ exec \in [Runs -> ExecPC]
  /\ child \in [Runs -> Child]
  /\ milestone \in [Runs -> 0..3]
  /\ handler \in [Handlers -> {Idle} \union [pc : HandlerPC, run : Runs]]
  /\ reapQueue \subseteq Runs
  /\ reapPop \in Runs \union {NoRun}

\* A client that polls a run never reads a terminal status before the rest of
\* the evidence: the timestamps are set, no step is open, and passed means that
\* every step passed and the child proved ready, isolated and in recovery mode
\* (_finish_run publishes the status last).
TerminalEvidence ==
  \A r \in Runs : run[r].status # "running" =>
    /\ run[r].published
    /\ \A s \in Steps : run[r].steps[s] \notin Open
    /\ (run[r].status = "passed") <=> \A s \in Steps : run[r].steps[s] = "passed"
    /\ run[r].status = "passed" =>
         run[r].evidence = IsReady /\ run[r].verified /\ milestone[r] = 3

\* Once a run is terminal the runner holds no backup password for it, and if the
\* clean-up step is reported passed neither the archive nor the restored
\* configuration is on disk, whichever thread wrote or deleted last.
SecretsCleared ==
  \A r \in Runs : run[r].status # "running" =>
    /\ ~run[r].password
    /\ run[r].steps[Cleanup] = "passed" => disk[r] \intersect Sensitive = {}

\* Two uploads never write one archive, and no execution runs on a run whose
\* archive is unverified or being replaced.
UploadsAreExclusive ==
  /\ \A h, k \in Handlers :
       /\ handler[h].pc \in Writing /\ handler[k].pc \in Writing
       /\ handler[h].run = handler[k].run
       => h = k
  /\ \A r \in Runs : exec[r] # "none" => run[r].verified /\ ~run[r].uploading

\* The pipeline shown to the user is the truth: restore, boot and probe are
\* passed only if the archive was extracted, the process started, and the
\* endpoint answered.  The clean-up that follows a failure promotes nothing.
PipelineTruthful ==
  \A r \in Runs :
    /\ run[r].steps[Restore] = "passed" => milestone[r] >= 1
    /\ run[r].steps[Boot] = "passed"    => milestone[r] >= 2
    /\ run[r].steps[Probe] = "passed"   => milestone[r] = 3

\* At most one registered run is unfinished, whatever the handlers interleave.
OneUnfinishedRun ==
  \A q, r \in registered :
    run[q].status = "running" /\ run[r].status = "running" => q = r

\* What public() answers for a run: everything but the reaper's clock.
Answer(state) == [state EXCEPT !.fresh = TRUE]

\* A terminal answer is signed evidence.  Until the runner restarts, nothing in
\* it changes that it decides: not the status, the stage, the evidence, nor the
\* state of any step.  The one thing that does change is the time of the upload
\* step, which an upload handler that was overtaken by the whole execution
\* writes late (do_PUT calls finish_step after it released the run).
TerminalFrozen ==
  [][\A r \in Runs : run[r].status # "running" =>
       \/ run'[r] = NewRun
       \/ Answer(run'[r]) = Answer(run[r])
       \/ /\ \E h \in Handlers : handler[h] = [pc |-> "put_finish", run |-> r]
          /\ Answer(run'[r]) = Answer([run[r] EXCEPT !.late = @ \union {Upload}])]_vars

\* Every started execution reaches a terminal status (or the runner restarts):
\* the deadline bounds the child, and every error path ends in _finish_run.
ExecutionsEnd ==
  \A r \in Runs : exec[r] = "begin" ~> exec[r] = "none" \/ run[r].status # "running"

\* If clients fall silent, every run they left behind is removed and the runner
\* accepts a new one: an abandoned upload cannot keep it busy.
AbandonedRunsReaped ==
  <>[](\A h \in Handlers : handler[h] = Idle) => <>[](registered = {})

=============================================================================
