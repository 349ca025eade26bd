------------------------ MODULE VerificationLifecycle ------------------------
(***************************************************************************)
(* How the coordinator starts, retries, records and cancels integrity      *)
(* checks: coordinator.py together with the state store of integrity.py.   *)
(*                                                                         *)
(* Granularity.  Everything runs on one event loop, so the code between    *)
(* two awaits is one step: a refresh awaits the inventory, the marker      *)
(* write and the snapshot; a verification task awaits its start, the       *)
(* verifier, the runtime test, the result write and the refresh it asks    *)
(* for; a task's done callback runs in a later iteration of the loop.  Two *)
(* refreshes may overlap: one of the polling timer and one of the          *)
(* debouncer.  The store serves its writers in order, each with the values *)
(* it captured when it called.                                             *)
(*                                                                         *)
(* Abstracted data: the newest backup is any backup, as backups are made,  *)
(* deleted and lost; a result is the backup it is about and what retrying  *)
(* makes of it, the retry time is none, in the future or past, and the     *)
(* attempt counter saturates at the limit it is compared with.             *)
(***************************************************************************)
EXTENDS Naturals, FiniteSets, SequencesExt

CONSTANTS Tasks,        \* task objects; at least two, for a check that follows another
          Backups,      \* backups that are ever the newest
          Codes,        \* the error keys of results worth retrying
          InternalError,\* the one an unexpected exception is turned into
          Passwords,    \* backup passwords a user sets
          RetryLimit,   \* _AUTOMATIC_RETRY_LIMIT
          StorageFails, \* whether writes of the store can fail
          MaxRestarts,  \* bound: process restarts during a behaviour
          MaxEdits,     \* bound: changes of the newest backup and the password
          MaxUnrecorded,\* bound: failures in a row that could not be published
          None          \* no task, no backup, no key, no password

ASSUME LimitAssumption == /\ RetryLimit \in Nat \ {0}
                          /\ MaxEdits \in Nat /\ MaxUnrecorded \in Nat /\ MaxRestarts \in Nat
ASSUME CodeAssumption == InternalError \in Codes /\ Codes \cap {"none", "settled", "password"} = {}
ASSUME NoneAssumption == None \notin Tasks /\ None \notin Backups /\ None \notin Passwords
ASSUME WriterAssumption == Tasks \cap {"direct", "debounced"} = {}

VARIABLES newest,       \* newest backup the native manager lists, None without any
          password,     \* backup password of the native manager, or None
          edits,        \* bounded count of changes of these two
          data,         \* latest backup of the last published snapshot
          result,       \* integrity_result
          retry,        \* key, attempts and not_before of the retry state
          marker,       \* the password marker and whether it was initialised
          running,      \* integrity_check_running
          tracked,      \* _integrity_task
          task,         \* every task object
          refresh,      \* the refreshes that can be in progress
          store,        \* what the store holds
          writes,       \* the store's lock queue
          stopping,     \* how far async_shutdown has come
          restarts,     \* bounded count of process restarts
          repeated,     \* history: automatic checks in a row that failed alike, and
                        \* those of them whose failure could not be published
          unsaved       \* history: memory the store was told of but does not hold

outside  == <<newest, password, edits>>
control  == <<result, retry, marker>>
history  == <<repeated, unsaved>>
vars     == <<outside, data, control, running, tracked, task, refresh, store,
              writes, stopping, restarts, history>>

-----------------------------------------------------------------------------
Listed   == Backups \union {None}
Outcomes == {"none", "settled", "password"} \union Codes
Results  == [backup : Listed, outcome : Outcomes]
Keys     == {<<b, c>> : b \in Backups, c \in Codes} \union {None}
Retry    == [key : Keys, attempts : 0..RetryLimit, notBefore : {"none", "future", "past"}]
Markers  == [value : Passwords \union {None}, known : BOOLEAN]
Stored   == [result : Results, retry : Retry, marker : Passwords \union {None}]

NotChecked == [backup |-> None, outcome |-> "none"]
NoRetry    == [key |-> None, attempts |-> 0, notBefore |-> "none"]
NoRow      == [key |-> None, count |-> 0, unrecorded |-> 0]

TaskPC    == {"idle", "queued", "verify", "runtime", "save", "fail_save", "refreshing", "ended"}
TaskState == [pc : TaskPC, backup : Listed, source : {"automatic", "manual"},
              failed : BOOLEAN, cancelling : BOOLEAN]
IdleTask  == [pc |-> "idle", backup |-> None, source |-> "automatic", failed |-> FALSE,
              cancelling |-> FALSE]
\* A refresh of the polling timer, or a requested one.
Slots     == {"direct", "debounced"}
RefreshPC == {"idle", "fetch", "persist", "build"}
NoRefresh == [pc |-> "idle", owner |-> None, latest |-> None, changed |-> FALSE]

\* A write in the queue, with the values its caller captured.
Requests  == [kind : {"result", "control"}, by : Tasks \union Slots, result : Results,
              marker : Passwords \union {None}, retry : Retry]

\* asyncio's Task.done(): the object is there but its coroutine has returned.
Live(t)     == task[t].pc \notin {"idle", "ended"}
InFlight(t) == task[t].pc \in {"verify", "runtime", "save", "fail_save"}

\* Mutant: only a check that has begun stands in the way of another.
RunningOnly == running

\* integrity_check_pending_or_running
PendingOrRunning == running \/ (tracked # None /\ Live(tracked))

\* The loop runs what is scheduled in order: a done callback comes before any
\* later event, but not before a step that was already due.
CalledBack == \A t \in Tasks : task[t].pc # "ended"

Retryable(r) == r.outcome \in Codes

\* Mutant: every failure counts as the first of its kind.
UpdatedRetryFromOne(r) ==
  IF ~Retryable(r) THEN NoRetry
  ELSE [key |-> <<r.backup, r.outcome>>, attempts |-> 1, notBefore |-> "future"]

\* _update_integrity_retry_state
UpdatedRetry(r) ==
  IF ~Retryable(r) THEN NoRetry
  ELSE LET key == <<r.backup, r.outcome>>
           attempts == IF key = retry.key THEN retry.attempts + 1 ELSE 1
       IN  [key |-> key, notBefore |-> "future",
            attempts |-> IF attempts > RetryLimit THEN RetryLimit ELSE attempts]

\* _automatic_verification_due
Due(latest, changed) ==
  /\ latest # None
  /\ \/ result.backup # latest
     \/ result.outcome = "password" /\ changed /\ marker.value # None
     \/ /\ result.outcome # "password"
        /\ Retryable(result)
        /\ retry.attempts < RetryLimit
        /\ retry.notBefore # "future"

\* A result write carries everything; a control write keeps the stored result.
\* A result write without a password keeps the stored marker.
Applied(write) ==
  IF write.kind = "result"
  THEN [result |-> write.result, retry |-> write.retry,
        marker |-> IF write.marker = None THEN store.marker ELSE write.marker]
  ELSE [result |-> store.result, retry |-> write.retry, marker |-> write.marker]

\* A retry time in the file lies in the future until the clock says otherwise.
Write(kind, by) ==
  [kind |-> kind, by |-> by, result |-> result', marker |-> marker'.value,
   retry |-> [retry' EXCEPT !.notBefore = IF @ = "none" THEN "none" ELSE "future"]]

\* Mutant: the store serves its latest caller first.
QueueInFront(kind, by) == writes' = <<Write(kind, by)>> \o writes

\* The write of a caller that passes the values the step has just computed.
Queue(kind, by) == writes' = Append(writes, Write(kind, by))
Waiting(by) == \E i \in DOMAIN writes : writes[i].by = by

\* A caller that is cancelled leaves the queue.
Withdraw(by) ==
  \/ ~Waiting(by) /\ UNCHANGED writes
  \/ \E i \in DOMAIN writes : writes[i].by = by /\ writes' = RemoveAt(writes, i)

-----------------------------------------------------------------------------
Loaded(kept) ==
  /\ data = None
  /\ result = kept.result
  /\ retry = kept.retry
  /\ marker = [value |-> kept.marker, known |-> kept.marker # None]
  /\ running = FALSE
  /\ tracked = None
  /\ task = [t \in Tasks |-> IdleTask]
  /\ refresh = [slot \in Slots |-> NoRefresh]
  /\ writes = <<>>
  /\ stopping = "no"
  /\ repeated = NoRow
  /\ unsaved = FALSE

Init ==
  /\ newest \in Listed
  /\ password \in Passwords \union {None}
  /\ edits = 0
  /\ store = [result |-> NotChecked, retry |-> NoRetry, marker |-> None]
  /\ Loaded(store)
  /\ restarts = 0

\* The process dies and a new coordinator loads the store; the write under way
\* may have replaced the file or not.
Restart ==
  /\ restarts < MaxRestarts
  /\ restarts' = restarts + 1
  /\ store' \in {store} \union (IF writes = <<>> THEN {} ELSE {Applied(Head(writes))})
  /\ data' = None
  /\ result' = store'.result
  /\ retry' = store'.retry
  /\ marker' = [value |-> store'.marker, known |-> store'.marker # None]
  /\ running' = FALSE
  /\ tracked' = None
  /\ task' = [t \in Tasks |-> IdleTask]
  /\ refresh' = [slot \in Slots |-> NoRefresh]
  /\ writes' = <<>>
  /\ stopping' = "no"
  /\ repeated' = NoRow
  /\ unsaved' = FALSE
  /\ UNCHANGED outside

-----------------------------------------------------------------------------
(* What happens outside the coordinator                                    *)

\* A backup is made, deleted or lost with its storage.
NewestChanges ==
  /\ edits < MaxEdits
  /\ edits' = edits + 1
  /\ newest' \in Listed \ {newest}
  /\ UNCHANGED <<password, data, control, running, tracked, task, refresh, store, writes,
                 stopping, restarts, history>>

PasswordChanges ==
  /\ edits < MaxEdits
  /\ edits' = edits + 1
  /\ password' \in (Passwords \union {None}) \ {password}
  /\ UNCHANGED <<newest, data, control, running, tracked, task, refresh, store, writes,
                 stopping, restarts, history>>

RetryTimeComes ==
  /\ retry.notBefore = "future"
  /\ retry' = [retry EXCEPT !.notBefore = "past"]
  /\ UNCHANGED <<outside, data, result, marker, running, tracked, task, refresh, store,
                 writes, stopping, restarts, history>>

-----------------------------------------------------------------------------
(* Refreshing                                                              *)

\* One refresh of each kind at a time, and none begins after the shutdown.
Refreshable(slot) == refresh[slot].pc = "idle" /\ stopping # "stopped"
Fetching(owner) == [NoRefresh EXCEPT !.pc = "fetch", !.owner = owner]

RefreshBegin(slot) ==
  /\ Refreshable(slot)
  /\ refresh' = [refresh EXCEPT ![slot] = Fetching(None)]
  /\ UNCHANGED <<outside, data, control, running, tracked, task, store, writes, stopping,
                 restarts, history>>

\* The task that asked for the refresh returns once the refresh is over.
OwnerReturned(tasks, slot) ==
  IF refresh[slot].owner \in Tasks
  THEN [tasks EXCEPT ![refresh[slot].owner].pc = "ended"] ELSE tasks

\* Mutant: the refresh does not wait for its marker write.
RefreshPersistsInBackground(slot) ==
  /\ refresh[slot].pc = "fetch"
  /\ LET known == marker.known
         differs == password # marker.value
     IN  /\ marker' = [value |-> password, known |-> TRUE]
         /\ UNCHANGED <<result, retry>>
         /\ refresh' = [refresh EXCEPT ![slot] =
               [@ EXCEPT !.pc = "build", !.latest = newest, !.changed = known /\ differs]]
         /\ IF ~known \/ differs THEN Queue("control", slot) ELSE UNCHANGED writes
  /\ UNCHANGED <<outside, data, running, tracked, task, store, stopping, restarts, history>>

\* The inventory is read, then the password marker is compared and written when
\* it was not known or has changed: the refresh goes on when the store is done.
RefreshFetched(slot) ==
  /\ refresh[slot].pc = "fetch"
  /\ LET known == marker.known
         differs == password # marker.value
     IN  /\ marker' = [value |-> password, known |-> TRUE]
         /\ UNCHANGED <<result, retry>>
         /\ refresh' = [refresh EXCEPT ![slot] =
               [@ EXCEPT !.pc = IF ~known \/ differs THEN "persist" ELSE "build",
                         !.latest = newest, !.changed = known /\ differs]]
         /\ IF ~known \/ differs THEN Queue("control", slot) ELSE UNCHANGED writes
  /\ UNCHANGED <<outside, data, running, tracked, task, store, stopping, restarts, history>>

RefreshFailed(slot) ==
  /\ refresh[slot].pc \in {"fetch", "build"}
  /\ refresh' = [refresh EXCEPT ![slot] = NoRefresh]
  /\ task' = OwnerReturned(task, slot)
  /\ UNCHANGED <<outside, data, control, running, tracked, store, writes, stopping,
                 restarts, history>>

\* Task objects are interchangeable: the next one is any that is free.
NewTask == CHOOSE t \in Tasks : task[t].pc = "idle"

\* _set_integrity_task over a task created just now.
Track(tasks, backup, source) ==
  \E t \in Tasks :
    /\ task[t].pc = "idle"
    /\ t = NewTask
    /\ task' = [tasks EXCEPT ![t] = [IdleTask EXCEPT !.pc = "queued", !.backup = backup,
                                                    !.source = source]]
    /\ tracked' = t

\* The snapshot is built and notified; _schedule_automatic_verification runs,
\* with what _backup_manager_busy answers, and the snapshot is published.
RefreshDone(slot, managerBusy) ==
  LET latest == refresh[slot].latest
      due    == Due(latest, refresh[slot].changed) /\ ~PendingOrRunning
  IN  /\ refresh[slot].pc = "build"
      /\ data' = latest
      /\ refresh' = [refresh EXCEPT ![slot] = NoRefresh]
      /\ \/ /\ due /\ ~managerBusy
            /\ Track(OwnerReturned(task, slot), latest, "automatic")
         \/ /\ ~due \/ managerBusy
            /\ task' = OwnerReturned(task, slot)
            /\ UNCHANGED tracked
      /\ UNCHANGED <<outside, control, running, store, writes, stopping, restarts, repeated,
                     unsaved>>

\* async_start_integrity_check, from a button or the panel.  It is also refused
\* within the cooldown and while the native manager is busy, without effect:
\* time and the manager are free, so the step is then one that is not taken.
ManualStart ==
  /\ stopping = "no"
  /\ CalledBack
  /\ ~PendingOrRunning
  /\ data # None
  /\ Track(task, data, "manual")
  /\ UNCHANGED <<outside, data, control, running, refresh, store, writes, stopping, restarts,
                 repeated, unsaved>>

-----------------------------------------------------------------------------
(* One verification task                                                   *)

\* A task past its finally block: what it was about no longer matters.
Returning(pc, failed) == [IdleTask EXCEPT !.pc = pc, !.failed = failed]

TaskStart(t) ==
  /\ task[t].pc = "queued"
  /\ ~task[t].cancelling
  /\ running' = TRUE
  /\ task' = [task EXCEPT ![t] = IF running THEN Returning("ended", FALSE)
                                  ELSE [@ EXCEPT !.pc = "verify"]]
  /\ UNCHANGED <<outside, data, control, tracked, refresh, store, writes, stopping, restarts,
                 history>>

\* _async_run_runtime_test: the verdict of a check the user asked for counts
\* before the check is over, in memory only.
TaskShowsVerdict(t) ==
  /\ task[t].pc = "verify" /\ ~task[t].cancelling /\ CalledBack
  /\ task[t].source = "manual"
  /\ result' = [backup |-> task[t].backup, outcome |-> "settled"]
  /\ task' = [task EXCEPT ![t].pc = "runtime"]
  /\ repeated' = NoRow
  /\ UNCHANGED <<outside, data, retry, marker, running, tracked, refresh, store, writes,
                 stopping, restarts, unsaved>>

\* The row of automatic checks that failed alike, one more of them.
Extended(t, outcome, unrecorded) ==
  LET key == <<task[t].backup, outcome>>
      one == IF task[t].source = "automatic" THEN 1 ELSE 0
      row == IF key = repeated.key THEN repeated ELSE [NoRow EXCEPT !.key = key]
  IN  [row EXCEPT !.count = row.count + one,
                  !.unrecorded = row.unrecorded + (IF unrecorded THEN one ELSE 0)]

\* Publish a result and hand it to the store: _async_complete_integrity_check,
\* and _async_fail_integrity_check for an unexpected exception.
Publish(t, outcome, next) ==
  LET r == [backup |-> task[t].backup, outcome |-> outcome]
  IN  /\ task[t].pc \in {"verify", "runtime"} /\ ~task[t].cancelling /\ CalledBack
      /\ result' = r
      /\ retry' = UpdatedRetry(r)
      /\ repeated' = IF Retryable(r) THEN Extended(t, outcome, FALSE) ELSE NoRow
      /\ task' = [task EXCEPT ![t].pc = next]
      /\ UNCHANGED <<outside, data, marker, running, tracked, refresh, store, stopping,
                     restarts, unsaved>>
      /\ Queue("result", t)

\* After a runtime test the verdict stays what it was, or an exception ends it.
TaskVerified(t) ==
  \E outcome \in {"settled", "password"} \union Codes :
    /\ task[t].pc = "runtime" => outcome \in {"settled", InternalError}
    /\ Publish(t, outcome, "save")

TaskRaised(t) == Publish(t, InternalError, "fail_save")

\* Mutant: the running flag is left as it is.
FinishStillRunning(t, cancelled, failed) ==
  /\ tracked' = IF tracked = t THEN None ELSE tracked
  /\ UNCHANGED running
  /\ \/ /\ task' = [task EXCEPT ![t] = Returning("ended", failed)]
        /\ UNCHANGED refresh
     \/ /\ ~cancelled
        /\ Refreshable("debounced")
        /\ task' = [task EXCEPT ![t] = Returning("refreshing", failed)]
        /\ refresh' = [refresh EXCEPT !["debounced"] = Fetching(t)]

\* The finally block: the flag and the reference are released before the
\* refresh, which a cancelled task does not ask for and the debouncer may
\* leave to a refresh that is under way or to come.
Finish(t, cancelled, failed) ==
  /\ running' = FALSE
  /\ tracked' = IF tracked = t THEN None ELSE tracked
  /\ \/ /\ task' = [task EXCEPT ![t] = Returning("ended", failed)]
        /\ UNCHANGED refresh
     \/ /\ ~cancelled
        /\ Refreshable("debounced")
        /\ task' = [task EXCEPT ![t] = Returning("refreshing", failed)]
        /\ refresh' = [refresh EXCEPT !["debounced"] = Fetching(t)]

TaskFinish(t) ==
  /\ task[t].pc \in {"save", "fail_save"}
  /\ ~Waiting(t)
  /\ ~task[t].cancelling
  /\ Finish(t, FALSE, FALSE)
  /\ UNCHANGED <<outside, data, control, store, writes, stopping, restarts, history>>

\* Publishing fails a second time: the result is set, the retry state is not,
\* nothing is written, and the task ends with the exception.  Without a retry
\* time the due rule waits from the time of the result.
FailureHandlerRaised(t) ==
  /\ task[t].pc \in {"verify", "runtime"} /\ ~task[t].cancelling /\ CalledBack
  /\ repeated.unrecorded < MaxUnrecorded
  /\ result' = [backup |-> task[t].backup, outcome |-> InternalError]
  /\ retry' = [retry EXCEPT !.notBefore = IF @ = "none" THEN "future" ELSE @]
  /\ repeated' = Extended(t, InternalError, TRUE)
  /\ unsaved' = TRUE
  /\ Finish(t, FALSE, TRUE)
  /\ UNCHANGED <<outside, data, marker, store, writes, stopping, restarts>>

\* CancelledError arrives.  A task that never ran has no finally block; one
\* that is handling a failure is not told by its handler that it is cancelled.
\* Its write may have reached the file or not; a verdict shown before the end
\* was never handed to the store.
TaskCancelled(t) ==
  /\ task[t].cancelling
  /\ \/ /\ task[t].pc = "queued"
        /\ task' = [task EXCEPT ![t] = Returning("ended", FALSE)]
        /\ UNCHANGED <<running, tracked, refresh>>
     \/ /\ InFlight(t)
        /\ Finish(t, task[t].pc # "fail_save", FALSE)
  /\ Withdraw(t)
  /\ store' \in {store} \union {Applied(writes[i]) : i \in {j \in DOMAIN writes :
                                                          j = 1 /\ writes[j].by = t}}
  /\ unsaved' = (unsaved \/ Waiting(t) \/ task[t].pc = "runtime")
  /\ UNCHANGED <<outside, data, control, stopping, restarts, repeated>>

\* Mutant: the callback drops the reference whichever task it is to.
TaskCallbackForgets(t) ==
  /\ task[t].pc = "ended"
  /\ running' = (running /\ ~task[t].failed)
  /\ tracked' = None
  /\ task' = [task EXCEPT ![t] = IdleTask]
  /\ UNCHANGED <<outside, data, control, refresh, store, writes, stopping, restarts, history>>

\* _consume_integrity_task_result, the done callback.
TaskCallback(t) ==
  /\ task[t].pc = "ended"
  /\ running' = (running /\ ~task[t].failed)
  /\ tracked' = IF tracked = t THEN None ELSE tracked
  /\ task' = [task EXCEPT ![t] = IdleTask]
  /\ UNCHANGED <<outside, data, control, refresh, store, writes, stopping, restarts, history>>

-----------------------------------------------------------------------------
(* The store and the shutdown                                              *)

\* The refresh whose marker write is over goes on.
Served ==
  LET by == Head(writes).by
  IN  /\ writes # <<>>
      /\ writes' = Tail(writes)
      /\ refresh' = IF by \in Slots THEN [refresh EXCEPT ![by].pc = "build"] ELSE refresh

WriteDone ==
  /\ Served
  /\ store' = Applied(Head(writes))
  /\ UNCHANGED <<outside, data, control, running, tracked, task, stopping, restarts, history>>

\* A failed result write pushes the retry time back; a failed control write is
\* logged.  Bound: one lost write between two starts of the process.
WriteFailed ==
  /\ Served
  /\ ~unsaved /\ StorageFails
  /\ retry' = IF Head(writes).kind = "result" THEN [retry EXCEPT !.notBefore = "future"]
              ELSE retry
  /\ unsaved' = TRUE
  /\ UNCHANGED <<outside, data, result, marker, running, tracked, task, store, stopping,
                 restarts, repeated>>

\* The rest of async_shutdown, from the end of its first await.  A refresh of
\* the adaptive polling task is cancelled, one of another owner goes on.
Stopped ==
  /\ stopping' = "stopped"
  /\ \/ UNCHANGED <<refresh, writes, unsaved>>
     \/ /\ refresh["debounced"].pc # "idle" /\ refresh["debounced"].owner = None
        /\ refresh' = [refresh EXCEPT !["debounced"] = NoRefresh]
        /\ Withdraw("debounced")
        /\ unsaved' = (unsaved \/ Waiting("debounced"))

ShutdownBegin ==
  /\ stopping = "no"
  /\ IF tracked # None /\ Live(tracked)
     THEN /\ stopping' = "cancelling"
          /\ task' = [task EXCEPT ![tracked].cancelling = TRUE]
          /\ UNCHANGED <<refresh, writes, unsaved>>
     ELSE Stopped /\ UNCHANGED task
  /\ UNCHANGED <<outside, data, control, running, tracked, store, restarts, repeated>>

ShutdownEnd ==
  /\ stopping = "cancelling"
  /\ \A t \in Tasks : task[t].cancelling => ~Live(t)
  /\ Stopped
  /\ UNCHANGED <<outside, data, control, running, tracked, task, store, restarts, repeated>>

-----------------------------------------------------------------------------
Outside == NewestChanges \/ PasswordChanges \/ RetryTimeComes
RefreshStep(slot) == RefreshFetched(slot) \/ RefreshFailed(slot)
                     \/ (\E busy \in BOOLEAN : RefreshDone(slot, busy))
Refreshing == \E slot \in Slots : RefreshBegin(slot) \/ RefreshStep(slot)
TaskStep(t) == TaskStart(t) \/ TaskShowsVerdict(t) \/ TaskVerified(t) \/ TaskRaised(t)
               \/ TaskFinish(t) \/ FailureHandlerRaised(t) \/ TaskCancelled(t) \/ TaskCallback(t)
Storing == WriteDone \/ WriteFailed
Stopping == ShutdownBegin \/ ShutdownEnd

Next == Restart \/ Outside \/ Refreshing \/ ManualStart \/ (\E t \in Tasks : TaskStep(t))
        \/ Storing \/ Stopping

Spec == Init /\ [][Next]_vars

\* Refreshes end, those of the polling timer recur, and again and again one of
\* them reads the inventory and one ends while the native manager is idle; an
\* awaited step of a task and of the store ends.  Two waits have no deadline:
\* the verifier's for an agent to close its stream, and a runtime test's for its
\* upload.  Nothing is assumed of users.
Fairness ==
  /\ WF_vars(RefreshBegin("direct"))
  /\ SF_vars(RefreshFetched("direct"))
  /\ SF_vars(RefreshDone("direct", FALSE))
  /\ \A slot \in Slots : WF_vars(RefreshStep(slot))
  /\ WF_vars(Storing)
  /\ \A t \in Tasks :
       /\ WF_vars(TaskStart(t))
       /\ WF_vars(TaskFinish(t))
       /\ WF_vars(TaskCancelled(t))
       /\ WF_vars(TaskCallback(t))

LiveSpec == Spec /\ Fairness

-----------------------------------------------------------------------------
(* Properties                                                              *)

\* Every variable keeps its type, and no caller has two writes with the store.
TypeOK ==
  /\ newest \in Listed /\ data \in Listed
  /\ password \in Passwords \union {None} /\ edits \in 0..MaxEdits
  /\ running \in BOOLEAN
  /\ result \in Results /\ retry \in Retry /\ marker \in Markers
  /\ tracked \in Tasks \union {None}
  /\ task \in [Tasks -> TaskState]
  /\ refresh \in [Slots -> [pc : RefreshPC, owner : {None} \union Tasks,
                            latest : Listed, changed : BOOLEAN]]
  /\ store \in Stored
  /\ writes \in Seq(Requests)
  /\ \A i, j \in DOMAIN writes : writes[i].by = writes[j].by => i = j
  /\ stopping \in {"no", "cancelling", "stopped"}
  /\ restarts \in 0..MaxRestarts
  /\ unsaved \in BOOLEAN
  /\ repeated.key \in Keys /\ repeated.count \in Nat /\ repeated.unrecorded \in 0..MaxUnrecorded

\* At most one integrity check runs, although the task that finishes lets a
\* refresh start the next one before its own done callback has run, and that
\* callback may clear the running flag of the next one.
SingleFlight == \A t, u \in Tasks : InFlight(t) /\ InFlight(u) => t = u

\* A backup that keeps failing in the same way is checked automatically no more
\* than _AUTOMATIC_RETRY_LIMIT times in a row, whatever manual checks, new
\* passwords, refreshes and other backups come in between; each failure that
\* could not be published (_async_fail_integrity_check raises) adds one, as the
\* retry state does not count it, so that those are retried without a limit.
RetriesBounded == repeated.count <= RetryLimit + repeated.unrecorded

\* No automatic check is wasted: one that has not come to its verdict is about a
\* backup the last result is not about, or whose result is worth retrying or
\* was for want of a password.  Two refreshes that overlap, both with the same
\* backup to check, do not check it twice, however old their inventories are.
ChecksAreNeeded ==
  \A t \in Tasks :
    task[t].pc \in {"queued", "verify"} /\ task[t].source = "automatic" =>
      \/ result.backup # task[t].backup
      \/ result.outcome = "password"
      \/ Retryable(result) /\ retry.attempts < RetryLimit

\* Once the store has served its writers and none of them failed, a restart
\* would find the result, the retry count and the password marker in memory;
\* but for a verdict shown while its runtime test still runs.
StoreMatchesMemory ==
  writes = <<>> /\ ~unsaved /\ (\A t \in Tasks : task[t].pc # "runtime") =>
    /\ store.result = result
    /\ store.retry.key = retry.key
    /\ store.retry.attempts = retry.attempts
    /\ marker.known => store.marker = marker.value

\* When one backup stays the newest, the result comes to be about it and stays
\* so, unless the coordinator is shut down or a check never ends: neither
\* exhausted retries of another backup, nor a missing password, nor a running
\* check, nor a refresh that ends with an older inventory prevent that.
NewestIsVerified ==
  \A b \in Backups :
    <>[](newest = b) =>
      \/ <>[](result.backup = b)
      \/ <>(stopping # "no")
      \/ \E t \in Tasks : <>[](task[t].pc \in {"verify", "runtime"})

\* CHANGELOG.md on refused checks: automatic checks retry on the next refresh.
\* What a refresh puts off because the manager is busy is still due for the next
\* one, which sees no new password.
BusySkipIsRetried ==
  [][\A slot \in Slots, b \in Backups :
       /\ refresh[slot].latest = b
       /\ RefreshDone(slot, TRUE)
       /\ Due(b, refresh[slot].changed) /\ ~PendingOrRunning
       => Due(b, FALSE)']_vars

=============================================================================
