--------------------- MODULE VerificationLifecycle_proofs ---------------------
(***************************************************************************)
(* Proofs about VerificationLifecycle, for any number of task objects,     *)
(* backups, error keys and passwords, any retry limit and any number of    *)
(* restarts, changes from outside and failures that cannot be published.   *)
(*                                                                         *)
(* What keeps checks apart is not the flag integrity_check_running, which  *)
(* the late callback of a task that failed may clear under the next one:   *)
(* it is the reference to the task, which every task that still has work   *)
(* to do is the one to hold (OneWorker).  The rest follows from it: a      *)
(* caller has one write in the queue of the store (Writers), published     *)
(* failures in a row are counted by the retry state that limits them       *)
(* (Retries), nothing but the check itself changes what made it due        *)
(* (ChecksAreNeeded), and what the queue will make of the file is what     *)
(* memory holds (Drained).                                                 *)
(***************************************************************************)
EXTENDS VerificationLifecycle, SequenceTheorems, TLAPS

\* A task between its creation and its finally block.
Working(t) == task[t].pc \in {"queued", "verify", "runtime", "save", "fail_save"}
\* A task that has not come to the end of its check.
Checking(t) == task[t].pc \in {"queued", "verify", "runtime"}

RefreshState == [pc : RefreshPC, owner : {None} \union Tasks, latest : Listed, changed : BOOLEAN]

\* The types of the variables; a check is about a backup.
Typed ==
  /\ newest \in Listed /\ data \in Listed
  /\ password \in Passwords \union {None} /\ edits \in 0..MaxEdits
  /\ running \in BOOLEAN
  /\ result \in Results /\ retry \in Retry /\ marker \in Markers
  /\ tracked \in Tasks \union {None}
  /\ task \in [Tasks -> TaskState]
  /\ refresh \in [Slots -> RefreshState]
  /\ store \in Stored
  /\ writes \in Seq(Requests)
  /\ stopping \in {"no", "cancelling", "stopped"}
  /\ restarts \in 0..MaxRestarts
  /\ unsaved \in BOOLEAN
  /\ repeated \in [key : Keys, count : Nat, unrecorded : 0..MaxUnrecorded]
  /\ \A t \in Tasks : Checking(t) => task[t].backup # None

\* The coordinator holds the task that still has work to do.
OneWorker == \A t \in Tasks : Working(t) => tracked = t

\* A task waits for the refresh it has asked for, which is the debouncer's.
OwnerWaits ==
  /\ refresh["direct"].owner = None
  /\ \A t \in Tasks : refresh["debounced"].owner = t => task[t].pc = "refreshing"

\* Every write in the queue has its caller waiting, and none has two.
Writers ==
  /\ \A i \in DOMAIN writes :
       IF writes[i].kind = "control"
       THEN writes[i].by \in Slots /\ refresh[writes[i].by].pc = "persist"
       ELSE writes[i].by \in Tasks /\ task[writes[i].by].pc \in {"save", "fail_save"}
  /\ \A i, j \in DOMAIN writes : writes[i].by = writes[j].by => i = j

\* The failures in a row that were published are counted by the retry state, the
\* row is about the last result, and an automatic check is under way only below
\* the limit or about another backup.
Retries ==
  /\ repeated.unrecorded <= repeated.count
  /\ \/ repeated.count = repeated.unrecorded
     \/ /\ retry.key = repeated.key
        /\ repeated.count <= retry.attempts + repeated.unrecorded
  /\ repeated.count # 0 =>
       Retryable(result) /\ \E c \in Codes : repeated.key = <<result.backup, c>>
  /\ \A t \in Tasks :
       Checking(t) /\ task[t].source = "automatic" =>
         \/ repeated.count < RetryLimit + repeated.unrecorded
         \/ \A c \in Codes : repeated.key # <<task[t].backup, c>>

\* A write that sets the marker of the file.
SetsMarker(write) == write.kind = "control" \/ write.marker # None

\* What the queue will make of the file is what memory holds, if no write was
\* lost; but for a verdict that a runtime test has not confirmed.
RetryDrained ==
  LET last == IF writes = <<>> THEN store.retry ELSE writes[Len(writes)].retry
  IN  last.key = retry.key /\ last.attempts = retry.attempts
ResultDrained ==
  (\A t \in Tasks : task[t].pc # "runtime") =>
    /\ \A i \in DOMAIN writes : writes[i].kind = "result" => writes[i].result = result
    /\ (\A i \in DOMAIN writes : writes[i].kind # "result") => store.result = result
MarkerDrained ==
  marker.known =>
    /\ \A i \in DOMAIN writes :
         /\ SetsMarker(writes[i])
         /\ \A j \in DOMAIN writes : i < j => ~SetsMarker(writes[j])
         => writes[i].marker = marker.value
    /\ (\A i \in DOMAIN writes : ~SetsMarker(writes[i])) => store.marker = marker.value
Drained == ~unsaved => RetryDrained /\ ResultDrained /\ MarkerDrained

IInv == Typed /\ OneWorker /\ OwnerWaits /\ Writers /\ Retries /\ ChecksAreNeeded /\ Drained

-----------------------------------------------------------------------------
(* The queue of the store *)

\* What is left of a queue when one entry is taken out.
LEMMA RemoveAtProperties ==
  ASSUME NEW S, NEW s \in Seq(S), NEW i \in 1..Len(s)
  PROVE  /\ RemoveAt(s, i) \in Seq(S)
         /\ Len(RemoveAt(s, i)) = Len(s) - 1
         /\ \A j \in 1..(Len(s) - 1) : RemoveAt(s, i)[j] = s[IF j < i THEN j ELSE j + 1]
<1> DEFINE front == SubSeq(s, 1, i - 1)
           back  == SubSeq(s, i + 1, Len(s))
<1>1. Len(s) \in Nat /\ i \in Int /\ i <= Len(s) /\ 1 <= i
  OBVIOUS
<1>2. front \in Seq(S) /\ Len(front) = i - 1 /\ \A j \in 1..(i - 1) : front[j] = s[j]
  BY SubSeqProperties
<1>3. back \in Seq(S) /\ Len(back) = Len(s) - i /\ \A j \in 1..(Len(s) - i) : back[j] = s[i + j]
  BY SubSeqProperties
<1> HIDE DEF front, back
<1>4. /\ front \o back \in Seq(S)
      /\ Len(front \o back) = Len(front) + Len(back)
      /\ \A j \in 1..(Len(front) + Len(back)) :
           (front \o back)[j] = IF j <= Len(front) THEN front[j] ELSE back[j - Len(front)]
  BY <1>2, <1>3, ConcatProperties
<1>5. Len(front) + Len(back) = Len(s) - 1
  BY <1>1, <1>2, <1>3
<1>6. ASSUME NEW j \in 1..(Len(s) - 1)
      PROVE  (front \o back)[j] = s[IF j < i THEN j ELSE j + 1]
  BY <1>1, <1>2, <1>3, <1>4, <1>5
<1> QED
  BY <1>4, <1>5, <1>6 DEF RemoveAt, front, back

\* A caller that leaves the queue takes its write with it.
LEMMA WithdrawProperties ==
  ASSUME writes \in Seq(Requests), NEW by, Withdraw(by)
  PROVE  /\ writes' \in Seq(Requests)
         /\ \A k \in DOMAIN writes' : \E i \in DOMAIN writes : writes'[k] = writes[i]
<1>1. CASE ~Waiting(by) /\ UNCHANGED writes
  BY <1>1
<1>2. CASE \E i \in DOMAIN writes : writes[i].by = by /\ writes' = RemoveAt(writes, i)
  <2>1. PICK i \in 1..Len(writes) : writes[i].by = by /\ writes' = RemoveAt(writes, i)
    BY <1>2
  <2>2. /\ writes' \in Seq(Requests) /\ Len(writes') = Len(writes) - 1
        /\ \A j \in 1..(Len(writes) - 1) : writes'[j] = writes[IF j < i THEN j ELSE j + 1]
    BY <2>1, RemoveAtProperties
  <2> QED
    BY <2>2
<1> QED
  BY <1>1, <1>2 DEF Withdraw

-----------------------------------------------------------------------------
(* Types *)

\* What the constants are.
LEMMA Bounds ==
  /\ RetryLimit \in Nat \ {0} /\ MaxEdits \in Nat /\ MaxUnrecorded \in Nat /\ MaxRestarts \in Nat
  /\ InternalError \in Codes
  /\ "none" \notin Codes /\ "settled" \notin Codes /\ "password" \notin Codes
  /\ None \notin Tasks /\ None \notin Backups
  /\ "direct" \notin Tasks /\ "debounced" \notin Tasks
  BY LimitAssumption, CodeAssumption, NoneAssumption, WriterAssumption

\* What a write makes of the file is of the type of the file.
LEMMA AppliedType ==
  ASSUME Typed, NEW write \in Requests
  PROVE  Applied(write) \in Stored
  BY DEF Typed, Requests, Stored, Applied

\* What a coordinator starts with.
LEMMA Fresh ==
  /\ NotChecked \in Results /\ NoRetry \in Retry /\ NoRefresh \in RefreshState
  /\ IdleTask \in TaskState
  /\ NoRow \in [key : Keys, count : Nat, unrecorded : 0..MaxUnrecorded]
  /\ None \in Listed /\ None \in Keys /\ <<>> \in Seq(Requests)
  BY Bounds DEF NotChecked, NoRetry, NoRefresh, NoRow, IdleTask, Results, Retry, Keys, Outcomes,
     Listed, RefreshPC, RefreshState, TaskState, TaskPC

LEMMA FetchingType ==
  ASSUME NEW owner \in {None} \union Tasks
  PROVE  Fetching(owner) \in RefreshState
  BY Fresh DEF Fetching, NoRefresh, RefreshState, RefreshPC

LEMMA ReturningType ==
  ASSUME NEW pc \in TaskPC, NEW failed \in BOOLEAN
  PROVE  Returning(pc, failed) \in TaskState /\ Returning(pc, failed).pc = pc
  BY Fresh DEF Returning, IdleTask, TaskState

\* Handing a refresh back ends the task that asked for it, if there is one.
LEMMA OwnerReturnedType ==
  ASSUME Typed, NEW slot \in Slots
  PROVE  /\ OwnerReturned(task, slot) \in [Tasks -> TaskState]
         /\ \A t \in Tasks : \/ OwnerReturned(task, slot)[t] = task[t]
                             \/ /\ refresh[slot].owner = t
                                /\ OwnerReturned(task, slot)[t].pc = "ended"
  BY DEF Typed, OwnerReturned, TaskState, TaskPC

\* A new task is queued with its backup, and the others are what they were.
LEMMA TrackType ==
  ASSUME NEW tasks \in [Tasks -> TaskState], NEW backup \in Listed,
         NEW source \in {"automatic", "manual"}, Track(tasks, backup, source)
  PROVE  /\ task' \in [Tasks -> TaskState]
         /\ \E t \in Tasks :
              /\ tracked' = t
              /\ task'[t].pc = "queued" /\ task'[t].backup = backup /\ task'[t].source = source
              /\ \A u \in Tasks : u # t => task'[u] = tasks[u]
<1>1. PICK t \in Tasks :
        /\ tracked' = t
        /\ task' = [tasks EXCEPT ![t] = [IdleTask EXCEPT !.pc = "queued", !.backup = backup,
                                                        !.source = source]]
  BY DEF Track
<1>2. [IdleTask EXCEPT !.pc = "queued", !.backup = backup, !.source = source] \in TaskState
  BY Fresh DEF IdleTask, TaskState, TaskPC
<1>3. task'[t] = [IdleTask EXCEPT !.pc = "queued", !.backup = backup, !.source = source]
  BY <1>1
<1>4. task'[t].pc = "queued" /\ task'[t].backup = backup /\ task'[t].source = source
  BY <1>3 DEF IdleTask
<1> QED
  BY <1>1, <1>2, <1>4

\* A task that finishes has no work left, and the others keep theirs; the
\* refresh it asks for is the debouncer's.
LEMMA FinishType ==
  ASSUME Typed, NEW t \in Tasks, NEW cancelled \in BOOLEAN, NEW failed \in BOOLEAN,
         Finish(t, cancelled, failed)
  PROVE  /\ running' = FALSE /\ tracked' \in Tasks \union {None}
         /\ tracked' = IF tracked = t THEN None ELSE tracked
         /\ task' \in [Tasks -> TaskState] /\ refresh' \in [Slots -> RefreshState]
         /\ task'[t].pc \in {"ended", "refreshing"}
         /\ \A u \in Tasks : u # t => task'[u] = task[u]
         /\ refresh'["direct"] = refresh["direct"]
         /\ \/ refresh' = refresh
            \/ /\ refresh["debounced"].pc = "idle" /\ refresh'["debounced"].owner = t
               /\ task'[t].pc = "refreshing"
<1>1. running' = FALSE /\ tracked' = IF tracked = t THEN None ELSE tracked
  BY DEF Finish
<1>2. tracked' \in Tasks \union {None}
  BY <1>1 DEF Typed
<1>3. /\ Returning("ended", failed) \in TaskState /\ Returning("ended", failed).pc = "ended"
      /\ Returning("refreshing", failed) \in TaskState
      /\ Returning("refreshing", failed).pc = "refreshing"
  BY ReturningType DEF TaskPC
<1>4. Fetching(t) \in RefreshState /\ Fetching(t).owner = t
  BY FetchingType DEF Fetching, NoRefresh
<1>5. task \in [Tasks -> TaskState] /\ refresh \in [Slots -> RefreshState]
      /\ "direct" \in Slots /\ "debounced" \in Slots /\ "direct" # "debounced"
  BY DEF Typed, Slots
<1>6. CASE task' = [task EXCEPT ![t] = Returning("ended", failed)] /\ UNCHANGED refresh
  BY <1>1, <1>2, <1>3, <1>5, <1>6
<1>7. CASE /\ Refreshable("debounced")
           /\ task' = [task EXCEPT ![t] = Returning("refreshing", failed)]
           /\ refresh' = [refresh EXCEPT !["debounced"] = Fetching(t)]
  BY <1>1, <1>2, <1>3, <1>4, <1>5, <1>7 DEF Refreshable
<1> QED
  BY <1>6, <1>7 DEF Finish

\* The row of failures a task extends is about the task's backup.
LEMMA ExtendedType ==
  ASSUME Typed, NEW t \in Tasks, Checking(t), NEW outcome \in Codes, NEW unrecorded \in BOOLEAN,
         unrecorded => repeated.unrecorded < MaxUnrecorded
  PROVE  LET key == <<task[t].backup, outcome>>
             one == IF task[t].source = "automatic" THEN 1 ELSE 0
             new == Extended(t, outcome, unrecorded)
         IN  /\ new \in [key : Keys, count : Nat, unrecorded : 0..MaxUnrecorded]
             /\ new.key = key /\ key \in Keys
             /\ new.count = (IF key = repeated.key THEN repeated.count ELSE 0) + one
             /\ new.unrecorded = (IF key = repeated.key THEN repeated.unrecorded ELSE 0)
                                 + (IF unrecorded THEN one ELSE 0)
<1> DEFINE key == <<task[t].backup, outcome>>
           one == IF task[t].source = "automatic" THEN 1 ELSE 0
           row == IF key = repeated.key THEN repeated ELSE [NoRow EXCEPT !.key = key]
<1>1. key \in Keys
  <2>1. task[t].backup \in Backups
    BY DEF Typed, TaskState, Listed
  <2> QED
    BY <2>1 DEF Keys
<1>2. /\ row \in [key : Keys, count : Nat, unrecorded : 0..MaxUnrecorded] /\ row.key = key
      /\ row.count = IF key = repeated.key THEN repeated.count ELSE 0
      /\ row.unrecorded = IF key = repeated.key THEN repeated.unrecorded ELSE 0
      /\ unrecorded => row.unrecorded < MaxUnrecorded
  BY <1>1, Bounds DEF Typed, NoRow
<1>3. one \in {0, 1}
  OBVIOUS
<1>4. Extended(t, outcome, unrecorded) =
        [row EXCEPT !.count = row.count + one,
                    !.unrecorded = row.unrecorded + (IF unrecorded THEN one ELSE 0)]
  BY DEF Extended
<1> HIDE DEF row, one
<1>5. /\ Extended(t, outcome, unrecorded).key = key
      /\ Extended(t, outcome, unrecorded).count = row.count + one
      /\ Extended(t, outcome, unrecorded).unrecorded =
           row.unrecorded + (IF unrecorded THEN one ELSE 0)
  BY <1>2, <1>4
<1>6. Extended(t, outcome, unrecorded)
        \in [key : Keys, count : Nat, unrecorded : 0..MaxUnrecorded]
  <2>1. row.count + one \in Nat
    BY <1>2, <1>3
  <2>2. row.unrecorded + (IF unrecorded THEN one ELSE 0) \in 0..MaxUnrecorded
    BY <1>2, <1>3, Bounds
  <2> QED
    BY <1>2, <1>4, <2>1, <2>2
<1> QED
  BY <1>1, <1>2, <1>5, <1>6 DEF one

\* Every variable starts in its range, and every step keeps it there.
LEMMA InitTyped == Init => Typed
<1> SUFFICES ASSUME Init PROVE Typed
  OBVIOUS
<1>1. store \in Stored /\ result \in Results /\ retry \in Retry
  BY Fresh DEF Init, Loaded, Stored
<1>2. marker \in Markers
  BY DEF Init, Loaded, Markers
<1>3. repeated = NoRow /\ refresh = [slot \in Slots |-> NoRefresh]
  BY DEF Init, Loaded
<1>4. /\ task \in [Tasks -> TaskState] /\ writes = <<>>
      /\ \A t \in Tasks : ~Checking(t)
  BY Fresh DEF Init, Loaded, Checking, IdleTask
<1>5. /\ newest \in Listed /\ password \in Passwords \union {None} /\ data \in Listed
      /\ edits \in 0..MaxEdits /\ restarts \in 0..MaxRestarts
  BY Bounds, Fresh DEF Init, Loaded
<1>6. running \in BOOLEAN /\ unsaved \in BOOLEAN
  BY DEF Init, Loaded
<1> QED
  BY <1>1, <1>2, <1>3, <1>4, <1>5, <1>6, Fresh DEF Init, Loaded, Typed

\* What a writer hands to the store is a request, and it waits behind the others.
LEMMA QueueType ==
  ASSUME writes \in Seq(Requests), result' \in Results, retry' \in Retry, marker' \in Markers,
         NEW kind \in {"result", "control"}, NEW by \in Tasks \union Slots, Queue(kind, by)
  PROVE  /\ Write(kind, by) \in Requests
         /\ Write(kind, by).kind = kind /\ Write(kind, by).by = by
         /\ Write(kind, by).result = result' /\ Write(kind, by).marker = marker'.value
         /\ Write(kind, by).retry.key = retry'.key
         /\ Write(kind, by).retry.attempts = retry'.attempts
         /\ writes' \in Seq(Requests) /\ Len(writes') = Len(writes) + 1
         /\ \A i \in DOMAIN writes : i \in DOMAIN writes' /\ writes'[i] = writes[i]
         /\ \A i \in DOMAIN writes' : i \in DOMAIN writes \/ i = Len(writes')
         /\ writes'[Len(writes')] = Write(kind, by)
<1>1. [retry' EXCEPT !.notBefore = IF @ = "none" THEN "none" ELSE "future"] \in Retry
  BY DEF Retry
<1>2. /\ Write(kind, by) \in Requests
      /\ Write(kind, by).kind = kind /\ Write(kind, by).by = by
      /\ Write(kind, by).result = result' /\ Write(kind, by).marker = marker'.value
      /\ Write(kind, by).retry.key = retry'.key
      /\ Write(kind, by).retry.attempts = retry'.attempts
  BY <1>1 DEF Write, Requests, Markers, Retry
<1> HIDE DEF Write
<1> QED
  BY <1>2, AppendProperties DEF Queue

\* The retry state a result leads to.
LEMMA UpdatedRetryType ==
  ASSUME Typed, NEW r \in Results, Retryable(r) => r.backup \in Backups
  PROVE  /\ UpdatedRetry(r) \in Retry
         /\ Retryable(r) =>
              /\ UpdatedRetry(r).key = <<r.backup, r.outcome>>
              /\ UpdatedRetry(r).attempts >= 1
              /\ UpdatedRetry(r).key = retry.key =>
                   \/ UpdatedRetry(r).attempts = retry.attempts + 1
                   \/ UpdatedRetry(r).attempts = RetryLimit
<1>1. CASE ~Retryable(r)
  BY <1>1, Fresh DEF UpdatedRetry
<1>2. CASE Retryable(r)
  <2>1. <<r.backup, r.outcome>> \in Keys
    BY <1>2 DEF Retryable, Keys
  <2>2. retry.attempts \in 0..RetryLimit
    BY DEF Typed, Retry
  <2> DEFINE n == IF <<r.backup, r.outcome>> = retry.key THEN retry.attempts + 1 ELSE 1
             m == IF n > RetryLimit THEN RetryLimit ELSE n
  <2>3. UpdatedRetry(r) = [key |-> <<r.backup, r.outcome>>, notBefore |-> "future",
                           attempts |-> m]
    BY <1>2 DEF UpdatedRetry
  <2>4. /\ m \in 0..RetryLimit /\ m >= 1
        /\ <<r.backup, r.outcome>> = retry.key => m = retry.attempts + 1 \/ m = RetryLimit
    BY <2>2, Bounds
  <2> HIDE DEF m
  <2> QED
    BY <2>1, <2>3, <2>4 DEF Retry
<1> QED
  BY <1>1, <1>2

\* What publishing a result does to the types.
LEMMA PublishType ==
  ASSUME Typed, NEW t \in Tasks, NEW outcome \in {"settled", "password"} \union Codes,
         NEW next \in {"save", "fail_save"}, Publish(t, outcome, next)
  PROVE  /\ result' = [backup |-> task[t].backup, outcome |-> outcome] /\ result' \in Results
         /\ task[t].pc \in {"verify", "runtime"} /\ task[t].backup \in Backups
         /\ retry' = UpdatedRetry(result') /\ retry' \in Retry
         /\ repeated' = IF Retryable(result') THEN Extended(t, outcome, FALSE) ELSE NoRow
         /\ task' = [task EXCEPT ![t].pc = next] /\ task' \in [Tasks -> TaskState]
         /\ UNCHANGED <<outside, data, marker, running, tracked, refresh, store, stopping,
                        restarts, unsaved>>
         /\ Queue("result", t)
         /\ \A u \in Tasks : task'[u].backup = task[u].backup
         /\ \A u \in Tasks : u # t => task'[u] = task[u]
         /\ task'[t].pc = next
<1>1. /\ result' = [backup |-> task[t].backup, outcome |-> outcome]
      /\ task[t].pc \in {"verify", "runtime"}
      /\ retry' = UpdatedRetry(result')
      /\ repeated' = IF Retryable(result') THEN Extended(t, outcome, FALSE) ELSE NoRow
      /\ task' = [task EXCEPT ![t].pc = next]
      /\ UNCHANGED <<outside, data, marker, running, tracked, refresh, store, stopping,
                     restarts, unsaved>>
      /\ Queue("result", t)
  BY Zenon DEF Publish
<1>2. task[t].backup \in Backups
  BY <1>1 DEF Typed, Checking, TaskState, Listed
<1>3. result' \in Results
  BY <1>1, <1>2 DEF Results, Outcomes, Listed
<1>4. retry' \in Retry
  BY <1>1, <1>2, <1>3, UpdatedRetryType
<1>5. /\ task' \in [Tasks -> TaskState] /\ task'[t].pc = next
      /\ \A u \in Tasks : task'[u].backup = task[u].backup
      /\ \A u \in Tasks : u # t => task'[u] = task[u]
  BY <1>1 DEF Typed, TaskState, TaskPC
<1> QED
  BY <1>1, <1>2, <1>3, <1>4, <1>5

\* What the end of the wait for the store does to the types.
LEMMA ServedType ==
  ASSUME Typed, Served
  PROVE  /\ writes # <<>> /\ writes' = Tail(writes) /\ writes' \in Seq(Requests)
         /\ Len(writes') = Len(writes) - 1
         /\ \A i \in 1..Len(writes') : writes'[i] = writes[i + 1]
         /\ Head(writes) = writes[1] /\ 1 \in DOMAIN writes /\ writes[1] \in Requests
         /\ refresh' \in [Slots -> RefreshState]
         /\ \A slot \in Slots : /\ refresh'[slot].owner = refresh[slot].owner
                                /\ slot # writes[1].by => refresh'[slot] = refresh[slot]
<1>1. writes # <<>> /\ writes' = Tail(writes)
  BY DEF Served
<1>2. /\ writes' \in Seq(Requests) /\ Len(writes') = Len(writes) - 1
      /\ \A i \in 1..Len(writes') : writes'[i] = writes[i + 1]
  BY <1>1, HeadTailProperties DEF Typed
<1>3. Head(writes) = writes[1] /\ 1 \in DOMAIN writes /\ writes[1] \in Requests
  BY <1>1 DEF Typed
<1>4. refresh' = IF writes[1].by \in Slots
                 THEN [refresh EXCEPT ![writes[1].by].pc = "build"] ELSE refresh
  BY <1>3, Zenon DEF Served
<1>5. /\ refresh' \in [Slots -> RefreshState]
      /\ \A slot \in Slots : /\ refresh'[slot].owner = refresh[slot].owner
                             /\ slot # writes[1].by => refresh'[slot] = refresh[slot]
  BY <1>4 DEF Typed, RefreshState, RefreshPC
<1> QED
  BY <1>1, <1>2, <1>3, <1>5

\* What a refresh that has read the inventory does.
LEMMA FetchedType ==
  ASSUME Typed, NEW slot \in Slots, RefreshFetched(slot)
  PROVE  /\ refresh[slot].pc = "fetch"
         /\ marker' = [value |-> password, known |-> TRUE] /\ marker' \in Markers
         /\ UNCHANGED <<outside, data, result, retry, running, tracked, task, store, stopping,
                        restarts, history>>
         /\ refresh' \in [Slots -> RefreshState]
         /\ \A other \in Slots : /\ refresh'[other].owner = refresh[other].owner
                                 /\ other # slot => refresh'[other] = refresh[other]
         /\ \/ UNCHANGED writes /\ marker.known /\ marker.value = password
            \/ Queue("control", slot) /\ refresh'[slot].pc = "persist"
<1> DEFINE put == ~marker.known \/ password # marker.value
<1>1. /\ refresh[slot].pc = "fetch"
      /\ marker' = [value |-> password, known |-> TRUE]
      /\ UNCHANGED <<outside, data, result, retry, running, tracked, task, store, stopping,
                     restarts, history>>
      /\ refresh' = [refresh EXCEPT ![slot] =
               [refresh[slot] EXCEPT !.pc = IF put THEN "persist" ELSE "build",
                  !.latest = newest, !.changed = marker.known /\ password # marker.value]]
      /\ IF put THEN Queue("control", slot) ELSE UNCHANGED writes
  BY DEF RefreshFetched
<1>2. marker' \in Markers
  BY <1>1 DEF Markers, Typed
<1>3. (marker.known /\ password # marker.value) \in BOOLEAN /\ newest \in Listed
  BY DEF Typed
<1> DEFINE pc == IF put THEN "persist" ELSE "build"
           changed == marker.known /\ password # marker.value
           new == [refresh[slot] EXCEPT !.pc = pc, !.latest = newest, !.changed = changed]
<1>4. /\ refresh' \in [Slots -> RefreshState]
      /\ \A other \in Slots : /\ refresh'[other].owner = refresh[other].owner
                              /\ other # slot => refresh'[other] = refresh[other]
      /\ put => refresh'[slot].pc = "persist"
  <2>1. refresh \in [Slots -> RefreshState] /\ refresh[slot] \in RefreshState
    BY DEF Typed
  <2>2. refresh' = [refresh EXCEPT ![slot] = new]
    BY <1>1
  <2>3. pc \in RefreshPC /\ changed \in BOOLEAN /\ (put => pc = "persist")
    BY <1>3 DEF RefreshPC
  <2>4. new \in RefreshState /\ new.owner = refresh[slot].owner /\ new.pc = pc
    <3> HIDE DEF put, pc, changed
    <3> QED
      BY <1>3, <2>1, <2>3 DEF RefreshState
  <2> HIDE DEF new, put, pc, changed
  <2> QED
    BY <2>1, <2>2, <2>3, <2>4
<1>5. CASE put
  BY <1>1, <1>2, <1>4, <1>5
<1>6. CASE ~put
  BY <1>1, <1>2, <1>4, <1>6
<1> QED
  BY <1>5, <1>6

\* What the end of a refresh does: a new check, or none.
LEMMA DoneType ==
  ASSUME Typed, NEW slot \in Slots, NEW busy \in BOOLEAN, RefreshDone(slot, busy)
  PROVE  /\ refresh[slot].pc = "build" /\ refresh[slot].latest \in Listed
         /\ data' = refresh[slot].latest /\ refresh' = [refresh EXCEPT ![slot] = NoRefresh]
         /\ UNCHANGED <<outside, control, running, store, writes, stopping, restarts, history>>
         /\ \/ /\ task' = OwnerReturned(task, slot)
               /\ UNCHANGED tracked
            \/ /\ Due(refresh[slot].latest, refresh[slot].changed) /\ ~PendingOrRunning
               /\ Track(OwnerReturned(task, slot), refresh[slot].latest, "automatic")
<1>1. refresh[slot].latest \in Listed
  BY DEF Typed, RefreshState
<1>2. /\ refresh[slot].pc = "build"
      /\ data' = refresh[slot].latest /\ refresh' = [refresh EXCEPT ![slot] = NoRefresh]
      /\ UNCHANGED <<outside, control, running, store, writes, stopping, restarts, history>>
  BY DEF RefreshDone, history
<1>3. \/ /\ task' = OwnerReturned(task, slot)
         /\ UNCHANGED tracked
      \/ /\ Due(refresh[slot].latest, refresh[slot].changed) /\ ~PendingOrRunning
         /\ Track(OwnerReturned(task, slot), refresh[slot].latest, "automatic")
  BY Zenon DEF RefreshDone
<1> QED
  BY <1>1, <1>2, <1>3

\* How a shutdown goes on: the debouncer's refresh may be dropped.
LEMMA StoppedType ==
  ASSUME Typed, Stopped
  PROVE  /\ stopping' = "stopped" /\ refresh' \in [Slots -> RefreshState]
         /\ refresh'["direct"] = refresh["direct"]
         /\ writes' \in Seq(Requests) /\ unsaved' \in BOOLEAN
         /\ \/ UNCHANGED <<refresh, writes, unsaved>>
            \/ /\ refresh'["debounced"] = NoRefresh /\ Withdraw("debounced")
               /\ unsaved' = (unsaved \/ Waiting("debounced"))
<1>1. stopping' = "stopped"
  BY DEF Stopped
<1>2. CASE UNCHANGED <<refresh, writes, unsaved>>
  BY <1>1, <1>2 DEF Typed
<1>3. CASE /\ refresh' = [refresh EXCEPT !["debounced"] = NoRefresh] /\ Withdraw("debounced")
           /\ unsaved' = (unsaved \/ Waiting("debounced"))
  <2>1. /\ refresh' \in [Slots -> RefreshState] /\ refresh'["direct"] = refresh["direct"]
        /\ refresh'["debounced"] = NoRefresh
    BY <1>3, Fresh DEF Typed, Slots
  <2>2. writes' \in Seq(Requests)
    BY <1>3, WithdrawProperties DEF Typed
  <2>3. unsaved' \in BOOLEAN
    BY <1>3, Zenon
  <2> QED
    BY <1>1, <1>3, <2>1, <2>2, <2>3
<1> QED
  BY <1>2, <1>3, Zenon DEF Stopped

\* A result that is published has its type, and so has what it leads to.
LEMMA PublishTyped ==
  ASSUME Typed, NEW t \in Tasks, TaskVerified(t) \/ TaskRaised(t)
  PROVE  Typed'
<1>1. PICK outcome \in {"settled", "password"} \union Codes, next \in {"save", "fail_save"} :
        Publish(t, outcome, next)
  BY Bounds DEF TaskVerified, TaskRaised
<1>2. /\ result' = [backup |-> task[t].backup, outcome |-> outcome] /\ result' \in Results
      /\ task[t].pc \in {"verify", "runtime"} /\ task[t].backup \in Backups
      /\ retry' \in Retry
      /\ repeated' = IF Retryable(result') THEN Extended(t, outcome, FALSE) ELSE NoRow
      /\ task' \in [Tasks -> TaskState]
      /\ UNCHANGED <<outside, data, marker, running, tracked, refresh, store, stopping,
                     restarts, unsaved>>
      /\ Queue("result", t)
      /\ \A u \in Tasks : u # t => task'[u] = task[u]
      /\ task'[t].pc = next
  BY <1>1, PublishType
<1>5. writes' \in Seq(Requests)
  BY <1>2, QueueType DEF Typed
<1>3. repeated' \in [key : Keys, count : Nat, unrecorded : 0..MaxUnrecorded]
  <2>1. Checking(t) /\ (Retryable(result') => outcome \in Codes)
    BY <1>2 DEF Retryable, Checking
  <2> QED
    BY <1>2, <2>1, ExtendedType, Fresh
<1>4. \A u \in Tasks : Checking(u)' => task'[u].backup # None
  BY <1>2 DEF Checking, Typed
<1> QED
  BY <1>2, <1>3, <1>4, <1>5 DEF Typed, outside

\* Every step keeps every variable in its range.
LEMMA TypedStep == Typed /\ [Next]_vars => Typed'
<1> SUFFICES ASSUME Typed, [Next]_vars PROVE Typed'
  OBVIOUS
<1> USE DEF Typed, outside, control, history
<1>1. CASE Restart
  <2>1. store' \in Stored
    BY <1>1, AppliedType, HeadTailProperties DEF Restart
  <2>2. marker' \in Markers /\ result' \in Results /\ retry' \in Retry
    BY <1>1, <2>1 DEF Restart, Stored, Markers
  <2>3. repeated' = NoRow /\ refresh' = [slot \in Slots |-> NoRefresh]
    BY <1>1 DEF Restart
  <2>4. /\ task' \in [Tasks -> TaskState] /\ writes' = <<>>
        /\ \A t \in Tasks : ~Checking(t)'
        /\ UNCHANGED <<newest, password, edits>> /\ data' = None /\ tracked' = None
        /\ stopping' = "no" /\ running' = FALSE /\ unsaved' = FALSE
    BY <1>1, Fresh DEF Restart, Checking, IdleTask
  <2>5. restarts' \in 0..MaxRestarts
    BY <1>1, Bounds DEF Restart
  <2> QED
    BY <2>1, <2>2, <2>3, <2>4, <2>5, Fresh
<1>2. CASE Outside
  <2>1. CASE NewestChanges \/ PasswordChanges
    <3>1. newest' \in Listed /\ password' \in Passwords \union {None} /\ edits' \in 0..MaxEdits
      BY <2>1, Bounds DEF NewestChanges, PasswordChanges
    <3> QED
      BY <2>1, <3>1 DEF NewestChanges, PasswordChanges, Checking
  <2>2. CASE RetryTimeComes
    <3>1. retry' \in Retry
      BY <2>2 DEF RetryTimeComes, Retry
    <3> QED
      BY <2>2, <3>1 DEF RetryTimeComes, Checking
  <2> QED
    BY <1>2, <2>1, <2>2 DEF Outside
<1>3. ASSUME NEW slot \in Slots, RefreshBegin(slot) \/ RefreshFailed(slot) PROVE Typed'
  <2>1. CASE RefreshBegin(slot)
    BY <2>1, FetchingType DEF RefreshBegin, Checking
  <2>2. CASE RefreshFailed(slot)
    <3>1. /\ task' \in [Tasks -> TaskState]
          /\ \A t \in Tasks : Checking(t)' => Checking(t) /\ task'[t] = task[t]
      BY <2>2, OwnerReturnedType DEF RefreshFailed, Checking
    <3>2. refresh' \in [Slots -> RefreshState]
      BY <2>2, Fresh DEF RefreshFailed
    <3> QED
      BY <2>2, <3>1, <3>2 DEF RefreshFailed
  <2> QED
    BY <1>3, <2>1, <2>2
<1>4. ASSUME NEW slot \in Slots, RefreshFetched(slot) PROVE Typed'
  <2>1. /\ marker' \in Markers /\ refresh' \in [Slots -> RefreshState]
        /\ UNCHANGED <<outside, data, result, retry, running, tracked, task, store, stopping,
                       restarts, history>>
        /\ UNCHANGED writes \/ Queue("control", slot)
    BY <1>4, FetchedType
  <2>2. writes' \in Seq(Requests)
    BY <2>1, QueueType
  <2> QED
    BY <2>1, <2>2 DEF Checking
<1>5. ASSUME NEW slot \in Slots, NEW busy \in BOOLEAN, RefreshDone(slot, busy) PROVE Typed'
  <2> DEFINE returned == OwnerReturned(task, slot)
  <2>1. /\ refresh[slot].latest \in Listed /\ data' = refresh[slot].latest
        /\ refresh' = [refresh EXCEPT ![slot] = NoRefresh]
        /\ UNCHANGED <<outside, control, running, store, writes, stopping, restarts, history>>
        /\ \/ task' = returned /\ UNCHANGED tracked
           \/ /\ Due(refresh[slot].latest, refresh[slot].changed)
              /\ Track(returned, refresh[slot].latest, "automatic")
    BY <1>5, DoneType
  <2>2. /\ returned \in [Tasks -> TaskState]
        /\ \A t \in Tasks : returned[t] = task[t] \/ returned[t].pc = "ended"
    BY OwnerReturnedType
  <2>3. /\ task' \in [Tasks -> TaskState] /\ tracked' \in Tasks \union {None}
        /\ \A t \in Tasks : Checking(t)' => task'[t].backup # None
    <3>1. CASE task' = returned /\ UNCHANGED tracked
      BY <2>2, <3>1 DEF Checking
    <3>2. CASE /\ Due(refresh[slot].latest, refresh[slot].changed)
               /\ Track(returned, refresh[slot].latest, "automatic")
      <4>1. refresh[slot].latest # None
        BY <3>2 DEF Due
      <4> HIDE DEF returned
      <4> QED
        BY <2>1, <2>2, <3>2, <4>1, TrackType DEF Checking
    <3> QED
      BY <2>1, <3>1, <3>2
  <2>4. refresh' \in [Slots -> RefreshState]
    BY <2>1, Fresh
  <2> QED
    BY <2>1, <2>3, <2>4
<1>6. CASE ManualStart
  <2>1. data # None /\ Track(task, data, "manual")
        /\ UNCHANGED <<outside, data, control, running, refresh, store, writes, stopping,
                       restarts, history>>
    BY <1>6 DEF ManualStart
  <2>2. /\ task' \in [Tasks -> TaskState] /\ tracked' \in Tasks
        /\ \A t \in Tasks : Checking(t)' => task'[t].backup # None
    BY <2>1, TrackType DEF Checking
  <2> QED
    BY <2>1, <2>2
<1>7. ASSUME NEW t \in Tasks, TaskStart(t) \/ TaskFinish(t) \/ TaskCallback(t) PROVE Typed'
  <2>1. CASE TaskStart(t)
    <3>1. Returning("ended", FALSE) \in TaskState /\ Returning("ended", FALSE).pc = "ended"
      BY ReturningType DEF TaskPC
    <3>2. /\ [task[t] EXCEPT !.pc = "verify"] \in TaskState
          /\ [task[t] EXCEPT !.pc = "verify"].backup = task[t].backup
      BY DEF TaskState, TaskPC
    <3>3. /\ task' = [task EXCEPT ![t] = IF running THEN Returning("ended", FALSE)
                                         ELSE [task[t] EXCEPT !.pc = "verify"]]
          /\ Checking(t)
      BY <2>1 DEF TaskStart, Checking
    <3>4. /\ task' \in [Tasks -> TaskState]
          /\ \A u \in Tasks : Checking(u)' => task'[u].backup # None
      BY <3>1, <3>2, <3>3 DEF Checking
    <3> QED
      BY <2>1, <3>4 DEF TaskStart
  <2>2. CASE TaskFinish(t)
    <3>1. /\ Finish(t, FALSE, FALSE)
          /\ UNCHANGED <<outside, data, control, store, writes, stopping, restarts, history>>
      BY <2>2 DEF TaskFinish
    <3>2. /\ running' \in BOOLEAN /\ tracked' \in Tasks \union {None}
          /\ task' \in [Tasks -> TaskState] /\ refresh' \in [Slots -> RefreshState]
          /\ \A u \in Tasks : Checking(u)' => Checking(u) /\ task'[u] = task[u]
      BY <3>1, FinishType DEF Checking
    <3> QED
      BY <3>1, <3>2
  <2>3. CASE TaskCallback(t)
    <3>1. running' \in BOOLEAN
      BY <2>3, Zenon DEF TaskCallback
    <3> QED
      BY <2>3, <3>1, Fresh DEF TaskCallback, Checking, IdleTask
  <2> QED
    BY <1>7, <2>1, <2>2, <2>3
<1>8. ASSUME NEW t \in Tasks, TaskVerified(t) \/ TaskRaised(t) PROVE Typed'
  BY <1>8, PublishTyped
<1>9. ASSUME NEW t \in Tasks, TaskShowsVerdict(t) PROVE Typed'
  <2>1. result' \in Results
    BY <1>9 DEF TaskShowsVerdict, Results, Outcomes, TaskState
  <2>2. /\ task' \in [Tasks -> TaskState]
        /\ \A u \in Tasks : Checking(u)' => Checking(u) /\ task'[u].backup = task[u].backup
    BY <1>9 DEF TaskShowsVerdict, TaskState, TaskPC, Checking
  <2> QED
    BY <1>9, <2>1, <2>2, Fresh DEF TaskShowsVerdict
<1>10. ASSUME NEW t \in Tasks, FailureHandlerRaised(t) PROVE Typed'
  <2>1. result' \in Results /\ retry' \in Retry
    BY <1>9, <1>10, Bounds DEF FailureHandlerRaised, Results, Outcomes, Retry, TaskState
  <2>2. repeated' \in [key : Keys, count : Nat, unrecorded : 0..MaxUnrecorded]
    <3>1. /\ Checking(t) /\ repeated.unrecorded < MaxUnrecorded
          /\ repeated' = Extended(t, InternalError, TRUE)
      BY <1>10 DEF FailureHandlerRaised, Checking
    <3> QED
      BY <3>1, ExtendedType, Bounds
  <2>3. Finish(t, FALSE, TRUE)
        /\ UNCHANGED <<outside, data, marker, store, writes, stopping, restarts>>
    BY <1>10 DEF FailureHandlerRaised
  <2>4. unsaved' = TRUE
    BY <1>10 DEF FailureHandlerRaised
  <2> QED
    BY <2>1, <2>2, <2>3, <2>4, FinishType DEF Checking
<1>11. ASSUME NEW t \in Tasks, TaskCancelled(t) PROVE Typed'
  <2>1. writes' \in Seq(Requests)
    BY <1>11, WithdrawProperties DEF TaskCancelled
  <2>2. store' \in Stored
    BY <1>11, AppliedType DEF TaskCancelled
  <2>3. /\ running' \in BOOLEAN /\ tracked' \in Tasks \union {None}
        /\ task' \in [Tasks -> TaskState] /\ refresh' \in [Slots -> RefreshState]
        /\ \A u \in Tasks : Checking(u)' => Checking(u) /\ task'[u] = task[u]
    <3>1. CASE /\ task' = [task EXCEPT ![t] = Returning("ended", FALSE)]
               /\ UNCHANGED <<running, tracked, refresh>>
      BY <3>1, ReturningType DEF TaskPC, Checking
    <3>2. CASE Finish(t, task[t].pc # "fail_save", FALSE)
      <4>1. (task[t].pc # "fail_save") \in BOOLEAN
        OBVIOUS
      <4> QED
        BY <3>2, <4>1, FinishType DEF Checking
    <3> QED
      BY <1>11, <3>1, <3>2 DEF TaskCancelled
  <2>4. unsaved' \in BOOLEAN
    BY <1>11, Zenon DEF TaskCancelled
  <2> QED
    BY <1>11, <2>1, <2>2, <2>3, <2>4 DEF TaskCancelled
<1>12. CASE Storing
  <2>1. CASE WriteDone
    <3>1. store' \in Stored
      BY <2>1, ServedType, AppliedType DEF WriteDone
    <3> QED
      BY <2>1, <3>1, ServedType DEF WriteDone, Checking
  <2>2. CASE WriteFailed
    <3>1. retry' \in Retry
      BY <2>2 DEF WriteFailed, Retry
    <3> QED
      BY <2>2, <3>1, ServedType DEF WriteFailed, Checking
  <2> QED
    BY <1>12, <2>1, <2>2 DEF Storing
<1>13. CASE Stopping
  <2>1. CASE ShutdownBegin
    <3>1. CASE tracked # None /\ Live(tracked)
      <4>1. /\ task' = [task EXCEPT ![tracked].cancelling = TRUE]
            /\ task' \in [Tasks -> TaskState]
            /\ \A u \in Tasks : task'[u].pc = task[u].pc /\ task'[u].backup = task[u].backup
        <5>1. task' = [task EXCEPT ![tracked].cancelling = TRUE] /\ tracked \in Tasks
          BY <2>1, <3>1 DEF ShutdownBegin
        <5> QED
          BY <5>1 DEF TaskState
      <4> QED
        BY <2>1, <3>1, <4>1 DEF ShutdownBegin, Checking
    <3>2. CASE ~ (tracked # None /\ Live(tracked))
      BY <2>1, <3>2, StoppedType DEF ShutdownBegin, Checking
    <3> QED
      BY <3>1, <3>2
  <2>2. CASE ShutdownEnd
    BY <2>2, StoppedType DEF ShutdownEnd, Checking
  <2> QED
    BY <1>13, <2>1, <2>2 DEF Stopping
<1>14. CASE UNCHANGED vars
  BY <1>14 DEF vars, Checking
<1> QED
  BY <1>1, <1>2, <1>3, <1>4, <1>5, <1>6, <1>7, <1>8, <1>9, <1>10, <1>11, <1>12, <1>13, <1>14
     DEF Next, Refreshing, RefreshStep, TaskStep

-----------------------------------------------------------------------------
(* One worker *)

\* Handing a refresh back takes no work away and gives none.
LEMMA OwnerReturnedWork ==
  ASSUME Typed, OwnerWaits, NEW slot \in Slots, NEW t \in Tasks
  PROVE  \/ OwnerReturned(task, slot)[t] = task[t]
         \/ /\ refresh[slot].owner = t /\ slot = "debounced"
            /\ task[t].pc = "refreshing"
            /\ OwnerReturned(task, slot)[t].pc = "ended"
<1>1. \/ OwnerReturned(task, slot)[t] = task[t]
      \/ refresh[slot].owner = t /\ OwnerReturned(task, slot)[t].pc = "ended"
  BY OwnerReturnedType
<1> QED
  BY <1>1, Bounds DEF OwnerWaits, Slots

\* A new task is the only one with work to do.
LEMMA TrackWork ==
  ASSUME Typed, OneWorker, OwnerWaits, ~PendingOrRunning, NEW slot \in Slots,
         NEW tasks \in {task, OwnerReturned(task, slot)}, NEW backup \in Listed,
         NEW source \in {"automatic", "manual"}, Track(tasks, backup, source)
  PROVE  /\ \A u \in Tasks : ~Working(u)
         /\ \E t \in Tasks :
              /\ tracked' = t
              /\ task'[t].pc = "queued" /\ task'[t].backup = backup /\ task'[t].source = source
              /\ \A u \in Tasks : u # t => task'[u] = tasks[u] /\ ~Working(u)'
<1>1. \A u \in Tasks : ~Working(u)
  BY Bounds DEF OneWorker, PendingOrRunning, Working, Live
<1>2. tasks \in [Tasks -> TaskState]
  BY OwnerReturnedType DEF Typed
<1>3. PICK t \in Tasks :
        /\ tracked' = t
        /\ task'[t].pc = "queued" /\ task'[t].backup = backup /\ task'[t].source = source
        /\ \A u \in Tasks : u # t => task'[u] = tasks[u]
  BY <1>2, TrackType
<1>4. \A u \in Tasks : tasks[u] = task[u] \/ tasks[u].pc = "ended"
  BY OwnerReturnedWork
<1>5. \A u \in Tasks : u # t => ~Working(u)'
  BY <1>1, <1>3, <1>4 DEF Working
<1> QED
  BY <1>1, <1>3, <1>5

\* A task that has work to do is the one the coordinator refers to.
LEMMA WorkerStep == Typed /\ OneWorker /\ OwnerWaits /\ [Next]_vars => OneWorker' /\ OwnerWaits'
<1> SUFFICES ASSUME Typed, OneWorker, OwnerWaits, [Next]_vars
             PROVE  OneWorker' /\ OwnerWaits'
  OBVIOUS
<1> USE DEF OneWorker
<1>0. "direct" \in Slots /\ "debounced" \in Slots /\ "direct" # "debounced"
      /\ refresh \in [Slots -> RefreshState]
  BY DEF Slots, Typed
<1>1. CASE Restart
  BY <1>0, <1>1, Bounds DEF Restart, Working, IdleTask, NoRefresh, OwnerWaits
<1>2. CASE UNCHANGED <<tracked, task>> /\ \A slot \in Slots : refresh'[slot].owner \in {None, refresh[slot].owner}
  BY <1>0, <1>2, Bounds DEF Working, OwnerWaits
<1>3. CASE Outside \/ UNCHANGED vars
  <2>1. UNCHANGED <<tracked, task, refresh>>
    BY <1>3 DEF Outside, NewestChanges, PasswordChanges, RetryTimeComes, vars
  <2> QED
    BY <1>2, <2>1
<1>4. CASE Storing
  <2>1. UNCHANGED <<tracked, task>> /\ Served
    BY <1>4 DEF Storing, WriteDone, WriteFailed
  <2> QED
    BY <1>2, <2>1, ServedType
<1>5. ASSUME NEW slot \in Slots, RefreshBegin(slot) \/ RefreshFetched(slot)
      PROVE  OneWorker' /\ OwnerWaits'
  <2>1. CASE RefreshBegin(slot)
    BY <1>0, <1>2, <2>1 DEF RefreshBegin, Fetching, NoRefresh
  <2>2. CASE RefreshFetched(slot)
    BY <1>2, <2>2, FetchedType
  <2> QED
    BY <1>5, <2>1, <2>2
<1>6. ASSUME NEW slot \in Slots, UNCHANGED tracked, task' = OwnerReturned(task, slot),
             refresh' = [refresh EXCEPT ![slot] = NoRefresh]
      PROVE  OneWorker' /\ OwnerWaits'
  <2>1. \A t \in Tasks : Working(t)' => Working(t)
    BY <1>6, OwnerReturnedWork DEF Working
  <2>2. OwnerWaits'
    <3>1. CASE slot = "debounced"
      BY <1>0, <1>6, <3>1, Bounds DEF OwnerWaits, NoRefresh
    <3>2. CASE slot = "direct"
      BY <1>0, <1>6, <3>2, OwnerReturnedWork, Bounds DEF OwnerWaits, NoRefresh
    <3> QED
      BY <3>1, <3>2 DEF Slots
  <2> QED
    BY <1>6, <2>1, <2>2
<1>7. ASSUME NEW slot \in Slots, RefreshFailed(slot) PROVE OneWorker' /\ OwnerWaits'
  BY <1>6, <1>7 DEF RefreshFailed
<1>8. ASSUME NEW slot \in Slots, NEW busy \in BOOLEAN, RefreshDone(slot, busy)
      PROVE  OneWorker' /\ OwnerWaits'
  <2> DEFINE latest == refresh[slot].latest
  <2>1. /\ refresh' = [refresh EXCEPT ![slot] = NoRefresh] /\ latest \in Listed
        /\ \/ task' = OwnerReturned(task, slot) /\ UNCHANGED tracked
           \/ ~PendingOrRunning /\ Track(OwnerReturned(task, slot), latest, "automatic")
    BY <1>8, DoneType
  <2>2. CASE task' = OwnerReturned(task, slot) /\ UNCHANGED tracked
    BY <1>6, <2>1, <2>2
  <2>3. CASE ~PendingOrRunning /\ Track(OwnerReturned(task, slot), latest, "automatic")
    <3>1. PICK t \in Tasks :
            /\ \A u \in Tasks : ~Working(u)
            /\ tracked' = t /\ task'[t].pc = "queued"
            /\ \A u \in Tasks : u # t => task'[u] = OwnerReturned(task, slot)[u] /\ ~Working(u)'
      <4> HIDE DEF latest
      <4> QED
        BY <2>1, <2>3, TrackWork
    <3>2. task[t].pc = "idle"
      BY <2>3, <3>1, OwnerReturnedType, Bounds DEF Track
    <3>3. OwnerWaits'
      <4>1. CASE slot = "debounced"
        BY <1>0, <2>1, <4>1, Bounds DEF OwnerWaits, NoRefresh
      <4>2. CASE slot = "direct"
        <5>1. refresh'["debounced"] = refresh["debounced"] /\ refresh'["direct"].owner = None
          BY <1>0, <2>1, <4>2 DEF NoRefresh
        <5>2. ASSUME NEW u \in Tasks, refresh["debounced"].owner = u
              PROVE  task'[u].pc = "refreshing"
          BY <3>1, <3>2, <4>2, <5>2, OwnerReturnedWork DEF OwnerWaits
        <5> QED
          BY <5>1, <5>2 DEF OwnerWaits
      <4> QED
        BY <4>1, <4>2 DEF Slots
    <3> QED
      BY <3>1, <3>3
  <2> QED
    BY <2>1, <2>2, <2>3
<1>9. CASE ManualStart
  <2>1. /\ ~PendingOrRunning /\ Track(task, data, "manual") /\ UNCHANGED refresh
        /\ data \in Listed
    BY <1>9 DEF ManualStart, Typed
  <2>2. PICK t \in Tasks :
          /\ tracked' = t /\ task'[t].pc = "queued"
          /\ \A u \in Tasks : u # t => task'[u] = task[u] /\ ~Working(u)'
    BY <1>0, <2>1, TrackWork
  <2>3. task[t].pc = "idle"
    BY <2>1, <2>2, Bounds DEF Track
  <2> QED
    BY <2>1, <2>2, <2>3 DEF OwnerWaits
<1>10. ASSUME NEW t \in Tasks,
              TaskStart(t) \/ TaskShowsVerdict(t) \/ TaskVerified(t) \/ TaskRaised(t)
      PROVE  OneWorker' /\ OwnerWaits'
  <2>1. /\ UNCHANGED <<tracked, refresh>> /\ Working(t) /\ task[t].pc # "refreshing"
        /\ \A u \in Tasks : u # t => task'[u] = task[u]
    BY <1>10 DEF TaskStart, TaskShowsVerdict, TaskVerified, TaskRaised, Publish, Typed, Working
  <2> QED
    BY <2>1 DEF Working, OwnerWaits
<1>11. ASSUME NEW t \in Tasks, TaskFinish(t) \/ FailureHandlerRaised(t) \/ TaskCancelled(t)
      PROVE  OneWorker' /\ OwnerWaits'
  <2>1. CASE \E cancelled, failed \in BOOLEAN : Working(t) /\ Finish(t, cancelled, failed)
    <3>1. PICK cancelled, failed \in BOOLEAN : Working(t) /\ Finish(t, cancelled, failed)
      BY <2>1
    <3> QED
      BY <3>1, FinishType, Bounds DEF Working, OwnerWaits
  <2>2. CASE task[t].pc = "queued" /\ task' = [task EXCEPT ![t] = Returning("ended", FALSE)]
             /\ UNCHANGED <<tracked, refresh>>
    BY <2>2 DEF Typed, Returning, IdleTask, Working, OwnerWaits
  <2> QED
    BY <1>11, <2>1, <2>2, Zenon
       DEF TaskFinish, FailureHandlerRaised, TaskCancelled, InFlight, Working
<1>12. ASSUME NEW t \in Tasks, TaskCallback(t)
      PROVE  OneWorker' /\ OwnerWaits'
  BY <1>12 DEF TaskCallback, Typed, IdleTask, Working, OwnerWaits
<1>13. CASE Stopping
  <2>1. UNCHANGED tracked /\ \A u \in Tasks : task'[u].pc = task[u].pc
    BY <1>13 DEF Stopping, ShutdownBegin, ShutdownEnd, Typed, TaskState
  <2>2. \/ UNCHANGED refresh
        \/ refresh'["direct"] = refresh["direct"] /\ refresh'["debounced"] = NoRefresh
    BY <1>0, <1>13 DEF Stopping, ShutdownBegin, ShutdownEnd, Stopped
  <2> QED
    BY <2>1, <2>2, Bounds DEF Working, NoRefresh, OwnerWaits
<1> QED
  BY <1>1, <1>3, <1>4, <1>5, <1>7, <1>8, <1>9, <1>10, <1>11, <1>12, <1>13
     DEF Next, Refreshing, RefreshStep, TaskStep

-----------------------------------------------------------------------------
(* The writers in the queue *)

\* A write in the queue is of a result or of the control data.
LEMMA WriteKinds ==
  ASSUME Typed, NEW i \in DOMAIN writes
  PROVE  writes[i] \in Requests /\ writes[i].kind \in {"result", "control"}
<1>1. writes[i] \in Requests
  BY DEF Typed
<1> QED
  BY <1>1 DEF Requests

\* There is one write of a result at most, and it is the working task's.
LEMMA ResultWriter ==
  ASSUME Typed, OneWorker, Writers, NEW i \in DOMAIN writes, writes[i].kind = "result"
  PROVE  /\ writes[i].by = tracked /\ task[tracked].pc \in {"save", "fail_save"}
         /\ \A j \in DOMAIN writes : writes[j].kind = "result" => j = i
<1>1. ASSUME NEW j \in DOMAIN writes, writes[j].kind = "result"
      PROVE  writes[j].by = tracked /\ task[tracked].pc \in {"save", "fail_save"}
  BY <1>1 DEF Writers, OneWorker, Working
<1> QED
  BY <1>1 DEF Writers

\* The write of a caller that leaves the queue is gone, and the others wait on.
LEMMA WithdrawnWriters ==
  ASSUME Typed, Writers, NEW by, Withdraw(by)
  PROVE  /\ \A k \in DOMAIN writes' :
              \E i \in DOMAIN writes : writes'[k] = writes[i] /\ writes[i].by # by
         /\ \A k, l \in DOMAIN writes' : writes'[k].by = writes'[l].by => k = l
<1> USE DEF Typed
<1>1. CASE ~Waiting(by) /\ UNCHANGED writes
  BY <1>1 DEF Waiting, Writers
<1>2. CASE \E i \in DOMAIN writes : writes[i].by = by /\ writes' = RemoveAt(writes, i)
  <2>1. PICK i \in 1..Len(writes) : writes[i].by = by /\ writes' = RemoveAt(writes, i)
    BY <1>2
  <2>2. /\ writes' \in Seq(Requests) /\ Len(writes') = Len(writes) - 1
        /\ \A j \in 1..(Len(writes) - 1) : writes'[j] = writes[IF j < i THEN j ELSE j + 1]
    BY <2>1, RemoveAtProperties
  <2>3. \A j \in DOMAIN writes : writes[j].by = by => j = i
    BY <2>1 DEF Writers
  <2> DEFINE from(j) == IF j < i THEN j ELSE j + 1
  <2>4. \A j \in DOMAIN writes' : /\ from(j) \in DOMAIN writes /\ from(j) # i
                                  /\ writes'[j] = writes[from(j)]
    BY <2>2
  <2>5. \A k, l \in DOMAIN writes' : k # l => from(k) # from(l)
    BY <2>2
  <2> HIDE DEF from
  <2>6. \A k \in DOMAIN writes' :
          \E j \in DOMAIN writes : writes'[k] = writes[j] /\ writes[j].by # by
    BY <2>3, <2>4
  <2>7. \A k, l \in DOMAIN writes' : writes'[k].by = writes'[l].by => k = l
    BY <2>4, <2>5 DEF Writers
  <2> QED
    BY <2>6, <2>7
<1> QED
  BY <1>1, <1>2 DEF Withdraw

\* Check and refresh each wait for the write they have queued, so that the
\* queue has at most one of each caller.
LEMMA WritersStep ==
  Typed /\ OneWorker /\ OwnerWaits /\ Writers /\ [Next]_vars => Writers'
<1> SUFFICES ASSUME Typed, OneWorker, OwnerWaits, Writers, [Next]_vars PROVE Writers'
  OBVIOUS
<1>0. Typed' /\ "debounced" \in Slots
  BY TypedStep DEF Slots
<1>1. CASE Restart
  BY <1>1 DEF Restart, Writers
<1>2. ASSUME UNCHANGED writes,
             \A slot \in Slots : refresh[slot].pc = "persist" => refresh'[slot].pc = "persist",
             \A t \in Tasks : task[t].pc \in {"save", "fail_save"} /\ Waiting(t)
                                => task'[t].pc \in {"save", "fail_save"}
      PROVE  Writers'
  BY <1>2 DEF Writers, Waiting
<1>3. CASE Outside \/ UNCHANGED vars
  <2>1. UNCHANGED <<task, writes, refresh>>
    BY <1>3 DEF Outside, NewestChanges, PasswordChanges, RetryTimeComes, vars
  <2> QED
    BY <1>2, <2>1
<1>4. ASSUME NEW slot \in Slots, RefreshBegin(slot) PROVE Writers'
  <2>1. UNCHANGED <<task, writes>>
        /\ \A other \in Slots : refresh[other].pc = "persist" => refresh'[other].pc = "persist"
    BY <1>4 DEF RefreshBegin, Refreshable, Typed
  <2> QED
    BY <1>2, <2>1
<1>5. ASSUME NEW slot \in Slots, RefreshFetched(slot) PROVE Writers'
  <2>1. /\ refresh[slot].pc = "fetch" /\ UNCHANGED <<task, result, retry>>
        /\ \A other \in Slots : other # slot => refresh'[other] = refresh[other]
        /\ UNCHANGED writes \/ (Queue("control", slot) /\ refresh'[slot].pc = "persist")
    BY <1>5, FetchedType
  <2>2. CASE UNCHANGED writes
    BY <1>2, <2>1, <2>2
  <2>3. CASE Queue("control", slot) /\ refresh'[slot].pc = "persist"
    <3>1. \A i \in DOMAIN writes : writes[i].by # slot
      BY <2>1, Bounds DEF Writers, Slots
    <3>2. /\ writes' \in Seq(Requests) /\ Len(writes') = Len(writes) + 1
          /\ \A i \in DOMAIN writes : i \in DOMAIN writes' /\ writes'[i] = writes[i]
          /\ \A i \in DOMAIN writes' : i \in DOMAIN writes \/ i = Len(writes')
          /\ writes'[Len(writes')].kind = "control" /\ writes'[Len(writes')].by = slot
      BY <1>0, <2>3, QueueType DEF Typed
    <3> QED
      BY <2>1, <2>3, <3>1, <3>2 DEF Writers
  <2> QED
    BY <2>1, <2>2, <2>3
<1>6. ASSUME NEW slot \in Slots, task' = OwnerReturned(task, slot), UNCHANGED writes,
             refresh[slot].pc # "persist", refresh' = [refresh EXCEPT ![slot] = NoRefresh]
      PROVE  Writers'
  <2>1. \A t \in Tasks : task[t].pc \in {"save", "fail_save"} => task'[t] = task[t]
    BY <1>6, OwnerReturnedWork
  <2>2. \A other \in Slots : refresh[other].pc = "persist" => refresh'[other] = refresh[other]
    BY <1>6 DEF Typed
  <2> QED
    BY <1>2, <1>6, <2>1, <2>2
<1>7. ASSUME NEW slot \in Slots, RefreshFailed(slot) PROVE Writers'
  BY <1>6, <1>7 DEF RefreshFailed
<1>8. ASSUME NEW slot \in Slots, NEW busy \in BOOLEAN, RefreshDone(slot, busy) PROVE Writers'
  <2>1. /\ refresh[slot].pc = "build" /\ refresh[slot].latest \in Listed /\ UNCHANGED writes
        /\ refresh' = [refresh EXCEPT ![slot] = NoRefresh]
        /\ \/ task' = OwnerReturned(task, slot)
           \/ /\ ~PendingOrRunning
              /\ Track(OwnerReturned(task, slot), refresh[slot].latest, "automatic")
    BY <1>8, DoneType
  <2>2. CASE task' = OwnerReturned(task, slot)
    BY <1>6, <2>1, <2>2
  <2>3. CASE /\ ~PendingOrRunning
             /\ Track(OwnerReturned(task, slot), refresh[slot].latest, "automatic")
    <3>1. \A u \in Tasks : ~Working(u)
      BY <2>1, <2>3, TrackWork
    <3>2. \A other \in Slots : refresh[other].pc = "persist" => refresh'[other] = refresh[other]
      BY <2>1 DEF Typed
    <3> QED
      BY <1>2, <2>1, <3>1, <3>2 DEF Working
  <2> QED
    BY <2>1, <2>2, <2>3
<1>9. CASE ManualStart
  <2>1. UNCHANGED <<writes, refresh>> /\ ~PendingOrRunning /\ Track(task, data, "manual")
        /\ data \in Listed
    BY <1>9 DEF ManualStart, Typed
  <2>2. \A u \in Tasks : ~Working(u)
    BY <1>0, <2>1, TrackWork
  <2> QED
    BY <1>2, <2>1, <2>2 DEF Working
<1>10. ASSUME NEW t \in Tasks, TaskStart(t) \/ TaskShowsVerdict(t) \/ TaskCallback(t)
       PROVE  Writers'
  <2>1. /\ UNCHANGED <<writes, refresh>> /\ ~(task[t].pc \in {"save", "fail_save"})
        /\ \A u \in Tasks : u # t => task'[u] = task[u]
    BY <1>10 DEF TaskStart, TaskShowsVerdict, TaskCallback, Typed
  <2> QED
    BY <1>2, <2>1
<1>11. ASSUME NEW t \in Tasks, TaskVerified(t) \/ TaskRaised(t) PROVE Writers'
  <2>1. PICK outcome \in {"settled", "password"} \union Codes, next \in {"save", "fail_save"} :
          Publish(t, outcome, next)
    BY <1>11, Bounds DEF TaskVerified, TaskRaised
  <2>2. /\ task[t].pc \in {"verify", "runtime"} /\ task'[t].pc = next
        /\ \A u \in Tasks : u # t => task'[u] = task[u]
        /\ UNCHANGED refresh /\ Queue("result", t)
    BY <2>1, PublishType
  <2>3. \A i \in DOMAIN writes : writes[i].by # t
    BY <2>2, Bounds DEF Writers, Slots
  <2>4. /\ writes' \in Seq(Requests) /\ Len(writes') = Len(writes) + 1
        /\ \A i \in DOMAIN writes : i \in DOMAIN writes' /\ writes'[i] = writes[i]
        /\ \A i \in DOMAIN writes' : i \in DOMAIN writes \/ i = Len(writes')
        /\ writes'[Len(writes')].kind = "result" /\ writes'[Len(writes')].by = t
    BY <1>0, <2>2, QueueType DEF Typed
  <2> QED
    BY <2>2, <2>3, <2>4 DEF Writers
<1>12. ASSUME NEW t \in Tasks, TaskFinish(t) \/ FailureHandlerRaised(t) PROVE Writers'
  <2>1. /\ UNCHANGED writes
        /\ \E failed \in BOOLEAN : Finish(t, FALSE, failed)
        /\ task[t].pc \in {"verify", "runtime"} \/ ~Waiting(t)
    BY <1>12 DEF TaskFinish, FailureHandlerRaised
  <2>2. /\ \A u \in Tasks : u # t => task'[u] = task[u]
        /\ \A slot \in Slots : refresh[slot].pc = "persist" => refresh'[slot] = refresh[slot]
    <3>1. PICK failed \in BOOLEAN : Finish(t, FALSE, failed)
      BY <2>1
    <3>2. /\ \A u \in Tasks : u # t => task'[u] = task[u]
          /\ refresh'["direct"] = refresh["direct"]
          /\ refresh' = refresh \/ refresh["debounced"].pc = "idle"
      BY <3>1, FinishType
    <3> QED
      BY <3>2 DEF Slots
  <2> QED
    BY <1>2, <2>1, <2>2
<1>13. ASSUME NEW t \in Tasks, TaskCancelled(t) PROVE Writers'
  <2>1. Withdraw(t)
    BY <1>13 DEF TaskCancelled
  <2>2. /\ \A u \in Tasks : u # t => task'[u] = task[u]
        /\ \A slot \in Slots : refresh[slot].pc = "persist" => refresh'[slot] = refresh[slot]
    <3>1. CASE UNCHANGED refresh /\ task' = [task EXCEPT ![t] = Returning("ended", FALSE)]
      BY <3>1 DEF Typed
    <3>2. CASE Finish(t, task[t].pc # "fail_save", FALSE)
      <4>1. (task[t].pc # "fail_save") \in BOOLEAN
        OBVIOUS
      <4>2. /\ \A u \in Tasks : u # t => task'[u] = task[u]
            /\ refresh'["direct"] = refresh["direct"]
            /\ refresh' = refresh \/ refresh["debounced"].pc = "idle"
        BY <3>2, <4>1, FinishType
      <4> QED
        BY <4>2 DEF Slots
    <3> QED
      BY <1>13, <3>1, <3>2 DEF TaskCancelled
  <2> QED
    BY <2>1, <2>2, WithdrawnWriters DEF Writers
<1>14. CASE Storing
  <2>1. Served /\ UNCHANGED task
    BY <1>14 DEF Storing, WriteDone, WriteFailed
  <2>2. /\ writes' \in Seq(Requests) /\ Len(writes') = Len(writes) - 1
        /\ \A i \in 1..Len(writes') : writes'[i] = writes[i + 1]
        /\ 1 \in DOMAIN writes
        /\ \A slot \in Slots : slot # writes[1].by => refresh'[slot] = refresh[slot]
    BY <2>1, ServedType
  <2>3. ASSUME NEW i \in DOMAIN writes'
        PROVE  /\ i + 1 \in DOMAIN writes /\ writes'[i] = writes[i + 1]
               /\ writes[i + 1].by # writes[1].by
    <3>1. i + 1 \in DOMAIN writes /\ i + 1 # 1 /\ writes'[i] = writes[i + 1]
      BY <2>2 DEF Typed
    <3> QED
      BY <2>2, <3>1 DEF Writers
  <2>4. \A i, j \in DOMAIN writes' : i + 1 = j + 1 => i = j
    BY <2>2
  <2> QED
    BY <2>1, <2>2, <2>3, <2>4 DEF Writers
<1>15. CASE Stopping
  <2>1. \A u \in Tasks : task'[u].pc = task[u].pc
    BY <1>15 DEF Stopping, ShutdownBegin, ShutdownEnd, Typed, TaskState
  <2>2. CASE UNCHANGED <<refresh, writes>>
    BY <1>2, <2>1, <2>2
  <2>3. CASE Stopped
    <3>1. /\ refresh'["direct"] = refresh["direct"]
          /\ UNCHANGED <<refresh, writes>> \/ Withdraw("debounced")
      BY <2>3, StoppedType
    <3>2. CASE Withdraw("debounced")
      BY <2>1, <3>1, <3>2, WithdrawnWriters DEF Writers, Slots
    <3> QED
      BY <2>2, <3>1, <3>2
  <2> QED
    BY <1>15, <2>2, <2>3 DEF Stopping, ShutdownBegin, ShutdownEnd
<1> QED
  BY <1>1, <1>3, <1>4, <1>5, <1>7, <1>8, <1>9, <1>10, <1>11, <1>12, <1>13, <1>14, <1>15
     DEF Next, Refreshing, RefreshStep, TaskStep

-----------------------------------------------------------------------------
(* Failures in a row, and checks that are due *)

\* An automatic check that is due is below the limit or about another backup
\* than the row of failures.
LEMMA DueBelowLimit ==
  ASSUME Typed, Retries, NEW latest \in Listed, NEW changed \in BOOLEAN, Due(latest, changed)
  PROVE  \/ repeated.count < RetryLimit + repeated.unrecorded
         \/ \A c \in Codes : repeated.key # <<latest, c>>
<1>1. /\ repeated.count \in Nat /\ repeated.unrecorded \in Nat /\ RetryLimit \in Nat \ {0}
      /\ retry.attempts \in Nat
  BY Bounds DEF Typed, Retry
<1>2. CASE repeated.count = repeated.unrecorded
  BY <1>1, <1>2
<1>3. CASE repeated.count # repeated.unrecorded
  <2>1. repeated.count # 0
    BY <1>1, <1>3 DEF Retries
  <2>2. PICK c \in Codes : Retryable(result) /\ repeated.key = <<result.backup, c>>
    BY <2>1 DEF Retries
  <2>3. CASE result.backup # latest
    BY <2>2, <2>3
  <2>4. CASE result.backup = latest
    <3>1. result.outcome # "password"
      BY <2>2, Bounds DEF Retryable
    <3>2. retry.attempts < RetryLimit
      BY <2>4, <3>1 DEF Due
    <3>3. repeated.count <= retry.attempts + repeated.unrecorded
      BY <1>3 DEF Retries
    <3> QED
      BY <1>1, <3>2, <3>3
  <2> QED
    BY <2>3, <2>4
<1> QED
  BY <1>2, <1>3

\* What both invariants depend on when no result is published.
LEMMA ChecksKept ==
  ASSUME Typed, Retries, ChecksAreNeeded, UNCHANGED <<result, repeated>>,
         retry'.key = retry.key, retry'.attempts = retry.attempts,
         \A t \in Tasks : Checking(t)' /\ task'[t].source = "automatic" =>
           \/ /\ Checking(t)
              /\ task'[t].source = task[t].source /\ task'[t].backup = task[t].backup
              /\ task'[t].pc # "runtime" => task[t].pc # "runtime"
           \/ /\ task'[t].backup \in Listed
              /\ \E changed \in BOOLEAN : Due(task'[t].backup, changed)
  PROVE  Retries' /\ ChecksAreNeeded'
<1>1. ASSUME NEW t \in Tasks, Checking(t)', task'[t].source = "automatic"
      PROVE  \/ repeated.count < RetryLimit + repeated.unrecorded
             \/ \A c \in Codes : repeated.key # <<task'[t].backup, c>>
  BY <1>1, DueBelowLimit DEF Retries
<1>2. Retries'
  BY <1>1 DEF Retries, Retryable
<1>3. ASSUME NEW t \in Tasks, task'[t].pc \in {"queued", "verify"},
             task'[t].source = "automatic"
      PROVE  \/ result.backup # task'[t].backup
             \/ result.outcome = "password"
             \/ Retryable(result) /\ retry.attempts < RetryLimit
  <2>1. CASE \E changed \in BOOLEAN : Due(task'[t].backup, changed)
    BY <2>1 DEF Due
  <2>2. CASE /\ task'[t].source = task[t].source /\ task'[t].backup = task[t].backup
             /\ task[t].pc \in {"queued", "verify"}
    BY <1>3, <2>2 DEF ChecksAreNeeded
  <2> QED
    BY <1>3, <2>1, <2>2 DEF Checking
<1>4. ChecksAreNeeded'
  BY <1>3 DEF ChecksAreNeeded, Retryable
<1> QED
  BY <1>2, <1>4

\* A result that is published extends the row of failures by one that the retry
\* state counts too, or ends it.
LEMMA RowPublished ==
  ASSUME Typed, OneWorker, Retries, NEW t \in Tasks,
         NEW outcome \in {"settled", "password"} \union Codes,
         NEW next \in {"save", "fail_save"}, Publish(t, outcome, next)
  PROVE  Retries' /\ ChecksAreNeeded'
<1> DEFINE key == <<task[t].backup, outcome>>
           one == IF task[t].source = "automatic" THEN 1 ELSE 0
<1>1. /\ result' = [backup |-> task[t].backup, outcome |-> outcome] /\ result' \in Results
      /\ task[t].pc \in {"verify", "runtime"} /\ task[t].backup \in Backups
      /\ retry' = UpdatedRetry(result') /\ retry' \in Retry
      /\ repeated' = IF Retryable(result') THEN Extended(t, outcome, FALSE) ELSE NoRow
      /\ \A u \in Tasks : u # t => task'[u] = task[u]
      /\ task'[t].pc = next
  BY PublishType
<1>2. \A u \in Tasks : ~Checking(u)'
  BY <1>1 DEF OneWorker, Working, Checking
<1>3. ChecksAreNeeded'
  BY <1>2 DEF ChecksAreNeeded, Checking
<1>4. CASE ~Retryable(result')
  <2>1. repeated' = NoRow
    BY <1>1, <1>4
  <2> QED
    BY <1>2, <1>3, <2>1 DEF Retries, NoRow
<1>5. CASE Retryable(result')
  <2>1. outcome \in Codes /\ Checking(t)
    BY <1>1, <1>5 DEF Retryable, Checking
  <2>2. /\ repeated'.key = key
        /\ repeated'.count = (IF key = repeated.key THEN repeated.count ELSE 0) + one
        /\ repeated'.unrecorded = IF key = repeated.key THEN repeated.unrecorded ELSE 0
    <3>1. repeated' = Extended(t, outcome, FALSE)
      BY <1>1, <1>5
    <3>2. /\ Extended(t, outcome, FALSE).key = key
          /\ Extended(t, outcome, FALSE).count =
               (IF key = repeated.key THEN repeated.count ELSE 0) + one
          /\ Extended(t, outcome, FALSE).unrecorded =
               (IF key = repeated.key THEN repeated.unrecorded ELSE 0) + 0
      BY <2>1, ExtendedType
    <3>3. (IF key = repeated.key THEN repeated.unrecorded ELSE 0) + 0
            = IF key = repeated.key THEN repeated.unrecorded ELSE 0
      BY Bounds DEF Typed
    <3> HIDE DEF key, one
    <3> QED
      BY <3>1, <3>2, <3>3, Zenon
  <2>3. /\ retry'.key = key /\ retry'.attempts >= 1
        /\ key = retry.key =>
             retry'.attempts = retry.attempts + 1 \/ retry'.attempts = RetryLimit
        /\ retry'.attempts \in Nat
    <3>1. result'.backup = task[t].backup /\ result'.outcome = outcome
      BY <1>1
    <3>2. /\ UpdatedRetry(result').key = <<result'.backup, result'.outcome>>
          /\ UpdatedRetry(result').attempts >= 1
          /\ UpdatedRetry(result').key = retry.key =>
               \/ UpdatedRetry(result').attempts = retry.attempts + 1
               \/ UpdatedRetry(result').attempts = RetryLimit
      BY <1>1, <1>5, <3>1, UpdatedRetryType
    <3>3. retry'.attempts \in Nat
      BY <1>1 DEF Retry
    <3> QED
      BY <1>1, <3>1, <3>2, <3>3
  <2>4. /\ repeated.count \in Nat /\ repeated.unrecorded \in Nat /\ RetryLimit \in Nat \ {0}
        /\ retry.attempts \in 0..RetryLimit /\ one \in {0, 1}
        /\ repeated.unrecorded <= repeated.count
    BY Bounds DEF Typed, Retry, Retries
  <2>5. CASE key # repeated.key \/ repeated.count = repeated.unrecorded
    <3>1. /\ repeated'.unrecorded <= repeated'.count
          /\ repeated'.count <= repeated'.unrecorded + 1
          /\ repeated'.count \in Nat /\ repeated'.unrecorded \in Nat
      <4> HIDE DEF one, key
      <4> QED
        BY <2>2, <2>4, <2>5
    <3>2. repeated'.count <= retry'.attempts + repeated'.unrecorded
      BY <2>3, <3>1
    <3>3. result'.backup = task[t].backup /\ repeated'.key = <<result'.backup, outcome>>
      BY <1>1, <2>2
    <3> QED
      BY <1>2, <1>3, <1>5, <2>1, <2>2, <2>3, <3>1, <3>2, <3>3 DEF Retries, Retryable
  <2>6. CASE key = repeated.key /\ repeated.count # repeated.unrecorded
    <3>1. retry.key = key /\ repeated.count <= retry.attempts + repeated.unrecorded
      BY <2>6 DEF Retries
    <3>2. one = 1 => repeated.count < RetryLimit + repeated.unrecorded
      BY <2>1, <2>6 DEF Retries
    <3>3. /\ repeated'.unrecorded <= repeated'.count
          /\ repeated'.count <= retry'.attempts + repeated'.unrecorded
      <4> HIDE DEF one, key
      <4>1. repeated'.count = repeated.count + one /\ repeated'.unrecorded = repeated.unrecorded
        BY <2>2, <2>6
      <4> QED
        BY <2>3, <2>4, <3>1, <3>2, <4>1
    <3>4. result'.backup = task[t].backup /\ repeated'.key = <<result'.backup, outcome>>
      BY <1>1, <2>2
    <3> QED
      BY <1>2, <1>3, <1>5, <2>1, <2>2, <2>3, <3>1, <3>3, <3>4 DEF Retries, Retryable
  <2> QED
    BY <2>5, <2>6
<1> QED
  BY <1>3, <1>4, <1>5

\* A failure that cannot be published extends both counts of the row.
LEMMA RowRaised ==
  ASSUME Typed, OneWorker, Retries, NEW t \in Tasks, FailureHandlerRaised(t)
  PROVE  Retries' /\ ChecksAreNeeded'
<1> DEFINE key == <<task[t].backup, InternalError>>
           one == IF task[t].source = "automatic" THEN 1 ELSE 0
<1>1. /\ Checking(t) /\ repeated.unrecorded < MaxUnrecorded
      /\ result' = [backup |-> task[t].backup, outcome |-> InternalError]
      /\ retry'.key = retry.key /\ retry'.attempts = retry.attempts
      /\ repeated' = Extended(t, InternalError, TRUE)
      /\ Finish(t, FALSE, TRUE)
  BY DEF FailureHandlerRaised, Checking, Typed, Retry
<1>2. \A u \in Tasks : ~Checking(u)'
  <2>1. task'[t].pc \in {"ended", "refreshing"} /\ \A u \in Tasks : u # t => task'[u] = task[u]
    BY <1>1, FinishType
  <2> QED
    BY <1>1, <2>1 DEF OneWorker, Working, Checking
<1>3. ChecksAreNeeded'
  BY <1>2 DEF ChecksAreNeeded, Checking
<1>4. /\ repeated'.key = key
      /\ repeated'.count = (IF key = repeated.key THEN repeated.count ELSE 0) + one
      /\ repeated'.unrecorded = (IF key = repeated.key THEN repeated.unrecorded ELSE 0) + one
  BY <1>1, ExtendedType, Bounds
<1>5. /\ repeated.count \in Nat /\ repeated.unrecorded \in Nat /\ retry.attempts \in Nat
      /\ one \in {0, 1}
      /\ repeated.unrecorded <= repeated.count
      /\ \/ repeated.count = repeated.unrecorded
         \/ /\ retry.key = repeated.key
            /\ repeated.count <= retry.attempts + repeated.unrecorded
  BY DEF Typed, Retry, Retries
<1>6. /\ repeated'.unrecorded <= repeated'.count
      /\ \/ repeated'.count = repeated'.unrecorded
         \/ /\ retry'.key = repeated'.key
            /\ repeated'.count <= retry'.attempts + repeated'.unrecorded
  <2> HIDE DEF key, one
  <2>1. CASE key = repeated.key
    <3>1. /\ repeated'.count = repeated.count + one
          /\ repeated'.unrecorded = repeated.unrecorded + one
      BY <1>4, <2>1
    <3>2. CASE repeated.count = repeated.unrecorded
      <4>1. repeated'.count = repeated'.unrecorded /\ repeated'.count \in Nat
        BY <1>5, <3>1, <3>2
      <4> QED
        BY <4>1
    <3>3. CASE /\ retry.key = repeated.key
               /\ repeated.count <= retry.attempts + repeated.unrecorded
      <4>1. retry'.key = repeated'.key
        BY <1>1, <1>4, <2>1, <3>3
      <4>2. repeated.count + one <= retry.attempts + (repeated.unrecorded + one)
            /\ repeated.unrecorded + one <= repeated.count + one
        BY <1>5, <3>3
      <4> QED
        BY <1>1, <3>1, <4>1, <4>2
    <3> QED
      BY <1>5, <3>2, <3>3
  <2>2. CASE key # repeated.key
    <3>1. repeated'.count = one /\ repeated'.unrecorded = one
      BY <1>4, <1>5, <2>2
    <3> QED
      BY <1>5, <3>1
  <2> QED
    BY <2>1, <2>2
<1>7. Retryable(result)' /\ \E c \in Codes : repeated'.key = <<result'.backup, c>>
  BY <1>1, <1>4, Bounds DEF Retryable
<1> QED
  BY <1>2, <1>3, <1>6, <1>7 DEF Retries

\* Published failures in a row are those the retry state has counted, and what
\* made a check due stays so until it comes to its own result.
LEMMA RetriesStep ==
  Typed /\ OneWorker /\ OwnerWaits /\ Retries /\ ChecksAreNeeded /\ [Next]_vars
    => Retries' /\ ChecksAreNeeded'
<1> SUFFICES ASSUME Typed, OneWorker, OwnerWaits, Retries, ChecksAreNeeded, [Next]_vars
             PROVE  Retries' /\ ChecksAreNeeded'
  OBVIOUS
<1>0. Typed' /\ "direct" \in Slots
  BY TypedStep DEF Slots
<1>1. CASE Restart
  <2>1. repeated' = NoRow /\ \A t \in Tasks : task'[t].pc = "idle"
    BY <1>1 DEF Restart, IdleTask
  <2> QED
    BY <2>1 DEF Retries, ChecksAreNeeded, NoRow, Checking
<1>2. CASE \/ NewestChanges \/ PasswordChanges \/ RetryTimeComes \/ WriteDone \/ WriteFailed
           \/ UNCHANGED vars \/ \E slot \in Slots : RefreshBegin(slot) \/ RefreshFetched(slot)
  <2>1. /\ UNCHANGED <<result, task, repeated>>
        /\ retry'.key = retry.key /\ retry'.attempts = retry.attempts
    BY <1>2 DEF NewestChanges, PasswordChanges, RetryTimeComes, WriteDone, WriteFailed,
       RefreshBegin, RefreshFetched, control, history, vars, Typed, Retry
  <2> QED
    BY <2>1, ChecksKept DEF Checking
<1>3. ASSUME NEW slot \in Slots, task' = OwnerReturned(task, slot),
             UNCHANGED <<result, retry, repeated>>
      PROVE  Retries' /\ ChecksAreNeeded'
  <2>1. \A t \in Tasks : Checking(t)' => task'[t] = task[t]
    BY <1>3, OwnerReturnedWork DEF Checking
  <2> QED
    BY <1>3, <2>1, ChecksKept DEF Checking
<1>4. ASSUME NEW slot \in Slots, RefreshFailed(slot) PROVE Retries' /\ ChecksAreNeeded'
  BY <1>3, <1>4 DEF RefreshFailed, control, history
<1>5. ASSUME NEW slot \in Slots, NEW busy \in BOOLEAN, RefreshDone(slot, busy)
      PROVE  Retries' /\ ChecksAreNeeded'
  <2> DEFINE latest == refresh[slot].latest
  <2>1. /\ UNCHANGED <<result, retry, repeated>> /\ latest \in Listed
        /\ \/ task' = OwnerReturned(task, slot)
           \/ /\ Due(latest, refresh[slot].changed) /\ ~PendingOrRunning
              /\ Track(OwnerReturned(task, slot), latest, "automatic")
    BY <1>5, DoneType DEF control, history
  <2>2. CASE task' = OwnerReturned(task, slot)
    BY <1>3, <2>1, <2>2
  <2>3. CASE /\ Due(latest, refresh[slot].changed) /\ ~PendingOrRunning
             /\ Track(OwnerReturned(task, slot), latest, "automatic")
    <3>1. refresh[slot].changed \in BOOLEAN
      BY DEF Typed, RefreshState
    <3>2. \A t \in Tasks : Checking(t)' => task'[t].backup = latest
      <4> HIDE DEF latest
      <4> QED
        BY <2>1, <2>3, TrackWork DEF Checking, Working
    <3> HIDE DEF latest
    <3> QED
      BY <2>1, <2>3, <3>1, <3>2, ChecksKept
  <2> QED
    BY <2>1, <2>2, <2>3
<1>6. CASE ManualStart
  <2>1. /\ UNCHANGED <<result, retry, repeated>> /\ data \in Listed
        /\ ~PendingOrRunning /\ Track(task, data, "manual")
    BY <1>6 DEF ManualStart, control, Typed
  <2>2. \A t \in Tasks : Checking(t)' => task'[t].source = "manual"
    BY <1>0, <2>1, TrackWork DEF Working, Checking
  <2> QED
    BY <2>1, <2>2, ChecksKept
<1>7. ASSUME NEW t \in Tasks, TaskStart(t) \/ TaskCallback(t) PROVE Retries' /\ ChecksAreNeeded'
  <2>1. /\ UNCHANGED <<result, retry, repeated>>
        /\ \A u \in Tasks : Checking(u)' =>
             /\ Checking(u) /\ (task'[u].pc # "runtime" => task[u].pc # "runtime")
             /\ task'[u].backup = task[u].backup /\ task'[u].source = task[u].source
    <3>1. CASE TaskStart(t)
      BY <3>1 DEF TaskStart, Typed, TaskState, control, history, Returning, IdleTask, Checking
    <3>2. CASE TaskCallback(t)
      BY <3>2 DEF TaskCallback, Typed, control, history, IdleTask, Checking
    <3> QED
      BY <1>7, <3>1, <3>2
  <2> QED
    BY <2>1, ChecksKept
<1>8. ASSUME NEW t \in Tasks, TaskVerified(t) \/ TaskRaised(t) PROVE Retries' /\ ChecksAreNeeded'
  <2>1. PICK outcome \in {"settled", "password"} \union Codes, next \in {"save", "fail_save"} :
          Publish(t, outcome, next)
    BY <1>8, Bounds DEF TaskVerified, TaskRaised
  <2> QED
    BY <2>1, RowPublished
<1>9. ASSUME NEW t \in Tasks, TaskShowsVerdict(t) PROVE Retries' /\ ChecksAreNeeded'
  <2>1. repeated' = NoRow /\ task[t].source = "manual" /\ Working(t)
        /\ task' = [task EXCEPT ![t].pc = "runtime"]
    BY <1>9 DEF TaskShowsVerdict, Working
  <2>2. \A u \in Tasks : Checking(u)' => task'[u].source = "manual"
    BY <2>1 DEF OneWorker, Working, Checking, Typed, TaskState
  <2> QED
    BY <2>1, <2>2 DEF Retries, ChecksAreNeeded, NoRow, Checking
<1>10. ASSUME NEW t \in Tasks, FailureHandlerRaised(t) PROVE Retries' /\ ChecksAreNeeded'
  BY <1>10, RowRaised
<1>11. ASSUME NEW t \in Tasks, TaskFinish(t) \/ TaskCancelled(t)
       PROVE  Retries' /\ ChecksAreNeeded'
  <2>1. UNCHANGED <<result, retry, repeated>>
    BY <1>11 DEF TaskFinish, TaskCancelled, control, history
  <2>2. \A u \in Tasks : Checking(u)' => task'[u] = task[u]
    <3>1. CASE task' = [task EXCEPT ![t] = Returning("ended", FALSE)]
      BY <3>1 DEF Typed, Returning, IdleTask, Checking
    <3>2. CASE \E cancelled, failed \in BOOLEAN : Finish(t, cancelled, failed)
      BY <3>2, FinishType DEF Checking
    <3> QED
      BY <1>11, <3>1, <3>2, Zenon DEF TaskFinish, TaskCancelled
  <2> QED
    BY <2>1, <2>2, ChecksKept DEF Checking
<1>12. CASE Stopping
  <2>1. /\ UNCHANGED <<result, retry, repeated>>
        /\ \A u \in Tasks : /\ task'[u].pc = task[u].pc /\ task'[u].backup = task[u].backup
                            /\ task'[u].source = task[u].source
    BY <1>12 DEF Stopping, ShutdownBegin, ShutdownEnd, Typed, TaskState, control
  <2> QED
    BY <2>1, ChecksKept DEF Checking
<1> QED
  BY <1>1, <1>2, <1>4, <1>5, <1>6, <1>7, <1>8, <1>9, <1>10, <1>11, <1>12
     DEF Next, Outside, Refreshing, RefreshStep, TaskStep, Storing

-----------------------------------------------------------------------------
(* The file and memory *)

\* A step that leaves the queue, the file and what they are compared with alone.
LEMMA DrainedKept ==
  ASSUME RetryDrained, ResultDrained, MarkerDrained,
         UNCHANGED <<result, marker, writes, store>>,
         retry'.key = retry.key, retry'.attempts = retry.attempts,
         (\E t \in Tasks : task[t].pc = "runtime") => (\E t \in Tasks : task'[t].pc = "runtime")
  PROVE  RetryDrained' /\ ResultDrained' /\ MarkerDrained'
<1>1. RetryDrained'
  BY DEF RetryDrained
<1>2. ResultDrained'
  BY DEF ResultDrained
<1>3. MarkerDrained'
  BY DEF MarkerDrained, SetsMarker
<1> QED
  BY <1>1, <1>2, <1>3

\* The control data a refresh hands over becomes the last word on the marker,
\* and leaves the result of the file alone.
LEMMA ControlQueued ==
  ASSUME Typed, Typed', NEW slot \in Slots, RefreshFetched(slot),
         RetryDrained, ResultDrained, MarkerDrained
  PROVE  RetryDrained' /\ ResultDrained' /\ MarkerDrained'
<1>1. /\ UNCHANGED <<result, retry, task, store>>
      /\ marker' = [value |-> password, known |-> TRUE]
      /\ \/ UNCHANGED writes /\ marker.known /\ marker.value = password
         \/ Queue("control", slot)
  BY FetchedType
<1>2. CASE UNCHANGED writes /\ marker.known /\ marker.value = password
  BY <1>1, <1>2 DEF RetryDrained, ResultDrained, MarkerDrained, SetsMarker
<1>3. CASE Queue("control", slot)
  <2> DEFINE last == Len(writes')
  <2>1. /\ writes \in Seq(Requests)
        /\ writes' \in Seq(Requests) /\ last = Len(writes) + 1
        /\ \A i \in DOMAIN writes : i \in DOMAIN writes' /\ writes'[i] = writes[i]
        /\ \A i \in DOMAIN writes' : i \in DOMAIN writes \/ i = last
        /\ writes'[last].kind = "control" /\ writes'[last].marker = marker'.value
        /\ writes'[last].retry.key = retry'.key /\ writes'[last].retry.attempts = retry'.attempts
    BY <1>3, QueueType DEF Typed
  <2>2. last \in DOMAIN writes' /\ \A i \in DOMAIN writes : i < last /\ writes' # <<>>
    BY <2>1
  <2>3. RetryDrained'
    BY <2>1, <2>2 DEF RetryDrained
  <2> HIDE DEF last
  <2>4. ResultDrained'
    BY <1>1, <2>1, <2>2 DEF ResultDrained
  <2>5. MarkerDrained'
    BY <2>1, <2>2 DEF MarkerDrained, SetsMarker
  <2> QED
    BY <2>3, <2>4, <2>5
<1> QED
  BY <1>1, <1>2, <1>3

\* The result a check hands over is the only one in the queue, and without a
\* password it leaves the marker of the file alone.
LEMMA ResultQueued ==
  ASSUME Typed, Typed', OneWorker, Writers, NEW t \in Tasks, TaskVerified(t) \/ TaskRaised(t),
         RetryDrained, MarkerDrained
  PROVE  RetryDrained' /\ ResultDrained' /\ MarkerDrained'
<1>1. PICK outcome \in {"settled", "password"} \union Codes, next \in {"save", "fail_save"} :
        Publish(t, outcome, next)
  BY Bounds DEF TaskVerified, TaskRaised
<1>2. /\ UNCHANGED <<marker, store>> /\ Queue("result", t)
      /\ task[t].pc \in {"verify", "runtime"}
  BY <1>1, PublishType
<1> DEFINE last == Len(writes')
<1>3. /\ writes \in Seq(Requests)
      /\ writes' \in Seq(Requests) /\ last = Len(writes) + 1
      /\ \A i \in DOMAIN writes : i \in DOMAIN writes' /\ writes'[i] = writes[i]
      /\ \A i \in DOMAIN writes' : i \in DOMAIN writes \/ i = last
      /\ writes'[last].kind = "result" /\ writes'[last].result = result'
      /\ writes'[last].marker = marker'.value
      /\ writes'[last].retry.key = retry'.key /\ writes'[last].retry.attempts = retry'.attempts
  BY <1>2, QueueType DEF Typed
<1>4. last \in DOMAIN writes' /\ writes' # <<>> /\ \A i \in DOMAIN writes : i < last
  BY <1>3
<1>5. RetryDrained'
  BY <1>3, <1>4 DEF RetryDrained
<1>6. \A i \in DOMAIN writes : writes[i].kind # "result"
  BY <1>2, ResultWriter DEF OneWorker, Working
<1> HIDE DEF last
<1>7. ResultDrained'
  BY <1>3, <1>4, <1>6 DEF ResultDrained
<1>8. MarkerDrained'
  <2>1. CASE marker.value = None
    <3> SUFFICES ASSUME marker.known
                 PROVE  /\ \A i \in DOMAIN writes' :
                             /\ SetsMarker(writes'[i])
                             /\ \A j \in DOMAIN writes' : i < j => ~SetsMarker(writes'[j])
                             => writes'[i].marker = marker.value
                        /\ (\A i \in DOMAIN writes' : ~SetsMarker(writes'[i])) =>
                             store.marker = marker.value
      BY <1>2 DEF MarkerDrained, SetsMarker
    <3>1. ~SetsMarker(writes'[last])
      BY <1>2, <1>3, <2>1 DEF SetsMarker
    <3>2. ASSUME NEW i \in DOMAIN writes', SetsMarker(writes'[i]),
                 \A j \in DOMAIN writes' : i < j => ~SetsMarker(writes'[j])
          PROVE  writes'[i].marker = marker.value
      <4>1. i \in DOMAIN writes /\ writes'[i] = writes[i]
        BY <1>3, <3>1, <3>2
      <4>2. \A j \in DOMAIN writes : i < j => ~SetsMarker(writes[j])
        BY <1>3, <3>2
      <4> QED
        BY <3>2, <4>1, <4>2 DEF MarkerDrained
    <3>3. ASSUME \A i \in DOMAIN writes' : ~SetsMarker(writes'[i])
          PROVE  store.marker = marker.value
      <4>1. \A i \in DOMAIN writes : ~SetsMarker(writes[i])
        BY <1>3, <3>3
      <4> QED
        BY <4>1 DEF MarkerDrained
    <3> QED
      BY <3>2, <3>3
  <2>2. CASE marker.value # None
    <3>1. writes'[last].marker # None
      BY <1>2, <1>3, <2>2
    <3> QED
      BY <1>2, <1>3, <1>4, <3>1 DEF MarkerDrained, SetsMarker
  <2> QED
    BY <2>1, <2>2
<1> QED
  BY <1>5, <1>7, <1>8

\* Serving the next write changes nothing in what the queue makes of the file.
LEMMA WriteServed ==
  ASSUME Typed, OneWorker, Writers, WriteDone, RetryDrained, ResultDrained, MarkerDrained
  PROVE  RetryDrained' /\ ResultDrained' /\ MarkerDrained'
<1> DEFINE head == writes[1]
<1>1. /\ store' = Applied(head)
      /\ UNCHANGED <<result, retry, marker, task>>
      /\ writes' \in Seq(Requests) /\ Len(writes') = Len(writes) - 1 /\ writes # <<>>
      /\ \A i \in 1..Len(writes') : writes'[i] = writes[i + 1]
      /\ 1 \in DOMAIN writes
  BY ServedType DEF WriteDone, control
<1>2. head.kind \in {"result", "control"} /\ writes \in Seq(Requests)
  BY <1>1, WriteKinds DEF Typed
<1>3. \A i \in DOMAIN writes' : i + 1 \in DOMAIN writes /\ writes'[i] = writes[i + 1]
  BY <1>1, <1>2
<1>4. \A j \in DOMAIN writes : j = 1 \/ (j - 1 \in DOMAIN writes' /\ writes'[j - 1] = writes[j])
  <2>1. ASSUME NEW j \in DOMAIN writes, j # 1
        PROVE  j - 1 \in DOMAIN writes' /\ writes'[j - 1] = writes[j]
    <3>1. j \in Nat /\ j - 1 \in 1..Len(writes') /\ (j - 1) + 1 = j
      BY <1>1, <1>2, <2>1
    <3> QED
      BY <1>1, <3>1
  <2> QED
    BY <2>1
<1>5. /\ store'.retry = head.retry
      /\ store'.result = IF head.kind = "result" THEN head.result ELSE store.result
      /\ store'.marker = IF SetsMarker(head) THEN head.marker ELSE store.marker
  BY <1>1, <1>2 DEF Applied, SetsMarker
<1> HIDE DEF head
<1>6. RetryDrained'
  <2>1. CASE Len(writes) = 1
    <3>1. writes' = <<>>
      BY <1>1, <2>1
    <3> QED
      BY <1>1, <1>5, <2>1, <3>1 DEF RetryDrained, head
  <2>2. CASE Len(writes) # 1
    <3>1. writes' # <<>> /\ writes'[Len(writes')] = writes[Len(writes)]
      BY <1>1, <1>2, <2>2
    <3> QED
      BY <1>1, <3>1 DEF RetryDrained
  <2> QED
    BY <2>1, <2>2
<1>7. ResultDrained'
  <2> SUFFICES ASSUME \A t \in Tasks : task[t].pc # "runtime"
               PROVE  /\ \A i \in DOMAIN writes' :
                           writes'[i].kind = "result" => writes'[i].result = result
                      /\ (\A i \in DOMAIN writes' : writes'[i].kind # "result") =>
                           store'.result = result
    BY <1>1 DEF ResultDrained
  <2>1. \A i \in DOMAIN writes' : writes'[i].kind = "result" => writes'[i].result = result
    BY <1>3 DEF ResultDrained
  <2>2. ASSUME \A i \in DOMAIN writes' : writes'[i].kind # "result"
        PROVE  store'.result = result
    <3>1. CASE head.kind = "result"
      BY <1>1, <1>5, <3>1 DEF ResultDrained, head
    <3>2. CASE head.kind # "result"
      <4>1. \A j \in DOMAIN writes : writes[j].kind # "result"
        BY <1>4, <2>2, <3>2 DEF head
      <4> QED
        BY <1>5, <3>2, <4>1 DEF ResultDrained
    <3> QED
      BY <3>1, <3>2
  <2> QED
    BY <2>1, <2>2
<1>8. MarkerDrained'
  <2> SUFFICES ASSUME marker.known
               PROVE  /\ \A i \in DOMAIN writes' :
                           /\ SetsMarker(writes'[i])
                           /\ \A j \in DOMAIN writes' : i < j => ~SetsMarker(writes'[j])
                           => writes'[i].marker = marker.value
                      /\ (\A i \in DOMAIN writes' : ~SetsMarker(writes'[i])) =>
                           store'.marker = marker.value
    BY <1>1 DEF MarkerDrained, SetsMarker
  <2>1. ASSUME NEW i \in DOMAIN writes', SetsMarker(writes'[i]),
               \A j \in DOMAIN writes' : i < j => ~SetsMarker(writes'[j])
        PROVE  writes'[i].marker = marker.value
    <3>1. i + 1 \in DOMAIN writes /\ writes'[i] = writes[i + 1]
      BY <1>3
    <3>2. ASSUME NEW j \in DOMAIN writes, i + 1 < j PROVE ~SetsMarker(writes[j])
      <4>1. j # 1 /\ i < j - 1
        BY <1>1, <1>2, <3>2
      <4> QED
        BY <1>4, <2>1, <4>1
    <3> QED
      BY <2>1, <3>1, <3>2 DEF MarkerDrained
  <2>2. ASSUME \A i \in DOMAIN writes' : ~SetsMarker(writes'[i])
        PROVE  store'.marker = marker.value
    <3>1. \A j \in DOMAIN writes : j # 1 => ~SetsMarker(writes[j])
      BY <1>4, <2>2
    <3>2. CASE SetsMarker(head)
      <4>1. \A j \in DOMAIN writes : 1 < j => ~SetsMarker(writes[j])
        BY <1>2, <3>1
      <4> QED
        BY <1>1, <1>5, <3>2, <4>1 DEF MarkerDrained, head
    <3>3. CASE ~SetsMarker(head)
      <4>1. \A j \in DOMAIN writes : ~SetsMarker(writes[j])
        BY <3>1, <3>3 DEF head
      <4> QED
        BY <1>5, <3>3, <4>1 DEF MarkerDrained
    <3> QED
      BY <3>2, <3>3
  <2> QED
    BY <2>1, <2>2
<1> QED
  BY <1>6, <1>7, <1>8

\* What the queue will have written once it is served is what memory holds.
LEMMA DrainedStep ==
  Typed /\ OneWorker /\ OwnerWaits /\ Writers /\ Drained /\ [Next]_vars => Drained'
<1> SUFFICES ASSUME Typed, OneWorker, OwnerWaits, Writers, Drained, [Next]_vars, ~unsaved'
             PROVE  RetryDrained' /\ ResultDrained' /\ MarkerDrained'
  BY DEF Drained
<1>0. Typed' /\ "direct" \in Slots
  BY TypedStep DEF Slots
<1>1. CASE Restart
  <2>1. /\ writes' = <<>> /\ result' = store'.result /\ retry' = store'.retry
        /\ marker' = [value |-> store'.marker, known |-> store'.marker # None]
    BY <1>1 DEF Restart
  <2> QED
    BY <2>1 DEF RetryDrained, ResultDrained, MarkerDrained
<1>2. CASE ~Restart
  <2>1. ~unsaved
    <3>1. CASE Outside \/ ManualStart \/ UNCHANGED vars
      BY <3>1 DEF Outside, NewestChanges, PasswordChanges, RetryTimeComes, ManualStart, history,
         vars
    <3>2. CASE Refreshing
      BY <3>2 DEF Refreshing, RefreshStep, RefreshBegin, RefreshFetched, RefreshFailed,
         RefreshDone, history
    <3>3. CASE Storing \/ Stopping
      BY <3>3, Zenon
         DEF Storing, Stopping, WriteDone, WriteFailed, ShutdownBegin, ShutdownEnd, Stopped,
         history
    <3>4. ASSUME NEW t \in Tasks, TaskStep(t) PROVE ~unsaved
      BY <3>4, Zenon DEF TaskStep, TaskStart, TaskShowsVerdict, TaskVerified, TaskRaised, Publish,
         TaskFinish, FailureHandlerRaised, TaskCancelled, TaskCallback, history
    <3> QED
      BY <1>2, <3>1, <3>2, <3>3, <3>4 DEF Next
  <2>2. RetryDrained /\ ResultDrained /\ MarkerDrained
    BY <2>1 DEF Drained
  <2>3. CASE NewestChanges \/ PasswordChanges \/ RetryTimeComes \/ UNCHANGED vars
             \/ (\E slot \in Slots : RefreshBegin(slot))
    <3>1. /\ UNCHANGED <<result, marker, writes, store, task>>
          /\ retry'.key = retry.key /\ retry'.attempts = retry.attempts
      BY <2>3 DEF NewestChanges, PasswordChanges, RetryTimeComes, RefreshBegin, control, vars,
         Typed, Retry
    <3> QED
      BY <2>2, <3>1, DrainedKept
  <2>4. ASSUME NEW slot \in Slots, RefreshFetched(slot)
        PROVE  RetryDrained' /\ ResultDrained' /\ MarkerDrained'
    BY <1>0, <2>2, <2>4, ControlQueued
  <2>5. ASSUME NEW slot \in Slots, NEW busy \in BOOLEAN,
               RefreshFailed(slot) \/ RefreshDone(slot, busy)
        PROVE  RetryDrained' /\ ResultDrained' /\ MarkerDrained'
    <3>1. UNCHANGED <<result, retry, marker, writes, store>>
      BY <2>5 DEF RefreshFailed, RefreshDone, control
    <3>2. \A t \in Tasks : task[t].pc = "runtime" => task'[t].pc = "runtime"
      <4>1. CASE task' = OwnerReturned(task, slot)
        BY <4>1, OwnerReturnedWork
      <4>2. CASE /\ ~PendingOrRunning /\ refresh[slot].latest \in Listed
                 /\ Track(OwnerReturned(task, slot), refresh[slot].latest, "automatic")
        BY <4>2, TrackWork DEF Working
      <4> QED
        BY <2>5, <4>1, <4>2, DoneType DEF RefreshFailed
    <3> QED
      BY <2>2, <3>1, <3>2, DrainedKept
  <2>6. CASE ManualStart
    <3>1. /\ UNCHANGED <<result, retry, marker, writes, store>> /\ data \in Listed
          /\ ~PendingOrRunning /\ Track(task, data, "manual")
      BY <2>6 DEF ManualStart, control, Typed
    <3>2. \A t \in Tasks : ~Working(t)
      BY <1>0, <3>1, TrackWork
    <3> QED
      BY <2>2, <3>1, <3>2, DrainedKept DEF Working
  <2>7. ASSUME NEW t \in Tasks, TaskStart(t) \/ TaskFinish(t) \/ TaskCallback(t)
        PROVE  RetryDrained' /\ ResultDrained' /\ MarkerDrained'
    <3>1. UNCHANGED <<result, retry, marker, writes, store>>
      BY <2>7 DEF TaskStart, TaskFinish, TaskCallback, control
    <3>2. \A u \in Tasks : task[u].pc = "runtime" => task'[u].pc = "runtime"
      <4>1. CASE TaskFinish(t)
        BY <4>1, FinishType DEF TaskFinish
      <4>2. CASE TaskStart(t) \/ TaskCallback(t)
        BY <4>2 DEF TaskStart, TaskCallback, Typed
      <4> QED
        BY <2>7, <4>1, <4>2
    <3> QED
      BY <2>2, <3>1, <3>2, DrainedKept
  <2>8. ASSUME NEW t \in Tasks, TaskShowsVerdict(t)
        PROVE  RetryDrained' /\ ResultDrained' /\ MarkerDrained'
    <3>1. UNCHANGED <<retry, marker, writes, store>> /\ task'[t].pc = "runtime"
      BY <2>8 DEF TaskShowsVerdict, Typed, TaskState
    <3> QED
      BY <2>2, <3>1 DEF RetryDrained, ResultDrained, MarkerDrained, SetsMarker
  <2>9. ASSUME NEW t \in Tasks, TaskVerified(t) \/ TaskRaised(t)
        PROVE  RetryDrained' /\ ResultDrained' /\ MarkerDrained'
    BY <1>0, <2>2, <2>9, ResultQueued
  <2>10. ASSUME NEW t \in Tasks, FailureHandlerRaised(t) PROVE FALSE
    BY <2>10 DEF FailureHandlerRaised
  <2>11. ASSUME NEW t \in Tasks, TaskCancelled(t)
         PROVE  RetryDrained' /\ ResultDrained' /\ MarkerDrained'
    <3>1. ~Waiting(t) /\ task[t].pc # "runtime"
      BY <2>11 DEF TaskCancelled
    <3>2. UNCHANGED <<result, retry, marker, writes, store>>
      BY <2>11, <3>1 DEF TaskCancelled, Withdraw, Waiting, control
    <3>3. \A u \in Tasks : u # t => task'[u] = task[u]
      <4>1. CASE task' = [task EXCEPT ![t] = Returning("ended", FALSE)]
        BY <4>1 DEF Typed
      <4>2. CASE Finish(t, task[t].pc # "fail_save", FALSE)
        <5>1. (task[t].pc # "fail_save") \in BOOLEAN
          OBVIOUS
        <5> QED
          BY <4>2, <5>1, FinishType
      <4> QED
        BY <2>11, <4>1, <4>2 DEF TaskCancelled
    <3> QED
      BY <2>2, <3>1, <3>2, <3>3, DrainedKept
  <2>12. CASE WriteDone
    BY <2>2, <2>12, WriteServed
  <2>13. CASE WriteFailed
    BY <2>13 DEF WriteFailed
  <2>14. CASE Stopping
    <3>1. UNCHANGED <<result, retry, marker, writes, store>>
      BY <2>14 DEF Stopping, ShutdownBegin, ShutdownEnd, Stopped, Withdraw, Waiting, control
    <3>2. \A u \in Tasks : task'[u].pc = task[u].pc
      BY <2>14 DEF Stopping, ShutdownBegin, ShutdownEnd, Typed, TaskState
    <3> QED
      BY <2>2, <3>1, <3>2, DrainedKept
  <2> QED
    BY <1>2, <2>3, <2>4, <2>5, <2>6, <2>7, <2>8, <2>9, <2>10, <2>11, <2>12, <2>13, <2>14
       DEF Next, Outside, Refreshing, RefreshStep, TaskStep, Storing
<1> QED
  BY <1>1, <1>2

-----------------------------------------------------------------------------
\* At first there is no task, no write and no result.
LEMMA InitInvariant == Init => IInv
<1> SUFFICES ASSUME Init PROVE IInv
  OBVIOUS
<1>1. Typed
  BY InitTyped
<1>2. /\ writes = <<>> /\ refresh = [slot \in Slots |-> NoRefresh]
      /\ \A t \in Tasks : task[t].pc = "idle"
      /\ repeated = NoRow
      /\ result = store.result /\ retry = store.retry
      /\ marker = [value |-> store.marker, known |-> store.marker # None]
  BY DEF Init, Loaded, IdleTask
<1>3. OneWorker /\ OwnerWaits /\ Writers
  BY <1>2, Bounds DEF OneWorker, OwnerWaits, Writers, Working, NoRefresh, Slots
<1>4. Retries /\ ChecksAreNeeded
  BY <1>2 DEF Retries, ChecksAreNeeded, NoRow, Checking
<1>5. Drained
  BY <1>2 DEF Drained, RetryDrained, ResultDrained, MarkerDrained
<1> QED
  BY <1>1, <1>3, <1>4, <1>5 DEF IInv

\* The parts of the invariant hold one another up.
LEMMA Invariance == IInv /\ [Next]_vars => IInv'
  BY TypedStep, WorkerStep, WritersStep, RetriesStep, DrainedStep DEF IInv

-----------------------------------------------------------------------------
\* Every variable keeps its type, and no caller has two writes with the store.
THEOREM TypeCorrect == Spec => []TypeOK
<1>1. IInv => TypeOK
  BY DEF IInv, Typed, TypeOK, Writers, RefreshState
<1> QED
  BY <1>1, InitInvariant, Invariance, PTL DEF Spec

\* At most one integrity check runs, whatever the done callbacks do to the flag
\* integrity_check_running and however many refreshes overlap.
THEOREM ChecksRunAlone == Spec => []SingleFlight
<1>1. IInv => SingleFlight
  BY DEF IInv, OneWorker, Working, SingleFlight, InFlight
<1> QED
  BY <1>1, InitInvariant, Invariance, PTL DEF Spec

\* A backup that keeps failing in the same way is checked automatically no more
\* than _AUTOMATIC_RETRY_LIMIT times in a row, but for one more time for each
\* failure that could not be published.
THEOREM RetriesAreBounded == Spec => []RetriesBounded
<1>1. IInv => RetriesBounded
  <2> SUFFICES ASSUME Typed, Retries PROVE RetriesBounded
    BY DEF IInv
  <2>1. /\ repeated.count \in Nat /\ repeated.unrecorded \in Nat /\ RetryLimit \in Nat
        /\ retry.attempts \in 0..RetryLimit
    BY Bounds DEF Typed, Retry
  <2> QED
    BY <2>1 DEF Retries, RetriesBounded
<1> QED
  BY <1>1, InitInvariant, Invariance, PTL DEF Spec

\* No automatic check is of a backup that the last result has settled, although
\* overlapping refreshes decide on inventories of different ages.
THEOREM NoCheckIsWasted == Spec => []ChecksAreNeeded
<1>1. IInv => ChecksAreNeeded
  BY DEF IInv
<1> QED
  BY <1>1, InitInvariant, Invariance, PTL DEF Spec

\* A restart finds what memory held, once the store has served its writers and
\* none of them failed.
THEOREM RestartFindsMemory == Spec => []StoreMatchesMemory
<1>1. IInv => StoreMatchesMemory
  BY DEF IInv, Drained, RetryDrained, ResultDrained, MarkerDrained, StoreMatchesMemory
<1> QED
  BY <1>1, InitInvariant, Invariance, PTL DEF Spec

=====
