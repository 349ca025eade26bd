------------------------ MODULE RuntimeRunner_proofs ------------------------
(***************************************************************************)
(* Proofs about RuntimeRunner, for any set of runs and of handler threads. *)
(*                                                                         *)
(* The invariant.  A run's public state is explained by where its          *)
(* execution thread stands (Phase, StepTable, Milestone, Storage), and     *)
(* the thread's freedom from interference by the claim that an upload      *)
(* holds until it is verified (Claims).                                    *)
(***************************************************************************)
EXTENDS RuntimeRunner, TLAPS

Working   == {"begin", "open", "extract", "spawn", "wait", "load"}
Finishing == {"cleanup", "complete", "publish", "exit", "dead"}

\* Nothing refers to an identifier that was not issued yet.
Issued ==
  /\ \A r \in Runs : exec[r] # "none" => r \in created
  /\ \A h \in Handlers : handler[h] # Idle => handler[h].run \in created

\* An upload claims its run, alone, and before any execution.
Claims ==
  /\ \A h \in Handlers : handler[h].pc \in Writing =>
       run[handler[h].run].uploading /\ ~run[handler[h].run].verified
  /\ \A h, k \in Handlers :
       handler[h].pc \in Writing /\ handler[k].pc \in Writing
         /\ handler[h].run = handler[k].run => h = k
  /\ \A h \in Handlers : handler[h].pc = "put_finish" => run[handler[h].run].verified
  /\ \A r \in Runs : exec[r] # "none" => run[r].verified /\ ~run[r].uploading

\* Status and outcome against the position of the execution thread.
Phase(r) ==
  /\ exec[r] \in {"none"} \union Working => run[r].pending = "running"
  /\ exec[r] \in {"finish"} \union Finishing => run[r].pending \in Terminal
  /\ exec[r] \notin {"exit", "dead"} => run[r].status = "running"
  /\ exec[r] \in {"exit", "dead"} => run[r].published /\ run[r].status = run[r].pending
  /\ exec[r] \in Finishing => ~run[r].password

\* Which steps can be open, failed or passed at that position.
StepTable(r) ==
  /\ exec[r] \notin Finishing => \A s \in Steps : run[r].steps[s] # "failed"
  /\ exec[r] \notin {"none", "begin"} => run[r].steps[Upload] = "passed"
  /\ exec[r] \in Finishing =>
       \A s \in Steps : s < Cleanup => run[r].steps[s] \notin Open
  /\ exec[r] \in Finishing \ {"cleanup"} => run[r].steps[Cleanup] \notin Open
  /\ exec[r] \in Finishing /\ run[r].pending = "passed" =>
       \A s \in Steps : s < Cleanup => run[r].steps[s] = "passed"
  /\ exec[r] \in Finishing \ {"cleanup"} /\ run[r].pending = "passed" =>
       run[r].steps[Cleanup] = "passed"
  /\ exec[r] \in Finishing \ {"cleanup", "complete"} =>
       run[r].steps[Complete] = IF run[r].pending = "passed" THEN "passed" ELSE "failed"

\* How far the isolated test got, and what may be claimed about it.
Milestone(r) ==
  /\ exec[r] \in {"none", "begin", "open", "extract"} => milestone[r] = 0
  /\ exec[r] = "spawn" => milestone[r] = 1
  /\ exec[r] \in {"wait", "load"} =>
       /\ child[r].stage \in {0, Boot} => milestone[r] = 1
       /\ child[r].stage = Probe => milestone[r] = 2
       /\ child[r].stage = Cleanup => milestone[r] = IF child[r].ready THEN 3 ELSE 2
       /\ child[r].ready => child[r].stage = Cleanup
  /\ child[r].alive => exec[r] = "wait"
  /\ run[r].pending = "passed" => run[r].evidence = IsReady /\ milestone[r] = 3

\* A clean-up reported as passed left nothing sensitive behind.
Storage(r) ==
  exec[r] \in Finishing \ {"cleanup"} /\ run[r].steps[Cleanup] = "passed" =>
    disk[r] \intersect Sensitive = {}

\* What the step table claims has happened.
Truthful(r) ==
  /\ run[r].steps[Restore] = "passed" => milestone[r] >= 1
  /\ run[r].steps[Boot] = "passed"    => milestone[r] >= 2
  /\ run[r].steps[Probe] = "passed"   => milestone[r] = 3

RunInv(r) == Phase(r) /\ StepTable(r) /\ Milestone(r) /\ Storage(r) /\ Truthful(r)

IInv ==
  /\ TypeOK
  /\ Issued
  /\ Claims
  /\ \A r \in Runs : RunInv(r)
  /\ OneUnfinishedRun

-----------------------------------------------------------------------------
(* What the operations on a run state do to its fields                     *)

\* Writing the times of some steps changes nothing else.
LEMMA StampType ==
  ASSUME NEW state \in RunState, NEW keys \in SUBSET Steps
  PROVE  Stamp(state, keys) \in RunState
<1>1. (IF state.published THEN state.late \union keys ELSE state.late) \in SUBSET Steps
  BY DEF RunState
<1> QED
  BY <1>1 DEF Stamp, RunState

LEMMA StampKeeps ==
  ASSUME NEW state \in RunState, NEW keys
  PROVE  /\ Stamp(state, keys).status = state.status
         /\ Stamp(state, keys).pending = state.pending
         /\ Stamp(state, keys).steps = state.steps
         /\ Stamp(state, keys).password = state.password
         /\ Stamp(state, keys).uploading = state.uploading
         /\ Stamp(state, keys).verified = state.verified
         /\ Stamp(state, keys).evidence = state.evidence
         /\ Stamp(state, keys).published = state.published
BY DEF Stamp, RunState

\* Beginning a step keeps a run state well typed, changes the step table as
\* written here, and otherwise only the stage and the activity flag.
LEMMA BeginType ==
  ASSUME NEW state \in RunState, NEW key \in Steps, NEW promote \in BOOLEAN
  PROVE  Begin(state, key, promote) \in RunState
<1> DEFINE begun == BegunSteps(state.steps, key, promote)
           keys  == {key} \union {s \in Steps : begun[s] # state.steps[s]}
<1>1. begun \in [Steps -> StepState]
  BY DEF BegunSteps, RunState, StepState
<1>2. Stamp(state, keys) \in RunState
  BY StampType
<1>3. Begin(state, key, promote) =
        [Stamp(state, keys) EXCEPT !.steps = begun, !.stage = key, !.fresh = TRUE]
  BY DEF Begin
<1> HIDE DEF begun, keys
<1> QED
  BY <1>1, <1>2, <1>3 DEF RunState

\* What the helpers that write steps and statuses change, and what they keep.
LEMMA BeginSteps ==
  ASSUME NEW state \in RunState, NEW key \in Steps, NEW promote \in BOOLEAN
  PROVE  \A s \in Steps : Begin(state, key, promote).steps[s] =
           IF s = key THEN "running"
           ELSE IF promote /\ s < key /\ state.steps[s] \in Open THEN "passed"
           ELSE state.steps[s]
<1>1. Begin(state, key, promote).steps = BegunSteps(state.steps, key, promote)
  BY DEF Begin, Stamp, RunState
<1> QED
  BY <1>1 DEF BegunSteps

LEMMA BeginKeeps ==
  ASSUME NEW state \in RunState, NEW key \in Steps, NEW promote \in BOOLEAN
  PROVE  /\ Begin(state, key, promote).status = state.status
         /\ Begin(state, key, promote).pending = state.pending
         /\ Begin(state, key, promote).password = state.password
         /\ Begin(state, key, promote).uploading = state.uploading
         /\ Begin(state, key, promote).verified = state.verified
         /\ Begin(state, key, promote).evidence = state.evidence
         /\ Begin(state, key, promote).published = state.published
BY DEF Begin, Stamp, RunState

\* Closing a step changes that step and the activity flag.
LEMMA FinishStepType ==
  ASSUME NEW state \in RunState, NEW key \in Steps, NEW result \in StepState
  PROVE  FinishStep(state, key, result) \in RunState
<1>1. Stamp(state, {key}) \in RunState
  BY StampType
<1> QED
  BY <1>1 DEF FinishStep, RunState

LEMMA FinishStepSteps ==
  ASSUME NEW state \in RunState, NEW key \in Steps, NEW result \in StepState
  PROVE  \A s \in Steps : FinishStep(state, key, result).steps[s] =
           IF s = key THEN result ELSE state.steps[s]
BY DEF FinishStep, Stamp, RunState

LEMMA FinishStepKeeps ==
  ASSUME NEW state \in RunState, NEW key \in Steps, NEW result \in StepState
  PROVE  /\ FinishStep(state, key, result).status = state.status
         /\ FinishStep(state, key, result).pending = state.pending
         /\ FinishStep(state, key, result).password = state.password
         /\ FinishStep(state, key, result).uploading = state.uploading
         /\ FinishStep(state, key, result).verified = state.verified
         /\ FinishStep(state, key, result).evidence = state.evidence
         /\ FinishStep(state, key, result).published = state.published
BY DEF FinishStep, Stamp, RunState

\* Failing the open steps changes the step table alone.
LEMMA FailOpenType ==
  ASSUME NEW state \in RunState
  PROVE  FailOpen(state) \in RunState
<1>1. [s \in Steps |-> IF state.steps[s] \in Open THEN "failed" ELSE state.steps[s]]
        \in [Steps -> StepState]
  BY DEF RunState, StepState
<1>2. Stamp(state, {s \in Steps : state.steps[s] \in Open}) \in RunState
  BY StampType
<1>3. Stamp(state, {s \in Steps : state.steps[s] \in Open}).steps = state.steps
  BY StampKeeps
<1> QED
  BY <1>1, <1>2, <1>3 DEF FailOpen, RunState

LEMMA FailOpenSteps ==
  ASSUME NEW state \in RunState
  PROVE  \A s \in Steps : FailOpen(state).steps[s] =
           IF state.steps[s] \in Open THEN "failed" ELSE state.steps[s]
BY DEF FailOpen, Stamp, RunState

LEMMA FailOpenKeeps ==
  ASSUME NEW state \in RunState
  PROVE  /\ FailOpen(state).status = state.status
         /\ FailOpen(state).pending = state.pending
         /\ FailOpen(state).password = state.password
         /\ FailOpen(state).uploading = state.uploading
         /\ FailOpen(state).verified = state.verified
         /\ FailOpen(state).evidence = state.evidence
         /\ FailOpen(state).published = state.published
BY DEF FailOpen, Stamp, RunState

\* A new run state is well typed.
LEMMA NewRunFacts == NewRun \in RunState
BY DEF NewRun, RunState, Status, Terminal, Steps, StepState, Evidence, Prepare

-----------------------------------------------------------------------------
(* Type correctness                                                        *)

\* Values the actions store are of their types.
LEMMA ValueTypes ==
  /\ NoChild \in Child
  /\ IsReady \in Evidence /\ NotReady \in Evidence /\ NotIsolated \in Evidence
  /\ \A held \in SUBSET Contents : PartlyRemoved(held) \subseteq SUBSET Contents
  /\ \A c \in Child : ChildEvidence(c) \in Evidence
  /\ Steps = {Prepare, Upload, Restore, Boot, Probe, Cleanup, Complete}
BY DEF NoChild, Child, IsReady, NotReady, NotIsolated, Evidence, PartlyRemoved,
       ChildEvidence, Steps, Prepare, Upload, Restore, Boot, Probe, Cleanup, Complete

\* What a thread that serves a request works on.
LEMMA HandlerTypes ==
  ASSUME TypeOK, NEW h \in Handlers, handler[h].pc # "idle"
  PROVE  /\ handler[h] # Idle
         /\ handler[h] \in [pc : HandlerPC, run : Runs]
         /\ handler[h].run \in Runs
         /\ run[handler[h].run] \in RunState
<1>1. handler[h] # Idle
  BY DEF Idle
<1>2. handler[h] \in [pc : HandlerPC, run : Runs]
  BY <1>1 DEF TypeOK
<1> QED
  BY <1>1, <1>2 DEF TypeOK

\* A handler only changes its own entry.
LEMMA HandlerMoves ==
  ASSUME TypeOK, NEW h \in Handlers, handler[h].pc # "idle",
         NEW pc \in HandlerPC, Goto(h, pc) \/ Reply(h)
  PROVE  handler' \in [Handlers -> {Idle} \union [pc : HandlerPC, run : Runs]]
BY HandlerTypes DEF TypeOK, Goto, Reply

\* Types are kept by each of the concurrent parts: handlers, requests, reaper,
\* execution, child process and manager.
LEMMA InitTypeOK == Init => TypeOK
BY NewRunFacts, ValueTypes DEF Init, Started, TypeOK, ExecPC

LEMMA HandlerTypeOK ==
  ASSUME TypeOK, NEW h \in Handlers, HandlerStep(h) PROVE TypeOK'
<1> DEFINE r == handler[h].run
<1> USE DEF manager, worker, reaper
<1>0. handler[h].pc # "idle"
  BY DEF HandlerStep, PutRefused, PutBegin, PutOpen, PutVerified, PutFailed,
     PutFinish, Start, DeleteTree, DeletePop, Writing
<1>1. r \in Runs /\ run[r] \in RunState
  BY <1>0, HandlerTypes
<1>2. CASE PutBegin(h)
  <2>1. Begin([run[r] EXCEPT !.uploading = TRUE], Upload, TRUE) \in RunState
    <3>1. [run[r] EXCEPT !.uploading = TRUE] \in RunState
      BY <1>1 DEF RunState
    <3> QED
      BY <3>1, BeginType, ValueTypes
  <2>2. run' \in [Runs -> RunState]
    BY <1>1, <1>2, <2>1 DEF PutBegin, TypeOK
  <2>3. handler' \in [Handlers -> {Idle} \union [pc : HandlerPC, run : Runs]]
    BY <1>0, <1>2, HandlerMoves DEF PutBegin, HandlerPC
  <2> QED
    BY <1>2, <2>2, <2>3 DEF PutBegin, TypeOK
<1>r. CASE PutRefused(h)
  BY <1>r DEF PutRefused, TypeOK, Reply
<1>3. CASE PutOpen(h)
  <2>1. handler' \in [Handlers -> {Idle} \union [pc : HandlerPC, run : Runs]]
    BY <1>0, <1>3, HandlerMoves DEF PutOpen, HandlerPC
  <2> QED
    BY <1>1, <1>3, <2>1 DEF PutOpen, TypeOK, Contents, Sensitive
<1>4. CASE PutVerified(h)
  <2>1. handler' \in [Handlers -> {Idle} \union [pc : HandlerPC, run : Runs]]
    BY <1>0, <1>4, HandlerMoves DEF PutVerified, HandlerPC
  <2>2. [run[r] EXCEPT !.uploading = FALSE, !.verified = TRUE] \in RunState
    BY <1>1 DEF RunState
  <2> QED
    BY <1>1, <1>4, <2>1, <2>2 DEF PutVerified, TypeOK
<1>5. CASE PutFailed(h)
  <2>1. [run[r] EXCEPT !.uploading = FALSE, !.verified = FALSE] \in RunState
    BY <1>1 DEF RunState
  <2> QED
    BY <1>1, <1>5, <2>1 DEF PutFailed, TypeOK, Reply
<1>6. CASE PutFinish(h)
  <2>1. FinishStep(run[r], Upload, "passed") \in RunState
    BY <1>1, FinishStepType, ValueTypes DEF StepState
  <2> QED
    BY <1>1, <1>6, <2>1 DEF PutFinish, TypeOK, Reply
<1>7. CASE Start(h)
  BY <1>1, <1>7 DEF Start, TypeOK, ExecPC, Reply
<1>8. CASE DeleteTree(h)
  <2>1. handler' \in [Handlers -> {Idle} \union [pc : HandlerPC, run : Runs]]
    BY <1>0, <1>8, HandlerMoves DEF DeleteTree, HandlerPC
  <2>2. disk' \in [Runs -> SUBSET Contents]
    BY <1>1, <1>8, ValueTypes DEF DeleteTree, TypeOK
  <2> QED
    BY <1>8, <2>1, <2>2 DEF DeleteTree, TypeOK
<1>9. CASE DeletePop(h)
  BY <1>1, <1>9 DEF DeletePop, TypeOK, Reply
<1> QED
  BY <1>2, <1>r, <1>3, <1>4, <1>5, <1>6, <1>7, <1>8, <1>9 DEF HandlerStep

LEMMA RequestTypeOK ==
  ASSUME TypeOK, NEW h \in Handlers, NEW r \in Runs, Request(h, r) PROVE TypeOK'
<1>1. PICK operation \in {"put", "start", "delete_tree"} : Lookup(h, r, operation)
  BY DEF Request, PutLookup, StartLookup, DeleteLookup
<1> QED
  BY <1>1 DEF Lookup, TypeOK, HandlerPC, manager, worker, reaper

LEMMA ReaperTypeOK ==
  ASSUME TypeOK,
         ReaperSelect \/ ReaperPop \/ \E r \in Runs : ReaperTree(r) \/ ReaperTreeFailed(r)
  PROVE  TypeOK'
<1>1. CASE ReaperSelect
  BY <1>1 DEF ReaperSelect, TypeOK, manager, worker
<1>2. CASE ReaperPop
  BY <1>2 DEF ReaperPop, TypeOK, worker
<1>3. ASSUME NEW r \in Runs, ReaperTree(r) PROVE TypeOK'
  BY <1>3 DEF ReaperTree, TypeOK, manager, worker
<1>4. ASSUME NEW r \in Runs, ReaperTreeFailed(r) PROVE TypeOK'
  <2>1. disk' \in [Runs -> SUBSET Contents]
    BY <1>4, ValueTypes DEF ReaperTreeFailed, TypeOK
  <2> QED
    BY <1>4, <2>1 DEF ReaperTreeFailed, TypeOK, manager, worker
<1> QED
  BY <1>1, <1>2, <1>3, <1>4

LEMMA ExecTypeOK ==
  ASSUME TypeOK, NEW r \in Runs, ExecStep(r) PROVE TypeOK'
<1> USE DEF manager, reaper, Advance, Fails
<1>1. run[r] \in RunState
  BY DEF TypeOK
<1>p. \A outcome \in Status : [run[r] EXCEPT !.pending = outcome] \in RunState
  BY <1>1 DEF RunState
<1>2. CASE RestoreBegin(r)
  <2>1. Begin(run[r], Restore, TRUE) \in RunState
    BY <1>1, BeginType, ValueTypes
  <2> QED
    BY <1>2, <2>1 DEF RestoreBegin, TypeOK, ExecPC
<1>3. CASE RestoreOpen(r)
  <2>1. run' \in [Runs -> RunState]
    BY <1>p, <1>3 DEF RestoreOpen, TypeOK, Status, Terminal
  <2> QED
    BY <1>3, <2>1 DEF RestoreOpen, TypeOK, ExecPC, Contents, Sensitive
<1>4. CASE RestoreDone(r)
  <2>1. [run[r] EXCEPT !.password = FALSE] \in RunState
    BY <1>1 DEF RunState
  <2>2. FinishStep([run[r] EXCEPT !.password = FALSE], Restore, "passed") \in RunState
    BY <2>1, FinishStepType, ValueTypes DEF StepState
  <2> QED
    BY <1>4, <2>2 DEF RestoreDone, TypeOK, ExecPC, Contents, Sensitive
<1>5. CASE RestoreFailed(r)
  <2>1. run' \in [Runs -> RunState]
    BY <1>p, <1>5 DEF RestoreFailed, TypeOK, Status, Terminal
  <2> QED
    BY <1>5, <2>1 DEF RestoreFailed, TypeOK, ExecPC
<1>6. CASE SpawnChild(r)
  <2>1. [NoChild EXCEPT !.alive = TRUE] \in Child
    BY DEF NoChild, Child
  <2> QED
    BY <1>6, <2>1 DEF SpawnChild, TypeOK, ExecPC
<1>7. CASE SpawnFailed(r)
  <2>1. run' \in [Runs -> RunState]
    BY <1>p, <1>7 DEF SpawnFailed, TypeOK, Status, Terminal
  <2> QED
    BY <1>7, <2>1 DEF SpawnFailed, TypeOK, ExecPC
<1>8. CASE ObserveProgress(r)
  <2>1. child[r].stage \in Steps
    BY <1>8, ValueTypes DEF ObserveProgress, TypeOK, Child
  <2>2. Begin(run[r], child[r].stage, child[r].stage # Cleanup) \in RunState
    BY <1>1, <2>1, BeginType
  <2> QED
    BY <1>8, <2>2 DEF ObserveProgress, TypeOK, worker
<1>9. CASE ObserveExit(r)
  BY <1>9 DEF ObserveExit, TypeOK, ExecPC
<1>10. CASE WaitTimeout(r)
  <2>1. run' \in [Runs -> RunState]
    BY <1>p, <1>10 DEF WaitTimeout, TypeOK, Status, Terminal
  <2> QED
    BY <1>10, <2>1, ValueTypes DEF WaitTimeout, TypeOK, ExecPC
<1>11. CASE LoadResult(r)
  <2>1. ChildEvidence(child[r]) \in Evidence
    BY ValueTypes DEF TypeOK
  <2>2. \A outcome \in Status, evidence \in Evidence :
          [run[r] EXCEPT !.evidence = evidence, !.pending = outcome] \in RunState
    BY <1>1 DEF RunState
  <2>3. run' \in [Runs -> RunState]
    BY <1>p, <1>11, <2>1, <2>2 DEF LoadResult, TypeOK, Status, Terminal
  <2> QED
    BY <1>11, <2>3, ValueTypes DEF LoadResult, TypeOK, ExecPC
<1>12. CASE FinishBegin(r)
  <2> DEFINE cleared == [run[r] EXCEPT !.password = FALSE]
  <2>1. cleared \in RunState
    BY <1>1 DEF RunState
  <2>2. FailOpen(cleared) \in RunState
    BY <2>1, FailOpenType
  <2>3. Begin(IF run[r].pending = "passed" THEN cleared ELSE FailOpen(cleared),
              Cleanup, run[r].pending = "passed") \in RunState
    BY <2>1, <2>2, BeginType, ValueTypes
  <2> QED
    BY <1>12, <2>3 DEF FinishBegin, TypeOK, ExecPC
<1>13. CASE CleanupDone(r)
  <2>1. FinishStep(run[r], Cleanup, "passed") \in RunState
    BY <1>1, FinishStepType, ValueTypes DEF StepState
  <2> QED
    BY <1>13, <2>1 DEF CleanupDone, TypeOK, ExecPC, Contents
<1>14. CASE CleanupFailed(r)
  <2> DEFINE outcome == IF run[r].pending = "passed" THEN "inconclusive" ELSE run[r].pending
             held == [run[r] EXCEPT !.pending = outcome]
  <2>1. held \in RunState
    BY <1>1 DEF RunState, Status, Terminal
  <2>2. FinishStep(held, Cleanup, "failed") \in RunState
    BY <2>1, FinishStepType, ValueTypes DEF StepState
  <2>3. disk' \in [Runs -> SUBSET Contents]
    BY <1>14, ValueTypes DEF CleanupFailed, TypeOK
  <2>4. run' \in [Runs -> RunState]
    BY <1>14, <2>2 DEF CleanupFailed, TypeOK
  <2> QED
    BY <1>14, <2>3, <2>4 DEF CleanupFailed, TypeOK, ExecPC
<1>15. CASE CompleteStep(r)
  <2>1. Begin(run[r], Complete, TRUE) \in RunState
    BY <1>1, BeginType, ValueTypes
  <2>2. FinishStep(Begin(run[r], Complete, TRUE), Complete, "passed") \in RunState
    BY <2>1, FinishStepType, ValueTypes DEF StepState
  <2>3. FinishStep(run[r], Complete, "failed") \in RunState
    BY <1>1, FinishStepType, ValueTypes DEF StepState
  <2> QED
    BY <1>15, <2>2, <2>3 DEF CompleteStep, TypeOK, ExecPC
<1>16. CASE Publish(r)
  <2>1. run' \in [Runs -> RunState]
    BY <1>1, <1>16 DEF Publish, TypeOK, RunState
  <2> QED
    BY <1>16, <2>1 DEF Publish, TypeOK, ExecPC
<1>17. CASE ThreadExit(r)
  BY <1>17 DEF ThreadExit, TypeOK, ExecPC
<1> QED
  BY <1>2, <1>3, <1>4, <1>5, <1>6, <1>7, <1>8, <1>9, <1>10, <1>11, <1>12, <1>13,
     <1>14, <1>15, <1>16, <1>17 DEF ExecStep

LEMMA ChildTypeOK ==
  ASSUME TypeOK, NEW r \in Runs, ChildStep(r) PROVE TypeOK'
<1>0. child[r] \in Child
  BY DEF TypeOK
<1>1. \A flag \in BOOLEAN :
        /\ [child[r] EXCEPT !.stage = Boot] \in Child
        /\ [child[r] EXCEPT !.stage = Probe, !.isolated = TRUE] \in Child
        /\ [child[r] EXCEPT !.stage = Cleanup, !.ready = flag] \in Child
        /\ [child[r] EXCEPT !.result = TRUE] \in Child
        /\ [child[r] EXCEPT !.alive = FALSE] \in Child
  BY <1>0 DEF Child
<1> USE DEF manager, reaper
<1>2. CASE ChildBoot(r)
  BY <1>1, <1>2 DEF TypeOK, ChildBoot
<1>3. CASE ChildProbe(r)
  <2>1. child' \in [Runs -> Child]
    BY <1>1, <1>3 DEF TypeOK, ChildProbe
  <2>2. milestone' \in [Runs -> 0..3]
    BY <1>3 DEF TypeOK, ChildProbe
  <2> QED
    BY <1>3, <2>1, <2>2 DEF TypeOK, ChildProbe
<1>4. CASE ChildCleanup(r)
  <2>1. PICK ready \in BOOLEAN :
          /\ child' = [child EXCEPT ![r] = [@ EXCEPT !.stage = Cleanup, !.ready = ready]]
          /\ milestone' = [milestone EXCEPT ![r] = IF ready THEN 3 ELSE 2]
    BY <1>4 DEF ChildCleanup
  <2>2. child' \in [Runs -> Child]
    BY <1>1, <2>1 DEF TypeOK
  <2>3. milestone' \in [Runs -> 0..3]
    BY <2>1 DEF TypeOK
  <2> QED
    BY <1>4, <2>2, <2>3 DEF TypeOK, ChildCleanup
<1>5. CASE ChildResult(r)
  BY <1>1, <1>5 DEF TypeOK, ChildResult
<1>6. CASE ChildExit(r)
  BY <1>1, <1>6 DEF TypeOK, ChildExit
<1> QED
  BY <1>2, <1>3, <1>4, <1>5, <1>6 DEF ChildStep

LEMMA ManagerTypeOK ==
  ASSUME TypeOK, Restart \/ \E r \in Runs : Create(r) \/ Age(r) PROVE TypeOK'
<1>1. CASE Restart
  BY <1>1, NewRunFacts, ValueTypes DEF Restart, TypeOK, ExecPC
<1>2. ASSUME NEW r \in Runs, Create(r) PROVE TypeOK'
  <2>1. Begin(NewRun, Prepare, TRUE) \in RunState
    BY NewRunFacts, BeginType, ValueTypes
  <2> QED
    BY <1>2, <2>1 DEF Create, TypeOK, worker, reaper, Contents
<1>3. ASSUME NEW r \in Runs, Age(r) PROVE TypeOK'
  <2>1. run[r] \in RunState
    BY DEF TypeOK
  <2>2. [run[r] EXCEPT !.fresh = FALSE] \in RunState
    BY <2>1 DEF RunState
  <2> QED
    BY <1>3, <2>2 DEF Age, TypeOK, manager, worker, reaper
<1> QED
  BY <1>1, <1>2, <1>3

LEMMA NextTypeOK == TypeOK /\ [Next]_vars => TypeOK'
<1> SUFFICES ASSUME TypeOK, [Next]_vars PROVE TypeOK'
  OBVIOUS
<1>1. CASE UNCHANGED vars
  BY <1>1 DEF vars, manager, worker, reaper, TypeOK
<1>2. CASE Next
  BY <1>2, HandlerTypeOK, RequestTypeOK, ReaperTypeOK, ExecTypeOK, ChildTypeOK,
     ManagerTypeOK DEF Next
<1> QED
  BY <1>1, <1>2

\* TypeOK: every variable keeps its type, and only issued identifiers are
\* registered.
THEOREM TypeCorrect == Spec => []TypeOK
<1> QED
  BY InitTypeOK, NextTypeOK, PTL DEF Spec

-----------------------------------------------------------------------------
(* The invariant of one run                                                *)

\* RunInv(q) reads only some fields of the run state, and fewer sensitive
\* files never break it.
LEMMA RunFrame ==
  ASSUME NEW q \in Runs, RunInv(q),
         run'[q].status = run[q].status, run'[q].pending = run[q].pending,
         run'[q].steps = run[q].steps, run'[q].password = run[q].password,
         run'[q].evidence = run[q].evidence, run'[q].published = run[q].published,
         exec'[q] = exec[q], child'[q] = child[q], milestone'[q] = milestone[q],
         disk'[q] \intersect Sensitive \subseteq disk[q]
  PROVE  RunInv(q)'
<1>1. Phase(q)'
  BY DEF RunInv, Phase
<1>2. StepTable(q)'
  BY DEF RunInv, StepTable
<1>3. Milestone(q)'
  BY DEF RunInv, Milestone
<1>4. Storage(q)'
  BY DEF RunInv, Storage
<1>5. Truthful(q)'
  BY DEF RunInv, Truthful
<1> QED
  BY <1>1, <1>2, <1>3, <1>4, <1>5 DEF RunInv

\* A fresh run satisfies its invariant.
LEMMA FreshRun ==
  ASSUME NEW q \in Runs, exec'[q] = "none", milestone'[q] = 0, ~child'[q].alive,
         run'[q].status = "running", run'[q].pending = "running",
         \A s \in Steps : run'[q].steps[s] \in {"pending", "running"}
  PROVE  RunInv(q)'
BY ValueTypes DEF RunInv, Phase, StepTable, Milestone, Storage, Truthful, Working, Finishing,
       Terminal

\* The execution thread touches its own run alone, and of the manager's state
\* nothing; it never gives up or takes an upload claim.
LEMMA ExecShape ==
  ASSUME TypeOK, NEW r \in Runs, ExecStep(r)
  PROVE  /\ \A q \in Runs \ {r} :
              /\ run'[q] = run[q] /\ exec'[q] = exec[q] /\ child'[q] = child[q]
              /\ milestone'[q] = milestone[q] /\ disk'[q] = disk[q]
         /\ exec[r] # "none" /\ exec'[r] # "none"
         /\ UNCHANGED <<created, registered, handler>>
<1> USE DEF TypeOK, Advance, Fails, manager, reaper, worker
<1>1. CASE RestoreBegin(r) \/ RestoreOpen(r) \/ RestoreDone(r) \/ RestoreFailed(r)
  BY <1>1 DEF RestoreBegin, RestoreOpen, RestoreDone, RestoreFailed
<1>2. CASE SpawnChild(r) \/ SpawnFailed(r) \/ ObserveProgress(r) \/ ObserveExit(r)
  BY <1>2 DEF SpawnChild, SpawnFailed, ObserveProgress, ObserveExit
<1>3. CASE WaitTimeout(r) \/ LoadResult(r) \/ FinishBegin(r)
  BY <1>3 DEF WaitTimeout, LoadResult, FinishBegin
<1>4. CASE CleanupDone(r) \/ CleanupFailed(r) \/ CompleteStep(r) \/ Publish(r) \/ ThreadExit(r)
  BY <1>4 DEF CleanupDone, CleanupFailed, CompleteStep, Publish, ThreadExit
<1> QED
  BY <1>1, <1>2, <1>3, <1>4 DEF ExecStep

\* An error before the deadline or the result leads to _finish_run with the
\* outcome recorded and nothing else changed.
LEMMA FailsRunInv ==
  ASSUME TypeOK, NEW r \in Runs, RunInv(r), exec[r] \in Working \ {"begin"},
         NEW outcome \in Terminal \ {"passed"},
         run' = [run EXCEPT ![r] = [@ EXCEPT !.pending = outcome]],
         exec' = [exec EXCEPT ![r] = "finish"],
         ~child'[r].alive, milestone'[r] = milestone[r]
  PROVE  RunInv(r)'
<1>1. /\ run'[r] = [run[r] EXCEPT !.pending = outcome]
      /\ run[r] \in RunState /\ exec'[r] = "finish"
  BY DEF TypeOK
<1>2. /\ run'[r].pending = outcome /\ run'[r].status = run[r].status
      /\ run'[r].steps = run[r].steps
  BY <1>1 DEF RunState
<1>3. Phase(r)'
  BY <1>1, <1>2 DEF RunInv, Phase, Working, Finishing, Terminal
<1>4. StepTable(r)' /\ Storage(r)'
  BY <1>1, <1>2 DEF RunInv, StepTable, Storage, Working, Finishing
<1>5. Milestone(r)'
  BY <1>1, <1>2 DEF RunInv, Milestone, Working
<1>6. Truthful(r)'
  BY <1>2 DEF RunInv, Truthful
<1> QED
  BY <1>3, <1>4, <1>5, <1>6 DEF RunInv

\* Up to the isolated start.
LEMMA RestoreRunInv ==
  ASSUME TypeOK, NEW r \in Runs, RunInv(r),
         RestoreBegin(r) \/ RestoreOpen(r) \/ RestoreDone(r) \/ RestoreFailed(r)
  PROVE  RunInv(r)'
<1> USE DEF Advance, Fails
<1>1. run[r] \in RunState /\ Restore \in Steps /\ Upload \in Steps /\ TRUE \in BOOLEAN
  BY ValueTypes DEF TypeOK
<1>0. /\ exec[r] \in Working /\ ~child[r].alive
      /\ ~RestoreBegin(r) => exec[r] # "begin"
  BY DEF RunInv, Milestone, Working, RestoreBegin, RestoreOpen, RestoreDone, RestoreFailed
<1>2. CASE RestoreBegin(r)
  <2> DEFINE begun == Begin(run[r], Restore, TRUE)
  <2>1. /\ run'[r] = begun
        /\ exec[r] = "begin" /\ exec'[r] = "open"
        /\ UNCHANGED <<child, milestone, disk>>
    BY <1>2 DEF RestoreBegin, TypeOK
  <2>2. /\ \A s \in Steps : begun.steps[s] =
              IF s = Restore THEN "running"
              ELSE IF s < Restore /\ run[r].steps[s] \in Open THEN "passed"
              ELSE run[r].steps[s]
        /\ begun.status = run[r].status /\ begun.pending = run[r].pending
    BY <1>1, BeginSteps, BeginKeeps
  <2>3. \A s \in Steps : run[r].steps[s] \in StepState /\ run[r].steps[s] # "failed"
    BY <1>1, <2>1 DEF RunInv, StepTable, Finishing, RunState
  <2> HIDE DEF begun
  <2>5. \A s \in Steps : begun.steps[s] # "failed"
    BY <2>2, <2>3
  <2>4. /\ begun.steps[Upload] = "passed"
        /\ begun.steps[Restore] = "running"
        /\ begun.steps[Boot] = run[r].steps[Boot]
        /\ begun.steps[Probe] = run[r].steps[Probe]
    BY <2>2, <2>3, ValueTypes DEF Open, StepState, Upload, Restore, Boot, Probe
  <2> QED
    <3>1. Phase(r)'
      BY <2>1, <2>2 DEF RunInv, Phase, Working, Finishing
    <3>2. StepTable(r)' /\ Storage(r)'
      BY <2>1, <2>4, <2>5 DEF RunInv, StepTable, Storage, Finishing
    <3>3. Milestone(r)' /\ Truthful(r)'
      BY <2>1, <2>2, <2>4 DEF RunInv, Phase, Milestone, Truthful, Working
    <3> QED
      BY <3>1, <3>2, <3>3 DEF RunInv
<1>3. CASE RestoreOpen(r)
  <2>1. CASE "archive" \in disk[r]
    <3>1. /\ exec[r] = "open" /\ exec'[r] = "extract"
          /\ UNCHANGED <<run, child, milestone>>
      BY <1>3, <2>1 DEF RestoreOpen, TypeOK
    <3> QED
      BY <3>1 DEF RunInv, Phase, StepTable, Milestone, Storage, Truthful, Working, Finishing
  <2>2. CASE "archive" \notin disk[r]
    BY <1>0, <1>3, <2>2, FailsRunInv DEF RestoreOpen, Terminal
  <2> QED
    BY <2>1, <2>2
<1>4. CASE RestoreDone(r)
  <2> DEFINE cleared  == [run[r] EXCEPT !.password = FALSE]
             restored == FinishStep(cleared, Restore, "passed")
  <2>1. /\ run'[r] = restored
        /\ exec[r] = "extract" /\ exec'[r] = "spawn" /\ milestone'[r] = 1
        /\ UNCHANGED child
    BY <1>4 DEF RestoreDone, TypeOK
  <2>2. cleared \in RunState /\ cleared.status = run[r].status
        /\ cleared.pending = run[r].pending /\ cleared.steps = run[r].steps
    BY <1>1 DEF RunState
  <2>3. "passed" \in StepState
    BY DEF StepState
  <2> HIDE DEF cleared
  <2>4. restored.status = run[r].status /\ restored.pending = run[r].pending
    BY <1>1, <2>2, <2>3, FinishStepKeeps
  <2>6. \A s \in Steps : restored.steps[s] = IF s = Restore THEN "passed" ELSE run[r].steps[s]
    BY <1>1, <2>2, <2>3, FinishStepSteps
  <2>7. /\ restored.steps[Upload] = run[r].steps[Upload]
        /\ restored.steps[Boot] = run[r].steps[Boot]
        /\ restored.steps[Probe] = run[r].steps[Probe]
    BY <2>6, ValueTypes DEF Upload, Restore, Boot, Probe
  <2> HIDE DEF restored
  <2>8. Phase(r)'
    BY <2>1, <2>4 DEF RunInv, Phase, Working, Finishing
  <2>9. StepTable(r)' /\ Storage(r)'
    BY <2>1, <2>6, <2>7 DEF RunInv, StepTable, Storage, Finishing
  <2>10. Milestone(r)' /\ Truthful(r)'
    BY <2>1, <2>4, <2>7 DEF RunInv, Phase, Milestone, Truthful, Working
  <2> QED
    BY <2>8, <2>9, <2>10 DEF RunInv
<1>5. CASE RestoreFailed(r)
  BY <1>0, <1>5, FailsRunInv DEF RestoreFailed, Terminal
<1> QED
  BY <1>2, <1>3, <1>4, <1>5

\* The isolated start and its supervision.
LEMMA WaitRunInv ==
  ASSUME TypeOK, NEW r \in Runs, RunInv(r),
         \/ SpawnChild(r) \/ SpawnFailed(r) \/ ObserveProgress(r)
         \/ ObserveExit(r) \/ WaitTimeout(r) \/ LoadResult(r)
  PROVE  RunInv(r)'
<1> USE DEF Advance, Fails
<1>1. run[r] \in RunState /\ child[r] \in Child
  BY DEF TypeOK
<1>2. CASE SpawnChild(r)
  <2>1. /\ exec[r] = "spawn" /\ exec'[r] = "wait" /\ UNCHANGED <<run, disk, milestone>>
        /\ child'[r] = [NoChild EXCEPT !.alive = TRUE]
    BY <1>2 DEF SpawnChild, TypeOK
  <2>2. child'[r].stage = 0 /\ ~child'[r].ready
    BY <2>1 DEF NoChild
  <2> QED
    BY <2>1, <2>2 DEF RunInv, Phase, StepTable, Milestone, Storage, Truthful, Working,
       Finishing, Boot, Probe, Cleanup
<1>3. CASE SpawnFailed(r)
  BY <1>3, FailsRunInv DEF SpawnFailed, RunInv, Milestone, Working, Terminal
<1>4. CASE ObserveProgress(r)
  <2> DEFINE stage   == child[r].stage
             promote == stage # Cleanup
             begun   == Begin(run[r], stage, promote)
  <2>0. Upload \in Steps /\ Restore \in Steps /\ Boot \in Steps /\ Probe \in Steps
    BY ValueTypes
  <2>1. /\ run'[r] = begun /\ exec[r] = "wait" /\ stage # 0
        /\ UNCHANGED <<exec, child, milestone, disk>>
    BY <1>4 DEF ObserveProgress, TypeOK, worker
  <2>2. stage \in {Boot, Probe, Cleanup} /\ stage \in Steps
    BY <1>1, <2>1, ValueTypes DEF Child
  <2>p. promote \in BOOLEAN /\ (promote <=> stage # Cleanup)
    OBVIOUS
  <2> HIDE DEF promote
  <2>3. \A s \in Steps : begun.steps[s] =
          IF s = stage THEN "running"
          ELSE IF promote /\ s < stage /\ run[r].steps[s] \in Open THEN "passed"
          ELSE run[r].steps[s]
    BY <1>1, <2>2, <2>p, BeginSteps
  <2>4. /\ begun.status = run[r].status /\ begun.pending = run[r].pending
        /\ begun.evidence = run[r].evidence
    BY <1>1, <2>2, <2>p, BeginKeeps
  <2>5. \A s \in Steps : run[r].steps[s] # "failed"
    BY <2>1 DEF RunInv, StepTable, Finishing
  <2> HIDE DEF begun
  <2>6. /\ \A s \in Steps : begun.steps[s] # "failed"
    BY <2>3, <2>5
  <2>7. run[r].steps[Upload] = "passed"
    BY <2>1 DEF RunInv, StepTable
  <2>8. begun.steps[Upload] = "passed"
    BY <2>0, <2>2, <2>3, <2>7 DEF Open, Upload, Boot, Probe, Cleanup
  <2>9. Phase(r)'
    BY <2>1, <2>4 DEF RunInv, Phase, Working, Finishing
  <2>10. StepTable(r)' /\ Storage(r)'
    BY <2>1, <2>6, <2>8 DEF RunInv, StepTable, Storage, Finishing
  <2>11. Milestone(r)'
    BY <2>1, <2>4 DEF RunInv, Milestone
  <2>12. ASSUME stage = Boot PROVE Truthful(r)'
    <3>1. milestone[r] = 1
      BY <2>1, <2>12 DEF RunInv, Milestone
    <3>2. begun.steps[Boot] = "running"
      BY <2>0, <2>3, <2>12
    <3>3. begun.steps[Probe] = run[r].steps[Probe]
      BY <2>0, <2>3, <2>12 DEF Boot, Probe
    <3> QED
      BY <2>1, <3>1, <3>2, <3>3 DEF RunInv, Truthful
  <2>13. ASSUME stage = Probe PROVE Truthful(r)'
    <3>1. milestone[r] = 2
      BY <2>1, <2>13 DEF RunInv, Milestone, Boot, Probe
    <3>2. begun.steps[Probe] = "running"
      BY <2>0, <2>3, <2>13
    <3> QED
      BY <2>1, <3>1, <3>2 DEF RunInv, Truthful
  <2>14. ASSUME stage = Cleanup PROVE Truthful(r)'
    <3>1. /\ begun.steps[Restore] = run[r].steps[Restore]
          /\ begun.steps[Boot] = run[r].steps[Boot]
          /\ begun.steps[Probe] = run[r].steps[Probe]
      BY <2>0, <2>p, <2>3, <2>14 DEF Restore, Boot, Probe, Cleanup
    <3> QED
      BY <2>1, <3>1 DEF RunInv, Truthful
  <2> QED
    BY <2>2, <2>9, <2>10, <2>11, <2>12, <2>13, <2>14 DEF RunInv
<1>5. CASE ObserveExit(r)
  <2>1. /\ exec[r] = "wait" /\ exec'[r] = "load" /\ ~child[r].alive
        /\ UNCHANGED <<run, child, milestone, disk>>
    BY <1>5 DEF ObserveExit, TypeOK
  <2> QED
    BY <2>1 DEF RunInv, Phase, StepTable, Milestone, Storage, Truthful, Working, Finishing
<1>6. CASE WaitTimeout(r)
  <2>1. ~child'[r].alive
    BY <1>6 DEF WaitTimeout, TypeOK, NoChild
  <2> QED
    BY <1>6, <2>1, FailsRunInv DEF WaitTimeout, Working, Terminal
<1>7. CASE LoadResult(r)
  <2> DEFINE evidence == ChildEvidence(child[r])
             passed == evidence.ready /\ evidence.isolation /\ evidence.recovery
             outcome == IF passed THEN "passed" ELSE "failed"
  <2>1. /\ exec[r] = "load" /\ exec'[r] = "finish" /\ ~child'[r].alive
        /\ UNCHANGED <<milestone, disk>>
        /\ \/ run'[r] = [run[r] EXCEPT !.evidence = evidence, !.pending = outcome]
           \/ run'[r] = [run[r] EXCEPT !.pending = "failed"]
    BY <1>7 DEF LoadResult, TypeOK, NoChild
  <2>2. passed => evidence = IsReady /\ child[r].ready
    BY DEF ChildEvidence, IsReady, NotReady, NotIsolated
  <2>3. child[r].ready => milestone[r] = 3
    BY <1>1, <2>1 DEF RunInv, Milestone, Child, Boot, Probe, Cleanup
  <2>4. /\ run'[r].status = run[r].status /\ run'[r].steps = run[r].steps
        /\ run'[r].pending \in {"passed", "failed"}
    BY <1>1, <2>1 DEF RunState
  <2>5. run'[r].pending = "passed" => passed /\ run'[r].evidence = evidence
    BY <1>1, <2>1 DEF RunState
  <2> HIDE DEF passed, evidence, outcome
  <2>6. Phase(r)'
    BY <2>1, <2>4 DEF RunInv, Phase, Working, Finishing, Terminal
  <2>7. StepTable(r)' /\ Storage(r)'
    BY <2>1, <2>4 DEF RunInv, StepTable, Storage, Finishing
  <2>8. Milestone(r)'
    BY <2>1, <2>2, <2>3, <2>5 DEF RunInv, Milestone
  <2>9. Truthful(r)'
    BY <2>1, <2>4 DEF RunInv, Truthful
  <2> QED
    BY <2>6, <2>7, <2>8, <2>9 DEF RunInv
<1> QED
  BY <1>2, <1>3, <1>4, <1>5, <1>6, <1>7

\* Clearing the password changes nothing else.
LEMMA ClearedFacts ==
  ASSUME NEW state \in RunState
  PROVE  LET cleared == [state EXCEPT !.password = FALSE] IN
         /\ cleared \in RunState
         /\ cleared.status = state.status /\ cleared.pending = state.pending
         /\ cleared.steps = state.steps /\ cleared.evidence = state.evidence
         /\ cleared.password = FALSE
BY DEF RunState

\* _finish_run: what was open is closed by the outcome, then the clean-up
\* begins.
LEMMA FinishBeginRunInv ==
  ASSUME TypeOK, NEW r \in Runs, RunInv(r), FinishBegin(r) PROVE RunInv(r)'
<1> DEFINE passed  == run[r].pending = "passed"
           cleared == [run[r] EXCEPT !.password = FALSE]
           closed  == IF passed THEN cleared ELSE FailOpen(cleared)
           begun   == Begin(closed, Cleanup, passed)
<1>1. run[r] \in RunState /\ Cleanup \in Steps
  BY ValueTypes DEF TypeOK
<1>2. /\ run'[r] = begun /\ exec[r] = "finish" /\ exec'[r] = "cleanup"
      /\ UNCHANGED <<child, milestone, disk>>
  BY DEF FinishBegin, Advance, TypeOK
<1>3. /\ cleared \in RunState
      /\ cleared.status = run[r].status /\ cleared.pending = run[r].pending
      /\ cleared.steps = run[r].steps /\ cleared.evidence = run[r].evidence
      /\ cleared.password = FALSE
  BY <1>1, ClearedFacts
<1>4. passed \in BOOLEAN
  OBVIOUS
<1> HIDE DEF cleared
<1>5. /\ closed \in RunState
      /\ closed.status = run[r].status /\ closed.pending = run[r].pending
      /\ closed.password = FALSE /\ closed.evidence = run[r].evidence
  <2>1. CASE passed
    BY <1>3, <2>1
  <2>2. CASE ~passed
    BY <1>3, <2>2, FailOpenType, FailOpenKeeps
  <2> QED
    BY <2>1, <2>2
<1>6. \A s \in Steps : closed.steps[s] =
        IF ~passed /\ run[r].steps[s] \in Open THEN "failed" ELSE run[r].steps[s]
  <2>1. CASE passed
    BY <1>3, <2>1
  <2>2. CASE ~passed
    BY <1>3, <2>2, FailOpenSteps
  <2> QED
    BY <2>1, <2>2
<1> HIDE DEF closed
<1>p. passed <=> run[r].pending = "passed"
  OBVIOUS
<1> HIDE DEF passed
<1>7. /\ begun.status = run[r].status /\ begun.pending = run[r].pending
      /\ begun.password = FALSE /\ begun.evidence = run[r].evidence
  BY <1>1, <1>4, <1>5, BeginKeeps
<1>8. \A s \in Steps : begun.steps[s] =
        IF s = Cleanup THEN "running"
        ELSE IF passed /\ s < Cleanup /\ closed.steps[s] \in Open THEN "passed"
        ELSE closed.steps[s]
  BY <1>1, <1>4, <1>5, BeginSteps
<1> HIDE DEF begun
<1>9. \A s \in Steps : run[r].steps[s] \in {"pending", "running", "passed"}
  BY <1>1, <1>2 DEF RunInv, StepTable, Finishing, RunState, StepState
<1>10. Upload \in Steps /\ Restore \in Steps /\ Boot \in Steps /\ Probe \in Steps
  BY ValueTypes
<1>11. Phase(r)'
  BY <1>2, <1>7 DEF RunInv, Phase, Working, Finishing, Terminal
<1>12. Milestone(r)'
  BY <1>2, <1>7 DEF RunInv, Milestone
<1>13. Storage(r)'
  BY <1>2 DEF Storage
<1>14. StepTable(r)'
  <2>1. \A s \in Steps : s < Cleanup =>
          /\ begun.steps[s] \notin Open
          /\ passed => begun.steps[s] = "passed"
          /\ run[r].steps[s] = "passed" => begun.steps[s] = "passed"
    BY <1>6, <1>8, <1>9 DEF Open, Cleanup
  <2>2. run[r].steps[Upload] = "passed"
    BY <1>2 DEF RunInv, StepTable
  <2>3. begun.steps[Upload] = "passed"
    BY <1>10, <2>1, <2>2 DEF Upload, Cleanup
  <2> QED
    BY <1>2, <1>p, <1>7, <2>1, <2>3 DEF StepTable, Finishing
<1>15. Truthful(r)'
  <2>1. CASE passed
    BY <1>2, <1>p, <2>1 DEF RunInv, Milestone, Truthful
  <2>2. CASE ~passed
    <3>1. \A s \in {Restore, Boot, Probe} : begun.steps[s] = "passed" => run[r].steps[s] = "passed"
      BY <1>6, <1>8, <1>10, <2>2 DEF Restore, Boot, Probe, Cleanup
    <3> QED
      BY <1>2, <3>1 DEF RunInv, Truthful
  <2> QED
    BY <2>1, <2>2
<1> QED
  BY <1>11, <1>12, <1>13, <1>14, <1>15 DEF RunInv

\* The clean-up is recorded with its result; a failure takes "passed" back.
LEMMA CleanupRunInv ==
  ASSUME TypeOK, NEW r \in Runs, RunInv(r), CleanupDone(r) \/ CleanupFailed(r)
  PROVE  RunInv(r)'
<1>0. /\ run[r] \in RunState /\ Cleanup \in Steps /\ Upload \in Steps
      /\ "passed" \in StepState /\ "failed" \in StepState
      /\ Restore \in Steps /\ Boot \in Steps /\ Probe \in Steps
  BY ValueTypes DEF TypeOK, StepState
<1>1. PICK base \in RunState, result \in {"passed", "failed"} :
        /\ exec[r] = "cleanup" /\ exec'[r] = "complete" /\ UNCHANGED <<child, milestone>>
        /\ run'[r] = FinishStep(base, Cleanup, result)
        /\ base.status = run[r].status /\ base.steps = run[r].steps
        /\ base.password = run[r].password /\ base.evidence = run[r].evidence
        /\ base.pending = IF result = "failed" /\ run[r].pending = "passed"
                            THEN "inconclusive" ELSE run[r].pending
        /\ result = "passed" => disk'[r] = {"dir"}
  <2>1. CASE CleanupDone(r)
    BY <1>0, <2>1 DEF CleanupDone, Advance, TypeOK
  <2>2. CASE CleanupFailed(r)
    <3> DEFINE outcome == IF run[r].pending = "passed" THEN "inconclusive" ELSE run[r].pending
               base    == [run[r] EXCEPT !.pending = outcome]
    <3>1. /\ exec[r] = "cleanup" /\ exec'[r] = "complete" /\ UNCHANGED <<child, milestone>>
          /\ run'[r] = FinishStep(base, Cleanup, "failed")
      BY <2>2 DEF CleanupFailed, Advance, TypeOK
    <3>2. /\ base \in RunState /\ base.pending = outcome
          /\ base.status = run[r].status /\ base.steps = run[r].steps
          /\ base.password = run[r].password /\ base.evidence = run[r].evidence
      BY <1>0 DEF RunState, Status, Terminal
    <3> HIDE DEF base
    <3> QED
      BY <3>1, <3>2
  <2> QED
    BY <2>1, <2>2
<1> DEFINE closed == FinishStep(base, Cleanup, result)
<1>2. result \in StepState
  BY <1>0
<1>3. /\ closed.status = run[r].status /\ closed.pending = base.pending
      /\ closed.password = run[r].password /\ closed.evidence = run[r].evidence
  BY <1>0, <1>1, <1>2, FinishStepKeeps
<1>4. \A s \in Steps : closed.steps[s] = IF s = Cleanup THEN result ELSE run[r].steps[s]
  BY <1>0, <1>1, <1>2, FinishStepSteps
<1> HIDE DEF closed
<1>5. run'[r] = closed
  BY <1>1 DEF closed
<1>6. Phase(r)'
  BY <1>1, <1>3, <1>5 DEF RunInv, Phase, Working, Finishing, Terminal
<1>7. Milestone(r)'
  BY <1>1, <1>3, <1>5 DEF RunInv, Milestone
<1>8. Storage(r)'
  BY <1>0, <1>1, <1>4, <1>5 DEF Storage, Sensitive
<1>9. StepTable(r)'
  <2>1. \A s \in Steps : s < Cleanup => closed.steps[s] = run[r].steps[s]
    BY <1>4 DEF Cleanup
  <2>2. closed.steps[Cleanup] = result /\ closed.steps[Upload] = run[r].steps[Upload]
    BY <1>0, <1>4 DEF Cleanup, Upload
  <2> QED
    BY <1>1, <1>3, <1>5, <2>1, <2>2 DEF RunInv, StepTable, Finishing, Open
<1>10. Truthful(r)'
  <2>1. /\ closed.steps[Restore] = run[r].steps[Restore]
        /\ closed.steps[Boot] = run[r].steps[Boot]
        /\ closed.steps[Probe] = run[r].steps[Probe]
    BY <1>0, <1>4 DEF Restore, Boot, Probe, Cleanup
  <2> QED
    BY <1>1, <1>5, <2>1 DEF RunInv, Truthful
<1> QED
  BY <1>6, <1>7, <1>8, <1>9, <1>10 DEF RunInv

\* The last step follows the outcome.
LEMMA CompleteRunInv ==
  ASSUME TypeOK, NEW r \in Runs, RunInv(r), CompleteStep(r) PROVE RunInv(r)'
<1> DEFINE passed == run[r].pending = "passed"
           begun  == Begin(run[r], Complete, TRUE)
           base   == IF passed THEN begun ELSE run[r]
           result == IF passed THEN "passed" ELSE "failed"
           closed == FinishStep(base, Complete, result)
<1>0. /\ run[r] \in RunState /\ Complete \in Steps /\ Cleanup \in Steps /\ Upload \in Steps
      /\ Restore \in Steps /\ Boot \in Steps /\ Probe \in Steps
      /\ result \in StepState
  BY ValueTypes DEF TypeOK, StepState
<1>1. /\ exec[r] = "complete" /\ exec'[r] = "publish" /\ UNCHANGED <<child, milestone, disk>>
      /\ run'[r] = closed
  BY DEF CompleteStep, Advance, TypeOK
<1>2. /\ begun \in RunState
      /\ begun.status = run[r].status /\ begun.pending = run[r].pending
      /\ begun.password = run[r].password /\ begun.evidence = run[r].evidence
  BY <1>0, BeginType, BeginKeeps
<1>3. \A s \in Steps : run[r].steps[s] \notin Open \/ s = Complete
  BY <1>0, <1>1 DEF RunInv, StepTable, Finishing, Steps, Cleanup, Complete
<1>4. \A s \in Steps : s = Complete \/ begun.steps[s] = run[r].steps[s]
  BY <1>0, <1>3, BeginSteps
<1> HIDE DEF begun
<1>5. /\ base \in RunState
      /\ base.status = run[r].status /\ base.pending = run[r].pending
      /\ base.password = run[r].password /\ base.evidence = run[r].evidence
  BY <1>0, <1>2
<1>6. \A s \in Steps : s = Complete \/ base.steps[s] = run[r].steps[s]
  BY <1>4
<1>p. /\ result = "passed" <=> run[r].pending = "passed"
      /\ result \in {"passed", "failed"}
  OBVIOUS
<1> HIDE DEF base, result
<1>7. /\ closed.status = run[r].status /\ closed.pending = run[r].pending
      /\ closed.password = run[r].password /\ closed.evidence = run[r].evidence
  BY <1>0, <1>5, FinishStepKeeps
<1>8. \A s \in Steps : closed.steps[s] = IF s = Complete THEN result ELSE base.steps[s]
  BY <1>0, <1>5, FinishStepSteps
<1> HIDE DEF closed
<1>9. \A s \in Steps : closed.steps[s] = IF s = Complete THEN result ELSE run[r].steps[s]
  BY <1>6, <1>8
<1>10. /\ \A s \in Steps : s < Cleanup => closed.steps[s] = run[r].steps[s]
       /\ closed.steps[Complete] = result
  BY <1>0, <1>9 DEF Cleanup, Complete
<1>11. /\ closed.steps[Cleanup] = run[r].steps[Cleanup]
       /\ closed.steps[Upload] = run[r].steps[Upload]
  BY <1>0, <1>9 DEF Cleanup, Complete, Upload
<1>12. /\ closed.steps[Restore] = run[r].steps[Restore]
       /\ closed.steps[Boot] = run[r].steps[Boot]
       /\ closed.steps[Probe] = run[r].steps[Probe]
  BY <1>0, <1>9 DEF Restore, Boot, Probe, Complete
<1>13. Phase(r)'
  BY <1>1, <1>7 DEF RunInv, Phase, Working, Finishing, Terminal
<1>14. Milestone(r)'
  BY <1>1, <1>7 DEF RunInv, Milestone
<1>15. Storage(r)'
  BY <1>1, <1>11 DEF RunInv, Storage, Finishing
<1>16. StepTable(r)'
  BY <1>1, <1>p, <1>7, <1>10, <1>11 DEF RunInv, StepTable, Finishing
<1>17. Truthful(r)'
  BY <1>1, <1>12 DEF RunInv, Truthful
<1> QED
  BY <1>13, <1>14, <1>15, <1>16, <1>17 DEF RunInv

\* The outcome becomes the status; then the thread ends.
LEMMA PublishRunInv ==
  ASSUME TypeOK, NEW r \in Runs, RunInv(r), Publish(r) \/ ThreadExit(r)
  PROVE  RunInv(r)'
<1>1. run[r] \in RunState
  BY DEF TypeOK
<1>2. CASE Publish(r)
  <2>1. /\ exec[r] = "publish" /\ exec'[r] = "exit" /\ UNCHANGED <<child, milestone, disk>>
        /\ run'[r] = [run[r] EXCEPT !.published = TRUE, !.status = run[r].pending]
    BY <1>2 DEF Publish, Advance, TypeOK
  <2>2. /\ run'[r].published /\ run'[r].status = run[r].pending
        /\ run'[r].pending = run[r].pending /\ run'[r].steps = run[r].steps
        /\ run'[r].password = run[r].password /\ run'[r].evidence = run[r].evidence
    BY <1>1, <2>1 DEF RunState
  <2>3. Phase(r)'
    BY <2>1, <2>2 DEF RunInv, Phase, Working, Finishing
  <2>4. StepTable(r)' /\ Storage(r)'
    BY <2>1, <2>2 DEF RunInv, StepTable, Storage, Finishing
  <2>5. Milestone(r)' /\ Truthful(r)'
    BY <2>1, <2>2 DEF RunInv, Milestone, Truthful
  <2> QED
    BY <2>3, <2>4, <2>5 DEF RunInv
<1>3. CASE ThreadExit(r)
  <2>1. /\ exec[r] = "exit" /\ exec'[r] = "dead" /\ UNCHANGED <<run, child, milestone, disk>>
    BY <1>3 DEF ThreadExit, Advance, TypeOK
  <2> QED
    BY <2>1 DEF RunInv, Phase, StepTable, Milestone, Storage, Truthful, Working, Finishing
<1> QED
  BY <1>2, <1>3

\* The execution keeps what is said of its run.
LEMMA ExecRunInv ==
  ASSUME TypeOK, NEW r \in Runs, RunInv(r), ExecStep(r) PROVE RunInv(r)'
BY RestoreRunInv, WaitRunInv, FinishBeginRunInv, CleanupRunInv, CompleteRunInv,
   PublishRunInv DEF ExecStep

\* The child acts only while its execution waits for it.
LEMMA ChildRunInv ==
  ASSUME TypeOK, NEW r \in Runs, RunInv(r), ChildStep(r) PROVE RunInv(r)'
<1>1. child[r] \in Child /\ milestone[r] \in 0..3
  BY DEF TypeOK
<1>2. /\ UNCHANGED <<run, exec, disk>> /\ child[r].alive /\ exec[r] = "wait"
  BY DEF ChildStep, ChildBoot, ChildProbe, ChildCleanup, ChildResult, ChildExit,
     RunInv, Milestone
<1>3. run[r].pending # "passed"
  BY <1>2 DEF RunInv, Phase, Working
<1>4. Milestone(r)' /\ milestone'[r] \in {milestone[r], 2, 3}
      /\ (milestone'[r] # milestone[r] => milestone[r] < milestone'[r])
  <2>1. CASE ChildBoot(r)
    <3>1. /\ child'[r] = [child[r] EXCEPT !.stage = Boot] /\ child[r].stage = 0
          /\ UNCHANGED milestone
      BY <2>1 DEF ChildBoot, TypeOK
    <3>2. child'[r].stage = Boot /\ child'[r].ready = child[r].ready
      BY <1>1, <3>1 DEF Child
    <3> QED
      BY <1>2, <3>1, <3>2 DEF RunInv, Milestone, Boot, Probe, Cleanup
  <2>2. CASE ChildProbe(r)
    <3>1. /\ child'[r] = [child[r] EXCEPT !.stage = Probe, !.isolated = TRUE]
          /\ child[r].stage = Boot /\ milestone'[r] = 2
      BY <2>2 DEF ChildProbe, TypeOK
    <3>2. child'[r].stage = Probe /\ child'[r].ready = child[r].ready
      BY <1>1, <3>1 DEF Child
    <3> QED
      BY <1>2, <1>3, <3>1, <3>2 DEF RunInv, Milestone, Boot, Probe, Cleanup
  <2>3. CASE ChildCleanup(r)
    <3>1. PICK ready \in BOOLEAN :
            /\ child'[r] = [child[r] EXCEPT !.stage = Cleanup, !.ready = ready]
            /\ child[r].stage = Probe /\ milestone'[r] = IF ready THEN 3 ELSE 2
      BY <2>3 DEF ChildCleanup, TypeOK
    <3>2. child'[r].stage = Cleanup /\ child'[r].ready = ready
      BY <1>1, <3>1 DEF Child
    <3> QED
      BY <1>2, <1>3, <3>1, <3>2 DEF RunInv, Milestone, Boot, Probe, Cleanup
  <2>4. CASE ChildResult(r) \/ ChildExit(r)
    <3>1. /\ \/ child'[r] = [child[r] EXCEPT !.result = TRUE]
             \/ child'[r] = [child[r] EXCEPT !.alive = FALSE]
          /\ UNCHANGED milestone
      BY <2>4 DEF ChildResult, ChildExit, TypeOK
    <3>2. child'[r].stage = child[r].stage /\ child'[r].ready = child[r].ready
      BY <1>1, <3>1 DEF Child
    <3> QED
      BY <1>1, <1>2, <3>1, <3>2 DEF RunInv, Milestone
  <2> QED
    BY <2>1, <2>2, <2>3, <2>4 DEF ChildStep
<1>5. Phase(r)' /\ StepTable(r)' /\ Storage(r)'
  BY <1>2 DEF RunInv, Phase, StepTable, Storage
<1>6. Truthful(r)'
  BY <1>1, <1>2, <1>4 DEF RunInv, Truthful
<1> QED
  BY <1>4, <1>5, <1>6 DEF RunInv

\* The child process changes only what it reports.
LEMMA ChildShape ==
  ASSUME TypeOK, NEW r \in Runs, ChildStep(r)
  PROVE  /\ \A q \in Runs \ {r} : child'[q] = child[q] /\ milestone'[q] = milestone[q]
         /\ UNCHANGED <<manager, run, exec, disk, handler, reaper>>
BY DEF TypeOK, ChildStep, ChildBoot, ChildProbe, ChildCleanup, ChildResult, ChildExit

-----------------------------------------------------------------------------
(* The claims of the handler threads                                       *)

\* The claims depend on the handlers, the two upload flags and on which runs
\* were started.
LEMMA ClaimsFrame ==
  ASSUME TypeOK, Claims, UNCHANGED handler,
         \A q \in Runs : /\ run'[q].uploading = run[q].uploading
                         /\ run'[q].verified = run[q].verified
                         /\ exec'[q] # "none" => exec[q] # "none"
  PROVE  Claims'
<1>1. \A h \in Handlers : handler[h].pc \in Writing \union {"put_finish"} =>
        handler[h].run \in Runs
  BY HandlerTypes DEF Writing
<1> QED
  BY <1>1 DEF Claims

\* What a handler step does to the runs: one run at most, of which only the
\* upload flags, the upload step or the directory change.
LEMMA HandlerRunInv ==
  ASSUME IInv, NEW h \in Handlers, HandlerStep(h), NEW q \in Runs
  PROVE  RunInv(q)'
<1> DEFINE r == handler[h].run
<1> USE DEF manager, worker, reaper
<1>0. TypeOK /\ Claims /\ RunInv(q)
  BY DEF IInv
<1>1. handler[h].pc # "idle"
  BY DEF HandlerStep, PutRefused, PutBegin, PutOpen, PutVerified, PutFailed, PutFinish, Start,
     DeleteTree, DeletePop, Writing
<1>2. r \in Runs /\ run[r] \in RunState /\ Upload \in Steps
  BY <1>0, <1>1, HandlerTypes, ValueTypes
<1>r. CASE PutRefused(h)
  BY <1>0, <1>r, RunFrame DEF PutRefused
<1>3. CASE PutBegin(h)
  <2> DEFINE claimed == [run[r] EXCEPT !.uploading = TRUE]
             begun   == Begin(claimed, Upload, TRUE)
  <2>1. /\ run' = [run EXCEPT ![r] = begun] /\ exec[r] = "none"
        /\ UNCHANGED <<exec, child, milestone, disk>>
    BY <1>3 DEF PutBegin
  <2>2. /\ claimed \in RunState /\ claimed.steps = run[r].steps
        /\ claimed.status = run[r].status /\ claimed.pending = run[r].pending
        /\ claimed.evidence = run[r].evidence
    BY <1>2 DEF RunState
  <2> HIDE DEF claimed
  <2>3. /\ begun.status = run[r].status /\ begun.pending = run[r].pending
        /\ begun.evidence = run[r].evidence
    BY <1>2, <2>2, BeginKeeps
  <2>4. \A s \in Steps : begun.steps[s] =
          IF s = Upload THEN "running"
          ELSE IF s < Upload /\ run[r].steps[s] \in Open THEN "passed"
          ELSE run[r].steps[s]
    <3>1. \A s \in Steps : begun.steps[s] =
            IF s = Upload THEN "running"
            ELSE IF TRUE /\ s < Upload /\ claimed.steps[s] \in Open THEN "passed"
            ELSE claimed.steps[s]
      BY <1>2, <2>2, BeginSteps
    <3> QED
      BY <2>2, <3>1
  <2> HIDE DEF begun
  <2>5. CASE q = r
    <3>1. run'[q] = begun
      BY <1>0, <2>1, <2>5 DEF TypeOK
    <3>2. Phase(q)'
      BY <1>0, <2>1, <2>3, <2>5, <3>1 DEF RunInv, Phase, Working, Finishing
    <3>3. StepTable(q)' /\ Storage(q)'
      BY <1>0, <2>1, <2>4, <2>5, <3>1 DEF RunInv, StepTable, Storage, Finishing
    <3>4. Milestone(q)'
      BY <1>0, <2>1, <2>3, <2>5, <3>1 DEF RunInv, Milestone
    <3>5. /\ begun.steps[Restore] = run[r].steps[Restore]
          /\ begun.steps[Boot] = run[r].steps[Boot]
          /\ begun.steps[Probe] = run[r].steps[Probe]
      BY <2>4, ValueTypes DEF Upload, Restore, Boot, Probe
    <3>6. Truthful(q)'
      BY <1>0, <2>1, <2>5, <3>1, <3>5 DEF RunInv, Truthful
    <3> QED
      BY <3>2, <3>3, <3>4, <3>6 DEF RunInv
  <2>6. CASE q # r
    <3>1. run'[q] = run[q]
      BY <1>0, <2>1, <2>6 DEF TypeOK
    <3> QED
      BY <1>0, <2>1, <3>1, RunFrame
  <2> QED
    BY <2>5, <2>6
<1>4. CASE PutOpen(h)
  <2>1. run[r].uploading /\ exec[r] = "none"
    BY <1>0, <1>2, <1>4 DEF PutOpen, Claims, Writing
  <2>2. /\ UNCHANGED <<run, exec, child, milestone>>
        /\ q # r => disk'[q] = disk[q]
    BY <1>0, <1>4 DEF PutOpen, TypeOK
  <2>3. CASE q = r
    BY <1>0, <2>1, <2>2, <2>3 DEF RunInv, Phase, StepTable, Milestone, Storage, Truthful,
       Finishing
  <2>4. CASE q # r
    BY <1>0, <2>2, <2>4, RunFrame
  <2> QED
    BY <2>3, <2>4
<1>5. CASE PutVerified(h) \/ PutFailed(h)
  <2>1. PICK flag \in BOOLEAN :
          run' = [run EXCEPT ![r] = [@ EXCEPT !.uploading = FALSE, !.verified = flag]]
    BY <1>5 DEF PutVerified, PutFailed
  <2>2. /\ UNCHANGED <<exec, child, milestone>>
        /\ disk'[q] \subseteq disk[q]
    BY <1>0, <1>2, <1>5 DEF PutVerified, PutFailed, TypeOK
  <2>3. run[q] \in RunState
    BY <1>0 DEF TypeOK
  <2>4. run'[q] = run[q] \/ run'[q] = [run[q] EXCEPT !.uploading = FALSE, !.verified = flag]
    BY <1>0, <2>1 DEF TypeOK
  <2>5. /\ run'[q].status = run[q].status /\ run'[q].pending = run[q].pending
        /\ run'[q].steps = run[q].steps /\ run'[q].password = run[q].password
        /\ run'[q].evidence = run[q].evidence /\ run'[q].published = run[q].published
    BY <2>3, <2>4 DEF RunState
  <2> QED
    BY <1>0, <2>2, <2>5, RunFrame
<1>6. CASE PutFinish(h)
  <2> DEFINE closed == FinishStep(run[r], Upload, "passed")
  <2>1. /\ run' = [run EXCEPT ![r] = closed]
        /\ UNCHANGED <<exec, child, milestone, disk>>
    BY <1>6 DEF PutFinish
  <2>2. "passed" \in StepState
    BY DEF StepState
  <2>3. /\ closed.status = run[r].status /\ closed.pending = run[r].pending
        /\ closed.password = run[r].password /\ closed.evidence = run[r].evidence
        /\ closed.published = run[r].published
    BY <1>2, <2>2, FinishStepKeeps
  <2>4. \A s \in Steps : closed.steps[s] = IF s = Upload THEN "passed" ELSE run[r].steps[s]
    BY <1>2, <2>2, FinishStepSteps
  <2> HIDE DEF closed
  <2>5. CASE q = r
    <3>1. run'[q] = closed
      BY <1>0, <2>1, <2>5 DEF TypeOK
    <3>2. Phase(q)'
      BY <1>0, <2>1, <2>3, <2>5, <3>1 DEF RunInv, Phase
    <3>3. Milestone(q)'
      BY <1>0, <2>1, <2>3, <2>5, <3>1 DEF RunInv, Milestone
    <3>4. /\ closed.steps[Upload] = "passed"
          /\ \A s \in Steps : closed.steps[s] \in {run[r].steps[s], "passed"}
      BY <1>2, <2>4
    <3>k. /\ closed.steps[Restore] = run[r].steps[Restore]
          /\ closed.steps[Boot] = run[r].steps[Boot]
          /\ closed.steps[Probe] = run[r].steps[Probe]
          /\ closed.steps[Cleanup] = run[r].steps[Cleanup]
          /\ closed.steps[Complete] = run[r].steps[Complete]
      BY <2>4, ValueTypes DEF Upload, Restore, Boot, Probe, Cleanup, Complete
    <3>5. StepTable(q)'
      BY <1>0, <2>1, <2>3, <2>5, <3>1, <3>4, <3>k DEF RunInv, StepTable, Open
    <3>6. Storage(q)' /\ Truthful(q)'
      BY <1>0, <2>1, <2>5, <3>1, <3>k DEF RunInv, Storage, Truthful
    <3> QED
      BY <3>2, <3>3, <3>5, <3>6 DEF RunInv
  <2>6. CASE q # r
    <3>1. run'[q] = run[q]
      BY <1>0, <2>1, <2>6 DEF TypeOK
    <3> QED
      BY <1>0, <2>1, <3>1, RunFrame
  <2> QED
    BY <2>5, <2>6
<1>7. CASE Start(h)
  <2>1. /\ UNCHANGED <<run, child, milestone, disk>>
        /\ \/ exec'[q] = exec[q]
           \/ exec[q] = "none" /\ exec'[q] = "begin"
    BY <1>0, <1>7 DEF Start, TypeOK
  <2>2. CASE exec'[q] = exec[q]
    BY <1>0, <2>1, <2>2, RunFrame
  <2>3. CASE exec[q] = "none" /\ exec'[q] = "begin"
    BY <1>0, <2>1, <2>3 DEF RunInv, Phase, StepTable, Milestone, Storage, Truthful,
       Working, Finishing
  <2> QED
    BY <2>1, <2>2, <2>3
<1>8. CASE DeleteTree(h) \/ DeletePop(h)
  <2>1. UNCHANGED <<run, exec, child, milestone>> /\ disk'[q] \subseteq disk[q]
    BY <1>0, <1>2, <1>8 DEF DeleteTree, DeletePop, TypeOK, PartlyRemoved
  <2> QED
    BY <1>0, <2>1, RunFrame
<1> QED
  BY <1>r, <1>3, <1>4, <1>5, <1>6, <1>7, <1>8 DEF HandlerStep

\* Claims are taken, kept and given up by the upload that owns them.
LEMMA HandlerClaims ==
  ASSUME IInv, NEW h \in Handlers, HandlerStep(h) PROVE Claims' /\ Issued'
<1> DEFINE r == handler[h].run
<1> USE DEF manager, worker, reaper
<1>0. TypeOK /\ Claims /\ Issued
  BY DEF IInv
<1>1. handler[h].pc # "idle"
  BY DEF HandlerStep, PutRefused, PutBegin, PutOpen, PutVerified, PutFailed, PutFinish, Start,
     DeleteTree, DeletePop, Writing
<1>2. /\ r \in Runs /\ run[r] \in RunState /\ handler[h] # Idle /\ r \in created
      /\ Upload \in Steps /\ Idle.pc = "idle"
  BY <1>0, <1>1, HandlerTypes, ValueTypes DEF Issued, Idle
<1>3. PICK pc \in HandlerPC :
        /\ handler' = [handler EXCEPT ![h] = IF pc = "idle" THEN Idle
                                             ELSE [pc |-> pc, run |-> r]]
  BY <1>2 DEF HandlerStep, PutRefused, PutBegin, PutOpen, PutVerified, PutFailed, PutFinish, Start,
     DeleteTree, DeletePop, Goto, Reply, HandlerPC
<1>4. /\ handler'[h].pc = pc /\ (pc # "idle" => handler'[h].run = r)
      /\ \A k \in Handlers \ {h} : handler'[k] = handler[k]
  BY <1>0, <1>2, <1>3 DEF TypeOK
<1>5. Issued'
  <2>1. UNCHANGED created /\ \A q \in Runs : exec'[q] # "none" => exec[q] # "none" \/ q = r
    BY <1>0 DEF HandlerStep, PutRefused, PutBegin, PutOpen, PutVerified, PutFailed, PutFinish, Start,
       DeleteTree, DeletePop, TypeOK
  <2>2. \A k \in Handlers : handler'[k] # Idle => handler'[k].run \in created
    BY <1>0, <1>2, <1>3, <1>4 DEF Issued, TypeOK
  <2> QED
    BY <1>0, <1>2, <2>1, <2>2 DEF Issued
<1>6. \A k \in Handlers : handler[k].pc \in Writing \union {"put_finish"} =>
        handler[k].run \in Runs
  BY <1>0, HandlerTypes DEF Writing
<1>7. Claims'
  <2>1. CASE PutRefused(h)
    <3>1. UNCHANGED <<run, exec>> /\ handler' = [handler EXCEPT ![h] = Idle]
      BY <2>1 DEF PutRefused, Reply
    <3>2. handler'[h].pc = "idle"
      BY <1>0, <1>2, <3>1 DEF TypeOK
    <3> QED
      BY <1>0, <1>4, <1>6, <3>1, <3>2 DEF Claims, Writing
  <2>2. CASE PutBegin(h)
    <3> DEFINE claimed == [run[r] EXCEPT !.uploading = TRUE]
               begun   == Begin(claimed, Upload, TRUE)
    <3>1. /\ run' = [run EXCEPT ![r] = begun] /\ UNCHANGED exec
          /\ ~run[r].uploading /\ ~run[r].verified /\ exec[r] = "none"
          /\ handler' = [handler EXCEPT ![h] = [pc |-> "put_open", run |-> r]]
      BY <2>2 DEF PutBegin, Goto
    <3>2. /\ claimed \in RunState /\ claimed.uploading = TRUE
          /\ claimed.verified = run[r].verified
      BY <1>2 DEF RunState
    <3> HIDE DEF claimed
    <3>3. begun.uploading = TRUE /\ begun.verified = run[r].verified
      BY <1>2, <3>2, BeginKeeps
    <3> HIDE DEF begun
    <3>4. \A q \in Runs : run'[q] = IF q = r THEN begun ELSE run[q]
      BY <1>0, <3>1 DEF TypeOK
    <3>5. handler'[h].pc = "put_open" /\ handler'[h].run = r
      BY <1>0, <3>1 DEF TypeOK
    <3> QED
      BY <1>0, <1>2, <1>4, <1>6, <3>1, <3>3, <3>4, <3>5 DEF Claims, Writing
  <2>3. CASE PutOpen(h)
    <3>1. /\ UNCHANGED <<run, exec>> /\ handler[h].pc \in Writing
          /\ handler' = [handler EXCEPT ![h] = [pc |-> "put_write", run |-> r]]
      BY <2>3 DEF PutOpen, Goto, Writing
    <3>2. handler'[h].pc = "put_write" /\ handler'[h].run = r
      BY <1>0, <3>1 DEF TypeOK
    <3> QED
      BY <1>0, <1>2, <1>4, <1>6, <3>1, <3>2 DEF Claims, Writing
  <2>4. CASE PutVerified(h)
    <3>1. /\ UNCHANGED exec /\ handler[h].pc \in Writing
          /\ handler' = [handler EXCEPT ![h] = [pc |-> "put_finish", run |-> r]]
          /\ run' = [run EXCEPT ![r] = [@ EXCEPT !.uploading = FALSE, !.verified = TRUE]]
      BY <2>4 DEF PutVerified, Goto, Writing
    <3>2. handler'[h].pc = "put_finish" /\ handler'[h].run = r
      BY <1>0, <3>1 DEF TypeOK
    <3>3. /\ ~run'[r].uploading /\ run'[r].verified
          /\ \A q \in Runs \ {r} : run'[q] = run[q]
      BY <1>0, <1>2, <3>1 DEF TypeOK, RunState
    <3> QED
      BY <1>0, <1>2, <1>4, <1>6, <3>1, <3>2, <3>3 DEF Claims, Writing
  <2>5. CASE PutFailed(h)
    <3>1. /\ UNCHANGED exec /\ handler[h].pc \in Writing
          /\ handler' = [handler EXCEPT ![h] = Idle]
          /\ run' = [run EXCEPT ![r] = [@ EXCEPT !.uploading = FALSE, !.verified = FALSE]]
      BY <2>5 DEF PutFailed, Reply
    <3>2. handler'[h].pc = "idle"
      BY <1>0, <1>2, <3>1 DEF TypeOK
    <3>3. /\ ~run'[r].uploading /\ ~run'[r].verified
          /\ \A q \in Runs \ {r} : run'[q] = run[q]
      BY <1>0, <1>2, <3>1 DEF TypeOK, RunState
    <3> QED
      BY <1>0, <1>2, <1>4, <1>6, <3>1, <3>2, <3>3 DEF Claims, Writing
  <2>6. CASE PutFinish(h)
    <3>1. /\ UNCHANGED exec
          /\ handler' = [handler EXCEPT ![h] = Idle]
          /\ run' = [run EXCEPT ![r] = FinishStep(@, Upload, "passed")]
      BY <2>6 DEF PutFinish, Reply
    <3>2. handler'[h].pc = "idle"
      BY <1>0, <1>2, <3>1 DEF TypeOK
    <3>3. "passed" \in StepState
      BY DEF StepState
    <3>4. /\ FinishStep(run[r], Upload, "passed").uploading = run[r].uploading
          /\ FinishStep(run[r], Upload, "passed").verified = run[r].verified
      BY <1>2, <3>3, FinishStepKeeps
    <3>5. \A q \in Runs : /\ run'[q].uploading = run[q].uploading
                          /\ run'[q].verified = run[q].verified
      BY <1>0, <3>1, <3>4 DEF TypeOK
    <3> QED
      BY <1>0, <1>4, <1>6, <3>1, <3>2, <3>5 DEF Claims, Writing
  <2>7. CASE Start(h)
    <3>1. /\ UNCHANGED run
          /\ \A q \in Runs : exec'[q] # "none" =>
               exec[q] # "none" \/ (run[q].verified /\ ~run[q].uploading)
          /\ handler' = [handler EXCEPT ![h] = Idle]
      BY <1>0, <2>7 DEF Start, Reply, TypeOK
    <3>2. handler'[h].pc = "idle"
      BY <1>0, <1>2, <3>1 DEF TypeOK
    <3> QED
      BY <1>0, <1>4, <1>6, <3>1, <3>2 DEF Claims, Writing
  <2>8. CASE DeleteTree(h) \/ DeletePop(h)
    <3>1. UNCHANGED <<run, exec>>
      BY <2>8 DEF DeleteTree, DeletePop
    <3>2. handler' = [handler EXCEPT ![h] = Idle]
            \/ handler' = [handler EXCEPT ![h] = [pc |-> "delete_pop", run |-> r]]
      BY <2>8 DEF DeleteTree, DeletePop, Goto, Reply
    <3>3. handler'[h].pc \in {"idle", "delete_pop"}
      BY <1>0, <1>2, <3>2 DEF TypeOK
    <3> QED
      BY <1>0, <1>4, <1>6, <3>1, <3>3 DEF Claims, Writing
  <2> QED
    BY <2>1, <2>2, <2>3, <2>4, <2>5, <2>6, <2>7, <2>8 DEF HandlerStep
<1> QED
  BY <1>5, <1>7

-----------------------------------------------------------------------------
(* The inductive invariant                                                 *)

\* OneUnfinishedRun survives every step that registers nothing and revives no
\* finished run.
LEMMA UnfinishedFrame ==
  ASSUME TypeOK, OneUnfinishedRun, registered' \subseteq registered,
         \A q \in Runs : run'[q].status = "running" => run[q].status = "running"
  PROVE  OneUnfinishedRun'
BY DEF OneUnfinishedRun, TypeOK

\* A runner starts without runs.
LEMMA InitIInv == Init => IInv
<1> SUFFICES ASSUME Init PROVE IInv
  OBVIOUS
<1>1. TypeOK
  BY InitTypeOK
<1>2. /\ \A r \in Runs : exec[r] = "none" /\ run[r] = NewRun /\ milestone[r] = 0
                         /\ ~child[r].alive
      /\ \A h \in Handlers : handler[h] = Idle
      /\ registered = {}
  BY DEF Init, Started, NoChild
<1>3. Idle.pc = "idle"
  BY DEF Idle
<1>4. Issued /\ Claims
  BY <1>2, <1>3 DEF Issued, Claims, Writing
<1>5. ASSUME NEW r \in Runs PROVE RunInv(r)
  <2>1. /\ run[r].status = "running" /\ run[r].pending = "running"
        /\ \A s \in Steps : run[r].steps[s] = "pending"
    BY <1>2 DEF NewRun
  <2> QED
    BY <1>2, <2>1, ValueTypes DEF RunInv, Phase, StepTable, Milestone, Storage, Truthful,
       Working, Finishing
<1>6. OneUnfinishedRun
  BY <1>2 DEF OneUnfinishedRun
<1> QED
  BY <1>1, <1>4, <1>5, <1>6 DEF IInv

\* A restart forgets every run.
LEMMA RestartIInv == ASSUME IInv, Restart PROVE IInv'
<1>1. TypeOK'
  BY NextTypeOK DEF IInv, Next
<1>2. /\ \A r \in Runs : exec'[r] = "none" /\ run'[r] = NewRun /\ milestone'[r] = 0
                         /\ ~child'[r].alive
      /\ \A h \in Handlers : handler'[h] = Idle
      /\ registered' = {}
  BY DEF Restart, NoChild
<1>3. Idle.pc = "idle"
  BY DEF Idle
<1>4. Issued' /\ Claims'
  BY <1>2, <1>3 DEF Issued, Claims, Writing
<1>5. ASSUME NEW r \in Runs PROVE RunInv(r)'
  <2>1. /\ run'[r].status = "running" /\ run'[r].pending = "running"
        /\ \A s \in Steps : run'[r].steps[s] \in {"pending", "running"}
    BY <1>2 DEF NewRun
  <2> QED
    BY <1>2, <2>1, FreshRun
<1>6. OneUnfinishedRun'
  BY <1>2 DEF OneUnfinishedRun
<1> QED
  BY <1>1, <1>4, <1>5, <1>6 DEF IInv

\* An admitted run is new to every thread, and the only unfinished one.
LEMMA CreateIInv == ASSUME IInv, NEW r \in Runs, Create(r) PROVE IInv'
<1> USE DEF worker, reaper
<1>0. TypeOK /\ Claims /\ Issued
  BY DEF IInv
<1>1. TypeOK'
  BY NextTypeOK DEF IInv, Next
<1> DEFINE begun == Begin(NewRun, Prepare, TRUE)
<1>2. /\ r \notin created /\ created' = created \union {r}
      /\ registered' = registered \union {r}
      /\ \A q \in registered : run[q].status # "running"
      /\ run'[r] = begun /\ \A q \in Runs \ {r} : run'[q] = run[q] /\ disk'[q] = disk[q]
      /\ UNCHANGED <<exec, child, milestone, handler>>
  BY <1>0 DEF Create, TypeOK
<1>3. exec[r] = "none" /\ \A h \in Handlers : handler[h] # Idle => handler[h].run # r
  BY <1>0, <1>2 DEF Issued
<1>4. /\ NewRun.status = "running" /\ NewRun.pending = "running"
      /\ \A s \in Steps : NewRun.steps[s] = "pending"
      /\ Prepare \in Steps
  BY ValueTypes DEF NewRun
<1>5. begun.status = "running" /\ begun.pending = "running"
  BY <1>4, NewRunFacts, BeginKeeps
<1>6. \A s \in Steps : begun.steps[s] \in {"pending", "running"}
  <2>1. \A s \in Steps : begun.steps[s] =
          IF s = Prepare THEN "running"
          ELSE IF TRUE /\ s < Prepare /\ NewRun.steps[s] \in Open THEN "passed"
          ELSE NewRun.steps[s]
    BY <1>4, NewRunFacts, BeginSteps
  <2>2. \A s \in Steps : ~(s < Prepare)
    BY DEF Steps, Prepare
  <2> QED
    BY <1>4, <2>1, <2>2
<1> HIDE DEF begun
<1>7. Issued'
  BY <1>0, <1>2 DEF Issued
<1>8. Claims'
  <2>1. \A h \in Handlers : handler[h].pc \in Writing \union {"put_finish"} =>
          handler[h].run \in Runs \ {r}
    BY <1>0, <1>3, HandlerTypes DEF Writing
  <2> QED
    BY <1>0, <1>2, <1>3, <2>1 DEF Claims
<1>9. ASSUME NEW q \in Runs PROVE RunInv(q)'
  <2>1. RunInv(q)
    BY DEF IInv
  <2>2. CASE q = r
    <3>1. ~child[r].alive /\ milestone[r] = 0
      BY <1>3, <2>1, <2>2 DEF RunInv, Milestone
    <3> QED
      BY <1>2, <1>3, <1>5, <1>6, <2>2, <3>1, FreshRun
  <2>3. CASE q # r
    BY <1>2, <2>1, <2>3, RunFrame
  <2> QED
    BY <2>2, <2>3
<1>10. OneUnfinishedRun'
  BY <1>0, <1>2 DEF OneUnfinishedRun, TypeOK
<1> QED
  BY <1>1, <1>7, <1>8, <1>9, <1>10 DEF IInv

\* Looking a run up, waiting and reaping touch no run state that matters.
LEMMA QuietIInv ==
  ASSUME IInv,
         \/ \E h \in Handlers, r \in Runs : Request(h, r)
         \/ \E r \in Runs : Age(r) \/ ReaperTree(r) \/ ReaperTreeFailed(r)
         \/ ReaperSelect \/ ReaperPop
  PROVE  IInv'
<1> USE DEF manager, worker, reaper
<1>0. TypeOK /\ Claims /\ Issued /\ OneUnfinishedRun /\ \A q \in Runs : RunInv(q)
  BY DEF IInv
<1>1. TypeOK'
  BY <1>0, NextTypeOK DEF Next
<1>2. ASSUME NEW h \in Handlers, NEW r \in Runs, Request(h, r) PROVE IInv'
  <2>1. PICK operation \in {"put", "start", "delete_tree"} : Lookup(h, r, operation)
    BY <1>2 DEF Request, PutLookup, StartLookup, DeleteLookup
  <2>2. /\ UNCHANGED <<created, registered, run, disk, exec, child, milestone>>
        /\ handler'[h] = [pc |-> operation, run |-> r] /\ r \in created
        /\ \A k \in Handlers \ {h} : handler'[k] = handler[k]
    BY <1>0, <2>1 DEF Lookup, TypeOK
  <2>3. handler'[h].pc \notin Writing \union {"put_finish"} /\ handler'[h].run = r
    BY <2>2 DEF Writing
  <2>4. Issued'
    BY <1>0, <2>2, <2>3 DEF Issued
  <2>5. Claims'
    BY <1>0, <2>2, <2>3 DEF Claims
  <2>6. \A q \in Runs : RunInv(q)'
    BY <1>0, <2>2, RunFrame
  <2>7. OneUnfinishedRun'
    BY <1>0, <2>2 DEF OneUnfinishedRun
  <2> QED
    BY <1>1, <2>4, <2>5, <2>6, <2>7 DEF IInv
<1>3. ASSUME NEW r \in Runs, Age(r) PROVE IInv'
  <2>1. \A q \in Runs : run'[q] = run[q] \/ run'[q] = [run[q] EXCEPT !.fresh = FALSE]
    BY <1>0, <1>3 DEF Age, TypeOK
  <2>2. ASSUME NEW q \in Runs
        PROVE  /\ run'[q].status = run[q].status /\ run'[q].pending = run[q].pending
               /\ run'[q].steps = run[q].steps /\ run'[q].password = run[q].password
               /\ run'[q].evidence = run[q].evidence /\ run'[q].published = run[q].published
               /\ run'[q].uploading = run[q].uploading /\ run'[q].verified = run[q].verified
    <3>1. run[q] \in RunState
      BY <1>0 DEF TypeOK
    <3> QED
      BY <2>1, <3>1 DEF RunState
  <2>3. UNCHANGED <<created, registered, disk, exec, child, milestone, handler>>
    BY <1>3 DEF Age
  <2>4. Claims'
    BY <1>0, <2>2, <2>3, ClaimsFrame
  <2>5. Issued'
    BY <1>0, <2>3 DEF Issued
  <2>6. \A q \in Runs : RunInv(q)'
    BY <1>0, <2>2, <2>3, RunFrame
  <2>7. OneUnfinishedRun'
    BY <1>0, <2>2, <2>3, UnfinishedFrame
  <2> QED
    BY <1>1, <2>4, <2>5, <2>6, <2>7 DEF IInv
<1>4. ASSUME ReaperSelect \/ ReaperPop \/ \E r \in Runs : ReaperTree(r) \/ ReaperTreeFailed(r)
      PROVE  IInv'
  <2>1. /\ UNCHANGED <<created, run, exec, child, milestone, handler>>
        /\ registered' \subseteq registered
        /\ \A q \in Runs : disk'[q] \subseteq disk[q]
    BY <1>0, <1>4 DEF ReaperSelect, ReaperPop, ReaperTree, ReaperTreeFailed, PartlyRemoved,
       TypeOK
  <2>2. Claims'
    BY <1>0, <2>1, ClaimsFrame
  <2>3. Issued'
    BY <1>0, <2>1 DEF Issued
  <2>4. \A q \in Runs : RunInv(q)'
    BY <1>0, <2>1, RunFrame
  <2>5. OneUnfinishedRun'
    BY <1>0, <2>1, UnfinishedFrame
  <2> QED
    BY <1>1, <2>2, <2>3, <2>4, <2>5 DEF IInv
<1> QED
  BY <1>2, <1>3, <1>4

\* What the execution thread leaves alone in its own run state.
LEMMA ExecKeeps ==
  ASSUME TypeOK, NEW r \in Runs, ExecStep(r)
  PROVE  /\ run'[r].uploading = run[r].uploading /\ run'[r].verified = run[r].verified
         /\ ~Publish(r) => run'[r].status = run[r].status
<1> USE DEF Advance, Fails
<1>1. run[r] \in RunState
  BY DEF TypeOK
<1>2. CASE RestoreBegin(r)
  <2>1. run'[r] = Begin(run[r], Restore, TRUE)
    BY <1>2 DEF RestoreBegin, TypeOK
  <2> QED
    BY <1>1, <2>1, ValueTypes, BeginKeeps
<1>3. CASE RestoreOpen(r) \/ RestoreFailed(r) \/ SpawnFailed(r) \/ WaitTimeout(r)
  <2>1. PICK outcome : run'[r] = run[r] \/ run'[r] = [run[r] EXCEPT !.pending = outcome]
    BY <1>3 DEF RestoreOpen, RestoreFailed, SpawnFailed, WaitTimeout, TypeOK
  <2> QED
    BY <1>1, <2>1 DEF RunState
<1>4. CASE RestoreDone(r)
  <2> DEFINE cleared == [run[r] EXCEPT !.password = FALSE]
  <2>1. run'[r] = FinishStep(cleared, Restore, "passed")
    BY <1>4 DEF RestoreDone, TypeOK
  <2>2. /\ cleared \in RunState /\ cleared.status = run[r].status
        /\ cleared.uploading = run[r].uploading /\ cleared.verified = run[r].verified
    BY <1>1 DEF RunState
  <2>3. "passed" \in StepState /\ Restore \in Steps
    BY ValueTypes DEF StepState
  <2> HIDE DEF cleared
  <2> QED
    BY <2>1, <2>2, <2>3, FinishStepKeeps
<1>5. CASE SpawnChild(r) \/ ObserveExit(r) \/ ThreadExit(r)
  BY <1>5 DEF SpawnChild, ObserveExit, ThreadExit
<1>6. CASE ObserveProgress(r)
  <2> DEFINE promote == child[r].stage # Cleanup
  <2>1. run'[r] = Begin(run[r], child[r].stage, promote)
    BY <1>6 DEF ObserveProgress, TypeOK
  <2>2. child[r].stage \in Steps /\ promote \in BOOLEAN
    BY <1>6, ValueTypes DEF ObserveProgress, TypeOK, Child
  <2> HIDE DEF promote
  <2> QED
    BY <1>1, <2>1, <2>2, BeginKeeps
<1>7. CASE LoadResult(r)
  <2>1. PICK evidence, outcome :
          \/ run'[r] = [run[r] EXCEPT !.evidence = evidence, !.pending = outcome]
          \/ run'[r] = [run[r] EXCEPT !.pending = outcome]
    BY <1>7 DEF LoadResult, TypeOK
  <2> QED
    BY <1>1, <2>1 DEF RunState
<1>8. CASE FinishBegin(r)
  <2> DEFINE passed  == run[r].pending = "passed"
             cleared == [run[r] EXCEPT !.password = FALSE]
             closed  == IF passed THEN cleared ELSE FailOpen(cleared)
  <2>1. run'[r] = Begin(closed, Cleanup, passed)
    BY <1>8 DEF FinishBegin, TypeOK
  <2>2. /\ cleared \in RunState /\ cleared.status = run[r].status
        /\ cleared.uploading = run[r].uploading /\ cleared.verified = run[r].verified
    BY <1>1 DEF RunState
  <2>3. passed \in BOOLEAN /\ Cleanup \in Steps
    BY ValueTypes
  <2> HIDE DEF cleared, passed
  <2>4. /\ closed \in RunState /\ closed.status = run[r].status
        /\ closed.uploading = run[r].uploading /\ closed.verified = run[r].verified
    BY <2>2, FailOpenType, FailOpenKeeps
  <2> HIDE DEF closed
  <2> QED
    BY <2>1, <2>3, <2>4, BeginKeeps
<1>9. CASE CleanupDone(r)
  <2>1. run'[r] = FinishStep(run[r], Cleanup, "passed")
    BY <1>9 DEF CleanupDone, TypeOK
  <2>2. "passed" \in StepState /\ Cleanup \in Steps
    BY ValueTypes DEF StepState
  <2> QED
    BY <1>1, <2>1, <2>2, FinishStepKeeps
<1>10. CASE CleanupFailed(r)
  <2> DEFINE outcome == IF run[r].pending = "passed" THEN "inconclusive" ELSE run[r].pending
             base    == [run[r] EXCEPT !.pending = outcome]
  <2>1. run'[r] = FinishStep(base, Cleanup, "failed")
    BY <1>10 DEF CleanupFailed, TypeOK
  <2>2. /\ base \in RunState /\ base.status = run[r].status
        /\ base.uploading = run[r].uploading /\ base.verified = run[r].verified
    BY <1>1 DEF RunState, Status, Terminal
  <2>3. "failed" \in StepState /\ Cleanup \in Steps
    BY ValueTypes DEF StepState
  <2> HIDE DEF base
  <2> QED
    BY <2>1, <2>2, <2>3, FinishStepKeeps
<1>11. CASE CompleteStep(r)
  <2> DEFINE begun == Begin(run[r], Complete, TRUE)
  <2>1. \/ run'[r] = FinishStep(begun, Complete, "passed")
        \/ run'[r] = FinishStep(run[r], Complete, "failed")
    BY <1>11 DEF CompleteStep, TypeOK
  <2>2. "passed" \in StepState /\ "failed" \in StepState /\ Complete \in Steps
    BY ValueTypes DEF StepState
  <2>3. /\ begun \in RunState /\ begun.status = run[r].status
        /\ begun.uploading = run[r].uploading /\ begun.verified = run[r].verified
    BY <1>1, <2>2, BeginType, BeginKeeps
  <2> HIDE DEF begun
  <2> QED
    BY <1>1, <2>1, <2>2, <2>3, FinishStepKeeps
<1>12. CASE Publish(r)
  <2>1. PICK outcome :
          run'[r] = [run[r] EXCEPT !.published = TRUE, !.status = outcome]
    BY <1>12 DEF Publish, TypeOK
  <2> QED
    BY <1>1, <1>12, <2>1 DEF RunState
<1> QED
  BY <1>2, <1>3, <1>4, <1>5, <1>6, <1>7, <1>8, <1>9, <1>10, <1>11, <1>12 DEF ExecStep

\* The handlers never change a status.
LEMMA HandlerKeepsStatus ==
  ASSUME TypeOK, NEW h \in Handlers, HandlerStep(h), NEW q \in Runs
  PROVE  run'[q].status = run[q].status
<1> DEFINE r       == handler[h].run
           claimed == [run[r] EXCEPT !.uploading = TRUE]
<1>1. handler[h].pc # "idle"
  BY DEF HandlerStep, PutRefused, PutBegin, PutOpen, PutVerified, PutFailed, PutFinish, Start,
     DeleteTree, DeletePop, Writing
<1>2. /\ r \in Runs /\ run[r] \in RunState /\ Upload \in Steps /\ "passed" \in StepState
      /\ TRUE \in BOOLEAN
  BY <1>1, HandlerTypes, ValueTypes DEF StepState
<1>3. claimed \in RunState /\ claimed.status = run[r].status
  BY <1>2 DEF RunState
<1>4. \/ UNCHANGED run
      \/ run' = [run EXCEPT ![r] = Begin(claimed, Upload, TRUE)]
      \/ \E flag \in BOOLEAN :
           run' = [run EXCEPT ![r] = [@ EXCEPT !.uploading = FALSE, !.verified = flag]]
      \/ run' = [run EXCEPT ![r] = FinishStep(@, Upload, "passed")]
  <2>1. CASE PutBegin(h)
    BY <2>1 DEF PutBegin
  <2>2. CASE PutRefused(h) \/ PutOpen(h) \/ Start(h) \/ DeleteTree(h) \/ DeletePop(h)
    BY <2>2 DEF PutRefused, PutOpen, Start, DeleteTree, DeletePop
  <2>3. CASE PutVerified(h) \/ PutFailed(h) \/ PutFinish(h)
    BY <2>3 DEF PutVerified, PutFailed, PutFinish
  <2> QED
    BY <2>1, <2>2, <2>3 DEF HandlerStep
<1> HIDE DEF claimed
<1>5. CASE run' = [run EXCEPT ![r] = Begin(claimed, Upload, TRUE)]
  <2>1. Begin(claimed, Upload, TRUE).status = run[r].status
    BY <1>2, <1>3, BeginKeeps
  <2> QED
    BY <1>5, <2>1 DEF TypeOK
<1>6. ASSUME NEW flag \in BOOLEAN,
             run' = [run EXCEPT ![r] = [@ EXCEPT !.uploading = FALSE, !.verified = flag]]
      PROVE  run'[q].status = run[q].status
  <2>1. run'[q] = run[q] \/ run'[q] = [run[q] EXCEPT !.uploading = FALSE, !.verified = flag]
    BY <1>6 DEF TypeOK
  <2>2. run[q] \in RunState
    BY DEF TypeOK
  <2> QED
    BY <2>1, <2>2 DEF RunState
<1>7. CASE run' = [run EXCEPT ![r] = FinishStep(@, Upload, "passed")]
  <2>1. FinishStep(run[r], Upload, "passed").status = run[r].status
    BY <1>2, FinishStepKeeps
  <2> QED
    BY <1>7, <2>1 DEF TypeOK
<1> QED
  BY <1>4, <1>5, <1>6, <1>7

\* Every step keeps the invariant.
LEMMA NextIInv == IInv /\ [Next]_vars => IInv'
<1> SUFFICES ASSUME IInv, [Next]_vars PROVE IInv'
  OBVIOUS
<1>0. TypeOK /\ Claims /\ Issued /\ OneUnfinishedRun /\ \A q \in Runs : RunInv(q)
  BY DEF IInv
<1>1. TypeOK'
  BY <1>0, NextTypeOK
<1>2. CASE UNCHANGED vars
  <2>1. UNCHANGED <<created, registered, run, disk, exec, child, milestone, handler>>
    BY <1>2 DEF vars, manager, worker
  <2>2. Claims'
    BY <1>0, <2>1, ClaimsFrame
  <2>3. Issued'
    BY <1>0, <2>1 DEF Issued
  <2>4. \A q \in Runs : RunInv(q)'
    BY <1>0, <2>1, RunFrame
  <2>5. OneUnfinishedRun'
    BY <1>0, <2>1, UnfinishedFrame
  <2> QED
    BY <1>1, <2>2, <2>3, <2>4, <2>5 DEF IInv
<1>3. ASSUME NEW r \in Runs, ExecStep(r) PROVE IInv'
  <2>1. /\ \A q \in Runs \ {r} :
             /\ run'[q] = run[q] /\ exec'[q] = exec[q] /\ child'[q] = child[q]
             /\ milestone'[q] = milestone[q] /\ disk'[q] = disk[q]
        /\ exec[r] # "none" /\ exec'[r] # "none"
        /\ UNCHANGED <<created, registered, handler>>
    BY <1>0, <1>3, ExecShape
  <2>2. /\ run'[r].uploading = run[r].uploading /\ run'[r].verified = run[r].verified
        /\ ~Publish(r) => run'[r].status = run[r].status
    BY <1>0, <1>3, ExecKeeps
  <2>3. Publish(r) => run[r].status = "running"
    BY <1>0 DEF Publish, Advance, RunInv, Phase
  <2>4. Claims'
    BY <1>0, <2>1, <2>2, ClaimsFrame
  <2>5. Issued'
    BY <1>0, <2>1 DEF Issued
  <2>6. ASSUME NEW q \in Runs PROVE RunInv(q)'
    <3>1. CASE q = r
      BY <1>0, <1>3, <3>1, ExecRunInv
    <3>2. CASE q # r
      BY <1>0, <2>1, <3>2, RunFrame
    <3> QED
      BY <3>1, <3>2
  <2>7. OneUnfinishedRun'
    BY <1>0, <2>1, <2>2, <2>3, UnfinishedFrame
  <2> QED
    BY <1>1, <2>4, <2>5, <2>6, <2>7 DEF IInv
<1>4. ASSUME NEW r \in Runs, ChildStep(r) PROVE IInv'
  <2>1. /\ \A q \in Runs \ {r} : child'[q] = child[q] /\ milestone'[q] = milestone[q]
        /\ UNCHANGED <<created, registered, run, exec, disk, handler>>
    BY <1>0, <1>4, ChildShape DEF manager
  <2>2. Claims'
    BY <1>0, <2>1, ClaimsFrame
  <2>3. Issued'
    BY <1>0, <2>1 DEF Issued
  <2>4. ASSUME NEW q \in Runs PROVE RunInv(q)'
    <3>1. CASE q = r
      BY <1>0, <1>4, <3>1, ChildRunInv
    <3>2. CASE q # r
      BY <1>0, <2>1, <3>2, RunFrame
    <3> QED
      BY <3>1, <3>2
  <2>5. OneUnfinishedRun'
    BY <1>0, <2>1, UnfinishedFrame
  <2> QED
    BY <1>1, <2>2, <2>3, <2>4, <2>5 DEF IInv
<1>5. ASSUME NEW h \in Handlers, HandlerStep(h) PROVE IInv'
  <2>1. Claims' /\ Issued'
    BY <1>5, HandlerClaims
  <2>2. \A q \in Runs : RunInv(q)'
    BY <1>5, HandlerRunInv
  <2>3. registered' \subseteq registered
    BY <1>5 DEF HandlerStep, PutRefused, PutBegin, PutOpen, PutVerified, PutFailed, PutFinish, Start,
       DeleteTree, DeletePop, manager
  <2>4. OneUnfinishedRun'
    BY <1>0, <1>5, <2>3, HandlerKeepsStatus, UnfinishedFrame
  <2> QED
    BY <1>1, <2>1, <2>2, <2>4 DEF IInv
<1> QED
  BY <1>2, <1>3, <1>4, <1>5, RestartIInv, CreateIInv, QuietIInv DEF Next

\* The invariant the theorems follow from.
LEMMA Invariance == Spec => []IInv
<1> QED
  BY InitIInv, NextIInv, PTL DEF Spec

-----------------------------------------------------------------------------
(* The properties                                                          *)

\* TerminalEvidence (_finish_run publishes the status last): whoever reads a
\* terminal status reads complete evidence, and "passed" means every step passed
\* and the child proved ready, isolated and in recovery mode.
THEOREM EvidenceIsComplete == Spec => []TerminalEvidence
<1>1. IInv => TerminalEvidence
  <2> SUFFICES ASSUME IInv, NEW r \in Runs, run[r].status # "running"
               PROVE  /\ run[r].published
                      /\ \A s \in Steps : run[r].steps[s] \notin Open
                      /\ (run[r].status = "passed") <=>
                           \A s \in Steps : run[r].steps[s] = "passed"
                      /\ run[r].status = "passed" =>
                           /\ run[r].evidence = IsReady /\ run[r].verified
                           /\ milestone[r] = 3
    BY DEF TerminalEvidence
  <2>1. exec[r] \in {"exit", "dead"}
    BY DEF IInv, RunInv, Phase
  <2>2. /\ run[r].published /\ run[r].status = run[r].pending
        /\ run[r].pending \in Terminal
    BY <2>1 DEF IInv, RunInv, Phase, Finishing
  <2>3. run[r].verified
    BY <2>1 DEF IInv, Claims
  <2>4. run[r].status = "passed" => run[r].evidence = IsReady /\ milestone[r] = 3
    BY <2>2 DEF IInv, RunInv, Milestone
  <2>5. StepTable(r)
    BY DEF IInv, RunInv
  <2>6. \A s \in Steps : s < Cleanup \/ s = Cleanup \/ s = Complete
    BY DEF Steps, Cleanup, Complete
  <2>7. Complete \in Steps
    BY ValueTypes
  <2>8. \A s \in Steps : run[r].steps[s] \notin Open
    BY <2>1, <2>5, <2>6 DEF StepTable, Finishing, Open
  <2>9. (run[r].status = "passed") <=> \A s \in Steps : run[r].steps[s] = "passed"
    BY <2>1, <2>2, <2>5, <2>6, <2>7 DEF StepTable, Finishing
  <2> QED
    BY <2>2, <2>3, <2>4, <2>8, <2>9
<1> QED
  BY Invariance, <1>1, PTL

\* SecretsCleared (_finish_run and _cleanup_run): a terminal run holds no
\* password, and a clean-up reported as passed left neither the archive nor the
\* restored configuration, although handlers and the reaper work on the same
\* directory.
THEOREM NothingIsLeftBehind == Spec => []SecretsCleared
<1>1. IInv => SecretsCleared
  <2> SUFFICES ASSUME IInv, NEW r \in Runs, run[r].status # "running"
               PROVE  /\ ~run[r].password
                      /\ run[r].steps[Cleanup] = "passed" => disk[r] \intersect Sensitive = {}
    BY DEF SecretsCleared
  <2>1. exec[r] \in {"exit", "dead"}
    BY DEF IInv, RunInv, Phase
  <2> QED
    BY <2>1 DEF IInv, RunInv, Phase, Storage, Finishing
<1> QED
  BY Invariance, <1>1, PTL

\* UploadsAreExclusive (do_PUT's claim and start's guard): one upload at a time
\* writes an archive, and none while the run executes.
THEOREM UploadsExclude == Spec => []UploadsAreExclusive
<1>1. IInv => UploadsAreExclusive
  BY DEF IInv, Claims, UploadsAreExclusive
<1> QED
  BY Invariance, <1>1, PTL

\* PipelineTruthful (_begin and _finish_step): what the pipeline shows as passed
\* has happened.
THEOREM PipelineIsTruthful == Spec => []PipelineTruthful
<1>1. IInv => PipelineTruthful
  BY DEF IInv, RunInv, Truthful, PipelineTruthful
<1> QED
  BY Invariance, <1>1, PTL

\* OneUnfinishedRun (create's admission under the manager's lock): however many
\* handlers there are, two registered runs are never unfinished together.
THEOREM OneRunAtATime == Spec => []OneUnfinishedRun
<1>1. IInv => OneUnfinishedRun
  BY DEF IInv
<1> QED
  BY Invariance, <1>1, PTL

\* Closing the upload step again changes nothing but its times and the activity
\* flag.
LEMMA LateFinish ==
  ASSUME NEW state \in RunState, state.steps[Upload] = "passed"
  PROVE  \/ FinishStep(state, Upload, "passed") = [state EXCEPT !.fresh = TRUE]
         \/ FinishStep(state, Upload, "passed") =
              [state EXCEPT !.late = @ \union {Upload}, !.fresh = TRUE]
<1>1. [state.steps EXCEPT ![Upload] = "passed"] = state.steps
  BY DEF RunState
<1> QED
  BY <1>1 DEF FinishStep, Stamp, RunState

\* TerminalFrozen (the run's lock and the order of _finish_run): nobody changes
\* what a terminal answer decides; the upload handler that closes its step late
\* rewrites the times of that step, and no other thread writes anything.
THEOREM AnswersAreFinal == Spec => TerminalFrozen
<1> DEFINE Frozen(r) ==
             \/ run'[r] = NewRun
             \/ Answer(run'[r]) = Answer(run[r])
             \/ /\ \E h \in Handlers : handler[h] = [pc |-> "put_finish", run |-> r]
                /\ Answer(run'[r]) = Answer([run[r] EXCEPT !.late = @ \union {Upload}])
<1>1. ASSUME IInv, [Next]_vars, NEW r \in Runs, run[r].status # "running" PROVE Frozen(r)
  <2>0. TypeOK /\ Claims /\ Issued /\ RunInv(r) /\ run[r] \in RunState
    BY <1>1 DEF IInv, TypeOK
  <2>1. exec[r] \in {"exit", "dead"}
    BY <1>1, <2>0 DEF RunInv, Phase
  <2>2. run[r].steps[Upload] = "passed" /\ run[r].verified /\ ~run[r].uploading
    BY <2>0, <2>1 DEF RunInv, StepTable, Claims
  <2>3. ASSUME NEW q \in Runs, ExecStep(q) PROVE Frozen(r)
    <3>1. CASE q # r
      <4>1. run'[r] = run[r]
        BY <2>0, <2>3, <3>1, ExecShape
      <4> QED
        BY <4>1
    <3>2. CASE q = r
      <4>1. ThreadExit(r)
        BY <2>1, <2>3, <3>2 DEF ExecStep, RestoreBegin, RestoreOpen, RestoreDone, RestoreFailed,
           SpawnChild, SpawnFailed, ObserveProgress, ObserveExit, WaitTimeout, LoadResult,
           FinishBegin, CleanupDone, CleanupFailed, CompleteStep, Publish, Advance
      <4> QED
        BY <4>1 DEF ThreadExit
    <3> QED
      BY <3>1, <3>2
  <2>4. ASSUME NEW h \in Handlers, HandlerStep(h) PROVE Frozen(r)
    <3>1. CASE PutBegin(h)
      <4>1. run'[r] = run[r]
        BY <2>0, <2>2, <3>1 DEF PutBegin, TypeOK
      <4> QED
        BY <4>1
    <3>2. CASE PutVerified(h) \/ PutFailed(h)
      <4>1. handler[h].pc \in Writing
        BY <3>2 DEF PutVerified, PutFailed, Writing
      <4>2. handler[h].run # r
        BY <2>0, <2>2, <4>1 DEF Claims
      <4>3. run'[r] = run[r]
        BY <2>0, <3>2, <4>2 DEF PutVerified, PutFailed, TypeOK
      <4> QED
        BY <4>3
    <3>3. CASE PutFinish(h)
      <4>1. run'[r] = run[r] \/ run'[r] = FinishStep(run[r], Upload, "passed")
        BY <2>0, <3>3 DEF PutFinish, TypeOK
      <4>2. CASE run'[r] = run[r]
        BY <4>2
      <4>3. CASE run'[r] # run[r]
        <5>1. handler[h].run = r
          BY <2>0, <3>3, <4>3 DEF PutFinish, TypeOK
        <5>2. handler[h] = [pc |-> "put_finish", run |-> r]
          BY <2>0, <2>4, <3>3, <5>1, HandlerTypes DEF PutFinish
        <5>3. \/ run'[r] = [run[r] EXCEPT !.fresh = TRUE]
              \/ run'[r] = [run[r] EXCEPT !.late = @ \union {Upload}, !.fresh = TRUE]
          BY <2>0, <2>2, <4>1, <4>3, LateFinish
        <5>4. \/ Answer(run'[r]) = Answer(run[r])
              \/ Answer(run'[r]) = Answer([run[r] EXCEPT !.late = @ \union {Upload}])
          BY <2>0, <5>3 DEF Answer, RunState
        <5> QED
          BY <5>2, <5>4
      <4> QED
        BY <4>2, <4>3
    <3>4. CASE PutRefused(h) \/ PutOpen(h) \/ Start(h) \/ DeleteTree(h) \/ DeletePop(h)
      BY <3>4 DEF PutRefused, PutOpen, Start, DeleteTree, DeletePop
    <3> QED
      BY <2>4, <3>1, <3>2, <3>3, <3>4 DEF HandlerStep
  <2>5. ASSUME NEW q \in Runs, Create(q) PROVE Frozen(r)
    <3>1. q # r
      BY <2>0, <2>1, <2>5 DEF Create, Issued
    <3>2. run'[r] = run[r]
      BY <2>0, <2>5, <3>1 DEF Create, TypeOK
    <3> QED
      BY <3>2
  <2>6. ASSUME NEW q \in Runs, Age(q) PROVE Frozen(r)
    <3>1. run'[r] = run[r] \/ run'[r] = [run[r] EXCEPT !.fresh = FALSE]
      BY <2>0, <2>6 DEF Age, TypeOK
    <3>2. Answer(run'[r]) = Answer(run[r])
      BY <2>0, <3>1 DEF Answer, RunState
    <3> QED
      BY <3>2
  <2>7. ASSUME UNCHANGED run PROVE Frozen(r)
    BY <2>7
  <2>8. CASE UNCHANGED vars
    BY <2>7, <2>8 DEF vars
  <2>9. CASE \E q \in Runs : ChildStep(q) \/ ReaperTree(q) \/ ReaperTreeFailed(q)
    BY <2>0, <2>7, <2>9, ChildShape DEF ReaperTree, ReaperTreeFailed
  <2>10. CASE ReaperSelect \/ ReaperPop
    BY <2>7, <2>10 DEF ReaperSelect, ReaperPop
  <2>11. CASE \E h \in Handlers, q \in Runs : Request(h, q)
    BY <2>7, <2>11 DEF Request, PutLookup, StartLookup, DeleteLookup, Lookup
  <2>12. CASE Restart
    BY <2>12 DEF Restart
  <2> HIDE DEF Frozen
  <2> QED
    BY <1>1, <2>3, <2>4, <2>5, <2>6, <2>8, <2>9, <2>10, <2>11, <2>12 DEF Next
<1>2. IInv /\ [Next]_vars => [\A r \in Runs : run[r].status # "running" =>
         \/ run'[r] = NewRun
         \/ Answer(run'[r]) = Answer(run[r])
         \/ /\ \E h \in Handlers : handler[h] = [pc |-> "put_finish", run |-> r]
            /\ Answer(run'[r]) = Answer([run[r] EXCEPT !.late = @ \union {Upload}])]_vars
  BY <1>1
<1> QED
  BY Invariance, <1>2, PTL DEF Spec, TerminalFrozen

=============================================================================
