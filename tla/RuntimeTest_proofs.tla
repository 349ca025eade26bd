---------------------------- MODULE RuntimeTest_proofs ----------------------------
(***************************************************************************)
(* Safety of the isolated start test, for every number of backups, every   *)
(* set of checksums and any number of tests: what is stored as passed was  *)
(* passed by the runner, what the view proves is one stored result, what a *)
(* job says has happened, no step is invented, and no running job is left  *)
(* behind.                                                                 *)
(*                                                                         *)
(* The invariant says where a test stands (Stage), what the runner's runs  *)
(* may be (RunsSound), that the run which is polled and the history of its *)
(* phases agree (Pace), what the live job is while the test runs and after *)
(* it (LiveJob), and what a result is before it is stored (Results).       *)
(***************************************************************************)
EXTENDS RuntimeTest, ProgressReporter_proofs

Early == {"check", "require", "create"}
Late  == {"upload", "start", "poll"}
Over  == {"delete", "save"}

Stage ==
  /\ test.pc # "idle" => tests \in RunIds /\ test.target \in Targets
  /\ test.pc \in Early => ~sent /\ test.run = 0 /\ runs[tests] = NoRun
  /\ test.pc \in Late => sent /\ runs[tests].target = test.target
  /\ test.pc \in Late \union {"delete"} => test.run = tests
  /\ test.pc \in Early \union {"upload", "start"} => reached = 0
  /\ test.cancelled => entry = "stopping" /\ test.pc = "delete"
  /\ entry = "down" => test.pc = "idle"

\* A run has a verdict when it has ended, and one nobody created is none.
SoundRun(run) ==
  /\ run \in RunType
  /\ run.status \in {"none", "created", "uploaded", "executing"} => run.verdict = "running"
  /\ run.status \in {"none", "created", "uploaded"} => run.broke = 0 /\ ~run.sweeping
  /\ run.status = "ended" => run.verdict # "running"

RunsSound ==
  \A n \in RunIds : SoundRun(runs[n]) /\ (n > tests => runs[n] = NoRun)

\* The run that is polled has passed what the history says it has, and one that
\* broke is being cleaned up.
InPace(run, passed) ==
  /\ run.broke # 0 => run.phase = Cleanup /\ run.verdict # "passed"
  /\ run.status = "executing" => run.phase \in 3..Cleanup
  /\ run.status = "executing" /\ run.broke = 0 => passed < run.phase
  /\ run.sweeping => run.status = "executing" /\ run.broke = 0 /\ run.phase \in 4..5
  /\ run.status = "ended" /\ run.broke = 0 => run.phase \in Cleanup..7
  /\ \A k \in 3..5 : (run.broke = 0 /\ k < run.phase) \/ k < run.broke => passed >= k

Pace ==
  /\ test.pc \in {"upload", "start"} => runs[tests].status \in {"created", "uploaded", "gone"}
  /\ test.pc = "poll" /\ runs[tests].status \in {"executing", "ended"} =>
       InPace(runs[tests], reached)

LiveJob ==
  /\ test.pc # "idle" => job.status = "running" /\ job.reference = test.target.reference
  /\ test.pc \in {"check", "require"} => job.current = NoStep
  /\ test.pc = "create" => job.current = Prepare
  /\ test.pc # "idle" /\ ~sent =>
       \A k \in StepIds : job.steps[k].determinate = RuntimeSteps[k].determinate
  /\ entry = "up" /\ test.pc = "idle" =>
       \/ job.status = "idle"
       \/ /\ job.status # "running"
          /\ job.status = store.memory.status /\ job.reference = store.memory.reference
  /\ entry = "down" => job.status # "running"
  /\ job.status = "passed" => tests \in RunIds

\* What may become the result of the test in progress.
GoodResult(result) ==
  /\ result \in Snapshots
  /\ result.status \in Verdicts \union {"not_started"}
  /\ result.reference = test.target.reference
  /\ result.sha256 = test.target.sha256
  /\ result.status = "not_started" => ~sent
  /\ result.status = "failed" => sent
  /\ Passed(result) => /\ runs[tests].verdict = "passed"
                       /\ runs[tests].target = test.target
                       /\ reached >= 5

Results ==
  test.pc \in Over /\ ~test.cancelled =>
    GoodResult(test.result) /\ (test.pc = "save" => store.memory = test.result)

Shape == TypeOK /\ Stage /\ RunsSound /\ Pace /\ LiveJob /\ Results
IInv  == Shape /\ ProofIsReal /\ OutcomeIsTruthful /\ NoInventedSteps

-----------------------------------------------------------------------------
(* Data *)

\* JobType is the type the lemmas about ProgressReporter are stated for.
LEMMA JobsAreTyped == JobType = Jobs(Backups \union {None})
  BY DEF JobType, Jobs

\* A snapshot about a target.
LEMMA SnapshotOf ==
  ASSUME NEW target \in Targets, NEW status \in Verdicts \union {"not_started"}
  PROVE  /\ Snapshot(status, target) \in Snapshots
         /\ Snapshot(status, target).status = status
         /\ Snapshot(status, target).reference = target.reference
         /\ Snapshot(status, target).sha256 = target.sha256
<1>1. Snapshot(status, target) \in Snapshots
  BY DEF Snapshots
<1> QED
  BY <1>1 DEF Snapshot

\* Every error leads to a terminal status, before the run to not_started alone,
\* and in the run to it only for the codes that say so.
LEMMA StatusIsKnown ==
  ASSUME NEW code, NEW phase
  PROVE  /\ StatusForError(code, phase) \in {"not_started", "aborted", "inconclusive", "failed"}
         /\ phase = "prepare" => StatusForError(code, phase) = "not_started"
         /\ phase = "run" /\ code \notin NotStartedCodes =>
              StatusForError(code, phase) # "not_started"
  BY DEF StatusForError

\* The fields of a test in progress, and of none.
LEMMA TestFields ==
  ASSUME TypeOK
  PROVE  /\ test.pc \in {"idle", "check", "require", "create", "upload", "start", "poll",
                         "delete", "save"}
         /\ test.target \in Targets \union {NotRun} /\ test.run \in 0..MaxTests
         /\ test.result \in Snapshots /\ test.cancelled \in BOOLEAN
  BY DEF TypeOK, TestType

LEMMA NoTestFields ==
  /\ NoTest \in TestType /\ NoTest.pc = "idle" /\ NoTest.cancelled = FALSE /\ NoTest.run = 0
  /\ NoTest.target = NotRun /\ NoTest.result = NotRun
<1>1. NotRun \in Snapshots
  BY DEF Snapshots
<1>2. 0 \in 0..MaxTests
  BY RuntimeAssumption
<1> QED
  BY <1>1, <1>2 DEF NoTest, TestType

-----------------------------------------------------------------------------
(* The runner's runs *)

\* The runs the runner may have: none, a new one, and what each request and
\* each step of its own makes of it.
LEMMA NoRunSound == SoundRun(NoRun)
<1>1. 1 \in StepIds /\ 0 \in 0..5
  BY SevenSteps
<1> QED
  BY <1>1 DEF NoRun, SoundRun, RunType

LEMMA NewRunSound ==
  ASSUME test.target \in Targets
  PROVE  /\ SoundRun(NewRun) /\ NewRun.status = "created" /\ NewRun.target = test.target
         /\ NewRun.broke = 0
<1> DEFINE a == [NoRun EXCEPT !.status = "created"]
           b == [a EXCEPT !.phase = Upload]
<1>1. /\ NoRun \in RunType /\ NoRun.verdict = "running" /\ NoRun.broke = 0
      /\ NoRun.sweeping = FALSE
  BY NoRunSound DEF NoRun, SoundRun
<1>2. /\ a \in RunType /\ a.status = "created" /\ a.verdict = "running" /\ a.broke = 0
      /\ a.sweeping = FALSE
  BY <1>1 DEF RunType
<1> HIDE DEF a
<1>3. /\ b \in RunType /\ b.status = "created" /\ b.verdict = "running" /\ b.broke = 0
      /\ b.sweeping = FALSE
  BY <1>2, NamedSteps DEF RunType
<1>4. NewRun = [b EXCEPT !.target = test.target]
  BY DEF NewRun, b, a
<1> HIDE DEF b
<1> QED
  BY <1>3, <1>4 DEF SoundRun, RunType

LEMMA UploadedSound ==
  ASSUME NEW run, SoundRun(run), run.status = "created"
  PROVE  LET next == [run EXCEPT !.status = "uploaded"] IN
         /\ SoundRun(next) /\ next.status = "uploaded" /\ next.target = run.target
  BY DEF SoundRun, RunType

LEMMA ExecutingSound ==
  ASSUME NEW run, SoundRun(run), run.status = "uploaded"
  PROVE  /\ SoundRun(Executing(run)) /\ Executing(run).status = "executing"
         /\ Executing(run).target = run.target /\ Executing(run).phase = 3
         /\ Executing(run).broke = 0 /\ Executing(run).verdict = "running"
         /\ Executing(run).sweeping = FALSE
<1> DEFINE a == [run EXCEPT !.status = "executing"]
<1>1. /\ a \in RunType /\ a.status = "executing" /\ a.verdict = "running" /\ a.broke = 0
      /\ a.target = run.target /\ a.sweeping = FALSE
  BY DEF SoundRun, RunType
<1>2. Executing(run) = [a EXCEPT !.phase = 3]
  BY DEF Executing
<1> HIDE DEF a
<1>3. 3 \in StepIds
  BY SevenSteps
<1> QED
  BY <1>1, <1>2, <1>3 DEF SoundRun, RunType

LEMMA GoneSound ==
  ASSUME NEW run, SoundRun(run)
  PROVE  /\ SoundRun(Gone(run)) /\ Gone(run).status = "gone"
         /\ Gone(run).verdict = run.verdict /\ Gone(run).target = run.target
<1> DEFINE a == [run EXCEPT !.status = "gone"]
           b == [a EXCEPT !.phase = 1]
           c == [b EXCEPT !.broke = 0]
<1>1. /\ a \in RunType /\ a.status = "gone" /\ a.verdict = run.verdict
      /\ a.target = run.target
  BY DEF SoundRun, RunType
<1> HIDE DEF a
<1>2. 1 \in StepIds /\ 0 \in 0..5
  BY SevenSteps
<1>3. /\ b \in RunType /\ b.status = "gone" /\ b.verdict = run.verdict
      /\ b.target = run.target
  BY <1>1, <1>2 DEF RunType
<1> HIDE DEF b
<1>4. /\ c \in RunType /\ c.status = "gone" /\ c.verdict = run.verdict
      /\ c.target = run.target
  BY <1>2, <1>3 DEF RunType
<1>5. Gone(run) = [c EXCEPT !.sweeping = FALSE]
  BY DEF Gone, c, b, a
<1> HIDE DEF c
<1> QED
  BY <1>4, <1>5 DEF SoundRun, RunType

\* What a step may make of the runs: each stays sound, those not begun stay
\* none, and what passed stays passed, with its target.
Keeps(next) ==
  /\ next \in [RunIds -> RunType]
  /\ \A n \in RunIds :
       /\ SoundRun(next[n])
       /\ n > tests => next[n] = NoRun
       /\ runs[n].verdict = "passed" => /\ next[n].verdict = "passed"
                                         /\ next[n].target = runs[n].target

\* A step that leaves the runner alone leaves its runs sound.
LEMMA RunsKept ==
  ASSUME TypeOK, RunsSound
  PROVE  Keeps(runs)
  BY DEF TypeOK, RunsSound, Keeps

\* One run that is replaced by a sound one that keeps what it passed.
LEMMA OneRunKept ==
  ASSUME TypeOK, RunsSound, NEW n \in RunIds, NEW run, SoundRun(run),
         runs[n].verdict = "passed" => run.verdict = "passed" /\ run.target = runs[n].target,
         n > tests => run = NoRun
  PROVE  Keeps([runs EXCEPT ![n] = run])
<1> DEFINE next == [runs EXCEPT ![n] = run]
<1>1. runs \in [RunIds -> RunType] /\ run \in RunType
  BY DEF TypeOK, SoundRun
<1>2. next \in [RunIds -> RunType] /\ \A k \in RunIds : next[k] = IF k = n THEN run ELSE runs[k]
  BY <1>1
<1> HIDE DEF next
<1>3. Keeps(next)
  BY <1>2 DEF RunsSound, Keeps
<1> QED
  BY <1>3 DEF next

\* The runner's side of a request that may have been lost.
LEMMA EffectsKeep ==
  ASSUME TypeOK, Stage, RunsSound, NEW next \in Effects
  PROVE  /\ Keeps(next)
         /\ test.pc \in Late => next[tests].target = runs[tests].target
<1>1. CASE next = runs
  BY <1>1, RunsKept
<1>2. CASE test.pc = "create" /\ next = [runs EXCEPT ![tests] = NewRun]
  <2>1. tests \in RunIds /\ test.target \in Targets /\ runs[tests].verdict # "passed"
    BY <1>2 DEF Stage, Early, NoRun
  <2>2. ~(tests > tests)
    BY <2>1 DEF RunIds
  <2>3. SoundRun(NewRun)
    BY <2>1, NewRunSound
  <2>4. Keeps([runs EXCEPT ![tests] = NewRun])
    BY <2>1, <2>2, <2>3, OneRunKept
  <2> QED
    BY <1>2, <2>4 DEF Late
<1>3. CASE /\ test.pc = "upload" /\ runs[tests].status = "created"
           /\ next = [runs EXCEPT ![tests].status = "uploaded"]
  <2> DEFINE run == [runs[tests] EXCEPT !.status = "uploaded"]
  <2>1. tests \in RunIds /\ SoundRun(runs[tests]) /\ runs[tests].verdict # "passed"
    BY <1>3 DEF Stage, RunsSound, SoundRun
  <2>2. ~(tests > tests)
    BY <2>1 DEF RunIds
  <2>3. SoundRun(run) /\ run.target = runs[tests].target
    BY <1>3, <2>1, UploadedSound
  <2>4. next = [runs EXCEPT ![tests] = run]
    BY <1>3
  <2> HIDE DEF run
  <2>5. Keeps(next)
    BY <2>1, <2>2, <2>3, <2>4, OneRunKept
  <2>6. next[tests] = run
    BY <2>1, <2>4 DEF TypeOK
  <2> QED
    BY <2>3, <2>5, <2>6
<1>4. CASE /\ test.pc = "start" /\ runs[tests].status = "uploaded"
           /\ next = [runs EXCEPT ![tests] = Executing(@)]
  <2> DEFINE run == Executing(runs[tests])
  <2>1. tests \in RunIds /\ SoundRun(runs[tests]) /\ runs[tests].verdict # "passed"
    BY <1>4 DEF Stage, RunsSound, SoundRun
  <2>2. ~(tests > tests)
    BY <2>1 DEF RunIds
  <2>3. SoundRun(run) /\ run.target = runs[tests].target
    BY <1>4, <2>1, ExecutingSound
  <2>4. next = [runs EXCEPT ![tests] = run]
    BY <1>4
  <2> HIDE DEF run
  <2>5. Keeps(next)
    BY <2>1, <2>2, <2>3, <2>4, OneRunKept
  <2>6. next[tests] = run
    BY <2>1, <2>4 DEF TypeOK
  <2> QED
    BY <2>3, <2>5, <2>6
<1> QED
  <2>1. CASE test.pc = "create" /\ Admitted
    BY <1>1, <1>2, <2>1 DEF Effects
  <2>2. CASE test.pc = "upload" /\ runs[tests].status = "created"
    BY <1>1, <1>3, <2>2 DEF Effects
  <2>3. CASE test.pc = "start" /\ runs[tests].status = "uploaded"
    BY <1>1, <1>4, <2>3 DEF Effects
  <2>4. CASE /\ ~(test.pc = "create" /\ Admitted)
             /\ ~(test.pc = "upload" /\ runs[tests].status = "created")
             /\ ~(test.pc = "start" /\ runs[tests].status = "uploaded")
    BY <1>1, <2>4 DEF Effects
  <2> QED
    BY <2>1, <2>2, <2>3, <2>4

\* What an execution makes of a run that is in pace.
LEMMA ExecutionsKeep ==
  ASSUME TypeOK, Stage, RunsSound, Pace, NEW n \in RunIds, RunGoesOn(n)
  PROVE  /\ Keeps(runs') /\ test.pc = "poll" /\ n = tests
         /\ runs'[tests].target = runs[tests].target
         /\ runs'[tests].status \in {"executing", "ended"}
         /\ InPace(runs'[tests], reached') /\ reached' >= reached /\ reached' \in 0..5
<1> DEFINE run == runs[n]
<1>1. /\ run.status = "executing" /\ n = tests /\ test.pc \in {"start", "poll"}
      /\ UNCHANGED test
  BY DEF RunGoesOn, Followed
<1>2. test.pc = "poll" /\ InPace(run, reached)
  BY <1>1 DEF Pace
<1>3. /\ SoundRun(run) /\ run.verdict = "running" /\ run.phase \in 3..6 /\ run.broke \in 0..5
      /\ ~(n > tests) /\ reached \in 0..5 /\ run \in RunType
  BY <1>1, <1>2 DEF RunsSound, SoundRun, InPace, Cleanup, RunType, RunIds, TypeOK
<1>4. /\ run.broke # 0 => run.phase = 6
      /\ run.broke = 0 => reached < run.phase
      /\ \A k \in 3..5 : (run.broke = 0 /\ k < run.phase) \/ k < run.broke => reached >= k
  BY <1>1, <1>2 DEF InPace, Cleanup
<1> DEFINE Good(next) ==
      /\ SoundRun(next) /\ next.target = run.target
      /\ next.status \in {"executing", "ended"}
      /\ next.broke # 0 => next.phase = 6 /\ next.verdict # "passed"
      /\ next.status = "executing" => next.phase \in 3..6
      /\ next.status = "executing" /\ next.broke = 0 => reached' < next.phase
      /\ next.sweeping => next.status = "executing" /\ next.broke = 0 /\ next.phase \in 4..5
      /\ next.status = "ended" /\ next.broke = 0 => next.phase \in 6..7
      /\ \A k \in 3..5 : (next.broke = 0 /\ k < next.phase) \/ k < next.broke => reached' >= k
      /\ reached' >= reached /\ reached' \in 0..5
<1>5. ASSUME NEW next, runs' = [runs EXCEPT ![n] = next], Good(next)
      PROVE  /\ Keeps(runs') /\ runs'[tests].target = runs[tests].target
             /\ runs'[tests].status \in {"executing", "ended"}
             /\ InPace(runs'[tests], reached') /\ reached' >= reached /\ reached' \in 0..5
  <2>1. Keeps(runs')
    BY <1>3, <1>5, OneRunKept
  <2>2. runs'[tests] = next
    BY <1>1, <1>5 DEF TypeOK
  <2> QED
    BY <1>1, <1>5, <2>1, <2>2 DEF InPace, Cleanup
<1> DEFINE on   == IF run.sweeping THEN Cleanup ELSE run.phase + 1
           done == IF run.sweeping THEN Probe ELSE run.phase
<1>6. \/ /\ run.phase \in {Boot, Probe} /\ ~run.sweeping /\ reached' = reached
         /\ runs' = [runs EXCEPT ![n].sweeping = TRUE]
      \/ /\ run.phase < Cleanup /\ reached' = done
         /\ runs' = [runs EXCEPT ![n] = [run EXCEPT !.phase = on, !.sweeping = FALSE]]
      \/ /\ run.phase < Cleanup /\ reached' = reached
         /\ runs' = [runs EXCEPT ![n] = [run EXCEPT !.phase = Cleanup, !.sweeping = FALSE,
                                                    !.broke = run.phase]]
      \/ /\ run.phase = Cleanup /\ reached' = reached
         /\ \E v \in IF run.broke = 0 THEN {"passed", "inconclusive"} ELSE Verdicts \ {"passed"} :
              runs' = [runs EXCEPT ![n] =
                         [run EXCEPT !.status = "ended", !.verdict = v,
                                     !.phase = IF v = "passed" THEN 7 ELSE Cleanup]]
  BY DEF RunGoesOn
<1>7. CASE /\ run.phase \in {Boot, Probe} /\ ~run.sweeping /\ reached' = reached
           /\ runs' = [runs EXCEPT ![n].sweeping = TRUE]
  <2> DEFINE next == [run EXCEPT !.sweeping = TRUE]
  <2>1. run.broke = 0 /\ run.phase \in 4..5
    BY <1>3, <1>4, <1>7 DEF Boot, Probe
  <2>2. /\ next \in RunType /\ next.status = "executing" /\ next.verdict = "running"
        /\ next.broke = 0 /\ next.target = run.target /\ next.phase = run.phase
    BY <1>1, <1>3, <2>1 DEF RunType
  <2>3. runs' = [runs EXCEPT ![n] = next]
    BY <1>7
  <2> HIDE DEF next
  <2>4. SoundRun(next)
    BY <2>2 DEF SoundRun
  <2>5. Good(next)
    BY <1>3, <1>4, <1>7, <2>1, <2>2, <2>4
  <2> QED
    BY <1>1, <1>2, <1>5, <2>3, <2>5
<1>8. CASE /\ run.phase < Cleanup /\ reached' = done
           /\ runs' = [runs EXCEPT ![n] = [run EXCEPT !.phase = on, !.sweeping = FALSE]]
  <2> DEFINE a    == [run EXCEPT !.phase = on]
             next == [a EXCEPT !.sweeping = FALSE]
  <2>1. run.broke = 0 /\ (run.sweeping => run.phase \in 4..5)
    BY <1>2, <1>3, <1>4, <1>8 DEF InPace, Cleanup
  <2>2. on \in StepIds /\ on \in 4..6
    BY <1>3, <1>8, SevenSteps DEF Cleanup
  <2>3. /\ \A k \in 3..5 : k < on => done >= k
        /\ done >= reached /\ done \in 0..5 /\ done < on
    BY <1>3, <1>4, <1>8, <2>1 DEF Cleanup, Probe
  <2>4. runs' = [runs EXCEPT ![n] = next]
    BY <1>8
  <2>5. reached' = done
    BY <1>8
  <2> HIDE DEF on, done
  <2>6. /\ a \in RunType /\ a.status = "executing" /\ a.verdict = "running"
        /\ a.broke = 0 /\ a.target = run.target /\ a.phase = on
    BY <1>1, <1>3, <2>1, <2>2 DEF RunType
  <2> HIDE DEF a
  <2>7. /\ next \in RunType /\ next.status = "executing" /\ next.verdict = "running"
        /\ next.broke = 0 /\ next.target = run.target /\ next.phase = on
        /\ next.sweeping = FALSE
    BY <2>6 DEF RunType
  <2> HIDE DEF next
  <2>8. SoundRun(next)
    BY <2>7 DEF SoundRun
  <2>9. Good(next)
    BY <2>2, <2>3, <2>5, <2>7, <2>8
  <2> QED
    BY <1>1, <1>2, <1>5, <2>4, <2>9
<1>9. CASE /\ run.phase < Cleanup /\ reached' = reached
            /\ runs' = [runs EXCEPT ![n] = [run EXCEPT !.phase = Cleanup, !.sweeping = FALSE,
                                                       !.broke = run.phase]]
  <2> DEFINE a    == [run EXCEPT !.phase = Cleanup]
             b    == [a EXCEPT !.sweeping = FALSE]
             next == [b EXCEPT !.broke = run.phase]
  <2>1. run.broke = 0
    BY <1>3, <1>4, <1>9 DEF Cleanup
  <2>2. run.phase \in 3..5 /\ run.phase \in 0..5
    BY <1>3, <1>9 DEF Cleanup
  <2>3. /\ a \in RunType /\ a.status = "executing" /\ a.verdict = "running"
        /\ a.target = run.target /\ a.phase = 6
    BY <1>1, <1>3, NamedSteps DEF RunType, Cleanup
  <2>4. runs' = [runs EXCEPT ![n] = next]
    BY <1>9
  <2> HIDE DEF a
  <2>5. /\ b \in RunType /\ b.status = "executing" /\ b.verdict = "running"
        /\ b.target = run.target /\ b.phase = 6 /\ b.sweeping = FALSE
    BY <2>3 DEF RunType
  <2> HIDE DEF b
  <2>6. /\ next \in RunType /\ next.status = "executing" /\ next.verdict = "running"
        /\ next.target = run.target /\ next.phase = 6 /\ next.broke = run.phase
        /\ next.sweeping = FALSE
    BY <2>2, <2>5 DEF RunType
  <2> HIDE DEF next
  <2>7. SoundRun(next)
    BY <2>6 DEF SoundRun
  <2>8. /\ \A k \in 3..5 : (next.broke = 0 /\ k < next.phase) \/ k < next.broke => reached' >= k
        /\ reached' >= reached /\ reached' \in 0..5
        /\ next.broke # 0 /\ next.phase \in 3..6
    BY <1>3, <1>4, <1>9, <2>1, <2>2, <2>6 DEF Cleanup
  <2>9. Good(next)
    BY <2>6, <2>7, <2>8
  <2> QED
    BY <1>1, <1>2, <1>5, <2>4, <2>9
<1>10. CASE /\ run.phase = Cleanup /\ reached' = reached
           /\ \E v \in IF run.broke = 0 THEN {"passed", "inconclusive"}
                       ELSE Verdicts \ {"passed"} :
                runs' = [runs EXCEPT ![n] =
                           [run EXCEPT !.status = "ended", !.verdict = v,
                                       !.phase = IF v = "passed" THEN 7 ELSE Cleanup]]
  <2>1. PICK v \in IF run.broke = 0 THEN {"passed", "inconclusive"}
                  ELSE Verdicts \ {"passed"} :
               runs' = [runs EXCEPT ![n] =
                          [run EXCEPT !.status = "ended", !.verdict = v,
                                      !.phase = IF v = "passed" THEN 7 ELSE Cleanup]]
    BY <1>10
  <2> DEFINE last == IF v = "passed" THEN 7 ELSE Cleanup
             a    == [run EXCEPT !.status = "ended"]
             b    == [a EXCEPT !.verdict = v]
             next == [b EXCEPT !.phase = last]
  <2>2. v \in Verdicts /\ (run.broke # 0 => v # "passed") /\ v # "running"
    BY <2>1 DEF Verdicts
  <2>11. run.sweeping = FALSE
    BY <1>2, <1>3, <1>10 DEF InPace, RunType, Cleanup
  <2>3. last \in StepIds /\ last \in 6..7 /\ (run.broke # 0 => last = 6)
    BY <2>2, SevenSteps DEF Cleanup
  <2>4. /\ a \in RunType /\ a.status = "ended" /\ a.target = run.target /\ a.broke = run.broke
        /\ a.sweeping = FALSE
    BY <1>3, <2>11 DEF RunType
  <2> HIDE DEF last, a
  <2>5. /\ b \in RunType /\ b.status = "ended" /\ b.target = run.target /\ b.broke = run.broke
        /\ b.verdict = v /\ b.sweeping = FALSE
    BY <2>2, <2>4 DEF RunType
  <2>6. runs' = [runs EXCEPT ![n] = next]
    BY <2>1 DEF last, a
  <2> HIDE DEF b
  <2>7. /\ next \in RunType /\ next.status = "ended" /\ next.target = run.target
        /\ next.broke = run.broke /\ next.verdict = v /\ next.phase = last
        /\ next.sweeping = FALSE
    BY <2>3, <2>5 DEF RunType
  <2> HIDE DEF next
  <2>8. SoundRun(next)
    BY <2>2, <2>7 DEF SoundRun
  <2>9. /\ \A k \in 3..5 : (next.broke = 0 /\ k < next.phase) \/ k < next.broke => reached' >= k
        /\ reached' >= reached /\ reached' \in 0..5
    BY <1>3, <1>4, <1>10, <2>3, <2>7 DEF Cleanup
  <2>10. Good(next)
    BY <2>2, <2>3, <2>7, <2>8, <2>9
  <2> QED
    BY <1>1, <1>2, <1>5, <2>6, <2>10
<1> QED
  BY <1>6, <1>7, <1>8, <1>9, <1>10

\* A step of the test, the client or the runner keeps what has passed.
LEMMA RunsStep ==
  ASSUME TypeOK, Stage, RunsSound, Pace, Next
  PROVE  Keeps(runs')
<1>1. CASE runs' \in Effects
  BY <1>1, EffectsKeep
<1>2. CASE UNCHANGED runs
  BY <1>2, RunsKept
<1>3. CASE Delete
  <2>1. CASE runs' = [runs EXCEPT ![test.run] = Removed(@)]
    <3> DEFINE run == Removed(runs[tests])
    <3>1. test.run = tests /\ tests \in RunIds /\ ~(tests > tests)
      BY <1>3 DEF Delete, Stage, RunIds
    <3>2. SoundRun(runs[tests])
      BY <3>1 DEF RunsSound
    <3>3. /\ SoundRun(run) /\ run.verdict = runs[tests].verdict
          /\ run.target = runs[tests].target
      BY <3>2, GoneSound DEF Removed
    <3>4. runs' = [runs EXCEPT ![tests] = run]
      BY <2>1, <3>1
    <3> HIDE DEF run
    <3> QED
      BY <3>1, <3>3, <3>4, OneRunKept
  <2> QED
    BY <1>2, <1>3, <2>1 DEF Delete
<1>4. CASE \E n \in RunIds : RunGoesOn(n)
  BY <1>4, ExecutionsKeep
<1>5. CASE \E n \in RunIds : RunEndsUnseen(n)
  <2>1. PICK n \in RunIds, v \in {"passed", "failed"} :
          /\ runs[n].status = "executing"
          /\ runs' = [runs EXCEPT ![n] = [Gone(runs[n]) EXCEPT !.status = "ended", !.verdict = v]]
    BY <1>5 DEF RunEndsUnseen
  <2> DEFINE gone == Gone(runs[n])
             a    == [gone EXCEPT !.status = "ended"]
             run  == [a EXCEPT !.verdict = v]
  <2>2. /\ SoundRun(runs[n]) /\ runs[n].verdict # "passed" /\ ~(n > tests)
    BY <2>1 DEF RunsSound, SoundRun, NoRun
  <2>3. gone \in RunType
    BY <2>2, GoneSound DEF SoundRun
  <2> HIDE DEF gone
  <2>4. a \in RunType /\ a.status = "ended"
    BY <2>3 DEF RunType
  <2> HIDE DEF a
  <2>5. run \in RunType /\ run.status = "ended" /\ run.verdict # "running"
    BY <2>4 DEF RunType, Verdicts
  <2>6. runs' = [runs EXCEPT ![n] = run]
    BY <2>1 DEF a, gone
  <2> HIDE DEF run
  <2>7. SoundRun(run)
    BY <2>5 DEF SoundRun
  <2> QED
    BY <2>2, <2>6, <2>7, OneRunKept
<1>6. CASE RunnerForgets
  <2>1. CASE \E n \in RunIds : /\ runs[n].status \in {"created", "uploaded", "ended"}
                              /\ runs' = [runs EXCEPT ![n] = Gone(@)]
    <3>1. PICK n \in RunIds : /\ runs[n].status \in {"created", "uploaded", "ended"}
                              /\ runs' = [runs EXCEPT ![n] = Gone(runs[n])]
      BY <2>1
    <3>2. SoundRun(runs[n]) /\ ~(n > tests)
      BY <3>1 DEF RunsSound, NoRun
    <3> QED
      BY <3>1, <3>2, GoneSound, OneRunKept
  <2>2. CASE runs' = [n \in RunIds |-> IF runs[n].status = "none" THEN runs[n] ELSE Gone(runs[n])]
    <3>1. \A n \in RunIds :
            /\ SoundRun(runs[n]) /\ SoundRun(Gone(runs[n]))
            /\ Gone(runs[n]).verdict = runs[n].verdict /\ Gone(runs[n]).target = runs[n].target
            /\ n > tests => runs[n] = NoRun
      BY GoneSound DEF RunsSound
    <3>2. ASSUME NEW n \in RunIds
          PROVE  /\ SoundRun(runs'[n])
                 /\ n > tests => runs'[n] = NoRun
                 /\ runs'[n].verdict = runs[n].verdict /\ runs'[n].target = runs[n].target
      <4>1. runs'[n] = IF runs[n].status = "none" THEN runs[n] ELSE Gone(runs[n])
        BY <2>2
      <4>2. NoRun.status = "none"
        BY DEF NoRun
      <4>3. runs'[n] = runs[n] \/ (runs'[n] = Gone(runs[n]) /\ runs[n] # NoRun)
        BY <4>1, <4>2
      <4> QED
        BY <3>1, <4>3
    <3>3. \A n \in RunIds : runs'[n] \in RunType
      BY <3>2 DEF SoundRun
    <3> QED
      BY <2>2, <3>2, <3>3 DEF Keeps
  <2> QED
    BY <1>6, <2>1, <2>2 DEF RunnerForgets
<1>7. CASE Created \/ ArchiveLost
  BY <1>1, <1>7 DEF Created, ArchiveLost, Effects
<1>8. CASE Uploaded
  BY <1>1, <1>8 DEF Uploaded, Effects
<1>9. CASE Started
  BY <1>1, <1>9 DEF Started, Effects
<1>10. CASE CreateFails \/ UploadFails \/ StartFails
  BY <1>1, <1>2, <1>10 DEF CreateFails, UploadFails, StartFails
<1>11. CASE Cancelled
  BY <1>1, <1>2, <1>11 DEF Cancelled, CancelUnhandled, CancelHandled, CancelDeletes
<1>12. CASE Begin \/ Check \/ Require \/ ArchiveGone \/ Uploading
  BY <1>2, <1>12 DEF Begin, Check, Require, ArchiveGone, Uploading, runner
<1>13. CASE PollRunning \/ PollEnded \/ PollForeign \/ PollFails \/ Deadline
  BY <1>2, <1>13 DEF PollRunning, PollEnded, PollForeign, PollFails, Deadline, runner
<1>14. CASE Save \/ Shutdown \/ ShutdownDone \/ Restart \/ Crash \/ NewBackup
  BY <1>2, <1>14 DEF Save, Shutdown, ShutdownDone, Restart, Crash, Load, NewBackup, runner
<1> QED
  BY <1>3, <1>4, <1>5, <1>6, <1>7, <1>8, <1>9, <1>10, <1>11, <1>12, <1>13, <1>14 DEF Next

\* What is proved stays proved.
LEMMA ProvedStays ==
  ASSUME Keeps(runs'), NEW snapshot, Proved(snapshot)
  PROVE  Proved(snapshot)'
  BY DEF Keeps, Proved

-----------------------------------------------------------------------------
(* The live job *)

JobKept ==
  /\ job' \in JobType /\ shown' = Face(job')
  /\ job'.status = job.status /\ job'.reference = job.reference

\* What the view shows is the live job.
LEMMA ReportedJob ==
  ASSUME TypeOK, NEW next, NEW force \in BOOLEAN, Reported(next, force),
         force \/ next.status = job.status
  PROVE  job' = next /\ shown' = Face(job')
  BY EmittedFace DEF TypeOK, Reported

LEMMA LiveUnchanged ==
  ASSUME TypeOK, UNCHANGED live
  PROVE  JobKept /\ job' = job
  BY DEF TypeOK, live, JobKept

\* The steps a run reports are steps, whatever run it is.
LEMMA TableType ==
  ASSUME NEW run, run \in RunType
  PROVE  Table(run) \in Steps
<1>1. ASSUME NEW k \in StepIds
      PROVE  StepState(run, k) \in StepStates
  <2>1. CASE run.broke # 0 /\ k # Cleanup
    BY <2>1 DEF StepState, StepStates
  <2>2. CASE ~(run.broke # 0 /\ k # Cleanup) /\ run.status = "ended"
    BY <2>2 DEF StepState, StepStates
  <2>3. CASE ~(run.broke # 0 /\ k # Cleanup) /\ run.status # "ended"
    <3>1. ~(k < run.phase /\ k = run.phase)
      BY SevenSteps DEF RunType
    <3>2. k = Cleanup /\ run.sweeping /\ k < run.phase => StepState(run, k) \in StepStates
      BY <2>3 DEF StepState, StepStates
    <3> QED
      BY <2>3, <3>1, <3>2 DEF StepState, StepStates
  <2> QED
    BY <2>1, <2>2, <2>3
<1> DEFINE percent(k) == IF StepState(run, k) = "passed" /\ RuntimeSteps[k].determinate
                         THEN 100 ELSE 0
           row(k) == [state |-> StepState(run, k), determinate |-> RuntimeSteps[k].determinate,
                      percent |-> percent(k)]
<1>2. \A k \in StepIds : percent(k) \in Percents
  BY DEF Percents
<1> HIDE DEF percent
<1>3. \A k \in StepIds : row(k) \in StepRecords
  BY <1>1, <1>2, StepTable DEF StepRecords
<1>4. Table(run) = [k \in StepIds |-> row(k)]
  BY DEF Table, percent
<1> HIDE DEF row
<1> QED
  BY <1>3, <1>4 DEF Steps

\* The steps of a run that is in pace: those it shows as passed are, and one is
\* only open in front of the step it names while the child cleans up.
LEMMA TableIsReal ==
  ASSUME NEW run, SoundRun(run), run.status \in {"executing", "ended"},
         InPace(run, reached), NEW k \in 3..5
  PROVE  /\ Table(run)[k].state = "passed" => reached >= k
         /\ k < Report(run).step /\ Table(run)[k].state \in {"pending", "running"} =>
              run.sweeping /\ k >= run.phase
<1>1. k \in StepIds /\ k # 6 /\ k < 6
  BY SevenSteps
<1>2. Table(run)[k].state = StepState(run, k)
  BY <1>1 DEF Table
<1>3. run.broke \in 0..5 /\ run.phase \in 1..7 /\ run.sweeping \in BOOLEAN
  BY SevenSteps DEF SoundRun, RunType
<1>4. CASE run.broke # 0
  <2>1. StepState(run, k) = IF k < run.broke THEN "passed" ELSE "failed"
    BY <1>1, <1>4 DEF StepState, Cleanup
  <2> QED
    BY <1>2, <2>1 DEF InPace
<1>5. CASE run.broke = 0 /\ run.status = "ended"
  <2>1. StepState(run, k) = "passed"
    BY <1>1, <1>5 DEF StepState, Cleanup
  <2>2. k < run.phase
    BY <1>1, <1>3, <1>5 DEF InPace, Cleanup
  <2> QED
    BY <1>2, <1>5, <2>1, <2>2 DEF InPace
<1>6. CASE run.broke = 0 /\ run.status # "ended"
  <2>1. StepState(run, k) = IF k < run.phase THEN "passed"
                            ELSE IF k = run.phase THEN "running" ELSE "pending"
    <3>1. ~(k < run.phase /\ k = run.phase)
      BY <1>3
    <3>2. StepState(run, k) = CASE k < run.phase -> "passed"
                                [] k = run.phase \/ (k = Cleanup /\ run.sweeping) -> "running"
                                [] OTHER -> "pending"
      BY <1>6 DEF StepState
    <3> QED
      BY <1>1, <3>1, <3>2 DEF Cleanup
  <2>2. CASE k < run.phase
    BY <1>2, <1>6, <2>1, <2>2 DEF InPace
  <2>3. CASE ~(k < run.phase)
    <3>1. k >= run.phase /\ Table(run)[k].state \in {"pending", "running"}
      BY <1>2, <1>3, <2>1, <2>3
    <3>2. k < Report(run).step => run.sweeping
      BY <2>3 DEF Report
    <3> QED
      BY <3>1, <3>2
  <2> QED
    BY <2>2, <2>3
<1> QED
  BY <1>4, <1>5, <1>6

\* What a run reports while its child cleans up.
LEMMA SweepingReport ==
  ASSUME NEW run, SoundRun(run), InPace(run, reached), run.sweeping
  PROVE  /\ Report(run).step = Cleanup /\ run.phase >= Boot
         /\ Table(run)[Complete].state = "pending"
<1>1. run.status = "executing" /\ run.broke = 0 /\ run.phase \in 4..5
  BY DEF InPace
<1>2. Complete \in StepIds /\ Complete = 7 /\ Cleanup = 6
  BY SevenSteps DEF Complete, Cleanup
<1>3. StepState(run, Complete) = "pending"
  <2>1. ~(Complete < run.phase) /\ Complete # run.phase /\ Complete # Cleanup
    BY <1>1, <1>2
  <2> QED
    BY <1>1, <2>1 DEF StepState
<1> QED
  BY <1>1, <1>2, <1>3 DEF Report, Table, Boot

\* An answer is adopted: the job goes on, and shows what the run has passed.
LEMMA AdoptedAnswer ==
  ASSUME TypeOK, NEW run, run \in RunType, Reported(ApplyRunnerState(job, Report(run)), FALSE)
  PROVE  /\ JobKept
         /\ SoundRun(run) /\ run.status \in {"executing", "ended"} /\ InPace(run, reached)
              /\ job.status = "running" /\ stepwise =>
              \A k \in 3..5 : job'.steps[k].state = "passed" =>
                                 reached >= k \/ (k >= Boot /\ Unjudged')
<1> DEFINE report == Report(run)
           next   == ApplyRunnerState(job, report)
           R      == Backups \union {None}
<1>1. job \in Jobs(R) /\ stepwise \in BOOLEAN
  BY JobsAreTyped DEF TypeOK
<1>2. /\ report.table = IF stepwise THEN Table(run) ELSE None
      /\ report.step \in StepIds
  BY NamedSteps DEF Report, RunType
<1>3. Table(run) \in Steps /\ Table(run) # None
  BY TableType, NoneAssumption
<1>4. report.table = None \/ report.table \in Steps
  BY <1>2, <1>3
<1> HIDE DEF report, R
<1>5. /\ next \in Jobs(R) /\ next.status = job.status /\ next.reference = job.reference
      /\ job.status = "running" => next.current = report.step
      /\ job.status = "running" /\ report.table # None =>
           \A i \in StepIds :
             /\ ~(i < report.step) => next.steps[i].state = report.table[i].state
             /\ next.steps[i].state = "passed" =>
                  \/ report.table[i].state = "passed"
                  \/ i < report.step /\ report.table[i].state \in {"pending", "running"}
  BY <1>1, <1>2, <1>4, AdoptedSteps
<1>6. job' = next /\ shown' = Face(job')
  <2>1. Reported(next, FALSE)
    BY DEF report
  <2> HIDE DEF next
  <2> QED
    BY <1>5, <2>1, ReportedJob
<1> HIDE DEF next
<1>7. JobKept
  BY <1>5, <1>6, JobsAreTyped DEF JobKept, R
<1>8. ASSUME SoundRun(run), run.status \in {"executing", "ended"}, InPace(run, reached),
             job.status = "running", stepwise, NEW k \in 3..5, job'.steps[k].state = "passed"
      PROVE  reached >= k \/ (k >= Boot /\ Unjudged')
  <2>1. k \in StepIds
    BY SevenSteps
  <2>2. \/ Table(run)[k].state = "passed"
        \/ k < report.step /\ Table(run)[k].state \in {"pending", "running"}
    BY <1>2, <1>3, <1>5, <1>6, <1>8, <2>1
  <2>3. CASE Table(run)[k].state = "passed"
    BY <1>8, <2>3, TableIsReal
  <2>4. CASE k < report.step /\ Table(run)[k].state \in {"pending", "running"}
    <3>1. run.sweeping /\ k >= run.phase
      BY <1>8, <2>4, TableIsReal DEF report
    <3>2. /\ report.step = Cleanup /\ run.phase >= Boot
          /\ Table(run)[Complete].state = "pending"
      BY <1>8, <3>1, SweepingReport DEF report
    <3>3. k >= Boot
      <4>1. run.phase \in Nat
        BY SevenSteps DEF RunType
      <4> QED
        BY <3>1, <3>2, <4>1 DEF Boot
    <3>4. Complete \in StepIds /\ ~(Complete < Cleanup)
      BY SevenSteps DEF Complete, Cleanup
    <3>5. job'.current = Cleanup /\ job'.steps[Complete].state = "pending"
      BY <1>2, <1>3, <1>5, <1>6, <1>8, <3>2, <3>4
    <3> QED
      BY <3>3, <3>5 DEF Unjudged
  <2> QED
    BY <2>2, <2>3, <2>4
<1> QED
  BY <1>7, <1>8

\* The steps of the isolated test are 3 to 5; the client's own calls of the
\* reporter never touch them, nor what the last answer left open.
SameTestSteps ==
  /\ \A k \in 3..5 : job'.steps[k].state = job.steps[k].state
  /\ Unjudged => Unjudged'

\* The live job through the phases of a test, as each begins.
LEMMA PrepareBegins ==
  ASSUME TypeOK, job.status = "running", job.current = NoStep,
         \A k \in StepIds : job.steps[k].determinate = RuntimeSteps[k].determinate,
         Reported(BeginStep(job, Prepare, FALSE, TRUE), TRUE)
  PROVE  /\ JobKept /\ SameTestSteps /\ job'.current = Prepare
         /\ \A k \in StepIds : job'.steps[k].determinate = RuntimeSteps[k].determinate
<1> DEFINE next == BeginStep(job, Prepare, FALSE, TRUE)
<1>1. job \in Jobs(Backups \union {None})
  BY JobsAreTyped DEF TypeOK
<1>2. /\ next \in Jobs(Backups \union {None})
      /\ next.status = job.status /\ next.reference = job.reference
      /\ next.current = Prepare /\ next.steps[Prepare].determinate = FALSE
      /\ \A i \in StepIds \ {Prepare} :
           /\ next.steps[i].determinate = job.steps[i].determinate
           /\ i # job.current => next.steps[i] = job.steps[i]
  <2>1. \A determinate, promote \in BOOLEAN :
          LET begun == BeginStep(job, Prepare, determinate, promote) IN
          /\ begun \in Jobs(Backups \union {None})
          /\ begun.status = job.status /\ begun.reference = job.reference
          /\ begun.current = Prepare /\ begun.steps[Prepare].determinate = determinate
          /\ \A i \in StepIds \ {Prepare} :
               /\ begun.steps[i].determinate = job.steps[i].determinate
               /\ i # job.current => begun.steps[i] = job.steps[i]
    BY <1>1, NamedSteps, BegunStep
  <2> QED
    BY <2>1, Zenon
<1>3. job' = next /\ shown' = Face(job')
  BY ReportedJob
<1> HIDE DEF next
<1>4. RuntimeSteps[Prepare].determinate = FALSE
  BY DEF RuntimeSteps, Prepare, Step
<1>5. \A k \in 3..5 : k \in StepIds \ {Prepare} /\ k # NoStep
  BY SevenSteps DEF Prepare, NoStep
<1> QED
  <2>1. ~Unjudged
    BY DEF Unjudged, NoStep, Cleanup
  <2>2. SameTestSteps /\ job'.current = Prepare
    BY <1>2, <1>3, <1>5, <2>1 DEF SameTestSteps
  <2> QED
    BY <1>2, <1>3, <1>4, <2>2, JobsAreTyped DEF JobKept

LEMMA UploadBegins ==
  ASSUME TypeOK, job.status = "running", job.current = Prepare,
         Reported(BeginStep(CompleteStep(job, Prepare, "passed"), Upload, TRUE, TRUE), TRUE)
  PROVE  JobKept /\ SameTestSteps
<1> DEFINE done == CompleteStep(job, Prepare, "passed")
           next == BeginStep(done, Upload, TRUE, TRUE)
<1>1. job \in Jobs(Backups \union {None}) /\ "passed" \in StepStates
  BY JobsAreTyped DEF TypeOK, StepStates
<1>2. /\ done \in Jobs(Backups \union {None})
      /\ done.status = job.status /\ done.reference = job.reference
      /\ done.current = job.current
      /\ \A i \in StepIds \ {Prepare} : done.steps[i] = job.steps[i]
  BY <1>1, NamedSteps, CompletedStep
<1> HIDE DEF done
<1>3. /\ next \in Jobs(Backups \union {None})
      /\ next.status = done.status /\ next.reference = done.reference
      /\ \A i \in StepIds \ {Upload} : i # done.current => next.steps[i] = done.steps[i]
  <2>1. \A determinate, promote \in BOOLEAN :
          LET begun == BeginStep(done, Upload, determinate, promote) IN
          /\ begun \in Jobs(Backups \union {None})
          /\ begun.status = done.status /\ begun.reference = done.reference
          /\ \A i \in StepIds \ {Upload} : i # done.current => begun.steps[i] = done.steps[i]
    BY <1>1, <1>2, NamedSteps, BegunStep
  <2> QED
    BY <2>1, Zenon
<1>4. Reported(next, TRUE)
  BY DEF done
<1> HIDE DEF next
<1>5. job' = next /\ shown' = Face(job')
  BY <1>4, ReportedJob
<1>6. \A k \in 3..5 : k \in StepIds /\ k # Prepare /\ k # Upload
  BY SevenSteps DEF Prepare, Upload
<1> QED
  BY <1>2, <1>3, <1>5, <1>6, JobsAreTyped DEF JobKept, SameTestSteps, Unjudged, Prepare, Cleanup

LEMMA UploadIsMeasured ==
  ASSUME TypeOK, Uploading
  PROVE  JobKept /\ SameTestSteps
<1>1. PICK percent \in {50, 100} : Reported(Update(job, Upload, percent), FALSE)
  BY DEF Uploading
<1> DEFINE next == Update(job, Upload, percent)
<1>2. job \in Jobs(Backups \union {None}) /\ percent \in Percents
  BY JobsAreTyped DEF TypeOK, Percents
<1>3. /\ next \in Jobs(Backups \union {None})
      /\ next.status = job.status /\ next.reference = job.reference
      /\ next.current = job.current
      /\ \A i \in StepIds : next.steps[i].state = job.steps[i].state
  BY <1>2, NamedSteps, UpdatedStep
<1> HIDE DEF next
<1>4. job' = next /\ shown' = Face(job')
  BY <1>1, <1>3, ReportedJob DEF next
<1>5. Complete \in StepIds /\ \A k \in 3..5 : k \in StepIds
  BY SevenSteps DEF Complete
<1> QED
  BY <1>3, <1>4, <1>5, JobsAreTyped DEF JobKept, SameTestSteps, Unjudged

LEMMA UploadCompletes ==
  ASSUME TypeOK, Uploaded
  PROVE  JobKept /\ SameTestSteps
<1> DEFINE next == CompleteStep(job, Upload, "passed")
<1>1. job \in Jobs(Backups \union {None}) /\ "passed" \in StepStates
  BY JobsAreTyped DEF TypeOK, StepStates
<1>2. /\ next \in Jobs(Backups \union {None})
      /\ next.status = job.status /\ next.reference = job.reference
      /\ next.current = job.current
      /\ \A i \in StepIds \ {Upload} : next.steps[i] = job.steps[i]
  BY <1>1, NamedSteps, CompletedStep
<1>3. job' = next /\ shown' = Face(job')
  BY ReportedJob DEF Uploaded
<1> HIDE DEF next
<1>4. Complete \in StepIds \ {Upload} /\ \A k \in 3..5 : k \in StepIds /\ k # Upload
  BY SevenSteps DEF Upload, Complete
<1> QED
  BY <1>2, <1>3, <1>4, JobsAreTyped DEF JobKept, SameTestSteps, Unjudged

LEMMA StartIsMarked ==
  ASSUME TypeOK, Started
  PROVE  JobKept /\ SameTestSteps
<1>1. CASE stepwise
  BY <1>1, LiveUnchanged DEF Started, SameTestSteps, Unjudged
<1>2. CASE ~stepwise
  <2> DEFINE next == MarkIndeterminate(job)
  <2>1. job \in Jobs(Backups \union {None})
    BY JobsAreTyped DEF TypeOK
  <2>2. /\ next \in Jobs(Backups \union {None})
        /\ next.status = job.status /\ next.reference = job.reference
        /\ next.current = job.current
        /\ \A i \in StepIds : next.steps[i].state = job.steps[i].state
    BY <2>1, MarkedIndeterminate
  <2>3. job' = next /\ shown' = Face(job')
    BY <1>2, ReportedJob DEF Started
  <2> HIDE DEF next
  <2>4. Complete \in StepIds /\ \A k \in 3..5 : k \in StepIds
    BY SevenSteps DEF Complete
  <2> QED
    BY <2>2, <2>3, <2>4, JobsAreTyped DEF JobKept, SameTestSteps, Unjudged
<1> QED
  BY <1>1, <1>2

-----------------------------------------------------------------------------
(* Results *)

\* A failure before the upload says that the test was not started, or nothing;
\* one after it never says so.
LEMMA FailureIsGood ==
  ASSUME TypeOK, Stage, NEW code, NEW phase \in {"prepare", "run"},
         \/ test.pc \in Early /\ phase = "prepare"
         \/ test.pc \in Early /\ code = "internal_error"
         \/ test.pc \in Late /\ phase = "run" /\ code \notin NotStartedCodes
  PROVE  GoodResult(Failure(code, phase))
<1> DEFINE status == StatusForError(code, phase)
<1>1. test.target \in Targets
  BY DEF Stage, Early, Late
<1>2. /\ status \in {"not_started", "aborted", "inconclusive", "failed"}
      /\ status = "not_started" => ~sent
      /\ status = "failed" => sent
  <2>1. CASE phase = "prepare"
    BY <2>1, StatusIsKnown DEF Stage, Late
  <2>2. CASE phase = "run" /\ test.pc \in Late
    BY <2>2, StatusIsKnown DEF Stage, Early
  <2>3. CASE phase = "run" /\ test.pc \in Early
    <3>1. status = "inconclusive"
      BY <2>3 DEF StatusForError, NotStartedCodes, AbortedCodes, InconclusiveCodes, Early, Late
    <3> QED
      BY <3>1
  <2> QED
    BY <2>1, <2>2, <2>3
<1>3. status \in Verdicts \union {"not_started"} /\ status # "passed"
  BY <1>2 DEF Verdicts
<1> HIDE DEF status
<1>4. /\ Snapshot(status, test.target) \in Snapshots
      /\ Snapshot(status, test.target).status = status
      /\ Snapshot(status, test.target).reference = test.target.reference
      /\ Snapshot(status, test.target).sha256 = test.target.sha256
  BY <1>1, <1>3, SnapshotOf
<1>5. Failure(code, phase) = Snapshot(status, test.target)
  BY DEF Failure, status
<1> QED
  BY <1>2, <1>3, <1>4, <1>5 DEF GoodResult, Passed

\* An answer is turned down, or it is the run's own.
LEMMA JudgedAnswer ==
  ASSUME NEW answer
  PROVE  \/ \E code \in {"signature_invalid", "backup_mismatch", "checksum_mismatch"} :
              Judged(answer) = Failure(code, "run")
         \/ /\ answer.signed /\ answer.target.reference = test.target.reference
            /\ answer.target.sha256 = test.target.sha256
            /\ Judged(answer) = Snapshot(answer.status, answer.target)
  BY DEF Judged

\* A result that is about to be stored is what Results asks for.
LEMMA JudgedIsGood ==
  ASSUME TypeOK, Stage, RunsSound, Pace, test.pc = "poll",
         NEW answer,
         \/ answer = Own(runs[tests]) /\ runs[tests].status = "ended"
         \/ answer \in Foreign(test.target)
  PROVE  GoodResult(Judged(answer))
<1>1. /\ tests \in RunIds /\ test.target \in Targets /\ sent
      /\ runs[tests].target = test.target /\ test.pc \in Late
  BY DEF Stage, Late
<1>2. CASE \E code \in {"signature_invalid", "backup_mismatch", "checksum_mismatch"} :
             Judged(answer) = Failure(code, "run")
  <2>1. \A code \in {"signature_invalid", "backup_mismatch", "checksum_mismatch"} :
          code \notin NotStartedCodes
    BY DEF NotStartedCodes
  <2> QED
    BY <1>1, <1>2, <2>1, FailureIsGood
<1>3. CASE /\ answer.signed /\ answer.target.reference = test.target.reference
           /\ answer.target.sha256 = test.target.sha256
           /\ Judged(answer) = Snapshot(answer.status, answer.target)
  <2>1. CASE answer = Own(runs[tests]) /\ runs[tests].status = "ended"
    <3>1. answer.status = runs[tests].verdict /\ answer.target = test.target
      BY <1>1, <2>1 DEF Own
    <3>2. answer.status \in Verdicts
      BY <1>1, <2>1, <3>1 DEF RunsSound, SoundRun, RunType
    <3>3. answer.status = "passed" => reached >= 5
      <4>1. InPace(runs[tests], reached)
        BY <2>1 DEF Pace
      <4>2. 5 \in 3..5 /\ \A p \in 6..7 : 5 < p
        OBVIOUS
      <4> QED
        BY <2>1, <3>1, <4>1, <4>2 DEF InPace, Cleanup
    <3>4. /\ Judged(answer) \in Snapshots /\ Judged(answer).status = answer.status
          /\ Judged(answer).reference = test.target.reference
          /\ Judged(answer).sha256 = test.target.sha256
      BY <1>1, <1>3, <3>1, <3>2, SnapshotOf
    <3>5. answer.status # "not_started"
      BY <3>2 DEF Verdicts
    <3> QED
      BY <1>1, <3>1, <3>2, <3>3, <3>4, <3>5 DEF GoodResult, Passed
  <2>2. CASE answer \in Foreign(test.target)
    <3>1. answer.target \in [reference : Backups, sha256 : Checksums \union {None}] \ {test.target}
      <4> DEFINE Others == [reference : Backups, sha256 : Checksums \union {None}] \ {test.target}
      <4>1. \/ answer = [signed |-> FALSE, status |-> "passed", target |-> test.target]
            \/ answer \in [signed : {TRUE}, status : Verdicts, target : Others]
        BY <2>2 DEF Foreign
      <4> HIDE DEF Others
      <4>2. answer # [signed |-> FALSE, status |-> "passed", target |-> test.target]
        BY <1>3
      <4>3. answer.target \in Others
        BY <4>1, <4>2
      <4> QED
        BY <4>3 DEF Others
    <3>2. test.target \in [reference : Backups, sha256 : Checksums \union {None}]
      BY <1>1 DEF Targets
    <3>3. answer.target = test.target
      BY <1>3, <3>1, <3>2
    <3> QED
      BY <3>1, <3>3
  <2> QED
    BY <2>1, <2>2
<1> QED
  BY <1>2, <1>3, JudgedAnswer

\* A test that is concluded keeps its target; a run it has is deleted first.
LEMMA Concluded ==
  ASSUME TypeOK, NEW r \in Snapshots, Conclude(r)
  PROVE  /\ test' \in TestType /\ test'.result = r
         /\ test'.target = test.target /\ test'.run = test.run
         /\ test'.cancelled = test.cancelled
         /\ test.run # 0 => test'.pc = "delete" /\ store' = store
         /\ test.run = 0 => test'.pc = "save" /\ store'.memory = r
         /\ store' \in [memory : Snapshots, disk : Snapshots] /\ store'.disk = store.disk
<1>1. CASE test.run # 0
  <2> DEFINE a == [test EXCEPT !.pc = "delete"]
  <2>1. /\ a \in TestType /\ a.pc = "delete" /\ a.target = test.target
        /\ a.run = test.run /\ a.cancelled = test.cancelled
    BY DEF TypeOK, TestType
  <2>2. test' = [a EXCEPT !.result = r]
    BY <1>1 DEF Conclude
  <2> HIDE DEF a
  <2>3. store' = store /\ store \in [memory : Snapshots, disk : Snapshots]
    BY <1>1 DEF Conclude, TypeOK
  <2> QED
    BY <1>1, <2>1, <2>2, <2>3 DEF TestType
<1>2. CASE test.run = 0
  <2> DEFINE a == [test EXCEPT !.pc = "save"]
  <2>1. /\ a \in TestType /\ a.pc = "save" /\ a.target = test.target
        /\ a.run = test.run /\ a.cancelled = test.cancelled
    BY DEF TypeOK, TestType
  <2>2. test' = [a EXCEPT !.result = r]
    BY <1>2 DEF Conclude
  <2> HIDE DEF a
  <2>3. store' = [store EXCEPT !.memory = r] /\ store \in [memory : Snapshots, disk : Snapshots]
    BY <1>2 DEF Conclude, TypeOK
  <2> QED
    BY <1>2, <2>1, <2>2, <2>3 DEF TestType
<1> QED
  BY <1>1, <1>2

-----------------------------------------------------------------------------
(* The steps that end a test *)

Ending ==
  /\ test.pc \in Early \union Late
  /\ \E r : GoodResult(r) /\ Conclude(r)
  /\ JobKept /\ NoInventedSteps' /\ (test.pc \in Early => UNCHANGED job)
  /\ UNCHANGED <<entry, latest, stepwise, tests, reached, sent>> /\ misled' \in BOOLEAN

Refusals == CreateFails \/ ArchiveGone \/ UploadFails \/ StartFails \/ PollFails \/ Deadline
Answers  == PollEnded \/ PollForeign

\* Steps that are the same show the same.
LEMMA NothingInvented ==
  ASSUME NoInventedSteps, SameTestSteps, UNCHANGED <<stepwise, misled, reached>>
  PROVE  NoInventedSteps'
  BY DEF NoInventedSteps, SameTestSteps

\* A request that is refused or fails ends the test.
LEMMA RefusalEnds ==
  ASSUME TypeOK, Stage, NoInventedSteps, Refusals
  PROVE  Ending
<1>1. PICK code, phase :
        /\ phase \in {"prepare", "run"}
        /\ \/ test.pc \in Early /\ phase = "prepare"
           \/ test.pc \in Early /\ code = "internal_error"
           \/ test.pc \in Late /\ phase = "run" /\ code \notin NotStartedCodes
        /\ Conclude(Failure(code, phase))
  <2>1. CASE CreateFails \/ ArchiveGone
    BY <2>1 DEF CreateFails, ArchiveGone, Early
  <2>2. CASE UploadFails \/ StartFails \/ PollFails \/ Deadline
    BY <2>2 DEF UploadFails, StartFails, PollFails, Deadline, Late, NotStartedCodes
  <2> QED
    BY <2>1, <2>2 DEF Refusals
<1>2. GoodResult(Failure(code, phase))
  BY <1>1, FailureIsGood
<1>3. UNCHANGED live /\ UNCHANGED <<entry, latest, stepwise, tests, reached, sent, misled>>
  BY DEF Refusals, CreateFails, ArchiveGone, UploadFails, StartFails, PollFails, Deadline,
         past, runner
<1>4. JobKept /\ SameTestSteps /\ UNCHANGED job
  BY <1>3, LiveUnchanged DEF SameTestSteps, Unjudged
<1>5. NoInventedSteps'
  BY <1>3, <1>4, NothingInvented
<1> QED
  BY <1>1, <1>2, <1>3, <1>4, <1>5 DEF Ending, TypeOK

\* The first check of the client ends the test or lets it go on.
LEMMA CheckStep ==
  ASSUME TypeOK, Stage, NoInventedSteps, Check
  PROVE  \/ Ending
         \/ test' = [test EXCEPT !.pc = "require"] /\ UNCHANGED store
<1>1. test.pc \in Early /\ test.target \in Targets
  BY DEF Check, Stage, Early
<1>2. UNCHANGED live /\ UNCHANGED <<entry, latest, stepwise, tests, reached, sent, misled>>
  BY DEF Check, past, runner
<1>3. JobKept /\ NoInventedSteps' /\ UNCHANGED job
  BY <1>2, LiveUnchanged, NothingInvented DEF SameTestSteps, Unjudged
<1>4. GoodResult(Snapshot("not_started", test.target))
  <2> DEFINE status == "not_started"
  <2>1. status \in Verdicts \union {"not_started"} /\ status # "passed" /\ status # "failed"
    OBVIOUS
  <2>2. ~sent
    BY <1>1 DEF Stage
  <2> HIDE DEF status
  <2>3. /\ Snapshot(status, test.target) \in Snapshots
        /\ Snapshot(status, test.target).status = status
        /\ Snapshot(status, test.target).reference = test.target.reference
        /\ Snapshot(status, test.target).sha256 = test.target.sha256
    BY <1>1, <2>1, SnapshotOf
  <2>4. GoodResult(Snapshot(status, test.target))
    BY <2>1, <2>2, <2>3 DEF GoodResult, Passed
  <2> QED
    BY <2>4 DEF status
<1>5. CASE Conclude(Snapshot("not_started", test.target))
  BY <1>1, <1>2, <1>3, <1>4, <1>5 DEF Ending, TypeOK
<1> QED
  BY <1>5 DEF Check

LEMMA RequireStep ==
  ASSUME TypeOK, Stage, LiveJob, NoInventedSteps, Require
  PROVE  \/ Ending
         \/ /\ test' = [test EXCEPT !.pc = "create"] /\ UNCHANGED store
            /\ JobKept /\ NoInventedSteps' /\ job'.current = Prepare
            /\ \A k \in StepIds : job'.steps[k].determinate = RuntimeSteps[k].determinate
<1>1. test.pc \in Early /\ ~sent /\ test.pc = "require" /\ test.pc # "idle"
  BY DEF Require, Stage, Early
<1>2. UNCHANGED <<entry, latest, stepwise, tests, reached, sent, misled>>
  BY DEF Require, past, runner
<1>3. CASE Conclude(Failure("unavailable", "prepare")) /\ UNCHANGED live
  <2>1. GoodResult(Failure("unavailable", "prepare"))
    BY <1>1, FailureIsGood
  <2>2. JobKept /\ SameTestSteps /\ UNCHANGED job
    BY <1>3, LiveUnchanged DEF SameTestSteps, Unjudged
  <2> QED
    BY <1>1, <1>2, <1>3, <2>1, <2>2, NothingInvented DEF Ending, TypeOK
<1>4. CASE /\ test' = [test EXCEPT !.pc = "create"] /\ UNCHANGED store
           /\ Reported(BeginStep(job, Prepare, FALSE, TRUE), TRUE)
  <2>1. /\ job.status = "running" /\ job.current = NoStep
        /\ \A k \in StepIds : job.steps[k].determinate = RuntimeSteps[k].determinate
    BY <1>1 DEF LiveJob
  <2>2. /\ JobKept /\ SameTestSteps /\ job'.current = Prepare
        /\ \A k \in StepIds : job'.steps[k].determinate = RuntimeSteps[k].determinate
    BY <1>4, <2>1, PrepareBegins
  <2> QED
    BY <1>2, <1>4, <2>2, NothingInvented
<1> QED
  BY <1>3, <1>4 DEF Require

\* A poll that is answered leaves the job running and invents no step.
LEMMA PollStep ==
  ASSUME TypeOK, Stage, RunsSound, Pace, LiveJob, PollRunning \/ PollEnded
  PROVE  JobKept /\ NoInventedSteps'
<1> DEFINE run == runs[tests]
<1>1. /\ test.pc = "poll" /\ run.status \in {"executing", "ended"}
      /\ Reported(ApplyRunnerState(job, Report(run)), FALSE)
      /\ UNCHANGED <<stepwise, reached>> /\ (misled' = misled)
  BY DEF PollRunning, PollEnded, past, runner
<1>2. SoundRun(run) /\ InPace(run, reached) /\ run \in RunType
  BY <1>1 DEF Stage, RunsSound, Pace, SoundRun
<1>3. job.status = "running"
  BY <1>1 DEF LiveJob
<1> HIDE DEF run
<1>4. /\ JobKept
      /\ stepwise => \A k \in 3..5 : job'.steps[k].state = "passed" =>
                                      reached >= k \/ (k >= Boot /\ Unjudged')
  BY <1>1, <1>2, <1>3, AdoptedAnswer
<1> QED
  BY <1>1, <1>4 DEF NoInventedSteps

\* Whatever ends the polling ends the test.
LEMMA AnswerEnds ==
  ASSUME TypeOK, Stage, RunsSound, Pace, LiveJob, Answers
  PROVE  Ending
<1>1. CASE PollEnded
  <2>1. JobKept /\ NoInventedSteps'
    BY <1>1, PollStep
  <2>2. GoodResult(Judged(Own(runs[tests]))) /\ Conclude(Judged(Own(runs[tests])))
    BY <1>1, JudgedIsGood DEF PollEnded
  <2>3. /\ UNCHANGED <<entry, latest, stepwise, tests, reached, sent, misled>>
        /\ test.pc \in Early \union Late
    BY <1>1 DEF PollEnded, past, runner, Late
  <2> QED
    BY <1>1, <2>1, <2>2, <2>3 DEF Ending, TypeOK, PollEnded, Early
<1>2. CASE PollForeign
  <2> DEFINE a   == [NoRun EXCEPT !.status = "ended"]
             b   == [a EXCEPT !.phase = 7]
             run == [b EXCEPT !.verdict = "passed"]
  <2>1. /\ test.pc = "poll" /\ misled' = TRUE
        /\ UNCHANGED <<entry, latest, stepwise, tests, reached, sent>>
        /\ Reported(ApplyRunnerState(job, Report(run)), FALSE)
    BY <1>2 DEF PollForeign, runner
  <2>2. PICK answer \in Foreign(test.target) : Conclude(Judged(answer))
    BY <1>2 DEF PollForeign
  <2>3. a \in RunType
    BY NoRunSound DEF SoundRun, RunType
  <2> HIDE DEF a
  <2>4. b \in RunType
    BY <2>3, SevenSteps DEF RunType
  <2> HIDE DEF b
  <2>5. run \in RunType
    BY <2>4 DEF RunType, Verdicts
  <2> HIDE DEF run
  <2>6. JobKept
    BY <2>1, <2>5, AdoptedAnswer
  <2>7. GoodResult(Judged(answer))
    BY <2>1, JudgedIsGood
  <2> QED
    BY <2>1, <2>2, <2>6, <2>7 DEF Ending, Early, Late, NoInventedSteps
<1> QED
  BY <1>1, <1>2 DEF Answers

-----------------------------------------------------------------------------
(* The other steps of the test: what each makes of the test and of the job *)

LEMMA BeginStepFacts ==
  ASSUME TypeOK, Begin
  PROVE  /\ test' \in TestType /\ test'.pc = "check" /\ test'.run = 0 /\ test'.cancelled = FALSE
         /\ test'.target \in Targets
         /\ job' \in JobType /\ shown' = Face(job')
         /\ job'.status = "running" /\ job'.reference = test'.target.reference
         /\ job'.current = NoStep /\ job'.steps = FreshSteps
         /\ tests \in Nat /\ tests' = tests + 1 /\ tests' \in RunIds /\ tests' \in 0..MaxTests
<1>1. PICK sha \in Checksums :
        /\ test' = [NoTest EXCEPT !.pc = "check",
                                  !.target = [reference |-> latest, sha256 |-> sha]]
        /\ Reported(Start(job, latest), TRUE)
  BY DEF Begin
<1> DEFINE target == [reference |-> latest, sha256 |-> sha]
           a    == [NoTest EXCEPT !.pc = "check"]
           next == Start(job, latest)
<1>2. target \in Targets /\ target.reference = latest
  BY DEF TypeOK, Targets
<1>3. a \in TestType /\ a.pc = "check" /\ a.run = 0 /\ a.cancelled = FALSE
  BY NoTestFields DEF TestType
<1>4. test' = [a EXCEPT !.target = target]
  BY <1>1
<1> HIDE DEF a, target
<1>5. /\ test' \in TestType /\ test'.pc = "check" /\ test'.run = 0 /\ test'.cancelled = FALSE
      /\ test'.target = target
  BY <1>2, <1>3, <1>4 DEF TestType
<1>6. /\ next \in Jobs(Backups \union {None}) /\ next.status = "running"
      /\ next.reference = latest /\ next.current = NoStep /\ next.steps = FreshSteps
  BY StartedJob DEF TypeOK
<1>7. job' = next /\ shown' = Face(job')
  BY <1>1, ReportedJob
<1> HIDE DEF next
<1>8. /\ tests \in Nat /\ tests' = tests + 1 /\ tests' \in RunIds /\ tests' \in 0..MaxTests
  BY RuntimeAssumption DEF Begin, TypeOK, RunIds
<1> QED
  BY <1>2, <1>5, <1>6, <1>7, <1>8, JobsAreTyped

LEMMA CreatedFacts ==
  ASSUME TypeOK, Stage, LiveJob, NoInventedSteps, Created
  PROVE  /\ test' \in TestType /\ test'.pc = "upload" /\ test'.run = tests
         /\ test'.target = test.target /\ test'.cancelled = test.cancelled
         /\ JobKept /\ NoInventedSteps'
         /\ runs' = [runs EXCEPT ![tests] = NewRun] /\ runs'[tests] = NewRun
         /\ tests \in RunIds /\ test.target \in Targets
<1> DEFINE a == [test EXCEPT !.pc = "upload"]
<1>1. tests \in RunIds /\ test.target \in Targets
  BY DEF Created, Stage
<1>2. /\ a \in TestType /\ a.pc = "upload" /\ a.target = test.target
      /\ a.cancelled = test.cancelled
  BY DEF TypeOK, TestType
<1>3. test' = [a EXCEPT !.run = tests] /\ tests \in 0..MaxTests
  BY DEF Created, TypeOK
<1> HIDE DEF a
<1>4. /\ test' \in TestType /\ test'.pc = "upload" /\ test'.run = tests
      /\ test'.target = test.target /\ test'.cancelled = test.cancelled
  BY <1>2, <1>3 DEF TestType
<1>5. JobKept /\ SameTestSteps
  BY UploadBegins DEF Created, LiveJob
<1>6. NoInventedSteps'
  BY <1>5, NothingInvented DEF Created
<1>7. runs' = [runs EXCEPT ![tests] = NewRun] /\ runs'[tests] = NewRun
  BY <1>1 DEF Created, TypeOK
<1> QED
  BY <1>1, <1>4, <1>5, <1>6, <1>7

\* The upload that cannot be put together: the run is known, and nothing was sent.
LEMMA LostFacts ==
  ASSUME TypeOK, Stage, LiveJob, NoInventedSteps, ArchiveLost
  PROVE  /\ test' \in TestType /\ test'.pc = "delete" /\ test'.run = tests
         /\ test'.target = test.target /\ test'.cancelled = test.cancelled
         /\ GoodResult(test'.result)
         /\ JobKept /\ NoInventedSteps'
         /\ \A k \in StepIds : job'.steps[k].determinate = job.steps[k].determinate
<1> DEFINE result == Failure("internal_error", "run")
           a == [test EXCEPT !.pc = "delete"]
           b == [a EXCEPT !.run = tests]
           next == CompleteStep(job, Prepare, "passed")
<1>1. tests \in 0..MaxTests /\ test.pc = "create" /\ UNCHANGED <<stepwise, misled, reached>>
  BY DEF ArchiveLost, TypeOK, past
<1>2. GoodResult(result) /\ result \in Snapshots
  BY <1>1, FailureIsGood DEF GoodResult, Early
<1>3. Reported(next, TRUE) /\ test' = [b EXCEPT !.result = result]
  BY DEF ArchiveLost
<1> HIDE DEF result
<1>4. /\ a \in TestType /\ a.pc = "delete" /\ a.target = test.target
      /\ a.cancelled = test.cancelled
  BY DEF TypeOK, TestType
<1> HIDE DEF a
<1>5. /\ b \in TestType /\ b.pc = "delete" /\ b.target = test.target
      /\ b.cancelled = test.cancelled /\ b.run = tests
  BY <1>1, <1>4 DEF TestType
<1> HIDE DEF b
<1>6. /\ test' \in TestType /\ test'.pc = "delete" /\ test'.run = tests
      /\ test'.target = test.target /\ test'.cancelled = test.cancelled
      /\ test'.result = result
  BY <1>2, <1>3, <1>5 DEF TestType
<1>7. job \in Jobs(Backups \union {None}) /\ "passed" \in StepStates
  BY JobsAreTyped DEF TypeOK, StepStates
<1>8. /\ next \in Jobs(Backups \union {None})
      /\ next.status = job.status /\ next.reference = job.reference
      /\ next.current = job.current
      /\ next.steps[Prepare].determinate = job.steps[Prepare].determinate
      /\ \A i \in StepIds \ {Prepare} : next.steps[i] = job.steps[i]
  BY <1>7, NamedSteps, CompletedStep
<1> HIDE DEF next
<1>9. job' = next /\ shown' = Face(job')
  BY <1>3, ReportedJob
<1>10. Complete \in StepIds \ {Prepare} /\ \A k \in 3..5 : k \in StepIds \ {Prepare}
  BY SevenSteps DEF Prepare, Complete
<1>11. JobKept /\ SameTestSteps
  BY <1>8, <1>9, <1>10, JobsAreTyped DEF JobKept, SameTestSteps, Unjudged
<1>12. NoInventedSteps'
  BY <1>1, <1>11, NothingInvented
<1> QED
  BY <1>2, <1>6, <1>8, <1>9, <1>11, <1>12

\* The cancelled job of a running test, or what it was.
LEMMA CancelledLive ==
  ASSUME TypeOK, Reported(Cancel(job), TRUE)
  PROVE  /\ job' \in JobType /\ shown' = Face(job') /\ job'.reference = job.reference
         /\ job.status # "running" => job' = job
         /\ job.status = "running" => job'.status = "aborted" /\ job'.overall < 100
         /\ job'.status # "running"
         /\ \A k \in 3..5 : job'.steps[k].state = "passed" => job.steps[k].state = "passed"
         /\ Unjudged => Unjudged'
<1> DEFINE next == Cancel(job)
<1>1. job \in Jobs(Backups \union {None})
  BY JobsAreTyped DEF TypeOK
<1>2. /\ next \in Jobs(Backups \union {None}) /\ next.reference = job.reference
      /\ job.status # "running" => next = job
      /\ job.status = "running" => next.status = "aborted" /\ next.overall < 100
      /\ next.current = job.current
      /\ \A k \in StepIds :
           /\ next.steps[k].state = "passed" => job.steps[k].state = "passed"
           /\ job.steps[k].state = "pending" => next.steps[k].state = "pending"
  BY <1>1, CancelledJob
<1>3. job' = next /\ shown' = Face(job')
  BY ReportedJob
<1> HIDE DEF next
<1>4. Complete \in StepIds /\ \A k \in 3..5 : k \in StepIds
  BY SevenSteps DEF Complete
<1> QED
  BY <1>2, <1>3, <1>4, JobsAreTyped DEF Unjudged

\* The job of a test whose result is saved.
LEMMA SavedLive ==
  ASSUME TypeOK, Stage, LiveJob, Results, Save
  PROVE  /\ job' \in JobType /\ shown' = Face(job')
         /\ job'.status = test.result.status /\ job'.reference = test.target.reference
         /\ job'.status # "running" /\ GoodResult(test.result) /\ store.memory = test.result
         /\ job'.status # "passed" =>
              /\ job'.overall < 100
              /\ \A k \in 3..5 : job'.steps[k].state = "passed" => job.steps[k].state = "passed"
              /\ job'.status # "not_started" /\ Unjudged => Unjudged'
         /\ job'.status = "not_started" => job'.overall = 0 /\ job'.steps = FreshSteps
<1> DEFINE status == test.result.status
           next   == Finish(job, status)
<1>1. test.pc = "save" /\ ~test.cancelled
  BY DEF Save, Stage
<1>2. GoodResult(test.result) /\ store.memory = test.result
  BY <1>1 DEF Results, Over
<1>3. /\ job \in Jobs(Backups \union {None}) /\ job.status = "running"
      /\ job.reference = test.target.reference
  BY <1>1, JobsAreTyped DEF TypeOK, LiveJob
<1>4. status \in JobStatuses /\ status # "running" /\ (status # "passed" => status \in Incomplete)
  BY <1>2 DEF GoodResult, Verdicts, JobStatuses, Incomplete
<1>5. status = "not_started" =>
        \A k \in StepIds : job.steps[k].determinate = RuntimeSteps[k].determinate
  BY <1>1, <1>2 DEF GoodResult, LiveJob
<1> HIDE DEF status
<1>6. /\ next \in Jobs(Backups \union {None})
      /\ next.status = status /\ next.reference = job.reference
      /\ status = "not_started" => next.overall = 0
      /\ status \in Incomplete => next.overall < 100
      /\ status # "not_started" => next.current = job.current
      /\ next.steps = ClosedSteps(job.steps, status)
  BY <1>3, <1>4, FinishedJob
<1>7. Reported(next, TRUE)
  BY DEF Save, status
<1> HIDE DEF next
<1>8. job' = next /\ shown' = Face(job')
  BY <1>7, ReportedJob
<1>9. job.steps \in Steps
  BY <1>3 DEF Jobs
<1>10. /\ \A k \in 3..5 : next.steps[k].state = "passed" =>
                           job.steps[k].state = "passed" \/ status = "passed"
       /\ status # "passed" /\ job.steps[Complete].state = "pending" =>
            next.steps[Complete].state = "pending"
  <2> DEFINE steps == job.steps
  <2>1. steps \in Steps /\ next.steps = ClosedSteps(steps, status)
    BY <1>6, <1>9
  <2> HIDE DEF steps
  <2>2. \A k \in StepIds :
          /\ ClosedSteps(steps, status)[k].state = "passed" =>
               steps[k].state = "passed" \/ status = "passed"
          /\ status # "passed" /\ steps[k].state = "pending" =>
               ClosedSteps(steps, status)[k].state = "pending"
    BY <1>4, <2>1, ClosedJob
  <2>3. Complete \in StepIds /\ \A k \in 3..5 : k \in StepIds
    BY SevenSteps DEF Complete
  <2> QED
    BY <2>1, <2>2, <2>3 DEF steps
<1>11. status = "not_started" => next.steps = FreshSteps
  BY <1>5, <1>6, <1>9, ReopenedSteps
<1> QED
  BY <1>2, <1>3, <1>4, <1>6, <1>8, <1>10, <1>11, JobsAreTyped DEF status, Unjudged

LEMMA LoadedFacts ==
  ASSUME NEW disk, Load(disk)
  PROVE  /\ entry' = "up" /\ test' = NoTest /\ test'.pc = "idle" /\ ~test'.cancelled
         /\ job' \in JobType /\ shown' = Face(job') /\ job'.status = "idle"
         /\ job'.overall = 0 /\ job'.steps = FreshSteps
         /\ store' = [memory |-> disk, disk |-> disk]
         /\ UNCHANGED <<latest, stepwise, runs, tests>>
         /\ reached' = 0 /\ sent' = FALSE /\ misled' = FALSE
<1>1. Create \in JobType /\ Create.status = "idle" /\ Create.overall = 0
      /\ Create.steps = FreshSteps
  BY CreatedJob, JobsAreTyped
<1> QED
  BY <1>1, NoTestFields DEF Load, runner

\* What a restart or a crash loads.
LEMMA LoadedStore ==
  ASSUME TypeOK, Restart \/ Crash
  PROVE  \E disk \in Snapshots : disk \in {store.memory, store.disk} /\ Load(disk)
  BY DEF TypeOK, Restart, Crash

\* The cancellation by its place.
LEMMA CancelledFacts ==
  ASSUME TypeOK, Cancelled
  PROVE  /\ entry = "stopping" /\ ~test.cancelled /\ test.pc # "idle"
         /\ UNCHANGED <<entry, latest, stepwise, tests, reached, sent, misled>>
         /\ store'.memory = store.memory /\ store'.disk \in {store.disk, store.memory}
         /\ store' \in [memory : Snapshots, disk : Snapshots]
         /\ \/ test' = NoTest /\ UNCHANGED live
            \/ test' = NoTest /\ Reported(Cancel(job), TRUE)
            \/ /\ test.pc \in Late /\ test' \in TestType /\ test'.pc = "delete"
               /\ test'.cancelled = TRUE /\ test'.target = test.target /\ test'.run = test.run
               /\ UNCHANGED live
<1>1. /\ entry = "stopping" /\ ~test.cancelled
      /\ UNCHANGED <<entry, latest, stepwise, tests, reached, sent, misled>>
      /\ store \in [memory : Snapshots, disk : Snapshots]
  BY DEF Cancelled, past, TypeOK
<1>2. CASE CancelUnhandled
  <2>1. store' = store \/ store' = [store EXCEPT !.disk = store.memory]
    BY <1>2 DEF CancelUnhandled
  <2> QED
    BY <1>1, <1>2, <2>1 DEF CancelUnhandled, live
<1>3. CASE CancelHandled
  BY <1>1, <1>3 DEF CancelHandled
<1>4. CASE CancelDeletes
  <2> DEFINE a == [test EXCEPT !.pc = "delete"]
  <2>1. a \in TestType /\ a.pc = "delete" /\ a.target = test.target /\ a.run = test.run
    BY DEF TypeOK, TestType
  <2>2. test' = [a EXCEPT !.cancelled = TRUE]
    BY <1>4 DEF CancelDeletes
  <2> HIDE DEF a
  <2>3. /\ test' \in TestType /\ test'.pc = "delete" /\ test'.cancelled = TRUE
        /\ test'.target = test.target /\ test'.run = test.run
    BY <2>1, <2>2 DEF TestType
  <2> QED
    BY <1>1, <1>4, <2>3 DEF CancelDeletes, Late
<1> QED
  BY <1>2, <1>3, <1>4 DEF Cancelled

\* A step with which the test goes on.
Advance ==
  /\ test.pc \in Early \union Late
  /\ test' \in TestType /\ test'.target = test.target /\ test'.cancelled = test.cancelled
  /\ JobKept /\ NoInventedSteps'
  /\ UNCHANGED <<entry, latest, stepwise, tests, reached, store, misled>>
  /\ \/ /\ test.pc = "check" /\ test'.pc = "require" /\ test'.run = test.run
        /\ UNCHANGED <<runs, sent, job>>
     \/ /\ test.pc = "require" /\ test'.pc = "create" /\ test'.run = test.run
        /\ UNCHANGED <<runs, sent>> /\ job'.current = Prepare
        /\ \A k \in StepIds : job'.steps[k].determinate = RuntimeSteps[k].determinate
     \/ /\ test.pc = "create" /\ test'.pc = "upload" /\ test'.run = tests
        /\ sent' = TRUE /\ runs'[tests] = NewRun
     \/ /\ test.pc = "create" /\ test'.pc = "delete" /\ test'.run = tests
        /\ UNCHANGED sent /\ GoodResult(test'.result)
        /\ \A k \in StepIds : job'.steps[k].determinate = job.steps[k].determinate
     \/ /\ test.pc \in {"upload", "poll"} /\ UNCHANGED <<test, runs, sent>>
     \/ /\ test.pc = "upload" /\ test'.pc = "start" /\ test'.run = test.run
        /\ UNCHANGED sent /\ runs[tests].status = "created"
        /\ runs'[tests] = [runs[tests] EXCEPT !.status = "uploaded"]
     \/ /\ test.pc = "start" /\ test'.pc = "poll" /\ test'.run = test.run
        /\ UNCHANGED sent /\ runs[tests].status = "uploaded"
        /\ runs'[tests] = Executing(runs[tests])

LEMMA AdvanceSteps ==
  ASSUME TypeOK, Stage, RunsSound, Pace, LiveJob, NoInventedSteps,
         \/ Check \/ Require \/ Created \/ ArchiveLost
         \/ Uploading \/ Uploaded \/ Started \/ PollRunning
  PROVE  Ending \/ Advance
<1>1. ASSUME NEW pc \in {"require", "create", "start", "poll"}, test' = [test EXCEPT !.pc = pc]
      PROVE  /\ test' \in TestType /\ test'.pc = pc /\ test'.target = test.target
             /\ test'.run = test.run /\ test'.cancelled = test.cancelled
  BY <1>1 DEF TypeOK, TestType
<1>2. CASE Check
  <2>1. CASE test' = [test EXCEPT !.pc = "require"] /\ UNCHANGED store
    <3>1. /\ test' \in TestType /\ test'.pc = "require" /\ test'.target = test.target
          /\ test'.run = test.run /\ test'.cancelled = test.cancelled
      BY <1>1, <2>1
    <3>2. /\ UNCHANGED <<entry, latest, stepwise, tests, reached, misled, runs, sent, job, live>>
          /\ test.pc = "check"
      BY <1>2 DEF Check, past, runner, live
    <3>3. JobKept /\ NoInventedSteps'
      BY <3>2, LiveUnchanged, NothingInvented DEF SameTestSteps, Unjudged
    <3> QED
      BY <2>1, <3>1, <3>2, <3>3 DEF Advance, Early
  <2> QED
    BY <1>2, <2>1, CheckStep
<1>3. CASE Require
  <2>1. CASE /\ test' = [test EXCEPT !.pc = "create"] /\ UNCHANGED store
             /\ JobKept /\ NoInventedSteps' /\ job'.current = Prepare
             /\ \A k \in StepIds : job'.steps[k].determinate = RuntimeSteps[k].determinate
    <3>1. /\ test' \in TestType /\ test'.pc = "create" /\ test'.target = test.target
          /\ test'.run = test.run /\ test'.cancelled = test.cancelled
      BY <1>1, <2>1
    <3>2. /\ UNCHANGED <<entry, latest, stepwise, tests, reached, misled, runs, sent>>
          /\ test.pc = "require"
      BY <1>3 DEF Require, past, runner
    <3> QED
      BY <2>1, <3>1, <3>2 DEF Advance, Early
  <2> QED
    BY <1>3, <2>1, RequireStep
<1>4. CASE Created
  <2>1. /\ UNCHANGED <<entry, latest, stepwise, tests, reached, store, misled>>
        /\ test.pc = "create" /\ sent' = TRUE
    BY <1>4 DEF Created
  <2> QED
    BY <1>4, <2>1, CreatedFacts DEF Advance, Early
<1>5. CASE Uploading
  <2>1. /\ UNCHANGED <<entry, latest, stepwise, tests, reached, store, misled, runs, sent, test>>
        /\ test.pc = "upload" /\ test \in TestType
    BY <1>5 DEF Uploading, past, runner, TypeOK
  <2>2. JobKept /\ NoInventedSteps'
    BY <1>5, <2>1, UploadIsMeasured, NothingInvented
  <2> QED
    BY <2>1, <2>2 DEF Advance, Late
<1>6. CASE Uploaded
  <2>1. /\ UNCHANGED <<entry, latest, stepwise, tests, reached, store, misled, sent>>
        /\ test.pc = "upload" /\ test' = [test EXCEPT !.pc = "start"]
        /\ runs[tests].status = "created"
    BY <1>6 DEF Uploaded, past
  <2>2. JobKept /\ NoInventedSteps'
    BY <1>6, <2>1, UploadCompletes, NothingInvented
  <2>3. /\ test' \in TestType /\ test'.pc = "start" /\ test'.target = test.target
        /\ test'.run = test.run /\ test'.cancelled = test.cancelled
    BY <1>1, <2>1
  <2>4. tests \in RunIds
    BY <2>1 DEF Stage
  <2>5. runs'[tests] = [runs[tests] EXCEPT !.status = "uploaded"]
    BY <1>6, <2>4 DEF Uploaded, TypeOK
  <2> QED
    BY <2>1, <2>2, <2>3, <2>5 DEF Advance, Late
<1>7. CASE Started
  <2>1. /\ UNCHANGED <<entry, latest, stepwise, tests, reached, store, misled, sent>>
        /\ test.pc = "start" /\ test' = [test EXCEPT !.pc = "poll"]
        /\ runs[tests].status = "uploaded"
    BY <1>7 DEF Started, past
  <2>2. JobKept /\ NoInventedSteps'
    BY <1>7, <2>1, StartIsMarked, NothingInvented
  <2>3. /\ test' \in TestType /\ test'.pc = "poll" /\ test'.target = test.target
        /\ test'.run = test.run /\ test'.cancelled = test.cancelled
    BY <1>1, <2>1
  <2>4. tests \in RunIds
    BY <2>1 DEF Stage
  <2>5. runs'[tests] = Executing(runs[tests])
    BY <1>7, <2>4 DEF Started, TypeOK
  <2> QED
    BY <2>1, <2>2, <2>3, <2>5 DEF Advance, Late
<1>8. CASE PollRunning
  <2>1. /\ UNCHANGED <<entry, latest, stepwise, tests, reached, store, misled, runs, sent, test>>
        /\ test.pc = "poll" /\ test \in TestType
    BY <1>8 DEF PollRunning, past, runner, TypeOK
  <2>2. JobKept /\ NoInventedSteps'
    BY <1>8, PollStep
  <2> QED
    BY <2>1, <2>2 DEF Advance, Late
<1>9. CASE ArchiveLost
  <2>1. /\ UNCHANGED <<entry, latest, stepwise, tests, reached, store, misled, sent>>
        /\ test.pc = "create"
    BY <1>9 DEF ArchiveLost, past
  <2> QED
    BY <1>9, <2>1, LostFacts DEF Advance, Early
<1> QED
  BY <1>2, <1>3, <1>4, <1>5, <1>6, <1>7, <1>8, <1>9

\* The steps of the runner that no test follows.
Unattended == RunnerForgets \/ \E n \in RunIds : RunEndsUnseen(n)

LEMMA StepKinds ==
  ASSUME IInv, Next
  PROVE  \/ Begin \/ Ending \/ Advance \/ Delete \/ Save
         \/ Shutdown \/ Cancelled \/ ShutdownDone \/ Restart \/ Crash
         \/ NewBackup \/ Unattended \/ \E n \in RunIds : RunGoesOn(n)
<1>1. CASE Refusals
  BY <1>1, RefusalEnds DEF IInv, Shape
<1>2. CASE Answers
  BY <1>2, AnswerEnds DEF IInv, Shape
<1>3. CASE \/ Check \/ Require \/ Created \/ ArchiveLost
           \/ Uploading \/ Uploaded \/ Started \/ PollRunning
  BY <1>3, AdvanceSteps DEF IInv, Shape
<1> QED
  BY <1>1, <1>2, <1>3 DEF Next, Refusals, Answers, Unattended

LEMMA DeletedFacts ==
  ASSUME TypeOK, Stage, Results, Delete
  PROVE  /\ test.pc = "delete"
         /\ UNCHANGED <<entry, latest, stepwise, tests, reached, sent, misled>>
         /\ \/ /\ test.cancelled /\ entry = "stopping" /\ test' = NoTest
               /\ Reported(Cancel(job), TRUE) /\ UNCHANGED store
            \/ /\ ~test.cancelled /\ GoodResult(test.result) /\ UNCHANGED live
               /\ test' \in TestType /\ test'.pc = "save" /\ test'.target = test.target
               /\ test'.result = test.result /\ test'.cancelled = test.cancelled
               /\ store' \in [memory : Snapshots, disk : Snapshots]
               /\ store'.memory = test.result /\ store'.disk = store.disk
<1>1. /\ test.pc = "delete" /\ UNCHANGED <<entry, latest, stepwise, tests, reached, sent, misled>>
  BY DEF Delete, past
<1>2. CASE test.cancelled
  BY <1>1, <1>2 DEF Delete, Stage
<1>3. CASE ~test.cancelled
  <2>1. GoodResult(test.result)
    BY <1>1, <1>3 DEF Results, Over
  <2>2. /\ test' = [test EXCEPT !.pc = "save"] /\ UNCHANGED live
        /\ store' = [store EXCEPT !.memory = test.result]
    BY <1>3 DEF Delete
  <2>3. /\ test' \in TestType /\ test'.pc = "save" /\ test'.target = test.target
        /\ test'.result = test.result /\ test'.cancelled = test.cancelled
    BY <2>2 DEF TypeOK, TestType
  <2>4. /\ store' \in [memory : Snapshots, disk : Snapshots]
        /\ store'.memory = test.result /\ store'.disk = store.disk
    BY <2>2, TestFields DEF TypeOK
  <2> QED
    BY <1>1, <1>3, <2>1, <2>2, <2>3, <2>4
<1> QED
  BY <1>2, <1>3

LEMMA UnattendedFacts ==
  ASSUME TypeOK, Stage, RunsSound, Pace, Unattended
  PROVE  /\ UNCHANGED <<entry, latest, stepwise, test, live, store, tests, reached, sent, misled>>
         /\ test.pc \in Early \union Late =>
              \/ runs'[tests] = runs[tests]
              \/ /\ runs[tests].status # "none" /\ runs'[tests].status = "gone"
                 /\ runs'[tests].target = runs[tests].target
<1>1. UNCHANGED <<entry, latest, stepwise, test, live, store, tests, reached, sent, misled>>
  BY DEF Unattended, RunnerForgets, RunEndsUnseen, past
<1>2. ASSUME test.pc \in Early \union Late
      PROVE  \/ runs'[tests] = runs[tests]
             \/ /\ runs[tests].status # "none" /\ runs'[tests].status = "gone"
                /\ runs'[tests].target = runs[tests].target
  <2>1. tests \in RunIds /\ SoundRun(runs[tests])
    BY <1>2 DEF Stage, RunsSound, Early, Late
  <2>2. Gone(runs[tests]).status = "gone" /\ Gone(runs[tests]).target = runs[tests].target
    BY <2>1, GoneSound
  <2>3. CASE \E n \in RunIds : RunEndsUnseen(n)
    <3>1. PICK n \in RunIds : RunEndsUnseen(n)
      BY <2>3
    <3>2. n # tests
      <4>1. runs[n].status = "executing" /\ ~(n = tests /\ test.pc \in {"start", "poll"})
        BY <3>1 DEF RunEndsUnseen, Followed
      <4>2. test.pc = "upload" => runs[tests].status # "executing"
        BY DEF Pace
      <4>3. test.pc \in Early => runs[tests].status # "executing"
        BY DEF Stage, NoRun
      <4> QED
        BY <1>2, <4>1, <4>2, <4>3 DEF Late
    <3>3. \E run : runs' = [runs EXCEPT ![n] = run]
      BY <3>1 DEF RunEndsUnseen
    <3> QED
      BY <2>1, <3>2, <3>3 DEF TypeOK
  <2>4. CASE \E n \in RunIds : /\ runs[n].status \in {"created", "uploaded", "ended"}
                              /\ runs' = [runs EXCEPT ![n] = Gone(@)]
    <3>1. PICK n \in RunIds : /\ runs[n].status \in {"created", "uploaded", "ended"}
                              /\ runs' = [runs EXCEPT ![n] = Gone(runs[n])]
      BY <2>4
    <3>2. runs'[tests] = IF n = tests THEN Gone(runs[n]) ELSE runs[tests]
      BY <2>1, <3>1 DEF TypeOK
    <3> QED
      BY <2>2, <3>1, <3>2
  <2>5. CASE runs' = [n \in RunIds |-> IF runs[n].status = "none" THEN runs[n] ELSE Gone(runs[n])]
    <3>1. runs'[tests] = IF runs[tests].status = "none" THEN runs[tests] ELSE Gone(runs[tests])
      BY <2>1, <2>5
    <3> QED
      BY <2>2, <3>1
  <2> QED
    BY <2>3, <2>4, <2>5 DEF Unattended, RunnerForgets
<1> QED
  BY <1>1, <1>2

-----------------------------------------------------------------------------
(* The invariant is inductive *)

\* Each part of IInv is kept by every step, given the others.
LEMMA TypedStep ==
  ASSUME IInv, Next
  PROVE  TypeOK'
<1>1. Keeps(runs') /\ runs' \in [RunIds -> RunType]
  BY RunsStep DEF IInv, Shape, Keeps
<1>2. /\ entry \in {"up", "stopping", "down"} /\ latest \in Backups /\ stepwise \in BOOLEAN
      /\ tests \in 0..MaxTests /\ test \in TestType /\ job \in JobType /\ shown = Face(job)
      /\ store \in [memory : Snapshots, disk : Snapshots]
      /\ reached \in 0..5 /\ sent \in BOOLEAN /\ misled \in BOOLEAN
  BY DEF IInv, Shape, TypeOK
<1> DEFINE Typed == /\ entry' \in {"up", "stopping", "down"} /\ latest' \in Backups
                    /\ stepwise' \in BOOLEAN /\ tests' \in 0..MaxTests
                    /\ test' \in TestType /\ job' \in JobType /\ shown' = Face(job')
                    /\ store' \in [memory : Snapshots, disk : Snapshots]
                    /\ reached' \in 0..5 /\ sent' \in BOOLEAN /\ misled' \in BOOLEAN
<1>3. SUFFICES Typed
  BY <1>1 DEF TypeOK
<1>4. CASE Begin
  <2>1. /\ test' \in TestType /\ job' \in JobType /\ shown' = Face(job') /\ tests' \in 0..MaxTests
    BY <1>4, BeginStepFacts DEF IInv, Shape
  <2>2. /\ UNCHANGED <<entry, latest, stepwise, store>>
        /\ reached' = 0 /\ sent' = FALSE /\ misled' = FALSE
    BY <1>4 DEF Begin, runner
  <2>3. 0 \in 0..5
    OBVIOUS
  <2> QED
    BY <1>2, <2>1, <2>2, <2>3
<1>5. CASE Ending
  <2>1. PICK r : GoodResult(r) /\ Conclude(r)
    BY <1>5 DEF Ending
  <2>2. test' \in TestType /\ store' \in [memory : Snapshots, disk : Snapshots]
    BY <2>1, Concluded DEF IInv, Shape, GoodResult
  <2> QED
    BY <1>2, <1>5, <2>2 DEF Ending, JobKept
<1>6. CASE Advance
  BY <1>2, <1>6 DEF Advance, JobKept
<1>7. CASE Delete
  <2>1. CASE test' = NoTest /\ Reported(Cancel(job), TRUE) /\ UNCHANGED store
    BY <1>2, <1>7, <2>1, DeletedFacts, CancelledLive, NoTestFields DEF IInv, Shape
  <2>2. CASE /\ UNCHANGED live /\ test' \in TestType
             /\ store' \in [memory : Snapshots, disk : Snapshots]
    BY <1>2, <1>7, <2>2, DeletedFacts DEF IInv, Shape, live
  <2> QED
    BY <1>7, <2>1, <2>2, DeletedFacts DEF IInv, Shape
<1>8. CASE Save
  <2>1. job' \in JobType /\ shown' = Face(job')
    BY <1>8, SavedLive DEF IInv, Shape
  <2>2. store' \in [memory : Snapshots, disk : Snapshots]
    BY <1>2, <1>8 DEF Save
  <2> QED
    BY <1>2, <1>8, <2>1, <2>2, NoTestFields DEF Save, past, runner
<1>9. CASE Shutdown
  BY <1>2, <1>9 DEF Shutdown, runner, live, past
<1>10. CASE Cancelled
  <2>1. CASE Reported(Cancel(job), TRUE)
    BY <1>2, <1>10, <2>1, CancelledFacts, CancelledLive, NoTestFields DEF IInv, Shape, Late
  <2>2. CASE UNCHANGED live
    BY <1>2, <1>10, <2>2, CancelledFacts, NoTestFields DEF IInv, Shape, Late, live
  <2> QED
    BY <1>10, <2>1, <2>2, CancelledFacts DEF IInv, Shape
<1>11. CASE ShutdownDone
  <2>1. job' \in JobType /\ shown' = Face(job')
    BY <1>11, CancelledLive DEF ShutdownDone, IInv, Shape
  <2> QED
    BY <1>2, <1>11, <2>1 DEF ShutdownDone, runner, past
<1>12. CASE Restart \/ Crash
  <2>1. PICK disk \in Snapshots : Load(disk)
    BY <1>12, LoadedStore DEF IInv, Shape
  <2>2. 0 \in 0..5 /\ [memory |-> disk, disk |-> disk] \in [memory : Snapshots, disk : Snapshots]
    OBVIOUS
  <2> QED
    BY <1>2, <2>1, <2>2, LoadedFacts, NoTestFields
<1>13. CASE NewBackup
  BY <1>2, <1>13 DEF NewBackup, runner, live, past
<1>14. CASE Unattended
  BY <1>2, <1>14, UnattendedFacts DEF IInv, Shape, live
<1>15. CASE \E n \in RunIds : RunGoesOn(n)
  <2>1. reached' \in 0..5
    BY <1>15, ExecutionsKeep DEF IInv, Shape
  <2> QED
    BY <1>2, <1>15, <2>1 DEF RunGoesOn, live
<1> QED
  BY <1>4, <1>5, <1>6, <1>7, <1>8, <1>9, <1>10, <1>11, <1>12, <1>13, <1>14, <1>15, StepKinds

LEMMA RunsSoundStep ==
  ASSUME IInv, Next
  PROVE  RunsSound'
<1>1. Keeps(runs')
  BY RunsStep DEF IInv, Shape
<1>2. tests' = tests \/ (tests \in Nat /\ tests' = tests + 1)
  <2>1. CASE Begin
    BY <2>1, BeginStepFacts DEF IInv, Shape
  <2>2. CASE Ending \/ Advance
    BY <2>2 DEF Ending, Advance
  <2>3. CASE Delete \/ Cancelled
    BY <2>3, DeletedFacts, CancelledFacts DEF IInv, Shape
  <2>4. CASE Save \/ Shutdown \/ ShutdownDone \/ Restart \/ Crash \/ NewBackup
    BY <2>4 DEF Save, Shutdown, ShutdownDone, Restart, Crash, Load, NewBackup, past
  <2>5. CASE Unattended \/ \E n \in RunIds : RunGoesOn(n)
    BY <2>5 DEF Unattended, RunnerForgets, RunEndsUnseen, RunGoesOn, past
  <2> QED
    BY <2>1, <2>2, <2>3, <2>4, <2>5, StepKinds
<1>3. \A n \in RunIds : n > tests' => n > tests
  BY <1>2 DEF RunIds
<1> QED
  BY <1>1, <1>3 DEF Keeps, RunsSound, SoundRun

LEMMA StageStep ==
  ASSUME IInv, Next
  PROVE  Stage'
<1>1. Stage /\ TypeOK /\ RunsSound /\ Pace /\ LiveJob /\ Results /\ Keeps(runs')
  BY RunsStep DEF IInv, Shape
<1> DEFINE Places == {"idle", "check", "require", "create", "upload", "start", "poll",
                      "delete", "save"}
<1>2. CASE Begin
  <2>1. /\ test.pc = "idle" /\ entry = "up" /\ entry' = "up" /\ sent' = FALSE /\ reached' = 0
        /\ UNCHANGED runs
    BY <1>2 DEF Begin, runner
  <2>2. /\ test'.pc = "check" /\ test'.run = 0 /\ test'.cancelled = FALSE
        /\ test'.target \in Targets
        /\ tests' \in RunIds /\ tests \in Nat /\ tests' = tests + 1
    BY <1>1, <1>2, BeginStepFacts
  <2>3. runs'[tests'] = NoRun
    BY <1>1, <2>1, <2>2 DEF RunsSound
  <2> QED
    BY <2>1, <2>2, <2>3 DEF Stage, Early, Late
<1>3. CASE Ending
  <2>1. PICK r : GoodResult(r) /\ Conclude(r)
    BY <1>3 DEF Ending
  <2>2. /\ test'.pc \in {"delete", "save"} /\ test'.run = test.run /\ test'.target = test.target
        /\ test'.cancelled = test.cancelled /\ (test'.pc = "delete" => test.run # 0)
    BY <1>1, <2>1, Concluded DEF GoodResult
  <2>3. /\ UNCHANGED <<entry, tests, sent, reached>> /\ ~test.cancelled
        /\ test.pc \in Early \union Late
    BY <1>1, <1>3 DEF Ending, Stage, Early, Late
  <2> QED
    BY <1>1, <2>2, <2>3 DEF Stage, Early, Late
<1>4. CASE Advance
  <2>1. /\ test.pc \in Early \union Late /\ UNCHANGED <<entry, tests, reached>>
        /\ test'.target = test.target /\ test'.cancelled = test.cancelled /\ ~test.cancelled
        /\ tests \in RunIds /\ test.target \in Targets /\ entry # "down"
    BY <1>1, <1>4 DEF Advance, Stage, Early, Late
  <2>2. CASE /\ test.pc \in {"check", "require"} /\ test'.pc \in {"require", "create"}
             /\ test'.run = test.run /\ UNCHANGED <<runs, sent>>
    BY <1>1, <2>1, <2>2 DEF Stage, Early, Late
  <2>3. CASE /\ test.pc = "create" /\ test'.pc = "upload" /\ test'.run = tests
             /\ sent' = TRUE /\ runs'[tests] = NewRun
    <3>1. NewRun.target = test.target
      BY <2>1, NewRunSound
    <3> QED
      BY <1>1, <2>1, <2>3, <3>1 DEF Stage, Early, Late
  <2>4. CASE test.pc \in {"upload", "poll"} /\ UNCHANGED <<test, runs, sent>>
    BY <1>1, <2>1, <2>4 DEF Stage, Early, Late
  <2>5. CASE /\ test.pc = "upload" /\ test'.pc = "start" /\ test'.run = test.run
             /\ UNCHANGED sent /\ runs[tests].status = "created"
             /\ runs'[tests] = [runs[tests] EXCEPT !.status = "uploaded"]
    <3>1. runs'[tests].target = runs[tests].target
      BY <1>1, <2>1, <2>5, UploadedSound DEF RunsSound
    <3> QED
      BY <1>1, <2>1, <2>5, <3>1 DEF Stage, Early, Late
  <2>6. CASE /\ test.pc = "start" /\ test'.pc = "poll" /\ test'.run = test.run
             /\ UNCHANGED sent /\ runs[tests].status = "uploaded"
             /\ runs'[tests] = Executing(runs[tests])
    <3>1. runs'[tests].target = runs[tests].target
      BY <1>1, <2>1, <2>6, ExecutingSound DEF RunsSound
    <3> QED
      BY <1>1, <2>1, <2>6, <3>1 DEF Stage, Early, Late
  <2>7. CASE test.pc = "create" /\ test'.pc = "delete" /\ test'.run = tests /\ UNCHANGED sent
    BY <1>1, <2>1, <2>7 DEF Stage, Early, Late
  <2> QED
    BY <1>4, <2>2, <2>3, <2>4, <2>5, <2>6, <2>7 DEF Advance
<1>5. ASSUME test' = NoTest
      PROVE  Stage'
  BY <1>5, NoTestFields DEF Stage, Early, Late
<1>6. CASE Delete
  <2>1. CASE /\ ~test.cancelled /\ test'.pc = "save" /\ test'.target = test.target
             /\ test'.cancelled = test.cancelled
    BY <1>1, <1>6, <2>1, DeletedFacts DEF Stage, Early, Late
  <2> QED
    BY <1>1, <1>5, <1>6, <2>1, DeletedFacts
<1>7. CASE Save \/ Restart \/ Crash
  BY <1>5, <1>7 DEF Save, Restart, Crash, Load
<1>8. CASE Cancelled
  <2>1. CASE /\ test.pc \in Late /\ test'.pc = "delete" /\ test'.cancelled = TRUE
             /\ test'.target = test.target /\ test'.run = test.run
    BY <1>1, <1>8, <2>1, CancelledFacts DEF Stage, Early, Late
  <2> QED
    BY <1>1, <1>5, <1>8, <2>1, CancelledFacts
<1>9. CASE Shutdown \/ ShutdownDone
  <2>1. UNCHANGED <<test, tests, runs, sent, reached>>
    BY <1>9 DEF Shutdown, ShutdownDone, past, runner
  <2>2. \/ entry = "up" /\ entry' = "stopping"
        \/ entry = "stopping" /\ test.pc = "idle" /\ entry' = "down"
    BY <1>9 DEF Shutdown, ShutdownDone
  <2> QED
    BY <1>1, <2>1, <2>2 DEF Stage
<1>10. CASE NewBackup
  BY <1>1, <1>10 DEF Stage, NewBackup, past, runner
<1>11. CASE Unattended
  <2>1. UNCHANGED <<entry, test, tests, reached, sent>>
    BY <1>1, <1>11, UnattendedFacts
  <2>2. test.pc \in Early => runs'[tests] = NoRun
    BY <1>1, <1>11, UnattendedFacts DEF Stage, NoRun
  <2>3. test.pc \in Late => runs'[tests].target = test.target
    BY <1>1, <1>11, UnattendedFacts DEF Stage
  <2> QED
    BY <1>1, <2>1, <2>2, <2>3 DEF Stage
<1>12. CASE \E n \in RunIds : RunGoesOn(n)
  <2>1. /\ UNCHANGED <<entry, test, tests, sent>> /\ test.pc = "poll"
        /\ runs'[tests].target = runs[tests].target
    BY <1>1, <1>12, ExecutionsKeep DEF RunGoesOn
  <2> QED
    BY <1>1, <2>1 DEF Stage, Early, Late
<1> QED
  BY <1>2, <1>3, <1>4, <1>6, <1>7, <1>8, <1>9, <1>10, <1>11, <1>12, StepKinds

LEMMA PaceStep ==
  ASSUME IInv, Next
  PROVE  Pace'
<1>1. Stage /\ TypeOK /\ RunsSound /\ Pace /\ LiveJob /\ Results
  BY DEF IInv, Shape
<1>2. ASSUME test'.pc \notin Late
      PROVE  Pace'
  BY <1>2 DEF Pace, Late
<1>3. ASSUME UNCHANGED <<test, tests, reached>>, test.pc \in Late => runs'[tests] = runs[tests]
      PROVE  Pace'
  BY <1>1, <1>3 DEF Pace, InPace, Late
<1>4. CASE Begin
  BY <1>1, <1>2, <1>4, BeginStepFacts DEF Late
<1>5. CASE Ending
  BY <1>1, <1>2, <1>5, Concluded DEF Ending, GoodResult, Late
<1>6. CASE Advance
  <2>1. UNCHANGED <<tests, reached>> /\ tests \in RunIds /\ test.target \in Targets
    BY <1>1, <1>6 DEF Advance, Stage, Early, Late
  <2>2. CASE test'.pc \in {"require", "create", "delete"}
    BY <1>2, <2>2 DEF Late
  <2>3. CASE test'.pc = "upload" /\ runs'[tests] = NewRun
    BY <2>1, <2>3, NewRunSound DEF Pace
  <2>4. CASE UNCHANGED <<test, runs>>
    BY <1>3, <2>1, <2>4
  <2>5. CASE /\ test'.pc = "start" /\ runs[tests].status = "created"
             /\ runs'[tests] = [runs[tests] EXCEPT !.status = "uploaded"]
    <3>1. runs'[tests].status = "uploaded"
      BY <1>1, <2>1, <2>5, UploadedSound DEF RunsSound
    <3> QED
      BY <2>1, <2>5, <3>1 DEF Pace
  <2>6. CASE /\ test.pc = "start" /\ test'.pc = "poll" /\ runs[tests].status = "uploaded"
             /\ runs'[tests] = Executing(runs[tests])
    <3>1. SoundRun(runs[tests])
      BY <1>1, <2>1 DEF RunsSound
    <3>2. /\ runs'[tests].status = "executing" /\ runs'[tests].phase = 3
          /\ runs'[tests].broke = 0 /\ runs'[tests].sweeping = FALSE
      BY <2>6, <3>1, ExecutingSound
    <3>3. reached' = 0
      BY <1>1, <2>1, <2>6 DEF Stage
    <3>4. InPace(runs'[tests], reached')
      BY <3>2, <3>3 DEF InPace, Cleanup
    <3> QED
      BY <2>1, <2>6, <3>4 DEF Pace
  <2> QED
    BY <1>6, <2>2, <2>3, <2>4, <2>5, <2>6 DEF Advance
<1>7. CASE Delete
  BY <1>1, <1>2, <1>7, DeletedFacts, NoTestFields DEF Late
<1>8. CASE Save \/ Restart \/ Crash
  BY <1>2, <1>8, NoTestFields DEF Save, Restart, Crash, Load, Late
<1>9. CASE Cancelled
  BY <1>1, <1>2, <1>9, CancelledFacts, NoTestFields DEF Late
<1>10. CASE Shutdown \/ ShutdownDone \/ NewBackup
  BY <1>3, <1>10 DEF Shutdown, ShutdownDone, NewBackup, past, runner
<1>11. CASE Unattended
  <2>1. UNCHANGED <<test, tests, reached>>
    BY <1>1, <1>11, UnattendedFacts
  <2>2. CASE runs'[tests] = runs[tests] \/ test.pc \notin Late
    BY <1>3, <2>1, <2>2
  <2>3. CASE runs'[tests].status = "gone"
    BY <2>1, <2>3 DEF Pace
  <2> QED
    BY <1>1, <1>11, <2>2, <2>3, UnattendedFacts
<1>12. CASE \E n \in RunIds : RunGoesOn(n)
  <2>1. /\ UNCHANGED <<test, tests>> /\ test.pc = "poll"
        /\ InPace(runs'[tests], reached')
    BY <1>1, <1>12, ExecutionsKeep DEF RunGoesOn
  <2> QED
    BY <2>1 DEF Pace
<1> QED
  BY <1>4, <1>5, <1>6, <1>7, <1>8, <1>9, <1>10, <1>11, <1>12, StepKinds

LEMMA LiveJobStep ==
  ASSUME IInv, Next
  PROVE  LiveJob'
<1>1. Stage /\ TypeOK /\ RunsSound /\ Pace /\ LiveJob /\ Results
  BY DEF IInv, Shape
<1>2. ASSUME UNCHANGED <<test, job, sent, store, tests>>,
             entry' = entry \/ (entry = "up" /\ entry' = "stopping")
      PROVE  LiveJob'
  BY <1>1, <1>2 DEF LiveJob
<1>3. ASSUME test'.pc = "idle", entry' = "stopping", job'.status # "passed"
      PROVE  LiveJob'
  BY <1>3 DEF LiveJob
<1>4. CASE Begin
  <2>1. /\ test'.pc = "check" /\ job'.status = "running"
        /\ job'.reference = test'.target.reference /\ job'.current = NoStep
        /\ job'.steps = FreshSteps
    BY <1>1, <1>4, BeginStepFacts
  <2>2. entry' = "up"
    BY <1>4 DEF Begin
  <2> QED
    BY <2>1, <2>2 DEF LiveJob, FreshSteps
<1>5. CASE Ending
  <2>1. PICK r : GoodResult(r) /\ Conclude(r)
    BY <1>5 DEF Ending
  <2>2. test'.pc \in {"delete", "save"} /\ test'.target = test.target
    BY <1>1, <2>1, Concluded DEF GoodResult
  <2>3. /\ test.pc # "idle" /\ job'.status = job.status /\ job'.reference = job.reference
        /\ UNCHANGED <<entry, sent, tests>> /\ entry # "down"
    BY <1>1, <1>5 DEF Ending, JobKept, Early, Late, Stage
  <2>4. CASE sent
    BY <1>1, <2>2, <2>3, <2>4 DEF LiveJob
  <2>5. CASE ~sent
    <3>1. UNCHANGED job
      BY <1>1, <1>5, <2>5 DEF Ending, Stage
    <3> QED
      BY <1>1, <2>2, <2>3, <2>5, <3>1 DEF LiveJob
  <2> QED
    BY <2>4, <2>5
<1>6. CASE Advance
  <2>1. /\ test.pc \in Early \union Late /\ UNCHANGED <<entry, tests, store>>
        /\ test'.target = test.target /\ job'.status = job.status
        /\ job'.reference = job.reference /\ entry # "down" /\ test.pc # "idle"
    BY <1>1, <1>6 DEF Advance, JobKept, Stage, Early, Late
  <2>2. job.status = "running" /\ job.reference = test.target.reference
    BY <1>1, <2>1 DEF LiveJob
  <2>3. CASE test.pc = "check" /\ test'.pc = "require" /\ UNCHANGED <<sent, job>>
    BY <1>1, <2>1, <2>2, <2>3 DEF LiveJob
  <2>4. CASE /\ test'.pc = "create" /\ job'.current = Prepare
             /\ \A k \in StepIds : job'.steps[k].determinate = RuntimeSteps[k].determinate
    BY <2>1, <2>2, <2>4 DEF LiveJob
  <2>5. CASE test'.pc \in Late /\ sent'
    BY <2>1, <2>2, <2>5 DEF LiveJob, Late
  <2>6. CASE test.pc \in Late /\ test'.pc \in Late /\ UNCHANGED sent
    BY <1>1, <2>5, <2>6 DEF Stage
  <2>7. CASE /\ test.pc = "create" /\ test'.pc = "delete" /\ UNCHANGED sent
             /\ \A k \in StepIds : job'.steps[k].determinate = job.steps[k].determinate
    BY <1>1, <2>1, <2>2, <2>7 DEF LiveJob
  <2> QED
    BY <1>6, <2>3, <2>4, <2>5, <2>6, <2>7 DEF Advance, Late
<1>7. CASE Delete
  <2>1. CASE test' = NoTest /\ entry = "stopping" /\ Reported(Cancel(job), TRUE)
    <3>1. job.status = "running" /\ UNCHANGED entry
      BY <1>1, <1>7, DeletedFacts DEF LiveJob
    <3>2. job'.status = "aborted"
      BY <1>1, <2>1, <3>1, CancelledLive
    <3> QED
      BY <1>3, <2>1, <3>1, <3>2, NoTestFields
  <2>2. CASE UNCHANGED live /\ test'.pc = "save" /\ test'.target = test.target
    <3>1. UNCHANGED <<entry, tests, sent, job>> /\ test.pc = "delete"
      BY <1>1, <1>7, <2>2, DeletedFacts DEF live
    <3> QED
      BY <1>1, <2>2, <3>1 DEF LiveJob, Stage
  <2> QED
    BY <1>1, <1>7, <2>1, <2>2, DeletedFacts
<1>8. CASE Save
  <2>1. /\ job'.status = test.result.status /\ job'.reference = test.target.reference
        /\ job'.status # "running" /\ GoodResult(test.result) /\ store.memory = test.result
    BY <1>1, <1>8, SavedLive
  <2>2. test'.pc = "idle" /\ UNCHANGED <<entry, tests>> /\ entry # "down" /\ tests \in RunIds
    BY <1>1, <1>8, NoTestFields DEF Save, past, Stage
  <2>3. store'.memory = store.memory
    BY <1>1, <1>8 DEF Save, TypeOK
  <2> QED
    BY <2>1, <2>2, <2>3 DEF LiveJob, GoodResult
<1>9. CASE Shutdown
  BY <1>2, <1>9 DEF Shutdown, live, past
<1>10. CASE Cancelled
  <2>1. /\ entry' = "stopping" /\ test.pc # "idle" /\ job.status = "running"
        /\ UNCHANGED <<tests, sent>>
    BY <1>1, <1>10, CancelledFacts DEF LiveJob
  <2>2. CASE test' = NoTest /\ UNCHANGED live
    BY <1>3, <2>1, <2>2, NoTestFields DEF live
  <2>3. CASE test' = NoTest /\ Reported(Cancel(job), TRUE)
    BY <1>1, <1>3, <2>1, <2>3, NoTestFields, CancelledLive
  <2>4. CASE /\ test.pc \in Late /\ test'.pc = "delete" /\ test'.target = test.target
             /\ UNCHANGED live
    BY <1>1, <2>1, <2>4 DEF LiveJob, Stage, live
  <2> QED
    BY <1>1, <1>10, <2>2, <2>3, <2>4, CancelledFacts
<1>11. CASE ShutdownDone
  <2>1. /\ test.pc = "idle" /\ UNCHANGED <<test, tests>> /\ entry' = "down"
        /\ Reported(Cancel(job), TRUE)
    BY <1>11 DEF ShutdownDone, past
  <2>2. job'.status # "running" /\ (job'.status = "passed" => job.status = "passed")
    BY <1>1, <2>1, CancelledLive
  <2> QED
    BY <1>1, <2>1, <2>2 DEF LiveJob
<1>12. CASE Restart \/ Crash
  <2>1. PICK disk \in Snapshots : Load(disk)
    BY <1>1, <1>12, LoadedStore
  <2> QED
    BY <2>1, LoadedFacts DEF LiveJob
<1>13. CASE NewBackup
  BY <1>2, <1>13 DEF NewBackup, live, past
<1>14. CASE Unattended
  BY <1>1, <1>2, <1>14, UnattendedFacts DEF live
<1>15. CASE \E n \in RunIds : RunGoesOn(n)
  BY <1>2, <1>15 DEF RunGoesOn, live
<1> QED
  BY <1>4, <1>5, <1>6, <1>7, <1>8, <1>9, <1>10, <1>11, <1>12, <1>13, <1>14, <1>15, StepKinds

LEMMA ResultsStep ==
  ASSUME IInv, Next
  PROVE  Results'
<1>1. Stage /\ TypeOK /\ RunsSound /\ Pace /\ LiveJob /\ Results /\ Keeps(runs')
  BY RunsStep DEF IInv, Shape
<1>2. ASSUME test'.pc \notin Over \/ test'.cancelled
      PROVE  Results'
  BY <1>2 DEF Results
<1>3. ASSUME UNCHANGED <<test, store, tests, sent, reached>>
      PROVE  Results'
  <2>1. CASE test.pc \in Over /\ ~test.cancelled
    <3>1. GoodResult(test.result) /\ (test.pc = "save" => store.memory = test.result)
      BY <1>1, <2>1 DEF Results
    <3>2. test.pc # "idle"
      BY <2>1 DEF Over
    <3>3. tests \in RunIds
      BY <1>1, <3>2 DEF Stage
    <3>4. GoodResult(test.result)'
      BY <1>1, <1>3, <3>1, <3>3 DEF GoodResult, Keeps, Passed
    <3> QED
      BY <1>3, <3>1, <3>4 DEF Results
  <2>2. CASE ~(test.pc \in Over /\ ~test.cancelled)
    BY <1>2, <1>3, <2>2
  <2> QED
    BY <2>1, <2>2
<1>4. CASE Begin
  BY <1>1, <1>2, <1>4, BeginStepFacts DEF Over
<1>5. CASE Ending
  <2>1. PICK r : GoodResult(r) /\ Conclude(r)
    BY <1>5 DEF Ending
  <2>2. /\ test'.result = r /\ test'.target = test.target
        /\ (test'.pc = "save" => store'.memory = r)
    BY <1>1, <2>1, Concluded DEF GoodResult
  <2>3. tests \in RunIds /\ UNCHANGED <<tests, sent, reached>>
    BY <1>1, <1>5 DEF Ending, Stage, Early, Late
  <2>4. GoodResult(test.result)'
    BY <1>1, <2>1, <2>2, <2>3 DEF GoodResult, Keeps, Passed
  <2> QED
    BY <2>2, <2>4 DEF Results
<1>6. CASE Advance
  <2>1. CASE test'.pc = "delete"
    <3>1. /\ test.pc = "create" /\ GoodResult(test'.result) /\ test'.target = test.target
          /\ UNCHANGED <<tests, sent, reached>> /\ tests \in RunIds
      BY <1>1, <1>6, <2>1 DEF Advance, Stage, Late, Early
    <3>2. GoodResult(test.result)'
      BY <1>1, <3>1 DEF GoodResult, Keeps, Passed
    <3> QED
      BY <2>1, <3>2 DEF Results
  <2>2. CASE test'.pc # "delete"
    BY <1>2, <1>6, <2>2 DEF Advance, Over, Early, Late
  <2> QED
    BY <2>1, <2>2
<1>7. CASE Delete
  <2>1. CASE test' = NoTest
    BY <1>2, <2>1, NoTestFields DEF Over
  <2>2. CASE /\ GoodResult(test.result) /\ test'.result = test.result
             /\ test'.target = test.target /\ store'.memory = test.result
    <3>1. tests \in RunIds /\ UNCHANGED <<tests, sent, reached>>
      BY <1>1, <1>7, DeletedFacts DEF Stage
    <3>2. GoodResult(test.result)'
      BY <1>1, <2>2, <3>1 DEF GoodResult, Keeps, Passed
    <3> QED
      BY <2>2, <3>2 DEF Results
  <2> QED
    BY <1>1, <1>7, <2>1, <2>2, DeletedFacts
<1>8. CASE Save \/ Restart \/ Crash
  BY <1>2, <1>8, NoTestFields DEF Save, Restart, Crash, Load, Over
<1>9. CASE Cancelled
  BY <1>1, <1>2, <1>9, CancelledFacts, NoTestFields DEF Over
<1>10. CASE Shutdown \/ ShutdownDone \/ NewBackup
  BY <1>3, <1>10 DEF Shutdown, ShutdownDone, NewBackup, past
<1>11. CASE Unattended
  BY <1>1, <1>3, <1>11, UnattendedFacts
<1>12. CASE \E n \in RunIds : RunGoesOn(n)
  BY <1>1, <1>2, <1>12, ExecutionsKeep DEF RunGoesOn, Over
<1> QED
  BY <1>4, <1>5, <1>6, <1>7, <1>8, <1>9, <1>10, <1>11, <1>12, StepKinds

LEMMA ProofStep ==
  ASSUME IInv, Next
  PROVE  ProofIsReal'
<1>1. Stage /\ TypeOK /\ RunsSound /\ Pace /\ LiveJob /\ Results /\ Keeps(runs') /\ ProofIsReal
  BY RunsStep DEF IInv, Shape
<1> DEFINE Sound(snapshot) == Passed(snapshot) => Proved(snapshot)
<1>2. Sound(store.memory) /\ Sound(store.disk)
  BY <1>1 DEF ProofIsReal
<1>3. ASSUME NEW r, GoodResult(r), test.pc # "idle"
      PROVE  Sound(r)
  <2>1. tests \in RunIds /\ test.target \in Targets
    BY <1>1, <1>3 DEF Stage
  <2>2. test.target = [reference |-> r.reference, sha256 |-> r.sha256]
    BY <1>3, <2>1 DEF GoodResult, Targets
  <2> QED
    BY <1>3, <2>1, <2>2 DEF GoodResult, Proved
<1>4. ASSUME Sound(store'.memory), Sound(store'.disk)
      PROVE  ProofIsReal'
  <2>1. \A snapshot : Proved(snapshot) => \E n \in RunIds :
             /\ runs'[n].verdict = "passed"
             /\ runs'[n].target = [reference |-> snapshot.reference, sha256 |-> snapshot.sha256]
    BY <1>1 DEF Keeps, Proved
  <2>2. ASSUME NEW snapshot \in {store'.memory, store'.disk}, snapshot.status = "passed"
        PROVE  \E n \in RunIds :
                 /\ runs'[n].verdict = "passed"
                 /\ runs'[n].target = [reference |-> snapshot.reference,
                                       sha256    |-> snapshot.sha256]
    BY <1>4, <2>1, <2>2 DEF Passed
  <2> QED
    BY <2>2 DEF ProofIsReal, Proved, Passed
<1> HIDE DEF Sound
<1>5. ASSUME UNCHANGED store
      PROVE  ProofIsReal'
  BY <1>2, <1>4, <1>5
<1>6. CASE Ending
  <2>1. PICK r : GoodResult(r) /\ Conclude(r)
    BY <1>6 DEF Ending
  <2>2. test.pc # "idle"
    BY <1>6 DEF Ending, Early, Late
  <2>3. store' = store \/ (store'.memory = r /\ store'.disk = store.disk)
    BY <1>1, <2>1, Concluded, TestFields DEF GoodResult
  <2> QED
    BY <1>2, <1>3, <1>4, <2>1, <2>2, <2>3
<1>7. CASE Delete
  BY <1>1, <1>2, <1>3, <1>4, <1>7, DeletedFacts
<1>8. CASE Save
  <2>1. store'.memory = store.memory /\ store'.disk \in {store.memory, store.disk}
    BY <1>1, <1>8 DEF Save, TypeOK
  <2> QED
    BY <1>2, <1>4, <2>1
<1>9. CASE Cancelled
  BY <1>1, <1>2, <1>4, <1>9, CancelledFacts
<1>10. CASE Restart \/ Crash
  <2>1. PICK disk \in Snapshots : disk \in {store.memory, store.disk} /\ Load(disk)
    BY <1>1, <1>10, LoadedStore
  <2>2. store' = [memory |-> disk, disk |-> disk]
    BY <2>1 DEF Load
  <2>3. store'.memory = disk /\ store'.disk = disk
    BY <2>2
  <2> QED
    BY <1>2, <1>4, <2>1, <2>3
<1>11. CASE Begin \/ Advance \/ Shutdown \/ ShutdownDone \/ NewBackup
  BY <1>5, <1>11 DEF Begin, Advance, Shutdown, ShutdownDone, NewBackup
<1>12. CASE Unattended \/ \E n \in RunIds : RunGoesOn(n)
  BY <1>1, <1>5, <1>12, UnattendedFacts DEF RunGoesOn
<1> QED
  BY <1>6, <1>7, <1>8, <1>9, <1>10, <1>11, <1>12, StepKinds

LEMMA OutcomeStep ==
  ASSUME IInv, Next
  PROVE  OutcomeIsTruthful'
<1>1. /\ Stage /\ TypeOK /\ RunsSound /\ Pace /\ LiveJob /\ Results /\ Keeps(runs')
      /\ OutcomeIsTruthful
  BY RunsStep DEF IInv, Shape
<1>2. ASSUME job'.status = "running"
      PROVE  OutcomeIsTruthful'
  BY <1>2 DEF OutcomeIsTruthful
<1>3. ASSUME UNCHANGED <<job, sent, tests>>
      PROVE  OutcomeIsTruthful'
  <2>1. job.status = "passed" => runs'[tests].verdict = "passed"
    BY <1>1 DEF LiveJob, OutcomeIsTruthful, Keeps
  <2> QED
    BY <1>1, <1>3, <2>1 DEF OutcomeIsTruthful
<1>4. ASSUME Reported(Cancel(job), TRUE), UNCHANGED <<sent, tests>>
      PROVE  OutcomeIsTruthful'
  <2>1. CASE job.status = "running"
    BY <1>1, <1>4, <2>1, CancelledLive DEF OutcomeIsTruthful
  <2>2. CASE job.status # "running"
    BY <1>1, <1>3, <1>4, <2>2, CancelledLive
  <2> QED
    BY <2>1, <2>2
<1>5. CASE Begin
  BY <1>1, <1>2, <1>5, BeginStepFacts
<1>6. CASE Ending \/ Advance
  <2>1. test.pc # "idle" /\ job'.status = job.status
    BY <1>6 DEF Ending, Advance, JobKept, Early, Late
  <2> QED
    BY <1>1, <1>2, <2>1 DEF LiveJob
<1>7. CASE Delete
  BY <1>1, <1>3, <1>4, <1>7, DeletedFacts DEF live
<1>8. CASE Save
  <2>1. /\ job'.status = test.result.status /\ GoodResult(test.result)
        /\ job'.status # "passed" => job'.overall < 100
        /\ job'.status = "not_started" => job'.overall = 0 /\ job'.steps = FreshSteps
    BY <1>1, <1>8, SavedLive
  <2>2. UNCHANGED <<tests, sent, runs>>
    BY <1>8 DEF Save, past, runner
  <2> QED
    BY <2>1, <2>2 DEF GoodResult, Passed, OutcomeIsTruthful
<1>9. CASE Cancelled
  BY <1>1, <1>3, <1>4, <1>9, CancelledFacts DEF live
<1>10. CASE ShutdownDone
  BY <1>4, <1>10 DEF ShutdownDone, past
<1>11. CASE Restart \/ Crash
  <2>1. PICK disk \in Snapshots : Load(disk)
    BY <1>1, <1>11, LoadedStore
  <2>2. job'.status = "idle" /\ job'.overall = 0
    BY <2>1, LoadedFacts
  <2>3. \A n : n = 0 => n < 100
    OBVIOUS
  <2>4. job'.overall < 100
    BY <2>2, <2>3, Zenon
  <2> QED
    BY <2>2, <2>4 DEF OutcomeIsTruthful
<1>12. CASE Shutdown \/ NewBackup
  BY <1>3, <1>12 DEF Shutdown, NewBackup, live, past
<1>13. CASE Unattended \/ \E n \in RunIds : RunGoesOn(n)
  BY <1>1, <1>3, <1>13, UnattendedFacts DEF RunGoesOn, live
<1> QED
  BY <1>5, <1>6, <1>7, <1>8, <1>9, <1>10, <1>11, <1>12, <1>13, StepKinds

LEMMA InventedStep ==
  ASSUME IInv, Next
  PROVE  NoInventedSteps'
<1>1. /\ Stage /\ TypeOK /\ RunsSound /\ Pace /\ LiveJob /\ Results /\ NoInventedSteps
  BY DEF IInv, Shape
<1>2. ASSUME \A k \in 3..5 : job'.steps[k].state = "passed" => job.steps[k].state = "passed",
             Unjudged => Unjudged', UNCHANGED <<stepwise, misled, reached>>
      PROVE  NoInventedSteps'
  BY <1>1, <1>2 DEF NoInventedSteps
<1>3. ASSUME job'.steps = FreshSteps
      PROVE  NoInventedSteps'
  BY <1>3, SevenSteps DEF NoInventedSteps, FreshSteps
<1>4. CASE Begin
  BY <1>1, <1>3, <1>4, BeginStepFacts
<1>5. CASE Ending \/ Advance
  BY <1>5 DEF Ending, Advance
<1>6. CASE Delete
  BY <1>1, <1>2, <1>6, DeletedFacts, CancelledLive DEF live, Unjudged
<1>7. CASE Save
  <2>1. /\ job'.status = test.result.status /\ GoodResult(test.result)
        /\ job'.status # "passed" =>
              /\ \A k \in 3..5 : job'.steps[k].state = "passed" => job.steps[k].state = "passed"
              /\ job'.status # "not_started" /\ Unjudged => Unjudged'
        /\ job'.status = "not_started" => job'.steps = FreshSteps
    BY <1>1, <1>7, SavedLive
  <2>2. UNCHANGED <<stepwise, misled, reached>>
    BY <1>7 DEF Save, past, runner
  <2>3. CASE job'.status # "passed"
    BY <1>2, <1>3, <2>1, <2>2, <2>3
  <2>4. CASE job'.status = "passed"
    <3>1. reached' >= 5 /\ reached' \in Nat
      BY <1>1, <2>1, <2>2, <2>4 DEF GoodResult, Passed, TypeOK
    <3> QED
      BY <3>1 DEF NoInventedSteps
  <2> QED
    BY <2>3, <2>4
<1>8. CASE Cancelled
  BY <1>1, <1>2, <1>8, CancelledFacts, CancelledLive DEF live, Unjudged
<1>9. CASE ShutdownDone
  BY <1>1, <1>2, <1>9, CancelledLive DEF ShutdownDone, past, runner
<1>10. CASE Restart \/ Crash
  BY <1>1, <1>3, <1>10, LoadedStore, LoadedFacts
<1>11. CASE Shutdown \/ NewBackup
  BY <1>2, <1>11 DEF Shutdown, NewBackup, live, past, runner, Unjudged
<1>12. CASE Unattended
  BY <1>1, <1>2, <1>12, UnattendedFacts DEF live, Unjudged
<1>13. CASE \E n \in RunIds : RunGoesOn(n)
  <2>1. reached' >= reached /\ reached \in 0..5 /\ reached' \in 0..5
    BY <1>1, <1>13, ExecutionsKeep DEF TypeOK
  <2>2. UNCHANGED <<stepwise, misled, job>>
    BY <1>13 DEF RunGoesOn, live
  <2>3. ASSUME NEW k \in 3..5, reached >= k
        PROVE  reached' >= k
    BY <2>1, <2>3
  <2> QED
    BY <1>1, <2>2, <2>3 DEF NoInventedSteps, Unjudged
<1> QED
  BY <1>4, <1>5, <1>6, <1>7, <1>8, <1>9, <1>10, <1>11, <1>12, <1>13, StepKinds

\* At first there is no test, no run and no result.
LEMMA InitIInv ==
  ASSUME Init
  PROVE  IInv
<1>1. /\ Create \in JobType /\ Create.status = "idle" /\ Create.overall = 0
      /\ Create.steps = FreshSteps /\ Create.overall < 100
  <2>1. \A n : n = 0 => n < 100
    OBVIOUS
  <2> QED
    BY <2>1, CreatedJob, JobsAreTyped
<1>2. NotRun \in Snapshots /\ NotRun.status # "passed"
  BY DEF Snapshots, NotRun
<1>3. TypeOK
  <2>1. /\ 1 \in Backups /\ 0 \in 0..MaxTests /\ 0 \in 0..5
    BY RuntimeAssumption DEF Backups
  <2>2. runs \in [RunIds -> RunType]
    BY NoRunSound DEF Init, SoundRun
  <2>3. store \in [memory : Snapshots, disk : Snapshots]
    BY <1>2 DEF Init
  <2> QED
    BY <1>1, <2>1, <2>2, <2>3, NoTestFields DEF Init, TypeOK
<1>4. test.pc = "idle" /\ test.cancelled = FALSE /\ entry = "up" /\ job = Create
  BY NoTestFields DEF Init
<1>5. Stage /\ Pace /\ LiveJob /\ Results
  BY <1>1, <1>4 DEF Stage, Pace, LiveJob, Results, Early, Late, Over
<1>6. RunsSound
  BY NoRunSound DEF Init, RunsSound
<1>7. ProofIsReal
  BY <1>2 DEF Init, ProofIsReal, Passed
<1>8. OutcomeIsTruthful
  BY <1>1, <1>4 DEF OutcomeIsTruthful
<1>9. NoInventedSteps
  BY <1>1, <1>4, SevenSteps DEF NoInventedSteps, FreshSteps
<1> QED
  BY <1>3, <1>5, <1>6, <1>7, <1>8, <1>9 DEF IInv, Shape

LEMMA StepIInv ==
  ASSUME IInv, [Next]_vars
  PROVE  IInv'
<1>1. CASE Next
  BY <1>1, TypedStep, StageStep, RunsSoundStep, PaceStep, LiveJobStep, ResultsStep, ProofStep,
     OutcomeStep, InventedStep DEF IInv, Shape
<1>2. CASE UNCHANGED vars
  BY <1>2 DEF vars, runner, live, past, IInv, Shape, TypeOK, Stage, RunsSound, SoundRun, Pace,
     InPace, LiveJob, Results, GoodResult, Passed, ProofIsReal, Proved, OutcomeIsTruthful,
     NoInventedSteps, Unjudged
<1> QED
  BY <1>1, <1>2

\* The invariant the theorems follow from.
LEMMA Inductive == Spec => []IInv
  BY InitIInv, StepIInv, PTL DEF Spec

-----------------------------------------------------------------------------
(* What follows *)

\* Every variable stays in the domain the code gives it, for every number of
\* backups, checksums and tests.
THEOREM TypeCorrect == Spec => []TypeOK
<1>1. IInv => TypeOK
  BY DEF IInv, Shape
<1> QED
  BY <1>1, Inductive, PTL

\* A result that is stored as passed is about an archive that the runner itself
\* has started successfully, whatever answers were lost, late or foreign.
THEOREM StoredProofIsReal == Spec => []ProofIsReal
<1>1. IInv => ProofIsReal
  BY DEF IInv
<1> QED
  BY <1>1, Inductive, PTL

\* What the view presents as proof is one and the same stored result.
THEOREM ViewShowsOneResult == Spec => []ViewHonest
<1>1. IInv => ViewHonest
  <2> SUFFICES ASSUME IInv, entry = "up", View.proof
               PROVE  View.status = "passed" /\ Proved(View)
    BY DEF ViewHonest
  <2> DEFINE reference == IF job.status = "running" THEN test.target.reference ELSE latest
             belongs   == job.status # "idle" /\ job.reference = reference
             memory    == store.memory
  <2>1. Passed(memory) => Proved(memory)
    BY DEF IInv, ProofIsReal
  <2>2. View = IF ~belongs
               THEN [status |-> memory.status, proof |-> Passed(memory), overall |-> 0,
                     reference |-> memory.reference, sha256 |-> memory.sha256]
               ELSE [status |-> job.status, overall |-> job.overall, reference |-> job.reference,
                     proof  |-> job.status # "running" /\ Passed(memory),
                     sha256 |-> IF job.status = "running" THEN None ELSE memory.sha256]
    BY DEF View
  <2>3. job.status \notin {"idle", "running"} =>
          job.status = memory.status /\ job.reference = memory.reference
    BY DEF IInv, Shape, LiveJob
  <2> HIDE DEF belongs, memory
  <2>4. CASE ~belongs
    <3>1. /\ View.status = memory.status /\ View.proof = Passed(memory)
          /\ View.reference = memory.reference /\ View.sha256 = memory.sha256
      BY <2>2, <2>4
    <3> QED
      BY <2>1, <3>1 DEF Passed, Proved
  <2>5. CASE belongs
    <3>1. /\ View.status = job.status /\ View.proof = (job.status # "running" /\ Passed(memory))
          /\ View.reference = job.reference
          /\ View.sha256 = IF job.status = "running" THEN None ELSE memory.sha256
      BY <2>2, <2>5
    <3>2. job.status \notin {"idle", "running"} /\ Passed(memory)
      BY <2>5, <3>1 DEF belongs
    <3> QED
      BY <2>1, <2>3, <3>1, <3>2 DEF Passed, Proved
  <2> QED
    BY <2>4, <2>5
<1> QED
  BY <1>1, Inductive, PTL

\* The status of a job says what happened on the way and on the runner.
THEOREM OutcomesAreTruthful == Spec => []OutcomeIsTruthful
<1>1. IInv => OutcomeIsTruthful
  BY DEF IInv
<1> QED
  BY <1>1, Inductive, PTL

\* No step of the isolated test is shown as passed that the run has not passed,
\* if the runner reports its steps.
THEOREM StepsAreReal == Spec => []NoInventedSteps
<1>1. IInv => NoInventedSteps
  BY DEF IInv
<1> QED
  BY <1>1, Inductive, PTL

\* A job that reads as running has a test behind it, or a shutdown that closes it.
THEOREM RunningJobsAreOwned == Spec => []RunningJobIsOwned
<1>1. IInv => RunningJobIsOwned
  BY DEF IInv, Shape, TypeOK, LiveJob, RunningJobIsOwned
<1> QED
  BY <1>1, Inductive, PTL

================================================================================
