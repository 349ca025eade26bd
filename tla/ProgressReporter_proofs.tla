------------------------ MODULE ProgressReporter_proofs ------------------------
(***************************************************************************)
(* What the methods of ProgressReporter make of a job, for any set of      *)
(* references: the type they keep, the fields they leave alone, and the    *)
(* steps they may show as passed.                                          *)
(*                                                                         *)
(* The sum in Total is a recursive function.  It is proved to exist by     *)
(* giving it: a job has seven steps.                                       *)
(***************************************************************************)
EXTENDS ProgressReporter, TLAPS

Jobs(References) ==
  [status : JobStatuses, current : StepIds \union {NoStep}, steps : Steps,
   overall : Percents, reference : References, source : {"integration", "runner"}]

-----------------------------------------------------------------------------
(* The table of steps *)

\* The list of runtime steps, as numbers.
LEMMA SevenSteps == StepIds = 1..7 /\ Len(RuntimeSteps) = 7
  BY DEF StepIds, RuntimeSteps

LEMMA NamedSteps == Prepare \in StepIds /\ Upload \in StepIds /\ Cleanup \in StepIds
  BY SevenSteps DEF Prepare, Upload, Cleanup

LEMMA StepTable ==
  ASSUME NEW k \in StepIds
  PROVE  RuntimeSteps[k].weight \in Nat /\ RuntimeSteps[k].determinate \in BOOLEAN
<1>1. /\ RuntimeSteps[1] = Step(3, FALSE) /\ RuntimeSteps[2] = Step(25, TRUE)
      /\ RuntimeSteps[3] = Step(30, TRUE) /\ RuntimeSteps[4] = Step(20, FALSE)
      /\ RuntimeSteps[5] = Step(12, FALSE) /\ RuntimeSteps[6] = Step(5, FALSE)
      /\ RuntimeSteps[7] = Step(5, FALSE)
  BY DEF RuntimeSteps
<1>2. \A w \in Nat, d \in BOOLEAN : Step(w, d).weight \in Nat /\ Step(w, d).determinate \in BOOLEAN
  BY DEF Step
<1>3. k \in {1, 2, 3, 4, 5, 6, 7}
  BY SevenSteps
<1>4. {3, 25, 30, 20, 12, 5} \subseteq Nat
  OBVIOUS
<1>5. \E w \in Nat, d \in BOOLEAN : RuntimeSteps[k] = Step(w, d)
  BY <1>1, <1>3, <1>4, Zenon
<1> QED
  BY <1>2, <1>5

\* The sum over the steps is a number.
LEMMA TotalIsNat ==
  ASSUME NEW steps, \A k \in StepIds : CompletedPercent(k, steps[k]) \in Nat
  PROVE  Total(steps) \in Nat
<1> DEFINE c(k) == CompletedPercent(k, steps[k])
           Sums(f) == [k \in 0..Len(RuntimeSteps) |->
                         IF k = 0 THEN 0 ELSE f[k - 1] + CompletedPercent(k, steps[k])]
           sum == CHOOSE f : f = Sums(f)
           partial(k) == IF k = 0 THEN 0
                         ELSE IF k = 1 THEN c(1) ELSE IF k = 2 THEN c(1) + c(2)
                         ELSE IF k = 3 THEN c(1) + c(2) + c(3)
                         ELSE IF k = 4 THEN c(1) + c(2) + c(3) + c(4)
                         ELSE IF k = 5 THEN c(1) + c(2) + c(3) + c(4) + c(5)
                         ELSE IF k = 6 THEN c(1) + c(2) + c(3) + c(4) + c(5) + c(6)
                         ELSE c(1) + c(2) + c(3) + c(4) + c(5) + c(6) + c(7)
           witness == [k \in 0..7 |-> partial(k)]
<1>1. Total(steps) = sum[7]
  BY SevenSteps, Zenon DEF Total
<1>2. \A k \in 1..7 : c(k) \in Nat
  BY SevenSteps
<1>3. \A f : Sums(f) = [k \in 0..7 |-> IF k = 0 THEN 0 ELSE f[k - 1] + c(k)]
  BY SevenSteps
<1> HIDE DEF c, Sums
<1>4. witness = Sums(witness)
  <2>1. \A k \in 0..7 : partial(k) = IF k = 0 THEN 0 ELSE witness[k - 1] + c(k)
    BY <1>2
  <2> QED
    BY <1>3, <2>1
<1>5. sum = Sums(sum)
  BY <1>4
<1> HIDE DEF sum
<1>6. \A k \in 0..7 : sum[k] = IF k = 0 THEN 0 ELSE sum[k - 1] + c(k)
  BY <1>3, <1>5
<1>7. sum[7] \in Nat
  <2>1. sum[1] \in Nat
    BY <1>2, <1>6
  <2>2. sum[2] \in Nat
    BY <1>2, <1>6, <2>1
  <2>3. sum[3] \in Nat
    BY <1>2, <1>6, <2>2
  <2>4. sum[4] \in Nat
    BY <1>2, <1>6, <2>3
  <2>5. sum[5] \in Nat
    BY <1>2, <1>6, <2>4
  <2>6. sum[6] \in Nat
    BY <1>2, <1>6, <2>5
  <2> QED
    BY <1>2, <1>6, <2>6
<1> QED
  BY <1>1, <1>7

\* A step's share of the whole is a number.
LEMMA CompletedIsNat ==
  ASSUME NEW k \in StepIds, NEW step \in StepRecords
  PROVE  CompletedPercent(k, step) \in Nat
<1> DEFINE w == RuntimeSteps[k].weight
           p == step.percent
<1>1. w \in Nat /\ p \in 0..100
  BY StepTable DEF StepRecords, Percents
<1>2. CompletedPercent(k, step) \in {w, (w * p) \div 100, 0}
  BY DEF CompletedPercent
<1> HIDE DEF w, p
<1>3. w * p \in Nat
  BY <1>1
<1>4. (w * p) \div 100 \in Nat
  BY <1>3
<1> QED
  BY <1>1, <1>2, <1>4

\* Recalculating changes nothing but the overall percentage, which is one.
LEMMA Recalculated ==
  ASSUME NEW R, NEW job \in Jobs(R)
  PROVE  LET next == Recalculate(job) IN
         /\ next \in Jobs(R)
         /\ next.status = job.status /\ next.reference = job.reference
         /\ next.current = job.current /\ next.steps = job.steps
<1> DEFINE total == Total(job.steps)
<1>1. total \in Nat
  <2>1. \A k \in StepIds : job.steps[k] \in StepRecords
    BY DEF Jobs, Steps
  <2> QED
    BY <2>1, CompletedIsNat, TotalIsNat
<1> HIDE DEF total
<1>2. Bigger(job.overall, Smaller(total, 100)) \in 0..100
  BY <1>1 DEF Bigger, Smaller, Jobs, Percents
<1>3. Recalculate(job) = [job EXCEPT !.overall = Bigger(job.overall, Smaller(total, 100))]
  BY DEF Recalculate, total
<1> QED
  BY <1>2, <1>3 DEF Jobs, Percents

-----------------------------------------------------------------------------
(* Lifecycle *)

\* A job starts with every step pending.
LEMMA FreshType == FreshSteps \in Steps
<1>1. \A k \in StepIds : [state       |-> "pending",
                          determinate |-> RuntimeSteps[k].determinate,
                          percent     |-> 0] \in StepRecords
  BY StepTable DEF StepRecords, StepStates, Percents
<1> QED
  BY <1>1 DEF FreshSteps, Steps

LEMMA CreatedJob ==
  ASSUME NEW R, None \in R
  PROVE  /\ Create \in Jobs(R)
         /\ Create.status = "idle" /\ Create.overall = 0 /\ Create.steps = FreshSteps
         /\ Create.current = NoStep
  BY FreshType DEF Create, Jobs, JobStatuses, Percents

\* A job starts with fresh steps.
LEMMA StartedJob ==
  ASSUME NEW R, NEW job, NEW reference \in R
  PROVE  LET next == Start(job, reference) IN
         /\ next \in Jobs(R)
         /\ next.status = "running" /\ next.reference = reference
         /\ next.current = NoStep /\ next.steps = FreshSteps
<1> DEFINE c == Create
           T    == R \union {None}
<1>1. c \in Jobs(T) /\ c.current = NoStep /\ c.steps = FreshSteps
  BY CreatedJob
<1>2. Start(job, reference) = [c EXCEPT !.status = "running", !.reference = reference]
  BY DEF Start
<1> HIDE DEF c
<1> QED
  BY <1>1, <1>2 DEF Jobs, JobStatuses

\* The steps of a job that ends: none is passed that was not, unless the job has.
LEMMA ClosedJob ==
  ASSUME NEW steps \in Steps, NEW status \in JobStatuses
  PROVE  /\ ClosedSteps(steps, status) \in Steps
         /\ \A k \in StepIds :
              /\ ClosedSteps(steps, status)[k].state = "passed" =>
                   steps[k].state = "passed" \/ status = "passed"
              /\ steps[k].state = "pending" /\ status # "passed" =>
                   ClosedSteps(steps, status)[k].state = "pending"
              /\ status = "not_started" =>
                   ClosedSteps(steps, status)[k] =
                     [state |-> "pending", determinate |-> steps[k].determinate, percent |-> 0]
<1> DEFINE closed == ClosedSteps(steps, status)
<1>1. ASSUME NEW k \in StepIds
      PROVE  /\ closed[k] \in StepRecords
             /\ closed[k].state = "passed" => steps[k].state = "passed" \/ status = "passed"
             /\ steps[k].state = "pending" /\ status # "passed" => closed[k].state = "pending"
             /\ status = "not_started" =>
                  closed[k] = [state       |-> "pending",
                               determinate |-> steps[k].determinate, percent |-> 0]
  <2> DEFINE step == steps[k]
  <2>1. step \in StepRecords
    BY DEF Steps
  <2>2. closed[k] = CASE status = "not_started" ->
                           [step EXCEPT !.state = "pending", !.percent = 0]
                      [] status = "passed" /\ step.state \in {"pending", "running"} ->
                           [step EXCEPT !.state = "passed"]
                      [] status # "not_started" /\ step.state = "running" ->
                           [step EXCEPT !.state = TerminalStepState(status)]
                      [] OTHER -> step
    BY DEF ClosedSteps
  <2> HIDE DEF step, closed
  <2>3. CASE status = "not_started"
    <3>1. closed[k] = [step EXCEPT !.state = "pending", !.percent = 0]
      BY <2>2, <2>3
    <3>2. "pending" \in StepStates /\ 0 \in Percents
      BY DEF StepStates, Percents
    <3>3. closed[k] = [state |-> "pending", determinate |-> step.determinate, percent |-> 0]
      BY <2>1, <3>1 DEF StepRecords
    <3> QED
      BY <2>1, <3>2, <3>3 DEF step, StepRecords
  <2>4. CASE status = "passed" /\ step.state \in {"pending", "running"}
    <3>1. status # "not_started"
      BY <2>4
    <3>2. closed[k] = [step EXCEPT !.state = "passed"]
      <4>1. TerminalStepState(status) = "passed"
        BY <2>4 DEF TerminalStepState
      <4> QED
        BY <2>2, <2>4, <3>1, <4>1
    <3> QED
      BY <2>1, <2>4, <3>2 DEF step, StepRecords, StepStates
  <2>5. CASE status \notin {"not_started", "passed"} /\ step.state = "running"
    <3>1. closed[k] = [step EXCEPT !.state = TerminalStepState(status)]
      BY <2>2, <2>5
    <3>2. TerminalStepState(status) \in StepStates \ {"passed"}
      BY <2>5 DEF TerminalStepState, StepStates
    <3> QED
      BY <2>1, <2>5, <3>1, <3>2 DEF step, StepRecords
  <2>6. CASE closed[k] = step /\ status # "not_started"
    BY <2>1, <2>6 DEF step
  <2> QED
    BY <2>2, <2>3, <2>4, <2>5, <2>6
<1>2. closed = [k \in StepIds |-> closed[k]]
  BY DEF ClosedSteps
<1> HIDE DEF closed
<1>3. closed \in Steps
  BY <1>1, <1>2 DEF Steps
<1> QED
  BY <1>1, <1>3 DEF closed

\* A running job that ends: it has the status reported, and is only complete if
\* it passed.
LEMMA FinishedJob ==
  ASSUME NEW R, NEW job \in Jobs(R), job.status = "running", NEW status \in JobStatuses
  PROVE  LET next == Finish(job, status) IN
         /\ next \in Jobs(R)
         /\ next.status = status /\ next.reference = job.reference
         /\ status = "not_started" => next.overall = 0
         /\ status \in Incomplete => next.overall < 100
         /\ status # "not_started" => next.current = job.current
         /\ next.steps = ClosedSteps(job.steps, status)
<1> DEFINE closed == [job EXCEPT !.steps = ClosedSteps(@, status), !.status = status]
<1>1. ClosedSteps(job.steps, status) \in Steps
  BY ClosedJob DEF Jobs
<1>2. /\ closed \in Jobs(R)
      /\ closed.status = status /\ closed.reference = job.reference
      /\ closed.steps = ClosedSteps(job.steps, status)
      /\ closed.overall = job.overall /\ closed.current = job.current
  BY <1>1 DEF Jobs
<1>3. Finish(job, status) =
        CASE job.status # "running" -> job
          [] status = "not_started" -> [closed EXCEPT !.overall = 0, !.current = NoStep]
          [] status \in Incomplete \ {"not_started"} -> [closed EXCEPT !.overall = Smaller(@, 99)]
          [] OTHER -> Recalculate(closed)
  BY DEF Finish
<1> HIDE DEF closed
<1>4. CASE status = "not_started"
  <2>1. Finish(job, status) = [closed EXCEPT !.overall = 0, !.current = NoStep]
    BY <1>3, <1>4
  <2>2. /\ Finish(job, status) \in Jobs(R) /\ Finish(job, status).overall = 0
        /\ Finish(job, status).status = closed.status
        /\ Finish(job, status).reference = closed.reference
        /\ Finish(job, status).steps = closed.steps
    <3>1. 0 \in Percents
      BY DEF Percents
    <3> QED
      BY <1>2, <2>1, <3>1 DEF Jobs
  <2>3. \A n : n = 0 => n < 100
    OBVIOUS
  <2> QED
    BY <1>2, <1>4, <2>2, <2>3, Zenon
<1>5. CASE status \in Incomplete \ {"not_started"}
  <2>1. Finish(job, status) = [closed EXCEPT !.overall = Smaller(closed.overall, 99)]
    BY <1>3, <1>5
  <2>2. Smaller(closed.overall, 99) \in 0..99
    BY <1>2 DEF Jobs, Percents, Smaller
  <2>3. /\ Finish(job, status) \in Jobs(R) /\ Finish(job, status).overall < 100
        /\ Finish(job, status).status = closed.status
        /\ Finish(job, status).reference = closed.reference
        /\ Finish(job, status).current = closed.current
        /\ Finish(job, status).steps = closed.steps
    BY <1>2, <2>1, <2>2 DEF Jobs, Percents
  <2> QED
    BY <1>2, <1>5, <2>3
<1>6. CASE status \notin Incomplete
  <2>1. Finish(job, status) = Recalculate(closed)
    BY <1>3, <1>6 DEF Incomplete
  <2>2. /\ Recalculate(closed) \in Jobs(R)
        /\ Recalculate(closed).status = closed.status
        /\ Recalculate(closed).reference = closed.reference
        /\ Recalculate(closed).current = closed.current
        /\ Recalculate(closed).steps = closed.steps
    BY <1>2, Recalculated
  <2> QED
    BY <1>2, <1>6, <2>1, <2>2 DEF Incomplete
<1> QED
  BY <1>4, <1>5, <1>6

\* Steps that measure what fresh ones measure are fresh again.
LEMMA ReopenedSteps ==
  ASSUME NEW steps \in Steps,
         \A k \in StepIds : steps[k].determinate = RuntimeSteps[k].determinate
  PROVE  ClosedSteps(steps, "not_started") = FreshSteps
<1>1. "not_started" \in JobStatuses
  BY DEF JobStatuses
<1>2. \A k \in StepIds : ClosedSteps(steps, "not_started")[k] = FreshSteps[k]
  BY <1>1, ClosedJob DEF FreshSteps
<1>3. ClosedSteps(steps, "not_started") \in Steps
  BY <1>1, ClosedJob
<1> QED
  BY <1>2, <1>3, FreshType DEF Steps

\* A job that is cancelled is not running, not complete and has passed nothing new.
LEMMA CancelledJob ==
  ASSUME NEW R, NEW job \in Jobs(R)
  PROVE  LET next == Cancel(job) IN
         /\ next \in Jobs(R) /\ next.reference = job.reference
         /\ job.status # "running" => next = job
         /\ job.status = "running" => next.status = "aborted" /\ next.overall < 100
         /\ next.current = job.current
         /\ \A k \in StepIds :
              /\ next.steps[k].state = "passed" => job.steps[k].state = "passed"
              /\ job.steps[k].state = "pending" => next.steps[k].state = "pending"
<1>1. CASE job.status # "running"
  BY <1>1 DEF Cancel
<1>2. CASE job.status = "running"
  <2>1. "aborted" \in JobStatuses /\ "aborted" \in Incomplete /\ "aborted" # "not_started"
    BY DEF JobStatuses, Incomplete
  <2>2. Cancel(job) = Finish(job, "aborted")
    BY <1>2 DEF Cancel
  <2>3. /\ Finish(job, "aborted") \in Jobs(R)
        /\ Finish(job, "aborted").status = "aborted"
        /\ Finish(job, "aborted").reference = job.reference
        /\ Finish(job, "aborted").overall < 100
        /\ Finish(job, "aborted").current = job.current
        /\ Finish(job, "aborted").steps = ClosedSteps(job.steps, "aborted")
    BY <1>2, <2>1, FinishedJob, Zenon
  <2>4. \A k \in StepIds :
          /\ ClosedSteps(job.steps, "aborted")[k].state = "passed" =>
               job.steps[k].state = "passed"
          /\ job.steps[k].state = "pending" =>
               ClosedSteps(job.steps, "aborted")[k].state = "pending"
    <3>1. job.steps \in Steps /\ "aborted" # "passed"
      BY DEF Jobs
    <3> QED
      BY <2>1, <3>1, ClosedJob
  <2> QED
    BY <1>2, <2>2, <2>3, <2>4
<1> QED
  BY <1>1, <1>2

-----------------------------------------------------------------------------
(* Step transitions and measurements *)

\* A step that is marked as passed is a step.
LEMMA PassedStepType ==
  ASSUME NEW step \in StepRecords
  PROVE  /\ PassedStep(step) \in StepRecords
         /\ PassedStep(step).state = "passed"
         /\ PassedStep(step).determinate = step.determinate
<1>1. "passed" \in StepStates /\ (IF step.determinate THEN 100 ELSE 0) \in Percents
  BY DEF StepStates, Percents
<1> QED
  BY <1>1 DEF PassedStep, StepRecords

\* A step that begins leaves every step alone but the one that ran.
LEMMA BegunStep ==
  ASSUME NEW R, NEW job \in Jobs(R), NEW k \in StepIds, NEW determinate \in BOOLEAN,
         NEW promote \in BOOLEAN
  PROVE  LET next == BeginStep(job, k, determinate, promote) IN
         /\ next \in Jobs(R)
         /\ next.status = job.status /\ next.reference = job.reference
         /\ job.status = "running" =>
              /\ next.current = k
              /\ next.steps[k].determinate = determinate
              /\ \A i \in StepIds \ {k} :
                   /\ next.steps[i].determinate = job.steps[i].determinate
                   /\ i # job.current => next.steps[i] = job.steps[i]
<1> DEFINE steps == Promoted(job, k, promote)
           again == steps[k].state \in {"passed", "failed", "skipped"}
           step  == [state |-> "running", determinate |-> determinate,
                     percent |-> IF again THEN 0 ELSE steps[k].percent]
           begun == [job EXCEPT !.current = k, !.steps = [steps EXCEPT ![k] = step]]
           next  == BeginStep(job, k, determinate, promote)
<1>1. /\ steps \in Steps
      /\ \A i \in StepIds : /\ steps[i].determinate = job.steps[i].determinate
                            /\ i # job.current => steps[i] = job.steps[i]
  <2>1. CASE job.current \in StepIds /\ steps = [job.steps EXCEPT ![job.current] = PassedStep(@)]
    <3>1. job.steps \in Steps /\ job.steps[job.current] \in StepRecords
      BY <2>1 DEF Jobs, Steps
    <3>2. PassedStep(job.steps[job.current]) \in StepRecords
      BY <3>1, PassedStepType
    <3>3. PassedStep(job.steps[job.current]).determinate = job.steps[job.current].determinate
      BY <3>1, PassedStepType
    <3> HIDE DEF steps
    <3> QED
      BY <2>1, <3>1, <3>2, <3>3 DEF Steps
  <2>2. CASE steps = job.steps
    BY <2>2 DEF Jobs
  <2> QED
    BY <2>1, <2>2 DEF Promoted, Jobs
<1> HIDE DEF steps
<1>2. step \in StepRecords
  <2>1. "running" \in StepStates /\ 0 \in Percents /\ steps[k].percent \in Percents
    BY <1>1 DEF StepStates, Percents, Steps, StepRecords
  <2> QED
    BY <2>1 DEF StepRecords
<1>3. step.determinate = determinate
  OBVIOUS
<1>4. next = IF job.status # "running" THEN job ELSE Recalculate(begun)
  BY DEF BeginStep, steps
<1> HIDE DEF step
<1>5. /\ begun \in Jobs(R) /\ begun.status = job.status /\ begun.reference = job.reference
      /\ begun.current = k /\ begun.steps = [steps EXCEPT ![k] = step]
  <2>1. [steps EXCEPT ![k] = step] \in Steps
    BY <1>1, <1>2 DEF Steps
  <2> QED
    BY <2>1 DEF Jobs
<1>6. /\ begun.steps[k].determinate = determinate
      /\ \A i \in StepIds \ {k} : begun.steps[i] = steps[i]
  BY <1>1, <1>3, <1>5 DEF Steps
<1> HIDE DEF begun, next
<1>7. CASE job.status = "running"
  <2>1. /\ next \in Jobs(R) /\ next.status = begun.status /\ next.reference = begun.reference
        /\ next.current = begun.current /\ next.steps = begun.steps
    BY <1>4, <1>5, <1>7, Recalculated
  <2> QED
    BY <1>1, <1>5, <1>6, <2>1 DEF next
<1> QED
  BY <1>4, <1>7 DEF next

\* A step that is completed leaves the others alone.
LEMMA CompletedStep ==
  ASSUME NEW R, NEW job \in Jobs(R), NEW k \in StepIds, NEW state \in StepStates
  PROVE  LET next == CompleteStep(job, k, state) IN
         /\ next \in Jobs(R)
         /\ next.status = job.status /\ next.reference = job.reference
         /\ next.current = job.current
         /\ next.steps[k].determinate = job.steps[k].determinate
         /\ \A i \in StepIds \ {k} : next.steps[i] = job.steps[i]
<1> DEFINE step == job.steps[k]
           done == IF state = "passed" /\ step.determinate THEN PassedStep(step)
                   ELSE [step EXCEPT !.state = state]
           completed == [job EXCEPT !.steps[k] = done]
           next == CompleteStep(job, k, state)
<1>1. step \in StepRecords
  BY DEF Jobs, Steps
<1>2. done \in StepRecords /\ done.determinate = step.determinate
  <2>1. PassedStep(step) \in StepRecords /\ PassedStep(step).determinate = step.determinate
    BY <1>1, PassedStepType DEF PassedStep, StepRecords
  <2>2. /\ [step EXCEPT !.state = state] \in StepRecords
        /\ [step EXCEPT !.state = state].determinate = step.determinate
    BY <1>1 DEF StepRecords
  <2> QED
    BY <2>1, <2>2
<1>3. next = IF job.status # "running" THEN job ELSE Recalculate(completed)
  BY DEF CompleteStep
<1> HIDE DEF done
<1>4. /\ completed \in Jobs(R) /\ completed.status = job.status
      /\ completed.reference = job.reference /\ completed.current = job.current
      /\ completed.steps[k].determinate = step.determinate
      /\ \A i \in StepIds \ {k} : completed.steps[i] = job.steps[i]
  BY <1>2 DEF Jobs, Steps
<1> HIDE DEF completed, next
<1>5. CASE job.status = "running"
  <2>1. /\ next \in Jobs(R) /\ next.status = completed.status
        /\ next.reference = completed.reference
        /\ next.current = completed.current /\ next.steps = completed.steps
    BY <1>3, <1>4, <1>5, Recalculated
  <2> QED
    BY <1>4, <2>1 DEF next
<1> QED
  BY <1>3, <1>5 DEF next

\* A measurement changes no step's state.
LEMMA UpdatedStep ==
  ASSUME NEW R, NEW job \in Jobs(R), NEW k \in StepIds, NEW percent \in Percents
  PROVE  LET next == Update(job, k, percent) IN
         /\ next \in Jobs(R)
         /\ next.status = job.status /\ next.reference = job.reference
         /\ next.current = job.current
         /\ \A i \in StepIds : next.steps[i].state = job.steps[i].state
<1> DEFINE step == job.steps[k]
           most == Bigger(step.percent, percent)
           updated == [job EXCEPT !.steps[k].percent = most]
           next == Update(job, k, percent)
<1>1. step \in StepRecords
  BY DEF Jobs, Steps
<1>2. most \in Percents
  BY <1>1 DEF Bigger, StepRecords
<1>3. next = IF job.status # "running" \/ job.steps[k].state # "running" THEN job
             ELSE Recalculate(updated)
  BY DEF Update
<1> HIDE DEF most
<1>4. updated = [job EXCEPT !.steps = [job.steps EXCEPT ![k] = [step EXCEPT !.percent = most]]]
  OBVIOUS
<1>5. [step EXCEPT !.percent = most] \in StepRecords
  BY <1>1, <1>2 DEF StepRecords
<1>6. [step EXCEPT !.percent = most].state = step.state
  BY <1>1 DEF StepRecords
<1>7. /\ updated \in Jobs(R) /\ updated.status = job.status
      /\ updated.reference = job.reference /\ updated.current = job.current
      /\ updated.steps = [job.steps EXCEPT ![k] = [step EXCEPT !.percent = most]]
  BY <1>4, <1>5 DEF Jobs, Steps
<1>8. \A i \in StepIds : updated.steps[i].state = job.steps[i].state
  BY <1>6, <1>7 DEF Jobs, Steps
<1> HIDE DEF updated, next
<1>9. CASE next = Recalculate(updated)
  <2>1. /\ next \in Jobs(R) /\ next.status = updated.status
        /\ next.reference = updated.reference /\ next.current = updated.current
        /\ next.steps = updated.steps
    BY <1>7, <1>9, Recalculated
  <2> QED
    BY <1>7, <1>8, <2>1 DEF next
<1> QED
  BY <1>3, <1>9 DEF next

-----------------------------------------------------------------------------
(* Adopting what a runner reports *)

\* What marking the earlier steps does to each of them.
LEMMA MarkedPrevious ==
  ASSUME NEW steps \in Steps, NEW k \in StepIds
  PROVE  /\ MarkPrevious(steps, k) \in Steps
         /\ \A i \in StepIds :
              /\ ~(i < k) => MarkPrevious(steps, k)[i].state = steps[i].state
              /\ MarkPrevious(steps, k)[i].state = "passed" =>
                   \/ steps[i].state = "passed"
                   \/ i < k /\ steps[i].state \in {"pending", "running"}
<1>1. \A i \in StepIds : steps[i] \in StepRecords /\ PassedStep(steps[i]) \in StepRecords
  BY PassedStepType DEF Steps
<1>2. MarkPrevious(steps, k) =
        [i \in StepIds |-> IF i < k /\ steps[i].state \in {"pending", "running"}
                           THEN PassedStep(steps[i]) ELSE steps[i]]
  BY DEF MarkPrevious
<1> QED
  BY <1>1, <1>2 DEF Steps

\* What the runner's steps show as passed, the adopted ones do, and what is
\* open in front of the step it names.
LEMMA AdoptedSteps ==
  ASSUME NEW R, NEW job \in Jobs(R), NEW report,
         report.table = None \/ report.table \in Steps,
         report.step \in StepIds
  PROVE  LET next == ApplyRunnerState(job, report) IN
         /\ next \in Jobs(R)
         /\ next.status = job.status /\ next.reference = job.reference
         /\ job.status = "running" => next.current = report.step
         /\ job.status = "running" /\ report.table # None =>
              \A i \in StepIds :
                /\ ~(i < report.step) => next.steps[i].state = report.table[i].state
                /\ next.steps[i].state = "passed" =>
                     \/ report.table[i].state = "passed"
                     \/ i < report.step /\ report.table[i].state \in {"pending", "running"}
<1> DEFINE table  == report.table
           step   == report.step
           tabled == IF table = None THEN job.steps ELSE AdoptTable(job.steps, table)
           live   == IF table # None THEN AdoptStep(tabled, step, table[step])
                     ELSE AdoptStage(tabled, step)
           adopted == [job EXCEPT !.source = "runner", !.steps = live, !.current = step]
           next    == ApplyRunnerState(job, report)
<1>1. step # NoStep /\ step \in StepIds
  BY SevenSteps DEF NoStep
<1>2. next = IF job.status # "running" THEN job ELSE Recalculate(adopted)
  BY <1>1 DEF ApplyRunnerState
<1>3. job.steps \in Steps
  BY DEF Jobs
<1> HIDE DEF table, step
<1>4. /\ tabled \in Steps
      /\ table # None => table \in Steps /\ \A i \in StepIds : tabled[i].state = table[i].state
  <2>1. CASE table = None
    BY <1>3, <2>1
  <2>2. CASE table \in Steps /\ table # None
    <3> DEFINE most(i) == Bigger(job.steps[i].percent, table[i].percent)
               row(i)  == [job.steps[i] EXCEPT !.state = table[i].state, !.percent = most(i)]
    <3>1. \A i \in StepIds : most(i) \in Percents
      BY <1>3, <2>2 DEF Steps, StepRecords, Bigger
    <3> HIDE DEF most
    <3>2. \A i \in StepIds : row(i) \in StepRecords /\ row(i).state = table[i].state
      BY <1>3, <2>2, <3>1 DEF Steps, StepRecords
    <3>3. AdoptTable(job.steps, table) = [i \in StepIds |-> row(i)]
      BY DEF AdoptTable, most
    <3> HIDE DEF row
    <3> QED
      BY <2>2, <3>2, <3>3 DEF Steps
  <2> QED
    BY <2>1, <2>2 DEF table
<1> HIDE DEF tabled
<1>5. /\ live \in Steps
      /\ table # None => \A i \in StepIds :
            /\ ~(i < step) => live[i].state = table[i].state
            /\ live[i].state = "passed" =>
                 \/ table[i].state = "passed"
                 \/ i < step /\ table[i].state \in {"pending", "running"}
  <2>1. CASE table = None
    <3> DEFINE row == [state |-> "running", determinate |-> FALSE, percent |-> 0]
    <3>1. row \in StepRecords
      BY DEF StepRecords, StepStates, Percents
    <3>2. AdoptStage(tabled, step) = MarkPrevious([tabled EXCEPT ![step] = row], step)
      BY DEF AdoptStage
    <3> HIDE DEF row
    <3>3. [tabled EXCEPT ![step] = row] \in Steps
      BY <1>1, <1>4, <3>1 DEF Steps
    <3> QED
      BY <1>1, <2>1, <3>2, <3>3, MarkedPrevious
  <2>2. CASE table # None
    <3> DEFINE most == Bigger(tabled[step].percent, table[step].percent)
               row  == [state |-> table[step].state, determinate |-> table[step].determinate,
                        percent |-> most]
               base == [tabled EXCEPT ![step] = row]
    <3>1. table[step] \in StepRecords /\ tabled[step] \in StepRecords
      BY <1>1, <1>4, <2>2 DEF Steps
    <3>2. most \in Percents
      BY <3>1 DEF StepRecords, Bigger
    <3> HIDE DEF most
    <3>3. row \in StepRecords /\ row.state = table[step].state
      BY <3>1, <3>2 DEF StepRecords
    <3>4. AdoptStep(tabled, step, table[step]) = MarkPrevious(base, step)
      BY DEF AdoptStep, most
    <3> HIDE DEF row
    <3>5. base \in Steps /\ \A i \in StepIds : base[i].state = table[i].state
      BY <1>1, <1>4, <2>2, <3>3 DEF Steps
    <3> HIDE DEF base
    <3>6. /\ MarkPrevious(base, step) \in Steps
          /\ \A i \in StepIds :
               /\ ~(i < step) => MarkPrevious(base, step)[i].state = base[i].state
               /\ MarkPrevious(base, step)[i].state = "passed" =>
                    \/ base[i].state = "passed"
                    \/ i < step /\ base[i].state \in {"pending", "running"}
      BY <1>1, <3>5, MarkedPrevious
    <3> QED
      BY <2>2, <3>4, <3>5, <3>6
  <2> QED
    BY <2>1, <2>2
<1> HIDE DEF live
<1>6. /\ adopted \in Jobs(R) /\ adopted.status = job.status
      /\ adopted.reference = job.reference /\ adopted.steps = live
      /\ adopted.current = step
  BY <1>1, <1>5 DEF Jobs
<1> HIDE DEF adopted, next
<1>7. CASE job.status = "running"
  <2>1. /\ next \in Jobs(R) /\ next.status = adopted.status
        /\ next.reference = adopted.reference /\ next.steps = adopted.steps
        /\ next.current = adopted.current
    BY <1>2, <1>6, <1>7, Recalculated
  <2> QED
    BY <1>5, <1>6, <2>1 DEF next, table, step
<1> QED
  BY <1>2, <1>7 DEF next

\* A runner without measurements changes no step's state.
LEMMA MarkedIndeterminate ==
  ASSUME NEW R, NEW job \in Jobs(R)
  PROVE  LET next == MarkIndeterminate(job) IN
         /\ next \in Jobs(R)
         /\ next.status = job.status /\ next.reference = job.reference
         /\ next.current = job.current
         /\ \A i \in StepIds : next.steps[i].state = job.steps[i].state
<1> DEFINE row(i) == [job.steps[i] EXCEPT !.determinate = FALSE, !.percent = 0]
           marked == [i \in StepIds |-> row(i)]
<1>1. 0 \in Percents
  BY DEF Percents
<1>2. \A i \in StepIds : row(i) \in StepRecords /\ row(i).state = job.steps[i].state
  BY <1>1 DEF Jobs, Steps, StepRecords
<1>3. MarkIndeterminate(job) = [job EXCEPT !.steps = marked]
  BY DEF MarkIndeterminate
<1> HIDE DEF row
<1>4. marked \in Steps /\ \A i \in StepIds : marked[i].state = job.steps[i].state
  BY <1>2 DEF Steps
<1> HIDE DEF marked
<1> QED
  BY <1>3, <1>4 DEF Jobs

-----------------------------------------------------------------------------
(* Publication *)

\* A call that keeps the status, or is forced, leaves published what there is.
LEMMA EmittedFace ==
  ASSUME NEW job, NEW next, NEW force \in BOOLEAN, force \/ next.status = job.status
  PROVE  Emit(next, Face(job), force) = Face(next)
  BY DEF Emit, ShouldPublish, Face

================================================================================
