--------------------------- MODULE ProgressReporter ---------------------------
(***************************************************************************)
(* The live progress model of progress.py: one job as a sequence of        *)
(* weighted steps, and what each method of ProgressReporter makes of it.   *)
(* Every method changes the job under one lock, so a method is an operator *)
(* from the job before to the job after; who calls which, and when, is for *)
(* the modules that use this one.                                          *)
(*                                                                         *)
(* Abstracted data: times, byte counters, texts and boot events are left   *)
(* out; a step percentage that is None counts as 0, as completed_percent   *)
(* counts it.                                                              *)
(***************************************************************************)
EXTENDS Integers, Sequences

CONSTANT None  \* no reference

Step(weight, determinate) == [weight |-> weight, determinate |-> determinate]

RuntimeSteps == << Step(3, FALSE), Step(25, TRUE), Step(30, TRUE), Step(20, FALSE),
                   Step(12, FALSE), Step(5, FALSE), Step(5, FALSE) >>
StepIds == 1..Len(RuntimeSteps)
Prepare  == 1
Upload   == 2
Boot     == 4
Probe    == 5
Cleanup  == 6
Complete == 7
NoStep   == 0

StepStates  == {"pending", "running", "passed", "failed", "skipped", "inconclusive"}
JobStatuses == {"idle", "running", "passed", "failed", "aborted", "inconclusive", "not_started"}
Incomplete  == {"failed", "aborted", "inconclusive", "not_started"}
Percents    == 0..100
StepRecords == [state : StepStates, determinate : BOOLEAN, percent : Percents]
Steps       == [StepIds -> StepRecords]

\* A runner's step table is not None.
ASSUME NoneAssumption == None \notin Steps

Bigger(a, b)  == IF a > b THEN a ELSE b
Smaller(a, b) == IF a < b THEN a ELSE b

-----------------------------------------------------------------------------
FreshSteps == [k \in StepIds |-> [state       |-> "pending",
                                  determinate |-> RuntimeSteps[k].determinate,
                                  percent     |-> 0]]

Create == [status |-> "idle", current |-> NoStep, steps |-> FreshSteps,
           overall |-> 0, reference |-> None, source |-> "integration"]

CompletedPercent(k, step) ==
  CASE step.state \in {"passed", "skipped"} -> RuntimeSteps[k].weight
    [] step.state = "running" /\ step.determinate ->
         (RuntimeSteps[k].weight * step.percent) \div 100
    [] OTHER -> 0

Total(steps) ==
  LET sum[k \in 0..Len(RuntimeSteps)] ==
        IF k = 0 THEN 0 ELSE sum[k - 1] + CompletedPercent(k, steps[k])
  IN sum[Len(RuntimeSteps)]

Recalculate(job) ==
  [job EXCEPT !.overall = Bigger(@, Smaller(Total(job.steps), 100))]

-----------------------------------------------------------------------------
(* Lifecycle *)

Start(job, reference) ==
  [Create EXCEPT !.status = "running", !.reference = reference]

TerminalStepState(status) ==
  CASE status = "passed"       -> "passed"
    [] status = "inconclusive" -> "inconclusive"
    [] status = "not_started"  -> "pending"
    [] OTHER                   -> "failed"

\* The steps of a job that ends: open ones are closed, a test that never began
\* shows none, and a successful one passes what it did not report.
ClosedSteps(steps, status) ==
  [k \in StepIds |->
     LET step == steps[k] IN
     CASE status = "not_started" ->
            [step EXCEPT !.state = "pending", !.percent = 0]
       [] status = "passed" /\ step.state \in {"pending", "running"} ->
            [step EXCEPT !.state = "passed"]
       [] status # "not_started" /\ step.state = "running" ->
            [step EXCEPT !.state = TerminalStepState(status)]
       [] OTHER -> step]

Finish(job, reported) ==
  LET status == IF reported \in JobStatuses THEN reported ELSE "failed"
      closed == [job EXCEPT !.steps = ClosedSteps(@, status), !.status = status]
  IN CASE job.status # "running"   -> job
       [] status = "not_started"   -> [closed EXCEPT !.overall = 0, !.current = NoStep]
       [] status \in Incomplete \ {"not_started"} ->
                                      [closed EXCEPT !.overall = Smaller(@, 99)]
       [] OTHER                    -> Recalculate(closed)

Cancel(job) == IF job.status # "running" THEN job ELSE Finish(job, "aborted")

-----------------------------------------------------------------------------
(* Step transitions and measurements *)

PassedStep(step) ==
  [step EXCEPT !.state = "passed", !.percent = IF step.determinate THEN 100 ELSE 0]

\* The step that was running is passed, unless the new one follows a failure.
Promoted(job, k, promote) ==
  IF promote /\ job.current \notin {NoStep, k} /\ job.steps[job.current].state = "running"
  THEN [job.steps EXCEPT ![job.current] = PassedStep(@)]
  ELSE job.steps

BeginStep(job, k, determinate, promote) ==
  LET steps == Promoted(job, k, promote)
      again == steps[k].state \in {"passed", "failed", "skipped"}
  IN IF job.status # "running" THEN job
     ELSE Recalculate(
            [job EXCEPT !.current = k,
                        !.steps = [steps EXCEPT ![k] =
                          [state       |-> "running",
                           determinate |-> determinate,
                           percent     |-> IF again THEN 0 ELSE @.percent]]])

CompleteStep(job, k, state) ==
  IF job.status # "running" THEN job
  ELSE Recalculate(
         [job EXCEPT !.steps[k] =
            IF state = "passed" /\ @.determinate THEN PassedStep(@)
            ELSE [@ EXCEPT !.state = state]])

Update(job, k, percent) ==
  IF job.status # "running" \/ job.steps[k].state # "running" THEN job
  ELSE Recalculate([job EXCEPT !.steps[k].percent = Bigger(@, percent)])

-----------------------------------------------------------------------------
(* Adopting what a runner reports.  A report is a record                     *)
(*   [steps : a step table or None, step : a step or NoStep, percent, stage] *)
(* A runner that knows its steps sends the table and the step that runs; an  *)
(* older one only names its stage.                                           *)

\* Every step in front of the reported one has passed.
MarkPrevious(steps, k) ==
  [i \in StepIds |->
     IF i < k /\ steps[i].state \in {"pending", "running"}
     THEN PassedStep(steps[i])
     ELSE steps[i]]

\* A mutant: only the step that runs is adopted, what is behind it is taken as passed.
AdoptNoTable(steps, table) == steps

AdoptTable(steps, table) ==
  [i \in StepIds |-> [steps[i] EXCEPT !.state = table[i].state,
                                      !.percent = Bigger(@, table[i].percent)]]

AdoptStep(steps, k, reported) ==
  MarkPrevious([steps EXCEPT ![k] =
                  [state       |-> reported.state,
                   determinate |-> reported.determinate,
                   percent     |-> Bigger(@.percent, reported.percent)]], k)

AdoptStage(steps, k) ==
  MarkPrevious([steps EXCEPT ![k] =
                  [state |-> "running", determinate |-> FALSE, percent |-> 0]], k)

ApplyRunnerState(job, report) ==
  LET tabled == IF report.table = None THEN job.steps ELSE AdoptTable(job.steps, report.table)
      live   == IF report.table # None
                THEN IF report.step = NoStep THEN tabled
                     ELSE AdoptStep(tabled, report.step, report.table[report.step])
                ELSE IF report.step = NoStep THEN tabled
                     ELSE AdoptStage(tabled, report.step)
  IN IF job.status # "running" THEN job
     ELSE Recalculate([job EXCEPT !.source = "runner",
                                  !.steps = live,
                                  !.current = IF report.step = NoStep THEN @
                                              ELSE report.step])

MarkIndeterminate(job) ==
  [job EXCEPT !.steps = [k \in StepIds |->
                           [@[k] EXCEPT !.determinate = FALSE, !.percent = 0]]]

-----------------------------------------------------------------------------
(* Publication *)

\* What the entities and the panel draw of a job.
Face(job) == [status |-> job.status, current |-> job.current, overall |-> job.overall]

\* A change of nothing that is drawn is published once a second at most, and
\* draws nothing new; any other change is published at once.
ShouldPublish(job, shown) == job.current # shown.current \/ job.overall # shown.overall

\* A mutant: only a new step is worth publishing at once.
EmitNewStep(job, shown, force) ==
  IF force \/ job.current # shown.current THEN Face(job) ELSE shown

Emit(job, shown, force) == IF force \/ ShouldPublish(job, shown) THEN Face(job) ELSE shown
=============================================================================
