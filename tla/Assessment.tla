------------------------------ MODULE Assessment ------------------------------
(***************************************************************************)
(* The coordinator's snapshot: what the integration claims about the       *)
(* newest backup, from what the backup manager answers, the verdicts of    *)
(* the integrity checks, the proof of the runtime tests and what the user  *)
(* documents.  A refresh rebuilds the whole snapshot, or, when the manager *)
(* cannot be read, carries the previous one over with everything that ages *)
(* evaluated again.  Checks and tests run at the same time as refreshes    *)
(* and replace the verdict the next refresh uses.                          *)
(*                                                                         *)
(* External: the manager (a reading is one answer), the integrity pipeline *)
(* (VerificationPipeline), the runner (RuntimeTest), the history of the    *)
(* automatic backups (AutomaticHistory, a part of the reading here), the   *)
(* scheduling of checks (VerificationLifecycle) and the notifications      *)
(* (NotificationManager).  A refresh takes its answer and its verdict at   *)
(* two moments; the answer is any reading, so also one that is old when    *)
(* the verdict is read.                                                    *)
(***************************************************************************)
EXTENDS RecoveryRules

CONSTANTS IssuesEnabled,       \* the option repair_issues_enabled
          Readings,    \* what the manager and Home Assistant may answer
          Backups,     \* identifiers of the backups in the readings
          Domains,     \* integrations set up in Home Assistant
          Outcomes,    \* bound: the statuses a check may end with
          RestoreTests,        \* bound: the restore tests documented
          DependencyStatuses,  \* bound: the statuses given to a dependency
          Horizon,     \* bound: days
          CheckLimit,  \* bound: integrity checks
          EditLimit    \* bound: changes of the user's documents

ASSUME AssessmentAssumption ==
  /\ IssuesEnabled \in BOOLEAN
  /\ Outcomes \subseteq Passed \union Broken \union Doubted
  /\ RestoreTests \subseteq [result : {"successful", "failed"}, scope : {"full", "partial"}]
  /\ DependencyStatuses \subseteq {"unknown", "protected", "unprotected", "not_applicable"}
  /\ Horizon \in Nat /\ CheckLimit \in Nat /\ EditLimit \in Nat

\* An answer is a list: finite, and no two backups of it have one position.
ASSUME ReadingsAssumption ==
  \A reading \in Readings :
    /\ IsFiniteSet(reading.backups)
    /\ \A raw \in reading.backups : /\ raw.id \in Backups
                                    /\ raw.pos \in Int /\ raw.made \in Int
                                    /\ IsFiniteSet(DOMAIN raw.copies)
    /\ \A raw, other \in reading.backups : raw.pos = other.pos => raw = other
    /\ reading.history \in [rate : (0..100) \union {None}, failures : Nat, resolved : Nat]

VARIABLES clock,      \* the day
          data,       \* the coordinator's snapshot, None before the first refresh
          issues,     \* health repair issues shown
          startup,    \* "held" until startup_settled, then "settled" and, once a
                      \* snapshot was published after that, "reported" (history)
          integrity,  \* integrity_result
          checking,   \* the running check, or None
          progress,   \* _progress_record
          runtime,    \* the stored runtime test, or None
          restore,    \* the documented restore test, or None
          items,      \* recovery-preparedness items
          verdicts,   \* history: the last verdict about each backup
          proved,     \* history: what the runner ever proved
          checks,     \* integrity checks so far
          edits       \* changes of documents so far

vars == <<clock, data, issues, startup, integrity, checking, progress, runtime, restore,
          items, verdicts, proved, checks, edits>>

-----------------------------------------------------------------------------
NotChecked == [backup |-> None, status |-> "not_checked", sha |-> None,
               changed |-> FALSE, database |-> "not_checked"]

\* The content a backup has in its storage: as made, or altered since.
Checksums(backup) == {<<backup, "made">>, <<backup, "altered">>}

\* The checksum differs from the one of the previous verdict on this backup.
Differs(backup, sha, previous) ==
  /\ previous.backup = backup
  /\ previous.sha # None
  /\ previous.sha # sha

\* A verdict reached before a copy was downloaded carries no checksum.
Unread(backup) ==
  [backup : {backup}, status : {"unreadable", "internal_error", "aborted"} \intersect Outcomes,
   sha : {None}, changed : {FALSE}, database : {"not_checked"}]

\* What the check of the database adds to a verdict of this status.
DatabaseStatuses(status) ==
  CASE status \in Passed     -> IF DatabaseCheck THEN {"passed", "not_applicable"}
                                                ELSE {"not_checked"}
    [] status = "corrupt"    -> IF DatabaseCheck THEN {"not_checked", "failed"}
                                                ELSE {"not_checked"}
    [] OTHER                 -> {"not_checked"}

\* A verdict on a downloaded copy.  Its checksum counts as changed, which is a
\* warning, only if the previous verdict was on the copy of the same agent.
OfStatus(backup, status) ==
  [backup : {backup}, status : {status}, sha : Checksums(backup), changed : BOOLEAN,
   database : DatabaseStatuses(status)]

Downloaded(backup, previous) ==
  {result \in UNION {OfStatus(backup, status) : status \in Outcomes} :
     result.changed => Differs(backup, result.sha, previous) /\ result.status # "valid"}

\* The verdicts one check of a backup can end with.
VerdictsOn(backup, previous) == Unread(backup) \union Downloaded(backup, previous)

-----------------------------------------------------------------------------
(* assess_recovery_readiness *)

Running == IF checking = None THEN None ELSE checking.record.id

Assess(latest, result, monitored, stale) ==
  LET detected   == DetectedDependencies(Domains, latest)
      protected  == DependenciesProtected(items, detected, clock)
      table      == ReadinessChecks(latest, result, monitored, stale, protected)
      simulation == SimulationStatus(latest, result, Running)
      regression == Regression(latest, monitored)
      score      == ReadinessScore(latest, table)
      evidence   == EvidenceLevel(latest, SimulationPassed(simulation),
                                  RestorePassed(restore, clock),
                                  VerifiedFor(runtime, latest, result))
  IN [score           |-> score,
      status          |-> ReadinessStatus(score, evidence),
      recommendation  |-> Recommendation(latest, table, regression, simulation),
      simulation      |-> simulation,
      warnings        |-> PlanWarnings(simulation, restore, protected,
                                       ToConfirm(items, detected, clock),
                                       /\ latest # None
                                       /\ simulation # "running"
                                       /\ HasRun(latest, result)
                                       /\ result.status \in Passed, clock),
      contentChanged  |-> regression = TRUE,
      externalMissing |-> latest # None /\ table.independent_copy = FALSE,
      evidence        |-> evidence,
      risks           |-> OpenRisks(table, regression, items, detected, clock)]

\* The fields that _assessment_fields copies, and those the callers add.
WithRecovery(d, recovery) ==
  [d EXCEPT !.readiness       = recovery.score,
            !.readinessStatus = recovery.status,
            !.recommendation  = recovery.recommendation,
            !.simulation      = recovery.simulation,
            !.planWarnings    = recovery.warnings,
            !.contentChanged  = recovery.contentChanged,
            !.externalMissing = recovery.externalMissing]

WithHealth(d, active, age) ==
  LET locations == IF d.latest = None THEN 0 ELSE Cardinality(DOMAIN d.latest.copies)
      score     == HealthScore(active, d.history, age, locations)
  IN [d EXCEPT !.active = active,
               !.flags  = active \ {"backup_integrity_failed"},
               !.status = StatusOf(active),
               !.score  = score,
               !.rating = Rating(score)]

\* What _async_build_snapshot returns, before the judgements are filled in.
Assembled(monitored, latest, summaries, history, recovery) ==
  [monitored |-> monitored, latest |-> latest, summaries |-> summaries,
   history |-> history, integrity |-> integrity,
   active |-> {}, flags |-> {}, status |-> "ok", score |-> 0, rating |-> "critical",
   readiness |-> 0, readinessStatus |-> "", recommendation |-> "",
   simulation |-> "", planWarnings |-> {}, contentChanged |-> FALSE, externalMissing |-> FALSE,
   evidence |-> recovery.evidence, risks |-> recovery.risks]

\* _async_build_snapshot
Snapshot(reading) ==
  LET monitored == Monitored(Normalize(reading.backups))
      latest    == Newest(monitored)
      fresh     == Freshness(monitored, clock)
      summaries == AgentSummaries(monitored, reading.errors, clock)
      active    == ProblemFlags(monitored, latest, fresh, reading.native, summaries,
                                integrity, clock)
      recovery  == Assess(latest, integrity, monitored, fresh.stale)
      base      == Assembled(monitored, latest, summaries, reading.history, recovery)
  IN WithRecovery(WithHealth(base, active, fresh.age), recovery)

\* A mutant: the problem without a field of its own is not carried over.
FlagsOf(d) == d.flags \ {"backup_stale", "automatic_backup_overdue", "required_location_missing"}

\* What an outage carries over: the flags of the previous snapshot but those
\* that are evaluated again, and the failed verdict, which is no flag of it.
CarriedFlags(d) ==
  (d.flags \ {"backup_stale", "automatic_backup_overdue", "required_location_missing"})
  \union (d.active \intersect {"backup_integrity_failed"})

\* _manager_error_snapshot: the previous snapshot, with what depends on the
\* time evaluated again.
Outage(d) ==
  LET fresh     == Freshness(d.monitored, clock)
      summaries == [a \in Agents |-> AgeSummary(d.summaries[a], clock)]
      active    == CarriedFlags(d)
                   \union {"manager_unavailable"}
                   \union {p \in {"backup_stale"} : fresh.stale}
                   \union {p \in {"automatic_backup_overdue"} : fresh.overdue}
                   \union {p \in {"required_location_missing"} :
                             RequiredLocationMissing(d.latest, summaries)}
      recovery  == Assess(d.latest, d.integrity, d.monitored, fresh.stale)
  IN WithRecovery(WithHealth([d EXCEPT !.summaries = summaries], active, fresh.age), recovery)

\* A mutant: the view is published together with the verdict it is drawn from,
\* under the problems of the last refresh.
FoldVerdict(d, result, running, record) ==
  [d EXCEPT !.simulation = SimulationStatus(record, result, None), !.integrity = result]

\* _refresh_progress_data, with what the view is drawn from: a running job owns
\* it, otherwise the newest backup of the snapshot does.
FoldProgress(d, result, running, record) ==
  LET shown == CASE running # None -> running
                 [] OTHER -> IF d.latest # None THEN d.latest ELSE record
  IN [d EXCEPT !.simulation =
        SimulationStatus(shown, result, IF running = None THEN None ELSE running.id)]

-----------------------------------------------------------------------------
Init ==
  /\ clock = 0
  /\ data = None
  /\ issues = {}
  /\ startup \in {"held", "settled"}
  /\ integrity = NotChecked
  /\ checking = None
  /\ progress = None
  /\ runtime = None
  /\ restore = None
  /\ items = [d \in Dependencies |-> Unreviewed]
  /\ verdicts = [b \in Backups |-> NotChecked]
  /\ proved = {}
  /\ checks = 0
  /\ edits = 0

\* Bound: the start phase is over before the day ends (STARTUP_SETTLE_SECONDS).
Tick ==
  /\ clock < Horizon
  /\ startup # "held"
  /\ clock' = clock + 1
  /\ UNCHANGED <<data, issues, startup, integrity, checking, progress, runtime, restore,
                 items, verdicts, proved, checks, edits>>

\* The listener _sync_repair_issues runs with every new snapshot.  During the
\* start of Home Assistant it does nothing, and with the option off it removes.
Publish(d) ==
  /\ data' = d
  /\ issues' = IF startup = "held" THEN issues
               ELSE IF IssuesEnabled THEN IssuesOf(d) ELSE {}
  /\ startup' = IF startup = "held" THEN "held" ELSE "reported"

\* _async_startup_settled: the hold ends.  It asks for a refresh, a step of its
\* own; until a snapshot is published the issues stay as they are.
Settle ==
  /\ startup = "held"
  /\ startup' = "settled"
  /\ UNCHANGED <<clock, data, issues, integrity, checking, progress, runtime, restore,
                 items, verdicts, proved, checks, edits>>

Refresh(reading) ==
  /\ \A raw \in reading.backups : raw.made <= clock
  /\ Publish(Snapshot(reading))
  /\ UNCHANGED <<clock, integrity, checking, progress, runtime, restore,
                 items, verdicts, proved, checks, edits>>

\* _async_manager_error_result; without a snapshot the set-up fails instead.
ManagerFails ==
  /\ data # None
  /\ Publish(Outage(data))
  /\ UNCHANGED <<clock, integrity, checking, progress, runtime, restore,
                 items, verdicts, proved, checks, edits>>

-----------------------------------------------------------------------------
(* Checks *)

StartCheck ==
  /\ checks < CheckLimit
  /\ checking = None
  /\ data # None
  /\ data.latest # None
  /\ checking' = [record |-> data.latest, previous |-> integrity,
                  verified |-> None, tested |-> FALSE]
  /\ progress' = data.latest
  /\ checks' = checks + 1
  /\ Publish(FoldProgress(data, integrity, data.latest, data.latest))
  /\ UNCHANGED <<clock, integrity, runtime, restore, items, verdicts, proved, edits>>

\* _async_run_runtime_test: the verdict counts before the check is over, and
\* the runner's answer is stored for the backup and the checksum it was given.
StartRuntimeTest ==
  /\ checking # None
  /\ checking.verified = None
  /\ \E result \in VerdictsOn(checking.record.id, checking.previous) :
       /\ result.status \in Passed
       /\ checking' = [checking EXCEPT !.verified = result]
       /\ integrity' = result
       /\ verdicts' = [verdicts EXCEPT ![result.backup] = result]
       /\ progress' = checking.record
       /\ Publish(FoldProgress(data, result, checking.record, checking.record))
  /\ UNCHANGED <<clock, runtime, restore, items, proved, checks, edits>>

EndRuntimeTest ==
  /\ checking # None
  /\ checking.verified # None
  /\ ~checking.tested
  /\ checking' = [checking EXCEPT !.tested = TRUE]
  /\ \E passed \in BOOLEAN :
       /\ runtime' = [backup |-> checking.record.id, sha |-> checking.verified.sha,
                      passed |-> passed]
       /\ proved' = IF passed THEN proved \union {checking.verified.sha} ELSE proved
       /\ Publish(FoldProgress(data, integrity, checking.record, checking.record))
  /\ UNCHANGED <<clock, integrity, progress, restore, items, verdicts, checks, edits>>

\* _publish_integrity_result: the verdict the runtime test started from, or any
\* when there was none; an exception after it makes an internal error of it.
FinishCheck ==
  /\ checking # None
  /\ checking.verified # None => checking.tested
  /\ \E result \in VerdictsOn(checking.record.id, checking.previous) :
       /\ checking.verified # None =>
            \/ result = checking.verified
            \/ result.status = "internal_error" /\ result.sha = None
       /\ integrity' = result
       /\ verdicts' = [verdicts EXCEPT ![result.backup] = result]
       /\ progress' = checking.record
       /\ Publish(FoldProgress(data, result, None, checking.record))
  /\ checking' = None
  /\ UNCHANGED <<clock, runtime, restore, items, proved, checks, edits>>

-----------------------------------------------------------------------------
(* The user's documents.  Each service asks for a refresh, a step of its own. *)

DocumentRestore ==
  /\ edits < EditLimit
  /\ data # None
  /\ data.latest # None
  /\ \E test \in RestoreTests :
       restore' = [at |-> clock, backup |-> data.latest.id,
                   result |-> test.result, scope |-> test.scope]
  /\ edits' = edits + 1
  /\ UNCHANGED <<clock, data, issues, startup, integrity, checking, progress, runtime,
                 items, verdicts, proved, checks>>

SetItem ==
  /\ edits < EditLimit
  /\ data # None
  /\ \E key \in Dependencies, status \in DependencyStatuses :
       items' = [items EXCEPT ![key] = [status |-> status, at |-> clock]]
  /\ edits' = edits + 1
  /\ UNCHANGED <<clock, data, issues, startup, integrity, checking, progress, runtime, restore,
                 verdicts, proved, checks>>

Next ==
  \/ Tick
  \/ Settle
  \/ \E reading \in Readings : Refresh(reading)
  \/ ManagerFails
  \/ StartCheck
  \/ StartRuntimeTest
  \/ EndRuntimeTest
  \/ FinishCheck
  \/ DocumentRestore
  \/ SetItem

Spec == Init /\ [][Next]_vars

-----------------------------------------------------------------------------
(* Properties *)

\* The snapshot claims more of the newest backup than the last verdict about
\* that very backup, or the runner, ever showed.
Overclaims ==
  /\ data # None
  /\ data.latest # None
  /\ LET verdict == verdicts[data.latest.id]
     IN \/ data.evidence = "structurally_verified" /\ verdict.status \notin Passed
        \/ data.evidence = "runtime_ready" /\ verdict.sha \notin proved
        \/ data.readinessStatus = "ready" /\ verdict.status \notin Passed

\* A refresh claims nothing about the newest backup that was not shown for it:
\* "structurally verified" and "ready" rest on a check of it that passed,
\* "runtime ready" on a checksum the runner proved and the last check still
\* read, although the one verdict in memory may meanwhile be about another
\* backup (simulate_restore, verified_for, assess_recovery_readiness).
EvidenceIsReal ==
  [][ Overclaims' => ~ \E reading \in Readings : Refresh(reading) ]_vars

\* Losing the backup manager never makes the installation look better: as long
\* as it cannot be read, every problem shown stays shown and the score does not
\* rise (_manager_error_snapshot).
OutageHidesNothing ==
  [][ data # None /\ "manager_unavailable" \in data'.active =>
        /\ data.active \subseteq data'.active
        /\ data'.score <= data.score ]_vars

\* Once a snapshot was published after the start phase, the repair issues are
\* the active problems, although they are computed from other fields than the
\* list of problems is; an overdue automatic backup is left to the issue that
\* there is no backup at all (_issue_definitions).  Until then, and with the
\* option off, there are none, whatever is wrong (_sync_repair_issues).
IssuesMatchProblems ==
  issues =
    IF startup = "reported" /\ IssuesEnabled
    THEN {p \in data.active : p = "automatic_backup_overdue" => "no_backup" \notin data.active}
    ELSE {}
=============================================================================
