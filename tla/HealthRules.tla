----------------------------- MODULE HealthRules ------------------------------
(***************************************************************************)
(* The problems of one snapshot, its status and its health score           *)
(* (problem_state.py, analytics.py), and the repair issues shown for it    *)
(* (repairs.py).  Recommendations, severities and texts are left out.      *)
(***************************************************************************)
EXTENDS InventoryRules

Problem(deduction, priority, status) ==
  [deduction |-> deduction, priority |-> priority, status |-> status]

Problems ==
  [backup_integrity_failed    |-> Problem(60,   10, "backup_integrity_failed"),
   backup_checksum_changed    |-> Problem(40,   20, "backup_checksum_changed"),
   backup_integrity_warning   |-> Problem(11,   30, "backup_integrity_warning"),
   no_backup                  |-> Problem(100,  40, "no_backups"),
   manager_unavailable        |-> Problem(50,   50, "manager_unavailable"),
   storage_error              |-> Problem(20,   60, "storage_error"),
   required_location_missing  |-> Problem(10,   65, "storage_error"),
   latest_backup_incomplete   |-> Problem(25,   70, "backup_incomplete"),
   automatic_backup_failed    |-> Problem(20,   80, "automatic_backup_failed"),
   automatic_backup_overdue   |-> Problem(15,   90, "automatic_backup_overdue"),
   backup_stale               |-> Problem(25,  100, "backup_stale"),
   backup_not_redundant       |-> Problem(15,  110, "backup_not_redundant"),
   backup_size_suspicious     |-> Problem(15,  120, "backup_size_suspicious"),
   automatic_schedule_missing |-> Problem(10,  130, "schedule_missing"),
   automatic_schedule_overdue |-> Problem(10,  140, "schedule_overdue")]

\* evaluate_problem_state: the most urgent problem gives the status.
StatusOf(active) ==
  IF active = {} THEN "ok"
  ELSE Problems[CHOOSE p \in active :
                  \A q \in active : Problems[p].priority <= Problems[q].priority].status

-----------------------------------------------------------------------------
(* The problems of a successful refresh *)

Passed  == {"valid", "valid_with_warnings"}
Broken  == {"corrupt", "unreadable", "internal_error"}
Doubted == {"valid_with_warnings", "aborted", "password_required"}

\* The three problems a verdict stands for.
VerdictKeys == {"backup_integrity_failed", "backup_checksum_changed", "backup_integrity_warning"}

VerdictProblems(result) ==
  {p \in VerdictKeys :
     \/ p = "backup_integrity_failed"  /\ result.status \in Broken
     \/ p = "backup_checksum_changed"  /\ result.changed
     \/ p = "backup_integrity_warning" /\ result.status \in Doubted}

\* _evaluate_integrity: a verdict about another backup raises no problem.
IntegrityProblems(latest, result) ==
  IF latest # None /\ result.backup = latest.id THEN VerdictProblems(result) ELSE {}

ProblemFlags(monitored, latest, fresh, native, summaries, result, now) ==
  IntegrityProblems(latest, result) \union
  {p \in DOMAIN Problems :
     \/ p = "no_backup"                  /\ monitored = {}
     \/ p = "backup_stale"               /\ fresh.stale
     \/ p = "automatic_backup_overdue"   /\ fresh.overdue
     \/ p = "automatic_backup_failed"    /\ AutomaticBackupFailed(native, now)
     \/ p = "automatic_schedule_missing" /\ native.next = None
     \/ p = "automatic_schedule_overdue" /\ native.next # None /\ native.next < now
     \/ p = "storage_error"              /\ \E a \in Agents : summaries[a].error
     \/ p = "backup_size_suspicious"     /\ SizeSuspicious(latest, monitored)
     \/ p = "latest_backup_incomplete"   /\ latest # None /\ latest.incomplete
     \/ p = "backup_not_redundant"       /\ NotRedundant(latest)
     \/ p = "required_location_missing"  /\ RequiredLocationMissing(latest, summaries)}

-----------------------------------------------------------------------------
(* The health score *)

StaleDeduction(age) ==
  CASE age >= 3 * MaxAge     -> 35
    [] 2 * age >= 3 * MaxAge /\ age < 3 * MaxAge -> 25
    [] OTHER                 -> 20

RedundancyDeduction(locations) ==
  Min({25, 10 + 5 * Max({0, MinLocations - locations})})

Deduction(problem, age, locations) ==
  CASE problem = "backup_stale"         -> StaleDeduction(age)
    [] problem = "backup_not_redundant" -> RedundancyDeduction(locations)
    [] OTHER                            -> Problems[problem].deduction

\* _history_deductions: the success rate counts from three attempts on, and a
\* streak is never longer than the attempts it is made of.
RateDeduction(history) ==
  CASE history.resolved < 3 \/ history.rate = None -> 0
    [] OTHER -> CASE history.rate < 60 -> 20
                  [] history.rate >= 60 /\ history.rate < 80 -> 12
                  [] history.rate >= 80 /\ history.rate < 95 -> 5
                  [] OTHER -> 0

StreakDeduction(history) ==
  Min({15, 5 * Min({history.failures, history.resolved})})

DeductionGroups ==
  {{"no_backup", "manager_unavailable"},
   VerdictKeys,
   {"latest_backup_incomplete", "backup_size_suspicious"},
   {"backup_stale", "automatic_backup_overdue"},
   {"storage_error", "required_location_missing", "backup_not_redundant"}}

AutomationGroup ==
  {"automatic_backup_failed", "automatic_schedule_missing", "automatic_schedule_overdue"}

\* Of problems with one cause only the heaviest counts.
Heaviest(group, active, age, locations) ==
  Max({0} \union {Deduction(p, age, locations) : p \in group \intersect active})

HealthScore(active, history, age, locations) ==
  IF "no_backup" \in active THEN 0
  ELSE LET grouped    == MapThenSumSet(LAMBDA g : Heaviest(g, active, age, locations),
                                       DeductionGroups)
           automation == Max({Heaviest(AutomationGroup, active, age, locations),
                              RateDeduction(history), StreakDeduction(history)})
       IN Max({0, 100 - grouped - automation})

Rating(score) ==
  CASE score >= 90 -> "excellent"
    [] score < 90 /\ score >= 75 -> "good"
    [] score < 75 /\ score >= 50 -> "warning"
    [] OTHER -> "critical"

-----------------------------------------------------------------------------
(* Repair issues: computed from the snapshot's own fields and its verdict, *)
(* not from its list of active problems.                                   *)

IssuesOf(data) ==
  {p \in data.flags \ VerdictKeys :
     p = "automatic_backup_overdue" => "no_backup" \notin data.flags}
  \union IntegrityProblems(data.latest, data.integrity)
=============================================================================
