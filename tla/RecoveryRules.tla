---------------------------- MODULE RecoveryRules -----------------------------
(***************************************************************************)
(* How fit for recovery the newest backup is: content comparison and       *)
(* storage resilience (recovery_inventory.py), external dependencies       *)
(* (recovery_preparedness.py), documented restore tests                    *)
(* (recovery_restore.py), the simulated restore (recovery_simulation.py),  *)
(* the evidence level (recovery_evidence.py) and the readiness score and   *)
(* status drawn from them (recovery.py).                                   *)
(*                                                                         *)
(* A check is TRUE, FALSE or None (unknown).  What storage class a name    *)
(* stands for is given, not computed; the exported plan is reduced to the  *)
(* warnings it lists.                                                      *)
(***************************************************************************)
EXTENDS HealthRules

CONSTANTS ClassOf,          \* storage agent -> storage class
          DatabaseCheck,    \* database_integrity_check
          Dependencies,     \* the dependencies asked about
          ReviewDays,       \* review_interval_days
          RestoreValidity   \* validity_days of a documented restore test

StorageClasses == {"local_device", "direct_attached", "local_network", "remote", "cloud", "unknown"}

ASSUME RecoveryAssumption ==
  /\ ClassOf \in [Agents -> StorageClasses]
  /\ DatabaseCheck \in BOOLEAN
  /\ Dependencies \subseteq {"external_database", "mqtt", "network_storage"}
  /\ ReviewDays \in Nat
  /\ RestoreValidity \in Nat

OffDevice == {"local_network", "remote", "cloud"}

-----------------------------------------------------------------------------
(* Content *)

\* The newest older complete backup is what the newest one is compared with.
PreviousComplete(latest, monitored) ==
  Newest({r \in monitored : r.id # latest.id /\ r.made < latest.made /\ ~r.incomplete})

\* compare_backup_content: material_regression.
Regression(latest, monitored) ==
  LET baseline == IF latest = None THEN None ELSE PreviousComplete(latest, monitored)
  IN IF baseline = None THEN None
     ELSE \/ latest.incomplete
          \/ baseline.ha = TRUE /\ latest.ha # TRUE
          \/ baseline.db = TRUE /\ latest.db # TRUE
          \/ baseline.parts \ latest.parts # {}

-----------------------------------------------------------------------------
(* Storage resilience.  Every known class is a failure domain of its own.  *)

Classes(latest) == {ClassOf[a] : a \in DOMAIN latest.copies}

MultipleDomains(latest) ==
  CASE Cardinality(DOMAIN latest.copies) < 2             -> FALSE
    [] Cardinality(Classes(latest) \ {"unknown"}) >= 2   -> TRUE
    [] OTHER -> IF "unknown" \in Classes(latest) THEN None ELSE FALSE

IndependentCopy(latest) ==
  IF MultipleDomains(latest) = TRUE THEN Classes(latest) \intersect OffDevice # {}
  ELSE MultipleDomains(latest)

-----------------------------------------------------------------------------
(* External dependencies: an item is [status, at], "at" the day it was     *)
(* confirmed.  The checklist beside them has no part in any claim and is   *)
(* left out.                                                               *)

Unreviewed == [status |-> "unknown", at |-> 0]

EffectiveStatus(item, now) ==
  IF item.status # "unknown" /\ now - item.at > ReviewDays THEN "unknown" ELSE item.status

DetectedDependencies(domains, latest) ==
  {d \in Dependencies :
     \/ d = "mqtt"              /\ d \in domains
     \/ d = "external_database" /\ latest # None /\ latest.db = FALSE
     \/ d = "network_storage"   /\ latest # None /\ Classes(latest) \intersect OffDevice # {}}

\* The dependencies that were detected or given a status.
Relevant(items, detected, now) ==
  {EffectiveStatus(items[d], now) :
     d \in {e \in Dependencies : e \in detected \/ EffectiveStatus(items[e], now) # "unknown"}}

DependenciesProtected(items, detected, now) ==
  LET relevant == Relevant(items, detected, now)
  IN CASE relevant = {} -> None
       [] "unprotected" \in relevant -> FALSE
       [] OTHER -> IF "unknown" \in relevant THEN None ELSE TRUE

ToConfirm(items, detected, now) ==
  {d \in detected : EffectiveStatus(items[d], now) = "unknown"}

-----------------------------------------------------------------------------
(* A documented restore test counts while it is valid, whichever backup it *)
(* was made with.                                                          *)

RestorePassed(restore, now) ==
  IF restore = None THEN None
  ELSE /\ restore.result = "successful"
       /\ restore.scope = "full"
       /\ now - restore.at <= RestoreValidity

-----------------------------------------------------------------------------
(* The simulated restore.  running is the backup a check is running for,   *)
(* or None.                                                                *)

\* A mutant: any verdict counts, also one about another backup.
HasAnyRun(latest, result) == result.status # "not_checked"

HasRun(latest, result) == result.status # "not_checked" /\ result.backup = latest.id

Blocking(latest, result) ==
  \/ latest.incomplete
  \/ latest.ha = FALSE
  \/ result.status \notin Passed
  \/ DatabaseCheck /\ result.database # "passed"
  \/ DOMAIN latest.copies = {}

SimulationStatus(latest, result, running) ==
  CASE latest = None -> "failed"
    [] latest # None /\ running = latest.id -> "running"
    [] OTHER ->
       CASE ~HasRun(latest, result)               -> "not_run"
         [] HasRun(latest, result) /\ result.status = "password_required" -> "password_required"
         [] HasRun(latest, result) /\ result.status = "aborted"           -> "aborted"
         [] HasRun(latest, result) /\ result.status = "internal_error"    -> "inconclusive"
         [] OTHER -> IF Blocking(latest, result) THEN "failed"
                     ELSE IF \/ latest.ha = None
                             \/ latest.db = None
                             \/ result.status = "valid_with_warnings"
                          THEN "warning" ELSE "passed"

SimulationPassed(status) ==
  CASE status \in {"passed", "warning"} -> TRUE
    [] status \in {"failed", "aborted", "password_required"} -> FALSE
    [] OTHER -> None

-----------------------------------------------------------------------------
(* Checks, score and evidence *)

Weights ==
  [backup_current |-> 8, backup_complete |-> 10, homeassistant_included |-> 8,
   database_included |-> 4, integrity_verified |-> 16, database_verified |-> 4,
   independent_copy |-> 8, multiple_failure_domains |-> 4, copy_sizes_consistent |-> 3,
   content_stable |-> 4, external_dependencies_protected |-> 5]

\* recovery.py _checks, the part of them the score is made of.
ReadinessChecks(latest, result, monitored, stale, protected) ==
  IF latest = None
  THEN [c \in DOMAIN Weights |-> IF c = "external_dependencies_protected" THEN protected ELSE None]
  ELSE
  LET verified   == result.backup = latest.id /\ result.status \in Passed
      regression == Regression(latest, monitored)
  IN [backup_current         |-> ~stale,
      backup_complete        |-> ~latest.incomplete,
      homeassistant_included |-> latest.ha,
      database_included      |-> latest.db,
      integrity_verified     |-> verified,
      database_verified      |-> IF DatabaseCheck THEN verified /\ result.database = "passed"
                                 ELSE None,
      independent_copy       |-> IndependentCopy(latest),
      multiple_failure_domains |-> MultipleDomains(latest),
      copy_sizes_consistent  |-> IF Cardinality(DOMAIN latest.copies) < 2 THEN None
                                 ELSE ~latest.mismatch,
      content_stable         |-> IF latest.incomplete \/ regression = None THEN None
                                 ELSE ~regression,
      external_dependencies_protected |-> protected]

\* Not knowing one of these costs half of what knowing the worst does.
Uncertain == {"homeassistant_included", "database_included",
              "independent_copy", "multiple_failure_domains"}

CheckDeduction(check, value) ==
  CASE value = FALSE -> Weights[check]
    [] value = None /\ check \in Uncertain -> Weights[check] \div 2
    [] OTHER -> 0

ReadinessScore(latest, checks) ==
  IF latest = None THEN 0
  ELSE 100 - MapThenSumSet(LAMBDA c : CheckDeduction(c, checks[c]), DOMAIN Weights)

\* The proof of a runtime test is about one backup and one checksum.
VerifiedFor(runtime, latest, result) ==
  /\ runtime # None
  /\ runtime.passed
  /\ latest # None
  /\ runtime.backup = latest.id
  /\ result.sha # None
  /\ runtime.sha = result.sha

EvidenceLevel(latest, structural, external, runtimeVerified) ==
  CASE latest = None -> "not_recoverable"
    [] latest # None /\ (latest.incomplete \/ structural = FALSE) -> "limited"
    [] OTHER -> CASE external = TRUE -> "fully_tested"
                  [] external # TRUE /\ runtimeVerified -> "runtime_ready"
                  [] OTHER -> IF structural = TRUE THEN "structurally_verified"
                              ELSE "monitored"

ReadinessStatus(score, evidence) ==
  CASE evidence = "not_recoverable" \/ score < 55 -> "insufficient"
    [] /\ score >= 85
       /\ evidence \in {"structurally_verified", "runtime_ready", "fully_tested"} -> "ready"
    [] OTHER -> "limited"

OpenRisks(checks, regression, items, detected, now) ==
  {risk \in {"backup_stale", "independent_copy_missing", "backup_content_regression",
             "external_dependency_unprotected", "external_dependency_confirmation_required"} :
     \/ risk = "backup_stale"              /\ checks.backup_current = FALSE
     \/ risk = "independent_copy_missing"  /\ checks.independent_copy = FALSE
     \/ risk = "backup_content_regression" /\ regression = TRUE
     \/ /\ risk = "external_dependency_unprotected"
        /\ "unprotected" \in Relevant(items, detected, now)
     \/ /\ risk = "external_dependency_confirmation_required"
        /\ ToConfirm(items, detected, now) # {}}

\* The one step advised, the most important first.
Recommendation(latest, checks, regression, simulation) ==
  CASE latest = None -> "create_complete_backup"
    [] latest # None /\ latest.incomplete -> "create_complete_backup"
    [] OTHER ->
       IF regression = TRUE THEN "review_backup_contents"
       ELSE IF ~checks.integrity_verified THEN "verify_latest_backup"
       ELSE IF checks.independent_copy # TRUE THEN "create_external_copy"
       ELSE IF DatabaseCheck /\ checks.database_verified # TRUE THEN "enable_database_check"
       ELSE IF SimulationPassed(simulation) # TRUE THEN "run_restore_simulation"
       ELSE IF checks.external_dependencies_protected = FALSE THEN "protect_external_dependencies"
       ELSE "none"

\* What the exported recovery plan warns of.
PlanWarnings(simulation, restore, protected, unconfirmed, verified, now) ==
  {w \in {"simulation", "restore_test", "dependencies", "integrity"} :
     \/ w = "simulation"   /\ SimulationPassed(simulation) # TRUE
     \/ w = "restore_test" /\ restore # None /\ RestorePassed(restore, now) # TRUE
     \/ w = "dependencies" /\ (protected = FALSE \/ unconfirmed # {})
     \/ w = "integrity"    /\ ~verified}
=============================================================================
