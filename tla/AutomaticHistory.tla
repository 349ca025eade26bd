--------------------------- MODULE AutomaticHistory ---------------------------
(***************************************************************************)
(* The history of automatic backups (history.py): what it concludes about  *)
(* every attempt from the two timestamps and the progress flag that native *)
(* Home Assistant shows at each refresh, and the metrics it publishes.     *)
(*                                                                         *)
(* async_observe runs without an await once the store is loaded, so one    *)
(* refresh is one step.  The native backup manager is external: it shows   *)
(* when the last attempt began and when the last success completed, never  *)
(* which attempt a success belongs to.                                     *)
(*                                                                         *)
(* Abstracted data: time is counted in ticks and no two attempts begin in  *)
(* the same tick, so the sorted list of attempts is a table over the       *)
(* ticks; 0 stands for a timestamp that is None.                           *)
(***************************************************************************)
EXTENDS Naturals, FiniteSets, FiniteSetsExt

CONSTANTS MaxTime,    \* bound: the last tick
          Grace,      \* _FAILURE_GRACE_PERIOD
          Tolerance,  \* _SUCCESS_MATCH_TOLERANCE
          Retention,  \* _HISTORY_RETENTION_DAYS
          Window      \* the analysis window of the metrics

ASSUME TimeAssumption ==
  {MaxTime, Grace, Tolerance, Retention, Window} \subseteq Nat /\ MaxTime > 0

Times  == 1..MaxTime
Status == {"absent", "pending", "success", "failed"}
Open   == {"pending", "failed"}   \* what a success may still claim

VARIABLES now,      \* the clock
          attempt,  \* native last_attempted_automatic_backup
          success,  \* native last_completed_automatic_backup
          truth,    \* history: what became of each native attempt
          near,     \* history: attempts begun within Tolerance of a success
          status,   \* _attempts
          disk,     \* what the store file holds
          saveDue,  \* async_delay_save is armed
          metrics   \* the metrics of the last refresh

native == <<attempt, success, truth, near>>
vars   == <<now, native, status, disk, saveDue, metrics>>

-----------------------------------------------------------------------------
(* The steps of async_observe, each on a table of attempts                 *)

Recorded(table, at) ==
  IF at # 0 /\ table[at] = "absent" THEN [table EXCEPT ![at] = "pending"] ELSE table

Candidates(table, at) == {t \in Times : table[t] \in Open /\ t <= at + Tolerance}

Matched(table, at) ==
  IF at = 0 \/ Candidates(table, at) = {} THEN table
  ELSE [table EXCEPT ![Max(Candidates(table, at))] = "success"]

Expired(table, t) ==
  \/ \E later \in Times : later > t /\ table[later] # "absent"
  \/ now - t > Grace

\* Mutant: an attempt in progress is given up like any other.
ResolvedInProgress(table, inProgress) ==
  [t \in Times |-> IF table[t] = "pending" /\ Expired(table, t) THEN "failed" ELSE table[t]]

Resolved(table, inProgress) ==
  [t \in Times |-> IF table[t] = "pending" /\ ~inProgress /\ Expired(table, t)
                   THEN "failed" ELSE table[t]]

Retained(table) ==
  [t \in Times |-> IF t + Retention < now THEN "absent" ELSE table[t]]

Observed(inProgress) ==
  Retained(Resolved(Matched(Recorded(status, attempt), success), inProgress))

-----------------------------------------------------------------------------
(* metrics: counts within the window, and the failures since a success     *)

\* Mutant: an attempt that is still open counts as a failure.
StreakWithPending(table) ==
  {t \in Times : /\ table[t] \in Open
                 /\ \A later \in Times : later > t => table[later] # "success"}

Streak(table) ==
  {t \in Times : /\ table[t] = "failed"
                 /\ \A later \in Times : later > t => table[later] # "success"}

\* The rate in whole percent; 0 also stands for None.
Rate(successes, failures) ==
  IF successes + failures = 0 THEN 0 ELSE (successes * 100) \div (successes + failures)

\* Mutant: the successes are not limited to the window.
MetricsOfWholeHistory(table) ==
  LET inWindow  == {t \in Times : t + Window >= now}
      successes == Cardinality({t \in Times : table[t] = "success"})
      resolved  == Cardinality({t \in inWindow : table[t] \in {"success", "failed"}})
  IN  [rate |-> Rate(successes, resolved - successes), streak |-> Streak(table)]

MetricsOf(table) ==
  LET inWindow  == {t \in Times : t + Window >= now}
      successes == Cardinality({t \in inWindow : table[t] = "success"})
      failures  == Cardinality({t \in inWindow : table[t] = "failed"})
  IN  [rate |-> Rate(successes, failures), streak |-> Streak(table)]

-----------------------------------------------------------------------------
Nothing == [t \in Times |-> "absent"]

Init ==
  /\ now = 1
  /\ attempt = 0 /\ success = 0
  /\ truth = [t \in Times |-> "none"]
  /\ near = {}
  /\ status = Nothing /\ disk = Nothing
  /\ saveDue = FALSE
  /\ metrics = [rate |-> 0, streak |-> {}]

Running == attempt # 0 /\ truth[attempt] = "running"

Tick ==
  /\ now < MaxTime
  /\ now' = now + 1
  /\ UNCHANGED <<native, status, disk, saveDue, metrics>>

\* Native automatic backups do not overlap.  One may begin right after a success,
\* so soon that _match_success takes it for the one that succeeded.
AttemptBegins ==
  /\ ~Running
  /\ now > attempt
  /\ near' = IF success # 0 /\ now <= success + Tolerance THEN near \union {now} ELSE near
  /\ attempt' = now
  /\ truth' = [truth EXCEPT ![now] = "running"]
  /\ UNCHANGED <<now, success, status, disk, saveDue, metrics>>

AttemptSucceeds ==
  /\ Running
  /\ success' = now
  /\ truth' = [truth EXCEPT ![attempt] = "success"]
  /\ UNCHANGED <<now, attempt, near, status, disk, saveDue, metrics>>

AttemptFails ==
  /\ Running
  /\ truth' = [truth EXCEPT ![attempt] = "failed"]
  /\ UNCHANGED <<now, attempt, success, near, status, disk, saveDue, metrics>>

\* One of the steps changed the table, if only to change it back: an attempt
\* past its retention is recorded and dropped again at every refresh.
SaveWorthy(inProgress) ==
  LET recorded == Recorded(status, attempt)
      matched  == Matched(recorded, success)
      resolved == Resolved(matched, inProgress)
  IN  \/ recorded # status \/ matched # recorded
      \/ resolved # matched \/ Retained(resolved) # resolved

\* The manager also reports progress while a manual backup is written.
Refresh ==
  \E otherBackup \in BOOLEAN :
    LET inProgress == Running \/ otherBackup
        table == Observed(inProgress)
    IN  /\ status' = table
        /\ saveDue' = (saveDue \/ SaveWorthy(inProgress))
        /\ metrics' = MetricsOf(table)
        /\ UNCHANGED <<now, native, disk>>

Save ==
  /\ saveDue
  /\ disk' = status
  /\ saveDue' = FALSE
  /\ UNCHANGED <<now, native, status, metrics>>

\* Home Assistant dies, and a native attempt that was running with it.
Restart ==
  /\ status' = disk
  /\ saveDue' = FALSE
  /\ metrics' = [rate |-> 0, streak |-> {}]
  /\ truth' = IF Running THEN [truth EXCEPT ![attempt] = "failed"] ELSE truth
  /\ UNCHANGED <<now, attempt, success, near, disk>>

Next == Tick \/ AttemptBegins \/ AttemptSucceeds \/ AttemptFails \/ Refresh \/ Save \/ Restart

Spec == Init /\ [][Next]_vars

-----------------------------------------------------------------------------
(* Properties                                                              *)

\* Every variable keeps its type; in particular the published success rate is
\* a percentage.
TypeOK ==
  /\ now \in Times
  /\ attempt \in 0..now /\ success \in 0..now
  /\ truth \in [Times -> {"none", "running", "success", "failed"}]
  /\ status \in [Times -> Status] /\ disk \in [Times -> Status]
  /\ near \in SUBSET Times
  /\ saveDue \in BOOLEAN
  /\ metrics.rate \in 0..100 /\ metrics.streak \in SUBSET Times

\* Every attempt in the published streak of consecutive failures failed in
\* truth: none of them succeeded unseen between two refreshes, none was lost
\* with a crash and judged again, none is still running.
StreakIsReal == \A t \in metrics.streak : truth[t] = "failed"

\* Whatever it makes of older attempts, the history is right about the newest one
\* it has concluded on: it never calls it failed in error, and calls it successful
\* in error only if it began within the matching tolerance of an earlier success,
\* which _match_success then claims for it (history.py:161).
NewestIsJudgedRight ==
  \A t \in Times :
    status[t] \in {"success", "failed"} /\ (\A later \in Times : later > t => status[later] = "absent")
      => truth[t] = status[t] \/ (t \in near /\ status[t] = "success")

=============================================================================
