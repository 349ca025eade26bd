---------------------------- MODULE InventoryRules ----------------------------
(***************************************************************************)
(* How one answer of Home Assistant's backup manager is read: the raw      *)
(* backups become records (backup_normalizer.py, classification.py), the   *)
(* manager's own state is validated (native_backup.py), and freshness,     *)
(* storage and size are judged (coordinator.py, age.py).  All of it is     *)
(* pure: the state machine that applies it is Assessment's.                *)
(*                                                                         *)
(* Abstracted data: time is counted in days, so the tolerances of minutes  *)
(* and hours vanish; a size is a small integer, a negative one stands for  *)
(* every value that is no size; names, references and folders are model    *)
(* values, and a record's content parts are one set.                       *)
(***************************************************************************)
EXTENDS Integers, FiniteSets, FiniteSetsExt

CONSTANTS Agents,        \* the configured storage agents
          None,          \* what Python calls None
          MaxAge,        \* max_age_days
          MinLocations,  \* minimum_redundant_locations
          MaxDrop,       \* maximum_size_drop_percent
          Tolerance      \* _COPY_SIZE_MISMATCH_MIN_BYTES

ASSUME InventoryAssumption ==
  /\ MaxAge \in Nat \ {0}
  /\ MinLocations \in Nat \ {0}
  /\ MaxDrop \in 0..100
  /\ Tolerance \in Nat
  /\ None \notin Int \union BOOLEAN

BaselineRecords == 5

-----------------------------------------------------------------------------
(* Raw backups to records.  A listing is a set of raw backups, "pos" their *)
(* order; "valid" says whether the identity and the date can be read.      *)

KnownSize(size) == IF size \in Nat THEN size ELSE None

SizesOf(copies) == {copies[a] : a \in DOMAIN copies} \ {None}

CopySizesDiffer(copies) ==
  LET sizes == SizesOf(copies)
  IN sizes # {} /\ Max(sizes) - Min(sizes) > Max({Tolerance, Max(sizes) \div 100})

Purpose(raw) ==
  CASE raw.update    -> "app_update"
    [] raw.automatic -> "automatic"
    [] OTHER         -> "manual"

NormalizeBackup(raw) ==
  LET copies == [a \in DOMAIN raw.copies |-> KnownSize(raw.copies[a])]
  IN [id         |-> raw.id,
      pos        |-> raw.pos,
      made       |-> raw.made,
      automatic  |-> raw.automatic,
      purpose    |-> Purpose(raw),
      ha         |-> raw.ha,
      db         |-> raw.db,
      parts      |-> raw.parts,
      copies     |-> copies,
      size       |-> IF SizesOf(copies) = {} THEN KnownSize(raw.size) ELSE Max(SizesOf(copies)),
      incomplete |-> raw.failed,
      mismatch   |-> CopySizesDiffer(copies)]

\* Of several backups with one identifier the first readable one is kept.
Normalize(listing) ==
  LET readable == {raw \in listing : raw.valid}
  IN {NormalizeBackup(raw) :
        raw \in {r \in readable : \A q \in readable : q.id = r.id => r.pos <= q.pos}}

Monitored(records) == {r \in records : r.purpose # "app_update"}

\* r comes before q in the list, which is sorted by date, newest first.
Precedes(r, q) == r.made > q.made \/ (r.made = q.made /\ r.pos < q.pos)

Newest(records) ==
  IF records = {} THEN None
  ELSE CHOOSE r \in records : \A q \in records \ {r} : Precedes(r, q)

-----------------------------------------------------------------------------
(* The manager's own state of the automatic backups *)

EventIsRelevant(native, now) ==
  /\ native.eventAt # None
  /\ native.attempt # None
  /\ native.eventAt >= native.attempt
  /\ native.eventAt <= now

ValidatedEvent(native, now) ==
  IF \/ native.event \in {"completed", "failed"} /\ EventIsRelevant(native, now)
     \/ native.event = "in_progress" /\ (native.writing \/ EventIsRelevant(native, now))
  THEN native.event
  ELSE "none"

AutomaticBackupFailed(native, now) ==
  LET event == ValidatedEvent(native, now)
  IN \/ event = "failed"
     \/ /\ event = "none"
        /\ ~native.writing
        /\ native.attempt # None
        /\ native.success = None \/ native.attempt > native.success

-----------------------------------------------------------------------------
(* Freshness *)

Age(now, made) == Max({0, now - made})

Overdue(auto, manual, now) ==
  IF auto = None
  THEN manual = None \/ manual.incomplete \/ Age(now, manual.made) > MaxAge
  ELSE /\ Age(now, auto.made) > MaxAge
       /\ ~ (manual # None /\ ~manual.incomplete /\ manual.made > auto.made)

Freshness(monitored, now) ==
  LET latest == Newest(monitored)
      auto   == Newest({r \in monitored : r.automatic})
      manual == Newest({r \in monitored : ~r.automatic})
      age    == IF latest = None THEN None ELSE Age(now, latest.made)
  IN [age     |-> age,
      stale   |-> age # None /\ age > MaxAge,
      overdue |-> Overdue(auto, manual, now)]

-----------------------------------------------------------------------------
(* Storage *)

HoldsCopy(record, agent) == agent \in DOMAIN record.copies

\* _age_agent_summary: what grows old in a summary when it is looked at again.
AgeSummary(summary, now) ==
  LET stale == summary.newest = None \/ Age(now, summary.newest) > MaxAge
  IN [summary EXCEPT !.stale = stale, !.problem = summary.error \/ stale]

AgentSummary(agent, monitored, failed, now) ==
  LET newest == Newest({r \in monitored : HoldsCopy(r, agent)})
  IN AgeSummary([newest  |-> IF newest = None THEN None ELSE newest.made,
                 count   |-> Cardinality({r \in monitored : HoldsCopy(r, agent)}),
                 error   |-> failed,
                 stale   |-> TRUE,
                 problem |-> TRUE], now)

AgentSummaries(monitored, errors, now) ==
  [a \in Agents |-> AgentSummary(a, monitored, a \in errors, now)]

RequiredLocationMissing(latest, summaries) ==
  latest # None /\ \E a \in Agents : HoldsCopy(latest, a) /\ summaries[a].error

NotRedundant(latest) ==
  latest # None /\ Cardinality(DOMAIN latest.copies) < MinLocations

-----------------------------------------------------------------------------
(* Size *)

Scope(record) == <<record.ha, record.db, record.parts>>

Comparable(latest, monitored) ==
  {r \in monitored : /\ r.id # latest.id
                     /\ r.automatic = latest.automatic
                     /\ Scope(r) = Scope(latest)
                     /\ r.size # None
                     /\ r.size > 0}

Baseline(records) ==
  {r \in records : Cardinality({q \in records : Precedes(q, r)}) < BaselineRecords}

\* Twice the median size: the middle record, or the two in the middle.
TwiceMedian(records) ==
  LET smaller(r) == {q \in records : q.size < r.size \/ (q.size = r.size /\ q.pos < r.pos)}
      n          == Cardinality(records)
      middle     == {r \in records : 2 * Cardinality(smaller(r)) + 1 \in (n - 1)..(n + 1)}
  IN (2 \div Cardinality(middle)) * MapThenSumSet(LAMBDA r : r.size, middle)

\* The drop is a percentage rounded to one decimal, half to even: 49.95 of 100
\* counts as a drop of 50.
DropsTooFar(size, twiceBaseline) ==
  2000 * (twiceBaseline - 2 * size) >= (20 * MaxDrop - 1) * twiceBaseline

\* _is_size_suspicious in its automatic mode.
SizeSuspicious(latest, monitored) ==
  /\ latest # None
  /\ latest.size # None
  /\ \/ latest.size = 0
     \/ LET comparable == Comparable(latest, monitored)
        IN /\ MaxDrop > 0
           /\ Cardinality(comparable) >= 2
           /\ DropsTooFar(latest.size, TwiceMedian(Baseline(comparable)))
=============================================================================
