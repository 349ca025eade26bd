------------------------- MODULE VerificationPipeline -------------------------
(***************************************************************************)
(* One check of one backup: async_verify of integrity.py and the staging   *)
(* and sweeping of security.py.  The copies are downloaded into a private  *)
(* directory and read by a worker thread until one can be judged; whatever *)
(* happens, the directory is removed at the end.                           *)
(*                                                                         *)
(* Granularity.  A value of pc is an await of the coroutine: it may be     *)
(* cancelled there, and its executor job then ends or not without anyone   *)
(* seeing its result.  The archive worker is a second process.             *)
(*                                                                         *)
(* Abstracted data: a copy is what its archive shows when it is read, or   *)
(* flagged if it is not: its agent calls it protected, and no password is  *)
(* set; the byte counts of a budget are a copy that is too big, or a       *)
(* staging file system that is full; the age of a directory is recent or   *)
(* stale.                                                                  *)
(***************************************************************************)
EXTENDS Naturals, Sequences

CONSTANTS Copies,        \* number of candidate agents, local ones first
          DatabaseCheck, \* the option database_check
          MaxChecks,     \* bound: checks during a behaviour
          MaxCancels     \* bound: cancellations of one check

ASSUME PipelineAssumption ==
  /\ Copies \in Nat \ {0} /\ DatabaseCheck \in BOOLEAN
  /\ MaxChecks \in Nat \ {0} /\ MaxCancels \in Nat

VARIABLES content,   \* what the copies hold
          pc,        \* where the coroutine is
          copy,      \* index of the candidate
          outcome,   \* the candidate's outcome, through removal of its file
          failures,  \* _VerificationFailures.best and copy_failures
          verdict,   \* what async_verify returns or raises
          worker,    \* the thread in _verify_archive, or what it ended with
          disk,      \* the check's private directory
          left,      \* directories of earlier checks, by age
          unclean,   \* issue_active of the clean-up in progress
          issue,     \* the repair issue temporary_cleanup_failed
          expired,   \* the overall deadline has passed
          cancels,   \* cancellations of this check
          checks,    \* checks so far
          tried,     \* history: failures of the candidates, in order
          happened,  \* history: events that concern all copies
          swept      \* history: the last clean-up ran to its end

task    == <<copy, outcome, failures, verdict>>
staging == <<disk, left, unclean, issue>>
history == <<tried, happened, swept>>
counts  == <<cancels, checks>>
vars == <<content, pc, task, worker, staging, expired, counts, history>>

Contents == {"sound", "bad_database", "no_database", "bad_tail", "locked", "too_big",
             "flagged"}
NoResult == [status |-> "none", copy |-> 0]
NoDisk   == [dir |-> FALSE, archives |-> {}, database |-> 0]

Running == {"create", "load", "space", "open", "download", "close", "remove",
            "reset", "archive", "drain", "callback", "clean", "sweep"}
Resting == {"idle", "startup", "done"}

WorkerResults ==
  {"valid", "database_failed", "corrupt", "unreadable", "internal_error",
   "password_required", "aborted", "timeout", "stopped"}

Event(e) == happened' = happened \cup {e} /\ UNCHANGED <<tried, swept>>

\* _FAILURE_RANKS
Rank == [none |-> 0, download_failed |-> 0, aborted |-> 1, unreadable |-> 1,
         password_required |-> 2, internal_error |-> 3, corrupt |-> 4]

\* An earlier process may have left a directory and told nobody.
Init ==
  /\ content \in [1..Copies -> Contents]
  /\ pc = "startup"
  /\ copy = 0
  /\ outcome = "none"
  /\ failures = [best |-> NoResult, count |-> 0]
  /\ verdict = NoResult
  /\ worker = "none"
  /\ disk = NoDisk
  /\ left \in {{}, {"recent"}}
  /\ unclean = FALSE
  /\ issue = FALSE
  /\ expired = FALSE
  /\ cancels = 0
  /\ checks = 0
  /\ tried = <<>>
  /\ happened = {}
  /\ swept = FALSE

-----------------------------------------------------------------------------
(* The start of a check *)

Begin ==
  /\ pc \in {"idle", "done"}
  /\ checks < MaxChecks
  /\ pc' = "create"
  /\ checks' = checks + 1
  /\ cancels' = 0
  /\ expired' = FALSE
  /\ copy' = 0
  /\ outcome' = "none"
  /\ failures' = [best |-> NoResult, count |-> 0]
  /\ verdict' = NoResult
  /\ worker' = "none"
  /\ disk' = NoDisk
  /\ unclean' = FALSE
  /\ tried' = <<>> /\ happened' = {} /\ swept' = FALSE
  /\ UNCHANGED <<content, left, issue>>

\* A result without any staged data; the finally clause is not entered.
Refuse(status, event) ==
  /\ pc = "create"
  /\ pc' = "done"
  /\ verdict' = [status |-> status, copy |-> 0]
  /\ Event(event)
  /\ UNCHANGED <<content, copy, outcome, failures, worker, staging, expired, counts>>

NoCandidates  == Refuse("unreadable", "inventory")
CreateFails   == Refuse("unreadable", "staging")

CreateDirectory ==
  /\ pc = "create"
  /\ pc' = "load"
  /\ disk' = [disk EXCEPT !.dir = TRUE]
  /\ UNCHANGED <<content, task, worker, left, unclean, issue, expired, counts, history>>

\* The previous result is loaded, and the first candidate is next.
LoadPrevious ==
  /\ pc = "load"
  /\ pc' = "space"
  /\ copy' = 1
  /\ UNCHANGED <<content, outcome, failures, verdict, worker, staging, expired,
                 counts, history>>

\* A final outcome, or an exception that leaves the loop over the candidates.
Return(result) ==
  /\ verdict' = result
  /\ pc' = "clean"
  /\ UNCHANGED <<copy, outcome, failures>>

Escape(status) == Return([status |-> status, copy |-> 0])

-----------------------------------------------------------------------------
(* A candidate that fails on its own: failures.record, then the next one   *)

\* Mutant: the last of equally severe failures is kept.
NotLessSevere(status) ==
  status # "download_failed" /\ Rank[status] >= Rank[failures.best.status]

MoreSevere(status) == Rank[status] > Rank[failures.best.status]

\* Mutant: the loop over the candidates has no end.
RecordAlways(status) ==
  /\ failures' = [failures EXCEPT !.count = @ + 1]
  /\ tried' = Append(tried, status)
  /\ outcome' = "none"
  /\ copy' = copy + 1
  /\ pc' = "space"
  /\ UNCHANGED <<verdict, happened, swept>>

Record(status) ==
  LET best == IF MoreSevere(status)
                THEN [status |-> status, copy |-> copy]
                ELSE failures.best
  IN /\ failures' = [best |-> best, count |-> failures.count + 1]
     /\ tried' = Append(tried, status)
     /\ UNCHANGED <<happened, swept>>
     /\ outcome' = "none"
     /\ \/ /\ copy < Copies
           /\ copy' = copy + 1
           /\ pc' = "space"
           /\ UNCHANGED verdict
        \/ /\ copy = Copies
           /\ verdict' = IF best = NoResult
                           THEN [status |-> "unreadable", copy |-> 0]
                           ELSE best
           /\ pc' = "clean"
           /\ UNCHANGED copy

-----------------------------------------------------------------------------
(* _async_prepare_candidate *)

SpaceChecked ==
  /\ pc = "space"
  /\ ~expired
  /\ pc' = "open"
  /\ UNCHANGED <<content, task, worker, staging, expired, counts, history>>

ExpectedTooBig ==
  /\ pc = "space"
  /\ ~expired
  /\ content[copy] = "too_big"
  /\ Record("aborted")
  /\ UNCHANGED <<content, worker, staging, expired, counts>>

SpaceTimeout ==
  /\ pc = "space"
  /\ expired
  /\ Escape("aborted")
  /\ UNCHANGED <<content, worker, staging, expired, counts, history>>

NoSpace ==
  /\ pc = "space"
  /\ Escape("aborted")
  /\ Event("space")
  /\ UNCHANGED <<content, worker, staging, expired, counts>>

\* The registry is the manager's own: an agent that was unloaded since the
\* candidates were chosen is looked up in vain.
AgentGone ==
  /\ pc = "space"
  /\ ~expired
  /\ Escape("raised")
  /\ Event("agent_gone")
  /\ UNCHANGED <<content, worker, staging, expired, counts>>

\* Only limit errors are caught: an OSError of disk_usage leaves async_verify.
SpaceUnknown ==
  /\ pc = "space"
  /\ Escape("raised")
  /\ Event("staging")
  /\ UNCHANGED <<content, worker, staging, expired, counts>>

-----------------------------------------------------------------------------
(* _async_download_candidate, with _async_download inside it               *)

OpenFile ==
  /\ pc = "open"
  /\ disk' = [disk EXCEPT !.archives = @ \cup {copy}]
  /\ pc' = "download"
  /\ UNCHANGED <<content, task, worker, left, unclean, issue, expired, counts, history>>

OpenFails ==
  /\ pc = "open"
  /\ outcome' = "download_failed"
  /\ pc' = "remove"
  /\ UNCHANGED <<content, copy, failures, verdict, worker, staging, expired,
                 counts, history>>

\* The download ends, for the reason given; the finally clause comes next.
EndDownload(reason) ==
  /\ pc = "download"
  /\ outcome' = reason
  /\ pc' = "close"
  /\ UNCHANGED <<content, copy, failures, verdict, worker, staging, expired, counts>>

Delivered == ~expired /\ EndDownload("downloaded") /\ UNCHANGED history

TooBig ==
  /\ ~expired
  /\ copy > 0 /\ content[copy] = "too_big"
  /\ EndDownload("aborted")
  /\ UNCHANGED history

AgentFails == EndDownload("download_failed") /\ UNCHANGED history

\* Mutant: the download has no timeout.
DownloadUnlimited == FALSE /\ EndDownload("timeout") /\ UNCHANGED history

\* asyncio.timeout, or the deadline check of the budget.
DownloadTimeout == expired /\ EndDownload("timeout") /\ UNCHANGED history

\* The agent raises a TimeoutError of its own; it is caught like the one above.
AgentTimeout == EndDownload("timeout") /\ Event("agent_timeout")

DiskFills == EndDownload("space") /\ Event("space")

\* Stream and file are closed, and the exception in flight goes on.
CloseFile ==
  /\ pc = "close"
  /\ \/ /\ outcome = "downloaded"
        /\ pc' = "reset"
        /\ UNCHANGED <<copy, outcome, failures, verdict>>
     \/ /\ outcome = "cancelled"
        /\ Escape("cancelled")
     \/ /\ outcome \notin {"downloaded", "cancelled"}
        /\ pc' = "remove"
        /\ UNCHANGED <<copy, outcome, failures, verdict>>
  /\ UNCHANGED <<content, worker, staging, expired, counts, history>>

\* An error of close, which may have to flush, replaces the exception in
\* flight: a cancellation as well.
CloseFails ==
  /\ pc = "close"
  /\ outcome' = "download_failed"
  /\ pc' = "remove"
  /\ IF outcome = "cancelled" THEN Event("masked") ELSE UNCHANGED history
  /\ UNCHANGED <<content, copy, failures, verdict, worker, staging, expired, counts>>

\* _async_remove_candidate_file is best effort; then the outcome is returned.
RemoveFile ==
  /\ pc = "remove"
  /\ \E archives \in {disk.archives, disk.archives \ {copy}} :
       disk' = [disk EXCEPT !.archives = archives]
  /\ IF outcome \in {"timeout", "space"}
       THEN Escape("aborted") /\ UNCHANGED history
       ELSE Record(outcome)
  /\ UNCHANGED <<content, worker, left, unclean, issue, expired, counts>>

-----------------------------------------------------------------------------
(* _async_verify_downloaded_candidate *)

\* The agent calls the copy protected and there is no password.  The agent's word
\* is taken for it: what the archive's own metadata say is not looked at.
PasswordMissing ==
  /\ pc = "reset"
  /\ content[copy] \in {"locked", "flagged"}
  /\ outcome' = "password_required"
  /\ pc' = "remove"
  /\ UNCHANGED <<content, copy, failures, verdict, worker, staging, expired,
                 counts, history>>

\* Mutant: the database of an earlier copy stays where it is.
ResetNothing ==
  /\ pc = "reset"
  /\ content[copy] # "flagged"
  /\ worker' = "scan"
  /\ pc' = "archive"
  /\ UNCHANGED <<content, task, staging, expired, counts, history>>

\* A database extracted from an earlier copy goes before the worker starts.
ResetDatabase ==
  /\ pc = "reset"
  /\ content[copy] # "flagged"
  /\ disk' = [disk EXCEPT !.database = 0]
  /\ worker' = "scan"
  /\ pc' = "archive"
  /\ UNCHANGED <<content, task, left, unclean, issue, expired, counts, history>>

ResetFails ==
  /\ pc = "reset"
  /\ content[copy] # "flagged"
  /\ Escape("unreadable")
  /\ Event("staging")
  /\ UNCHANGED <<content, worker, staging, expired, counts>>

\* _verify_archive up to the Home Assistant archive, whose database is
\* extracted when it is to be checked.  Metadata and password come first.
HasDatabase(c) == content[c] \in {"sound", "bad_database", "bad_tail", "too_big"}

WorkerScans ==
  /\ worker = "scan"
  /\ \/ /\ content[copy] = "locked"
        /\ worker' = "password_required"
        /\ UNCHANGED disk
     \/ /\ content[copy] # "locked"
        /\ IF DatabaseCheck /\ HasDatabase(copy)
             THEN \/ /\ disk.dir /\ disk.database = 0
                     /\ worker' = "rest"
                     /\ disk' = [disk EXCEPT !.database = copy]
                  \/ /\ disk.database # 0
                     /\ worker' = "corrupt"
                     /\ UNCHANGED disk
             ELSE worker' = "rest" /\ UNCHANGED disk
  /\ UNCHANGED <<content, pc, task, left, unclean, issue, expired, counts, history>>

\* The rest of the archive, the inventory, and the status of the database.
DatabaseStatus ==
  IF ~DatabaseCheck THEN "valid"
  ELSE IF disk.database = 0 THEN "corrupt"
  ELSE IF content[disk.database] = "bad_database" THEN "database_failed"
  ELSE "valid"

WorkerFinishes ==
  /\ worker = "rest"
  /\ worker' = CASE content[copy] = "bad_tail" -> "corrupt"
                 [] content[copy] = "too_big"  -> "aborted"
                 [] OTHER                      -> DatabaseStatus
  /\ UNCHANGED <<content, pc, task, staging, expired, counts, history>>

\* Deadline, cancellation event, storage and programming errors at any step.
WorkerStops ==
  /\ worker \in {"scan", "rest"}
  /\ \/ worker' = "timeout" /\ expired
     \/ worker' = "stopped" /\ pc # "archive"
     \/ worker' \in {"unreadable", "internal_error"}
  /\ UNCHANGED <<content, pc, task, staging, expired, counts, history>>

\* The database is opened only when the rest of the archive has been read.
ChecksDatabase ==
  worker = "rest" /\ disk.database # 0 /\ content[copy] \notin {"bad_tail", "too_big"}

\* The check of the database has a deadline of its own, as final as the other.
DatabaseTimeout ==
  /\ ChecksDatabase
  /\ worker' = "timeout"
  /\ Event("database_timeout")
  /\ UNCHANGED <<content, pc, task, staging, expired, counts>>

\* Every sqlite3.DatabaseError counts as a damaged database, also the
\* OperationalError of a file that could not be opened or read just now.
DatabaseError ==
  /\ ChecksDatabase
  /\ worker' = "database_failed"
  /\ Event("database_error")
  /\ UNCHANGED <<content, pc, task, staging, expired, counts>>

\* _async_archive_details: what the worker ended with becomes an outcome.
ArchiveEnds ==
  /\ pc = "archive"
  /\ worker \in WorkerResults
  /\ worker' = "none"
  /\ \/ /\ worker \in {"valid", "database_failed"}
        /\ verdict' = [status |-> IF worker = "valid" THEN "valid" ELSE "corrupt",
                       copy |-> copy]
        /\ pc' \in {"callback", "clean"}
        /\ UNCHANGED <<copy, outcome, failures>>
     \/ /\ worker = "timeout"
        /\ Escape("aborted")
     \/ /\ worker \notin {"valid", "database_failed", "timeout"}
        /\ outcome' = worker
        /\ pc' = "remove"
        /\ UNCHANGED <<copy, failures, verdict>>
  /\ UNCHANGED <<content, staging, expired, counts, history>>

\* verified_archive_callback: the runtime test, while the archive is staged.
CallbackReturns ==
  /\ pc = "callback"
  /\ pc' = "clean"
  /\ UNCHANGED <<content, task, worker, staging, expired, counts, history>>

CallbackRaises ==
  /\ pc = "callback"
  /\ Escape("raised")
  /\ Event("runner")
  /\ UNCHANGED <<content, worker, staging, expired, counts>>

-----------------------------------------------------------------------------
(* _async_cleanup_verification_data, in the finally clause *)

\* rmtree may fail half way; what it left is not looked at again.
Clean ==
  /\ pc = "clean"
  /\ pc' = "sweep"
  /\ \/ disk' = NoDisk /\ UNCHANGED unclean
     \/ disk' = [NoDisk EXCEPT !.dir = TRUE] /\ unclean' = TRUE
  /\ UNCHANGED <<content, task, worker, left, issue, expired, counts, history>>

\* What stays behind is no longer this check's.
Leave == IF disk.dir THEN {"recent"} ELSE {}

\* cleanup_stale_temp_directories: stale directories are removed if they can
\* be, recent ones only counted.  The check's own is a recent one.
Swept(remaining) ==
  /\ remaining \in {left \cup Leave, (left \cup Leave) \ {"stale"}}
  /\ left' = remaining
  /\ disk' = NoDisk

\* Mutant: a recent directory is not counted as remaining.
SweepOnlyStale ==
  /\ pc = "sweep"
  /\ pc' = "done"
  /\ \E remaining \in SUBSET {"recent", "stale"} :
       /\ Swept(remaining)
       /\ issue' = (unclean \/ "stale" \in remaining)
  /\ unclean' = FALSE
  /\ swept' = TRUE
  /\ UNCHANGED <<content, task, worker, expired, counts, tried, happened>>

Sweep ==
  /\ pc = "sweep"
  /\ pc' = "done"
  /\ \E remaining \in SUBSET {"recent", "stale"} :
       /\ Swept(remaining)
       /\ issue' = (unclean \/ remaining # {})
  /\ unclean' = FALSE
  /\ swept' = TRUE
  /\ UNCHANGED <<content, task, worker, expired, counts, tried, happened>>

\* The staging root cannot be listed.
SweepFails ==
  /\ pc = "sweep"
  /\ pc' = "done"
  /\ left' = left \cup Leave
  /\ disk' = NoDisk
  /\ issue' = TRUE
  /\ unclean' = FALSE
  /\ swept' = TRUE
  /\ UNCHANGED <<content, task, worker, expired, counts, tried, happened>>

-----------------------------------------------------------------------------
(* Cancellation of the task, at the await where it is *)

\* Before the try statement: the directory may be made all the same.
CancelCreate ==
  /\ pc = "create"
  /\ pc' = "done"
  /\ verdict' = [status |-> "cancelled", copy |-> 0]
  /\ left' \in {left, left \cup {"recent"}}
  /\ UNCHANGED <<copy, outcome, failures, worker, disk, unclean, issue>>

\* In the download: its finally clause still closes the file.
CancelDownload ==
  /\ pc = "download"
  /\ outcome' = "cancelled"
  /\ pc' = "close"
  /\ UNCHANGED <<copy, failures, verdict, worker, staging>>

\* Mutant: the worker is not waited for.
CancelArchiveAtOnce ==
  /\ pc = "archive"
  /\ Escape("cancelled")
  /\ UNCHANGED <<worker, staging>>

\* While the worker reads: it is told to stop, and waited for.
CancelArchive ==
  /\ pc = "archive"
  /\ pc' = "drain"
  /\ UNCHANGED <<task, worker, staging>>

\* Anywhere else inside the try statement.  The file job may still happen; a
\* worker that is waited for already is waited for no longer.
CancelElsewhere ==
  /\ pc \in {"load", "space", "open", "close", "remove", "reset", "drain", "callback"}
  /\ Escape("cancelled")
  /\ disk' \in {disk}
       \cup (IF pc = "open" THEN {[disk EXCEPT !.archives = @ \cup {copy}]} ELSE {})
       \cup (IF pc = "remove" THEN {[disk EXCEPT !.archives = @ \ {copy}]} ELSE {})
       \cup (IF pc = "reset" THEN {[disk EXCEPT !.database = 0]} ELSE {})
  /\ UNCHANGED <<worker, left, unclean, issue>>

\* In the clean-up: the rest of it is skipped, and the result is lost.
CancelCleanUp ==
  /\ pc \in {"clean", "sweep"}
  /\ pc' = "done"
  /\ verdict' = [status |-> "cancelled", copy |-> 0]
  /\ \/ pc = "clean" /\ left' \in {left, left \cup Leave}
     \/ pc = "sweep" /\ left' \in {left \cup Leave, (left \cup Leave) \ {"stale"}}
  /\ disk' = NoDisk
  /\ unclean' = FALSE
  /\ UNCHANGED <<copy, outcome, failures, worker, issue>>

Cancel ==
  /\ cancels < MaxCancels
  /\ cancels' = cancels + 1
  /\ Event("cancel")
  /\ \/ CancelCreate
     \/ CancelDownload
     \/ CancelArchive
     \/ CancelElsewhere
     \/ CancelCleanUp
  /\ UNCHANGED <<content, expired, checks>>

\* Mutant: the cancellation is not raised again after the wait.
DrainForgets ==
  /\ pc = "drain"
  /\ worker \in WorkerResults
  /\ worker' = "none"
  /\ outcome' = "aborted"
  /\ pc' = "remove"
  /\ UNCHANGED <<content, copy, failures, verdict, staging, expired, counts, history>>

\* The worker has stopped; the cancellation goes on.
DrainEnds ==
  /\ pc = "drain"
  /\ worker \in WorkerResults
  /\ worker' = "none"
  /\ Escape("cancelled")
  /\ UNCHANGED <<content, staging, expired, counts, history>>

-----------------------------------------------------------------------------
(* Time, and the process *)

Expire ==
  /\ pc \in Running \ {"create", "clean", "sweep"}
  /\ ~expired
  /\ expired' = TRUE
  /\ Event("deadline")
  /\ UNCHANGED <<content, pc, task, worker, staging, counts>>

\* It matters only where a sweep looks, so it is enough that directories age
\* between checks.
Age ==
  /\ pc \in Resting
  /\ "recent" \in left
  /\ left' = {"stale"}
  /\ UNCHANGED <<content, pc, task, worker, disk, unclean, issue, expired, counts,
                 history>>

\* The process dies or is restarted.  The repair issue is a persistent one.
Crash ==
  /\ pc # "startup"
  /\ pc' = "startup"
  /\ left' \in {left \cup Leave} \cup (IF pc = "create" THEN {left \cup {"recent"}} ELSE {})
  /\ disk' = NoDisk
  /\ unclean' = FALSE
  /\ copy' = 0 /\ outcome' = "none" /\ verdict' = NoResult
  /\ failures' = [best |-> NoResult, count |-> 0]
  /\ worker' = "none"
  /\ expired' = FALSE /\ cancels' = 0
  /\ tried' = <<>> /\ happened' = {} /\ swept' = FALSE
  /\ UNCHANGED <<content, issue, checks>>

\* async_setup_entry sweeps before anything else is started.
Startup ==
  /\ pc = "startup"
  /\ pc' = "idle"
  /\ \E remaining \in SUBSET {"recent", "stale"} :
       /\ Swept(remaining)
       /\ issue' \in {remaining # {}, TRUE}
  /\ swept' = TRUE
  /\ UNCHANGED <<content, task, worker, unclean, expired, counts, tried, happened>>

-----------------------------------------------------------------------------
Prepare == CreateDirectory \/ NoCandidates \/ CreateFails \/ LoadPrevious
             \/ SpaceChecked \/ ExpectedTooBig \/ SpaceTimeout \/ NoSpace \/ SpaceUnknown
             \/ AgentGone
Agent   == Delivered \/ TooBig \/ AgentFails \/ AgentTimeout \/ DiskFills
Read    == PasswordMissing \/ ResetDatabase \/ ResetFails \/ ArchiveEnds \/ DrainEnds
             \/ CallbackReturns \/ CallbackRaises
Files   == OpenFile \/ OpenFails \/ CloseFile \/ CloseFails \/ RemoveFile
             \/ Clean \/ Sweep \/ SweepFails
Worker  == WorkerScans \/ WorkerFinishes \/ WorkerStops \/ DatabaseTimeout
             \/ DatabaseError

\* Steps of the coroutine that do not wait for a storage agent.
Coroutine == Prepare \/ DownloadTimeout \/ Read \/ Files

Next == Begin \/ Coroutine \/ Agent \/ Worker \/ Cancel \/ Expire \/ Age \/ Crash \/ Startup

Spec == Init /\ [][Next]_vars

\* Awaits that no deadline ends: aclose() of the agent's stream runs outside the
\* timeout of the download, and the runtime test uploads the archive without one.
Unbounded == {"close", "callback"}

\* The event loop, its executor and the clock go on; an agent or a runner may
\* never answer.
FairSpec ==
  /\ Spec
  /\ WF_vars(pc \notin Unbounded /\ Coroutine) /\ WF_vars(Worker) /\ WF_vars(Expire)

-----------------------------------------------------------------------------
TypeOK ==
  /\ content \in [1..Copies -> Contents]
  /\ pc \in Running \cup Resting
  /\ copy \in 0..Copies
  /\ outcome \in DOMAIN Rank \cup {"downloaded", "cancelled", "timeout", "space"}
  /\ failures.best.status \in DOMAIN Rank /\ failures.count \in 0..Copies
  /\ verdict.copy \in 0..Copies
  /\ worker \in {"none", "scan", "rest"} \cup WorkerResults
  /\ disk.dir \in BOOLEAN /\ disk.archives \subseteq 1..Copies /\ disk.database \in 0..Copies
  /\ left \subseteq {"recent", "stale"}
  /\ unclean \in BOOLEAN /\ issue \in BOOLEAN /\ expired \in BOOLEAN /\ swept \in BOOLEAN
  /\ cancels \in 0..MaxCancels /\ checks \in 0..MaxChecks
  /\ Len(tried) <= Copies

\* A verdict about a copy is true of that copy: nothing that an earlier copy
\* left in the staging directory can turn a sound one into a corrupt one, or
\* vouch for one without a database.  Two answers are not earned by the copy: a
\* damaged database when SQLite could not read the extracted file, and a missing
\* password when only the agent calls the copy protected.
VerdictIsTrue ==
  pc = "done" /\ verdict.copy > 0 =>
    CASE verdict.status = "valid" ->
           \/ content[verdict.copy] = "sound"
           \/ ~DatabaseCheck /\ content[verdict.copy] \in {"bad_database", "no_database"}
      [] verdict.status = "corrupt" ->
           \/ content[verdict.copy] = "bad_tail"
           \/ DatabaseCheck /\ content[verdict.copy] \in {"bad_database", "no_database"}
           \/ DatabaseCheck /\ "database_error" \in happened
      [] verdict.status = "password_required" ->
           content[verdict.copy] \in {"locked", "flagged"}
      [] OTHER -> TRUE

\* The archive stays in place as long as the worker or the runtime test reads
\* it.  One cancellation does not change that: the worker is waited for.
StagedWhileRead ==
  /\ worker \in {"scan", "rest"} /\ cancels < 2 => disk.dir /\ copy \in disk.archives
  /\ pc = "callback" => disk.dir /\ copy \in disk.archives

\* Whatever any check, or a process that died, left in the staging root is
\* known to the user once a clean-up or a start-up sweep has run to its end.
LeftoversReported == swept /\ left # {} => issue

\* A cancelled check ends as cancelled and returns no verdict; the only way
\* out is a file that cannot be closed.
CancelIsHeeded ==
  pc = "done" /\ "cancel" \in happened /\ "masked" \notin happened =>
    verdict.status = "cancelled"

\* A check ends although the agent may never answer: only a stream that is never
\* closed, or a runtime test that never returns, can keep it for ever.
EveryCheckEnds ==
  \/ <>[](pc = "close") \/ <>[](pc = "callback")
  \/ pc \in Running ~> pc \in Resting

\* Events that give nobody a reason to give up.
NoCause == {"masked", "database_error"}

\* The fallback over the copies as its caller sees it.
Promise == INSTANCE CopyFallback
             WITH answer <- IF pc = "done" THEN verdict ELSE NoResult,
                  happened <- happened \ NoCause
Fallback == Promise!Spec

\* An agent that fails on its own account, in whatever way, is followed by the
\* next one: no verdict without trying every copy or judging one.
AgentFailureFallsBack ==
  /\ pc = "done"
  /\ happened \subseteq {"agent_timeout"}
  /\ verdict.status = "aborted"
  => Len(tried) = Copies
=============================================================================
