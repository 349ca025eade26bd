---------------------- MODULE VerificationPipeline_proofs ----------------------
(***************************************************************************)
(* What holds of a check for every number of copies, checks and            *)
(* cancellations: types, the truth of the verdict, the staging directory   *)
(* while it is read, the report of leftovers, the end of a cancelled       *)
(* check, and that the check implements CopyFallback.                      *)
(***************************************************************************)
EXTENDS VerificationPipeline, TLAPS

\* Awaits at which a candidate is being tried.
AtCopy == {"space", "open", "download", "close", "remove", "reset", "archive",
           "drain", "callback"}

Failures == {"download_failed", "aborted", "unreadable", "password_required",
             "internal_error", "corrupt"}
Statuses == {"none", "valid", "cancelled", "raised"} \cup Failures
Results  == [status : Statuses, copy : 0..Copies]
Outcomes == {"none", "downloaded", "cancelled", "timeout", "space"} \cup Failures
Disks    == [dir : BOOLEAN, archives : SUBSET (1..Copies), database : 0..Copies]

Types ==
  /\ content \in [1..Copies -> Contents]
  /\ pc \in Running \cup Resting
  /\ copy \in 0..Copies
  /\ outcome \in Outcomes
  /\ failures \in [best : [status : {"none"} \cup Failures, copy : 0..Copies],
                   count : 0..Copies]
  /\ verdict \in Results
  /\ worker \in {"none", "scan", "rest"} \cup WorkerResults
  /\ disk \in Disks
  /\ left \in SUBSET {"recent", "stale"}
  /\ unclean \in BOOLEAN /\ issue \in BOOLEAN /\ expired \in BOOLEAN /\ swept \in BOOLEAN
  /\ cancels \in 0..MaxCancels
  /\ checks \in 0..MaxChecks
  /\ tried \in Seq(Failures)

\* One failure is on record for each copy before the one that is being tried.
Position ==
  /\ pc \in AtCopy => copy > 0 /\ Len(tried) = copy - 1 /\ failures.count = copy - 1
  /\ pc \in {"create", "load"} => tried = <<>> /\ failures.count = 0
  /\ Len(tried) <= Copies
  /\ pc = "close" => outcome \in {"downloaded", "cancelled", "download_failed", "aborted",
                                 "timeout", "space"}
  /\ pc = "remove" => outcome \in Failures \cup {"timeout", "space"}
  /\ pc = "archive" => worker # "stopped"

\* The directory is there while candidates are tried, the archive once it is
\* opened; a worker that is not waited for has been cancelled twice.
Staged ==
  /\ pc \in AtCopy \cup {"load"} => disk.dir
  /\ pc \in {"download", "close", "reset", "archive", "drain", "callback"} =>
       copy \in disk.archives
  /\ worker \in {"scan", "rest"} => pc \in {"archive", "drain"} \/ cancels > 1
  /\ pc = "drain" => cancels > 0

\* What may be said of a copy.
TrueOf(status, c) ==
  /\ status = "valid" =>
       \/ content[c] = "sound"
       \/ ~DatabaseCheck /\ content[c] \in {"bad_database", "no_database"}
  /\ status = "corrupt" =>
       \/ content[c] = "bad_tail"
       \/ DatabaseCheck /\ content[c] \in {"bad_database", "no_database"}
       \/ DatabaseCheck /\ "database_error" \in happened
  /\ status = "password_required" => content[c] \in {"locked", "flagged"}

\* The worker reads the database of the copy it was started for, and whatever
\* becomes of its result on the way to the verdict is true of that copy.
Truthful ==
  /\ pc = "archive" =>
       /\ content[copy] # "flagged"
       /\ worker = "scan" => disk.database = 0
       /\ worker = "rest" =>
            /\ content[copy] # "locked"
            /\ disk.database = IF DatabaseCheck /\ HasDatabase(copy) THEN copy ELSE 0
       /\ worker = "database_failed" => TrueOf("corrupt", copy)
       /\ TrueOf(worker, copy)
  /\ pc = "remove" => TrueOf(outcome, copy)
  /\ failures.best.copy > 0 => TrueOf(failures.best.status, failures.best.copy)
  /\ verdict.copy > 0 => TrueOf(verdict.status, verdict.copy)

\* Where a cancelled check can be.
Heeded ==
  "cancel" \in happened /\ "masked" \notin happened =>
    \/ pc = "drain"
    \/ pc = "close" /\ outcome = "cancelled"
    \/ pc \in {"clean", "sweep", "done"} /\ verdict.status = "cancelled"

\* Nothing counts as swept while a check is running.
Reported ==
  /\ pc \in Running => ~swept
  /\ LeftoversReported

IInv == Types /\ Position /\ Staged /\ Truthful /\ Heeded /\ Reported

-----------------------------------------------------------------------------
\* A directory that is not there, and one that rmtree could not remove.
LEMMA NoDiskIsDisk ==
  NoDisk \in Disks /\ [NoDisk EXCEPT !.dir = TRUE] \in Disks
<1>1. 0 \in 0..Copies
  BY PipelineAssumption
<1>2. {} \in SUBSET (1..Copies)
  OBVIOUS
<1>3. NoDisk \in Disks
  BY <1>1, <1>2 DEF NoDisk, Disks
<1> QED BY <1>3 DEF Disks

\* Before the first candidate there is no result and no failure on record.
LEMMA NoResultTypes ==
  /\ NoResult \in Results
  /\ [best |-> NoResult, count |-> 0] \in
       [best : [status : {"none"} \cup Failures, copy : 0..Copies], count : 0..Copies]
<1>1. 0 \in 0..Copies
  BY PipelineAssumption
<1>2. NoResult \in [status : {"none"} \cup Failures, copy : 0..Copies]
  BY <1>1 DEF NoResult
<1> QED BY <1>1, <1>2 DEF NoResult, Results, Statuses

\* A recorded failure is the first one or no better than the best so far.
LEMMA RecordTypes ==
  ASSUME Types, Position, pc \in {"space", "remove"}, NEW f \in Failures, Record(f)
  PROVE  /\ failures' \in [best : [status : {"none"} \cup Failures, copy : 0..Copies],
                          count : 0..Copies]
         /\ tried' = Append(tried, f) /\ tried' \in Seq(Failures)
         /\ copy' \in 0..Copies
         /\ verdict' \in Results
         /\ outcome' = "none" /\ pc' \in {"space", "clean"}
         /\ UNCHANGED <<happened, swept>>
<1>1. /\ copy \in 1..Copies /\ failures.count + 1 = copy
      /\ failures.best \in [status : {"none"} \cup Failures, copy : 0..Copies]
  BY PipelineAssumption DEF Types, Position, AtCopy
<1>2. tried' = Append(tried, f) /\ outcome' = "none" /\ UNCHANGED <<happened, swept>>
  BY DEF Record
<1>3. tried' \in Seq(Failures)
  BY <1>2 DEF Types
<1>4. PICK best \in [status : {"none"} \cup Failures, copy : 0..Copies] :
        /\ failures' = [best |-> best, count |-> failures.count + 1]
        /\ \/ copy < Copies /\ copy' = copy + 1 /\ pc' = "space" /\ verdict' = verdict
           \/ /\ copy' = copy /\ pc' = "clean"
              /\ verdict' \in {[status |-> "unreadable", copy |-> 0], best}
  <2>1. /\ failures.best \in [status : {"none"} \cup Failures, copy : 0..Copies]
        /\ [status |-> f, copy |-> copy] \in [status : {"none"} \cup Failures, copy : 0..Copies]
    BY <1>1
  <2>2. CASE MoreSevere(f)
    BY <2>1, <2>2 DEF Record
  <2>3. CASE ~MoreSevere(f)
    BY <2>1, <2>3 DEF Record
  <2> QED BY <2>2, <2>3
<1> QED BY <1>1, <1>2, <1>3, <1>4, PipelineAssumption
        DEF Types, Results, Statuses, Failures

\* Every step keeps every variable in its range.
LEMMA TypesStep ==
  ASSUME Types, Position, Next
  PROVE  Types'
<1>b. /\ cancels < MaxCancels => cancels + 1 \in 0..MaxCancels
      /\ 0 \in 0..Copies /\ 1 \in 0..Copies
  BY PipelineAssumption DEF Types
<1> USE DEF Types, Position, Contents, Running, Resting, Outcomes, Failures,
            Results, WorkerResults, Disks, AtCopy, Statuses, staging, counts
<1>1. ASSUME Begin PROVE Types'
  <2>1. disk' \in Disks
    BY <1>1, NoDiskIsDisk DEF Begin
  <2>2. checks' \in 0..MaxChecks
    BY <1>1, PipelineAssumption DEF Begin
  <2>3. /\ unclean' \in BOOLEAN /\ issue' \in BOOLEAN
        /\ expired' \in BOOLEAN /\ swept' \in BOOLEAN
    BY <1>1, Zenon DEF Begin, task, history
  <2>4. /\ pc' = "create" /\ copy' = 0 /\ outcome' = "none" /\ worker' = "none"
        /\ failures' = [best |-> NoResult, count |-> 0] /\ verdict' = NoResult
        /\ cancels' = 0 /\ tried' = <<>>
        /\ content' = content /\ left' = left
    BY <1>1 DEF Begin
  <2> QED BY <2>1, <2>2, <2>3, <2>4, PipelineAssumption, NoResultTypes
<1>2. ASSUME Prepare PROVE Types'
  <2>1. ASSUME CreateDirectory PROVE Types'
    <3>1. disk' \in Disks
      BY <2>1 DEF CreateDirectory
    <3> QED BY <2>1, <3>1, SMTT(30) DEF CreateDirectory, task, history
  <2>2. ASSUME NoCandidates PROVE Types'
    BY <2>2, PipelineAssumption, SMTT(20) DEF NoCandidates, Refuse, Event
  <2>3. ASSUME CreateFails PROVE Types'
    BY <2>3, PipelineAssumption, SMTT(20) DEF CreateFails, Refuse, Event
  <2>4. ASSUME LoadPrevious PROVE Types'
    BY <2>4, PipelineAssumption, SMTT(20) DEF LoadPrevious, history
  <2>5. ASSUME SpaceChecked PROVE Types'
    BY <2>5, PipelineAssumption, SMTT(20) DEF SpaceChecked, task, history
  <2>6. ASSUME ExpectedTooBig PROVE Types'
    BY <2>6, PipelineAssumption, SMTT(20)
    DEF ExpectedTooBig, Record, MoreSevere, NoResult, Rank
  <2>7. ASSUME SpaceTimeout PROVE Types'
    BY <2>7, PipelineAssumption, SMTT(20)
    DEF SpaceTimeout, Escape, history, Return
  <2>8. ASSUME NoSpace PROVE Types'
    BY <2>8, PipelineAssumption, SMTT(20) DEF NoSpace, Escape, Event, Return
  <2>9. ASSUME SpaceUnknown PROVE Types'
    BY <2>9, PipelineAssumption, SMTT(20)
    DEF SpaceUnknown, Escape, Event, Return
  <2>10. ASSUME AgentGone PROVE Types'
    BY <2>10, PipelineAssumption, SMTT(20) DEF AgentGone, Escape, Event, Return
  <2> QED BY <1>2, <2>1, <2>2, <2>3, <2>4, <2>5, <2>6, <2>7, <2>8, <2>9, <2>10
          DEF Prepare
<1>3. ASSUME Agent PROVE Types'
  <2>1. ASSUME Delivered PROVE Types'
    BY <2>1, PipelineAssumption, SMTT(20) DEF Delivered, EndDownload, history
  <2>2. ASSUME TooBig PROVE Types'
    BY <2>2, PipelineAssumption, SMTT(20) DEF TooBig, EndDownload, history
  <2>3. ASSUME AgentFails PROVE Types'
    BY <2>3, PipelineAssumption, SMTT(20) DEF AgentFails, EndDownload, history
  <2>4. ASSUME AgentTimeout PROVE Types'
    BY <2>4, PipelineAssumption, SMTT(20) DEF AgentTimeout, EndDownload, Event
  <2>5. ASSUME DiskFills PROVE Types'
    BY <2>5, PipelineAssumption, SMTT(20) DEF DiskFills, EndDownload, Event
  <2> QED BY <1>3, <2>1, <2>2, <2>3, <2>4, <2>5 DEF Agent
<1>4. ASSUME DownloadTimeout PROVE Types'
  BY <1>4, PipelineAssumption, SMTT(20)
  DEF DownloadTimeout, EndDownload, history
<1>5. ASSUME Read PROVE Types'
  <2>1. ASSUME PasswordMissing PROVE Types'
    BY <2>1, PipelineAssumption, SMTT(20) DEF PasswordMissing, history
  <2>2. ASSUME ResetDatabase PROVE Types'
    BY <2>2, PipelineAssumption, SMTT(20) DEF ResetDatabase, task, history
  <2>3. ASSUME ResetFails PROVE Types'
    BY <2>3, PipelineAssumption, SMTT(20) DEF ResetFails, Escape, Event, Return
  <2>4. ASSUME ArchiveEnds PROVE Types'
    BY <2>4, PipelineAssumption, SMTT(20)
    DEF ArchiveEnds, Escape, history, Return
  <2>5. ASSUME DrainEnds PROVE Types'
    BY <2>5, PipelineAssumption, SMTT(20) DEF DrainEnds, Escape, history, Return
  <2>6. ASSUME CallbackReturns PROVE Types'
    BY <2>6, PipelineAssumption, SMTT(20) DEF CallbackReturns, task, history
  <2>7. ASSUME CallbackRaises PROVE Types'
    BY <2>7, PipelineAssumption, SMTT(20)
    DEF CallbackRaises, Escape, Event, Return
  <2> QED BY <1>5, <2>1, <2>2, <2>3, <2>4, <2>5, <2>6, <2>7 DEF Read
<1>6. ASSUME Files PROVE Types'
  <2>1. ASSUME OpenFile PROVE Types'
    BY <2>1, PipelineAssumption, SMTT(20) DEF OpenFile, task, history
  <2>2. ASSUME OpenFails PROVE Types'
    BY <2>2, PipelineAssumption, SMTT(20) DEF OpenFails, history
  <2>3. ASSUME CloseFile PROVE Types'
    BY <2>3, PipelineAssumption, SMTT(20) DEF CloseFile, Escape, history, Return
  <2>4. ASSUME CloseFails PROVE Types'
    BY <2>4, PipelineAssumption, SMTT(20) DEF CloseFails, Event, history
  <2>5. ASSUME RemoveFile PROVE Types'
    <3>1. disk' \in Disks
      BY <2>5 DEF RemoveFile
    <3>2. CASE outcome \in {"timeout", "space"}
      BY <2>5, <3>1, <3>2, <1>b, SMTT(30)
      DEF RemoveFile, Escape, Return, task, history
    <3>3. CASE outcome \notin {"timeout", "space"}
      BY <2>5, <3>1, <3>3, RecordTypes, SMTT(30) DEF RemoveFile, task, history
    <3> QED BY <3>2, <3>3
  <2>6. ASSUME Clean PROVE Types'
    <3>1. disk' \in Disks
      BY <2>6, NoDiskIsDisk DEF Clean
    <3>2. unclean' \in BOOLEAN
      BY <2>6 DEF Clean
    <3> QED BY <2>6, <3>1, <3>2, SMTT(30) DEF Clean, task, history
  <2>7. ASSUME Sweep PROVE Types'
    <3>1. disk' \in Disks
      BY <2>7, NoDiskIsDisk DEF Sweep, Swept
    <3>2. left' \in SUBSET {"recent", "stale"}
      BY <2>7 DEF Sweep, Swept
    <3>3. /\ unclean' \in BOOLEAN /\ issue' \in BOOLEAN
          /\ expired' \in BOOLEAN /\ swept' \in BOOLEAN
      BY <2>7, Zenon DEF Sweep, task, history
    <3>4. /\ pc' = "done"
          /\ UNCHANGED <<content, copy, outcome, failures, verdict, worker,
                          cancels, checks, tried>>
      BY <2>7, Zenon DEF Sweep, task
    <3> QED BY <3>1, <3>2, <3>3, <3>4
  <2>8. ASSUME SweepFails PROVE Types'
    <3>1. disk' \in Disks
      BY <2>8, NoDiskIsDisk DEF SweepFails
    <3>2. left' \in SUBSET {"recent", "stale"}
      BY <2>8 DEF SweepFails, Leave
    <3>3. /\ unclean' \in BOOLEAN /\ issue' \in BOOLEAN
          /\ expired' \in BOOLEAN /\ swept' \in BOOLEAN
      BY <2>8, Zenon DEF SweepFails, task, history
    <3>4. /\ pc' = "done"
          /\ UNCHANGED <<content, copy, outcome, failures, verdict, worker,
                          cancels, checks, tried>>
      BY <2>8, Zenon DEF SweepFails, task
    <3> QED BY <3>1, <3>2, <3>3, <3>4
  <2> QED BY <1>6, <2>1, <2>2, <2>3, <2>4, <2>5, <2>6, <2>7, <2>8 DEF Files
<1>7. ASSUME Worker PROVE Types'
  <2>1. ASSUME WorkerScans PROVE Types'
    BY <2>1, PipelineAssumption, SMTT(20)
    DEF WorkerScans, HasDatabase, task, history
  <2>2. ASSUME WorkerFinishes PROVE Types'
    BY <2>2, PipelineAssumption, SMTT(20)
    DEF WorkerFinishes, DatabaseStatus, task, history
  <2>3. ASSUME WorkerStops PROVE Types'
    BY <2>3, PipelineAssumption, SMTT(20) DEF WorkerStops, task, history
  <2>4. ASSUME DatabaseTimeout PROVE Types'
    BY <2>4, PipelineAssumption, SMTT(20) DEF DatabaseTimeout, Event, task
  <2>5. ASSUME DatabaseError PROVE Types'
    BY <2>5, PipelineAssumption, SMTT(20) DEF DatabaseError, Event, task
  <2> QED BY <1>7, <2>1, <2>2, <2>3, <2>4, <2>5 DEF Worker
<1>8. ASSUME Cancel PROVE Types'
  <2>1. ASSUME CancelCreate PROVE Types'
    <3>1. left' \in SUBSET {"recent", "stale"}
      BY <2>1 DEF Cancel, CancelCreate, Event
    <3> QED BY <1>8, <1>b, <2>1, <3>1, SMTT(30)
            DEF Cancel, CancelCreate, Event, Escape, Return, task, history
  <2>2. ASSUME CancelDownload PROVE Types'
    <3> QED BY <1>8, <1>b, <2>2, SMTT(30)
            DEF Cancel, CancelDownload, Event, Escape, Return, task, history
  <2>3. ASSUME CancelArchive PROVE Types'
    <3> QED BY <1>8, <1>b, <2>3, SMTT(30)
            DEF Cancel, CancelArchive, Event, Escape, Return, task, history
  <2>4. ASSUME CancelElsewhere PROVE Types'
    <3>1. /\ disk.dir \in BOOLEAN /\ disk.archives \subseteq 1..Copies
          /\ disk.database \in 0..Copies
          /\ disk = [dir |-> disk.dir, archives |-> disk.archives,
                      database |-> disk.database]
          /\ pc = "open" => copy \in 1..Copies
      BY <1>8, <2>4, PipelineAssumption
    <3>2. /\ [disk EXCEPT !.archives = @ \ {copy}] \in Disks
          /\ [disk EXCEPT !.database = 0] \in Disks
          /\ pc = "open" => [disk EXCEPT !.archives = @ \cup {copy}] \in Disks
      BY <1>8, <2>4, <3>1, <1>b
    <3>3. disk' \in Disks
      BY <1>8, <2>4, <3>2 DEF CancelElsewhere
    <3>4. /\ unclean' \in BOOLEAN /\ issue' \in BOOLEAN
          /\ expired' \in BOOLEAN /\ swept' \in BOOLEAN
      BY <1>8, <2>4, Zenon
      DEF CancelElsewhere, task, history, Cancel, Event, Escape, Return
    <3>5. /\ pc' = "clean" /\ verdict' = [status |-> "cancelled", copy |-> 0]
          /\ cancels' \in 0..MaxCancels
          /\ UNCHANGED <<content, copy, outcome, failures, worker, left,
                          checks, tried>>
      BY <1>8, <2>4, <1>b, SMTT(20)
      DEF Cancel, CancelElsewhere, Escape, Return, Event
    <3> QED BY <3>1, <3>2, <3>3, <3>4, <3>5, <1>b
  <2>5. ASSUME CancelCleanUp PROVE Types'
    <3>1. disk' \in Disks
      BY <1>8, <2>5, NoDiskIsDisk DEF CancelCleanUp
    <3>2. left' \in SUBSET {"recent", "stale"}
      BY <1>8, <2>5 DEF CancelCleanUp, Leave
    <3>3. /\ unclean' \in BOOLEAN /\ issue' \in BOOLEAN
          /\ expired' \in BOOLEAN /\ swept' \in BOOLEAN
      BY <1>8, <2>5, Zenon
      DEF CancelCleanUp, task, history, Cancel, Event, Escape, Return
    <3>4. /\ pc' = "done" /\ verdict' = [status |-> "cancelled", copy |-> 0]
          /\ cancels' \in 0..MaxCancels
          /\ UNCHANGED <<content, copy, outcome, failures, worker,
                          checks, tried>>
      BY <1>8, <2>5, <1>b DEF Cancel, CancelCleanUp, Event
    <3> QED BY <3>1, <3>2, <3>3, <3>4, <1>b
  <2> QED BY <1>8, <2>1, <2>2, <2>3, <2>4, <2>5 DEF Cancel
<1>9. ASSUME Expire PROVE Types'
  BY <1>9, PipelineAssumption, SMTT(20) DEF Expire, Event, task
<1>10. ASSUME Age PROVE Types'
  BY <1>10, PipelineAssumption, SMTT(20) DEF Age, task, history
<1>11. ASSUME Crash PROVE Types'
  <2>1. disk' \in Disks
    BY <1>11, NoDiskIsDisk DEF Crash
  <2>2. left' \in SUBSET {"recent", "stale"}
    BY <1>11 DEF Crash, Leave
  <2>3. /\ unclean' \in BOOLEAN /\ issue' \in BOOLEAN
        /\ expired' \in BOOLEAN /\ swept' \in BOOLEAN
    BY <1>11, Zenon DEF Crash, task, history
  <2>4. /\ pc' = "startup" /\ copy' = 0 /\ outcome' = "none" /\ worker' = "none"
        /\ failures' = [best |-> NoResult, count |-> 0] /\ verdict' = NoResult
        /\ cancels' = 0 /\ tried' = <<>>
        /\ content' = content /\ checks' = checks
    BY <1>11 DEF Crash
  <2> QED BY <2>1, <2>2, <2>3, <2>4, PipelineAssumption, NoResultTypes
<1>12. ASSUME Startup PROVE Types'
  <2>1. disk' \in Disks
    BY <1>12, NoDiskIsDisk DEF Startup, Swept
  <2>2. left' \in SUBSET {"recent", "stale"}
    BY <1>12 DEF Startup, Swept
  <2>3. issue' \in BOOLEAN
    BY <1>12, Zenon DEF Startup
  <2> QED BY <1>12, <2>1, <2>2, <2>3, SMTT(30) DEF Startup, task, history
<1> QED BY <1>1, <1>2, <1>3, <1>4, <1>5, <1>6, <1>7, <1>8, <1>9, <1>10, <1>11,
           <1>12
        DEF Next, Coroutine

\* The candidates are tried in order, each of them once.
LEMMA PositionStep ==
  ASSUME Types, Position, Next
  PROVE  Position'
<1>0. /\ tried \in Seq(Failures)
      /\ copy \in 0..Copies
      /\ failures.count \in 0..Copies
      /\ Copies \in Nat \ {0}
  BY PipelineAssumption DEF Types, Results, Position, AtCopy
<1> USE DEF Position, AtCopy, Failures, counts
<1>1. ASSUME Begin PROVE Position'
  BY <1>1, <1>0, SMTT(20) DEF Begin, NoResult, NoDisk
<1>2. ASSUME Prepare PROVE Position'
  <2>1. ASSUME CreateDirectory PROVE Position'
    BY <2>1, <1>0, SMTT(20) DEF CreateDirectory, task, history
  <2>2. ASSUME NoCandidates PROVE Position'
    BY <2>2, <1>0, SMTT(20) DEF NoCandidates, Refuse, Event, staging
  <2>3. ASSUME CreateFails PROVE Position'
    BY <2>3, <1>0, SMTT(20) DEF CreateFails, Refuse, Event, staging
  <2>4. ASSUME LoadPrevious PROVE Position'
    BY <2>4, <1>0, SMTT(20) DEF LoadPrevious, staging, history
  <2>5. ASSUME SpaceChecked PROVE Position'
    BY <2>5, <1>0, SMTT(20) DEF SpaceChecked, task, staging, history
  <2>6. ASSUME ExpectedTooBig PROVE Position'
    BY <2>6, <1>0, SMTT(20)
    DEF ExpectedTooBig, Record, staging, MoreSevere, NoResult, Rank
  <2>7. ASSUME SpaceTimeout PROVE Position'
    BY <2>7, <1>0, SMTT(20) DEF SpaceTimeout, Escape, staging, history, Return
  <2>8. ASSUME NoSpace PROVE Position'
    BY <2>8, <1>0, SMTT(20) DEF NoSpace, Escape, Event, staging, Return
  <2>9. ASSUME SpaceUnknown PROVE Position'
    BY <2>9, <1>0, SMTT(20) DEF SpaceUnknown, Escape, Event, staging, Return
  <2>10. ASSUME AgentGone PROVE Position'
    BY <2>10, <1>0, SMTT(20) DEF AgentGone, Escape, Event, staging, Return
  <2> QED BY <1>2, <2>1, <2>2, <2>3, <2>4, <2>5, <2>6, <2>7, <2>8, <2>9, <2>10
          DEF Prepare
<1>3. ASSUME Agent PROVE Position'
  BY <1>3, <1>0, SMTT(20)
  DEF Agent, Delivered, TooBig, AgentFails, AgentTimeout, DiskFills,
      EndDownload, history, Event, staging
<1>4. ASSUME DownloadTimeout PROVE Position'
  BY <1>4, <1>0, SMTT(20) DEF DownloadTimeout, EndDownload, history, staging
<1>5. ASSUME Read PROVE Position'
  <2>1. ASSUME PasswordMissing PROVE Position'
    BY <2>1, <1>0, SMTT(20) DEF PasswordMissing, staging, history
  <2>2. ASSUME ResetDatabase PROVE Position'
    BY <2>2, <1>0, SMTT(20) DEF ResetDatabase, task, history
  <2>3. ASSUME ResetFails PROVE Position'
    BY <2>3, <1>0, SMTT(20) DEF ResetFails, Escape, Event, staging, Return
  <2>4. ASSUME ArchiveEnds PROVE Position'
    BY <2>4, <1>0, SMTT(20)
    DEF ArchiveEnds, WorkerResults, Escape, staging, history, Return
  <2>5. ASSUME DrainEnds PROVE Position'
    BY <2>5, <1>0, SMTT(20)
    DEF DrainEnds, WorkerResults, Escape, staging, history, Return
  <2>6. ASSUME CallbackReturns PROVE Position'
    BY <2>6, <1>0, SMTT(20) DEF CallbackReturns, task, staging, history
  <2>7. ASSUME CallbackRaises PROVE Position'
    BY <2>7, <1>0, SMTT(20) DEF CallbackRaises, Escape, Event, staging, Return
  <2> QED BY <1>5, <2>1, <2>2, <2>3, <2>4, <2>5, <2>6, <2>7 DEF Read
<1>6. ASSUME Files PROVE Position'
  <2>1. ASSUME OpenFile PROVE Position'
    BY <2>1, <1>0, SMTT(20) DEF OpenFile, task, history
  <2>2. ASSUME OpenFails PROVE Position'
    BY <2>2, <1>0, SMTT(20) DEF OpenFails, staging, history
  <2>3. ASSUME CloseFile PROVE Position'
    BY <2>3, <1>0, SMTT(20) DEF CloseFile, Escape, staging, history, Return
  <2>4. ASSUME CloseFails PROVE Position'
    BY <2>4, <1>0, SMTT(20) DEF CloseFails, Event, history, staging
  <2>5. ASSUME RemoveFile PROVE Position'
    BY <2>5, <1>0, SMTT(20)
    DEF RemoveFile, Escape, history, Record, Return, MoreSevere, NoResult, Rank
  <2>6. ASSUME Clean PROVE Position'
    BY <2>6, <1>0, SMTT(20) DEF Clean, NoDisk, task, history
  <2>7. ASSUME Sweep PROVE Position'
    BY <2>7, <1>0, SMTT(20) DEF Sweep, Swept, task, Leave, NoDisk
  <2>8. ASSUME SweepFails PROVE Position'
    BY <2>8, <1>0, SMTT(20) DEF SweepFails, Leave, NoDisk, task
  <2> QED BY <1>6, <2>1, <2>2, <2>3, <2>4, <2>5, <2>6, <2>7, <2>8 DEF Files
<1>7. ASSUME Worker PROVE Position'
  BY <1>7, <1>0, SMTT(20)
  DEF Worker, WorkerScans, WorkerFinishes, WorkerStops, DatabaseTimeout,
      DatabaseError, HasDatabase, task, history, DatabaseStatus, staging, Event
<1>8. ASSUME Cancel PROVE Position'
  BY <1>8, <1>0, SMTT(20)
  DEF Cancel, Event, CancelCreate, CancelDownload, CancelArchive,
      CancelElsewhere, CancelCleanUp, staging, task, Escape, Leave, NoDisk,
      Return
<1>9. ASSUME Expire PROVE Position'
  BY <1>9, <1>0, SMTT(20) DEF Expire, Running, Event, task, staging
<1>10. ASSUME Age PROVE Position'
  BY <1>10, <1>0, SMTT(20) DEF Age, Resting, task, history
<1>11. ASSUME Crash PROVE Position'
  BY <1>11, <1>0, SMTT(20) DEF Crash, Leave, NoDisk, NoResult
<1>12. ASSUME Startup PROVE Position'
  BY <1>12, <1>0, SMTT(20) DEF Startup, Swept, task, Leave, NoDisk
<1> QED BY <1>1, <1>2, <1>3, <1>4, <1>5, <1>6, <1>7, <1>8, <1>9, <1>10, <1>11,
           <1>12
        DEF Next, Coroutine

\* Nothing is removed from under a reader that is still waited for.
LEMMA StagedStep ==
  ASSUME Types, Staged, Next
  PROVE  Staged'
<1>0. /\ disk \in Disks
      /\ copy \in 0..Copies
      /\ cancels \in Nat
  BY PipelineAssumption DEF Types, Results, Position, AtCopy
<1> USE DEF Staged, AtCopy, Disks, counts
<1>1. ASSUME Begin PROVE Staged'
  BY <1>1, <1>0, SMTT(20) DEF Begin, NoResult, NoDisk
<1>2. ASSUME Prepare PROVE Staged'
  BY <1>2, <1>0, SMTT(20)
  DEF Prepare, CreateDirectory, NoCandidates, CreateFails, LoadPrevious,
      SpaceChecked, ExpectedTooBig, SpaceTimeout, NoSpace, SpaceUnknown,
      AgentGone, task, history, Refuse, staging, Record, Escape, Event,
      MoreSevere, NoResult, Return, Rank
<1>3. ASSUME Agent PROVE Staged'
  BY <1>3, <1>0, SMTT(20)
  DEF Agent, Delivered, TooBig, AgentFails, AgentTimeout, DiskFills,
      EndDownload, history, Event, staging
<1>4. ASSUME DownloadTimeout PROVE Staged'
  BY <1>4, <1>0, SMTT(20) DEF DownloadTimeout, EndDownload, history, staging
<1>5. ASSUME Read PROVE Staged'
  BY <1>5, <1>0, SMTT(20)
  DEF Read, PasswordMissing, ResetDatabase, ResetFails, ArchiveEnds, DrainEnds,
      CallbackReturns, CallbackRaises, staging, history, task, Escape, Event,
      WorkerResults, Return
<1>6. ASSUME Files PROVE Staged'
  <2>1. ASSUME OpenFile PROVE Staged'
    BY <2>1, <1>0, SMTT(20) DEF OpenFile, task, history
  <2>2. ASSUME OpenFails PROVE Staged'
    BY <2>2, <1>0, SMTT(20) DEF OpenFails, staging, history
  <2>3. ASSUME CloseFile PROVE Staged'
    BY <2>3, <1>0, SMTT(20) DEF CloseFile, Escape, staging, history, Return
  <2>4. ASSUME CloseFails PROVE Staged'
    BY <2>4, <1>0, SMTT(20) DEF CloseFails, Event, history, staging
  <2>5. ASSUME RemoveFile PROVE Staged'
    BY <2>5, <1>0, SMTT(20)
    DEF RemoveFile, Escape, history, Record, Return, MoreSevere, NoResult, Rank
  <2>6. ASSUME Clean PROVE Staged'
    BY <2>6, <1>0, SMTT(20) DEF Clean, NoDisk, task, history
  <2>7. ASSUME Sweep PROVE Staged'
    BY <2>7, <1>0, SMTT(20) DEF Sweep, Swept, task, Leave, NoDisk
  <2>8. ASSUME SweepFails PROVE Staged'
    BY <2>8, <1>0, SMTT(20) DEF SweepFails, Leave, NoDisk, task
  <2> QED BY <1>6, <2>1, <2>2, <2>3, <2>4, <2>5, <2>6, <2>7, <2>8 DEF Files
<1>7. ASSUME Worker PROVE Staged'
  BY <1>7, <1>0, SMTT(20)
  DEF Worker, WorkerScans, WorkerFinishes, WorkerStops, DatabaseTimeout,
      DatabaseError, HasDatabase, task, history, DatabaseStatus, staging, Event
<1>8. ASSUME Cancel PROVE Staged'
  BY <1>8, <1>0, SMTT(20)
  DEF Cancel, Event, CancelCreate, CancelDownload, CancelArchive,
      CancelElsewhere, CancelCleanUp, staging, task, Escape, Leave, NoDisk,
      Return
<1>9. ASSUME Expire PROVE Staged'
  BY <1>9, <1>0, SMTT(20) DEF Expire, Running, Event, task, staging
<1>10. ASSUME Age PROVE Staged'
  BY <1>10, <1>0, SMTT(20) DEF Age, Resting, task, history
<1>11. ASSUME Crash PROVE Staged'
  BY <1>11, <1>0, SMTT(20) DEF Crash, Leave, NoDisk, NoResult
<1>12. ASSUME Startup PROVE Staged'
  BY <1>12, <1>0, SMTT(20) DEF Startup, Swept, task, Leave, NoDisk
<1> QED BY <1>1, <1>2, <1>3, <1>4, <1>5, <1>6, <1>7, <1>8, <1>9, <1>10, <1>11,
           <1>12
        DEF Next, Coroutine

\* Whatever is concluded about a copy is true of it, from the worker to the
\* verdict.
LEMMA TruthfulStep ==
  ASSUME Types, Position, Truthful, Next
  PROVE  Truthful'
<1>0. /\ disk \in Disks
      /\ copy \in 0..Copies
      /\ failures.best.copy \in 0..Copies
  BY PipelineAssumption DEF Types, Results, Position, AtCopy
<1>a. /\ content \in [1..Copies -> Contents]
      /\ pc = "archive" => copy > 0
      /\ pc = "close" => outcome \notin {"valid", "corrupt", "password_required"}
  BY DEF Types, Position, AtCopy
<1> USE DEF Truthful, HasDatabase, TrueOf, Disks, counts
<1>1. ASSUME Begin PROVE Truthful'
  BY <1>1, <1>0, SMTT(20) DEF Begin, NoResult, NoDisk
<1>2. ASSUME Prepare PROVE Truthful'
  BY <1>2, <1>0, SMTT(20)
  DEF Prepare, CreateDirectory, NoCandidates, CreateFails, LoadPrevious,
      SpaceChecked, ExpectedTooBig, SpaceTimeout, NoSpace, SpaceUnknown,
      AgentGone, task, history, Refuse, staging, Record, Escape, Event,
      MoreSevere, NoResult, Return, Rank
<1>3. ASSUME Agent PROVE Truthful'
  BY <1>3, <1>0, SMTT(20)
  DEF Agent, Delivered, TooBig, AgentFails, AgentTimeout, DiskFills,
      EndDownload, history, Event, staging
<1>4. ASSUME DownloadTimeout PROVE Truthful'
  BY <1>4, <1>0, SMTT(20) DEF DownloadTimeout, EndDownload, history, staging
<1>5. ASSUME Read PROVE Truthful'
  <2>1. ASSUME PasswordMissing PROVE Truthful'
    BY <2>1, <1>0, SMTT(20) DEF PasswordMissing, staging, history
  <2>2. ASSUME ResetDatabase PROVE Truthful'
    BY <2>2, <1>0, SMTT(20) DEF ResetDatabase, task, history
  <2>3. ASSUME ResetFails PROVE Truthful'
    BY <2>3, <1>0, SMTT(20) DEF ResetFails, Escape, Event, staging, Return
  <2>4. ASSUME ArchiveEnds PROVE Truthful'
    BY <2>4, <1>0, SMTT(20)
    DEF ArchiveEnds, WorkerResults, Escape, staging, history, Return
  <2>5. ASSUME DrainEnds PROVE Truthful'
    BY <2>5, <1>0, SMTT(20)
    DEF DrainEnds, WorkerResults, Escape, staging, history, Return
  <2>6. ASSUME CallbackReturns PROVE Truthful'
    BY <2>6, <1>0, SMTT(20) DEF CallbackReturns, task, staging, history
  <2>7. ASSUME CallbackRaises PROVE Truthful'
    BY <2>7, <1>0, SMTT(20) DEF CallbackRaises, Escape, Event, staging, Return
  <2> QED BY <1>5, <2>1, <2>2, <2>3, <2>4, <2>5, <2>6, <2>7 DEF Read
<1>6. ASSUME Files PROVE Truthful'
  <2>1. ASSUME OpenFile PROVE Truthful'
    BY <2>1, <1>0, SMTT(20) DEF OpenFile, task, history
  <2>2. ASSUME OpenFails PROVE Truthful'
    BY <2>2, <1>0, SMTT(20) DEF OpenFails, staging, history
  <2>3. ASSUME CloseFile PROVE Truthful'
    BY <2>3, <1>0, <1>a, SMTT(20)
    DEF CloseFile, Escape, staging, history, Return
  <2>4. ASSUME CloseFails PROVE Truthful'
    BY <2>4, <1>0, SMTT(20) DEF CloseFails, Event, history, staging
  <2>5. ASSUME RemoveFile PROVE Truthful'
    BY <2>5, <1>0, SMTT(20)
    DEF RemoveFile, Escape, history, Record, Return, MoreSevere, NoResult, Rank
  <2>6. ASSUME Clean PROVE Truthful'
    BY <2>6, <1>0, SMTT(20) DEF Clean, NoDisk, task, history
  <2>7. ASSUME Sweep PROVE Truthful'
    BY <2>7, <1>0, SMTT(20) DEF Sweep, Swept, task, Leave, NoDisk
  <2>8. ASSUME SweepFails PROVE Truthful'
    BY <2>8, <1>0, SMTT(20) DEF SweepFails, Leave, NoDisk, task
  <2> QED BY <1>6, <2>1, <2>2, <2>3, <2>4, <2>5, <2>6, <2>7, <2>8 DEF Files
<1>7. ASSUME Worker PROVE Truthful'
  <2>1. ASSUME WorkerScans PROVE Truthful'
    BY <2>1, <1>0, SMTT(20) DEF WorkerScans, task, history
  <2>2. ASSUME WorkerFinishes PROVE Truthful'
    <3> USE <2>2 DEF WorkerFinishes, vars, task, staging, counts, history
    <3>1. CASE pc # "archive"
      BY <3>1, SMTT(20)
    <3>2. CASE pc = "archive"
      <4>1. copy > 0 /\ content[copy] \in Contents /\ content[copy] # "locked"
        BY <1>0, <1>a, <3>2
      <4>f. content[copy] # "flagged"
        BY <3>2
      <4>2. disk.database = IF DatabaseCheck /\ HasDatabase(copy) THEN copy ELSE 0
        BY <3>2
      <4>3. TrueOf(worker', copy) /\ (worker' = "database_failed" => TrueOf("corrupt", copy))
        <5>1. CASE content[copy] = "bad_tail"
          BY <5>1
        <5>2. CASE content[copy] = "too_big"
          BY <5>2
        <5>3. CASE content[copy] \notin {"bad_tail", "too_big"}
          <6>1. worker' = DatabaseStatus
            BY <5>3
          <6> QED BY <6>1, <5>3, <4>1, <4>f, <4>2 DEF DatabaseStatus, Contents
        <5> QED BY <5>1, <5>2, <5>3
      <4>4. worker' \notin {"scan", "rest"}
        BY DEF DatabaseStatus
      <4> QED BY <3>2, <4>3, <4>4, SMTT(20)
    <3> QED BY <3>1, <3>2
  <2>3. ASSUME WorkerStops PROVE Truthful'
    BY <2>3, <1>0, SMTT(20) DEF WorkerStops, task, staging, history
  <2>4. ASSUME DatabaseTimeout PROVE Truthful'
    BY <2>4, <1>0, SMTT(20) DEF DatabaseTimeout, Event, task, staging
  <2>5. ASSUME DatabaseError PROVE Truthful'
    <3>1. /\ disk.database # 0 /\ happened' = happened \cup {"database_error"}
          /\ worker' = "database_failed"
          /\ UNCHANGED <<content, pc, copy, outcome, failures, verdict, disk>>
      BY <2>5 DEF DatabaseError, ChecksDatabase, Event, task, staging
    <3>2. pc = "archive" => DatabaseCheck
      BY <1>0, <3>1, <2>5 DEF DatabaseError, ChecksDatabase
    <3> QED BY <1>0, <3>1, <3>2, SMTT(20)
  <2> QED BY <1>7, <2>1, <2>2, <2>3, <2>4, <2>5 DEF Worker
<1>8. ASSUME Cancel PROVE Truthful'
  BY <1>8, <1>0, SMTT(20)
  DEF Cancel, Event, CancelCreate, CancelDownload, CancelArchive,
      CancelElsewhere, CancelCleanUp, staging, task, Escape, Leave, NoDisk,
      Return
<1>9. ASSUME Expire PROVE Truthful'
  BY <1>9, <1>0, SMTT(20) DEF Expire, Running, Event, task, staging
<1>10. ASSUME Age PROVE Truthful'
  BY <1>10, <1>0, SMTT(20) DEF Age, Resting, task, history
<1>11. ASSUME Crash PROVE Truthful'
  BY <1>11, <1>0, SMTT(20) DEF Crash, Leave, NoDisk, NoResult
<1>12. ASSUME Startup PROVE Truthful'
  BY <1>12, <1>0, SMTT(20) DEF Startup, Swept, task, Leave, NoDisk
<1> QED BY <1>1, <1>2, <1>3, <1>4, <1>5, <1>6, <1>7, <1>8, <1>9, <1>10, <1>11,
           <1>12
        DEF Next, Coroutine

\* A cancellation is not forgotten on its way out.
LEMMA HeededStep ==
  ASSUME Heeded, Next
  PROVE  Heeded'
<1> USE DEF Heeded
<1>1. ASSUME Begin PROVE Heeded'
  BY <1>1, SMTT(20) DEF Begin, NoResult, NoDisk
<1>2. ASSUME Prepare PROVE Heeded'
  BY <1>2, SMTT(20)
  DEF Prepare, CreateDirectory, NoCandidates, CreateFails, LoadPrevious,
      SpaceChecked, ExpectedTooBig, SpaceTimeout, NoSpace, SpaceUnknown,
      AgentGone, task, counts, history, Refuse, staging, Record, Escape, Event,
      MoreSevere, NoResult, Return, Rank
<1>3. ASSUME Agent PROVE Heeded'
  BY <1>3, SMTT(20)
  DEF Agent, Delivered, TooBig, AgentFails, AgentTimeout, DiskFills,
      EndDownload, history, Event, staging, counts
<1>4. ASSUME DownloadTimeout PROVE Heeded'
  BY <1>4, SMTT(20) DEF DownloadTimeout, EndDownload, history, staging, counts
<1>5. ASSUME Read PROVE Heeded'
  BY <1>5, SMTT(20)
  DEF Read, PasswordMissing, ResetDatabase, ResetFails, ArchiveEnds, DrainEnds,
      CallbackReturns, CallbackRaises, staging, counts, history, task, Escape,
      Event, WorkerResults, Return
<1>6. ASSUME Files PROVE Heeded'
  BY <1>6, SMTT(20)
  DEF Files, OpenFile, OpenFails, CloseFile, CloseFails, RemoveFile, Clean,
      Sweep, SweepFails, task, counts, history, staging, Escape, Event, Record,
      NoDisk, Swept, Leave, Return, MoreSevere, NoResult, Rank
<1>7. ASSUME Worker PROVE Heeded'
  BY <1>7, SMTT(20)
  DEF Worker, WorkerScans, WorkerFinishes, WorkerStops, DatabaseTimeout,
      DatabaseError, HasDatabase, task, counts, history, DatabaseStatus, staging, Event
<1>8. ASSUME Cancel PROVE Heeded'
  BY <1>8, SMTT(20)
  DEF Cancel, Event, CancelCreate, CancelDownload, CancelArchive,
      CancelElsewhere, CancelCleanUp, staging, task, Escape, Leave, NoDisk,
      Return
<1>9. ASSUME Expire PROVE Heeded'
  BY <1>9, SMTT(20) DEF Expire, Running, Event, task, staging, counts
<1>10. ASSUME Age PROVE Heeded'
  BY <1>10, SMTT(20) DEF Age, Resting, task, counts, history
<1>11. ASSUME Crash PROVE Heeded'
  BY <1>11, SMTT(20) DEF Crash, Leave, NoDisk, NoResult
<1>12. ASSUME Startup PROVE Heeded'
  BY <1>12, SMTT(20) DEF Startup, Swept, task, counts, Leave, NoDisk
<1> QED BY <1>1, <1>2, <1>3, <1>4, <1>5, <1>6, <1>7, <1>8, <1>9, <1>10, <1>11,
           <1>12
        DEF Next, Coroutine

\* What a clean-up leaves behind is reported by it.
LEMMA ReportedStep ==
  ASSUME Types, Reported, Next
  PROVE  Reported'
<1>0. /\ left \subseteq {"recent", "stale"}
      /\ unclean \in BOOLEAN
  BY PipelineAssumption DEF Types, Results, Position, AtCopy
<1> USE DEF Reported, Running, LeftoversReported, counts
<1>1. ASSUME Begin PROVE Reported'
  BY <1>1, <1>0, SMTT(20) DEF Begin, NoResult, NoDisk
<1>2. ASSUME Prepare PROVE Reported'
  BY <1>2, <1>0, SMTT(20)
  DEF Prepare, CreateDirectory, NoCandidates, CreateFails, LoadPrevious,
      SpaceChecked, ExpectedTooBig, SpaceTimeout, NoSpace, SpaceUnknown,
      AgentGone, task, history, Refuse, staging, Record, Escape, Event,
      MoreSevere, NoResult, Return, Rank
<1>3. ASSUME Agent PROVE Reported'
  BY <1>3, <1>0, SMTT(20)
  DEF Agent, Delivered, TooBig, AgentFails, AgentTimeout, DiskFills,
      EndDownload, history, Event, staging
<1>4. ASSUME DownloadTimeout PROVE Reported'
  BY <1>4, <1>0, SMTT(20) DEF DownloadTimeout, EndDownload, history, staging
<1>5. ASSUME Read PROVE Reported'
  BY <1>5, <1>0, SMTT(20)
  DEF Read, PasswordMissing, ResetDatabase, ResetFails, ArchiveEnds, DrainEnds,
      CallbackReturns, CallbackRaises, staging, history, task, Escape, Event,
      WorkerResults, Return
<1>6. ASSUME Files PROVE Reported'
  <2>1. ASSUME OpenFile PROVE Reported'
    BY <2>1, <1>0, SMTT(20) DEF OpenFile, task, history
  <2>2. ASSUME OpenFails PROVE Reported'
    BY <2>2, <1>0, SMTT(20) DEF OpenFails, staging, history
  <2>3. ASSUME CloseFile PROVE Reported'
    BY <2>3, <1>0, SMTT(20) DEF CloseFile, Escape, staging, history, Return
  <2>4. ASSUME CloseFails PROVE Reported'
    BY <2>4, <1>0, SMTT(20) DEF CloseFails, Event, history, staging
  <2>5. ASSUME RemoveFile PROVE Reported'
    BY <2>5, <1>0, SMTT(20)
    DEF RemoveFile, Escape, history, Record, Return, MoreSevere, NoResult, Rank
  <2>6. ASSUME Clean PROVE Reported'
    BY <2>6, <1>0, SMTT(20) DEF Clean, NoDisk, task, history
  <2>7. ASSUME Sweep PROVE Reported'
    <3>1. PICK remaining \in SUBSET {"recent", "stale"} :
            Swept(remaining) /\ issue' = (unclean \/ remaining # {})
      BY <2>7, Zenon DEF Sweep
    <3>2. left' = remaining /\ pc' = "done"
      BY <2>7, <3>1 DEF Sweep, Swept
    <3>3. remaining # {} => issue'
      BY <3>1, Zenon
    <3> QED BY <3>2, <3>3
  <2>8. ASSUME SweepFails PROVE Reported'
    BY <2>8, <1>0, SMTT(20) DEF SweepFails, Leave, NoDisk, task
  <2> QED BY <1>6, <2>1, <2>2, <2>3, <2>4, <2>5, <2>6, <2>7, <2>8 DEF Files
<1>7. ASSUME Worker PROVE Reported'
  BY <1>7, <1>0, SMTT(20)
  DEF Worker, WorkerScans, WorkerFinishes, WorkerStops, DatabaseTimeout,
      DatabaseError, HasDatabase, task, history, DatabaseStatus, staging, Event
<1>8. ASSUME Cancel PROVE Reported'
  BY <1>8, <1>0, SMTT(20)
  DEF Cancel, Event, CancelCreate, CancelDownload, CancelArchive,
      CancelElsewhere, CancelCleanUp, staging, task, Escape, Leave, NoDisk,
      Return
<1>9. ASSUME Expire PROVE Reported'
  BY <1>9, <1>0, SMTT(20) DEF Expire, Event, task, staging
<1>10. ASSUME Age PROVE Reported'
  BY <1>10, <1>0, SMTT(20) DEF Age, Resting, task, history
<1>11. ASSUME Crash PROVE Reported'
  BY <1>11, <1>0, SMTT(20) DEF Crash, Leave, NoDisk, NoResult
<1>12. ASSUME Startup PROVE Reported'
  <2>1. PICK remaining \in SUBSET {"recent", "stale"} :
          Swept(remaining) /\ issue' \in {remaining # {}, TRUE}
    BY <1>12, Zenon DEF Startup
  <2>2. left' = remaining /\ pc' = "idle"
    BY <1>12, <2>1 DEF Startup, Swept
  <2>3. remaining # {} => issue'
    BY <2>1, Zenon
  <2> QED BY <2>2, <2>3
<1> QED BY <1>1, <1>2, <1>3, <1>4, <1>5, <1>6, <1>7, <1>8, <1>9, <1>10, <1>11,
           <1>12
        DEF Next, Coroutine

-----------------------------------------------------------------------------
\* A process starts with a start-up sweep ahead and no check.
LEMMA InitEstablishes == Init => IInv
<1> SUFFICES ASSUME Init PROVE IInv
  OBVIOUS
<1>1. left \in SUBSET {"recent", "stale"}
  BY DEF Init
<1>a. /\ unclean \in BOOLEAN /\ issue \in BOOLEAN
      /\ expired \in BOOLEAN /\ swept \in BOOLEAN
  BY Zenon DEF Init
<1>b. /\ content \in [1..Copies -> Contents]
      /\ pc = "startup" /\ copy = 0 /\ outcome = "none" /\ worker = "none"
      /\ failures = [best |-> NoResult, count |-> 0] /\ verdict = NoResult
      /\ disk = NoDisk /\ cancels = 0 /\ checks = 0 /\ tried = <<>>
  BY DEF Init
<1>2. Types
  BY <1>1, <1>a, <1>b, NoDiskIsDisk, NoResultTypes, PipelineAssumption
  DEF Types, Running, Resting, Outcomes
<1>3. Position
  BY PipelineAssumption DEF Init, Position, AtCopy
<1>4. Staged
  BY DEF Init, Staged, AtCopy
<1>5. Truthful
  BY DEF Init, Truthful, NoResult
<1>6. Heeded
  BY DEF Init, Heeded
<1>7. Reported
  BY DEF Init, Reported, LeftoversReported, Running
<1> QED BY <1>2, <1>3, <1>4, <1>5, <1>6, <1>7 DEF IInv

\* The six parts hold one another up: the position bounds the copies, the
\* types the records, and the rest need both.
LEMMA Invariance == IInv /\ [Next]_vars => IInv'
<1> SUFFICES ASSUME IInv, [Next]_vars PROVE IInv'
  OBVIOUS
<1>1. CASE Next
  BY <1>1, TypesStep, PositionStep, StagedStep, TruthfulStep, HeededStep,
     ReportedStep
  DEF IInv
<1>2. CASE UNCHANGED vars
  <2> USE <1>2 DEF vars, task, staging, history, counts
  <2>1. Types'
    BY DEF IInv, Types
  <2>2. Position' /\ Staged'
    BY DEF IInv, Position, Staged
  <2>3. Truthful'
    BY DEF IInv, Truthful, TrueOf, HasDatabase
  <2>4. Heeded' /\ Reported'
    BY DEF IInv, Heeded, Reported, LeftoversReported
  <2> QED BY <2>1, <2>2, <2>3, <2>4 DEF IInv
<1> QED BY <1>1, <1>2

\* The inductive invariant, from which the properties below follow.
THEOREM Inductive == Spec => []IInv
BY InitEstablishes, Invariance, PTL DEF Spec

\* Every variable stays in its range, whatever the storage agents, the worker
\* and the file system do.
THEOREM TypeCorrect == Spec => []TypeOK
<1>1. IInv => TypeOK
  <2> SUFFICES ASSUME IInv PROVE TypeOK
    OBVIOUS
  <2>1. Types /\ Len(tried) <= Copies
    BY DEF IInv, Position
  <2>2. /\ disk.dir \in BOOLEAN /\ disk.archives \subseteq 1..Copies
        /\ disk.database \in 0..Copies
    BY <2>1 DEF Types, Disks
  <2>3. /\ outcome \in DOMAIN Rank \cup {"downloaded", "cancelled", "timeout", "space"}
        /\ failures.best.status \in DOMAIN Rank /\ failures.count \in 0..Copies
        /\ verdict.copy \in 0..Copies
    <3>1. DOMAIN Rank = {"none"} \cup Failures
      BY DEF Rank, Failures
    <3> QED BY <2>1, <3>1 DEF Types, Outcomes, Results
  <2> QED BY <2>1, <2>2, <2>3 DEF TypeOK, Types
<1> QED BY <1>1, Inductive, PTL

\* However the copies differ, fail or leave a database behind, a verdict about
\* one of them is true of that one (async_verify, _verify_archive).
THEOREM VerdictsAreTrue == Spec => []VerdictIsTrue
<1>1. IInv => VerdictIsTrue
  BY Zenon DEF IInv, Truthful, TrueOf, VerdictIsTrue
<1> QED BY <1>1, Inductive, PTL

\* No order of clean-up and cancellation removes the staged archive while the
\* worker or the runtime test still reads it, unless the wait for the worker
\* is cancelled as well (_async_archive_details).
THEOREM StagingOutlivesReaders == Spec => []StagedWhileRead
<1>1. IInv => StagedWhileRead
  BY PipelineAssumption DEF IInv, Types, Staged, StagedWhileRead, AtCopy
<1> QED BY <1>1, Inductive, PTL

\* A directory that a clean-up or a process left behind is on record for the
\* user after every sweep that ends (_async_cleanup_verification_data).
THEOREM LeftoversAreReported == Spec => []LeftoversReported
<1>1. IInv => LeftoversReported
  BY DEF IInv, Reported
<1> QED BY <1>1, Inductive, PTL

\* A cancelled check ends as a cancelled one wherever it was, unless closing
\* the file failed on the way out.
THEOREM CancellationIsHeeded == Spec => []CancelIsHeeded
<1>1. IInv => CancelIsHeeded
  BY DEF IInv, Heeded, CancelIsHeeded
<1> QED BY <1>1, Inductive, PTL

-----------------------------------------------------------------------------
(* The check implements CopyFallback: every step is one of its steps or    *)
(* leaves what its caller sees as it was.                                  *)

\* What makes an answer one that CopyFallback gives: a copy is judged, all
\* have failed, or an event concerns all of them.
Settled ==
  \/ /\ verdict.status \in {"valid", "corrupt"}
     /\ Len(tried) < Copies
     /\ verdict = [status |-> verdict.status, copy |-> Len(tried) + 1]
  \/ Len(tried) = Copies /\ verdict = Promise!AllFailed(tried)
  \/ /\ verdict.status \in DOMAIN Promise!Causes
     /\ verdict = [status |-> verdict.status, copy |-> 0]
     /\ Promise!Causes[verdict.status] \intersect happened # {}

\* The best failure on record is the first of the worst ones; failed downloads
\* leave none.
BestOf(best, failed) ==
  \/ best = NoResult /\ \A i \in 1..Len(failed) : failed[i] = "download_failed"
  \/ /\ best.copy \in 1..Len(failed)
     /\ best.status = failed[best.copy] /\ best.status # "download_failed"
     /\ \A i \in 1..Len(failed) : Rank[failed[i]] <= Rank[best.status]
     /\ \A i \in 1..best.copy - 1 : Rank[failed[i]] < Rank[best.status]

Remembered == pc \in AtCopy \cup {"create", "load"} => BestOf(failures.best, tried)

\* Whatever makes the check give up for all copies has happened.
Caused ==
  /\ happened \subseteq Promise!Events \cup NoCause
  /\ expired => "deadline" \in happened
  /\ pc \in {"close", "remove"} =>
       /\ outcome = "timeout" => {"deadline", "agent_timeout"} \intersect happened # {}
       /\ outcome = "space" => "space" \in happened
  /\ pc = "close" /\ outcome = "cancelled" => "cancel" \in happened
  /\ pc = "drain" => "cancel" \in happened
  /\ pc = "archive" /\ worker = "timeout" =>
       {"deadline", "database_timeout"} \intersect happened # {}

Answered ==
  /\ pc = "callback" =>
       /\ verdict.status \in {"valid", "corrupt"}
       /\ verdict = [status |-> verdict.status, copy |-> copy]
  /\ pc \in {"clean", "sweep"} => Settled

RInv == Remembered /\ Caused /\ Answered

\* CopyFallback and the check rank the failures alike.
LEMMA RanksAgree ==
  /\ Promise!Failures = Failures
  /\ \A f \in Failures : Promise!Rank[f] = Rank[f] /\ Rank[f] \in Nat
  /\ \A f \in Failures \ {"download_failed"} : Rank[f] > 0
  /\ Rank["download_failed"] = 0 /\ Rank["none"] = 0
BY DEF Promise!Failures, Promise!Rank, Failures, Rank

\* When the last copy has failed, what is on record is what CopyFallback
\* answers: the worst failure and the earliest of equals.
LEMMA WorstIsOnRecord ==
  ASSUME NEW failed \in Seq(Failures), Len(failed) > 0, NEW best, BestOf(best, failed),
         best.copy \in Nat, best = [status |-> best.status, copy |-> best.copy]
  PROVE  Promise!AllFailed(failed) =
           IF best = NoResult THEN [status |-> "unreadable", copy |-> 0] ELSE best
<1> DEFINE n == Len(failed)
           First(c) == /\ \A d \in DOMAIN failed : Promise!Rank[failed[d]] <= Promise!Rank[failed[c]]
                       /\ \A d \in 1..c-1 : Promise!Rank[failed[d]] < Promise!Rank[failed[c]]
           worst == Promise!Worst(failed)
<1>1. n \in Nat /\ n > 0 /\ DOMAIN failed = 1..n /\ \A i \in 1..n : failed[i] \in Failures
  OBVIOUS
<1>2. \A i \in 1..n : Promise!Rank[failed[i]] = Rank[failed[i]] /\ Rank[failed[i]] \in Nat
  BY <1>1, RanksAgree
<1>3. worst = CHOOSE c \in DOMAIN failed : First(c)
  BY Zenon DEF Promise!Worst
<1>4. Promise!AllFailed(failed) =
        IF failed[worst] = "download_failed" THEN [status |-> "unreadable", copy |-> 0]
        ELSE [status |-> failed[worst], copy |-> worst]
  BY Zenon DEF Promise!AllFailed
<1>5. CASE best = NoResult /\ \A i \in 1..n : failed[i] = "download_failed"
  <2>1. 1 \in 1..n /\ First(1)
    BY <1>1, <1>2, <1>5, RanksAgree
  <2>2. worst \in DOMAIN failed
    <3> HIDE DEF First, worst
    <3> QED BY <1>1, <1>3, <2>1
  <2>3. failed[worst] = "download_failed"
    BY <1>1, <1>5, <2>2
  <2> QED BY <1>4, <1>5, <2>3
<1>6. CASE /\ best.copy \in 1..n
           /\ best.status = failed[best.copy] /\ best.status # "download_failed"
           /\ \A i \in 1..n : Rank[failed[i]] <= Rank[best.status]
           /\ \A i \in 1..best.copy - 1 : Rank[failed[i]] < Rank[best.status]
  <2>1. First(best.copy) /\ best.copy \in DOMAIN failed
    <3>1. \A i \in 1..best.copy - 1 : i \in 1..n
      BY <1>1, <1>6
    <3> QED BY <1>1, <1>2, <1>6, <3>1
  <2>2. worst \in DOMAIN failed /\ First(worst)
    <3> HIDE DEF First, worst
    <3> QED BY <1>3, <2>1
  <2>3. worst = best.copy
    <3>1. Rank[failed[worst]] \in Nat /\ Rank[best.status] \in Nat /\ worst \in 1..n
          /\ Rank[failed[worst]] = Promise!Rank[failed[worst]]
          /\ Rank[best.status] = Promise!Rank[failed[best.copy]]
      BY <1>1, <1>2, <1>6, <2>2
    <3>2. ~ worst < best.copy
      BY <3>1, <2>1, <2>2, <1>1, <1>6
    <3>3. ~ best.copy < worst
      BY <3>1, <2>1, <2>2, <1>1, <1>6
    <3> QED BY <3>1, <3>2, <3>3, <1>6
  <2>4. best # NoResult
    BY <1>6 DEF NoResult
  <2> QED BY <1>4, <1>6, <2>3, <2>4
<1> QED BY <1>5, <1>6 DEF BestOf

\* After one more failure the best on record is the first of the worst again.
LEMMA RecordRemembers ==
  ASSUME Types, Position, pc \in {"space", "remove"}, NEW f \in Failures, Record(f),
         BestOf(failures.best, tried)
  PROVE  BestOf(failures'.best, tried')
<1> DEFINE best == failures.best
           n == Len(tried)
           recorded == [status |-> f, copy |-> copy]
<1>1. /\ copy \in Nat /\ copy = n + 1 /\ n \in Nat /\ tried \in Seq(Failures)
      /\ best \in [status : {"none"} \cup Failures, copy : 0..Copies]
  BY DEF Types, Position, AtCopy
<1>2. tried' = Append(tried, f) /\ failures'.best = IF MoreSevere(f) THEN recorded ELSE best
  BY DEF Record
<1>3. /\ Len(tried') = n + 1 /\ tried'[n + 1] = f
      /\ \A i \in 1..n : tried'[i] = tried[i] /\ tried[i] \in Failures
  BY <1>1, <1>2
<1>4. Rank[f] \in Nat /\ Rank[best.status] \in Nat /\ \A i \in 1..n : Rank[tried[i]] \in Nat
  <2>1. Rank["none"] \in Nat /\ \A x \in Failures : Rank[x] \in Nat
    BY RanksAgree
  <2> QED BY <1>1, <1>3, <2>1
<1>5. \A i \in 1..n : Rank[tried[i]] <= Rank[best.status]
  <2>1. CASE best = NoResult /\ \A i \in 1..n : tried[i] = "download_failed"
    BY <2>1, RanksAgree DEF NoResult
  <2>2. CASE \A i \in 1..n : Rank[tried[i]] <= Rank[best.status]
    BY <2>2
  <2> QED BY <2>1, <2>2 DEF BestOf
<1>6. CASE MoreSevere(f)
  <2>1. Rank[f] > Rank[best.status] /\ f # "download_failed"
    BY <1>4, <1>6, RanksAgree DEF MoreSevere
  <2>2. failures'.best.copy = n + 1 /\ failures'.best.status = f
    BY <1>1, <1>2, <1>6
  <2>3. \A i \in 1..n : Rank[tried'[i]] < Rank[f]
    BY <1>3, <1>4, <1>5, <2>1
  <2>4. \A i \in 1..(n + 1) : Rank[tried'[i]] <= Rank[f]
    BY <1>1, <1>3, <1>4, <2>3
  <2>5. 1..(failures'.best.copy - 1) = 1..n
    BY <1>1, <2>2
  <2> QED BY <1>1, <1>3, <2>1, <2>2, <2>3, <2>4, <2>5 DEF BestOf
<1>7. CASE ~ MoreSevere(f)
  <2>1. failures'.best = best /\ Rank[f] <= Rank[best.status]
    BY <1>2, <1>4, <1>7 DEF MoreSevere
  <2>2. CASE best = NoResult /\ \A i \in 1..n : tried[i] = "download_failed"
    <3>1. f = "download_failed"
      BY <1>4, <2>1, <2>2, RanksAgree DEF NoResult
    <3>2. \A i \in 1..(n + 1) : tried'[i] = "download_failed"
      BY <1>1, <1>3, <2>2, <3>1
    <3> QED BY <1>3, <2>1, <2>2, <3>2 DEF BestOf
  <2>3. CASE /\ best.copy \in 1..n
             /\ best.status = tried[best.copy] /\ best.status # "download_failed"
             /\ \A i \in 1..best.copy - 1 : Rank[tried[i]] < Rank[best.status]
    <3>1. best.copy \in 1..(n + 1) /\ best.status = tried'[best.copy]
      BY <1>1, <1>3, <2>3
    <3>2. \A i \in 1..(n + 1) : Rank[tried'[i]] <= Rank[best.status]
      BY <1>1, <1>3, <1>5, <2>1
    <3>3. \A i \in 1..best.copy - 1 : i \in 1..n /\ Rank[tried'[i]] < Rank[best.status]
      BY <1>1, <1>3, <2>3
    <3> QED BY <1>3, <2>1, <2>3, <3>1, <3>2, <3>3 DEF BestOf
  <2> QED BY <2>2, <2>3 DEF BestOf
<1> QED BY <1>6, <1>7

-----------------------------------------------------------------------------
\* The events of CopyFallback, by name.
LEMMA EventNames ==
  /\ DOMAIN Promise!Causes = {"aborted", "unreadable", "raised", "cancelled"}
  /\ Promise!Causes["aborted"] = {"deadline", "space", "database_timeout", "agent_timeout"}
  /\ Promise!Causes["unreadable"] = {"inventory", "staging"}
  /\ Promise!Causes["raised"] = {"staging", "agent_gone", "runner"}
  /\ Promise!Causes["cancelled"] = {"cancel"}
  /\ Promise!Events = {"deadline", "space", "database_timeout", "agent_timeout", "inventory",
                       "staging", "agent_gone", "runner", "cancel"}
<1>1. /\ DOMAIN Promise!Causes = {"aborted", "unreadable", "raised", "cancelled"}
      /\ Promise!Causes["aborted"] = {"deadline", "space", "database_timeout", "agent_timeout"}
      /\ Promise!Causes["unreadable"] = {"inventory", "staging"}
      /\ Promise!Causes["raised"] = {"staging", "agent_gone", "runner"}
      /\ Promise!Causes["cancelled"] = {"cancel"}
  BY DEF Promise!Causes
<1>2. \A e : e \in Promise!Events <=> \E s \in DOMAIN Promise!Causes : e \in Promise!Causes[s]
  BY Zenon DEF Promise!Events
<1> HIDE DEF Promise!Causes
<1> QED BY <1>1, <1>2

\* The step is not one that a caller sees in the answer.
Kept == \/ pc # "done" /\ pc' # "done"
        \/ pc' = pc /\ verdict' = verdict

\* A step that changes neither the answer nor what has happened.
LEMMA Silent ==
  ASSUME Kept, tried' = tried, happened \subseteq happened',
         happened' \subseteq happened \cup NoCause
  PROVE  UNCHANGED Promise!vars
<1>1. (happened \ NoCause)' = happened \ NoCause
  OBVIOUS
<1>2. (IF pc = "done" THEN verdict ELSE NoResult)' = IF pc = "done" THEN verdict ELSE NoResult
  BY DEF Kept
<1> QED BY <1>1, <1>2 DEF Promise!vars

\* A step by which something happens, and nothing else its caller sees.
LEMMA HappenStep ==
  ASSUME Kept, tried' = tried, NEW e \in Promise!Events, happened' = happened \cup {e}
  PROVE  Promise!Next
<1>1. e \notin NoCause
  BY EventNames DEF NoCause
<1>2. (happened \ NoCause)' = (happened \ NoCause) \cup {e}
  BY <1>1
<1>3. (IF pc = "done" THEN verdict ELSE NoResult)' = IF pc = "done" THEN verdict ELSE NoResult
  BY DEF Kept
<1>4. Promise!Happen(e)
  BY <1>2, <1>3 DEF Promise!Happen
<1> QED BY <1>4 DEF Promise!Next

\* A new check, or a new process, starts with nothing.
LEMMA BeginStep ==
  ASSUME pc' # "done", tried' = <<>>, happened' = {}
  PROVE  Promise!Next
<1>1. Promise!Begin
  BY DEF Promise!Begin, Promise!NoAnswer, NoResult
<1> QED BY <1>1 DEF Promise!Next

\* A check that gives up at once, for a cause that concerns every copy.
LEMMA GiveUpStep ==
  ASSUME pc # "done", pc' = "done", tried' = tried,
         NEW s \in DOMAIN Promise!Causes, NEW e \in Promise!Causes[s],
         verdict' = [status |-> s, copy |-> 0], happened' = happened \cup {e}
  PROVE  Promise!Next
<1>1. e \notin NoCause
  BY EventNames DEF NoCause
<1>2. (happened \ NoCause)' = (happened \ NoCause) \cup {e}
  BY <1>1
<1>3. Promise!GiveUp(s)
  BY <1>2 DEF Promise!GiveUp, Promise!NoAnswer, NoResult
<1> QED BY <1>3 DEF Promise!Next

\* A copy that fails on its own account.
LEMMA FailStep ==
  ASSUME pc # "done", pc' # "done", Len(tried) < Copies, NEW f \in Failures,
         tried' = Append(tried, f), happened' = happened
  PROVE  Promise!Next
<1>1. Promise!Fail(f)
  BY DEF Promise!Fail, Promise!NoAnswer, NoResult
<1> QED BY <1>1, RanksAgree DEF Promise!Next

\* The answer is given when the clean-up is over.
LEMMA AnswerStep ==
  ASSUME pc # "done", pc' = "done", Settled, verdict' = verdict,
         tried' = tried, happened' = happened
  PROVE  Promise!Next
<1>1. CASE /\ verdict.status \in {"valid", "corrupt"}
           /\ Len(tried) < Copies /\ verdict = [status |-> verdict.status, copy |-> Len(tried) + 1]
  <2>1. Promise!Judge(verdict.status)
    BY <1>1 DEF Promise!Judge, Promise!NoAnswer, NoResult
  <2> QED BY <1>1, <2>1 DEF Promise!Next
<1>2. CASE Len(tried) = Copies /\ verdict = Promise!AllFailed(tried)
  <2>1. Promise!Exhaust
    BY <1>2 DEF Promise!Exhaust, Promise!NoAnswer, NoResult
  <2> QED BY <2>1 DEF Promise!Next
<1>3. CASE /\ verdict.status \in DOMAIN Promise!Causes
           /\ verdict = [status |-> verdict.status, copy |-> 0]
           /\ Promise!Causes[verdict.status] \intersect happened # {}
  <2>1. PICK e \in Promise!Causes[verdict.status] : e \in happened
    BY <1>3
  <2>2. happened' = happened \cup {e}
    BY <2>1
  <2> QED BY <1>3, <2>1, <2>2, GiveUpStep
<1> QED BY <1>1, <1>2, <1>3 DEF Settled

-----------------------------------------------------------------------------
\* The record of failures follows the failures.
LEMMA RememberedStep ==
  ASSUME IInv, Remembered, Next
  PROVE  Remembered'
<1>0. Types /\ Position
  BY DEF IInv
<1> USE DEF Remembered, AtCopy
<1>a. ASSUME failures' = failures, tried' = tried,
             pc' \in AtCopy \cup {"create", "load"} => pc \in AtCopy \cup {"create", "load"}
      PROVE  Remembered'
  BY <1>a DEF BestOf
<1>b. ASSUME NEW f \in Failures, pc \in {"space", "remove"}, Record(f)
      PROVE  Remembered'
  BY <1>0, <1>b, RecordRemembers
<1>c. ASSUME failures'.best = NoResult, tried' = <<>>
      PROVE  Remembered'
  BY <1>c DEF BestOf
<1>1. ASSUME Begin PROVE Remembered'
  BY <1>1, <1>c DEF Begin
<1>2. ASSUME Prepare PROVE Remembered'
  <2>1. CASE ExpectedTooBig
    BY <2>1, <1>b DEF ExpectedTooBig, Failures
  <2>2. CASE ~ExpectedTooBig
    BY <1>2, <2>2, <1>a
    DEF Prepare, CreateDirectory, NoCandidates, CreateFails, LoadPrevious,
        SpaceChecked, SpaceTimeout, NoSpace, SpaceUnknown,
        AgentGone, task, history, Refuse, Escape, Event, Return
  <2> QED BY <2>1, <2>2
<1>3. ASSUME Agent PROVE Remembered'
  BY <1>3, <1>a
  DEF Agent, Delivered, TooBig, AgentFails, AgentTimeout, DiskFills,
      EndDownload, history, Event
<1>4. ASSUME DownloadTimeout PROVE Remembered'
  BY <1>4, <1>a DEF DownloadTimeout, EndDownload, history
<1>5. ASSUME Read PROVE Remembered'
  BY <1>5, <1>a
  DEF Read, PasswordMissing, ResetDatabase, ResetFails, ArchiveEnds, DrainEnds,
      CallbackReturns, CallbackRaises, history, task, Escape, Event, Return
<1>6. ASSUME Files PROVE Remembered'
  <2>1. CASE RemoveFile /\ outcome \notin {"timeout", "space"}
    <3>1. Record(outcome) /\ pc = "remove" /\ outcome \in Failures
      BY <2>1, <1>0 DEF RemoveFile, Position
    <3> QED BY <3>1, <1>b
  <2>2. CASE RemoveFile /\ outcome \in {"timeout", "space"}
    BY <2>2, <1>a DEF RemoveFile, Escape, Return, history
  <2>3. CASE ~RemoveFile
    BY <1>6, <2>3, <1>a
    DEF Files, OpenFile, OpenFails, CloseFile, CloseFails, Clean,
        Sweep, SweepFails, task, history, Escape, Event, Return
  <2> QED BY <2>1, <2>2, <2>3
<1>7. ASSUME Worker PROVE Remembered'
  BY <1>7, <1>a
  DEF Worker, WorkerScans, WorkerFinishes, WorkerStops, DatabaseTimeout,
      DatabaseError, task, history, Event
<1>8. ASSUME Cancel PROVE Remembered'
  BY <1>8, <1>a
  DEF Cancel, Event, CancelCreate, CancelDownload, CancelArchive,
      CancelElsewhere, CancelCleanUp, task, Escape, Return
<1>9. ASSUME Expire PROVE Remembered'
  BY <1>9, <1>a DEF Expire, Event, task
<1>10. ASSUME Age PROVE Remembered'
  BY <1>10, <1>a DEF Age, task, history
<1>11. ASSUME Crash PROVE Remembered'
  BY <1>11, <1>c DEF Crash
<1>12. ASSUME Startup PROVE Remembered'
  BY <1>12, <1>a DEF Startup, task
<1> QED BY <1>1, <1>2, <1>3, <1>4, <1>5, <1>6, <1>7, <1>8, <1>9, <1>10, <1>11,
           <1>12
        DEF Next, Coroutine

\* Nothing makes the check give up that has not happened.
LEMMA CausedStep ==
  ASSUME IInv, Caused, Next
  PROVE  Caused'
<1>0. /\ pc \in {"archive", "drain"} => outcome \in Outcomes
      /\ worker \in {"none", "scan", "rest"} \cup WorkerResults
  BY DEF IInv, Types
<1> DEFINE known == Promise!Events \cup NoCause
<1>e. {"deadline", "space", "database_timeout", "agent_timeout", "inventory",
       "staging", "agent_gone", "runner", "cancel", "masked", "database_error"} = known
  BY EventNames DEF NoCause
<1> HIDE DEF known
<1>f. Caused <=>
        /\ happened \subseteq known
        /\ expired => "deadline" \in happened
        /\ pc \in {"close", "remove"} =>
             /\ outcome = "timeout" => {"deadline", "agent_timeout"} \intersect happened # {}
             /\ outcome = "space" => "space" \in happened
        /\ pc = "close" /\ outcome = "cancelled" => "cancel" \in happened
        /\ pc = "drain" => "cancel" \in happened
        /\ pc = "archive" /\ worker = "timeout" =>
             {"deadline", "database_timeout"} \intersect happened # {}
  BY DEF Caused, known
<1>g. Caused' <=>
        /\ happened' \subseteq known
        /\ expired' => "deadline" \in happened'
        /\ pc' \in {"close", "remove"} =>
             /\ outcome' = "timeout" => {"deadline", "agent_timeout"} \intersect happened' # {}
             /\ outcome' = "space" => "space" \in happened'
        /\ pc' = "close" /\ outcome' = "cancelled" => "cancel" \in happened'
        /\ pc' = "drain" => "cancel" \in happened'
        /\ pc' = "archive" /\ worker' = "timeout" =>
             {"deadline", "database_timeout"} \intersect happened' # {}
  BY DEF Caused, known
<1>h. ASSUME NEW S, S \intersect happened # {}, happened \subseteq happened'
      PROVE  S \intersect happened' # {}
  BY <1>h
<1>1. ASSUME Begin PROVE Caused'
  BY <1>1, <1>g, SMTT(20) DEF Begin
<1>2. ASSUME Prepare PROVE Caused'
  BY <1>2, <1>0, <1>e, <1>f, <1>g, SMTT(20)
  DEF Prepare, CreateDirectory, NoCandidates, CreateFails, LoadPrevious,
      SpaceChecked, ExpectedTooBig, SpaceTimeout, NoSpace, SpaceUnknown,
      AgentGone, task, history, Refuse, Escape, Event, Return, Record
<1>3. ASSUME Agent PROVE Caused'
  BY <1>3, <1>0, <1>e, <1>f, <1>g, SMTT(20)
  DEF Agent, Delivered, TooBig, AgentFails, AgentTimeout, DiskFills,
      EndDownload, history, Event
<1>4. ASSUME DownloadTimeout PROVE Caused'
  BY <1>4, <1>0, <1>e, <1>f, <1>g, SMTT(20) DEF DownloadTimeout, EndDownload, history
<1>5. ASSUME Read PROVE Caused'
  BY <1>5, <1>0, <1>e, <1>f, <1>g, SMTT(20)
  DEF Read, PasswordMissing, ResetDatabase, ResetFails, ArchiveEnds, DrainEnds,
      CallbackReturns, CallbackRaises, history, task, Escape, Event, Return, WorkerResults
<1>6. ASSUME Files PROVE Caused'
  BY <1>6, <1>0, <1>e, <1>f, <1>g, SMTT(20)
  DEF Files, OpenFile, OpenFails, CloseFile, CloseFails, RemoveFile, Clean,
      Sweep, SweepFails, task, history, Escape, Event, Record, Return
<1>7. ASSUME Worker PROVE Caused'
  BY <1>7, <1>0, <1>e, <1>f, <1>g, SMTT(20)
  DEF Worker, WorkerScans, WorkerFinishes, WorkerStops, DatabaseTimeout,
      DatabaseError, task, history, Event, DatabaseStatus
<1>8. ASSUME Cancel PROVE Caused'
  BY <1>8, <1>0, <1>e, <1>f, <1>g, SMTT(20)
  DEF Cancel, Event, CancelCreate, CancelDownload, CancelArchive,
      CancelElsewhere, CancelCleanUp, task, Escape, Return
<1>9. ASSUME Expire PROVE Caused'
  BY <1>9, <1>0, <1>e, <1>f, <1>g, SMTT(20) DEF Expire, Event, task
<1>10. ASSUME Age PROVE Caused'
  BY <1>10, <1>0, <1>e, <1>f, <1>g, SMTT(20) DEF Age, task, history
<1>11. ASSUME Crash PROVE Caused'
  BY <1>11, <1>g, SMTT(20) DEF Crash
<1>12. ASSUME Startup PROVE Caused'
  BY <1>12, <1>0, <1>e, <1>f, <1>g, SMTT(20) DEF Startup, task
<1> QED BY <1>1, <1>2, <1>3, <1>4, <1>5, <1>6, <1>7, <1>8, <1>9, <1>10, <1>11,
           <1>12
        DEF Next, Coroutine

\* An exception that leaves the loop over the candidates has its cause.
LEMMA EscapeSettles ==
  ASSUME NEW s \in DOMAIN Promise!Causes, Escape(s),
         Promise!Causes[s] \intersect happened' # {}
  PROVE  pc' = "clean" /\ Settled'
BY DEF Escape, Return, Settled

\* A failure of the last copy settles the check.
LEMMA RecordSettles ==
  ASSUME Types, Position, pc \in {"space", "remove"}, NEW f \in Failures, Record(f),
         BestOf(failures.best, tried)
  PROVE  pc' = "clean" => Settled'
<1> SUFFICES ASSUME pc' = "clean" PROVE Settled'
  OBVIOUS
<1>1. /\ copy \in Nat /\ Copies \in Nat /\ Len(tried) = copy - 1 /\ tried \in Seq(Failures)
      /\ failures.best \in [status : {"none"} \cup Failures, copy : 0..Copies]
  BY PipelineAssumption DEF Types, Position, AtCopy
<1>2. /\ copy = Copies /\ tried' = Append(tried, f)
      /\ verdict' = IF failures'.best = NoResult THEN [status |-> "unreadable", copy |-> 0]
                                                 ELSE failures'.best
  BY DEF Record
<1>3. BestOf(failures'.best, tried')
  BY RecordRemembers
<1>4. Len(tried') = Copies /\ tried' \in Seq(Failures) /\ Len(tried') > 0
  BY <1>1, <1>2
<1>5. failures'.best \in [status : {"none"} \cup Failures, copy : 0..Copies]
  BY RecordTypes
<1>6. failures'.best.copy \in Nat
      /\ failures'.best = [status |-> failures'.best.status, copy |-> failures'.best.copy]
  BY <1>1, <1>5
<1>7. Promise!AllFailed(tried') =
        IF failures'.best = NoResult THEN [status |-> "unreadable", copy |-> 0]
                                     ELSE failures'.best
  BY ONLY <1>3, <1>4, <1>6, WorstIsOnRecord
<1> QED BY <1>2, <1>4, <1>7 DEF Settled

\* What is about to be answered may be answered.
LEMMA AnsweredStep ==
  ASSUME IInv, RInv, Next
  PROVE  Answered'
<1>0. Types /\ Position /\ Remembered /\ Caused /\ Answered
  BY DEF IInv, RInv
<1>c. /\ {"aborted", "unreadable", "raised", "cancelled"} = DOMAIN Promise!Causes
      /\ \A e \in {"deadline", "space", "database_timeout", "agent_timeout"} :
           e \in Promise!Causes["aborted"]
      /\ \A e \in {"inventory", "staging"} : e \in Promise!Causes["unreadable"]
      /\ \A e \in {"staging", "agent_gone", "runner"} : e \in Promise!Causes["raised"]
      /\ "cancel" \in Promise!Causes["cancelled"]
  BY EventNames
<1>a. ASSUME pc' \notin {"callback", "clean", "sweep"} PROVE Answered'
  BY <1>a DEF Answered
<1>b. ASSUME NEW s \in {"aborted", "unreadable", "raised", "cancelled"}, Escape(s),
             NEW e \in Promise!Causes[s], e \in happened'
      PROVE  Answered'
  <2>1. Promise!Causes[s] \intersect happened' # {} /\ s \in DOMAIN Promise!Causes
    BY <1>b, <1>c
  <2>2. pc' = "clean" /\ Settled'
    BY ONLY <1>b, <2>1, EscapeSettles
  <2> QED BY <2>2 DEF Answered
<1>d. ASSUME NEW f \in Failures, pc \in {"space", "remove"}, Record(f)
      PROVE  Answered'
  <2>1. pc' = "clean" => Settled'
    BY <1>0, <1>d, RecordSettles DEF Remembered, AtCopy
  <2>2. pc' \in {"space", "clean"}
    BY <1>d DEF Record
  <2> QED BY <2>1, <2>2 DEF Answered
<1>e. ASSUME verdict' = verdict, tried' = tried, happened \subseteq happened',
             pc' = "callback" => pc = "callback" /\ copy' = copy,
             pc' \in {"clean", "sweep"} => pc \in {"clean", "sweep"}
      PROVE  Answered'
  <2>1. Settled => Settled'
    BY <1>e DEF Settled
  <2> QED BY <1>0, <1>e, <2>1 DEF Answered
<1>1. ASSUME Begin PROVE Answered'
  BY <1>1, <1>a DEF Begin
<1>2. ASSUME Prepare PROVE Answered'
  <2>1. CASE ExpectedTooBig
    BY <2>1, <1>d DEF ExpectedTooBig, Failures
  <2>2. CASE SpaceTimeout
    BY <2>2, <1>0, <1>b, <1>c DEF SpaceTimeout, Caused, history
  <2>3. CASE NoSpace
    BY <2>3, <1>b, <1>c DEF NoSpace, Event
  <2>4. CASE SpaceUnknown
    BY <2>4, <1>b, <1>c DEF SpaceUnknown, Event
  <2>5. CASE AgentGone
    BY <2>5, <1>b, <1>c DEF AgentGone, Event
  <2> QED BY <1>2, <2>1, <2>2, <2>3, <2>4, <2>5, <1>a
          DEF Prepare, CreateDirectory, NoCandidates, CreateFails, LoadPrevious,
              SpaceChecked, Refuse
<1>3. ASSUME Agent PROVE Answered'
  BY <1>3, <1>a
  DEF Agent, Delivered, TooBig, AgentFails, AgentTimeout, DiskFills, EndDownload
<1>4. ASSUME DownloadTimeout PROVE Answered'
  BY <1>4, <1>a DEF DownloadTimeout, EndDownload
<1>5. ASSUME Read PROVE Answered'
  <2>1. CASE ResetFails
    BY <2>1, <1>b, <1>c DEF ResetFails, Event
  <2>2. CASE ArchiveEnds
    <3>1. CASE worker \in {"valid", "database_failed"}
      <4>1. /\ verdict' = [status |-> IF worker = "valid" THEN "valid" ELSE "corrupt",
                           copy |-> copy]
            /\ pc' \in {"callback", "clean"} /\ copy' = copy /\ tried' = tried
        BY <2>2, <3>1 DEF ArchiveEnds, history
      <4>2. Len(tried) = copy - 1 /\ Len(tried) < Copies /\ copy = Len(tried) + 1
        BY <1>0, <2>2, PipelineAssumption DEF ArchiveEnds, Types, Position, AtCopy
      <4>3. /\ verdict'.status \in {"valid", "corrupt"}
            /\ verdict' = [status |-> verdict'.status, copy |-> copy]
        BY <4>1
      <4>4. Settled'
        BY <4>1, <4>2, <4>3 DEF Settled
      <4> QED BY <4>1, <4>3, <4>4 DEF Answered
    <3>2. CASE worker = "timeout"
      <4>1. Escape("aborted") /\ happened' = happened /\ pc = "archive"
        BY <2>2, <3>2 DEF ArchiveEnds, history
      <4>2. PICK e \in {"deadline", "database_timeout"} : e \in happened
        BY <1>0, <3>2, <4>1 DEF Caused
      <4> QED BY <4>1, <4>2, <1>b, <1>c
    <3>3. CASE worker \notin {"valid", "database_failed", "timeout"}
      BY <2>2, <3>3, <1>a DEF ArchiveEnds
    <3> QED BY <3>1, <3>2, <3>3
  <2>3. CASE DrainEnds
    BY <2>3, <1>0, <1>b, <1>c DEF DrainEnds, Caused, history
  <2>4. CASE CallbackReturns
    <3>1. /\ pc = "callback" /\ pc' = "clean"
          /\ verdict' = verdict /\ tried' = tried
      BY <2>4 DEF CallbackReturns, task, history
    <3>2. Len(tried) = copy - 1 /\ Len(tried) < Copies /\ copy = Len(tried) + 1
      BY <1>0, <3>1, PipelineAssumption DEF Types, Position, AtCopy
    <3>3. Settled'
      BY <1>0, <3>1, <3>2 DEF Settled, Answered
    <3> QED BY <3>1, <3>3 DEF Answered
  <2>5. CASE CallbackRaises
    BY <2>5, <1>b, <1>c DEF CallbackRaises, Event
  <2> QED BY <1>5, <2>1, <2>2, <2>3, <2>4, <2>5, <1>a
          DEF Read, PasswordMissing, ResetDatabase
<1>6. ASSUME Files PROVE Answered'
  <2>1. CASE CloseFile
    <3>1. CASE outcome = "cancelled"
      <4>1. Escape("cancelled") /\ happened' = happened /\ "cancel" \in happened
        BY <1>0, <2>1, <3>1 DEF CloseFile, Caused, history
      <4> QED BY <4>1, <1>b, <1>c
    <3>2. CASE outcome # "cancelled"
      BY <2>1, <3>2, <1>a DEF CloseFile
    <3> QED BY <3>1, <3>2
  <2>2. CASE RemoveFile
    <3>1. CASE outcome \in {"timeout", "space"}
      <4>1. Escape("aborted") /\ happened' = happened /\ pc = "remove"
        BY <2>2, <3>1 DEF RemoveFile, history
      <4>2. PICK e \in {"deadline", "agent_timeout", "space"} : e \in happened
        BY <1>0, <3>1, <4>1 DEF Caused
      <4> QED BY <4>1, <4>2, <1>b, <1>c
    <3>2. CASE outcome \notin {"timeout", "space"}
      <4>1. Record(outcome) /\ pc = "remove" /\ outcome \in Failures
        BY <2>2, <3>2, <1>0 DEF RemoveFile, Position
      <4> QED BY <4>1, <1>d
    <3> QED BY <3>1, <3>2
  <2>3. CASE Clean
    BY <2>3, <1>e DEF Clean, task, history
  <2> QED BY <1>6, <2>1, <2>2, <2>3, <1>a
          DEF Files, OpenFile, OpenFails, CloseFails, Sweep, SweepFails
<1>7. ASSUME Worker PROVE Answered'
  BY <1>7, <1>e
  DEF Worker, WorkerScans, WorkerFinishes, WorkerStops, DatabaseTimeout,
      DatabaseError, task, history, Event
<1>8. ASSUME Cancel PROVE Answered'
  <2>1. happened' = happened \cup {"cancel"}
    BY <1>8 DEF Cancel, Event
  <2>2. CASE CancelElsewhere
    BY <2>1, <2>2, <1>b, <1>c DEF CancelElsewhere
  <2> QED BY <1>8, <2>2, <1>a
          DEF Cancel, CancelCreate, CancelDownload, CancelArchive, CancelCleanUp
<1>9. ASSUME Expire PROVE Answered'
  BY <1>9, <1>e DEF Expire, Event, task
<1>10. ASSUME Age PROVE Answered'
  BY <1>10, <1>e DEF Age, task, history
<1>11. ASSUME Crash PROVE Answered'
  BY <1>11, <1>a DEF Crash
<1>12. ASSUME Startup PROVE Answered'
  BY <1>12, <1>a DEF Startup
<1> QED BY <1>1, <1>2, <1>3, <1>4, <1>5, <1>6, <1>7, <1>8, <1>9, <1>10, <1>11,
           <1>12
        DEF Next, Coroutine

\* Before the first check nothing has to be remembered.
LEMMA RInvHolds == Init => RInv
<1> SUFFICES ASSUME Init PROVE RInv
  OBVIOUS
<1>1. pc = "startup" /\ ~expired /\ happened = {}
  BY DEF Init
<1> QED BY <1>1 DEF RInv, Remembered, Caused, Answered, AtCopy

\* The invariant of the refinement is kept, given that of the check.
LEMMA RInvInvariance == IInv /\ RInv /\ [Next]_vars => RInv'
<1> SUFFICES ASSUME IInv, RInv, [Next]_vars PROVE RInv'
  OBVIOUS
<1>1. CASE Next
  BY <1>1, RememberedStep, CausedStep, AnsweredStep DEF RInv
<1>2. CASE UNCHANGED vars
  <2> USE <1>2 DEF vars, task, staging, history, counts
  <2>1. Remembered'
    BY DEF RInv, Remembered, BestOf
  <2>2. Caused'
    BY DEF RInv, Caused
  <2>3. Answered'
    BY DEF RInv, Answered, Settled
  <2> QED BY <2>1, <2>2, <2>3 DEF RInv
<1> QED BY <1>1, <1>2

-----------------------------------------------------------------------------
\* Every step of a check is a step of CopyFallback, or its caller cannot tell.
LEMMA StepSimulates == IInv /\ RInv /\ Next => [Promise!Next]_Promise!vars
<1> SUFFICES ASSUME IInv, RInv, Next PROVE [Promise!Next]_Promise!vars
  OBVIOUS
<1>0. Types /\ Position /\ Answered
  BY DEF IInv, RInv
<1>s. /\ {"aborted", "unreadable", "raised", "cancelled"} = DOMAIN Promise!Causes
      /\ {"deadline", "space", "database_timeout", "agent_timeout", "inventory",
          "staging", "agent_gone", "runner", "cancel"} = Promise!Events
      /\ \A e \in {"inventory", "staging"} : e \in Promise!Causes["unreadable"]
      /\ "cancel" \in Promise!Causes["cancelled"]
  BY EventNames
<1>a. ASSUME NEW f \in Failures, pc \in {"space", "remove"}, Record(f)
      PROVE  Promise!Next
  <2>1. Len(tried) < Copies
    BY <1>0, <1>a, PipelineAssumption DEF Types, Position, AtCopy
  <2>2. tried' = Append(tried, f) /\ happened' = happened /\ pc' # "done"
    BY <1>a DEF Record
  <2> QED BY <1>a, <2>1, <2>2, FailStep
<1>1. ASSUME Begin PROVE Promise!Next
  BY <1>1, BeginStep DEF Begin
<1>2. ASSUME Prepare PROVE [Promise!Next]_Promise!vars
  <2>1. CASE CreateDirectory \/ LoadPrevious \/ SpaceChecked \/ SpaceTimeout
    BY <2>1, Silent
    DEF CreateDirectory, LoadPrevious, SpaceChecked, SpaceTimeout, Escape, Return,
        history, Kept
  <2>2. CASE NoSpace \/ SpaceUnknown \/ AgentGone
    BY <2>2, <1>s, HappenStep
    DEF NoSpace, SpaceUnknown, AgentGone, Escape, Return, Event, Kept
  <2>3. CASE NoCandidates \/ CreateFails
    BY <2>3, <1>s, GiveUpStep DEF NoCandidates, CreateFails, Refuse, Event
  <2>4. CASE ExpectedTooBig
    BY <2>4, <1>a DEF ExpectedTooBig, Failures
  <2> QED BY <1>2, <2>1, <2>2, <2>3, <2>4 DEF Prepare
<1>3. ASSUME Agent PROVE [Promise!Next]_Promise!vars
  <2>1. CASE Delivered \/ TooBig \/ AgentFails
    BY <2>1, Silent DEF Delivered, TooBig, AgentFails, EndDownload, history, Kept
  <2>2. CASE AgentTimeout \/ DiskFills
    BY <2>2, <1>s, HappenStep DEF AgentTimeout, DiskFills, EndDownload, Event, Kept
  <2> QED BY <1>3, <2>1, <2>2 DEF Agent
<1>4. ASSUME DownloadTimeout PROVE [Promise!Next]_Promise!vars
  BY <1>4, Silent DEF DownloadTimeout, EndDownload, history, Kept
<1>5. ASSUME Read PROVE [Promise!Next]_Promise!vars
  <2>1. CASE PasswordMissing \/ ResetDatabase \/ ArchiveEnds \/ DrainEnds \/ CallbackReturns
    BY <2>1, Silent
    DEF PasswordMissing, ResetDatabase, ArchiveEnds, DrainEnds, CallbackReturns,
        Escape, Return, history, Kept
  <2>2. CASE ResetFails \/ CallbackRaises
    BY <2>2, <1>s, HappenStep DEF ResetFails, CallbackRaises, Escape, Return, Event, Kept
  <2> QED BY <1>5, <2>1, <2>2 DEF Read
<1>6. ASSUME Files PROVE [Promise!Next]_Promise!vars
  <2>1. CASE OpenFile \/ OpenFails \/ CloseFile \/ CloseFails \/ Clean
    BY <2>1, Silent
    DEF OpenFile, OpenFails, CloseFile, CloseFails, Clean, Escape, Return, Event,
        NoCause, history, Kept
  <2>2. CASE RemoveFile /\ outcome \in {"timeout", "space"}
    BY <2>2, Silent DEF RemoveFile, Escape, Return, history, Kept
  <2>3. CASE RemoveFile /\ outcome \notin {"timeout", "space"}
    <3>1. Record(outcome) /\ pc = "remove" /\ outcome \in Failures
      BY <2>3, <1>0 DEF RemoveFile, Position
    <3> QED BY <3>1, <1>a
  <2>4. CASE Sweep \/ SweepFails
    <3>1. pc = "sweep" /\ pc' = "done" /\ verdict' = verdict
          /\ tried' = tried /\ happened' = happened
      BY <2>4 DEF Sweep, SweepFails, task
    <3>2. Settled
      BY <1>0, <3>1 DEF Answered
    <3> QED BY <3>1, <3>2, AnswerStep
  <2> QED BY <1>6, <2>1, <2>2, <2>3, <2>4 DEF Files
<1>7. ASSUME Worker PROVE [Promise!Next]_Promise!vars
  <2>1. CASE WorkerScans \/ WorkerFinishes \/ WorkerStops
    BY <2>1, Silent DEF WorkerScans, WorkerFinishes, WorkerStops, task, history, Kept
  <2>2. CASE DatabaseTimeout
    BY <2>2, <1>s, HappenStep DEF DatabaseTimeout, task, Event, Kept
  <2>3. CASE DatabaseError
    BY <2>3, Silent DEF DatabaseError, task, Event, NoCause, Kept
  <2> QED BY <1>7, <2>1, <2>2, <2>3 DEF Worker
<1>8. ASSUME Cancel PROVE [Promise!Next]_Promise!vars
  <2>1. happened' = happened \cup {"cancel"} /\ tried' = tried
    BY <1>8 DEF Cancel, Event
  <2>2. CASE CancelCreate \/ CancelCleanUp
    BY <2>1, <2>2, <1>s, GiveUpStep DEF CancelCreate, CancelCleanUp
  <2>3. CASE CancelDownload \/ CancelArchive \/ CancelElsewhere
    BY <2>1, <2>3, <1>s, HappenStep
    DEF CancelDownload, CancelArchive, CancelElsewhere, Escape, Return, Kept
  <2> QED BY <1>8, <2>2, <2>3 DEF Cancel
<1>9. ASSUME Expire PROVE Promise!Next
  <2>1. Kept /\ tried' = tried /\ happened' = happened \cup {"deadline"}
    BY <1>9 DEF Expire, Running, Event, task, Kept
  <2> QED BY <2>1, <1>s, HappenStep
<1>10. ASSUME Age PROVE [Promise!Next]_Promise!vars
  BY <1>10, Silent DEF Age, task, history, Kept
<1>11. ASSUME Crash PROVE Promise!Next
  BY <1>11, BeginStep DEF Crash
<1>12. ASSUME Startup PROVE [Promise!Next]_Promise!vars
  BY <1>12, Silent DEF Startup, task, Kept
<1> QED BY <1>1, <1>2, <1>3, <1>4, <1>5, <1>6, <1>7, <1>8, <1>9, <1>10, <1>11,
           <1>12
        DEF Next, Coroutine

\* For every number of copies a check is a run of CopyFallback: no copy is
\* skipped, a copy that fails on its own is followed by the next, the worst
\* failure and the earliest of equals is the answer when all fail, and only an
\* event that concerns every copy ends the search before (async_verify,
\* _VerificationFailures).
THEOREM FallsBackAsPromised == Spec => Fallback
<1>1. Init => Promise!Init
  BY DEF Init, Promise!Init, Promise!NoAnswer, NoResult
<1>2. IInv /\ RInv /\ [Next]_vars => [Promise!Next]_Promise!vars
  <2> SUFFICES ASSUME IInv, RInv, [Next]_vars PROVE [Promise!Next]_Promise!vars
    OBVIOUS
  <2>1. CASE Next
    BY <2>1, StepSimulates
  <2>2. CASE UNCHANGED vars
    BY <2>2 DEF vars, task, history, Promise!vars
  <2> QED BY <2>1, <2>2
<1>3. Spec => []IInv /\ []RInv
  BY InitEstablishes, Invariance, RInvHolds, RInvInvariance, PTL DEF Spec
<1> QED BY <1>1, <1>2, <1>3, PTL DEF Spec, Fallback, Promise!Spec
=============================================================================
