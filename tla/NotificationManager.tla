-------------------------- MODULE NotificationManager --------------------------
(***************************************************************************)
(* The push messages about problems: notifications.py with the policy of   *)
(* notification_policy.py, called by the coordinator at every refresh that *)
(* gets as far as a snapshot, once the start phase is over.                *)
(*                                                                         *)
(* Granularity.  async_process decides under its lock and then awaits at   *)
(* most one send and one save: a call is one, two or three steps, and the  *)
(* process can die between them.  Settings are read when the entry is set  *)
(* up, so they change only with a restart (a reload of the entry is one).  *)
(*                                                                         *)
(* Abstracted data: a signature is the set of active problems, no targets  *)
(* stands for notifications switched off as well, and an age is counted in *)
(* ticks up to the one it is compared with.  The confirmation timer only   *)
(* makes a refresh come sooner.                                            *)
(***************************************************************************)
EXTENDS Naturals

CONSTANTS Problems,    \* problem keys a snapshot can hold
          Devices,     \* notify entities
          Confirm,     \* NOTIFICATION_CONFIRM_SECONDS, in ticks
          MaxRestarts  \* bound: restarts during a behaviour

ASSUME BoundAssumption == Confirm \in Nat \ {0} /\ MaxRestarts \in Nat

VARIABLES problems,   \* what the next snapshot finds
          settings,   \* notification_targets and notify_on_recovery
          settled,    \* the start phase is over
          state,      \* _last_signature, _last_targets, _was_enabled
          pending,    \* _pending_signature and the age of _pending_since
          call,       \* the call of async_process in progress
          disk,       \* what the store holds
          restarts,   \* bounded count of restarts
          seen,       \* history: the signature of the last snapshots and its age
          told,       \* history: the last message that was delivered
          forgot      \* history: a restart lost what had been told

memory == <<state, pending>>
history == <<seen, told, forgot>>
vars == <<problems, settings, settled, memory, call, disk, restarts, history>>

Signatures == SUBSET Problems
Healthy    == {}
Targets    == SUBSET Devices
Ages       == 0..Confirm
Settings   == [targets : Targets, onRecovery : BOOLEAN]
State      == [last : Signatures, targets : Targets, wasEnabled : BOOLEAN]
Kinds      == {"first", "added", "problem", "recovery"}
NoPending  == [signature |-> Healthy, age |-> 0]
NoCall     == [pc |-> "idle", kind |-> "none", signature |-> Healthy]

Older(age) == IF age < Confirm THEN age + 1 ELSE age

-----------------------------------------------------------------------------
Init ==
  /\ problems = Healthy
  /\ settings \in Settings
  /\ settled = FALSE
  /\ disk = [last |-> Healthy, targets |-> {}, wasEnabled |-> FALSE]
  /\ state = disk
  /\ pending = NoPending
  /\ call = NoCall
  /\ restarts = 0
  /\ seen = NoPending
  /\ told = "nothing"
  /\ forgot = FALSE

\* The process dies or the entry is reloaded with other settings; a send that
\* was under way may have arrived, a save may have replaced the file.
Restart ==
  /\ restarts < MaxRestarts
  /\ restarts' = restarts + 1
  /\ settings' \in Settings
  /\ settled' = FALSE
  /\ disk' \in {disk} \union (IF call.pc = "save" THEN {state} ELSE {})
  /\ state' = disk'
  /\ told' \in {told} \union
              (IF call.pc # "send" THEN {}
               ELSE IF call.kind = "recovery" THEN {"recovery"} ELSE {"problem"})
  /\ forgot' = (forgot \/ told' # told \/ disk'.last # state.last)
  /\ pending' = NoPending
  /\ call' = NoCall
  /\ seen' = NoPending
  /\ UNCHANGED problems

ProblemsChange ==
  /\ problems' \in Signatures \ {problems}
  /\ UNCHANGED <<settings, settled, memory, call, disk, restarts, history>>

Tick ==
  /\ pending' = [pending EXCEPT !.age = IF pending.signature = Healthy THEN 0 ELSE Older(@)]
  /\ seen' = [seen EXCEPT !.age = Older(@)]
  /\ UNCHANGED <<problems, settings, settled, state, call, disk, restarts, told, forgot>>

\* Home Assistant has started and the settle window is over.
Settle ==
  /\ ~settled
  /\ settled' = TRUE
  /\ UNCHANGED <<problems, settings, memory, call, disk, restarts, history>>

-----------------------------------------------------------------------------
(* async_process: one decision                                             *)

Observe == seen' = IF problems = seen.signature THEN seen
                   ELSE [signature |-> problems, age |-> 0]

Hold(next)  == pending' = next
Return      == call' = NoCall
Save(next)  == state' = next /\ call' = [NoCall EXCEPT !.pc = "save"]
Send(kind)  == call' = [pc |-> "send", kind |-> kind, signature |-> problems]
Reported(s) == [state EXCEPT !.last = s, !.targets = settings.targets]

Disable ==
  /\ settings.targets = {}
  /\ Hold(NoPending)
  /\ IF state.wasEnabled THEN Save([state EXCEPT !.wasEnabled = FALSE])
                         ELSE Return /\ UNCHANGED state

Enabled == settings.targets # {} /\ state.wasEnabled

\* Switching notifications on reports what is active without a delay.
EnableFirst ==
  /\ settings.targets # {} /\ ~state.wasEnabled
  /\ Hold(NoPending)
  /\ IF problems = Healthy
       THEN Save([Reported(Healthy) EXCEPT !.wasEnabled = TRUE])
       ELSE Send("first") /\ state' = [state EXCEPT !.wasEnabled = TRUE]

\* The reported state is unchanged: only devices selected since hear of it.
Unchanged ==
  /\ Enabled
  /\ problems = state.last
  /\ Hold(NoPending)
  /\ IF settings.targets = state.targets THEN Return /\ UNCHANGED state
     ELSE IF problems = Healthy \/ settings.targets \subseteq state.targets
     THEN Save(Reported(problems))
     ELSE Send("added") /\ UNCHANGED state

\* Recovery from a reported problem is never delayed.
Recover ==
  /\ Enabled
  /\ problems = Healthy /\ state.last # Healthy
  /\ Hold(NoPending)
  /\ IF settings.onRecovery THEN Send("recovery") /\ UNCHANGED state
                            ELSE Save(Reported(Healthy))

\* Mutant: a changed problem set keeps the window of the one before it.
AwaitAnyConfirmation ==
  /\ Enabled
  /\ problems \notin {Healthy, state.last}
  /\ \/ /\ problems # pending.signature
        /\ Hold([pending EXCEPT !.signature = problems])
     \/ /\ problems = pending.signature /\ pending.age < Confirm
        /\ UNCHANGED pending
  /\ Return
  /\ UNCHANGED state

\* Mutant: every snapshot restarts the window.
AwaitFromNow ==
  /\ Enabled
  /\ problems \notin {Healthy, state.last}
  /\ problems = pending.signature => pending.age < Confirm
  /\ Hold([signature |-> problems, age |-> 0])
  /\ Return
  /\ UNCHANGED state

\* A new or changed problem set waits; one that waits goes on waiting.
AwaitConfirmation ==
  /\ Enabled
  /\ problems \notin {Healthy, state.last}
  /\ \/ /\ problems # pending.signature
        /\ Hold([signature |-> problems, age |-> 0])
     \/ /\ problems = pending.signature /\ pending.age < Confirm
        /\ UNCHANGED pending
  /\ Return
  /\ UNCHANGED state

ReportProblem ==
  /\ Enabled
  /\ problems \notin {Healthy, state.last}
  /\ problems = pending.signature /\ pending.age = Confirm
  /\ Hold(NoPending)
  /\ Send("problem")
  /\ UNCHANGED state

Decide == Disable \/ EnableFirst \/ Unchanged \/ Recover \/ AwaitConfirmation \/ ReportProblem

\* Mutant: the start phase is not waited for.
ProcessAtStart ==
  /\ call = NoCall
  /\ Observe
  /\ Decide
  /\ UNCHANGED <<problems, settings, settled, disk, restarts, told, forgot>>

Process ==
  /\ settled
  /\ call = NoCall
  /\ Observe
  /\ Decide
  /\ UNCHANGED <<problems, settings, settled, disk, restarts, told, forgot>>

-----------------------------------------------------------------------------
(* The awaited send and save                                               *)

Sent ==
  /\ call.pc = "send"
  /\ told' = IF call.kind = "recovery" THEN "recovery" ELSE "problem"
  /\ Save(Reported(call.signature))
  /\ UNCHANGED <<problems, settings, settled, pending, disk, restarts, seen, forgot>>

\* Mutant: a message that could not be sent counts as sent.
SendFailedUnnoticed ==
  /\ call.pc = "send"
  /\ Save(Reported(call.signature))
  /\ UNCHANGED <<problems, settings, settled, pending, disk, restarts, history>>

\* Nothing was reported: the next snapshot decides again.
SendFailed ==
  /\ call.pc = "send"
  /\ Return
  /\ UNCHANGED <<problems, settings, settled, memory, disk, restarts, history>>

Saved ==
  /\ call.pc = "save"
  /\ disk' = state
  /\ Return
  /\ UNCHANGED <<problems, settings, settled, memory, restarts, history>>

\* The exception ends the call and is logged by the coordinator.
SaveFailed ==
  /\ call.pc = "save"
  /\ Return
  /\ UNCHANGED <<problems, settings, settled, memory, disk, restarts, history>>

Next == Restart \/ ProblemsChange \/ Tick \/ Settle \/ Process \/ Sent \/ SendFailed
        \/ Saved \/ SaveFailed

Spec == Init /\ [][Next]_vars

\* Refreshes recur, an awaited service call or save ends, and a notify service
\* that is called again and again does not fail every time.
LiveSpec ==
  /\ Spec
  /\ WF_vars(Tick) /\ WF_vars(Settle) /\ WF_vars(Process)
  /\ WF_vars(Sent \/ SendFailed) /\ SF_vars(Sent)
  /\ WF_vars(Saved \/ SaveFailed)

-----------------------------------------------------------------------------
(* Properties                                                              *)

\* Every variable keeps its type, and nothing is sent or saved during the
\* start phase.
TypeOK ==
  /\ problems \in Signatures /\ settings \in Settings /\ settled \in BOOLEAN
  /\ state \in State /\ disk \in State
  /\ pending \in [signature : Signatures, age : Ages]
  /\ call \in [pc : {"idle", "send", "save"}, kind : Kinds \union {"none"},
               signature : Signatures]
  /\ restarts \in 0..MaxRestarts
  /\ seen \in [signature : Signatures, age : Ages]
  /\ told \in {"nothing", "problem", "recovery"} /\ forgot \in BOOLEAN
  /\ call # NoCall => settled

\* A message about a new or changed problem set is sent only after every
\* snapshot of the whole confirmation time showed exactly that set, whatever
\* sets came and went before, and whichever send failed.
ProblemsAreConfirmed ==
  call.kind = "problem" => seen.signature = call.signature /\ seen.age = Confirm

\* The policy: a problem that was never reported produces no recovery message.
\* When one is sent the last message was about a problem, unless a restart lost
\* what had been told.
RecoveryFollowsProblem == call.kind = "recovery" /\ ~forgot => told = "problem"

\* A problem set that stays as it is comes to be the reported one, on every
\* selected device, although sends and saves fail now and then.
StableStateIsReported ==
  \A s \in Signatures :
    <>[](problems = s /\ settings.targets # {})
      => <>[](state.last = s /\ state.targets = settings.targets)

===============================================================================
