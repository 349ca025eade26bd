---------------------------- MODULE EntryLifecycle ----------------------------
(***************************************************************************)
(* When the coordinator looks at the backups: one coordinator from its     *)
(* construction in async_setup_entry to the end of async_shutdown.         *)
(* Refreshes come from the polling timer, from native backup events, from  *)
(* the end of the start phase, from the recheck of an unconfirmed problem  *)
(* and from a finished integrity check; a refresh has three steps, between *)
(* which everything else may happen, so that two refreshes may overlap and *)
(* one may end after the shutdown.                                         *)
(*                                                                         *)
(* External: Home Assistant's DataUpdateCoordinator and its debouncer, as  *)
(* far as the code calls them.  The timer starts a direct refresh; every   *)
(* request goes through the debouncer, which runs it at once, remembers it *)
(* until its cooldown is over, or ignores it while it runs another one and *)
(* after its shutdown.  The start of any refresh disarms the timer and the *)
(* cooldown, and the end of one arms the timer again while there is a      *)
(* listener.  Data set from outside a refresh does both at once.           *)
(*                                                                         *)
(* Abstracted: what a refresh concludes (Assessment), what is checked      *)
(* (VerificationLifecycle) and notified (NotificationManager); here one    *)
(* problem stands all the time, and a check is due whenever it likes to    *)
(* be; of the checks the user asks for, the one that may wait for the      *)
(* upload of a runtime test.  Adaptive polling is on.  A health check of   *)
(* the runner is one step.                                                 *)
(***************************************************************************)
EXTENDS Naturals

CONSTANTS None,
          ErrorThreshold,  \* adaptive_error_threshold
          EventLimit       \* bound: changes of the manager

ASSUME EntryAssumption == ErrorThreshold \in Nat \ {0} /\ EventLimit \in Nat

VARIABLES phase,     \* of the entry; from "stop_check" on async_shutdown is running
          settled,   \* _startup_settled
          manager,   \* the backup manager: its state, and how it answers
          polling,   \* refreshes in flight, the debouncer and the polling timer
          adaptive,  \* _adaptive_refresh_task and _adaptive_refresh_pending
          view,      \* manager state of the snapshot, _manager_backup_active, errors
          timers,    \* what the coordinator itself has armed or subscribed to
          sighting,  \* what the notification manager made of the problem so far
          check,     \* the integrity check that runs: "none", "automatic", "simulation"
          discovery, \* _async_monitor_runner_discovery runs
          health,    \* _runner_health
          events     \* changes of the manager so far

vars == <<phase, settled, manager, polling, adaptive, view, timers, sighting,
          check, discovery, health, events>>

Kinds == {"direct", "debounced"}

Stopping == {"stop_check", "stop_adaptive", "stop_last", "closed"}

-----------------------------------------------------------------------------
(* Refreshes and requests for one *)

Fresh == [stage |-> "fetch", state |-> None]

Start(p, kind) ==
  [p EXCEPT ![kind] = Fresh, !.timer = FALSE, !.cooldown = FALSE, !.again = FALSE]

\* async_request_refresh
Requested(p) ==
  CASE phase = "closed" -> p
    [] phase # "closed" /\ p.cooldown -> [p EXCEPT !.again = TRUE]
    [] OTHER -> IF p.debounced # None THEN p ELSE Start(p, "debounced")

Ended(p, kind) ==
  [p EXCEPT ![kind] = None,
            !.timer = phase = "loaded",
            !.cooldown = IF kind = "debounced" THEN phase # "closed" ELSE @]

\* async_set_updated_data: a request that was remembered is forgotten.
Updated(p) ==
  [p EXCEPT !.timer = phase = "loaded", !.cooldown = FALSE, !.again = FALSE]

-----------------------------------------------------------------------------
(* Polling interval *)

\* _set_adaptive_interval
UpdateInterval ==
  CASE view.errors >= ErrorThreshold -> "backoff"
    [] view.errors < ErrorThreshold /\ view.active -> "active"
    [] OTHER -> "base"

\* A mutant: only an event, not a reading, ends the backoff.
KeepErrors(state) == [view EXCEPT !.data = state, !.active = state = "busy"]

\* _record_inventory_success
RecordInventorySuccess(state) == [data |-> state, active |-> state = "busy", errors |-> 0]

\* Counted up to the threshold: more make no difference.
RecordInventoryError ==
  [view EXCEPT !.errors = IF @ < ErrorThreshold THEN @ + 1 ELSE @]

-----------------------------------------------------------------------------
(* Shutdown *)

\* The timers that async_shutdown disarms before it waits for the adaptive task.
OwnTimers == {"started", "settle", "confirmation", "health"}

\* The second half of async_shutdown, up to its next wait.
StopTimers ==
  /\ timers' = timers \ OwnTimers
  /\ phase' = IF adaptive.task = "none" THEN "stop_last" ELSE "stop_adaptive"

\* The first half.
BeginShutdown ==
  IF check # "none" THEN phase' = "stop_check" /\ UNCHANGED timers ELSE StopTimers

-----------------------------------------------------------------------------
\* BackupCheckupCoordinator.__init__ and the first refresh; a set-up while Home
\* Assistant is running needs no hold.
Init ==
  /\ phase = "setup"
  /\ settled \in BOOLEAN
  /\ timers = IF settled THEN {} ELSE {"started"}
  /\ manager = [state |-> "idle", answer |-> "backups"]
  /\ polling = [direct |-> Fresh, debounced |-> None, timer |-> FALSE,
                cooldown |-> FALSE, again |-> FALSE]
  /\ adaptive = [task |-> "none", pending |-> FALSE]
  /\ view = [data |-> None, active |-> FALSE, errors |-> 0]
  /\ sighting = "none"
  /\ check = "none"
  /\ discovery = FALSE
  /\ health \in {"not_configured", "unreachable"}
  /\ events = 0

-----------------------------------------------------------------------------
(* Set-up and start phase *)

\* async_setup_entry after the first refresh: the runner is asked, and the
\* polling timer starts with the first listener.
Load ==
  /\ phase = "connecting"
  /\ phase' = "loaded"
  /\ health' \in IF health = "not_configured" THEN {health} ELSE {"unreachable", "usable"}
  /\ timers' = IF health = "not_configured" THEN timers ELSE timers \union {"health"}
  /\ discovery' = TRUE
  /\ polling' = [polling EXCEPT !.timer = TRUE]
  /\ UNCHANGED <<settled, manager, adaptive, view, sighting, check, events>>

HomeAssistantStarted ==
  /\ "started" \in timers
  /\ timers' = (timers \ {"started"}) \union {"settle"}
  /\ UNCHANGED <<phase, settled, manager, polling, adaptive, view, sighting, check,
                 discovery, health, events>>

StartupSettled ==
  /\ "settle" \in timers
  /\ timers' = timers \ {"settle"}
  /\ settled' = TRUE
  /\ polling' = Requested(polling)
  /\ UNCHANGED <<phase, manager, adaptive, view, sighting, check, discovery, health, events>>

-----------------------------------------------------------------------------
(* Timers *)

PollingTimerFires ==
  /\ polling.timer
  /\ polling.direct = None
  /\ polling' = Start(polling, "direct")
  /\ UNCHANGED <<phase, settled, manager, adaptive, view, timers, sighting, check,
                 discovery, health, events>>

CooldownEnds ==
  /\ polling.cooldown
  /\ polling' = IF polling.again THEN Start(polling, "debounced")
                ELSE [polling EXCEPT !.cooldown = FALSE]
  /\ UNCHANGED <<phase, settled, manager, adaptive, view, timers, sighting, check,
                 discovery, health, events>>

\* _async_confirm_notifications; the window is over by now.
ConfirmNotifications ==
  /\ "confirmation" \in timers
  /\ timers' = timers \ {"confirmation"}
  /\ sighting' = IF sighting = "seen" THEN "due" ELSE sighting
  /\ polling' = Requested(polling)
  /\ UNCHANGED <<phase, settled, manager, adaptive, view, check, discovery, health, events>>

-----------------------------------------------------------------------------
(* The backup manager *)

\* _handle_native_backup_state_change and _schedule_adaptive_refresh, while the
\* coordinator is subscribed: from the first refresh to the end of the shutdown.
ManagerChanges ==
  /\ events < EventLimit
  /\ events' = events + 1
  /\ \E state \in {"idle", "busy"} \ {manager.state} :
       /\ manager' = [manager EXCEPT !.state = state]
       /\ IF "events" \notin timers
          THEN UNCHANGED <<view, adaptive>>
          ELSE /\ view' = [view EXCEPT !.active = state = "busy"]
               /\ adaptive' = IF adaptive.task = "none"
                              THEN [adaptive EXCEPT !.task = "asking"]
                              ELSE [adaptive EXCEPT !.pending = TRUE]
  /\ UNCHANGED <<phase, settled, polling, timers, sighting, check, discovery, health>>

AnswerChanges ==
  /\ events < EventLimit
  /\ events' = events + 1
  /\ \E answer \in {"backups", "error", "invalid"} \ {manager.answer} :
       manager' = [manager EXCEPT !.answer = answer]
  /\ UNCHANGED <<phase, settled, polling, adaptive, view, timers, sighting, check,
                 discovery, health>>

\* One turn of _async_adaptive_refresh: it waits only for a refresh of its own.
AdaptiveRefresh ==
  /\ phase # "stop_adaptive"
  /\ adaptive.task = "asking"
  /\ polling' = Requested(polling)
  /\ adaptive' = [task |-> IF polling'.debounced # polling.debounced THEN "waiting" ELSE "none",
                  pending |-> FALSE]
  /\ UNCHANGED <<phase, settled, manager, view, timers, sighting, check, discovery,
                 health, events>>

-----------------------------------------------------------------------------
(* A refresh: _async_update_data *)

Fetched(kind) ==
  /\ manager.answer = "backups"
  /\ polling' = [polling EXCEPT ![kind] = [stage |-> "built", state |-> manager.state]]
  /\ UNCHANGED <<view, phase, timers>>

\* The previous snapshot is published once more.
ManagerError(kind) ==
  /\ manager.answer = "error"
  /\ view.data # None
  /\ view' = RecordInventoryError
  /\ polling' = [polling EXCEPT ![kind] = [stage |-> "built", state |-> "unavailable"]]
  /\ UNCHANGED <<phase, timers>>

\* UpdateFailed: an inventory of the wrong type, or no snapshot to fall back to.
\* The first refresh fails the set-up with it.
UpdateFailed(kind) ==
  /\ manager.answer = "invalid" \/ (manager.answer = "error" /\ view.data = None)
  /\ view' = IF manager.answer = "error" THEN RecordInventoryError ELSE view
  /\ polling' = Ended(polling, kind)
  /\ IF phase = "setup" /\ kind = "direct" THEN BeginShutdown ELSE UNCHANGED <<phase, timers>>

Resumed(kind) ==
  IF kind = "debounced" /\ adaptive.task = "waiting"
  THEN [adaptive EXCEPT !.task = IF adaptive.pending THEN "asking" ELSE "none"]
  ELSE adaptive

Fetch(kind) ==
  /\ polling[kind] # None
  /\ polling[kind].stage = "fetch"
  /\ \/ (Fetched(kind) \/ ManagerError(kind)) /\ UNCHANGED adaptive
     \/ UpdateFailed(kind) /\ adaptive' = Resumed(kind)
  /\ UNCHANGED <<settled, manager, sighting, check, discovery, health, events>>

\* _async_process_notifications: held back while Home Assistant starts; a
\* problem not yet confirmed arms the recheck.
ProcessNotifications(kind) ==
  /\ polling[kind] # None
  /\ polling[kind].stage = "built"
  /\ polling' = [polling EXCEPT ![kind].stage = "notified"]
  /\ IF ~settled \/ sighting = "told"
     THEN UNCHANGED <<sighting, timers>>
     ELSE /\ sighting' \in CASE sighting = "none" -> {"seen"}
                             [] sighting = "seen" -> {"seen", "told"}
                             [] sighting = "due"  -> {"told"}
          /\ timers' = IF sighting' = "seen" THEN timers \union {"confirmation"} ELSE timers
  /\ UNCHANGED <<phase, settled, manager, adaptive, view, check, discovery, health, events>>

\* The rest: a check may be due, the snapshot is published, and the task that
\* asked for this refresh goes on.
Finish(kind) ==
  /\ polling[kind] # None
  /\ polling[kind].stage = "notified"
  /\ polling' = Ended(polling, kind)
  /\ IF polling[kind].state = "unavailable"
     THEN view' = [view EXCEPT !.data = "unavailable"] /\ UNCHANGED check
     ELSE /\ view' = RecordInventorySuccess(polling[kind].state)
          /\ \/ UNCHANGED check
             \/ check = "none" /\ manager.state # "busy" /\ check' = "automatic"
  /\ adaptive' = Resumed(kind)
  /\ IF phase = "setup" /\ kind = "direct"
     THEN phase' = "connecting" /\ timers' = timers \union {"events"}
     ELSE UNCHANGED <<phase, timers>>
  /\ UNCHANGED <<settled, manager, sighting, discovery, health, events>>

-----------------------------------------------------------------------------
(* Integrity checks *)

\* async_start_integrity_check for a restore simulation.
StartSimulation ==
  /\ phase = "loaded"
  /\ check = "none"
  /\ manager.state # "busy"
  /\ check' = "simulation"
  /\ UNCHANGED <<phase, settled, manager, polling, adaptive, view, timers, sighting,
                 discovery, health, events>>

\* _refresh_progress_data, when the check or its runtime test starts or ends.
PublishProgress ==
  /\ check # "none"
  /\ phase # "stop_check"
  /\ polling' = Updated(polling)
  /\ UNCHANGED <<phase, settled, manager, adaptive, view, timers, sighting, check,
                 discovery, health, events>>

\* _async_finish_integrity_task of a check that was not cancelled.
FinishCheck ==
  /\ check # "none"
  /\ phase # "stop_check"
  /\ check' = "none"
  /\ polling' = Requested(polling)
  /\ UNCHANGED <<phase, settled, manager, adaptive, view, timers, sighting, discovery,
                 health, events>>

-----------------------------------------------------------------------------
(* The runner *)

CheckRunner ==
  /\ "health" \in timers
  /\ health' \in {"unreachable", "usable"}
  /\ UNCHANGED <<phase, settled, manager, polling, adaptive, view, timers, sighting, check,
                 discovery, events>>

\* _async_monitor_runner_discovery: a connection found while the known one is
\* of no use is attached, which starts the health monitor, and checked.
DiscoverRunner ==
  /\ discovery
  /\ health # "usable"
  /\ timers' = timers \union {"health"}
  /\ health' \in {"unreachable", "usable"}
  /\ UNCHANGED <<phase, settled, manager, polling, adaptive, view, sighting, check,
                 discovery, events>>

-----------------------------------------------------------------------------
(* Unloading *)

\* A mutant: the discovery monitor is not cancelled with the entry.
UnloadEntry ==
  /\ phase = "loaded"
  /\ BeginShutdown
  /\ polling' = [polling EXCEPT !.timer = FALSE]
  /\ UNCHANGED <<settled, manager, adaptive, view, sighting, check, discovery, health, events>>

\* async_unload_entry with its platforms unloaded, then what was registered
\* with async_on_unload, the last first: the listener, which leaves the timer
\* without any, the discovery monitor and async_shutdown.
Unload ==
  /\ phase = "loaded"
  /\ discovery' = FALSE
  /\ BeginShutdown
  /\ polling' = [polling EXCEPT !.timer = FALSE]
  /\ UNCHANGED <<settled, manager, adaptive, view, sighting, check, health, events>>

CheckCancelled ==
  /\ phase = "stop_check"
  /\ check' = "none"
  /\ polling' = Updated(polling)
  /\ StopTimers
  /\ UNCHANGED <<settled, manager, adaptive, view, sighting, discovery, health, events>>

\* The cancelled task takes the refresh it waits for with it.
AdaptiveCancelled ==
  /\ phase = "stop_adaptive"
  /\ phase' = "stop_last"
  /\ adaptive' = [task |-> "none", pending |-> FALSE]
  /\ polling' = IF adaptive.task = "waiting" THEN Ended(polling, "debounced") ELSE polling
  /\ UNCHANGED <<settled, manager, view, timers, sighting, check, discovery, health, events>>

\* Unsubscribe from the native events, and super().async_shutdown().
Close ==
  /\ phase = "stop_last"
  /\ phase' = "closed"
  /\ adaptive' = [adaptive EXCEPT !.pending = FALSE]
  /\ polling' = [polling EXCEPT !.timer = FALSE, !.cooldown = FALSE, !.again = FALSE]
  /\ timers' = timers \ {"events"}
  /\ UNCHANGED <<settled, manager, view, sighting, check, discovery, health, events>>

-----------------------------------------------------------------------------
Refreshing(kind) == Fetch(kind) \/ ProcessNotifications(kind) \/ Finish(kind)

Next ==
  \/ Load
  \/ HomeAssistantStarted
  \/ StartupSettled
  \/ PollingTimerFires
  \/ CooldownEnds
  \/ ConfirmNotifications
  \/ ManagerChanges
  \/ AnswerChanges
  \/ AdaptiveRefresh
  \/ \E kind \in Kinds : Refreshing(kind)
  \/ StartSimulation
  \/ PublishProgress
  \/ FinishCheck
  \/ CheckRunner
  \/ DiscoverRunner
  \/ Unload
  \/ CheckCancelled
  \/ AdaptiveCancelled
  \/ Close

\* Timers fire, tasks of the event loop go on, and Home Assistant starts; that
\* the manager changes, a runner appears, the user asks for a simulation or the
\* entry is unloaded is left open.  A check that is not cancelled may wait for
\* ever: closing an agent's stream and the upload of a runtime test have no
\* deadline.
Fairness ==
  /\ WF_vars(Load)
  /\ WF_vars(HomeAssistantStarted)
  /\ WF_vars(StartupSettled)
  /\ WF_vars(PollingTimerFires)
  /\ WF_vars(CooldownEnds)
  /\ WF_vars(ConfirmNotifications)
  /\ WF_vars(AdaptiveRefresh)
  /\ \A kind \in Kinds : WF_vars(Refreshing(kind))
  /\ WF_vars(CheckCancelled)
  /\ WF_vars(AdaptiveCancelled)
  /\ WF_vars(Close)

Spec == Init /\ [][Next]_vars /\ Fairness

-----------------------------------------------------------------------------
(* Properties *)

Quiet ==
  /\ timers = {}
  /\ polling.direct = None /\ polling.debounced = None
  /\ ~polling.timer /\ ~polling.cooldown
  /\ adaptive.task = "none"
  /\ ~discovery

\* Once the shutdown has begun, everything the coordinator started comes to an
\* end, although a refresh then in flight still arms the confirmation timer and
\* an event still starts an adaptive refresh after they were cancelled
\* (async_shutdown).  A check is cancelled too; the one that can be left is an
\* automatic one that such a refresh starts later and that never ends by itself.
ShutdownDiesOut ==
  [](phase \in Stopping => <>[]Quiet /\ (<>[](check = "none") \/ <>[](check = "automatic")))

Current ==
  /\ view.data = manager.state
  /\ UpdateInterval = IF manager.state = "busy" THEN "active" ELSE "base"
  /\ settled
  /\ sighting = "told"

\* When the manager no longer changes and can be read, the snapshot and the
\* polling interval follow its state in the end, and a problem that stands
\* since the start is reported: no event, backoff, hold of the start phase or
\* refresh that ends after a later one leaves a loaded entry behind for good.
PollingCatchesUp == <>[](phase = "loaded" /\ manager.answer = "backups" => Current)
=============================================================================
