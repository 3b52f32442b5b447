------------------------------ MODULE Recording ------------------------------
(***************************************************************************)
(* The recording core of the backend: the start path of RecordingService,  *)
(* the ProcessManager that owns the recorder children, the monitor task    *)
(* that writes a task's outcome back, cancellation, deletion, the zombie   *)
(* inspector and the recovery run at boot.                                 *)
(*                                                                         *)
(* One step is what runs between two await points of one actor.  A task id *)
(* is a fresh uuid, so each element of Tasks is one call of start_manual.  *)
(* A row deleted while its recorder lives leaves the recorder behind: rows *)
(* and recorders are separate state, tied only by what the actors do.      *)
(***************************************************************************)
EXTENDS Naturals, FiniteSets

CONSTANTS
    Tasks,          \* uuids, one per call of start_manual
    Channels,       \* ids the channels table starts with
    Schedules,      \* ids the schedules table starts with
    NoSchedule,     \* the NULL schedule_id of a manual recording
    ChannelOf,      \* the channel each schedule row belongs to
    MaxConcurrent,  \* recorder.max_concurrent, at least 1
    NoTask,         \* nobody holds the admission lock
    NoRequest,      \* the request of a call not made yet
    MaxFaults       \* BOUND: faults (crash, lost client, DB error) per run

Requests == [channel : Channels, schedule : Schedules \cup {NoSchedule}]

ASSUME TasksAssumption == IsFiniteSet(Tasks) /\ NoTask \notin Tasks
ASSUME SchedulesAssumption ==
    /\ NoSchedule \notin Schedules
    /\ ChannelOf \in [Schedules -> Channels]
    /\ NoRequest \notin Requests
ASSUME LimitsAssumption == MaxConcurrent \in Nat \ {0} /\ MaxFaults \in Nat

VARIABLES
    \* the database, which survives a crash
    channelRows, scheduleRows,
    status,         \* tasks.status; "none" before the INSERT, "deleted" after
    stale,          \* running rows whose updated_at is past the threshold
    announced,      \* how often a guarded write announced the end of a task
    \* the calls of start_manual
    request, call, admissionLock,
    \* the ProcessManager and the children it spawned
    processes,      \* tasks registered in ProcessManager.processes
    killSent,       \* kill_tx.send(()) done
    waiter,         \* the task that awaits the child, and what it published
    recorder,       \* the child itself, a process of the operating system
    \* the other actors
    monitor,        \* the task spawned at the end of start_manual
    cancelling,     \* a cancel request between its UPDATE and its stop
    deleting,       \* delete_task requests that passed their status check
    zombies,        \* rows the inspector has selected and not yet handled
    backend, faults

dbVars   == <<channelRows, scheduleRows, status, stale, announced>>
callVars == <<request, call, admissionLock>>
procVars == <<processes, killSent, waiter, recorder>>
restVars == <<monitor, cancelling, deleting, zombies, backend, faults>>
vars     == <<dbVars, callVars, procVars, restVars>>

Terminal == {"completed", "failed", "cancelled"}
HasRow   == {"running"} \cup Terminal

\* The final values of the watch channel of ProcessStatus; until then it says
\* running.  status_tx sends each of them once.
Published == {"completed", "failed"}

\* Where a start call can be dropped: it is suspended at an await point.
InFlight == {"waiting", "locked", "checked", "admitted", "spawned"}

TypeOK ==
    /\ channelRows \subseteq Channels
    /\ scheduleRows \subseteq Schedules
    /\ status \in [Tasks -> {"none", "deleted"} \cup HasRow]
    /\ stale \subseteq Tasks
    /\ announced \in [Tasks -> Nat]
    /\ request \in [Tasks -> Requests \cup {NoRequest}]
    /\ call \in [Tasks -> InFlight \cup {"idle", "over"}]
    /\ admissionLock \in Tasks \cup {NoTask}
    /\ processes \subseteq Tasks
    /\ killSent \subseteq Tasks
    /\ waiter \in [Tasks -> {"none", "waiting", "reapedOk", "reapedErr",
                             "outOk", "outErr", "completed", "failed"}]
    /\ recorder \in [Tasks -> {"none", "alive", "hung", "exited", "crashed",
                               "killed"}]
    /\ monitor \in [Tasks -> {"none", "looping", "finishing", "failing",
                              "done"}]
    /\ cancelling \in [Tasks -> {"no", "marked", "late"}]
    /\ deleting \subseteq Tasks
    /\ zombies \subseteq Tasks
    /\ backend \in {"down", "recovering", "up"}
    /\ faults \in 0..MaxFaults

Init ==
    /\ channelRows = Channels
    /\ scheduleRows = Schedules
    /\ status = [t \in Tasks |-> "none"]
    /\ stale = {}
    /\ announced = [t \in Tasks |-> 0]
    /\ request = [t \in Tasks |-> NoRequest]
    /\ call = [t \in Tasks |-> "idle"]
    /\ admissionLock = NoTask
    /\ processes = {}
    /\ killSent = {}
    /\ waiter = [t \in Tasks |-> "none"]
    /\ recorder = [t \in Tasks |-> "none"]
    /\ monitor = [t \in Tasks |-> "none"]
    /\ cancelling = [t \in Tasks |-> "no"]
    /\ deleting = {}
    /\ zombies = {}
    /\ backend = "up"
    /\ faults = 0

-----------------------------------------------------------------------------
(* Queries over the tasks table.                                           *)

Running == {t \in Tasks : status[t] = "running"}

\* tasks.schedule_id: ON DELETE SET NULL forgets a deleted schedule.
RowSchedule(t) ==
    IF request[t].schedule \in scheduleRows THEN request[t].schedule
                                            ELSE NoSchedule

\* has_running_task_for_channel, has_running_task_for_schedule
ChannelBusy(r) == \E u \in Running : request[u].channel = r.channel
ScheduleBusy(r) ==
    /\ r.schedule # NoSchedule
    /\ \E u \in Running : RowSchedule(u) = r.schedule

\* The foreign keys of the tasks table and validate_schedule_id.
ScheduleExists(r) == r.schedule \in scheduleRows \cup {NoSchedule}
ForeignKeysHold(r) == r.channel \in channelRows /\ ScheduleExists(r)

\* ensure_recording_capacity without the free-space probe.
HasCapacity(r) ==
    /\ Cardinality(Running) < MaxConcurrent
    /\ ~ChannelBusy(r)
    /\ ~ScheduleBusy(r)

LiveRecorder(t) == recorder[t] \in {"alive", "hung"}

Fault == faults < MaxFaults /\ faults' = faults + 1

-----------------------------------------------------------------------------
(* Writes to a task row.                                                   *)

SetStatus(t, s) ==
    /\ status' = [status EXCEPT ![t] = s]
    /\ stale' = stale \ {t}

Announce(t) == announced' = [announced EXCEPT ![t] = @ + 1]

\* Faulty variant: the UPDATE forgets AND status = 'running'.
SettleRunning_Unguarded(t, s) == SetStatus(t, s) /\ Announce(t)

\* UPDATE tasks SET status = s ... WHERE id = t AND status = 'running', then
\* the event and the notification when rows_affected > 0.
SettleRunning(t, s) ==
    IF status[t] = "running"
    THEN SetStatus(t, s) /\ Announce(t)
    ELSE UNCHANGED <<status, stale, announced>>

-----------------------------------------------------------------------------
(* start_manual: admission under ADMISSION_LOCK, then spawn and register.  *)

\* Settings, get_channel and build_output_path, then queue for the lock.
StartManual(t) ==
    /\ backend = "up" /\ call[t] = "idle"
    /\ \E r \in Requests :
          /\ r.channel \in channelRows
          /\ request' = [request EXCEPT ![t] = r]
    /\ call' = [call EXCEPT ![t] = "waiting"]
    /\ UNCHANGED <<dbVars, admissionLock, procVars, restVars>>

\* Faulty variant: no lock around the admission.
AcquireLock_Unlocked(t) ==
    /\ call[t] = "waiting"
    /\ admissionLock' = t
    /\ call' = [call EXCEPT ![t] = "locked"]
    /\ UNCHANGED <<dbVars, request, procVars, restVars>>

AcquireLock(t) ==
    /\ call[t] = "waiting" /\ admissionLock = NoTask
    /\ admissionLock' = t
    /\ call' = [call EXCEPT ![t] = "locked"]
    /\ UNCHANGED <<dbVars, request, procVars, restVars>>

\* An early return drops the guard of the lock.
LeaveAdmission(t, pc) ==
    /\ call' = [call EXCEPT ![t] = pc]
    /\ admissionLock' = NoTask

\* Faulty variant: the guard is dropped after the check, before the INSERT.
PassCapacity_ReleasesEarly(t) ==
    /\ call[t] = "locked"
    /\ ScheduleExists(request[t]) /\ HasCapacity(request[t])
    /\ LeaveAdmission(t, "checked")
    /\ UNCHANGED <<dbVars, request, procVars, restVars>>

PassCapacity(t) ==
    /\ call[t] = "locked"
    /\ ScheduleExists(request[t]) /\ HasCapacity(request[t])
    /\ call' = [call EXCEPT ![t] = "checked"]
    /\ UNCHANGED <<dbVars, request, admissionLock, procVars, restVars>>

\* Schedule gone, a limit reached, or too little free space on the disk (the
\* probe may refuse any request).
RejectAdmission(t) ==
    /\ call[t] = "locked"
    /\ LeaveAdmission(t, "over")
    /\ UNCHANGED <<dbVars, request, procVars, restVars>>

\* What SQLite checks on the INSERT: migration 0006 and the foreign keys.
InsertAllowed(r) ==
    ForeignKeysHold(r) /\ ~ChannelBusy(r) /\ ~ScheduleBusy(r)

InsertRunning(t) ==
    /\ call[t] = "checked" /\ InsertAllowed(request[t])
    /\ status' = [status EXCEPT ![t] = "running"]
    /\ LeaveAdmission(t, "admitted")
    /\ UNCHANGED <<channelRows, scheduleRows, stale, announced, request,
                   procVars, restVars>>

InsertRefused(t) ==
    /\ call[t] = "checked" /\ ~InsertAllowed(request[t])
    /\ LeaveAdmission(t, "over")
    /\ UNCHANGED <<dbVars, request, procVars, restVars>>

\* ProcessManager.start_recording up to cmd.spawn(): it never looks at the row.
SpawnRecorder(t) ==
    /\ call[t] = "admitted"
    /\ recorder' = [recorder EXCEPT ![t] = "alive"]
    /\ call' = [call EXCEPT ![t] = "spawned"]
    /\ UNCHANGED <<dbVars, request, admissionLock, processes, killSent, waiter, restVars>>

\* A directory or the child cannot be created.  The UPDATE to failed has no
\* guard on the status.  Its notification is not among those announced counts.
SpawnFails(t) ==
    /\ call[t] = "admitted"
    /\ call' = [call EXCEPT ![t] = "over"]
    /\ IF status[t] \in HasRow THEN SetStatus(t, "failed")
                               ELSE UNCHANGED <<status, stale>>
    /\ UNCHANGED <<channelRows, scheduleRows, announced, request,
                   admissionLock, procVars, restVars>>

\* The same when that UPDATE errs too: its result is discarded by .ok().
SpawnFailureUnrecorded(t) ==
    /\ Fault /\ call[t] = "admitted"
    /\ call' = [call EXCEPT ![t] = "over"]
    /\ UNCHANGED <<dbVars, request, admissionLock, procVars, monitor,
                   cancelling, deleting, zombies, backend>>

\* From processes.insert to the tokio::spawn of the monitor there is no await.
Register(t) ==
    /\ call[t] = "spawned"
    /\ call' = [call EXCEPT ![t] = "over"]
    /\ processes' = processes \cup {t}
    /\ waiter' = [waiter EXCEPT ![t] = "waiting"]
    /\ monitor' = [monitor EXCEPT ![t] = "looping"]
    /\ UNCHANGED <<dbVars, request, admissionLock, killSent, recorder,
                   cancelling, deleting, zombies, backend, faults>>

\* Faulty variant: a lock that a dropped future does not release.
DropCall_KeepsLock(t) ==
    /\ Fault /\ call[t] \in InFlight
    /\ call' = [call EXCEPT ![t] = "over"]
    /\ UNCHANGED <<dbVars, request, admissionLock, procVars, monitor,
                   cancelling, deleting, zombies, backend>>

\* The client hangs up: the server drops the handler's future where it is
\* suspended.  A child not yet registered lives on without a waiter.
DropCall(t) ==
    /\ Fault /\ call[t] \in InFlight
    /\ call' = [call EXCEPT ![t] = "over"]
    /\ admissionLock' = IF admissionLock = t THEN NoTask ELSE admissionLock
    /\ UNCHANGED <<dbVars, request, procVars, monitor, cancelling, deleting,
                   zombies, backend>>

-----------------------------------------------------------------------------
(* The recorder child and the task that waits for it.                      *)

\* The duration is up, the child gives up, or something outside kills it.
RecorderExits(t) ==
    /\ recorder[t] = "alive"
    /\ \E how \in {"exited", "crashed", "killed"} :
          recorder' = [recorder EXCEPT ![t] = how]
    /\ UNCHANGED <<dbVars, callVars, processes, killSent, waiter,
                   restVars>>

\* A child that writes nothing any more and never ends by itself.
RecorderHangs(t) ==
    /\ Fault /\ recorder[t] = "alive"
    /\ recorder' = [recorder EXCEPT ![t] = "hung"]
    /\ UNCHANGED <<dbVars, callVars, processes, killSent, waiter,
                   monitor, cancelling, deleting, zombies, backend>>

\* Faulty variant: try_wait, whose None for a live child reads as no exit code.
WaiterSeesExit_TryWait(t) ==
    /\ waiter[t] = "waiting"
    /\ waiter' = [waiter EXCEPT ![t] = IF recorder[t] = "crashed"
                                       THEN "reapedErr" ELSE "reapedOk"]
    /\ UNCHANGED <<dbVars, callVars, processes, killSent, recorder, restVars>>

\* child.wait(): an exit code other than 0 is an error, no code is not.
WaiterSeesExit(t) ==
    /\ waiter[t] = "waiting" /\ ~LiveRecorder(t)
    /\ waiter' = [waiter EXCEPT ![t] = IF recorder[t] = "crashed"
                                       THEN "reapedErr" ELSE "reapedOk"]
    /\ UNCHANGED <<dbVars, callVars, processes, killSent, recorder,
                   restVars>>

\* Faulty variant: a polite signal, which a hung recorder ignores.
WaiterKills_Polite(t) ==
    /\ waiter[t] = "waiting" /\ t \in killSent
    /\ recorder' = [recorder EXCEPT ![t] = IF @ = "alive" THEN "killed" ELSE @]
    /\ waiter' = [waiter EXCEPT ![t] = "reapedOk"]
    /\ UNCHANGED <<dbVars, callVars, processes, killSent, restVars>>

\* kill_rx: child.kill() also waits for the child.
WaiterKills(t) ==
    /\ waiter[t] = "waiting" /\ t \in killSent
    /\ recorder' = [recorder EXCEPT ![t] = IF LiveRecorder(t) THEN "killed"
                                                              ELSE @]
    /\ waiter' = [waiter EXCEPT ![t] = "reapedOk"]
    /\ UNCHANGED <<dbVars, callVars, processes, killSent, restVars>>

WaiterDeregisters(t) ==
    /\ waiter[t] \in {"reapedOk", "reapedErr"}
    /\ processes' = processes \ {t}
    /\ waiter' = [waiter EXCEPT ![t] = IF @ = "reapedOk" THEN "outOk"
                                                        ELSE "outErr"]
    /\ UNCHANGED <<dbVars, callVars, killSent, recorder, restVars>>

WaiterPublishes(t) ==
    /\ waiter[t] \in {"outOk", "outErr"}
    /\ waiter' = [waiter EXCEPT ![t] = IF @ = "outOk" THEN "completed"
                                                     ELSE "failed"]
    /\ UNCHANGED <<dbVars, callVars, processes, killSent, recorder, restVars>>

-----------------------------------------------------------------------------
(* The monitor: progress, then one guarded write of the outcome.           *)

\* Every 3 s while the watch says running: UPDATE ... updated_at with no
\* guard on the status.  Terminal rows are never stale, so only a running row
\* shows the difference.
ProgressTick(t) ==
    /\ monitor[t] = "looping" /\ waiter[t] \notin Published
    /\ stale' = stale \ {t}
    /\ UNCHANGED <<channelRows, scheduleRows, status, announced, callVars,
                   procVars, restVars>>

\* Faulty variant: the monitor returns at once when the recorder failed.
MonitorLeavesLoop_DropsFailure(t) ==
    /\ monitor[t] = "looping" /\ waiter[t] \in Published
    /\ monitor' = [monitor EXCEPT ![t] = IF waiter[t] = "completed"
                                         THEN "finishing" ELSE "done"]
    /\ UNCHANGED <<dbVars, callVars, procVars, cancelling, deleting, zombies,
                   backend, faults>>

MonitorLeavesLoop(t) ==
    /\ monitor[t] = "looping" /\ waiter[t] \in Published
    /\ monitor' = [monitor EXCEPT ![t] = IF waiter[t] = "completed"
                                         THEN "finishing" ELSE "failing"]
    /\ UNCHANGED <<dbVars, callVars, procVars, cancelling, deleting, zombies,
                   backend, faults>>

\* After locating, renaming and transcoding the file, however long that takes.
CompletionWriteback(t) ==
    /\ monitor[t] = "finishing"
    /\ SettleRunning(t, "completed")
    /\ monitor' = [monitor EXCEPT ![t] = "done"]
    /\ UNCHANGED <<channelRows, scheduleRows, callVars, procVars, cancelling,
                   deleting, zombies, backend, faults>>

FailureWriteback(t) ==
    /\ monitor[t] = "failing"
    /\ SettleRunning(t, "failed")
    /\ monitor' = [monitor EXCEPT ![t] = "done"]
    /\ UNCHANGED <<channelRows, scheduleRows, callVars, procVars, cancelling,
                   deleting, zombies, backend, faults>>

\* A database error is treated like rows_affected = 0: the monitor returns.
WritebackFails(t) ==
    /\ Fault /\ monitor[t] \in {"finishing", "failing"}
    /\ monitor' = [monitor EXCEPT ![t] = "done"]
    /\ UNCHANGED <<dbVars, callVars, procVars, cancelling, deleting, zombies,
                   backend>>

-----------------------------------------------------------------------------
(* cancel: mark the row, then stop the process.                            *)

\* Faulty variant: stop first, mark the row afterwards (here: never).
CancelMark_StopFirst(t) ==
    /\ backend = "up" /\ cancelling[t] = "no"
    /\ status[t] \in HasRow
    /\ cancelling' = [cancelling EXCEPT ![t] = "late"]
    /\ UNCHANGED <<dbVars, callVars, procVars, monitor, deleting, zombies,
                   backend, faults>>

CancelMark(t) ==
    /\ backend = "up" /\ cancelling[t] = "no"
    /\ status[t] \in HasRow
    /\ IF status[t] = "running"
       THEN SetStatus(t, "cancelled")
       ELSE UNCHANGED <<status, stale>>
    /\ cancelling' = [cancelling EXCEPT ![t] = IF status[t] = "running"
                                               THEN "marked" ELSE "late"]
    /\ UNCHANGED <<channelRows, scheduleRows, announced, callVars, procVars,
                   monitor, deleting, zombies, backend, faults>>

\* Faulty variant: only a cancel whose UPDATE hit the row stops the process.
CancelStop_OnlyMarked(t) ==
    /\ cancelling[t] # "no"
    /\ IF cancelling[t] = "marked" /\ t \in processes
       THEN processes' = processes \ {t} /\ killSent' = killSent \cup {t}
       ELSE UNCHANGED <<processes, killSent>>
    /\ IF cancelling[t] = "marked" THEN Announce(t) ELSE UNCHANGED announced
    /\ cancelling' = [cancelling EXCEPT ![t] = "no"]
    /\ UNCHANGED <<channelRows, scheduleRows, status, stale, callVars, waiter,
                   recorder, monitor, deleting, zombies, backend, faults>>

\* stop_by_task_id takes the entry out of the map and sends the kill; without
\* an entry it only warns.  The notice goes out when the UPDATE hit the row.
CancelStop(t) ==
    /\ cancelling[t] # "no"
    /\ IF t \in processes
       THEN processes' = processes \ {t} /\ killSent' = killSent \cup {t}
       ELSE UNCHANGED <<processes, killSent>>
    /\ IF cancelling[t] = "marked" THEN Announce(t)
                                   ELSE UNCHANGED announced
    /\ cancelling' = [cancelling EXCEPT ![t] = "no"]
    /\ UNCHANGED <<channelRows, scheduleRows, status, stale, callVars, waiter, recorder, monitor, deleting, zombies, backend,
                   faults>>

DropCancel(t) ==
    /\ Fault /\ cancelling[t] # "no"
    /\ cancelling' = [cancelling EXCEPT ![t] = "no"]
    /\ UNCHANGED <<dbVars, callVars, procVars, monitor, deleting, zombies,
                   backend>>

-----------------------------------------------------------------------------
(* Deletions.                                                              *)

\* Faulty variant: delete_task does not look at the status.
DeleteTaskCheck_AnyStatus(t) ==
    /\ backend = "up" /\ status[t] \in HasRow /\ t \notin deleting
    /\ deleting' = deleting \cup {t}
    /\ UNCHANGED <<dbVars, callVars, procVars, monitor, cancelling, zombies,
                   backend, faults>>

\* delete_task reads the row, refuses a running one, ...
DeleteTaskCheck(t) ==
    /\ backend = "up" /\ status[t] \in Terminal /\ t \notin deleting
    /\ deleting' = deleting \cup {t}
    /\ UNCHANGED <<dbVars, callVars, procVars, monitor, cancelling, zombies,
                   backend, faults>>

\* ... and deletes by id alone.
DeleteTaskRow(t) ==
    /\ t \in deleting
    /\ deleting' = deleting \ {t}
    /\ SetStatus(t, "deleted")
    /\ UNCHANGED <<channelRows, scheduleRows, announced, callVars, procVars,
                   monitor, cancelling, zombies, backend, faults>>

\* DELETE of the rows in S, whatever else refers to those tasks.
DropRows(S) ==
    /\ status' = [t \in Tasks |-> IF t \in S THEN "deleted" ELSE status[t]]
    /\ stale' = stale \ S

ClearCompletedTasks ==
    /\ backend = "up"
    /\ \E t \in Tasks : status[t] \in Terminal
    /\ DropRows({t \in Tasks : status[t] \in Terminal})
    /\ UNCHANGED <<channelRows, scheduleRows, announced, callVars, procVars,
                   restVars>>

\* DELETE FROM channels cascades to its schedules and to its tasks, running
\* ones included; no recorder is stopped.
DeleteChannel(c) ==
    /\ backend = "up" /\ c \in channelRows
    /\ channelRows' = channelRows \ {c}
    /\ scheduleRows' = {s \in scheduleRows : ChannelOf[s] # c}
    /\ DropRows({t \in Tasks : status[t] \in HasRow
                               /\ request[t].channel = c})
    /\ UNCHANGED <<announced, callVars, procVars, restVars>>

DeleteSchedule(s) ==
    /\ backend = "up" /\ s \in scheduleRows
    /\ scheduleRows' = scheduleRows \ {s}
    /\ UNCHANGED <<channelRows, status, stale, announced, callVars, procVars,
                   restVars>>

-----------------------------------------------------------------------------
(* The zombie inspector, and the passing of time.                          *)

\* updated_at falls behind the threshold.  A monitor in its loop refreshes the
\* row every 3 s against a threshold of 30 s at the least.
GoesStale(t) ==
    /\ status[t] = "running" /\ monitor[t] # "looping" /\ t \notin stale
    /\ stale' = stale \cup {t}
    /\ UNCHANGED <<channelRows, scheduleRows, status, announced, callVars,
                   procVars, restVars>>

\* Faulty variant: the inspector looks only at tasks with a registered process.
StaleRows_OnlyRegistered == {t \in Running : t \in stale /\ t \in processes}

StaleRows == {t \in Running : t \in stale}

InspectorSelects ==
    /\ backend = "up" /\ zombies = {} /\ StaleRows # {}
    /\ zombies' = StaleRows
    /\ UNCHANGED <<dbVars, callVars, procVars, monitor, cancelling, deleting,
                   backend, faults>>

InspectorFails(t) ==
    /\ t \in zombies
    /\ SettleRunning(t, "failed")
    /\ zombies' = zombies \ {t}
    /\ UNCHANGED <<channelRows, scheduleRows, callVars, procVars, monitor,
                   cancelling, deleting, backend, faults>>

\* The `?` of an UPDATE that errs abandons the rest of the round.
InspectorAborts ==
    /\ Fault /\ zombies # {}
    /\ zombies' = {}
    /\ UNCHANGED <<dbVars, callVars, procVars, monitor, cancelling, deleting,
                   backend>>

-----------------------------------------------------------------------------
(* The end of the backend process and the next boot.                       *)

\* Everything in memory is gone.  Recorders are spawned without kill_on_drop:
\* any of them may survive as an orphan of the operating system.
Crash ==
    /\ Fault /\ backend # "down"
    /\ backend' = "down"
    /\ call' = [t \in Tasks |-> IF call[t] \in InFlight THEN "over"
                                                        ELSE call[t]]
    /\ admissionLock' = NoTask
    /\ processes' = {} /\ killSent' = {}
    /\ waiter' = [t \in Tasks |-> "none"]
    /\ \E S \in SUBSET {t \in Tasks : LiveRecorder(t)} :
          recorder' = [t \in Tasks |-> IF t \in S THEN "killed"
                                                  ELSE recorder[t]]
    /\ monitor' = [t \in Tasks |-> "none"]
    /\ cancelling' = [t \in Tasks |-> "no"]
    /\ deleting' = {} /\ zombies' = {}
    /\ UNCHANGED <<dbVars, request>>

Boot ==
    /\ backend = "down"
    /\ backend' = "recovering"
    /\ UNCHANGED <<dbVars, callVars, procVars, monitor, cancelling, deleting,
                   zombies, faults>>

\* Before the inspector, the scheduler and the HTTP server start.
ReconcileOrphanedTasks ==
    /\ backend = "recovering"
    /\ status' = [t \in Tasks |-> IF t \in Running THEN "failed"
                                                   ELSE status[t]]
    /\ stale' = stale \ Running
    /\ announced' = [t \in Tasks |-> IF t \in Running THEN announced[t] + 1
                                                     ELSE announced[t]]
    /\ backend' = "up"
    /\ UNCHANGED <<channelRows, scheduleRows, callVars, procVars, monitor,
                   cancelling, deleting, zombies, faults>>

\* main only warns when the recovery fails, and goes on.
ReconcileFails ==
    /\ Fault /\ backend = "recovering"
    /\ backend' = "up"
    /\ UNCHANGED <<dbVars, callVars, procVars, monitor, cancelling, deleting,
                   zombies>>

-----------------------------------------------------------------------------
CallStep(t) ==
    \/ PassCapacity(t) \/ RejectAdmission(t)
    \/ InsertRunning(t) \/ InsertRefused(t)
    \/ SpawnRecorder(t) \/ SpawnFails(t) \/ Register(t)

WaiterStep(t) ==
    \/ WaiterSeesExit(t) \/ WaiterKills(t)
    \/ WaiterDeregisters(t) \/ WaiterPublishes(t)

MonitorStep(t) ==
    MonitorLeavesLoop(t) \/ CompletionWriteback(t) \/ FailureWriteback(t)

InspectorStep == InspectorSelects \/ \E t \in Tasks : InspectorFails(t)

UserStep ==
    \/ \E t \in Tasks : StartManual(t) \/ CancelMark(t) \/ DeleteTaskCheck(t)
    \/ ClearCompletedTasks
    \/ \E c \in Channels : DeleteChannel(c)
    \/ \E s \in Schedules : DeleteSchedule(s)

FaultStep ==
    \/ \E t \in Tasks : \/ DropCall(t) \/ DropCancel(t) \/ RecorderHangs(t)
                        \/ WritebackFails(t) \/ SpawnFailureUnrecorded(t)
    \/ InspectorAborts \/ Crash \/ ReconcileFails

Next ==
    \/ UserStep \/ FaultStep \/ InspectorStep
    \/ Boot \/ ReconcileOrphanedTasks
    \/ \E t \in Tasks :
          \/ AcquireLock(t) \/ CallStep(t)
          \/ WaiterStep(t) \/ RecorderExits(t)
          \/ MonitorStep(t) \/ ProgressTick(t) \/ GoesStale(t)
          \/ CancelStop(t) \/ DeleteTaskRow(t)

Spec == Init /\ [][Next]_vars

(* The backend's own tasks are scheduled fairly by tokio, its mutex is a   *)
(* queue, and a process supervisor restarts the backend.  Time passes.     *)
BackendFairness ==
    /\ \A t \in Tasks :
          /\ WF_vars(AcquireLock(t)) /\ WF_vars(CallStep(t))
          /\ WF_vars(WaiterStep(t)) /\ WF_vars(MonitorStep(t))
          /\ WF_vars(CancelStop(t)) /\ WF_vars(GoesStale(t))
    /\ WF_vars(InspectorStep)
    /\ WF_vars(Boot) /\ WF_vars(ReconcileOrphanedTasks \/ ReconcileFails)

(* Recorders are started with a duration limit: unless one hangs, it ends. *)
RecorderFairness == \A t \in Tasks : WF_vars(RecorderExits(t))

FairSpec == Spec /\ BackendFairness /\ RecorderFairness

-----------------------------------------------------------------------------
(* What must hold.  What the documents claim and the code does not keep    *)
(* has a section of its own at the end.                                    *)

\* The admission limits (services/recording.rs, ADMISSION_LOCK): the rows that
\* say running never exceed max_concurrent, whoever finishes or is admitted at
\* the same time, and no two of them share a channel or a schedule.
WithinLimit == Cardinality(Running) <= MaxConcurrent

OneRunningPerChannel ==
    \A t, u \in Running :
        t # u => request[t].channel # request[u].channel

OneRunningPerSchedule ==
    \A t, u \in Running :
        t # u => \/ RowSchedule(t) # RowSchedule(u)
                 \/ RowSchedule(t) = NoSchedule

AdmissionRespected ==
    WithinLimit /\ OneRunningPerChannel /\ OneRunningPerSchedule

\* Within one process the unique indexes of migration 0006 are only a backstop:
\* what a call has checked under the lock still holds when it inserts.
CheckStaysValid ==
    \A t \in Tasks : call[t] = "checked" => HasCapacity(request[t])

\* A task whose recorder was told to stop never reads running or completed: the
\* row is marked before the kill, the child leaves the map before it reports.
KilledNeverCompleted ==
    \A t \in killSent : status[t] \notin {"running", "completed"}

\* completed means the recorder is gone, so its file is final.
CompletedMeansRecorderGone ==
    \A t \in Tasks : status[t] = "completed" => ~LiveRecorder(t)

\* Monitor, cancel, inspector and recovery race for the end of a task: one of
\* them wins and announces it, and nobody announces a task that still runs.
AnnouncedOnce ==
    \A t \in Tasks :
        announced[t] <= (IF status[t] = "running" THEN 0 ELSE 1)

\* delete_task checks and deletes in two steps; the row it then deletes by id
\* alone has not become a running one.
DeleteSparesRunning == \A t \in deleting : status[t] # "running"

\* A cancel is final for monitor, waiter, inspector and recovery; only a
\* recorder that cannot be spawned turns it to failed (start_manual).
OnlySpawnOverwritesCancel ==
    [][\A t \in Tasks :
          /\ status[t] = "cancelled"
          /\ status'[t] \notin {"cancelled", "deleted"}
          => call[t] = "admitted" /\ status'[t] = "failed"]_vars

\* As long as nothing has failed, a cancel that gets past get_task once the start
\* has returned leaves no recorder alone, whatever became of the row before it: the
\* second cancel stops what the first came too early for, and so does one whose row
\* goes after it was read (services/recording.rs, cancel; who asks after the row has
\* gone, with its channel or by itself, gets an error and stops nothing).
CancelStopsRecorder ==
    [][\A t \in Tasks :
          /\ faults' = 0 /\ call[t] = "over" /\ LiveRecorder(t)
          /\ cancelling[t] # "no" /\ cancelling'[t] = "no"
          => t \in killSent']_vars

\* As long as nothing has failed, a running row has an actor that will settle
\* it: no zombie rows without a crash, a lost client or a database error.
NoZombieWithoutFault ==
    faults = 0 => \A t \in Running :
        \/ call[t] \in {"admitted", "spawned"}
        \/ monitor[t] \in {"looping", "finishing", "failing"}

\* The rows behave like the tasks of TaskLifecycle: admitted within the limits,
\* ended once, never run again, never back after a deletion.
RequestChannel ==
    [t \in Tasks |-> IF request[t] = NoRequest THEN "unknown"
                                              ELSE request[t].channel]

Lifecycle == INSTANCE TaskLifecycle WITH life <- status,
                                         channel <- RequestChannel

ImplementsLifecycle == Lifecycle!Spec

\* Every running row ends, after any faults, unless its recorder hangs: the
\* monitor settles it, or the inspector or the next boot finds it.
RunningRowsSettle ==
    \A t \in Tasks :
        status[t] = "running" ~> (status[t] # "running" \/ recorder[t] = "hung")

\* Nobody runs away with the admission lock: every early return, failed query,
\* dropped future and crash gives it back, and who holds it is between the check
\* and the INSERT of a call that goes on.
LockHeldInside ==
    admissionLock # NoTask => call[admissionLock] \in {"locked", "checked"}

\* A start call that queues for the admission lock comes back, however other
\* calls fail, return early or are dropped while they hold it.
CallsReturn == \A t \in Tasks : call[t] = "waiting" ~> call[t] = "over"

\* A recorder told to stop ends even if it hangs (a crash forgets the kill).
KillStopsRecorder ==
    \A t \in Tasks : t \in killSent ~> (~LiveRecorder(t) \/ t \notin killSent)

-----------------------------------------------------------------------------
(* The inductive invariant behind the safety properties.                   *)

\* Who is inside the admission holds the lock, and has no row yet.
AdmissionPhases ==
    \A t \in Tasks :
        /\ call[t] \in {"locked", "checked"} => admissionLock = t
        /\ call[t] \in {"idle", "waiting", "locked", "checked"}
              => status[t] = "none"
        /\ IF call[t] = "idle" THEN request[t] = NoRequest
                              ELSE request[t] \in Requests

\* The child is reaped, then unlisted, then published, then written back.
ProcessPhases ==
    \A t \in Tasks :
        /\ waiter[t] # "none" \/ monitor[t] # "none" => call[t] = "over"
        /\ waiter[t] \notin {"none", "waiting"} => ~LiveRecorder(t)
        /\ monitor[t] \in {"finishing", "failing"} => waiter[t] \in Published
        /\ t \in processes => waiter[t] \in {"waiting", "reapedOk", "reapedErr"}
        /\ status[t] = "completed" => call[t] = "over" /\ t \notin processes

\* Whoever acts on a task after looking at its row found it ended.
WriteOrder ==
    \A t \in Tasks :
        /\ t \in killSent \cup deleting => status[t] # "none"
        /\ cancelling[t] # "no" => status[t] \notin {"none", "running"}
        /\ cancelling[t] = "marked" => announced[t] = 0
        /\ status[t] = "none" => announced[t] = 0

\* As long as nothing has failed, every recorder that lives is registered, about to
\* be, or already told to stop.
RecorderListed ==
    faults = 0 => \A t \in Tasks : LiveRecorder(t) =>
        t \in processes \cup killSent \/ call[t] = "spawned"

\* Inductive: TypeOK, the limits with the lock they rest on, and the races for
\* the end of a task with the order of the writes they rest on.
IndInv ==
    /\ TypeOK
    /\ AdmissionPhases /\ CheckStaysValid /\ AdmissionRespected
    /\ ProcessPhases /\ CompletedMeansRecorderGone
    /\ WriteOrder /\ KilledNeverCompleted /\ AnnouncedOnce
    /\ DeleteSparesRunning
    /\ RecorderListed /\ NoZombieWithoutFault

-----------------------------------------------------------------------------
(* A claim of a comment that the code does not keep.                       *)

\* stop_by_task_id: no entry in the map means that the task has ended or does
\* not exist.  Once a cancel has returned, the recorder is down or told to stop.
CancelledRecorderStops ==
    \A t \in Tasks :
        status[t] = "cancelled" /\ cancelling[t] = "no" /\ LiveRecorder(t)
            => t \in killSent

=============================================================================
