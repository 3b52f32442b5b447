--------------------------- MODULE RecordingProofs ---------------------------
(***************************************************************************)
(* Proofs about Recording, for any number of tasks, channels and schedules *)
(* and any limit: the inductive invariant, the safety properties it        *)
(* implies, and the refinement of TaskLifecycle.                           *)
(***************************************************************************)
EXTENDS Recording, FiniteSetTheorems, TLAPS

\* The running rows can be counted.
LEMMA RunningIsFinite == IsFiniteSet(Running)
  BY TasksAssumption, FS_Subset DEF Running

\* The initial state has the types.
LEMMA InitTypeOK == Init => TypeOK
  BY LimitsAssumption DEF Init, TypeOK, InFlight, HasRow, Terminal

\* The initial state satisfies every conjunct of the invariant.
LEMMA InitIndInv == Init => IndInv
  <1> SUFFICES ASSUME Init PROVE IndInv
    OBVIOUS
  <1>1. TypeOK
    BY InitTypeOK
  <1>2. Running = {}
    BY DEF Init, Running
  <1>3. AdmissionRespected
    BY <1>2, FS_EmptySet, LimitsAssumption
    DEF AdmissionRespected, WithinLimit, OneRunningPerChannel,
        OneRunningPerSchedule
  <1>4. AdmissionPhases /\ CheckStaysValid
    BY DEF Init, AdmissionPhases, CheckStaysValid
  <1>5. ProcessPhases /\ CompletedMeansRecorderGone
    BY DEF Init, ProcessPhases, CompletedMeansRecorderGone
  <1>6. WriteOrder /\ KilledNeverCompleted /\ AnnouncedOnce
        /\ DeleteSparesRunning
    BY DEF Init, WriteOrder, KilledNeverCompleted, AnnouncedOnce,
           DeleteSparesRunning
  <1>7. RecorderListed /\ NoZombieWithoutFault
    BY <1>2 DEF Init, RecorderListed, NoZombieWithoutFault, LiveRecorder
  <1> QED
    BY <1>1, <1>3, <1>4, <1>5, <1>6, <1>7 DEF IndInv

(* Type correctness, one step per action.                                  *)
LEMMA TypeOKStep == TypeOK /\ [Next]_vars => TypeOK'
  <1> SUFFICES ASSUME TypeOK, [Next]_vars PROVE TypeOK'
    OBVIOUS
  <1> USE LimitsAssumption DEF TypeOK, InFlight, HasRow, Terminal, Published, vars, dbVars,
          callVars, procVars, restVars, SetStatus, Announce, SettleRunning,
          LeaveAdmission, DropRows, Fault, Running, StaleRows
  <1>1. ASSUME NEW t \in Tasks, StartManual(t) PROVE TypeOK'
    BY <1>1 DEF StartManual
  <1>2. ASSUME NEW t \in Tasks, AcquireLock(t) PROVE TypeOK'
    BY <1>2 DEF AcquireLock
  <1>3. ASSUME NEW t \in Tasks, PassCapacity(t) PROVE TypeOK'
    BY <1>3 DEF PassCapacity
  <1>4. ASSUME NEW t \in Tasks, RejectAdmission(t) PROVE TypeOK'
    BY <1>4 DEF RejectAdmission
  <1>5. ASSUME NEW t \in Tasks, InsertRunning(t) PROVE TypeOK'
    BY <1>5 DEF InsertRunning
  <1>6. ASSUME NEW t \in Tasks, InsertRefused(t) PROVE TypeOK'
    BY <1>6 DEF InsertRefused
  <1>7. ASSUME NEW t \in Tasks, SpawnRecorder(t) PROVE TypeOK'
    BY <1>7 DEF SpawnRecorder
  <1>8. ASSUME NEW t \in Tasks, SpawnFails(t) PROVE TypeOK'
    BY <1>8 DEF SpawnFails
  <1>9. ASSUME NEW t \in Tasks, Register(t) PROVE TypeOK'
    BY <1>9 DEF Register
  <1>10. ASSUME NEW t \in Tasks, WaiterSeesExit(t) PROVE TypeOK'
    BY <1>10 DEF WaiterSeesExit
  <1>11. ASSUME NEW t \in Tasks, WaiterKills(t) PROVE TypeOK'
    BY <1>11 DEF WaiterKills
  <1>12. ASSUME NEW t \in Tasks, WaiterDeregisters(t) PROVE TypeOK'
    BY <1>12 DEF WaiterDeregisters
  <1>13. ASSUME NEW t \in Tasks, WaiterPublishes(t) PROVE TypeOK'
    BY <1>13 DEF WaiterPublishes
  <1>14. ASSUME NEW t \in Tasks, RecorderExits(t) PROVE TypeOK'
    BY <1>14 DEF RecorderExits
  <1>15. ASSUME NEW t \in Tasks, MonitorLeavesLoop(t) PROVE TypeOK'
    BY <1>15 DEF MonitorLeavesLoop
  <1>16. ASSUME NEW t \in Tasks, CompletionWriteback(t) PROVE TypeOK'
    BY <1>16 DEF CompletionWriteback
  <1>17. ASSUME NEW t \in Tasks, FailureWriteback(t) PROVE TypeOK'
    BY <1>17 DEF FailureWriteback
  <1>18. ASSUME NEW t \in Tasks, ProgressTick(t) PROVE TypeOK'
    BY <1>18 DEF ProgressTick
  <1>19. ASSUME NEW t \in Tasks, GoesStale(t) PROVE TypeOK'
    BY <1>19 DEF GoesStale
  <1>20. ASSUME NEW t \in Tasks, CancelMark(t) PROVE TypeOK'
    BY <1>20 DEF CancelMark
  <1>21. ASSUME NEW t \in Tasks, CancelStop(t) PROVE TypeOK'
    BY <1>21 DEF CancelStop
  <1>22. ASSUME NEW t \in Tasks, DeleteTaskCheck(t) PROVE TypeOK'
    BY <1>22 DEF DeleteTaskCheck
  <1>23. ASSUME NEW t \in Tasks, DeleteTaskRow(t) PROVE TypeOK'
    BY <1>23 DEF DeleteTaskRow
  <1>24. ASSUME NEW t \in Tasks, InspectorFails(t) PROVE TypeOK'
    BY <1>24 DEF InspectorFails
  <1>25. ASSUME NEW t \in Tasks, DropCall(t) PROVE TypeOK'
    BY <1>25 DEF DropCall
  <1>26. ASSUME NEW t \in Tasks, DropCancel(t) PROVE TypeOK'
    BY <1>26 DEF DropCancel
  <1>27. ASSUME NEW t \in Tasks, RecorderHangs(t) PROVE TypeOK'
    BY <1>27 DEF RecorderHangs
  <1>28. ASSUME NEW t \in Tasks, WritebackFails(t) PROVE TypeOK'
    BY <1>28 DEF WritebackFails
  <1>29. ASSUME NEW t \in Tasks, SpawnFailureUnrecorded(t) PROVE TypeOK'
    BY <1>29 DEF SpawnFailureUnrecorded
  <1>30. ASSUME NEW c \in Channels, DeleteChannel(c) PROVE TypeOK'
    BY <1>30 DEF DeleteChannel
  <1>31. ASSUME NEW c \in Schedules, DeleteSchedule(c) PROVE TypeOK'
    BY <1>31 DEF DeleteSchedule
  <1>32. CASE ClearCompletedTasks
    BY <1>32 DEF ClearCompletedTasks
  <1>33. CASE InspectorSelects
    BY <1>33 DEF InspectorSelects
  <1>34. CASE InspectorAborts
    BY <1>34 DEF InspectorAborts
  <1>35. CASE Crash
    BY <1>35 DEF Crash
  <1>36. CASE ReconcileFails
    BY <1>36 DEF ReconcileFails
  <1>37. CASE Boot
    BY <1>37 DEF Boot
  <1>38. CASE ReconcileOrphanedTasks
    BY <1>38 DEF ReconcileOrphanedTasks
  <1>39. CASE UNCHANGED vars
    BY <1>39
  <1> QED
    BY <1>1, <1>2, <1>3, <1>4, <1>5, <1>6, <1>7, <1>8, <1>9, <1>10, <1>11, <1>12, <1>13, <1>14, <1>15, <1>16, <1>17, <1>18, <1>19, <1>20, <1>21, <1>22, <1>23, <1>24, <1>25, <1>26, <1>27, <1>28, <1>29, <1>30, <1>31, <1>32, <1>33, <1>34, <1>35, <1>36, <1>37, <1>38, <1>39
    DEF Next, UserStep, FaultStep, InspectorStep, CallStep, WaiterStep,
        MonitorStep

(* Who is in the admission holds the lock and has no row.                  *)
LEMMA AdmissionPhasesStep == TypeOK /\ AdmissionPhases /\ WriteOrder /\ [Next]_vars => AdmissionPhases'
  <1> SUFFICES ASSUME TypeOK, AdmissionPhases, WriteOrder, [Next]_vars
               PROVE  AdmissionPhases'
    OBVIOUS
  <1> USE TasksAssumption DEF TypeOK, AdmissionPhases, WriteOrder,
          InFlight, HasRow, Terminal, Published, dbVars, callVars, procVars,
          restVars, SetStatus, Announce, SettleRunning, LeaveAdmission,
          DropRows, Fault, Running, LiveRecorder
  <1>1. ASSUME NEW t \in Tasks, StartManual(t) PROVE AdmissionPhases'
    BY <1>1 DEF StartManual
  <1>2. ASSUME NEW t \in Tasks, AcquireLock(t) PROVE AdmissionPhases'
    BY <1>2 DEF AcquireLock
  <1>3. ASSUME NEW t \in Tasks, PassCapacity(t) PROVE AdmissionPhases'
    BY <1>3 DEF PassCapacity
  <1>4. ASSUME NEW t \in Tasks, RejectAdmission(t) PROVE AdmissionPhases'
    BY <1>4 DEF RejectAdmission
  <1>5. ASSUME NEW t \in Tasks, InsertRunning(t) PROVE AdmissionPhases'
    BY <1>5 DEF InsertRunning
  <1>6. ASSUME NEW t \in Tasks, InsertRefused(t) PROVE AdmissionPhases'
    BY <1>6 DEF InsertRefused
  <1>7. ASSUME NEW t \in Tasks, SpawnRecorder(t) PROVE AdmissionPhases'
    BY <1>7 DEF SpawnRecorder
  <1>8. ASSUME NEW t \in Tasks, SpawnFails(t) PROVE AdmissionPhases'
    BY <1>8 DEF SpawnFails
  <1>9. ASSUME NEW t \in Tasks, Register(t) PROVE AdmissionPhases'
    BY <1>9 DEF Register
  <1>10. ASSUME NEW t \in Tasks, DropCall(t) PROVE AdmissionPhases'
    BY <1>10 DEF DropCall
  <1>11. ASSUME NEW t \in Tasks, SpawnFailureUnrecorded(t) PROVE AdmissionPhases'
    BY <1>11 DEF SpawnFailureUnrecorded
  <1>12. ASSUME NEW t \in Tasks, CompletionWriteback(t) PROVE AdmissionPhases'
    BY <1>12 DEF CompletionWriteback
  <1>13. ASSUME NEW t \in Tasks, FailureWriteback(t) PROVE AdmissionPhases'
    BY <1>13 DEF FailureWriteback
  <1>14. ASSUME NEW t \in Tasks, InspectorFails(t) PROVE AdmissionPhases'
    BY <1>14 DEF InspectorFails
  <1>15. ASSUME NEW t \in Tasks, CancelMark(t) PROVE AdmissionPhases'
    BY <1>15 DEF CancelMark
  <1>16. ASSUME NEW t \in Tasks, DeleteTaskRow(t) PROVE AdmissionPhases'
    BY <1>16 DEF DeleteTaskRow
  <1>17. ASSUME ClearCompletedTasks PROVE AdmissionPhases'
    BY <1>17 DEF ClearCompletedTasks
  <1>18. ASSUME NEW c \in Channels, DeleteChannel(c) PROVE AdmissionPhases'
    BY <1>18 DEF DeleteChannel
  <1>19. ASSUME Crash PROVE AdmissionPhases'
    BY <1>19 DEF Crash
  <1>20. ASSUME ReconcileOrphanedTasks PROVE AdmissionPhases'
    BY <1>20 DEF ReconcileOrphanedTasks
  <1>21. ASSUME NEW t \in Tasks,
                WaiterSeesExit(t) \/ WaiterKills(t) \/
                WaiterDeregisters(t) \/ WaiterPublishes(t) \/
                RecorderExits(t) \/ MonitorLeavesLoop(t) \/
                ProgressTick(t) \/ GoesStale(t) \/ CancelStop(t) \/
                DeleteTaskCheck(t) \/ DropCancel(t) \/ RecorderHangs(t) \/
                WritebackFails(t)
         PROVE AdmissionPhases'
    <2>1. UNCHANGED <<status, call, request, admissionLock>>
      BY <1>21 DEF
          WaiterSeesExit, WaiterKills, WaiterDeregisters, WaiterPublishes,
          RecorderExits, MonitorLeavesLoop, ProgressTick, GoesStale,
          CancelStop, DeleteTaskCheck, DropCancel, RecorderHangs,
          WritebackFails
    <2> QED
      BY <2>1
  <1>22. CASE InspectorSelects \/ InspectorAborts \/ ReconcileFails \/ Boot
    <2>1. UNCHANGED <<status, call, request, admissionLock>>
      BY <1>22 DEF InspectorSelects, InspectorAborts, ReconcileFails, Boot
    <2> QED
      BY <2>1
  <1>23. ASSUME NEW s \in Schedules, DeleteSchedule(s) PROVE AdmissionPhases'
    BY <1>23 DEF DeleteSchedule
  <1>24. CASE UNCHANGED vars
    BY <1>24 DEF vars
  <1> QED
    BY <1>1, <1>2, <1>3, <1>4, <1>5, <1>6, <1>7, <1>8, <1>9, <1>10, <1>11,
       <1>12, <1>13, <1>14, <1>15, <1>16, <1>17, <1>18, <1>19, <1>20, <1>21,
       <1>22, <1>23, <1>24
    DEF Next, UserStep, FaultStep, InspectorStep, CallStep, WaiterStep,
        MonitorStep

(* Reap, unlist, publish, write back.                                      *)
LEMMA ProcessPhasesStep == TypeOK /\ AdmissionPhases /\ ProcessPhases /\ [Next]_vars => ProcessPhases'
  <1> SUFFICES ASSUME TypeOK, AdmissionPhases, ProcessPhases, [Next]_vars
               PROVE  ProcessPhases'
    OBVIOUS
  <1> USE TasksAssumption DEF TypeOK, AdmissionPhases, ProcessPhases,
          InFlight, HasRow, Terminal, Published, dbVars, callVars, procVars,
          restVars, SetStatus, Announce, SettleRunning, LeaveAdmission,
          DropRows, Fault, Running, LiveRecorder
  <1>1. ASSUME NEW t \in Tasks, StartManual(t) PROVE ProcessPhases'
    BY <1>1 DEF StartManual
  <1>2. ASSUME NEW t \in Tasks, AcquireLock(t) PROVE ProcessPhases'
    BY <1>2 DEF AcquireLock
  <1>3. ASSUME NEW t \in Tasks, PassCapacity(t) PROVE ProcessPhases'
    BY <1>3 DEF PassCapacity
  <1>4. ASSUME NEW t \in Tasks, RejectAdmission(t) PROVE ProcessPhases'
    BY <1>4 DEF RejectAdmission
  <1>5. ASSUME NEW t \in Tasks, InsertRunning(t) PROVE ProcessPhases'
    BY <1>5 DEF InsertRunning
  <1>6. ASSUME NEW t \in Tasks, InsertRefused(t) PROVE ProcessPhases'
    BY <1>6 DEF InsertRefused
  <1>7. ASSUME NEW t \in Tasks, SpawnRecorder(t) PROVE ProcessPhases'
    BY <1>7 DEF SpawnRecorder
  <1>8. ASSUME NEW t \in Tasks, SpawnFails(t) PROVE ProcessPhases'
    BY <1>8 DEF SpawnFails
  <1>9. ASSUME NEW t \in Tasks, Register(t) PROVE ProcessPhases'
    BY <1>9 DEF Register
  <1>10. ASSUME NEW t \in Tasks, DropCall(t) PROVE ProcessPhases'
    BY <1>10 DEF DropCall
  <1>11. ASSUME NEW t \in Tasks, SpawnFailureUnrecorded(t) PROVE ProcessPhases'
    BY <1>11 DEF SpawnFailureUnrecorded
  <1>12. ASSUME NEW t \in Tasks, WaiterSeesExit(t) PROVE ProcessPhases'
    BY <1>12 DEF WaiterSeesExit
  <1>13. ASSUME NEW t \in Tasks, WaiterKills(t) PROVE ProcessPhases'
    BY <1>13 DEF WaiterKills
  <1>14. ASSUME NEW t \in Tasks, WaiterDeregisters(t) PROVE ProcessPhases'
    BY <1>14 DEF WaiterDeregisters
  <1>15. ASSUME NEW t \in Tasks, WaiterPublishes(t) PROVE ProcessPhases'
    BY <1>15 DEF WaiterPublishes
  <1>16. ASSUME NEW t \in Tasks, RecorderExits(t) PROVE ProcessPhases'
    BY <1>16 DEF RecorderExits
  <1>17. ASSUME NEW t \in Tasks, RecorderHangs(t) PROVE ProcessPhases'
    BY <1>17 DEF RecorderHangs
  <1>18. ASSUME NEW t \in Tasks, MonitorLeavesLoop(t) PROVE ProcessPhases'
    BY <1>18 DEF MonitorLeavesLoop
  <1>19. ASSUME NEW t \in Tasks, CompletionWriteback(t) PROVE ProcessPhases'
    BY <1>19 DEF CompletionWriteback
  <1>20. ASSUME NEW t \in Tasks, FailureWriteback(t) PROVE ProcessPhases'
    BY <1>20 DEF FailureWriteback
  <1>21. ASSUME NEW t \in Tasks, WritebackFails(t) PROVE ProcessPhases'
    BY <1>21 DEF WritebackFails
  <1>22. ASSUME NEW t \in Tasks, InspectorFails(t) PROVE ProcessPhases'
    BY <1>22 DEF InspectorFails
  <1>23. ASSUME NEW t \in Tasks, CancelMark(t) PROVE ProcessPhases'
    BY <1>23 DEF CancelMark
  <1>24. ASSUME NEW t \in Tasks, CancelStop(t) PROVE ProcessPhases'
    BY <1>24 DEF CancelStop
  <1>25. ASSUME NEW t \in Tasks, DeleteTaskRow(t) PROVE ProcessPhases'
    BY <1>25 DEF DeleteTaskRow
  <1>26. ASSUME ClearCompletedTasks PROVE ProcessPhases'
    BY <1>26 DEF ClearCompletedTasks
  <1>27. ASSUME NEW c \in Channels, DeleteChannel(c) PROVE ProcessPhases'
    BY <1>27 DEF DeleteChannel
  <1>28. ASSUME Crash PROVE ProcessPhases'
    BY <1>28 DEF Crash
  <1>29. ASSUME ReconcileOrphanedTasks PROVE ProcessPhases'
    BY <1>29 DEF ReconcileOrphanedTasks
  <1>30. ASSUME NEW t \in Tasks,
                ProgressTick(t) \/ GoesStale(t) \/ DeleteTaskCheck(t) \/
                DropCancel(t)
         PROVE ProcessPhases'
    <2>1. UNCHANGED <<status, call, waiter, monitor, recorder, processes>>
      BY <1>30 DEF
          ProgressTick, GoesStale, DeleteTaskCheck, DropCancel
    <2> QED
      BY <2>1
  <1>31. CASE InspectorSelects \/ InspectorAborts \/ ReconcileFails \/ Boot
    <2>1. UNCHANGED <<status, call, waiter, monitor, recorder, processes>>
      BY <1>31 DEF InspectorSelects, InspectorAborts, ReconcileFails, Boot
    <2> QED
      BY <2>1
  <1>32. ASSUME NEW s \in Schedules, DeleteSchedule(s) PROVE ProcessPhases'
    BY <1>32 DEF DeleteSchedule
  <1>33. CASE UNCHANGED vars
    BY <1>33 DEF vars
  <1> QED
    BY <1>1, <1>2, <1>3, <1>4, <1>5, <1>6, <1>7, <1>8, <1>9, <1>10, <1>11,
       <1>12, <1>13, <1>14, <1>15, <1>16, <1>17, <1>18, <1>19, <1>20, <1>21,
       <1>22, <1>23, <1>24, <1>25, <1>26, <1>27, <1>28, <1>29, <1>30, <1>31,
       <1>32, <1>33
    DEF Next, UserStep, FaultStep, InspectorStep, CallStep, WaiterStep,
        MonitorStep

(* Whoever acts on a task has seen its row ended.                          *)
LEMMA WriteOrderStep == TypeOK /\ AdmissionPhases /\ WriteOrder /\ AnnouncedOnce /\ [Next]_vars => WriteOrder'
  <1> SUFFICES ASSUME TypeOK, AdmissionPhases, WriteOrder, AnnouncedOnce, [Next]_vars
               PROVE  WriteOrder'
    OBVIOUS
  <1> USE TasksAssumption DEF TypeOK, AdmissionPhases, WriteOrder, AnnouncedOnce,
          InFlight, HasRow, Terminal, Published, dbVars, callVars, procVars,
          restVars, SetStatus, Announce, SettleRunning, LeaveAdmission,
          DropRows, Fault, Running, LiveRecorder
  <1>1. ASSUME NEW t \in Tasks, InsertRunning(t) PROVE WriteOrder'
    BY <1>1 DEF InsertRunning
  <1>2. ASSUME NEW t \in Tasks, SpawnFails(t) PROVE WriteOrder'
    BY <1>2 DEF SpawnFails
  <1>3. ASSUME NEW t \in Tasks, CompletionWriteback(t) PROVE WriteOrder'
    BY <1>3 DEF CompletionWriteback
  <1>4. ASSUME NEW t \in Tasks, FailureWriteback(t) PROVE WriteOrder'
    BY <1>4 DEF FailureWriteback
  <1>5. ASSUME NEW t \in Tasks, InspectorFails(t) PROVE WriteOrder'
    BY <1>5 DEF InspectorFails
  <1>6. ASSUME NEW t \in Tasks, CancelMark(t) PROVE WriteOrder'
    BY <1>6 DEF CancelMark
  <1>7. ASSUME NEW t \in Tasks, CancelStop(t) PROVE WriteOrder'
    BY <1>7 DEF CancelStop
  <1>8. ASSUME NEW t \in Tasks, DropCancel(t) PROVE WriteOrder'
    BY <1>8 DEF DropCancel
  <1>9. ASSUME NEW t \in Tasks, DeleteTaskCheck(t) PROVE WriteOrder'
    BY <1>9 DEF DeleteTaskCheck
  <1>10. ASSUME NEW t \in Tasks, DeleteTaskRow(t) PROVE WriteOrder'
    BY <1>10 DEF DeleteTaskRow
  <1>11. ASSUME ClearCompletedTasks PROVE WriteOrder'
    BY <1>11 DEF ClearCompletedTasks
  <1>12. ASSUME NEW c \in Channels, DeleteChannel(c) PROVE WriteOrder'
    BY <1>12 DEF DeleteChannel
  <1>13. ASSUME Crash PROVE WriteOrder'
    BY <1>13 DEF Crash
  <1>14. ASSUME ReconcileOrphanedTasks PROVE WriteOrder'
    BY <1>14 DEF ReconcileOrphanedTasks
  <1>15. ASSUME NEW t \in Tasks,
                StartManual(t) \/ AcquireLock(t) \/ PassCapacity(t) \/
                RejectAdmission(t) \/ InsertRefused(t) \/ SpawnRecorder(t) \/
                Register(t) \/ WaiterSeesExit(t) \/ WaiterKills(t) \/
                WaiterDeregisters(t) \/ WaiterPublishes(t) \/
                RecorderExits(t) \/ MonitorLeavesLoop(t) \/
                ProgressTick(t) \/ GoesStale(t) \/ DropCall(t) \/
                RecorderHangs(t) \/ WritebackFails(t) \/
                SpawnFailureUnrecorded(t)
         PROVE WriteOrder'
    <2>1. UNCHANGED <<status, announced, killSent, cancelling, deleting>>
      BY <1>15 DEF
          StartManual, AcquireLock, PassCapacity, RejectAdmission,
          InsertRefused, SpawnRecorder, Register, WaiterSeesExit,
          WaiterKills, WaiterDeregisters, WaiterPublishes, RecorderExits,
          MonitorLeavesLoop, ProgressTick, GoesStale, DropCall,
          RecorderHangs, WritebackFails, SpawnFailureUnrecorded
    <2> QED
      BY <2>1
  <1>16. CASE InspectorSelects \/ InspectorAborts \/ ReconcileFails \/ Boot
    <2>1. UNCHANGED <<status, announced, killSent, cancelling, deleting>>
      BY <1>16 DEF InspectorSelects, InspectorAborts, ReconcileFails, Boot
    <2> QED
      BY <2>1
  <1>17. ASSUME NEW s \in Schedules, DeleteSchedule(s) PROVE WriteOrder'
    BY <1>17 DEF DeleteSchedule
  <1>18. CASE UNCHANGED vars
    BY <1>18 DEF vars
  <1> QED
    BY <1>1, <1>2, <1>3, <1>4, <1>5, <1>6, <1>7, <1>8, <1>9, <1>10, <1>11,
       <1>12, <1>13, <1>14, <1>15, <1>16, <1>17, <1>18
    DEF Next, UserStep, FaultStep, InspectorStep, CallStep, WaiterStep,
        MonitorStep

(* Only a monitor whose waiter has published writes completed.             *)
LEMMA RecorderGoneStep == TypeOK /\ ProcessPhases /\ CompletedMeansRecorderGone /\ [Next]_vars => CompletedMeansRecorderGone'
  <1> SUFFICES ASSUME TypeOK, ProcessPhases, CompletedMeansRecorderGone, [Next]_vars
               PROVE  CompletedMeansRecorderGone'
    OBVIOUS
  <1> USE TasksAssumption DEF TypeOK, ProcessPhases, CompletedMeansRecorderGone,
          InFlight, HasRow, Terminal, Published, dbVars, callVars, procVars,
          restVars, SetStatus, Announce, SettleRunning, LeaveAdmission,
          DropRows, Fault, Running, LiveRecorder
  <1>1. ASSUME NEW t \in Tasks, InsertRunning(t) PROVE CompletedMeansRecorderGone'
    BY <1>1 DEF InsertRunning
  <1>2. ASSUME NEW t \in Tasks, SpawnFails(t) PROVE CompletedMeansRecorderGone'
    BY <1>2 DEF SpawnFails
  <1>3. ASSUME NEW t \in Tasks, CompletionWriteback(t) PROVE CompletedMeansRecorderGone'
    BY <1>3 DEF CompletionWriteback
  <1>4. ASSUME NEW t \in Tasks, FailureWriteback(t) PROVE CompletedMeansRecorderGone'
    BY <1>4 DEF FailureWriteback
  <1>5. ASSUME NEW t \in Tasks, InspectorFails(t) PROVE CompletedMeansRecorderGone'
    BY <1>5 DEF InspectorFails
  <1>6. ASSUME NEW t \in Tasks, CancelMark(t) PROVE CompletedMeansRecorderGone'
    BY <1>6 DEF CancelMark
  <1>7. ASSUME NEW t \in Tasks, DeleteTaskRow(t) PROVE CompletedMeansRecorderGone'
    BY <1>7 DEF DeleteTaskRow
  <1>8. ASSUME ClearCompletedTasks PROVE CompletedMeansRecorderGone'
    BY <1>8 DEF ClearCompletedTasks
  <1>9. ASSUME NEW c \in Channels, DeleteChannel(c) PROVE CompletedMeansRecorderGone'
    BY <1>9 DEF DeleteChannel
  <1>10. ASSUME ReconcileOrphanedTasks PROVE CompletedMeansRecorderGone'
    BY <1>10 DEF ReconcileOrphanedTasks
  <1>11. ASSUME NEW t \in Tasks, SpawnRecorder(t) PROVE CompletedMeansRecorderGone'
    BY <1>11 DEF SpawnRecorder
  <1>12. ASSUME NEW t \in Tasks, RecorderExits(t) PROVE CompletedMeansRecorderGone'
    BY <1>12 DEF RecorderExits
  <1>13. ASSUME NEW t \in Tasks, RecorderHangs(t) PROVE CompletedMeansRecorderGone'
    BY <1>13 DEF RecorderHangs
  <1>14. ASSUME NEW t \in Tasks, WaiterKills(t) PROVE CompletedMeansRecorderGone'
    BY <1>14 DEF WaiterKills
  <1>15. ASSUME Crash PROVE CompletedMeansRecorderGone'
    BY <1>15 DEF Crash
  <1>16. ASSUME NEW t \in Tasks,
                StartManual(t) \/ AcquireLock(t) \/ PassCapacity(t) \/
                RejectAdmission(t) \/ InsertRefused(t) \/ Register(t) \/
                WaiterSeesExit(t) \/ WaiterDeregisters(t) \/
                WaiterPublishes(t) \/ MonitorLeavesLoop(t) \/
                ProgressTick(t) \/ GoesStale(t) \/ CancelStop(t) \/
                DeleteTaskCheck(t) \/ DropCall(t) \/ DropCancel(t) \/
                WritebackFails(t) \/ SpawnFailureUnrecorded(t)
         PROVE CompletedMeansRecorderGone'
    <2>1. UNCHANGED <<status, recorder>>
      BY <1>16 DEF
          StartManual, AcquireLock, PassCapacity, RejectAdmission,
          InsertRefused, Register, WaiterSeesExit, WaiterDeregisters,
          WaiterPublishes, MonitorLeavesLoop, ProgressTick, GoesStale,
          CancelStop, DeleteTaskCheck, DropCall, DropCancel, WritebackFails,
          SpawnFailureUnrecorded
    <2> QED
      BY <2>1
  <1>17. CASE InspectorSelects \/ InspectorAborts \/ ReconcileFails \/ Boot
    <2>1. UNCHANGED <<status, recorder>>
      BY <1>17 DEF InspectorSelects, InspectorAborts, ReconcileFails, Boot
    <2> QED
      BY <2>1
  <1>18. ASSUME NEW s \in Schedules, DeleteSchedule(s) PROVE CompletedMeansRecorderGone'
    BY <1>18 DEF DeleteSchedule
  <1>19. CASE UNCHANGED vars
    BY <1>19 DEF vars
  <1> QED
    BY <1>1, <1>2, <1>3, <1>4, <1>5, <1>6, <1>7, <1>8, <1>9, <1>10, <1>11,
       <1>12, <1>13, <1>14, <1>15, <1>16, <1>17, <1>18, <1>19
    DEF Next, UserStep, FaultStep, InspectorStep, CallStep, WaiterStep,
        MonitorStep

(* A kill reaches only a task whose row has ended otherwise than completed.*)
LEMMA KilledStep == TypeOK /\ ProcessPhases /\ WriteOrder /\ KilledNeverCompleted /\ AdmissionPhases /\ [Next]_vars => KilledNeverCompleted'
  <1> SUFFICES ASSUME TypeOK, ProcessPhases, WriteOrder, KilledNeverCompleted, AdmissionPhases, [Next]_vars
               PROVE  KilledNeverCompleted'
    OBVIOUS
  <1> USE TasksAssumption DEF TypeOK, ProcessPhases, WriteOrder, KilledNeverCompleted, AdmissionPhases,
          InFlight, HasRow, Terminal, Published, dbVars, callVars, procVars,
          restVars, SetStatus, Announce, SettleRunning, LeaveAdmission,
          DropRows, Fault, Running, LiveRecorder
  <1>1. ASSUME NEW t \in Tasks, InsertRunning(t) PROVE KilledNeverCompleted'
    BY <1>1 DEF InsertRunning
  <1>2. ASSUME NEW t \in Tasks, SpawnFails(t) PROVE KilledNeverCompleted'
    BY <1>2 DEF SpawnFails
  <1>3. ASSUME NEW t \in Tasks, CompletionWriteback(t) PROVE KilledNeverCompleted'
    BY <1>3 DEF CompletionWriteback
  <1>4. ASSUME NEW t \in Tasks, FailureWriteback(t) PROVE KilledNeverCompleted'
    BY <1>4 DEF FailureWriteback
  <1>5. ASSUME NEW t \in Tasks, InspectorFails(t) PROVE KilledNeverCompleted'
    BY <1>5 DEF InspectorFails
  <1>6. ASSUME NEW t \in Tasks, CancelMark(t) PROVE KilledNeverCompleted'
    BY <1>6 DEF CancelMark
  <1>7. ASSUME NEW t \in Tasks, DeleteTaskRow(t) PROVE KilledNeverCompleted'
    BY <1>7 DEF DeleteTaskRow
  <1>8. ASSUME ClearCompletedTasks PROVE KilledNeverCompleted'
    BY <1>8 DEF ClearCompletedTasks
  <1>9. ASSUME NEW c \in Channels, DeleteChannel(c) PROVE KilledNeverCompleted'
    BY <1>9 DEF DeleteChannel
  <1>10. ASSUME ReconcileOrphanedTasks PROVE KilledNeverCompleted'
    BY <1>10 DEF ReconcileOrphanedTasks
  <1>11. ASSUME NEW t \in Tasks, CancelStop(t) PROVE KilledNeverCompleted'
    BY <1>11 DEF CancelStop
  <1>12. ASSUME Crash PROVE KilledNeverCompleted'
    BY <1>12 DEF Crash
  <1>13. ASSUME NEW t \in Tasks,
                StartManual(t) \/ AcquireLock(t) \/ PassCapacity(t) \/
                RejectAdmission(t) \/ InsertRefused(t) \/ SpawnRecorder(t) \/
                Register(t) \/ WaiterSeesExit(t) \/ WaiterKills(t) \/
                WaiterDeregisters(t) \/ WaiterPublishes(t) \/
                RecorderExits(t) \/ MonitorLeavesLoop(t) \/
                ProgressTick(t) \/ GoesStale(t) \/ DeleteTaskCheck(t) \/
                DropCall(t) \/ DropCancel(t) \/ RecorderHangs(t) \/
                WritebackFails(t) \/ SpawnFailureUnrecorded(t)
         PROVE KilledNeverCompleted'
    <2>1. UNCHANGED <<status, killSent>>
      BY <1>13 DEF
          StartManual, AcquireLock, PassCapacity, RejectAdmission,
          InsertRefused, SpawnRecorder, Register, WaiterSeesExit,
          WaiterKills, WaiterDeregisters, WaiterPublishes, RecorderExits,
          MonitorLeavesLoop, ProgressTick, GoesStale, DeleteTaskCheck,
          DropCall, DropCancel, RecorderHangs, WritebackFails,
          SpawnFailureUnrecorded
    <2> QED
      BY <2>1
  <1>14. CASE InspectorSelects \/ InspectorAborts \/ ReconcileFails \/ Boot
    <2>1. UNCHANGED <<status, killSent>>
      BY <1>14 DEF InspectorSelects, InspectorAborts, ReconcileFails, Boot
    <2> QED
      BY <2>1
  <1>15. ASSUME NEW s \in Schedules, DeleteSchedule(s) PROVE KilledNeverCompleted'
    BY <1>15 DEF DeleteSchedule
  <1>16. CASE UNCHANGED vars
    BY <1>16 DEF vars
  <1> QED
    BY <1>1, <1>2, <1>3, <1>4, <1>5, <1>6, <1>7, <1>8, <1>9, <1>10, <1>11,
       <1>12, <1>13, <1>14, <1>15, <1>16
    DEF Next, UserStep, FaultStep, InspectorStep, CallStep, WaiterStep,
        MonitorStep

(* The guard of the UPDATE lets one actor announce the end.                *)
LEMMA AnnouncedStep == TypeOK /\ AdmissionPhases /\ WriteOrder /\ AnnouncedOnce /\ [Next]_vars => AnnouncedOnce'
  <1> SUFFICES ASSUME TypeOK, AdmissionPhases, WriteOrder, AnnouncedOnce, [Next]_vars
               PROVE  AnnouncedOnce'
    OBVIOUS
  <1> USE TasksAssumption DEF TypeOK, AdmissionPhases, WriteOrder, AnnouncedOnce,
          InFlight, HasRow, Terminal, Published, dbVars, callVars, procVars,
          restVars, SetStatus, Announce, SettleRunning, LeaveAdmission,
          DropRows, Fault, Running, LiveRecorder
  <1>1. ASSUME NEW t \in Tasks, InsertRunning(t) PROVE AnnouncedOnce'
    BY <1>1 DEF InsertRunning
  <1>2. ASSUME NEW t \in Tasks, SpawnFails(t) PROVE AnnouncedOnce'
    BY <1>2 DEF SpawnFails
  <1>3. ASSUME NEW t \in Tasks, CompletionWriteback(t) PROVE AnnouncedOnce'
    BY <1>3 DEF CompletionWriteback
  <1>4. ASSUME NEW t \in Tasks, FailureWriteback(t) PROVE AnnouncedOnce'
    BY <1>4 DEF FailureWriteback
  <1>5. ASSUME NEW t \in Tasks, InspectorFails(t) PROVE AnnouncedOnce'
    BY <1>5 DEF InspectorFails
  <1>6. ASSUME NEW t \in Tasks, CancelMark(t) PROVE AnnouncedOnce'
    BY <1>6 DEF CancelMark
  <1>7. ASSUME NEW t \in Tasks, DeleteTaskRow(t) PROVE AnnouncedOnce'
    BY <1>7 DEF DeleteTaskRow
  <1>8. ASSUME ClearCompletedTasks PROVE AnnouncedOnce'
    BY <1>8 DEF ClearCompletedTasks
  <1>9. ASSUME NEW c \in Channels, DeleteChannel(c) PROVE AnnouncedOnce'
    BY <1>9 DEF DeleteChannel
  <1>10. ASSUME ReconcileOrphanedTasks PROVE AnnouncedOnce'
    BY <1>10 DEF ReconcileOrphanedTasks
  <1>11. ASSUME NEW t \in Tasks, CancelStop(t) PROVE AnnouncedOnce'
    BY <1>11 DEF CancelStop
  <1>12. ASSUME NEW t \in Tasks,
                StartManual(t) \/ AcquireLock(t) \/ PassCapacity(t) \/
                RejectAdmission(t) \/ InsertRefused(t) \/ SpawnRecorder(t) \/
                Register(t) \/ WaiterSeesExit(t) \/ WaiterKills(t) \/
                WaiterDeregisters(t) \/ WaiterPublishes(t) \/
                RecorderExits(t) \/ MonitorLeavesLoop(t) \/
                ProgressTick(t) \/ GoesStale(t) \/ DeleteTaskCheck(t) \/
                DropCall(t) \/ DropCancel(t) \/ RecorderHangs(t) \/
                WritebackFails(t) \/ SpawnFailureUnrecorded(t)
         PROVE AnnouncedOnce'
    <2>1. UNCHANGED <<status, announced>>
      BY <1>12 DEF
          StartManual, AcquireLock, PassCapacity, RejectAdmission,
          InsertRefused, SpawnRecorder, Register, WaiterSeesExit,
          WaiterKills, WaiterDeregisters, WaiterPublishes, RecorderExits,
          MonitorLeavesLoop, ProgressTick, GoesStale, DeleteTaskCheck,
          DropCall, DropCancel, RecorderHangs, WritebackFails,
          SpawnFailureUnrecorded
    <2> QED
      BY <2>1
  <1>13. CASE InspectorSelects \/ InspectorAborts \/ Crash \/ ReconcileFails \/ Boot
    <2>1. UNCHANGED <<status, announced>>
      BY <1>13 DEF InspectorSelects, InspectorAborts, Crash, ReconcileFails, Boot
    <2> QED
      BY <2>1
  <1>14. ASSUME NEW s \in Schedules, DeleteSchedule(s) PROVE AnnouncedOnce'
    BY <1>14 DEF DeleteSchedule
  <1>15. CASE UNCHANGED vars
    BY <1>15 DEF vars
  <1> QED
    BY <1>1, <1>2, <1>3, <1>4, <1>5, <1>6, <1>7, <1>8, <1>9, <1>10, <1>11,
       <1>12, <1>13, <1>14, <1>15
    DEF Next, UserStep, FaultStep, InspectorStep, CallStep, WaiterStep,
        MonitorStep

(* A row that delete_task has checked does not start to run.               *)
LEMMA DeleteStep == TypeOK /\ AdmissionPhases /\ WriteOrder /\ DeleteSparesRunning /\ [Next]_vars => DeleteSparesRunning'
  <1> SUFFICES ASSUME TypeOK, AdmissionPhases, WriteOrder, DeleteSparesRunning, [Next]_vars
               PROVE  DeleteSparesRunning'
    OBVIOUS
  <1> USE TasksAssumption DEF TypeOK, AdmissionPhases, WriteOrder, DeleteSparesRunning,
          InFlight, HasRow, Terminal, Published, dbVars, callVars, procVars,
          restVars, SetStatus, Announce, SettleRunning, LeaveAdmission,
          DropRows, Fault, Running, LiveRecorder
  <1>1. ASSUME NEW t \in Tasks, InsertRunning(t) PROVE DeleteSparesRunning'
    BY <1>1 DEF InsertRunning
  <1>2. ASSUME NEW t \in Tasks, SpawnFails(t) PROVE DeleteSparesRunning'
    BY <1>2 DEF SpawnFails
  <1>3. ASSUME NEW t \in Tasks, CompletionWriteback(t) PROVE DeleteSparesRunning'
    BY <1>3 DEF CompletionWriteback
  <1>4. ASSUME NEW t \in Tasks, FailureWriteback(t) PROVE DeleteSparesRunning'
    BY <1>4 DEF FailureWriteback
  <1>5. ASSUME NEW t \in Tasks, InspectorFails(t) PROVE DeleteSparesRunning'
    BY <1>5 DEF InspectorFails
  <1>6. ASSUME NEW t \in Tasks, CancelMark(t) PROVE DeleteSparesRunning'
    BY <1>6 DEF CancelMark
  <1>7. ASSUME NEW t \in Tasks, DeleteTaskRow(t) PROVE DeleteSparesRunning'
    BY <1>7 DEF DeleteTaskRow
  <1>8. ASSUME ClearCompletedTasks PROVE DeleteSparesRunning'
    BY <1>8 DEF ClearCompletedTasks
  <1>9. ASSUME NEW c \in Channels, DeleteChannel(c) PROVE DeleteSparesRunning'
    BY <1>9 DEF DeleteChannel
  <1>10. ASSUME ReconcileOrphanedTasks PROVE DeleteSparesRunning'
    BY <1>10 DEF ReconcileOrphanedTasks
  <1>11. ASSUME NEW t \in Tasks, DeleteTaskCheck(t) PROVE DeleteSparesRunning'
    BY <1>11 DEF DeleteTaskCheck
  <1>12. ASSUME Crash PROVE DeleteSparesRunning'
    BY <1>12 DEF Crash
  <1>13. ASSUME NEW t \in Tasks,
                StartManual(t) \/ AcquireLock(t) \/ PassCapacity(t) \/
                RejectAdmission(t) \/ InsertRefused(t) \/ SpawnRecorder(t) \/
                Register(t) \/ WaiterSeesExit(t) \/ WaiterKills(t) \/
                WaiterDeregisters(t) \/ WaiterPublishes(t) \/
                RecorderExits(t) \/ MonitorLeavesLoop(t) \/
                ProgressTick(t) \/ GoesStale(t) \/ CancelStop(t) \/
                DropCall(t) \/ DropCancel(t) \/ RecorderHangs(t) \/
                WritebackFails(t) \/ SpawnFailureUnrecorded(t)
         PROVE DeleteSparesRunning'
    <2>1. UNCHANGED <<status, deleting>>
      BY <1>13 DEF
          StartManual, AcquireLock, PassCapacity, RejectAdmission,
          InsertRefused, SpawnRecorder, Register, WaiterSeesExit,
          WaiterKills, WaiterDeregisters, WaiterPublishes, RecorderExits,
          MonitorLeavesLoop, ProgressTick, GoesStale, CancelStop, DropCall,
          DropCancel, RecorderHangs, WritebackFails, SpawnFailureUnrecorded
    <2> QED
      BY <2>1
  <1>14. CASE InspectorSelects \/ InspectorAborts \/ ReconcileFails \/ Boot
    <2>1. UNCHANGED <<status, deleting>>
      BY <1>14 DEF InspectorSelects, InspectorAborts, ReconcileFails, Boot
    <2> QED
      BY <2>1
  <1>15. ASSUME NEW s \in Schedules, DeleteSchedule(s) PROVE DeleteSparesRunning'
    BY <1>15 DEF DeleteSchedule
  <1>16. CASE UNCHANGED vars
    BY <1>16 DEF vars
  <1> QED
    BY <1>1, <1>2, <1>3, <1>4, <1>5, <1>6, <1>7, <1>8, <1>9, <1>10, <1>11,
       <1>12, <1>13, <1>14, <1>15, <1>16
    DEF Next, UserStep, FaultStep, InspectorStep, CallStep, WaiterStep,
        MonitorStep

(* Without faults a live recorder leaves the map only for the kill.        *)
LEMMA ListedStep == TypeOK /\ ProcessPhases /\ RecorderListed /\ [Next]_vars => RecorderListed'
  <1> SUFFICES ASSUME TypeOK, ProcessPhases, RecorderListed, [Next]_vars
               PROVE  RecorderListed'
    OBVIOUS
  <1> USE TasksAssumption DEF TypeOK, ProcessPhases, RecorderListed,
          InFlight, HasRow, Terminal, Published, dbVars, callVars, procVars,
          restVars, SetStatus, Announce, SettleRunning, LeaveAdmission,
          DropRows, Fault, Running, LiveRecorder
  <1>1. ASSUME NEW t \in Tasks, SpawnRecorder(t) PROVE RecorderListed'
    BY <1>1 DEF SpawnRecorder
  <1>2. ASSUME NEW t \in Tasks, SpawnFails(t) PROVE RecorderListed'
    BY <1>2 DEF SpawnFails
  <1>3. ASSUME NEW t \in Tasks, Register(t) PROVE RecorderListed'
    BY <1>3 DEF Register
  <1>4. ASSUME NEW t \in Tasks, StartManual(t) PROVE RecorderListed'
    BY <1>4 DEF StartManual
  <1>5. ASSUME NEW t \in Tasks, AcquireLock(t) PROVE RecorderListed'
    BY <1>5 DEF AcquireLock
  <1>6. ASSUME NEW t \in Tasks, PassCapacity(t) PROVE RecorderListed'
    BY <1>6 DEF PassCapacity
  <1>7. ASSUME NEW t \in Tasks, RejectAdmission(t) PROVE RecorderListed'
    BY <1>7 DEF RejectAdmission
  <1>8. ASSUME NEW t \in Tasks, InsertRunning(t) PROVE RecorderListed'
    BY <1>8 DEF InsertRunning
  <1>9. ASSUME NEW t \in Tasks, InsertRefused(t) PROVE RecorderListed'
    BY <1>9 DEF InsertRefused
  <1>10. ASSUME NEW t \in Tasks, DropCall(t) PROVE RecorderListed'
    BY <1>10 DEF DropCall
  <1>11. ASSUME NEW t \in Tasks, SpawnFailureUnrecorded(t) PROVE RecorderListed'
    BY <1>11 DEF SpawnFailureUnrecorded
  <1>12. ASSUME NEW t \in Tasks, RecorderExits(t) PROVE RecorderListed'
    BY <1>12 DEF RecorderExits
  <1>13. ASSUME NEW t \in Tasks, RecorderHangs(t) PROVE RecorderListed'
    BY <1>13 DEF RecorderHangs
  <1>14. ASSUME NEW t \in Tasks, WaiterKills(t) PROVE RecorderListed'
    BY <1>14 DEF WaiterKills
  <1>15. ASSUME NEW t \in Tasks, WaiterDeregisters(t) PROVE RecorderListed'
    BY <1>15 DEF WaiterDeregisters
  <1>16. ASSUME NEW t \in Tasks, CancelStop(t) PROVE RecorderListed'
    BY <1>16 DEF CancelStop
  <1>17. ASSUME NEW t \in Tasks, DropCancel(t) PROVE RecorderListed'
    BY <1>17 DEF DropCancel
  <1>18. ASSUME NEW t \in Tasks, WritebackFails(t) PROVE RecorderListed'
    BY <1>18 DEF WritebackFails
  <1>19. ASSUME InspectorAborts PROVE RecorderListed'
    BY <1>19 DEF InspectorAborts
  <1>20. ASSUME ReconcileFails PROVE RecorderListed'
    BY <1>20 DEF ReconcileFails
  <1>21. ASSUME Crash PROVE RecorderListed'
    BY <1>21 DEF Crash
  <1>22. ASSUME NEW t \in Tasks,
                WaiterSeesExit(t) \/ WaiterPublishes(t) \/
                MonitorLeavesLoop(t) \/ CompletionWriteback(t) \/
                FailureWriteback(t) \/ ProgressTick(t) \/ GoesStale(t) \/
                CancelMark(t) \/ DeleteTaskCheck(t) \/ DeleteTaskRow(t) \/
                InspectorFails(t)
         PROVE RecorderListed'
    <2>1. UNCHANGED <<faults, recorder, processes, killSent, call>>
      BY <1>22 DEF
          WaiterSeesExit, WaiterPublishes, MonitorLeavesLoop,
          CompletionWriteback, FailureWriteback, ProgressTick, GoesStale,
          CancelMark, DeleteTaskCheck, DeleteTaskRow, InspectorFails
    <2> QED
      BY <2>1
  <1>23. CASE ClearCompletedTasks \/ InspectorSelects \/ Boot \/ ReconcileOrphanedTasks
    <2>1. UNCHANGED <<faults, recorder, processes, killSent, call>>
      BY <1>23 DEF ClearCompletedTasks, InspectorSelects, Boot, ReconcileOrphanedTasks
    <2> QED
      BY <2>1
  <1>24. ASSUME NEW c \in Channels, DeleteChannel(c) PROVE RecorderListed'
    BY <1>24 DEF DeleteChannel
  <1>25. ASSUME NEW s \in Schedules, DeleteSchedule(s) PROVE RecorderListed'
    BY <1>25 DEF DeleteSchedule
  <1>26. CASE UNCHANGED vars
    BY <1>26 DEF vars
  <1> QED
    BY <1>1, <1>2, <1>3, <1>4, <1>5, <1>6, <1>7, <1>8, <1>9, <1>10, <1>11,
       <1>12, <1>13, <1>14, <1>15, <1>16, <1>17, <1>18, <1>19, <1>20, <1>21,
       <1>22, <1>23, <1>24, <1>25, <1>26
    DEF Next, UserStep, FaultStep, InspectorStep, CallStep, WaiterStep,
        MonitorStep

(* Without faults the call hands a running row over to its monitor.        *)
LEMMA NoZombieStep == TypeOK /\ NoZombieWithoutFault /\ [Next]_vars => NoZombieWithoutFault'
  <1> SUFFICES ASSUME TypeOK, NoZombieWithoutFault, [Next]_vars
               PROVE  NoZombieWithoutFault'
    OBVIOUS
  <1> USE TasksAssumption DEF TypeOK, NoZombieWithoutFault,
          InFlight, HasRow, Terminal, Published, dbVars, callVars, procVars,
          restVars, SetStatus, Announce, SettleRunning, LeaveAdmission,
          DropRows, Fault, Running, LiveRecorder
  <1>1. ASSUME NEW t \in Tasks, InsertRunning(t) PROVE NoZombieWithoutFault'
    BY <1>1 DEF InsertRunning
  <1>2. ASSUME NEW t \in Tasks, SpawnFails(t) PROVE NoZombieWithoutFault'
    BY <1>2 DEF SpawnFails
  <1>3. ASSUME NEW t \in Tasks, CompletionWriteback(t) PROVE NoZombieWithoutFault'
    BY <1>3 DEF CompletionWriteback
  <1>4. ASSUME NEW t \in Tasks, FailureWriteback(t) PROVE NoZombieWithoutFault'
    BY <1>4 DEF FailureWriteback
  <1>5. ASSUME NEW t \in Tasks, InspectorFails(t) PROVE NoZombieWithoutFault'
    BY <1>5 DEF InspectorFails
  <1>6. ASSUME NEW t \in Tasks, CancelMark(t) PROVE NoZombieWithoutFault'
    BY <1>6 DEF CancelMark
  <1>7. ASSUME NEW t \in Tasks, DeleteTaskRow(t) PROVE NoZombieWithoutFault'
    BY <1>7 DEF DeleteTaskRow
  <1>8. ASSUME ClearCompletedTasks PROVE NoZombieWithoutFault'
    BY <1>8 DEF ClearCompletedTasks
  <1>9. ASSUME NEW c \in Channels, DeleteChannel(c) PROVE NoZombieWithoutFault'
    BY <1>9 DEF DeleteChannel
  <1>10. ASSUME ReconcileOrphanedTasks PROVE NoZombieWithoutFault'
    BY <1>10 DEF ReconcileOrphanedTasks
  <1>11. ASSUME NEW t \in Tasks, SpawnRecorder(t) PROVE NoZombieWithoutFault'
    BY <1>11 DEF SpawnRecorder
  <1>12. ASSUME NEW t \in Tasks, Register(t) PROVE NoZombieWithoutFault'
    BY <1>12 DEF Register
  <1>13. ASSUME NEW t \in Tasks, StartManual(t) PROVE NoZombieWithoutFault'
    BY <1>13 DEF StartManual
  <1>14. ASSUME NEW t \in Tasks, AcquireLock(t) PROVE NoZombieWithoutFault'
    BY <1>14 DEF AcquireLock
  <1>15. ASSUME NEW t \in Tasks, PassCapacity(t) PROVE NoZombieWithoutFault'
    BY <1>15 DEF PassCapacity
  <1>16. ASSUME NEW t \in Tasks, RejectAdmission(t) PROVE NoZombieWithoutFault'
    BY <1>16 DEF RejectAdmission
  <1>17. ASSUME NEW t \in Tasks, InsertRefused(t) PROVE NoZombieWithoutFault'
    BY <1>17 DEF InsertRefused
  <1>18. ASSUME NEW t \in Tasks, DropCall(t) PROVE NoZombieWithoutFault'
    BY <1>18 DEF DropCall
  <1>19. ASSUME NEW t \in Tasks, SpawnFailureUnrecorded(t) PROVE NoZombieWithoutFault'
    BY <1>19 DEF SpawnFailureUnrecorded
  <1>20. ASSUME NEW t \in Tasks, MonitorLeavesLoop(t) PROVE NoZombieWithoutFault'
    BY <1>20 DEF MonitorLeavesLoop
  <1>21. ASSUME NEW t \in Tasks, RecorderHangs(t) PROVE NoZombieWithoutFault'
    BY <1>21 DEF RecorderHangs
  <1>22. ASSUME NEW t \in Tasks, DropCancel(t) PROVE NoZombieWithoutFault'
    BY <1>22 DEF DropCancel
  <1>23. ASSUME NEW t \in Tasks, WritebackFails(t) PROVE NoZombieWithoutFault'
    BY <1>23 DEF WritebackFails
  <1>24. ASSUME InspectorAborts PROVE NoZombieWithoutFault'
    BY <1>24 DEF InspectorAborts
  <1>25. ASSUME ReconcileFails PROVE NoZombieWithoutFault'
    BY <1>25 DEF ReconcileFails
  <1>26. ASSUME Crash PROVE NoZombieWithoutFault'
    BY <1>26 DEF Crash
  <1>27. ASSUME NEW t \in Tasks,
                WaiterSeesExit(t) \/ WaiterKills(t) \/
                WaiterDeregisters(t) \/ WaiterPublishes(t) \/
                RecorderExits(t) \/ ProgressTick(t) \/ GoesStale(t) \/
                CancelStop(t) \/ DeleteTaskCheck(t)
         PROVE NoZombieWithoutFault'
    <2>1. UNCHANGED <<faults, status, call, monitor>>
      BY <1>27 DEF
          WaiterSeesExit, WaiterKills, WaiterDeregisters, WaiterPublishes,
          RecorderExits, ProgressTick, GoesStale, CancelStop, DeleteTaskCheck
    <2> QED
      BY <2>1
  <1>28. CASE InspectorSelects \/ Boot
    <2>1. UNCHANGED <<faults, status, call, monitor>>
      BY <1>28 DEF InspectorSelects, Boot
    <2> QED
      BY <2>1
  <1>29. ASSUME NEW s \in Schedules, DeleteSchedule(s) PROVE NoZombieWithoutFault'
    BY <1>29 DEF DeleteSchedule
  <1>30. CASE UNCHANGED vars
    BY <1>30 DEF vars
  <1> QED
    BY <1>1, <1>2, <1>3, <1>4, <1>5, <1>6, <1>7, <1>8, <1>9, <1>10, <1>11,
       <1>12, <1>13, <1>14, <1>15, <1>16, <1>17, <1>18, <1>19, <1>20, <1>21,
       <1>22, <1>23, <1>24, <1>25, <1>26, <1>27, <1>28, <1>29, <1>30
    DEF Next, UserStep, FaultStep, InspectorStep, CallStep, WaiterStep,
        MonitorStep

(***************************************************************************)
(* The admission limits.                                                   *)
(***************************************************************************)

\* With fewer running rows, the same channels and fewer schedules, the limits
\* still hold and so does what a call has checked.
LEMMA FewerRunning ==
    ASSUME TypeOK, Running' \subseteq Running,
           \A u \in Running' : request'[u] = request[u],
           scheduleRows' \subseteq scheduleRows
    PROVE  /\ AdmissionRespected => AdmissionRespected'
           /\ \A r \in Requests : HasCapacity(r) => HasCapacity(r)'
  <1>1. Cardinality(Running') <= Cardinality(Running)
    BY RunningIsFinite, FS_Subset
  <1>2. Cardinality(Running) \in Nat /\ Cardinality(Running') \in Nat
    BY RunningIsFinite, FS_Subset, FS_CardinalityType
  <1>3. \A u \in Running' : RowSchedule(u)' \in {RowSchedule(u), NoSchedule}
    BY DEF RowSchedule
  <1>4. ASSUME AdmissionRespected PROVE AdmissionRespected'
    <2>1. WithinLimit'
      BY <1>1, <1>2, <1>4, LimitsAssumption DEF AdmissionRespected, WithinLimit
    <2>2. OneRunningPerChannel'
      BY <1>4 DEF AdmissionRespected, OneRunningPerChannel
    <2>3. OneRunningPerSchedule'
      BY <1>3, <1>4 DEF AdmissionRespected, OneRunningPerSchedule
    <2> QED
      BY <2>1, <2>2, <2>3 DEF AdmissionRespected
  <1>5. ASSUME NEW r \in Requests, HasCapacity(r) PROVE HasCapacity(r)'
    <2>1. Cardinality(Running') < MaxConcurrent
      BY <1>1, <1>2, <1>5, LimitsAssumption DEF HasCapacity
    <2>2. ~ChannelBusy(r)'
      BY <1>5 DEF HasCapacity, ChannelBusy
    <2>3. ~ScheduleBusy(r)'
      BY <1>3, <1>5 DEF HasCapacity, ScheduleBusy
    <2> QED
      BY <2>1, <2>2, <2>3 DEF HasCapacity
  <1> QED
    BY <1>4, <1>5

\* One more running row, for which the check still held.
LEMMA OneMoreRunning ==
    ASSUME TypeOK, AdmissionPhases, CheckStaysValid, AdmissionRespected,
           NEW t \in Tasks, InsertRunning(t)
    PROVE  AdmissionRespected'
  <1> USE DEF InsertRunning
  <1>1. HasCapacity(request[t]) /\ t \notin Running
    BY DEF CheckStaysValid, AdmissionPhases, Running
  <1>2. Running' = Running \cup {t}
    BY DEF Running, TypeOK
  <1>3. UNCHANGED <<request, scheduleRows>>
    OBVIOUS
  <1>4. \A u \in Tasks : RowSchedule(u)' = RowSchedule(u)
    BY <1>3 DEF RowSchedule
  <1>5. WithinLimit'
    <2>1. Cardinality(Running') = Cardinality(Running) + 1
      BY <1>1, <1>2, RunningIsFinite, FS_AddElement
    <2>2. Cardinality(Running) \in Nat /\ Cardinality(Running) < MaxConcurrent
      BY <1>1, RunningIsFinite, FS_CardinalityType DEF HasCapacity
    <2> QED
      BY <2>1, <2>2, LimitsAssumption DEF WithinLimit
  <1>6. OneRunningPerChannel'
    BY <1>1, <1>2, <1>3
    DEF AdmissionRespected, OneRunningPerChannel, HasCapacity, ChannelBusy
  <1>7. OneRunningPerSchedule'
    <2>1. ASSUME NEW u \in Running
          PROVE  RowSchedule(t) # RowSchedule(u) \/ RowSchedule(t) = NoSchedule
      BY <1>1, <2>1 DEF HasCapacity, ScheduleBusy, RowSchedule
    <2>2. ASSUME NEW u \in Running', NEW v \in Running', u # v
          PROVE  \/ RowSchedule(u)' # RowSchedule(v)'
                 \/ RowSchedule(u)' = NoSchedule
      <3>1. /\ RowSchedule(u)' = RowSchedule(u)
            /\ RowSchedule(v)' = RowSchedule(v)
        BY <1>4 DEF Running
      <3> QED
        BY <1>2, <2>1, <2>2, <3>1 DEF AdmissionRespected, OneRunningPerSchedule
    <2> QED
      BY <2>2 DEF OneRunningPerSchedule
  <1> QED
    BY <1>5, <1>6, <1>7 DEF AdmissionRespected

\* Every step but an INSERT leaves the running rows or removes some of them.
LEMMA OnlyInsertAdds ==
    ASSUME TypeOK, AdmissionPhases, WriteOrder, [Next]_vars,
           \A t \in Tasks : ~InsertRunning(t)
    PROVE  /\ Running' \subseteq Running
           /\ \A u \in Running' : request'[u] = request[u]
           /\ scheduleRows' \subseteq scheduleRows
  <1> DEFINE Shrinks == /\ Running' \subseteq Running
                        /\ \A u \in Running' : request'[u] = request[u]
                        /\ scheduleRows' \subseteq scheduleRows
  <1> USE DEF TypeOK, InFlight, HasRow, Terminal, dbVars, callVars, procVars,
          restVars, SetStatus, Announce, SettleRunning, LeaveAdmission,
          DropRows, Fault, Running
  <1>1. ASSUME NEW t \in Tasks, StartManual(t) PROVE Shrinks
    BY <1>1 DEF StartManual, AdmissionPhases
  <1>2. ASSUME NEW t \in Tasks, SpawnFails(t) PROVE Shrinks
    BY <1>2 DEF SpawnFails
  <1>3. ASSUME NEW t \in Tasks, CompletionWriteback(t) PROVE Shrinks
    BY <1>3 DEF CompletionWriteback
  <1>4. ASSUME NEW t \in Tasks, FailureWriteback(t) PROVE Shrinks
    BY <1>4 DEF FailureWriteback
  <1>5. ASSUME NEW t \in Tasks, InspectorFails(t) PROVE Shrinks
    BY <1>5 DEF InspectorFails
  <1>6. ASSUME NEW t \in Tasks, CancelMark(t) PROVE Shrinks
    BY <1>6 DEF CancelMark
  <1>7. ASSUME NEW t \in Tasks, DeleteTaskRow(t) PROVE Shrinks
    BY <1>7 DEF DeleteTaskRow
  <1>8. ASSUME ClearCompletedTasks PROVE Shrinks
    BY <1>8 DEF ClearCompletedTasks
  <1>9. ASSUME NEW c \in Channels, DeleteChannel(c) PROVE Shrinks
    BY <1>9 DEF DeleteChannel
  <1>10. ASSUME NEW s \in Schedules, DeleteSchedule(s) PROVE Shrinks
    BY <1>10 DEF DeleteSchedule
  <1>11. ASSUME ReconcileOrphanedTasks PROVE Shrinks
    BY <1>11 DEF ReconcileOrphanedTasks
  <1>12. ASSUME NEW t \in Tasks,
                AcquireLock(t) \/ PassCapacity(t) \/ RejectAdmission(t) \/
                InsertRefused(t) \/ SpawnRecorder(t) \/ Register(t) \/
                WaiterSeesExit(t) \/ WaiterKills(t) \/
                WaiterDeregisters(t) \/ WaiterPublishes(t) \/
                RecorderExits(t) \/ MonitorLeavesLoop(t) \/
                ProgressTick(t) \/ GoesStale(t) \/ CancelStop(t) \/
                DeleteTaskCheck(t) \/ DropCall(t) \/ DropCancel(t) \/
                RecorderHangs(t) \/ WritebackFails(t) \/
                SpawnFailureUnrecorded(t)
         PROVE Shrinks
    <2>1. UNCHANGED <<status, request, scheduleRows>>
      BY <1>12 DEF
          AcquireLock, PassCapacity, RejectAdmission, InsertRefused,
          SpawnRecorder, Register, WaiterSeesExit, WaiterKills,
          WaiterDeregisters, WaiterPublishes, RecorderExits,
          MonitorLeavesLoop, ProgressTick, GoesStale, CancelStop,
          DeleteTaskCheck, DropCall, DropCancel, RecorderHangs,
          WritebackFails, SpawnFailureUnrecorded
    <2> QED
      BY <2>1
  <1>13. CASE InspectorSelects \/ InspectorAborts \/ Crash \/ ReconcileFails \/ Boot
    <2>1. UNCHANGED <<status, request, scheduleRows>>
      BY <1>13 DEF InspectorSelects, InspectorAborts, Crash, ReconcileFails, Boot
    <2> QED
      BY <2>1
  <1>14. CASE UNCHANGED vars
    BY <1>14 DEF vars
  <1> QED
    BY <1>1, <1>2, <1>3, <1>4, <1>5, <1>6, <1>7, <1>8, <1>9, <1>10, <1>11,
       <1>12, <1>13, <1>14
    DEF Next, UserStep, FaultStep, InspectorStep, CallStep, WaiterStep,
        MonitorStep

\* A call that is checked after a step was so before, or has just seen room.
LEMMA CheckOrigin ==
    ASSUME TypeOK, [Next]_vars,
           NEW u \in Tasks, call'[u] = "checked"
    PROVE  /\ request'[u] = request[u]
           /\ call[u] = "checked" \/ HasCapacity(request[u])
  <1> DEFINE Origin == /\ request'[u] = request[u]
                       /\ call[u] = "checked" \/ HasCapacity(request[u])
  <1> USE DEF TypeOK, dbVars, callVars, procVars, restVars, LeaveAdmission
  <1>1. ASSUME NEW t \in Tasks, StartManual(t) PROVE Origin
    BY <1>1 DEF StartManual
  <1>2. ASSUME NEW t \in Tasks, AcquireLock(t) PROVE Origin
    BY <1>2 DEF AcquireLock
  <1>3. ASSUME NEW t \in Tasks, PassCapacity(t) PROVE Origin
    BY <1>3 DEF PassCapacity
  <1>4. ASSUME NEW t \in Tasks, RejectAdmission(t) PROVE Origin
    BY <1>4 DEF RejectAdmission
  <1>5. ASSUME NEW t \in Tasks, InsertRunning(t) PROVE Origin
    BY <1>5 DEF InsertRunning
  <1>6. ASSUME NEW t \in Tasks, InsertRefused(t) PROVE Origin
    BY <1>6 DEF InsertRefused
  <1>7. ASSUME NEW t \in Tasks, SpawnRecorder(t) PROVE Origin
    BY <1>7 DEF SpawnRecorder
  <1>8. ASSUME NEW t \in Tasks, SpawnFails(t) PROVE Origin
    BY <1>8 DEF SpawnFails
  <1>9. ASSUME NEW t \in Tasks, Register(t) PROVE Origin
    BY <1>9 DEF Register
  <1>10. ASSUME NEW t \in Tasks, DropCall(t) PROVE Origin
    BY <1>10 DEF DropCall
  <1>11. ASSUME NEW t \in Tasks, SpawnFailureUnrecorded(t) PROVE Origin
    BY <1>11 DEF SpawnFailureUnrecorded
  <1>12. ASSUME Crash PROVE Origin
    BY <1>12 DEF Crash
  <1>13. ASSUME NEW t \in Tasks,
                WaiterSeesExit(t) \/ WaiterKills(t) \/
                WaiterDeregisters(t) \/ WaiterPublishes(t) \/
                RecorderExits(t) \/ MonitorLeavesLoop(t) \/
                CompletionWriteback(t) \/ FailureWriteback(t) \/
                ProgressTick(t) \/ GoesStale(t) \/ CancelMark(t) \/
                CancelStop(t) \/ DeleteTaskCheck(t) \/ DeleteTaskRow(t) \/
                InspectorFails(t) \/ DropCancel(t) \/ RecorderHangs(t) \/
                WritebackFails(t)
         PROVE Origin
    <2>1. UNCHANGED <<call, request>>
      BY <1>13 DEF
          WaiterSeesExit, WaiterKills, WaiterDeregisters, WaiterPublishes,
          RecorderExits, MonitorLeavesLoop, CompletionWriteback,
          FailureWriteback, ProgressTick, GoesStale, CancelMark, CancelStop,
          DeleteTaskCheck, DeleteTaskRow, InspectorFails, DropCancel,
          RecorderHangs, WritebackFails
    <2> QED
      BY <2>1
  <1>14. CASE ClearCompletedTasks \/ InspectorSelects \/ InspectorAborts \/ ReconcileFails \/ Boot \/ ReconcileOrphanedTasks
    <2>1. UNCHANGED <<call, request>>
      BY <1>14 DEF
          ClearCompletedTasks, InspectorSelects, InspectorAborts,
          ReconcileFails, Boot, ReconcileOrphanedTasks
    <2> QED
      BY <2>1
  <1>15. ASSUME NEW c \in Channels, DeleteChannel(c) PROVE Origin
    BY <1>15 DEF DeleteChannel
  <1>16. ASSUME NEW s \in Schedules, DeleteSchedule(s) PROVE Origin
    BY <1>16 DEF DeleteSchedule
  <1>17. CASE UNCHANGED vars
    BY <1>17 DEF vars
  <1> QED
    BY <1>1, <1>2, <1>3, <1>4, <1>5, <1>6, <1>7, <1>8, <1>9, <1>10, <1>11,
       <1>12, <1>13, <1>14, <1>15, <1>16, <1>17
    DEF Next, UserStep, FaultStep, InspectorStep, CallStep, WaiterStep,
        MonitorStep

\* Only the holder of the lock adds a running row, after its own checks.
LEMMA AdmissionStep ==
    ASSUME TypeOK, AdmissionPhases, WriteOrder, CheckStaysValid,
           AdmissionRespected, [Next]_vars
    PROVE  CheckStaysValid' /\ AdmissionRespected'
  <1>1. CASE \E t \in Tasks : InsertRunning(t)
    <2>1. PICK t \in Tasks : InsertRunning(t)
      BY <1>1
    <2>2. AdmissionRespected'
      BY <2>1, OneMoreRunning
    <2>3. ASSUME NEW u \in Tasks, call'[u] = "checked" PROVE FALSE
      <3>1. u # t /\ call[u] = "checked"
        BY <2>1, <2>3 DEF InsertRunning, LeaveAdmission, TypeOK
      <3>2. admissionLock = t /\ admissionLock = u
        BY <2>1, <3>1 DEF AdmissionPhases, InsertRunning
      <3> QED
        BY <3>1, <3>2
    <2> QED
      BY <2>2, <2>3 DEF CheckStaysValid
  <1>2. CASE \A t \in Tasks : ~InsertRunning(t)
    <2>1. /\ AdmissionRespected'
          /\ \A r \in Requests : HasCapacity(r) => HasCapacity(r)'
      BY <1>2, OnlyInsertAdds, FewerRunning
    <2>2. ASSUME NEW u \in Tasks, call'[u] = "checked"
          PROVE  HasCapacity(request[u])'
      <3>1. /\ request'[u] = request[u]
            /\ call[u] = "checked" \/ HasCapacity(request[u])
        BY <2>2, CheckOrigin
      <3>2. HasCapacity(request[u])
        BY <3>1 DEF CheckStaysValid
      <3>3. request[u] \in Requests
        <4>1. AdmissionPhases'
          BY AdmissionPhasesStep
        <4> QED
          BY <2>2, <3>1, <4>1 DEF AdmissionPhases
      <3>4. PICK r \in Requests : r = request[u]
        BY <3>3
      <3>5. HasCapacity(r)'
        BY <2>1, <3>2, <3>4
      <3>6. r = request'[u]
        BY <3>1, <3>4
      <3> QED
        BY <3>5, <3>6 DEF HasCapacity, ChannelBusy, ScheduleBusy
    <2> QED
      BY <2>1, <2>2 DEF CheckStaysValid
  <1> QED
    BY <1>1, <1>2

(***************************************************************************)
(* The inductive invariant and the safety properties.                      *)
(***************************************************************************)

\* No step of any actor breaks the invariant.
LEMMA IndInvStep == IndInv /\ [Next]_vars => IndInv'
  BY TypeOKStep, AdmissionPhasesStep, AdmissionStep, ProcessPhasesStep,
     RecorderGoneStep, WriteOrderStep, KilledStep, AnnouncedStep, DeleteStep,
     ListedStep, NoZombieStep
  DEF IndInv

\* The invariant the safety of the recording core rests on: start_manual, the
\* process manager, the monitor, cancel, the inspector and the recovery.
THEOREM Invariance == Spec => []IndInv
  BY InitIndInv, IndInvStep, PTL DEF Spec

\* The value of every variable stays within the states the code knows.
THEOREM TypeCorrectness == Spec => []TypeOK
  <1>1. IndInv => TypeOK
    BY DEF IndInv
  <1> QED
    BY <1>1, Invariance, PTL

\* ADMISSION_LOCK and admit_recording keep max_concurrent and one running row
\* per channel and per schedule, for any number of calls, faults and crashes.
THEOREM AdmissionSafety == Spec => []AdmissionRespected
  <1>1. IndInv => AdmissionRespected
    BY DEF IndInv
  <1> QED
    BY <1>1, Invariance, PTL

\* The unique indexes of migration 0006 never have to refuse an INSERT.
THEOREM IndexNeverNeeded == Spec => []CheckStaysValid
  <1>1. IndInv => CheckStaysValid
    BY DEF IndInv
  <1> QED
    BY <1>1, Invariance, PTL

\* cancel marks the row before it kills: a killed task is never completed, and
\* its end is announced once, by whichever actor wins the guarded UPDATE.
THEOREM EndOfTaskSafety ==
    Spec => [](KilledNeverCompleted /\ CompletedMeansRecorderGone
               /\ AnnouncedOnce /\ DeleteSparesRunning)
  <1>1. IndInv => /\ KilledNeverCompleted /\ CompletedMeansRecorderGone
                  /\ AnnouncedOnce /\ DeleteSparesRunning
    BY DEF IndInv
  <1> QED
    BY <1>1, Invariance, PTL

\* Only the second half of a cancel, or a fault, ends a cancel.
LEMMA CancelStopsStep ==
    ASSUME IndInv, [Next]_vars, NEW t \in Tasks, faults' = 0, call[t] = "over",
           LiveRecorder(t), cancelling[t] # "no", cancelling'[t] = "no"
    PROVE  t \in killSent'
  <1>a. TypeOK /\ RecorderListed
    BY DEF IndInv
  <1> USE <1>a DEF TypeOK, dbVars, callVars, procVars, restVars
  <1>1. ASSUME NEW u \in Tasks, CancelStop(u) PROVE t \in killSent'
    <2>1. u = t /\ faults = 0
      BY <1>1 DEF CancelStop
    <2>2. t \in processes \cup killSent
      BY <2>1 DEF RecorderListed
    <2> QED
      BY <1>1, <2>1, <2>2 DEF CancelStop
  <1>2. ASSUME NEW u \in Tasks, CancelMark(u) PROVE FALSE
    BY <1>2 DEF CancelMark
  <1>3. CASE FaultStep
    <2>1. Fault
      BY <1>3 DEF FaultStep, DropCall, DropCancel, RecorderHangs, WritebackFails,
                  SpawnFailureUnrecorded, InspectorAborts, Crash, ReconcileFails
    <2> QED
      BY <2>1 DEF Fault
  <1>4. ASSUME UNCHANGED cancelling PROVE FALSE
    BY <1>4
  <1>5. ASSUME NEW u \in Tasks,
               StartManual(u) \/
               AcquireLock(u) \/ PassCapacity(u) \/ RejectAdmission(u) \/
               InsertRunning(u) \/ InsertRefused(u) \/ SpawnRecorder(u) \/
               SpawnFails(u) \/ Register(u) \/ WaiterSeesExit(u) \/
               WaiterKills(u) \/ WaiterDeregisters(u) \/ WaiterPublishes(u) \/
               RecorderExits(u) \/ MonitorLeavesLoop(u) \/
               CompletionWriteback(u) \/ FailureWriteback(u) \/
               ProgressTick(u) \/ GoesStale(u) \/ DeleteTaskCheck(u) \/
               DeleteTaskRow(u) \/ InspectorFails(u)
        PROVE FALSE
    BY <1>4, <1>5
    DEF StartManual, AcquireLock, PassCapacity, RejectAdmission, InsertRunning,
        InsertRefused, SpawnRecorder, SpawnFails, Register, WaiterSeesExit,
        WaiterKills, WaiterDeregisters, WaiterPublishes, RecorderExits,
        MonitorLeavesLoop, CompletionWriteback, FailureWriteback, ProgressTick,
        GoesStale, DeleteTaskCheck, DeleteTaskRow, InspectorFails
  <1>6. ASSUME \/ ClearCompletedTasks \/ InspectorSelects \/ Boot
               \/ ReconcileOrphanedTasks \/ UNCHANGED vars
               \/ \E c \in Channels : DeleteChannel(c)
               \/ \E s \in Schedules : DeleteSchedule(s)
        PROVE  FALSE
    BY <1>4, <1>6 DEF ClearCompletedTasks, InspectorSelects, Boot, vars,
                      ReconcileOrphanedTasks, DeleteChannel, DeleteSchedule
  <1> QED
    BY <1>1, <1>2, <1>3, <1>5, <1>6
    DEF Next, UserStep, InspectorStep, CallStep, WaiterStep, MonitorStep

\* Until something fails, a cancel that was let in while the row was there stops the
\* recorder of a start that has returned, even if the row has ended or gone since
\* (cancel and stop_by_task_id).
THEOREM CancelReaches == Spec => CancelStopsRecorder
  <1>1. ASSUME IndInv, [Next]_vars
        PROVE  [\A t \in Tasks :
                   /\ faults' = 0 /\ call[t] = "over" /\ LiveRecorder(t)
                   /\ cancelling[t] # "no" /\ cancelling'[t] = "no"
                   => t \in killSent']_vars
    BY <1>1, CancelStopsStep
  <1> QED
    BY <1>1, Invariance, PTL DEF Spec, CancelStopsRecorder

\* Whoever reads completed in a row may open its file: the waiter has reaped the
\* child before it publishes, and the monitor writes after that.
THEOREM CompletedIsQuiet == Spec => []CompletedMeansRecorderGone
  <1>1. IndInv => CompletedMeansRecorderGone
    BY DEF IndInv
  <1> QED
    BY <1>1, Invariance, PTL

\* Monitor, cancel, inspector and recovery race for the end of a row through the
\* guarded UPDATE: one of them at most announces it.
THEOREM EndsAnnouncedOnce == Spec => []AnnouncedOnce
  <1>1. IndInv => AnnouncedOnce
    BY DEF IndInv
  <1> QED
    BY <1>1, Invariance, PTL

\* delete_task looks at the status and deletes in two statements: what it has
\* found ended does not run again in between.
THEOREM DeletesSpareRunning == Spec => []DeleteSparesRunning
  <1>1. IndInv => DeleteSparesRunning
    BY DEF IndInv
  <1> QED
    BY <1>1, Invariance, PTL

\* Before the first fault, every running row has a call that goes on or a monitor
\* that will settle it.
THEOREM RunningIsWatched == Spec => []NoZombieWithoutFault
  <1>1. IndInv => NoZombieWithoutFault
    BY DEF IndInv
  <1> QED
    BY <1>1, Invariance, PTL

\* No step but a failed spawn changes a cancelled row, unless it deletes it.
LEMMA CancelledStep ==
    ASSUME IndInv, [Next]_vars, NEW t \in Tasks,
           status[t] = "cancelled", status'[t] \notin {"cancelled", "deleted"}
    PROVE  call[t] = "admitted" /\ status'[t] = "failed"
  <1>a. TypeOK /\ AdmissionPhases
    BY DEF IndInv
  <1> USE <1>a DEF TypeOK, dbVars, callVars, procVars, restVars, SetStatus
  <1>1. ASSUME NEW u \in Tasks, SpawnFails(u)
        PROVE  call[t] = "admitted" /\ status'[t] = "failed"
    BY <1>1 DEF SpawnFails
  <1>2. ASSUME NEW u \in Tasks, InsertRunning(u) PROVE FALSE
    <2>1. status[u] = "none" /\ status' = [status EXCEPT ![u] = "running"]
      BY <1>2 DEF InsertRunning, AdmissionPhases
    <2> QED
      BY <2>1
  <1>3. ASSUME NEW u \in Tasks,
               \/ CompletionWriteback(u) \/ FailureWriteback(u)
               \/ InspectorFails(u) \/ CancelMark(u)
        PROVE  FALSE
    BY <1>3 DEF CompletionWriteback, FailureWriteback, InspectorFails,
                CancelMark, SettleRunning
  <1>4. ASSUME \/ \E u \in Tasks : DeleteTaskRow(u)
               \/ ClearCompletedTasks
               \/ \E c \in Channels : DeleteChannel(c)
        PROVE  FALSE
    BY <1>4 DEF DeleteTaskRow, ClearCompletedTasks, DeleteChannel, DropRows
  <1>5. CASE ReconcileOrphanedTasks
    BY <1>5 DEF ReconcileOrphanedTasks, Running
  <1>6. ASSUME UNCHANGED status PROVE FALSE
    BY <1>6
  <1>7. ASSUME NEW u \in Tasks,
               StartManual(u) \/
               AcquireLock(u) \/ PassCapacity(u) \/ RejectAdmission(u) \/
               InsertRefused(u) \/ SpawnRecorder(u) \/ Register(u) \/
               WaiterSeesExit(u) \/ WaiterKills(u) \/
               WaiterDeregisters(u) \/ WaiterPublishes(u) \/
               RecorderExits(u) \/ MonitorLeavesLoop(u) \/
               ProgressTick(u) \/ GoesStale(u) \/ CancelStop(u) \/
               DeleteTaskCheck(u) \/ DropCall(u) \/ DropCancel(u) \/
               RecorderHangs(u) \/ WritebackFails(u) \/
               SpawnFailureUnrecorded(u)
        PROVE FALSE
    BY <1>6, <1>7
    DEF LeaveAdmission, StartManual, AcquireLock, PassCapacity,
        RejectAdmission, InsertRefused, SpawnRecorder, Register,
        WaiterSeesExit, WaiterKills, WaiterDeregisters, WaiterPublishes,
        RecorderExits, MonitorLeavesLoop, ProgressTick, GoesStale,
        CancelStop, DeleteTaskCheck, DropCall, DropCancel, RecorderHangs,
        WritebackFails, SpawnFailureUnrecorded
  <1>8. ASSUME \/ InspectorSelects \/ InspectorAborts \/ Crash
               \/ ReconcileFails \/ Boot \/ UNCHANGED vars
               \/ \E s \in Schedules : DeleteSchedule(s)
        PROVE  FALSE
    BY <1>6, <1>8 DEF InspectorSelects, InspectorAborts, Crash,
                      ReconcileFails, Boot, vars, DeleteSchedule
  <1> QED
    BY <1>1, <1>2, <1>3, <1>4, <1>5, <1>7, <1>8
    DEF Next, UserStep, FaultStep, InspectorStep, CallStep, WaiterStep,
        MonitorStep

\* Whatever the other actors do, a cancel is overwritten only by start_manual,
\* and only if its recorder could not be spawned.
THEOREM CancelIsFinalOtherwise == Spec => OnlySpawnOverwritesCancel
  <1>1. ASSUME IndInv, [Next]_vars
        PROVE  [\A t \in Tasks :
                   /\ status[t] = "cancelled"
                   /\ status'[t] \notin {"cancelled", "deleted"}
                   => call[t] = "admitted" /\ status'[t] = "failed"]_vars
    BY <1>1, CancelledStep
  <1> QED
    BY <1>1, Invariance, PTL DEF Spec, OnlySpawnOverwritesCancel

(* Who holds ADMISSION_LOCK goes on.                                       *)
LEMMA LockHeldStep == TypeOK /\ LockHeldInside /\ [Next]_vars => LockHeldInside'
  <1> SUFFICES ASSUME TypeOK, LockHeldInside, [Next]_vars
               PROVE  LockHeldInside'
    OBVIOUS
  <1> USE TasksAssumption DEF TypeOK, LockHeldInside, dbVars, callVars,
          procVars, restVars, LeaveAdmission
  <1>1. ASSUME NEW t \in Tasks, StartManual(t) PROVE LockHeldInside'
    BY <1>1 DEF StartManual
  <1>2. ASSUME NEW t \in Tasks, AcquireLock(t) PROVE LockHeldInside'
    BY <1>2 DEF AcquireLock
  <1>3. ASSUME NEW t \in Tasks, PassCapacity(t) PROVE LockHeldInside'
    BY <1>3 DEF PassCapacity
  <1>4. ASSUME NEW t \in Tasks, RejectAdmission(t) PROVE LockHeldInside'
    BY <1>4 DEF RejectAdmission
  <1>5. ASSUME NEW t \in Tasks, InsertRunning(t) PROVE LockHeldInside'
    BY <1>5 DEF InsertRunning
  <1>6. ASSUME NEW t \in Tasks, InsertRefused(t) PROVE LockHeldInside'
    BY <1>6 DEF InsertRefused
  <1>7. ASSUME NEW t \in Tasks, SpawnRecorder(t) PROVE LockHeldInside'
    BY <1>7 DEF SpawnRecorder
  <1>8. ASSUME NEW t \in Tasks, SpawnFails(t) PROVE LockHeldInside'
    BY <1>8 DEF SpawnFails
  <1>9. ASSUME NEW t \in Tasks, Register(t) PROVE LockHeldInside'
    BY <1>9 DEF Register
  <1>10. ASSUME NEW t \in Tasks, DropCall(t) PROVE LockHeldInside'
    BY <1>10 DEF DropCall
  <1>11. ASSUME NEW t \in Tasks, SpawnFailureUnrecorded(t) PROVE LockHeldInside'
    BY <1>11 DEF SpawnFailureUnrecorded
  <1>12. ASSUME Crash PROVE LockHeldInside'
    BY <1>12 DEF Crash
  <1>13. ASSUME NEW t \in Tasks,
                CompletionWriteback(t) \/ FailureWriteback(t) \/
                InspectorFails(t) \/ CancelMark(t) \/ DeleteTaskRow(t) \/
                WaiterSeesExit(t) \/ WaiterKills(t) \/
                WaiterDeregisters(t) \/ WaiterPublishes(t) \/
                RecorderExits(t) \/ MonitorLeavesLoop(t) \/
                ProgressTick(t) \/ GoesStale(t) \/ CancelStop(t) \/
                DeleteTaskCheck(t) \/ DropCancel(t) \/ RecorderHangs(t) \/
                WritebackFails(t)
         PROVE LockHeldInside'
    <2>1. UNCHANGED <<call, admissionLock>>
      BY <1>13 DEF CompletionWriteback, FailureWriteback, InspectorFails,
          CancelMark, DeleteTaskRow,
          WaiterSeesExit, WaiterKills, WaiterDeregisters, WaiterPublishes,
          RecorderExits, MonitorLeavesLoop, ProgressTick, GoesStale,
          CancelStop, DeleteTaskCheck, DropCancel, RecorderHangs,
          WritebackFails
    <2> QED
      BY <2>1
  <1>14. CASE \/ InspectorSelects \/ InspectorAborts \/ ReconcileFails \/ Boot
              \/ ClearCompletedTasks \/ ReconcileOrphanedTasks
              \/ (\E c \in Channels : DeleteChannel(c))
              \/ (\E s \in Schedules : DeleteSchedule(s))
              \/ UNCHANGED vars
    <2>1. UNCHANGED <<call, admissionLock>>
      BY <1>14 DEF InspectorSelects, InspectorAborts, ReconcileFails, Boot,
          ClearCompletedTasks, ReconcileOrphanedTasks, DeleteChannel,
          DeleteSchedule, vars
    <2> QED
      BY <2>1
  <1> QED
    BY <1>1, <1>2, <1>3, <1>4, <1>5, <1>6, <1>7,
       <1>8, <1>9, <1>10, <1>11, <1>12, <1>13, <1>14
    DEF Next, UserStep, FaultStep, InspectorStep, CallStep, WaiterStep,
        MonitorStep

\* Nobody runs away with ADMISSION_LOCK: every early return of admit_recording
\* and start_manual, a failed query, a dropped future and a crash give it back.
THEOREM LockAlwaysGoesBack == Spec => []LockHeldInside
  <1>1. Init => LockHeldInside
    BY DEF Init, LockHeldInside
  <1>2. IndInv => TypeOK
    BY DEF IndInv
  <1> QED
    BY <1>1, <1>2, LockHeldStep, Invariance, PTL DEF Spec

(***************************************************************************)
(* Refinement.                                                             *)
(***************************************************************************)
LEMMA LifecycleInit == Init => Lifecycle!Init
  BY DEF Init, Lifecycle!Init, RequestChannel

\* Every step maps to a step of the task life cycle or to a stutter.
LEMMA LifecycleStep ==
    IndInv /\ [Next]_vars => [Lifecycle!Next]_<<status, RequestChannel>>
  <1> SUFFICES ASSUME IndInv, [Next]_vars
               PROVE  [Lifecycle!Next]_<<status, RequestChannel>>
    OBVIOUS
  <1> DEFINE Step == [Lifecycle!Next]_<<status, RequestChannel>>
  <1>a. TypeOK /\ AdmissionPhases /\ CheckStaysValid /\ WriteOrder
    BY DEF IndInv
  <1>b. ASSUME NEW S \in SUBSET Running, NEW e \in Terminal,
               status' = [t \in Tasks |-> IF t \in S THEN e ELSE status[t]],
               UNCHANGED request
        PROVE  Step
    BY <1>b DEF Lifecycle!Next, Lifecycle!End, Lifecycle!Ended, Terminal,
                Lifecycle!RunningTasks, Running, RequestChannel
  <1>c. ASSUME NEW S \in SUBSET {t \in Tasks : status[t] # "none"},
               status' = [t \in Tasks |-> IF t \in S THEN "deleted"
                                                    ELSE status[t]],
               UNCHANGED request
        PROVE  Step
    BY <1>c DEF Lifecycle!Next, Lifecycle!Forget, RequestChannel
  <1>d. ASSUME UNCHANGED <<status, request>> PROVE Step
    BY <1>d DEF RequestChannel
  <1>e. ASSUME NEW t \in Tasks, NEW e \in Terminal,
               IF status[t] = "running" THEN SetStatus(t, e)
                                        ELSE UNCHANGED status,
               UNCHANGED request
        PROVE  Step
    <2>1. CASE status[t] = "running"
      <3>1. status' = [u \in Tasks |-> IF u \in {t} THEN e ELSE status[u]]
        BY <1>a, <1>e, <2>1 DEF SetStatus, TypeOK
      <3>2. {t} \in SUBSET Running
        BY <2>1 DEF Running
      <3> QED
        BY <1>b, <1>e, <3>1, <3>2
    <2>2. CASE status[t] # "running"
      BY <1>d, <1>e, <2>2
    <2> QED
      BY <2>1, <2>2
  <1> USE DEF dbVars, callVars, procVars, restVars, Fault
  <1>1. ASSUME NEW t \in Tasks, StartManual(t) PROVE Step
    <2>1. PICK r \in Requests : request' = [request EXCEPT ![t] = r]
      BY <1>1 DEF StartManual
    <2>2. /\ RequestChannel[t] = "unknown"
          /\ RequestChannel' = [RequestChannel EXCEPT ![t] = r.channel]
      BY <1>a, <1>1, <2>1, SchedulesAssumption
      DEF StartManual, RequestChannel, TypeOK, AdmissionPhases
    <2>3. status[t] = "none" /\ r.channel \in Channels /\ UNCHANGED status
      BY <1>a, <1>1 DEF StartManual, AdmissionPhases, Requests
    <2> QED
      BY <2>2, <2>3 DEF Lifecycle!Next, Lifecycle!Choose
  <1>2. ASSUME NEW t \in Tasks, InsertRunning(t) PROVE Step
    <2>1. HasCapacity(request[t]) /\ status[t] = "none"
      BY <1>a, <1>2 DEF InsertRunning, CheckStaysValid, AdmissionPhases
    <2>2. \A u \in Running \cup {t} : request[u] \in Requests
      BY <1>a, <1>2 DEF InsertRunning, AdmissionPhases, Running
    <2>3. \A u \in Running \cup {t} : RequestChannel[u] = request[u].channel
      BY <2>2, SchedulesAssumption DEF RequestChannel, Running
    <2>4. RequestChannel[t] \in Channels
      BY <2>2, <2>3 DEF Requests
    <2>5. Lifecycle!RunningTasks = Running
      BY DEF Lifecycle!RunningTasks, Running
    <2>6. UNCHANGED RequestChannel
      BY <1>2 DEF InsertRunning, RequestChannel
    <2>7. \A u \in Running : RequestChannel[u] # RequestChannel[t]
      BY <2>1, <2>3 DEF HasCapacity, ChannelBusy
    <2>8. status' = [status EXCEPT ![t] = "running"]
      BY <1>2 DEF InsertRunning
    <2>9. Cardinality(Lifecycle!RunningTasks) < MaxConcurrent
      BY <2>1, <2>5 DEF HasCapacity
    <2>10. Lifecycle!Cardinality(Lifecycle!RunningTasks)
             = Cardinality(Lifecycle!RunningTasks)
      BY DEF Lifecycle!Cardinality, Cardinality
    <2>11. Lifecycle!Admit(t)
      BY <2>1, <2>4, <2>5, <2>6, <2>7, <2>8, <2>9, <2>10 DEF Lifecycle!Admit
    <2> QED
      BY <2>11 DEF Lifecycle!Next
  <1>3. ASSUME NEW t \in Tasks, SpawnFails(t) PROVE Step
    <2>1. CASE status[t] \in Terminal
      <3>1. status' = [status EXCEPT ![t] = "failed"] /\ UNCHANGED request
        BY <1>3, <2>1 DEF SpawnFails, SetStatus, HasRow
      <3> QED
        BY <2>1, <3>1 DEF Lifecycle!Next, Lifecycle!Overwrite, Lifecycle!Ended,
                          Terminal, RequestChannel
    <2>2. CASE status[t] \notin Terminal
      BY <1>e, <1>3, <2>2 DEF SpawnFails, SetStatus, HasRow, Terminal
    <2> QED
      BY <2>1, <2>2
  <1>4. ASSUME NEW t \in Tasks,
               \/ CompletionWriteback(t) \/ FailureWriteback(t)
               \/ InspectorFails(t) \/ CancelMark(t)
        PROVE  Step
    <2>1. PICK e \in Terminal :
             IF status[t] = "running" THEN SetStatus(t, e)
                                      ELSE UNCHANGED status
      BY <1>4 DEF CompletionWriteback, FailureWriteback, InspectorFails,
                  CancelMark, SettleRunning, Terminal
    <2>2. UNCHANGED request
      BY <1>4 DEF CompletionWriteback, FailureWriteback, InspectorFails,
                  CancelMark
    <2> QED
      BY <1>e, <2>1, <2>2
  <1>5. ASSUME NEW t \in Tasks, DeleteTaskRow(t) PROVE Step
    <2>1. status[t] # "none" /\ UNCHANGED request
      BY <1>a, <1>5 DEF DeleteTaskRow, WriteOrder
    <2>2. status' = [u \in Tasks |-> IF u \in {t} THEN "deleted"
                                                 ELSE status[u]]
      BY <1>a, <1>5 DEF DeleteTaskRow, SetStatus, TypeOK
    <2> QED
      BY <1>c, <2>1, <2>2
  <1>6. CASE ClearCompletedTasks
    <2>1. {t \in Tasks : status[t] \in Terminal}
             \in SUBSET {t \in Tasks : status[t] # "none"}
      BY DEF Terminal
    <2> QED
      BY <1>c, <1>6, <2>1 DEF ClearCompletedTasks, DropRows
  <1>7. ASSUME NEW c \in Channels, DeleteChannel(c) PROVE Step
    <2>1. {t \in Tasks : status[t] \in HasRow /\ request[t].channel = c}
             \in SUBSET {t \in Tasks : status[t] # "none"}
      BY DEF Terminal, HasRow
    <2> QED
      BY <1>c, <1>7, <2>1 DEF DeleteChannel, DropRows
  <1>8. CASE ReconcileOrphanedTasks
    <2>1. Running \in SUBSET Running /\ "failed" \in Terminal
      BY DEF Terminal
    <2> QED
      BY <1>b, <1>8, <2>1 DEF ReconcileOrphanedTasks
  <1>9. ASSUME NEW t \in Tasks,
                AcquireLock(t) \/ PassCapacity(t) \/ RejectAdmission(t) \/
                InsertRefused(t) \/ SpawnRecorder(t) \/ Register(t) \/
                WaiterSeesExit(t) \/ WaiterKills(t) \/
                WaiterDeregisters(t) \/ WaiterPublishes(t) \/
                RecorderExits(t) \/ MonitorLeavesLoop(t) \/
                ProgressTick(t) \/ GoesStale(t) \/ CancelStop(t) \/
                DeleteTaskCheck(t) \/ DropCall(t) \/ DropCancel(t) \/
                RecorderHangs(t) \/ WritebackFails(t) \/
                SpawnFailureUnrecorded(t)
         PROVE Step
    <2>1. UNCHANGED <<status, request>>
      BY <1>9 DEF LeaveAdmission,
          AcquireLock, PassCapacity, RejectAdmission, InsertRefused,
          SpawnRecorder, Register, WaiterSeesExit, WaiterKills,
          WaiterDeregisters, WaiterPublishes, RecorderExits,
          MonitorLeavesLoop, ProgressTick, GoesStale, CancelStop,
          DeleteTaskCheck, DropCall, DropCancel, RecorderHangs,
          WritebackFails, SpawnFailureUnrecorded
    <2> QED
      BY <1>d, <2>1
  <1>10. CASE InspectorSelects \/ InspectorAborts \/ Crash \/ ReconcileFails \/ Boot
    <2>1. UNCHANGED <<status, request>>
      BY <1>10 DEF
          InspectorSelects, InspectorAborts, Crash, ReconcileFails, Boot
    <2> QED
      BY <1>d, <2>1
  <1>11. ASSUME NEW s \in Schedules, DeleteSchedule(s) PROVE Step
    BY <1>d, <1>11 DEF DeleteSchedule
  <1>12. CASE UNCHANGED vars
    BY <1>d, <1>12 DEF vars
  <1> QED
    BY <1>1, <1>2, <1>3, <1>4, <1>5, <1>6, <1>7, <1>8, <1>9, <1>10, <1>11,
       <1>12
    DEF Next, UserStep, FaultStep, InspectorStep, CallStep, WaiterStep,
        MonitorStep

\* The task rows behave like the tasks of TaskLifecycle: admitted within the
\* limits, ended once, never run again, never back after their deletion.
THEOREM Refinement == Spec => ImplementsLifecycle
  BY LifecycleInit, LifecycleStep, Invariance, PTL
  DEF Spec, ImplementsLifecycle, Lifecycle!Spec

=============================================================================
