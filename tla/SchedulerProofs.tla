--------------------------- MODULE SchedulerProofs ---------------------------
(***************************************************************************)
(* Proofs about Scheduler, for any schedules, contents and requests: if    *)
(* clients send one request per schedule at a time and none is dropped,    *)
(* a schedule nobody works on has exactly the job its row asks for.        *)
(***************************************************************************)
EXTENDS Scheduler, TLAPS

USE HandlersAssumption, ExpressionAssumption, NothingAssumption, ModeAssumption

Labels == {"idle", "toggle", "read", "lookup", "remove", "forget", "install",
           "record", "clear", "list", "load", "over"}

-----------------------------------------------------------------------------
(* Types.                                                                  *)

\* The row a request writes is a row.
LEMMA RowUpdates ==
    ASSUME NEW r \in Rows, NEW e \in BOOLEAN
    PROVE  /\ [r EXCEPT !.enabled = e] \in Rows
           /\ [r EXCEPT !.enabled = ~@] \in Rows
           /\ r.version \in Versions
           /\ r.enabled \in BOOLEAN
  BY DEF Rows

\* An UPDATE of the contents leaves a row, too.
LEMMA NewContents ==
    ASSUME NEW r \in Rows, NEW v \in Versions
    PROVE  [r EXCEPT !.version = v] \in Rows
  BY DEF Rows

\* The job a handler installs is a job.
LEMMA NewJobType ==
    ASSUME TypeOK, NEW h \in Handlers, target[h] \in Schedules,
           snapshot[h] \in Rows
    PROVE  NewJob(h) \in Jobs /\ NewJob(h).schedule = target[h]
           /\ NewJob(h).version = snapshot[h].version /\ NewJob(h) # NoJob
  BY RowUpdates, TRUE \in BOOLEAN DEF NewJob, Jobs, Rows

\* The first state is well typed.
LEMMA InitTypeOK == Init => TypeOK
<1> SUFFICES ASSUME Init PROVE TypeOK  OBVIOUS
<1> USE DEF Init, MaybeRow
<1>1. created \subseteq Schedules /\ jobs \subseteq Jobs /\ started \in BOOLEAN
  OBVIOUS
<1>2. pc \in [Handlers -> Labels] /\ loading \subseteq Handlers
  BY DEF Labels
<1>3. faults \in 0..MaxFaults
  OBVIOUS
<1>4. jobUuids \in [Schedules -> Jobs \cup {NoJob}]
  OBVIOUS
<1>5. /\ target \in [Handlers -> Schedules \cup {NoTarget}]
      /\ oldJob \in [Handlers -> Jobs \cup {NoJob}]
  OBVIOUS
<1>6. /\ snapshot \in [Handlers -> MaybeRow]
      /\ todo \in [Handlers -> [Schedules -> MaybeRow]]
  OBVIOUS
<1>7. QED  BY <1>1, <1>2, <1>3, <1>4, <1>5, <1>6 DEF TypeOK, Labels

\* Every step keeps the types (HandlerShape: a handler knows its target).
LEMMA TypeOKStep ==
    ASSUME TypeOK, HandlerShape, [Next]_vars PROVE TypeOK'
<1> USE DEF TypeOK, MaybeRow
<1>1. ASSUME NEW h \in Handlers, Request(h) PROVE TypeOK'
  <2>1. ASSUME NEW s \in Schedules, NEW v \in Versions, CreateSchedule(h, s, v)
        PROVE  TypeOK'
    <3>1. rows' \in [Schedules -> MaybeRow]
      <4>1. [version |-> v, enabled |-> TRUE] \in MaybeRow
        BY DEF Rows
      <4>2. QED  BY <2>1, <4>1 DEF CreateSchedule
    <3>2. QED  BY <2>1, <3>1 DEF CreateSchedule, Begin, Goto, memory
  <2>2. ASSUME NEW s \in Schedules, NEW v \in Versions, UpdateSchedule(h, s, v)
        PROVE  TypeOK'
    <3>1. rows' \in [Schedules -> MaybeRow]
      BY <2>2, NewContents DEF UpdateSchedule, Rows
    <3>2. QED  BY <2>2, <3>1 DEF UpdateSchedule, Begin, Goto, memory
  <2>3. ASSUME NEW s \in Schedules, DeleteSchedule(h, s) PROVE TypeOK'
    BY <2>3 DEF DeleteSchedule, Begin, Goto, memory
  <2>4. ASSUME NEW s \in Schedules, ToggleSchedule(h, s) PROVE TypeOK'
    <3>1. snapshot' \in [Handlers -> MaybeRow]
      <4>1. rows[s] \in Rows
        BY <2>4 DEF ToggleSchedule
      <4>2. [rows[s] EXCEPT !.enabled = ~@] \in Rows
        BY <4>1, RowUpdates
      <4>3. QED  BY <2>4, <4>2 DEF ToggleSchedule
    <3>2. QED  BY <2>4, <3>1 DEF ToggleSchedule, Begin, Goto, memory, tables
  <2>5. CASE Reload(h)
    BY <2>5 DEF Reload, Goto, tables
  <2>6. QED  BY <1>1, <2>1, <2>2, <2>3, <2>4, <2>5 DEF Request
<1>2. ASSUME NEW h \in Handlers, HandlerStep(h) PROVE TypeOK'
  <2>0. pc[h] \in Syncing \cup {"toggle", "read"} => target[h] \in Schedules
    BY DEF HandlerShape
  <2>1. CASE ToggleWrite(h)
    <3>1. pc[h] = "toggle" /\ target[h] \in Schedules
      BY <2>0, <2>1 DEF ToggleWrite
    <3>2. rows' \in [Schedules -> MaybeRow]
      <4>1. snapshot[h] \in Rows
        BY <3>1 DEF HandlerShape
      <4>2. snapshot[h].enabled \in BOOLEAN
        BY <4>1 DEF Rows
      <4>3. CASE rows[target[h]] = NoRow
        BY <2>1, <4>3 DEF ToggleWrite
      <4>4. CASE rows[target[h]] # NoRow
        <5>1. rows[target[h]] \in Rows
          BY <3>1, <4>4
        <5>2. [rows[target[h]] EXCEPT !.enabled = snapshot[h].enabled]
                 \in Rows
          BY <5>1, <4>2, RowUpdates
        <5>3. rows' = [rows EXCEPT ![target[h]] =
                          [rows[target[h]] EXCEPT
                              !.enabled = snapshot[h].enabled]]
          BY <2>1, <4>4, Zenon DEF ToggleWrite
        <5>4. QED  BY <3>1, <5>2, <5>3
      <4>5. QED  BY <4>3, <4>4
    <3>3. QED  BY <2>1, <3>2 DEF ToggleWrite, Goto, memory, locals
  <2>2. CASE ReadBack(h)
    BY <2>0, <2>2 DEF ReadBack, Goto, tables, memory
  <2>3. CASE LookUp(h)
    BY <2>0, <2>3 DEF LookUp, AfterRemoval, Goto, tables, memory, Syncing
  <2>4. CASE RemoveOld(h)
    BY <2>4 DEF RemoveOld, Goto, tables, locals
  <2>5. CASE ForgetOld(h)
    BY <2>0, <2>5 DEF ForgetOld, AfterRemoval, Goto, tables, locals
  <2>6. CASE Install(h)
    <3>1. target[h] \in Schedules /\ snapshot[h] \in Rows
      BY <2>0, <2>6 DEF Install, HandlerShape, IsEnabled, Syncing
    <3>2. pc' \in [Handlers -> Labels]
      BY <2>6 DEF Install, Done, Goto, Labels
    <3>3. jobs' \subseteq Jobs
      BY <2>6, <3>1, NewJobType DEF Install
    <3>4. QED  BY <2>6, <3>2, <3>3 DEF Install, Labels, tables, locals
  <2>7. CASE Record(h)
    <3>1. target[h] \in Schedules /\ snapshot[h] \in Rows
      BY <2>0, <2>7 DEF Record, HandlerShape, IsEnabled, Syncing
    <3>2. QED  BY <2>7, <3>1, NewJobType
               DEF Record, Done, Goto, tables, locals
  <2>8. CASE ClearUuids(h)
    BY <2>8 DEF ClearUuids, Goto, tables, locals
  <2>9. CASE ListEnabled(h)
    BY <2>9 DEF ListEnabled, Goto, tables, memory
  <2>10. CASE StartScheduler(h)
    BY <2>10 DEF StartScheduler, Goto, tables, locals
  <2>11. ASSUME NEW s \in Schedules, LoadNext(h, s) PROVE TypeOK'
    BY <2>11 DEF LoadNext, Goto, tables, memory
  <2>12. QED  BY <1>2, <2>1, <2>2, <2>3, <2>4, <2>5, <2>6, <2>7, <2>8, <2>9,
                 <2>10, <2>11 DEF HandlerStep
<1>3. ASSUME NEW h \in Handlers, DropHandler(h) \/ ListFails(h) PROVE TypeOK'
  BY <1>3, ModeAssumption
     DEF DropHandler, ListFails, Fault, Goto, tables, memory, locals
<1>4. ASSUME NEW S \in SUBSET Schedules, DropChannel(S) PROVE TypeOK'
  BY <1>4 DEF DropChannel, memory, locals
<1>5. CASE UNCHANGED vars
  BY <1>5 DEF vars, tables, memory, locals
<1>6. QED  BY <1>1, <1>2, <1>3, <1>4, <1>5 DEF Next

-----------------------------------------------------------------------------
(* What a handler has read before it goes on, and who else is at work.     *)

\* The first state: only the start at boot is at work.
LEMMA InitShape == Init => HandlerShape /\ Exclusive
<1> SUFFICES ASSUME Init PROVE HandlerShape /\ Exclusive  OBVIOUS
<1>1. HandlerShape
  BY DEF Init, HandlerShape, Syncing
<1>2. Exclusive
  BY DEF Init, Exclusive, InFlight
<1>3. QED  BY <1>1, <1>2

\* Every step keeps what a handler knows about its target and its row.
LEMMA HandlerShapeStep ==
    ASSUME TypeOK, HandlerShape, [Next]_vars PROVE HandlerShape'
<1> USE DEF TypeOK, HandlerShape, MaybeRow, Syncing
<1>1. ASSUME NEW h \in Handlers, Request(h) PROVE HandlerShape'
  <2>1. ASSUME NEW s \in Schedules, NEW v \in Versions, CreateSchedule(h, s, v)
        PROVE  HandlerShape'
    BY <2>1 DEF CreateSchedule, Begin, MayRequest, Goto, memory
  <2>2. ASSUME NEW s \in Schedules, NEW v \in Versions, UpdateSchedule(h, s, v)
        PROVE  HandlerShape'
    BY <2>2 DEF UpdateSchedule, Begin, MayRequest, Goto, memory
  <2>3. ASSUME NEW s \in Schedules, DeleteSchedule(h, s) PROVE HandlerShape'
    BY <2>3 DEF DeleteSchedule, Begin, MayRequest, Goto, memory
  <2>4. ASSUME NEW s \in Schedules, ToggleSchedule(h, s) PROVE HandlerShape'
    <3>1. rows[s] \in Rows
      BY <2>4 DEF ToggleSchedule
    <3>2. snapshot'[h] # NoRow
      BY <2>4, <3>1, RowUpdates, NothingAssumption DEF ToggleSchedule
    <3>3. QED
      BY <2>4, <3>1, <3>2 DEF ToggleSchedule, Begin, MayRequest, Goto, memory,
                              tables
  <2>5. CASE Reload(h)
    BY <2>5 DEF Reload, MayRequest, Goto, tables
  <2>6. QED  BY <1>1, <2>1, <2>2, <2>3, <2>4, <2>5 DEF Request
<1>2. ASSUME NEW h \in Handlers, HandlerStep(h) PROVE HandlerShape'
  <2>1. CASE ToggleWrite(h)
    BY <2>1 DEF ToggleWrite, Goto, memory, locals
  <2>2. CASE ReadBack(h)
    BY <2>2 DEF ReadBack, Goto, tables, memory
  <2>3. CASE LookUp(h)
    BY <2>3 DEF LookUp, AfterRemoval, Goto, tables, memory
  <2>4. CASE RemoveOld(h)
    BY <2>4 DEF RemoveOld, Goto, tables, locals
  <2>5. CASE ForgetOld(h)
    BY <2>5 DEF ForgetOld, AfterRemoval, Goto, tables, locals
  <2>6. CASE Install(h)
    BY <2>6 DEF Install, Done, Goto, tables, locals
  <2>7. CASE Record(h)
    BY <2>7 DEF Record, Done, Goto, tables, locals
  <2>8. CASE ClearUuids(h)
    BY <2>8 DEF ClearUuids, Goto, tables, locals
  <2>9. CASE ListEnabled(h)
    BY <2>9 DEF ListEnabled, IsEnabled, Goto, tables, memory
  <2>10. CASE StartScheduler(h)
    BY <2>10 DEF StartScheduler, Goto, tables, locals
  <2>11. ASSUME NEW s \in Schedules, LoadNext(h, s) PROVE HandlerShape'
    BY <2>11 DEF LoadNext, Goto, tables, memory
  <2>12. QED  BY <1>2, <2>1, <2>2, <2>3, <2>4, <2>5, <2>6, <2>7, <2>8, <2>9,
                 <2>10, <2>11 DEF HandlerStep
<1>3. ASSUME NEW h \in Handlers, DropHandler(h) PROVE HandlerShape'
  BY <1>3 DEF DropHandler, InFlight, Goto, tables, memory, locals
<1>4. ASSUME NEW h \in Handlers, ListFails(h) PROVE HandlerShape'
  BY <1>4 DEF ListFails, Goto, tables, memory, locals
<1>5. ASSUME NEW S \in SUBSET Schedules, DropChannel(S) PROVE HandlerShape'
  BY <1>5 DEF DropChannel, memory, locals
<1>6. CASE UNCHANGED vars
  BY <1>6 DEF vars, tables, memory, locals
<1>7. QED  BY <1>1, <1>2, <1>3, <1>4, <1>5, <1>6 DEF Next

\* A step of a handler leaves the other handlers where they are, and touches
\* no schedule it did not touch before.
LEMMA StepTouches ==
    ASSUME TypeOK, HandlerShape, NEW h \in Handlers,
           HandlerStep(h) \/ DropHandler(h) \/ ListFails(h)
    PROVE  /\ loading' = loading /\ InFlight(h)
           /\ \A g \in Handlers \ {h} : pc'[g] = pc[g] /\ target'[g] = target[g]
           /\ \A g \in Handlers : Touches(g)' = Touches(g)
           /\ \A g \in Handlers : InFlight(g)' => InFlight(g)
<1> USE DEF TypeOK, HandlerShape, InFlight, Goto
<1>1. pc' = [pc EXCEPT ![h] = pc'[h]] /\ loading' = loading /\ InFlight(h)
  BY DEF HandlerStep, ToggleWrite, ReadBack, LookUp, RemoveOld, ForgetOld,
         Install, Record, ClearUuids, ListEnabled, StartScheduler, LoadNext,
         DropHandler, ListFails, Fault, locals
<1>2. target' = [target EXCEPT ![h] = target'[h]]
      /\ (h \notin loading => target' = target)
  BY DEF HandlerStep, ToggleWrite, ReadBack, LookUp, RemoveOld, ForgetOld,
         Install, Record, ClearUuids, ListEnabled, StartScheduler, LoadNext,
         DropHandler, ListFails, Fault, locals
<1>3. QED  BY <1>1, <1>2 DEF Touches

\* A request begins only when nobody is at work on what it will touch.
LEMMA RequestTouches ==
    ASSUME TypeOK, HandlerShape, NEW h \in Handlers, Request(h)
    PROVE  /\ pc[h] = "idle" /\ faults' = faults
           /\ \A g \in Handlers \ {h} :
                 /\ pc'[g] = pc[g] /\ target'[g] = target[g]
                 /\ g \in loading' <=> g \in loading
                 /\ Serialized /\ InFlight(g) =>
                       Touches(g) \cap Touches(h)' = {}
<1> USE DEF TypeOK, HandlerShape, InFlight, Goto, MayRequest, Touches
<1>1. ASSUME NEW s \in Schedules, NEW l, Begin(h, l, s)
      PROVE  /\ pc[h] = "idle" /\ faults' = faults
             /\ \A g \in Handlers \ {h} :
                   /\ pc'[g] = pc[g] /\ target'[g] = target[g]
                   /\ g \in loading' <=> g \in loading
                   /\ Serialized /\ InFlight(g) =>
                         Touches(g) \cap Touches(h)' = {}
  <2>1. Touches(h)' = {s}
    BY <1>1 DEF Begin
  <2>2. QED  BY <1>1, <2>1 DEF Begin
<1>2. CASE Reload(h)
  BY <1>2 DEF Reload
<1>3. CASE ~Reload(h)
  <2>1. PICK s \in Schedules, l \in Labels : Begin(h, l, s)
    BY <1>3 DEF Request, CreateSchedule, UpdateSchedule, DeleteSchedule,
                ToggleSchedule, Labels
  <2>2. QED  BY <2>1, <1>1
<1>4. QED  BY <1>2, <1>3

\* Every step keeps requests of one schedule apart, if clients do.
LEMMA ExclusiveStep ==
    ASSUME TypeOK, HandlerShape, Exclusive, [Next]_vars PROVE Exclusive'
<1>1. ASSUME NEW h \in Handlers, Request(h) PROVE Exclusive'
  <2> SUFFICES ASSUME Serialized, NEW f \in Handlers, NEW g \in Handlers, f # g,
                      InFlight(f)', InFlight(g)'
               PROVE  Touches(f)' \cap Touches(g)' = {}
    BY DEF Exclusive
  <2>1. \A k \in Handlers \ {h} : Touches(k)' = Touches(k)
                                 /\ (InFlight(k)' <=> InFlight(k))
    BY <1>1, RequestTouches DEF Touches, InFlight
  <2>2. CASE f = h
    BY <1>1, <2>1, <2>2, RequestTouches
  <2>3. CASE g = h
    BY <1>1, <2>1, <2>3, RequestTouches
  <2>4. CASE f # h /\ g # h
    BY <2>1, <2>4 DEF Exclusive
  <2>5. QED  BY <2>2, <2>3, <2>4
<1>2. ASSUME NEW h \in Handlers, HandlerStep(h) \/ DropHandler(h) \/ ListFails(h)
      PROVE  Exclusive'
  BY <1>2, StepTouches DEF Exclusive
<1>3. ASSUME NEW S \in SUBSET Schedules, DropChannel(S) PROVE Exclusive'
  BY <1>3 DEF DropChannel, memory, locals, Exclusive, InFlight, Touches
<1>4. CASE UNCHANGED vars
  BY <1>4 DEF vars, locals, Exclusive, InFlight, Touches
<1>5. QED  BY <1>1, <1>2, <1>3, <1>4 DEF Next

-----------------------------------------------------------------------------
(* Where every handler stands with the jobs.                               *)

\* A step keeps to itself what s is about, unless it deletes the row.
Keeps(s) == /\ rows'[s] \in {rows[s], NoRow}
            /\ jobUuids'[s] = jobUuids[s]
            /\ JobsOf(s)' = JobsOf(s)

\* A schedule left alone stays as it was.
LEMMA KeptSchedule ==
    ASSUME TypeOK, NEW s \in Schedules, Keeps(s)
    PROVE  /\ Tidy(s) => Tidy(s)'
           /\ NoJobFor(s) => NoJobFor(s)'
           /\ Settled(s) => Settled(s)'
  BY DEF Keeps, Tidy, NoJobFor, Settled, InSync, TypeOK

\* A handler that no one disturbs stands where it stood.
LEMMA OtherHandler ==
    ASSUME TypeOK, TypeOK', HandlerShape, NEW g \in Handlers,
           pc'[g] = pc[g], target'[g] = target[g], snapshot'[g] = snapshot[g],
           oldJob'[g] = oldJob[g], todo'[g] = todo[g],
           g \in loading' <=> g \in loading,
           \A s \in Schedules : InFlight(g) /\ s \in Touches(g) => Keeps(s),
           JobPhase(g), LoadPhase(g)
    PROVE  JobPhase(g)' /\ LoadPhase(g)'
<1> USE DEF TypeOK, HandlerShape
<1>1. pc[g] \in Syncing \cup {"toggle", "read"} => target[g] \in Schedules
                                                 /\ Keeps(target[g])
  BY DEF InFlight, Touches, Syncing
<1>2. g \in loading /\ InFlight(g) => \A s \in Schedules : Keeps(s)
  BY DEF Touches
<1>3. NewJob(g)' = NewJob(g)
  BY DEF NewJob
<1>4. JobPhase(g)'
  <2>1. pc[g] = "toggle" => Settled(target[g])'
    BY <1>1, KeptSchedule DEF JobPhase
  <2>2. pc[g] \in {"read", "lookup"} => Tidy(target[g])'
    BY <1>1, KeptSchedule DEF JobPhase, Syncing
  <2>3. pc[g] = "install" => NoJobFor(target[g])'
    BY <1>1, KeptSchedule DEF JobPhase, Syncing
  <2>4. pc[g] \in Syncing /\ rows'[target[g]] # NoRow
            => snapshot[g] = rows'[target[g]]
    BY <1>1 DEF JobPhase, Keeps
  <2>5. /\ pc[g] = "remove" => /\ oldJob[g] # NoJob
                               /\ oldJob[g] = jobUuids'[target[g]]
                               /\ JobsOf(target[g])' = {oldJob[g]}
        /\ pc[g] = "forget" => JobsOf(target[g])' = {}
        /\ pc[g] = "record" => /\ JobsOf(target[g])' = {NewJob(g)}
                               /\ jobUuids'[target[g]] = NoJob
    BY <1>1 DEF JobPhase, Keeps, Syncing
  <2>6. QED
    BY <2>1, <2>2, <2>3, <2>4, <2>5, <1>3
       DEF JobPhase, Settled, InSync, Tidy, NoJobFor, JobsOf
<1>5. LoadPhase(g)'
  <2>1. pc[g] = "clear" => jobs' = {}
    <3>1. SUFFICES ASSUME pc[g] = "clear", NEW j \in jobs' PROVE FALSE
      OBVIOUS
    <3>2. j.schedule \in Schedules
      BY DEF Jobs
    <3>3. j \in JobsOf(j.schedule)'
      BY <3>2 DEF JobsOf
    <3>4. Keeps(j.schedule)
      BY <1>2, <3>1, <3>2 DEF InFlight
    <3>5. QED  BY <3>1, <3>3, <3>4 DEF Keeps, LoadPhase, JobsOf
  <2>2. pc[g] = "list" => \A s \in Schedules : NoJobFor(s)'
    BY <1>2, KeptSchedule DEF LoadPhase, InFlight
  <2>3. g \in loading /\ pc[g] \in Syncing => IsEnabled(snapshot[g])
    BY DEF LoadPhase
  <2>4. ASSUME g \in loading, pc[g] \in Syncing \cup {"load"},
               NEW s \in Schedules
        PROVE  IF pc[g] # "load" /\ s = target[g] THEN todo[g][s] = NoRow
               ELSE IF todo[g][s] = NoRow THEN Settled(s)'
               ELSE /\ NoJobFor(s)' /\ IsEnabled(todo[g][s])
                    /\ rows'[s] # NoRow => todo[g][s] = rows'[s]
    <3>1. Keeps(s)
      BY <2>4, <1>2 DEF InFlight, Syncing
    <3>2. QED  BY <2>4, <3>1, KeptSchedule DEF LoadPhase, Keeps
  <2>5. QED
    BY <2>1, <2>2, <2>3, <2>4
       DEF LoadPhase, IsEnabled, Settled, InSync, Tidy, NoJobFor, JobsOf
<1>6. QED  BY <1>4, <1>5

\* What remains to be shown of a step of h: where h itself stands, and that it
\* keeps to the schedules it touches.
LEMMA StepOfOne ==
    ASSUME TypeOK, TypeOK', HandlerShape, Phases, NEW h \in Handlers,
           \A g \in Handlers \ {h} :
              /\ pc'[g] = pc[g] /\ target'[g] = target[g]
              /\ snapshot'[g] = snapshot[g] /\ oldJob'[g] = oldJob[g]
              /\ todo'[g] = todo[g] /\ (g \in loading' <=> g \in loading)
              /\ InFlight(g) => Touches(g) \cap Touches(h)' = {},
           InFlight(h) => Touches(h)' = Touches(h),
           \A s \in Schedules : s \in Touches(h)' \/ Keeps(s),
           JobPhase(h)', LoadPhase(h)',
           \/ InFlight(h)'
           \/ \A s \in Schedules : s \in Touches(h)' => Settled(s)',
           started' \/ \E g \in loading' : InFlight(g)'
    PROVE  Phases'
<1>1. ASSUME NEW g \in Handlers PROVE JobPhase(g)' /\ LoadPhase(g)'
  <2>1. CASE g = h
    BY <2>1
  <2>2. CASE g # h
    <3>1. \A s \in Schedules : InFlight(g) /\ s \in Touches(g) => Keeps(s)
      BY <2>2
    <3>2. JobPhase(g) /\ LoadPhase(g)
      BY DEF Phases
    <3>3. QED  BY <2>2, <3>1, <3>2, OtherHandler
  <2>3. QED  BY <2>1, <2>2
<1>2. ASSUME NEW s \in Schedules, Quiet(s)' PROVE Settled(s)'
  <2>1. CASE s \in Touches(h)'
    BY <1>2, <2>1 DEF Quiet
  <2>2. CASE s \notin Touches(h)'
    <3>1. \A g \in Handlers \ {h} : InFlight(g) => s \notin Touches(g)
      BY <1>2 DEF Quiet, InFlight, Touches
    <3>2. Quiet(s)
      BY <2>2, <3>1 DEF Quiet
    <3>3. QED  BY <2>2, <3>2, KeptSchedule DEF Phases
  <2>3. QED  BY <2>1, <2>2
<1>3. QED  BY <1>1, <1>2 DEF Phases

\* A step of h leaves its own schedules as its next step expects them, and in
\* the end settled, and keeps to them.
OwnStep(h) ==
    /\ JobPhase(h)' /\ LoadPhase(h)'
    /\ \A s \in Schedules : s \in Touches(h)' \/ Keeps(s)
    /\ \/ InFlight(h)'
       \/ /\ \A s \in Schedules : s \in Touches(h)' => Settled(s)'
          /\ h \in loading => started'

\* add_schedule and remove_schedule: it is enough that h keeps to its target and
\* leaves the target as its next step expects it.
LEMMA SyncStep ==
    ASSUME TypeOK, TypeOK', HandlerShape, NEW h \in Handlers, HandlerStep(h),
           pc[h] \in Syncing, JobPhase(h), LoadPhase(h),
           UNCHANGED <<target, snapshot, todo, loading, started>>,
           \A g \in Handlers \ {h} : oldJob'[g] = oldJob[g],
           \A s \in Schedules \ {target[h]} : Keeps(s),
           JobPhase(h)',
           \/ pc'[h] \in Syncing
           \/ /\ pc'[h] = Done(h) /\ Settled(target[h])'
    PROVE  OwnStep(h)
<1> USE DEF HandlerShape
<1>0. pc[h] \notin {"idle", "over", "list", "clear", "load"} /\ InFlight(h)
      /\ target[h] \in Schedules
  BY DEF Syncing, InFlight, TypeOK
<1>1. JobPhase(h) /\ LoadPhase(h)
  OBVIOUS
<1>2. Touches(h)' = Touches(h) /\ target[h] \in Touches(h)
  BY <1>0, StepTouches DEF Touches
<1>4. \A s \in Schedules : s \in Touches(h)' \/ Keeps(s)
  BY <1>2
<1>5. LoadPhase(h)'
  <2>1. CASE h \notin loading
    BY <1>0, <2>1 DEF LoadPhase, Done, Syncing
  <2>2. CASE h \in loading
    <3>1. IsEnabled(snapshot[h])' /\ pc'[h] \notin {"clear", "list"}
      BY <1>1, <2>2 DEF LoadPhase, Done, IsEnabled, Syncing
    <3>2. ASSUME NEW s \in Schedules \ {target[h]}
          PROVE  IF todo[h][s] = NoRow THEN Settled(s)'
                 ELSE /\ NoJobFor(s)' /\ IsEnabled(todo[h][s])
                      /\ rows'[s] # NoRow => todo[h][s] = rows'[s]
      <4>1. Keeps(s)
        OBVIOUS
      <4>2. IF todo[h][s] = NoRow THEN Settled(s)
            ELSE /\ NoJobFor(s) /\ IsEnabled(todo[h][s])
                 /\ rows[s] # NoRow => todo[h][s] = rows[s]
        BY <1>0, <1>1, <2>2 DEF LoadPhase
      <4>3. QED  BY <4>1, <4>2, KeptSchedule DEF Keeps
    <3>3. todo[h][target[h]] = NoRow
      BY <1>0, <1>1, <2>2 DEF LoadPhase
    <3>4. pc'[h] \in Syncing \/ Settled(target[h])'
      OBVIOUS
    <3>5. ASSUME NEW s \in Schedules
          PROVE  IF pc'[h] # "load" /\ s = target'[h] THEN todo'[h][s] = NoRow
                 ELSE IF todo'[h][s] = NoRow THEN Settled(s)'
                 ELSE /\ NoJobFor(s)' /\ IsEnabled(todo[h][s])'
                      /\ rows'[s] # NoRow => todo'[h][s] = rows'[s]
      <4>1. CASE s # target[h]
        BY <3>2, <4>1 DEF IsEnabled
      <4>2. CASE s = target[h] /\ pc'[h] \in Syncing
        BY <3>3, <4>2 DEF Syncing
      <4>3. CASE s = target[h] /\ Settled(s)'
        BY <3>3, <4>3
      <4>4. QED  BY <3>4, <4>1, <4>2, <4>3
    <3>6. QED  BY <3>1, <3>5 DEF LoadPhase
  <2>3. QED  BY <2>1, <2>2
<1>6. \/ InFlight(h)'
      \/ \A s \in Schedules : s \in Touches(h)' => Settled(s)'
  <2>1. CASE pc'[h] \in Syncing
    BY <2>1 DEF Syncing, InFlight
  <2>2. CASE h \in loading /\ pc'[h] = Done(h)
    BY <2>2 DEF Done, InFlight
  <2>3. CASE h \notin loading /\ Settled(target[h])'
    BY <1>2, <2>3 DEF Touches
  <2>4. QED  BY <2>1, <2>2, <2>3
<1>7. h \in loading => InFlight(h)'
  BY DEF Done, Syncing, InFlight
<1>8. QED  BY <1>4, <1>5, <1>6, <1>7 DEF OwnStep

\* Each step of add_schedule and remove_schedule leaves the target as the next
\* one expects it, and in the end settled.
LEMMA SyncOwnStep ==
    ASSUME TypeOK, TypeOK', HandlerShape, HandlerShape',
           NEW h \in Handlers, JobPhase(h), LoadPhase(h),
           LookUp(h) \/ RemoveOld(h) \/ ForgetOld(h) \/ Install(h) \/ Record(h)
    PROVE  OwnStep(h)
<1> DEFINE t == target[h]
<1>0. /\ pc[h] \in Syncing /\ HandlerStep(h)
      /\ UNCHANGED <<target, snapshot, todo, loading, started, rows>>
      /\ \A g \in Handlers \ {h} : oldJob'[g] = oldJob[g]
  BY DEF LookUp, RemoveOld, ForgetOld, Install, Record, HandlerStep, Syncing,
         tables, memory, locals, TypeOK
<1>1. t \in Schedules /\ JobPhase(h) /\ LoadPhase(h)
  BY <1>0 DEF HandlerShape, TypeOK
<1>2. rows[t] # NoRow => snapshot[h] = rows[t]
  BY <1>0, <1>1 DEF JobPhase
<1>3. h \in loading => IsEnabled(snapshot[h])
  BY <1>0, <1>1 DEF LoadPhase
<1>4. IsEnabled(snapshot[h]) =>
          NewJob(h) \in Jobs /\ NewJob(h).schedule = t /\ NewJob(h) # NoJob
          /\ NewJob(h).version = snapshot[h].version
  BY <1>1, NewJobType DEF IsEnabled, TypeOK, MaybeRow
<1>5. NoJobFor(t)' /\ ~IsEnabled(snapshot[h]) => Settled(t)'
  BY <1>0, <1>2 DEF NoJobFor, Settled, Tidy, InSync, IsEnabled
<1>6. CASE LookUp(h)
  <2>1. Tidy(t)
    BY <1>1, <1>6 DEF JobPhase, LookUp
  <2>2. UNCHANGED <<rows, jobs, jobUuids>>
    BY <1>6 DEF LookUp, tables, memory
  <2>3. \A s \in Schedules \ {t} : Keeps(s)
    BY <2>2 DEF Keeps, JobsOf
  <2>4. CASE jobUuids[t] = NoJob
    <3>1. NoJobFor(t)'
      BY <2>1, <2>2, <2>4, <1>0 DEF Tidy, NoJobFor, JobsOf
    <3>2. pc'[h] = AfterRemoval(h)
      BY <1>6, <2>4 DEF LookUp, Goto, TypeOK
    <3>3. CASE IsEnabled(snapshot[h])
      <4>1. pc'[h] = "install"
        BY <3>2, <3>3 DEF AfterRemoval
      <4>2. JobPhase(h)'
        BY <4>1, <3>1, <1>0, <1>2 DEF JobPhase, NoJobFor, JobsOf, Syncing
      <4>3. QED  BY <4>1, <4>2, <2>3, <1>0, SyncStep DEF Syncing
    <3>4. CASE ~IsEnabled(snapshot[h])
      <4>1. pc'[h] = Done(h) /\ pc'[h] = "over"
        BY <3>2, <3>4, <1>3 DEF AfterRemoval, Done
      <4>2. JobPhase(h)'
        BY <4>1 DEF JobPhase, Syncing
      <4>3. QED  BY <4>1, <4>2, <3>1, <3>4, <2>3, <1>0, <1>5, SyncStep
    <3>5. QED  BY <3>3, <3>4
  <2>5. CASE jobUuids[t] # NoJob
    <3>1. pc'[h] = "remove" /\ oldJob'[h] = jobUuids[t]
      BY <1>6, <2>5 DEF LookUp, Goto, TypeOK
    <3>2. JobPhase(h)'
      BY <3>1, <2>1, <2>2, <2>5, <1>0, <1>2
         DEF JobPhase, Tidy, JobsOf, Syncing
    <3>3. QED  BY <3>1, <3>2, <2>3, <1>0, SyncStep DEF Syncing
  <2>6. QED  BY <2>4, <2>5
<1>7. CASE RemoveOld(h)
  <2>1. /\ oldJob[h] = jobUuids[t] /\ JobsOf(t) = {oldJob[h]}
        /\ oldJob[h].schedule = t
    BY <1>1, <1>7 DEF JobPhase, RemoveOld, JobsOf
  <2>2. /\ pc'[h] = "forget" /\ jobs' = jobs \ {oldJob[h]}
        /\ jobUuids' = jobUuids
    BY <1>7 DEF RemoveOld, Goto, TypeOK
  <2>3. \A s \in Schedules \ {t} : Keeps(s)
    BY <2>1, <2>2, <1>0 DEF Keeps, JobsOf
  <2>4. JobPhase(h)'
    BY <2>1, <2>2, <1>0, <1>2 DEF JobPhase, JobsOf, Syncing
  <2>5. QED  BY <2>2, <2>3, <2>4, <1>0, SyncStep DEF Syncing
<1>8. CASE ForgetOld(h)
  <2>1. JobsOf(t) = {}
    BY <1>1, <1>8 DEF JobPhase, ForgetOld
  <2>2. /\ pc'[h] = AfterRemoval(h) /\ jobs' = jobs
        /\ jobUuids' = [jobUuids EXCEPT ![t] = NoJob]
    BY <1>8 DEF ForgetOld, Goto, TypeOK
  <2>3. \A s \in Schedules \ {t} : Keeps(s)
    BY <2>2, <1>0 DEF Keeps, JobsOf, TypeOK
  <2>4. NoJobFor(t)'
    BY <2>1, <2>2, <1>0, <1>1 DEF NoJobFor, JobsOf, TypeOK
  <2>5. CASE IsEnabled(snapshot[h])
    <3>1. pc'[h] = "install"
      BY <2>2, <2>5 DEF AfterRemoval
    <3>2. JobPhase(h)'
      BY <3>1, <2>4, <1>0, <1>2 DEF JobPhase, NoJobFor, JobsOf, Syncing
    <3>3. QED  BY <3>1, <3>2, <2>3, <1>0, SyncStep DEF Syncing
  <2>6. CASE ~IsEnabled(snapshot[h])
    <3>1. pc'[h] = Done(h) /\ pc'[h] = "over"
      BY <2>2, <2>6, <1>3 DEF AfterRemoval, Done
    <3>2. JobPhase(h)'
      BY <3>1 DEF JobPhase, Syncing
    <3>3. QED  BY <3>1, <3>2, <2>3, <2>4, <2>6, <1>0, <1>5, SyncStep
  <2>7. QED  BY <2>5, <2>6
<1>9. CASE Install(h)
  <2>1. NoJobFor(t) /\ IsEnabled(snapshot[h])
    BY <1>1, <1>9 DEF JobPhase, Install, HandlerShape
  <2>2. jobUuids' = jobUuids
    BY <1>9 DEF Install
  <2>3. CASE Installs(snapshot[h].version)
    <3>1. pc'[h] = "record" /\ jobs' = jobs \cup {NewJob(h)}
      BY <1>9, <2>3 DEF Install, Goto, TypeOK
    <3>2. \A s \in Schedules \ {t} : Keeps(s)
      BY <3>1, <2>1, <2>2, <1>0, <1>4 DEF Keeps, JobsOf
    <3>3. NewJob(h)' = NewJob(h)
      BY <1>0 DEF NewJob
    <3>4. JobsOf(t)' = {NewJob(h)}
      BY <3>1, <2>1, <1>0, <1>4 DEF JobsOf, NoJobFor
    <3>5. JobPhase(h)'
      BY <3>1, <3>3, <3>4, <2>1, <2>2, <1>0, <1>2
         DEF JobPhase, NoJobFor, JobsOf, Syncing
    <3>6. QED  BY <3>1, <3>2, <3>5, <1>0, SyncStep DEF Syncing
  <2>4. CASE ~Installs(snapshot[h].version)
    <3>1. pc'[h] = Done(h) /\ jobs' = jobs
      BY <1>9, <2>4 DEF Install, Goto, TypeOK
    <3>2. \A s \in Schedules \ {t} : Keeps(s)
      BY <3>1, <2>2, <1>0 DEF Keeps, JobsOf
    <3>3. Settled(t)'
      BY <3>1, <2>1, <2>2, <2>4, <1>0, <1>2
         DEF NoJobFor, Settled, Tidy, InSync, JobsOf, Installs
    <3>4. JobPhase(h)'
      BY <3>1 DEF JobPhase, Done, Syncing
    <3>5. QED  BY <3>1, <3>2, <3>3, <3>4, <1>0, SyncStep
  <2>5. QED  BY <2>3, <2>4
<1>10. CASE Record(h)
  <2>1. /\ JobsOf(t) = {NewJob(h)} /\ IsEnabled(snapshot[h])
        /\ Installs(snapshot[h].version)
    BY <1>1, <1>10 DEF JobPhase, Record, HandlerShape
  <2>2. /\ pc'[h] = Done(h) /\ jobs' = jobs
        /\ jobUuids' = [jobUuids EXCEPT ![t] = NewJob(h)]
    BY <1>10 DEF Record, Goto, TypeOK
  <2>3. \A s \in Schedules \ {t} : Keeps(s)
    BY <2>2, <1>0 DEF Keeps, JobsOf, TypeOK
  <2>4. jobUuids'[t] = NewJob(h) /\ JobsOf(t)' = {NewJob(h)}
    BY <2>1, <2>2, <1>0, <1>1 DEF JobsOf, TypeOK
  <2>5. Settled(t)'
    <3>1. NewJob(h) # NoJob /\ NewJob(h).version = snapshot[h].version
      BY <2>1, <1>4
    <3>2. rows'[t] # NoRow => rows'[t] = snapshot[h]
      BY <1>0, <1>2
    <3>3. QED  BY <3>1, <3>2, <2>1, <2>4, <1>0
               DEF Settled, Tidy, InSync, JobsOf, Installs, IsEnabled
  <2>6. JobPhase(h)'
    BY <2>2 DEF JobPhase, Done, Syncing
  <2>7. QED  BY <2>2, <2>3, <2>5, <2>6, <1>0, SyncStep
<1>11. QED  BY <1>6, <1>7, <1>8, <1>9, <1>10

\* The other steps of a handler: it reads or writes the row of its target, or
\* goes through the list of start.
LEMMA HandlerOwnStep ==
    ASSUME TypeOK, TypeOK', HandlerShape, HandlerShape', NEW h \in Handlers,
           HandlerStep(h), JobPhase(h), LoadPhase(h)
    PROVE  OwnStep(h)
<1> DEFINE t == target[h]
<1>1. JobPhase(h) /\ LoadPhase(h)
  OBVIOUS
<1>2. Touches(h)' = Touches(h) /\ InFlight(h)
  BY StepTouches
<1>5. h \notin loading => \A s \in Schedules : s \in Touches(h)' <=> s = t
  BY <1>2 DEF Touches
<1>6. CASE ToggleWrite(h)
  <2>1. /\ pc[h] = "toggle" /\ pc'[h] = "read" /\ h \notin loading
        /\ t \in Schedules /\ UNCHANGED <<memory, locals>>
    BY <1>6 DEF ToggleWrite, Goto, HandlerShape, TypeOK
  <2>2. \A s \in Schedules \ {t} : Keeps(s)
    BY <1>6, <2>1 DEF ToggleWrite, Keeps, JobsOf, memory, TypeOK
  <2>3. Tidy(t)'
    BY <1>1, <2>1 DEF JobPhase, Settled, Tidy, JobsOf, memory, locals
  <2>4. JobPhase(h)' /\ LoadPhase(h)'
    BY <2>1, <2>3 DEF JobPhase, LoadPhase, Syncing, Tidy, JobsOf, locals
  <2>5. \A s \in Schedules : s \in Touches(h)' \/ Keeps(s)
    BY <1>5, <2>1, <2>2
  <2>6. InFlight(h)'
    BY <2>1 DEF InFlight
  <2>7. QED  BY <2>4, <2>5, <2>6 DEF OwnStep
<1>7. CASE ReadBack(h)
  <2>1. /\ pc[h] = "read" /\ h \notin loading
        /\ t \in Schedules /\ UNCHANGED <<tables, memory, target, oldJob, loading, todo>>
        /\ snapshot' = [snapshot EXCEPT ![h] = rows[t]]
        /\ pc'[h] = IF rows[t] = NoRow THEN "over" ELSE "lookup"
    BY <1>7 DEF ReadBack, Goto, HandlerShape, TypeOK
  <2>2. \A s \in Schedules : Keeps(s)
    BY <2>1 DEF Keeps, JobsOf, memory, tables
  <2>3. Tidy(t)'
    BY <1>1, <2>1 DEF JobPhase, Tidy, JobsOf, memory
  <2>4. JobPhase(h)' /\ LoadPhase(h)'
    BY <2>1, <2>3 DEF JobPhase, LoadPhase, Syncing, Tidy, JobsOf, tables, TypeOK
  <2>5. CASE rows[t] = NoRow
    <3>1. Settled(t)'
      BY <2>1, <2>3, <2>5 DEF Settled, InSync, Tidy, JobsOf, tables
    <3>2. \A s \in Schedules : s \in Touches(h)' => Settled(s)'
      BY <1>5, <2>1, <3>1
    <3>3. QED  BY <2>1, <2>2, <2>4, <3>2 DEF OwnStep
  <2>6. CASE rows[t] # NoRow
    <3>1. InFlight(h)'
      BY <2>1, <2>6 DEF InFlight
    <3>2. QED  BY <2>2, <2>4, <3>1 DEF OwnStep
  <2>7. QED  BY <2>5, <2>6
<1>8. CASE ClearUuids(h)
  <2>1. /\ pc[h] = "clear" /\ h \in loading /\ pc'[h] = "list" /\ jobs' = {}
        /\ jobUuids' = [s \in Schedules |-> NoJob]
        /\ UNCHANGED <<tables, started, locals>>
    BY <1>1, <1>8 DEF ClearUuids, Goto, HandlerShape, TypeOK, LoadPhase
  <2>2. \A s \in Schedules : NoJobFor(s)'
    BY <2>1 DEF NoJobFor, JobsOf
  <2>3. JobPhase(h)' /\ LoadPhase(h)'
    BY <2>1, <2>2 DEF JobPhase, LoadPhase, Syncing, NoJobFor, JobsOf
  <2>4. InFlight(h)' /\ \A s \in Schedules : s \in Touches(h)'
    BY <1>2, <2>1 DEF InFlight, Touches
  <2>5. QED  BY <2>3, <2>4 DEF OwnStep
<1>9. CASE ListEnabled(h)
  <2>1. /\ pc[h] = "list" /\ h \in loading /\ pc'[h] = "load"
        /\ todo' = [todo EXCEPT ![h] =
              [s \in Schedules |-> IF IsEnabled(rows[s]) THEN rows[s] ELSE NoRow]]
        /\ UNCHANGED <<tables, memory, target, snapshot, oldJob, loading>>
    BY <1>9 DEF ListEnabled, Goto, HandlerShape, TypeOK
  <2>2. \A s \in Schedules : NoJobFor(s)'
    BY <1>1, <2>1 DEF LoadPhase, NoJobFor, JobsOf, memory
  <2>3. ASSUME NEW s \in Schedules
        PROVE  IF todo'[h][s] = NoRow THEN Settled(s)'
               ELSE /\ NoJobFor(s)' /\ IsEnabled(todo'[h][s])
                    /\ rows'[s] # NoRow => todo'[h][s] = rows'[s]
    <3>1. todo'[h][s] = IF IsEnabled(rows[s]) THEN rows[s] ELSE NoRow
      BY <2>1 DEF TypeOK
    <3>2. CASE IsEnabled(rows[s])
      BY <2>1, <2>2, <3>1, <3>2 DEF IsEnabled, tables
    <3>3. CASE ~IsEnabled(rows[s])
      <4>1. Settled(s)'
        BY <2>1, <2>2, <3>3
           DEF Settled, Tidy, InSync, NoJobFor, IsEnabled, tables
      <4>2. QED  BY <3>1, <3>3, <4>1
    <3>4. QED  BY <3>2, <3>3
  <2>4. JobPhase(h)'
    BY <2>1 DEF JobPhase, Syncing
  <2>5. LoadPhase(h)'
    BY <2>1, <2>3 DEF LoadPhase, Syncing, IsEnabled
  <2>6. InFlight(h)' /\ \A s \in Schedules : s \in Touches(h)'
    BY <1>2, <2>1 DEF InFlight, Touches
  <2>7. QED  BY <2>4, <2>5, <2>6 DEF OwnStep
<1>10. CASE StartScheduler(h)
  <2>1. /\ pc[h] = "load" /\ h \in loading /\ pc'[h] = "over" /\ started'
        /\ \A s \in Schedules : todo[h][s] = NoRow
        /\ UNCHANGED <<tables, jobs, jobUuids, locals>>
    BY <1>10 DEF StartScheduler, Goto, HandlerShape, TypeOK
  <2>2. \A s \in Schedules : Keeps(s)
    BY <2>1 DEF Keeps, JobsOf, tables
  <2>3. \A s \in Schedules : Settled(s)'
    BY <1>1, <2>1, <2>2, KeptSchedule DEF LoadPhase
  <2>4. JobPhase(h)' /\ LoadPhase(h)'
    BY <2>1 DEF JobPhase, LoadPhase, Syncing
  <2>5. QED  BY <2>1, <2>2, <2>3, <2>4 DEF OwnStep
<1>11. ASSUME NEW s \in Schedules, LoadNext(h, s) PROVE OwnStep(h)
  <2>1. /\ pc[h] = "load" /\ h \in loading /\ pc'[h] = "lookup"
        /\ todo[h][s] # NoRow /\ target'[h] = s /\ snapshot'[h] = todo[h][s]
        /\ todo'[h] = [todo[h] EXCEPT ![s] = NoRow]
        /\ UNCHANGED <<tables, memory, oldJob, loading>>
    BY <1>11 DEF LoadNext, Goto, HandlerShape, TypeOK
  <2>2. \A r \in Schedules : Keeps(r)
    BY <2>1 DEF Keeps, JobsOf, memory, tables
  <2>3. /\ NoJobFor(s) /\ IsEnabled(todo[h][s])
        /\ rows[s] # NoRow => todo[h][s] = rows[s]
    BY <1>1, <2>1 DEF LoadPhase
  <2>4. Tidy(s)'
    BY <2>1, <2>3 DEF Tidy, NoJobFor, JobsOf, memory
  <2>5. JobPhase(h)'
    BY <2>1, <2>3, <2>4 DEF JobPhase, Syncing, Tidy, JobsOf, tables
  <2>6. ASSUME NEW r \in Schedules
        PROVE  IF r = s THEN todo'[h][r] = NoRow
               ELSE IF todo'[h][r] = NoRow THEN Settled(r)'
               ELSE /\ NoJobFor(r)' /\ IsEnabled(todo'[h][r])
                    /\ rows'[r] # NoRow => todo'[h][r] = rows'[r]
    <3>1. CASE r = s
      BY <2>1, <3>1 DEF TypeOK
    <3>2. CASE r # s
      <4>1. todo'[h][r] = todo[h][r] /\ rows' = rows
        BY <2>1, <3>2 DEF TypeOK, tables
      <4>2. IF todo[h][r] = NoRow THEN Settled(r)
            ELSE /\ NoJobFor(r) /\ IsEnabled(todo[h][r])
                 /\ rows[r] # NoRow => todo[h][r] = rows[r]
        BY <1>1, <2>1 DEF LoadPhase
      <4>3. QED  BY <2>2, <3>2, <4>1, <4>2, KeptSchedule
    <3>3. QED  BY <3>1, <3>2
  <2>7. LoadPhase(h)'
    BY <2>1, <2>3, <2>6 DEF LoadPhase, Syncing, IsEnabled
  <2>8. InFlight(h)'
    BY <2>1 DEF InFlight
  <2>9. QED  BY <2>2, <2>5, <2>7, <2>8 DEF OwnStep
<1>12. QED  BY <1>6, <1>7, <1>8, <1>9, <1>10, <1>11, SyncOwnStep DEF HandlerStep

\* So every step of a handler that shares no schedule with another keeps the
\* phases.
LEMMA HandlerPhases ==
    ASSUME TypeOK, TypeOK', HandlerShape, HandlerShape', Exclusive, Phases,
           Serialized, NEW h \in Handlers, HandlerStep(h)
    PROVE  Phases'
<1>1. OwnStep(h)
  BY HandlerOwnStep DEF Phases
<1>2. /\ \A g \in Handlers \ {h} :
            /\ pc'[g] = pc[g] /\ target'[g] = target[g]
            /\ g \in loading' <=> g \in loading
            /\ InFlight(g) => Touches(g) \cap Touches(h)' = {}
      /\ Touches(h)' = Touches(h) /\ loading' = loading
  BY StepTouches DEF Exclusive
<1>3. /\ \A g \in Handlers \ {h} :
            /\ snapshot'[g] = snapshot[g] /\ oldJob'[g] = oldJob[g]
            /\ todo'[g] = todo[g]
      /\ started => started'
  BY DEF HandlerStep, ToggleWrite, ReadBack, LookUp, RemoveOld, ForgetOld,
         Install, Record, ClearUuids, ListEnabled, StartScheduler, LoadNext,
         memory, locals, TypeOK
<1>4. started' \/ \E g \in loading' : InFlight(g)'
  <2>1. \A g \in loading \ {h} : InFlight(g) => InFlight(g)'
    BY <1>2 DEF InFlight, TypeOK
  <2>2. h \in loading => InFlight(h)' \/ started'
    BY <1>1 DEF OwnStep
  <2>3. QED  BY <1>2, <1>3, <2>1, <2>2 DEF Phases
<1>5. QED  BY <1>1, <1>2, <1>3, <1>4, StepOfOne DEF OwnStep

\* A request finds its schedule settled, since nobody is at work on it.
LEMMA BeginPhases ==
    ASSUME TypeOK, TypeOK', HandlerShape, Phases, Serialized,
           NEW h \in Handlers, NEW s \in Schedules, Request(h),
           NEW l \in {"read", "lookup", "toggle"}, Begin(h, l, s),
           \A r \in Schedules \ {s} : rows'[r] = rows[r],
           \A g \in Handlers \ {h} : snapshot'[g] = snapshot[g],
           l = "lookup" => rows'[s] = NoRow,
           l = "toggle" => rows'[s] = rows[s]
    PROVE  Phases'
<1>1. /\ pc[h] = "idle" /\ pc'[h] = l /\ h \notin loading /\ target'[h] = s
      /\ UNCHANGED <<memory, oldJob, loading, todo, faults>>
  BY DEF Begin, MayRequest, Goto, HandlerShape, TypeOK
<1>2. Settled(s)
  <2>1. Quiet(s)
    BY DEF Quiet, Begin, MayRequest
  <2>2. QED  BY <2>1 DEF Phases
<1>3. \A r \in Schedules : r \in Touches(h)' \/ Keeps(r)
  BY <1>1 DEF Touches, Keeps, JobsOf, memory
<1>4. JobPhase(h)' /\ LoadPhase(h)'
  BY <1>1, <1>2
     DEF JobPhase, LoadPhase, Syncing, Settled, Tidy, InSync, JobsOf, memory
<1>5. /\ \A g \in Handlers \ {h} :
            /\ pc'[g] = pc[g] /\ target'[g] = target[g]
            /\ g \in loading' <=> g \in loading
            /\ InFlight(g) => Touches(g) \cap Touches(h)' = {}
  BY RequestTouches
<1>6. ~InFlight(h) /\ InFlight(h)'
  BY <1>1 DEF InFlight
<1>7. started' \/ \E g \in loading' : InFlight(g)'
  <2>1. \A g \in loading : InFlight(g) => InFlight(g)'
    BY <1>1, <1>5 DEF InFlight, TypeOK
  <2>2. QED  BY <1>1, <2>1 DEF Phases, memory
<1>8. QED  BY <1>1, <1>3, <1>4, <1>5, <1>6, <1>7, StepOfOne

\* Requests begin with the schedules they touch settled; a reload, with nobody
\* else at work.
LEMMA RequestPhases ==
    ASSUME TypeOK, TypeOK', HandlerShape, Phases, Serialized,
           NEW h \in Handlers, Request(h)
    PROVE  Phases'
<1>1. ASSUME NEW s \in Schedules, NEW v \in Versions, CreateSchedule(h, s, v)
      PROVE  Phases'
  <2>1. /\ Begin(h, "read", s) /\ snapshot' = snapshot
        /\ \A r \in Schedules \ {s} : rows'[r] = rows[r]
    BY <1>1 DEF CreateSchedule, TypeOK
  <2>2. QED  BY <2>1, BeginPhases
<1>2. ASSUME NEW s \in Schedules, NEW v \in Versions, UpdateSchedule(h, s, v)
      PROVE  Phases'
  <2>1. /\ Begin(h, "read", s) /\ snapshot' = snapshot
        /\ \A r \in Schedules \ {s} : rows'[r] = rows[r]
    BY <1>2 DEF UpdateSchedule, TypeOK
  <2>2. QED  BY <2>1, BeginPhases
<1>3. ASSUME NEW s \in Schedules, DeleteSchedule(h, s) PROVE Phases'
  <2>1. /\ Begin(h, "lookup", s) /\ snapshot' = snapshot /\ rows'[s] = NoRow
        /\ \A r \in Schedules \ {s} : rows'[r] = rows[r]
    BY <1>3 DEF DeleteSchedule, TypeOK
  <2>2. QED  BY <2>1, BeginPhases
<1>4. ASSUME NEW s \in Schedules, ToggleSchedule(h, s) PROVE Phases'
  <2>1. /\ Begin(h, "toggle", s) /\ rows' = rows
        /\ \A g \in Handlers \ {h} : snapshot'[g] = snapshot[g]
    BY <1>4 DEF ToggleSchedule, tables, TypeOK
  <2>2. QED  BY <2>1, BeginPhases
<1>5. CASE Reload(h)
  <2>1. /\ pc[h] = "idle" /\ pc'[h] = "clear" /\ loading' = loading \cup {h}
        /\ jobs' = {} /\ UNCHANGED <<target, snapshot, oldJob, todo>>
    BY <1>5 DEF Reload, MayRequest, Goto, TypeOK
  <2>2. \A s \in Schedules : s \in Touches(h)'
    BY <2>1 DEF Touches
  <2>3. JobPhase(h)' /\ LoadPhase(h)'
    BY <2>1 DEF JobPhase, LoadPhase, Syncing
  <2>4. ~InFlight(h) /\ InFlight(h)' /\ h \in loading'
    BY <2>1 DEF InFlight
  <2>5. \A g \in Handlers \ {h} :
           /\ pc'[g] = pc[g] /\ target'[g] = target[g]
           /\ g \in loading' <=> g \in loading
           /\ InFlight(g) => Touches(g) \cap Touches(h)' = {}
    BY RequestTouches
  <2>6. QED  BY <2>1, <2>2, <2>3, <2>4, <2>5, StepOfOne
<1>6. QED  BY <1>1, <1>2, <1>3, <1>4, <1>5 DEF Request

\* A channel that is deleted takes rows away, and disturbs nobody.
LEMMA BystanderPhases ==
    ASSUME TypeOK, TypeOK', HandlerShape, Phases, UNCHANGED <<memory, pc, locals>>,
           \A s \in Schedules : rows'[s] \in {rows[s], NoRow}
    PROVE  Phases'
<1>1. \A s \in Schedules : Keeps(s)
  BY DEF Keeps, JobsOf, memory
<1>2. ASSUME NEW g \in Handlers PROVE JobPhase(g)' /\ LoadPhase(g)'
  BY <1>1, OtherHandler DEF Phases, locals
<1>3. ASSUME NEW s \in Schedules, Quiet(s)' PROVE Settled(s)'
  <2>1. Quiet(s)
    BY <1>3 DEF Quiet, InFlight, Touches, locals
  <2>2. QED  BY <1>1, <2>1, KeptSchedule DEF Phases
<1>4. started' \/ \E g \in loading' : InFlight(g)'
  BY DEF Phases, InFlight, memory, locals
<1>5. QED  BY <1>2, <1>3, <1>4 DEF Phases

\* Every step keeps the phases, as long as no request is dropped.
LEMMA PhasesStep ==
    ASSUME SchedulerInv, TypeOK', HandlerShape', [Next]_vars
    PROVE  Serialized /\ faults' = 0 => Phases'
<1> SUFFICES ASSUME Serialized, faults' = 0 PROVE Phases'
  OBVIOUS
<1> USE DEF SchedulerInv
<1>1. ASSUME NEW h \in Handlers, Request(h) PROVE Phases'
  <2>1. faults = 0
    BY <1>1, RequestTouches
  <2>2. QED  BY <1>1, <2>1, RequestPhases
<1>2. ASSUME NEW h \in Handlers, HandlerStep(h) PROVE Phases'
  <2>1. faults = 0
    BY <1>2 DEF HandlerStep, ToggleWrite, ReadBack, LookUp, RemoveOld, ForgetOld,
                Install, Record, ClearUuids, ListEnabled, StartScheduler, LoadNext
  <2>2. QED  BY <1>2, <2>1, HandlerPhases
<1>3. ASSUME NEW h \in Handlers, DropHandler(h) \/ ListFails(h) PROVE Phases'
  BY <1>3 DEF DropHandler, ListFails, Fault, TypeOK
<1>4. ASSUME NEW S \in SUBSET Schedules, DropChannel(S) PROVE Phases'
  <2>1. faults = 0 /\ UNCHANGED <<memory, pc, locals>>
        /\ \A s \in Schedules : rows'[s] \in {rows[s], NoRow}
    BY <1>4 DEF DropChannel
  <2>2. QED  BY <2>1, BystanderPhases
<1>5. CASE UNCHANGED vars
  <2>1. faults = 0 /\ UNCHANGED <<memory, pc, locals, rows>>
    BY <1>5 DEF vars, tables
  <2>2. QED  BY <2>1, BystanderPhases
<1>6. QED  BY <1>1, <1>2, <1>3, <1>4, <1>5 DEF Next

-----------------------------------------------------------------------------
\* SchedulerInv is inductive.  It holds of every run: the types, what a handler
\* knows of its target, and, if clients send one request per schedule at a time
\* and none is dropped, where each handler stands with the job of its schedule.
THEOREM SchedulerInvariant == Spec => []SchedulerInv
<1>1. Init => SchedulerInv
  <2>1. ASSUME Init PROVE Phases
    BY <2>1 DEF Init, Phases, JobPhase, LoadPhase, Syncing, Quiet, InFlight,
                Touches, NoJobFor, JobsOf
  <2>2. QED  BY <2>1, InitTypeOK, InitShape DEF SchedulerInv
<1>2. SchedulerInv /\ [Next]_vars => SchedulerInv'
  <2> SUFFICES ASSUME SchedulerInv, [Next]_vars PROVE SchedulerInv'
    OBVIOUS
  <2>1. TypeOK' /\ HandlerShape' /\ Exclusive'
    BY TypeOKStep, HandlerShapeStep, ExclusiveStep DEF SchedulerInv
  <2>2. QED  BY <2>1, PhasesStep DEF SchedulerInv
<1>3. QED  BY <1>1, <1>2, PTL DEF Spec

\* Handlers of different schedules never disturb each other: a schedule that
\* nobody works on has exactly the job its row asks for (sync_schedule).
THEOREM SerializedInSyncHolds == Spec => []SerializedInSync
<1>1. SchedulerInv => SerializedInSync
  <2> SUFFICES ASSUME SchedulerInv, Serialized, faults = 0,
                      NEW s \in Schedules, Quiet(s)
               PROVE  InSync(s) /\ started
    BY DEF SerializedInSync
  <2>1. InSync(s)
    BY DEF SchedulerInv, Phases, Settled
  <2>2. \A h \in loading : ~InFlight(h)
    BY DEF Quiet, Touches, SchedulerInv, TypeOK
  <2>3. QED  BY <2>1, <2>2 DEF SchedulerInv, Phases
<1>2. QED  BY <1>1, SchedulerInvariant, PTL

-----------------------------------------------------------------------------
(* A reload that has the scheduler to itself.  Nothing is known of the     *)
(* jobs when it begins: other handlers may have interfered before.         *)

\* Where a start stands with the jobs, if no other handler is at work.
LoneInv ==
    faults = 0 =>
        \A h \in loading : InFlight(h) => JobPhase(h) /\ LoadPhase(h)

\* Every step of the run keeps it, as long as starts are alone.
LEMMA LoneInvStep ==
    ASSUME TypeOK, TypeOK', HandlerShape, HandlerShape', ReloadAlone,
           ReloadAlone', LoneInv, [Next]_vars
    PROVE  LoneInv'
<1> SUFFICES ASSUME faults' = 0, NEW h \in Handlers, (h \in loading)',
                    InFlight(h)'
             PROVE  JobPhase(h)' /\ LoadPhase(h)'
  BY DEF LoneInv, TypeOK
<1>1. ASSUME NEW g \in Handlers, Request(g) PROVE JobPhase(h)' /\ LoadPhase(h)'
  <2>1. pc[g] = "idle" /\ InFlight(g)'
    BY <1>1 DEF Request, CreateSchedule, UpdateSchedule, DeleteSchedule,
                ToggleSchedule, Reload, Begin, MayRequest, Goto, InFlight, TypeOK
  <2>2. g = h
    BY <2>1 DEF ReloadAlone
  <2>3. Reload(h)
    BY <1>1, <2>1, <2>2 DEF Request, CreateSchedule, UpdateSchedule,
       DeleteSchedule, ToggleSchedule, Begin, HandlerShape
  <2>4. pc'[h] = "clear" /\ jobs' = {}
    BY <2>3 DEF Reload, Goto, TypeOK
  <2>5. QED  BY <2>4 DEF JobPhase, LoadPhase, Syncing
<1>2. ASSUME NEW g \in Handlers, HandlerStep(g)
      PROVE  JobPhase(h)' /\ LoadPhase(h)'
  <2>1. InFlight(g) /\ InFlight(h) /\ h \in loading
    BY <1>2, StepTouches
  <2>2. g = h /\ faults = 0
    <3>1. faults' = faults
      BY <1>2 DEF HandlerStep, ToggleWrite, ReadBack, LookUp, RemoveOld,
         ForgetOld, Install, Record, ClearUuids, ListEnabled, StartScheduler,
         LoadNext
    <3>2. QED  BY <2>1, <3>1 DEF ReloadAlone
  <2>3. JobPhase(h) /\ LoadPhase(h)
    BY <2>1, <2>2 DEF LoneInv
  <2>4. QED  BY <1>2, <2>2, <2>3, HandlerOwnStep DEF OwnStep
<1>3. ASSUME NEW g \in Handlers, DropHandler(g) \/ ListFails(g) PROVE FALSE
  BY <1>3 DEF DropHandler, ListFails, Fault, TypeOK
<1>4. ASSUME UNCHANGED <<memory, pc, locals, faults>>,
             \A s \in Schedules : rows'[s] \in {rows[s], NoRow}
      PROVE  JobPhase(h)' /\ LoadPhase(h)'
  <2>1. JobPhase(h) /\ LoadPhase(h)
    BY <1>4 DEF LoneInv, InFlight, locals
  <2>2. \A s \in Schedules : Keeps(s)
    BY <1>4 DEF Keeps, JobsOf, memory
  <2>3. QED  BY <1>4, <2>1, <2>2, OtherHandler DEF locals
<1>5. ASSUME NEW S \in SUBSET Schedules, DropChannel(S)
      PROVE  JobPhase(h)' /\ LoadPhase(h)'
  BY <1>4, <1>5 DEF DropChannel
<1>6. CASE UNCHANGED vars
  BY <1>4, <1>6 DEF vars, tables
<1>7. QED  BY <1>1, <1>2, <1>3, <1>5, <1>6 DEF Next

\* A start that ends leaves every schedule with its job.
LEMMA StartHeals ==
    ASSUME TypeOK, TypeOK', HandlerShape, HandlerShape', LoneInv, [Next]_vars,
           NEW h \in Handlers, pc[h] = "load", pc'[h] = "over", faults' = 0,
           NEW s \in Schedules
    PROVE  InSync(s)'
<1>1. h \in loading /\ InFlight(h) /\ ~InFlight(h)'
  BY DEF HandlerShape, InFlight
<1>2. HandlerStep(h)
  <2>1. ASSUME NEW g \in Handlers, Request(g) PROVE pc'[h] = pc[h]
    BY <2>1, RequestTouches
  <2>2. ASSUME NEW g \in Handlers \ {h}, HandlerStep(g) PROVE pc'[h] = pc[h]
    BY <2>2, StepTouches
  <2>3. ASSUME NEW g \in Handlers, DropHandler(g) \/ ListFails(g) PROVE FALSE
    BY <2>3 DEF DropHandler, ListFails, Fault, TypeOK
  <2>4. ASSUME NEW S \in SUBSET Schedules, DropChannel(S) PROVE pc'[h] = pc[h]
    BY <2>4 DEF DropChannel
  <2>5. UNCHANGED vars => pc'[h] = pc[h]
    BY DEF vars
  <2>6. QED  BY <2>1, <2>2, <2>3, <2>4, <2>5 DEF Next
<1>3. faults = 0
  BY <1>2 DEF HandlerStep, ToggleWrite, ReadBack, LookUp, RemoveOld, ForgetOld,
     Install, Record, ClearUuids, ListEnabled, StartScheduler, LoadNext
<1>4. OwnStep(h)
  BY <1>1, <1>2, <1>3, HandlerOwnStep DEF LoneInv
<1>5. s \in Touches(h)'
  BY <1>1, <1>2, StepTouches DEF Touches
<1>6. QED  BY <1>1, <1>4, <1>5 DEF OwnStep, Settled

\* Whatever concurrent handlers have left behind, a reload that no other handler
\* overlaps gives every schedule exactly its job (SchedulerManager::reload).
THEOREM ReloadHealsAlone == Spec /\ []ReloadAlone => ReloadHeals
<1> DEFINE Shape == TypeOK /\ HandlerShape
<1>1. Init => LoneInv
  BY DEF Init, LoneInv, JobPhase, LoadPhase, Syncing, NoJobFor, JobsOf
<1>2. Spec => []Shape
  BY SchedulerInvariant, PTL DEF SchedulerInv
<1>3. Shape /\ Shape' /\ ReloadAlone /\ ReloadAlone' /\ LoneInv /\ [Next]_vars
          => LoneInv'
  BY LoneInvStep
<1>4. Shape /\ Shape' /\ LoneInv /\ [Next]_vars
          => [\A h \in Handlers \ {Boot} :
                 pc[h] = "load" /\ pc'[h] = "over" /\ faults' = 0
                     => \A s \in Schedules : InSync(s)']_vars
  BY StartHeals
<1>5. QED  BY <1>1, <1>2, <1>3, <1>4, PTL DEF Spec, ReloadHeals

=============================================================================
