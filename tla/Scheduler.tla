------------------------------ MODULE Scheduler ------------------------------
(***************************************************************************)
(* The cron scheduler: rows of the schedules table, the jobs of the        *)
(* in-memory JobScheduler, and SchedulerManager.job_uuids, which names the *)
(* job of each schedule.  Request handlers write a row, read it back and   *)
(* then bring the job in line with what they read, in several steps and    *)
(* without a lock over them.                                               *)
(*                                                                         *)
(* One step is what runs between two await points of one handler.  A       *)
(* handler is one request; Boot is the call of start by main.  Rows are    *)
(* arbitrary at first: they are what an earlier run left.                  *)
(***************************************************************************)
EXTENDS Naturals, FiniteSets

CONSTANTS
    Schedules,      \* uuids of schedules, existing or to be created
    Versions,       \* contents of a schedule: channel, cron expression, ...
    Expression,     \* what kind of cron expression a version holds
    Handlers, Boot, \* requests, and the start at boot among them
    NoRow, NoJob,   \* no row with an id, no uuid under an id
    NoTarget,       \* the target of a handler that has not begun
    Serialized,     \* do clients send one request per schedule at a time
    MaxFaults       \* BOUND: dropped requests and failed queries per run

\* five or six fields; a keyword (hourly); a keyword and a time (daily 19:00)
ExpressionKinds == {"fields", "keyword", "keywordAndTime", "invalid"}

Rows      == [version : Versions, enabled : BOOLEAN]
Jobs      == [schedule : Schedules, version : Versions, by : Handlers]
MaybeRow  == Rows \cup {NoRow}

ASSUME HandlersAssumption == Boot \in Handlers
ASSUME ExpressionAssumption == Expression \in [Versions -> ExpressionKinds]
ASSUME NothingAssumption ==
    NoRow \notin Rows /\ NoJob \notin Jobs /\ NoTarget \notin Schedules
ASSUME ModeAssumption == Serialized \in BOOLEAN /\ MaxFaults \in Nat

VARIABLES
    rows,           \* the schedules table
    created,        \* ids that have been given to a row
    jobs,           \* jobs in the JobScheduler
    jobUuids,       \* job_uuids: the job registered under each schedule
    started,        \* JobScheduler::start has been called: jobs fire
    pc,             \* where each handler is suspended
    target,         \* the schedule it works on
    snapshot,       \* the row it has read, or is about to write
    oldJob,         \* the uuid it has found in job_uuids
    loading,        \* handlers inside start
    todo,           \* what start has still to add
    faults

tables  == <<rows, created>>
memory  == <<jobs, jobUuids, started>>
locals  == <<target, snapshot, oldJob, loading, todo>>
vars    == <<tables, memory, pc, locals, faults>>

InFlight(h) == pc[h] \notin {"idle", "over"}

TypeOK ==
    /\ rows \in [Schedules -> MaybeRow]
    /\ created \subseteq Schedules
    /\ jobs \subseteq Jobs
    /\ jobUuids \in [Schedules -> Jobs \cup {NoJob}]
    /\ started \in BOOLEAN
    /\ pc \in [Handlers -> {"idle", "toggle", "read", "lookup", "remove",
                            "forget", "install", "record", "clear", "list",
                            "load", "over"}]
    /\ target \in [Handlers -> Schedules \cup {NoTarget}]
    /\ snapshot \in [Handlers -> MaybeRow]
    /\ oldJob \in [Handlers -> Jobs \cup {NoJob}]
    /\ loading \subseteq Handlers
    /\ todo \in [Handlers -> [Schedules -> MaybeRow]]
    /\ faults \in 0..MaxFaults

Init ==
    /\ rows \in [Schedules -> MaybeRow]
    /\ created = {s \in Schedules : rows[s] # NoRow}
    /\ jobs = {}
    /\ jobUuids = [s \in Schedules |-> NoJob]
    /\ started = FALSE
    /\ pc = [h \in Handlers |-> IF h = Boot THEN "list" ELSE "idle"]
    /\ target = [h \in Handlers |-> NoTarget]
    /\ snapshot = [h \in Handlers |-> NoRow]
    /\ oldJob = [h \in Handlers |-> NoJob]
    /\ loading = {Boot}
    /\ todo = [h \in Handlers |-> [s \in Schedules |-> NoRow]]
    /\ faults = 0

Goto(h, l) == pc' = [pc EXCEPT ![h] = l]
Fault == faults < MaxFaults /\ faults' = faults + 1

-----------------------------------------------------------------------------
(* What add_schedule makes of an expression.                               *)

\* add_schedule converts an expression only if it contains no space.
HasSpace(e) == e \in {"fields", "keywordAndTime"}

\* parse_simple_format
ParseSimpleFormat(e) == IF e \in {"keyword", "keywordAndTime"} THEN "fields"
                                                               ELSE e

Installs(v) ==
    LET e == Expression[v]
    IN  (IF HasSpace(e) THEN e ELSE ParseSimpleFormat(e)) = "fields"

-----------------------------------------------------------------------------
(* Requests.                                                               *)

\* The schedules a handler may still touch.
Touches(h) == IF h \in loading THEN Schedules ELSE {target[h]}

\* The server listens once the start at boot has returned.  A client that
\* waits for its requests sends none while one of them is at work on S.
MayRequest(h, S) ==
    /\ pc[h] = "idle" /\ pc[Boot] = "over"
    /\ Serialized => \A g \in Handlers : InFlight(g) => Touches(g) \cap S = {}

\* The first query of h is about s; then h continues at l.
Begin(h, l, s) ==
    /\ MayRequest(h, {s})
    /\ Goto(h, l)
    /\ target' = [target EXCEPT ![h] = s]
    /\ UNCHANGED <<memory, oldJob, loading, todo, faults>>

\* INSERT: enabled is 1 by default.
CreateSchedule(h, s, v) ==
    /\ s \notin created /\ Begin(h, "read", s)
    /\ rows' = [rows EXCEPT ![s] = [version |-> v, enabled |-> TRUE]]
    /\ created' = created \cup {s}
    /\ UNCHANGED snapshot

\* UPDATE: enabled is left as it is.  Without a row, the read fails next.
UpdateSchedule(h, s, v) ==
    /\ s \in created /\ Begin(h, "read", s)
    /\ rows' = IF rows[s] = NoRow THEN rows
                                  ELSE [rows EXCEPT ![s].version = v]
    /\ UNCHANGED <<created, snapshot>>

\* delete, then remove_schedule.
DeleteSchedule(h, s) ==
    /\ s \in created /\ Begin(h, "lookup", s)
    /\ rows' = [rows EXCEPT ![s] = NoRow]
    /\ UNCHANGED <<created, snapshot>>

\* toggle_enabled reads the row and negates enabled in memory, ...
ToggleSchedule(h, s) ==
    /\ rows[s] # NoRow /\ Begin(h, "toggle", s)
    /\ snapshot' = [snapshot EXCEPT
                       ![h] = [rows[s] EXCEPT !.enabled = ~@]]
    /\ UNCHANGED tables

\* ... and writes what it has computed.
ToggleWrite(h) ==
    LET s == target[h] IN
    /\ pc[h] = "toggle" /\ Goto(h, "read")
    /\ rows' = IF rows[s] = NoRow
               THEN rows
               ELSE [rows EXCEPT ![s].enabled = snapshot[h].enabled]
    /\ UNCHANGED <<created, memory, locals, faults>>

\* get_by_id, after which sync_schedule works with what it returned.
ReadBack(h) ==
    LET row == rows[target[h]] IN
    /\ pc[h] = "read" /\ Goto(h, IF row = NoRow THEN "over" ELSE "lookup")
    /\ snapshot' = [snapshot EXCEPT ![h] = row]
    /\ UNCHANGED <<tables, memory, target, oldJob, loading, todo, faults>>

\* A deleted channel takes its schedules along; no job is removed.
DropChannel(S) ==
    /\ pc[Boot] = "over" /\ \E s \in S : rows[s] # NoRow
    /\ rows' = [s \in Schedules |-> IF s \in S THEN NoRow ELSE rows[s]]
    /\ UNCHANGED <<created, memory, pc, locals, faults>>

-----------------------------------------------------------------------------
(* add_schedule and remove_schedule.                                       *)

\* sync_schedule: add_schedule for an enabled snapshot, else remove_schedule.
IsEnabled(row) == row # NoRow /\ row.enabled
AfterRemoval(h) == IF IsEnabled(snapshot[h]) THEN "install" ELSE "over"

LookUp(h) ==
    LET uuid == jobUuids[target[h]] IN
    /\ pc[h] = "lookup"
    /\ oldJob' = [oldJob EXCEPT ![h] = uuid]
    /\ Goto(h, IF uuid = NoJob THEN AfterRemoval(h) ELSE "remove")
    /\ UNCHANGED <<tables, memory, target, snapshot, loading, todo, faults>>

\* Faulty variant: the old job is left to the scheduler.
RemoveOld_KeepsJob(h) ==
    /\ pc[h] = "remove" /\ Goto(h, "forget")
    /\ UNCHANGED <<tables, memory, locals, faults>>

\* A uuid the scheduler does not know is ignored.
RemoveOld(h) ==
    /\ pc[h] = "remove" /\ Goto(h, "forget")
    /\ jobs' = jobs \ {oldJob[h]}
    /\ UNCHANGED <<tables, jobUuids, started, locals, faults>>

\* Whatever is registered under the schedule by now is forgotten.
ForgetOld(h) ==
    /\ pc[h] = "forget" /\ Goto(h, AfterRemoval(h))
    /\ jobUuids' = [jobUuids EXCEPT ![target[h]] = NoJob]
    /\ UNCHANGED <<tables, jobs, started, locals, faults>>

NewJob(h) ==
    [schedule |-> target[h], version |-> snapshot[h].version, by |-> h]

\* start goes on with its list, a handler answers its client.
Done(h) == IF h \in loading THEN "load" ELSE "over"

\* Only now is the expression parsed; the job captures the snapshot.
Install(h) ==
    /\ pc[h] = "install"
    /\ IF Installs(snapshot[h].version)
       THEN jobs' = jobs \cup {NewJob(h)} /\ Goto(h, "record")
       ELSE UNCHANGED jobs /\ Goto(h, Done(h))
    /\ UNCHANGED <<tables, jobUuids, started, locals, faults>>

\* Faulty variant: the uuid of the new job is not kept.
Record_Drops(h) ==
    /\ pc[h] = "record" /\ Goto(h, Done(h))
    /\ UNCHANGED <<tables, memory, locals, faults>>

Record(h) ==
    /\ pc[h] = "record" /\ Goto(h, Done(h))
    /\ jobUuids' = [jobUuids EXCEPT ![target[h]] = NewJob(h)]
    /\ UNCHANGED <<tables, jobs, started, locals, faults>>

-----------------------------------------------------------------------------
(* reload and start.                                                       *)

\* Faulty variant: the new scheduler does not replace the old one.
Reload_KeepsJobs(h) ==
    /\ MayRequest(h, Schedules) /\ Goto(h, "clear")
    /\ loading' = loading \cup {h}
    /\ started' = FALSE
    /\ UNCHANGED <<tables, jobs, jobUuids, target, snapshot, oldJob, todo,
                   faults>>

\* The write lock waits for add_schedule, which keeps its read guard of the
\* scheduler from the removal of the old job until it is forgotten.
Reload(h) ==
    /\ MayRequest(h, Schedules) /\ Goto(h, "clear")
    /\ \A g \in Handlers : pc[g] = "forget" => ~IsEnabled(snapshot[g])
    /\ jobs' = {} /\ started' = FALSE
    /\ loading' = loading \cup {h}
    /\ UNCHANGED <<tables, jobUuids, target, snapshot, oldJob, todo, faults>>

ClearUuids(h) ==
    /\ pc[h] = "clear" /\ Goto(h, "list")
    /\ jobUuids' = [s \in Schedules |-> NoJob]
    /\ UNCHANGED <<tables, jobs, started, locals, faults>>

ListEnabled(h) ==
    /\ pc[h] = "list" /\ Goto(h, "load")
    /\ todo' = [todo EXCEPT ![h] =
           [s \in Schedules |-> IF IsEnabled(rows[s]) THEN rows[s] ELSE NoRow]]
    /\ UNCHANGED <<tables, memory, target, snapshot, oldJob, loading, faults>>

\* A failed query is only logged.
ListFails(h) ==
    /\ Fault /\ pc[h] = "list" /\ Goto(h, "load")
    /\ UNCHANGED <<tables, memory, locals>>

LoadNext(h, s) ==
    /\ pc[h] = "load" /\ todo[h][s] # NoRow /\ Goto(h, "lookup")
    /\ target' = [target EXCEPT ![h] = s]
    /\ snapshot' = [snapshot EXCEPT ![h] = todo[h][s]]
    /\ todo' = [todo EXCEPT ![h][s] = NoRow]
    /\ UNCHANGED <<tables, memory, oldJob, loading, faults>>

StartScheduler(h) ==
    /\ pc[h] = "load" /\ \A s \in Schedules : todo[h][s] = NoRow
    /\ Goto(h, "over")
    /\ started' = TRUE
    /\ UNCHANGED <<tables, jobs, jobUuids, locals, faults>>

\* The client hangs up, or a query errs: the rest of the handler is skipped.
DropHandler(h) ==
    /\ Fault /\ InFlight(h) /\ h # Boot /\ Goto(h, "over")
    /\ UNCHANGED <<tables, memory, locals>>

-----------------------------------------------------------------------------
Request(h) ==
    \/ \E s \in Schedules :
          \/ \E v \in Versions : CreateSchedule(h, s, v)
                                 \/ UpdateSchedule(h, s, v)
          \/ DeleteSchedule(h, s) \/ ToggleSchedule(h, s)
    \/ Reload(h)

HandlerStep(h) ==
    \/ ToggleWrite(h) \/ ReadBack(h)
    \/ LookUp(h) \/ RemoveOld(h) \/ ForgetOld(h) \/ Install(h) \/ Record(h)
    \/ ClearUuids(h) \/ ListEnabled(h) \/ StartScheduler(h)
    \/ \E s \in Schedules : LoadNext(h, s)

Next ==
    \/ \E h \in Handlers : \/ Request(h) \/ HandlerStep(h)
                           \/ DropHandler(h) \/ ListFails(h)
    \/ \E S \in SUBSET Schedules : DropChannel(S)

Spec == Init /\ [][Next]_vars

\* tokio goes on polling a handler that is not dropped.
FairSpec == Spec /\ \A h \in Handlers : WF_vars(HandlerStep(h))

-----------------------------------------------------------------------------
(* What must hold.                                                         *)

JobsOf(s) == {j \in jobs : j.schedule = s}
Quiet(s) == \A h \in Handlers : InFlight(h) => s \notin Touches(h)

\* The jobs of a schedule are what add_schedule makes of its row, and a later
\* removal can find them.
InSync(s) ==
    rows[s] # NoRow =>
        IF rows[s].enabled /\ Installs(rows[s].version)
        THEN /\ jobUuids[s] # NoJob /\ JobsOf(s) = {jobUuids[s]}
             /\ jobUuids[s].version = rows[s].version
        ELSE JobsOf(s) = {} /\ jobUuids[s] = NoJob

\* Handlers of different schedules never disturb each other: if clients send
\* one request per schedule at a time and none is dropped, then a schedule that
\* nobody works on has exactly the job its row asks for, whatever happens to the
\* other schedules meanwhile (services/scheduler.rs, sync_schedule).
SerializedInSync ==
    Serialized /\ faults = 0 =>
        \A s \in Schedules : Quiet(s) => InSync(s) /\ started

\* A reload, or the start at boot, has the scheduler to itself while it runs:
\* what ReloadHeals takes for granted.
ReloadAlone ==
    \A g, h \in Handlers :
        g # h /\ h \in loading /\ InFlight(h) => ~InFlight(g)

\* A reload that has the scheduler to itself repairs whatever concurrent
\* handlers left behind: afterwards an enabled schedule has exactly the job of
\* its row if add_schedule accepts its expression, and every other schedule has
\* none.  Such another one may be enabled and in a format that the project
\* promises to accept: see SimpleFormatsRun.
ReloadHeals ==
    [][\A h \in Handlers \ {Boot} :
          pc[h] = "load" /\ pc'[h] = "over" /\ faults' = 0
              => \A s \in Schedules : InSync(s)']_vars

\* A schedule switched off stops recording: its job goes, unless the schedule
\* is switched on again or deleted, or a request is dropped.
DisabledScheduleStops ==
    \A s \in Schedules :
        rows[s] # NoRow /\ ~IsEnabled(rows[s]) ~>
            \/ JobsOf(s) = {} \/ rows[s] = NoRow \/ IsEnabled(rows[s])
            \/ faults > 0

-----------------------------------------------------------------------------
(* A claim the code does not keep.                                         *)

\* README.md:35 and the comment at services/scheduler.rs:109 promise that the
\* simple formats are converted to cron, `daily 19:00` among them: an enabled
\* schedule whose expression parse_simple_format understands has a job once
\* nobody works on it, with no fault and one request per schedule at a time.
\* The code converts an expression only if it holds no space.
SimpleFormatsRun ==
    Serialized /\ faults = 0 =>
        \A s \in Schedules :
            /\ Quiet(s) /\ IsEnabled(rows[s])
            /\ ParseSimpleFormat(Expression[rows[s].version]) = "fields"
            => JobsOf(s) # {}

-----------------------------------------------------------------------------
(* The inductive invariant behind SerializedInSync.                        *)

\* job_uuids names the only job of a schedule.
Tidy(s) == JobsOf(s) = IF jobUuids[s] = NoJob THEN {} ELSE {jobUuids[s]}
NoJobFor(s) == JobsOf(s) = {} /\ jobUuids[s] = NoJob
Settled(s) == Tidy(s) /\ InSync(s)

Syncing == {"lookup", "remove", "forget", "install", "record"}

\* What a handler has read before it goes on.
HandlerShape ==
    /\ \A h \in Handlers :
          /\ pc[h] \in {"clear", "list", "load"} => h \in loading
          /\ pc[h] \in {"idle", "toggle", "read"} => h \notin loading
          /\ pc[h] \in Syncing \cup {"toggle", "read"} => target[h] \in created
          /\ pc[h] = "toggle" => snapshot[h] # NoRow
          /\ pc[h] \in {"install", "record"} => IsEnabled(snapshot[h])
          /\ pc[h] = "record" => Installs(snapshot[h].version)
          /\ \A s \in Schedules : todo[h][s] # NoRow => s \in created
    /\ \A s \in Schedules : rows[s] # NoRow => s \in created
    /\ Boot \in loading /\ pc[Boot] \notin {"idle", "clear"}
    /\ pc[Boot] # "over" => \A h \in Handlers \ {Boot} : pc[h] = "idle"

\* Two requests at work never share a schedule, and none overlaps a start.
Exclusive ==
    Serialized => \A g, h \in Handlers :
        g # h /\ InFlight(g) /\ InFlight(h) => Touches(g) \cap Touches(h) = {}

\* Where h stands with the job of the schedule it works on.
JobPhase(h) ==
    LET s == target[h] IN
    /\ pc[h] = "toggle" => Settled(s)
    /\ pc[h] \in {"read", "lookup"} => Tidy(s)
    /\ pc[h] \in Syncing /\ rows[s] # NoRow => snapshot[h] = rows[s]
    /\ pc[h] = "remove" => /\ oldJob[h] # NoJob /\ oldJob[h] = jobUuids[s]
                           /\ JobsOf(s) = {oldJob[h]}
    /\ pc[h] = "forget" => JobsOf(s) = {}
    /\ pc[h] = "install" => NoJobFor(s)
    /\ pc[h] = "record" => JobsOf(s) = {NewJob(h)} /\ jobUuids[s] = NoJob

\* Where start stands with the schedules it is not working on.
LoadPhase(h) ==
    /\ pc[h] = "clear" => jobs = {}
    /\ pc[h] = "list" => \A s \in Schedules : NoJobFor(s)
    /\ h \in loading /\ pc[h] \in Syncing => IsEnabled(snapshot[h])
    /\ h \in loading /\ pc[h] \in Syncing \cup {"load"} =>
          \A s \in Schedules :
              IF pc[h] # "load" /\ s = target[h] THEN todo[h][s] = NoRow
              ELSE IF todo[h][s] = NoRow THEN Settled(s)
              ELSE /\ NoJobFor(s) /\ IsEnabled(todo[h][s])
                   /\ rows[s] # NoRow => todo[h][s] = rows[s]

Phases ==
    /\ \A h \in Handlers : JobPhase(h) /\ LoadPhase(h)
    /\ \A s \in Schedules : Quiet(s) => Settled(s)
    /\ started \/ \E h \in loading : InFlight(h)

SchedulerInv ==
    /\ TypeOK /\ HandlerShape /\ Exclusive
    /\ Serialized /\ faults = 0 => Phases

=============================================================================
