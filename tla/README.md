# iptv-recorder: a verification development

iptv-recorder records IPTV channels: a Rust backend (axum, sqlx over SQLite,
tokio) starts one recorder process per recording, either on request or from cron
schedules, serves live previews through ffmpeg, and reports to a React frontend
over REST and a WebSocket. This directory holds TLA+ models of the parts where
several actors work on the same rows, maps and processes, the TLC runs that check
them, and TLAPS proofs of the safety properties that matter most.

Source paths below are relative to `src/backend/src/` unless they say otherwise.

## 1. Inventory

### The parts, their state and what makes them correct

| Part | State | Operations | Correct when |
| --- | --- | --- | --- |
| Recording service (`services/recording.rs`) | rows of `tasks`, the static `ADMISSION_LOCK` | `start_manual` (also called by cron jobs), the monitor task it spawns, `cancel`, `delete_task`, `clear_completed_tasks`, `reconcile_orphaned_tasks` | limits hold; a task ends once, by one writer; the row and the process agree |
| Process manager (`core/process.rs`) | map of running children, a waiter task per child | `start_recording`, `stop_by_task_id`, publication of the outcome | a child that lives can be stopped as long as its row can be found; an outcome is published after the child is gone |
| Zombie inspector (`services/task_liveness.rs`) | none, reads `updated_at` | `run_once` every 60 s | fails exactly the rows nobody looks after |
| Boot (`main.rs`) | none | recovery, then inspector, scheduler, HTTP server | no row survives a crash as running |
| Scheduler (`services/scheduler.rs`, `services/schedule.rs`) | rows of `schedules`, the `JobScheduler`, `job_uuids` | create, update, toggle, delete, `reload`, `start` | each enabled schedule with an expression that is understood has exactly one job, with its present content |
| Live preview (`services/transcode.rs`) | map of sessions, one ffmpeg and one directory each | `start_transcode`, `stop_transcode`, `touch_session`, `cleanup_expired` | limits hold; no ffmpeg runs unknown; what is watched is not killed |
| HTTP handlers (`api/handlers.rs`, `api/router.rs`) | futures, dropped when a client hangs up | one per route | leaving a handler at any await leaves nothing locked or half done |
| Event bus and WebSocket (`core/event.rs`, `api/websocket.rs`) | broadcast of 1000 events, one receiver per socket | send, forward, ping, token check | clients converge to what the rows say |
| WebSocket client and caches (`src/frontend/src/api/websocket.ts`, `lib/taskRealtime.ts`) | a socket, a timer, cached lists | connect, disconnect, apply events, refetch | one socket; caches converge |
| Preview player (`src/frontend/src/components/usePlayerCore.ts`) | attempt number, session id | play, retry, clean up | no session of a newer attempt is stopped |
| Login limiter and tokens (`api/rate_limit.rs`, `services/auth.rs`) | failures per address, `token_version` | check, record, change password | locks and revocations take effect |
| Channels and import (`services/channel.rs`, `services/m3u_parser.rs`) | rows of `channels` | CRUD, batched import, cascade | a batch is imported whole, URLs stay unique |
| Retention (`services/cleanup.rs`) | none | select, remove files, delete rows | no file without a row, no row without its file |
| Notifications, heartbeat (`services/notification.rs`, `services/heartbeat.rs`, `src/frontend/src/stores/notificationStore.ts`) | rows, an unread count, time of the last alert | notify, mark, delete, inspect | counts agree in the end |
| Runtime configuration (`services/config_service.rs`, `config.rs`) | key/value rows over a file | get, update | a change is seen whole |
| Files (`services/post_process.rs`, the end of `recording.rs`) | the recordings directory | locate, rename, transcode | a row names its own file |
| Guide, URL checks, audit, database (`services/epg.rs`, `services/url_safety.rs`, `services/audit.rs`, `core/database.rs`) | rows written in one statement or transaction | | sequential |

### How they interact

Handlers, cron jobs, monitors, waiters, the inspector and the clean-up are tokio
tasks of one process; they share SQLite rows, four in-memory maps behind
`RwLock`s, the admission mutex, `watch` channels from the process manager to the
monitors, and one broadcast channel towards the sockets. Recorders and ffmpeg are
processes of the operating system, and outlive the backend: nothing is spawned
with `kill_on_drop`. A cron job calls `start_manual` like a handler does.

### What is hard

- Two actors between two awaits: admission, cancel against registration, two
  syncs of one schedule, two starts of one preview.
- A future that is dropped when its client hangs up, in the middle of any handler.
- Rows and processes that fall apart in a crash, and the two mechanisms
  (recovery, inspector) that put the rows right again.
- A snapshot that is acted on later: the zombies the inspector has selected, the
  schedule a handler read back, the sessions a start has counted.
- Locks held over awaits: the admission lock, the session map.

`PROJECT.json` lists each hazard at its line with the properties that cover it.

## 2. Plan

Done, each with its proofs: `Recording`, `Scheduler` and `PreviewSessions`, which
carry the product; `EventFeed` (what the browser learns of it), `Access` (who is
let in), `ChannelImport` over `M3UParser` (what there is to record), `OutputFiles`
with the retention clean-up (what remains of a recording). Left, in this order:

1. `Automation`, composing `Scheduler` and `Recording`: jobs that fire with the
   schedule they captured, schedules and channels deleted under them, a boot that
   loads jobs while recovery settles rows. Promise: a schedule that is switched
   off or deleted starts nothing new once its handler has returned.
2. `PreviewPlayer` over `PreviewSessions`: attempts, out-of-date answers, retries,
   unmounting, and a restart of the backend, in `Scheduler` too.
3. `UnreadCount` and `RuntimeConfig`, one small module each.
4. `CronBuilder`: the conversion of the editor, as operators against a reference
   definition over bounded inputs.

Proofs to add: that `PreviewSessions` implements an abstract session table; and, with
`Automation`, that the composition keeps the invariants of its parts. All safety
properties of the runs are proved.

## 3. Modules and the code

One step of a model is what runs between two await points of one actor.
A dropped future, a failed query and a crash are faults, counted in `faults` and
bounded by `MaxFaults`; many properties say `faults = 0` where the code makes no
promise beyond.

### Recording

`Recording.tla` models the life of a recording task. A member of `Tasks` is the
fresh uuid of one call of `start_manual`.

| State | Code |
| --- | --- |
| `status`, `stale`, `channelRows`, `scheduleRows` | rows of `tasks` (status, whether `updated_at` is past the threshold), `channels`, `schedules` |
| `announced` | how often the end of a task was announced to the client |
| `request`, `call`, `admissionLock` | where each call of `start_manual` is suspended, and the guard of `ADMISSION_LOCK` |
| `processes`, `killSent`, `waiter`, `recorder` | the map of the process manager, the `kill` channel, the task that waits for the child, the child |
| `monitor` | the task that polls progress and writes the outcome |
| `cancelling`, `deleting`, `zombies` | requests between two of their statements, rows the inspector has selected |
| `backend` | up, down, or up and recovering |

`StartManual`, `AcquireLock`, `PassCapacity`/`RejectAdmission`,
`InsertRunning`/`InsertRefused`, `SpawnRecorder`/`SpawnFails`, `Register` are the
start path; `WaiterSeesExit`, `WaiterKills`, `WaiterDeregisters`,
`WaiterPublishes` the waiter; `ProgressTick`, `MonitorLeavesLoop`,
`CompletionWriteback`, `FailureWriteback` the monitor. The guarded UPDATE
(`WHERE status = 'running'`) through which all ends go is `SettleRunning`.

`TaskLifecycle.tla` is the abstract specification: a task is admitted within the
limits, ends, may be turned to failed afterwards, may be forgotten, and never
runs again. `Recording` implements it with `life <- status`.

### Scheduler

`Scheduler.tla` models the rows of `schedules` (`rows`), the jobs inside the
`JobScheduler` (`jobs`) and `job_uuids` (`jobUuids`). A handler writes a row
(`CreateSchedule`, `UpdateSchedule`, `ToggleSchedule` and `ToggleWrite`,
`DeleteSchedule`), reads it back (`ReadBack`), and syncs the job in five steps:
`LookUp`, `RemoveOld`, `ForgetOld`, `Install`, `Record`. `Reload`, `ClearUuids`,
`ListEnabled`, `LoadNext`, `StartScheduler` are `reload` and `start`; `start` runs
`add_schedule` for each row with the same five steps. An expression is only of a
kind (`fields`, `keyword`, `keywordAndTime`, `invalid`): `Installs` says which
kinds `add_schedule` turns into a job. Job uuids are fresh, so a job is named by
its content and the handler that made it; one handler makes at most one job per
schedule. A reload needs the write lock of the scheduler, which `add_schedule`
keeps for reading from the removal of the old job until it is forgotten.

### PreviewSessions

`PreviewSessions.tla` models `TranscodeService`: `sessions` is the map, `lock` its
write lock when it is held over an await, `idle` the sessions not fetched for
longer than `session_timeout_secs`, `ffmpeg` and `dir` the process and the
directory of each session. A start finds an existing session (`Start`), counts
(`CountOwn`), checks the source (`Preflight`), tries the profiles one by one
(`Spawn`, `PlaylistReady`, `StartupFails`, `NextProfile`, `GiveUp`) and stores
(`StoreSession`). `stop` and the clean-up take a session out and keep the lock
until its ffmpeg is reaped. `Profiles` is 3 in the code.

### M3UParser and ChannelImport

`M3UParser.tla` is `parse`: a line of a playlist is what its prefix makes of it
(`Extinf`, `Address`, `Ignored`), `ReadLine` is one pass of the loop with its
`current_name` and `current_attrs`, and `Parse` takes the lines one by one, as a
recursive function of the line. `ParsedRight` says the same without state:
which lines belong to which address. A name and a group stand for all attributes.

`ChannelImport.tla` models the rows of `channels` (`channels`, committed) among
creations, edits, deletions and imports. `Import` parses, `LookUp` is one statement
of `find_existing_ids_by_url`, which takes `ChunkSize` addresses (500 in the code) at
a time and leaves `unread` ones to the next, then each entry takes one step: `PassOver` (seen,
refused, or there already), `Overwrite`, `Insert` or `StatementFails`. `Commit`
answers; `Abandon` is an error or a client that hangs up. SQLite is external:
`writer` holds its write lock from the first statement that writes, and `pending`
is what its transaction sees.

`ChannelTable.tla` is the abstract specification: who reads the table sees an import
happen at the moment it answers, with nothing but rows it was asked for, over rows
only if it may overwrite, and each address once. `ChannelImport` implements it with
`asked <- Asked`: what an import under way was asked for, until it ends.

### Access

`Access.tla` models one account and one client address. `user` is the row,
`tokens` what clients hold (with, to speak about it, the password given for each),
`count` and `lockLeft` the entry of the limiter. A login is `Login` (the check),
`Verify` (the row is read), then `RecordSuccess` or `RecordFailure`; a change of
the password is `ChangePassword` (the middleware), `VerifyOld`, `UpdatePassword`.
`socket` is the token of an open connection and `silent` the time since the last
pass of the loop of `handle_socket`: `Traffic` ends a pass, `Recheck` is the branch
of the timer. Time passes in `Tick`.

### EventFeed

`EventFeed.tla` follows the end of a task to the browser. `End` is the monitor, which
announces only if it has an event sender (`heard`: those of requests have one, those
of scheduled recordings have none), `Inspect` the inspector, which always does;
recovery announces at a time when nobody can listen. Both write the row, then
`Announce` sends; `queue` is what the receiver of each socket has not forwarded, of
which `Push` drops the oldest at `Capacity`; `Subscribe` comes after the welcome.
The client is `socket` (the WebSocket objects), `ws` (`this.ws`), `wanted`
(`shouldReconnect`), `timer` and `stray` (a timer whose handle was overwritten),
with `SignIn`, `SignOut`, `Opens`, `OnClose`, `Reconnect`, `StrayReconnect`. `list`
is the cached list and `fetch` the fetch under way: `Deliver` patches and
invalidates, `Answer` reads the database, `Show` replaces the list, `Poll` is
`refetchInterval`. TanStack Query is external.

### OutputFiles

`OutputFiles.tla` follows the file of a recording. `Expected` is the path
`build_output_path` gives; a file is a path in a directory with a stem and an
extension, and its content is whose recording it is and whether it is whole. A
recorder writes one of the names its engine may choose (`Written`), the monitor goes
through `Find` (or `FindFails`, when the directory cannot be read), `Rename`, `Process`, `Converted`, `Original`, `WriteBack`; `Crash`
leaves recorders and converters working. `Select`, `Remove`, `Purge` are
`run_once` of the clean-up, by the hourly loop or by request. Stems are abstract:
`Extends` says which begins with which, since that is how a file is recognised, and
`Temporary` which hold `_temp` or the like and are passed over. A recorder that is
killed has no exit code, and its monitor goes on as after a success
(`RecorderKilled`).

## 4. Runs

The `MC` modules give the constants. Deadlock
is not checked anywhere: tasks, handlers and starts are finite sets, so a run of
the model comes to a real end when all are used up. What must not get stuck is
stated as liveness.

| Run | Question | Instance |
| --- | --- | --- |
| `RecordingTask` | does the end of one task stay consistent with every actor and three faults, does it come, does every kill work, does a cancel that is let in reach the recorder (`CancelStopsRecorder`), is `TaskLifecycle` implemented? | 1 task, 1 channel with a schedule, fairness |
| `RecordingAdmission` | do the limits hold, does a check stay valid, does every call come back from the lock, is `IndInv` invariant? | 2 tasks, 2 channels, 1 slot, 1 fault, fairness, start path and ends only (`AdmissionOnly`) |
| `SchedulerSerialized` | has a schedule at rest exactly its job, and does a disabled one lose it? | 2 schedules, a valid and an invalid version, boot and 2 requests, one per schedule at a time, 1 fault, fairness |
| `SchedulerReload` | does a lone reload leave exactly the jobs that `add_schedule` makes of the rows? | 1 schedule with a keyword (installed), a keyword with a time or an invalid expression (both refused), 3 requests in any order (`ReloadAlone`) |
| `PreviewLimits` | by how much do overlapping starts exceed the limits (`LimitsKept`)? | 4 starts of one user, 2 of them at a time (`Overlap`) and 3 for one channel, limit 1, 2 profiles, 1 stop |
| `PreviewServes` | is every ffmpeg known, every session playable, every watched one spared; do starts return and idle sessions go? | 2 overlapping starts, limit 2, 2 stops, 1 fault, fairness |
| `ChannelImport` | do imports store what they report, and implement `ChannelTable`, among edits and deletions? is a playlist parsed as it is written? | 2 imports at a time, 3 ids, 2 playlists with doubled, refused and unparsable addresses, 2 addresses to a statement, so that one playlist takes two |
| `Access` | does an accepted token prove the present password, is a token that a change of the password ended never valid again, does a lock stop guessing, is a silent connection with a dead token closed? | 2 requests at a time, 1 connection, lock after 2 failures, 2 changes of the password, fairness |
| `EventFeed` | is an announced end always on its way (`EndsOnTheirWay`), does the list never take it back, heal, and learn of each? is the client never left without socket and timer? | 1 task, of a request or scheduled, 2 sockets, a bus of 2 events, 2 failed fetches, fairness |
| `OutputFiles` | are whole recordings kept until the clean-up selects them, do completed rows lead to them, do expired rows go? | 2 tasks, film with N_m3u8DL-RE and converted, news with ffmpeg and kept as it is; 1 clean-up of rows older than a day; 1 crash, killed recorder, unreadable directory or cut clean-up; day 0 and day 2; fairness |

Why these bounds are enough to mean something: every limit is smaller than the
number of competitors or meets it exactly, every pair of actors that share state
occurs together in one run, and a task or a handler is in at most one place, so
two or three of them give every order of the steps of two actors. Two profiles
give a first and a last one. The constraints name what they exclude:
`AdmissionOnly` drops deletions, inspection and kills, which `RecordingTask` has: two
tasks share nothing but the limits, so that one is enough for them. `ReloadAlone` is the precondition of `ReloadHeals`, since a
reload that overlaps other handlers repairs nothing. In `EventFeed` one task is
enough, since no property relates two, and two sockets are the most a client has
while it closes one and opens another; two events fill the bus. In `OutputFiles` the
expected extension of film's recorder need not be what it writes, nor the stem: of
its three stems one is longer and one looks temporary. Film converts, fails to, or
does not start to; news has the mode `off`. `NewsLater` starts news on the last day
only: it shares no name with film, and its row expires in the same way. For the properties that are
also proved (section 6) the bounds do not matter.

### Runs that end in a counterexample

`ClaimCancelStops` checks one sentence of a comment, quoted in `PROJECT.json`: a
cancel between the INSERT and the registration stops nothing, and the recorder runs
on under a cancelled row.

`ClaimSimpleFormats` checks what README.md:35 and the comment at
`services/scheduler.rs:109` say of `daily 19:00`: it holds a space, is taken for a
cron expression (`services/scheduler.rs:106`), has two fields and is refused. `start`
and the handlers log the error, and the enabled schedule has no job. The passing
properties of `Scheduler` ask for no job there, since they describe what
`add_schedule` does; `SimpleFormatsRun` is what the project promises.

### Divergences that the passing properties except

These are exceptions in the properties above rather than runs of their own.

- `services/recording.rs:830` says that no later write overwrites a cancel. The
  UPDATE after a failed spawn has no guard: `OnlySpawnOverwritesCancel` says that
  it is the only one.
- README.md:38 speaks of a global cap on the streams that are pulled.
  `AdmissionRespected` is about rows: a cancelled row frees its slot before its
  recorder is stopped.
- README.md:298 offers to cancel a recording. Who deletes the channel
  first takes the row away, and `cancel` ends at `get_task` (`services/recording.rs:824`)
  while the recorder works on: `CancelStopsRecorder` is about cancels that were let in.
- docs/configuration.md:208 documents `task_timeout_secs`, which no code reads:
  `RunningRowsSettle` excepts a recorder that hangs, because its monitor keeps the
  row fresh and the inspector does not see it.
- docs/architecture.md:134 lists a clean-up of orphaned processes. There is none:
  `KillStopsRecorder` excepts a crash, after which a recorder may live on.
- `core/process.rs:373` reads a missing exit code as a cancel; a child ended by a
  signal from outside has none either, and its task reads `completed` with what had
  been written of the recording. `CompletedPathsLead` is about recorders that came to
  their end.
- A completed row may lead to nothing although the recording is there: the file is
  not found when its name holds `_temp` or the like (`services/recording.rs:1500`),
  which a channel's own name may, or when the directory cannot be read
  (`services/recording.rs:1475`). `CompletedPathsLead` names both (`Astray`).
- `services/channel.rs:369` looks 500 addresses up at a time. A channel moved between
  two of the statements is found at both its addresses, is overwritten twice, and
  the first entry is reported as imported and is nowhere: `ImportedAreStored` excepts
  it.
- `api/handlers.rs:481` says that a disabled schedule loses its job:
  `DisabledScheduleStops` excepts dropped requests.
- docs/api.md:599 says that an active session of a channel is reused, and
  `services/transcode.rs:184` that a user has at most so many: `LimitsKept` says that
  both are missed by as many sessions as starts overlap, and `PreviewLimits` reaches
  two sessions where one is allowed.
- `services/task_liveness.rs:12` says that a row past its threshold has no monitor.
  A monitor in post-processing (`services/recording.rs:299`) does not refresh its
  row: no property promises that the inspector spares it.
- `api/handlers.rs:542` says that the job follows the row. Two handlers of one
  schedule may leave a job nobody knows, or none: hence `Serialized`.
- `api/websocket.rs:142`, README.md:240 say that old connections are closed
  within 5 minutes. The timer is created anew on every pass of the select:
  `SilentSocketsClose` asks that the connections fall silent.
- README.md:420: neither a start nor a cancel sends an event, nor does the end of a
  scheduled recording, whose monitor has no sender (`services/scheduler.rs:172`).
  `EndsArrive` is about ends that were announced, `RunningHeals` about the others.
- `services/recording.rs:1456` says that a file of another task is not taken. A
  file is taken by the beginning of its name: `RecordingsKept` and
  `CompletedPathsLead` ask that nobody else has such a name (`Alone`). A stem is cut
  at its last dot, so that a name with a dot has more relatives than it seems.
- `api/rate_limit.rs:4` speaks of failures before a lock. When a lock expires the
  count stays, and the first failure locks again: `RecordFailure` counts on.
- docs/api.md:464 says that 0 days disable the clean-up. `run_once` then deletes
  all that ended before today: `ExpiredRowsGo` excepts this period, in which the
  document and the code disagree on whether rows should go.
- config/default.toml:47: with the ffmpeg engine and a mode of `post` the expected
  name already has the output extension, ffmpeg refuses to work in place, and the
  recording stays as it was written (`NoProcess`).
- A row that failed or was cancelled keeps the expected path. The clean-up removes
  that path, and a file with another extension stays for ever.

## 5. Fairness

Weak fairness of the backend's own steps stands for the tokio runtime, which goes
on polling what is ready; of `GoesStale` for time that passes; of `RecorderExits`
for the duration limit a recorder is started with, unless it hangs, which is a
fault; of the waiter for SIGKILL, which cannot be caught; of `Boot` for
`restart: unless-stopped` (src/docker-compose.yml:34). In `PreviewSessions` every
wait has a deadline (preflight, start-up of a profile). Strong fairness is assumed
only of those who wait for the session map: tokio's `RwLock` is first come, first
served. The admission mutex is fair too, but weak fairness is enough, since the
calls are finitely many.

In `Access` requests are polled, time passes, and a timer that has run out is served;
in `OutputFiles` the loop of the clean-up comes back every hour (`CleanupStep`) and
nothing else is fair. In `EventFeed` a connection opens or fails (`Opens`), an open
one is forwarded (`Deliver`), a fetch is answered (`Answer`), `Poll` is the interval
of the list; `Show` is strongly fair, since what gives a fetch up is an event or a
new connection, some 3 s apart, and a fetch takes much less. No client, cancel,
recorder or ffmpeg output is assumed fair.

## 6. Proofs

Eight modules of proofs prove, for every value of the constants that satisfies the
named assumptions, all safety and action properties that the passing runs check, and
both refinements:

- `Invariance`, `TypeCorrectness`, `AdmissionSafety`, `IndexNeverNeeded`,
  `EndOfTaskSafety`, `CompletedIsQuiet`, `EndsAnnouncedOnce`, `DeletesSpareRunning`,
  `RunningIsWatched`, `CancelReaches`, `CancelIsFinalOtherwise`,
  `LockAlwaysGoesBack`, `Refinement` about `Recording`. The invariant `IndInv` joins
  the types; `AdmissionPhases` (who is between lock and INSERT holds the lock),
  without which neither a check nor the limits are preserved by an INSERT;
  `ProcessPhases` (a child is reaped, then unlisted, then published, then written
  back), which makes `completed` imply a dead child; and `WriteOrder` (whoever kills,
  deletes or announces has seen the row end), which makes the ends exclusive. That
  admission never exceeds the limit needs that `Tasks` is finite, and counts with the
  library's cardinality theorems. `Refinement` maps every step to a step of
  `TaskLifecycle` or a stutter.
- `SchedulerInvariant`, `SerializedInSyncHolds` and `ReloadHealsAlone` about
  `Scheduler`. If no two requests work on one schedule at a time and none is dropped,
  each handler owns the part of the job state that belongs to its schedule:
  `Exclusive` says so, `JobPhase` and `LoadPhase` say what each handler has made of
  its part, and a schedule nobody owns is settled. A reload is proved for behaviours
  in which it runs alone (`[]ReloadAlone`), from any state it may find: `LoneInv` says
  which schedules it has already put right, and is kept only as long as it is alone.
- `PreviewInvariant`, `LimitsHold`, `NothingIsLeftBehind`, `SessionsAreServed`,
  `WatchedAreSpared`, `NoCircleOfWaiting`, `StartsAreBounded` about
  `PreviewSessions`. `FindingsHold` counts what a start found (no session of its
  channel, room below the limit) until its insertion: the sessions a user has together
  with those that calls past their check may still store (`Holding`, `Opening`) grow
  only when a call passes a check, and then at most `Overlap` calls are under way. It
  is proved for every `Overlap`, so for users who wait for their starts and for those
  who do not. `LockShape` ties the lock to who is closing
  what, so that a fetch cannot slip in between the look of the clean-up and its kill.
  `Left` is a measure: each step of a start reduces it.
- `EveryPlaylistParsedRight` about `M3UParser`, for playlists of any length: the
  channels stored and the lines refused are those of the addresses read so far, and
  the name and group in hand are those of the last lines that have one (`LoopInv`).
  It is an induction over the lines, made with the least number of a set instead of
  the library's rule, which takes an operator; that the recursive function exists
  (`LoopGoesOn`) is proved the same way.
- `ImportInvariant`, `ImportSpares`, `ImportStores`, `ImportsParsedAsWritten`,
  `TableRefinement` about `ChannelImport`. What an import has counted as imported is
  in its transaction's view (`Written`), which only the holder of the lock changes
  (`LockHeld`). Ids are given once (`IdsUsed`), so that an abandoned import leaves none
  behind (`AbandonedLeavesNothing`). One statement finds no id at two addresses; of an
  import that needs several, `Stored` says which entry has the row. The refinement maps the many steps of an import
  to `ChannelTable`'s one, the `Commit`: until then no other reader sees its rows
  (`ImportSpares` says what they are), and what it commits has each address once.
- `AccessInvariant`, `TokensProve`, `RevocationIsFinal`, `LateGuesses` about `Access`.
  `AccessInv` says of every row that was ever read, in a token, a request or a
  connection, that it is out of date or has the present password (`UpToDate`): each
  change of the password is a change of the version, in one statement. Versions only
  grow, so a token that was ended stays so. `LateGuesses` counts: whoever locks the
  address has left those past the check.
- `ClientKeepsTrying`, `EndsStay`, `AnnouncedEndsAreOnTheirWay` about `EventFeed`, for
  any bus, sockets and faults. An answer on its way never says of a task that it runs
  when the list has it as over, because whatever makes the list say so gives the fetch
  up. An announced end is held for a socket, asked for, in an answer or shown;
  `SocketInv` (who forwards what, and that no queue exceeds the bus) and the lemmas
  about a push that drops the oldest events carry it from one place to the next.
- `OutputInvariant`, `RecordingsStay`, `CompletedLead` about `OutputFiles`, for any
  names, settings, periods and clean-ups, among the tasks that share no names with
  others (`Alone`). In `OutputInv`, `Placed` keeps a task in its territory
  (names that begin with its stem), `OwnFiles` says that a task alone there has made
  all there is, `Phases` orders recorder and monitor, and `Kept` says where the whole
  recording is at each point of the monitor's way, or that it went astray.

The premises inside the properties are real limits of the code, not of the model:
without `Serialized`, `ReloadAlone` and `Alone` the properties fail, and dropped clients leave jobs and ffmpeg processes behind.

Only model-checked: the ten liveness properties (`RunningRowsSettle`,
`KillStopsRecorder`, `CallsReturn`, `DisabledScheduleStops`, `StartsReturn`,
`IdleSessionsClose`, `SilentSocketsClose`, `RunningHeals`, `EndsArrive`,
`ExpiredRowsGo`), since TLAPS has no backend for ENABLED under fairness here. For
four of them the safety that carries them is proved: the admission lock is with a
call that is about to give it back (`LockAlwaysGoesBack`, for `CallsReturn`); a start
has a bounded number of steps left and whoever holds the map can go on
(`StartsAreBounded`, `NoCircleOfWaiting`, for `StartsReturn` and `IdleSessionsClose`);
an announced end is on its way (`AnnouncedEndsAreOnTheirWay`, for `EndsArrive`). What
fairness adds is that the next step is taken. `LockHeldInside`, `HolderGoesOn` and
`StartsAdvance` are stated by theorems only and have no run of their own.

## 7. What is not modelled

- In the modelled parts: command lines, file names, log text, percentages and
  speeds; the post-processing of a file is one step of the monitor; the limit
  `max_concurrent` does not change during a run; next-run times. Functions nobody
  calls (`stop_recording`, `is_task_running`, `trigger_all`,
  `stop_channel_transcode`, `stop_all`) are left out.
- `EventFeed` leaves out percentages and speeds of progress, and the caches of
  channels, notifications and statistics, which are fetched the same way. That a
  client may for a while have a second socket nobody refers to is in the model, that
  it ends is not promised. `Access` leaves out roles, nicknames and the limiter's
  `cleanup`, which nobody calls; hashes and signatures are external and never fail.
  `ChannelImport` takes which addresses are acceptable as a constant. `OutputFiles`
  has no disk that fills up; realtime conversion is code nobody calls.
- A restart of the backend in `Scheduler` (the model starts at a boot, with any
  rows) and in `PreviewSessions` (planned).
- The parts marked `not_modelled` in `PROJECT.json`, each with its reason: those of
  the plan, and those that are sequential, pure I/O, parsing or rendering.
