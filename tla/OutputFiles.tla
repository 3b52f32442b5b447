----------------------------- MODULE OutputFiles -----------------------------
(***************************************************************************)
(* The files of recordings: which path a recording is given, what the      *)
(* recorder leaves there, which file the monitor takes for it, how that is *)
(* renamed and converted, and when clean-up removes row and file.          *)
(*                                                                         *)
(* Recorder and converter (N_m3u8DL-RE, ffmpeg) are external: a recorder   *)
(* writes one file, or none, under a name that begins with the one it was  *)
(* given.  How rows of tasks begin and end is the subject of Recording;    *)
(* here a row that is no longer running is over.                           *)
(***************************************************************************)
EXTENDS Naturals

CONSTANTS
    Tasks,
    Request,        \* what each task is started with
    Dirs,           \* directories under the root for recordings
    Root,
    Texts,          \* what templates and names can be given as
    Blank, NoText,  \* the empty text, a field that is not given
    Stems,          \* file names without extension
    Extends,        \* pairs <<s, r>> of stems where r begins with s
    Temporary,      \* stems that look temporary: with _temp or _tmpl in them
    Exts,           \* extensions
    Video,          \* those of video files
    NoExt,
    Cleaned,        \* the name a text becomes when it is rendered and cleaned
    ConfigMode,     \* recorder.post_process.mode
    OutputFormat,   \* and its output_format
    DeleteOriginal, \* delete_original
    Cleaners,       \* calls of run_once: the hourly one, manual ones
    Periods,        \* settings of storage.auto_cleanup_days
    Dates,          \* BOUND: the days, from day 0 on, on which something happens
    MaxFaults,      \* BOUND: crashes, recorders somebody kills, directories that
                    \* cannot be read, clean-ups that end early
    NoPath, NoFile, NoRow

\* A name may have an extension of its own: whatever follows its last dot.
Names    == [stem : Stems, ext : Exts \cup {NoExt}]
Paths    == [dir : Dirs, stem : Stems, ext : Exts]
Requests == [dir : Dirs \cup {"outside", Blank, NoText},
             template : Texts \cup {NoText}, name : Texts \cup {NoText},
             default : Names,
             mode : {NoText, Blank, "off", "realtime", "post"},
             engine : {"N_m3u8DL-RE", "ffmpeg"}]

ASSUME NamesAssumption ==
    /\ Request \in [Tasks -> Requests] /\ Cleaned \in [Texts -> Names]
    /\ Root \in Dirs /\ Blank \in Texts /\ NoText \notin Texts
    /\ NoExt \notin Exts /\ {"ts", "mp4"} \subseteq Video /\ Video \subseteq Exts
    /\ OutputFormat \in {"mp4", "mkv", "ts"} \cap Video
    /\ DeleteOriginal \in BOOLEAN
    /\ Dirs \cap {"outside", Blank, NoText} = {}
    /\ Periods \subseteq Nat /\ Dates \subseteq Nat /\ MaxFaults \in Nat

ASSUME ExtendsAssumption == \A s \in Stems : <<s, s>> \in Extends

-----------------------------------------------------------------------------
(* build_output_path                                                       *)

\* An empty template hides the name that was given.
ChosenName(q) ==
    CASE q.template \notin {NoText, Blank}             -> Cleaned[q.template]
      [] q.template = NoText /\ q.name # NoText        -> Cleaned[q.name]
      [] OTHER                                         -> q.default

OutputDir(q) == IF q.dir \in {NoText, Blank} THEN Root ELSE q.dir

EnsureExtension(name, mode) ==
    CASE name.ext # NoExt                                   -> name.ext
      [] name.ext = NoExt /\ mode \in {NoText, Blank, "off"} -> "ts"
      [] OTHER                                              -> "mp4"

\* build_post_processor: the mode that counts once the recording is there.
EffectiveMode(q) == IF q.mode \in {NoText, Blank} THEN ConfigMode ELSE q.mode

\* A directory outside the root is refused.
Admissible(t) == OutputDir(Request[t]) \in Dirs

Expected ==
    [t \in Tasks |->
        LET q == Request[t] IN
        [dir |-> OutputDir(q), stem |-> ChosenName(q).stem,
         ext |-> EnsureExtension(ChosenName(q), q.mode)]]

Family(s) == {r \in Stems : <<s, r>> \in Extends}

\* The paths a recorder may write for a task: ffmpeg the one it is told, the
\* other its stem with more behind it and an extension of its own choice.
Written ==
    [t \in Tasks |->
        IF Request[t].engine = "ffmpeg" THEN {Expected[t]}
        ELSE {p \in Paths : /\ p.dir = Expected[t].dir /\ p.ext \in Video
                            /\ p.stem \in Family(Expected[t].stem)}]

\* A file is what some task recorded, or converted: nothing of it yet, a part, or
\* the whole.
Contents == [by : Tasks, part : {"empty", "cut", "whole"}]
Status   == {"running", "completed", "over"}
Rows     == [status : Status, path : Paths, ended : Nat]

ASSUME NothingAssumption ==
    NoPath \notin Paths /\ NoFile \notin Contents /\ NoRow \notin Rows

VARIABLES
    rows,           \* status, output_path and the day of ended_at
    started,        \* tasks that were started; ids are never used again
    files,
    recorder,       \* where the recorder of a task is
    open,           \* the file it has open
    source,         \* what the converter of a task reads
    monitor,        \* where its monitor is
    at,             \* the file the monitor works on
    today, days,    \* the date, storage.auto_cleanup_days
    cleaner,        \* where a clean-up is
    keep,           \* the days it has read
    doomed,         \* what it has selected and not removed: task -> path
    recorded,       \* tasks whose recorder left a whole file (history)
    selected,       \* tasks some clean-up has selected (history)
    overlooked,     \* tasks whose directory could not be read (history)
    faults

task     == <<rows, started, recorder, monitor, at>>
disk     == <<files, open, source>>
clock    == <<today, days>>
cleanup  == <<cleaner, keep, doomed>>
history  == <<recorded, selected, overlooked, faults>>
vars     == <<task, disk, clock, cleanup, history>>

None == [t \in Tasks |-> NoPath]

Init ==
    /\ rows = [t \in Tasks |-> NoRow] /\ started = {}
    /\ files = [p \in Paths |-> NoFile]
    /\ recorder = [t \in Tasks |-> "off"] /\ open = None
    /\ source = [t \in Tasks |-> NoFile]
    /\ monitor = [t \in Tasks |-> "off"] /\ at = None
    /\ today = 0 /\ days \in Periods
    /\ cleaner = [c \in Cleaners |-> "idle"]
    /\ keep = [c \in Cleaners |-> 0]
    /\ doomed = [c \in Cleaners |-> None]
    /\ recorded = {} /\ selected = {} /\ overlooked = {} /\ faults = 0

HasRow(t)  == rows[t] # NoRow
Running(t) == HasRow(t) /\ rows[t].status = "running"
Ended(t)   == HasRow(t) /\ rows[t].status # "running"
Exists(p)  == files[p] # NoFile
Whole(t)   == [by |-> t, part |-> "whole"]

\* The file at p is gone; whoever has it open writes into nothing.
Unlink(p) ==
    /\ files' = [files EXCEPT ![p] = NoFile]
    /\ open' = [t \in Tasks |-> IF open[t] = p THEN NoPath ELSE open[t]]
    /\ UNCHANGED source

\* The monitor of t goes on at l with file p.
Goto(t, l, p) ==
    /\ monitor' = [monitor EXCEPT ![t] = l]
    /\ at' = [at EXCEPT ![t] = p]

\* get_output_path: where the file the monitor has is converted to.
Output(t) == [at[t] EXCEPT !.ext = OutputFormat]

-----------------------------------------------------------------------------
(* The recorder.                                                           *)

\* start_manual, once it has been admitted and the process is there.
Start(t) ==
    /\ t \notin started /\ Admissible(t)
    /\ started' = started \cup {t}
    /\ rows' = [rows EXCEPT ![t] = [status |-> "running", path |-> Expected[t],
                                    ended |-> 0]]
    /\ recorder' = [recorder EXCEPT ![t] = "started"]
    /\ Goto(t, "watch", NoPath)
    /\ UNCHANGED <<disk, clock, cleanup, history>>

\* The recorder creates its file or, told so with -y, truncates what is there.
Open(t, p) ==
    /\ recorder[t] = "started" /\ p \in Written[t]
    /\ recorder' = [recorder EXCEPT ![t] = "writing"]
    /\ files' = [files EXCEPT ![p] = [by |-> t, part |-> "empty"]]
    /\ open' = [open EXCEPT ![t] = p]
    /\ UNCHANGED <<rows, started, monitor, at, source, clock, cleanup, history>>

\* It, or later the converter, has written something.
FirstBytes(t, p) ==
    /\ \/ recorder[t] = "writing" /\ p = open[t]
       \/ monitor[t] \in {"convert", "orphan"} /\ p = Output(t)
    /\ p # NoPath /\ Exists(p) /\ files[p].part = "empty"
    /\ files' = [files EXCEPT ![p].part = "cut"]
    /\ UNCHANGED <<task, open, source, clock, cleanup, history>>

Fault == faults < MaxFaults /\ faults' = faults + 1

\* The process is gone, and its monitor, if there is one, goes on at l.
RecorderGone(t, l) ==
    /\ recorder[t] # "off" /\ recorder' = [recorder EXCEPT ![t] = "off"]
    /\ monitor' = [monitor EXCEPT ![t] = IF @ = "watch" THEN l ELSE @]
    /\ open' = [open EXCEPT ![t] = NoPath]
    /\ UNCHANGED <<rows, started, at, source, clock, cleanup, selected, overlooked>>

\* Exit code 0, with the whole recording, with an empty file or without one.
RecorderDone(t) ==
    /\ RecorderGone(t, "find")
    /\ IF open[t] = NoPath \/ files[open[t]].part = "empty"
       THEN UNCHANGED <<files, recorded>>
       ELSE /\ files' = [files EXCEPT ![open[t]] = Whole(t)]
            /\ recorded' = recorded \cup {t}
    /\ UNCHANGED faults

\* No exit code: cancel, or somebody else, has killed it.  The waiter publishes
\* Completed all the same.
RecorderKilled(t) ==
    /\ RecorderGone(t, "find") /\ UNCHANGED <<files, recorded>>
    /\ IF Running(t) THEN Fault ELSE UNCHANGED faults

\* Another exit code.
RecorderFails(t) == RecorderGone(t, "failed") /\ UNCHANGED <<files, recorded, faults>>

-----------------------------------------------------------------------------
(* The monitor, once its recorder has ended.                               *)

\* What find_actual_output_file may take for the file of p.
Candidates(p) == {q \in Paths : /\ Exists(q) /\ files[q].part # "empty"
                                /\ q.dir = p.dir /\ q.ext \in Video
                                /\ q.stem \in Family(p.stem) \ Temporary}

\* The newest of them, which others that are written to may be at any time.
Find(t) ==
    LET p == Expected[t] IN
    /\ monitor[t] = "find"
    /\ \E q \in IF Exists(p) \/ Candidates(p) = {} THEN {p} ELSE Candidates(p) :
          Goto(t, "rename", q)
    /\ UNCHANGED <<rows, started, recorder, disk, clock, cleanup, history>>

\* The directory cannot be read, or only in part.
FindFails(t) ==
    /\ monitor[t] = "find" /\ ~Exists(Expected[t]) /\ Fault
    /\ Goto(t, "rename", Expected[t]) /\ overlooked' = overlooked \cup {t}
    /\ UNCHANGED <<rows, started, recorder, disk, clock, cleanup, recorded, selected>>

\* The expected stem with the extension of the file that was found.  Rename
\* replaces what is there, and open files move along.
Rename(t) ==
    LET old == at[t]
        new == [Expected[t] EXCEPT !.ext = old.ext]
    IN
    /\ monitor[t] = "rename"
    /\ IF old = Expected[t] \/ ~Exists(old) \/ new = old
       THEN Goto(t, "process", old) /\ UNCHANGED disk
       ELSE /\ Goto(t, "process", new)
            /\ files' = [files EXCEPT ![new] = files[old], ![old] = NoFile]
            /\ open' = [u \in Tasks |-> CASE open[u] = old -> new
                                          [] open[u] = new -> NoPath
                                          [] OTHER         -> open[u]]
            /\ UNCHANGED source
    /\ UNCHANGED <<rows, started, recorder, clock, cleanup, history>>

\* The rename is refused.
RenameFails(t) ==
    /\ monitor[t] = "rename" /\ at[t] # Expected[t]
    /\ Goto(t, "process", at[t])
    /\ UNCHANGED <<rows, started, recorder, disk, clock, cleanup, history>>

\* PostProcessor::process: there is nothing to do, or ffmpeg does not start; it
\* refuses to work on a file in place.
NoProcess(t) ==
    /\ monitor[t] = "process" /\ Goto(t, "write", at[t])
    /\ UNCHANGED <<rows, started, recorder, disk, clock, cleanup, history>>

\* ffmpeg opens its input and, told so with -y, truncates its output.
Process(t) ==
    /\ monitor[t] = "process" /\ EffectiveMode(Request[t]) = "post"
    /\ Exists(at[t]) /\ Output(t) # at[t]
    /\ Goto(t, "convert", at[t])
    /\ source' = [source EXCEPT ![t] = files[at[t]]]
    /\ files' = [files EXCEPT ![Output(t)] = [by |-> files[at[t]].by, part |-> "empty"]]
    /\ UNCHANGED <<rows, started, recorder, open, clock, cleanup, history>>

\* ffmpeg has ended, and the monitor goes on at l; one that has died (orphan) takes
\* no notice of it.
ConverterGone(t, l) ==
    /\ monitor[t] \in {"convert", "orphan"}
    /\ IF monitor[t] = "convert" THEN Goto(t, l, at[t]) ELSE Goto(t, "off", NoPath)
    /\ source' = [source EXCEPT ![t] = NoFile]
    /\ UNCHANGED <<rows, started, recorder, open, clock, cleanup, history>>

\* It has converted all that it read.
Converted(t) ==
    /\ ConverterGone(t, "original")
    /\ files' = [files EXCEPT ![Output(t)] = IF @ = NoFile THEN @ ELSE source[t]]

\* Faulty variant: a conversion that failed is taken for one that did not.
ConvertFails_Unnoticed(t) == ConverterGone(t, "original") /\ UNCHANGED files

\* The original stays the recording; what was converted so far is left there.
ConvertFails(t) == ConverterGone(t, "write") /\ UNCHANGED files

\* The output is there, or the attempt has failed after all; then the original is
\* removed if that is wanted and can be done.
Original(t) ==
    /\ monitor[t] = "original"
    /\ IF ~Exists(Output(t))
       THEN Goto(t, "write", at[t]) /\ UNCHANGED disk
       ELSE /\ Goto(t, "write", Output(t))
            /\ \/ DeleteOriginal /\ Unlink(at[t])
               \/ UNCHANGED disk
    /\ UNCHANGED <<rows, started, recorder, clock, cleanup, history>>

\* Faulty variant: the row keeps the path it was given at first.
WriteBack_Expected(t) ==
    /\ monitor[t] \in {"write", "failed"} /\ Goto(t, "off", NoPath)
    /\ rows' = IF ~Running(t) THEN rows
               ELSE [rows EXCEPT ![t].ended = today, ![t].status =
                        IF monitor[t] = "write" THEN "completed" ELSE "over"]
    /\ UNCHANGED <<started, recorder, disk, clock, cleanup, history>>

\* Only a row that is still running is written to.
WriteBack(t) ==
    /\ monitor[t] \in {"write", "failed"} /\ Goto(t, "off", NoPath)
    /\ rows' = CASE ~Running(t) -> rows
                 [] Running(t) /\ monitor[t] = "write" ->
                        [rows EXCEPT ![t] = [status |-> "completed",
                                             path |-> at[t], ended |-> today]]
                 [] OTHER -> [rows EXCEPT ![t].status = "over",
                                          ![t].ended = today]
    /\ UNCHANGED <<started, recorder, disk, clock, cleanup, history>>

-----------------------------------------------------------------------------
(* What else happens to rows and processes.                                *)

\* cancel_task, or the inspector: the row is over before the monitor is heard.
Interrupt(t) ==
    /\ Running(t)
    /\ rows' = [rows EXCEPT ![t].status = "over", ![t].ended = today]
    /\ UNCHANGED <<started, recorder, monitor, at, disk, clock, cleanup, history>>

\* delete_task leaves the file where it is.
DeleteRow(t) ==
    /\ Ended(t) /\ rows' = [rows EXCEPT ![t] = NoRow]
    /\ UNCHANGED <<started, recorder, monitor, at, disk, clock, cleanup, history>>

\* The backend goes down and boots again: running rows have failed, monitors and
\* clean-ups are gone, recorders and converters work on.
Crash ==
    /\ Fault
    /\ rows' = [t \in Tasks |->
           IF Running(t) THEN [rows[t] EXCEPT !.status = "over", !.ended = today]
                         ELSE rows[t]]
    /\ monitor' = [t \in Tasks |-> IF monitor[t] \in {"convert", "orphan"}
                                   THEN "orphan" ELSE "off"]
    /\ at' = [t \in Tasks |-> IF monitor[t] \in {"convert", "orphan"}
                              THEN at[t] ELSE NoPath]
    /\ cleaner' = [c \in Cleaners |-> "idle"]
    /\ keep' = [c \in Cleaners |-> 0] /\ doomed' = [c \in Cleaners |-> None]
    /\ UNCHANGED <<started, recorder, disk, clock, recorded, selected, overlooked>>

NextDay ==
    /\ today' \in {d \in Dates : d > today}
    /\ UNCHANGED <<task, disk, days, cleanup, history>>

SetDays(n) ==
    /\ days' = n
    /\ UNCHANGED <<task, disk, today, cleanup, history>>

-----------------------------------------------------------------------------
(* CleanupService::run_once                                                *)

\* The condition compares texts that begin with the date and go on with T in the
\* row and with a blank in what datetime returns, so that dates decide: the row
\* of a recording that ended on the last day to keep is kept, whatever the hour.
Expired(t, n) == Ended(t) /\ rows[t].ended + n < today

Select(c) ==
    LET old == {t \in Tasks : Expired(t, days)} IN
    /\ cleaner[c] = "idle"
    /\ cleaner' = [cleaner EXCEPT ![c] = "remove"]
    /\ keep' = [keep EXCEPT ![c] = days]
    /\ doomed' = [doomed EXCEPT ![c] =
                     [t \in Tasks |-> IF t \in old THEN rows[t].path ELSE NoPath]]
    /\ selected' = selected \cup old
    /\ UNCHANGED <<task, disk, clock, recorded, overlooked, faults>>

Handled(c, t) ==
    /\ cleaner[c] = "remove" /\ doomed[c][t] # NoPath
    /\ doomed' = [doomed EXCEPT ![c][t] = NoPath]
    /\ UNCHANGED <<task, clock, cleaner, keep, history>>

\* Faulty variant: a file that is missing already stops the run.
Remove_Existing(c, t) ==
    Handled(c, t) /\ Exists(doomed[c][t]) /\ Unlink(doomed[c][t])

\* remove_recording_file
Remove(c, t) == Handled(c, t) /\ Unlink(doomed[c][t])

\* The file is not to be removed: an alert is sent, the row goes all the same.
RemoveFails(c, t) == Handled(c, t) /\ Exists(doomed[c][t]) /\ UNCHANGED disk

\* The condition is evaluated again.
Purge(c) ==
    /\ cleaner[c] = "remove" /\ doomed[c] = None
    /\ rows' = [t \in Tasks |-> IF Expired(t, keep[c]) THEN NoRow ELSE rows[t]]
    /\ cleaner' = [cleaner EXCEPT ![c] = "idle"]
    /\ keep' = [keep EXCEPT ![c] = 0]
    /\ UNCHANGED <<started, recorder, monitor, at, disk, clock, doomed, history>>

\* A query errs, or the client of a manual run hangs up.
CleanupFails(c) ==
    /\ cleaner[c] = "remove" /\ Fault
    /\ cleaner' = [cleaner EXCEPT ![c] = "idle"]
    /\ keep' = [keep EXCEPT ![c] = 0]
    /\ doomed' = [doomed EXCEPT ![c] = None]
    /\ UNCHANGED <<task, disk, clock, recorded, selected, overlooked>>

-----------------------------------------------------------------------------
MonitorStep(t) ==
    \/ Find(t) \/ FindFails(t) \/ Rename(t) \/ RenameFails(t) \/ NoProcess(t) \/ Process(t)
    \/ Converted(t) \/ ConvertFails(t) \/ Original(t) \/ WriteBack(t)

CleanupStep(c) ==
    \/ Select(c) \/ Purge(c)
    \/ \E t \in Tasks : Remove(c, t) \/ RemoveFails(c, t)

Next ==
    \/ \E t \in Tasks :
          \/ Start(t) \/ RecorderDone(t) \/ RecorderKilled(t) \/ RecorderFails(t)
          \/ \E p \in Paths : Open(t, p) \/ FirstBytes(t, p)
          \/ MonitorStep(t) \/ Interrupt(t) \/ DeleteRow(t)
    \/ \E c \in Cleaners : CleanupStep(c) \/ CleanupFails(c)
    \/ \E n \in Periods : SetDays(n)
    \/ NextDay \/ Crash

Spec == Init /\ [][Next]_vars

\* The loop of start comes back every hour, and a run that is not cut short comes
\* to its end.
FairSpec == Spec /\ \A c \in Cleaners : WF_vars(CleanupStep(c))

-----------------------------------------------------------------------------
(* What must hold.                                                         *)

\* Where the files of t may lie, and that nobody else has the same names.
Territory ==
    [t \in Tasks |-> {p \in Paths : /\ p.dir = Expected[t].dir
                                    /\ p.stem \in Family(Expected[t].stem)}]

Alone == {t \in Tasks : \A u \in Tasks \ {t} : Territory[u] \cap Territory[t] = {}}

Completed(t)  == HasRow(t) /\ rows[t].status = "completed"
IsWhole(t, p) == p # NoPath /\ files[p] = Whole(t)

\* The whole recording lies where the monitor does not look for it, or has not seen
\* it because the directory could not be read.
Astray(t) == \E p \in Written[t] :
                IsWhole(t, p) /\ (p.stem \in Temporary \/ t \in overlooked)

\* The path leads to the whole recording, or else to nothing.
Leads(t, p) == IsWhole(t, p) \/ (~Exists(p) /\ Astray(t))

\* Where a monitor has a file to work on.
AtWork == {"rename", "process", "convert", "orphan", "original", "write"}

TypeOK ==
    /\ rows \in [Tasks -> Rows \cup {NoRow}]
    /\ started \subseteq Tasks
    /\ files \in [Paths -> Contents \cup {NoFile}]
    /\ recorder \in [Tasks -> {"off", "started", "writing"}]
    /\ open \in [Tasks -> Paths \cup {NoPath}]
    /\ source \in [Tasks -> Contents \cup {NoFile}]
    /\ monitor \in [Tasks -> {"off", "watch", "failed", "find", "rename",
                              "process", "convert", "orphan", "original",
                              "write"}]
    /\ at \in [Tasks -> Paths \cup {NoPath}]
    /\ today \in Nat /\ days \in Nat
    /\ cleaner \in [Cleaners -> {"idle", "remove"}] /\ keep \in [Cleaners -> Nat]
    /\ doomed \in [Cleaners -> [Tasks -> Paths \cup {NoPath}]]
    /\ recorded \subseteq Tasks /\ selected \subseteq Tasks
    /\ overlooked \subseteq Tasks /\ faults \in Nat

\* A recording that came to its end whole is on disk until clean-up has selected
\* its row, if no other task has names like its own: renaming, a conversion that
\* fails half way, a crash while it runs, cancellation, and clean-up of other rows
\* leave it there (services/recording.rs, the monitor; services/post_process.rs,
\* process; services/cleanup.rs, run_once).
RecordingsKept ==
    \A t \in (recorded \ selected) \cap Alone : \E p \in Paths : IsWhole(t, p)

\* The path in the completed row of such a task leads to the whole recording, not to
\* a partial conversion or to nothing.  It leads to nothing only if the recorder gave
\* the file another name than was expected, and that looks temporary or the directory
\* could not be read (services/recording.rs, find_actual_output_file and the monitor).
CompletedPathsLead ==
    \A t \in (recorded \ selected) \cap Alone : Completed(t) => Leads(t, rows[t].path)

\* The inductive invariant behind them: files are touched in their own territory;
Placed(t) ==
    /\ t \in started => Admissible(t)
    /\ HasRow(t) => rows[t].path \in Territory[t]
    /\ monitor[t] \in AtWork <=> at[t] # NoPath
    /\ at[t] # NoPath => at[t] \in Territory[t]
    /\ monitor[t] \in {"convert", "orphan"} <=> source[t] # NoFile
    /\ \A c \in Cleaners : doomed[c][t] # NoPath =>
          doomed[c][t] \in Territory[t] /\ t \in selected

\* a task is started once, and its monitor goes on when its recorder has ended;
Phases(t) ==
    /\ t \notin started => /\ recorder[t] = "off" /\ monitor[t] = "off"
                           /\ ~HasRow(t) /\ t \notin recorded \cup selected
    /\ recorder[t] # "off" => monitor[t] \in {"watch", "off"} /\ t \notin recorded
    /\ monitor[t] = "watch" => recorder[t] # "off"
    /\ monitor[t] = "failed" => t \notin recorded
    /\ Completed(t) => monitor[t] = "off" /\ recorder[t] = "off"
    /\ monitor[t] \in {"convert", "original"} => Output(t) # at[t]
    /\ recorder[t] # "writing" => open[t] = NoPath

\* who is alone in a territory has made what is there;
OwnFiles(t) == t \in Alone =>
    /\ open[t] \in Written[t] \cup {NoPath}
    /\ source[t] # NoFile => source[t].by = t
    /\ \A u \in Tasks \ {t} : open[u] \notin Territory[t]
    /\ \A p \in Territory[t] : Exists(p) =>
          /\ files[p].by = t
          /\ t \in started /\ recorder[t] # "started"
          /\ recorder[t] = "writing" => p = open[t]

\* and what was recorded whole is where the monitor, or the row, says.
Kept(t) == t \in Alone /\ t \in recorded \ selected =>
    /\ monitor[t] = "find" =>
          /\ \E p \in Written[t] : IsWhole(t, p)
          /\ \A p \in Territory[t] : Exists(p) => IsWhole(t, p)
    /\ monitor[t] \in AtWork => Leads(t, at[t])
    /\ monitor[t] \in {"convert", "orphan", "original"} => IsWhole(t, at[t])
    /\ source[t] # NoFile => source[t] = Whole(t)
    /\ monitor[t] = "original" /\ Exists(Output(t)) => IsWhole(t, Output(t))
    /\ monitor[t] = "off" => \E p \in Territory[t] : IsWhole(t, p)
    /\ Completed(t) => Leads(t, rows[t].path)

OutputInv ==
    TypeOK /\ \A t \in Tasks : Placed(t) /\ Phases(t) /\ OwnFiles(t) /\ Kept(t)

\* Rows beyond the days to keep go, even when their files cannot be removed or are
\* gone already, unless the setting changes (services/cleanup.rs, start).  Nothing is
\* asked of a period of 0, which docs/api.md:464 says disables the clean-up.
ExpiredRowsGo ==
    \A t \in Tasks : (days > 0 /\ Expired(t, days)) ~> ~(days > 0 /\ Expired(t, days))

=============================================================================
