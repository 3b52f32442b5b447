--------------------------- MODULE OutputFilesProofs ---------------------------
(***************************************************************************)
(* Proofs about OutputFiles, for any tasks, names, settings, days and      *)
(* clean-ups: a recording that came to its end whole stays on disk, and    *)
(* its row leads to it, until clean-up selects the row.                    *)
(***************************************************************************)
EXTENDS OutputFiles, TLAPS

USE NothingAssumption

-----------------------------------------------------------------------------
(* Names and places.                                                       *)

\* The path a task is given is a path, if its directory is allowed.
LEMMA ExpectedType ==
    ASSUME NEW t \in Tasks, Admissible(t) PROVE Expected[t] \in Paths
<1> DEFINE q == Request[t]
<1>1. q \in Requests /\ OutputDir(q) \in Dirs
  BY NamesAssumption DEF Admissible
<1>2. ChosenName(q) \in Names
  BY <1>1, NamesAssumption DEF ChosenName, Requests
<1>3. EnsureExtension(ChosenName(q), q.mode) \in Exts
  BY <1>1, <1>2, NamesAssumption DEF EnsureExtension, Names
<1>4. ChosenName(q).stem \in Stems
  BY <1>2 DEF Names
<1>5. Expected[t] = [dir |-> OutputDir(q), stem |-> ChosenName(q).stem,
                     ext |-> EnsureExtension(ChosenName(q), q.mode)]
  BY DEF Expected
<1>6. ASSUME NEW d \in Dirs, NEW s \in Stems, NEW e \in Exts
      PROVE  [dir |-> d, stem |-> s, ext |-> e] \in Paths
  BY DEF Paths
<1>7. QED  BY <1>1, <1>3, <1>4, <1>5, <1>6

\* A territory holds the path a task is given, with any extension, what its recorder
\* may write, and what the monitor may find.
LEMMA TerritoryFacts ==
    ASSUME NEW t \in Tasks
    PROVE  /\ Territory[t] \subseteq Paths /\ Written[t] \subseteq Paths \cup {Expected[t]}
           /\ Admissible(t) =>
                 /\ Expected[t] \in Territory[t] /\ Written[t] \subseteq Territory[t]
                 /\ Candidates(Expected[t]) \subseteq Territory[t]
           /\ \A p \in Territory[t], e \in Exts :
                 /\ [p EXCEPT !.ext = e] \in Territory[t]
                 /\ Admissible(t) => [Expected[t] EXCEPT !.ext = e] \in Territory[t]
<1>1. Territory[t] \subseteq Paths /\ Written[t] \subseteq Paths \cup {Expected[t]}
  BY DEF Territory, Written
<1>2. ASSUME Admissible(t)
      PROVE  /\ Expected[t] \in Territory[t] /\ Written[t] \subseteq Territory[t]
             /\ Candidates(Expected[t]) \subseteq Territory[t]
             /\ \A e \in Exts : [Expected[t] EXCEPT !.ext = e] \in Territory[t]
  <2>1. Expected[t] \in Paths
    BY <1>2, ExpectedType
  <2>2. Expected[t].stem \in Family(Expected[t].stem)
    BY <2>1, ExtendsAssumption DEF Paths, Family
  <2>3. Expected[t] \in Territory[t]
    BY <2>1, <2>2 DEF Territory
  <2>4. \A e \in Exts : [Expected[t] EXCEPT !.ext = e] \in Territory[t]
    BY <2>1, <2>2 DEF Territory, Paths
  <2>5. QED  BY <2>3, <2>4 DEF Written, Territory, Candidates
<1>3. \A p \in Territory[t], e \in Exts : [p EXCEPT !.ext = e] \in Territory[t]
  BY DEF Territory, Paths
<1>4. QED  BY <1>1, <1>2, <1>3

\* Nothing lies both in the territory of a task that is alone and in another's.
LEMMA AloneFacts ==
    ASSUME NEW t \in Alone, NEW u \in Tasks \ {t}, NEW p \in Territory[u]
    PROVE  p \notin Territory[t]
BY DEF Alone

-----------------------------------------------------------------------------
(* What the actions leave alone.                                           *)

\* Nothing of task t changes.
Untouched(t) ==
    /\ rows'[t] = rows[t] /\ (t \in started' <=> t \in started)
    /\ recorder'[t] = recorder[t] /\ monitor'[t] = monitor[t] /\ at'[t] = at[t]
    /\ source'[t] = source[t]
    /\ (t \in recorded' <=> t \in recorded) /\ (t \in overlooked => t \in overlooked')

\* The files in its territory stay as they are, and nobody else opens one there.
SameFiles(t) ==
    /\ \A p \in Territory[t] : files'[p] = files[p]
    /\ open'[t] = open[t]
    /\ \A u \in Tasks \ {t} : open'[u] \in Territory[t] => open[u] \in Territory[t]

\* The same of them exist, and the same are whole.
SameLooks(t) ==
    \A p \in Territory[t] : /\ files'[p] = NoFile <=> files[p] = NoFile
                            /\ files'[p] = Whole(t) <=> files[p] = Whole(t)

LEMMA OwnFrame ==
    ASSUME NEW t \in Tasks, OwnFiles(t), SameFiles(t), source'[t] \in {source[t], NoFile},
           t \in started => t \in started',
           recorder'[t] = recorder[t] \/ (recorder'[t] = "off" /\ recorder[t] # "started")
    PROVE  OwnFiles(t)'
BY DEF OwnFiles, SameFiles, Exists

\* What the monitor works on lies in its task's territory.
LEMMA AtWorkFacts ==
    ASSUME NEW t \in Tasks, Placed(t), monitor[t] \in AtWork
    PROVE  /\ at[t] \in Territory[t] /\ at[t] \in Paths /\ at[t] # NoPath
           /\ Output(t) \in Territory[t] /\ Output(t) \in Paths
<1>1. at[t] \in Territory[t] /\ at[t] # NoPath
  BY DEF Placed
<1>2. OutputFormat \in Exts
  BY NamesAssumption
<1>3. Output(t) \in Territory[t]
  BY <1>1, <1>2, TerritoryFacts DEF Output
<1>4. QED  BY <1>1, <1>3, TerritoryFacts

\* A whole recording exists.
LEMMA WholeFacts ==
    ASSUME NEW t \in Tasks
    PROVE  /\ Whole(t) \in Contents /\ Whole(t) # NoFile
           /\ Whole(t).by = t /\ Whole(t).part = "whole"
           /\ \A p : IsWhole(t, p) => Exists(p) /\ Leads(t, p)
<1>1. Whole(t) \in Contents /\ Whole(t).by = t /\ Whole(t).part = "whole"
  BY DEF Whole, Contents
<1>2. QED  BY <1>1 DEF IsWhole, Exists, Leads

\* A path in a task's territory leads where it led while the files there stay.
LEMMA LeadsKept ==
    ASSUME NEW t \in Tasks, Admissible(t), SameLooks(t),
           t \in overlooked => t \in overlooked'
    PROVE  \A p \in Territory[t] : Leads(t, p) => Leads(t, p)'
<1>1. Written[t] \subseteq Territory[t]
  BY TerritoryFacts
<1>2. \A p \in Territory[t] : (IsWhole(t, p)' <=> IsWhole(t, p)) /\ (Exists(p)' <=> Exists(p))
  BY DEF SameLooks, IsWhole, Exists, Whole
<1>3. Astray(t) => Astray(t)'
  BY <1>1, <1>2 DEF Astray
<1>4. QED  BY <1>2, <1>3 DEF Leads

\* What leads to a recording that is there leads to a whole one.
LEMMA LeadsThere ==
    ASSUME NEW t \in Tasks, NEW p, Leads(t, p), Exists(p)
    PROVE  IsWhole(t, p)
BY DEF Leads

LEMMA KeptFrame ==
    ASSUME NEW t \in Tasks, Kept(t), Placed(t), SameLooks(t),
           t \in recorded => Admissible(t),
           monitor'[t] = monitor[t], at'[t] = at[t], source'[t] = source[t],
           t \in recorded' => t \in recorded, t \in selected => t \in selected',
           t \in overlooked => t \in overlooked',
           Completed(t)' => Completed(t) /\ rows'[t] = rows[t]
    PROVE  Kept(t)'
<1> SUFFICES ASSUME t \in Alone, t \in recorded' \ selected' PROVE Kept(t)'
  BY DEF Kept
<1>1. t \in recorded \ selected /\ Admissible(t)
  OBVIOUS
<1>2. \A p \in Territory[t] : (IsWhole(t, p)' <=> IsWhole(t, p)) /\ (Exists(p)' <=> Exists(p))
  BY DEF SameLooks, IsWhole, Exists, Whole
<1>3. \A p \in Territory[t] : Leads(t, p) => Leads(t, p)'
  BY <1>1, LeadsKept
<1>4. Completed(t)' => Leads(t, rows[t].path)'
  <2>1. ASSUME Completed(t)' PROVE Leads(t, rows[t].path) /\ rows[t].path \in Territory[t]
    BY <1>1, <2>1 DEF Kept, Placed, Completed
  <2>2. QED  BY <1>3, <2>1
<1>5. source'[t] # NoFile => source'[t] = Whole(t)
  BY <1>1 DEF Kept
<1>6. CASE monitor[t] = "find"
  <2>1. Written[t] \subseteq Territory[t]
    BY <1>1, TerritoryFacts
  <2>2. /\ \E p \in Written[t] : IsWhole(t, p)
        /\ \A p \in Territory[t] : Exists(p) => IsWhole(t, p)
    BY <1>1, <1>6 DEF Kept
  <2>3. QED  BY <1>2, <1>4, <1>5, <1>6, <2>1, <2>2 DEF Kept, AtWork, Whole
<1>7. CASE monitor[t] \in AtWork
  <2>1. /\ at[t] \in Territory[t] /\ Output(t) \in Territory[t] /\ Output(t)' = Output(t)
    BY <1>7, AtWorkFacts DEF Output
  <2>2. /\ Leads(t, at[t])
        /\ monitor[t] \in {"convert", "orphan", "original"} => IsWhole(t, at[t])
        /\ monitor[t] = "original" /\ Exists(Output(t)) => IsWhole(t, Output(t))
    BY <1>1, <1>7 DEF Kept
  <2>3. Leads(t, at[t])'
    BY <1>3, <2>1, <2>2
  <2>4. monitor[t] \in {"convert", "orphan", "original"} => IsWhole(t, at[t])'
    BY <1>2, <2>1, <2>2
  <2>5. monitor[t] = "original" /\ Exists(Output(t))' => IsWhole(t, Output(t))'
    BY <1>2, <2>1, <2>2
  <2>6. QED  BY <1>4, <1>5, <1>7, <2>3, <2>4, <2>5 DEF Kept, AtWork, Whole
<1>8. CASE monitor[t] \notin AtWork \cup {"find"}
  <2>1. monitor[t] = "off" => \E p \in Territory[t] : IsWhole(t, p)
    BY <1>1 DEF Kept
  <2>2. QED  BY <1>2, <1>4, <1>5, <1>8, <2>1 DEF Kept, AtWork, Whole
<1>9. QED  BY <1>6, <1>7, <1>8

-----------------------------------------------------------------------------
(* The types.                                                              *)

\* A monitor at work belongs to a task that was admitted.
LEMMA StartedFacts ==
    ASSUME NEW t \in Tasks, Placed(t), Phases(t)
    PROVE  monitor[t] # "off" \/ recorder[t] # "off" \/ HasRow(t)
               => t \in started /\ Admissible(t)
BY DEF Placed, Phases

LEMMA RecordedFacts ==
    ASSUME NEW t \in Tasks, Placed(t), Phases(t)
    PROVE  t \in recorded => Admissible(t)
BY DEF Placed, Phases

TaskAction(t) ==
    \/ Start(t) \/ RecorderDone(t) \/ RecorderKilled(t) \/ RecorderFails(t)
    \/ \E p \in Paths : Open(t, p) \/ FirstBytes(t, p)
    \/ MonitorStep(t) \/ Interrupt(t) \/ DeleteRow(t)

CleanAction(c) == CleanupStep(c) \/ CleanupFails(c)

LEMMA NextActions ==
    ASSUME [Next]_vars
    PROVE  \/ \E t \in Tasks : TaskAction(t)
           \/ \E c \in Cleaners : CleanAction(c)
           \/ \E n \in Periods : SetDays(n)
           \/ NextDay \/ Crash \/ UNCHANGED vars
BY DEF Next, TaskAction, CleanAction

\* The row of a task that ends.
LEMMA RowType ==
    ASSUME NEW st \in Status, NEW p \in Paths, NEW n \in Nat
    PROVE  [status |-> st, path |-> p, ended |-> n] \in Rows
BY DEF Rows

LEMMA RowUpdated ==
    ASSUME NEW r \in Rows, NEW st \in Status, NEW n \in Nat
    PROVE  /\ [r EXCEPT !.status = st, !.ended = n] \in Rows
           /\ [r EXCEPT !.status = st, !.ended = n].path = r.path
           /\ [r EXCEPT !.status = st, !.ended = n].status = st
BY DEF Rows

LEMMA ContentsUpdated ==
    ASSUME NEW f \in Contents, NEW w \in {"empty", "cut", "whole"}
    PROVE  /\ [f EXCEPT !.part = w] \in Contents /\ [by |-> f.by, part |-> w] \in Contents
           /\ [f EXCEPT !.part = w] = [by |-> f.by, part |-> w]
BY DEF Contents

\* What an action of a task does, in types.
LEMMA TaskTypeStep ==
    ASSUME OutputInv, NEW t \in Tasks, TaskAction(t) PROVE TypeOK'
<1> USE DEF task, disk, clock, cleanup, history
<1>0. TypeOK /\ Placed(t) /\ Phases(t)
  BY DEF OutputInv
<1>1. CASE Start(t)
  <2>1. Expected[t] \in Paths
    BY <1>1, ExpectedType DEF Start
  <2>2. [status |-> "running", path |-> Expected[t], ended |-> 0] \in Rows
    BY <2>1, RowType DEF Status
  <2>3. QED  BY <1>0, <1>1, <2>2 DEF Start, Goto, TypeOK
<1>2. CASE RecorderDone(t) \/ RecorderKilled(t) \/ RecorderFails(t)
  <2>1. PICK l \in {"find", "failed"} : RecorderGone(t, l)
    BY <1>2 DEF RecorderDone, RecorderKilled, RecorderFails
  <2>2. /\ files' \in [Paths -> Contents \cup {NoFile}] /\ recorded' \subseteq Tasks
    <3>1. /\ files \in [Paths -> Contents \cup {NoFile}] /\ recorded \subseteq Tasks
          /\ open \in [Tasks -> Paths \cup {NoPath}]
      BY <1>0 DEF TypeOK
    <3>2. \/ UNCHANGED <<files, recorded>>
          \/ /\ open[t] # NoPath /\ files' = [files EXCEPT ![open[t]] = Whole(t)]
             /\ recorded' = recorded \cup {t}
      BY <1>2 DEF RecorderDone, RecorderKilled, RecorderFails
    <3>3. QED  BY <3>1, <3>2, WholeFacts
  <2>3. faults' \in Nat
    BY <1>0, <1>2 DEF RecorderDone, RecorderKilled, RecorderFails, Fault, TypeOK
  <2>4. QED  BY <1>0, <2>1, <2>2, <2>3 DEF RecorderGone, TypeOK
<1>3. ASSUME NEW p \in Paths, FirstBytes(t, p) PROVE TypeOK'
  <2>1. files[p] \in Contents
    BY <1>0, <1>3 DEF FirstBytes, Exists, TypeOK
  <2>2. [files[p] EXCEPT !.part = "cut"] \in Contents
    BY <2>1, ContentsUpdated
  <2>3. files' = [files EXCEPT ![p] = [files[p] EXCEPT !.part = "cut"]]
    BY <1>3 DEF FirstBytes
  <2>4. QED  BY <1>0, <1>3, <2>2, <2>3 DEF FirstBytes, TypeOK
<1>4. ASSUME NEW p \in Paths, Open(t, p) PROVE TypeOK'
  BY <1>0, <1>4 DEF Open, TypeOK, Contents
<1>5. CASE Find(t)
  <2>1. \A q \in Candidates(Expected[t]) : q \in Paths
    BY DEF Candidates
  <2>2. Expected[t] \in Paths
    BY <1>0, <1>5, StartedFacts, ExpectedType DEF Find
  <2>3. QED  BY <1>0, <1>5, <2>1, <2>2 DEF Find, Goto, TypeOK
<1>51. CASE FindFails(t)
  <2>1. Expected[t] \in Paths
    BY <1>0, <1>51, StartedFacts, ExpectedType DEF FindFails
  <2>2. QED  BY <1>0, <1>51, <2>1 DEF FindFails, Goto, Fault, TypeOK
<1>6. CASE Rename(t)
  <2> DEFINE new == [Expected[t] EXCEPT !.ext = at[t].ext]
  <2>1. at[t] \in Paths /\ Admissible(t)
    BY <1>0, <1>6, AtWorkFacts, StartedFacts DEF Rename, AtWork
  <2>2. at[t].ext \in Exts
    BY <2>1 DEF Paths
  <2>3. new \in Paths
    BY <2>1, <2>2, TerritoryFacts
  <2> HIDE DEF new
  <2>4. CASE at[t] = Expected[t] \/ ~Exists(at[t]) \/ new = at[t]
    <3>1. UNCHANGED disk /\ Goto(t, "process", at[t])
      BY <1>6, <2>4 DEF Rename, new
    <3>2. QED  BY <1>0, <1>6, <2>1, <3>1 DEF Rename, Goto, TypeOK
  <2>5. CASE ~(at[t] = Expected[t] \/ ~Exists(at[t]) \/ new = at[t])
    <3>1. /\ Goto(t, "process", new)
          /\ files' = [files EXCEPT ![new] = files[at[t]], ![at[t]] = NoFile]
          /\ open' = [u \in Tasks |-> CASE open[u] = at[t] -> new
                                        [] open[u] = new -> NoPath
                                        [] OTHER         -> open[u]]
      BY <1>6, <2>5 DEF Rename, new
    <3>2. /\ files' \in [Paths -> Contents \cup {NoFile}]
          /\ open' \in [Tasks -> Paths \cup {NoPath}]
      BY <1>0, <2>1, <2>3, <3>1 DEF TypeOK
    <3>3. UNCHANGED source
      BY <1>6, <2>5 DEF Rename
    <3>4. QED  BY <1>0, <1>6, <2>3, <3>1, <3>2, <3>3 DEF Rename, Goto, TypeOK
  <2>6. QED  BY <2>4, <2>5
<1>7. CASE RenameFails(t) \/ NoProcess(t)
  BY <1>0, <1>7 DEF RenameFails, NoProcess, Goto, TypeOK
<1>8. CASE Process(t)
  <2>1. at[t] \in Paths /\ Output(t) \in Paths /\ files[at[t]] \in Contents
    BY <1>0, <1>8, AtWorkFacts DEF Process, AtWork, Exists, TypeOK
  <2>2. [by |-> files[at[t]].by, part |-> "empty"] \in Contents
    BY <2>1, ContentsUpdated
  <2>3. QED  BY <1>0, <1>8, <2>1, <2>2 DEF Process, Goto, TypeOK
<1>9. CASE Converted(t) \/ ConvertFails(t)
  <2>1. PICK l \in {"original", "write"} : ConverterGone(t, l)
    BY <1>9 DEF Converted, ConvertFails
  <2>2. Output(t) \in Paths
    BY <1>0, <2>1, AtWorkFacts DEF ConverterGone, AtWork
  <2>3. source[t] \in Contents
    BY <1>0, <2>1 DEF ConverterGone, Placed, TypeOK
  <2>4. files' \in [Paths -> Contents \cup {NoFile}]
    <3>1. files \in [Paths -> Contents \cup {NoFile}]
      BY <1>0 DEF TypeOK
    <3>2. files' = files \/ \E f \in {NoFile, source[t]} :
                                files' = [files EXCEPT ![Output(t)] = f]
      BY <1>9, <2>2, <3>1 DEF Converted, ConvertFails
    <3>3. QED  BY <2>3, <3>1, <3>2
  <2>5. PICK m \in {"original", "write", "off"}, q \in Paths \cup {NoPath} : Goto(t, m, q)
    <3>1. at[t] \in Paths \cup {NoPath}
      BY <1>0 DEF TypeOK
    <3>2. QED  BY <2>1, <3>1 DEF ConverterGone
  <2>6. /\ monitor' \in [Tasks -> {"off", "watch", "failed", "find", "rename", "process",
                                   "convert", "orphan", "original", "write"}]
        /\ at' \in [Tasks -> Paths \cup {NoPath}]
    BY <1>0, <2>5 DEF Goto, TypeOK
  <2>7. source' \in [Tasks -> Contents \cup {NoFile}]
    BY <1>0, <2>1 DEF ConverterGone, TypeOK
  <2>8. QED  BY <1>0, <2>1, <2>4, <2>6, <2>7 DEF ConverterGone, TypeOK
<1>11. CASE Original(t)
  <2>1. Output(t) \in Paths
    BY <1>0, <1>11, AtWorkFacts DEF Original, AtWork
  <2>2. /\ files' \in [Paths -> Contents \cup {NoFile}]
        /\ open' \in [Tasks -> Paths \cup {NoPath}] /\ source' = source
    BY <1>0, <1>11 DEF Original, Unlink, TypeOK
  <2>3. QED  BY <1>0, <1>11, <2>1, <2>2 DEF Original, Goto, TypeOK
<1>12. CASE WriteBack(t)
  <2>1. rows' \in [Tasks -> Rows \cup {NoRow}]
    <3>1. ASSUME Running(t), monitor[t] = "write"
          PROVE  [status |-> "completed", path |-> at[t], ended |-> today] \in Rows
      BY <1>0, <3>1, AtWorkFacts, RowType DEF AtWork, TypeOK, Status
    <3>2. ASSUME Running(t)
          PROVE  [rows[t] EXCEPT !.status = "over", !.ended = today] \in Rows
      <4>1. rows[t] \in Rows /\ today \in Nat /\ "over" \in Status
        BY <1>0, <3>2 DEF Running, HasRow, TypeOK, Status
      <4>2. QED  BY <4>1, RowUpdated
    <3>3. CASE ~Running(t)
      BY <1>0, <1>12, <3>3 DEF WriteBack, TypeOK
    <3>4. CASE Running(t) /\ monitor[t] = "write"
      BY <1>0, <1>12, <3>1, <3>4 DEF WriteBack, TypeOK
    <3>5. CASE Running(t) /\ monitor[t] = "failed"
      <4>1. rows' = [rows EXCEPT ![t].status = "over", ![t].ended = today]
        BY <1>12, <3>5 DEF WriteBack
      <4>2. rows' = [rows EXCEPT ![t] = [rows[t] EXCEPT !.status = "over", !.ended = today]]
        BY <1>0, <4>1 DEF TypeOK
      <4>3. QED  BY <1>0, <3>2, <3>5, <4>2 DEF TypeOK
    <3>6. QED  BY <1>12, <3>3, <3>4, <3>5 DEF WriteBack
  <2>2. QED  BY <1>0, <1>12, <2>1 DEF WriteBack, Goto, TypeOK
<1>13. CASE Interrupt(t)
  <2>1. [rows[t] EXCEPT !.status = "over", !.ended = today] \in Rows
    <3>1. rows[t] \in Rows /\ today \in Nat /\ "over" \in Status
      BY <1>0, <1>13 DEF Interrupt, Running, HasRow, TypeOK, Status
    <3>2. QED  BY <3>1, RowUpdated
  <2>2. rows' = [rows EXCEPT ![t] = [rows[t] EXCEPT !.status = "over", !.ended = today]]
    BY <1>0, <1>13 DEF Interrupt, TypeOK
  <2>3. QED  BY <1>0, <1>13, <2>1, <2>2 DEF Interrupt, TypeOK
<1>14. CASE DeleteRow(t)
  BY <1>0, <1>14 DEF DeleteRow, TypeOK
<1>15. QED
  BY <1>1, <1>2, <1>3, <1>4, <1>5, <1>51, <1>6, <1>7, <1>8, <1>9, <1>11, <1>12, <1>13, <1>14
     DEF TaskAction, MonitorStep

\* Every step keeps the types.
LEMMA TypeStep ==
    ASSUME OutputInv, [Next]_vars PROVE TypeOK'
<1> USE DEF task, disk, clock, cleanup, history
<1>0. TypeOK
  BY DEF OutputInv
<1>1. ASSUME NEW c \in Cleaners, CleanAction(c) PROVE TypeOK'
  <2>1. CASE Select(c)
    <3>1. \A t \in Tasks : Expired(t, days) => rows[t].path \in Paths
      BY <1>0 DEF Expired, Ended, HasRow, TypeOK, Rows
    <3>2. [t \in Tasks |-> IF t \in {u \in Tasks : Expired(u, days)}
                           THEN rows[t].path ELSE NoPath]
             \in [Tasks -> Paths \cup {NoPath}]
      BY <3>1
    <3>3. QED  BY <1>0, <2>1, <3>2 DEF Select, TypeOK
  <2>2. ASSUME NEW t \in Tasks, Remove(c, t) \/ RemoveFails(c, t) PROVE TypeOK'
    <3>1. doomed' \in [Cleaners -> [Tasks -> Paths \cup {NoPath}]]
      <4>1. doomed \in [Cleaners -> [Tasks -> Paths \cup {NoPath}]]
        BY <1>0 DEF TypeOK
      <4>2. doomed' = [doomed EXCEPT ![c] = [doomed[c] EXCEPT ![t] = NoPath]]
        BY <2>2, <4>1 DEF Remove, RemoveFails, Handled
      <4>3. [doomed[c] EXCEPT ![t] = NoPath] \in [Tasks -> Paths \cup {NoPath}]
        BY <4>1
      <4>4. QED  BY <4>1, <4>2, <4>3
    <3>2. /\ files' \in [Paths -> Contents \cup {NoFile}]
          /\ open' \in [Tasks -> Paths \cup {NoPath}] /\ source' = source
      BY <1>0, <2>2 DEF Remove, RemoveFails, Unlink, TypeOK
    <3>3. QED  BY <1>0, <2>2, <3>1, <3>2 DEF Remove, RemoveFails, Handled, TypeOK
  <2>3. CASE Purge(c)
    BY <1>0, <2>3 DEF Purge, TypeOK
  <2>4. CASE CleanupFails(c)
    BY <1>0, <2>4 DEF CleanupFails, Fault, None, TypeOK
  <2>5. QED  BY <1>1, <2>1, <2>2, <2>3, <2>4 DEF CleanAction, CleanupStep
<1>2. CASE \E n \in Periods : SetDays(n)
  BY <1>0, <1>2, NamesAssumption DEF SetDays, TypeOK
<1>3. CASE NextDay
  BY <1>0, <1>3, NamesAssumption DEF NextDay, TypeOK
<1>4. CASE Crash
  <2>1. \A t \in Tasks : Running(t) =>
           [rows[t] EXCEPT !.status = "over", !.ended = today] \in Rows
    <3>1. \A t \in Tasks : Running(t) => rows[t] \in Rows
      BY <1>0 DEF Running, HasRow, TypeOK
    <3>2. today \in Nat /\ "over" \in Status
      BY <1>0 DEF TypeOK, Status
    <3>3. QED  BY <3>1, <3>2, RowUpdated
  <2>2. rows' \in [Tasks -> Rows \cup {NoRow}]
    BY <1>0, <1>4, <2>1 DEF Crash, TypeOK
  <2>3. /\ monitor' \in [Tasks -> {"off", "orphan"}]
        /\ at' \in [Tasks -> Paths \cup {NoPath}]
    BY <1>0, <1>4 DEF Crash, TypeOK
  <2>4. /\ cleaner' \in [Cleaners -> {"idle", "remove"}] /\ keep' \in [Cleaners -> Nat]
        /\ doomed' \in [Cleaners -> [Tasks -> Paths \cup {NoPath}]]
    BY <1>4 DEF Crash, None
  <2>5. /\ UNCHANGED <<started, recorder, files, open, source, today, days, recorded,
                       selected, overlooked>>
        /\ faults' = faults + 1
    BY <1>4 DEF Crash, Fault
  <2>6. QED  BY <1>0, <2>2, <2>3, <2>4, <2>5 DEF TypeOK
<1>5. CASE UNCHANGED vars
  BY <1>0, <1>5 DEF vars, TypeOK
<1>6. QED  BY TaskTypeStep, <1>1, <1>2, <1>3, <1>4, <1>5, NextActions


-----------------------------------------------------------------------------
(* The tasks that do not act.                                              *)

\* What is done for t touches files in its territory, and the one it has open.
Local(t) ==
    /\ \A p \in Paths \ Territory[t] : p # open[t] => files'[p] = files[p]
    /\ \A v \in Tasks : open'[v] = open[v] \/ open'[v] \in Territory[t] \cup {NoPath}
    /\ \A v \in Tasks \ {t} : open'[v] = open[v] \/ open[v] \in Territory[t]

LEMMA LocalUnlink ==
    ASSUME TypeOK, NEW t \in Tasks, NEW p \in Territory[t], Unlink(p)
    PROVE  Local(t)
<1>1. p \in Paths
  BY TerritoryFacts
<1>2. QED  BY <1>1 DEF TypeOK, Unlink, Local

\* Only one file is written.
LEMMA LocalWrite ==
    ASSUME TypeOK, NEW t \in Tasks, NEW p \in Territory[t] \cup {open[t]}, NEW f,
           files' = [files EXCEPT ![p] = f],
           open' = open \/ \E q \in Territory[t] \cup {NoPath} : open' = [open EXCEPT ![t] = q]
    PROVE  Local(t)
BY DEF TypeOK, Local

LEMMA LocalStep ==
    ASSUME OutputInv, NEW t \in Tasks, TaskAction(t)
    PROVE  Local(t)
<1> USE DEF task, disk, clock, cleanup, history
<1>0. TypeOK /\ Placed(t) /\ Phases(t)
  BY DEF OutputInv
<1>1. ASSUME UNCHANGED disk PROVE Local(t)
  BY <1>1 DEF Local
<1>2. CASE Start(t) \/ Find(t) \/ FindFails(t) \/ RenameFails(t) \/ NoProcess(t)
           \/ WriteBack(t) \/ Interrupt(t) \/ DeleteRow(t)
  BY <1>1, <1>2
     DEF Start, Find, FindFails, RenameFails, NoProcess, WriteBack, Interrupt, DeleteRow
<1>3. CASE RecorderDone(t) \/ RecorderKilled(t) \/ RecorderFails(t)
  <2>1. open' = [open EXCEPT ![t] = NoPath]
    BY <1>3 DEF RecorderDone, RecorderKilled, RecorderFails, RecorderGone
  <2>2. CASE files' = files
    BY <1>0, <2>1, <2>2 DEF Local, TypeOK
  <2>3. CASE files' # files
    <3>1. files' = [files EXCEPT ![open[t]] = Whole(t)]
      BY <1>3, <2>3 DEF RecorderDone, RecorderKilled, RecorderFails
    <3>2. QED  BY <1>0, <2>1, <3>1, LocalWrite
  <2>4. QED  BY <2>2, <2>3
<1>4. ASSUME NEW p \in Paths, FirstBytes(t, p) PROVE Local(t)
  <2>1. p \in Territory[t] \cup {open[t]}
    <3>1. monitor[t] \in {"convert", "orphan"} => Output(t) \in Territory[t]
      BY <1>0, AtWorkFacts DEF AtWork
    <3>2. QED  BY <1>4, <3>1 DEF FirstBytes
  <2>2. open' = open /\ \E f : files' = [files EXCEPT ![p] = f]
    BY <1>4 DEF FirstBytes
  <2>3. QED  BY <1>0, <2>1, <2>2, LocalWrite
<1>5. ASSUME NEW p \in Paths, Open(t, p) PROVE Local(t)
  <2>1. p \in Territory[t]
    BY <1>0, <1>5, StartedFacts, TerritoryFacts DEF Open
  <2>2. QED  BY <1>0, <1>5, <2>1, LocalWrite DEF Open
<1>6. CASE Rename(t)
  <2> DEFINE new == [Expected[t] EXCEPT !.ext = at[t].ext]
             old == at[t]
  <2>1. old \in Territory[t] /\ old \in Paths /\ Admissible(t)
    BY <1>0, <1>6, AtWorkFacts, StartedFacts DEF Rename, AtWork
  <2>2. old.ext \in Exts
    BY <2>1 DEF Paths
  <2>3. new \in Territory[t]
    BY <2>1, <2>2, TerritoryFacts
  <2>4. UNCHANGED disk
        \/ /\ files' = [files EXCEPT ![new] = files[old], ![old] = NoFile]
           /\ open' = [u \in Tasks |-> CASE open[u] = old -> new
                                         [] open[u] = new -> NoPath
                                         [] OTHER         -> open[u]]
    BY <1>6 DEF Rename
  <2> HIDE DEF new, old
  <2>5. QED  BY <1>0, <1>1, <2>1, <2>3, <2>4 DEF Local, TypeOK
<1>7. CASE Process(t) \/ Converted(t) \/ ConvertFails(t)
  <2>1. Output(t) \in Territory[t]
    BY <1>0, <1>7, AtWorkFacts DEF Process, Converted, ConvertFails, ConverterGone, AtWork
  <2>2. open' = open /\ \E f : files' = [files EXCEPT ![Output(t)] = f]
    <3>1. files' = files => files' = [files EXCEPT ![Output(t)] = files[Output(t)]]
      BY <1>0 DEF TypeOK
    <3>2. QED  BY <1>7, <3>1 DEF Process, Converted, ConvertFails, ConverterGone
  <2>3. QED  BY <1>0, <2>1, <2>2, LocalWrite
<1>8. CASE Original(t)
  <2>1. at[t] \in Territory[t]
    BY <1>0, <1>8, AtWorkFacts DEF Original, AtWork
  <2>2. UNCHANGED disk \/ Unlink(at[t])
    BY <1>8 DEF Original
  <2>3. QED  BY <1>0, <1>1, <2>1, <2>2, LocalUnlink
<1>9. QED
  BY <1>2, <1>3, <1>4, <1>5, <1>6, <1>7, <1>8 DEF TaskAction, MonitorStep

\* Who is alone does not notice what is done for another.
LEMMA OthersFiles ==
    ASSUME OutputInv, NEW t \in Tasks, Local(t), NEW u \in Alone \ {t}
    PROVE  SameFiles(u)
<1>0. u \in Tasks /\ TypeOK /\ OwnFiles(u) /\ Placed(u) /\ Phases(u)
  BY DEF Alone, OutputInv
<1>1. \A p \in Territory[u] : p \notin Territory[t] /\ p \in Paths /\ p # NoPath
  BY <1>0, AloneFacts, TerritoryFacts
<1>2. \A v \in Tasks \ {u} : open[v] \notin Territory[u]
  BY <1>0 DEF OwnFiles
<1>3. \A p \in Territory[u] : files'[p] = files[p]
  BY <1>1, <1>2 DEF Local
<1>4. open[u] = NoPath \/ open[u] \in Territory[u]
  <2>1. CASE open[u] # NoPath
    <3>1. open[u] \in Written[u] /\ recorder[u] # "off"
      BY <1>0, <2>1 DEF OwnFiles, Phases
    <3>2. Admissible(u)
      BY <1>0, <3>1, StartedFacts
    <3>3. QED  BY <1>0, <3>1, <3>2, TerritoryFacts
  <2>2. QED  BY <2>1
<1>5. open[u] \notin Territory[t]
  BY <1>1, <1>4, TerritoryFacts
<1>6. open'[u] = open[u]
  BY <1>0, <1>5 DEF Local
<1>7. \A v \in Tasks \ {u} : open'[v] \in Territory[u] => open[v] \in Territory[u]
  BY <1>1 DEF Local
<1>8. QED  BY <1>3, <1>6, <1>7 DEF SameFiles

\* Nor is anything else of another task changed.
LEMMA OthersUntouched ==
    ASSUME OutputInv, NEW t \in Tasks, TaskAction(t), NEW u \in Tasks \ {t}
    PROVE  /\ Untouched(u) /\ UNCHANGED <<doomed, selected>>
           /\ open[u] = NoPath => open'[u] = NoPath
<1> USE DEF task, disk, clock, cleanup, history
<1>0. TypeOK /\ Placed(t)
  BY DEF OutputInv
<1>1. CASE Start(t)
  BY <1>0, <1>1 DEF Start, Goto, Untouched, TypeOK
<1>2. CASE RecorderDone(t) \/ RecorderKilled(t) \/ RecorderFails(t)
  <2>1. recorded' = recorded \/ recorded' = recorded \cup {t}
    BY <1>2 DEF RecorderDone, RecorderKilled, RecorderFails
  <2>2. \E l : RecorderGone(t, l)
    BY <1>2 DEF RecorderDone, RecorderKilled, RecorderFails
  <2>3. QED  BY <1>0, <2>1, <2>2 DEF RecorderGone, Untouched, TypeOK
<1>3. ASSUME NEW p \in Paths, FirstBytes(t, p)
      PROVE  /\ Untouched(u) /\ UNCHANGED <<doomed, selected>>
             /\ open[u] = NoPath => open'[u] = NoPath
  BY <1>3 DEF FirstBytes, Untouched
<1>4. ASSUME NEW p \in Paths, Open(t, p)
      PROVE  /\ Untouched(u) /\ UNCHANGED <<doomed, selected>>
             /\ open[u] = NoPath => open'[u] = NoPath
  BY <1>0, <1>4 DEF Open, Untouched, TypeOK
<1>5. ASSUME NEW l, NEW q, Goto(t, l, q) PROVE monitor'[u] = monitor[u] /\ at'[u] = at[u]
  BY <1>0, <1>5 DEF Goto, TypeOK
<1>6. CASE Find(t) \/ FindFails(t) \/ RenameFails(t) \/ NoProcess(t)
  <2>1. \E l, q : Goto(t, l, q)
    BY <1>6 DEF Find, FindFails, RenameFails, NoProcess
  <2>2. QED  BY <1>5, <1>6, <2>1 DEF Find, FindFails, RenameFails, NoProcess, Untouched
<1>7. CASE Rename(t)
  <2>1. at[t] # NoPath
    BY <1>0, <1>7, AtWorkFacts DEF Rename, AtWork
  <2>2. \E q : Goto(t, "process", q)
    BY <1>7 DEF Rename
  <2>3. open[u] = NoPath => open'[u] = NoPath
    BY <1>7, <2>1 DEF Rename
  <2>4. QED  BY <1>5, <1>7, <2>2, <2>3 DEF Rename, Untouched
<1>8. CASE Process(t) \/ Converted(t) \/ ConvertFails(t)
  <2>1. \E l, q : Goto(t, l, q)
    BY <1>8 DEF Process, Converted, ConvertFails, ConverterGone
  <2>2. source'[u] = source[u]
    BY <1>0, <1>8 DEF Process, Converted, ConvertFails, ConverterGone, TypeOK
  <2>3. QED
    BY <1>5, <1>8, <2>1, <2>2 DEF Process, Converted, ConvertFails, ConverterGone, Untouched
<1>9. CASE Original(t)
  <2>1. \E q : Goto(t, "write", q)
    BY <1>9 DEF Original
  <2>2. open[u] = NoPath => open'[u] = NoPath
    BY <1>9 DEF Original, Unlink
  <2>3. UNCHANGED source
    BY <1>9 DEF Original, Unlink
  <2>4. QED  BY <1>5, <1>9, <2>1, <2>2, <2>3 DEF Original, Untouched
<1>10. CASE WriteBack(t)
  <2>1. Goto(t, "off", NoPath)
    BY <1>10 DEF WriteBack
  <2>2. rows'[u] = rows[u]
    BY <1>0, <1>10 DEF WriteBack, TypeOK
  <2>3. QED  BY <1>5, <1>10, <2>1, <2>2 DEF WriteBack, Untouched
<1>11. CASE Interrupt(t) \/ DeleteRow(t)
  BY <1>0, <1>11 DEF Interrupt, DeleteRow, Untouched, TypeOK
<1>12. QED
  BY <1>1, <1>2, <1>3, <1>4, <1>6, <1>7, <1>8, <1>9, <1>10, <1>11 DEF TaskAction, MonitorStep

\* The four parts of the invariant for one task.
TaskInv(t) == Placed(t) /\ Phases(t) /\ OwnFiles(t) /\ Kept(t)

\* A step that leaves a task alone, and its files if it is alone, keeps them.
LEMMA TaskFrame ==
    ASSUME OutputInv, NEW u \in Tasks, Untouched(u),
           u \in Alone => SameFiles(u),
           open[u] = NoPath => open'[u] = NoPath,
           u \in selected => u \in selected',
           \A c \in Cleaners : doomed'[c][u] \in {doomed[c][u], NoPath},
           u \in selected' => u \in selected \/ u \in started
    PROVE  TaskInv(u)'
<1>0. TypeOK /\ Placed(u) /\ Phases(u) /\ OwnFiles(u) /\ Kept(u)
  BY DEF OutputInv
<1>1. Output(u)' = Output(u) /\ (HasRow(u)' <=> HasRow(u)) /\ (Completed(u)' <=> Completed(u))
  BY DEF Untouched, Output, HasRow, Completed
<1>2. Placed(u)'
  BY <1>0, <1>1 DEF Placed, Untouched
<1>3. Phases(u)'
  BY <1>0, <1>1 DEF Phases, Untouched
<1>4. OwnFiles(u)'
  <2>1. CASE u \in Alone
    <3>1. SameFiles(u)
      BY <2>1
    <3>2. /\ u \in started => u \in started'
          /\ recorder'[u] = recorder[u] /\ source'[u] = source[u]
      BY DEF Untouched
    <3>3. QED  BY <1>0, <3>1, <3>2, OwnFrame
  <2>2. CASE u \notin Alone
    BY <2>2 DEF OwnFiles
  <2>3. QED  BY <2>1, <2>2
<1>5. Kept(u)'
  <2>1. CASE u \in Alone
    <3>1. u \in recorded => Admissible(u)
      BY <1>0, RecordedFacts
    <3>2. SameLooks(u)
      BY <2>1 DEF SameFiles, SameLooks
    <3>3. QED  BY <1>0, <1>1, <3>1, <3>2, KeptFrame DEF Untouched
  <2>2. CASE u \notin Alone
    BY <2>2 DEF Kept
  <2>3. QED  BY <2>1, <2>2
<1>6. QED  BY <1>2, <1>3, <1>4, <1>5 DEF TaskInv

LEMMA OthersStep ==
    ASSUME OutputInv, NEW t \in Tasks, TaskAction(t), NEW u \in Tasks \ {t}
    PROVE  TaskInv(u)'
<1>1. u \in Alone => SameFiles(u)
  BY LocalStep, OthersFiles
<1>2. /\ Untouched(u) /\ UNCHANGED <<doomed, selected>>
      /\ open[u] = NoPath => open'[u] = NoPath
  BY OthersUntouched
<1>3. QED  BY <1>1, <1>2, TaskFrame


-----------------------------------------------------------------------------
(* The task that acts.                                                     *)

\* While its row is no longer changed and its files stay where they are.
LEMMA OwnFilesKept ==
    ASSUME NEW t \in Tasks, OwnFiles(t), UNCHANGED disk, t \in started => t \in started',
           recorder'[t] = recorder[t]
    PROVE  OwnFiles(t)'
<1>1. SameFiles(t) /\ source'[t] = source[t]
  BY DEF disk, SameFiles
<1>2. QED  BY <1>1, OwnFrame

LEMMA StartStep ==
    ASSUME OutputInv, NEW t \in Tasks, Start(t) PROVE TaskInv(t)'
<1> USE DEF task, disk, clock, cleanup, history
<1>0. TypeOK /\ Placed(t) /\ Phases(t) /\ OwnFiles(t) /\ Kept(t)
  BY DEF OutputInv
<1>1. /\ recorder[t] = "off" /\ monitor[t] = "off" /\ t \notin recorded \cup selected
      /\ at[t] = NoPath /\ open[t] = NoPath /\ Admissible(t)
  BY <1>0 DEF Start, Phases, Placed, AtWork
<1>2. /\ rows'[t] = [status |-> "running", path |-> Expected[t], ended |-> 0]
      /\ recorder'[t] = "started" /\ monitor'[t] = "watch" /\ at'[t] = NoPath
      /\ started' = started \cup {t} /\ UNCHANGED <<disk, cleanup, history>>
  BY <1>0 DEF Start, Goto, TypeOK
<1>3. rows'[t].path = Expected[t] /\ rows'[t].status = "running"
  BY <1>2
<1>4. Placed(t)'
  <2>1. Expected[t] \in Territory[t]
    BY <1>1, TerritoryFacts
  <2>2. QED  BY <1>0, <1>1, <1>2, <1>3, <2>1 DEF Placed, AtWork
<1>5. Phases(t)'
  BY <1>1, <1>2, <1>3 DEF Phases, Completed
<1>6. OwnFiles(t)'
  BY <1>0, <1>2 DEF OwnFiles, Exists, Start
<1>7. Kept(t)'
  BY <1>1, <1>2 DEF Kept
<1>8. QED  BY <1>4, <1>5, <1>6, <1>7 DEF TaskInv

LEMMA OpenStep ==
    ASSUME OutputInv, NEW t \in Tasks, NEW p \in Paths, Open(t, p) PROVE TaskInv(t)'
<1> USE DEF task, disk, clock, cleanup, history
<1>0. TypeOK /\ Placed(t) /\ Phases(t) /\ OwnFiles(t) /\ Kept(t)
  BY DEF OutputInv
<1>1. /\ recorder[t] = "started" /\ p \in Written[t] /\ t \notin recorded
      /\ t \in started /\ monitor[t] \in {"watch", "off"}
  BY <1>0, StartedFacts DEF Open, Phases
<1>2. /\ recorder'[t] = "writing" /\ files' = [files EXCEPT ![p] = [by |-> t, part |-> "empty"]]
      /\ open' = [open EXCEPT ![t] = p]
      /\ UNCHANGED <<rows, started, monitor, at, source, cleanup, history>>
  BY <1>0 DEF Open, TypeOK
<1>3. Placed(t)'
  BY <1>0, <1>2 DEF Placed, HasRow
<1>4. Phases(t)'
  BY <1>0, <1>1, <1>2 DEF Phases, HasRow, Completed, Output
<1>5. OwnFiles(t)'
  <2> SUFFICES ASSUME t \in Alone PROVE OwnFiles(t)'
    BY DEF OwnFiles
  <2>1. \A q \in Territory[t] : ~Exists(q) /\ q \in Paths
    BY <1>0, <1>1, TerritoryFacts DEF OwnFiles
  <2>2. \A q \in Territory[t] : files'[q] # NoFile => q = p /\ files'[q].by = t
    BY <1>0, <1>2, <2>1 DEF Exists, TypeOK
  <2>3. open'[t] = p /\ \A u \in Tasks \ {t} : open'[u] = open[u]
    BY <1>0, <1>2 DEF TypeOK
  <2>4. QED  BY <1>0, <1>1, <1>2, <2>2, <2>3 DEF OwnFiles, Exists
<1>6. Kept(t)'
  BY <1>1, <1>2 DEF Kept
<1>7. QED  BY <1>3, <1>4, <1>5, <1>6 DEF TaskInv

LEMMA FirstBytesStep ==
    ASSUME OutputInv, NEW t \in Tasks, NEW p \in Paths, FirstBytes(t, p) PROVE TaskInv(t)'
<1> USE DEF task, disk, clock, cleanup, history
<1>0. TypeOK /\ Placed(t) /\ Phases(t) /\ OwnFiles(t) /\ Kept(t)
  BY DEF OutputInv
<1>1. UNCHANGED <<rows, started, recorder, monitor, at, open, source, cleanup, history>>
  BY DEF FirstBytes
<1>2. files[p] \in Contents /\ files[p].part = "empty"
  BY <1>0 DEF FirstBytes, Exists, TypeOK
<1>3. /\ files'[p] = [by |-> files[p].by, part |-> "cut"] /\ files'[p] \in Contents
      /\ \A q \in Paths \ {p} : files'[q] = files[q]
  <2>1. [files[p] EXCEPT !.part = "cut"] = [by |-> files[p].by, part |-> "cut"]
    BY <1>2, ContentsUpdated
  <2>2. [files[p] EXCEPT !.part = "cut"] \in Contents
    BY <1>2, ContentsUpdated
  <2>3. files' = [files EXCEPT ![p] = [files[p] EXCEPT !.part = "cut"]]
    BY DEF FirstBytes
  <2>4. QED  BY <1>0, <2>1, <2>2, <2>3 DEF TypeOK
<1>4. \A q \in Paths : /\ files'[q] = NoFile <=> files[q] = NoFile
                       /\ files'[q] = Whole(t) <=> files[q] = Whole(t)
                       /\ files[q] # NoFile => files'[q].by = files[q].by
  <2>1. files[p] # NoFile /\ files'[p] # NoFile
    BY <1>2, <1>3
  <2>2. files[p] # Whole(t) /\ files'[p] # Whole(t)
    BY <1>2, <1>3, WholeFacts
  <2>3. files'[p].by = files[p].by
    BY <1>3
  <2>4. QED  BY <1>3, <2>1, <2>2, <2>3
<1>5. Placed(t)'
  BY <1>0, <1>1 DEF Placed, HasRow
<1>6. Phases(t)'
  BY <1>0, <1>1 DEF Phases, HasRow, Completed, Output
<1>7. OwnFiles(t)'
  BY <1>0, <1>1, <1>4, TerritoryFacts DEF OwnFiles, Exists
<1>8. Kept(t)'
  <2>1. SameLooks(t)
    BY <1>4, TerritoryFacts DEF SameLooks
  <2>2. t \in recorded => Admissible(t)
    BY <1>0, RecordedFacts
  <2>3. Completed(t)' => Completed(t) /\ rows'[t] = rows[t]
    BY <1>1 DEF Completed, HasRow
  <2>4. QED  BY <1>0, <1>1, <2>1, <2>2, <2>3, KeptFrame
<1>9. QED  BY <1>5, <1>6, <1>7, <1>8 DEF TaskInv

LEMMA RecorderDoneStep ==
    ASSUME OutputInv, NEW t \in Tasks, RecorderDone(t) PROVE TaskInv(t)'
<1> USE DEF task, disk, clock, cleanup, history
<1>0. TypeOK /\ Placed(t) /\ Phases(t) /\ OwnFiles(t) /\ Kept(t)
  BY DEF OutputInv
<1>1. /\ recorder[t] # "off" /\ t \notin recorded /\ t \in started /\ Admissible(t)
      /\ monitor[t] \in {"watch", "off"} /\ ~Completed(t) /\ source[t] = NoFile
  BY <1>0, StartedFacts DEF RecorderDone, RecorderGone, Phases, Placed
<1>2. /\ recorder'[t] = "off" /\ monitor'[t] = IF monitor[t] = "watch" THEN "find" ELSE "off"
      /\ open' = [open EXCEPT ![t] = NoPath]
      /\ UNCHANGED <<rows, started, at, source, cleanup, selected, overlooked>>
  BY <1>0, <1>1 DEF RecorderDone, RecorderGone, TypeOK
<1>3. \/ UNCHANGED <<files, recorded>>
      \/ /\ open[t] # NoPath /\ files' = [files EXCEPT ![open[t]] = Whole(t)]
         /\ recorded' = recorded \cup {t}
  BY DEF RecorderDone
<1>4. Placed(t)'
  BY <1>0, <1>1, <1>2 DEF Placed, HasRow, AtWork
<1>5. Phases(t)'
  <2>1. open'[t] = NoPath
    BY <1>0, <1>2 DEF TypeOK
  <2>2. QED  BY <1>0, <1>1, <1>2, <2>1 DEF Phases, HasRow, Completed
<1>6. OwnFiles(t)'
  <2> SUFFICES ASSUME t \in Alone PROVE OwnFiles(t)'
    BY DEF OwnFiles
  <2>1. open'[t] = NoPath /\ \A u \in Tasks \ {t} : open'[u] = open[u]
    BY <1>0, <1>2 DEF TypeOK
  <2>2. \A p \in Territory[t] : files'[p] # NoFile => files'[p].by = t
    <3>1. \A p \in Territory[t] : files[p] # NoFile => files[p].by = t
      BY <1>0 DEF OwnFiles, Exists
    <3>2. \A p \in Paths : files'[p] \in {files[p], Whole(t)}
      BY <1>0, <1>3 DEF TypeOK
    <3>3. QED  BY <3>1, <3>2, TerritoryFacts, WholeFacts
  <2>3. QED  BY <1>0, <1>1, <1>2, <2>1, <2>2 DEF OwnFiles, Exists
<1>7. Kept(t)'
  <2> SUFFICES ASSUME t \in Alone, t \in recorded' \ selected' PROVE Kept(t)'
    BY DEF Kept
  <2>1. /\ open[t] # NoPath /\ recorder[t] = "writing"
        /\ files' = [files EXCEPT ![open[t]] = Whole(t)]
    BY <1>0, <1>1, <1>3 DEF Phases
  <2>2. open[t] \in Written[t] /\ open[t] \in Territory[t] /\ open[t] \in Paths
    BY <1>0, <1>1, <2>1, TerritoryFacts DEF OwnFiles
  <2>3. PICK p \in Paths : p = open[t]
    BY <2>2
  <2>4. files'[p] = Whole(t) /\ p \in Written[t] /\ p \in Territory[t] /\ p # NoPath
    BY <1>0, <2>1, <2>2, <2>3 DEF TypeOK
  <2>5. \A q \in Territory[t] : files'[q] # NoFile => files'[q] = Whole(t)
    <3>1. \A q \in Territory[t] : files[q] # NoFile => q = p
      BY <1>0, <2>1, <2>3 DEF OwnFiles, Exists
    <3>2. \A q \in Territory[t] : q # p => files'[q] = files[q]
      BY <1>0, <2>1, <2>3, TerritoryFacts DEF TypeOK
    <3>3. QED  BY <2>4, <3>1, <3>2
  <2>6. IsWhole(t, p)' /\ \A q \in Territory[t] : Exists(q)' => IsWhole(t, q)'
    BY <2>4, <2>5, TerritoryFacts DEF IsWhole, Exists
  <2>7. monitor'[t] \in {"find", "off"} /\ ~Completed(t)' /\ source'[t] = NoFile
    BY <1>1, <1>2 DEF Completed, HasRow
  <2>8. QED  BY <2>4, <2>6, <2>7 DEF Kept, AtWork
<1>8. QED  BY <1>4, <1>5, <1>6, <1>7 DEF TaskInv


LEMMA RecorderFailsStep ==
    ASSUME OutputInv, NEW t \in Tasks, RecorderKilled(t) \/ RecorderFails(t)
    PROVE  TaskInv(t)'
<1> USE DEF task, disk, clock, cleanup, history
<1>0. TypeOK /\ Placed(t) /\ Phases(t) /\ OwnFiles(t) /\ Kept(t)
  BY DEF OutputInv
<1>1. /\ recorder[t] # "off" /\ t \notin recorded /\ t \in started
      /\ monitor[t] \in {"watch", "off"} /\ ~Completed(t)
  BY <1>0, StartedFacts DEF RecorderKilled, RecorderFails, RecorderGone, Phases
<1>2. /\ recorder'[t] = "off"
      /\ monitor'[t] \in IF monitor[t] = "watch" THEN {"find", "failed"} ELSE {"off"}
      /\ open'[t] = NoPath /\ \A u \in Tasks \ {t} : open'[u] = open[u]
      /\ UNCHANGED <<rows, started, at, files, source, cleanup, recorded, selected>>
  <2>1. PICK l \in {"find", "failed"} : RecorderGone(t, l)
    BY DEF RecorderKilled, RecorderFails
  <2>2. UNCHANGED <<files, recorded>>
    BY DEF RecorderKilled, RecorderFails
  <2>3. QED  BY <1>0, <1>1, <2>1, <2>2 DEF RecorderGone, TypeOK
<1>3. Placed(t)'
  BY <1>0, <1>1, <1>2 DEF Placed, HasRow, AtWork
<1>4. Phases(t)'
  BY <1>0, <1>1, <1>2 DEF Phases, HasRow, Completed
<1>5. OwnFiles(t)'
  BY <1>0, <1>2 DEF OwnFiles, Exists
<1>6. Kept(t)'
  BY <1>1, <1>2 DEF Kept
<1>7. QED  BY <1>3, <1>4, <1>5, <1>6 DEF TaskInv

\* What a recorder leaves is found, at the path that was expected or as a candidate,
\* unless its name looks temporary.
LEMMA FindsWhole ==
    ASSUME NEW t \in Tasks, Admissible(t), NEW w \in Written[t], IsWhole(t, w)
    PROVE  Exists(Expected[t]) \/ Candidates(Expected[t]) # {} \/ w.stem \in Temporary
<1>1. Exists(w) /\ files[w].part # "empty"
  BY WholeFacts DEF IsWhole
<1>2. w = Expected[t] \/ w \in Candidates(Expected[t]) \/ w.stem \in Temporary
  BY <1>1 DEF Written, Candidates
<1>3. QED  BY <1>1, <1>2

LEMMA FindStep ==
    ASSUME OutputInv, NEW t \in Tasks, Find(t) \/ FindFails(t) PROVE TaskInv(t)'
<1> USE DEF task, disk, clock, cleanup, history
<1>0. TypeOK /\ Placed(t) /\ Phases(t) /\ OwnFiles(t) /\ Kept(t)
  BY DEF OutputInv
<1>1. /\ monitor[t] = "find" /\ recorder[t] = "off" /\ t \in started /\ Admissible(t)
      /\ ~Completed(t)
  BY <1>0, StartedFacts DEF Find, FindFails, Phases
<1>2. PICK q \in {Expected[t]} \cup Candidates(Expected[t]) :
         /\ Goto(t, "rename", q)
         /\ ~Exists(q) => /\ q = Expected[t]
                          /\ Candidates(Expected[t]) = {} \/ t \in overlooked'
  BY DEF Find, FindFails, Candidates
<1>3. q \in Territory[t] /\ q # NoPath
  BY <1>1, TerritoryFacts
<1>4. /\ monitor'[t] = "rename" /\ at'[t] = q /\ (t \in overlooked => t \in overlooked')
      /\ UNCHANGED <<rows, started, recorder, disk, cleanup, recorded, selected>>
  BY <1>0, <1>2 DEF Find, FindFails, Goto, TypeOK
<1>5. Placed(t)'
  BY <1>0, <1>1, <1>3, <1>4 DEF Placed, HasRow, AtWork
<1>6. Phases(t)'
  BY <1>0, <1>1, <1>4 DEF Phases, HasRow, Completed
<1>7. OwnFiles(t)'
  BY <1>0, <1>4, OwnFilesKept
<1>8. Kept(t)'
  <2> SUFFICES ASSUME t \in Alone, t \in recorded \ selected PROVE Kept(t)'
    BY <1>4 DEF Kept
  <2>1. PICK w \in Written[t] : IsWhole(t, w)
    BY <1>0, <1>1 DEF Kept
  <2>2. Leads(t, q)'
    <3>1. CASE Exists(q)
      <4>1. IsWhole(t, q)
        BY <1>0, <1>1, <1>3, <3>1 DEF Kept
      <4>2. IsWhole(t, q)'
        BY <1>4, <4>1 DEF IsWhole
      <4>3. QED  BY <4>2 DEF Leads
    <3>2. CASE ~Exists(q)
      <4>1. w.stem \in Temporary \/ t \in overlooked'
        BY <1>1, <1>2, <2>1, <3>2, FindsWhole
      <4>2. IsWhole(t, w)'
        BY <1>4, <2>1 DEF IsWhole
      <4>3. Astray(t)'
        BY <4>1, <4>2 DEF Astray
      <4>4. ~Exists(q)'
        BY <1>4, <3>2 DEF Exists
      <4>5. QED  BY <4>3, <4>4 DEF Leads
    <3>3. QED  BY <3>1, <3>2
  <2>3. Leads(t, at[t])' /\ ~Completed(t)'
    BY <1>1, <1>4, <2>2 DEF Completed, HasRow
  <2>4. source'[t] = NoFile
    BY <1>0, <1>1, <1>4 DEF Placed
  <2>5. QED  BY <1>4, <2>3, <2>4 DEF Kept
<1>9. QED  BY <1>5, <1>6, <1>7, <1>8 DEF TaskInv

\* A monitor at work has no recorder, and its row is not completed.
LEMMA WorkFacts ==
    ASSUME OutputInv, NEW t \in Tasks,
           monitor[t] \in {"rename", "process", "convert", "original", "write"}
    PROVE  /\ TypeOK /\ Placed(t) /\ Phases(t) /\ OwnFiles(t) /\ Kept(t)
           /\ recorder[t] = "off" /\ open[t] = NoPath /\ t \in started /\ Admissible(t)
           /\ ~Completed(t) /\ monitor[t] \in AtWork
           /\ at[t] \in Territory[t] /\ at[t] \in Paths /\ at[t] # NoPath
           /\ Output(t) \in Territory[t] /\ Output(t) \in Paths
<1>1. TypeOK /\ Placed(t) /\ Phases(t) /\ OwnFiles(t) /\ Kept(t)
  BY DEF OutputInv
<1>2. monitor[t] \in AtWork
  BY DEF AtWork
<1>3. recorder[t] = "off" /\ open[t] = NoPath /\ ~Completed(t)
  BY <1>1 DEF Phases
<1>4. QED  BY <1>1, <1>2, <1>3, StartedFacts, AtWorkFacts

\* What was recorded whole is in its territory, whatever its monitor has come to.
LEMMA StillThere ==
    ASSUME OutputInv, NEW t \in Alone, t \in recorded \ selected
    PROVE  \E p \in Territory[t] : IsWhole(t, p)
<1>1. t \in Tasks /\ TypeOK /\ Placed(t) /\ Phases(t) /\ Kept(t) /\ Admissible(t)
  BY RecordedFacts DEF OutputInv, Alone
<1>2. Astray(t) => \E p \in Territory[t] : IsWhole(t, p)
  BY <1>1, TerritoryFacts DEF Astray
<1>3. CASE monitor[t] \in AtWork
  <2>1. at[t] \in Territory[t] /\ Leads(t, at[t])
    BY <1>1, <1>3, AtWorkFacts DEF Kept
  <2>2. QED  BY <1>2, <2>1 DEF Leads
<1>4. CASE monitor[t] = "find"
  BY <1>1, <1>4, TerritoryFacts DEF Kept
<1>5. CASE monitor[t] = "off"
  BY <1>1, <1>5 DEF Kept
<1>6. CASE monitor[t] \in {"watch", "failed"}
  BY <1>1, <1>6 DEF Phases
<1>7. QED  BY <1>1, <1>3, <1>4, <1>5, <1>6 DEF TypeOK, AtWork

\* The monitor goes on with the file it has, and the disk stays as it is.
LEMMA GoOnStep ==
    ASSUME OutputInv, NEW t \in Tasks, NEW l \in {"process", "write"},
           monitor[t] \in {"rename", "process", "original"},
           Goto(t, l, at[t]),
           UNCHANGED <<rows, started, recorder, disk, clock, cleanup, history>>
    PROVE  TaskInv(t)'
<1> USE DEF task, disk, clock, cleanup, history
<1>0. /\ TypeOK /\ Placed(t) /\ Phases(t) /\ OwnFiles(t) /\ Kept(t)
      /\ recorder[t] = "off" /\ open[t] = NoPath /\ t \in started /\ Admissible(t)
      /\ ~Completed(t) /\ at[t] \in Territory[t] /\ monitor[t] \in AtWork /\ at[t] # NoPath
  BY WorkFacts
<1>1. monitor'[t] = l /\ at'[t] = at[t]
  BY <1>0 DEF Goto, TypeOK
<1>2. Placed(t)'
  <2>1. source[t] = NoFile
    BY <1>0 DEF Placed
  <2>2. QED  BY <1>0, <1>1, <2>1 DEF Placed, HasRow, AtWork
<1>3. Phases(t)'
  BY <1>0, <1>1 DEF Phases, HasRow, Completed
<1>4. OwnFiles(t)'
  BY <1>0, OwnFilesKept
<1>5. Kept(t)'
  <2> SUFFICES ASSUME t \in Alone, t \in recorded \ selected PROVE Kept(t)'
    BY DEF Kept
  <2>1. Leads(t, at[t])
    BY <1>0 DEF Kept
  <2>2. \A p \in Territory[t] : Leads(t, p) => Leads(t, p)'
    BY <1>0, LeadsKept DEF SameLooks
  <2>3. Leads(t, at[t])' /\ ~Completed(t)' /\ source'[t] = NoFile
    BY <1>0, <1>1, <2>1, <2>2 DEF Completed, HasRow, Placed
  <2>4. QED  BY <1>1, <2>3 DEF Kept
<1>6. QED  BY <1>2, <1>3, <1>4, <1>5 DEF TaskInv

LEMMA RenameStep ==
    ASSUME OutputInv, NEW t \in Tasks, Rename(t) PROVE TaskInv(t)'
<1> USE DEF task, disk, clock, cleanup, history
<1> DEFINE old == at[t]
           new == [Expected[t] EXCEPT !.ext = old.ext]
<1>0. /\ TypeOK /\ Placed(t) /\ Phases(t) /\ OwnFiles(t) /\ Kept(t) /\ monitor[t] = "rename"
      /\ recorder[t] = "off" /\ open[t] = NoPath /\ t \in started /\ Admissible(t)
      /\ ~Completed(t) /\ old \in Territory[t] /\ old \in Paths /\ old # NoPath
  BY WorkFacts DEF Rename
<1>1. CASE old = Expected[t] \/ ~Exists(old) \/ new = old
  <2>1. /\ Goto(t, "process", at[t])
        /\ UNCHANGED <<rows, started, recorder, disk, clock, cleanup, history>>
    BY <1>1 DEF Rename
  <2>2. QED  BY <1>0, <2>1, GoOnStep
<1>2. CASE ~(old = Expected[t] \/ ~Exists(old) \/ new = old)
  <2>1. /\ Goto(t, "process", new)
        /\ files' = [files EXCEPT ![new] = files[old], ![old] = NoFile]
        /\ open' = [u \in Tasks |-> CASE open[u] = old -> new
                                      [] open[u] = new -> NoPath
                                      [] OTHER         -> open[u]]
        /\ UNCHANGED <<rows, started, recorder, source, cleanup, history>>
    BY <1>2 DEF Rename
  <2>2. old.ext \in Exts
    BY <1>0 DEF Paths
  <2>3. new \in Territory[t] /\ new \in Paths /\ new # NoPath /\ new # old /\ Exists(old)
    BY <1>0, <1>2, <2>2, TerritoryFacts
  <2> HIDE DEF new, old
  <2>4. monitor'[t] = "process" /\ at'[t] = new
    BY <1>0, <2>1 DEF Goto, TypeOK
  <2>5. open'[t] = NoPath
    BY <1>0, <2>1, <2>3
  <2>6. files'[new] = files[old] /\ files'[old] = NoFile
        /\ \A p \in Paths \ {old, new} : files'[p] = files[p]
    BY <1>0, <2>1, <2>3 DEF TypeOK
  <2>7. Placed(t)' /\ source'[t] = NoFile
    <3>1. source[t] = NoFile
      BY <1>0 DEF Placed
    <3>2. QED  BY <1>0, <2>1, <2>3, <2>4, <3>1 DEF Placed, HasRow, AtWork
  <2>8. Phases(t)'
    BY <1>0, <2>1, <2>4, <2>5 DEF Phases, HasRow, Completed
  <2>9. OwnFiles(t)'
    <3> SUFFICES ASSUME t \in Alone PROVE OwnFiles(t)'
      BY DEF OwnFiles
    <3>1. \A u \in Tasks \ {t} : open'[u] = open[u]
      BY <1>0, <2>1, <2>3 DEF OwnFiles
    <3>2. \A p \in Territory[t] : files'[p] # NoFile => files'[p].by = t
      BY <1>0, <2>3, <2>6, TerritoryFacts DEF OwnFiles, Exists
    <3>3. QED  BY <1>0, <2>1, <2>5, <2>7, <3>1, <3>2 DEF OwnFiles, Exists
  <2>10. Kept(t)'
    <3> SUFFICES ASSUME t \in Alone, t \in recorded \ selected PROVE Kept(t)'
      BY <2>1 DEF Kept
    <3>1. IsWhole(t, old)
      BY <1>0, <2>3, LeadsThere DEF Kept, AtWork, old
    <3>2. IsWhole(t, at[t])' /\ ~Completed(t)'
      BY <1>0, <2>1, <2>3, <2>4, <2>6, <3>1 DEF IsWhole, Completed, HasRow
    <3>3. QED  BY <2>4, <2>7, <3>2 DEF Kept, Leads
  <2>11. QED  BY <2>7, <2>8, <2>9, <2>10 DEF TaskInv
<1>3. QED  BY <1>1, <1>2


LEMMA ProcessStep ==
    ASSUME OutputInv, NEW t \in Tasks, Process(t) PROVE TaskInv(t)'
<1> USE DEF task, disk, clock, cleanup, history
<1>0. /\ TypeOK /\ Placed(t) /\ Phases(t) /\ OwnFiles(t) /\ Kept(t) /\ monitor[t] = "process"
      /\ recorder[t] = "off" /\ open[t] = NoPath /\ t \in started /\ ~Completed(t)
      /\ monitor[t] \in AtWork /\ at[t] \in Territory[t] /\ at[t] # NoPath
      /\ at[t] \in Paths /\ Output(t) \in Territory[t] /\ Output(t) \in Paths
  BY WorkFacts DEF Process
<1> DEFINE new == [by |-> files[at[t]].by, part |-> "empty"]
<1>1. /\ Exists(at[t]) /\ Output(t) # at[t]
      /\ files' = [files EXCEPT ![Output(t)] = new]
      /\ monitor'[t] = "convert" /\ at'[t] = at[t] /\ source'[t] = files[at[t]]
      /\ UNCHANGED <<rows, started, recorder, open, cleanup, history>>
  BY <1>0 DEF Process, Goto, TypeOK
<1>2. files[at[t]] # NoFile /\ new.by = files[at[t]].by
  BY <1>1 DEF Exists
<1> HIDE DEF new
<1>3. files'[Output(t)] = new /\ \A p \in Paths \ {Output(t)} : files'[p] = files[p]
  BY <1>0, <1>1 DEF TypeOK
<1>4. Placed(t)'
  BY <1>0, <1>1, <1>2 DEF Placed, HasRow, AtWork
<1>5. Phases(t)'
  <2>1. Output(t)' = Output(t)
    BY <1>1 DEF Output
  <2>2. QED  BY <1>0, <1>1, <2>1 DEF Phases, HasRow, Completed
<1>6. OwnFiles(t)'
  <2> SUFFICES ASSUME t \in Alone PROVE OwnFiles(t)'
    BY DEF OwnFiles
  <2>1. files[at[t]].by = t
    BY <1>0, <1>1 DEF OwnFiles
  <2>2. \A p \in Territory[t] : files'[p] # NoFile => files'[p].by = t
    BY <1>0, <1>2, <1>3, <2>1, TerritoryFacts DEF OwnFiles, Exists
  <2>3. QED  BY <1>0, <1>1, <2>1, <2>2 DEF OwnFiles, Exists
<1>7. Kept(t)'
  <2> SUFFICES ASSUME t \in Alone, t \in recorded \ selected PROVE Kept(t)'
    BY <1>1 DEF Kept
  <2>1. IsWhole(t, at[t])
    BY <1>0, <1>1, LeadsThere DEF Kept
  <2>2. IsWhole(t, at[t])' /\ ~Completed(t)' /\ source'[t] = Whole(t)
    BY <1>0, <1>1, <1>3, <2>1 DEF IsWhole, Completed, HasRow, Whole
  <2>3. QED  BY <1>1, <2>2 DEF Kept, Leads, Whole
<1>8. QED  BY <1>4, <1>5, <1>6, <1>7 DEF TaskInv

LEMMA ConvertedStep ==
    ASSUME OutputInv, NEW t \in Tasks, Converted(t) \/ ConvertFails(t) PROVE TaskInv(t)'
<1> USE DEF task, disk, clock, cleanup, history
<1>0. TypeOK /\ Placed(t) /\ Phases(t) /\ OwnFiles(t) /\ Kept(t)
  BY DEF OutputInv
<1>1. PICK l \in {"original", "write"} :
         /\ ConverterGone(t, l)
         /\ \/ files' = files /\ l = "write"
            \/ files' = [files EXCEPT ![Output(t)] = IF @ = NoFile THEN @ ELSE source[t]]
  BY DEF Converted, ConvertFails
<1>2. monitor[t] \in {"convert", "orphan"} /\ monitor[t] \in AtWork
  BY <1>1 DEF ConverterGone, AtWork
<1>3. /\ at[t] \in Territory[t] /\ at[t] \in Paths /\ at[t] # NoPath
      /\ Output(t) \in Territory[t] /\ Output(t) \in Paths
  BY <1>0, <1>2, AtWorkFacts
<1>4. /\ recorder[t] = "off" /\ open[t] = NoPath /\ t \in started
      /\ ~Completed(t) /\ source[t] # NoFile
  BY <1>0, <1>2, StartedFacts DEF Phases, Placed
<1>5. /\ UNCHANGED <<rows, started, recorder, open, cleanup, history>>
      /\ source'[t] = NoFile
      /\ \/ monitor[t] = "convert" /\ monitor'[t] = l /\ at'[t] = at[t]
         \/ monitor[t] = "orphan" /\ monitor'[t] = "off" /\ at'[t] = NoPath
  BY <1>0, <1>1 DEF ConverterGone, Goto, TypeOK
<1>6. /\ \A p \in Paths \ {Output(t)} : files'[p] = files[p]
      /\ \/ files'[Output(t)] = files[Output(t)] /\ l = "write"
         \/ files'[Output(t)] = IF files[Output(t)] = NoFile THEN NoFile ELSE source[t]
  BY <1>0, <1>1, <1>3 DEF TypeOK
<1>7. Placed(t)'
  BY <1>0, <1>3, <1>5 DEF Placed, HasRow, AtWork
<1>8. Phases(t)'
  <2>1. at'[t] = at[t] => Output(t)' = Output(t)
    BY DEF Output
  <2>2. QED  BY <1>0, <1>2, <1>4, <1>5, <2>1 DEF Phases, HasRow, Completed
<1>9. OwnFiles(t)'
  <2> SUFFICES ASSUME t \in Alone PROVE OwnFiles(t)'
    BY DEF OwnFiles
  <2>1. source[t].by = t /\ \A p \in Territory[t] : files[p] # NoFile => files[p].by = t
    BY <1>0, <1>4 DEF OwnFiles, Exists
  <2>2. \A p \in Territory[t] : files'[p] # NoFile => files'[p].by = t
    <3>1. files'[Output(t)] # NoFile => files'[Output(t)].by = t
      BY <1>3, <1>6, <2>1
    <3>2. QED  BY <1>6, <2>1, <3>1, TerritoryFacts
  <2>3. QED  BY <1>0, <1>4, <1>5, <2>2 DEF OwnFiles, Exists
<1>10. Kept(t)'
  <2> SUFFICES ASSUME t \in Alone, t \in recorded \ selected PROVE Kept(t)'
    BY <1>5 DEF Kept
  <2>1. PICK p \in Paths : p = at[t]
    BY <1>3
  <2>2. files[p] = Whole(t) /\ p # NoPath /\ p \in Territory[t] /\ source[t] = Whole(t)
    BY <1>0, <1>2, <1>3, <1>4, <2>1 DEF Kept, IsWhole
  <2>3. files'[p] = Whole(t)
    <3>1. files[p] # NoFile
      BY <2>2, WholeFacts
    <3>2. QED  BY <1>6, <2>2, <3>1
  <2>4. IsWhole(t, p)' /\ ~Completed(t)'
    BY <1>4, <1>5, <2>2, <2>3 DEF IsWhole, Completed, HasRow, Whole
  <2>5. CASE monitor[t] = "orphan"
    BY <1>5, <2>2, <2>4, <2>5 DEF Kept, AtWork
  <2>6. CASE monitor[t] = "convert"
    <3>1. Output(t)' = Output(t) /\ at'[t] = p
      BY <1>5, <2>1, <2>6 DEF Output
    <3>2. IsWhole(t, at[t])'
      BY <2>2, <2>3, <3>1 DEF IsWhole, Whole
    <3>3. l = "original" /\ Exists(Output(t))' => IsWhole(t, Output(t))'
      BY <1>3, <1>6, <2>2, <3>1, TerritoryFacts DEF IsWhole, Exists, Whole
    <3>4. monitor'[t] = l
      BY <1>5, <2>6
    <3>5. QED  BY <1>5, <2>4, <3>2, <3>3, <3>4 DEF Kept, Leads
  <2>7. QED  BY <1>2, <2>5, <2>6
<1>11. QED  BY <1>7, <1>8, <1>9, <1>10 DEF TaskInv

LEMMA OriginalStep ==
    ASSUME OutputInv, NEW t \in Tasks, Original(t) PROVE TaskInv(t)'
<1> USE DEF task, disk, clock, cleanup, history
<1>0. /\ TypeOK /\ Placed(t) /\ Phases(t) /\ OwnFiles(t) /\ Kept(t) /\ monitor[t] = "original"
      /\ recorder[t] = "off" /\ open[t] = NoPath /\ t \in started /\ ~Completed(t)
      /\ monitor[t] \in AtWork /\ at[t] \in Territory[t] /\ at[t] # NoPath
      /\ at[t] \in Paths /\ Output(t) \in Territory[t] /\ Output(t) \in Paths
  BY WorkFacts DEF Original
<1>1. CASE ~Exists(Output(t))
  <2>1. /\ Goto(t, "write", at[t])
        /\ UNCHANGED <<rows, started, recorder, disk, clock, cleanup, history>>
    BY <1>1 DEF Original
  <2>2. QED  BY <1>0, <2>1, GoOnStep
<1>2. CASE Exists(Output(t))
  <2>1. PICK p \in Paths : p = Output(t)
    BY <1>0
  <2>2. /\ monitor'[t] = "write" /\ at'[t] = p /\ p # at[t]
        /\ UNCHANGED <<rows, started, recorder, cleanup, history>>
    BY <1>0, <1>2, <2>1 DEF Original, Goto, TypeOK, Phases
  <2>3. /\ files'[p] = files[p] /\ \A q \in Paths : files'[q] \in {files[q], NoFile}
        /\ open'[t] = NoPath /\ \A u \in Tasks : open'[u] \in {open[u], NoPath}
        /\ source'[t] = source[t]
    BY <1>0, <1>2, <2>2 DEF Original, Unlink, TypeOK
  <2>4. Placed(t)' /\ source'[t] = NoFile
    <3>1. source[t] = NoFile
      BY <1>0 DEF Placed
    <3>2. QED  BY <1>0, <2>1, <2>2, <2>3, <3>1 DEF Placed, HasRow, AtWork
  <2>5. Phases(t)'
    BY <1>0, <2>2, <2>3 DEF Phases, HasRow, Completed
  <2>6. OwnFiles(t)'
    <3> SUFFICES ASSUME t \in Alone PROVE OwnFiles(t)'
      BY DEF OwnFiles
    <3>1. \A u \in Tasks \ {t} : open'[u] \notin Territory[t]
      BY <1>0, <2>3, TerritoryFacts DEF OwnFiles
    <3>2. \A q \in Territory[t] : files'[q] # NoFile => files'[q].by = t
      BY <1>0, <2>3, TerritoryFacts DEF OwnFiles, Exists
    <3>3. QED  BY <1>0, <2>2, <2>3, <2>4, <3>1, <3>2 DEF OwnFiles, Exists
  <2>7. Kept(t)'
    <3> SUFFICES ASSUME t \in Alone, t \in recorded \ selected PROVE Kept(t)'
      BY <2>2 DEF Kept
    <3>1. IsWhole(t, p)
      BY <1>0, <1>2, <2>1 DEF Kept
    <3>2. IsWhole(t, at[t])' /\ ~Completed(t)'
      BY <1>0, <2>2, <2>3, <3>1 DEF IsWhole, Completed, HasRow
    <3>3. QED  BY <2>2, <2>4, <3>2 DEF Kept, Leads
  <2>8. QED  BY <2>4, <2>5, <2>6, <2>7 DEF TaskInv
<1>3. QED  BY <1>1, <1>2


\* What becomes of the row when it is written to: it ends, or is left alone.
LEMMA WriteBackRow ==
    ASSUME OutputInv, NEW t \in Tasks, WriteBack(t)
    PROVE  /\ HasRow(t)' => HasRow(t) /\ \/ rows'[t].path = rows[t].path
                                         \/ monitor[t] = "write" /\ rows'[t].path = at[t]
           /\ Completed(t)' => \/ Completed(t)
                               \/ monitor[t] = "write" /\ rows'[t].path = at[t]
<1>0. TypeOK
  BY DEF OutputInv
<1>1. monitor[t] \in {"write", "failed"}
  BY DEF WriteBack
<1>2. CASE ~Running(t)
  <2>1. rows' = rows
    BY <1>2 DEF WriteBack
  <2>2. QED  BY <2>1 DEF HasRow, Completed
<1>3. CASE Running(t) /\ monitor[t] = "write"
  <2>1. rows' = [rows EXCEPT ![t] = [status |-> "completed", path |-> at[t], ended |-> today]]
    BY <1>3 DEF WriteBack
  <2>2. rows'[t].path = at[t]
    BY <1>0, <2>1 DEF TypeOK
  <2>3. QED  BY <1>3, <2>2 DEF Running
<1>4. CASE Running(t) /\ monitor[t] = "failed"
  <2>1. rows[t] \in Rows
    BY <1>0, <1>4 DEF Running, HasRow, TypeOK
  <2>2. rows' = [rows EXCEPT ![t].status = "over", ![t].ended = today]
    BY <1>4 DEF WriteBack
  <2>3. rows'[t] = [rows[t] EXCEPT !.status = "over", !.ended = today]
    BY <1>0, <2>2 DEF TypeOK
  <2>4. "over" \in Status /\ today \in Nat
    BY <1>0 DEF TypeOK, Status
  <2>5. rows'[t].path = rows[t].path /\ rows'[t].status = "over"
    <3>1. /\ [rows[t] EXCEPT !.status = "over", !.ended = today].path = rows[t].path
          /\ [rows[t] EXCEPT !.status = "over", !.ended = today].status = "over"
      BY <2>1, <2>4 DEF Rows
    <3>2. QED  BY <2>3, <3>1
  <2>6. QED  BY <1>4, <2>5 DEF Running, Completed
<1>5. QED  BY <1>1, <1>2, <1>3, <1>4

LEMMA WriteBackStep ==
    ASSUME OutputInv, NEW t \in Tasks, WriteBack(t) PROVE TaskInv(t)'
<1> USE DEF task, disk, clock, cleanup, history
<1>0. TypeOK /\ Placed(t) /\ Phases(t) /\ OwnFiles(t) /\ Kept(t)
  BY DEF OutputInv
<1>1. /\ monitor[t] \in {"write", "failed"} /\ recorder[t] = "off" /\ ~Completed(t)
      /\ t \in started /\ open[t] = NoPath /\ Admissible(t) /\ source[t] = NoFile
  BY <1>0, StartedFacts DEF WriteBack, Phases, Placed
<1>2. /\ monitor'[t] = "off" /\ at'[t] = NoPath
      /\ UNCHANGED <<started, recorder, disk, cleanup, history>>
  BY <1>0 DEF WriteBack, Goto, TypeOK
<1>3. monitor[t] = "write" => at[t] \in Territory[t] /\ at[t] # NoPath /\ at[t] \in Paths
  BY WorkFacts
<1>4. Placed(t)'
  BY <1>0, <1>1, <1>2, <1>3, WriteBackRow DEF Placed, AtWork
<1>5. Phases(t)'
  BY <1>0, <1>1, <1>2, WriteBackRow DEF Phases
<1>6. OwnFiles(t)'
  BY <1>0, <1>2, OwnFilesKept
<1>7. Kept(t)'
  <2> SUFFICES ASSUME t \in Alone, t \in recorded \ selected PROVE Kept(t)'
    BY <1>2 DEF Kept
  <2>1. monitor[t] = "write"
    BY <1>0, <1>1 DEF Phases
  <2>2. at[t] \in Territory[t] /\ Leads(t, at[t])
    BY <1>0, <1>3, <2>1 DEF Kept, AtWork
  <2>3. SameLooks(t)
    BY <1>2 DEF SameLooks
  <2>4. Leads(t, at[t]) => Leads(t, rows[t].path)' \/ ~Completed(t)'
    <3>1. PICK p \in Territory[t] : p = at[t]
      BY <2>2
    <3>2. Leads(t, p)'
      BY <1>1, <1>2, <2>2, <2>3, <3>1, LeadsKept
    <3>3. Completed(t)' => rows'[t].path = p
      BY <1>1, <3>1, WriteBackRow
    <3>4. QED  BY <3>2, <3>3 DEF Leads, IsWhole, Exists
  <2>5. \E p \in Territory[t] : IsWhole(t, p)'
    <3>1. PICK p \in Territory[t] : IsWhole(t, p)
      BY StillThere
    <3>2. IsWhole(t, p)'
      BY <1>2, <3>1 DEF IsWhole
    <3>3. QED  BY <3>2
  <2>6. QED  BY <1>1, <1>2, <2>2, <2>4, <2>5 DEF Kept, AtWork
<1>8. QED  BY <1>4, <1>5, <1>6, <1>7 DEF TaskInv

\* A row that ends, or goes, without its monitor.
LEMMA RowStep ==
    ASSUME OutputInv, NEW t \in Tasks,
           ~HasRow(t)' \/ (HasRow(t) /\ rows'[t].path = rows[t].path), ~Completed(t)',
           UNCHANGED <<started, recorder, monitor, at, disk, clock, doomed, history>>
    PROVE  TaskInv(t)'
<1> USE DEF task, disk, clock, history
<1>0. TypeOK /\ Placed(t) /\ Phases(t) /\ OwnFiles(t) /\ Kept(t)
  BY DEF OutputInv
<1>1. Placed(t)'
  BY <1>0 DEF Placed
<1>2. Phases(t)'
  BY <1>0 DEF Phases, Output
<1>3. OwnFiles(t)'
  BY <1>0, OwnFilesKept
<1>4. Kept(t)'
  <2>1. SameLooks(t) /\ (t \in recorded => Admissible(t))
    BY <1>0, RecordedFacts DEF SameLooks
  <2>2. QED  BY <1>0, <2>1, KeptFrame
<1>5. QED  BY <1>1, <1>2, <1>3, <1>4 DEF TaskInv

LEMMA InterruptStep ==
    ASSUME OutputInv, NEW t \in Tasks, Interrupt(t) \/ DeleteRow(t) PROVE TaskInv(t)'
<1> USE DEF task, disk, clock, cleanup, history
<1>0. TypeOK
  BY DEF OutputInv
<1>1. UNCHANGED <<started, recorder, monitor, at, disk, clock, doomed, history>>
  BY DEF Interrupt, DeleteRow
<1>2. CASE Interrupt(t)
  <2>1. rows[t] \in Rows /\ HasRow(t)
    BY <1>0, <1>2 DEF Interrupt, Running, HasRow, TypeOK
  <2>2. rows' = [rows EXCEPT ![t].status = "over", ![t].ended = today]
    BY <1>2 DEF Interrupt
  <2>3. rows'[t] = [rows[t] EXCEPT !.status = "over", !.ended = today]
    BY <1>0, <2>2 DEF TypeOK
  <2>4. "over" \in Status /\ today \in Nat
    BY <1>0 DEF TypeOK, Status
  <2>5. rows'[t].path = rows[t].path /\ rows'[t].status = "over"
    <3>1. /\ [rows[t] EXCEPT !.status = "over", !.ended = today].path = rows[t].path
          /\ [rows[t] EXCEPT !.status = "over", !.ended = today].status = "over"
      BY <2>1, <2>4 DEF Rows
    <3>2. QED  BY <2>3, <3>1
  <2>6. QED  BY <1>1, <2>1, <2>5, RowStep DEF Completed
<1>3. CASE DeleteRow(t)
  <2>1. rows'[t] = NoRow
    BY <1>0, <1>3 DEF DeleteRow, TypeOK
  <2>2. QED  BY <1>1, <2>1, RowStep DEF Completed, HasRow
<1>4. QED  BY <1>2, <1>3

\* Every action of a task keeps its own part of the invariant.
LEMMA OwnStep ==
    ASSUME OutputInv, NEW t \in Tasks, TaskAction(t) PROVE TaskInv(t)'
<1>1. CASE RenameFails(t) \/ NoProcess(t)
  <2>1. \E l \in {"process", "write"} : Goto(t, l, at[t])
    BY <1>1 DEF RenameFails, NoProcess
  <2>2. monitor[t] \in {"rename", "process", "original"}
    BY <1>1 DEF RenameFails, NoProcess
  <2>3. UNCHANGED <<rows, started, recorder, disk, clock, cleanup, history>>
    BY <1>1 DEF RenameFails, NoProcess
  <2>4. QED  BY <2>1, <2>2, <2>3, GoOnStep
<1>2. QED
  BY <1>1, StartStep, OpenStep, FirstBytesStep, RecorderDoneStep, RecorderFailsStep, FindStep, RenameStep,
     ProcessStep, ConvertedStep, OriginalStep, WriteBackStep, InterruptStep
     DEF TaskAction, MonitorStep

-----------------------------------------------------------------------------
(* Clean-up, the clock and the fault.                                      *)

\* A clean-up removes files of tasks it has selected.
LEMMA RemoveStep ==
    ASSUME OutputInv, NEW c \in Cleaners, NEW t \in Tasks, NEW u \in Tasks,
           Remove(c, t) \/ RemoveFails(c, t)
    PROVE  TaskInv(u)'
<1> USE DEF task, disk, clock, cleanup, history
<1>0. TypeOK /\ Placed(t) /\ Placed(u) /\ Phases(u) /\ OwnFiles(u) /\ Kept(u)
  BY DEF OutputInv
<1>1. /\ doomed[c][t] # NoPath /\ t \in selected
      /\ doomed[c][t] \in Territory[t]
  BY <1>0 DEF Remove, RemoveFails, Handled, Placed
<1>2. UNCHANGED <<rows, started, recorder, monitor, at, history>>
  BY DEF Remove, RemoveFails, Handled
<1>3. \A b \in Cleaners : doomed'[b][u] \in {doomed[b][u], NoPath}
  <2>1. doomed' = [doomed EXCEPT ![c] = [doomed[c] EXCEPT ![t] = NoPath]]
    BY <1>0 DEF Remove, RemoveFails, Handled, TypeOK
  <2>2. doomed \in [Cleaners -> [Tasks -> Paths \cup {NoPath}]]
    BY <1>0 DEF TypeOK
  <2>3. QED  BY <2>1, <2>2
<1>4. (UNCHANGED disk \/ Unlink(doomed[c][t])) /\ source' = source
  BY DEF Remove, RemoveFails, Unlink
<1>5. Local(t)
  <2>1. CASE UNCHANGED disk
    BY <2>1 DEF Local
  <2>2. QED  BY <1>0, <1>1, <1>4, <2>1, LocalUnlink
<1>6. \A v \in Tasks : open'[v] \in {open[v], NoPath}
  BY <1>0, <1>4 DEF Unlink
<1>7. \A p \in Paths : files'[p] \in {files[p], NoFile}
  BY <1>0, <1>4 DEF Unlink, TypeOK
<1>8. CASE u # t
  <2>1. Untouched(u)
    BY <1>2, <1>4 DEF Untouched
  <2>2. u \in Alone => SameFiles(u)
    BY <1>5, <1>8, OthersFiles
  <2>3. QED  BY <1>2, <1>3, <1>6, <2>1, <2>2, TaskFrame
<1>9. CASE u = t
  <2>1. Placed(u)'
    BY <1>0, <1>2, <1>3, <1>4 DEF Placed, HasRow
  <2>2. Phases(u)'
    BY <1>0, <1>2, <1>6 DEF Phases, HasRow, Completed, Output
  <2>3. OwnFiles(u)'
    <3> SUFFICES ASSUME u \in Alone PROVE OwnFiles(u)'
      BY DEF OwnFiles
    <3>1. open'[u] \in Written[u] \cup {NoPath}
      BY <1>0, <1>6 DEF OwnFiles
    <3>2. \A v \in Tasks \ {u} : open'[v] \notin Territory[u]
      BY <1>0, <1>6, TerritoryFacts DEF OwnFiles
    <3>3. \A p \in Territory[u] : files'[p] # NoFile =>
             /\ files[p] = files'[p] /\ files[p].by = u /\ u \in started
             /\ recorder[u] # "started" /\ (recorder[u] = "writing" => p = open[u])
      BY <1>0, <1>7, TerritoryFacts DEF OwnFiles, Exists
    <3>4. ASSUME NEW p \in Territory[u], files'[p] # NoFile, recorder[u] = "writing"
          PROVE  p = open'[u]
      <4>1. p = open[u]
        BY <3>3, <3>4
      <4>2. CASE UNCHANGED disk
        BY <4>1, <4>2
      <4>3. CASE Unlink(doomed[c][t])
        <5>1. p # doomed[c][t]
          BY <1>0, <3>4, <4>3, TerritoryFacts DEF Unlink, TypeOK
        <5>2. QED  BY <4>1, <4>3, <5>1 DEF Unlink
      <4>4. QED  BY <1>4, <4>2, <4>3
    <3>5. source'[u] # NoFile => source'[u].by = u
      BY <1>0, <1>4 DEF OwnFiles
    <3>6. QED  BY <1>2, <3>1, <3>2, <3>3, <3>4, <3>5 DEF OwnFiles, Exists
  <2>4. Kept(u)'
    BY <1>1, <1>2, <1>9 DEF Kept
  <2>5. QED  BY <2>1, <2>2, <2>3, <2>4 DEF TaskInv
<1>10. QED  BY <1>8, <1>9


LEMMA SelectStep ==
    ASSUME OutputInv, NEW c \in Cleaners, Select(c), NEW u \in Tasks PROVE TaskInv(u)'
<1> USE DEF task, disk, clock, cleanup, history
<1>0. TypeOK /\ Placed(u) /\ Phases(u) /\ OwnFiles(u) /\ Kept(u)
  BY DEF OutputInv
<1> DEFINE old == {t \in Tasks : Expired(t, days)}
<1>1. /\ doomed' = [doomed EXCEPT ![c] =
                       [t \in Tasks |-> IF t \in old THEN rows[t].path ELSE NoPath]]
      /\ selected' = selected \cup old
      /\ UNCHANGED <<rows, started, recorder, monitor, at, disk, recorded, overlooked>>
  BY DEF Select
<1>2. u \in old => HasRow(u) /\ rows[u].path \in Territory[u] /\ u \in started
  BY <1>0, StartedFacts DEF Expired, Ended, Placed
<1>3. \A b \in Cleaners : \/ doomed'[b][u] = doomed[b][u]
                          \/ doomed'[b][u] = IF u \in old THEN rows[u].path ELSE NoPath
  BY <1>0, <1>1 DEF TypeOK
<1> HIDE DEF old
<1>4. Placed(u)'
  BY <1>0, <1>1, <1>2, <1>3 DEF Placed, HasRow
<1>5. Phases(u)'
  BY <1>0, <1>1, <1>2 DEF Phases, HasRow, Completed, Output
<1>6. OwnFiles(u)'
  BY <1>0, <1>1, OwnFilesKept
<1>7. Kept(u)'
  <2>1. SameLooks(u) /\ (u \in recorded => Admissible(u))
    BY <1>0, <1>1, RecordedFacts DEF SameLooks
  <2>2. Completed(u)' => Completed(u) /\ rows'[u] = rows[u]
    BY <1>1 DEF Completed, HasRow
  <2>3. u \in selected => u \in selected'
    BY <1>1
  <2>4. QED  BY <1>0, <1>1, <2>1, <2>2, <2>3, KeptFrame
<1>8. QED  BY <1>4, <1>5, <1>6, <1>7 DEF TaskInv

\* Only the row of a task that has ended long ago goes.
LEMMA PurgeStep ==
    ASSUME OutputInv, NEW c \in Cleaners, Purge(c), NEW u \in Tasks PROVE TaskInv(u)'
<1> USE DEF task, disk, clock, cleanup, history
<1>1. /\ UNCHANGED <<started, recorder, monitor, at, disk, clock, doomed, history>>
      /\ rows'[u] = IF Expired(u, keep[c]) THEN NoRow ELSE rows[u]
  BY DEF Purge
<1>2. CASE Expired(u, keep[c])
  BY <1>1, <1>2, RowStep DEF Completed, HasRow
<1>3. CASE ~Expired(u, keep[c])
  BY <1>1, <1>3, TaskFrame DEF Untouched, SameFiles
<1>4. QED  BY <1>2, <1>3

\* The steps that change nothing but the clock, or abandon a clean-up.
LEMMA QuietStep ==
    ASSUME OutputInv, NEW u \in Tasks,
           UNCHANGED <<task, disk, recorded, selected, overlooked>>,
           UNCHANGED doomed \/ \E c \in Cleaners : doomed' = [doomed EXCEPT ![c] = None]
    PROVE  TaskInv(u)'
<1> USE DEF task, disk
<1>0. TypeOK
  BY DEF OutputInv
<1>1. Untouched(u) /\ SameFiles(u)
  BY DEF Untouched, SameFiles
<1>2. \A b \in Cleaners : doomed'[b][u] \in {doomed[b][u], NoPath}
  BY <1>0 DEF None, TypeOK
<1>3. QED  BY <1>1, <1>2, TaskFrame

LEMMA CrashStep ==
    ASSUME OutputInv, NEW u \in Tasks, Crash PROVE TaskInv(u)'
<1> USE DEF task, disk, clock, cleanup, history
<1>0. TypeOK /\ Placed(u) /\ Phases(u) /\ OwnFiles(u) /\ Kept(u)
  BY DEF OutputInv
<1>1. /\ monitor'[u] = IF monitor[u] \in {"convert", "orphan"} THEN "orphan" ELSE "off"
      /\ at'[u] = IF monitor[u] \in {"convert", "orphan"} THEN at[u] ELSE NoPath
      /\ UNCHANGED <<started, recorder, disk, recorded, selected, overlooked>>
      /\ \A c \in Cleaners : doomed'[c][u] = NoPath
  BY DEF Crash, None
<1>2. /\ HasRow(u)' => HasRow(u) /\ rows'[u].path = rows[u].path
      /\ HasRow(u) => HasRow(u)'
      /\ Completed(u)' => Completed(u) /\ rows'[u].path = rows[u].path
  <2>1. CASE ~Running(u)
    <3>1. rows'[u] = rows[u]
      BY <2>1 DEF Crash
    <3>2. QED  BY <3>1 DEF HasRow, Completed
  <2>2. CASE Running(u)
    <3>1. rows[u] \in Rows /\ HasRow(u) /\ "over" \in Status /\ today \in Nat
      BY <1>0, <2>2 DEF Running, HasRow, TypeOK, Status
    <3>2. rows'[u] = [rows[u] EXCEPT !.status = "over", !.ended = today]
      BY <2>2 DEF Crash
    <3>3. /\ [rows[u] EXCEPT !.status = "over", !.ended = today].path = rows[u].path
          /\ [rows[u] EXCEPT !.status = "over", !.ended = today].status = "over"
      BY <3>1 DEF Rows
    <3>4. [rows[u] EXCEPT !.status = "over", !.ended = today] \in Rows
      BY <3>1, RowUpdated
    <3>5. QED  BY <3>1, <3>2, <3>3, <3>4 DEF HasRow, Completed
  <2>3. QED  BY <2>1, <2>2
<1>3. Placed(u)'
  BY <1>0, <1>1, <1>2 DEF Placed, AtWork
<1>4. Phases(u)'
  BY <1>0, <1>1, <1>2 DEF Phases
<1>5. OwnFiles(u)'
  BY <1>0, <1>1, OwnFilesKept
<1>6. Kept(u)'
  <2> SUFFICES ASSUME u \in Alone, u \in recorded \ selected PROVE Kept(u)'
    BY <1>1 DEF Kept
  <2>1. PICK p \in Territory[u] : IsWhole(u, p)
    BY StillThere
  <2>2. IsWhole(u, p)'
    BY <1>1, <2>1 DEF IsWhole
  <2>3. Admissible(u) /\ \A q \in Territory[u] : Leads(u, q) => Leads(u, q)'
    BY <1>0, <1>1, RecordedFacts, LeadsKept DEF SameLooks
  <2>4. CASE monitor[u] \in {"convert", "orphan"}
    <3>1. monitor'[u] = "orphan" /\ at'[u] = at[u] /\ ~Completed(u)'
      BY <1>0, <1>1, <1>2, <2>4 DEF Phases
    <3>2. IsWhole(u, at[u]) /\ (source[u] # NoFile => source[u] = Whole(u))
      BY <1>0, <2>4 DEF Kept
    <3>3. IsWhole(u, at[u])' /\ (source'[u] # NoFile => source'[u] = Whole(u))
      BY <1>1, <3>1, <3>2 DEF IsWhole
    <3>4. QED  BY <3>1, <3>3 DEF Kept, Leads, Whole
  <2>5. CASE monitor[u] \notin {"convert", "orphan"}
    <3>1. monitor'[u] = "off" /\ source'[u] = NoFile
      BY <1>0, <1>1, <2>5 DEF Placed
    <3>2. ASSUME Completed(u)' PROVE Leads(u, rows[u].path)'
      <4>1. PICK q \in Territory[u] : q = rows[u].path /\ Leads(u, q)
        BY <1>0, <1>2, <3>2 DEF Kept, Placed, Completed
      <4>2. Leads(u, q)' /\ rows'[u].path = q
        BY <1>2, <2>3, <3>2, <4>1
      <4>3. QED  BY <4>2 DEF Leads, IsWhole, Exists
    <3>3. QED  BY <2>1, <2>2, <3>1, <3>2 DEF Kept, AtWork
  <2>6. QED  BY <2>4, <2>5
<1>7. QED  BY <1>3, <1>4, <1>5, <1>6 DEF TaskInv

-----------------------------------------------------------------------------
(* The invariant.                                                          *)

LEMMA OutputInit == Init => OutputInv
<1> SUFFICES ASSUME Init PROVE OutputInv
  OBVIOUS
<1>1. TypeOK
  BY NamesAssumption DEF Init, TypeOK, None
<1>2. ASSUME NEW t \in Tasks PROVE Placed(t) /\ Phases(t) /\ OwnFiles(t) /\ Kept(t)
  <2>1. /\ ~HasRow(t) /\ recorder[t] = "off" /\ monitor[t] = "off" /\ at[t] = NoPath
        /\ open[t] = NoPath /\ source[t] = NoFile
        /\ t \notin started \cup recorded \cup selected
    BY DEF Init, HasRow, None
  <2>2. \A c \in Cleaners : doomed[c][t] = NoPath
    BY DEF Init, None
  <2>3. Placed(t) /\ Phases(t) /\ Kept(t)
    BY <2>1, <2>2 DEF Placed, Phases, Kept, Completed, AtWork
  <2>4. OwnFiles(t)
    <3>1. \A p \in Territory[t] : ~Exists(p)
      BY TerritoryFacts DEF Init, Exists
    <3>2. \A u \in Tasks : open[u] \notin Territory[t]
      BY TerritoryFacts DEF Init, None
    <3>3. QED  BY <2>1, <3>1, <3>2 DEF OwnFiles
  <2>5. QED  BY <2>3, <2>4
<1>3. QED  BY <1>1, <1>2 DEF OutputInv

LEMMA OutputStep == OutputInv /\ [Next]_vars => OutputInv'
<1> SUFFICES ASSUME OutputInv, [Next]_vars PROVE OutputInv'
  OBVIOUS
<1> USE DEF task, disk, clock, cleanup, history
<1>1. TypeOK'
  BY TypeStep
<1>2. ASSUME NEW u \in Tasks PROVE TaskInv(u)'
  <2>1. ASSUME NEW t \in Tasks, TaskAction(t) PROVE TaskInv(u)'
    BY <2>1, OwnStep, OthersStep
  <2>2. ASSUME NEW c \in Cleaners, CleanAction(c) PROVE TaskInv(u)'
    <3>1. CASE CleanupFails(c)
      BY <3>1, QuietStep DEF CleanupFails
    <3>2. QED
      BY <2>2, <3>1, SelectStep, PurgeStep, RemoveStep DEF CleanAction, CleanupStep
  <2>3. CASE (\E n \in Periods : SetDays(n)) \/ NextDay
    BY <2>3, QuietStep DEF SetDays, NextDay
  <2>4. CASE Crash
    BY <2>4, CrashStep
  <2>5. CASE UNCHANGED vars
    BY <2>5, QuietStep DEF vars
  <2>6. QED  BY <2>1, <2>2, <2>3, <2>4, <2>5, NextActions
<1>3. QED  BY <1>1, <1>2 DEF OutputInv, TaskInv

\* Files stay in their task's territory; for a task whose names no other task shares,
\* a monitor works on a whole recording, or on nothing where it has missed one, and so
\* does the completed row (services/recording.rs and services/cleanup.rs).
THEOREM OutputInvariant == Spec => []OutputInv
<1>1. QED  BY OutputInit, OutputStep, PTL DEF Spec

\* What was recorded whole is on disk until clean-up has selected its row, however many
\* tasks and clean-ups there are and however names and settings are chosen, for every
\* task whose names no other task shares (services/recording.rs, the monitor).
THEOREM RecordingsStay == Spec => []RecordingsKept
<1>1. OutputInv => RecordingsKept
  <2> SUFFICES ASSUME OutputInv, NEW t \in (recorded \ selected) \cap Alone
               PROVE  \E p \in Paths : IsWhole(t, p)
    BY DEF RecordingsKept
  <2>1. t \in Tasks
    BY DEF Alone
  <2>2. QED  BY <2>1, StillThere, TerritoryFacts
<1>2. QED  BY <1>1, OutputInvariant, PTL

\* The completed row of such a task leads to its whole recording: not to a part, not to
\* another's, and to nothing only if the recording lies under a name that looks
\* temporary, or the directory could not be read (the write_back of the monitor).
THEOREM CompletedLead == Spec => []CompletedPathsLead
<1>1. OutputInv => CompletedPathsLead
  BY DEF OutputInv, CompletedPathsLead, Kept, TypeOK
<1>2. QED  BY <1>1, OutputInvariant, PTL

=============================================================================
