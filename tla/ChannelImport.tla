---------------------------- MODULE ChannelImport ----------------------------
(***************************************************************************)
(* The channels table and what writes it: requests that create, update and *)
(* delete channels, one statement each, and imports of playlists, which    *)
(* look up the addresses they bring, then write entry by entry inside one  *)
(* transaction.                                                            *)
(*                                                                         *)
(* SQLite (WAL, an external part) has one writer at a time: the first      *)
(* statement of a transaction that writes takes the lock, commit and       *)
(* rollback release it, and nobody else sees the rows written in between.  *)
(***************************************************************************)
EXTENDS M3UParser, FiniteSets

CONSTANTS
    Ids,            \* uuids of channels, existing or to be created
    Refused,        \* addresses the light check of an import refuses
    Submitted,      \* rows that clients create and edit channels to
    Playlists,      \* what clients upload
    Importers,      \* import requests
    ChunkSize,      \* addresses looked up by one statement, 500
    NoRow, NoId, NoOne, NoPlaylist

Rows   == Entries
Tables == [Ids -> Rows \cup {NoRow}]
NoTable == [i \in Ids |-> NoRow]

ASSUME SubmittedAssumption == Submitted \subseteq Rows
ASSUME PlaylistsAssumption == Playlists \subseteq Seq(Lines)
ASSUME ChunkAssumption == ChunkSize \in Nat \ {0}
ASSUME NothingAssumption ==
    /\ NoRow \notin Rows /\ NoId \notin Ids /\ NoOne \notin Importers
    /\ NoPlaylist \notin Playlists \cup [rows : SUBSET Rows, overwrite : BOOLEAN]

VARIABLES
    channels,       \* the committed rows
    used,           \* ids that have been given to a row
    writer,         \* the import that holds the write lock
    pending,        \* the rows as its transaction sees them
    pc, playlist, entries, overwrite,
    unread,         \* addresses an import has yet to look up
    existing,       \* existing_by_url
    at,             \* the entry an import is about to handle
    imported, skipped, failed,  \* entries by what became of them
    mine,           \* the ids an import has given out
    lost            \* ids given out by imports that were abandoned (history)

table   == <<channels, used>>
lock    == <<writer, pending>>
request == <<playlist, entries, overwrite>>
result  == <<imported, skipped, failed, mine>>
found   == <<unread, existing>>
vars    == <<table, lock, pc, request, found, at, result, lost>>

Init ==
    /\ channels \in [Ids -> Submitted \cup {NoRow}]
    /\ \A i, j \in Ids : channels[i] # NoRow /\ channels[j] # NoRow /\ i # j
                            => channels[i].url # channels[j].url
    /\ used = {i \in Ids : channels[i] # NoRow}
    /\ writer = NoOne /\ pending = NoTable
    /\ pc = [h \in Importers |-> "idle"]
    /\ playlist = [h \in Importers |-> NoPlaylist]
    /\ entries = [h \in Importers |-> <<>>]
    /\ overwrite = [h \in Importers |-> FALSE]
    /\ unread = [h \in Importers |-> {}]
    /\ existing = [h \in Importers |-> [u \in Urls |-> NoId]]
    /\ at = [h \in Importers |-> 1]
    /\ imported = [h \in Importers |-> {}]
    /\ skipped = [h \in Importers |-> {}]
    /\ failed = [h \in Importers |-> {}]
    /\ mine = [h \in Importers |-> {}]
    /\ lost = {}

Goto(h, l) == pc' = [pc EXCEPT ![h] = l]

\* The index on url: may row i hold address u?
Free(rows, i, u) == \A j \in Ids \ {i} : rows[j] # NoRow => rows[j].url # u

-----------------------------------------------------------------------------
(* Single requests.  While an import holds the lock they wait, or fail and *)
(* change nothing.                                                         *)

Edit ==
    /\ writer = NoOne
    /\ UNCHANGED <<lock, pc, request, found, at, result, lost>>

Create(i, row) ==
    /\ Edit /\ i \notin used /\ Free(channels, i, row.url)
    /\ channels' = [channels EXCEPT ![i] = row]
    /\ used' = used \cup {i}

\* An update checks no address, and of a row that is gone it changes nothing.
Update(i, row) ==
    /\ Edit /\ channels[i] # NoRow /\ Free(channels, i, row.url)
    /\ channels' = [channels EXCEPT ![i] = row]
    /\ UNCHANGED used

\* delete and delete_many; tasks and schedules go along.
Delete(S) ==
    /\ Edit
    /\ channels' = [i \in Ids |-> IF i \in S THEN NoRow ELSE channels[i]]
    /\ UNCHANGED used

-----------------------------------------------------------------------------
(* An import.                                                              *)

\* The playlist is parsed before the table is touched; without a channel in it
\* the answer is ready and nothing has changed.
Import(h, p, ow) ==
    LET parsed == Parse(p).channels IN
    /\ pc[h] = "idle" /\ parsed # <<>> /\ Goto(h, "lookup")
    /\ playlist' = [playlist EXCEPT ![h] = p]
    /\ entries' = [entries EXCEPT ![h] = parsed]
    /\ overwrite' = [overwrite EXCEPT ![h] = ow]
    /\ unread' = [unread EXCEPT ![h] = {parsed[n].url : n \in DOMAIN parsed}]
    /\ UNCHANGED <<table, lock, existing, at, result, lost>>

\* find_existing_ids_by_url, outside the transaction: a statement for every
\* ChunkSize addresses, and others may write between two of them.  The addresses
\* are sorted; here any chunk may come first.
IdOf(rows, u) == IF \E i \in Ids : rows[i] # NoRow /\ rows[i].url = u
                 THEN CHOOSE i \in Ids : rows[i] # NoRow /\ rows[i].url = u
                 ELSE NoId

Chunks(h) == IF Cardinality(unread[h]) <= ChunkSize THEN {unread[h]}
             ELSE {C \in SUBSET unread[h] : Cardinality(C) = ChunkSize}

LookUp(h, C) ==
    /\ pc[h] = "lookup" /\ Goto(h, IF C = unread[h] THEN "write" ELSE "lookup")
    /\ unread' = [unread EXCEPT ![h] = @ \ C]
    /\ existing' = [existing EXCEPT ![h] =
           [u \in Urls |-> IF u \in C THEN IdOf(channels, u) ELSE @[u]]]
    /\ UNCHANGED <<table, lock, request, at, result, lost>>

Entry(h) == entries[h][at[h]]
Writing(h) == pc[h] = "write" /\ at[h] <= Len(entries[h])

\* Seen earlier in the batch.
Seen(h) == \E n \in 1..(at[h] - 1) : entries[h][n].url = Entry(h).url

\* Faulty variant: an address that was seen is written again.
Verdict_IgnoresSeen(h) ==
    CASE Entry(h).url \in Refused -> "failed"
      [] Entry(h).url \notin Refused
             /\ existing[h][Entry(h).url] # NoId /\ ~overwrite[h] -> "skipped"
      [] OTHER -> "write"

\* Faulty variant: channels that are there are overwritten without being asked to.
Verdict_Overwrites(h) ==
    CASE Seen(h) -> "skipped"
      [] ~Seen(h) /\ Entry(h).url \in Refused -> "failed"
      [] OTHER -> "write"

\* What needs no statement: entries seen, refused, or there already.
Verdict(h) ==
    CASE Seen(h) -> "skipped"
      [] ~Seen(h) /\ Entry(h).url \in Refused -> "failed"
      [] ~Seen(h) /\ Entry(h).url \notin Refused
             /\ existing[h][Entry(h).url] # NoId /\ ~overwrite[h] -> "skipped"
      [] OTHER -> "write"

\* Entry at[h] becomes outcome.
Count(h, outcome) ==
    /\ at' = [at EXCEPT ![h] = @ + 1]
    /\ imported' = IF outcome = "imported"
                   THEN [imported EXCEPT ![h] = @ \cup {at[h]}] ELSE imported
    /\ skipped' = IF outcome = "skipped"
                  THEN [skipped EXCEPT ![h] = @ \cup {at[h]}] ELSE skipped
    /\ failed' = IF outcome = "failed"
                 THEN [failed EXCEPT ![h] = @ \cup {at[h]}] ELSE failed
    /\ UNCHANGED <<pc, request, found, lost>>

PassOver(h) ==
    /\ Writing(h) /\ Verdict(h) \in {"skipped", "failed"}
    /\ Count(h, Verdict(h))
    /\ UNCHANGED <<table, lock, mine>>

\* The rows the next statement of h works on.
View(h) == IF writer = h THEN pending ELSE channels
MayWrite(h) == writer \in {h, NoOne} /\ writer' = h

\* Overwrite by id.  No row of that id is no error.
Overwrite(h) ==
    LET u == Entry(h).url
        i == existing[h][u]
    IN
    /\ Writing(h) /\ Verdict(h) = "write" /\ i # NoId
    /\ MayWrite(h) /\ UNCHANGED <<table, mine>>
    /\ IF View(h)[i] = NoRow
       THEN pending' = View(h) /\ Count(h, "imported")
       ELSE IF Free(View(h), i, u)
       THEN pending' = [View(h) EXCEPT ![i] = Entry(h)] /\ Count(h, "imported")
       ELSE pending' = View(h) /\ Count(h, "failed")

Insert(h, i) ==
    LET u == Entry(h).url IN
    /\ Writing(h) /\ Verdict(h) = "write" /\ existing[h][u] = NoId
    /\ i \notin used /\ MayWrite(h) /\ UNCHANGED channels
    /\ used' = used \cup {i}
    /\ IF Free(View(h), i, u)
       THEN /\ pending' = [View(h) EXCEPT ![i] = Entry(h)]
            /\ Count(h, "imported")
            /\ mine' = [mine EXCEPT ![h] = @ \cup {i}]
       ELSE pending' = View(h) /\ Count(h, "failed") /\ UNCHANGED mine

\* The lock is not to be had for five seconds, or the statement errs: this
\* entry has failed, the import goes on.
StatementFails(h) ==
    /\ Writing(h) /\ Verdict(h) = "write"
    /\ Count(h, "failed")
    /\ UNCHANGED <<table, lock, mine>>

Finished(h) == pc[h] = "write" /\ at[h] > Len(entries[h])

\* The handler ends and its locals with it; the next request starts afresh.
Finish(h) ==
    /\ Goto(h, "idle")
    /\ writer' = IF writer = h THEN NoOne ELSE writer
    /\ pending' = IF writer = h THEN NoTable ELSE pending
    /\ playlist' = [playlist EXCEPT ![h] = NoPlaylist]
    /\ entries' = [entries EXCEPT ![h] = <<>>]
    /\ overwrite' = [overwrite EXCEPT ![h] = FALSE]
    /\ unread' = [unread EXCEPT ![h] = {}]
    /\ existing' = [existing EXCEPT ![h] = [u \in Urls |-> NoId]]
    /\ at' = [at EXCEPT ![h] = 1]
    /\ imported' = [imported EXCEPT ![h] = {}]
    /\ skipped' = [skipped EXCEPT ![h] = {}]
    /\ failed' = [failed EXCEPT ![h] = {}]
    /\ mine' = [mine EXCEPT ![h] = {}]

\* Faulty variant: the answer comes before the commit, which never happens.
Commit_Forgets(h) ==
    /\ Finished(h) /\ Finish(h)
    /\ UNCHANGED <<table, lost>>

\* The import answers with its three counts.
Commit(h) ==
    /\ Finished(h) /\ Finish(h)
    /\ channels' = View(h)
    /\ UNCHANGED <<used, lost>>

\* A query or the commit errs, or the client hangs up: the transaction is
\* dropped with the handler.
Abandon(h) ==
    /\ pc[h] \in {"lookup", "write"} /\ Finish(h)
    /\ lost' = lost \cup mine[h]
    /\ UNCHANGED table

-----------------------------------------------------------------------------
ImportStep(h) ==
    \/ \E C \in Chunks(h) : LookUp(h, C)
    \/ PassOver(h) \/ Overwrite(h) \/ StatementFails(h)
    \/ Commit(h)
    \/ \E i \in Ids : Insert(h, i)

Next ==
    \/ \E i \in Ids, row \in Submitted : Create(i, row) \/ Update(i, row)
    \/ \E S \in SUBSET Ids : Delete(S)
    \/ \E h \in Importers :
          \/ \E p \in Playlists, ow \in BOOLEAN : Import(h, p, ow)
          \/ ImportStep(h) \/ Abandon(h)

Spec == Init /\ [][Next]_vars

-----------------------------------------------------------------------------
(* What must hold.                                                         *)

UrlsUnique(rows) ==
    \A i, j \in Ids : rows[i] # NoRow /\ rows[j] # NoRow /\ i # j
                         => rows[i].url # rows[j].url

TypeOK ==
    /\ channels \in Tables /\ pending \in Tables
    /\ used \subseteq Ids /\ writer \in Importers \cup {NoOne}
    /\ pc \in [Importers -> {"idle", "lookup", "write"}]
    /\ playlist \in [Importers -> Playlists \cup {NoPlaylist}]
    /\ entries \in [Importers -> Seq(Entries)]
    /\ overwrite \in [Importers -> BOOLEAN]
    /\ unread \in [Importers -> SUBSET Urls]
    /\ existing \in [Importers -> [Urls -> Ids \cup {NoId}]]
    /\ at \in [Importers -> Nat \ {0}]
    /\ imported \in [Importers -> SUBSET Nat]
    /\ skipped \in [Importers -> SUBSET Nat]
    /\ failed \in [Importers -> SUBSET Nat]
    /\ mine \in [Importers -> SUBSET Ids] /\ lost \subseteq Ids

\* An import answers for every entry exactly once.
CountsAddUp(h) ==
    /\ imported[h] \cup skipped[h] \cup failed[h] = 1..(at[h] - 1)
    /\ imported[h] \cap (skipped[h] \cup failed[h]) = {}
    /\ skipped[h] \cap failed[h] = {}
    /\ at[h] <= Len(entries[h]) + 1

\* The addresses that import h brings, and whether one statement looks them up.
Addresses(h) == {entries[h][n].url : n \in DOMAIN entries[h]}
OneChunk(h)  == Cardinality(Addresses(h)) <= ChunkSize

\* Entry n is in a table where it was to be written: in a row of the import's own,
\* or in the row found at its address.  That row may be gone by then; and if it was
\* found at another address too, in another chunk, a later entry may have it now.
Stored(rows, h, n) ==
    LET e == entries[h][n]
        i == existing[h][e.url]
    IN IF i = NoId THEN \E j \in mine[h] : rows[j] = e
       ELSE \/ rows[i] \in {e, NoRow}
            \/ /\ ~OneChunk(h)
               /\ \E m \in imported[h] : /\ m > n /\ rows[i] = entries[h][m]
                                         /\ existing[h][entries[h][m].url] = i

\* Each channel a playlist brings is made of the lines that belong to it: no
\* name or group crosses an address line (services/m3u_parser.rs, parse).
ParsedAsWritten ==
    \A h \in Importers : playlist[h] # NoPlaylist =>
        /\ ParsedRight(playlist[h])
        /\ entries[h] = Parse(playlist[h]).channels

\* What an import reports as imported is in the table when it answers, with the
\* contents of the playlist, although addresses were looked up before the
\* transaction and others changed the table in between.  The exceptions are a
\* channel deleted since the lookup, and, only when the addresses were too many for
\* one statement, a channel that was moved between two of them: found at both of
\* its addresses, it keeps the later entry (services/channel.rs,
\* import_channels_batch and find_existing_ids_by_url).
ImportedAreStored ==
    [][\A h \in Importers : Commit(h) =>
          \A n \in imported[h] : Stored(channels', h, n)]_vars

\* An import that errs or is dropped leaves no channel behind, not even one that
\* it had written (services/channel.rs, begin and commit of the transaction).
AbandonedLeavesNothing ==
    \A i \in lost \cup UNION {mine[h] : h \in Importers} : channels[i] = NoRow

\* The rows that import h brings.
RowsOf(h) == {entries[h][n] : n \in DOMAIN entries[h]}

\* An import writes only what it brings, and changes no channel but those found
\* at the addresses it brings, and none at all unless it was asked to overwrite:
\* edits of other channels made while it ran survive it (services/channel.rs,
\* import_channels_batch).
ImportSparesOthers ==
    \A h \in Importers, i \in Ids :
        writer = h /\ pending[i] # channels[i] =>
            /\ pending[i] \in RowsOf(h)
            /\ \/ channels[i] = NoRow /\ i \in mine[h]
               \/ /\ overwrite[h]
                  /\ \E n \in imported[h] : i = existing[h][entries[h][n].url]

\* What an import under way was asked for.
Asked(h) ==
    IF pc[h] = "idle" THEN NoPlaylist
    ELSE [rows |-> RowsOf(h), overwrite |-> overwrite[h]]

Table == INSTANCE ChannelTable
             WITH Brought <- Rows, NoImport <- NoPlaylist,
                  asked <- [h \in Importers |-> Asked(h)]

\* Whoever looks at the table sees each import happen at one moment, although it
\* looks addresses up before its transaction and writes entry by entry: it
\* implements ChannelTable.
ImplementsTable == Table!Spec

\* The inductive invariant behind them: ids are used once, ...
IdsUsed ==
    /\ lost \subseteq used
    /\ \A i \in Ids : channels[i] # NoRow \/ pending[i] # NoRow => i \in used
    /\ \A h \in Importers :
          /\ mine[h] \subseteq used
          /\ \A u \in Urls : existing[h][u] \in used \cup {NoId}
          /\ \A u \in Urls : existing[h][u] \notin mine[h]
          /\ OneChunk(h) =>
                \A u, w \in Urls : existing[h][u] # NoId /\ u # w
                                      => existing[h][u] # existing[h][w]

\* ... addresses are looked up before the first entry is written, ...
LookedUp ==
    \A h \in Importers :
        /\ pc[h] # "lookup" => unread[h] = {}
        /\ pc[h] = "lookup" /\ OneChunk(h) => unread[h] = Addresses(h)
        /\ pc[h] = "idle" \/ (pc[h] = "lookup" /\ OneChunk(h)) =>
              \A u \in Urls : existing[h][u] = NoId

\* ... whoever has written holds the lock, ...
LockHeld ==
    /\ writer # NoOne => pc[writer] = "write"
    /\ writer = NoOne => pending = NoTable
    /\ \A h \in Importers :
          /\ imported[h] # {} \/ mine[h] # {} => writer = h
          /\ pc[h] # "write" => at[h] = 1

\* ... and what is counted as imported is stored.
Written ==
    /\ \A i \in lost : pending[i] = NoRow
    /\ \A h \in Importers : \A n \in imported[h] :
          /\ Stored(pending, h, n)
          /\ \A m \in 1..(n - 1) : entries[h][m].url # entries[h][n].url

ImportInv ==
    /\ TypeOK
    /\ UrlsUnique(channels) /\ UrlsUnique(pending)
    /\ \A h \in Importers : CountsAddUp(h)
    /\ IdsUsed /\ LookedUp /\ LockHeld /\ Written
    /\ AbandonedLeavesNothing
    /\ ImportSparesOthers

=============================================================================
