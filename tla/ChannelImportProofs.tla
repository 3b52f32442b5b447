-------------------------- MODULE ChannelImportProofs --------------------------
(***************************************************************************)
(* Proofs about ChannelImport, for any playlists, channels and imports:    *)
(* imports touch no channel they were not asked to, leave nothing behind   *)
(* when they are abandoned, have stored what they report, and take place   *)
(* at one moment, as ChannelTable promises.  What Parse makes of a         *)
(* playlist is proved in M3UParserProofs.                                  *)
(***************************************************************************)
EXTENDS ChannelImport, M3UParserProofs, TLAPS

USE NothingAssumption

EditAction ==
    \/ \E i \in Ids, row \in Submitted : Create(i, row) \/ Update(i, row)
    \/ \E S \in SUBSET Ids : Delete(S)

BeginAction(h) ==
    \/ \E p \in Playlists, ow \in BOOLEAN : Import(h, p, ow)
    \/ \E C \in Chunks(h) : LookUp(h, C)

PassAction(h) == PassOver(h) \/ StatementFails(h)

WriteAction(h) == Overwrite(h) \/ \E i \in Ids : Insert(h, i)

EndAction(h) == Commit(h) \/ Abandon(h)

LEMMA NextActions ==
    ASSUME [Next]_vars
    PROVE  \/ EditAction \/ UNCHANGED vars
           \/ \E h \in Importers : \/ BeginAction(h) \/ PassAction(h)
                                   \/ WriteAction(h) \/ EndAction(h)
BY DEF Next, ImportStep, EditAction, BeginAction, PassAction, WriteAction, EndAction

-----------------------------------------------------------------------------
(* What the actions do to the variables.                                   *)

\* What clients upload is parsed as it is written.
LEMMA PlaylistsParsed ==
    \A p \in Playlists : Parse(p).channels \in Seq(Entries) /\ ParsedRight(p)
BY PlaylistsAssumption, EveryPlaylistParsedRight

\* What clients submit, and what playlists bring, are rows.
LEMMA EntryType ==
    ASSUME TypeOK, NEW h \in Importers, Writing(h)
    PROVE  /\ at[h] \in DOMAIN entries[h] /\ at[h] \in 1..Len(entries[h])
           /\ Entry(h) \in Rows /\ Entry(h).url \in Urls
<1>1. at[h] \in Nat \ {0} /\ entries[h] \in Seq(Rows) /\ at[h] <= Len(entries[h])
  BY DEF TypeOK, Writing, Rows
<1>2. at[h] \in 1..Len(entries[h]) /\ at[h] \in DOMAIN entries[h]
  BY <1>1
<1>3. entries[h][at[h]] \in Rows
  BY <1>1, <1>2
<1>4. QED  BY <1>2, <1>3 DEF Entry, Rows, Entries

\* An edit.
LEMMA EditEffect ==
    ASSUME TypeOK, EditAction
    PROVE  /\ channels' \in Tables /\ used' \subseteq Ids /\ used \subseteq used'
           /\ writer = NoOne
           /\ UNCHANGED <<lock, pc, request, found, at, result, lost>>
           /\ \A i \in Ids : channels'[i] # NoRow => channels[i] # NoRow \/ i \in used' \ used
<1>1. ASSUME NEW i \in Ids, NEW row \in Submitted, Create(i, row) \/ Update(i, row)
      PROVE  /\ channels' \in Tables /\ used' \subseteq Ids /\ used \subseteq used'
             /\ \A j \in Ids : channels'[j] # NoRow => channels[j] # NoRow \/ j \in used' \ used
  BY <1>1, SubmittedAssumption DEF TypeOK, Tables, Create, Update
<1>2. ASSUME NEW S \in SUBSET Ids, Delete(S)
      PROVE  /\ channels' \in Tables /\ used' = used
             /\ \A j \in Ids : channels'[j] # NoRow => channels[j] # NoRow
  BY <1>2 DEF TypeOK, Tables, Delete
<1>3. writer = NoOne /\ UNCHANGED <<lock, pc, request, found, at, result, lost>>
  BY DEF EditAction, Create, Update, Delete, Edit
<1>4. QED
  BY <1>1, <1>2, <1>3 DEF EditAction, TypeOK

\* Counting an entry.
LEMMA CountEffect ==
    ASSUME TypeOK, NEW h \in Importers, Writing(h), \A g \in Importers : CountsAddUp(g),
           NEW outcome \in {"imported", "skipped", "failed"}, Count(h, outcome)
    PROVE  /\ at' \in [Importers -> Nat \ {0}]
           /\ imported' \in [Importers -> SUBSET Nat]
           /\ skipped' \in [Importers -> SUBSET Nat]
           /\ failed' \in [Importers -> SUBSET Nat]
           /\ UNCHANGED <<pc, request, found, lost>>
           /\ \A g \in Importers :
                 /\ CountsAddUp(g)'
                 /\ at'[g] # at[g] => g = h
                 /\ g = h /\ outcome = "imported"
                       => imported'[g] = imported[g] \cup {at[g]}
                 /\ g # h \/ outcome # "imported" => imported'[g] = imported[g]
<1>1. /\ at' \in [Importers -> Nat \ {0}]
      /\ imported' \in [Importers -> SUBSET Nat]
      /\ skipped' \in [Importers -> SUBSET Nat]
      /\ failed' \in [Importers -> SUBSET Nat]
      /\ UNCHANGED <<pc, request, found, lost>>
  BY DEF Count, TypeOK
<1>2. ASSUME NEW g \in Importers, g # h
      PROVE  /\ at'[g] = at[g] /\ imported'[g] = imported[g]
             /\ skipped'[g] = skipped[g] /\ failed'[g] = failed[g]
  BY <1>2 DEF Count, TypeOK
<1>3. /\ at'[h] = at[h] + 1
      /\ imported'[h] = IF outcome = "imported" THEN imported[h] \cup {at[h]} ELSE imported[h]
      /\ skipped'[h] = IF outcome = "skipped" THEN skipped[h] \cup {at[h]} ELSE skipped[h]
      /\ failed'[h] = IF outcome = "failed" THEN failed[h] \cup {at[h]} ELSE failed[h]
  BY DEF Count, TypeOK
<1>4. CountsAddUp(h)'
  <2>1. at[h] \in Nat \ {0} /\ entries' = entries /\ at[h] <= Len(entries[h])
    BY <1>1 DEF TypeOK, Writing, request
  <2>2. 1..(at'[h] - 1) = (1..(at[h] - 1)) \cup {at[h]} /\ at[h] \notin 1..(at[h] - 1)
    BY <1>3, <2>1
  <2>3. Len(entries[h]) \in Nat
    BY DEF TypeOK
  <2>4. QED  BY <1>3, <2>1, <2>2, <2>3 DEF CountsAddUp
<1>5. \A g \in Importers : CountsAddUp(g)'
  BY <1>1, <1>2, <1>4 DEF CountsAddUp, request
<1>6. QED  BY <1>1, <1>2, <1>3, <1>5

\* The end of an import.
LEMMA EndEffect ==
    ASSUME TypeOK, NEW h \in Importers, EndAction(h)
    PROVE  /\ Finish(h)
           /\ channels' \in {channels, View(h)}
           /\ used' = used
           /\ \/ lost' = lost
              \/ channels' = channels /\ lost' = lost \cup mine[h]
<1>1. CASE Commit(h)
  BY <1>1 DEF Commit
<1>2. CASE Abandon(h)
  BY <1>2 DEF Abandon, table
<1>3. QED  BY <1>1, <1>2 DEF EndAction

-----------------------------------------------------------------------------
(* The invariant, one part at a time.                                      *)

\* Every step keeps the types.
LEMMA TypeStep ==
    ASSUME TypeOK, \A h \in Importers : CountsAddUp(h), [Next]_vars PROVE TypeOK'
<1> USE DEF table, lock, request, found, result
<1>1. CASE EditAction
  BY <1>1, EditEffect DEF TypeOK
<1>2. ASSUME NEW h \in Importers, BeginAction(h) PROVE TypeOK'
  <2>1. ASSUME NEW p \in Playlists, NEW ow \in BOOLEAN, Import(h, p, ow) PROVE TypeOK'
    <3>1. Parse(p).channels \in Seq(Entries)
      BY PlaylistsParsed
    <3>2. {Parse(p).channels[n].url : n \in DOMAIN Parse(p).channels} \subseteq Urls
      <4>1. ASSUME NEW n \in DOMAIN Parse(p).channels PROVE Parse(p).channels[n].url \in Urls
        <5>1. Parse(p).channels[n] \in Entries
          BY <3>1
        <5>2. QED  BY <5>1 DEF Entries
      <4>2. QED  BY <4>1
    <3>3. unread' \in [Importers -> SUBSET Urls]
      BY <2>1, <3>2 DEF TypeOK, Import
    <3>4. QED  BY <2>1, <3>1, <3>3 DEF TypeOK, Import, Goto
  <2>2. ASSUME NEW C \in Chunks(h), LookUp(h, C) PROVE TypeOK'
    <3>1. \A u \in Urls : IdOf(channels, u) \in Ids \cup {NoId}
      BY DEF IdOf
    <3>2. existing' \in [Importers -> [Urls -> Ids \cup {NoId}]]
      BY <2>2, <3>1 DEF TypeOK, LookUp
    <3>3. unread' \in [Importers -> SUBSET Urls]
      BY <2>2 DEF TypeOK, LookUp
    <3>4. QED  BY <2>2, <3>2, <3>3 DEF TypeOK, LookUp, Goto
  <2>3. QED  BY <1>2, <2>1, <2>2 DEF BeginAction
<1>3. ASSUME NEW h \in Importers, PassAction(h) PROVE TypeOK'
  <2>1. PICK outcome \in {"imported", "skipped", "failed"} :
           Writing(h) /\ Count(h, outcome) /\ UNCHANGED <<table, lock, mine>>
    BY <1>3 DEF PassAction, PassOver, StatementFails
  <2>2. QED  BY <2>1, CountEffect DEF TypeOK
<1>4. ASSUME NEW h \in Importers, WriteAction(h) PROVE TypeOK'
  <2>1. /\ Writing(h) /\ Entry(h) \in Rows /\ View(h) \in Tables
    BY <1>4, EntryType DEF WriteAction, Overwrite, Insert, View, TypeOK
  <2>2. CASE Overwrite(h)
    <3>1. PICK outcome \in {"imported", "skipped", "failed"} : Count(h, outcome)
      BY <2>2 DEF Overwrite
    <3>2. pending' \in Tables /\ writer' = h /\ UNCHANGED <<table, mine>>
      BY <2>1, <2>2 DEF Overwrite, MayWrite, Tables
    <3>3. QED  BY <2>1, <3>1, <3>2, CountEffect DEF TypeOK
  <2>3. ASSUME NEW i \in Ids, Insert(h, i) PROVE TypeOK'
    <3>1. PICK outcome \in {"imported", "skipped", "failed"} : Count(h, outcome)
      BY <2>3 DEF Insert
    <3>2. writer' = h /\ channels' = channels /\ used' = used \cup {i}
      BY <2>3 DEF Insert, MayWrite
    <3>3. pending' = View(h) \/ pending' = [View(h) EXCEPT ![i] = Entry(h)]
      BY <2>3 DEF Insert
    <3>4. pending' \in Tables
      BY <2>1, <3>3 DEF Tables
    <3>5. mine' = mine \/ mine' = [mine EXCEPT ![h] = @ \cup {i}]
      BY <2>3 DEF Insert
    <3>6. mine' \in [Importers -> SUBSET Ids]
      <4>1. mine \in [Importers -> SUBSET Ids]
        BY DEF TypeOK
      <4>2. mine[h] \cup {i} \in SUBSET Ids
        BY <4>1
      <4>3. QED  BY <3>5, <4>1, <4>2
    <3>7. QED  BY <2>1, <3>1, <3>2, <3>4, <3>6, CountEffect DEF TypeOK
  <2>4. QED  BY <1>4, <2>2, <2>3 DEF WriteAction
<1>5. ASSUME NEW h \in Importers, EndAction(h) PROVE TypeOK'
  <2>1. View(h) \in Tables /\ NoTable \in Tables
    BY DEF View, TypeOK, NoTable, Tables
  <2>2. /\ Finish(h) /\ used' = used /\ channels' \in {channels, View(h)}
        /\ lost' = lost \/ lost' = lost \cup mine[h]
    BY <1>5, EndEffect
  <2>6. channels' \in Tables /\ lost' \subseteq Ids
    BY <2>1, <2>2 DEF TypeOK
  <2>3. /\ writer' \in Importers \cup {NoOne} /\ pending' \in Tables
        /\ pc' \in [Importers -> {"idle", "lookup", "write"}]
        /\ playlist' \in [Importers -> Playlists \cup {NoPlaylist}]
        /\ entries' \in [Importers -> Seq(Entries)]
        /\ overwrite' \in [Importers -> BOOLEAN]
    BY <2>1, <2>2 DEF TypeOK, Finish, Goto
  <2>4. /\ unread' \in [Importers -> SUBSET Urls]
        /\ existing' \in [Importers -> [Urls -> Ids \cup {NoId}]]
        /\ at' \in [Importers -> Nat \ {0}]
        /\ imported' \in [Importers -> SUBSET Nat]
        /\ skipped' \in [Importers -> SUBSET Nat]
        /\ failed' \in [Importers -> SUBSET Nat]
        /\ mine' \in [Importers -> SUBSET Ids]
    BY <2>2 DEF TypeOK, Finish
  <2>5. QED  BY <2>2, <2>3, <2>4, <2>6 DEF TypeOK
<1>6. CASE UNCHANGED vars
  BY <1>6 DEF vars, TypeOK
<1>7. QED  BY <1>1, <1>2, <1>3, <1>4, <1>5, <1>6, NextActions

\* Every step keeps the counts.
LEMMA CountsStep ==
    ASSUME TypeOK, \A h \in Importers : CountsAddUp(h), LockHeld, [Next]_vars
    PROVE  \A g \in Importers : CountsAddUp(g)'
<1> USE DEF table, lock, request, found, result
<1>1. CASE EditAction
  BY <1>1, EditEffect DEF CountsAddUp
<1>2. ASSUME NEW h \in Importers, BeginAction(h), NEW g \in Importers
      PROVE  CountsAddUp(g)'
  <2>1. ASSUME NEW C \in Chunks(h), LookUp(h, C) PROVE CountsAddUp(g)'
    BY <2>1 DEF LookUp, CountsAddUp
  <2>2. ASSUME NEW p \in Playlists, NEW ow \in BOOLEAN, Import(h, p, ow)
        PROVE  CountsAddUp(g)'
    <3>1. UNCHANGED <<at, result>> /\ (g # h => entries'[g] = entries[g])
      BY <2>2 DEF Import, TypeOK
    <3>2. CASE g # h
      BY <3>1, <3>2 DEF CountsAddUp
    <3>3. CASE g = h
      <4>1. at[h] = 1 /\ entries'[h] \in Seq(Entries)
        BY <2>2, PlaylistsParsed DEF Import, LockHeld, TypeOK
      <4>2. Len(entries'[h]) \in Nat
        BY <4>1
      <4>3. QED  BY <3>1, <3>3, <4>1, <4>2 DEF CountsAddUp
    <3>4. QED  BY <3>2, <3>3
  <2>3. QED  BY <1>2, <2>1, <2>2 DEF BeginAction
<1>3. ASSUME NEW h \in Importers, PassAction(h) \/ WriteAction(h)
      PROVE  \A g \in Importers : CountsAddUp(g)'
  <2>1. PICK outcome \in {"imported", "skipped", "failed"} :
           Writing(h) /\ Count(h, outcome)
    BY <1>3 DEF PassAction, PassOver, StatementFails, WriteAction, Overwrite, Insert
  <2>2. QED  BY <2>1, CountEffect
<1>4. ASSUME NEW h \in Importers, EndAction(h), NEW g \in Importers
      PROVE  CountsAddUp(g)'
  <2>1. Finish(h)
    BY <1>4, EndEffect
  <2>2. CASE g # h
    BY <2>1, <2>2 DEF Finish, CountsAddUp, TypeOK
  <2>3. CASE g = h
    <3>1. /\ at'[h] = 1 /\ entries'[h] = <<>> /\ imported'[h] = {}
          /\ skipped'[h] = {} /\ failed'[h] = {}
      BY <2>1 DEF Finish, TypeOK
    <3>2. QED  BY <2>3, <3>1 DEF CountsAddUp
  <2>4. QED  BY <2>2, <2>3
<1>5. CASE UNCHANGED vars
  BY <1>5 DEF vars, CountsAddUp
<1>6. QED  BY <1>1, <1>2, <1>3, <1>4, <1>5, NextActions

-----------------------------------------------------------------------------
(* Statements.                                                             *)

\* What a statement does to the rows it works on.
Replaced(h) ==
    LET i == existing[h][Entry(h).url] IN
    /\ i # NoId /\ overwrite[h] /\ View(h)[i] # NoRow
    /\ Free(View(h), i, Entry(h).url)
    /\ pending' = [View(h) EXCEPT ![i] = Entry(h)]
    /\ used' = used /\ mine' = mine /\ Count(h, "imported")

Vanished(h) ==
    LET i == existing[h][Entry(h).url] IN
    /\ i # NoId /\ View(h)[i] = NoRow
    /\ pending' = View(h)
    /\ used' = used /\ mine' = mine /\ Count(h, "imported")

Inserted(h, i) ==
    /\ existing[h][Entry(h).url] = NoId /\ i \notin used
    /\ Free(View(h), i, Entry(h).url)
    /\ pending' = [View(h) EXCEPT ![i] = Entry(h)]
    /\ used' = used \cup {i} /\ mine' = [mine EXCEPT ![h] = @ \cup {i}]
    /\ Count(h, "imported")

Rejected(h) ==
    /\ pending' = View(h) /\ used \subseteq used' /\ mine' = mine
    /\ Count(h, "failed")

LEMMA WriteEffect ==
    ASSUME TypeOK, NEW h \in Importers, WriteAction(h)
    PROVE  /\ Writing(h) /\ ~Seen(h) /\ writer \in {h, NoOne} /\ writer' = h
           /\ channels' = channels /\ UNCHANGED <<pc, request, found, lost>>
           /\ \/ Replaced(h) \/ Vanished(h) \/ Rejected(h)
              \/ \E i \in Ids : Inserted(h, i)
<1> USE DEF table
<1>1. ASSUME Writing(h), Verdict(h) = "write"
      PROVE  ~Seen(h) /\ (existing[h][Entry(h).url] # NoId => overwrite[h])
  <2>1. overwrite[h] \in BOOLEAN
    BY DEF TypeOK
  <2>2. QED  BY <1>1, <2>1 DEF Verdict
<1>2. CASE Overwrite(h)
  <2>1. /\ Writing(h) /\ Verdict(h) = "write" /\ writer \in {h, NoOne} /\ writer' = h
        /\ channels' = channels /\ used' = used /\ mine' = mine
        /\ UNCHANGED <<pc, request, found, lost>>
    BY <1>2 DEF Overwrite, MayWrite, Count
  <2>2. Replaced(h) \/ Vanished(h) \/ Rejected(h)
    BY <1>1, <1>2, <2>1 DEF Overwrite, Replaced, Vanished, Rejected
  <2>3. QED  BY <1>1, <2>1, <2>2
<1>3. ASSUME NEW i \in Ids, Insert(h, i)
      PROVE  /\ Writing(h) /\ ~Seen(h) /\ writer \in {h, NoOne} /\ writer' = h
             /\ channels' = channels /\ UNCHANGED <<pc, request, found, lost>>
             /\ Inserted(h, i) \/ Rejected(h)
  <2>1. /\ Writing(h) /\ Verdict(h) = "write" /\ writer \in {h, NoOne} /\ writer' = h
        /\ channels' = channels
        /\ UNCHANGED <<pc, request, found, lost>>
    BY <1>3 DEF Insert, MayWrite, Count
  <2>2. Inserted(h, i) \/ Rejected(h)
    BY <1>3 DEF Insert, Inserted, Rejected
  <2>3. QED  BY <1>1, <2>1, <2>2
<1>4. QED  BY <1>2, <1>3 DEF WriteAction

\* The rows a statement works on are as good as the table.
LEMMA ViewFacts ==
    ASSUME ImportInv, NEW h \in Importers, writer \in {h, NoOne}
    PROVE  /\ View(h) \in Tables /\ UrlsUnique(View(h))
           /\ \A i \in Ids : View(h)[i] # NoRow => i \in used
           /\ \A i \in lost : View(h)[i] = NoRow
           /\ \A n \in imported[h] : Stored(View(h), h, n)
           /\ \A i \in Ids : View(h)[i] # channels[i] =>
                 /\ View(h)[i] \in RowsOf(h)
                 /\ \/ channels[i] = NoRow /\ i \in mine[h]
                    \/ /\ overwrite[h]
                       /\ \E n \in imported[h] : i = existing[h][entries[h][n].url]
<1>1. CASE writer = h
  <2>1. View(h) = pending
    BY <1>1 DEF View
  <2>2. /\ pending \in Tables /\ UrlsUnique(pending)
        /\ \A i \in Ids : pending[i] # NoRow => i \in used
    BY DEF ImportInv, TypeOK, IdsUsed
  <2>3. /\ \A i \in lost : pending[i] = NoRow
        /\ \A n \in imported[h] : Stored(pending, h, n)
    BY DEF ImportInv, Written
  <2>4. \A i \in Ids : pending[i] # channels[i] =>
           /\ pending[i] \in RowsOf(h)
           /\ \/ channels[i] = NoRow /\ i \in mine[h]
              \/ /\ overwrite[h]
                 /\ \E n \in imported[h] : i = existing[h][entries[h][n].url]
    BY <1>1 DEF ImportInv, ImportSparesOthers
  <2>5. QED  BY <2>1, <2>2, <2>3, <2>4
<1>2. CASE writer = NoOne
  <2>1. View(h) = channels /\ imported[h] = {}
    BY <1>2 DEF View, ImportInv, LockHeld
  <2>2. QED
    BY <2>1 DEF ImportInv, TypeOK, IdsUsed, AbandonedLeavesNothing
<1>3. QED  BY <1>1, <1>2

\* A row at a free address leaves the addresses unique.
LEMMA UniqueKept ==
    ASSUME NEW rows \in Tables, UrlsUnique(rows), NEW i \in Ids, NEW row \in Rows,
           Free(rows, i, row.url)
    PROVE  UrlsUnique([rows EXCEPT ![i] = row])
BY DEF Tables, UrlsUnique, Free

\* Every step keeps the addresses unique, in the table and in the transaction.
LEMMA UniqueStep ==
    ASSUME ImportInv, [Next]_vars
    PROVE  UrlsUnique(channels)' /\ UrlsUnique(pending)'
<1> USE DEF table, lock, request, found, result
<1>0. TypeOK /\ UrlsUnique(channels) /\ UrlsUnique(pending) /\ UrlsUnique(NoTable)
  BY DEF ImportInv, UrlsUnique, NoTable
<1>1. CASE EditAction
  <2>1. pending' = pending
    BY <1>0, <1>1, EditEffect
  <2>2. ASSUME NEW i \in Ids, NEW row \in Submitted, Create(i, row) \/ Update(i, row)
        PROVE  UrlsUnique(channels')
    BY <1>0, <2>2, UniqueKept, SubmittedAssumption DEF Create, Update, TypeOK
  <2>3. ASSUME NEW S \in SUBSET Ids, Delete(S) PROVE UrlsUnique(channels')
    BY <1>0, <2>3 DEF Delete, UrlsUnique
  <2>4. UrlsUnique(channels')
    BY <1>1, <2>2, <2>3 DEF EditAction
  <2>5. QED  BY <1>0, <2>1, <2>4 DEF UrlsUnique
<1>2. ASSUME NEW h \in Importers, BeginAction(h) \/ PassAction(h)
      PROVE  UrlsUnique(channels)' /\ UrlsUnique(pending)'
  BY <1>0, <1>2 DEF BeginAction, Import, LookUp, PassAction, PassOver, StatementFails,
                    UrlsUnique
<1>3. ASSUME NEW h \in Importers, WriteAction(h)
      PROVE  UrlsUnique(channels)' /\ UrlsUnique(pending)'
  <2>1. /\ Writing(h) /\ writer \in {h, NoOne} /\ channels' = channels
        /\ \/ Replaced(h) \/ Vanished(h) \/ Rejected(h)
           \/ \E i \in Ids : Inserted(h, i)
    BY <1>0, <1>3, WriteEffect
  <2>2. View(h) \in Tables /\ UrlsUnique(View(h)) /\ Entry(h) \in Rows
    BY <1>0, <2>1, ViewFacts, EntryType
  <2>3. UrlsUnique(pending')
    <3>1. CASE Replaced(h)
      <4>1. existing[h][Entry(h).url] \in Ids
        BY <1>0, <2>1, <3>1, EntryType DEF Replaced, TypeOK
      <4>2. QED  BY <2>2, <3>1, <4>1, UniqueKept DEF Replaced
    <3>2. CASE Vanished(h) \/ Rejected(h)
      BY <2>2, <3>2 DEF Vanished, Rejected
    <3>3. ASSUME NEW i \in Ids, Inserted(h, i) PROVE UrlsUnique(pending')
      BY <2>2, <3>3, UniqueKept DEF Inserted
    <3>4. QED  BY <2>1, <3>1, <3>2, <3>3
  <2>4. QED  BY <1>0, <2>1, <2>3 DEF UrlsUnique
<1>4. ASSUME NEW h \in Importers, EndAction(h)
      PROVE  UrlsUnique(channels)' /\ UrlsUnique(pending)'
  <2>1. channels' \in {channels, pending} /\ pending' \in {pending, NoTable}
    BY <1>0, <1>4, EndEffect DEF Finish, View
  <2>2. QED  BY <1>0, <2>1 DEF UrlsUnique
<1>5. CASE UNCHANGED vars
  BY <1>0, <1>5 DEF vars, UrlsUnique
<1>6. QED  BY <1>1, <1>2, <1>3, <1>4, <1>5, NextActions

\* Every step leaves the lock with whoever has written.
LEMMA LockStep ==
    ASSUME ImportInv, [Next]_vars PROVE LockHeld'
<1> USE DEF table, lock, request, found, result
<1>0. TypeOK /\ LockHeld /\ \A g \in Importers : CountsAddUp(g)
  BY DEF ImportInv
<1>1. CASE EditAction
  BY <1>0, <1>1, EditEffect DEF LockHeld
<1>2. ASSUME NEW h \in Importers, BeginAction(h) PROVE LockHeld'
  BY <1>0, <1>2 DEF BeginAction, Import, LookUp, Goto, LockHeld, TypeOK
<1>3. ASSUME NEW h \in Importers, PassAction(h) PROVE LockHeld'
  <2>1. PICK outcome \in {"skipped", "failed"} :
           Writing(h) /\ Count(h, outcome) /\ UNCHANGED <<table, lock, mine>>
    BY <1>3 DEF PassAction, PassOver, StatementFails
  <2>2. \A g \in Importers : imported'[g] = imported[g] /\ (at'[g] # at[g] => g = h)
    BY <1>0, <2>1, CountEffect
  <2>3. pc' = pc /\ pc[h] = "write"
    BY <2>1 DEF Count, Writing
  <2>4. QED  BY <1>0, <2>1, <2>2, <2>3 DEF LockHeld
<1>4. ASSUME NEW h \in Importers, WriteAction(h) PROVE LockHeld'
  <2>1. /\ Writing(h) /\ writer \in {h, NoOne} /\ writer' = h /\ pc' = pc
        /\ \/ Replaced(h) \/ Vanished(h) \/ Rejected(h)
           \/ \E i \in Ids : Inserted(h, i)
    BY <1>0, <1>4, WriteEffect
  <2>2. PICK outcome \in {"imported", "failed"} : Count(h, outcome)
    BY <2>1 DEF Replaced, Vanished, Rejected, Inserted
  <2>3. \A g \in Importers : g # h => imported'[g] = imported[g] /\ at'[g] = at[g]
    BY <1>0, <2>1, <2>2, CountEffect
  <2>4. \A g \in Importers : g # h => mine'[g] = mine[g]
    BY <1>0, <2>1 DEF Replaced, Vanished, Rejected, Inserted, TypeOK
  <2>5. pc[h] = "write"
    BY <2>1 DEF Writing
  <2>6. QED  BY <1>0, <2>1, <2>3, <2>4, <2>5 DEF LockHeld
<1>5. ASSUME NEW h \in Importers, EndAction(h) PROVE LockHeld'
  <2>1. Finish(h)
    BY <1>0, <1>5, EndEffect
  <2>2. /\ pc'[h] = "idle" /\ at'[h] = 1 /\ imported'[h] = {} /\ mine'[h] = {}
        /\ \A g \in Importers : g # h =>
              /\ pc'[g] = pc[g] /\ at'[g] = at[g]
              /\ imported'[g] = imported[g] /\ mine'[g] = mine[g]
    BY <1>0, <2>1 DEF Finish, Goto, TypeOK
  <2>3. QED  BY <1>0, <2>1, <2>2 DEF LockHeld, Finish, TypeOK
<1>6. CASE UNCHANGED vars
  BY <1>0, <1>6 DEF vars, LockHeld
<1>7. QED  BY <1>1, <1>2, <1>3, <1>4, <1>5, <1>6, NextActions

\* How many statements look an import's addresses up is settled with its entries.
LEMMA OneChunkKept ==
    \A g \in Importers : entries'[g] = entries[g] =>
        Addresses(g)' = Addresses(g) /\ (OneChunk(g)' <=> OneChunk(g))
<1>1. ASSUME NEW g \in Importers, entries'[g] = entries[g]
      PROVE  Addresses(g)' = Addresses(g)
  BY <1>1 DEF Addresses
<1>2. QED  BY <1>1 DEF OneChunk

\* Every step looks addresses up before it writes.
LEMMA LookedUpStep ==
    ASSUME ImportInv, [Next]_vars PROVE LookedUp'
<1> USE DEF table, lock, request, found, result
<1>0. TypeOK /\ LookedUp /\ LockHeld
  BY DEF ImportInv
<1>1. CASE EditAction \/ UNCHANGED vars
  <2>1. UNCHANGED <<pc, unread, existing, entries>>
    BY <1>0, <1>1, EditEffect DEF vars
  <2>2. QED  BY <1>0, <2>1, OneChunkKept DEF LookedUp
<1>2. ASSUME NEW h \in Importers, BeginAction(h) PROVE LookedUp'
  <2>1. ASSUME NEW p \in Playlists, NEW ow \in BOOLEAN, Import(h, p, ow) PROVE LookedUp'
    <3>1. \A g \in Importers : g # h =>
             /\ pc'[g] = pc[g] /\ unread'[g] = unread[g] /\ entries'[g] = entries[g]
      BY <1>0, <2>1 DEF Import, Goto, TypeOK
    <3>2. /\ pc[h] = "idle" /\ pc'[h] = "lookup" /\ existing' = existing
          /\ entries'[h] = Parse(p).channels
          /\ unread'[h] = {Parse(p).channels[n].url : n \in DOMAIN Parse(p).channels}
      BY <1>0, <2>1 DEF Import, Goto, TypeOK
    <3>3. unread'[h] = Addresses(h)'
      BY <3>2 DEF Addresses
    <3>4. \A u \in Urls : existing[h][u] = NoId
      BY <1>0, <3>2 DEF LookedUp
    <3>5. QED  BY <1>0, <3>1, <3>2, <3>3, <3>4, OneChunkKept DEF LookedUp
  <2>2. ASSUME NEW C \in Chunks(h), LookUp(h, C) PROVE LookedUp'
    <3>1. /\ entries' = entries
          /\ \A g \in Importers : g # h =>
                pc'[g] = pc[g] /\ unread'[g] = unread[g] /\ existing'[g] = existing[g]
      BY <1>0, <2>2 DEF LookUp, Goto, TypeOK
    <3>2. /\ pc[h] = "lookup" /\ unread'[h] = unread[h] \ C
          /\ pc'[h] = IF C = unread[h] THEN "write" ELSE "lookup"
      BY <1>0, <2>2 DEF LookUp, Goto, TypeOK
    <3>3. OneChunk(h) => C = unread[h]
      BY <1>0, <3>2 DEF LookedUp, OneChunk, Chunks
    <3>4. OneChunk(h)' <=> OneChunk(h)
      BY <3>1 DEF OneChunk, Addresses
    <3>5. /\ pc'[h] # "lookup" => unread'[h] = {}
          /\ pc'[h] = "lookup" => ~OneChunk(h)'
      BY <3>2, <3>3, <3>4
    <3>6. QED  BY <1>0, <3>1, <3>2, <3>5, OneChunkKept DEF LookedUp
  <2>3. QED  BY <1>2, <2>1, <2>2 DEF BeginAction
<1>3. ASSUME NEW h \in Importers, PassAction(h) \/ WriteAction(h) PROVE LookedUp'
  <2>1. UNCHANGED <<pc, unread, existing, entries>>
    BY <1>3 DEF PassAction, PassOver, StatementFails, WriteAction, Overwrite, Insert,
                Count
  <2>2. QED  BY <1>0, <2>1, OneChunkKept DEF LookedUp
<1>4. ASSUME NEW h \in Importers, EndAction(h) PROVE LookedUp'
  <2>1. /\ pc'[h] = "idle" /\ unread'[h] = {}
        /\ \A u \in Urls : existing'[h][u] = NoId
        /\ \A g \in Importers : g # h =>
              /\ pc'[g] = pc[g] /\ unread'[g] = unread[g]
              /\ existing'[g] = existing[g] /\ entries'[g] = entries[g]
    BY <1>0, <1>4, EndEffect DEF Finish, Goto, TypeOK
  <2>2. QED  BY <1>0, <2>1, OneChunkKept DEF LookedUp
<1>5. QED  BY <1>1, <1>2, <1>3, <1>4, NextActions

\* Every step uses an id once.
LEMMA IdsStep ==
    ASSUME ImportInv, [Next]_vars PROVE IdsUsed'
<1> USE DEF table, lock, request, found, result
<1>0. /\ TypeOK /\ LockHeld /\ IdsUsed /\ LookedUp
      /\ \A g \in Importers : CountsAddUp(g)
  BY DEF ImportInv
<1>1. CASE EditAction
  BY <1>0, <1>1, EditEffect, OneChunkKept DEF IdsUsed, TypeOK
<1>2. ASSUME NEW h \in Importers, BeginAction(h) PROVE IdsUsed'
  <2>1. ASSUME NEW p \in Playlists, NEW ow \in BOOLEAN, Import(h, p, ow) PROVE IdsUsed'
    <3>1. \A u \in Urls : existing[h][u] = NoId
      BY <1>0, <2>1 DEF LookedUp, Import
    <3>2. \A g \in Importers : g # h => entries'[g] = entries[g]
      BY <1>0, <2>1 DEF Import, TypeOK
    <3>3. UNCHANGED <<table, lock, existing, mine, lost>>
      BY <2>1 DEF Import
    <3>4. QED  BY <1>0, <3>1, <3>2, <3>3, OneChunkKept DEF IdsUsed
  <2>2. ASSUME NEW C \in Chunks(h), LookUp(h, C) PROVE IdsUsed'
    <3>1. \A u \in Urls : IdOf(channels, u) # NoId =>
             /\ IdOf(channels, u) \in Ids /\ channels[IdOf(channels, u)] # NoRow
             /\ channels[IdOf(channels, u)].url = u
      BY DEF IdOf
    <3>2. \A u \in Urls : existing'[h][u] \in {existing[h][u], IdOf(channels, u)}
      BY <1>0, <2>2 DEF LookUp, TypeOK
    <3>3. /\ \A g \in Importers : g # h => existing'[g] = existing[g]
          /\ entries' = entries
      BY <1>0, <2>2 DEF LookUp, TypeOK
    <3>4. mine[h] = {} /\ UNCHANGED <<table, lock, mine, lost>>
      BY <1>0, <2>2 DEF LookUp, LockHeld
    <3>5. \A u \in Urls : existing'[h][u] \in used \cup {NoId}
      BY <1>0, <3>1, <3>2 DEF IdsUsed
    <3>6. ASSUME OneChunk(h), NEW u \in Urls, NEW w \in Urls,
                 existing'[h][u] # NoId, u # w
          PROVE  existing'[h][u] # existing'[h][w]
      <4>1. \A v \in Urls : existing[h][v] = NoId
        BY <1>0, <2>2, <3>6 DEF LookedUp, LookUp
      <4>2. QED  BY <3>1, <3>2, <3>6, <4>1
    <3>7. \A g \in Importers : OneChunk(g)' <=> OneChunk(g)
      BY <3>3 DEF OneChunk, Addresses
    <3>8. \A g \in Importers : OneChunk(g) => \A u, w \in Urls :
             existing'[g][u] # NoId /\ u # w => existing'[g][u] # existing'[g][w]
      BY <1>0, <3>3, <3>6 DEF IdsUsed
    <3>9. QED  BY <1>0, <3>3, <3>4, <3>5, <3>7, <3>8 DEF IdsUsed
  <2>3. QED  BY <1>2, <2>1, <2>2 DEF BeginAction
<1>3. ASSUME NEW h \in Importers, PassAction(h) PROVE IdsUsed'
  BY <1>0, <1>3, OneChunkKept DEF PassAction, PassOver, StatementFails, Count, IdsUsed
<1>4. ASSUME NEW h \in Importers, WriteAction(h) PROVE IdsUsed'
  <2>1. /\ Writing(h) /\ writer \in {h, NoOne}
        /\ channels' = channels /\ existing' = existing /\ lost' = lost
        /\ \/ Replaced(h) \/ Vanished(h) \/ Rejected(h)
           \/ \E i \in Ids : Inserted(h, i)
    BY <1>0, <1>4, WriteEffect
  <2>0. \A g \in Importers : OneChunk(g)' <=> OneChunk(g)
    <3>1. entries' = entries
      BY <1>0, <1>4, WriteEffect
    <3>2. QED  BY <3>1, OneChunkKept
  <2>2. /\ View(h) \in Tables /\ \A i \in Ids : View(h)[i] # NoRow => i \in used
        /\ Entry(h) \in Rows /\ Entry(h).url \in Urls
    BY <1>0, <2>1, ViewFacts, EntryType
  <2>3. CASE Replaced(h)
    <3>1. /\ used' = used /\ mine' = mine
          /\ \A i \in Ids : pending'[i] # NoRow => View(h)[i] # NoRow
      BY <2>2, <2>3 DEF Replaced, Tables
    <3>2. QED  BY <1>0, <2>0, <2>1, <2>2, <3>1 DEF IdsUsed
  <2>4. CASE Vanished(h) \/ Rejected(h)
    <3>1. used \subseteq used' /\ mine' = mine /\ pending' = View(h)
      BY <2>4 DEF Vanished, Rejected
    <3>2. QED  BY <1>0, <2>0, <2>1, <2>2, <3>1 DEF IdsUsed
  <2>5. ASSUME NEW i \in Ids, Inserted(h, i) PROVE IdsUsed'
    <3>1. /\ used' = used \cup {i} /\ i \notin used
          /\ \A j \in Ids : pending'[j] # NoRow => View(h)[j] # NoRow \/ j = i
      BY <2>2, <2>5 DEF Inserted, Tables
    <3>2. \A g \in Importers : mine'[g] = IF g = h THEN mine[g] \cup {i} ELSE mine[g]
      BY <1>0, <2>5 DEF Inserted, TypeOK
    <3>3. i # NoId
      OBVIOUS
    <3>4. \A g \in Importers : mine'[g] \subseteq used'
      BY <1>0, <3>1, <3>2 DEF IdsUsed
    <3>5. ASSUME NEW g \in Importers, NEW u \in Urls
          PROVE  existing[g][u] \notin mine'[g]
      <4>1. existing[g][u] \in used \cup {NoId} /\ existing[g][u] \notin mine[g]
        BY <1>0 DEF IdsUsed
      <4>2. existing[g][u] # i
        BY <3>1, <3>3, <4>1
      <4>3. QED  BY <3>2, <4>1, <4>2
    <3>6. QED  BY <1>0, <2>0, <2>1, <2>2, <3>1, <3>4, <3>5 DEF IdsUsed
  <2>6. QED  BY <2>1, <2>3, <2>4, <2>5
<1>5. ASSUME NEW h \in Importers, EndAction(h) PROVE IdsUsed'
  <2>1. /\ Finish(h) /\ channels' \in {channels, View(h)} /\ used' = used
        /\ lost' = lost \/ lost' = lost \cup mine[h]
    BY <1>0, <1>5, EndEffect
  <2>2. /\ mine'[h] = {} /\ existing'[h] = [u \in Urls |-> NoId]
        /\ \A g \in Importers : g # h => mine'[g] = mine[g] /\ existing'[g] = existing[g]
    BY <1>0, <2>1 DEF Finish, TypeOK
  <2>3. \A i \in Ids : channels'[i] # NoRow \/ pending'[i] # NoRow => i \in used
    BY <1>0, <2>1 DEF Finish, View, NoTable, IdsUsed
  <2>4. \A g \in Importers : g # h => (OneChunk(g)' <=> OneChunk(g))
    <3>1. \A g \in Importers : g # h => entries'[g] = entries[g]
      BY <1>0, <2>1 DEF Finish, TypeOK
    <3>2. QED  BY <3>1, OneChunkKept
  <2>5. QED  BY <1>0, <2>1, <2>2, <2>3, <2>4 DEF IdsUsed
<1>6. CASE UNCHANGED vars
  BY <1>0, <1>6, OneChunkKept DEF vars, IdsUsed
<1>7. QED  BY <1>1, <1>2, <1>3, <1>4, <1>5, <1>6, NextActions

\* An entry stays stored while its row and those of the import's own stay.
LEMMA StoredKept ==
    ASSUME NEW h \in Importers, NEW n, NEW rows, Stored(rows, h, n),
           entries' = entries, existing' = existing,
           imported[h] \subseteq imported'[h], mine[h] \subseteq mine'[h],
           \A j \in (mine[h] \cup {existing[h][entries[h][n].url]}) \ {NoId} :
               pending'[j] = rows[j] \/ j \notin Ids,
           mine[h] \subseteq Ids,
           existing[h][entries[h][n].url] \in Ids \cup {NoId}
    PROVE  Stored(pending, h, n)'
<1>1. OneChunk(h)' <=> OneChunk(h)
  BY DEF OneChunk, Addresses
<1>2. CASE existing[h][entries[h][n].url] = NoId
  <2>1. PICK j \in mine[h] : rows[j] = entries[h][n]
    BY <1>2 DEF Stored
  <2>2. j \in mine'[h] /\ pending'[j] = rows[j]
    BY <2>1
  <2>3. QED  BY <1>2, <2>1, <2>2 DEF Stored
<1>3. CASE existing[h][entries[h][n].url] # NoId
  <2>1. pending'[existing[h][entries[h][n].url]] = rows[existing[h][entries[h][n].url]]
    BY <1>3
  <2>2. QED  BY <1>1, <1>3, <2>1 DEF Stored
<1>4. QED  BY <1>2, <1>3

\* An import that takes no step keeps its entries stored.
LEMMA StoredStays ==
    ASSUME NEW g \in Importers, NEW n, pending' = pending,
           entries'[g] = entries[g], existing'[g] = existing[g],
           imported'[g] = imported[g], mine'[g] = mine[g],
           Stored(pending, g, n)
    PROVE  Stored(pending, g, n)'
<1>1. OneChunk(g)' <=> OneChunk(g)
  BY OneChunkKept
<1>2. CASE existing[g][entries[g][n].url] = NoId
  BY <1>2 DEF Stored
<1>3. CASE existing[g][entries[g][n].url] # NoId
  BY <1>1, <1>3 DEF Stored
<1>4. QED  BY <1>2, <1>3

\* Every step leaves what is counted as imported stored.
LEMMA WrittenStep ==
    ASSUME ImportInv, [Next]_vars PROVE Written'
<1> USE DEF table, lock, request, found, result
<1>0. /\ TypeOK /\ LockHeld /\ IdsUsed /\ Written
      /\ \A g \in Importers : CountsAddUp(g)
  BY DEF ImportInv
<1>1. CASE EditAction
  BY <1>0, <1>1, EditEffect, StoredStays DEF Written
<1>2. ASSUME NEW h \in Importers, BeginAction(h) PROVE Written'
  <2>1. /\ UNCHANGED <<pending, imported, mine, lost>> /\ imported[h] = {}
        /\ \A g \in Importers : g # h => entries'[g] = entries[g]
                                         /\ existing'[g] = existing[g]
    BY <1>0, <1>2 DEF BeginAction, Import, LookUp, LockHeld, CountsAddUp, TypeOK
  <2>2. \A g \in Importers : \A n \in imported'[g] :
           g # h /\ n \in imported[g] /\ Stored(pending, g, n)'
    BY <1>0, <2>1, StoredStays DEF Written
  <2>3. QED  BY <1>0, <2>1, <2>2 DEF Written
<1>3. ASSUME NEW h \in Importers, PassAction(h) PROVE Written'
  <2>1. PICK outcome \in {"skipped", "failed"} :
           Writing(h) /\ Count(h, outcome) /\ UNCHANGED <<table, lock, mine>>
    BY <1>3 DEF PassAction, PassOver, StatementFails
  <2>2. /\ \A g \in Importers : imported'[g] = imported[g]
        /\ UNCHANGED <<entries, existing, lost>>
    BY <1>0, <2>1, CountEffect
  <2>3. QED  BY <1>0, <2>1, <2>2, StoredStays DEF Written
<1>4. ASSUME NEW h \in Importers, WriteAction(h) PROVE Written'
  <2>1. /\ Writing(h) /\ ~Seen(h) /\ writer \in {h, NoOne}
        /\ entries' = entries /\ existing' = existing /\ lost' = lost
        /\ \/ Replaced(h) \/ Vanished(h) \/ Rejected(h)
           \/ \E i \in Ids : Inserted(h, i)
    BY <1>0, <1>4, WriteEffect
  <2>0. PICK e \in Rows : e = Entry(h)
    BY <1>0, <2>1, EntryType
  <2>k. PICK k \in Nat : k = at[h]
    BY <1>0 DEF TypeOK
  <2> DEFINE u == e.url
  <2>2. /\ View(h) \in Tables /\ \A i \in Ids : View(h)[i] # NoRow => i \in used
        /\ \A i \in lost : View(h)[i] = NoRow
        /\ \A n \in imported[h] : Stored(View(h), h, n)
        /\ e \in Rows /\ u \in Urls /\ e = entries[h][at[h]]
        /\ lost \subseteq used
    BY <1>0, <2>0, <2>1, ViewFacts, EntryType DEF Entry, IdsUsed
  <2>3. /\ \A n \in imported[h] : n \in 1..(at[h] - 1) /\ n \in DOMAIN entries[h]
        /\ \A n \in imported[h] : entries[h][n].url # u /\ entries[h][n].url \in Urls
        /\ \A m \in 1..(at[h] - 1) : entries[h][m].url # entries[h][at[h]].url
    <3>1. /\ imported[h] \subseteq 1..(at[h] - 1) /\ at[h] <= Len(entries[h])
          /\ at[h] \in Nat \ {0} /\ entries[h] \in Seq(Rows)
      BY <1>0, <2>1 DEF CountsAddUp, Writing, TypeOK, Rows
    <3>2. \A n \in imported[h] : n \in 1..(at[h] - 1) /\ n \in 1..Len(entries[h])
      BY <3>1
    <3>3. \A n \in imported[h] : n \in DOMAIN entries[h] /\ entries[h][n] \in Rows
      BY <3>1, <3>2
    <3>4. \A m \in 1..(at[h] - 1) : entries[h][m].url # entries[h][at[h]].url
      BY <2>1 DEF Seen, Entry
    <3>5. QED  BY <2>0, <3>2, <3>3, <3>4 DEF Entry, Rows, Entries
  <2>4. \A g \in Importers : g # h => imported[g] = {}
    BY <1>0, <2>1 DEF LockHeld
  <2>5. ASSUME NEW outcome \in {"imported", "failed"}, Count(h, outcome),
               \A n \in imported[h] : Stored(pending, h, n)',
               outcome = "imported" => Stored(pending, h, k)',
               \A i \in lost : pending'[i] = NoRow
        PROVE  Written'
    <3>1. \A g \in Importers :
             /\ g = h /\ outcome = "imported"
                   => imported'[g] = imported[g] \cup {at[g]}
             /\ g # h \/ outcome # "imported" => imported'[g] = imported[g]
      <4>1. Writing(h) /\ Count(h, outcome) /\ outcome \in {"imported", "skipped", "failed"}
        BY <2>1, <2>5
      <4>2. QED  BY <1>0, <4>1, CountEffect
    <3>2. ASSUME NEW g \in Importers, NEW n \in imported'[g]
          PROVE  /\ Stored(pending, g, n)'
                 /\ \A m \in 1..(n - 1) : entries'[g][m].url # entries'[g][n].url
      <4>1. g = h /\ (n \in imported[h] \/ (n = at[h] /\ outcome = "imported"))
        <5>1. CASE g = h /\ outcome = "imported"
          BY <3>1, <3>2, <5>1
        <5>2. CASE ~(g = h /\ outcome = "imported")
          <6>1. n \in imported[g]
            BY <3>1, <3>2, <5>2
          <6>2. g = h
            BY <2>4, <6>1
          <6>3. QED  BY <6>1, <6>2
        <5>3. QED  BY <5>1, <5>2
      <4>2. CASE n \in imported[h]
        BY <1>0, <2>1, <2>5, <4>1, <4>2 DEF Written
      <4>3. CASE n = at[h] /\ outcome = "imported"
        BY <2>1, <2>2, <2>3, <2>5, <2>k, <4>1, <4>3
      <4>4. QED  BY <4>1, <4>2, <4>3
    <3>3. QED  BY <2>1, <2>5, <3>2 DEF Written
  <2>6. CASE Replaced(h)
    <3>1. /\ existing[h][u] \in Ids /\ mine' = mine /\ Count(h, "imported")
          /\ pending' = [View(h) EXCEPT ![existing[h][u]] = e]
          /\ View(h)[existing[h][u]] # NoRow
      <4>1. /\ existing[h][u] # NoId /\ mine' = mine /\ Count(h, "imported")
            /\ pending' = [View(h) EXCEPT ![existing[h][u]] = e]
            /\ View(h)[existing[h][u]] # NoRow
        BY <2>0, <2>6 DEF Replaced
      <4>2. existing[h][u] \in Ids \cup {NoId}
        BY <1>0, <2>2 DEF TypeOK
      <4>3. QED  BY <4>1, <4>2
    <3>0. imported'[h] = imported[h] \cup {at[h]}
      BY <1>0, <2>1, <3>1, CountEffect
    <3>2. Stored(pending, h, k)'
      <4>1. entries'[h][k] = e /\ existing'[h][u] = existing[h][u]
        BY <2>1, <2>2, <2>k
      <4>2. QED  BY <2>1, <2>2, <3>1, <4>1 DEF Stored, Tables
    <3>3. ASSUME NEW n \in imported[h] PROVE Stored(pending, h, n)'
      <4>1. /\ Stored(View(h), h, n) /\ n \in 1..(at[h] - 1)
            /\ entries[h][n].url # u /\ entries[h][n].url \in Urls
        BY <2>2, <2>3
      <4>2. mine[h] \subseteq Ids /\ existing[h][u] \notin mine[h]
        BY <1>0, <2>2 DEF IdsUsed, TypeOK
      <4>3. \A j \in Ids \ {existing[h][u]} : pending'[j] = View(h)[j]
        BY <2>2, <3>1 DEF Tables
      <4>4. existing[h][entries[h][n].url] \in Ids \cup {NoId}
        BY <1>0, <4>1 DEF TypeOK
      <4>5. CASE existing[h][entries[h][n].url] # existing[h][u]
        <5>1. \A j \in (mine[h] \cup {existing[h][entries[h][n].url]}) \ {NoId} :
                 pending'[j] = View(h)[j] \/ j \notin Ids
          BY <4>2, <4>3, <4>5
        <5>2. mine[h] \subseteq mine'[h] /\ imported[h] \subseteq imported'[h]
          BY <3>0, <3>1
        <5>3. QED  BY <2>1, <4>1, <4>2, <4>4, <5>1, <5>2, StoredKept
      <4>6. CASE existing[h][entries[h][n].url] = existing[h][u]
        <5>1. ~OneChunk(h)
          BY <1>0, <2>2, <3>1, <4>1, <4>6 DEF IdsUsed
        <5>2. ~OneChunk(h)'
          BY <2>1, <5>1 DEF OneChunk, Addresses
        <5>3. at[h] \in imported'[h] /\ at[h] > n
          <6>1. at[h] \in Nat
            BY <1>0 DEF TypeOK
          <6>2. QED  BY <3>0, <4>1, <6>1
        <5>4. /\ pending'[existing[h][u]] = entries[h][at[h]]
              /\ entries[h][at[h]].url = u
          BY <2>2, <3>1 DEF Tables
        <5>5. existing[h][u] # NoId
          BY <3>1
        <5>6. QED  BY <2>1, <4>6, <5>2, <5>3, <5>4, <5>5 DEF Stored
      <4>7. QED  BY <4>5, <4>6
    <3>4. \A i \in lost : pending'[i] = NoRow
      BY <1>0, <2>2, <3>1 DEF Tables, TypeOK
    <3>5. QED  BY <2>5, <3>1, <3>2, <3>3, <3>4
  <2>7. CASE Vanished(h) \/ Rejected(h)
    <3>1. /\ pending' = View(h) /\ mine' = mine
          /\ Count(h, "imported") \/ Count(h, "failed")
      BY <2>7 DEF Vanished, Rejected
    <3>2. imported[h] \subseteq imported'[h]
      BY <1>0, <2>1, <3>1, CountEffect
    <3>3. ASSUME NEW n \in imported[h] PROVE Stored(pending, h, n)'
      <4>1. Stored(View(h), h, n) /\ entries[h][n].url \in Urls
        BY <2>2, <2>3
      <4>2. mine[h] \subseteq Ids /\ existing[h][entries[h][n].url] \in Ids \cup {NoId}
        BY <1>0, <4>1 DEF TypeOK
      <4>3. QED  BY <2>1, <3>1, <3>2, <4>1, <4>2, StoredKept
    <3>4. Vanished(h) => Stored(pending, h, k)'
      <4>1. entries'[h][k] = e /\ existing'[h][u] = existing[h][u]
        BY <2>1, <2>2, <2>k
      <4>2. QED  BY <2>0, <2>2, <4>1 DEF Vanished, Stored
    <3>5. CASE Vanished(h)
      <4>1. Count(h, "imported")
        BY <3>5 DEF Vanished
      <4>2. QED  BY <2>2, <2>5, <3>1, <3>3, <3>4, <3>5, <4>1
    <3>6. CASE Rejected(h)
      <4>1. Count(h, "failed")
        BY <3>6 DEF Rejected
      <4>2. QED  BY <2>2, <2>5, <3>1, <3>3, <4>1
    <3>7. QED  BY <2>7, <3>5, <3>6
  <2>9. ASSUME NEW i \in Ids, Inserted(h, i) PROVE Written'
    <3>1. /\ existing[h][u] = NoId /\ i \notin used /\ Count(h, "imported")
          /\ pending' = [View(h) EXCEPT ![i] = e]
          /\ mine'[h] = mine[h] \cup {i}
      BY <1>0, <2>0, <2>9 DEF Inserted, TypeOK
    <3>0. imported'[h] = imported[h] \cup {at[h]}
      BY <1>0, <2>1, <3>1, CountEffect
    <3>2. Stored(pending, h, k)'
      <4>1. entries'[h][k] = e /\ existing'[h][u] = existing[h][u]
        BY <2>1, <2>2, <2>k
      <4>2. QED  BY <2>1, <2>2, <3>1, <4>1 DEF Stored, Tables
    <3>3. ASSUME NEW n \in imported[h] PROVE Stored(pending, h, n)'
      <4>1. Stored(View(h), h, n) /\ entries[h][n].url \in Urls
        BY <2>2, <2>3
      <4>2. existing[h][entries[h][n].url] # NoId
               => existing[h][entries[h][n].url] # i
        BY <1>0, <3>1, <4>1 DEF IdsUsed
      <4>3. mine[h] \subseteq Ids /\ i \notin mine[h]
        BY <1>0, <3>1 DEF IdsUsed, TypeOK
      <4>4. existing[h][entries[h][n].url] \in Ids \cup {NoId}
        BY <1>0, <4>1 DEF TypeOK
      <4>5. \A j \in (mine[h] \cup {existing[h][entries[h][n].url]}) \ {NoId} :
               pending'[j] = View(h)[j] \/ j \notin Ids
        BY <2>2, <3>1, <4>2, <4>3 DEF Tables
      <4>6. QED  BY <2>1, <3>0, <3>1, <4>1, <4>3, <4>4, <4>5, StoredKept
    <3>4. \A j \in lost : pending'[j] = NoRow
      BY <1>0, <2>2, <3>1 DEF Tables, TypeOK
    <3>5. QED  BY <2>5, <3>1, <3>2, <3>3, <3>4
  <2>10. QED  BY <2>1, <2>6, <2>7, <2>9
<1>5. ASSUME NEW h \in Importers, EndAction(h) PROVE Written'
  <2>1. /\ Finish(h)
        /\ lost' = lost \/ lost' = lost \cup mine[h]
    BY <1>0, <1>5, EndEffect
  <2>2. /\ imported'[h] = {}
        /\ \A g \in Importers : g # h =>
              /\ imported'[g] = imported[g] /\ mine'[g] = mine[g]
              /\ existing'[g] = existing[g] /\ entries'[g] = entries[g]
    BY <1>0, <2>1 DEF Finish, TypeOK
  <2>3. pending' = IF writer = h THEN NoTable ELSE pending
    BY <2>1 DEF Finish
  <2>4. \A g \in Importers : g # h /\ imported[g] # {} => pending' = pending
    BY <1>0, <2>3 DEF LockHeld
  <2>5. \A i \in lost' : pending'[i] = NoRow
    <3>1. CASE writer = h
      BY <1>0, <2>1, <2>3, <3>1 DEF NoTable, TypeOK
    <3>2. CASE writer # h
      BY <1>0, <2>1, <2>3, <3>2 DEF LockHeld, Written
    <3>3. QED  BY <3>1, <3>2
  <2>6. \A g \in Importers : \A n \in imported'[g] :
           g # h /\ n \in imported[g] /\ Stored(pending, g, n)'
    BY <1>0, <2>2, <2>4, StoredStays DEF Written
  <2>7. QED  BY <1>0, <2>2, <2>5, <2>6 DEF Written
<1>6. CASE UNCHANGED vars
  BY <1>0, <1>6, StoredStays DEF vars, Written
<1>7. QED  BY <1>1, <1>2, <1>3, <1>4, <1>5, <1>6, NextActions

\* Every step keeps the table free of what abandoned imports had written.
LEMMA AbandonedStep ==
    ASSUME ImportInv, [Next]_vars PROVE AbandonedLeavesNothing'
<1> USE DEF table, lock, request, found, result
<1> DEFINE Out == lost \cup UNION {mine[g] : g \in Importers}
<1>0. TypeOK /\ LockHeld /\ IdsUsed /\ Written /\ AbandonedLeavesNothing
  BY DEF ImportInv
<1>1. CASE EditAction
  <2>1. lost' = lost /\ mine' = mine /\ Out \subseteq used
    BY <1>0, <1>1, EditEffect DEF IdsUsed
  <2>2. Out' = Out /\ Out \subseteq Ids
    BY <1>0, <2>1 DEF TypeOK
  <2>3. \A i \in Ids : channels'[i] # NoRow => channels[i] # NoRow \/ i \in used' \ used
    BY <1>0, <1>1, EditEffect
  <2>4. QED  BY <1>0, <2>1, <2>2, <2>3 DEF AbandonedLeavesNothing
<1>2. ASSUME NEW h \in Importers, BeginAction(h) \/ PassAction(h)
      PROVE  AbandonedLeavesNothing'
  <2>1. lost' = lost /\ mine' = mine /\ channels' = channels
    BY <1>2 DEF BeginAction, Import, LookUp, PassAction, PassOver, StatementFails, Count
  <2>2. QED  BY <1>0, <2>1 DEF AbandonedLeavesNothing
<1>3. ASSUME NEW h \in Importers, WriteAction(h) PROVE AbandonedLeavesNothing'
  <2>1. /\ channels' = channels /\ lost' = lost
        /\ \/ Replaced(h) \/ Vanished(h) \/ Rejected(h)
           \/ \E i \in Ids : Inserted(h, i)
    BY <1>0, <1>3, WriteEffect
  <2>2. CASE Replaced(h) \/ Vanished(h) \/ Rejected(h)
    BY <1>0, <2>1, <2>2 DEF Replaced, Vanished, Rejected, AbandonedLeavesNothing
  <2>3. ASSUME NEW i \in Ids, Inserted(h, i) PROVE AbandonedLeavesNothing'
    <3>1. i \notin used /\ \A g \in Importers : mine'[g] \subseteq mine[g] \cup {i}
      BY <1>0, <2>3 DEF Inserted, TypeOK
    <3>2. channels[i] = NoRow
      BY <1>0, <3>1 DEF IdsUsed
    <3>3. QED  BY <1>0, <2>1, <3>1, <3>2 DEF AbandonedLeavesNothing
  <2>4. QED  BY <2>1, <2>2, <2>3
<1>4. ASSUME NEW h \in Importers, EndAction(h) PROVE AbandonedLeavesNothing'
  <2>1. /\ Finish(h) /\ channels' \in {channels, View(h)}
        /\ \/ lost' = lost
           \/ channels' = channels /\ lost' = lost \cup mine[h]
    BY <1>0, <1>4, EndEffect
  <2>2. /\ mine'[h] = {}
        /\ \A g \in Importers : g # h => mine'[g] = mine[g]
    BY <1>0, <2>1 DEF Finish, TypeOK
  <2>3. \A i \in lost : View(h)[i] = NoRow
    BY <1>0 DEF View, Written, AbandonedLeavesNothing
  <2>4. \A g \in Importers : g # h /\ mine[g] # {} => View(h) = channels
    BY <1>0 DEF View, LockHeld
  <2>5. ASSUME NEW i \in lost' PROVE channels'[i] = NoRow
    BY <1>0, <2>1, <2>3, <2>5 DEF AbandonedLeavesNothing
  <2>6. ASSUME NEW g \in Importers, NEW i \in mine'[g] PROVE channels'[i] = NoRow
    <3>1. g # h /\ i \in mine[g]
      BY <2>2, <2>6
    <3>2. channels' = channels
      BY <2>1, <2>4, <3>1
    <3>3. QED  BY <1>0, <3>1, <3>2 DEF AbandonedLeavesNothing
  <2>7. QED  BY <2>5, <2>6 DEF AbandonedLeavesNothing
<1>5. CASE UNCHANGED vars
  BY <1>0, <1>5 DEF vars, AbandonedLeavesNothing
<1>6. QED  BY <1>1, <1>2, <1>3, <1>4, <1>5, NextActions

\* Every step of an import changes only what it may.
LEMMA SparesStep ==
    ASSUME ImportInv, [Next]_vars PROVE ImportSparesOthers'
<1> USE DEF table, lock, request, found, result
<1>0. /\ TypeOK /\ LockHeld /\ IdsUsed /\ ImportSparesOthers
      /\ \A g \in Importers : CountsAddUp(g)
  BY DEF ImportInv
<1>1. CASE EditAction
  BY <1>0, <1>1, EditEffect DEF ImportSparesOthers, RowsOf
<1>2. ASSUME NEW h \in Importers, BeginAction(h) PROVE ImportSparesOthers'
  <2>1. writer # h
    BY <1>0, <1>2 DEF BeginAction, Import, LookUp, LockHeld
  <2>2. /\ UNCHANGED <<writer, pending, channels, mine, imported>>
        /\ \A g \in Importers : g # h =>
              /\ entries'[g] = entries[g] /\ existing'[g] = existing[g]
              /\ overwrite'[g] = overwrite[g]
    BY <1>0, <1>2 DEF BeginAction, Import, LookUp, TypeOK
  <2>3. QED  BY <1>0, <2>1, <2>2 DEF ImportSparesOthers, RowsOf
<1>3. ASSUME NEW h \in Importers, PassAction(h) PROVE ImportSparesOthers'
  <2>1. PICK outcome \in {"skipped", "failed"} :
           Writing(h) /\ Count(h, outcome) /\ UNCHANGED <<table, lock, mine>>
    BY <1>3 DEF PassAction, PassOver, StatementFails
  <2>2. /\ \A g \in Importers : imported'[g] = imported[g]
        /\ UNCHANGED <<request, existing>>
    BY <1>0, <2>1, CountEffect
  <2>3. QED  BY <1>0, <2>1, <2>2 DEF ImportSparesOthers, RowsOf
<1>4. ASSUME NEW h \in Importers, WriteAction(h) PROVE ImportSparesOthers'
  <2>1. /\ Writing(h) /\ writer \in {h, NoOne} /\ writer' = h /\ channels' = channels
        /\ UNCHANGED <<request, existing>>
        /\ \/ Replaced(h) \/ Vanished(h) \/ Rejected(h)
           \/ \E i \in Ids : Inserted(h, i)
    BY <1>0, <1>4, WriteEffect
  <2>2. PICK outcome \in {"imported", "failed"} : Count(h, outcome)
    BY <2>1 DEF Replaced, Vanished, Rejected, Inserted
  <2>3. imported[h] \subseteq imported'[h]
    BY <1>0, <2>1, <2>2, CountEffect
  <2>4. /\ View(h) \in Tables
        /\ \A i \in Ids : View(h)[i] # channels[i] =>
              /\ View(h)[i] \in RowsOf(h)
              /\ \/ channels[i] = NoRow /\ i \in mine[h]
                 \/ /\ overwrite[h]
                    /\ \E n \in imported[h] : i = existing[h][entries[h][n].url]
    BY <1>0, <2>1, ViewFacts
  <2>5. mine[h] \subseteq mine'[h]
    BY <1>0, <2>1 DEF Replaced, Vanished, Rejected, Inserted, TypeOK
  <2>9. Entry(h) \in RowsOf(h)
    BY <1>0, <2>1, EntryType DEF Entry, RowsOf
  <2>10. ASSUME NEW i \in Ids, pending'[i] # channels[i]
         PROVE  pending'[i] \in RowsOf(h)
    <3>1. \/ pending' = View(h)
          \/ \E j \in Ids \cup {NoId} : pending' = [View(h) EXCEPT ![j] = Entry(h)]
      BY <1>0, <2>1, EntryType DEF Replaced, Vanished, Rejected, Inserted, TypeOK
    <3>2. QED  BY <2>4, <2>9, <2>10, <3>1 DEF Tables
  <2>6. ASSUME NEW i \in Ids, pending'[i] # channels[i]
        PROVE  \/ channels[i] = NoRow /\ i \in mine'[h]
               \/ /\ overwrite[h]
                  /\ \E n \in imported'[h] : i = existing[h][entries[h][n].url]
    <3>1. CASE pending'[i] = View(h)[i]
      BY <2>3, <2>4, <2>5, <2>6, <3>1
    <3>2. CASE Replaced(h) /\ pending'[i] # View(h)[i]
      <4>1. i = existing[h][entries[h][at[h]].url] /\ overwrite[h]
        BY <2>4, <3>2 DEF Replaced, Tables, Entry
      <4>2. at[h] \in imported'[h]
        BY <1>0, <2>1, <3>2, CountEffect DEF Replaced
      <4>3. QED  BY <4>1, <4>2
    <3>3. ASSUME NEW j \in Ids, Inserted(h, j), pending'[i] # View(h)[i]
          PROVE  channels[i] = NoRow /\ i \in mine'[h]
      <4>1. i = j /\ j \notin used /\ mine'[h] = mine[h] \cup {j}
        BY <1>0, <2>4, <3>3 DEF Inserted, Tables, TypeOK
      <4>2. QED  BY <1>0, <4>1 DEF IdsUsed
    <3>4. QED  BY <2>1, <3>1, <3>2, <3>3 DEF Vanished, Rejected
  <2>7. entries' = entries /\ existing' = existing /\ overwrite' = overwrite
    BY <2>1
  <2>8. QED  BY <2>1, <2>6, <2>7, <2>10 DEF ImportSparesOthers, RowsOf
<1>5. ASSUME NEW h \in Importers, EndAction(h) PROVE ImportSparesOthers'
  <2>1. /\ Finish(h) /\ channels' \in {channels, View(h)}
    BY <1>0, <1>5, EndEffect
  <2>2. \A g \in Importers : g # h =>
           /\ mine'[g] = mine[g] /\ imported'[g] = imported[g]
           /\ entries'[g] = entries[g] /\ existing'[g] = existing[g]
           /\ overwrite'[g] = overwrite[g]
    BY <1>0, <2>1 DEF Finish, TypeOK
  <2>3. CASE writer = h
    BY <2>1, <2>3 DEF Finish, ImportSparesOthers
  <2>4. CASE writer # h
    <3>1. writer' = writer /\ pending' = pending /\ channels' = channels
      BY <2>1, <2>4 DEF Finish, View
    <3>2. QED  BY <1>0, <2>2, <2>4, <3>1 DEF ImportSparesOthers, RowsOf
  <2>5. QED  BY <2>3, <2>4
<1>6. CASE UNCHANGED vars
  BY <1>0, <1>6 DEF vars, ImportSparesOthers, RowsOf
<1>7. QED  BY <1>1, <1>2, <1>3, <1>4, <1>5, <1>6, NextActions

-----------------------------------------------------------------------------
(* The theorems.                                                           *)

\* The invariant of imports holds, for any playlists and any number of imports.
THEOREM ImportInvariant == Spec => []ImportInv
<1>1. Init => ImportInv
  <2> SUFFICES ASSUME Init PROVE ImportInv
    OBVIOUS
  <2> USE DEF Init, NoTable
  <2>1. channels \in Tables /\ TypeOK
    BY SubmittedAssumption DEF TypeOK, Tables
  <2>2. UrlsUnique(channels) /\ UrlsUnique(pending) /\ ImportSparesOthers
    BY DEF UrlsUnique, ImportSparesOthers
  <2>3. \A h \in Importers : CountsAddUp(h)
    BY DEF CountsAddUp
  <2>4. IdsUsed /\ LookedUp /\ LockHeld /\ Written /\ AbandonedLeavesNothing
    BY DEF IdsUsed, LookedUp, LockHeld, Written, AbandonedLeavesNothing
  <2>5. QED  BY <2>1, <2>2, <2>3, <2>4 DEF ImportInv
<1>2. ImportInv /\ [Next]_vars => ImportInv'
  <2> SUFFICES ASSUME ImportInv, [Next]_vars PROVE ImportInv'
    OBVIOUS
  <2>1. TypeOK' /\ \A h \in Importers : CountsAddUp(h)'
    BY TypeStep, CountsStep DEF ImportInv
  <2>2. QED
    BY <2>1, UniqueStep, IdsStep, LookedUpStep, LockStep, WrittenStep, AbandonedStep, SparesStep
       DEF ImportInv
<1>3. QED  BY <1>1, <1>2, PTL DEF Spec

\* An import leaves alone what it was not asked to change, and what others have
\* edited meanwhile (services/channel.rs, import_channels_batch).
THEOREM ImportSpares == Spec => []ImportSparesOthers
<1>1. ImportInv => ImportSparesOthers
  BY DEF ImportInv
<1>2. QED  BY <1>1, ImportInvariant, PTL

\* What an import reports as imported is stored when it answers.
THEOREM ImportStores == Spec => ImportedAreStored
<1>1. ImportInv /\ [Next]_vars =>
         [\A h \in Importers : Commit(h) =>
             \A n \in imported[h] : Stored(channels', h, n)]_vars
  <2> SUFFICES ASSUME ImportInv, NEW h \in Importers, Commit(h), NEW n \in imported[h]
               PROVE  Stored(channels', h, n)
    OBVIOUS
  <2>1. channels' = pending
    BY DEF Commit, View, ImportInv, LockHeld
  <2>2. QED  BY <2>1 DEF ImportInv, Written
<1>2. QED  BY <1>1, ImportInvariant, PTL DEF Spec, ImportedAreStored

\* Every import writes what its playlist says, line by line, until it answers.
THEOREM ImportsParsedAsWritten == Spec => []ParsedAsWritten
<1> DEFINE Parsed == \A h \in Importers : playlist[h] # NoPlaylist =>
                         entries[h] = Parse(playlist[h]).channels
<1>1. Init => Parsed
  BY DEF Init
<1>2. TypeOK /\ TypeOK' /\ Parsed /\ [Next]_vars => Parsed'
  <2> SUFFICES ASSUME TypeOK, TypeOK', Parsed, [Next]_vars, NEW g \in Importers,
                      playlist'[g] # NoPlaylist
               PROVE  entries'[g] = Parse(playlist'[g]).channels
    OBVIOUS
  <2>1. ASSUME NEW h \in Importers, NEW p \in Playlists, NEW ow \in BOOLEAN,
               Import(h, p, ow)
        PROVE  entries'[g] = Parse(playlist'[g]).channels
    <3>1. /\ playlist' = [playlist EXCEPT ![h] = p]
          /\ entries' = [entries EXCEPT ![h] = Parse(p).channels]
      BY <2>1 DEF Import
    <3>2. CASE g = h
      BY <3>1, <3>2 DEF TypeOK
    <3>3. CASE g # h
      BY <3>1, <3>3 DEF TypeOK
    <3>4. QED  BY <3>2, <3>3
  <2>2. ASSUME NEW h \in Importers, EndAction(h)
        PROVE  entries'[g] = Parse(playlist'[g]).channels
    <3>1. Finish(h)
      BY <2>2, EndEffect
    <3>2. g # h
      BY <3>1 DEF Finish, TypeOK
    <3>3. playlist'[g] = playlist[g] /\ entries'[g] = entries[g]
      BY <3>1, <3>2 DEF Finish, TypeOK
    <3>4. QED  BY <3>3
  <2>3. ASSUME UNCHANGED request PROVE entries'[g] = Parse(playlist'[g]).channels
    BY <2>3 DEF request
  <2>4. ASSUME NEW h \in Importers,
               (\E C \in Chunks(h) : LookUp(h, C)) \/ PassAction(h) \/ WriteAction(h)
        PROVE  UNCHANGED request
    BY <2>4 DEF LookUp, PassAction, PassOver, StatementFails, WriteAction,
                Overwrite, Insert, Count
  <2>5. EditAction \/ UNCHANGED vars => UNCHANGED request
    BY EditEffect DEF vars
  <2>6. QED  BY <2>1, <2>2, <2>3, <2>4, <2>5, NextActions DEF BeginAction
<1>3. TypeOK /\ Parsed => ParsedAsWritten
  BY PlaylistsParsed DEF ParsedAsWritten, TypeOK
<1>4. ImportInv => TypeOK
  BY DEF ImportInv
<1>5. QED  BY <1>1, <1>2, <1>3, <1>4, ImportInvariant, PTL DEF Spec

-----------------------------------------------------------------------------
(* The refinement.                                                         *)

AskedOf == [h \in Importers |-> Asked(h)]

\* Until import h starts or ends, what is asked for stays what it is.
LEMMA AskedElsewhere ==
    ASSUME TypeOK, NEW h \in Importers, NEW l \in {"idle", "lookup", "write"},
           pc' = [pc EXCEPT ![h] = l],
           \A g \in Importers : g # h =>
               entries'[g] = entries[g] /\ overwrite'[g] = overwrite[g]
    PROVE  AskedOf' = [AskedOf EXCEPT ![h] = Asked(h)']
<1>1. ASSUME NEW g \in Importers, g # h PROVE Asked(g)' = Asked(g)
  <2>1. pc'[g] = pc[g] /\ entries'[g] = entries[g] /\ overwrite'[g] = overwrite[g]
    BY <1>1 DEF TypeOK
  <2>2. RowsOf(g)' = RowsOf(g)
    BY <2>1 DEF RowsOf
  <2>3. QED  BY <2>1, <2>2 DEF Asked
<1>2. QED  BY <1>1 DEF AskedOf

\* A request that edits the table.
LEMMA EditRefines ==
    ASSUME ImportInv, ImportInv', EditAction
    PROVE  Table!Next
<1>1. AskedOf' = AskedOf
  <2>1. UNCHANGED <<pc, request>>
    BY EditEffect DEF ImportInv
  <2>2. QED  BY <2>1 DEF request, AskedOf, Asked, RowsOf
<1>2. UrlsUnique(channels')
  BY DEF ImportInv, UrlsUnique
<1>3. ASSUME NEW i \in Ids, NEW row \in Submitted, Create(i, row) \/ Update(i, row)
      PROVE  Table!Put(i, row)
  BY <1>1, <1>2, <1>3 DEF Create, Update, Table!Put, AskedOf, UrlsUnique,
                          Table!UrlsUnique
<1>4. ASSUME NEW S \in SUBSET Ids, Delete(S) PROVE Table!Delete(S)
  BY <1>1, <1>4 DEF Delete, Table!Delete, AskedOf
<1>5. QED  BY <1>3, <1>4 DEF EditAction, Table!Next

\* A request that imports.
LEMMA ImportRefines ==
    ASSUME ImportInv, ImportInv', NEW h \in Importers,
           NEW p \in Playlists, NEW ow \in BOOLEAN, Import(h, p, ow)
    PROVE  Table!Next
<1>1. TypeOK /\ TypeOK'
  BY DEF ImportInv
<1>2. /\ pc[h] = "idle" /\ pc' = [pc EXCEPT ![h] = "lookup"] /\ channels' = channels
      /\ \A g \in Importers : g # h =>
            entries'[g] = entries[g] /\ overwrite'[g] = overwrite[g]
  BY <1>1 DEF Import, Goto, table, TypeOK
<1>3. AskedOf' = [AskedOf EXCEPT ![h] = Asked(h)']
  BY <1>1, <1>2, AskedElsewhere
<1>4. AskedOf[h] = NoPlaylist /\ AskedOf'[h] = Asked(h)'
  BY <1>2, <1>3 DEF AskedOf, Asked
<1>5. Asked(h)' \in Table!Requests
  <2>1. Asked(h)' = [rows |-> RowsOf(h)', overwrite |-> overwrite'[h]]
    BY <1>1, <1>2 DEF Asked, TypeOK
  <2>2. RowsOf(h)' \subseteq Rows /\ overwrite'[h] \in BOOLEAN
    BY <1>1 DEF RowsOf, TypeOK, Rows
  <2>3. QED  BY <2>1, <2>2 DEF Table!Requests
<1>6. Table!Ask(h)
  BY <1>2, <1>3, <1>4, <1>5 DEF Table!Ask, AskedOf
<1>7. QED  BY <1>6 DEF Table!Next

\* An import that ends.
LEMMA EndRefines ==
    ASSUME ImportInv, ImportInv', NEW h \in Importers, EndAction(h)
    PROVE  Table!Next
<1>1. TypeOK /\ TypeOK' /\ Finish(h)
  BY EndEffect DEF ImportInv
<1>2. /\ pc[h] # "idle" /\ pc' = [pc EXCEPT ![h] = "idle"]
      /\ \A g \in Importers : g # h =>
            entries'[g] = entries[g] /\ overwrite'[g] = overwrite[g]
  BY <1>1 DEF EndAction, Commit, Finished, Abandon, Finish, Goto, TypeOK
<1>3. AskedOf' = [AskedOf EXCEPT ![h] = NoPlaylist]
  BY <1>1, <1>2, AskedElsewhere DEF Asked, TypeOK
<1>4. Asked(h) = [rows |-> RowsOf(h), overwrite |-> overwrite[h]] /\ AskedOf[h] = Asked(h)
  BY <1>2 DEF Asked, AskedOf
<1>5. Asked(h) # NoPlaylist
  <2>1. RowsOf(h) \subseteq Rows /\ overwrite[h] \in BOOLEAN
    BY <1>1 DEF RowsOf, TypeOK, Rows
  <2>2. QED  BY <1>4, <2>1
<1>6. CASE Abandon(h)
  <2>1. Table!GiveUp(h)
    BY <1>3, <1>4, <1>5, <1>6 DEF Abandon, table, Table!GiveUp, AskedOf
  <2>2. QED  BY <2>1 DEF Table!Next
<1>7. CASE Commit(h)
  <2>1. channels' = View(h) /\ UrlsUnique(channels') /\ channels' \in Tables
    BY <1>7 DEF Commit, ImportInv, UrlsUnique, TypeOK
  <2>2. ASSUME NEW i \in Ids, channels'[i] # channels[i]
        PROVE  channels'[i] \in RowsOf(h) /\ (channels[i] = NoRow \/ overwrite[h])
    <3>1. writer = h /\ channels' = pending
      BY <2>1, <2>2 DEF View
    <3>2. QED  BY <2>2, <3>1 DEF ImportInv, ImportSparesOthers
  <2>3. channels' = [i \in Ids |-> channels'[i]]
    BY <2>1 DEF Tables
  <2>4. Table!Answer(h)
    BY <1>3, <1>4, <1>5, <2>1, <2>2, <2>3
       DEF Table!Answer, AskedOf, UrlsUnique, Table!UrlsUnique
  <2>5. QED  BY <2>4 DEF Table!Next
<1>8. QED  BY <1>6, <1>7 DEF EndAction

\* The steps of an import in between change nothing that a reader sees.
LEMMA InnerRefines ==
    ASSUME ImportInv, ImportInv', NEW h \in Importers,
           (\E C \in Chunks(h) : LookUp(h, C)) \/ PassAction(h) \/ WriteAction(h)
    PROVE  UNCHANGED <<channels, AskedOf>>
<1>1. channels' = channels /\ UNCHANGED request
  BY DEF LookUp, PassAction, PassOver, StatementFails, WriteAction, Overwrite, Insert,
         Count, table
<1>2. \/ pc' = pc
      \/ /\ pc[h] = "lookup"
         /\ \E l \in {"lookup", "write"} : pc' = [pc EXCEPT ![h] = l]
  BY DEF LookUp, Goto, PassAction, PassOver, StatementFails, WriteAction, Overwrite,
         Insert, Count
<1>3. \A g \in Importers : pc'[g] = "idle" <=> pc[g] = "idle"
  BY <1>2 DEF ImportInv, TypeOK
<1>4. QED  BY <1>1, <1>3 DEF request, AskedOf, Asked, RowsOf

\* Imports look addresses up before their transaction and write entry by entry, but
\* to whoever reads the table each of them takes place at one moment: it writes
\* rows it brings, over others only if it was asked to, and no address twice
\* (services/channel.rs, create to import_channels_batch).
THEOREM TableRefinement == Spec => ImplementsTable
<1>1. Init => Table!Init
  BY DEF Init, Table!Init, Table!UrlsUnique, Asked
<1>2. ImportInv /\ ImportInv' /\ [Next]_vars => [Table!Next]_<<channels, AskedOf>>
  <2> SUFFICES ASSUME ImportInv, ImportInv', [Next]_vars
               PROVE  Table!Next \/ UNCHANGED <<channels, AskedOf>>
    OBVIOUS
  <2>1. CASE EditAction
    BY <2>1, EditRefines
  <2>2. ASSUME NEW h \in Importers, BeginAction(h)
        PROVE  Table!Next \/ UNCHANGED <<channels, AskedOf>>
    BY <2>2, ImportRefines, InnerRefines DEF BeginAction
  <2>3. ASSUME NEW h \in Importers, PassAction(h) \/ WriteAction(h)
        PROVE  UNCHANGED <<channels, AskedOf>>
    BY <2>3, InnerRefines
  <2>4. ASSUME NEW h \in Importers, EndAction(h) PROVE Table!Next
    BY <2>4, EndRefines
  <2>5. CASE UNCHANGED vars
    BY <2>5 DEF vars, table, request, AskedOf, Asked, RowsOf
  <2>6. QED  BY <2>1, <2>2, <2>3, <2>4, <2>5, NextActions
<1>3. QED
  BY <1>1, <1>2, ImportInvariant, PTL DEF Spec, ImplementsTable, Table!Spec, AskedOf

=============================================================================
