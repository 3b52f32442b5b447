---------------------------- MODULE ChannelTable ----------------------------
(***************************************************************************)
(* What the channels table promises to a reader who sees nothing of        *)
(* transactions, locks and lookups: each address stands in it once, and an *)
(* import happens at one moment, when it answers, and writes nothing but   *)
(* what it brings, over rows only if it was asked to overwrite.            *)
(***************************************************************************)
CONSTANTS
    Ids, Importers,
    Submitted,      \* rows that clients create and edit channels to
    Brought,        \* rows that imports may bring
    NoRow, NoImport

VARIABLES
    channels,       \* the table
    asked           \* what each import under way was asked for

UrlsUnique(rows) ==
    \A i, j \in Ids : rows[i] # NoRow /\ rows[j] # NoRow /\ i # j
                         => rows[i].url # rows[j].url

Requests == [rows : SUBSET Brought, overwrite : BOOLEAN]

Init ==
    /\ channels \in [Ids -> Submitted \cup {NoRow}] /\ UrlsUnique(channels)
    /\ asked = [h \in Importers |-> NoImport]

\* A channel is created or edited.
Put(i, row) ==
    /\ UNCHANGED asked
    /\ channels' = [channels EXCEPT ![i] = row] /\ UrlsUnique(channels')

Delete(S) ==
    /\ UNCHANGED asked
    /\ channels' = [i \in Ids |-> IF i \in S THEN NoRow ELSE channels[i]]

Ask(h) ==
    /\ UNCHANGED channels
    /\ asked[h] = NoImport /\ asked'[h] \in Requests
    /\ asked' = [asked EXCEPT ![h] = asked'[h]]

Answer(h) ==
    /\ asked[h] # NoImport /\ asked' = [asked EXCEPT ![h] = NoImport]
    /\ channels' = [i \in Ids |-> channels'[i]] /\ UrlsUnique(channels')
    /\ \A i \in Ids : channels'[i] # channels[i] =>
          /\ channels'[i] \in asked[h].rows
          /\ channels[i] = NoRow \/ asked[h].overwrite

GiveUp(h) ==
    /\ UNCHANGED channels
    /\ asked[h] # NoImport /\ asked' = [asked EXCEPT ![h] = NoImport]

Next ==
    \/ \E i \in Ids, row \in Submitted : Put(i, row)
    \/ \E S \in SUBSET Ids : Delete(S)
    \/ \E h \in Importers : Ask(h) \/ Answer(h) \/ GiveUp(h)

Spec == Init /\ [][Next]_<<channels, asked>>

=============================================================================
