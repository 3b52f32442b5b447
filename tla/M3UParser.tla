------------------------------ MODULE M3UParser ------------------------------
(***************************************************************************)
(* What M3UParser::parse makes of a playlist.  A playlist is a sequence of *)
(* lines, a line is what its prefix makes of it; a name and a group stand  *)
(* for everything an #EXTINF line says.                                    *)
(***************************************************************************)
EXTENDS Naturals, Sequences, FiniteSets

CONSTANTS
    Urls,           \* what can stand on a line without #
    Fetchable,      \* those that parse as http or https
    Names, Groups,
    Absent          \* an empty name, no group-title

ASSUME LinesAssumption ==
    Fetchable \subseteq Urls /\ Absent \notin Names \cup Groups

Unknown       == "Unknown"
Uncategorized == "Uncategorized"

\* An #EXTINF line, a line with an address, and all that is passed over: empty
\* lines, #EXTM3U, #EXTVLCOPT and other comments.
Extinf(name, group) == [kind |-> "extinf", name |-> name, group |-> group]
Address(url)        == [kind |-> "address", url |-> url]
Ignored             == [kind |-> "ignored"]

Lines ==
    {Extinf(n, g) : n \in Names \cup {Absent}, g \in Groups \cup {Absent}}
    \cup {Address(u) : u \in Urls} \cup {Ignored}

\* What is stored of a channel besides its address.
Abouts  == [name : Names \cup {Unknown}, group : Groups \cup {Uncategorized}]
Entries == [url : Urls, about : Abouts]

Or(value, default) == IF value = Absent THEN default ELSE value

\* build_channel
BuildChannel(name, url, group) ==
    [url |-> url, about |-> [name |-> Or(name, Unknown),
                             group |-> Or(group, Uncategorized)]]

\* current_name, the group-title of current_attrs, and the result so far.
Nothing == [name |-> Absent, group |-> Absent, channels |-> <<>>, failed |-> 0]

\* Faulty variant: an address leaves the name behind for the next one.
ReadLine_KeepsName(at, line) ==
    CASE line.kind = "extinf" ->
            [at EXCEPT !.name = Or(line.name, at.name), !.group = line.group]
      [] line.kind = "address" ->
            [at EXCEPT !.group = Absent,
                       !.channels = Append(@, BuildChannel(at.name, line.url,
                                                           at.group))]
      [] OTHER -> at

\* One pass of the loop.  An #EXTINF line without a name replaces the attributes
\* and leaves the name of the line before.
ReadLine(at, line) ==
    CASE line.kind = "extinf" ->
            [at EXCEPT !.name = Or(line.name, at.name), !.group = line.group]
      [] line.kind = "address" /\ line.url \in Fetchable ->
            [name |-> Absent, group |-> Absent, failed |-> at.failed,
             channels |-> Append(at.channels,
                                 BuildChannel(at.name, line.url, at.group))]
      [] line.kind = "address" /\ line.url \notin Fetchable ->
            [name |-> Absent, group |-> Absent, failed |-> at.failed + 1,
             channels |-> at.channels]
      [] OTHER -> at

\* The state of the loop after each of the lines.
AfterLines(playlist) ==
    LET after[n \in 0..Len(playlist)] ==
            IF n = 0 THEN Nothing ELSE ReadLine(after[n - 1], playlist[n])
    IN  after

Parse(playlist) == AfterLines(playlist)[Len(playlist)]

-----------------------------------------------------------------------------
(* What a playlist says, without the parser's state.                       *)

LinesOf(playlist, kind) ==
    {i \in DOMAIN playlist : playlist[i].kind = kind}

\* The #EXTINF lines that belong to the address on line i.
InfoOf(playlist, i) ==
    {j \in LinesOf(playlist, "extinf") :
        j < i /\ \A k \in LinesOf(playlist, "address") : k < j \/ k >= i}

Accepted(playlist) ==
    {i \in LinesOf(playlist, "address") : playlist[i].url \in Fetchable}

\* The line of the n-th accepted address.
LineOf(playlist, n) ==
    CHOOSE i \in Accepted(playlist) :
        n = Cardinality({k \in Accepted(playlist) : k <= i})

\* Channel c is what the #EXTINF lines of line i say and no other line: its group
\* is that of the last of them, its name the last one given.
Describes(playlist, i, c) ==
    LET info  == InfoOf(playlist, i)
        named == {j \in info : playlist[j].name # Absent}
    IN  /\ c.url = playlist[i].url
        /\ \/ named = {} /\ c.about.name = Unknown
           \/ \E j \in named : /\ c.about.name = playlist[j].name
                               /\ \A k \in named : k <= j
        /\ \/ info = {} /\ c.about.group = Uncategorized
           \/ \E j \in info : /\ c.about.group = Or(playlist[j].group,
                                                    Uncategorized)
                              /\ \A k \in info : k <= j

ParsedRight(playlist) ==
    LET result == Parse(playlist) IN
    /\ Len(result.channels) = Cardinality(Accepted(playlist))
    /\ Len(result.channels) + result.failed
           = Cardinality(LinesOf(playlist, "address"))
    /\ \A n \in DOMAIN result.channels :
          Describes(playlist, LineOf(playlist, n), result.channels[n])

=============================================================================
