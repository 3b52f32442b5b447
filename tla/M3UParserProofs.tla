--------------------------- MODULE M3UParserProofs ---------------------------
(***************************************************************************)
(* Proofs about M3UParser, for playlists of any length: every address the  *)
(* parser accepts becomes one channel, in order, made of the #EXTINF lines *)
(* that belong to it and of no others.                                     *)
(*                                                                         *)
(* Induction over the lines is an argument by least counterexample: a set  *)
(* of naturals that is not empty has a least element.                      *)
(***************************************************************************)
EXTENDS M3UParser, TLAPS, FiniteSetTheorems, WellFoundedInduction

-----------------------------------------------------------------------------
(* Numbers.                                                                *)

LEMMA LeastNumber ==
    ASSUME NEW T \in SUBSET Nat, T # {}
    PROVE  \E m \in T : \A k \in T : m <= k
<1>1. PICK m \in T : \A k \in T : <<k, m>> \notin OpToRel(<, Nat)
  BY NatLessThanWellFounded, WFMin, Zenon
<1>2. \A k \in T : ~ (k < m)
  BY <1>1 DEF OpToRel
<1>3. QED  BY <1>2

-----------------------------------------------------------------------------
(* The loop, line by line.                                                 *)

\* f holds the state of the loop after each of the first m lines.
Follows(playlist, m, f) ==
    f = [n \in 0..m |-> IF n = 0 THEN Nothing
                                 ELSE ReadLine(f[n - 1], playlist[n])]

\* The loop has a state after any number of lines.
LEMMA LoopGoesOn ==
    ASSUME NEW playlist, NEW len \in Nat
    PROVE  \E f : Follows(playlist, len, f)
<1> DEFINE Stuck == {m \in Nat : ~ \E f : Follows(playlist, m, f)}
<1> SUFFICES ASSUME Stuck # {} PROVE FALSE
  OBVIOUS
<1>1. PICK m \in Stuck : \A k \in Stuck : m <= k
  BY LeastNumber
<1>2. CASE m = 0
  <2>1. Follows(playlist, 0, [n \in 0..0 |-> Nothing])
    BY DEF Follows
  <2>2. QED  BY <1>2, <2>1
<1>3. CASE m # 0
  <2>1. m - 1 \in Nat /\ m - 1 \notin Stuck
    BY <1>1, <1>3
  <2>2. PICK f : Follows(playlist, m - 1, f)
    BY <2>1
  <2>3. /\ f[0] = Nothing
        /\ \A n \in 1..(m - 1) : f[n] = ReadLine(f[n - 1], playlist[n])
    BY <2>1, <2>2 DEF Follows
  <2> DEFINE g == [n \in 0..m |-> IF n = m THEN ReadLine(f[m - 1], playlist[m])
                                           ELSE f[n]]
  <2>4. ASSUME NEW n \in 0..m
        PROVE  g[n] = IF n = 0 THEN Nothing ELSE ReadLine(g[n - 1], playlist[n])
    BY <1>3, <2>1, <2>3
  <2>5. Follows(playlist, m, g)
    BY <2>4 DEF Follows
  <2>6. QED  BY <2>5
<1>4. QED  BY <1>2, <1>3

\* What the loop has after n lines, from what it had one line before.
LEMMA LoopState ==
    ASSUME NEW playlist \in Seq(Lines)
    PROVE  /\ AfterLines(playlist)[0] = Nothing
           /\ \A n \in 1..Len(playlist) :
                 AfterLines(playlist)[n]
                     = ReadLine(AfterLines(playlist)[n - 1], playlist[n])
<1>1. Follows(playlist, Len(playlist), AfterLines(playlist))
  <2>1. \E f : Follows(playlist, Len(playlist), f)
    BY LoopGoesOn
  <2>2. QED  BY <2>1, Zenon DEF AfterLines, Follows
<1>2. QED  BY <1>1 DEF Follows

-----------------------------------------------------------------------------
(* What the loop holds after n lines.                                      *)

States == [name : Names \cup {Absent}, group : Groups \cup {Absent},
           channels : Seq(Entries), failed : Nat]

UpTo(S, n) == {i \in S : i <= n}

\* value is what the last line of S says, where "says" is a function of lines.
LastOf(S, says, value, default) ==
    IF S = {} THEN value = default
              ELSE \E j \in S : value = says[j] /\ \A k \in S : k <= j

Named(playlist, S) == {j \in S : playlist[j].name # Absent}
NameOn(playlist)  == [j \in LinesOf(playlist, "extinf") |-> playlist[j].name]
GroupOn(playlist) == [j \in LinesOf(playlist, "extinf") |-> playlist[j].group]

\* What it has gathered for an address on the next line, ...
Gathered(playlist, n, st) ==
    LET info == InfoOf(playlist, n + 1) IN
    /\ LastOf(Named(playlist, info), NameOn(playlist), st.name, Absent)
    /\ LastOf(info, GroupOn(playlist), st.group, Absent)

\* ... and what it has stored of the addresses so far.
StoredSoFar(playlist, n, st) ==
    /\ Len(st.channels) = Cardinality(UpTo(Accepted(playlist), n))
    /\ Len(st.channels) + st.failed
           = Cardinality(UpTo(LinesOf(playlist, "address"), n))
    /\ \A m \in 1..Len(st.channels) : \E i \in UpTo(Accepted(playlist), n) :
          /\ m = Cardinality(UpTo(Accepted(playlist), i))
          /\ Describes(playlist, i, st.channels[m])

LoopInv(playlist, n, st) ==
    st \in States /\ Gathered(playlist, n, st) /\ StoredSoFar(playlist, n, st)

\* A line is an entry's title, an address, or neither.
LEMMA LineIsOneOf ==
    ASSUME NEW line \in Lines
    PROVE  \/ \E name \in Names \cup {Absent}, group \in Groups \cup {Absent} :
                 line = Extinf(name, group)
           \/ \E url \in Urls : line = Address(url)
           \/ line = Ignored
<1>1. CASE line \in {Extinf(n, g) : n \in Names \cup {Absent}, g \in Groups \cup {Absent}}
  BY <1>1
<1>2. CASE line \in {Address(u) : u \in Urls}
  BY <1>2
<1>3. CASE line = Ignored
  BY <1>3
<1>4. QED  BY <1>1, <1>2, <1>3 DEF Lines

\* What a line can be.
LEMMA LineKinds ==
    ASSUME NEW playlist \in Seq(Lines), NEW n \in 1..Len(playlist)
    PROVE  /\ playlist[n].kind \in {"extinf", "address", "ignored"}
           /\ playlist[n].kind = "extinf" =>
                 /\ playlist[n].name \in Names \cup {Absent}
                 /\ playlist[n].group \in Groups \cup {Absent}
           /\ playlist[n].kind = "address" => playlist[n].url \in Urls
<1>1. playlist[n] \in Lines
  OBVIOUS
<1>2. ASSUME NEW name \in Names \cup {Absent}, NEW group \in Groups \cup {Absent},
             playlist[n] = Extinf(name, group)
      PROVE  /\ playlist[n].kind = "extinf" /\ playlist[n].name = name
             /\ playlist[n].group = group
  BY <1>2 DEF Extinf
<1>3. ASSUME NEW url \in Urls, playlist[n] = Address(url)
      PROVE  playlist[n].kind = "address" /\ playlist[n].url = url
  BY <1>3 DEF Address
<1>4. ASSUME playlist[n] = Ignored PROVE playlist[n].kind = "ignored"
  BY <1>4 DEF Ignored
<1>5. \/ \E name \in Names \cup {Absent}, group \in Groups \cup {Absent} :
            playlist[n] = Extinf(name, group)
      \/ \E url \in Urls : playlist[n] = Address(url)
      \/ playlist[n] = Ignored
  BY <1>1, LineIsOneOf
<1>6. QED  BY <1>2, <1>3, <1>4, <1>5

\* The lines counted so far: one more, or as many.
LEMMA UpToNext ==
    ASSUME NEW len \in Nat, NEW S \in SUBSET (1..len), NEW n \in 1..len
    PROVE  /\ IsFiniteSet(UpTo(S, n)) /\ IsFiniteSet(UpTo(S, n - 1))
           /\ Cardinality(UpTo(S, n)) \in Nat
           /\ UpTo(S, n) = IF n \in S THEN UpTo(S, n - 1) \cup {n}
                                      ELSE UpTo(S, n - 1)
           /\ Cardinality(UpTo(S, n)) =
                 IF n \in S THEN Cardinality(UpTo(S, n - 1)) + 1
                            ELSE Cardinality(UpTo(S, n - 1))
<1>1. UpTo(S, n) \subseteq 1..len /\ UpTo(S, n - 1) \subseteq 1..len
  BY DEF UpTo
<1>2. IsFiniteSet(UpTo(S, n)) /\ IsFiniteSet(UpTo(S, n - 1))
  <2>1. IsFiniteSet(1..len)
    BY FS_Interval
  <2>2. QED  BY <1>1, <2>1, FS_Subset
<1>3. UpTo(S, n) = IF n \in S THEN UpTo(S, n - 1) \cup {n} ELSE UpTo(S, n - 1)
  <2>1. \A i \in S : i \in Int /\ (i <= n <=> i <= n - 1 \/ i = n)
    OBVIOUS
  <2>2. QED  BY <2>1 DEF UpTo
<1>4. n \notin UpTo(S, n - 1)
  BY DEF UpTo
<1>5. QED  BY <1>2, <1>3, <1>4, FS_AddElement, FS_CardinalityType

\* An #EXTINF line joins those of the next address, an address line ends them.
LEMMA InfoNext ==
    ASSUME NEW playlist \in Seq(Lines), NEW n \in 1..Len(playlist)
    PROVE  InfoOf(playlist, n + 1) =
              IF playlist[n].kind = "extinf" THEN InfoOf(playlist, n) \cup {n}
              ELSE IF playlist[n].kind = "address" THEN {}
              ELSE InfoOf(playlist, n)
<1>1. DOMAIN playlist = 1..Len(playlist)
  OBVIOUS
<1>2. CASE playlist[n].kind = "extinf"
  BY <1>1, <1>2 DEF InfoOf, LinesOf
<1>3. CASE playlist[n].kind = "address"
  BY <1>1, <1>3 DEF InfoOf, LinesOf
<1>4. CASE playlist[n].kind \notin {"extinf", "address"}
  BY <1>1, <1>4 DEF InfoOf, LinesOf
<1>5. QED  BY <1>2, <1>3, <1>4

\* A line is the last one when it is read.
LEMMA LastOfNext ==
    ASSUME NEW n \in Nat, NEW S, \A k \in S : k \in Nat /\ k < n,
           NEW says, NEW default
    PROVE  LastOf(S \cup {n}, says, says[n], default)
  BY DEF LastOf

\* What an address line makes of what was gathered for it.
LEMMA GatheredDescribes ==
    ASSUME NEW playlist \in Seq(Lines),
           NEW n \in 1..Len(playlist),
           playlist[n].kind = "address", NEW st \in States,
           Gathered(playlist, n - 1, st)
    PROVE  /\ BuildChannel(st.name, playlist[n].url, st.group) \in Entries
           /\ Describes(playlist, n,
                        BuildChannel(st.name, playlist[n].url, st.group))
<1> DEFINE c == BuildChannel(st.name, playlist[n].url, st.group)
           info == InfoOf(playlist, n)
           named == Named(playlist, info)
<1>1. /\ c.url = playlist[n].url /\ c.about.name = Or(st.name, Unknown)
      /\ c.about.group = Or(st.group, Uncategorized)
  BY DEF BuildChannel
<1>2. c \in Entries
  <2>1. Or(st.name, Unknown) \in Names \cup {Unknown}
    BY DEF Or, States
  <2>2. Or(st.group, Uncategorized) \in Groups \cup {Uncategorized}
    BY DEF Or, States
  <2>3. playlist[n].url \in Urls
    BY LineKinds
  <2>4. QED  BY <2>1, <2>2, <2>3 DEF BuildChannel, Entries, Abouts
<1>3. n - 1 + 1 = n
  OBVIOUS
<1>4. /\ LastOf(named, NameOn(playlist), st.name, Absent)
      /\ LastOf(info, GroupOn(playlist), st.group, Absent)
  BY <1>3 DEF Gathered
<1>5. info \subseteq LinesOf(playlist, "extinf") /\ named \subseteq info
  BY DEF InfoOf, Named
<1>6. \/ named = {} /\ c.about.name = Unknown
      \/ \E j \in named : /\ c.about.name = playlist[j].name
                          /\ \A k \in named : k <= j
  <2>1. CASE named = {}
    BY <1>1, <1>4, <2>1 DEF LastOf, Or
  <2>2. CASE named # {}
    <3>1. PICK j \in named : st.name = NameOn(playlist)[j] /\ \A k \in named : k <= j
      BY <1>4, <2>2 DEF LastOf
    <3>2. st.name = playlist[j].name /\ playlist[j].name # Absent
      BY <1>5, <3>1 DEF NameOn, Named
    <3>3. QED  BY <1>1, <3>1, <3>2 DEF Or
  <2>3. QED  BY <2>1, <2>2
<1>7. \/ info = {} /\ c.about.group = Uncategorized
      \/ \E j \in info : /\ c.about.group = Or(playlist[j].group, Uncategorized)
                         /\ \A k \in info : k <= j
  <2>1. CASE info = {}
    BY <1>1, <1>4, <2>1 DEF LastOf, Or
  <2>2. CASE info # {}
    <3>1. PICK j \in info : st.group = GroupOn(playlist)[j] /\ \A k \in info : k <= j
      BY <1>4, <2>2 DEF LastOf
    <3>2. st.group = playlist[j].group
      BY <1>5, <3>1 DEF GroupOn
    <3>3. QED  BY <1>1, <3>1, <3>2
  <2>3. QED  BY <2>1, <2>2
<1>8. QED  BY <1>1, <1>2, <1>6, <1>7 DEF Describes, Named

\* One more line, and the loop has gathered what belongs to the next address.
LEMMA GatheredNext ==
    ASSUME NEW playlist \in Seq(Lines),
           NEW n \in 1..Len(playlist), NEW st \in States,
           Gathered(playlist, n - 1, st)
    PROVE  Gathered(playlist, n, ReadLine(st, playlist[n]))
<1> DEFINE line == playlist[n]
           next == ReadLine(st, line)
           info == InfoOf(playlist, n)
<1>1. /\ n - 1 + 1 = n /\ n \in Nat
      /\ DOMAIN playlist = 1..Len(playlist) /\ Len(playlist) \in Nat
  OBVIOUS
<1>2. /\ LastOf(Named(playlist, info), NameOn(playlist), st.name, Absent)
      /\ LastOf(info, GroupOn(playlist), st.group, Absent)
  BY <1>1 DEF Gathered
<1>3. \A k \in info : k \in Nat /\ k < n
  <2>1. info \subseteq 1..Len(playlist) /\ \A k \in info : k < n
    BY <1>1 DEF InfoOf, LinesOf
  <2>2. QED  BY <1>1, <2>1
<1>4. CASE line.kind = "extinf"
  <2>1. /\ next.name = Or(line.name, st.name) /\ next.group = line.group
        /\ InfoOf(playlist, n + 1) = info \cup {n}
    <3>1. next = [st EXCEPT !.name = Or(line.name, st.name), !.group = line.group]
      BY <1>4 DEF ReadLine
    <3>2. QED  BY <1>4, <3>1, InfoNext DEF States
  <2>2. NameOn(playlist)[n] = line.name /\ GroupOn(playlist)[n] = line.group
    BY <1>1, <1>4 DEF NameOn, GroupOn, LinesOf
  <2>3. LastOf(info \cup {n}, GroupOn(playlist), next.group, Absent)
    <3>1. LastOf(info \cup {n}, GroupOn(playlist), GroupOn(playlist)[n], Absent)
      BY <1>1, <1>3, LastOfNext
    <3>2. QED  BY <2>1, <2>2, <3>1
  <2>4. LastOf(Named(playlist, info \cup {n}), NameOn(playlist), next.name, Absent)
    <3>1. CASE line.name = Absent
      <4>1. Named(playlist, info \cup {n}) = Named(playlist, info)
        BY <3>1 DEF Named
      <4>2. QED  BY <1>2, <2>1, <3>1, <4>1 DEF Or
    <3>2. CASE line.name # Absent
      <4>1. Named(playlist, info \cup {n}) = Named(playlist, info) \cup {n}
        BY <3>2 DEF Named
      <4>2. next.name = NameOn(playlist)[n]
        BY <2>1, <2>2, <3>2 DEF Or
      <4>3. \A k \in Named(playlist, info) : k \in Nat /\ k < n
        BY <1>3 DEF Named
      <4>4. LastOf(Named(playlist, info) \cup {n}, NameOn(playlist),
                   NameOn(playlist)[n], Absent)
        BY <1>1, <4>3, LastOfNext
      <4>5. QED  BY <4>1, <4>2, <4>4
    <3>3. QED  BY <3>1, <3>2
  <2>5. QED  BY <2>1, <2>3, <2>4 DEF Gathered
<1>5. CASE line.kind = "address"
  <2>1. next.name = Absent /\ next.group = Absent
    BY <1>5 DEF ReadLine
  <2>2. InfoOf(playlist, n + 1) = {} /\ Named(playlist, {}) = {}
    BY <1>5, InfoNext DEF Named
  <2>3. QED  BY <2>1, <2>2 DEF Gathered, LastOf
<1>6. CASE line.kind = "ignored"
  <2>1. next = st
    BY <1>6 DEF ReadLine
  <2>2. InfoOf(playlist, n + 1) = info
    BY <1>6, InfoNext
  <2>3. QED  BY <1>2, <2>1, <2>2 DEF Gathered
<1>7. QED  BY <1>4, <1>5, <1>6, LineKinds

\* One more line keeps the channels that are stored, and may store one more.
LEMMA StoredNext ==
    ASSUME NEW playlist \in Seq(Lines),
           NEW n \in 1..Len(playlist), NEW st, LoopInv(playlist, n - 1, st)
    PROVE  LoopInv(playlist, n, ReadLine(st, playlist[n]))
<1> DEFINE line == playlist[n]
           next == ReadLine(st, line)
           accepted == Accepted(playlist)
           addresses == LinesOf(playlist, "address")
           c == BuildChannel(st.name, line.url, st.group)
<1>1. /\ st \in States /\ Gathered(playlist, n - 1, st)
      /\ StoredSoFar(playlist, n - 1, st)
  BY DEF LoopInv
<1>2. Gathered(playlist, n, next)
  BY <1>1, GatheredNext
<1>3. /\ Len(playlist) \in Nat
      /\ accepted \subseteq addresses /\ addresses \subseteq 1..Len(playlist)
      /\ n \in addresses <=> line.kind = "address"
      /\ n \in accepted <=> line.kind = "address" /\ line.url \in Fetchable
  BY DEF Accepted, LinesOf
<1>4. /\ Cardinality(UpTo(accepted, n)) =
            Cardinality(UpTo(accepted, n - 1)) + IF n \in accepted THEN 1 ELSE 0
      /\ Cardinality(UpTo(addresses, n)) =
            Cardinality(UpTo(addresses, n - 1)) + IF n \in addresses THEN 1 ELSE 0
      /\ Cardinality(UpTo(accepted, n)) \in Nat
      /\ Cardinality(UpTo(accepted, n - 1)) \in Nat
      /\ Cardinality(UpTo(addresses, n - 1)) \in Nat
      /\ UpTo(accepted, n - 1) \subseteq UpTo(accepted, n)
      /\ n \in accepted => n \in UpTo(accepted, n)
  <2>1. /\ accepted \in SUBSET (1..Len(playlist))
        /\ addresses \in SUBSET (1..Len(playlist))
    BY <1>3
  <2>2. /\ IsFiniteSet(UpTo(accepted, n - 1)) /\ IsFiniteSet(UpTo(addresses, n - 1))
        /\ IsFiniteSet(UpTo(accepted, n))
        /\ Cardinality(UpTo(accepted, n)) =
              IF n \in accepted THEN Cardinality(UpTo(accepted, n - 1)) + 1
                                ELSE Cardinality(UpTo(accepted, n - 1))
        /\ Cardinality(UpTo(addresses, n)) =
              IF n \in addresses THEN Cardinality(UpTo(addresses, n - 1)) + 1
                                 ELSE Cardinality(UpTo(addresses, n - 1))
    BY <1>3, <2>1, UpToNext
  <2>3. /\ Cardinality(UpTo(accepted, n - 1)) \in Nat
        /\ Cardinality(UpTo(addresses, n - 1)) \in Nat
        /\ Cardinality(UpTo(accepted, n)) \in Nat
    BY <2>2, FS_CardinalityType
  <2>4. /\ UpTo(accepted, n - 1) \subseteq UpTo(accepted, n)
        /\ n \in accepted => n \in UpTo(accepted, n)
    <3>1. \A i \in accepted : i \in Nat
      BY <2>1
    <3>2. QED  BY <3>1 DEF UpTo
  <2>5. QED  BY <2>2, <2>3, <2>4
<1>5. CASE line.kind # "address"
  <2>1. next.channels = st.channels /\ next.failed = st.failed /\ next \in States
    <3>1. CASE line.kind = "extinf"
      <4>1. next = [st EXCEPT !.name = Or(line.name, st.name), !.group = line.group]
        BY <3>1 DEF ReadLine
      <4>2. /\ Or(line.name, st.name) \in Names \cup {Absent}
            /\ line.group \in Groups \cup {Absent}
        BY <1>1, <3>1, LineKinds DEF Or, States
      <4>3. QED  BY <1>1, <4>1, <4>2 DEF States
    <3>2. CASE line.kind = "ignored"
      BY <1>1, <3>2 DEF ReadLine
    <3>3. QED  BY <1>5, <3>1, <3>2, LineKinds
  <2>2. StoredSoFar(playlist, n, next)
    BY <1>1, <1>3, <1>4, <1>5, <2>1 DEF StoredSoFar
  <2>3. QED  BY <1>2, <2>1, <2>2 DEF LoopInv
<1>6. CASE line.kind = "address" /\ line.url \notin Fetchable
  <2>1. /\ next = [name |-> Absent, group |-> Absent, failed |-> st.failed + 1,
                   channels |-> st.channels]
        /\ next \in States
    BY <1>1, <1>6 DEF ReadLine, States
  <2>2. /\ st.failed \in Nat /\ Len(st.channels) \in Nat
        /\ next.channels = st.channels /\ next.failed = st.failed + 1
    BY <1>1, <2>1 DEF States
  <2>3. StoredSoFar(playlist, n, next)
    <3>1. /\ Len(next.channels) = Cardinality(UpTo(accepted, n))
          /\ Len(next.channels) + next.failed = Cardinality(UpTo(addresses, n))
      BY <1>1, <1>3, <1>4, <1>6, <2>2 DEF StoredSoFar
    <3>2. QED  BY <1>1, <1>4, <2>2, <3>1 DEF StoredSoFar
  <2>4. QED  BY <1>2, <2>1, <2>3 DEF LoopInv
<1>7. CASE line.kind = "address" /\ line.url \in Fetchable
  <2>1. c \in Entries /\ Describes(playlist, n, c)
    BY <1>1, <1>7, GatheredDescribes
  <2>2. next = [name |-> Absent, group |-> Absent, failed |-> st.failed,
                channels |-> Append(st.channels, c)]
    BY <1>7 DEF ReadLine
  <2>3. st.failed \in Nat /\ Len(st.channels) \in Nat /\ st.channels \in Seq(Entries)
    BY <1>1 DEF States
  <2>4. /\ Append(st.channels, c) \in Seq(Entries)
        /\ Len(Append(st.channels, c)) = Len(st.channels) + 1
        /\ Append(st.channels, c)[Len(st.channels) + 1] = c
        /\ \A m \in 1..Len(st.channels) : Append(st.channels, c)[m] = st.channels[m]
    BY <2>1, <2>3
  <2>5. next \in States
    BY <2>2, <2>3, <2>4 DEF States
  <2>6. /\ Len(next.channels) = Cardinality(UpTo(accepted, n))
        /\ Len(next.channels) + next.failed = Cardinality(UpTo(addresses, n))
    BY <1>1, <1>3, <1>4, <1>7, <2>2, <2>3, <2>4 DEF StoredSoFar
  <2>7. ASSUME NEW m \in 1..Len(next.channels)
        PROVE  \E i \in UpTo(accepted, n) :
                  /\ m = Cardinality(UpTo(accepted, i))
                  /\ Describes(playlist, i, next.channels[m])
    <3>1. CASE m = Len(st.channels) + 1
      <4>1. next.channels[m] = c /\ m = Cardinality(UpTo(accepted, n))
        BY <2>2, <2>4, <2>6, <3>1
      <4>2. n \in UpTo(accepted, n)
        BY <1>3, <1>4, <1>7
      <4>3. QED  BY <2>1, <4>1, <4>2
    <3>2. CASE m # Len(st.channels) + 1
      <4>1. m \in 1..Len(st.channels)
        BY <2>2, <2>3, <2>4, <3>2
      <4>2. next.channels[m] = st.channels[m]
        BY <2>2, <2>4, <4>1
      <4>3. QED  BY <1>1, <1>4, <4>1, <4>2 DEF StoredSoFar
    <3>3. QED  BY <3>1, <3>2
  <2>8. QED  BY <1>2, <2>5, <2>6, <2>7 DEF LoopInv, StoredSoFar
<1>8. QED  BY <1>5, <1>6, <1>7

\* What the loop holds after any number of lines, by least counterexample.
LEMMA LoopInvariant ==
    ASSUME NEW playlist \in Seq(Lines), NEW n \in 0..Len(playlist)
    PROVE  LoopInv(playlist, n, AfterLines(playlist)[n])
<1> DEFINE Wrong == {m \in 0..Len(playlist) :
                        ~LoopInv(playlist, m, AfterLines(playlist)[m])}
<1> SUFFICES ASSUME Wrong # {} PROVE FALSE
  OBVIOUS
<1>0. Len(playlist) \in Nat /\ DOMAIN playlist = 1..Len(playlist)
  OBVIOUS
<1>1. PICK m \in Wrong : \A k \in Wrong : m <= k
  <2>1. Wrong \in SUBSET Nat
    OBVIOUS
  <2>2. QED  BY <2>1, LeastNumber
<1>2. CASE m = 0
  <2>1. AfterLines(playlist)[0] = Nothing
    BY LoopState
  <2>2. /\ UpTo(Accepted(playlist), 0) = {}
        /\ UpTo(LinesOf(playlist, "address"), 0) = {}
        /\ InfoOf(playlist, 0 + 1) = {} /\ Named(playlist, {}) = {}
    BY <1>0 DEF UpTo, Accepted, LinesOf, InfoOf, Named
  <2>3. Nothing \in States /\ Nothing.channels = <<>> /\ Nothing.failed = 0
        /\ Nothing.name = Absent /\ Nothing.group = Absent
    BY DEF Nothing, States
  <2>4. Gathered(playlist, 0, Nothing)
    BY <2>2, <2>3 DEF Gathered, LastOf
  <2>5. StoredSoFar(playlist, 0, Nothing)
    <3>1. Cardinality({}) = 0 /\ Len(<<>>) = 0 /\ 1..0 = {} /\ 0 + 0 = 0
      BY FS_EmptySet
    <3>2. QED  BY <2>2, <2>3, <3>1 DEF StoredSoFar
  <2>6. QED  BY <1>1, <1>2, <2>1, <2>3, <2>4, <2>5 DEF LoopInv
<1>3. CASE m # 0
  <2>1. m \in 1..Len(playlist) /\ m - 1 \in 0..Len(playlist) /\ m - 1 \notin Wrong
    BY <1>0, <1>1, <1>3
  <2>2. LoopInv(playlist, m - 1, AfterLines(playlist)[m - 1])
    BY <2>1
  <2>3. AfterLines(playlist)[m]
            = ReadLine(AfterLines(playlist)[m - 1], playlist[m])
    BY <2>1, LoopState
  <2>4. QED  BY <1>1, <2>1, <2>2, <2>3, StoredNext
<1>4. QED  BY <1>2, <1>3

-----------------------------------------------------------------------------
(* The result.                                                             *)

\* Addresses are counted apart: no two have the same number.
LEMMA LineOfNumber ==
    ASSUME NEW playlist \in Seq(Lines), NEW i \in Accepted(playlist)
    PROVE  LineOf(playlist, Cardinality(UpTo(Accepted(playlist), i))) = i
<1> DEFINE accepted == Accepted(playlist)
<1>0. Len(playlist) \in Nat /\ accepted \subseteq 1..Len(playlist)
  BY DEF Accepted, LinesOf
<1>1. ASSUME NEW j \in accepted, NEW k \in accepted, j < k
      PROVE  Cardinality(UpTo(accepted, j)) # Cardinality(UpTo(accepted, k))
  <2>1. j \in Int /\ k \in Int /\ \A l \in accepted : l \in Int
    BY <1>0
  <2>2. UpTo(accepted, j) \subseteq UpTo(accepted, k)
    <3>1. \A l \in accepted : l <= j => l <= k
      BY <1>1, <2>1
    <3>2. QED  BY <3>1 DEF UpTo
  <2>3. k \in UpTo(accepted, k) /\ k \notin UpTo(accepted, j)
    BY <1>1, <2>1 DEF UpTo
  <2>4. IsFiniteSet(UpTo(accepted, k))
    <3>1. IsFiniteSet(1..Len(playlist)) /\ UpTo(accepted, k) \subseteq 1..Len(playlist)
      BY <1>0, FS_Interval DEF UpTo
    <3>2. QED  BY <3>1, FS_Subset
  <2>5. QED  BY <2>2, <2>3, <2>4, FS_Subset
<1>2. \A j \in accepted :
         Cardinality(UpTo(accepted, j)) = Cardinality(UpTo(accepted, i)) => j = i
  <2>1. \A j \in accepted : j \in Int
    BY <1>0
  <2>2. \A j \in accepted : j < i \/ i < j \/ i = j
    BY <2>1
  <2>3. QED  BY <1>1, <2>2
<1>3. QED  BY <1>2 DEF LineOf, UpTo

\* Every playlist is parsed as it is written: the accepted addresses become the
\* channels, in order, and each is made of the #EXTINF lines that belong to it
\* and of no others (M3UParser::parse).
THEOREM EveryPlaylistParsedRight ==
    \A playlist \in Seq(Lines) :
        Parse(playlist).channels \in Seq(Entries) /\ ParsedRight(playlist)
<1> SUFFICES ASSUME NEW playlist \in Seq(Lines)
             PROVE  Parse(playlist).channels \in Seq(Entries) /\ ParsedRight(playlist)
  OBVIOUS
<1> DEFINE accepted == Accepted(playlist)
           addresses == LinesOf(playlist, "address")
           result == Parse(playlist)
<1>1. Len(playlist) \in Nat /\ DOMAIN playlist = 1..Len(playlist)
  OBVIOUS
<1>2. LoopInv(playlist, Len(playlist), result)
  BY <1>1, LoopInvariant DEF Parse
<1>3. UpTo(accepted, Len(playlist)) = accepted
      /\ UpTo(addresses, Len(playlist)) = addresses
  BY <1>1 DEF UpTo, Accepted, LinesOf
<1>4. /\ Len(result.channels) = Cardinality(accepted)
      /\ Len(result.channels) + result.failed = Cardinality(addresses)
      /\ result.channels \in Seq(Entries)
  BY <1>2, <1>3 DEF LoopInv, StoredSoFar, States
<1>5. ASSUME NEW n \in DOMAIN result.channels
      PROVE  Describes(playlist, LineOf(playlist, n), result.channels[n])
  <2>1. n \in 1..Len(result.channels)
    BY <1>4
  <2>2. PICK i \in accepted : /\ n = Cardinality(UpTo(accepted, i))
                              /\ Describes(playlist, i, result.channels[n])
    BY <1>2, <1>3, <2>1 DEF LoopInv, StoredSoFar
  <2>3. QED  BY <2>2, LineOfNumber
<1>6. QED  BY <1>4, <1>5 DEF ParsedRight

=============================================================================
