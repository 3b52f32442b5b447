--------------------------- MODULE PreviewSessions ---------------------------
(***************************************************************************)
(* Live preview: TranscodeService starts one ffmpeg per session, which     *)
(* writes HLS files into a directory of its own, and keeps the session in  *)
(* a map until it is stopped or nobody has fetched a file for 600 s.       *)
(*                                                                         *)
(* The map has a read-write lock.  Every call of start_transcode reads it  *)
(* twice and writes it at its end, holding nothing in between; stop and    *)
(* clean-up hold the write lock until ffmpeg is dead.  A call makes at     *)
(* most one session, so the call stands for the id of its session.         *)
(***************************************************************************)
EXTENDS Naturals, FiniteSets

CONSTANTS
    Starts,             \* calls of start_transcode, and their sessions
    Owner, ChannelOf,   \* the user and the channel of each call
    Stops,              \* calls of stop_transcode
    Cleaner,            \* the clean-up task
    Nobody,             \* holds the write lock when it is free; no session
    MaxPerUser,         \* max_sessions_per_user (2 in the code)
    Profiles,           \* how many ways to run ffmpeg there are (3 in the code)
    Overlap,            \* how many starts a user has under way at a time
    MaxFaults           \* BOUND: calls whose client hangs up

Closers == Stops \cup {Cleaner}

ASSUME CallsAssumption == IsFiniteSet(Starts) /\ Nobody \notin Starts \cup Closers
ASSUME CleanerAssumption == Cleaner \notin Stops
ASSUME LimitsAssumption ==
    /\ MaxPerUser \in Nat \ {0} /\ Profiles \in Nat \ {0}
    /\ Overlap \in Nat \ {0} /\ MaxFaults \in Nat

VARIABLES
    sessions,   \* ids in the map
    idle,       \* sessions not accessed for longer than session_timeout_secs
    lock,       \* who holds the write lock across an await
    pc,         \* where each call of start is suspended
    profile,    \* which profile it is trying
    ffmpeg,     \* the process of each session
    dir,        \* its HLS directory
    step,       \* where each closer is suspended
    victim,     \* the session it is closing, or about to
    expired,    \* what the clean-up has found idle and not yet closed
    faults

starting == <<pc, profile>>
closing  == <<lock, step, victim, expired>>
disk     == <<ffmpeg, dir>>
vars     == <<sessions, idle, starting, disk, closing, faults>>

TypeOK ==
    /\ sessions \subseteq Starts /\ idle \subseteq sessions
    /\ lock \in Closers \cup {Nobody}
    /\ pc \in [Starts -> {"idle", "count", "preflight", "spawn", "wait", "kill",
                          "insert", "over"}]
    /\ profile \in [Starts -> 0..Profiles]
    /\ ffmpeg \in [Starts -> {"none", "running", "exited"}]
    /\ dir \in [Starts -> {"none", "empty", "playlist"}]
    /\ step \in [Closers -> {"ready", "lock", "kill", "over"}]
    /\ victim \in [Closers -> Starts \cup {Nobody}]
    /\ expired \subseteq sessions
    /\ faults \in 0..MaxFaults

Init ==
    /\ sessions = {} /\ idle = {} /\ expired = {} /\ lock = Nobody
    /\ pc = [c \in Starts |-> "idle"] /\ profile = [c \in Starts |-> 0]
    /\ ffmpeg = [c \in Starts |-> "none"] /\ dir = [c \in Starts |-> "none"]
    /\ step = [k \in Closers |-> "ready"] /\ victim = [k \in Closers |-> Nobody]
    /\ faults = 0

Unlocked == lock = Nobody
Goto(c, l) == pc' = [pc EXCEPT ![c] = l]
Fault == faults < MaxFaults /\ faults' = faults + 1

SessionsOf(u) == {c \in sessions : Owner[c] = u}
InFlight(c) == pc[c] \notin {"idle", "over"}
Same(c, d) == Owner[c] = Owner[d] /\ ChannelOf[c] = ChannelOf[d]
UnderWay(u) == {c \in Starts : Owner[c] = u /\ InFlight(c)}

-----------------------------------------------------------------------------
(* start_transcode.                                                        *)

\* A session of the same user and channel is reused, dead or alive.  The code
\* does not restrict how many starts a user has under way; an Overlap of as many
\* as there are calls stands for that.
Start(c) ==
    /\ pc[c] = "idle" /\ Unlocked
    /\ Cardinality(UnderWay(Owner[c])) < Overlap
    /\ Goto(c, IF \E d \in sessions : Same(c, d) THEN "over" ELSE "count")
    /\ UNCHANGED <<sessions, idle, profile, disk, closing, faults>>

\* Faulty variant: one session too many.
CountOwn_OneMore(c) ==
    /\ pc[c] = "count" /\ Unlocked
    /\ IF Cardinality(SessionsOf(Owner[c])) > MaxPerUser
       THEN Goto(c, "over") /\ UNCHANGED dir
       ELSE Goto(c, "preflight") /\ dir' = [dir EXCEPT ![c] = "empty"]
    /\ UNCHANGED <<sessions, idle, profile, ffmpeg, closing, faults>>

\* Counts under a second read lock, and makes the directory.
CountOwn(c) ==
    /\ pc[c] = "count" /\ Unlocked
    /\ IF Cardinality(SessionsOf(Owner[c])) >= MaxPerUser
       THEN Goto(c, "over") /\ UNCHANGED dir
       ELSE Goto(c, "preflight") /\ dir' = [dir EXCEPT ![c] = "empty"]
    /\ UNCHANGED <<sessions, idle, profile, ffmpeg, closing, faults>>

\* resolve_ipv4_url and preflight_http_stream; an error leaves the directory.
Preflight(c) ==
    /\ pc[c] = "preflight" /\ \E l \in {"spawn", "over"} : Goto(c, l)
    /\ UNCHANGED <<sessions, idle, profile, disk, closing, faults>>

\* The next profile starts in an empty directory; a failed spawn leaves it.
Spawn(c) ==
    /\ pc[c] = "spawn" /\ dir' = [dir EXCEPT ![c] = "empty"]
    /\ profile' = [profile EXCEPT ![c] = @ + 1]
    /\ \/ Goto(c, "wait") /\ ffmpeg' = [ffmpeg EXCEPT ![c] = "running"]
       \/ Goto(c, "over") /\ UNCHANGED ffmpeg
    /\ UNCHANGED <<sessions, idle, closing, faults>>

\* Faulty variant: the deadline counts as success.
PlaylistReady_AtDeadline(c) ==
    /\ pc[c] = "wait" /\ Goto(c, "insert")
    /\ UNCHANGED <<sessions, idle, profile, disk, closing, faults>>

\* wait_for_playlist_ready: the playlist may be ready though ffmpeg has exited.
PlaylistReady(c) ==
    /\ pc[c] = "wait" /\ dir[c] = "playlist" /\ Goto(c, "insert")
    /\ UNCHANGED <<sessions, idle, profile, disk, closing, faults>>

\* ffmpeg has exited, or the time of the profile is up.
StartupFails(c) ==
    /\ pc[c] = "wait" /\ Goto(c, "kill")
    /\ UNCHANGED <<sessions, idle, profile, disk, closing, faults>>

\* terminate_process returns when ffmpeg is dead; then the next profile is tried.
NextProfile(c) ==
    /\ pc[c] = "kill" /\ profile[c] < Profiles /\ Goto(c, "spawn")
    /\ ffmpeg' = [ffmpeg EXCEPT ![c] = "exited"]
    /\ UNCHANGED <<sessions, idle, profile, dir, closing, faults>>

\* Faulty variant: the last ffmpeg is not terminated.
GiveUp_KeepsRunning(c) ==
    /\ pc[c] = "kill" /\ Goto(c, "over")
    /\ dir' = [dir EXCEPT ![c] = "none"]
    /\ UNCHANGED <<sessions, idle, profile, ffmpeg, closing, faults>>

\* The source is unavailable, or the last profile has failed.
GiveUp(c) ==
    /\ pc[c] = "kill" /\ Goto(c, "over")
    /\ ffmpeg' = [ffmpeg EXCEPT ![c] = "exited"]
    /\ dir' = [dir EXCEPT ![c] = "none"]
    /\ UNCHANGED <<sessions, idle, profile, closing, faults>>

StoreSession(c) ==
    /\ pc[c] = "insert" /\ Unlocked /\ Goto(c, "over")
    /\ sessions' = sessions \cup {c}
    /\ UNCHANGED <<idle, profile, disk, closing, faults>>

\* The client hangs up: the future is dropped, ffmpeg is not.
DropStart(c) ==
    /\ Fault /\ InFlight(c) /\ Goto(c, "over")
    /\ UNCHANGED <<sessions, idle, profile, disk, closing>>

-----------------------------------------------------------------------------
(* ffmpeg, and the clients that watch.                                     *)

FfmpegWrites(c) ==
    /\ ffmpeg[c] = "running" /\ dir[c] = "empty"
    /\ dir' = [dir EXCEPT ![c] = "playlist"]
    /\ UNCHANGED <<sessions, idle, starting, ffmpeg, closing, faults>>

FfmpegExits(c) ==
    /\ ffmpeg[c] = "running" /\ ffmpeg' = [ffmpeg EXCEPT ![c] = "exited"]
    /\ UNCHANGED <<sessions, idle, starting, dir, closing, faults>>

\* 600 s pass without a fetch.
GoesIdle(c) ==
    /\ c \in sessions \ idle /\ idle' = idle \cup {c}
    /\ UNCHANGED <<sessions, starting, disk, closing, faults>>

\* Faulty variant: the time of access is written without the lock.
TouchSession_Unlocked(c) ==
    /\ c \in idle /\ idle' = idle \ {c}
    /\ UNCHANGED <<sessions, starting, disk, closing, faults>>

\* get_hls_file calls touch_session before it reads the file.
TouchSession(c) ==
    /\ c \in idle /\ Unlocked /\ idle' = idle \ {c}
    /\ UNCHANGED <<sessions, starting, disk, closing, faults>>

-----------------------------------------------------------------------------
(* stop_transcode and cleanup_expired.                                     *)

\* The handler of stop looks the session up; a stranger is turned away.
StopTranscode(k, c) ==
    /\ step[k] = "ready" /\ Unlocked /\ c \in sessions
    /\ step' = [step EXCEPT ![k] = "lock"]
    /\ victim' = [victim EXCEPT ![k] = c]
    /\ UNCHANGED <<sessions, idle, starting, disk, lock, expired, faults>>

\* Out of the map, and killed: the lock is held until ffmpeg is reaped.
TakeOut(k, c) ==
    /\ sessions' = sessions \ {c} /\ idle' = idle \ {c}
    /\ expired' = expired \ {c}
    /\ lock' = k
    /\ step' = [step EXCEPT ![k] = "kill"]
    /\ victim' = [victim EXCEPT ![k] = c]

StopRemoves(k) ==
    /\ k \in Stops /\ step[k] = "lock" /\ Unlocked
    /\ IF victim[k] \in sessions
       THEN TakeOut(k, victim[k])
       ELSE /\ step' = [step EXCEPT ![k] = "over"]
            /\ UNCHANGED <<sessions, idle, lock, victim, expired>>
    /\ UNCHANGED <<starting, disk, faults>>

\* ffmpeg is dead and the directory removed.
Close(k) ==
    /\ step[k] = "kill"
    /\ ffmpeg' = [ffmpeg EXCEPT ![victim[k]] = "exited"]
    /\ dir' = [dir EXCEPT ![victim[k]] = "none"]

StopCloses(k) ==
    /\ k \in Stops /\ Close(k)
    /\ lock' = Nobody /\ step' = [step EXCEPT ![k] = "over"]
    /\ UNCHANGED <<sessions, idle, starting, victim, expired, faults>>

\* The client of stop hangs up: the signal is sent, the directory stays.
DropStop(k) ==
    /\ Fault /\ step[k] \in {"lock", "kill"} /\ k \in Stops
    /\ step' = [step EXCEPT ![k] = "over"]
    /\ lock' = IF step[k] = "kill" THEN Nobody ELSE lock
    /\ ffmpeg' = IF step[k] = "kill"
                 THEN [ffmpeg EXCEPT ![victim[k]] = "exited"] ELSE ffmpeg
    /\ UNCHANGED <<sessions, idle, starting, dir, victim, expired>>

\* Every 60 s: what is idle now is closed one by one under one lock.
CleanupExpired ==
    /\ step[Cleaner] = "ready" /\ Unlocked /\ idle # {}
    /\ expired' = idle /\ lock' = Cleaner
    /\ step' = [step EXCEPT ![Cleaner] = "lock"]
    /\ UNCHANGED <<sessions, idle, starting, disk, victim, faults>>

CleanupTakes(c) ==
    /\ step[Cleaner] = "lock" /\ c \in expired /\ TakeOut(Cleaner, c)
    /\ UNCHANGED <<starting, disk, faults>>

\* Faulty variant: the sweep ends with the lock still held.
CleanupCloses_KeepsLock ==
    /\ Close(Cleaner)
    /\ step' = [step EXCEPT ![Cleaner] = IF expired = {} THEN "ready" ELSE "lock"]
    /\ UNCHANGED <<sessions, idle, starting, lock, victim, expired, faults>>

CleanupCloses ==
    /\ Close(Cleaner)
    /\ step' = [step EXCEPT ![Cleaner] = IF expired = {} THEN "ready" ELSE "lock"]
    /\ lock' = IF expired = {} THEN Nobody ELSE lock
    /\ UNCHANGED <<sessions, idle, starting, victim, expired, faults>>

-----------------------------------------------------------------------------
StartStep(c) ==
    \/ CountOwn(c) \/ Preflight(c) \/ Spawn(c) \/ PlaylistReady(c)
    \/ StartupFails(c) \/ NextProfile(c) \/ GiveUp(c) \/ StoreSession(c)

CloserStep ==
    \/ \E k \in Stops : StopRemoves(k) \/ StopCloses(k)
    \/ CleanupExpired \/ CleanupCloses \/ \E c \in expired : CleanupTakes(c)

Next ==
    \/ \E c \in Starts :
          \/ Start(c) \/ StartStep(c) \/ DropStart(c)
          \/ FfmpegWrites(c) \/ FfmpegExits(c) \/ GoesIdle(c) \/ TouchSession(c)
          \/ \E k \in Stops : StopTranscode(k, c)
    \/ CloserStep \/ \E k \in Stops : DropStop(k)

Spec == Init /\ [][Next]_vars

\* tokio polls what is ready, deadlines end every wait, SIGKILL works, and its
\* locks are fair: who waits for the map gets it.
FairSpec ==
    /\ Spec
    /\ \A c \in Starts : WF_vars(StartStep(c)) /\ SF_vars(CountOwn(c))
                         /\ SF_vars(StoreSession(c))
    /\ \A k \in Stops : SF_vars(StopRemoves(k)) /\ WF_vars(StopCloses(k))
    /\ SF_vars(CleanupExpired) /\ WF_vars(CleanupCloses)
    /\ WF_vars(\E c \in expired : CleanupTakes(c))

-----------------------------------------------------------------------------
(* What must hold.                                                         *)

Closing(c) == \E k \in Closers : step[k] = "kill" /\ victim[k] = c

\* Calls of start_transcode count in one critical section and insert in another,
\* many awaits later: the limit is exceeded, but by no more than the calls that
\* a user has under way at a time, besides the one that the limit is for.  A
\* channel opened by overlapping calls gets no more sessions than there are calls
\* at a time.  With one call at a time the limit holds and a channel has one
\* session, however stop and clean-up interfere.
LimitsKept ==
    \A c \in Starts :
        /\ Cardinality(SessionsOf(Owner[c])) <= MaxPerUser + Overlap - 1
        /\ Cardinality({d \in sessions : Same(c, d)}) <= Overlap

\* Unless a client hangs up, an ffmpeg that runs is known: to the map, to the
\* call that starts it, or to whoever is closing it; and a directory that
\* nobody knows of is empty.
NothingLeftBehind ==
    faults = 0 =>
        \A c \in Starts : c \notin sessions /\ ~InFlight(c) /\ ~Closing(c) =>
            ffmpeg[c] # "running" /\ dir[c] # "playlist"

\* Whoever gets a session, new or reused, finds its playlist, as long as the
\* session is in the map.
SessionsServed == \A c \in sessions : dir[c] = "playlist"

\* The clean-up never takes a session that has been accessed since it looked:
\* touch_session waits for the lock that cleanup_expired holds.
CleanupSparesWatched ==
    [][\A c \in sessions \ sessions' :
          lock' = Cleaner => c \in idle]_vars

\* Whoever holds the write lock of the map can go on without waiting for anybody:
\* it kills, or the clean-up has more to take.  No circle of waiting is closed,
\* although the lock is held over awaits.
HolderGoesOn ==
    lock # Nobody => step[lock] = "kill" \/ (lock = Cleaner /\ expired # {})

\* How many steps a call has left at most.
StepsLeft == [idle |-> 4, count |-> 3, preflight |-> 2, spawn |-> 1, wait |-> 3,
              kill |-> 2, insert |-> 1, over |-> 0]

Left(c) == 3 * (Profiles - profile[c]) + StepsLeft[pc[c]]

\* A call of start_transcode is over after three steps for each profile and a few
\* more: no failure of a profile, spawn or playlist takes it back to where it was.
StartsAdvance ==
    [][\A c \in Starts : Left(c)' \in Nat
                            /\ (pc'[c] # pc[c] => Left(c)' < Left(c))]_vars

\* Every call of start_transcode returns, however many profiles fail and
\* whoever holds the lock.
StartsReturn == \A c \in Starts : InFlight(c) ~> ~InFlight(c)

\* A session that is not watched any more is closed.
IdleSessionsClose ==
    \A c \in Starts : c \in idle ~> c \notin idle

-----------------------------------------------------------------------------
(* The inductive invariant behind them.                                    *)

\* Who holds the lock is closing a session, or between two of them.
LockShape ==
    /\ lock = Cleaner <=> step[Cleaner] \in {"lock", "kill"}
    /\ \A k \in Stops : lock = k <=> step[k] = "kill"
    /\ expired \subseteq idle /\ (expired # {} => lock = Cleaner)
    /\ \A k \in Closers : step[k] = "kill" =>
          victim[k] \in Starts \ sessions /\ pc[victim[k]] = "over"

\* What a call leaves on disk, and what it finds there.
StartShape ==
    \A c \in Starts :
        /\ c \in sessions => pc[c] = "over" /\ dir[c] = "playlist"
        /\ pc[c] \in {"idle", "count"} => ffmpeg[c] = "none" /\ dir[c] = "none"
        /\ pc[c] = "preflight" => ffmpeg[c] = "none" /\ dir[c] = "empty"
        /\ pc[c] = "spawn" => ffmpeg[c] # "running" /\ profile[c] < Profiles
        /\ pc[c] = "insert" => dir[c] = "playlist"
        /\ pc[c] \in {"idle", "count", "preflight"} => profile[c] = 0

Counted == {"preflight", "spawn", "wait", "kill", "insert"}

\* The sessions a user has or may still get, and those of one channel.
Holding(u) == {c \in Starts : Owner[c] = u /\ (c \in sessions \/ pc[c] \in Counted)}
Opening(c) == {d \in Starts : Same(c, d) /\ (d \in sessions \/ InFlight(d))}

\* What a call has found in the map is outdated by the calls that overlap it, and
\* by no others.
FindingsHold ==
    \A c \in Starts :
        /\ Cardinality(UnderWay(Owner[c])) <= Overlap
        /\ Cardinality(Holding(Owner[c])) <= MaxPerUser + Overlap - 1
        /\ Cardinality(Opening(c)) <= Overlap

PreviewInv ==
    /\ TypeOK /\ LockShape /\ StartShape
    /\ FindingsHold /\ NothingLeftBehind

=============================================================================
