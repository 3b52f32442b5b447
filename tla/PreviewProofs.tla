---------------------------- MODULE PreviewProofs ----------------------------
(***************************************************************************)
(* Proofs about PreviewSessions, for any calls, users, channels and        *)
(* limits: what is on disk has an owner, a user exceeds the limit by no     *)
(* more than the calls that overlap, no two calls wait for each other, and *)
(* each call of start_transcode makes a bounded number of steps.           *)
(***************************************************************************)
EXTENDS PreviewSessions, FiniteSetTheorems, TLAPS

USE CallsAssumption, CleanerAssumption, LimitsAssumption

StartAction(c) ==
    \/ Start(c) \/ StartStep(c) \/ DropStart(c)
    \/ FfmpegWrites(c) \/ FfmpegExits(c) \/ GoesIdle(c) \/ TouchSession(c)

StopAction(k) ==
    \/ \E c \in Starts : StopTranscode(k, c)
    \/ StopRemoves(k) \/ StopCloses(k) \/ DropStop(k)

-----------------------------------------------------------------------------
(* The steps, one invariant at a time.                                     *)

\* Every step keeps the types.
LEMMA TypeOKStep ==
    ASSUME TypeOK, LockShape, StartShape, [Next]_vars PROVE TypeOK'
<1> USE DEF TypeOK, Goto, Closers, Unlocked, starting, closing, disk, LockShape, StartShape
<1>1. ASSUME NEW c \in Starts, StartAction(c) PROVE TypeOK'
  <2>1. CASE Start(c)
    BY <2>1 DEF Start
  <2>2. CASE CountOwn(c)
    BY <2>2 DEF CountOwn
  <2>3. CASE Preflight(c)
    BY <2>3 DEF Preflight
  <2>4. CASE Spawn(c)
    BY <2>4 DEF Spawn
  <2>5. CASE PlaylistReady(c)
    BY <2>5 DEF PlaylistReady
  <2>6. CASE StartupFails(c)
    BY <2>6 DEF StartupFails
  <2>7. CASE NextProfile(c)
    BY <2>7 DEF NextProfile
  <2>8. CASE GiveUp(c)
    BY <2>8 DEF GiveUp
  <2>9. CASE StoreSession(c)
    BY <2>9 DEF StoreSession
  <2>10. CASE DropStart(c)
    BY <2>10 DEF DropStart, Fault
  <2>11. CASE FfmpegWrites(c)
    BY <2>11 DEF FfmpegWrites
  <2>12. CASE FfmpegExits(c)
    BY <2>12 DEF FfmpegExits
  <2>13. CASE GoesIdle(c)
    BY <2>13 DEF GoesIdle
  <2>14. CASE TouchSession(c)
    BY <2>14 DEF TouchSession
  <2>15. QED
    BY <1>1, <2>1, <2>2, <2>3, <2>4, <2>5, <2>6, <2>7, <2>8, <2>9, <2>10, <2>11, <2>12, <2>13, <2>14
       DEF StartAction, StartStep
<1>2. ASSUME NEW k \in Stops, StopAction(k) PROVE TypeOK'
  <2>1. ASSUME NEW c \in Starts, StopTranscode(k, c) PROVE TypeOK'
    BY <2>1 DEF StopTranscode
  <2>2. CASE StopRemoves(k)
    BY <2>2 DEF StopRemoves, TakeOut
  <2>3. CASE StopCloses(k)
    BY <2>3 DEF StopCloses, Close
  <2>4. CASE DropStop(k)
    BY <2>4 DEF DropStop, Fault
  <2>5. QED  BY <1>2, <2>1, <2>2, <2>3, <2>4 DEF StopAction
<1>3. CASE CleanupExpired
  BY <1>3 DEF CleanupExpired
<1>4. ASSUME NEW c \in expired, CleanupTakes(c) PROVE TypeOK'
  BY <1>4 DEF CleanupTakes, TakeOut
<1>5. CASE CleanupCloses
  BY <1>5 DEF CleanupCloses, Close
<1>6. CASE UNCHANGED vars
  BY <1>6 DEF vars
<1>7. QED
  BY <1>1, <1>2, <1>3, <1>4, <1>5, <1>6
     DEF Next, CloserStep, StartAction, StartStep, StopAction


\* Every step leaves the lock with whoever is closing a session.
LEMMA LockShapeStep ==
    ASSUME TypeOK, LockShape, StartShape, [Next]_vars PROVE LockShape'
<1> USE DEF TypeOK, Goto, Closers, Unlocked, starting, closing, disk, LockShape, StartShape
<1>1. ASSUME NEW c \in Starts, StartAction(c) PROVE LockShape'
  <2>1. CASE Start(c)
    BY <2>1 DEF Start
  <2>2. CASE CountOwn(c)
    BY <2>2 DEF CountOwn
  <2>3. CASE Preflight(c)
    BY <2>3 DEF Preflight
  <2>4. CASE Spawn(c)
    BY <2>4 DEF Spawn
  <2>5. CASE PlaylistReady(c)
    BY <2>5 DEF PlaylistReady
  <2>6. CASE StartupFails(c)
    BY <2>6 DEF StartupFails
  <2>7. CASE NextProfile(c)
    BY <2>7 DEF NextProfile
  <2>8. CASE GiveUp(c)
    BY <2>8 DEF GiveUp
  <2>9. CASE StoreSession(c)
    BY <2>9 DEF StoreSession
  <2>10. CASE DropStart(c)
    BY <2>10 DEF DropStart, Fault
  <2>11. CASE FfmpegWrites(c)
    BY <2>11 DEF FfmpegWrites
  <2>12. CASE FfmpegExits(c)
    BY <2>12 DEF FfmpegExits
  <2>13. CASE GoesIdle(c)
    BY <2>13 DEF GoesIdle
  <2>14. CASE TouchSession(c)
    BY <2>14 DEF TouchSession
  <2>15. QED
    BY <1>1, <2>1, <2>2, <2>3, <2>4, <2>5, <2>6, <2>7, <2>8, <2>9, <2>10, <2>11, <2>12, <2>13, <2>14
       DEF StartAction, StartStep
<1>2. ASSUME NEW k \in Stops, StopAction(k) PROVE LockShape'
  <2>1. ASSUME NEW c \in Starts, StopTranscode(k, c) PROVE LockShape'
    BY <2>1 DEF StopTranscode
  <2>2. CASE StopRemoves(k)
    BY <2>2 DEF StopRemoves, TakeOut
  <2>3. CASE StopCloses(k)
    BY <2>3 DEF StopCloses, Close
  <2>4. CASE DropStop(k)
    BY <2>4 DEF DropStop, Fault
  <2>5. QED  BY <1>2, <2>1, <2>2, <2>3, <2>4 DEF StopAction
<1>3. CASE CleanupExpired
  BY <1>3 DEF CleanupExpired
<1>4. ASSUME NEW c \in expired, CleanupTakes(c) PROVE LockShape'
  BY <1>4 DEF CleanupTakes, TakeOut
<1>5. CASE CleanupCloses
  BY <1>5 DEF CleanupCloses, Close
<1>6. CASE UNCHANGED vars
  BY <1>6 DEF vars
<1>7. QED
  BY <1>1, <1>2, <1>3, <1>4, <1>5, <1>6
     DEF Next, CloserStep, StartAction, StartStep, StopAction


\* Every step keeps what a call leaves on disk and what it finds there.
LEMMA StartShapeStep ==
    ASSUME TypeOK, LockShape, StartShape, [Next]_vars PROVE StartShape'
<1> USE DEF TypeOK, Goto, Closers, Unlocked, starting, closing, disk, LockShape, StartShape
<1>1. ASSUME NEW c \in Starts, StartAction(c) PROVE StartShape'
  <2>1. CASE Start(c)
    BY <2>1 DEF Start
  <2>2. CASE CountOwn(c)
    BY <2>2 DEF CountOwn
  <2>3. CASE Preflight(c)
    BY <2>3 DEF Preflight
  <2>4. CASE Spawn(c)
    BY <2>4 DEF Spawn
  <2>5. CASE PlaylistReady(c)
    BY <2>5 DEF PlaylistReady
  <2>6. CASE StartupFails(c)
    BY <2>6 DEF StartupFails
  <2>7. CASE NextProfile(c)
    BY <2>7 DEF NextProfile
  <2>8. CASE GiveUp(c)
    BY <2>8 DEF GiveUp
  <2>9. CASE StoreSession(c)
    BY <2>9 DEF StoreSession
  <2>10. CASE DropStart(c)
    BY <2>10 DEF DropStart, Fault
  <2>11. CASE FfmpegWrites(c)
    BY <2>11 DEF FfmpegWrites
  <2>12. CASE FfmpegExits(c)
    BY <2>12 DEF FfmpegExits
  <2>13. CASE GoesIdle(c)
    BY <2>13 DEF GoesIdle
  <2>14. CASE TouchSession(c)
    BY <2>14 DEF TouchSession
  <2>15. QED
    BY <1>1, <2>1, <2>2, <2>3, <2>4, <2>5, <2>6, <2>7, <2>8, <2>9, <2>10, <2>11, <2>12, <2>13, <2>14
       DEF StartAction, StartStep
<1>2. ASSUME NEW k \in Stops, StopAction(k) PROVE StartShape'
  <2>1. ASSUME NEW c \in Starts, StopTranscode(k, c) PROVE StartShape'
    BY <2>1 DEF StopTranscode
  <2>2. CASE StopRemoves(k)
    BY <2>2 DEF StopRemoves, TakeOut
  <2>3. CASE StopCloses(k)
    BY <2>3 DEF StopCloses, Close
  <2>4. CASE DropStop(k)
    BY <2>4 DEF DropStop, Fault
  <2>5. QED  BY <1>2, <2>1, <2>2, <2>3, <2>4 DEF StopAction
<1>3. CASE CleanupExpired
  BY <1>3 DEF CleanupExpired
<1>4. ASSUME NEW c \in expired, CleanupTakes(c) PROVE StartShape'
  BY <1>4 DEF CleanupTakes, TakeOut
<1>5. CASE CleanupCloses
  BY <1>5 DEF CleanupCloses, Close
<1>6. CASE UNCHANGED vars
  BY <1>6 DEF vars
<1>7. QED
  BY <1>1, <1>2, <1>3, <1>4, <1>5, <1>6
     DEF Next, CloserStep, StartAction, StartStep, StopAction


\* No step leaves an ffmpeg or files behind, unless a client hangs up.
LEMMA LeftBehindStep ==
    ASSUME TypeOK, LockShape, StartShape, NothingLeftBehind, [Next]_vars PROVE NothingLeftBehind'
<1> USE DEF TypeOK, Goto, Closers, Unlocked, starting, closing, disk, LockShape, StartShape, NothingLeftBehind, InFlight, Closing
<1>1. ASSUME NEW c \in Starts, StartAction(c) PROVE NothingLeftBehind'
  <2>1. CASE Start(c)
    BY <2>1 DEF Start
  <2>2. CASE CountOwn(c)
    BY <2>2 DEF CountOwn
  <2>3. CASE Preflight(c)
    BY <2>3 DEF Preflight
  <2>4. CASE Spawn(c)
    BY <2>4 DEF Spawn
  <2>5. CASE PlaylistReady(c)
    BY <2>5 DEF PlaylistReady
  <2>6. CASE StartupFails(c)
    BY <2>6 DEF StartupFails
  <2>7. CASE NextProfile(c)
    BY <2>7 DEF NextProfile
  <2>8. CASE GiveUp(c)
    BY <2>8 DEF GiveUp
  <2>9. CASE StoreSession(c)
    BY <2>9 DEF StoreSession
  <2>10. CASE DropStart(c)
    BY <2>10 DEF DropStart, Fault
  <2>11. CASE FfmpegWrites(c)
    BY <2>11 DEF FfmpegWrites
  <2>12. CASE FfmpegExits(c)
    BY <2>12 DEF FfmpegExits
  <2>13. CASE GoesIdle(c)
    BY <2>13 DEF GoesIdle
  <2>14. CASE TouchSession(c)
    BY <2>14 DEF TouchSession
  <2>15. QED
    BY <1>1, <2>1, <2>2, <2>3, <2>4, <2>5, <2>6, <2>7, <2>8, <2>9, <2>10, <2>11, <2>12, <2>13, <2>14
       DEF StartAction, StartStep
<1>2. ASSUME NEW k \in Stops, StopAction(k) PROVE NothingLeftBehind'
  <2>1. ASSUME NEW c \in Starts, StopTranscode(k, c) PROVE NothingLeftBehind'
    BY <2>1 DEF StopTranscode
  <2>2. CASE StopRemoves(k)
    BY <2>2 DEF StopRemoves, TakeOut
  <2>3. CASE StopCloses(k)
    BY <2>3 DEF StopCloses, Close
  <2>4. CASE DropStop(k)
    BY <2>4 DEF DropStop, Fault
  <2>5. QED  BY <1>2, <2>1, <2>2, <2>3, <2>4 DEF StopAction
<1>3. CASE CleanupExpired
  BY <1>3 DEF CleanupExpired
<1>4. ASSUME NEW c \in expired, CleanupTakes(c) PROVE NothingLeftBehind'
  BY <1>4 DEF CleanupTakes, TakeOut
<1>5. CASE CleanupCloses
  BY <1>5 DEF CleanupCloses, Close
<1>6. CASE UNCHANGED vars
  BY <1>6 DEF vars
<1>7. QED
  BY <1>1, <1>2, <1>3, <1>4, <1>5, <1>6
     DEF Next, CloserStep, StartAction, StartStep, StopAction


-----------------------------------------------------------------------------
(* The limits, and by how much calls that overlap exceed them.             *)

\* A part of the calls can be counted, and a part of the part counts no more.
LEMMA CallCount ==
    ASSUME NEW S, S \subseteq Starts, NEW R, R \subseteq S
    PROVE  /\ IsFiniteSet(S) /\ Cardinality(S) \in Nat
           /\ Cardinality(R) \in Nat /\ Cardinality(R) <= Cardinality(S)
<1>1. IsFiniteSet(S)
  BY FS_Subset
<1>2. QED  BY <1>1, FS_Subset, FS_CardinalityType

\* Two parts together count no more than one and the other.
LEMMA CountBoth ==
    ASSUME NEW S, S \subseteq Starts, NEW R, R \subseteq Starts
    PROVE  Cardinality(S \cup R) <= Cardinality(S) + Cardinality(R)
<1>1. IsFiniteSet(S) /\ IsFiniteSet(R) /\ Cardinality(S \cap R) \in Nat
  <2>1. S \cap R \subseteq S
    OBVIOUS
  <2>2. QED  BY <2>1, CallCount
<1>2. Cardinality(S) \in Nat /\ Cardinality(R) \in Nat
  BY CallCount
<1>3. Cardinality(S \cup R)
          = Cardinality(S) + Cardinality(R) - Cardinality(S \cap R)
  BY <1>1, FS_Union
<1>4. QED  BY <1>1, <1>2, <1>3

\* Steps that let no call past a check keep the findings: a session that is
\* stored is one that its call was to get.
LEMMA NobodyPasses ==
    ASSUME FindingsHold,
           \A c \in Starts :
              /\ InFlight(c)' => InFlight(c)
              /\ c \in sessions' \/ InFlight(c)' => c \in sessions \/ InFlight(c)
              /\ c \in sessions' \/ pc'[c] \in Counted
                    => c \in sessions \/ pc[c] \in Counted
    PROVE  FindingsHold'
<1> SUFFICES ASSUME NEW c \in Starts
             PROVE  /\ Cardinality(UnderWay(Owner[c])') <= Overlap
                    /\ Cardinality(Holding(Owner[c])') <= MaxPerUser + Overlap - 1
                    /\ Cardinality(Opening(c)') <= Overlap
  BY DEF FindingsHold
<1>1. /\ Cardinality(UnderWay(Owner[c])) <= Overlap
      /\ Cardinality(Holding(Owner[c])) <= MaxPerUser + Overlap - 1
      /\ Cardinality(Opening(c)) <= Overlap
  BY DEF FindingsHold
<1>2. Cardinality(UnderWay(Owner[c])') <= Overlap
  <2>1. UnderWay(Owner[c])' \subseteq UnderWay(Owner[c])
    BY DEF UnderWay
  <2>2. UnderWay(Owner[c]) \subseteq Starts
    BY DEF UnderWay
  <2>3. QED  BY <1>1, <2>1, <2>2, CallCount
<1>3. Cardinality(Holding(Owner[c])') <= MaxPerUser + Overlap - 1
  <2>1. Holding(Owner[c])' \subseteq Holding(Owner[c])
    BY DEF Holding
  <2>2. Holding(Owner[c]) \subseteq Starts
    BY DEF Holding
  <2>3. QED  BY <1>1, <2>1, <2>2, CallCount
<1>4. Cardinality(Opening(c)') <= Overlap
  <2>1. Opening(c)' \subseteq Opening(c)
    BY DEF Opening, Same
  <2>2. Opening(c) \subseteq Starts
    BY DEF Opening
  <2>3. QED  BY <1>1, <2>1, <2>2, CallCount
<1>5. QED  BY <1>2, <1>3, <1>4

\* A call that begins finds less than Overlap others under way; if it goes on, its
\* channel has no session yet.
LEMMA StartKeepsFindings ==
    ASSUME TypeOK, FindingsHold, NEW c \in Starts, Start(c)
    PROVE  FindingsHold'
<1>1. /\ pc[c] = "idle" /\ sessions' = sessions
      /\ pc'[c] \in {"count", "over"} /\ \A d \in Starts \ {c} : pc'[d] = pc[d]
      /\ Cardinality(UnderWay(Owner[c])) < Overlap
      /\ pc'[c] = "count" => \A d \in sessions : ~Same(c, d)
  BY DEF Start, Goto, TypeOK
<1>2. ASSUME NEW d \in Starts PROVE Cardinality(UnderWay(Owner[d])') <= Overlap
  <2>1. CASE Owner[d] = Owner[c]
    <3> DEFINE U == UnderWay(Owner[c])
    <3>1. U \subseteq Starts
      BY DEF UnderWay
    <3>2. IsFiniteSet(U) /\ Cardinality(U) \in Nat
      BY <3>1, CallCount
    <3>3. U \cup {c} \subseteq Starts /\ UnderWay(Owner[d])' \subseteq U \cup {c}
      BY <1>1, <2>1 DEF UnderWay, InFlight
    <3>4. Cardinality(U \cup {c}) <= Cardinality(U) + 1
      <4> HIDE DEF U
      <4>1. Cardinality(U \cup {c}) = IF c \in U THEN Cardinality(U)
                                                ELSE Cardinality(U) + 1
        BY <3>2, FS_AddElement
      <4>2. QED  BY <3>2, <4>1
    <3>5. Cardinality(U \cup {c}) <= Overlap
      BY <1>1, <3>2, <3>3, <3>4, CallCount
    <3>6. QED  BY <3>3, <3>5, CallCount
  <2>2. CASE Owner[d] # Owner[c]
    <3>1. UnderWay(Owner[d])' \subseteq UnderWay(Owner[d])
      BY <1>1, <2>2 DEF UnderWay, InFlight
    <3>2. UnderWay(Owner[d]) \subseteq Starts
      BY DEF UnderWay
    <3>3. Cardinality(UnderWay(Owner[d])) <= Overlap
      BY DEF FindingsHold
    <3>4. QED  BY <3>1, <3>2, <3>3, CallCount
  <2>3. QED  BY <2>1, <2>2
<1>3. ASSUME NEW d \in Starts
      PROVE  Cardinality(Holding(Owner[d])') <= MaxPerUser + Overlap - 1
  <2>1. Holding(Owner[d])' \subseteq Holding(Owner[d])
    BY <1>1 DEF Holding, Counted
  <2>2. Holding(Owner[d]) \subseteq Starts
    BY DEF Holding
  <2>3. Cardinality(Holding(Owner[d])) <= MaxPerUser + Overlap - 1
    BY DEF FindingsHold
  <2>4. QED  BY <2>1, <2>2, <2>3, CallCount
<1>4. ASSUME NEW d \in Starts PROVE Cardinality(Opening(d)') <= Overlap
  <2>1. CASE Same(d, c) /\ pc'[c] = "count"
    <3>1. Opening(d)' \subseteq UnderWay(Owner[d])'
      BY <1>1, <2>1 DEF Opening, UnderWay, Same
    <3>2. UnderWay(Owner[d])' \subseteq Starts
      BY DEF UnderWay
    <3>3. QED  BY <1>2, <3>1, <3>2, CallCount
  <2>2. CASE ~Same(d, c) \/ pc'[c] = "over"
    <3>1. Opening(d)' \subseteq Opening(d)
      BY <1>1, <2>2 DEF Opening, InFlight, Same
    <3>2. Opening(d) \subseteq Starts
      BY DEF Opening
    <3>3. Cardinality(Opening(d)) <= Overlap
      BY DEF FindingsHold
    <3>4. QED  BY <3>1, <3>2, <3>3, CallCount
  <2>3. QED  BY <1>1, <2>1, <2>2
<1>5. QED  BY <1>2, <1>3, <1>4 DEF FindingsHold

\* A call that passes the count sees fewer sessions than the limit; besides them
\* the user gets at most what is under way.
LEMMA CountKeepsFindings ==
    ASSUME TypeOK, FindingsHold, NEW c \in Starts, CountOwn(c)
    PROVE  FindingsHold'
<1>1. /\ sessions' = sessions /\ InFlight(c)
      /\ \A d \in Starts \ {c} : pc'[d] = pc[d]
      /\ SessionsOf(Owner[c]) \subseteq Starts
  BY DEF CountOwn, Goto, TypeOK, InFlight, SessionsOf
<1>2. Cardinality(SessionsOf(Owner[c])) \in Nat
  BY <1>1, CallCount
<1>3. \A d \in Starts : InFlight(d)' => InFlight(d)
  BY <1>1 DEF InFlight
<1>4. CASE Cardinality(SessionsOf(Owner[c])) >= MaxPerUser
  <2>1. pc'[c] = "over"
    BY <1>4 DEF CountOwn, Goto, TypeOK
  <2>2. QED  BY <1>1, <1>3, <2>1, NobodyPasses DEF Counted
<1>5. CASE Cardinality(SessionsOf(Owner[c])) < MaxPerUser
  <2>1. ASSUME NEW d \in Starts PROVE Cardinality(UnderWay(Owner[d])') <= Overlap
    <3>1. UnderWay(Owner[d])' \subseteq UnderWay(Owner[d])
      BY <1>3 DEF UnderWay
    <3>2. UnderWay(Owner[d]) \subseteq Starts
      BY DEF UnderWay
    <3>3. Cardinality(UnderWay(Owner[d])) <= Overlap
      BY DEF FindingsHold
    <3>4. QED  BY <3>1, <3>2, <3>3, CallCount
  <2>2. ASSUME NEW d \in Starts
        PROVE  Cardinality(Holding(Owner[d])') <= MaxPerUser + Overlap - 1
    <3>1. CASE Owner[d] = Owner[c]
      <4> DEFINE A == SessionsOf(Owner[c])   B == UnderWay(Owner[c])
      <4>1. A \subseteq Starts /\ B \subseteq Starts
        BY <1>1 DEF UnderWay
      <4>2. Cardinality(A) \in Nat /\ Cardinality(B) \in Nat
        BY <4>1, CallCount
      <4>3. Cardinality(B) <= Overlap
        BY DEF FindingsHold
      <4>4. Holding(Owner[d])' \subseteq A \cup B
        BY <1>1, <1>3, <3>1 DEF Holding, SessionsOf, UnderWay, InFlight, Counted
      <4>5. Cardinality(A \cup B) <= Cardinality(A) + Cardinality(B)
        BY <4>1, CountBoth
      <4>6. /\ Cardinality(A \cup B) \in Nat
            /\ Cardinality(Holding(Owner[d])') \in Nat
            /\ Cardinality(Holding(Owner[d])') <= Cardinality(A \cup B)
        BY <4>1, <4>4, CallCount
      <4>7. QED  BY <1>5, <4>2, <4>3, <4>5, <4>6
    <3>2. CASE Owner[d] # Owner[c]
      <4>1. Holding(Owner[d])' \subseteq Holding(Owner[d])
        BY <1>1, <3>2 DEF Holding
      <4>2. Holding(Owner[d]) \subseteq Starts
        BY DEF Holding
      <4>3. Cardinality(Holding(Owner[d])) <= MaxPerUser + Overlap - 1
        BY DEF FindingsHold
      <4>4. QED  BY <4>1, <4>2, <4>3, CallCount
    <3>3. QED  BY <3>1, <3>2
  <2>3. ASSUME NEW d \in Starts PROVE Cardinality(Opening(d)') <= Overlap
    <3>1. Opening(d)' \subseteq Opening(d)
      BY <1>1, <1>3 DEF Opening, Same
    <3>2. Opening(d) \subseteq Starts
      BY DEF Opening
    <3>3. Cardinality(Opening(d)) <= Overlap
      BY DEF FindingsHold
    <3>4. QED  BY <3>1, <3>2, <3>3, CallCount
  <2>4. QED  BY <2>1, <2>2, <2>3 DEF FindingsHold
<1>6. QED  BY <1>2, <1>4, <1>5

\* Every step keeps what the calls have found.
LEMMA FindingsStep ==
    ASSUME TypeOK, LockShape, StartShape, FindingsHold, [Next]_vars
    PROVE  FindingsHold'
<1>1. ASSUME NEW c \in Starts, Start(c) PROVE FindingsHold'
  BY <1>1, StartKeepsFindings
<1>2. ASSUME NEW c \in Starts, CountOwn(c) PROVE FindingsHold'
  BY <1>2, CountKeepsFindings
<1>3. ASSUME NEW c \in Starts, StoreSession(c) PROVE FindingsHold'
  <2>1. /\ pc[c] = "insert" /\ pc'[c] = "over" /\ sessions' = sessions \cup {c}
        /\ \A d \in Starts \ {c} : pc'[d] = pc[d]
    BY <1>3 DEF StoreSession, Goto, TypeOK
  <2>2. QED  BY <2>1, NobodyPasses DEF InFlight, Counted
<1>4. ASSUME NEW c \in Starts,
             StartAction(c), ~Start(c), ~CountOwn(c), ~StoreSession(c)
      PROVE  FindingsHold'
  <2>1. sessions' = sessions
    BY <1>4 DEF StartAction, StartStep, Preflight, Spawn, PlaylistReady,
                StartupFails, NextProfile, GiveUp, DropStart, FfmpegWrites,
                FfmpegExits, GoesIdle, TouchSession
  <2>2. pc' = pc \/ /\ pc' = [pc EXCEPT ![c] = pc'[c]] /\ InFlight(c)
                    /\ pc'[c] \in Counted => pc[c] \in Counted
    BY <1>4 DEF StartAction, StartStep, Preflight, Spawn, PlaylistReady,
                StartupFails, NextProfile, GiveUp, DropStart, FfmpegWrites,
                FfmpegExits, GoesIdle, TouchSession, Goto, starting, TypeOK,
                InFlight, Counted
  <2>3. \A d \in Starts : /\ InFlight(d)' => InFlight(d)
                          /\ pc'[d] \in Counted => pc[d] \in Counted
    BY <2>2 DEF InFlight, TypeOK
  <2>4. QED  BY <2>1, <2>3, NobodyPasses
<1>5. ASSUME \/ \E k \in Stops : StopAction(k)
             \/ CleanupExpired \/ CleanupCloses
             \/ \E c \in expired : CleanupTakes(c)
             \/ UNCHANGED vars
      PROVE  FindingsHold'
  <2>1. sessions' \subseteq sessions /\ pc' = pc
    BY <1>5 DEF StopAction, StopTranscode, StopRemoves, StopCloses, DropStop,
                TakeOut, CleanupExpired, CleanupCloses, CleanupTakes, starting,
                vars
  <2>2. QED  BY <2>1, NobodyPasses DEF InFlight
<1>6. QED
  BY <1>1, <1>2, <1>3, <1>4, <1>5
     DEF Next, CloserStep, StartAction, StartStep, StopAction

-----------------------------------------------------------------------------
(* The theorems.                                                           *)

\* PreviewInv is inductive, and holds in every run.
THEOREM PreviewInvariant == Spec => []PreviewInv
<1>1. Init => PreviewInv
  <2> SUFFICES ASSUME Init PROVE PreviewInv
    OBVIOUS
  <2>1. TypeOK /\ LockShape /\ StartShape /\ NothingLeftBehind
    BY DEF Init, TypeOK, LockShape, StartShape, NothingLeftBehind, Closers
  <2>2. FindingsHold
    <3>1. \A c \in Starts : /\ UnderWay(Owner[c]) = {} /\ Holding(Owner[c]) = {}
                            /\ Opening(c) = {}
      BY DEF Init, UnderWay, Holding, Opening, InFlight, Counted
    <3>2. Cardinality({}) = 0
      BY FS_EmptySet
    <3>3. 0 <= Overlap /\ 0 <= MaxPerUser + Overlap - 1
      OBVIOUS
    <3>4. SUFFICES ASSUME NEW c \in Starts
                   PROVE  /\ Cardinality(UnderWay(Owner[c])) = 0
                          /\ Cardinality(Holding(Owner[c])) = 0
                          /\ Cardinality(Opening(c)) = 0
      BY <3>3 DEF FindingsHold
    <3>5. QED  BY <3>1, <3>2
  <2>3. QED  BY <2>1, <2>2 DEF PreviewInv
<1>2. PreviewInv /\ [Next]_vars => PreviewInv'
  <2> SUFFICES ASSUME PreviewInv, [Next]_vars PROVE PreviewInv'
    OBVIOUS
  <2>1. TypeOK' /\ LockShape' /\ StartShape' /\ NothingLeftBehind'
    BY TypeOKStep, LockShapeStep, StartShapeStep, LeftBehindStep DEF PreviewInv
  <2>2. FindingsHold'
    BY FindingsStep DEF PreviewInv
  <2>3. QED  BY <2>1, <2>2 DEF PreviewInv
<1>3. QED  BY <1>1, <1>2, PTL DEF Spec

\* However many calls a user has under way at a time, each besides the first
\* exceeds the limit by at most one session, and a channel has at most one session
\* for each (start_transcode).
THEOREM LimitsHold == Spec => []LimitsKept
<1>1. PreviewInv => LimitsKept
  <2> SUFFICES ASSUME PreviewInv, NEW c \in Starts
               PROVE  /\ Cardinality(SessionsOf(Owner[c])) <= MaxPerUser + Overlap - 1
                      /\ Cardinality({d \in sessions : Same(c, d)}) <= Overlap
    BY DEF LimitsKept
  <2>1. /\ Cardinality(Holding(Owner[c])) <= MaxPerUser + Overlap - 1
        /\ Cardinality(Opening(c)) <= Overlap
    BY DEF PreviewInv, FindingsHold
  <2>2. Holding(Owner[c]) \subseteq Starts /\ Opening(c) \subseteq Starts
    BY DEF Holding, Opening
  <2>3. /\ SessionsOf(Owner[c]) \subseteq Holding(Owner[c])
        /\ {d \in sessions : Same(c, d)} \subseteq Opening(c)
    BY DEF PreviewInv, TypeOK, SessionsOf, Holding, Opening
  <2>4. Cardinality(SessionsOf(Owner[c])) <= MaxPerUser + Overlap - 1
    BY <2>1, <2>2, <2>3, CallCount
  <2>5. Cardinality({d \in sessions : Same(c, d)}) <= Overlap
    BY <2>1, <2>2, <2>3, CallCount
  <2>6. QED  BY <2>4, <2>5
<1>2. QED  BY <1>1, PreviewInvariant, PTL

\* Unless a client hangs up, every ffmpeg that runs and every playlist on disk
\* has an owner who will end it (start_transcode, stop_transcode, cleanup).
THEOREM NothingIsLeftBehind == Spec => []NothingLeftBehind
  BY PreviewInvariant, PTL DEF PreviewInv

\* A session in the map has its playlist on disk.
THEOREM SessionsAreServed == Spec => []SessionsServed
<1>1. PreviewInv => SessionsServed
  BY DEF PreviewInv, StartShape, SessionsServed, TypeOK
<1>2. QED  BY <1>1, PreviewInvariant, PTL

\* The clean-up takes only sessions that are idle when it takes them.
THEOREM WatchedAreSpared == Spec => CleanupSparesWatched
<1>1. ASSUME PreviewInv, [Next]_vars
      PROVE  [\A c \in sessions \ sessions' : lock' = Cleaner => c \in idle]_vars
  <2> SUFFICES ASSUME Next, NEW c \in sessions, c \notin sessions', lock' = Cleaner
               PROVE  c \in idle
    BY <1>1
  <2> USE DEF PreviewInv, LockShape, TypeOK, Closers
  <2>1. CASE \E d \in Starts : StartAction(d)
    BY <2>1 DEF StartAction, StartStep, Start, CountOwn, Preflight, Spawn,
                PlaylistReady, StartupFails, NextProfile, GiveUp, StoreSession,
                DropStart, FfmpegWrites, FfmpegExits, GoesIdle, TouchSession
  <2>2. ASSUME NEW k \in Stops, StopAction(k) PROVE c \in idle
    BY <1>1, <2>2 DEF StopAction, StopTranscode, StopRemoves, StopCloses, DropStop,
                TakeOut
  <2>3. CASE CleanupExpired \/ CleanupCloses
    BY <2>3 DEF CleanupExpired, CleanupCloses
  <2>4. ASSUME NEW d \in expired, CleanupTakes(d) PROVE c \in idle
    BY <1>1, <2>4 DEF CleanupTakes, TakeOut
  <2>5. QED
    BY <2>1, <2>2, <2>3, <2>4
       DEF Next, CloserStep, StartAction, StartStep, StopAction
<1>2. QED  BY <1>1, PreviewInvariant, PTL DEF Spec, CleanupSparesWatched

-----------------------------------------------------------------------------
(* Why calls return.  That they do needs fairness, and is checked by TLC;  *)
(* here is what it rests on: no circle of waiting, and no endless loop.    *)

\* Every step leaves the lock with one who can go on.
LEMMA HolderStep ==
    ASSUME TypeOK, LockShape, HolderGoesOn, [Next]_vars PROVE HolderGoesOn'
<1> USE DEF TypeOK, LockShape, HolderGoesOn, Closers, Unlocked, closing
<1>1. ASSUME NEW c \in Starts, StartAction(c) PROVE HolderGoesOn'
  BY <1>1 DEF StartAction, StartStep, Start, CountOwn, Preflight, Spawn,
              PlaylistReady, StartupFails, NextProfile, GiveUp, StoreSession,
              DropStart, FfmpegWrites, FfmpegExits, GoesIdle, TouchSession
<1>2. ASSUME NEW k \in Stops, StopAction(k) PROVE HolderGoesOn'
  <2>1. ASSUME NEW c \in Starts, StopTranscode(k, c) PROVE HolderGoesOn'
    BY <2>1 DEF StopTranscode
  <2>2. CASE StopRemoves(k)
    BY <2>2 DEF StopRemoves, TakeOut
  <2>3. CASE StopCloses(k)
    BY <2>3 DEF StopCloses, Close
  <2>4. CASE DropStop(k)
    BY <2>4 DEF DropStop, Fault
  <2>5. QED  BY <1>2, <2>1, <2>2, <2>3, <2>4 DEF StopAction
<1>3. CASE CleanupExpired
  BY <1>3 DEF CleanupExpired
<1>4. ASSUME NEW c \in expired, CleanupTakes(c) PROVE HolderGoesOn'
  BY <1>4 DEF CleanupTakes, TakeOut
<1>5. CASE CleanupCloses
  BY <1>5 DEF CleanupCloses, Close
<1>6. CASE UNCHANGED vars
  BY <1>6 DEF vars
<1>7. QED
  BY <1>1, <1>2, <1>3, <1>4, <1>5, <1>6
     DEF Next, CloserStep, StartAction, StartStep, StopAction

\* Whoever waits for the map waits for somebody who can go on (stop_transcode,
\* cleanup_expired).
THEOREM NoCircleOfWaiting == Spec => []HolderGoesOn
<1>1. Init => HolderGoesOn
  BY DEF Init, HolderGoesOn
<1>2. PreviewInv /\ HolderGoesOn /\ [Next]_vars => HolderGoesOn'
  BY HolderStep DEF PreviewInv
<1>3. QED  BY <1>1, <1>2, PreviewInvariant, PTL DEF Spec

\* What the steps of a call do to where it stands.
LEMMA CallMoves ==
    ASSUME TypeOK, LockShape, StartShape, [Next]_vars, NEW c \in Starts
    PROVE  \/ pc'[c] = pc[c] /\ profile'[c] = profile[c]
           \/ /\ profile'[c] = profile[c]
              /\ StepsLeft[pc'[c]] < StepsLeft[pc[c]]
           \/ /\ pc[c] = "kill" /\ pc'[c] = "spawn"
              /\ profile'[c] = profile[c]
           \/ /\ pc[c] = "spawn" /\ pc'[c] \in {"wait", "over"}
              /\ profile'[c] = profile[c] + 1
<1> USE DEF TypeOK, StepsLeft
<1>1. ASSUME NEW d \in Starts, StartAction(d)
      PROVE  \/ pc'[c] = pc[c] /\ profile'[c] = profile[c]
             \/ /\ profile'[c] = profile[c]
                /\ StepsLeft[pc'[c]] < StepsLeft[pc[c]]
             \/ /\ pc[c] = "kill" /\ pc'[c] = "spawn"
                /\ profile'[c] = profile[c]
             \/ /\ pc[c] = "spawn" /\ pc'[c] \in {"wait", "over"}
                /\ profile'[c] = profile[c] + 1
  <2> USE DEF Goto
  <2>1. CASE Start(d) \/ CountOwn(d) \/ Preflight(d)
    BY <2>1 DEF Start, CountOwn, Preflight
  <2>2. CASE Spawn(d)
    BY <2>2 DEF Spawn
  <2>3. CASE PlaylistReady(d) \/ StartupFails(d)
    BY <2>3 DEF PlaylistReady, StartupFails
  <2>4. CASE NextProfile(d)
    BY <2>4 DEF NextProfile
  <2>5. CASE GiveUp(d) \/ StoreSession(d)
    BY <2>5 DEF GiveUp, StoreSession
  <2>6. CASE DropStart(d)
    BY <2>6 DEF DropStart, InFlight
  <2>7. CASE FfmpegWrites(d) \/ FfmpegExits(d) \/ GoesIdle(d) \/ TouchSession(d)
    BY <2>7 DEF FfmpegWrites, FfmpegExits, GoesIdle, TouchSession, starting
  <2>8. QED  BY <1>1, <2>1, <2>2, <2>3, <2>4, <2>5, <2>6, <2>7 DEF StartAction, StartStep
<1>2. ASSUME \/ \E k \in Stops : StopAction(k)
             \/ CleanupExpired \/ CleanupCloses \/ \E d \in expired : CleanupTakes(d)
             \/ UNCHANGED vars
      PROVE  pc'[c] = pc[c] /\ profile'[c] = profile[c]
  BY <1>2 DEF StopAction, StopTranscode, StopRemoves, StopCloses, DropStop,
              CleanupExpired, CleanupTakes, CleanupCloses, starting, vars
<1>3. QED
  BY <1>1, <1>2 DEF Next, CloserStep, StartAction, StartStep, StopAction

\* A call of start_transcode makes a bounded number of steps, whatever fails.
THEOREM StartsAreBounded == Spec => StartsAdvance
<1>1. ASSUME PreviewInv, PreviewInv', [Next]_vars, NEW c \in Starts
      PROVE  Left(c)' \in Nat /\ (pc'[c] # pc[c] => Left(c)' < Left(c))
  <2>1. TypeOK /\ LockShape /\ StartShape /\ TypeOK'
    BY <1>1 DEF PreviewInv
  <2>2. /\ profile[c] \in 0..Profiles /\ profile'[c] \in 0..Profiles
        /\ StepsLeft[pc[c]] \in 0..4 /\ StepsLeft[pc'[c]] \in 0..4
    BY <2>1 DEF TypeOK, StepsLeft
  <2>3. Left(c)' \in Nat
    BY <2>2 DEF Left
  <2>4. \/ pc'[c] = pc[c]
        \/ profile'[c] = profile[c] /\ StepsLeft[pc'[c]] < StepsLeft[pc[c]]
        \/ /\ profile'[c] = profile[c] + 1
           /\ StepsLeft[pc[c]] = 1 /\ StepsLeft[pc'[c]] \in {0, 3}
    <3>1. pc[c] = "kill" /\ pc'[c] = "spawn" => StepsLeft[pc'[c]] < StepsLeft[pc[c]]
      BY DEF StepsLeft
    <3>2. pc[c] = "spawn" => StepsLeft[pc[c]] = 1
      BY DEF StepsLeft
    <3>3. pc'[c] \in {"wait", "over"} => StepsLeft[pc'[c]] \in {0, 3}
      BY DEF StepsLeft
    <3>4. QED  BY <1>1, <2>1, <3>1, <3>2, <3>3, CallMoves
  <2>5. CASE profile'[c] = profile[c] /\ StepsLeft[pc'[c]] < StepsLeft[pc[c]]
    BY <2>2, <2>5 DEF Left
  <2>6. CASE /\ profile'[c] = profile[c] + 1
             /\ StepsLeft[pc[c]] = 1 /\ StepsLeft[pc'[c]] \in {0, 3}
    BY <2>2, <2>6 DEF Left
  <2>7. QED  BY <2>3, <2>4, <2>5, <2>6
<1>2. ASSUME PreviewInv, PreviewInv', [Next]_vars
      PROVE  [\A c \in Starts : Left(c)' \in Nat
                                   /\ (pc'[c] # pc[c] => Left(c)' < Left(c))]_vars
  BY <1>1, <1>2
<1>3. QED  BY <1>2, PreviewInvariant, PTL DEF Spec, StartsAdvance

=============================================================================
