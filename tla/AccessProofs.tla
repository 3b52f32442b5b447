----------------------------- MODULE AccessProofs -----------------------------
(***************************************************************************)
(* Proofs about Access, for any passwords, requests, connections and       *)
(* limits: an accepted token proves the present password, one that is not  *)
(* accepted never is again, and a lock lets pass no attempt that had not   *)
(* passed before it.                                                       *)
(***************************************************************************)
EXTENDS Access, FiniteSetTheorems, TLAPS

USE TimesAssumption, NothingAssumption, ProcessesAssumption

RequestAction(p) ==
    \/ \E w \in Passwords : Login(p, w)
    \/ \E t \in tokens, old, new \in Passwords : ChangePassword(p, t, old, new)
    \/ RequestStep(p) \/ DropRequest(p)

SocketAction(s) ==
    \/ \E t \in tokens : Connect(s, t)
    \/ Disconnect(s) \/ Traffic(s) \/ Recheck(s) \/ RecheckFails(s)

-----------------------------------------------------------------------------
(* The versions of tokens and rows.                                        *)

\* What was true of rows and tokens stays true: the version only grows, and grows
\* with the password.
LEMMA UpToDateStays ==
    ASSUME TypeOK, NEW row \in Users, UpToDate(row),
           \/ user' = user
           \/ user'.version = user.version + 1
    PROVE  UpToDate(row)'
BY DEF TypeOK, UpToDate, Users

\* Every step keeps the inductive invariant.
LEMMA AccessInvStep ==
    ASSUME AccessInv, [Next]_vars PROVE AccessInv'
<1> USE DEF AccessInv, TypeOK, limiter, requests, connections
<1>1. ASSUME NEW p \in Processes, RequestAction(p) PROVE AccessInv'
  <2> USE DEF At, End
  <2>1. ASSUME NEW w \in Passwords, Login(p, w) PROVE AccessInv'
    BY <2>1 DEF Login, UpToDate
  <2>2. ASSUME NEW t \in tokens, NEW old \in Passwords, NEW new \in Passwords,
               ChangePassword(p, t, old, new)
        PROVE AccessInv'
    BY <2>2 DEF ChangePassword, UpToDate
  <2>3. CASE Verify(p)
    BY <2>3 DEF Verify, UpToDate, Users
  <2>4. CASE VerifyFails(p)
    BY <2>4 DEF VerifyFails, UpToDate
  <2>5. CASE RecordSuccess(p)
    BY <2>5 DEF RecordSuccess, UpToDate, Tokens
  <2>6. CASE RecordFailure(p)
    BY <2>6 DEF RecordFailure, UpToDate
  <2>7. CASE VerifyOld(p)
    BY <2>7 DEF VerifyOld, UpToDate
  <2>8. CASE UpdatePassword(p)
    <3>1. user' \in Users /\ user'.version = user.version + 1
      BY <2>8 DEF UpdatePassword, Users
    <3>2. TypeOK'
      BY <2>8, <3>1 DEF UpdatePassword
    <3>3. ASSUME NEW row \in Users, UpToDate(row) PROVE UpToDate(row)'
      BY <3>1, <3>3, UpToDateStays
    <3>4. QED  BY <2>8, <3>2, <3>3 DEF UpdatePassword, Tokens
  <2>9. CASE DropRequest(p)
    BY <2>9 DEF DropRequest, UpToDate
  <2>10. QED
    BY <1>1, <2>1, <2>2, <2>3, <2>4, <2>5, <2>6, <2>7, <2>8, <2>9
       DEF RequestAction, RequestStep
<1>2. ASSUME NEW s \in Sockets, SocketAction(s) PROVE AccessInv'
  <2>1. ASSUME NEW t \in tokens, Connect(s, t) PROVE AccessInv'
    BY <2>1 DEF Connect, UpToDate
  <2>2. CASE Disconnect(s)
    BY <2>2 DEF Disconnect, UpToDate
  <2>3. CASE Traffic(s)
    BY <2>3 DEF Traffic, UpToDate
  <2>4. CASE Recheck(s)
    BY <2>4 DEF Recheck, UpToDate
  <2>5. CASE RecheckFails(s)
    BY <2>5 DEF RecheckFails, UpToDate
  <2>6. QED  BY <1>2, <2>1, <2>2, <2>3, <2>4, <2>5 DEF SocketAction
<1>3. CASE Activity
  BY <1>3 DEF Activity, UpToDate
<1>4. CASE Tick
  BY <1>4 DEF Tick, Due, Locked, UpToDate
<1>5. CASE UNCHANGED vars
  BY <1>5 DEF vars, UpToDate
<1>6. QED
  BY <1>1, <1>2, <1>3, <1>4, <1>5 DEF Next, RequestAction, SocketAction

\* The inductive invariant of Access holds: no token, row in hand or connection
\* carries the present version with another password.
THEOREM AccessInvariant == Spec => []AccessInv
<1>1. Init => AccessInv
  BY DEF Init, AccessInv, TypeOK, Users, UpToDate
<1>2. AccessInv /\ [Next]_vars => AccessInv'
  BY AccessInvStep
<1>3. QED  BY <1>1, <1>2, PTL DEF Spec

\* Whoever holds an accepted token has given the present password (login and
\* change_password overlap in any way).
THEOREM TokensProve == Spec => []TokensProvePassword
<1>1. AccessInv => TokensProvePassword
  BY DEF AccessInv, TokensProvePassword, Accepted, UpToDate
<1>2. QED  BY <1>1, AccessInvariant, PTL

\* A step that sets the password adds one to the version, all others leave the row.
LEMMA VersionStep ==
    ASSUME AccessInv, [Next]_vars
    PROVE  \/ user' = user
           \/ user'.version = user.version + 1 /\ tokens' = tokens
<1> USE DEF limiter, requests, connections
<1>1. ASSUME NEW p \in Processes, UpdatePassword(p)
      PROVE  user'.version = user.version + 1 /\ tokens' = tokens
  BY <1>1 DEF UpdatePassword
<1>2. ASSUME NEW p \in Processes, RequestAction(p), ~UpdatePassword(p)
      PROVE  user' = user
  BY <1>2 DEF RequestAction, RequestStep, Login, ChangePassword, Verify, VerifyFails,
              RecordSuccess, RecordFailure, VerifyOld, DropRequest
<1>3. ASSUME NEW s \in Sockets, SocketAction(s) PROVE user' = user
  BY <1>3 DEF SocketAction, Connect, Disconnect, Traffic, Recheck, RecheckFails
<1>4. Activity \/ Tick \/ UNCHANGED vars => user' = user
  BY DEF Activity, Tick, vars
<1>5. QED
  BY <1>1, <1>2, <1>3, <1>4 DEF Next, RequestAction, SocketAction

\* A change of the password ends every token, and none comes back.
THEOREM RevocationIsFinal == Spec => RevokedForGood
<1>1. ASSUME AccessInv, [Next]_vars
      PROVE  /\ user' # user => \A t \in tokens' : ~Accepted(t)'
             /\ \A t \in tokens : ~Accepted(t) => ~Accepted(t)'
  <2>1. /\ user.version \in Nat
        /\ \A t \in tokens : t.version \in Nat /\ t.version <= user.version
    BY <1>1 DEF AccessInv, TypeOK, UpToDate, Users, Tokens
  <2>2. CASE user' = user
    BY <2>2 DEF Accepted
  <2>3. CASE user'.version = user.version + 1 /\ tokens' = tokens
    BY <2>1, <2>3 DEF Accepted
  <2>4. QED  BY <1>1, <2>2, <2>3, VersionStep
<1>2. QED  BY <1>1, AccessInvariant, PTL DEF Spec, RevokedForGood

-----------------------------------------------------------------------------
(* Attempts under a lock.                                                  *)

\* What is past the check is a finite number of requests.
LEMMA PastCheckFinite ==
    /\ IsFiniteSet(PastCheck) /\ Cardinality(PastCheck) \in Nat
    /\ Cardinality(PastCheck) <= Cardinality(Processes)
<1>1. PastCheck \subseteq Processes
  BY DEF PastCheck
<1>2. QED  BY <1>1, FS_Subset, FS_CardinalityType

\* Nobody who is not past the check gets past it while nothing else changes.
LEMMA StillBounded ==
    ASSUME AccessInv, LateGuessesBounded, late' = late \/ late' = 0,
           Locked' => Locked, PastCheck' \subseteq PastCheck
    PROVE  LateGuessesBounded'
<1>1. Cardinality(PastCheck') \in Nat /\ Cardinality(PastCheck') <= Cardinality(PastCheck)
  BY PastCheckFinite, FS_Subset, FS_CardinalityType
<1>2. late \in Nat /\ Cardinality(Processes) \in Nat
  BY FS_CardinalityType DEF AccessInv, TypeOK
<1>3. QED  BY <1>1, <1>2, PastCheckFinite DEF LateGuessesBounded

\* A failure that is recorded takes its request out of those past the check.
LEMMA FailureBounded ==
    ASSUME AccessInv, LateGuessesBounded, NEW p \in Processes, RecordFailure(p)
    PROVE  LateGuessesBounded'
<1> DEFINE n == Cardinality(PastCheck)
           N == Cardinality(Processes)
<1>1. p \in PastCheck /\ PastCheck' = PastCheck \ {p}
  BY DEF RecordFailure, End, At, PastCheck, AccessInv, TypeOK
<1>2. Cardinality(PastCheck \ {p}) = n - 1
  BY <1>1, PastCheckFinite, FS_RemoveElement
<1>3. n \in Nat /\ N \in Nat /\ n <= N /\ late \in Nat
  BY PastCheckFinite, FS_CardinalityType DEF AccessInv, TypeOK
<1>4. CASE Locked
  BY <1>1, <1>2, <1>3, <1>4 DEF RecordFailure, LateGuessesBounded
<1>5. CASE ~Locked
  BY <1>1, <1>2, <1>3, <1>5 DEF RecordFailure, LateGuessesBounded
<1>6. QED  BY <1>4, <1>5

\* No step lets more attempts through a lock.
LEMMA LateGuessesStep ==
    ASSUME AccessInv, LateGuessesBounded, [Next]_vars PROVE LateGuessesBounded'
<1> USE DEF limiter, requests, connections, PastCheck
<1>1. ASSUME NEW p \in Processes, RequestAction(p) PROVE LateGuessesBounded'
  <2> USE DEF At, End, AccessInv, TypeOK
  <2>1. ASSUME NEW w \in Passwords, Login(p, w) PROVE LateGuessesBounded'
    BY <2>1 DEF Login, LateGuessesBounded, Locked
  <2>2. ASSUME NEW t \in tokens, NEW old \in Passwords, NEW new \in Passwords,
               ChangePassword(p, t, old, new)
        PROVE LateGuessesBounded'
    BY <2>2, StillBounded DEF ChangePassword, Locked
  <2>3. CASE Verify(p)
    BY <2>3, StillBounded DEF Verify, Locked
  <2>4. CASE VerifyFails(p)
    BY <2>4, StillBounded DEF VerifyFails, Locked
  <2>5. CASE RecordSuccess(p)
    BY <2>5 DEF RecordSuccess, LateGuessesBounded, Locked
  <2>6. CASE RecordFailure(p)
    BY <2>6, FailureBounded
  <2>7. CASE VerifyOld(p)
    BY <2>7, StillBounded DEF VerifyOld, Locked
  <2>8. CASE UpdatePassword(p)
    BY <2>8, StillBounded DEF UpdatePassword, Locked
  <2>9. CASE DropRequest(p)
    BY <2>9, StillBounded DEF DropRequest, Locked
  <2>10. QED
    BY <1>1, <2>1, <2>2, <2>3, <2>4, <2>5, <2>6, <2>7, <2>8, <2>9
       DEF RequestAction, RequestStep
<1>2. ASSUME NEW s \in Sockets, SocketAction(s) PROVE LateGuessesBounded'
  BY <1>2, StillBounded
     DEF SocketAction, Connect, Disconnect, Traffic, Recheck, RecheckFails, Locked
<1>3. CASE Activity \/ Tick \/ UNCHANGED vars
  BY <1>3, StillBounded DEF Activity, Tick, Locked, vars, AccessInv, TypeOK
<1>4. QED
  BY <1>1, <1>2, <1>3 DEF Next, RequestAction, SocketAction

\* While a lock is on, only requests that had passed the check before it are
\* counted, each once, however they interleave.
THEOREM LateGuesses == Spec => []LateGuessesBounded
<1>1. Init => LateGuessesBounded
  BY DEF Init, LateGuessesBounded, Locked
<1>2. AccessInv /\ LateGuessesBounded /\ [Next]_vars => LateGuessesBounded'
  BY LateGuessesStep
<1>3. QED  BY <1>1, <1>2, AccessInvariant, PTL DEF Spec

=============================================================================
