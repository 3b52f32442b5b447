-------------------------------- MODULE Access --------------------------------
(***************************************************************************)
(* Who is let in: the login limiter, tokens and their version, changes of  *)
(* the password, and WebSocket connections that look at the version again  *)
(* when they have been silent long enough.                                 *)
(*                                                                         *)
(* One account and one client address: entries of other addresses and rows *)
(* of other users are never touched together with these.  A process is one *)
(* request; it is suspended where the handler awaits the database or the   *)
(* limiter's lock.  Signatures and hashes are external and never fail.     *)
(***************************************************************************)
EXTENDS Naturals, FiniteSets

CONSTANTS
    Passwords,
    Processes,      \* requests
    Sockets,        \* WebSocket connections
    NoToken, NoRow, \* no connection, no row read
    NoPassword,     \* nothing given
    MaxFailures,    \* MAX_FAILURES
    LockTime,       \* LOCK_DURATION, in ticks
    RecheckTime,    \* the sleep of handle_socket, in ticks
    MaxVersion,     \* BOUND: changes of the password
    MaxCount        \* BOUND: failures that are counted

ASSUME TimesAssumption ==
    /\ MaxFailures \in Nat \ {0} /\ LockTime \in Nat \ {0}
    /\ RecheckTime \in Nat \ {0} /\ MaxVersion \in Nat /\ MaxCount \in Nat

ASSUME ProcessesAssumption == IsFiniteSet(Processes)

\* The row of the user; a token carries the version, and to speak about it, the
\* password that was given for it.
Users  == [password : Passwords, version : Nat]
Tokens == Users

ASSUME NothingAssumption ==
    NoToken \notin Tokens /\ NoRow \notin Users /\ NoPassword \notin Passwords

VARIABLES
    user,           \* the row: password_hash and token_version
    tokens,         \* tokens that clients have been given
    count,          \* failures of the address, 0 when it has no entry
    lockLeft,       \* ticks until locked_until, 0 when not locked
    late,           \* failures counted while the lock was on (history)
    pc, given,      \* where a request is, and the password it brings
    seen,           \* the row a login has read
    fresh,          \* the password it is to set
    socket,         \* the token of an open connection
    silent,         \* ticks since the last pass of its loop
    busy            \* do events or messages keep the connections busy

limiter     == <<count, lockLeft, late>>
requests    == <<pc, given, seen, fresh>>
connections == <<socket, silent, busy>>
vars        == <<user, tokens, limiter, requests, connections>>

Init ==
    /\ user \in [password : Passwords, version : {0}]
    /\ tokens = {}
    /\ count = 0 /\ lockLeft = 0 /\ late = 0
    /\ pc = [p \in Processes |-> "idle"]
    /\ given = [p \in Processes |-> NoPassword]
    /\ seen = [p \in Processes |-> NoRow]
    /\ fresh = [p \in Processes |-> NoPassword]
    /\ socket = [s \in Sockets |-> NoToken]
    /\ silent = [s \in Sockets |-> 0]
    /\ busy \in BOOLEAN

\* A request goes on at l; nothing is left of one that has ended.
At(p, l, old, row, new) ==
    /\ pc' = [pc EXCEPT ![p] = l]
    /\ given' = [given EXCEPT ![p] = old]
    /\ seen' = [seen EXCEPT ![p] = row]
    /\ fresh' = [fresh EXCEPT ![p] = new]

End(p) == At(p, "idle", NoPassword, NoRow, NoPassword)

Locked == lockLeft > 0
Accepted(t) == t.version = user.version

-----------------------------------------------------------------------------
(* login                                                                   *)

\* Faulty variant: the limiter is asked for nothing.
Login_Unchecked(p, password) ==
    /\ pc[p] = "idle" /\ At(p, "login", password, NoRow, NoPassword)
    /\ UNCHANGED <<user, tokens, limiter, connections>>

\* LoginRateLimiter::check comes first, once.
Login(p, password) ==
    /\ pc[p] = "idle" /\ ~Locked
    /\ At(p, "login", password, NoRow, NoPassword)
    /\ UNCHANGED <<user, tokens, limiter, connections>>

\* AuthService::login: one query gives hash and version.
Verify(p) ==
    /\ pc[p] = "login"
    /\ IF given[p] = user.password
       THEN At(p, "right", NoPassword, user, NoPassword)
       ELSE At(p, "wrong", NoPassword, NoRow, NoPassword)
    /\ UNCHANGED <<user, tokens, limiter, connections>>

\* A failed query counts as a failed login.
VerifyFails(p) ==
    /\ pc[p] = "login" /\ At(p, "wrong", NoPassword, NoRow, NoPassword)
    /\ UNCHANGED <<user, tokens, limiter, connections>>

\* Faulty variant: the token takes the version from the table as it is now.
RecordSuccess_ReadsAgain(p) ==
    /\ pc[p] = "right" /\ End(p)
    /\ tokens' = tokens \cup {[seen[p] EXCEPT !.version = user.version]}
    /\ count' = 0 /\ lockLeft' = 0 /\ late' = 0
    /\ UNCHANGED <<user, connections>>

\* generate_token has used the row; record_success drops the entry, lock and all.
RecordSuccess(p) ==
    /\ pc[p] = "right" /\ End(p)
    /\ tokens' = tokens \cup {seen[p]}
    /\ count' = 0 /\ lockLeft' = 0 /\ late' = 0
    /\ UNCHANGED <<user, connections>>

\* record_failure.  An entry whose lock has expired counts on from where it was.
RecordFailure(p) ==
    /\ pc[p] = "wrong" /\ End(p)
    /\ count' = IF count < MaxCount THEN count + 1 ELSE count
    /\ lockLeft' = IF count' >= MaxFailures THEN LockTime ELSE lockLeft
    /\ late' = IF Locked THEN late + 1 ELSE 0
    /\ UNCHANGED <<user, tokens, connections>>

-----------------------------------------------------------------------------
(* change_password                                                         *)

\* auth_middleware lets the request in; from here on its token is not looked
\* at again.
ChangePassword(p, t, old, new) ==
    /\ pc[p] = "idle" /\ Accepted(t) /\ At(p, "change", old, NoRow, new)
    /\ UNCHANGED <<user, tokens, limiter, connections>>

\* get_current_user, and the old password against its hash.
VerifyOld(p) ==
    /\ pc[p] = "change"
    /\ IF given[p] = user.password
       THEN At(p, "update", NoPassword, NoRow, fresh[p]) ELSE End(p)
    /\ UNCHANGED <<user, tokens, limiter, connections>>

\* Faulty variant: the old tokens stay valid.
UpdatePassword_KeepsVersion(p) ==
    /\ pc[p] = "update" /\ user.version < MaxVersion /\ End(p)
    /\ user' = [user EXCEPT !.password = fresh[p]]
    /\ UNCHANGED <<tokens, limiter, connections>>

\* One statement sets the hash and adds one to the version of the table.
UpdatePassword(p) ==
    /\ pc[p] = "update" /\ user.version < MaxVersion /\ End(p)
    /\ user' = [password |-> fresh[p], version |-> user.version + 1]
    /\ UNCHANGED <<tokens, limiter, connections>>

\* The client hangs up, or a query errs.
DropRequest(p) ==
    /\ pc[p] # "idle" /\ End(p)
    /\ UNCHANGED <<user, tokens, limiter, connections>>

-----------------------------------------------------------------------------
(* WebSocket connections                                                   *)

\* ws_handler looks at the token, handle_socket starts its loop.
Connect(s, t) ==
    /\ socket[s] = NoToken /\ Accepted(t)
    /\ socket' = [socket EXCEPT ![s] = t]
    /\ silent' = [silent EXCEPT ![s] = 0]
    /\ UNCHANGED <<user, tokens, limiter, requests, busy>>

Disconnect(s) ==
    /\ socket[s] # NoToken
    /\ socket' = [socket EXCEPT ![s] = NoToken]
    /\ silent' = [silent EXCEPT ![s] = 0]
    /\ UNCHANGED <<user, tokens, limiter, requests, busy>>

\* An event or a message ends the select; the next pass sleeps anew.
Traffic(s) ==
    /\ busy /\ socket[s] # NoToken
    /\ silent' = [silent EXCEPT ![s] = 0]
    /\ UNCHANGED <<user, tokens, limiter, requests, socket, busy>>

\* A recording starts or ends: its progress reaches every connection.
Activity ==
    /\ busy' = ~busy
    /\ UNCHANGED <<user, tokens, limiter, requests, socket, silent>>

Due(s) == socket[s] # NoToken /\ silent[s] = RecheckTime

\* Faulty variant: the sleep ends and the loop goes on.
Recheck_Not(s) ==
    /\ Due(s)
    /\ silent' = [silent EXCEPT ![s] = 0]
    /\ UNCHANGED <<user, tokens, limiter, requests, socket, busy>>

\* The sleep has ended: another version in the table, and the socket is closed
\* with 1008.
Recheck(s) ==
    /\ Due(s)
    /\ socket' = [socket EXCEPT ![s] = IF Accepted(@) THEN @ ELSE NoToken]
    /\ silent' = [silent EXCEPT ![s] = 0]
    /\ UNCHANGED <<user, tokens, limiter, requests, busy>>

\* A failed query closes it too.
RecheckFails(s) ==
    /\ Due(s)
    /\ socket' = [socket EXCEPT ![s] = NoToken]
    /\ silent' = [silent EXCEPT ![s] = 0]
    /\ UNCHANGED <<user, tokens, limiter, requests, busy>>

\* Time passes; a timer that has run out is served first.
Tick ==
    /\ \A s \in Sockets : ~Due(s)
    /\ Locked \/ \E s \in Sockets : socket[s] # NoToken
    /\ lockLeft' = IF Locked THEN lockLeft - 1 ELSE 0
    /\ late' = IF lockLeft' = 0 THEN 0 ELSE late
    /\ silent' = [s \in Sockets |-> IF socket[s] = NoToken THEN 0
                                                          ELSE silent[s] + 1]
    /\ UNCHANGED <<user, tokens, count, requests, socket, busy>>

-----------------------------------------------------------------------------
RequestStep(p) ==
    \/ Verify(p) \/ VerifyFails(p) \/ RecordSuccess(p) \/ RecordFailure(p)
    \/ VerifyOld(p) \/ UpdatePassword(p)

Next ==
    \/ \E p \in Processes :
          \/ \E w \in Passwords : Login(p, w)
          \/ \E t \in tokens, old, new \in Passwords :
                ChangePassword(p, t, old, new)
          \/ RequestStep(p) \/ DropRequest(p)
    \/ \E s \in Sockets :
          \/ \E t \in tokens : Connect(s, t)
          \/ Disconnect(s) \/ Traffic(s) \/ Recheck(s) \/ RecheckFails(s)
    \/ Activity \/ Tick

Spec == Init /\ [][Next]_vars

\* Requests are polled, timers run out, and a timer that has run out is served
\* unless something else ends the select first.
FairSpec ==
    /\ Spec
    /\ \A p \in Processes : WF_vars(RequestStep(p))
    /\ \A s \in Sockets : WF_vars(Recheck(s) \/ RecheckFails(s))
    /\ WF_vars(Tick)

-----------------------------------------------------------------------------
(* What must hold.                                                         *)

PastCheck == {p \in Processes : pc[p] \in {"login", "right", "wrong"}}

TypeOK ==
    /\ user \in Users /\ tokens \subseteq Tokens
    /\ count \in Nat /\ lockLeft \in Nat /\ late \in Nat
    /\ pc \in [Processes -> {"idle", "login", "right", "wrong", "change",
                             "update"}]
    /\ given \in [Processes -> Passwords \cup {NoPassword}]
    /\ fresh \in [Processes -> Passwords \cup {NoPassword}]
    /\ seen \in [Processes -> Users \cup {NoRow}]
    /\ socket \in [Sockets -> Tokens \cup {NoToken}]
    /\ silent \in [Sockets -> 0..RecheckTime] /\ busy \in BOOLEAN

\* A row that was read earlier: if its version is the present one, so is its
\* password.
UpToDate(row) ==
    /\ row.version <= user.version
    /\ row.version = user.version => row.password = user.password

\* Whoever holds a token that is accepted has given the password that is valid
\* now: logins overtaken by a change of the password hold a dead token, however
\* many logins and changes overlap (services/auth.rs, login, change_password).
TokensProvePassword ==
    \A t \in tokens : Accepted(t) => t.password = user.password

\* A change of the password ends every token there is, at once and for good:
\* no later change of an overlapping request brings one back, although each sets
\* the version without looking at it (services/auth.rs, change_password).
RevokedForGood ==
    [][/\ user' # user => \A t \in tokens' : ~Accepted(t)'
       /\ \A t \in tokens : ~Accepted(t) => ~Accepted(t)']_vars

\* The inductive invariant behind them.
AccessInv ==
    /\ TypeOK
    /\ \A t \in tokens : UpToDate(t)
    /\ \A p \in Processes :
          /\ seen[p] # NoRow => UpToDate(seen[p])
          /\ pc[p] = "right" => seen[p] # NoRow
          /\ pc[p] \in {"change", "update"} => fresh[p] # NoPassword
    /\ \A s \in Sockets : socket[s] # NoToken => UpToDate(socket[s])

\* A lock stops guessing: while it is on, nothing is counted but attempts that
\* had passed the check before, each of them once (api/rate_limit.rs, check and
\* record_failure are steps of their own).
LateGuessesBounded ==
    Locked => late + Cardinality(PastCheck) < Cardinality(Processes)

\* A connection whose token is no longer accepted is closed, if from some time
\* on nothing keeps the connections busy (api/websocket.rs, handle_socket).
SilentSocketsClose ==
    <>[]~busy => \A s \in Sockets :
        socket[s] # NoToken /\ socket[s].version < user.version
            ~> socket[s] = NoToken

=============================================================================
