------------------------------ MODULE EventFeed ------------------------------
(***************************************************************************)
(* How a browser that shows the list of tasks follows their ends: the      *)
(* event bus, the sockets it is forwarded on, the client that reconnects,  *)
(* and its cache of the list, which events patch and fetches replace.      *)
(*                                                                         *)
(* One browser with one list.  TanStack Query is external: a query that is *)
(* invalidated gives up the fetch under way and starts another; an answer  *)
(* replaces the list.  A socket is used again after its onclose has run.   *)
(***************************************************************************)
EXTENDS Naturals, Sequences, FiniteSets

CONSTANTS
    Tasks, Sockets,
    Capacity,           \* of the broadcast channel (1000 in the code)
    MaxFaults,          \* BOUND: fetches that fail
    Progress,           \* an event that says a task goes on
    NoSocket, NoFetch, Asked

ASSUME FeedAssumption ==
    /\ Capacity \in Nat \ {0} /\ MaxFaults \in Nat
    /\ Progress \notin Tasks /\ NoSocket \notin Sockets

Statuses == {"none", "running", "over"}
Lists    == [Tasks -> Statuses]

ASSUME NoFetchAssumption == NoFetch # Asked /\ {NoFetch, Asked} \cap Lists = {}

VARIABLES
    rows,           \* the status of each task, over whatever its end
    heard,          \* tasks whose monitor has an event sender
    unsent,         \* tasks whose end is written and not announced
    queue,          \* what each socket's receiver has not forwarded
    subscribed,     \* sockets whose handler has subscribed
    socket,         \* each WebSocket object, as the browser sees it
    ws,             \* this.ws
    wanted,         \* shouldReconnect
    timer,          \* is the timer of reconnectTimer running
    stray,          \* is one running whose handle was overwritten
    online,         \* is connectionState connected
    signedIn,
    list,           \* the cache
    fetch,          \* the fetch under way: asked, or the answer on its way
    sent,           \* ends that were announced (history)
    lost,           \* ends that did not arrive since a connection opened (history)
    faults

server  == <<rows, heard, unsent>>
feed    == <<queue, subscribed>>
client  == <<socket, ws, wanted, timer, stray, online, signedIn>>
cache   == <<list, fetch>>
history == <<sent, lost, faults>>
vars    == <<server, feed, client, cache, history>>

Init ==
    /\ rows = [t \in Tasks |-> "none"] /\ heard = {} /\ unsent = {}
    /\ queue = [s \in Sockets |-> <<>>] /\ subscribed = {}
    /\ socket = [s \in Sockets |-> "none"] /\ ws = NoSocket
    /\ wanted = FALSE /\ timer = FALSE /\ stray = FALSE
    /\ online = FALSE /\ signedIn = FALSE
    /\ list = [t \in Tasks |-> "none"] /\ fetch = NoFetch
    /\ sent = {} /\ lost = {} /\ faults = 0

Alive(s) == socket[s] \in {"connecting", "open"}

-----------------------------------------------------------------------------
(* Tasks and their events.                                                 *)

\* No event tells of a start.  A request passes an event sender to start_manual, a
\* job of the scheduler does not.
Begin(t) ==
    /\ rows[t] = "none" /\ rows' = [rows EXCEPT ![t] = "running"]
    /\ heard' \in {heard, heard \cup {t}}
    /\ UNCHANGED <<unsent, feed, client, cache, history>>

\* The monitor writes the row and then announces it, if it has a sender.
End(t) ==
    /\ rows[t] = "running" /\ rows' = [rows EXCEPT ![t] = "over"]
    /\ unsent' = unsent \cup ({t} \cap heard)
    /\ UNCHANGED <<heard, feed, client, cache, history>>

\* The inspector does, whoever started the task.
Inspect(t) ==
    /\ rows[t] = "running" /\ rows' = [rows EXCEPT ![t] = "over"]
    /\ unsent' = unsent \cup {t}
    /\ UNCHANGED <<heard, feed, client, cache, history>>

\* cancel_task writes the row and announces nothing; nor does the monitor, which
\* finds the row no longer running.
Cancel(t) ==
    /\ rows[t] = "running" /\ rows' = [rows EXCEPT ![t] = "over"]
    /\ UNCHANGED <<heard, unsent, feed, client, cache, history>>

Held(s) == {queue[s][i] : i \in DOMAIN queue[s]} \ {Progress}

\* The channel keeps its last Capacity events; a receiver behind them loses the
\* oldest, Lagged is logged.
Pushed(s, e) == IF s \notin subscribed THEN queue[s]
                ELSE IF Len(queue[s]) < Capacity THEN Append(queue[s], e)
                ELSE Append(Tail(queue[s]), e)

Dropped(s) == IF s \in subscribed /\ Len(queue[s]) = Capacity
              THEN {Head(queue[s])} \ {Progress} ELSE {}

Push(e) ==
    /\ queue' = [s \in Sockets |-> Pushed(s, e)]
    /\ UNCHANGED subscribed

DroppedBy == UNION {Dropped(s) : s \in Sockets}

Announce(t) ==
    /\ t \in unsent /\ unsent' = unsent \ {t} /\ Push(t)
    /\ sent' = sent \cup {t}
    /\ lost' = lost \cup DroppedBy \cup (IF subscribed = {} THEN {t} ELSE {})
    /\ UNCHANGED <<rows, heard, client, cache, faults>>

\* Monitors with a sender report progress every 3 s.
Report ==
    /\ \E t \in heard : rows[t] = "running"
    /\ Push(Progress) /\ lost' = lost \cup DroppedBy
    /\ UNCHANGED <<server, client, cache, sent, faults>>

-----------------------------------------------------------------------------
(* The cache.                                                              *)

Invalidate == fetch' = Asked

\* Faulty variant: a fetch under way goes on.
Deliver_KeepsFetch(s) ==
    /\ socket[s] = "open" /\ queue[s] # <<>>
    /\ queue' = [queue EXCEPT ![s] = Tail(@)]
    /\ IF Head(queue[s]) = Progress THEN UNCHANGED cache
       ELSE /\ list' = [t \in Tasks |-> IF t = Head(queue[s]) /\ list[t] # "none"
                                        THEN "over" ELSE list[t]]
            /\ fetch' = IF fetch = NoFetch THEN Asked ELSE fetch
    /\ UNCHANGED <<server, subscribed, client, history>>

\* onmessage.  Progress changes no status, and to the list as a whole it always
\* counts as a change, so that nothing is fetched for it.
Deliver(s) ==
    /\ socket[s] = "open" /\ queue[s] # <<>>
    /\ queue' = [queue EXCEPT ![s] = Tail(@)]
    /\ IF Head(queue[s]) = Progress THEN UNCHANGED cache
       ELSE /\ list' = [t \in Tasks |-> IF t = Head(queue[s]) /\ list[t] # "none"
                                        THEN "over" ELSE list[t]]
            /\ Invalidate
    /\ UNCHANGED <<server, subscribed, client, history>>

\* The database is read.
Answer ==
    /\ fetch = Asked /\ fetch' = rows
    /\ UNCHANGED <<server, feed, client, list, history>>

Show ==
    /\ fetch \in Lists /\ list' = fetch /\ fetch' = NoFetch
    /\ UNCHANGED <<server, feed, client, history>>

\* The fetch and its retry fail: what it was to bring will not come by itself.
FetchFails ==
    /\ fetch # NoFetch /\ fetch' = NoFetch
    /\ faults < MaxFaults /\ faults' = faults + 1
    /\ lost' = lost \cup {t \in Tasks : rows[t] = "over"}
    /\ UNCHANGED <<server, feed, client, list, sent>>

\* Faulty variant: only an empty list is fetched again.
Poll_Empty ==
    /\ fetch = NoFetch /\ \A t \in Tasks : list[t] = "none"
    /\ Invalidate
    /\ UNCHANGED <<server, feed, client, list, history>>

\* refetchInterval: every 3 s while a task in the list is running.
Poll ==
    /\ fetch = NoFetch /\ \E t \in Tasks : list[t] = "running"
    /\ Invalidate
    /\ UNCHANGED <<server, feed, client, list, history>>

-----------------------------------------------------------------------------
(* The socket on the server.                                               *)

\* The handler has sent its welcome and subscribes; the browser may or may not
\* have seen the connection open.
Subscribe(s) ==
    /\ Alive(s) /\ s \notin subscribed
    /\ subscribed' = subscribed \cup {s}
    /\ UNCHANGED <<server, queue, client, cache, history>>

\* The connection ends on either side, with what is on its way.
Cut(s, how) ==
    /\ socket' = [socket EXCEPT ![s] = how]
    /\ queue' = [queue EXCEPT ![s] = <<>>]
    /\ subscribed' = subscribed \ {s}
    /\ lost' = lost \cup Held(s)

Drop(s) ==
    /\ Alive(s) /\ Cut(s, "closed")
    /\ UNCHANGED <<server, ws, wanted, timer, stray, online, signedIn, cache, sent, faults>>

\* handle_socket closes with 1008: the token is no longer accepted.
Revoke(s) ==
    /\ socket[s] = "open" /\ Cut(s, "revoked")
    /\ UNCHANGED <<server, ws, wanted, timer, stray, online, signedIn, cache, sent, faults>>

-----------------------------------------------------------------------------
(* WebSocketClient.                                                        *)

\* connect, with a token: nothing happens while this.ws is alive.
Connect ==
    IF ws # NoSocket /\ Alive(ws)
    THEN UNCHANGED <<socket, ws, wanted, timer, online>>
    ELSE \E s \in Sockets :
            /\ socket[s] = "none" /\ s \notin subscribed
            /\ socket' = [socket EXCEPT ![s] = "connecting"]
            /\ ws' = s /\ wanted' = TRUE /\ timer' = FALSE /\ online' = FALSE

SignIn ==
    /\ ~signedIn /\ signedIn' = TRUE /\ Connect
    /\ UNCHANGED <<server, feed, stray, cache, history>>

\* The reconnect timer runs out; signed out, it does not run.
Reconnect ==
    /\ timer
    /\ IF ws # NoSocket /\ Alive(ws)
       THEN timer' = FALSE /\ UNCHANGED <<socket, ws, wanted, online>>
       ELSE Connect
    /\ UNCHANGED <<server, feed, stray, signedIn, cache, history>>

\* One that disconnect and connect could not clear runs out.
StrayReconnect ==
    /\ stray /\ stray' = FALSE
    /\ IF signedIn THEN Connect
       ELSE wanted' = FALSE /\ online' = FALSE /\ UNCHANGED <<socket, ws, timer>>
    /\ UNCHANGED <<server, feed, signedIn, cache, history>>

\* disconnect closes this.ws; its onclose is still to come.
SignOut ==
    /\ signedIn /\ signedIn' = FALSE
    /\ wanted' = FALSE /\ timer' = FALSE /\ online' = FALSE /\ ws' = NoSocket
    /\ IF ws # NoSocket /\ Alive(ws)
       THEN Cut(ws, "closed")
       ELSE UNCHANGED <<socket, feed, lost>>
    /\ UNCHANGED <<server, stray, cache, sent, faults>>

\* Faulty variant: what was missed without a connection is not fetched.
Opens_FetchesNothing(s) ==
    /\ socket[s] = "connecting" /\ socket' = [socket EXCEPT ![s] = "open"]
    /\ online' = TRUE
    /\ lost' = IF online THEN lost ELSE {}
    /\ UNCHANGED <<server, feed, ws, wanted, timer, stray, signedIn, cache, sent,
                   faults>>

\* onopen; App invalidates the list when the state becomes connected, which makes
\* up for all that was lost so far.
Opens(s) ==
    /\ socket[s] = "connecting" /\ socket' = [socket EXCEPT ![s] = "open"]
    /\ online' = TRUE
    /\ IF online THEN UNCHANGED <<fetch, lost>> ELSE Invalidate /\ lost' = {}
    /\ UNCHANGED <<server, feed, ws, wanted, timer, stray, signedIn, list, sent,
                   faults>>

\* Faulty variant: the timer is not set.
OnClose_NoTimer(s) ==
    /\ socket[s] \in {"closed", "revoked"}
    /\ socket' = [socket EXCEPT ![s] = "none"]
    /\ ws' = NoSocket /\ online' = FALSE
    /\ UNCHANGED <<server, feed, wanted, timer, stray, signedIn, cache, history>>

\* onclose, of whichever socket: this.ws is cleared, even if it is another one.
OnClose(s) ==
    /\ socket[s] \in {"closed", "revoked"}
    /\ socket' = [socket EXCEPT ![s] = "none"]
    /\ ws' = NoSocket /\ online' = FALSE
    /\ IF wanted /\ signedIn
       THEN IF socket[s] = "revoked"
            THEN wanted' = FALSE /\ UNCHANGED <<timer, stray>>
            ELSE timer' = TRUE /\ stray' = (stray \/ timer) /\ UNCHANGED wanted
       ELSE UNCHANGED <<wanted, timer, stray>>
    /\ UNCHANGED <<server, feed, signedIn, cache, history>>

-----------------------------------------------------------------------------
Next ==
    \/ \E t \in Tasks : Begin(t) \/ End(t) \/ Inspect(t) \/ Cancel(t)
                        \/ Announce(t)
    \/ Report \/ Answer \/ Show \/ FetchFails \/ Poll
    \/ \E s \in Sockets : Deliver(s) \/ Subscribe(s) \/ Drop(s) \/ Revoke(s)
                          \/ Opens(s) \/ OnClose(s)
    \/ SignIn \/ SignOut \/ Reconnect \/ StrayReconnect

Spec == Init /\ [][Next]_vars

\* Fetches are answered, the list is polled, a connection is made or fails, and what
\* a socket has queued is forwarded as long as it is open.  Strong for Show: what
\* gives a fetch up is an event or a new connection, one in 3 s at most, and a
\* fetch takes much less.
FairSpec ==
    /\ Spec
    /\ WF_vars(Answer) /\ SF_vars(Show) /\ WF_vars(Poll)
    /\ \A s \in Sockets : WF_vars(Opens(s)) /\ WF_vars(Deliver(s))

-----------------------------------------------------------------------------
(* What must hold.                                                         *)

TypeOK ==
    /\ rows \in Lists /\ list \in Lists /\ fetch \in Lists \cup {NoFetch, Asked}
    /\ heard \subseteq Tasks /\ unsent \subseteq Tasks /\ sent \subseteq Tasks /\ lost \subseteq Tasks
    /\ queue \in [Sockets -> Seq(Tasks \cup {Progress})]
    /\ \A s \in Sockets : Len(queue[s]) <= Capacity
    /\ subscribed \subseteq Sockets
    /\ socket \in [Sockets -> {"none", "connecting", "open", "closed", "revoked"}]
    /\ ws \in Sockets \cup {NoSocket}
    /\ {wanted, timer, stray, online, signedIn} \subseteq BOOLEAN /\ faults \in Nat

\* A task that the list has shown as over is never shown as running again, although
\* fetches that read the row before its end are on their way when events arrive
\* (App.tsx, onTaskUpdate: patch and invalidate; rows are written before events).
EndsAreFinal ==
    [][\A t \in Tasks : list[t] = "over" => list'[t] # "running"]_list

\* A task shown as running that is over does not stay so, whatever was lost: the
\* list is polled as long as it shows a running task (Tasks/index.tsx).
RunningHeals ==
    \A t \in Tasks : list[t] = "running" /\ rows[t] = "over"
                        ~> list[t] # "running"

\* An end that was announced reaches the list, even of a task the list has never
\* shown and if it came while there was no connection: the next one makes up for
\* it.  What stays lost, until then, is what a receiver that lags has dropped, what
\* came between the opening of a connection and its subscription, and what a
\* failed fetch was to bring (App.tsx, onTaskUpdate and onConnectionChange).
EndsArrive ==
    \A t \in Tasks : t \in sent \ lost ~> list[t] = "over" \/ t \in lost

\* Why it does: until then the end is on its way, in what an open socket has still
\* to bring, in a fetch that has not read the rows yet, or in the answer of one.
EndsOnTheirWay ==
    \A t \in sent \ lost :
        \/ list[t] = "over" \/ fetch = Asked
        \/ fetch \in Lists /\ fetch[t] = "over"
        \/ \E s \in Sockets : Alive(s) /\ t \in Held(s)

\* As long as it is wanted, the client has a socket or is about to make one:
\* whatever the order of connect, disconnect and onclose of several sockets, it
\* is not left without both (websocket.ts).
KeepsTrying == wanted => ws # NoSocket \/ timer

=============================================================================
