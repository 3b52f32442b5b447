---------------------------- MODULE EventFeedProofs ----------------------------
(***************************************************************************)
(* Proofs about EventFeed, for any tasks, sockets and queue: an end shown  *)
(* is final, a client that wants a connection is getting one, and an end   *)
(* that is announced and not lost is on its way to the list until it is    *)
(* there.                                                                  *)
(***************************************************************************)
EXTENDS EventFeed, TLAPS

USE FeedAssumption, NoFetchAssumption

ServerAction ==
    \/ \E t \in Tasks : Begin(t) \/ End(t) \/ Inspect(t) \/ Cancel(t) \/ Announce(t)
    \/ Report

CacheAction == Answer \/ Show \/ FetchFails \/ Poll

SocketAction(s) ==
    Deliver(s) \/ Subscribe(s) \/ Drop(s) \/ Revoke(s) \/ Opens(s) \/ OnClose(s)

ClientAction == SignIn \/ SignOut \/ Reconnect \/ StrayReconnect

LEMMA NextActions ==
    ASSUME [Next]_vars
    PROVE  \/ ServerAction \/ CacheAction \/ ClientAction \/ UNCHANGED vars
           \/ \E s \in Sockets : SocketAction(s)
BY DEF Next, ServerAction, CacheAction, SocketAction, ClientAction

-----------------------------------------------------------------------------
(* The client.                                                             *)

\* The client wants a connection, or has a timer, only with a token.
ClientInv ==
    /\ ws \in Sockets \cup {NoSocket}
    /\ wanted \/ timer => signedIn
    /\ KeepsTrying

LEMMA ClientStep ==
    ASSUME ClientInv, [Next]_vars PROVE ClientInv'
<1> USE DEF ClientInv, KeepsTrying, client
<1>1. CASE ServerAction
  BY <1>1 DEF ServerAction, Begin, End, Inspect, Cancel, Announce, Report
<1>2. CASE CacheAction
  BY <1>2 DEF CacheAction, Answer, Show, FetchFails, Poll
<1>3. ASSUME NEW s \in Sockets, SocketAction(s) PROVE ClientInv'
  BY <1>3 DEF SocketAction, Deliver, Subscribe, Drop, Revoke, Opens, OnClose
<1>4. CASE SignIn
  BY <1>4 DEF SignIn, Connect
<1>5. CASE SignOut
  BY <1>5 DEF SignOut
<1>6. CASE Reconnect
  BY <1>6 DEF Reconnect, Connect
<1>7. CASE StrayReconnect
  BY <1>7 DEF StrayReconnect, Connect
<1>8. CASE UNCHANGED vars
  BY <1>8 DEF vars
<1>9. QED
  BY <1>1, <1>2, <1>3, <1>4, <1>5, <1>6, <1>7, <1>8, NextActions DEF ClientAction

\* In whatever order connect, disconnect and the closing of several sockets come,
\* a client that wants a connection has a socket or a timer.
THEOREM ClientKeepsTrying == Spec => []KeepsTrying
<1>1. Init => ClientInv
  BY DEF Init, ClientInv, KeepsTrying
<1>2. ClientInv /\ [Next]_vars => ClientInv'
  BY ClientStep
<1>3. ClientInv => KeepsTrying
  BY DEF ClientInv
<1>4. QED  BY <1>1, <1>2, <1>3, PTL DEF Spec

-----------------------------------------------------------------------------
(* The list.                                                               *)

\* An event, a list entry and an answer on its way that say over come after the
\* row; an answer on its way does not take back what the list shows.
ListInv ==
    /\ rows \in Lists /\ list \in Lists
    /\ fetch \in Lists \cup {NoFetch, Asked}
    /\ queue \in [Sockets -> Seq(Tasks \cup {Progress})]
    /\ unsent \subseteq Tasks /\ \A t \in unsent : rows[t] = "over"
    /\ \A s \in Sockets : \A i \in 1..Len(queue[s]) :
          queue[s][i] # Progress => rows[queue[s][i]] = "over"
    /\ \A t \in Tasks : list[t] = "over" => rows[t] = "over"
    /\ fetch \in Lists => \A t \in Tasks : list[t] = "over" => fetch[t] = "over"
    /\ fetch \in Lists => \A t \in Tasks : fetch[t] = "over" => rows[t] = "over"

\* A queue into which something true is pushed still holds the truth.
LEMMA PushKeeps ==
    ASSUME ListInv, NEW e \in Tasks \cup {Progress}, Push(e),
           rows' = rows, e # Progress => rows[e] = "over"
    PROVE  /\ queue' \in [Sockets -> Seq(Tasks \cup {Progress})]
           /\ \A s \in Sockets : \A i \in 1..Len(queue'[s]) :
                 queue'[s][i] # Progress => rows'[queue'[s][i]] = "over"
<1>1. ASSUME NEW s \in Sockets
      PROVE  /\ Pushed(s, e) \in Seq(Tasks \cup {Progress})
             /\ \A i \in 1..Len(Pushed(s, e)) :
                   Pushed(s, e)[i] # Progress => rows[Pushed(s, e)[i]] = "over"
  <2> DEFINE q == queue[s]
  <2>1. /\ q \in Seq(Tasks \cup {Progress})
        /\ \A i \in 1..Len(q) : q[i] # Progress => rows[q[i]] = "over"
    BY DEF ListInv
  <2> HIDE DEF q
  <2>2. CASE Pushed(s, e) = q
    BY <2>1, <2>2
  <2>3. CASE Pushed(s, e) = Append(q, e)
    BY <2>1, <2>3
  <2>4. CASE Pushed(s, e) = Append(Tail(q), e) /\ q # <<>>
    BY <2>1, <2>4
  <2>5. QED  BY <2>1, <2>2, <2>3, <2>4 DEF Pushed, q
<1>2. QED  BY <1>1 DEF Push

\* A queue whose first event was taken, or that was cut, holds nothing new.
LEMMA TailKeeps ==
    ASSUME ListInv, NEW s \in Sockets, queue[s] # <<>>,
           queue' = [queue EXCEPT ![s] = Tail(@)], rows' = rows
    PROVE  /\ queue' \in [Sockets -> Seq(Tasks \cup {Progress})]
           /\ \A r \in Sockets : \A i \in 1..Len(queue'[r]) :
                 queue'[r][i] # Progress => rows'[queue'[r][i]] = "over"
<1>1. /\ queue[s] \in Seq(Tasks \cup {Progress})
      /\ \A i \in 1..Len(queue[s]) :
            queue[s][i] # Progress => rows[queue[s][i]] = "over"
  BY DEF ListInv
<1>2. /\ Tail(queue[s]) \in Seq(Tasks \cup {Progress})
      /\ Len(Tail(queue[s])) = Len(queue[s]) - 1
      /\ \A i \in 1..Len(Tail(queue[s])) : Tail(queue[s])[i] = queue[s][i + 1]
  BY <1>1
<1>3. \A i \in 1..Len(Tail(queue[s])) :
         Tail(queue[s])[i] # Progress => rows[Tail(queue[s])[i]] = "over"
  BY <1>1, <1>2
<1>4. QED  BY <1>2, <1>3 DEF ListInv

LEMMA CutKeeps ==
    ASSUME ListInv, NEW s, NEW how, Cut(s, how), rows' = rows
    PROVE  /\ queue' \in [Sockets -> Seq(Tasks \cup {Progress})]
           /\ \A r \in Sockets : \A i \in 1..Len(queue'[r]) :
                 queue'[r][i] # Progress => rows'[queue'[r][i]] = "over"
<1>1. /\ DOMAIN queue' = Sockets /\ queue' = [r \in Sockets |-> queue'[r]]
      /\ \A r \in Sockets : queue'[r] = <<>> \/ queue'[r] = queue[r]
  BY DEF Cut, ListInv
<1>2. ASSUME NEW r \in Sockets
      PROVE  /\ queue'[r] \in Seq(Tasks \cup {Progress})
             /\ \A i \in 1..Len(queue'[r]) :
                   queue'[r][i] # Progress => rows[queue'[r][i]] = "over"
  <2>1. CASE queue'[r] = <<>>
    BY <2>1
  <2>2. CASE queue'[r] = queue[r]
    <3>1. /\ queue[r] \in Seq(Tasks \cup {Progress})
          /\ \A i \in 1..Len(queue[r]) :
                queue[r][i] # Progress => rows[queue[r][i]] = "over"
      BY DEF ListInv
    <3>2. QED  BY <2>2, <3>1
  <2>3. QED  BY <1>1, <2>1, <2>2
<1>3. queue' \in [Sockets -> Seq(Tasks \cup {Progress})]
  BY <1>1, <1>2
<1>4. QED  BY <1>2, <1>3

\* Every step keeps the invariant of the list.
LEMMA ListStep ==
    ASSUME ListInv, [Next]_vars PROVE ListInv'
<1> USE DEF server, feed, cache
<1>1. CASE ServerAction
  <2>1. ASSUME NEW t \in Tasks, Begin(t) \/ End(t) \/ Inspect(t) \/ Cancel(t) PROVE ListInv'
    <3>1. /\ rows' \in Lists /\ \A u \in Tasks : rows[u] = "over" => rows'[u] = "over"
          /\ queue' = queue /\ list' = list /\ fetch' = fetch
      BY <2>1 DEF Begin, End, Inspect, Cancel, ListInv, Lists, Statuses
    <3>2. unsent' \subseteq Tasks /\ \A u \in unsent' : rows'[u] = "over"
      BY <2>1 DEF Begin, End, Inspect, Cancel, ListInv, Lists
    <3>3. \A s \in Sockets : \A i \in 1..Len(queue[s]) :
             queue[s][i] \in Tasks \cup {Progress}
      BY DEF ListInv
    <3>4. ASSUME NEW s \in Sockets, NEW i \in 1..Len(queue[s]),
                 queue[s][i] # Progress
          PROVE  rows'[queue[s][i]] = "over"
      <4>1. queue[s][i] \in Tasks /\ rows[queue[s][i]] = "over"
        BY <3>3, <3>4 DEF ListInv
      <4>2. QED  BY <3>1, <4>1
    <3>5. QED  BY <3>1, <3>2, <3>4 DEF ListInv
  <2>2. ASSUME NEW t \in Tasks, Announce(t) PROVE ListInv'
    BY <2>2, PushKeeps DEF Announce, ListInv
  <2>3. CASE Report
    BY <2>3, PushKeeps DEF Report, ListInv
  <2>4. QED  BY <1>1, <2>1, <2>2, <2>3 DEF ServerAction
<1>2. CASE CacheAction
  BY <1>2 DEF CacheAction, Answer, Show, FetchFails, Poll, Invalidate, ListInv
<1>3. ASSUME NEW s \in Sockets, SocketAction(s) PROVE ListInv'
  <2>1. CASE Deliver(s)
    <3>1. Head(queue[s]) # Progress => rows[Head(queue[s])] = "over"
      BY <2>1 DEF Deliver, ListInv
    <3>2. CASE Head(queue[s]) = Progress
      BY <2>1, <3>2, TailKeeps DEF Deliver, ListInv
    <3>3. CASE Head(queue[s]) # Progress
      <4>1. /\ list' \in Lists /\ rows' = rows /\ unsent' = unsent
            /\ \A t \in Tasks : list'[t] = "over" => rows[t] = "over"
        BY <2>1, <3>1, <3>3 DEF Deliver, ListInv, Lists, Statuses
      <4>2. fetch' = Asked
        BY <2>1, <3>3 DEF Deliver, Invalidate
      <4>3. QED  BY <2>1, <4>1, <4>2, TailKeeps DEF Deliver, ListInv
    <3>4. QED  BY <3>2, <3>3
  <2>2. CASE Subscribe(s)
    BY <2>2 DEF Subscribe, ListInv
  <2>3. CASE Drop(s) \/ Revoke(s)
    BY <2>3, CutKeeps DEF Drop, Revoke, ListInv
  <2>4. CASE Opens(s)
    BY <2>4 DEF Opens, Invalidate, ListInv
  <2>5. CASE OnClose(s)
    BY <2>5 DEF OnClose, ListInv
  <2>6. QED  BY <1>3, <2>1, <2>2, <2>3, <2>4, <2>5 DEF SocketAction
<1>4. CASE ClientAction
  <2>1. /\ rows' = rows /\ unsent' = unsent /\ list' = list /\ fetch' = fetch
        /\ queue' = queue \/ \E s, how : Cut(s, how)
    BY <1>4 DEF ClientAction, SignIn, SignOut, Reconnect, StrayReconnect
  <2>2. QED  BY <2>1, CutKeeps DEF ListInv
<1>5. CASE UNCHANGED vars
  BY <1>5 DEF vars, ListInv
<1>6. QED  BY <1>1, <1>2, <1>3, <1>4, <1>5, NextActions

\* A task shown as over is not shown as running again, whichever fetches and
\* events cross (App.tsx, onTaskUpdate).
THEOREM EndsStay == Spec => EndsAreFinal
<1>1. Init => ListInv
  BY DEF Init, ListInv, Lists, Statuses
<1>2. ListInv /\ [Next]_vars => ListInv'
  BY ListStep
<1>3. ListInv /\ [Next]_vars =>
         [\A t \in Tasks : list[t] = "over" => list'[t] # "running"]_list
  <2> SUFFICES ASSUME ListInv, [Next]_vars, NEW t \in Tasks, list[t] = "over"
               PROVE  list'[t] # "running"
    OBVIOUS
  <2> USE DEF server, feed, cache, ListInv
  <2>1. CASE CacheAction
    BY <2>1 DEF CacheAction, Answer, Show, FetchFails, Poll
  <2>2. ASSUME NEW s \in Sockets, SocketAction(s) PROVE list'[t] # "running"
    BY <2>2 DEF SocketAction, Deliver, Subscribe, Drop, Revoke, Opens, OnClose
  <2>3. CASE ServerAction \/ ClientAction \/ UNCHANGED vars
    BY <2>3 DEF ServerAction, Begin, End, Inspect, Cancel, Announce, Report, ClientAction,
                SignIn, SignOut, Reconnect, StrayReconnect, vars
  <2>4. QED  BY <2>1, <2>2, <2>3, NextActions
<1>4. QED  BY <1>1, <1>2, <1>3, PTL DEF Spec, EndsAreFinal

-----------------------------------------------------------------------------
(* Ends on their way.                                                      *)

\* Only a subscribed handler of an open socket has events to forward, and only
\* ends that are written are announced.
SocketInv ==
    /\ socket = [s \in Sockets |-> socket[s]] /\ subscribed \subseteq Sockets
    /\ \A s \in subscribed : Alive(s)
    /\ \A s \in Sockets \ subscribed : queue[s] = <<>>
    /\ \A s \in Sockets : Len(queue[s]) <= Capacity
    /\ sent \subseteq Tasks /\ \A t \in sent : rows[t] = "over"

\* A full queue drops an event for each one that is pushed.
LEMMA PushFits ==
    ASSUME ListInv, SocketInv, NEW e \in Tasks \cup {Progress}, Push(e)
    PROVE  \A s \in Sockets : Len(queue'[s]) <= Capacity
<1>1. ASSUME NEW s \in Sockets PROVE Len(Pushed(s, e)) <= Capacity
  <2> DEFINE q == queue[s]
  <2>1. q \in Seq(Tasks \cup {Progress}) /\ Len(q) <= Capacity /\ Len(q) \in Nat
    BY DEF ListInv, SocketInv
  <2> HIDE DEF q
  <2>2. CASE Pushed(s, e) = q
    BY <2>1, <2>2
  <2>3. CASE Pushed(s, e) = Append(q, e) /\ Len(q) < Capacity
    BY <2>1, <2>3
  <2>4. CASE Pushed(s, e) = Append(Tail(q), e) /\ q # <<>>
    BY <2>1, <2>4
  <2>5. QED  BY <2>1, <2>2, <2>3, <2>4 DEF Pushed, q
<1>2. QED  BY <1>1 DEF Push

LEMMA SocketStep ==
    ASSUME ListInv, SocketInv, [Next]_vars PROVE SocketInv'
<1> USE DEF SocketInv, ListInv, server, feed, client, history
<1>0. /\ \A s \in Sockets : Len(queue[s]) \in Nat
      /\ Len(<<>>) <= Capacity
  OBVIOUS
<1>1. ASSUME NEW s \in Sockets, Drop(s) \/ Revoke(s) PROVE SocketInv'
  <2>1. PICK how \in {"closed", "revoked"} : Cut(s, how)
    BY <1>1 DEF Drop, Revoke
  <2>2. /\ socket' = [socket EXCEPT ![s] = how]
        /\ queue' = [queue EXCEPT ![s] = <<>>]
        /\ subscribed' = subscribed \ {s} /\ sent' = sent /\ rows' = rows
    BY <1>1, <2>1 DEF Drop, Revoke, Cut
  <2>3. \A r \in Sockets : Len(queue'[r]) <= Capacity
    BY <1>0, <2>2
  <2>4. QED  BY <2>2, <2>3 DEF Alive
<1>2. CASE ServerAction
  <2>1. ASSUME NEW t \in Tasks, Begin(t) \/ End(t) \/ Inspect(t) \/ Cancel(t) PROVE SocketInv'
    <3>1. /\ \A u \in Tasks : rows[u] = "over" => rows'[u] = "over"
          /\ UNCHANGED <<feed, client, history>>
      BY <2>1 DEF Begin, End, Inspect, Cancel, Lists
    <3>2. QED  BY <3>1 DEF Alive
  <2>2. ASSUME NEW t \in Tasks, Announce(t) PROVE SocketInv'
    BY <2>2, PushFits DEF Announce, Push, Pushed, Alive
  <2>3. CASE Report
    BY <2>3, PushFits DEF Report, Push, Pushed, Alive
  <2>4. QED  BY <1>2, <2>1, <2>2, <2>3 DEF ServerAction
<1>3. CASE CacheAction
  BY <1>3 DEF CacheAction, Answer, Show, FetchFails, Poll, Alive
<1>4. ASSUME NEW s \in Sockets, Deliver(s) PROVE SocketInv'
  <2>1. /\ s \in subscribed /\ queue' = [queue EXCEPT ![s] = Tail(queue[s])]
        /\ UNCHANGED <<socket, subscribed, rows, sent>>
    BY <1>4 DEF Deliver
  <2>2. Len(Tail(queue[s])) = Len(queue[s]) - 1
    BY <1>4 DEF Deliver
  <2>3. \A r \in Sockets : Len(queue'[r]) <= Capacity
    <3>1. Len(queue[s]) \in Nat /\ Len(queue[s]) <= Capacity /\ Capacity \in Nat
      BY <1>0
    <3>2. Len(Tail(queue[s])) <= Capacity
      BY <2>2, <3>1
    <3>3. QED  BY <2>1, <3>2
  <2>4. QED  BY <2>1, <2>3 DEF Alive
<1>5. ASSUME NEW s \in Sockets, Subscribe(s) \/ Opens(s) \/ OnClose(s)
      PROVE  SocketInv'
  BY <1>5 DEF Subscribe, Opens, OnClose, Alive
<1>6. CASE SignOut
  <2>1. CASE ws \in Sockets /\ Cut(ws, "closed")
    <3>1. /\ socket' = [socket EXCEPT ![ws] = "closed"]
          /\ queue' = [queue EXCEPT ![ws] = <<>>]
          /\ subscribed' = subscribed \ {ws} /\ sent' = sent /\ rows' = rows
      BY <1>6, <2>1 DEF SignOut, Cut
    <3>2. \A r \in Sockets : Len(queue'[r]) <= Capacity
      BY <1>0, <2>1, <3>1
    <3>3. QED  BY <2>1, <3>1, <3>2 DEF Alive
  <2>2. CASE UNCHANGED <<socket, feed>>
    BY <1>6, <2>2 DEF SignOut, Alive
  <2>3. CASE ws \notin Sockets /\ Cut(ws, "closed")
    BY <1>6, <2>3 DEF SignOut, Cut, Alive
  <2>4. QED  BY <1>6, <2>1, <2>2, <2>3 DEF SignOut
<1>7. CASE SignIn \/ Reconnect \/ StrayReconnect
  <2>1. /\ UNCHANGED <<server, feed, history>>
        /\ \/ socket' = socket
           \/ \E s \in Sockets \ subscribed :
                 socket' = [socket EXCEPT ![s] = "connecting"]
    BY <1>7 DEF SignIn, Reconnect, StrayReconnect, Connect
  <2>2. QED  BY <2>1 DEF Alive
<1>8. CASE UNCHANGED vars
  BY <1>8 DEF vars, Alive
<1>9. QED
  BY <1>1, <1>2, <1>3, <1>4, <1>5, <1>6, <1>7, <1>8, NextActions
     DEF SocketAction, ClientAction

\* What is pushed is held; what was held is still, unless it was dropped.
LEMMA HeldPush ==
    ASSUME ListInv, SocketInv, NEW e \in Tasks \cup {Progress}, Push(e),
           NEW s \in Sockets
    PROVE  /\ Held(s) \subseteq Held(s)' \cup Dropped(s)
           /\ s \in subscribed /\ e # Progress => e \in Held(s)'
<1> DEFINE q == queue[s]
<1>1. q \in Seq(Tasks \cup {Progress}) /\ queue'[s] = Pushed(s, e)
  BY DEF ListInv, Push
<1>2. Held(s) = {q[i] : i \in 1..Len(q)} \ {Progress}
      /\ Held(s)' = {queue'[s][i] : i \in DOMAIN queue'[s]} \ {Progress}
  BY <1>1 DEF Held
<1> HIDE DEF q
<1>3. CASE s \notin subscribed
  BY <1>1, <1>2, <1>3 DEF Pushed, q
<1>4. CASE s \in subscribed /\ Len(q) < Capacity
  <2>1. queue'[s] = Append(q, e)
    BY <1>1, <1>4 DEF Pushed, q
  <2>2. /\ DOMAIN queue'[s] = 1..(Len(q) + 1) /\ queue'[s][Len(q) + 1] = e
        /\ Len(q) \in Nat /\ \A i \in 1..Len(q) : queue'[s][i] = q[i]
    BY <1>1, <2>1
  <2>3. QED  BY <1>2, <2>2
<1>5. CASE s \in subscribed /\ ~(Len(q) < Capacity)
  <2>1. queue'[s] = Append(Tail(q), e)
    BY <1>1, <1>5 DEF Pushed, q
  <2>2. Len(q) \in Nat /\ q # <<>> /\ Len(q) = Capacity
    BY <1>1, <1>5 DEF SocketInv, q
  <2>3. /\ DOMAIN queue'[s] = 1..Len(q) /\ queue'[s][Len(q)] = e
        /\ \A i \in 2..Len(q) : queue'[s][i - 1] = q[i]
    BY <1>1, <2>1, <2>2
  <2>4. e # Progress => e \in Held(s)'
    BY <1>2, <2>2, <2>3
  <2>5. ASSUME NEW i \in 1..Len(q), q[i] # Progress, i # 1 PROVE q[i] \in Held(s)'
    <3>1. i \in 2..Len(q) /\ i - 1 \in 1..Len(q)
      BY <2>2, <2>5
    <3>2. QED  BY <1>2, <2>3, <2>5, <3>1
  <2>6. QED  BY <1>2, <1>5, <2>2, <2>4, <2>5 DEF Dropped, q
<1>6. QED  BY <1>3, <1>4, <1>5

\* Where an end is, until the list shows it.
OnItsWay(t) ==
    \/ list[t] = "over" \/ fetch = Asked
    \/ fetch \in Lists /\ fetch[t] = "over"
    \/ \E s \in Sockets : Alive(s) /\ t \in Held(s)

\* A step that leaves the cache alone keeps an end on its way, if it keeps what
\* the sockets hold.
LEMMA HeldOn ==
    ASSUME NEW t, OnItsWay(t), UNCHANGED cache,
           \A s \in Sockets : Alive(s) /\ t \in Held(s)
                                 => Alive(s)' /\ t \in Held(s)'
    PROVE  OnItsWay(t)'
<1>1. CASE \E s \in Sockets : Alive(s) /\ t \in Held(s)
  <2>1. \E s \in Sockets : Alive(s)' /\ t \in Held(s)'
    BY <1>1
  <2>2. QED  BY <2>1 DEF OnItsWay, Alive, Held
<1>2. CASE ~ \E s \in Sockets : Alive(s) /\ t \in Held(s)
  BY <1>2 DEF OnItsWay, cache
<1>3. QED  BY <1>1, <1>2

\* The first event of a queue is brought to the list, the others stay.
LEMMA HeldTail ==
    ASSUME ListInv, NEW s \in Sockets, queue[s] # <<>>,
           queue' = [queue EXCEPT ![s] = Tail(@)]
    PROVE  \A r \in Sockets : Held(r) \subseteq Held(r)' \cup {Head(queue[s])}
<1> DEFINE q == queue[s]
<1>1. q \in Seq(Tasks \cup {Progress}) /\ queue'[s] = Tail(q) /\ q # <<>>
      /\ \A r \in Sockets \ {s} : queue'[r] = queue[r]
  BY DEF ListInv
<1>2. Held(s) = {q[i] : i \in 1..Len(q)} \ {Progress}
      /\ Held(s)' = {queue'[s][i] : i \in DOMAIN queue'[s]} \ {Progress}
  BY <1>1 DEF Held
<1> HIDE DEF q
<1>3. /\ DOMAIN queue'[s] = 1..(Len(q) - 1) /\ Len(q) \in Nat /\ q[1] = Head(q)
      /\ \A i \in 2..Len(q) : queue'[s][i - 1] = q[i] /\ i - 1 \in 1..(Len(q) - 1)
  <2>1. /\ Len(q) \in Nat /\ Len(q) # 0 /\ q[1] = Head(q)
        /\ Tail(q) \in Seq(Tasks \cup {Progress}) /\ Len(Tail(q)) = Len(q) - 1
        /\ \A i \in 1..(Len(q) - 1) : Tail(q)[i] = q[i + 1]
    BY <1>1
  <2>2. DOMAIN Tail(q) = 1..(Len(q) - 1)
    BY <2>1
  <2>3. ASSUME NEW i \in 2..Len(q)
        PROVE  Tail(q)[i - 1] = q[i] /\ i - 1 \in 1..(Len(q) - 1)
    <3>1. i - 1 \in 1..(Len(q) - 1) /\ i - 1 + 1 = i
      BY <2>1
    <3>2. QED  BY <2>1, <3>1
  <2>4. QED  BY <1>1, <2>1, <2>2, <2>3
<1>4. ASSUME NEW i \in 1..Len(q), q[i] # Progress, i # 1 PROVE q[i] \in Held(s)'
  <2>1. i \in 2..Len(q)
    BY <1>3, <1>4
  <2>2. QED  BY <1>2, <1>3, <1>4, <2>1
<1>5. Held(s) \subseteq Held(s)' \cup {Head(q)}
  BY <1>2, <1>3, <1>4
<1>6. \A r \in Sockets \ {s} : Held(r) = Held(r)'
  BY <1>1 DEF Held
<1>7. QED  BY <1>5, <1>6 DEF q

\* The end of a connection loses what it held, and nothing of the others.
LEMMA HeldCut ==
    ASSUME ListInv, SocketInv, NEW c, NEW how, Cut(c, how),
           NEW t \in Tasks, t \notin lost'
    PROVE  \A s \in Sockets : Alive(s) /\ t \in Held(s)
                                 => Alive(s)' /\ t \in Held(s)'
<1> SUFFICES ASSUME NEW s \in Sockets, Alive(s), t \in Held(s)
             PROVE  Alive(s)' /\ t \in Held(s)'
  OBVIOUS
<1>1. s # c
  BY DEF Cut
<1>2. socket'[s] = socket[s] /\ queue'[s] = queue[s]
  BY <1>1 DEF Cut, ListInv, SocketInv
<1>3. QED  BY <1>2 DEF Alive, Held

\* Every step keeps ends on their way.
LEMMA OnItsWayStep ==
    ASSUME ListInv, ListInv', SocketInv, EndsOnTheirWay, [Next]_vars
    PROVE  EndsOnTheirWay'
<1> SUFFICES ASSUME NEW t \in Tasks, t \in sent', t \notin lost'
             PROVE  OnItsWay(t)'
  <2>1. \A t \in (sent \ lost)' : OnItsWay(t)'
    <3>1. sent' \subseteq Tasks
      BY SocketStep DEF SocketInv
    <3>2. QED  BY <3>1
  <2>2. QED  BY <2>1 DEF EndsOnTheirWay, OnItsWay, Alive, Held
<1> USE DEF server, feed, client, cache, history
<1>0. t \in sent /\ t \notin lost => OnItsWay(t)
  BY DEF EndsOnTheirWay, OnItsWay
<1>1. CASE ServerAction
  <2>1. ASSUME NEW u \in Tasks, Begin(u) \/ End(u) \/ Inspect(u) \/ Cancel(u) PROVE OnItsWay(t)'
    BY <1>0, <2>1, HeldOn DEF Begin, End, Inspect, Cancel, Alive, Held
  <2>2. ASSUME NEW e \in Tasks \cup {Progress}, Push(e),
               UNCHANGED <<client, cache>>,
               lost \cup DroppedBy \subseteq lost', t \in sent
        PROVE  OnItsWay(t)'
    <3>1. \A s \in Sockets : t \notin Dropped(s)
      BY <2>2 DEF DroppedBy
    <3>2. \A s \in Sockets : t \in Held(s) => t \in Held(s)'
      BY <2>2, <3>1, HeldPush
    <3>3. \A s \in Sockets : Alive(s)' <=> Alive(s)
      BY <2>2 DEF Alive
    <3>4. QED  BY <1>0, <2>2, <3>2, <3>3, HeldOn
  <2>3. ASSUME NEW u \in Tasks, Announce(u) PROVE OnItsWay(t)'
    <3>1. /\ Push(u) /\ UNCHANGED <<client, cache>> /\ sent' = sent \cup {u}
          /\ lost \cup DroppedBy \subseteq lost'
          /\ subscribed = {} => u \in lost'
      BY <2>3 DEF Announce
    <3>2. CASE t \in sent
      BY <2>2, <3>1, <3>2
    <3>3. CASE t = u
      <4>1. PICK s \in Sockets : s \in subscribed
        BY <3>1, <3>3 DEF SocketInv
      <4>2. Alive(s) /\ socket' = socket
        BY <3>1, <4>1 DEF SocketInv
      <4>3. t \in Held(s)'
        BY <3>1, <3>3, <4>1, HeldPush
      <4>4. Alive(s)'
        BY <4>2 DEF Alive
      <4>5. \E r \in Sockets : Alive(r)' /\ t \in Held(r)'
        BY <4>3, <4>4
      <4>6. QED  BY <4>5 DEF OnItsWay, Alive, Held
    <3>4. QED  BY <3>1, <3>2, <3>3
  <2>4. CASE Report
    BY <2>2, <2>4 DEF Report
  <2>5. QED  BY <1>1, <2>1, <2>3, <2>4 DEF ServerAction
<1>2. CASE CacheAction
  <2>0. /\ UNCHANGED <<queue, socket, sent, rows>> /\ lost \subseteq lost'
        /\ OnItsWay(t) /\ rows[t] = "over"
        /\ \A s \in Sockets : (Alive(s) /\ t \in Held(s))' <=> (Alive(s) /\ t \in Held(s))
    BY <1>0, <1>2 DEF CacheAction, Answer, Show, FetchFails, Poll, SocketInv,
                      Alive, Held
  <2>1. CASE Answer
    BY <2>0, <2>1 DEF Answer, OnItsWay, ListInv
  <2>2. CASE Show
    <3>1. fetch \in Lists /\ list' = fetch /\ fetch # Asked
      BY <2>2, NoFetchAssumption DEF Show
    <3>2. list[t] = "over" => fetch[t] = "over"
      BY <3>1 DEF ListInv
    <3>3. CASE fetch[t] = "over"
      BY <3>1, <3>3 DEF OnItsWay
    <3>4. CASE \E s \in Sockets : Alive(s) /\ t \in Held(s)
      BY <2>0, <3>4 DEF OnItsWay, Alive, Held
    <3>5. QED  BY <2>0, <3>1, <3>2, <3>3, <3>4 DEF OnItsWay
  <2>3. CASE FetchFails
    BY <2>0, <2>3 DEF FetchFails
  <2>4. CASE Poll
    BY <2>4 DEF Poll, Invalidate, OnItsWay
  <2>5. QED  BY <1>2, <2>1, <2>2, <2>3, <2>4 DEF CacheAction
<1>3. ASSUME NEW s \in Sockets, Deliver(s) PROVE OnItsWay(t)'
  <2>1. CASE Head(queue[s]) # Progress
    BY <1>3, <2>1 DEF Deliver, Invalidate, OnItsWay
  <2>2. CASE Head(queue[s]) = Progress
    <3>1. \A r \in Sockets : Held(r) \subseteq Held(r)' \cup {Progress}
      BY <1>3, <2>2, HeldTail DEF Deliver
    <3>2. \A r \in Sockets : Progress \notin Held(r)
      BY DEF Held
    <3>3. UNCHANGED <<cache, client, sent, lost>>
      BY <1>3, <2>2 DEF Deliver
    <3>4. \A r \in Sockets : Alive(r)' <=> Alive(r)
      BY <3>3 DEF Alive
    <3>5. QED  BY <1>0, <3>1, <3>2, <3>3, <3>4, HeldOn
  <2>3. QED  BY <2>1, <2>2
<1>4. ASSUME NEW s \in Sockets, Drop(s) \/ Revoke(s) PROVE OnItsWay(t)'
  <2>1. PICK how : Cut(s, how)
    BY <1>4 DEF Drop, Revoke
  <2>2. UNCHANGED <<cache, sent>> /\ lost \subseteq lost'
    BY <1>4, <2>1 DEF Drop, Revoke, Cut
  <2>3. QED  BY <1>0, <2>1, <2>2, HeldCut, HeldOn
<1>5. ASSUME NEW s \in Sockets, Opens(s) PROVE OnItsWay(t)'
  <2>1. CASE online
    <3>1. UNCHANGED <<cache, sent, lost, queue>>
          /\ socket' = [socket EXCEPT ![s] = "open"]
      BY <1>5, <2>1 DEF Opens
    <3>2. \A r \in Sockets : Alive(r) => Alive(r)'
      BY <3>1 DEF Alive, SocketInv
    <3>3. \A r \in Sockets : t \in Held(r) => t \in Held(r)'
      BY <3>1 DEF Held
    <3>4. QED  BY <1>0, <3>1, <3>2, <3>3, HeldOn
  <2>2. CASE ~online
    BY <1>5, <2>2 DEF Opens, Invalidate, OnItsWay
  <2>3. QED  BY <2>1, <2>2
<1>6. ASSUME NEW s \in Sockets, Subscribe(s) PROVE OnItsWay(t)'
  BY <1>0, <1>6, HeldOn DEF Subscribe, Alive, Held
<1>7. ASSUME NEW s \in Sockets, OnClose(s) PROVE OnItsWay(t)'
  <2>1. UNCHANGED <<cache, history, queue>> /\ ~Alive(s)
        /\ socket' = [socket EXCEPT ![s] = "none"]
    BY <1>7 DEF OnClose, Alive
  <2>2. \A r \in Sockets : Alive(r) => Alive(r)'
    BY <2>1 DEF Alive, SocketInv
  <2>3. \A r \in Sockets : t \in Held(r) => t \in Held(r)'
    BY <2>1 DEF Held
  <2>4. QED  BY <1>0, <2>1, <2>2, <2>3, HeldOn
<1>8. CASE ClientAction
  <2>1. CASE \E c : Cut(c, "closed")
    <3>1. PICK c : Cut(c, "closed")
      BY <2>1
    <3>2. UNCHANGED <<cache, sent>> /\ lost \subseteq lost'
      BY <1>8, <3>1 DEF ClientAction, SignIn, SignOut, Reconnect,
                        StrayReconnect, Cut
    <3>3. QED  BY <1>0, <3>1, <3>2, HeldCut, HeldOn
  <2>2. CASE ~ \E c : Cut(c, "closed")
    <3>1. /\ UNCHANGED <<cache, history, queue>>
          /\ \/ socket' = socket
             \/ \E s \in Sockets : socket' = [socket EXCEPT ![s] = "connecting"]
      BY <1>8, <2>2 DEF ClientAction, SignIn, SignOut, Reconnect,
                        StrayReconnect, Connect
    <3>2. \A r \in Sockets : Alive(r) => Alive(r)'
      BY <3>1 DEF Alive, SocketInv
    <3>3. \A r \in Sockets : t \in Held(r) => t \in Held(r)'
      BY <3>1 DEF Held
    <3>4. QED  BY <1>0, <3>1, <3>2, <3>3, HeldOn
  <2>3. QED  BY <2>1, <2>2
<1>9. CASE UNCHANGED vars
  BY <1>0, <1>9, HeldOn DEF vars, Alive, Held
<1>10. QED
  BY <1>1, <1>2, <1>3, <1>4, <1>5, <1>6, <1>7, <1>8, <1>9, NextActions
     DEF SocketAction

\* An end that was announced, and that nothing on the way has lost, is in the
\* list or still on its way there; the fairness of the fetches and sockets does
\* the rest (App.tsx, onTaskUpdate and onConnectionChange).
THEOREM AnnouncedEndsAreOnTheirWay == Spec => []EndsOnTheirWay
<1>1. Init => ListInv /\ SocketInv /\ EndsOnTheirWay
  BY DEF Init, ListInv, SocketInv, EndsOnTheirWay, Lists, Statuses
<1>2. ListInv /\ [Next]_vars => ListInv'
  BY ListStep
<1>3. ListInv /\ SocketInv /\ [Next]_vars => SocketInv'
  BY SocketStep
<1>4. ListInv /\ ListInv' /\ SocketInv /\ EndsOnTheirWay /\ [Next]_vars
          => EndsOnTheirWay'
  BY OnItsWayStep
<1>5. QED  BY <1>1, <1>2, <1>3, <1>4, PTL DEF Spec

=============================================================================
