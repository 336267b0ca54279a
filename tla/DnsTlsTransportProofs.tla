---------------------- MODULE DnsTlsTransportProofs ----------------------
(***************************************************************************)
(* DnsTlsTransport implements QueryService: each future gets one result,    *)
(* the answer to its own query or an error, for any number of queries, ids, *)
(* tries and sockets.                                                       *)
(*                                                                         *)
(* The heart of the invariant is MatchInv: a message on an open connection  *)
(* carries an id that the map still maps to the message's query, and it is  *)
(* there only once.  Hence an id is not used again while an answer to its   *)
(* former query may still arrive.                                           *)
(*                                                                         *)
(* Above the transports, DnsTlsDispatcher keeps every transport that a      *)
(* thread uses, and lets a transport ask for one revalidation at most, for  *)
(* any number of threads, networks and servers.  StoreInv says that the use *)
(* count of a transport is the number of the threads that use it; CallInv   *)
(* that such a thread still finds its transport under the key it used.      *)
(***************************************************************************)
EXTENDS DnsTlsTransport, DnsTlsDispatcher, FiniteSetTheorems, TLAPS

Live(s) == at[s] \in {"handshake", "poll", "swap"}
Out(s)  == mQueue[s] \cup q[s] \cup wire[s]
Held(m) == mQueries[m.id] # NoQuery /\ mQueries[m.id].query = m.query

\* The futures of the queries in the map are pending and differ.
MapInv ==
    /\ \A i \in Used : code[mQueries[i].query] = "pending"
    /\ \A i, j \in Used : mQueries[i].query = mQueries[j].query => i = j

\* What mLock's holder is doing, and what nobody can be doing meanwhile.
LockInv ==
    /\ step # "-" <=> holder \in {"client", "reconnect"}
    /\ holder = "reconnect" <=> reconnect = "locked"
    /\ step = "connect" => mSocket = 0 \/ holder = "reconnect"
    /\ step = "reset" => holder = "reconnect"
    /\ step \in {"send", "event"} => mSocket # 0
    /\ \A s \in Sockets : at[s] = "join" => holder = "onClosed"
    /\ mClosing => holder = "nobody" /\ Used = {}

\* Only mSocket has a running loop; a reconnect thread starts after it ended.
SocketInv ==
    /\ OneSocket
    /\ \A s \in Sockets : s > mConnectCounter => at[s] = "none" /\ Out(s) = {}
    /\ reconnect = "start" /\ ~mClosing => mSocket # 0 /\ at[mSocket] = "ended"
    /\ mSocket = 0 /\ step # "connect" => Used = {}
    /\ step = "reset" => Used = {}
    /\ step = "connect" => \A i \in Used : mQueries[i].tries < mMaxTries

Apart(s) == mQueue[s] \cap q[s] = {} /\ mQueue[s] \cap wire[s] = {} /\ q[s] \cap wire[s] = {}

\* What is on an open connection is matched by the map, and is there once.
MatchInv ==
    ~mClosing => \A s \in Sockets : Live(s) =>
        /\ \A m \in Out(s) : Held(m)
        /\ Apart(s)

\* What is still to be sent is in the map and not yet on the connection.
Unsent(m) == Held(m) /\ (Live(mSocket) => m \notin Out(mSocket))

SendInv ==
    step \in {"send", "event"} =>
        /\ \A m, x \in todo : m.id = x.id => m = x
        /\ \A m \in todo : mQueries[m.id] # NoQuery => mQueries[m.id].tries < mMaxTries
        /\ \A m \in todo : Unsent(m) \/ (step = "event" /\ NextToSend(m))

IInv == TypeOK /\ MapInv /\ LockInv /\ SocketInv /\ MatchInv /\ SendInv

\* A new transport satisfies the invariant and is an idle service.
LEMMA InitIInv == Init => IInv /\ Service!Init
<1> SUFFICES ASSUME Init PROVE IInv /\ Service!Init
  BY Zenon
<1> USE DEF Init
<1>1. TypeOK
  BY MaxIdAssumption, SocketsAssumption DEF TypeOK
<1>2. MapInv /\ LockInv /\ SocketInv /\ MatchInv /\ SendInv
  BY Zenon DEF MapInv, LockInv, SocketInv, MatchInv, SendInv, OneSocket, Used, Live, Out, mClosing
<1>3. Service!Init
  BY Zenon DEF Service!Init
<1>4. QED
  BY <1>1, <1>2, <1>3, Zenon DEF IInv

\* A step of a loop thread on its open connection s, which may end it: what the connection
\* carries may move or be dropped, and is on it once.
LoopOnly(s) ==
    /\ UNCHANGED <<futures, mQueries, locked, reconnect, unsocks>>
    /\ TypeOK' /\ Live(s) /\ (Live(s)' \/ at'[s] = "closing")
    /\ \A x \in Sockets \ {s} : at'[x] = at[x] /\ mQueue'[x] = mQueue[x] /\ q'[x] = q[x] /\ wire'[x] = wire[x]
    /\ Live(s)' => Out(s)' \subseteq Out(s) /\ (~mClosing => Apart(s)')

\* Such a step keeps the invariant and does not show.
LEMMA LoopOnlyKeeps ==
    ASSUME IInv, NEW s \in Sockets, LoopOnly(s)
    PROVE  IInv' /\ [Service!Next]_(Service!vars)
<1> USE DEF LoopOnly, unsocks, futures, locked
<1>1. MapInv' /\ UNCHANGED Service!vars
  BY Zenon DEF IInv, MapInv, Used, Service!vars
<1>2. LockInv'
  BY Zenon DEF IInv, LockInv, Used, mClosing, Live
<1>3. SocketInv'
  BY DEF IInv, SocketInv, OneSocket, Used, Out, mClosing, Live
<1>4. MatchInv'
  BY DEF IInv, MatchInv, Apart, Live, Out, Held, mClosing
<1>5. SendInv'
  BY DEF IInv, SendInv, SocketInv, OneSocket, Unsent, NextToSend, Live, Out, Held
<1>6. QED
  BY <1>1, <1>2, <1>3, <1>4, <1>5, Zenon DEF IInv

\* The handshake's end, the read of the eventfd, the swap, a write and sslDisconnect() are
\* such steps.
LEMMA LoopMoves ==
    ASSUME IInv, NEW s \in Sockets,
           \/ HandshakeDone(s) \/ ReadEventFd(s) \/ Swap(s) \/ Disconnect(s)
           \/ \E m \in Messages : sendQuery(s, m)
    PROVE  LoopOnly(s)
<1> USE DEF unsocks, futures, locked
<1>1. TypeOK'
  <2> USE DEF IInv, TypeOK
  <2>1. CASE HandshakeDone(s)
    BY <2>1 DEF HandshakeDone
  <2>2. CASE ReadEventFd(s)
    BY <2>2 DEF ReadEventFd
  <2>3. CASE Swap(s)
    BY <2>3 DEF Swap
  <2>4. CASE Disconnect(s)
    BY <2>4 DEF Disconnect
  <2>5. CASE \E m \in Messages : sendQuery(s, m)
    BY <2>5 DEF sendQuery
  <2>6. QED
    BY <2>1, <2>2, <2>3, <2>4, <2>5, Zenon
<1> USE DEF HandshakeDone, ReadEventFd, Swap, Disconnect, sendQuery, IInv, TypeOK, Live
<1>2. /\ UNCHANGED <<futures, mQueries, locked, reconnect, unsocks>>
      /\ Live(s) /\ (Live(s)' \/ at'[s] = "closing")
      /\ \A x \in Sockets \ {s} : at'[x] = at[x] /\ mQueue'[x] = mQueue[x] /\ q'[x] = q[x] /\ wire'[x] = wire[x]
  OBVIOUS
<1>3. Live(s)' => Out(s)' \subseteq Out(s)
  BY DEF Out
<1>4. Live(s)' /\ ~mClosing => Apart(s)'
  BY DEF MatchInv, Apart
<1>5. QED
  BY <1>1, <1>2, <1>3, <1>4, Zenon DEF LoopOnly

\* A step that ends a loop, a reconnect thread or the transport: no connection is opened and
\* nothing is put on one.
Ending ==
    /\ UNCHANGED <<futures, mQueries, todo, mQueue, q, wire>>
    /\ TypeOK' /\ (mClosing => mClosing') /\ \A s \in Sockets : Live(s)' => Live(s)
    /\ step' \in {"send", "event"} => step' = step /\ mSocket' = mSocket /\ at' = at

\* With the lock and the sockets in order, such a step keeps the invariant.
LEMMA EndingKeeps ==
    ASSUME IInv, Ending, LockInv', SocketInv'
    PROVE  IInv' /\ [Service!Next]_(Service!vars)
<1> USE DEF Ending, futures
<1>1. MapInv' /\ UNCHANGED Service!vars
  BY Zenon DEF IInv, MapInv, Used, Service!vars
<1>2. MatchInv'
  BY Zenon DEF IInv, MatchInv, Apart, Out, Held
<1>3. SendInv'
  BY Zenon DEF IInv, SendInv, Unsent, NextToSend, Live, Out, Held
<1>4. QED
  BY <1>1, <1>2, <1>3, Zenon DEF IInv

\* onClosed(): a reconnect thread is started when the loop is over, once the previous one
\* has been joined.
LEMMA OnClosedStep ==
    ASSUME IInv, NEW s \in Sockets, onClosed(s) \/ ReconnectJoined(s)
    PROVE  IInv' /\ [Service!Next]_(Service!vars)
<1> USE DEF onClosed, ReconnectJoined, unsocks, futures
<1>1. TypeOK'
  BY DEF IInv, TypeOK
<1>2. Ending
  BY <1>1 DEF IInv, TypeOK, Ending, LockInv, Live, mClosing
<1>3. LockInv'
  BY DEF IInv, LockInv, SocketInv, OneSocket, Used, mClosing, TypeOK
<1>4. SocketInv'
  BY SocketsAssumption DEF IInv, SocketInv, OneSocket, LockInv, Used, Out, mClosing, TypeOK, Sockets
<1>5. QED
  BY <1>2, <1>3, <1>4, EndingKeeps, Zenon

\* doReconnect() drops the socket when the map is empty; ~DnsTlsTransport() joins the
\* reconnect thread and then destroys the socket.
LEMMA ResetStep ==
    ASSUME IInv, GoIdle \/ DestroyJoins \/ DestroyResets
    PROVE  IInv' /\ [Service!Next]_(Service!vars)
<1> USE DEF GoIdle, DestroyJoins, DestroyResets, Unlock, SocketIsOver, RequestShutdown, futures, locked, socks
<1>1. TypeOK'
  <2>1. CASE DestroyJoins
    BY <2>1, Zenon DEF IInv, TypeOK
  <2>2. CASE GoIdle \/ DestroyResets
    BY <2>2 DEF IInv, TypeOK
  <2>3. QED
    BY <2>1, <2>2, Zenon
<1>2. Ending
  BY <1>1, Zenon DEF IInv, Ending, LockInv, Live, mClosing
<1>3. LockInv'
  BY Zenon DEF IInv, LockInv, Used, mClosing, TypeOK
<1>4. SocketInv'
  BY DEF IInv, SocketInv, OneSocket, LockInv, Used, Out, mClosing, TypeOK
<1>5. QED
  BY <1>2, <1>3, <1>4, EndingKeeps, Zenon

\* sendQuery() pushes a query that is in the map and not on the connection.
LEMMA PushStep ==
    ASSUME IInv, NEW m \in Messages,
           Push(m)
    PROVE  IInv' /\ [Service!Next]_(Service!vars)
<1> USE DEF unsocks, futures, locked, socks
<1>1. TypeOK'
  BY Zenon DEF Push, NextToSend, IInv, TypeOK
<1>2. MapInv'
  BY Zenon DEF Push, NextToSend, IInv, MapInv, Used
<1>3. LockInv'
  BY Zenon DEF Push, NextToSend, IInv, LockInv, Used, mClosing, TypeOK
<1>4. SocketInv'
  BY DEF Push, NextToSend, IInv, SocketInv, OneSocket, LockInv, Used, Out, mClosing,
     TypeOK
<1>5. MatchInv'
  BY DEF Push, NextToSend, IInv, MatchInv, Apart, Live, Out, Held, mClosing, TypeOK, SendInv,
     Unsent, LockInv, SocketInv, OneSocket
<1>6. SendInv'
  BY DEF Push, NextToSend, IInv, SendInv, Unsent, Live, Out, Held, TypeOK, LockInv,
     Messages
<1>7. UNCHANGED Service!vars
  BY Zenon DEF Service!vars, Push, NextToSend
<1>8. QED
  BY <1>1, <1>2, <1>3, <1>4, <1>5, <1>6, <1>7, Zenon DEF IInv

\* expire() on some entries of the map fails their futures and no others.
LEMMA ExpireFacts ==
    ASSUME IInv, NEW ids \in SUBSET Used, Expire(ids)
    PROVE  /\ MapInv'
           /\ mQueries' \in [Ids -> Entries \cup {NoQuery}]
           /\ code' \in [Queries -> {"none", "pending", "success", "network_error", "internal_error"}]
           /\ answer' = answer
           /\ \A i \in Ids : mQueries'[i] = IF i \in ids THEN NoQuery ELSE mQueries[i]
           /\ Used' = Used \ ids
           /\ Service!Next
<1>1. /\ mQueries \in [Ids -> Entries \cup {NoQuery}]
      /\ code \in [Queries -> {"none", "pending", "success", "network_error", "internal_error"}]
  BY Zenon DEF IInv, TypeOK
<1>2. /\ mQueries' \in [Ids -> Entries \cup {NoQuery}]
      /\ \A i \in Ids : mQueries'[i] = IF i \in ids THEN NoQuery ELSE mQueries[i]
      /\ Used' = Used \ ids
  BY <1>1, Zenon DEF Expire, Used
<1> DEFINE failed == {c \in Queries : \E i \in ids : mQueries[i].query = c}
<1>3. \A c \in Queries : code'[c] = IF c \in failed THEN "network_error" ELSE code[c]
  BY Zenon DEF Expire
<1>4. \A i \in Used : mQueries[i].query \in Queries /\ i \in Ids
  BY <1>1, Zenon DEF Used, Entries
<1>5. MapInv'
  BY <1>2, <1>3, <1>4 DEF MapInv, IInv, Used
<1>6. Service!Fail(failed)
  BY <1>4, Zenon DEF Service!Fail, Expire, IInv, MapInv
<1>7. failed \in SUBSET Queries
  BY Zenon
<1>8. QED
  BY <1>1, <1>2, <1>5, <1>6, <1>7, Zenon DEF Service!Next, Expire

\* Destroying the transport fails everything in the map.
LEMMA DestroyStep ==
    ASSUME IInv, Destroy
    PROVE  IInv' /\ [Service!Next]_(Service!vars)
<1>1. Expire(Used)
  BY Zenon DEF Destroy, clear
<1>2. Used' = {} /\ MapInv' /\ Service!Next
  BY <1>1, ExpireFacts
<1>3. TypeOK'
  BY <1>1, ExpireFacts, Zenon DEF IInv, TypeOK, Destroy, locked, socks
<1>4. LockInv' /\ SocketInv' /\ MatchInv' /\ SendInv'
  BY <1>2, Zenon DEF IInv, Destroy, locked, socks, LockInv, SocketInv, MatchInv, SendInv, OneSocket,
              Out, mClosing, Used
<1>5. QED
  BY <1>2, <1>3, <1>4, Zenon DEF IInv

\* A failed connection fails everything in the map; no loop is running then.
LEMMA ConnectFailsStep ==
    ASSUME IInv, ConnectFails
    PROVE  IInv' /\ [Service!Next]_(Service!vars)
<1> USE DEF socks
<1>1. Expire(Used)
  BY Zenon DEF ConnectFails, clear
<1>2. Used' = {} /\ MapInv' /\ Service!Next
  BY <1>1, ExpireFacts
<1>3. TypeOK'
  BY <1>1, ExpireFacts, SocketsAssumption DEF IInv, TypeOK, ConnectFails, Unlock
<1>4. LockInv'
  BY <1>2, Zenon DEF IInv, ConnectFails, Unlock, LockInv, mClosing
<1>5. SocketInv'
  <2>1. OneSocket'
    BY Zenon DEF IInv, ConnectFails, SocketIsOver, SocketInv, OneSocket
  <2>2. \A s \in Sockets : s > mConnectCounter' => at'[s] = "none" /\ Out(s)' = {}
    BY SocketsAssumption DEF IInv, ConnectFails, SocketInv, Out, TypeOK, Sockets
  <2>3. reconnect' # "start" \/ mClosing
    BY Zenon DEF IInv, ConnectFails, Unlock, LockInv, SocketInv
  <2>4. QED
    BY <1>2, <2>1, <2>2, <2>3, Zenon DEF ConnectFails, Unlock, SocketInv, mClosing
<1>6. MatchInv' /\ SendInv'
  BY <1>5 DEF IInv, ConnectFails, Unlock, SocketIsOver, SocketInv, OneSocket, MatchInv, SendInv,
              Live, TypeOK, Sockets
<1>7. QED
  BY <1>2, <1>3, <1>4, <1>5, <1>6, Zenon DEF IInv

\* doReconnect() expires what was tried too often; the loop has ended before.
LEMMA ReconnectStep ==
    ASSUME IInv, doReconnect
    PROVE  IInv' /\ [Service!Next]_(Service!vars)
<1>1. CASE mClosing
  <2>1. TypeOK'
    BY <1>1, Zenon DEF doReconnect, futures, IInv, TypeOK
  <2>2. Ending
    BY <1>1, <2>1, Zenon DEF doReconnect, futures, Ending, Live, mClosing
  <2>3. LockInv'
    BY <1>1, Zenon DEF doReconnect, futures, IInv, LockInv, Used, mClosing
  <2>4. SocketInv'
    BY <1>1, Zenon DEF doReconnect, futures, IInv, SocketInv, OneSocket, Out, Used, mClosing
  <2>5. QED
    BY <2>2, <2>3, <2>4, EndingKeeps, Zenon
<1>2. CASE ~mClosing
  <2>1. Expire(Worn) /\ Worn \in SUBSET Used
    BY <1>2, Zenon DEF doReconnect, cleanup, Worn
  <2>2. MapInv' /\ Service!Next /\ Used' = Used \ Worn
    BY <2>1, ExpireFacts, Zenon
  <2>3. \A i \in Used' : i \in Used /\ mQueries'[i] = mQueries[i] /\ mQueries[i].tries < mMaxTries
    <3>1. \A i \in Used' : i \in Used /\ i \notin Worn /\ i \in Ids
      BY <2>2, Zenon DEF Used
    <3>2. \A i \in Used : mQueries[i].tries \in Nat
      BY TriesAssumption DEF Used, IInv, TypeOK, Entries
    <3>3. QED
      BY <3>1, <3>2, <2>1, ExpireFacts, TriesAssumption DEF Worn
  <2>4. TypeOK'
    <3>1. shutdown' \in [Sockets -> BOOLEAN]
      BY Zenon, <1>2 DEF doReconnect, RequestShutdown, IInv, TypeOK
    <3>2. QED
      BY <1>2, <2>1, <3>1, ExpireFacts, Zenon DEF doReconnect, IInv, TypeOK
  <2>5. LockInv'
    BY <1>2, Zenon DEF doReconnect, IInv, LockInv, SocketInv, mClosing
  <2>6. SocketInv'
    BY <1>2, <2>2, <2>3, Zenon DEF doReconnect, IInv, LockInv, SocketInv, OneSocket, Out, mClosing, Used, Worn
  <2>7. \A s \in Sockets : ~Live(s)'
    BY <1>2, Zenon DEF doReconnect, IInv, SocketInv, OneSocket, Live
  <2>8. MatchInv' /\ SendInv'
    BY <1>2, <2>7, Zenon DEF doReconnect, MatchInv, SendInv
  <2>9. QED
    BY <2>2, <2>4, <2>5, <2>6, <2>8, Zenon DEF IInv
<1>3. QED
  BY <1>1, <1>2, Zenon

----------------------------------------------------------------------------

\* A new connection carries nothing yet, and everything in the map is to be sent.
LEMMA ConnectedStep ==
    ASSUME IInv, Connected
    PROVE  IInv' /\ [Service!Next]_(Service!vars)
<1> DEFINE n == mConnectCounter + 1
<1> USE DEF futures
<1>1. /\ mConnectCounter \in Nat /\ n \in Sockets /\ step = "connect"
      /\ at[n] = "none" /\ Out(n) = {}
      /\ \A s \in Sockets : at[s] \notin {"handshake", "poll", "swap", "closing", "join"}
  BY SocketsAssumption DEF Connected, SocketIsOver, IInv, TypeOK, SocketInv, OneSocket, Sockets
<1>2. \A m \in getAll : /\ m \in Messages /\ m.id \in Used
                        /\ mQueries[m.id].query = m.query
  BY DEF getAll, Used, IInv, TypeOK, Entries, Messages
<1>3. TypeOK'
  BY <1>1, <1>2, SocketsAssumption DEF Connected, Unlock, IInv, TypeOK, Sockets
<1>4. MapInv' /\ UNCHANGED Service!vars
  BY Zenon DEF Connected, IInv, MapInv, Used, Service!vars
<1>5. LockInv'
  BY <1>1 DEF Connected, Unlock, IInv, LockInv, Used, mClosing, TypeOK
<1>6. SocketInv'
  <2>1. OneSocket'
    BY <1>1, Zenon DEF Connected, OneSocket, IInv, TypeOK
  <2>2. \A s \in Sockets : s > n => at'[s] = "none" /\ Out(s)' = {}
    BY <1>1 DEF Connected, Out, IInv, TypeOK, SocketInv, Sockets
  <2>3. reconnect' # "start"
    BY <1>1, Zenon DEF Connected, Unlock, IInv, LockInv, SocketInv, mClosing
  <2>4. QED
    BY <1>1, <2>1, <2>2, <2>3 DEF Connected, Unlock, SocketInv
<1>7. \A s \in Sockets : Live(s)' => s = n /\ Out(s)' = {}
  BY <1>1, Zenon DEF Connected, Live, Out, IInv, TypeOK
<1>8. MatchInv'
  BY <1>7, Zenon DEF MatchInv, Apart, Out
<1>9. SendInv'
  <2>1. \A m, x \in getAll : m.id = x.id => m = x
    BY DEF getAll
  <2>2. \A m \in getAll : mQueries[m.id].tries < mMaxTries
    BY <1>1, <1>2, Zenon DEF IInv, SocketInv
  <2>3. \A m \in getAll : Unsent(m)'
    BY <1>1, <1>2, <1>7, Zenon DEF Connected, Unsent, Held, Used
  <2>4. todo' = getAll /\ mQueries' = mQueries
    BY Zenon DEF Connected
  <2>5. QED
    BY <2>1, <2>2, <2>3, <2>4, Zenon DEF SendInv
<1>10. QED
  BY <1>3, <1>4, <1>5, <1>6, <1>8, <1>9, Zenon DEF IInv

\* Incrementing the eventfd and marking: the query just pushed leaves todo.
LEMMA EventStep ==
    ASSUME IInv, NEW m \in Messages, IncrementEventFd(m)
    PROVE  IInv' /\ [Service!Next]_(Service!vars)
<1> USE DEF futures
<1>0. /\ step = "event" /\ m \in todo /\ m.id \in Ids /\ todo' = todo \ {m}
      /\ step' \in {"-", "send"}
  BY Zenon DEF IncrementEventFd, NextToSend, Messages, Unlock
<1>1. /\ mQueries' \in [Ids -> Entries \cup {NoQuery}]
      /\ \A i \in Ids : mQueries'[i] = NoQuery <=> mQueries[i] = NoQuery
      /\ \A i \in Ids : mQueries[i] # NoQuery => mQueries'[i].query = mQueries[i].query
      /\ \A i \in Ids : i # m.id => mQueries'[i] = mQueries[i]
  <2>1. mQueries \in [Ids -> Entries \cup {NoQuery}]
    BY Zenon DEF IInv, TypeOK
  <2>2. CASE mQueries[m.id] = NoQuery
    BY <2>1, <2>2, Zenon DEF IncrementEventFd, markTried
  <2>3. CASE mQueries[m.id] # NoQuery
    <3> DEFINE e == [query |-> mQueries[m.id].query, tries |-> mQueries[m.id].tries + 1]
    <3>1. mQueries[m.id] \in Entries /\ mQueries[m.id].tries < mMaxTries
      BY <1>0, <2>1, <2>3, Zenon DEF IInv, SendInv
    <3>2. e \in Entries /\ e.query = mQueries[m.id].query
      BY <3>1, TriesAssumption DEF Entries
    <3>3. e # NoQuery
      BY <3>2, NoQueryAssumption, Zenon
    <3>4. mQueries' = [mQueries EXCEPT ![m.id] = e]
      BY <2>3, Zenon DEF IncrementEventFd, markTried
    <3> HIDE DEF e
    <3>5. QED
      BY <1>0, <2>1, <2>3, <3>2, <3>3, <3>4, Zenon
  <2>4. QED
    BY <2>2, <2>3, Zenon
<1>2. Used' = Used
  BY <1>1, Zenon DEF Used
<1>3. TypeOK'
  BY Zenon, <1>0, <1>1 DEF IncrementEventFd, Unlock, IInv, TypeOK
<1>4. MapInv' /\ UNCHANGED Service!vars
  BY <1>1, <1>2, Zenon DEF IncrementEventFd, IInv, MapInv, Used, Service!vars
<1>5. LockInv'
  BY <1>0, <1>2, Zenon DEF IncrementEventFd, Unlock, IInv, LockInv, mClosing
<1>6. SocketInv'
  BY <1>0, <1>2, Zenon DEF IncrementEventFd, Unlock, IInv, SocketInv, LockInv, OneSocket, Out, mClosing
<1>7. MatchInv'
  <2>1. \A x \in Messages : Held(x) => Held(x)'
    BY <1>1, Zenon DEF Held, Messages
  <2>2. \A s \in Sockets : Out(s) \subseteq Messages
    BY Zenon DEF IInv, TypeOK, Out
  <2>3. QED
    BY <2>1, <2>2, Zenon DEF IncrementEventFd, IInv, MatchInv, Apart, Live, Out, mClosing
<1>8. SendInv'
  <2>1. \A x \in todo' : x \in Messages /\ x \in todo /\ x.id # m.id /\ Unsent(x)
    <3>1. \A x \in todo' : x \in todo /\ x \in Messages /\ x.id \in Nat /\ x.id # m.id
      BY <1>0, MaxIdAssumption DEF IInv, TypeOK, SendInv, Messages, Ids
    <3>2. \A x \in todo' : ~NextToSend(x)
      BY <1>0, <3>1, MaxIdAssumption DEF IncrementEventFd, NextToSend, Ids
    <3>3. QED
      BY <1>0, <3>1, <3>2, Zenon DEF IInv, SendInv
  <2>2. \A x \in todo' : mQueries'[x.id] = mQueries[x.id]
    BY <1>1, <2>1, Zenon DEF Messages
  <2>3. \A x \in todo' : Unsent(x)'
    BY <2>1, <2>2, Zenon DEF Unsent, Held, Live, Out, IncrementEventFd
  <2>4. QED
    BY <1>0, <2>1, <2>2, <2>3, Zenon DEF SendInv, IInv
<1>9. QED
  BY <1>3, <1>4, <1>5, <1>6, <1>7, <1>8, Zenon DEF IInv

\* A response resolves the query it answers: its id has not been used again.
LEMMA ResponseStep ==
    ASSUME IInv, NEW s \in Sockets, NEW m \in Messages, readResponse(s, m)
    PROVE  IInv' /\ [Service!Next]_(Service!vars)
<1> USE DEF locked, unsocks
<1>1. /\ m.id \in Ids /\ m.query \in Queries /\ Live(s) /\ m \in wire[s] /\ s = mSocket
      /\ mQueries \in [Ids -> Entries \cup {NoQuery}]
  BY Zenon DEF readResponse, Messages, Live, IInv, SocketInv, OneSocket, TypeOK
<1>2. CASE mClosing
  <2>1. UNCHANGED <<code, answer, mQueries>>
    BY <1>1, <1>2, Zenon DEF readResponse, onResponse, IInv, LockInv, Used, futures
  <2>2. wire' \in [Sockets -> SUBSET Messages] /\ \A x \in Sockets : wire'[x] \subseteq wire[x]
    BY Zenon DEF readResponse, IInv, TypeOK
  <2>3. TypeOK' /\ MapInv' /\ LockInv' /\ UNCHANGED Service!vars
    BY <2>1, <2>2 DEF readResponse, IInv, TypeOK, MapInv, LockInv, Used, mClosing, Service!vars
  <2>4. SocketInv'
    BY <2>1, <2>2, Zenon DEF readResponse, IInv, SocketInv, OneSocket, Out, Used, mClosing
  <2>5. MatchInv' /\ SendInv'
    BY <1>2, Zenon DEF readResponse, IInv, MatchInv, SendInv, LockInv, mClosing
  <2>6. QED
    BY <2>3, <2>4, <2>5, Zenon DEF IInv
<1>3. CASE ~mClosing
  <2>1. Held(m) /\ m.id \in Used
    BY <1>1, <1>3, Zenon DEF IInv, MatchInv, Apart, Out, Held, Used
  <2>2. /\ code' = [code EXCEPT ![m.query] = "success"]
        /\ answer' = [answer EXCEPT ![m.query] = m.query]
        /\ mQueries' = [mQueries EXCEPT ![m.id] = NoQuery]
        /\ wire' = [wire EXCEPT ![s] = @ \ {m}]
        /\ UNCHANGED <<locked, reconnect, unsocks, at, mQueue, event, q>>
    BY <2>1, Zenon DEF readResponse, onResponse, Held
  <2>3. code[m.query] = "pending"
    BY <2>1, Zenon DEF IInv, MapInv, Held
  <2>4. Service!Next
    BY Zenon, <1>1, <2>2, <2>3 DEF Service!Next, Service!Answer
  <2>5. Used' = Used \ {m.id} /\ \A i \in Ids : i # m.id => mQueries'[i] = mQueries[i]
    BY <1>1, <2>2, Zenon DEF Used
  <2>6. TypeOK'
    BY <1>1, <2>2 DEF IInv, TypeOK
  <2>7. MapInv'
    <3>1. \A i \in Used' : /\ i \in Used /\ mQueries'[i] = mQueries[i]
                           /\ mQueries[i].query # m.query /\ mQueries[i].query \in Queries
      BY <1>1, <2>1, <2>5, Zenon DEF IInv, MapInv, Held, Used, Entries
    <3>2. \A i \in Used' : code'[mQueries'[i].query] = "pending"
      BY <2>2, <3>1 DEF IInv, MapInv, TypeOK
    <3>3. QED
      BY <3>1, <3>2 DEF IInv, MapInv
  <2>8. LockInv'
    BY <2>2, <2>5, Zenon DEF IInv, LockInv, mClosing
  <2>9. SocketInv'
    BY <1>1, <2>2, <2>5 DEF IInv, SocketInv, OneSocket, Out, TypeOK, mClosing, Used
  <2>10. \A x \in Messages : Held(x) /\ x # m => Held(x)'
    BY <2>1, <2>5 DEF Held, Messages
  <2>11. Live(s)' /\ Out(s)' = Out(s) \ {m}
    BY <1>1, <1>3, <2>2 DEF IInv, MatchInv, Apart, Live, Out, TypeOK
  <2>12. MatchInv'
    BY <1>1, <1>3, <2>2, <2>10, <2>11 DEF IInv, MatchInv, Apart, SocketInv, OneSocket, Live, Out, TypeOK, mClosing
  <2>13. SendInv'
    <3> SUFFICES ASSUME step \in {"send", "event"} PROVE SendInv'
      BY <2>2, Zenon DEF SendInv
    <3>1. \A x \in todo : x \in Messages /\ (mQueries'[x.id] # NoQuery => mQueries'[x.id] = mQueries[x.id])
      BY <1>1, <2>2, Zenon DEF IInv, TypeOK, Messages
    <3>2. \A x \in todo : Unsent(x) => Unsent(x)'
      BY <1>1, <2>2, <2>10, <2>11, <3>1, Zenon DEF Unsent, Out
    <3>3. QED
      BY <2>2, <3>1, <3>2, Zenon DEF IInv, SendInv, NextToSend
  <2>14. QED
    BY <2>4, <2>6, <2>7, <2>8, <2>9, <2>12, <2>13, Zenon DEF IInv
<1>4. QED
  BY <1>2, <1>3, Zenon

\* query() puts a new entry under an id that is free.
LEMMA FreeIsUnused ==
    ASSUME NEW i \in Ids, FreeId(i)
    PROVE  i \notin Used
  BY MaxIdAssumption DEF FreeId, Used, Ids

\* query() records a query under a free id, or gives an internal_error.
LEMMA RecordedStep ==
    ASSUME IInv, NEW c \in Queries, query(c)
    PROVE  IInv' /\ [Service!Next]_(Service!vars)
<1>0. /\ holder = "nobody" /\ step = "-" /\ ~mClosing /\ code[c] = "none"
      /\ UNCHANGED <<mSocket, mConnectCounter, reconnect, dtor, at, mQueue, event, q, wire>>
  BY Zenon DEF query, IInv, LockInv
<1>1. CASE /\ code' = [code EXCEPT ![c] = "internal_error"]
           /\ UNCHANGED <<answer, mQueries, locked, shutdown>>
  <2> USE <1>0, <1>1 DEF locked
  <2>1. TypeOK'
    BY Zenon DEF IInv, TypeOK
  <2>2. MapInv'
    BY Zenon DEF IInv, TypeOK, MapInv, Used, Entries
  <2>3. LockInv' /\ SocketInv' /\ MatchInv' /\ SendInv'
    <3>1. LockInv'
      BY Zenon DEF IInv, LockInv, Used, mClosing
    <3>2. SocketInv'
      BY Zenon DEF IInv, SocketInv, OneSocket, Used, Out, mClosing
    <3>3. MatchInv'
      BY DEF IInv, MatchInv, Apart, Live, Out, Held, mClosing
    <3>4. SendInv'
      BY Zenon DEF SendInv
    <3>5. QED
      BY <3>1, <3>2, <3>3, <3>4, Zenon
  <2>4. Service!Next
    BY Zenon DEF Service!Next, Service!Submit
  <2>5. QED
    BY <2>1, <2>2, <2>3, <2>4, Zenon DEF IInv
<1>2. CASE ~UNCHANGED locked
  <2>1. PICK i \in Ids :
          /\ FreeId(i)
          /\ recordQuery(c, i)
          /\ holder' = "client"
          /\ IF mSocket = 0 THEN step' = "connect" /\ todo' = {} /\ RequestShutdown
             ELSE step' = "send" /\ todo' = {[id |-> i, query |-> c]} /\ UNCHANGED shutdown
    BY <1>2, Zenon DEF query
  <2> DEFINE e == [query |-> c, tries |-> 0]
             m == [id |-> i, query |-> c]
  <2>2. e \in Entries /\ e # NoQuery /\ e.query = c /\ e.tries = 0
    BY TriesAssumption, NoQueryAssumption DEF Entries
  <2>3. m \in Messages /\ m.id = i /\ m.query = c
    BY Zenon DEF Messages
  <2>4. /\ mQueries \in [Ids -> Entries \cup {NoQuery}] /\ i \notin Used
        /\ code \in [Queries -> {"none", "pending", "success", "network_error", "internal_error"}]
    BY <2>1, FreeIsUnused, Zenon DEF IInv, TypeOK
  <2>5. /\ mQueries' = [mQueries EXCEPT ![i] = e]
        /\ code' = [code EXCEPT ![c] = "pending"] /\ answer' = answer
    BY <2>1, Zenon DEF recordQuery
  <2>6. /\ step' = IF mSocket = 0 THEN "connect" ELSE "send"
        /\ todo' = IF mSocket = 0 THEN {} ELSE {m}
    BY <2>1, Zenon
  <2> HIDE DEF e, m
  <2>7. /\ mQueries' \in [Ids -> Entries \cup {NoQuery}] /\ mQueries'[i] = e
        /\ \A j \in Ids : j # i => mQueries'[j] = mQueries[j]
        /\ Used' = Used \cup {i}
    BY <2>2, <2>4, <2>5, Zenon DEF Used
  <2>8. TypeOK'
    <3>1. shutdown' \in [Sockets -> BOOLEAN]
      BY Zenon, <2>1 DEF RequestShutdown, IInv, TypeOK
    <3>2. QED
      BY <1>0, <2>1, <2>3, <2>4, <2>5, <2>6, <2>7, <3>1, Zenon DEF IInv, TypeOK
  <2>9. MapInv'
    <3>1. \A j \in Used : mQueries[j].query # c /\ mQueries[j].query \in Queries /\ j \in Ids /\ j # i
      BY <1>0, <2>4, Zenon DEF IInv, MapInv, Used, Entries
    <3>2. QED
      BY <3>1, <2>2, <2>4, <2>5, <2>7 DEF IInv, MapInv
  <2>10. LockInv'
    BY <1>0, <2>1, <2>6, Zenon DEF IInv, LockInv, mClosing
  <2>11. SocketInv'
    <3>1. /\ OneSocket'
          /\ \A s \in Sockets : s > mConnectCounter' => at'[s] = "none" /\ Out(s)' = {}
      BY <1>0, Zenon DEF IInv, SocketInv, OneSocket, Out
    <3>2. reconnect' = "start" /\ ~mClosing' => mSocket' # 0 /\ at'[mSocket'] = "ended"
      BY <1>0, Zenon DEF IInv, SocketInv, mClosing
    <3>3. (mSocket' = 0 => step' = "connect") /\ step' # "reset"
      BY <1>0, <2>6, Zenon
    <3>4. step' = "connect" => \A j \in Used' : mQueries'[j].tries < mMaxTries
      <4>1. ASSUME step' = "connect" PROVE mSocket = 0 /\ Used = {}
        BY <4>1, <1>0, <2>6, Zenon DEF IInv, SocketInv
      <4>2. mQueries'[i].tries < mMaxTries
        BY <2>2, <2>7, TriesAssumption
      <4>3. QED
        BY <4>1, <4>2, <2>7, Zenon
    <3>5. QED
      BY <3>1, <3>2, <3>3, <3>4, Zenon DEF SocketInv
  <2>12. \A x \in Messages : Held(x) => Held(x)' /\ x.id # i
    BY <2>4, <2>7, Zenon DEF Held, Messages, Used
  <2>13. \A s \in Sockets : Live(s) => \A x \in Out(s) : x \in Messages /\ Held(x)
    BY <1>0, Zenon DEF IInv, MatchInv, Apart, TypeOK, Out
  <2>14. MatchInv'
    BY <1>0, <2>12, <2>13, Zenon DEF IInv, MatchInv, Apart, Live, Out
  <2>15. SendInv'
    <3>1. ASSUME mSocket # 0 PROVE Unsent(m)'
      <4>1. mSocket \in Sockets
        BY <3>1, SocketsAssumption DEF IInv, TypeOK, Sockets
      <4>2. Held(m)'
        BY <2>2, <2>3, <2>7, Zenon DEF Held
      <4>3. Live(mSocket) => m \notin Out(mSocket)
        BY <4>1, <2>3, <2>12, <2>13, Zenon
      <4>4. QED
        BY <1>0, <4>2, <4>3, Zenon DEF Unsent, Live, Out
    <3>2. QED
      BY <3>1, <2>2, <2>3, <2>6, <2>7, TriesAssumption DEF SendInv
  <2>16. Service!Next
    BY Zenon, <1>0, <2>5 DEF Service!Next, Service!Submit
  <2>17. QED
    BY <2>8, <2>9, <2>10, <2>11, <2>14, <2>15, <2>16, Zenon DEF IInv
<1>3. QED
  BY <1>0, <1>1, <1>2, Zenon DEF query, locked

\* Every step keeps the invariant and is a step of the service or none.
LEMMA NextIInv == IInv /\ [Next]_vars => IInv' /\ [Service!Next]_(Service!vars)
<1> SUFFICES ASSUME IInv, [Next]_vars PROVE IInv' /\ [Service!Next]_(Service!vars)
  BY Zenon
<1>1. CASE UNCHANGED vars
  <2> USE DEF vars, futures, locked, socks
  <2>1. TypeOK'
    BY <1>1 DEF IInv, TypeOK
  <2>2. Ending
    BY <1>1, <2>1, Zenon DEF Ending, Live, mClosing
  <2>3. LockInv'
    BY <1>1, Zenon DEF IInv, LockInv, Used, mClosing
  <2>4. SocketInv'
    BY <1>1, Zenon DEF IInv, SocketInv, OneSocket, Out, Used, mClosing
  <2>5. QED
    BY <2>2, <2>3, <2>4, EndingKeeps, Zenon
<1>2. CASE \E c \in Queries : query(c)
  BY <1>2, RecordedStep, Zenon
<1>3. CASE HolderStep
  BY <1>3, ConnectFailsStep, ConnectedStep, ResetStep, PushStep, EventStep, Zenon DEF HolderStep
<1>4. ASSUME NEW s \in Sockets, LoopStep(s) PROVE IInv' /\ [Service!Next]_(Service!vars)
  BY <1>4, LoopMoves, LoopOnlyKeeps, OnClosedStep, Zenon DEF LoopStep
<1>5. CASE \E s \in Sockets, m \in Messages : readResponse(s, m)
  BY <1>5, ResponseStep, Zenon
<1>6. CASE doReconnect \/ Destroy \/ DestroyJoins \/ DestroyResets
  BY <1>6, ReconnectStep, DestroyStep, ResetStep, Zenon
<1>7. QED
  BY <1>1, <1>2, <1>3, <1>4, <1>5, <1>6, Zenon DEF Next

\* The type invariant, which includes that no query is tried more than mMaxTries
\* times (DnsTlsQueryMap: "Limited to kMaxTries").
THEOREM TypeCorrect == Spec => []TypeOK
<1>1. IInv => TypeOK
  BY Zenon DEF IInv
<1>2. QED
  BY <1>1, InitIInv, NextIInv, PTL DEF Spec

\* At most one socket has a running loop thread, and it is mSocket.
THEOREM OnlyOneSocket == Spec => []OneSocket
<1>1. IInv => OneSocket
  BY Zenon DEF IInv, SocketInv
<1>2. QED
  BY <1>1, InitIInv, NextIInv, PTL DEF Spec

\* DnsTlsTransport, with its map, sockets, reconnects and threads, implements
\* QueryService: one result per query, and only the answer to that query.
THEOREM TransportImplementsService == Spec => ImplementsService
<1>1. QED
  BY InitIInv, NextIInv, PTL DEF Spec, ImplementsService, Service!Spec

----------------------------------------------------------------------------
(* The dispatcher                                                           *)

\* A call that uses a transport, its key, and the threads that use transport i.
Uses(c) == c.at \in {"using", "finish"}
Key(c) == <<c.netid, Head(c.servers)>>
Users(f, i) == {t \in Threads : Uses(f[t]) /\ f[t].xport = i}

\* The transports of a store have numbers of their own among the first m; each counts its
\* users, and one that has asked for a revalidation remembers it.
StoreInv(store, f, m, a) ==
    /\ \A k \in Keys : store[k] # NoTransport =>
         /\ store[k].number \in 1..m
         /\ store[k].useCount = Cardinality(Users(f, store[k].number))
         /\ a[store[k].number] = 0 \/ store[k].isRevalidationThresholdReached
    /\ \A k, l \in Keys :
         store[k] # NoTransport /\ store[l] # NoTransport /\ store[k].number = store[l].number => k = l

\* A thread that uses a transport finds it in the store.
CallInv(store, f) ==
    \A t \in Threads : Uses(f[t]) =>
        /\ f[t].servers # <<>>
        /\ store[Key(f[t])] # NoTransport
        /\ store[Key(f[t])].number = f[t].xport

DispatcherInv ==
    /\ DispatcherTypeOK
    /\ StoreInv(mStore, call, made, asked)
    /\ CallInv(mStore, call)
    /\ AsksOnce

Stores == [Keys -> Transport \cup {NoTransport}]

\* The lists of servers are sequences.
LEMMA ListsAreSeqs == Lists \cup {<<>>} \subseteq Seq(Servers)
<1>0. <<>> \in Seq(Servers)
  OBVIOUS
<1> SUFFICES ASSUME NEW s \in Lists PROVE s \in Seq(Servers)
  BY <1>0, Zenon
<1>1. PICK k \in 1..Cardinality(Servers) : s \in [1..k -> Servers]
  BY Zenon DEF Lists
<1>2. Cardinality(Servers) \in Nat
  BY ServersAssumption, FS_CardinalityType, Zenon
<1>3. k \in Nat
  BY <1>1, <1>2
<1> QED
  BY <1>1, <1>3

\* The key of a call that has servers.
LEMMA KeyOfCall ==
    ASSUME NEW c \in Calls, c.servers # <<>>
    PROVE  Key(c) \in Keys
<1>1. c.netid \in NetIds /\ c.servers \in Seq(Servers)
  BY Zenon DEF Calls
<1>2. Head(c.servers) \in Servers
  BY <1>1
<1> QED
  BY <1>1, <1>2, Zenon DEF Key, Keys

\* A set of users is finite, and its cardinality 0 only without users.
LEMMA UsersFinite ==
    ASSUME NEW f, NEW i
    PROVE  /\ IsFiniteSet(Users(f, i)) /\ Cardinality(Users(f, i)) \in Nat
           /\ Cardinality(Users(f, i)) = 0 => Users(f, i) = {}
<1>1. Users(f, i) \in SUBSET Threads
  BY Zenon DEF Users
<1> QED
  BY <1>1, ThreadsAssumption, FS_Subset, FS_CardinalityType, FS_EmptySet, Zenon

\* A thread that uses nothing before and after changes no set of users.
LEMMA SameUsers ==
    ASSUME NEW f, NEW g, NEW t \in Threads, ~Uses(f[t]), ~Uses(g[t]),
           \A x \in Threads : x # t => g[x] = f[x], NEW i
    PROVE  Users(g, i) = Users(f, i)
  BY Zenon DEF Users

\* Nor does one that goes on using its transport.
LEMMA StillUsers ==
    ASSUME NEW f, NEW g, NEW t \in Threads, Uses(f[t]), Uses(g[t]), g[t].xport = f[t].xport,
           \A x \in Threads : x # t => g[x] = f[x], NEW i
    PROVE  Users(g, i) = Users(f, i)
  BY Zenon DEF Users

\* cleanup() drops no transport in use.
LEMMA CleanupKeeps ==
    ASSUME NEW store \in Stores, NEW f \in [Threads -> Calls], NEW m, NEW a, NEW now, NEW netId,
           StoreInv(store, f, m, a), CallInv(store, f)
    PROVE  /\ cleanupStore(store, now, netId) \in Stores
           /\ StoreInv(cleanupStore(store, now, netId), f, m, a)
           /\ CallInv(cleanupStore(store, now, netId), f)
<1> DEFINE s == cleanupStore(store, now, netId)
<1>1. \A k \in Keys : /\ s[k] = store[k] \/ s[k] = NoTransport
                      /\ s[k] # store[k] => store[k].useCount = 0
  BY Zenon DEF cleanupStore, Expired
<1>2. s \in Stores
  BY <1>1, Zenon DEF Stores, cleanupStore
<1> HIDE DEF s
<1>3. StoreInv(s, f, m, a)
  BY <1>1, Zenon DEF StoreInv
<1>4. ASSUME NEW t \in Threads, Uses(f[t])
      PROVE  s[Key(f[t])] = store[Key(f[t])]
  <2>1. Key(f[t]) \in Keys /\ store[Key(f[t])] # NoTransport /\ store[Key(f[t])].number = f[t].xport
    BY <1>4, KeyOfCall, Zenon DEF CallInv
  <2>2. t \in Users(f, store[Key(f[t])].number)
    BY <1>4, <2>1, Zenon DEF Users
  <2>3. store[Key(f[t])].useCount # 0
    BY <2>1, <2>2, UsersFinite, Zenon DEF StoreInv
  <2> QED
    BY <1>1, <2>1, <2>3, Zenon
<1>5. CallInv(s, f)
  BY <1>4, Zenon DEF CallInv
<1> QED
  BY <1>2, <1>3, <1>5, Zenon DEF s

\* maybeCleanup() leaves the store as it is given, or cleans it up.
LEMMA MaybeCleanupKeeps ==
    ASSUME NEW store \in Stores, NEW f \in [Threads -> Calls], NEW m, NEW a, NEW now \in Times,
           StoreInv(store, f, m, a), CallInv(store, f), mLastCleanup \in Times, maybeCleanup(store, now)
    PROVE  mStore' \in Stores /\ StoreInv(mStore', f, m, a) /\ CallInv(mStore', f) /\ mLastCleanup' \in Times
<1>1. CASE mStore' = store /\ UNCHANGED mLastCleanup
  BY <1>1
<1>2. CASE mStore' = cleanupStore(store, now, {}) /\ mLastCleanup' = now
  BY <1>2, CleanupKeeps, Zenon
<1> QED
  BY <1>1, <1>2, Zenon DEF maybeCleanup

\* NoCall is a call that uses nothing.
LEMMA NoCallIsCall == NoCall \in Calls /\ ~Uses(NoCall)
<1>1. (CHOOSE n \in NetIds : TRUE) \in NetIds
  BY ServersAssumption, Zenon
<1>2. 0 \in Times /\ 0 \in Nat /\ <<>> \in Seq(Servers) /\ {} \in SUBSET Nat
  BY NumberAssumption DEF Times
<1>3. NoCall.at = "idle"
  BY DEF NoCall
<1>4. NoCall \in Calls
  BY <1>1, <1>2 DEF NoCall, Calls, Places, Codes
<1> QED
  BY <1>3, <1>4 DEF Uses

\* The invariant holds at first.
LEMMA DispatcherInitInv == DispatcherInit => DispatcherInv
<1> SUFFICES ASSUME DispatcherInit PROVE DispatcherInv
  OBVIOUS
<1>1. DispatcherTypeOK
  BY NoCallIsCall, NumberAssumption DEF DispatcherInit, DispatcherTypeOK, Times
<1>2. \A k \in Keys : mStore[k] = NoTransport
  BY DEF DispatcherInit
<1>3. \A t \in Threads : ~Uses(call[t])
  BY NoCallIsCall DEF DispatcherInit
<1>4. AsksOnce
  BY DEF DispatcherInit, AsksOnce
<1> QED
  BY <1>1, <1>2, <1>3, <1>4, Zenon DEF DispatcherInv, StoreInv, CallInv

\* A call that uses nothing, and the rest of the state, leave the invariant of the store alone.
LEMMA IdleKeeps ==
    ASSUME NEW store, NEW f \in [Threads -> Calls], NEW m, NEW a, NEW t \in Threads, NEW c \in Calls,
           ~Uses(f[t]), ~Uses(c), StoreInv(store, f, m, a), CallInv(store, f),
           NEW g, g = [f EXCEPT ![t] = c]
    PROVE  g \in [Threads -> Calls] /\ StoreInv(store, g, m, a) /\ CallInv(store, g)
<1>1. /\ g \in [Threads -> Calls] /\ g[t] = c
      /\ \A x \in Threads : x # t => g[x] = f[x]
  OBVIOUS
<1>2. \A i : Users(g, i) = Users(f, i)
  BY <1>1, SameUsers, Zenon
<1> QED
  BY <1>1, <1>2, Zenon DEF StoreInv, CallInv

\* The number, the use count and the flag of a marked transport.
LEMMA MarkedSame ==
    ASSUME NEW x \in Transport
    PROVE  /\ MarkedUnusable(x) \in Transport
           /\ MarkedUnusable(x).number = x.number /\ MarkedUnusable(x).useCount = x.useCount
           /\ MarkedUnusable(x).isRevalidationThresholdReached = x.isRevalidationThresholdReached
  BY Zenon DEF MarkedUnusable, Transport

\* getOrderedAndUsableServerList() leaves only marks.
LEMMA ListInv ==
    ASSUME DispatcherInv, NEW t \in Threads, NEW n \in NetIds, NEW list \in Lists,
           getOrderedAndUsableServerList(t, n, list)
    PROVE  DispatcherInv'
<1> USE DEF DispatcherInv
<1>1. PICK out \in Lists \cup {<<>>}, skip \in SUBSET Nat :
        call' = [call EXCEPT ![t] = [NoCall EXCEPT
                   !.at = "listed", !.netid = n, !.servers = out, !.skip = skip]]
  <2>1. PICK out \in Lists \cup {<<>>} : call' = [call EXCEPT ![t] = [NoCall EXCEPT
                   !.at = "listed", !.netid = n, !.servers = out,
                   !.skip = {x.number : x \in {y \in Transports(mStore') :
                                y.isXportUnusableThresholdReached}}]]
    BY Zenon DEF getOrderedAndUsableServerList
  <2>2. {x.number : x \in {y \in Transports(mStore') : y.isXportUnusableThresholdReached}} \in SUBSET Nat
    <3>1. mStore' \in Stores
      BY MarkedSame, Zenon DEF getOrderedAndUsableServerList, Looked, Stores, getTransport, DispatcherTypeOK
    <3>2. \A x \in Transports(mStore') : x \in Transport
      BY <3>1, Zenon DEF Transports, Stores
    <3>3. \A x \in Transport : x.number \in Nat
      BY Zenon DEF Transport
    <3> QED
      BY <3>2, <3>3, Zenon
  <2> QED
    BY <2>1, <2>2, Zenon
<1> DEFINE c == [NoCall EXCEPT !.at = "listed", !.netid = n, !.servers = out, !.skip = skip]
<1>2. c \in Calls /\ c.at = "listed"
  <2>1. out \in Seq(Servers)
    BY ListsAreSeqs, Zenon
  <2> QED
    BY <2>1, NoCallIsCall, Zenon DEF Calls, Places, Codes
<1> HIDE DEF c
<1>3. ~Uses(c) /\ ~Uses(call[t])
  BY <1>2 DEF Uses, getOrderedAndUsableServerList
<1>4. call \in [Threads -> Calls] /\ mStore \in Stores
  BY Zenon DEF DispatcherTypeOK, Stores
<1>5. /\ call' \in [Threads -> Calls]
      /\ StoreInv(mStore, call', made, asked) /\ CallInv(mStore, call')
  BY <1>1, <1>2, <1>3, <1>4, IdleKeeps, Zenon DEF c
<1>6. /\ mStore' \in Stores
      /\ \A k \in Keys : /\ mStore'[k] = NoTransport <=> mStore[k] = NoTransport
                         /\ mStore[k] # NoTransport =>
                               /\ mStore'[k].number = mStore[k].number
                               /\ mStore'[k].useCount = mStore[k].useCount
                               /\ mStore'[k].isRevalidationThresholdReached = mStore[k].isRevalidationThresholdReached
  <2>1. mStore' = Looked(n, list)
    BY Zenon DEF getOrderedAndUsableServerList
  <2>2. \A k \in Keys : mStore'[k] = mStore[k] \/ (mStore[k] \in Transport /\ mStore'[k] = MarkedUnusable(mStore[k]))
    BY <1>4, <2>1, Zenon DEF Looked, getTransport, Stores
  <2>3. mStore' \in Stores
    BY <2>1, <2>2, <1>4, MarkedSame, Zenon DEF Looked, Stores
  <2> QED
    BY <2>2, <2>3, MarkedSame, NoTransportAssumption, Zenon
<1>7. queries \in 0..MaxQueries /\ queries < MaxQueries /\ queries' = queries + 1
  BY Zenon DEF getOrderedAndUsableServerList, DispatcherTypeOK
<1>8. UNCHANGED <<mLastCleanup, clock, made, asked>> /\ queries' \in 0..MaxQueries
  <2>1. queries' \in 0..MaxQueries
    BY <1>7, NumberAssumption
  <2> QED
    BY <2>1, Zenon DEF getOrderedAndUsableServerList
<1>9. StoreInv(mStore', call', made, asked)
  BY <1>5, <1>6, Zenon DEF StoreInv
<1>10. CallInv(mStore', call')
  BY <1>5, <1>6, KeyOfCall, Zenon DEF CallInv
<1>11. DispatcherTypeOK'
  BY <1>5, <1>6, <1>8, Zenon DEF DispatcherTypeOK, Stores
<1>12. AsksOnce'
  BY <1>8, Zenon DEF AsksOnce
<1> QED
  BY <1>8, <1>9, <1>10, <1>11, <1>12, Zenon

\* The end of a list.
LEMMA ListOverInv ==
    ASSUME DispatcherInv, NEW t \in Threads, ListOver(t)
    PROVE  DispatcherInv'
<1> USE DEF DispatcherInv
<1>1. ~Uses(call[t]) /\ call' = [call EXCEPT ![t] = NoCall] /\ UNCHANGED <<clock, made, asked, queries>>
  BY DEF ListOver, Uses
<1>2. call \in [Threads -> Calls] /\ mStore \in Stores /\ clock \in Times /\ mLastCleanup \in Times
  BY Zenon DEF DispatcherTypeOK, Stores
<1>3. call' \in [Threads -> Calls] /\ StoreInv(mStore, call', made, asked) /\ CallInv(mStore, call')
  BY <1>1, <1>2, NoCallIsCall, IdleKeeps, Zenon
<1>4. maybeCleanup(mStore, clock) \/ UNCHANGED <<mStore, mLastCleanup>>
  BY Zenon DEF ListOver
<1>5. mStore' \in Stores /\ StoreInv(mStore', call', made, asked) /\ CallInv(mStore', call') /\ mLastCleanup' \in Times
  <2>1. CASE maybeCleanup(mStore, clock)
    BY <1>2, <1>3, <2>1, MaybeCleanupKeeps, Zenon
  <2>2. CASE UNCHANGED <<mStore, mLastCleanup>>
    BY <1>2, <1>3, <2>2
  <2> QED
    BY <1>4, <2>1, <2>2, Zenon
<1>6. DispatcherTypeOK'
  BY <1>1, <1>3, <1>5, Zenon DEF DispatcherTypeOK, Stores
<1>7. AsksOnce'
  BY <1>1, Zenon DEF AsksOnce
<1> QED
  BY <1>1, <1>5, <1>6, <1>7, Zenon

\* A thread that begins to use transport i is one more user of it, and of no other.
LEMMA OneMoreUser ==
    ASSUME NEW f, NEW g, NEW t \in Threads, ~Uses(f[t]), Uses(g[t]),
           \A x \in Threads : x # t => g[x] = f[x]
    PROVE  /\ Cardinality(Users(g, g[t].xport)) = Cardinality(Users(f, g[t].xport)) + 1
           /\ \A i : i # g[t].xport => Users(g, i) = Users(f, i)
<1> DEFINE i == g[t].xport
<1>1. Users(g, i) = Users(f, i) \cup {t} /\ t \notin Users(f, i)
  BY Zenon DEF Users
<1>2. Cardinality(Users(g, i)) = Cardinality(Users(f, i)) + 1
  BY <1>1, UsersFinite, FS_AddElement, Zenon
<1>3. \A j : j # i => Users(g, j) = Users(f, j)
  BY Zenon DEF Users
<1> QED
  BY <1>2, <1>3, Zenon

\* The parts of a transport.
LEMMA TransportParts ==
    ASSUME NEW x \in Transport
    PROVE  /\ x.number \in Nat /\ x.useCount \in Nat /\ x.continuousfailureCount \in Nat
           /\ x.isRevalidationThresholdReached \in BOOLEAN
  BY Zenon DEF Transport

\* A transport one more thread uses.
LEMMA AcquiredParts ==
    ASSUME NEW x \in Transport
    PROVE  /\ Acquired(x) \in Transport /\ Acquired(x).number = x.number
           /\ Acquired(x).useCount = x.useCount + 1
           /\ Acquired(x).isRevalidationThresholdReached = x.isRevalidationThresholdReached
<1>1. x.useCount + 1 \in Nat
  BY TransportParts
<1> QED
  BY <1>1 DEF Acquired, Transport

\* A new transport.
LEMMA AddedParts ==
    ASSUME NEW m \in Nat
    PROVE  /\ addTransport(m) \in Transport /\ addTransport(m).number = m
           /\ addTransport(m).useCount = 0
  BY NumberAssumption DEF addTransport, Transport, Times

\* A sequence of counts as a function.
LEMMA CountsAreFunction ==
    ASSUME NEW n, NEW b \in Seq(Nat), Len(b) = n
    PROVE  b \in [1..n -> Nat]
  OBVIOUS

\* The counts b of n transports continue the counts a of m: the others have asked for nothing.
Continues(m, a, n, b) ==
    /\ n \in Nat /\ b \in [1..n -> Nat] /\ 1..m \subseteq 1..n
    /\ \A i \in 1..m : b[i] = a[i]
    /\ \A i \in 1..n : i \notin 1..m => b[i] = 0

\* A new transport has asked for nothing yet.
LEMMA OneMoreAsked ==
    ASSUME NEW m \in Nat, NEW a \in [1..m -> Nat], NEW n, n = m + 1, NEW b, b = Append(a, 0)
    PROVE  Continues(m, a, n, b)
<1>1. a \in Seq(Nat) /\ Len(a) = m
  OBVIOUS
<1>2. b \in Seq(Nat) /\ Len(b) = n /\ (\A i \in 1..m : b[i] = a[i]) /\ b[n] = 0
  BY <1>1
<1>3. b \in [1..n -> Nat]
  BY <1>2, CountsAreFunction, Zenon
<1>4. \A i \in 1..n : i \notin 1..m => i = n
  OBVIOUS
<1>5. n \in Nat /\ 1..m \subseteq 1..n
  OBVIOUS
<1> QED
  BY <1>2, <1>3, <1>4, <1>5, Zenon DEF Continues

\* The first critical section of query(): the transport gets a user more.
LEMMA AcquireInv ==
    ASSUME DispatcherInv, NEW t \in Threads, Acquire(t)
    PROVE  DispatcherInv'
<1> USE DEF DispatcherInv
<1>1. PICK k, x : /\ k = <<call[t].netid, Head(call[t].servers)>>
                  /\ x = IF mStore[k] = NoTransport THEN addTransport(made + 1) ELSE mStore[k]
  BY Zenon
<1>2. /\ call[t].at = "listed" /\ call[t].servers # <<>>
      /\ mStore' = [mStore EXCEPT ![k] = Acquired(x)]
      /\ made' = IF mStore[k] = NoTransport THEN made + 1 ELSE made
      /\ asked' = IF mStore[k] = NoTransport THEN Append(asked, 0) ELSE asked
      /\ call' = [call EXCEPT ![t] = [call[t] EXCEPT !.at = "using", !.xport = x.number]]
      /\ UNCHANGED <<mLastCleanup, clock, queries>>
  BY <1>1, Zenon DEF Acquire, getTransport
<1>3. /\ call \in [Threads -> Calls] /\ mStore \in Stores /\ made \in Nat
      /\ asked \in [1..made -> Nat] /\ asked \in Seq(Nat) /\ Len(asked) = made
  BY DEF DispatcherTypeOK, Stores
<1>4. k = Key(call[t]) /\ k \in Keys
  BY <1>1, <1>2, <1>3, KeyOfCall, Zenon DEF Key
<1>5. x \in Transport
  BY <1>1, <1>3, <1>4, AddedParts DEF Stores
<1>6. PICK c : c = [call[t] EXCEPT !.at = "using", !.xport = x.number]
  BY Zenon
<1>7. /\ c \in Calls /\ c.at = "using" /\ c.xport = x.number
      /\ c.netid = call[t].netid /\ c.servers = call[t].servers
  BY <1>3, <1>5, <1>6, TransportParts, Zenon DEF Calls, Places
<1>8. /\ call' \in [Threads -> Calls] /\ call'[t] = c
      /\ \A u \in Threads : u # t => call'[u] = call[u]
  BY <1>2, <1>3, <1>6, <1>7
<1>9. ~Uses(call[t]) /\ Uses(c) /\ Key(c) = k
  BY <1>2, <1>4, <1>7 DEF Uses, Key
<1>10. /\ Cardinality(Users(call', x.number)) = Cardinality(Users(call, x.number)) + 1
       /\ \A i : i # x.number => Users(call', i) = Users(call, i)
  <2>1. ~Uses(call[t]) /\ Uses(call'[t]) /\ call'[t].xport = x.number
    BY <1>7, <1>8, <1>9, Zenon
  <2>2. /\ Cardinality(Users(call', call'[t].xport)) = Cardinality(Users(call, call'[t].xport)) + 1
        /\ \A i : i # call'[t].xport => Users(call', i) = Users(call, i)
    BY <1>8, <2>1, OneMoreUser, Zenon
  <2> QED
    BY <2>1, <2>2, Zenon
<1>11. /\ mStore' \in Stores /\ mStore'[k] = Acquired(x)
       /\ \A l \in Keys : l # k => mStore'[l] = mStore[l]
  BY <1>2, <1>3, <1>4, <1>5, AcquiredParts DEF Stores
<1>12. Continues(made, asked, made', asked')
  <2>1. CASE mStore[k] = NoTransport
    <3>1. made' = made + 1 /\ asked' = Append(asked, 0)
      BY <1>2, <2>1, Zenon
    <3> QED
      BY <1>3, <3>1, OneMoreAsked, Zenon
  <2>2. CASE mStore[k] # NoTransport
    BY <1>2, <1>3, <2>2, Zenon DEF Continues
  <2> QED
    BY <2>1, <2>2, Zenon
<1>13. /\ x.number \in 1..made'
       /\ x.useCount = Cardinality(Users(call, x.number))
       /\ asked'[x.number] = 0 \/ x.isRevalidationThresholdReached
       /\ \A l \in Keys : l # k /\ mStore[l] # NoTransport => mStore[l].number # x.number
  <2>1. CASE mStore[k] = NoTransport
    <3>1. x = addTransport(made + 1) /\ made' = made + 1 /\ made + 1 \in Nat
      BY <1>1, <1>2, <1>3, <2>1
    <3>2. x.number = made + 1 /\ x.useCount = 0
      BY <3>1, AddedParts, Zenon
    <3>3. made + 1 \in 1..made' /\ made + 1 \notin 1..made
      BY <1>3, <3>1
    <3>4. \A l \in Keys : mStore[l] # NoTransport => mStore[l].number # x.number
      BY <3>2, <3>3, Zenon DEF StoreInv
    <3>5. \A u \in Threads : Uses(call[u]) => call[u].xport # x.number
      BY <1>3, <3>4, KeyOfCall, Zenon DEF CallInv
    <3>6. Users(call, x.number) = {}
      BY <3>5, Zenon DEF Users
    <3>7. Cardinality(Users(call, x.number)) = 0
      BY <3>6, FS_EmptySet, Zenon
    <3> QED
      BY <1>12, <3>2, <3>3, <3>4, <3>7, Zenon DEF Continues
  <2>2. CASE mStore[k] # NoTransport
    <3>1. x = mStore[k]
      BY <1>1, <2>2, Zenon
    <3> QED
      BY <1>4, <1>12, <2>2, <3>1, Zenon DEF StoreInv, Continues
  <2> QED
    BY <2>1, <2>2, Zenon
<1>14. /\ Acquired(x) # NoTransport /\ Acquired(x).number = x.number
       /\ Acquired(x).useCount = Cardinality(Users(call', x.number))
       /\ Acquired(x).isRevalidationThresholdReached = x.isRevalidationThresholdReached
  BY <1>5, <1>10, <1>13, AcquiredParts, NoTransportAssumption
<1>15. StoreInv(mStore', call', made', asked')
  <2>1. ASSUME NEW l \in Keys, mStore'[l] # NoTransport
        PROVE  /\ mStore'[l].number \in 1..made'
               /\ mStore'[l].useCount = Cardinality(Users(call', mStore'[l].number))
               /\ asked'[mStore'[l].number] = 0 \/ mStore'[l].isRevalidationThresholdReached
    <3>1. CASE l = k
      BY <3>1, <1>11, <1>13, <1>14, Zenon
    <3>2. CASE l # k
      <4>1. mStore'[l] = mStore[l] /\ mStore[l] # NoTransport /\ mStore[l].number # x.number
        BY <2>1, <3>2, <1>11, <1>13, Zenon
      <4>2. /\ mStore[l].number \in 1..made
            /\ mStore[l].useCount = Cardinality(Users(call, mStore[l].number))
            /\ asked[mStore[l].number] = 0 \/ mStore[l].isRevalidationThresholdReached
        BY <4>1, Zenon DEF StoreInv
      <4>3. Users(call', mStore[l].number) = Users(call, mStore[l].number)
        BY <4>1, <1>10, Zenon
      <4> QED
        BY <4>1, <4>2, <4>3, <1>12, Zenon DEF Continues
    <3> QED
      BY <3>1, <3>2, Zenon
  <2>2. ASSUME NEW j \in Keys, NEW l \in Keys, mStore'[j] # NoTransport, mStore'[l] # NoTransport,
               mStore'[j].number = mStore'[l].number
        PROVE  j = l
    <3>1. CASE j # k /\ l # k
      BY <2>2, <3>1, <1>11, Zenon DEF StoreInv
    <3>2. CASE j = k \/ l = k
      BY <2>2, <3>2, <1>11, <1>13, <1>14, Zenon
    <3> QED
      BY <3>1, <3>2, Zenon
  <2> QED
    BY <2>1, <2>2, Zenon DEF StoreInv
<1>16. CallInv(mStore', call')
  <2> SUFFICES ASSUME NEW u \in Threads, Uses(call'[u])
               PROVE  /\ call'[u].servers # <<>> /\ mStore'[Key(call'[u])] # NoTransport
                      /\ mStore'[Key(call'[u])].number = call'[u].xport
    BY Zenon DEF CallInv
  <2>1. CASE u = t
    BY <2>1, <1>2, <1>7, <1>8, <1>9, <1>11, <1>14, Zenon
  <2>2. CASE u # t
    <3>1. call'[u] = call[u]
      BY <2>2, <1>8, Zenon
    <3>2. /\ call[u].servers # <<>> /\ mStore[Key(call[u])] # NoTransport
          /\ mStore[Key(call[u])].number = call[u].xport /\ Key(call[u]) \in Keys
      BY <3>1, <1>3, KeyOfCall, Zenon DEF CallInv
    <3>3. CASE Key(call[u]) = k
      <4>1. x = mStore[k]
        BY <1>1, <3>2, <3>3, Zenon
      <4> QED
        BY <3>1, <3>2, <3>3, <4>1, <1>11, <1>14, Zenon
    <3>4. CASE Key(call[u]) # k
      BY <3>1, <3>2, <3>4, <1>11, Zenon
    <3> QED
      BY <3>3, <3>4, Zenon
  <2> QED
    BY <2>1, <2>2, Zenon
<1>17. AsksOnce'
  <2>1. \A i \in 1..made' : asked'[i] = 0 \/ (i \in 1..made /\ asked'[i] = asked[i])
    BY <1>12, Zenon DEF Continues
  <2> QED
    BY <2>1 DEF AsksOnce
<1>18. DispatcherTypeOK'
  BY <1>2, <1>8, <1>11, <1>12, Zenon DEF DispatcherTypeOK, Stores, Continues
<1> QED
  BY <1>15, <1>16, <1>17, <1>18, Zenon

\* The query outside sLock touches only the call.
LEMMA QueryInternalInv ==
    ASSUME DispatcherInv, NEW t \in Threads, NEW result \in Codes, queryInternal(t, result)
    PROVE  DispatcherInv'
<1> USE DEF DispatcherInv
<1>1. /\ call[t].at = "using"
      /\ call' = [call EXCEPT ![t] = [call[t] EXCEPT !.at = "finish", !.code = result, !.now = clock]]
      /\ UNCHANGED <<mStore, mLastCleanup, clock, made, asked, queries>>
  BY Zenon DEF queryInternal
<1>2. call \in [Threads -> Calls] /\ clock \in Times
  BY Zenon DEF DispatcherTypeOK
<1>3. PICK c : c = [call[t] EXCEPT !.at = "finish", !.code = result, !.now = clock]
  BY Zenon
<1>4. /\ c \in Calls /\ c.at = "finish" /\ c.xport = call[t].xport
      /\ c.netid = call[t].netid /\ c.servers = call[t].servers
  BY <1>2, <1>3, Zenon DEF Calls, Places
<1>5. /\ call' \in [Threads -> Calls] /\ call'[t] = c
      /\ \A u \in Threads : u # t => call'[u] = call[u]
  BY <1>1, <1>2, <1>3, <1>4
<1>6. Uses(call[t]) /\ Uses(c) /\ Key(c) = Key(call[t])
  BY <1>1, <1>4 DEF Uses, Key
<1>7. \A i : Users(call', i) = Users(call, i)
  BY <1>4, <1>5, <1>6, StillUsers, Zenon
<1>8. StoreInv(mStore, call', made, asked)
  BY <1>7, Zenon DEF StoreInv
<1>9. CallInv(mStore, call')
  <2> SUFFICES ASSUME NEW u \in Threads, Uses(call'[u])
               PROVE  /\ call'[u].servers # <<>> /\ mStore[Key(call'[u])] # NoTransport
                      /\ mStore[Key(call'[u])].number = call'[u].xport
    BY Zenon DEF CallInv
  <2>1. CASE u = t
    BY <2>1, <1>4, <1>5, <1>6, Zenon DEF CallInv
  <2>2. CASE u # t
    BY <2>2, <1>5, Zenon DEF CallInv
  <2> QED
    BY <2>1, <2>2, Zenon
<1>10. DispatcherTypeOK'
  BY <1>1, <1>5, Zenon DEF DispatcherTypeOK
<1>11. AsksOnce'
  BY <1>1, Zenon DEF AsksOnce
<1> QED
  BY <1>1, <1>8, <1>9, <1>10, <1>11, Zenon

\* The parts of the transport given back.
LEMMA ReturnedParts ==
    ASSUME NEW x \in Transport, x.useCount # 0, NEW result \in Codes, NEW now \in Times
    PROVE  /\ Returned(x, result, now) \in Transport
           /\ Returned(x, result, now).number = x.number
           /\ Returned(x, result, now).useCount = x.useCount - 1
           /\ Returned(x, result, now).isRevalidationThresholdReached = x.isRevalidationThresholdReached
<1>1. x.useCount - 1 \in Nat
  BY TransportParts
<1>2. Failures(x, result) \in Nat
  BY TransportParts DEF Failures
<1> QED
  BY <1>1, <1>2, Zenon DEF Returned, Transport

\* The parts of the transport stored again.
LEMMA FlaggedParts ==
    ASSUME NEW y \in Transport
    PROVE  /\ Flagged(y) \in Transport /\ Flagged(y).number = y.number
           /\ Flagged(y).useCount = y.useCount
           /\ Flagged(y).isRevalidationThresholdReached =
                 (y.isRevalidationThresholdReached \/ checkRevalidationNecessary(y))
<1>1. (y.isRevalidationThresholdReached \/ checkRevalidationNecessary(y)) \in BOOLEAN
  BY Zenon
<1> QED
  BY <1>1, Zenon DEF Flagged, Transport

\* The second critical section of query(): the transport is given back.
LEMMA ReleaseInv ==
    ASSUME DispatcherInv, NEW t \in Threads, Release(t)
    PROVE  DispatcherInv'
<1> USE DEF DispatcherInv
<1>1. PICK k, y : /\ k = <<call[t].netid, Head(call[t].servers)>>
                  /\ y = Returned(mStore[k], call[t].code, call[t].now)
  BY Zenon
<1>2. PICK store : store = [mStore EXCEPT ![k] = Flagged(y)]
  BY Zenon
<1>3. /\ call[t].at = "finish"
      /\ maybeCleanup(store, call[t].now)
      /\ asked' = IF checkRevalidationNecessary(y) THEN [asked EXCEPT ![y.number] = @ + 1] ELSE asked
      /\ call' = [call EXCEPT ![t] =
              IF Final(call[t].code) THEN NoCall
              ELSE [call[t] EXCEPT !.at = "listed", !.servers = Tail(call[t].servers)]]
      /\ UNCHANGED <<clock, made, queries>>
  BY <1>1, <1>2, Zenon DEF Release
<1>4. /\ call \in [Threads -> Calls] /\ mStore \in Stores /\ made \in Nat
      /\ asked \in [1..made -> Nat] /\ mLastCleanup \in Times
  BY Zenon DEF DispatcherTypeOK, Stores
<1>5. Uses(call[t]) /\ k = Key(call[t])
  BY <1>1, <1>3 DEF Uses, Key
<1>6. /\ call[t].servers # <<>> /\ k \in Keys /\ mStore[k] # NoTransport /\ mStore[k].number = call[t].xport
  BY <1>4, <1>5, KeyOfCall, Zenon DEF CallInv
<1>7. PICK x \in Transport : x = mStore[k]
  BY <1>4, <1>6, Zenon DEF Stores
<1>8. /\ call[t].code \in Codes /\ call[t].now \in Times /\ call[t].servers \in Seq(Servers)
  BY <1>4, Zenon DEF Calls
<1>9. /\ x.number \in 1..made /\ x.useCount = Cardinality(Users(call, x.number))
      /\ asked[x.number] = 0 \/ x.isRevalidationThresholdReached
      /\ t \in Users(call, x.number) /\ x.useCount # 0
  <2>1. /\ x.number \in 1..made /\ x.useCount = Cardinality(Users(call, x.number))
        /\ asked[x.number] = 0 \/ x.isRevalidationThresholdReached
    BY <1>6, <1>7, Zenon DEF StoreInv
  <2>2. t \in Users(call, x.number)
    BY <1>5, <1>6, <1>7, Zenon DEF Users
  <2> QED
    BY <2>1, <2>2, UsersFinite, Zenon
<1>10. /\ y \in Transport /\ y.number = x.number /\ y.useCount = x.useCount - 1
       /\ y.isRevalidationThresholdReached = x.isRevalidationThresholdReached
  <2>1. y = Returned(x, call[t].code, call[t].now)
    BY <1>1, <1>7, Zenon
  <2> QED
    BY <2>1, <1>8, <1>9, ReturnedParts
<1>11. PICK z \in Transport : z = Flagged(y)
  BY <1>10, FlaggedParts, Zenon
<1>12. /\ z.number = x.number /\ z.useCount = x.useCount - 1 /\ z # NoTransport
       /\ z.isRevalidationThresholdReached =
             (x.isRevalidationThresholdReached \/ checkRevalidationNecessary(y))
  BY <1>10, <1>11, FlaggedParts, NoTransportAssumption, Zenon
<1>13. /\ store \in Stores /\ store[k] = z
       /\ \A l \in Keys : l # k => store[l] = mStore[l]
  BY <1>2, <1>4, <1>6, <1>11, Zenon DEF Stores
<1>14. PICK c \in Calls : ~Uses(c) /\ call' = [call EXCEPT ![t] = c]
  <2>1. CASE Final(call[t].code)
    BY <1>3, <2>1, NoCallIsCall, Zenon
  <2>2. CASE ~Final(call[t].code)
    <3>1. PICK c : c = [call[t] EXCEPT !.at = "listed", !.servers = Tail(call[t].servers)]
      BY Zenon
    <3>2. Tail(call[t].servers) \in Seq(Servers)
      BY <1>6, <1>8
    <3>3. c \in Calls /\ c.at = "listed"
      BY <1>4, <3>1, <3>2, Zenon DEF Calls, Places
    <3>4. ~Uses(c)
      BY <3>3 DEF Uses
    <3> QED
      BY <1>3, <2>2, <3>1, <3>3, <3>4, Zenon
  <2> QED
    BY <2>1, <2>2, Zenon
<1>15. /\ call' \in [Threads -> Calls] /\ call'[t] = c /\ ~Uses(call'[t])
       /\ \A u \in Threads : u # t => call'[u] = call[u] /\ call[u] = call'[u]
  BY <1>4, <1>14, Zenon
<1>16. /\ Cardinality(Users(call, x.number)) = Cardinality(Users(call', x.number)) + 1
       /\ \A i : i # x.number => Users(call, i) = Users(call', i)
  <2>1. call[t].xport = x.number
    BY <1>6, <1>7, Zenon
  <2>2. /\ Cardinality(Users(call, call[t].xport)) = Cardinality(Users(call', call[t].xport)) + 1
        /\ \A i : i # call[t].xport => Users(call, i) = Users(call', i)
    BY <1>5, <1>15, OneMoreUser, Zenon
  <2> QED
    BY <2>1, <2>2, Zenon
<1>17. z.useCount = Cardinality(Users(call', x.number))
  <2>1. Cardinality(Users(call', x.number)) \in Nat
    BY UsersFinite, Zenon
  <2> QED
    BY <1>9, <1>12, <1>16, <2>1
<1>18. /\ asked' \in [1..made -> Nat]
       /\ \A i \in 1..made : i # x.number => asked'[i] = asked[i]
       /\ ~checkRevalidationNecessary(y) => asked' = asked
       /\ checkRevalidationNecessary(y) =>
             asked'[x.number] = 1 /\ ~Strict /\ z.isRevalidationThresholdReached
  <2>1. CASE checkRevalidationNecessary(y)
    <3>1. asked' = [asked EXCEPT ![x.number] = asked[x.number] + 1]
      BY <1>3, <1>10, <2>1, Zenon
    <3>2. ~x.isRevalidationThresholdReached /\ triggerThreshold > 0
      BY <1>10, <2>1, Zenon DEF checkRevalidationNecessary
    <3>3. asked[x.number] = 0
      BY <1>9, <3>2, Zenon
    <3>4. ~Strict
      BY <3>2 DEF triggerThreshold
    <3>5. asked' \in [1..made -> Nat] /\ asked'[x.number] = 1
      BY <1>4, <1>9, <3>1, <3>3
    <3> QED
      BY <1>4, <1>9, <1>12, <2>1, <3>1, <3>4, <3>5, Zenon
  <2>2. CASE ~checkRevalidationNecessary(y)
    BY <1>3, <1>4, <2>2, Zenon
  <2> QED
    BY <2>1, <2>2, Zenon
<1>19. StoreInv(store, call', made, asked')
  <2>1. ASSUME NEW l \in Keys, store[l] # NoTransport
        PROVE  /\ store[l].number \in 1..made
               /\ store[l].useCount = Cardinality(Users(call', store[l].number))
               /\ asked'[store[l].number] = 0 \/ store[l].isRevalidationThresholdReached
    <3>1. CASE l = k
      <4>1. asked'[x.number] = 0 \/ z.isRevalidationThresholdReached
        BY <1>9, <1>12, <1>18, Zenon
      <4> QED
        BY <3>1, <1>9, <1>12, <1>13, <1>17, <4>1, Zenon
    <3>2. CASE l # k
      <4>1. store[l] = mStore[l] /\ mStore[l] # NoTransport
        BY <2>1, <3>2, <1>13, Zenon
      <4>2. mStore[l].number # x.number
        BY <3>2, <4>1, <1>6, <1>7, Zenon DEF StoreInv
      <4>3. /\ mStore[l].number \in 1..made
            /\ mStore[l].useCount = Cardinality(Users(call, mStore[l].number))
            /\ asked[mStore[l].number] = 0 \/ mStore[l].isRevalidationThresholdReached
        BY <4>1, Zenon DEF StoreInv
      <4>4. /\ Users(call', mStore[l].number) = Users(call, mStore[l].number)
            /\ asked'[mStore[l].number] = asked[mStore[l].number]
        BY <4>2, <4>3, <1>16, <1>18, Zenon
      <4> QED
        BY <4>1, <4>3, <4>4, Zenon
    <3> QED
      BY <3>1, <3>2, Zenon
  <2>2. ASSUME NEW j \in Keys, NEW l \in Keys, store[j] # NoTransport, store[l] # NoTransport,
               store[j].number = store[l].number
        PROVE  j = l
    <3>1. \A i \in Keys : store[i] # NoTransport =>
            mStore[i] # NoTransport /\ store[i].number = mStore[i].number
      BY <1>6, <1>7, <1>12, <1>13, Zenon
    <3> QED
      BY <2>2, <3>1, Zenon DEF StoreInv
  <2> QED
    BY <2>1, <2>2, Zenon DEF StoreInv
<1>20. CallInv(store, call')
  <2> SUFFICES ASSUME NEW u \in Threads, Uses(call'[u])
               PROVE  /\ call'[u].servers # <<>> /\ store[Key(call'[u])] # NoTransport
                      /\ store[Key(call'[u])].number = call'[u].xport
    BY Zenon DEF CallInv
  <2>1. call'[u] = call[u]
    BY <1>15, Zenon
  <2>2. /\ call[u].servers # <<>> /\ mStore[Key(call[u])] # NoTransport
        /\ mStore[Key(call[u])].number = call[u].xport /\ Key(call[u]) \in Keys
    BY <2>1, <1>4, KeyOfCall, Zenon DEF CallInv
  <2> QED
    BY <2>1, <2>2, <1>7, <1>12, <1>13, Zenon
<1>21. mStore' \in Stores /\ StoreInv(mStore', call', made, asked') /\ CallInv(mStore', call') /\ mLastCleanup' \in Times
  BY <1>3, <1>4, <1>8, <1>13, <1>15, <1>19, <1>20, MaybeCleanupKeeps, Zenon
<1>22. DispatcherTypeOK'
  BY <1>3, <1>15, <1>18, <1>21, Zenon DEF DispatcherTypeOK, Stores
<1>23. AsksOnce'
  <2>1. \A i \in 1..made : asked'[i] = asked[i] \/ (asked'[i] = 1 /\ ~Strict)
    BY <1>18, Zenon
  <2> QED
    BY <1>3, <2>1 DEF AsksOnce
<1> QED
  BY <1>3, <1>21, <1>22, <1>23, Zenon

\* Every step keeps the invariant.
LEMMA DispatcherNextInv == DispatcherInv /\ [DispatcherNext]_dispatcherVars => DispatcherInv'
<1> SUFFICES ASSUME DispatcherInv, [DispatcherNext]_dispatcherVars PROVE DispatcherInv'
  OBVIOUS
<1>1. ASSUME NEW t \in Threads, QueryStep(t) PROVE DispatcherInv'
  BY <1>1, ListInv, ListOverInv, AcquireInv, QueryInternalInv, ReleaseInv, Zenon DEF QueryStep
<1>2. ASSUME NEW n \in NetIds, forceCleanup(n) PROVE DispatcherInv'
  <2>1. /\ mStore' = cleanupStore(mStore, clock, {n})
        /\ UNCHANGED <<mLastCleanup, clock, made, asked, queries, call>>
    BY <1>2, Zenon DEF forceCleanup
  <2>2. call \in [Threads -> Calls] /\ mStore \in Stores
    BY Zenon DEF DispatcherInv, DispatcherTypeOK, Stores
  <2>3. mStore' \in Stores /\ StoreInv(mStore', call, made, asked) /\ CallInv(mStore', call)
    BY <2>1, <2>2, CleanupKeeps, Zenon DEF DispatcherInv
  <2>4. DispatcherTypeOK' /\ AsksOnce'
    BY <2>1, <2>3, Zenon DEF DispatcherInv, DispatcherTypeOK, AsksOnce, Stores
  <2> QED
    BY <2>1, <2>3, <2>4, Zenon DEF DispatcherInv
<1>3. CASE Tick
  <2>1. clock \in 0..MaxTime /\ clock < MaxTime /\ clock' = clock + 1
    BY <1>3, Zenon DEF Tick, DispatcherInv, DispatcherTypeOK, Times
  <2>2. clock' \in Times
    BY <2>1, NumberAssumption DEF Times
  <2>3. UNCHANGED <<mStore, mLastCleanup, made, asked, queries, call>>
    BY <1>3, Zenon DEF Tick
  <2> QED
    BY <2>2, <2>3, Zenon DEF DispatcherInv, DispatcherTypeOK, AsksOnce
<1>4. CASE UNCHANGED dispatcherVars
  BY <1>4, Zenon DEF dispatcherVars, DispatcherInv, DispatcherTypeOK, AsksOnce
<1> QED
  BY <1>1, <1>2, <1>3, <1>4, Zenon DEF DispatcherNext

\* What the invariant says of the pointers.
LEMMA InvPointers == DispatcherInv => PointerValid
<1> SUFFICES ASSUME DispatcherInv PROVE PointerValid
  OBVIOUS
<1>1. \A t \in Threads : InUse(t) <=> Uses(call[t])
  BY Zenon DEF InUse, Uses
<1>2. \A t \in Threads : InUse(t) => mStore[KeyOf(t)] # NoTransport /\ mStore[KeyOf(t)].number = call[t].xport
  BY <1>1, Zenon DEF DispatcherInv, CallInv, Key, KeyOf
<1>3. \A i : {t \in Threads : InUse(t) /\ call[t].xport = i} = Users(call, i)
  BY <1>1, Zenon DEF Users
<1>4. \A x \in Transports(mStore) : \E k \in Keys : x = mStore[k] /\ mStore[k] # NoTransport
  BY Zenon DEF Transports
<1>5. \A x \in Transports(mStore) : x.useCount = Cardinality(Users(call, x.number))
  BY <1>4, Zenon DEF DispatcherInv, StoreInv
<1> QED
  BY <1>2, <1>3, <1>5, Zenon DEF PointerValid

\* While a thread uses a transport outside sLock, the store keeps that very transport, and the
\* use counts are exact, for any number of threads, networks and servers (query(), cleanup()).
THEOREM PointersStayValid == DispatcherSpec => []PointerValid
  BY DispatcherInitInv, DispatcherNextInv, InvPointers, PTL DEF DispatcherSpec

\* A transport asks for a revalidation at most once, and never in strict mode
\* (checkRevalidationNecessary()).
THEOREM AsksAtMostOnce == DispatcherSpec => []AsksOnce
<1>1. DispatcherInv => AsksOnce
  BY Zenon DEF DispatcherInv
<1> QED
  BY <1>1, DispatcherInitInv, DispatcherNextInv, PTL DEF DispatcherSpec
============================================================================
