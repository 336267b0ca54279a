-------------------------- MODULE DnsTlsTransport --------------------------
(***************************************************************************)
(* One DNS-over-TLS transport: DnsTlsTransport, its DnsTlsQueryMap and the  *)
(* DnsTlsSockets it opens one after the other.                              *)
(*                                                                         *)
(* Threads: callers of query(); the loop thread of each socket; the         *)
(* reconnect thread that onClosed() starts; the thread in the destructor.   *)
(* The transport's mLock is `holder`; where its holder may block or other   *)
(* threads may run meanwhile, `step` says how far it has got.  The map's    *)
(* own lock is held for one operation at a time, so each is atomic, and     *)
(* onResponse() takes only that lock.                                       *)
(*                                                                         *)
(* The server is external: it answers each query it received at most once,  *)
(* in any order, and may close the connection at any time.                  *)
(***************************************************************************)
EXTENDS Naturals

CONSTANTS
    Queries,          \* the calls of query(), each with its own packet
    TooShort,         \* the packets of less than two bytes
    MaxId,            \* UINT16_MAX
    mMaxTries,        \* "dot_maxtries", at least 1
    MaxSockets,       \* bound: sockets opened
    NoQuery,          \* a free id
    NoAnswer          \* no response yet

Ids     == 0..MaxId
Sockets == 1..MaxSockets
Entries == [query: Queries, tries: 0..mMaxTries]

ASSUME MaxIdAssumption   == MaxId \in Nat
ASSUME TriesAssumption   == mMaxTries \in Nat \ {0}
ASSUME SocketsAssumption == MaxSockets \in Nat
ASSUME NoQueryAssumption == NoQuery \notin Entries

VARIABLES
    code, answer,     \* the future of each query: Result.code and whose response it got
    mQueries,         \* DnsTlsQueryMap::mQueries
    holder,           \* who holds DnsTlsTransport::mLock
    step,             \* how far the holder is
    todo,             \* what it still has to send: a copy of queries, as getAll() makes
    mSocket,          \* 0: null
    mConnectCounter,
    reconnect,        \* mReconnectThread
    dtor,             \* how far ~DnsTlsTransport() is; mClosing is dtor # "no"
    at,               \* where the loop thread of each socket is
    mQueue,           \* queries pushed by query() and not yet taken by loop()
    event,            \* mEventFd is positive
    shutdown,         \* requestLoopShutdown() was called
    q,                \* what loop() took and has not written yet
    wire              \* what the server has received and not answered

futures == <<code, answer>>
locked  == <<holder, step, todo>>
socks   == <<at, mQueue, event, shutdown, q, wire>>
vars    == <<futures, mQueries, locked, mSocket, mConnectCounter, reconnect, dtor, socks>>

Messages == [id: Ids, query: Queries]
mClosing == dtor # "no"

TypeOK ==
    /\ code \in [Queries -> {"none", "pending", "success", "network_error", "internal_error"}]
    /\ answer \in [Queries -> Queries \cup {NoAnswer}]
    /\ mQueries \in [Ids -> Entries \cup {NoQuery}]
    /\ holder \in {"nobody", "client", "reconnect", "onClosed"}
    /\ step \in {"-", "connect", "reset", "send", "event"}
    /\ todo \in SUBSET Messages
    /\ mSocket \in 0..mConnectCounter
    /\ mConnectCounter \in 0..MaxSockets
    /\ reconnect \in {"none", "start", "locked", "done"}
    /\ dtor \in {"no", "join", "reset", "gone"}
    /\ at \in [Sockets -> {"none", "handshake", "poll", "swap", "closing", "join", "ended"}]
    /\ mQueue \in [Sockets -> SUBSET Messages]
    /\ event \in [Sockets -> BOOLEAN]
    /\ shutdown \in [Sockets -> BOOLEAN]
    /\ q \in [Sockets -> SUBSET Messages]
    /\ wire \in [Sockets -> SUBSET Messages]

Init ==
    /\ code = [c \in Queries |-> "none"]
    /\ answer = [c \in Queries |-> NoAnswer]
    /\ mQueries = [i \in Ids |-> NoQuery]
    /\ holder = "nobody" /\ step = "-" /\ todo = {}
    /\ mSocket = 0 /\ mConnectCounter = 0
    /\ reconnect = "none"
    /\ dtor = "no"
    /\ at = [s \in Sockets |-> "none"]
    /\ mQueue = [s \in Sockets |-> {}]
    /\ event = [s \in Sockets |-> FALSE]
    /\ shutdown = [s \in Sockets |-> FALSE]
    /\ q = [s \in Sockets |-> {}]
    /\ wire = [s \in Sockets |-> {}]

----------------------------------------------------------------------------
(* DnsTlsQueryMap                                                           *)

Used == {i \in Ids : mQueries[i] # NoQuery}

\* Mutant: the largest id in use is given out again.
FreeId_OffByOne(i) ==
    IF Used = {} THEN i = 0 ELSE i \in Used /\ \A k \in Used : k <= i

\* One more than the largest id in use; then the first gap; then none is left.
FreeId(i) ==
    IF MaxId \notin Used
    THEN IF Used = {} THEN i = 0 ELSE \E j \in Used : i = j + 1 /\ \A k \in Used : k <= j
    ELSE i \notin Used /\ \A j \in Ids : j < i => j \in Used

recordQuery(c, i) ==
    /\ mQueries' = [mQueries EXCEPT ![i] = [query |-> c, tries |-> 0]]
    /\ code' = [code EXCEPT ![c] = "pending"]
    /\ UNCHANGED answer

markTried(i) ==
    mQueries' = IF mQueries[i] = NoQuery THEN mQueries
                ELSE [mQueries EXCEPT ![i] = [query |-> @.query, tries |-> @.tries + 1]]

\* The entries of `ids` leave the map, their futures get a network_error.
Expire(ids) ==
    /\ code' = [c \in Queries |-> IF \E i \in ids : mQueries[i].query = c
                                  THEN "network_error" ELSE code[c]]
    /\ mQueries' = [i \in Ids |-> IF i \in ids THEN NoQuery ELSE mQueries[i]]
    /\ UNCHANGED answer

Worn    == {i \in Used : mQueries[i].tries >= mMaxTries}
cleanup == Expire(Worn)
clear   == Expire(Used)

getAll == {[id |-> i, query |-> mQueries[i].query] : i \in Used}

\* A response carrying id m.id, to the query the server got with it.
onResponse(m) ==
    IF mQueries[m.id] = NoQuery
    THEN UNCHANGED <<futures, mQueries>>
    ELSE /\ code' = [code EXCEPT ![mQueries[m.id].query] = "success"]
         /\ answer' = [answer EXCEPT ![mQueries[m.id].query] = m.query]
         /\ mQueries' = [mQueries EXCEPT ![m.id] = NoQuery]

----------------------------------------------------------------------------
(* query(), doConnect() and sendQuery(), under mLock                         *)

\* ~DnsTlsSocket() starts: it asks the loop to stop and will wait for its end.
RequestShutdown == shutdown' = [s \in Sockets |-> shutdown[s] \/ s = mSocket]

SocketIsOver == mSocket # 0 => at[mSocket] = "ended"

query(c) ==
    /\ holder = "nobody" /\ ~mClosing /\ code[c] = "none"
    /\ \/ /\ c \in TooShort \/ Used = Ids
          /\ code' = [code EXCEPT ![c] = "internal_error"]
          /\ UNCHANGED <<answer, mQueries, locked, shutdown>>
       \/ /\ c \notin TooShort
          /\ \E i \in Ids :
               /\ FreeId(i)
               /\ recordQuery(c, i)
               /\ holder' = "client"
               /\ IF mSocket = 0 THEN step' = "connect" /\ todo' = {} /\ RequestShutdown
                  ELSE step' = "send" /\ todo' = {[id |-> i, query |-> c]} /\ UNCHANGED shutdown
    /\ UNCHANGED <<mSocket, mConnectCounter, reconnect, dtor, at, mQueue, event, q, wire>>

\* The holder gives mLock back; for doReconnect() that ends the thread.
Unlock ==
    /\ holder' = "nobody" /\ step' = "-"
    /\ reconnect' = IF holder = "reconnect" THEN "done" ELSE reconnect

\* doConnect(): a new socket replaces the old one, whose destructor is waited for.
ConnectFails ==
    /\ step = "connect" /\ SocketIsOver /\ mConnectCounter < MaxSockets
    /\ mConnectCounter' = mConnectCounter + 1
    /\ mSocket' = 0
    /\ clear
    /\ Unlock
    /\ UNCHANGED <<todo, dtor, socks>>

\* Each socket reads "dot_async_handshake" anew: the handshake is left to loop()
\* or was done here.
Connected ==
    /\ step = "connect" /\ SocketIsOver /\ mConnectCounter < MaxSockets
    /\ mConnectCounter' = mConnectCounter + 1
    /\ mSocket' = mConnectCounter + 1
    /\ \E first \in {"handshake", "poll"} : at' = [at EXCEPT ![mConnectCounter + 1] = first]
    /\ todo' = getAll
    /\ IF getAll = {} THEN Unlock ELSE step' = "send" /\ UNCHANGED <<holder, reconnect>>
    /\ UNCHANGED <<futures, mQueries, dtor, mQueue, event, shutdown, q, wire>>

\* sendQuery() in the order of the ids: first the push ...
NextToSend(m) == m \in todo /\ \A x \in todo : m.id <= x.id

Push(m) ==
    /\ step = "send" /\ NextToSend(m)
    /\ mQueue' = [mQueue EXCEPT ![mSocket] = @ \cup {m}]
    /\ step' = "event"
    /\ UNCHANGED <<futures, mQueries, holder, todo, mSocket, mConnectCounter, reconnect, dtor,
                   at, event, shutdown, q, wire>>

\* Mutant: the query is not marked as tried.
IncrementEventFd_NotMarked(m) ==
    /\ step = "event" /\ NextToSend(m)
    /\ event' = [event EXCEPT ![mSocket] = TRUE]
    /\ todo' = todo \ {m}
    /\ IF todo' = {} THEN Unlock ELSE step' = "send" /\ UNCHANGED <<holder, reconnect>>
    /\ UNCHANGED <<futures, mQueries, mSocket, mConnectCounter, dtor, at, mQueue, shutdown, q, wire>>

\* ... then the eventfd is incremented, and the query marked.
IncrementEventFd(m) ==
    /\ step = "event" /\ NextToSend(m)
    /\ event' = [event EXCEPT ![mSocket] = TRUE]
    /\ markTried(m.id)
    /\ todo' = todo \ {m}
    /\ IF todo' = {} THEN Unlock ELSE step' = "send" /\ UNCHANGED <<holder, reconnect>>
    /\ UNCHANGED <<futures, mSocket, mConnectCounter, dtor, at, mQueue, shutdown, q, wire>>

----------------------------------------------------------------------------
(* DnsTlsSocket::loop(), on the thread of socket s                           *)

unsocks == <<mSocket, mConnectCounter, dtor, shutdown>>

\* The deferred handshake ends well.
HandshakeDone(s) ==
    /\ at[s] = "handshake"
    /\ at' = [at EXCEPT ![s] = "poll"]
    /\ UNCHANGED <<futures, mQueries, locked, reconnect, unsocks, mQueue, event, q, wire>>

\* The eventfd is read, and so reset ...
ReadEventFd(s) ==
    /\ at[s] = "poll" /\ q[s] = {} /\ event[s] /\ ~shutdown[s]
    /\ event' = [event EXCEPT ![s] = FALSE]
    /\ at' = [at EXCEPT ![s] = "swap"]
    /\ UNCHANGED <<futures, mQueries, locked, reconnect, unsocks, mQueue, q, wire>>

\* ... before the queue is taken.
Swap(s) ==
    /\ at[s] = "swap"
    /\ q' = [q EXCEPT ![s] = mQueue[s]]
    /\ mQueue' = [mQueue EXCEPT ![s] = {}]
    /\ at' = [at EXCEPT ![s] = "poll"]
    /\ UNCHANGED <<futures, mQueries, locked, reconnect, unsocks, event, wire>>

sendQuery(s, m) ==
    /\ at[s] = "poll" /\ m \in q[s]
    /\ q' = [q EXCEPT ![s] = @ \ {m}]
    /\ wire' = [wire EXCEPT ![s] = @ \cup {m}]
    /\ UNCHANGED <<futures, mQueries, locked, reconnect, unsocks, at, mQueue, event>>

\* The server answered m: the observer is told.
readResponse(s, m) ==
    /\ at[s] = "poll" /\ m \in wire[s]
    /\ wire' = [wire EXCEPT ![s] = @ \ {m}]
    /\ onResponse(m)
    /\ UNCHANGED <<locked, reconnect, unsocks, at, mQueue, event, q>>

\* Handshake failed; idle timeout, remote close, read or write error, shutdown:
\* sslDisconnect().
Disconnect(s) ==
    /\ at[s] \in {"handshake", "poll"}
    /\ at' = [at EXCEPT ![s] = "closing"]
    /\ q' = [q EXCEPT ![s] = {}]
    /\ wire' = [wire EXCEPT ![s] = {}]
    /\ UNCHANGED <<futures, mQueries, locked, reconnect, unsocks, mQueue, event>>

\* onClosed() with mLock: nothing more is done when closing; else a reconnect
\* thread is started, once the previous one has been joined.
onClosed(s) ==
    /\ at[s] = "closing" /\ holder = "nobody"
    /\ \/ /\ mClosing \/ reconnect = "none"
          /\ reconnect' = IF mClosing THEN reconnect ELSE "start"
          /\ at' = [at EXCEPT ![s] = "ended"]
          /\ UNCHANGED holder
       \/ /\ ~mClosing /\ reconnect # "none"
          /\ holder' = "onClosed"
          /\ at' = [at EXCEPT ![s] = "join"]
          /\ UNCHANGED reconnect
    /\ UNCHANGED <<futures, mQueries, step, todo, unsocks, mQueue, event, q, wire>>

ReconnectJoined(s) ==
    /\ at[s] = "join" /\ reconnect = "done"
    /\ reconnect' = "start"
    /\ holder' = "nobody"
    /\ at' = [at EXCEPT ![s] = "ended"]
    /\ UNCHANGED <<futures, mQueries, step, todo, unsocks, mQueue, event, q, wire>>

----------------------------------------------------------------------------
(* The reconnect thread and the destructor                                  *)

\* Mutant: the transport goes idle whatever is left in the map.
doReconnect_GoesIdle ==
    /\ reconnect = "start" /\ holder = "nobody"
    /\ IF mClosing
       THEN reconnect' = "done" /\ UNCHANGED <<futures, mQueries, holder, step, shutdown>>
       ELSE /\ cleanup
            /\ reconnect' = "locked" /\ holder' = "reconnect"
            /\ step' = "reset"
            /\ RequestShutdown
    /\ UNCHANGED <<todo, mSocket, mConnectCounter, dtor, at, mQueue, event, q, wire>>

doReconnect ==
    /\ reconnect = "start" /\ holder = "nobody"
    /\ IF mClosing
       THEN reconnect' = "done" /\ UNCHANGED <<futures, mQueries, holder, step, shutdown>>
       ELSE /\ cleanup
            /\ reconnect' = "locked" /\ holder' = "reconnect"
            /\ step' = IF Used # Worn THEN "connect" ELSE "reset"
            /\ RequestShutdown
    /\ UNCHANGED <<todo, mSocket, mConnectCounter, dtor, at, mQueue, event, q, wire>>

\* "No pending queries.  Going idle.": mSocket.reset()
GoIdle ==
    /\ step = "reset" /\ SocketIsOver
    /\ mSocket' = 0
    /\ Unlock
    /\ UNCHANGED <<futures, mQueries, todo, mConnectCounter, dtor, socks>>

\* ~DnsTlsTransport(), when no call of query() is active.
Destroy ==
    /\ dtor = "no" /\ holder = "nobody"
    /\ clear
    /\ dtor' = "join"
    /\ UNCHANGED <<locked, mSocket, mConnectCounter, reconnect, socks>>

DestroyJoins ==
    /\ dtor = "join" /\ reconnect \in {"none", "done"}
    /\ reconnect' = "none"
    /\ dtor' = "reset"
    /\ RequestShutdown
    /\ UNCHANGED <<futures, mQueries, locked, mSocket, mConnectCounter, at, mQueue, event, q, wire>>

DestroyResets ==
    /\ dtor = "reset" /\ SocketIsOver
    /\ mSocket' = 0
    /\ dtor' = "gone"
    /\ UNCHANGED <<futures, mQueries, locked, mConnectCounter, reconnect, socks>>

----------------------------------------------------------------------------

HolderStep ==
    \/ ConnectFails \/ Connected \/ GoIdle
    \/ \E m \in Messages : Push(m) \/ IncrementEventFd(m)

LoopStep(s) ==
    \/ HandshakeDone(s) \/ ReadEventFd(s) \/ Swap(s)
    \/ \E m \in Messages : sendQuery(s, m)
    \/ Disconnect(s) \/ onClosed(s) \/ ReconnectJoined(s)

Next ==
    \/ \E c \in Queries : query(c)
    \/ HolderStep
    \/ \E s \in Sockets : LoopStep(s) \/ \E m \in Messages : readResponse(s, m)
    \/ doReconnect
    \/ Destroy \/ DestroyJoins \/ DestroyResets
    \/ dtor = "gone" /\ UNCHANGED vars

Spec == Init /\ [][Next]_vars

\* Threads run on, and poll() returns after kIdleTimeout at the latest.  The
\* server owes nothing.
FairSpec ==
    /\ Spec
    /\ WF_vars(HolderStep) /\ WF_vars(doReconnect)
    /\ \A s \in Sockets : WF_vars(LoopStep(s))

----------------------------------------------------------------------------
(* Properties                                                               *)

Service == INSTANCE QueryService

\* Each future gets one result: the answer to its own query or an error,
\* although ids are used again and queries are sent again on new connections
\* (DnsTlsQueryMap: "This class matches responses with queries").
ImplementsService == Service!Spec

\* Every query() gets a result, even if the server never answers.
EveryQueryResolved == Service!Resolved

\* A query is never forgotten on an open connection: while mLock is free, each
\* query of the map is queued, taken or at the server, and a non-empty queue has
\* its eventfd set, so loop() will look at it (push before increment against
\* read before swap).
InFlight ==
    LET s == mSocket IN
    holder = "nobody" /\ s # 0 /\ at[s] \in {"handshake", "poll", "swap"} =>
        /\ getAll \subseteq mQueue[s] \cup q[s] \cup wire[s]
        /\ mQueue[s] # {} => event[s] \/ at[s] = "swap"

\* "Manages at most one DnsTlsSocket at a time": a socket that the transport no
\* longer refers to has no running loop thread that could call it back.
OneSocket ==
    \A s \in Sockets : at[s] \in {"handshake", "poll", "swap", "closing", "join"} => s = mSocket
============================================================================
