----------------------------- MODULE Connections -----------------------------
(***************************************************************************)
(* Dispatchers, the epoll adapters and the engine together: which events   *)
(* of a round reach which connection while handlers of the same round open *)
(* and close connections, and the dispatcher for Redis clusters over its   *)
(* node connections.  The dispatcher is SINGLE, one that a sentinel makes  *)
(* the storage replace, or CLUSTER; the state machine of the single one    *)
(* is the subject of CommandDispatcher and reduced to connecting, the      *)
(* query that verifies a connection (without an error reply to it), and    *)
(* losing it.                                                              *)
(***************************************************************************)
EXTENDS EpollAdapter

CONSTANTS
    Commands, Verify,   \* callbacks of clients, and of the COMMAND query
    NodeOf,             \* the cluster node of each of them
    LastFD,             \* bound: descriptors
    MaxFaults,          \* bound: failures, for each type of dispatcher
    MaxReports          \* bound: masters that the sentinel reports

\* The descriptors that are always monitored, and those for connections.
EventFD == 1
TimerFD == 2
SentinelFD == 3
FDs == 4..LastFD

Callbacks == Commands \cup {Verify}

ASSUME ConstantsKnown ==
    /\ LastFD \in Nat /\ LastFD > 3
    /\ MaxFaults \in [{"SINGLE", "CLUSTER"} -> Nat] /\ MaxReports \in Nat
    /\ Verify \notin Commands /\ DOMAIN NodeOf = Callbacks

NoContext == [phase |-> "none"]

VARIABLES
    type,   \* DatabaseInfo::Type of the dispatcher
    io,     \* the engine and the adapters
    now,    \* indices of ebuffer served so far, descriptor and events of the last
    stage,  \* of serving it
    back,   \* the stage after the context that is being freed
    ctx,    \* the hiredis context of each descriptor
    serviceState, timer, cbs,   \* of the dispatcher; timer: it is armed
    status, \* of each callback: idle, held by hiredis, posted, done
    calling,    \* the callback of a client being executed: where to go on after it
    notices,    \* masters reported by the sentinel and not yet read
    life, faults, reported

dispatcher == <<serviceState, timer, cbs>>
loop == <<now, stage, back>>
environment == <<type, notices, life, faults, reported>>
vars == <<io, loop, ctx, dispatcher, status, calling, environment>>

NotServing == [served |-> {}, fd |-> 0, events |-> {}]

Open(fd) == ctx[fd].phase # "none"
Current(fd) == Open(fd) /\ ctx[fd].owner = "dispatcher"
Pending(fd) == ctx[fd].sent \o ctx[fd].unsent

Fault == faults < MaxFaults[type] /\ faults' = faults + 1

\* Client code runs: between rounds, in a callback, or in a posted function.
BetweenRounds == life = "alive" /\ stage = "loop" /\ now = NotServing

ClientRuns == stage = "client" \/ BetweenRounds

-----------------------------------------------------------------------------
(* Contexts.                                                                *)

\* For each descriptor of a set.
ForEach(Op(_, _), i, fds) ==
    LET done[n \in 3..LastFD] ==
            IF n = 3 THEN i
            ELSE IF n \in fds THEN Op(done[n - 1], n) ELSE done[n - 1]
    IN  done[LastFD]

\* The number that a new socket gets, if there is one: the lowest.
Lowest(c) ==
    {fd \in FDs : c[fd].phase = "none" /\ \A g \in FDs : c[g].phase = "none" => fd <= g}

\* hiredis opens a socket; the adapter is attached, and setting the connect
\* callback asks for a write event.
NewContext(c, fd, node, callbacks) ==
    [ctx |-> [c EXCEPT ![fd] =
            [phase |-> "connecting", owner |-> "dispatcher", node |-> node, eof |-> FALSE,
             connected |-> FALSE, sent |-> <<>>, unsent |-> callbacks]],
     io |-> addWrite(attach(io, fd), fd)]

Create(c, node, callbacks) ==
    \E fd \in Lowest(c) :
        LET new == NewContext(c, fd, node, callbacks) IN ctx' = new.ctx /\ io' = new.io

\* A dispatcher that forgets its contexts without freeing them.
Left == [fd \in FDs |-> IF Current(fd) THEN [ctx[fd] EXCEPT !.owner = "nobody"] ELSE ctx[fd]]

\* redisAsyncFree, after the pending callbacks: the adapter is cleaned up, then
\* the disconnect callback is called if the context was ever connected, then
\* the socket is closed.  A Node stays until it is detached.
Freed(i, fd) ==
    LET cleaned == cleanUp(i, fd)
    IN close(IF type = "SINGLE" \/ ctx[fd].connected THEN destroy(cleaned, fd) ELSE cleaned, fd)

-----------------------------------------------------------------------------
(* Dispatchers.                                                             *)

\* Mutation: the retry is forgotten.
retryForgotten == timer' = FALSE

armConnectionRetryTimer == timer' = TRUE

\* Single: the context, or the error that arms the timer.
connectSingle ==
    /\ \/ /\ Create(ctx, NodeOf[Verify], <<>>)
          /\ timer' = FALSE /\ UNCHANGED faults
       \/ /\ Fault /\ armConnectionRetryTimer
          /\ UNCHANGED <<io, ctx>>
    /\ UNCHANGED <<cbs, status>>

\* Cluster: a context that was not verified is left to itself.  The new one has
\* no connection yet; the COMMAND query opens one, or is refused.
connectCluster ==
    \/ /\ Fault /\ armConnectionRetryTimer
       /\ ctx' = Left
       /\ UNCHANGED <<io, cbs, status>>
    \/ /\ Create(Left, NodeOf[Verify], <<Verify>>)
       /\ cbs' = cbs \cup {Verify} /\ status' = [status EXCEPT ![Verify] = "held"]
       /\ timer' = FALSE /\ UNCHANGED faults
    \/ /\ Fault /\ ctx' = Left
       /\ status' = [status EXCEPT ![Verify] = "posted"]
       /\ timer' = FALSE /\ UNCHANGED <<io, cbs>>

connect ==
    \/ type = "SINGLE" /\ connectSingle
    \/ type = "CLUSTER" /\ connectCluster

Init ==
    /\ type \in {"SINGLE", "CLUSTER"}
    /\ io = [handlers |-> [fd \in 1..3 |-> fd], epoll |-> [fd \in 1..3 |-> {"IN"}],
             ebuffer |-> <<>>, nodes |-> [fd \in {} |-> NewNode], aborted |-> "no"]
    /\ now = NotServing /\ stage = "loop" /\ back = "loop"
    /\ ctx = [fd \in FDs |-> NoContext]
    /\ serviceState = "DISCONNECTED" /\ timer = FALSE /\ cbs = {}
    /\ status = [c \in Callbacks |-> "idle"] /\ calling = [cb |-> Verify, to |-> "loop"]
    /\ notices = 0 /\ life = "new" /\ faults = 0 /\ reported = 0

\* The constructor connects.
Construct ==
    /\ life = "new" /\ life' = "alive"
    /\ connect
    /\ UNCHANGED <<loop, serviceState, calling, type, notices, reported>>

Post(c) == status' = [status EXCEPT ![c] = "posted"]

\* Mutation: nobody is told that hiredis refused the command.
RefuseSilently(c) ==
    /\ status' = [status EXCEPT ![c] = "held"]
    /\ UNCHANGED <<io, ctx, cbs>>

\* The callback is removed again and the error posted.
Refuse(c) == Post(c) /\ UNCHANGED <<io, ctx, cbs>>

Hold(c) == cbs' = cbs \cup {c} /\ status' = [status EXCEPT ![c] = "held"]

Usable(node) ==
    {fd \in FDs : /\ Current(fd) /\ ctx[fd].node = node
                  /\ ctx[fd].phase \in {"connecting", "open"}}

\* hiredis-vip uses its connection to the node or opens one.
submit(c) ==
    LET node == IF type = "SINGLE" THEN NodeOf[Verify] ELSE NodeOf[c]
    IN \/ /\ Usable(node) = {} /\ (type = "SINGLE" \/ Fault) /\ Refuse(c)
          /\ (type = "SINGLE" => UNCHANGED faults)
       \/ \E fd \in Usable(node) :
            /\ ctx' = [ctx EXCEPT ![fd].unsent = Append(@, c)]
            /\ io' = addWrite(io, fd)
            /\ Hold(c) /\ UNCHANGED faults
       \/ /\ type = "CLUSTER" /\ Usable(node) = {}
          /\ Create(ctx, node, <<c>>)
          /\ Hold(c) /\ UNCHANGED faults

dispatchAsync(c) ==
    /\ ClientRuns /\ status[c] = "idle"
    /\ \/ /\ serviceState # "CONNECTED"
          /\ Post(c) /\ UNCHANGED <<io, ctx, cbs, faults>>
       \/ /\ serviceState = "CONNECTED" /\ submit(c)
    /\ UNCHANGED <<loop, serviceState, timer, calling, type, notices, life, reported>>

\* disconnectHiredis frees the contexts of a dispatcher in these states; only the
\* single one is ever in the second.
FreesContexts == serviceState \in {"CONNECTED", "CONNECTION_VERIFICATION"}

\* The storage is destroyed, with its callbacks disabled: the contexts are freed
\* or left, the adapter with its nodes always goes.
Destroy ==
    /\ BetweenRounds
    /\ LET mine == {fd \in FDs : Current(fd)}
           freed == IF FreesContexts THEN mine ELSE {}
           closed == ForEach(Freed, io, freed)
       IN /\ io' = ForEach(destroy, closed, DOMAIN closed.nodes)
          /\ ctx' = [fd \in FDs |-> IF fd \in freed THEN NoContext ELSE ctx[fd]]
    /\ life' = "gone" /\ timer' = FALSE
    /\ UNCHANGED <<loop, serviceState, cbs, status, calling, type, notices, faults, reported>>

-----------------------------------------------------------------------------
(* One round of the engine.                                                 *)

ReadyEvents(fd) ==
    CASE fd = EventFD -> IF \E c \in Callbacks : status[c] = "posted" THEN {"IN"} ELSE {}
      [] fd = TimerFD -> IF timer THEN {"IN"} ELSE {}
      [] fd = SentinelFD -> IF notices > 0 THEN {"IN"} ELSE {}
      [] OTHER -> io.epoll[fd] \cap
            ({"OUT"} \cup IF ctx[fd].eof \/ ctx[fd].sent # <<>> THEN {"IN"} ELSE {})

\* Some of the descriptors that are ready are reported, once each, with some of
\* their events.  The order of the buffer is left to callHandler: the descriptors
\* of its events stand for the indices.
epollWait ==
    /\ BetweenRounds
    /\ \E ready \in SUBSET UNION {{fd} \X ReadyEvents(fd) : fd \in DOMAIN io.epoll} :
        LET fds == {r[1] : r \in ready}
            Reported(fd) == [fd |-> fd, events |-> {r[2] : r \in {x \in ready : x[1] = fd}},
                             closed |-> FALSE]
        IN /\ ready # {}
           /\ io' = [io EXCEPT !.ebuffer = [fd \in fds |-> Reported(fd)]]
    /\ stage' = "next"
    /\ UNCHANGED <<now, back, ctx, dispatcher, status, calling, environment>>

HandlerOf(fd) ==
    CASE fd = EventFD -> "event" [] fd = TimerFD -> "timer"
      [] fd = SentinelFD -> "sentinel" [] OTHER -> "in"

\* The loop of epollWait over the buffer, and callHandler.
callHandler ==
    /\ stage = "next"
    /\ \E i \in DOMAIN io.ebuffer \ now.served :
        LET e == io.ebuffer[i]
        IN /\ now' = [served |-> now.served \cup {i}, fd |-> e.fd, events |-> e.events]
           /\ stage' = IF e.fd = -1 THEN stage ELSE HandlerOf(e.fd)
           /\ io' = IF e.fd \in {-1} \cup DOMAIN io.handlers THEN io
                    ELSE Abort(io, "bad_function_call")
    /\ UNCHANGED <<back, ctx, dispatcher, status, calling, environment>>

roundOver ==
    /\ stage = "next" /\ now.served = DOMAIN io.ebuffer
    /\ now' = NotServing /\ stage' = "loop" /\ io' = [io EXCEPT !.ebuffer = <<>>]
    /\ UNCHANGED <<back, ctx, dispatcher, status, calling, environment>>

-----------------------------------------------------------------------------
(* Callbacks.                                                               *)

\* handleReply for a callback of a client, which may dispatch commands.
CallClient(c, to) ==
    /\ status' = [status EXCEPT ![c] = "done"]
    /\ calling' = [cb |-> c, to |-> to]
    /\ stage' = "client"
    /\ UNCHANGED <<dispatcher, faults>>

\* A query that gets no reply arms the timer for the cluster.  For the single
\* dispatcher the disconnection that follows does, or the timer goes with the
\* dispatcher that was replaced.
verifyConnectionReply(error, to) ==
    /\ \/ /\ error /\ UNCHANGED serviceState
          /\ timer' = (timer \/ type = "CLUSTER")
       \/ ~error /\ serviceState' = "CONNECTED" /\ UNCHANGED timer
    /\ cbs' = cbs \ {Verify} /\ status' = [status EXCEPT ![Verify] = "idle"]
    /\ stage' = to /\ UNCHANGED calling

handleReply(c, error, to) ==
    IF c \notin cbs
    THEN /\ io' = Abort(io, "Invalid callback function")
         /\ UNCHANGED <<stage, dispatcher, status, calling, faults>>
    ELSE /\ UNCHANGED io
         /\ \/ c # Verify /\ CallClient(c, to)
            \/ c = Verify /\ verifyConnectionReply(error, to) /\ UNCHANGED faults
            \* the cluster answers the query with an error
            \/ /\ c = Verify /\ ~error /\ type = "CLUSTER" /\ Fault
               /\ verifyConnectionReply(TRUE, to)

\* The client's callback returns; handleReply removes it.
clientReturns ==
    /\ stage = "client" /\ stage' = calling.to
    /\ cbs' = cbs \ {calling.cb} /\ calling' = [cb |-> Verify, to |-> "loop"]
    /\ UNCHANGED <<now, back, io, ctx, serviceState, timer, status, environment>>

-----------------------------------------------------------------------------
(* The handlers of a connection.                                            *)

NodeMonitors(fd) ==
    fd \in DOMAIN io.nodes /\ (type = "CLUSTER" => io.nodes[fd].isMonitoring)

Reads ==
    "IN" \in now.events /\ NodeMonitors(now.fd) /\ io.nodes[now.fd].reading

Writes ==
    "OUT" \in now.events /\ NodeMonitors(now.fd) /\ io.nodes[now.fd].writing

\* A Node that was destroyed while it read a disconnection: eventHandler, which is
\* still running, tests the members of freed memory.
NodeFreed == type = "CLUSTER" /\ "OUT" \in now.events /\ now.fd \notin DOMAIN io.nodes

\* redisAsyncHandleRead: a reply.
readReply ==
    /\ (stage = "in" /\ Reads) \/ stage = "read"
    /\ ctx[now.fd].sent # <<>>
    /\ ctx' = [ctx EXCEPT ![now.fd].sent = Tail(@)]
    /\ handleReply(Head(ctx[now.fd].sent), FALSE, "read")
    /\ UNCHANGED <<now, back, type, notices, life, reported>>

BeginFree(fd, to) ==
    /\ ctx' = [ctx EXCEPT ![fd].phase = "closing"]
    /\ stage' = "closing" /\ back' = to

\* redisAsyncHandleRead: the end of the connection.
readEof ==
    /\ (stage = "in" /\ Reads) \/ stage = "read"
    /\ ctx[now.fd].eof
    /\ BeginFree(now.fd, "out")
    /\ UNCHANGED <<now, io, dispatcher, status, calling, environment>>

\* eventHandler goes on with its second test.
readDone ==
    /\ \/ stage = "in" /\ (Reads => ctx[now.fd].sent = <<>> /\ ~ctx[now.fd].eof)
       \/ stage = "read"
    /\ stage' = "out"
    /\ UNCHANGED <<now, back, io, ctx, dispatcher, status, calling, environment>>

\* redisAsyncHandleWrite: the connection is established first, if it is not;
\* connectCb of the single dispatcher, verifyConnection, disarms the timer and
\* sends the query; all output is written.
write ==
    /\ stage = "out" /\ Writes
    /\ LET fd == now.fd
           verifies == type = "SINGLE" /\ ctx[fd].phase = "connecting"
       IN /\ ctx' = [ctx EXCEPT ![fd].phase = "open", ![fd].connected = TRUE,
                    ![fd].sent = @ \o ctx[fd].unsent \o IF verifies THEN <<Verify>> ELSE <<>>,
                    ![fd].unsent = <<>>]
          /\ io' = addRead(delWrite(io, fd), fd)
          /\ IF verifies
             THEN serviceState' = "CONNECTION_VERIFICATION" /\ timer' = FALSE /\ Hold(Verify)
             ELSE UNCHANGED <<dispatcher, status>>
    /\ stage' = "next"
    /\ UNCHANGED <<now, back, calling, environment>>

\* ... or the connection cannot be established, or is found broken.
writeFails ==
    /\ stage = "out" /\ Writes
    /\ \/ ctx[now.fd].phase = "connecting" /\ Fault
       \/ ctx[now.fd].eof /\ UNCHANGED faults
    /\ BeginFree(now.fd, "next")
    /\ UNCHANGED <<now, io, dispatcher, status, calling, type, notices, life, reported>>

\* The members of a freed Node still have what cleanup wrote (handlerDone), or
\* are taken for those of a Node that writes: a freed context is used.
freedNodeWrites ==
    /\ stage = "out" /\ NodeFreed
    /\ io' = Abort(io, "freed Node")
    /\ UNCHANGED <<loop, ctx, dispatcher, status, calling, environment>>

handlerDone ==
    /\ stage = "out" /\ ~Writes
    /\ stage' = "next"
    /\ UNCHANGED <<now, back, io, ctx, dispatcher, status, calling, environment>>

Closing(fd) == stage = "closing" /\ ctx[fd].phase = "closing"

\* redisAsyncFree: the pending callbacks without a reply
pendingCallback(fd) ==
    /\ Closing(fd) /\ Pending(fd) # <<>>
    /\ ctx' = [ctx EXCEPT ![fd].sent = Tail(Pending(fd)), ![fd].unsent = <<>>]
    /\ handleReply(Head(Pending(fd)), TRUE, "closing")
    /\ UNCHANGED <<now, back, type, notices, life, reported>>

\* ... and the rest.  setDisconnected of the single dispatcher, if it still is
\* the storage's; the cluster's stays connected.
free(fd) ==
    /\ Closing(fd) /\ Pending(fd) = <<>>
    /\ io' = Freed(io, fd)
    /\ ctx' = [ctx EXCEPT ![fd] = NoContext]
    /\ IF type = "SINGLE" /\ Current(fd)
       THEN serviceState' = "DISCONNECTED" /\ armConnectionRetryTimer
       ELSE UNCHANGED <<serviceState, timer>>
    /\ stage' = back
    /\ UNCHANGED <<now, back, cbs, status, calling, environment>>

-----------------------------------------------------------------------------
(* The handlers of the other descriptors.                                   *)

executePosted(c) ==
    /\ stage = "event" /\ status[c] = "posted"
    /\ \/ c # Verify /\ CallClient(c, "event")
       \/ c = Verify /\ verifyConnectionReply(TRUE, "event") /\ UNCHANGED faults
    /\ UNCHANGED <<now, back, io, ctx, type, notices, life, reported>>

eventDone ==
    /\ stage = "event" /\ \A c \in Callbacks : status[c] # "posted"
    /\ stage' = "next"
    /\ UNCHANGED <<now, back, io, ctx, dispatcher, status, calling, environment>>

\* The timer may have been disarmed in this round.
connectionRetryTimer ==
    /\ stage = "timer" /\ stage' = "next"
    /\ \/ timer /\ connect
       \/ ~timer /\ UNCHANGED <<io, ctx, timer, cbs, status, faults>>
    /\ UNCHANGED <<now, back, serviceState, calling, type, notices, life, reported>>

\* AsyncRedisStorage: the new dispatcher connects, then the old one is destroyed:
\* its context is freed, pending callbacks and a pending query included, or left
\* without adapter.
serviceStateChanged ==
    /\ stage \in {"sentinel", "notified"} /\ notices > 0
    /\ LET old == {fd \in FDs : Current(fd)}
           left == [fd \in FDs |->
                IF fd \notin old THEN ctx[fd]
                ELSE [Left[fd] EXCEPT !.phase = IF FreesContexts THEN "closing" ELSE @]]
           Gone(i) == IF FreesContexts THEN i ELSE ForEach(destroy, i, old)
           New(fd) == NewContext(left, fd, NodeOf[Verify], <<>>)
       IN /\ \/ /\ \E fd \in Lowest(left) : ctx' = New(fd).ctx /\ io' = Gone(New(fd).io)
                /\ timer' = FALSE /\ UNCHANGED faults
             \/ ctx' = left /\ io' = Gone(io) /\ Fault /\ armConnectionRetryTimer
          /\ cbs' = IF FreesContexts THEN cbs ELSE {}
          /\ IF FreesContexts THEN stage' = "closing" /\ back' = "notified"
                              ELSE stage' = "notified" /\ UNCHANGED back
    /\ serviceState' = "DISCONNECTED" /\ notices' = notices - 1
    /\ UNCHANGED <<now, status, calling, type, life, reported>>

sentinelDone ==
    /\ stage = "notified" /\ stage' = "next"
    /\ UNCHANGED <<now, back, io, ctx, dispatcher, status, calling, environment>>

-----------------------------------------------------------------------------
(* Others.                                                                  *)

\* The peer closes a connection, or it breaks.
Lose(fd) ==
    /\ BetweenRounds /\ ctx[fd].phase = "open" /\ ~ctx[fd].eof /\ Fault
    /\ ctx' = [ctx EXCEPT ![fd].eof = TRUE]
    /\ UNCHANGED <<io, loop, dispatcher, status, calling, type, notices, life, reported>>

\* The sentinel names another master.
Report ==
    /\ BetweenRounds /\ type = "SINGLE" /\ reported < MaxReports
    /\ reported' = reported + 1 /\ notices' = notices + 1
    /\ UNCHANGED <<io, loop, ctx, dispatcher, status, calling, type, life, faults>>

Serve ==
    \/ Construct \/ epollWait \/ callHandler \/ roundOver \/ clientReturns
    \/ readReply \/ readEof \/ readDone
    \/ write \/ writeFails \/ freedNodeWrites \/ handlerDone
    \/ \E fd \in FDs : pendingCallback(fd) \/ free(fd)
    \/ \E c \in Callbacks : executePosted(c)
    \/ eventDone \/ connectionRetryTimer \/ serviceStateChanged \/ sentinelDone

Next ==
    /\ io.aborted = "no"
    /\ \/ Serve
       \/ \E c \in Commands : dispatchAsync(c)
       \/ Destroy \/ Report
       \/ \E fd \in FDs : Lose(fd)

Spec == Init /\ [][Next]_vars

\* The thread serves its engine; nothing makes the application call, the
\* sentinel report or a connection fail.
FairSpec == Spec /\ WF_vars(io.aborted = "no" /\ Serve)

-----------------------------------------------------------------------------
(* Properties.                                                              *)

\* An event reaches the connection it was reported for: the descriptor of an
\* event that callHandler passes on is monitored, and was not closed, and its
\* number perhaps given to another connection, since epoll_wait reported it.
EventReachesItsConnection ==
    [][\A i \in now'.served \ now.served :
        LET e == io.ebuffer[i]
        IN e.fd = -1 \/ (e.fd \in DOMAIN io.handlers /\ ~e.closed)]_vars

\* What the engine monitors is what the adapters believe: exactly the open
\* connections with an adapter that monitors, for the events it asked for;
\* after the dispatcher is gone, none.
MonitoringExact ==
    /\ DOMAIN io.handlers = DOMAIN io.epoll
    /\ DOMAIN io.handlers =
            1..3 \cup {fd \in DOMAIN io.nodes : io.nodes[fd].isMonitoring}
    /\ \A fd \in DOMAIN io.handlers \cap FDs :
            Open(fd) /\ io.epoll[fd] = eventState(io.nodes[fd])
    /\ life = "gone" => DOMAIN io.handlers = 1..3

\* A connection of the dispatcher that waits for something is registered for
\* the event that brings it.
NeverDeaf ==
    \A fd \in FDs : life = "alive" /\ Current(fd) /\ ctx[fd].phase # "closing" =>
        /\ ctx[fd].phase = "connecting" \/ ctx[fd].unsent # <<>> => "OUT" \in io.epoll[fd]
        /\ ctx[fd].phase = "open" => "IN" \in io.epoll[fd]

\* None of the aborts of the engine and of the dispatcher is reached, for an
\* adapter that adds, modifies and deletes descriptors as hiredis tells it.  The
\* one way the process may die is that a Node of the cluster adapter, destroyed
\* while it served an event that says writable too, is read after it was freed.
NoAbort == io.aborted = "no" \/ (io.aborted = "freed Node" /\ NodeFreed)

\* The storage is destroyed, or the process died of a freed Node.
Over == life = "gone" \/ io.aborted = "freed Node"

\* Once failures stop, the dispatcher is connected and stays so.
EventuallyConnected == <>[](Over \/ serviceState = "CONNECTED")

\* Every command is answered, unless the storage is destroyed: no command is in
\* the end still held by hiredis or posted (each is dispatched once).
EveryCommandAnswered ==
    <>[](Over \/ \A c \in Commands : status[c] \in {"idle", "done"})

=============================================================================
