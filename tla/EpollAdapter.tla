----------------------------- MODULE EpollAdapter -----------------------------
(***************************************************************************)
(* The adapters between hiredis and the engine: HiredisEpollAdapter, one   *)
(* for a dispatcher and its context, and HiredisClusterEpollAdapter with a *)
(* Node per context.  nodes, a member of the record of Engine, has for     *)
(* each descriptor the adapter or Node that was attached to it.  A Node    *)
(* and the adapter of a single context differ only where the operators     *)
(* say so.                                                                 *)
(***************************************************************************)
EXTENDS Engine

NewNode == [reading |-> FALSE, writing |-> FALSE, isMonitoring |-> TRUE]

eventState(node) ==
    (IF node.reading THEN {"IN"} ELSE {}) \cup (IF node.writing THEN {"OUT"} ELSE {})

\* reading and writing change, and the engine is told.
SetFlags(io, fd, node) ==
    modifyMonitoredFD([io EXCEPT !.nodes[fd] = node], fd, eventState(node))

\* Mutation: the engine is not told.
addReadOnly(io, fd) == [io EXCEPT !.nodes[fd].reading = TRUE]

addRead(io, fd) ==
    IF io.nodes[fd].reading THEN io
    ELSE SetFlags(io, fd, [io.nodes[fd] EXCEPT !.reading = TRUE])

addWrite(io, fd) ==
    IF io.nodes[fd].writing THEN io
    ELSE SetFlags(io, fd, [io.nodes[fd] EXCEPT !.writing = TRUE])

delWrite(io, fd) == SetFlags(io, fd, [io.nodes[fd] EXCEPT !.writing = FALSE])

cleanUp(io, fd) ==
    [deleteMonitoredFD(io, fd) EXCEPT
        !.nodes[fd] = [reading |-> FALSE, writing |-> FALSE, isMonitoring |-> FALSE]]

\* The object is gone.
Erase(io, fd) == [io EXCEPT !.nodes = Restrict(@, DOMAIN @ \ {fd})]

\* Mutation: an object whose context was freed is cleaned up again.
destroyUnchecked(io, fd) == Erase(cleanUp(io, fd), fd)

\* Mutation: the descriptor stays monitored.
destroyMonitoring(io, fd) == Erase(io, fd)

\* ~Node and ~HiredisEpollAdapter.
destroy(io, fd) ==
    Erase(IF io.nodes[fd].isMonitoring THEN cleanUp(io, fd) ELSE io, fd)

\* Of the cluster adapter, when a node was disconnected or its number is reused.
detach(io, fd) == IF fd \in DOMAIN io.nodes THEN destroy(io, fd) ELSE io

\* The cluster adapter detaches first.  There is nothing to detach from the
\* adapter of a single context, which only overwrites what cleanUp left.
attach(io, fd) ==
    LET added == addMonitoredFD(detach(io, fd), fd, {}, fd)
    IN [added EXCEPT !.nodes = Put(@, fd, NewNode)]

=============================================================================
