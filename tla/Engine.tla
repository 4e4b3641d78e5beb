-------------------------------- MODULE Engine --------------------------------
(***************************************************************************)
(* The descriptor table of the engine, as operators on a record with the   *)
(* members handlers (descriptor to handler), epoll (the kernel's interest  *)
(* list), ebuffer (the events of the round being served) and aborted.  An  *)
(* event remembers whether its descriptor was closed since it was          *)
(* reported, which the code does not know.                                 *)
(***************************************************************************)
EXTENDS Integers, Sequences, Functions

Put(f, x, y) == [z \in DOMAIN f \cup {x} |-> IF z = x THEN y ELSE f[z]]

Abort(e, reason) == [e EXCEPT !.aborted = reason]

addMonitoredFD(e, fd, events, handler) ==
    IF fd \in DOMAIN e.handlers THEN Abort(e, "already added")
    ELSE [e EXCEPT !.epoll = Put(@, fd, events), !.handlers = Put(@, fd, handler)]

modifyMonitoredFD(e, fd, events) ==
    IF fd \notin DOMAIN e.handlers THEN Abort(e, "modified does not exist")
    ELSE [e EXCEPT !.epoll[fd] = events]

\* Mutation: an event that was already reported stays in the buffer.
deleteUnmarked(e, fd) ==
    IF fd \notin DOMAIN e.handlers THEN Abort(e, "deleted does not exist")
    ELSE [e EXCEPT !.handlers = Restrict(@, DOMAIN @ \ {fd}),
                   !.epoll = Restrict(@, DOMAIN @ \ {fd})]

\* The first event of the descriptor in the buffer is marked.
Marked(ebuffer, fd) ==
    [i \in DOMAIN ebuffer |->
        IF ebuffer[i].fd = fd /\ \A j \in DOMAIN ebuffer : j < i => ebuffer[j].fd # fd
        THEN [ebuffer[i] EXCEPT !.fd = -1] ELSE ebuffer[i]]

deleteMonitoredFD(e, fd) ==
    IF fd \notin DOMAIN e.handlers THEN Abort(e, "deleted does not exist")
    ELSE [e EXCEPT !.handlers = Restrict(@, DOMAIN @ \ {fd}),
                   !.ebuffer = Marked(@, fd),
                   !.epoll = Restrict(@, DOMAIN @ \ {fd})]

\* The system call: the kernel forgets the descriptor.
close(e, fd) ==
    [e EXCEPT !.epoll = Restrict(@, DOMAIN @ \ {fd}),
              !.ebuffer = [i \in DOMAIN @ |->
                    IF @[i].fd = fd THEN [@[i] EXCEPT !.closed = TRUE] ELSE @[i]]]

=============================================================================
