----------------------------- MODULE LazyEventFD -----------------------------
(***************************************************************************)
(* The first calls of EngineImpl::postCallback.  getEventFD creates the    *)
(* EventFD on first use, without a lock: the test of the pointer, the      *)
(* construction with the reset of the pointer, and the post are steps of   *)
(* their own.  Resetting the pointer destroys the EventFD it held, with    *)
(* the callbacks posted to it.  EventFD describes a single one in detail.  *)
(***************************************************************************)
EXTENDS Naturals

CONSTANT Threads    \* each posts one callback, named after the thread

VARIABLES
    eventFD,    \* the pointer: 0, or the number of the EventFD it owns
    created,    \* how many were created; all but eventFD are destroyed
    pc,         \* where each thread is in postCallback
    held,       \* the EventFD that getEventFD returned to the thread
    callbacks,  \* <<n, t>>: the callback of t is in the queue of EventFD n
    executed

vars == <<eventFD, created, pc, held, callbacks, executed>>

Init ==
    /\ eventFD = 0 /\ created = 0
    /\ pc = [t \in Threads |-> "getEventFD"]
    /\ held = [t \in Threads |-> 0]
    /\ callbacks = {} /\ executed = {}

\* if (!eventFD)
testPointer(t) ==
    /\ pc[t] = "getEventFD"
    /\ pc' = [pc EXCEPT ![t] = IF eventFD = 0 THEN "create" ELSE "post"]
    /\ held' = [held EXCEPT ![t] = eventFD]
    /\ UNCHANGED <<eventFD, created, callbacks, executed>>

\* eventFD.reset(new EventFD(system, *this)); return *eventFD
create(t) ==
    /\ pc[t] = "create"
    /\ created' = created + 1
    /\ eventFD' = created'
    /\ held' = [held EXCEPT ![t] = created']
    /\ pc' = [pc EXCEPT ![t] = "post"]
    /\ UNCHANGED <<callbacks, executed>>

post(t) ==
    /\ pc[t] = "post"
    /\ callbacks' = callbacks \cup {<<held[t], t>>}
    /\ pc' = [pc EXCEPT ![t] = "done"]
    /\ UNCHANGED <<eventFD, created, held, executed>>

\* The loop serves the EventFD it monitors.
handleEvents(t) ==
    /\ <<eventFD, t>> \in callbacks
    /\ executed' = executed \cup {t}
    /\ callbacks' = callbacks \ {<<eventFD, t>>}
    /\ UNCHANGED <<eventFD, created, pc, held>>

Next ==
    \E t \in Threads : testPointer(t) \/ create(t) \/ post(t) \/ handleEvents(t)

Spec == Init /\ [][Next]_vars

\* postCallback is thread-safe: whichever threads call it first, a callback it
\* accepted was executed or waits where the event loop will find it.
PostCallbackThreadSafe ==
    \A t \in Threads :
        pc[t] = "done" => t \in executed \/ <<eventFD, t>> \in callbacks

=============================================================================
