------------------------------- MODULE EventFD -------------------------------
(***************************************************************************)
(* EventFD: a queue of callbacks protected by a mutex and an eventfd whose *)
(* counter wakes the event loop.  Any thread posts; the loop thread reads  *)
(* the eventfd, takes all callbacks and executes them.  EngineImpl::run    *)
(* and stop are the loop around it.                                        *)
(***************************************************************************)
EXTENDS Naturals, Sequences

CONSTANTS
    Threads,    \* threads that post, the loop thread among them
    Loop,       \* the thread of the event loop
    Callbacks,
    Stop,       \* the callback that EngineImpl::stop posts
    MaxQueued   \* bound: callbacks waiting in the queue

ASSUME LoopIsThread == Loop \in Threads
ASSUME StopIsCallback == Stop \in Callbacks
ASSUME IdleNotCallback == "idle" \notin Callbacks

VARIABLES
    callbacks,  \* the shared queue
    counter,    \* the eventfd's counter; the descriptor is readable if > 0
    posting,    \* threads between the push and the write of post
    pc,         \* the loop: waiting, selected, popping, executing or returned
    extracted,  \* executeCallbacks' local queue
    current,    \* the callback on the loop thread's stack
    stopped

vars == <<callbacks, counter, posting, pc, extracted, current, stopped>>

Init ==
    /\ callbacks = <<>> /\ counter = 0 /\ posting = {}
    /\ pc = "waiting" /\ extracted = <<>> /\ current = "idle"
    /\ stopped = FALSE

\* The loop thread posts from a callback, between two calls of handleEvents or
\* outside run.
MayPost(t) ==
    /\ t \notin posting
    /\ t = Loop => current # "idle" \/ pc \in {"waiting", "returned"}

LoopRuns == Loop \notin posting

-----------------------------------------------------------------------------
(* post                                                                     *)

atomicPushBack(t, c) ==
    /\ MayPost(t) /\ Len(callbacks) < MaxQueued
    /\ callbacks' = Append(callbacks, c)
    /\ posting' = posting \cup {t}
    /\ UNCHANGED <<counter, pc, extracted, current, stopped>>

writeFD(t) ==
    /\ t \in posting
    /\ counter' = counter + 1
    /\ posting' = posting \ {t}
    /\ UNCHANGED <<callbacks, pc, extracted, current, stopped>>

-----------------------------------------------------------------------------
(* The event loop                                                           *)

\* Mutation: the loop leaves whatever is pending when it was stopped once.
runForgetsReset ==
    /\ LoopRuns /\ pc = "waiting" /\ stopped
    /\ pc' = "returned"
    /\ UNCHANGED <<callbacks, counter, posting, extracted, current, stopped>>

\* while (!stopped) ...; stopped = false
runReturns ==
    /\ LoopRuns /\ pc = "waiting" /\ stopped
    /\ pc' = "returned" /\ stopped' = FALSE
    /\ UNCHANGED <<callbacks, counter, posting, extracted, current>>

run ==
    /\ LoopRuns /\ pc = "returned"
    /\ pc' = "waiting"
    /\ UNCHANGED <<callbacks, counter, posting, extracted, current, stopped>>

epollWait ==
    /\ LoopRuns /\ pc = "waiting" /\ ~stopped /\ counter > 0
    /\ pc' = "selected"
    /\ UNCHANGED <<callbacks, counter, posting, extracted, current, stopped>>

\* handleEvents: the read resets the counter ...
readFD ==
    /\ pc = "selected"
    /\ counter' = 0 /\ pc' = "popping"
    /\ UNCHANGED <<callbacks, posting, extracted, current, stopped>>

\* Mutation: one callback is taken per read.
popOne ==
    /\ pc = "popping"
    /\ IF callbacks = <<>> THEN UNCHANGED <<callbacks, extracted>>
       ELSE extracted' = <<Head(callbacks)>> /\ callbacks' = Tail(callbacks)
    /\ pc' = "executing"
    /\ UNCHANGED <<counter, posting, current, stopped>>

\* Mutation: the newest callbacks first.
popNewestFirst ==
    /\ pc = "popping"
    /\ extracted' = [i \in 1..Len(callbacks) |-> callbacks[Len(callbacks) + 1 - i]]
    /\ callbacks' = <<>>
    /\ pc' = "executing"
    /\ UNCHANGED <<counter, posting, current, stopped>>

\* ... and only then the queue is taken.
atomicPopAll ==
    /\ pc = "popping"
    /\ extracted' = callbacks /\ callbacks' = <<>>
    /\ pc' = "executing"
    /\ UNCHANGED <<counter, posting, current, stopped>>

popAndExecuteFirstCallback ==
    /\ pc = "executing" /\ current = "idle" /\ extracted # <<>>
    /\ current' = Head(extracted) /\ extracted' = Tail(extracted)
    /\ UNCHANGED <<callbacks, counter, posting, pc, stopped>>

\* The callback of EngineImpl::stop sets stopped.
CallbackReturns ==
    /\ LoopRuns /\ current # "idle"
    /\ stopped' = (stopped \/ current = Stop)
    /\ current' = "idle"
    /\ UNCHANGED <<callbacks, counter, posting, pc, extracted>>

handleEventsReturns ==
    /\ pc = "executing" /\ current = "idle" /\ extracted = <<>>
    /\ pc' = "waiting"
    /\ UNCHANGED <<callbacks, counter, posting, extracted, current, stopped>>

Post == \E t \in Threads, c \in Callbacks : atomicPushBack(t, c)

LoopStep ==
    \/ runReturns \/ run \/ epollWait \/ readFD \/ atomicPopAll
    \/ popAndExecuteFirstCallback \/ CallbackReturns \/ handleEventsReturns

Next == Post \/ (\E t \in Threads : writeFD(t)) \/ LoopStep

Spec == Init /\ [][Next]_vars

\* A thread inside post finishes it, and the application keeps its event loop
\* running, as the documentation of AsyncStorage::fd demands.
FairSpec == Spec /\ (\A t \in Threads : WF_vars(writeFD(t))) /\ WF_vars(LoopStep)

-----------------------------------------------------------------------------
(* Properties.                                                              *)

TypeOK ==
    /\ callbacks \in Seq(Callbacks) /\ extracted \in Seq(Callbacks)
    /\ counter \in Nat /\ posting \subseteq Threads
    /\ pc \in {"waiting", "selected", "popping", "executing", "returned"}
    /\ current \in Callbacks \cup {"idle"}
    /\ stopped \in BOOLEAN

\* No wake-up is lost: a callback in the queue is announced by the counter,
\* will be by a thread that has not written yet, or is about to be taken.  It
\* depends on post pushing before it writes and on handleEvents reading before
\* it takes the queue.
WakeupPending ==
    callbacks # <<>> => counter > 0 \/ pc = "popping" \/ posting # {}

\* The loop keeps the promise of postCallback: every callback is executed, once,
\* in posting order, whatever threads post in between.
Queue == INSTANCE CallbackQueue WITH pending <- extracted \o callbacks

PostedInOrder == Queue!Spec

EveryCallbackExecuted == Queue!FairSpec

\* stop(), from any thread, makes run() return; a later run() is not affected.
StopEndsRun ==
    /\ current = Stop ~> pc = "returned"
    /\ [](pc = "returned" => ~stopped)

=============================================================================
