---------------------------- MODULE EventFDProofs ----------------------------
(***************************************************************************)
(* Proofs about EventFD for any number of threads and callbacks: no        *)
(* wake-up is lost, and EventFD implements CallbackQueue.                  *)
(***************************************************************************)
EXTENDS EventFD, SequenceTheorems, TLAPS

\* More time than a leaf has by default.
USE SMTT(30), ZenonT(30)

\* The local queue is in use only while it is executed, and only then a
\* callback is on the stack.
LocalQueue ==
    pc # "executing" => extracted = <<>> /\ current = "idle"

\* The types, but for the flag, which needs a backend of its own.
Types ==
    /\ callbacks \in Seq(Callbacks) /\ extracted \in Seq(Callbacks)
    /\ counter \in Nat /\ posting \subseteq Threads
    /\ pc \in {"waiting", "selected", "popping", "executing", "returned"}
    /\ current \in Callbacks \cup {"idle"}

IInv == Types /\ LocalQueue /\ WakeupPending

LEMMA StepKeepsIInv == ASSUME IInv, [Next]_vars PROVE IInv'
  <1> USE DEF IInv, Types, LocalQueue, WakeupPending
  <1>1. ASSUME NEW t \in Threads, NEW c \in Callbacks, atomicPushBack(t, c)
        PROVE  IInv'
    BY <1>1 DEF atomicPushBack
  <1>2. ASSUME NEW t \in Threads, writeFD(t) PROVE IInv'
    BY <1>2 DEF writeFD
  <1>3. CASE runReturns \/ run \/ epollWait \/ readFD \/ handleEventsReturns
    BY <1>3 DEF runReturns, run, epollWait, readFD, handleEventsReturns
  <1>4. CASE atomicPopAll
    BY <1>4 DEF atomicPopAll
  <1>5. CASE popAndExecuteFirstCallback
    BY <1>5 DEF popAndExecuteFirstCallback
  <1>6. CASE CallbackReturns
    BY <1>6 DEF CallbackReturns
  <1>7. CASE UNCHANGED vars
    BY <1>7 DEF vars
  <1> QED
    BY <1>1, <1>2, <1>3, <1>4, <1>5, <1>6, <1>7 DEF Next, Post, LoopStep

THEOREM IInvariant == Spec => []IInv
  <1>1. Init => IInv
    BY DEF Init, IInv, Types, LocalQueue, WakeupPending
  <1>2. IInv /\ [Next]_vars => IInv'
    BY StepKeepsIInv
  <1> QED
    BY <1>1, <1>2, PTL DEF Spec

\* No interleaving of posting threads with the loop leaves a callback in the
\* queue that nothing will announce.
THEOREM NoLostWakeup == Spec => []WakeupPending
  <1>1. IInv => WakeupPending
    BY DEF IInv
  <1> QED
    BY <1>1, IInvariant, PTL

\* Only callbacks are queued, and every other variable keeps its type.
THEOREM TypeCorrect == Spec => []TypeOK
  <1>1. Init => stopped \in BOOLEAN
    BY Zenon DEF Init
  <1>2. stopped \in BOOLEAN /\ [Next]_vars => (stopped \in BOOLEAN)'
    BY Zenon DEF Next, Post, LoopStep, vars, atomicPushBack, writeFD, runReturns,
       run, epollWait, readFD, atomicPopAll, popAndExecuteFirstCallback,
       CallbackReturns, handleEventsReturns
  <1>3. IInv /\ stopped \in BOOLEAN => TypeOK
    BY Zenon DEF IInv, Types, TypeOK
  <1> QED
    BY <1>1, <1>2, <1>3, IInvariant, PTL DEF Spec

\* What each step of the loop does to the queue as the specification of
\* postCallback sees it: the local queue followed by the shared one.
LEMMA StepRefines ==
    ASSUME IInv, [Next]_vars
    PROVE  [Queue!Next]_<<extracted \o callbacks, current>>
  <1> USE DEF IInv, Types, LocalQueue
  <1>1. ASSUME NEW t \in Threads, NEW c \in Callbacks, atomicPushBack(t, c)
        PROVE  Queue!Post(c)
    <2>1. extracted \o Append(callbacks, c) = Append(extracted \o callbacks, c)
      BY <1>1
    <2> QED
      BY <1>1, <2>1 DEF atomicPushBack, Queue!Post
  <1>2. CASE atomicPopAll
    <2>1. (extracted \o callbacks)' = extracted \o callbacks
      BY <1>2, ConcatEmptySeq DEF atomicPopAll
    <2> QED
      BY <1>2, <2>1 DEF atomicPopAll
  <1>3. CASE popAndExecuteFirstCallback
    <2>1. /\ extracted \o callbacks # <<>>
          /\ Head(extracted \o callbacks) = Head(extracted)
          /\ Tail(extracted \o callbacks) = Tail(extracted) \o callbacks
      BY <1>3 DEF popAndExecuteFirstCallback
    <2> QED
      BY <1>3, <2>1 DEF popAndExecuteFirstCallback, Queue!Execute, Queue!Idle,
         Queue!Next
  <1>4. CASE CallbackReturns
    BY <1>4 DEF CallbackReturns, Queue!Return, Queue!Idle, Queue!Next
  <1>5. CASE \/ \E t \in Threads : writeFD(t)
             \/ runReturns \/ run \/ epollWait \/ readFD \/ handleEventsReturns
             \/ UNCHANGED vars
    BY <1>5 DEF writeFD, runReturns, run, epollWait, readFD,
       handleEventsReturns, vars
  <1> QED
    BY ZenonT(30), <1>1, <1>2, <1>3, <1>4, <1>5 DEF Next, Post, LoopStep, Queue!Next

\* EventFD implements CallbackQueue: each callback is executed at most once and
\* in posting order.
THEOREM Refinement == Spec => PostedInOrder
  <1>1. Init => Queue!Init
    BY ConcatEmptySeq DEF Init, Queue!Init, Queue!Idle
  <1>2. IInv /\ [Next]_vars => [Queue!Next]_<<extracted \o callbacks, current>>
    BY StepRefines
  <1> QED
    BY <1>1, <1>2, IInvariant, PTL DEF Spec, PostedInOrder, Queue!Spec

=============================================================================
