----------------------------- MODULE SyncStorage -----------------------------
(***************************************************************************)
(* A synchronous SDL call from the application to the database and back:   *)
(* SyncStorageImpl polls the engine until the callbacks it gave to the     *)
(* asynchronous storage have run, AsyncRedisStorage owns the dispatcher    *)
(* and replaces it when the discovery reports another database, and the    *)
(* dispatcher connects, verifies the connection and carries one command.   *)
(* The dispatcher is reduced to what the storage sees of it; its own       *)
(* behaviour is the subject of CommandDispatcher.  The engine serves its   *)
(* descriptors in rounds: one epoll_wait reports a batch, which is served  *)
(* completely before the synchronous code tests its flags again.           *)
(***************************************************************************)
EXTENDS Naturals, Sequences, ErrorMapping

CONSTANTS
    Deployments,    \* applications and databases, one of which is chosen
    MaxPosted,      \* bound: callbacks posted when waitReady() is called
    MaxFaults,      \* bound: connections that are lost or fail
    MaxDiscoveries  \* bound: databases reported by the sentinel

\* waitReady() has a timeout of its own: zero, and not zero in waitReadyTimed.
WaitReady == {"waitReady", "waitReadyTimed"}

\* set() stands for all operations of one command; removeAll() sends KEYS and
\* then, if there are keys, DEL.
Operations == WaitReady \cup {"set", "removeAll", "emptySet", "invalidNamespace"}

\* The calls that the application makes, its setOperationTimeout ("zero": wait
\* without limit), and the discovery ("HIREDIS": the database is configured).
ASSUME DeploymentsKnown ==
    Deployments \subseteq [operations : SUBSET Operations,
                           operationTimeout : {"zero", "positive"},
                           discovery : {"HIREDIS", "SENTINEL"}]

ASSUME BoundsNat == {MaxPosted, MaxFaults, MaxDiscoveries} \subseteq Nat

\* The error codes that the callbacks get.
Codes == {"SUCCESS", "NOT_CONNECTED", "REDIS_NOT_YET_DISCOVERED", "CONNECTION_LOST",
          "UNKNOWN_ERROR", "INVALID_NAMESPACE"}

VARIABLES
    deployment,
    pc,         \* idle, or where a call is: pendingEvents, readiness, operation
    operation,  \* the call being made, or made last
    isReady, synced, localError,    \* members of SyncStorageImpl
    outcome,    \* how the last call ended: it returned, or with an exception
    conn,       \* of AsyncRedisStorage::dispatcher; none if there is none
    connectAck, \* the dispatcher's: none, client, storage (see setConnected)
    readyAck,   \* AsyncRedisStorage::readyAck is set
    command,    \* sent by the dispatcher: none, KEYS, sent, executed, refused
    posted,     \* callbacks in the engine's EventFD
    batch,      \* descriptors of this round that are still to be served
    executing,  \* the EventFD is being served
    applied,    \* history: the database made the change the call asked for
    wasUp,      \* history: the connection was up during the call
    faults, discoveries

flags == <<isReady, synced, localError>>
call == <<pc, operation, outcome>>
dispatcher == <<conn, connectAck, command>>
bounds == <<deployment, faults, discoveries>>
round == <<batch, executing>>
vars == <<call, flags, dispatcher, readyAck, posted, round, applied, wasUp,
          bounds>>

\* What the discovery posts when the storage is created: a configured database
\* is known at once, and does not change.
setStateChangedCb ==
    IF deployment.discovery = "HIREDIS" THEN <<"stateChanged">> ELSE <<>>

Init ==
    /\ deployment \in Deployments
    /\ pc = "idle" /\ operation = "none" /\ outcome = "none"
    /\ isReady = FALSE /\ synced = FALSE /\ localError = "SUCCESS"
    /\ conn = "none" /\ connectAck = "none" /\ command = "none"
    /\ readyAck = FALSE
    /\ posted = setStateChangedCb
    /\ batch = {} /\ executing = FALSE /\ applied = FALSE /\ wasUp = FALSE
    /\ faults = 0 /\ discoveries = 0

-----------------------------------------------------------------------------
(* Callbacks that SyncStorageImpl gives to the asynchronous storage.        *)

waitReadyAck == isReady' = TRUE /\ localError' = "SUCCESS" /\ UNCHANGED synced

\* modifyAck; modifyIfAck, getAck and findKeysAck also keep a result.
modifyAck(error) == synced' = TRUE /\ localError' = error /\ UNCHANGED isReady

-----------------------------------------------------------------------------
(* AsyncRedisStorage and its dispatcher.                                    *)

waitReadyAsync ==
    IF conn = "none"
    THEN readyAck' = TRUE /\ UNCHANGED <<connectAck, posted>>
    ELSE /\ connectAck' = "client"
         /\ posted' = IF conn = "up" THEN Append(posted, "ready") ELSE posted
         /\ UNCHANGED readyAck

\* canOperationBePerformed, and the dispatcher's own test: what is posted
\* instead of sending a command.
Answer(op) ==
    CASE op = "invalidNamespace" -> "INVALID_NAMESPACE"
      [] op = "emptySet" -> "SUCCESS"
      [] op \in {"set", "removeAll"} /\ conn = "none" -> "REDIS_NOT_YET_DISCOVERED"
      [] op \in {"set", "removeAll"} /\ conn \notin {"none", "up"} -> "NOT_CONNECTED"
      [] OTHER -> "none"

operationAsync(op) ==
    IF Answer(op) # "none"
    THEN posted' = Append(posted, Answer(op)) /\ UNCHANGED command
    ELSE /\ command' = IF op = "removeAll" THEN "KEYS" ELSE "sent"
         /\ UNCHANGED posted

\* Mutation: a command that got no reply is reported as one not sent.
interruptNotConnected(contextErr) ==
    /\ IF command = "none" THEN UNCHANGED flags
                           ELSE modifyAck("NOT_CONNECTED")
    /\ command' = "none"
    /\ applied' \in IF command = "sent" THEN BOOLEAN ELSE {applied}

\* A command without reply is answered by redisAsyncFree with the error of the
\* context, which has none if the dispatcher itself frees it.  The database may
\* have executed a command that was sent, or may yet do so.
interrupt(contextErr) ==
    /\ IF command = "none" THEN UNCHANGED flags
                           ELSE modifyAck(getRedisError(contextErr, [type |-> "NONE"]))
    /\ command' = "none"
    /\ applied' \in IF command = "sent" THEN BOOLEAN ELSE {applied}

\* The descriptors that stay in the batch when the dispatcher's is closed.
WithoutDispatcher == batch \ {"redis", "timer"}

\* The storage's own lambda calls its readyAck and clears it.
setConnected ==
    /\ conn' = "up" /\ wasUp' = TRUE
    /\ connectAck' = "none"
    /\ IF connectAck = "none" THEN UNCHANGED flags ELSE waitReadyAck
    /\ readyAck' = (readyAck /\ connectAck # "storage")

\* The new dispatcher connects when it is created, then the old one goes.
serviceStateChanged ==
    /\ \/ conn' = "connecting" /\ UNCHANGED faults
       \/ conn' = "lost" /\ faults < MaxFaults /\ faults' = faults + 1
    /\ interrupt("OTHER_CONTEXT")
    /\ connectAck' = IF readyAck THEN "storage" ELSE "none"
    /\ UNCHANGED <<readyAck, wasUp>>

-----------------------------------------------------------------------------
(* One round of the engine.                                                 *)

Readable ==
    (IF posted # <<>> THEN {"event"} ELSE {})
    \cup (IF conn = "lost" THEN {"timer"} ELSE {})
    \cup (IF \/ conn \in {"connecting", "verifying"}
             \/ conn = "up" /\ (command \in {"KEYS", "executed", "refused"}
                                \/ faults < MaxFaults)
          THEN {"redis"} ELSE {})
    \cup (IF deployment.discovery = "SENTINEL" /\ discoveries < MaxDiscoveries
          THEN {"sentinel"} ELSE {})

Polling ==
    /\ batch = {}
    /\ \/ pc = "pendingEvents"
       \/ pc = "readiness" /\ ~isReady
       \/ pc = "operation" /\ ~synced

\* The EventFD is readable from the moment a callback is posted; the others
\* become readable when something happens at the other end.
handleEvents ==
    /\ Polling
    /\ batch' \in SUBSET Readable \ {{}}
    /\ posted # <<>> => "event" \in batch'
    /\ UNCHANGED <<call, flags, dispatcher, readyAck, posted, executing, applied, wasUp,
                   bounds>>

\* The descriptors of a round are served in any order.
Serving(d) == d \in batch /\ (executing => d = "event")

\* The handler of the descriptor returns.
Served(d) == batch' = batch \ {d} /\ executing' = FALSE

\* EventFD::handleEvents runs all posted callbacks, one at a time here.
executePosted ==
    /\ Serving("event")
    /\ posted' = Tail(posted)
    /\ IF Len(posted) = 1 THEN Served("event") ELSE executing' = TRUE /\ UNCHANGED batch
    /\ LET cb == Head(posted)
       IN \/ /\ cb = "ready" /\ waitReadyAck
             /\ UNCHANGED <<dispatcher, readyAck, applied, wasUp, faults>>
          \/ /\ cb \in Codes /\ modifyAck(cb)
             /\ UNCHANGED <<dispatcher, readyAck, applied, wasUp, faults>>
          \/ /\ cb = "stateChanged" /\ serviceStateChanged
    /\ UNCHANGED <<call, deployment, discoveries>>

\* The sentinel names a master: the first one, or after a failover another.
sentinelReports ==
    /\ Serving("sentinel")
    /\ discoveries' = discoveries + 1
    /\ serviceStateChanged
    /\ batch' = WithoutDispatcher \ {"sentinel"}
    /\ UNCHANGED <<call, posted, executing, deployment>>

\* Mutation: the timer is armed again, and no attempt is made to connect.
retryArmsAgain ==
    /\ Serving("timer")
    /\ Served("timer")
    /\ UNCHANGED <<call, flags, dispatcher, readyAck, posted, applied, wasUp, bounds>>

connectionRetryTimer ==
    /\ Serving("timer")
    /\ conn' = "connecting" /\ Served("timer")
    /\ UNCHANGED <<call, flags, connectAck, command, readyAck, posted, applied,
                   wasUp, bounds>>

connected ==
    /\ Serving("redis") /\ conn = "connecting"
    /\ conn' = "verifying" /\ Served("redis")
    /\ UNCHANGED <<call, flags, connectAck, command, readyAck, posted, applied,
                   wasUp, bounds>>

verified ==
    /\ Serving("redis") /\ conn = "verifying"
    /\ setConnected
    /\ Served("redis")
    /\ UNCHANGED <<call, command, posted, applied, bounds>>

disconnected ==
    /\ Serving("redis") /\ faults < MaxFaults
    /\ conn' = "lost" /\ faults' = faults + 1
    /\ interrupt("REDIS_ERR_EOF")
    /\ Served("redis")
    /\ UNCHANGED <<call, connectAck, readyAck, posted, wasUp, deployment, discoveries>>

\* Mutation: an error is taken for an empty list.
keysReplyUnchecked ==
    /\ Serving("redis") /\ conn = "up" /\ command = "KEYS"
    /\ \/ command' = "none" /\ modifyAck("SUCCESS") /\ applied' \in BOOLEAN
       \/ command' = "sent" /\ UNCHANGED <<flags, applied>>
    /\ Served("redis")
    /\ UNCHANGED <<call, conn, connectAck, readyAck, posted, wasUp, bounds>>

\* The reply to KEYS: nothing to remove, or removeAsync sends DEL.
keysReply ==
    /\ Serving("redis") /\ conn = "up" /\ command = "KEYS"
    /\ \/ command' = "none" /\ modifyAck("SUCCESS") /\ applied' = TRUE
       \/ command' = "none" /\ modifyAck("UNKNOWN_ERROR") /\ UNCHANGED applied
       \/ command' = "sent" /\ UNCHANGED <<flags, applied>>
    /\ Served("redis")
    /\ UNCHANGED <<call, conn, connectAck, readyAck, posted, wasUp, bounds>>

reply ==
    /\ Serving("redis") /\ conn = "up" /\ command \in {"executed", "refused"}
    /\ modifyAck(IF command = "executed" THEN "SUCCESS" ELSE "UNKNOWN_ERROR")
    /\ command' = "none"
    /\ Served("redis")
    /\ UNCHANGED <<call, conn, connectAck, readyAck, posted, applied, wasUp, bounds>>

\* The database executes the command, or replies with an error.
execute ==
    /\ command = "sent" /\ conn = "up"
    /\ \/ command' = "executed" /\ applied' = TRUE
       \/ command' = "refused" /\ UNCHANGED applied
    /\ UNCHANGED <<call, flags, conn, connectAck, readyAck, posted, round,
                   wasUp, bounds>>

-----------------------------------------------------------------------------
(* The synchronous calls.                                                   *)

\* Mutation: isReady is left from the call before.
waitSdlStale == UNCHANGED isReady /\ waitReadyAsync /\ pc' = "readiness"

waitSdlToBeReady ==
    /\ isReady' = FALSE
    /\ waitReadyAsync
    /\ pc' = "readiness"

\* waitReady() waits at once, the operations handle pending events first.
Call(op) ==
    /\ pc = "idle" /\ (op \in WaitReady => Len(posted) < MaxPosted)
    /\ operation' = op /\ outcome' = "none"
    /\ applied' = FALSE /\ wasUp' = (conn = "up")
    /\ \/ /\ op \in WaitReady /\ waitSdlToBeReady
       \/ /\ op \notin WaitReady /\ pc' = "pendingEvents"
          /\ UNCHANGED <<isReady, readyAck, connectAck, posted>>
    /\ UNCHANGED <<synced, localError, conn, command, round, bounds>>

\* handlePendingEvents returns when poll finds nothing to read.
eventsHandled ==
    /\ pc = "pendingEvents" /\ batch = {} /\ posted = <<>>
    /\ waitSdlToBeReady
    /\ UNCHANGED <<operation, outcome, synced, localError, conn, command, round,
                   applied, wasUp, bounds>>

\* waitForReadinessCheckCallback returns
ReadinessKnown ==
    /\ pc = "readiness" /\ batch = {}
    /\ \/ isReady
       \/ operation = "waitReadyTimed"
       \/ operation \notin WaitReady /\ deployment.operationTimeout = "positive"

verifyBackendResponse ==
    outcome' = IF localError = "SUCCESS" THEN "returned"
                                         ELSE throwExceptionForErrorCode(localError)

\* The rest of waitReady().
waitReadyReturns ==
    /\ ReadinessKnown /\ operation \in WaitReady
    /\ IF isReady THEN verifyBackendResponse ELSE outcome' = "RejectedBySdl"
    /\ pc' = "idle"
    /\ UNCHANGED <<operation, flags, dispatcher, readyAck, posted, round,
                   applied, wasUp, bounds>>

\* Mutation: synced is left from the call before.
operationStale ==
    /\ ReadinessKnown /\ operation \notin WaitReady
    /\ operationAsync(operation)
    /\ pc' = "operation"
    /\ UNCHANGED <<operation, outcome, flags, conn, connectAck, readyAck, round,
                   applied, wasUp, bounds>>

\* The operations go on even if the wait for readiness timed out.
operationBegins ==
    /\ ReadinessKnown /\ operation \notin WaitReady
    /\ synced' = FALSE
    /\ operationAsync(operation)
    /\ pc' = "operation"
    /\ UNCHANGED <<operation, outcome, isReady, localError, conn, connectAck,
                   readyAck, round, applied, wasUp, bounds>>

operationReturns ==
    /\ pc = "operation" /\ synced /\ batch = {}
    /\ verifyBackendResponse
    /\ pc' = "idle"
    /\ UNCHANGED <<operation, flags, dispatcher, readyAck, posted, round,
                   applied, wasUp, bounds>>

Serve ==
    \/ executePosted \/ sentinelReports \/ connectionRetryTimer \/ connected
    \/ verified \/ disconnected \/ keysReply \/ reply

Caller ==
    \/ eventsHandled \/ waitReadyReturns \/ operationBegins \/ operationReturns

Next ==
    \/ \E op \in deployment.operations : Call(op)
    \/ Caller \/ handleEvents \/ Serve \/ execute

Spec == Init /\ [][Next]_vars

\* A call runs to its end, what becomes readable is reported, the database
\* executes commands.  Nothing makes the application call.
FairSpec ==
    /\ Spec
    /\ WF_vars(Caller) /\ WF_vars(handleEvents) /\ WF_vars(Serve)
    /\ WF_vars(execute)

-----------------------------------------------------------------------------
(* Properties.                                                              *)

\* "Data in the backend data storage has not been altered": an operation that
\* throws NotConnected did nothing.
NotConnectedNotApplied == outcome = "NotConnected" => ~applied

\* An operation that returns made its change.
ReturnedApplied ==
    outcome = "returned" /\ operation \in {"set", "removeAll"} => applied

\* The same for applications without operation timeout, whose operations begin
\* only when the connection has been up.
UntimedReturnedApplied == deployment.operationTimeout = "zero" => ReturnedApplied

\* A call that found the service ready was right: the connection was up during
\* this call, the acknowledgement was not meant for an earlier one.
ReadyWasUp == pc = "readiness" /\ isReady => wasUp

\* Between calls no command is under way and no answer is posted.  The callbacks
\* are the same for all calls, so a late answer would be taken for the next one's.
NoLateAnswer ==
    pc # "operation" =>
        /\ command = "none"
        /\ \A i \in DOMAIN posted : posted[i] \notin Codes

\* Every call returns or throws, once connections stop failing.
EveryCallReturns == pc # "idle" ~> pc = "idle"

=============================================================================
