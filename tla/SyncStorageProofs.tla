-------------------------- MODULE SyncStorageProofs --------------------------
(***************************************************************************)
(* Proofs about SyncStorage for any deployments and bounds: what the       *)
(* outcome of a synchronous call says of the database, and that no call    *)
(* takes an acknowledgement or an answer that was meant for another.       *)
(***************************************************************************)
EXTENDS SyncStorage, SequenceTheorems, TLAPS

\* More time than a leaf has by default.
USE SMTT(30), ZenonT(30)

In(cb) == \E i \in DOMAIN posted : posted[i] = cb
NoCodes == \A i \in DOMAIN posted : posted[i] \notin Codes

\* The codes of an operation that was not tried.
NotTried == {"NOT_CONNECTED", "REDIS_NOT_YET_DISCOVERED"}

Untimed == deployment.operationTimeout = "zero"
Changing == operation \in {"set", "removeAll"}

Types ==
    /\ deployment \in Deployments
    /\ pc \in {"idle", "pendingEvents", "readiness", "operation"}
    /\ localError \in Codes
    /\ posted \in Seq(Codes \cup {"ready", "stateChanged"})
    /\ conn \in {"none", "connecting", "verifying", "up", "lost"}
    /\ connectAck \in {"none", "client", "storage"}
    /\ command \in {"none", "KEYS", "sent", "executed", "refused"}
    /\ batch \subseteq {"event", "timer", "redis", "sentinel"}

\* The descriptors of a round belong to the present connection, and the EventFD
\* is among them until all callbacks have run.
RoundInv ==
    /\ pc = "idle" => batch = {}
    /\ batch # {} => ("event" \in batch <=> posted # <<>>)
    /\ "timer" \in batch => conn = "lost"
    /\ "redis" \in batch => conn \in {"connecting", "verifying", "up"}
    /\ "sentinel" \in batch => deployment.discovery = "SENTINEL"
    /\ \A i \in DOMAIN posted : posted[i] = "stateChanged" =>
            i = 1 /\ conn = "none" /\ deployment.discovery = "HIREDIS"

\* An operation has one answer, which is posted or will come from the command.
AnswerInv ==
    /\ pc # "operation" \/ synced => command = "none" /\ NoCodes
    /\ command # "none" => NoCodes
    /\ \A i, j \in DOMAIN posted :
            posted[i] \in Codes /\ posted[j] \in Codes => i = j

\* What is applied when.
AppliedInv ==
    /\ pc \in {"pendingEvents", "readiness"} => ~applied
    /\ pc = "operation" /\ ~synced /\ command = "none" => ~applied
    /\ pc = "operation" /\ synced /\ localError \in NotTried => ~applied
    /\ command = "executed" => applied
    /\ pc # "idle" => outcome = "none"
    /\ NotConnectedNotApplied

\* The connection that an acknowledgement was posted for, or that made a call
\* find the service ready, is up or was lost in this very round.
RecentlyUp ==
    \/ conn = "up"
    \/ conn \in {"lost", "connecting"} /\ batch \cap {"redis", "timer"} = {}

ReadyInv ==
    /\ pc # "idle" /\ (conn = "up" \/ In("ready")) => wasUp
    /\ In("ready") => RecentlyUp /\ (batch = {} => conn = "up")
    /\ pc = "readiness" /\ isReady => wasUp /\ RecentlyUp /\ (batch = {} => posted = <<>>)

\* Without operation timeout an operation begins on a connection that was up in
\* the last round.  If it is not up any more, the answer NOT_CONNECTED is applied
\* before the connection can come up again, and nothing overwrites it.
UntimedInv ==
    /\ Untimed /\ pc = "operation" =>
        /\ \A i \in DOMAIN posted : posted[i] \in Codes
        /\ Changing =>
            /\ \A i \in DOMAIN posted : posted[i] \in NotTried
            /\ posted # <<>> => /\ "redis" \in batch => conn = "connecting"
                                /\ batch = {} => conn \in {"lost", "connecting"}
            /\ synced /\ "redis" \in batch => conn # "verifying"
            /\ synced /\ localError = "SUCCESS" => applied
    /\ UntimedReturnedApplied

IInv == Types /\ RoundInv /\ AnswerInv /\ AppliedInv /\ ReadyInv /\ UntimedInv

-----------------------------------------------------------------------------
(* Errors.                                                                  *)

\* The exception NotConnected is thrown only for the codes of an operation that
\* was not tried, and only the code SUCCESS makes a call return.
LEMMA OutcomeOf ==
    ASSUME NEW code \in Codes
    PROVE  /\ throwExceptionForErrorCode(code) = "NotConnected" => code \in NotTried
           /\ throwExceptionForErrorCode(code) # "returned"
  <1>1. /\ default_error_condition("SUCCESS") = "SUCCESS"
        /\ default_error_condition("CONNECTION_LOST") = "BACKEND_CONNECTION_LOST"
        /\ default_error_condition("UNKNOWN_ERROR") = "BACKEND_ERROR"
        /\ default_error_condition("INVALID_NAMESPACE") = "SDL_RECEIVED_INVALID_PARAMETER"
    BY DEF default_error_condition, StorageCondition, DispatcherCondition
  <1>2. "NOT_CONNECTED" \in Equals(code) =>
              default_error_condition(code) \in {"SDL_NOT_CONNECTED_TO_BACKEND",
                                                "BACKEND_NOT_READY", "SDL_NOT_READY"}
    BY DEF Equals, equivalent
  <1>3. /\ throwExceptionForErrorCode(code) # "returned"
        /\ throwExceptionForErrorCode(code) = "NotConnected" =>
              "NOT_CONNECTED" \in Equals(code)
    BY DEF throwExceptionForErrorCode
  <1> QED
    BY <1>1, <1>2, <1>3 DEF Codes, NotTried

\* A command that was sent is never answered with SUCCESS or with a code of an
\* operation that was not tried when its connection goes.
LEMMA InterruptedCode ==
    ASSUME NEW err \in {"OTHER_CONTEXT", "REDIS_ERR_EOF"}
    PROVE  getRedisError(err, [type |-> "NONE"]) \in Codes \ (NotTried \cup {"SUCCESS"})
  <1>1. /\ mapRedisContextErrorToSdlError["OTHER_CONTEXT"] = "UNKNOWN_ERROR"
        /\ mapRedisContextErrorToSdlError["REDIS_ERR_EOF"] = "CONNECTION_LOST"
    BY DEF mapRedisContextErrorToSdlError
  <1>2. getRedisError(err, [type |-> "NONE"]) = mapRedisContextErrorToSdlError[err]
    BY DEF getRedisError
  <1> QED
    BY <1>1, <1>2 DEF Codes, NotTried

-----------------------------------------------------------------------------
(* The inductive invariant.                                                 *)

LEMMA InitIInv == Init => IInv
  <1> SUFFICES ASSUME Init PROVE IInv
    OBVIOUS
  <1>0. \/ posted = <<>>
        \/ posted = <<"stateChanged">> /\ deployment.discovery = "HIREDIS"
    BY DEF Init, setStateChangedCb
  <1>1. Types /\ RoundInv /\ AnswerInv
    <2>1. /\ <<>> \in Seq(Codes \cup {"ready", "stateChanged"})
          /\ <<"stateChanged">> \in Seq(Codes \cup {"ready", "stateChanged"})
      OBVIOUS
    <2>2. Types
      BY ZenonT(30), <1>0, <2>1 DEF Init, Types, Codes
    <2>3. RoundInv /\ AnswerInv
      BY <1>0 DEF Init, RoundInv, AnswerInv, NoCodes, Codes
    <2> QED
      BY <2>2, <2>3
  <1>2. AppliedInv /\ ReadyInv /\ UntimedInv
    BY DEF Init, AppliedInv, NotConnectedNotApplied, ReadyInv, RecentlyUp, In, UntimedInv,
       UntimedReturnedApplied, ReturnedApplied, setStateChangedCb
  <1> QED
    BY <1>1, <1>2 DEF IInv

\* The engine begins a round.
LEMMA handleEventsKeeps == ASSUME IInv, handleEvents PROVE IInv'
  <1> USE DEF IInv, handleEvents, Polling, Readable, call, flags, dispatcher, bounds
  <1>1. Types' /\ RoundInv'
    BY DEF Types, RoundInv
  <1>2. AnswerInv' /\ AppliedInv'
    BY DEF AnswerInv, AppliedInv, NotConnectedNotApplied, NoCodes
  <1>3. ReadyInv'
    BY DEF ReadyInv, RecentlyUp, In, Types
  <1>4. UntimedInv'
    BY DEF UntimedInv, Untimed, Changing, UntimedReturnedApplied, ReturnedApplied, Types
  <1> QED
    BY <1>1, <1>2, <1>3, <1>4

\* The retry timer expires.
LEMMA connectionRetryTimerKeeps == ASSUME IInv, connectionRetryTimer PROVE IInv'
  <1> USE DEF IInv, connectionRetryTimer, Serving, Served, call, flags, bounds
  <1>1. Types' /\ RoundInv'
    BY DEF Types, RoundInv
  <1>2. AnswerInv'
    BY DEF AnswerInv, NoCodes, Types
  <1>3. AppliedInv'
    BY DEF AnswerInv, AppliedInv, NotConnectedNotApplied, Types
  <1>4. ReadyInv'
    BY DEF ReadyInv, RecentlyUp, In, Types, RoundInv
  <1>5. UntimedInv'
    BY DEF UntimedInv, Untimed, Changing, UntimedReturnedApplied, ReturnedApplied,
       AnswerInv, AppliedInv, NoCodes, ReadyInv, RecentlyUp, In, Types, RoundInv
  <1> QED
    BY <1>1, <1>2, <1>3, <1>4, <1>5

\* The connection is open.
LEMMA connectedKeeps == ASSUME IInv, connected PROVE IInv'
  <1> USE DEF IInv, connected, Serving, Served, call, flags, bounds
  <1>1. Types' /\ RoundInv'
    BY DEF Types, RoundInv
  <1>2. AnswerInv'
    BY DEF AnswerInv, NoCodes, Types
  <1>3. AppliedInv'
    BY DEF AnswerInv, AppliedInv, NotConnectedNotApplied, Types
  <1>4. ReadyInv'
    BY DEF ReadyInv, RecentlyUp, In, Types, RoundInv
  <1>5. UntimedInv'
    BY DEF UntimedInv, Untimed, Changing, UntimedReturnedApplied, ReturnedApplied,
       AnswerInv, AppliedInv, NoCodes, ReadyInv, RecentlyUp, In, Types, RoundInv
  <1> QED
    BY <1>1, <1>2, <1>3, <1>4, <1>5

\* The connection is verified: an acknowledgement that is kept is called.
LEMMA verifiedKeeps == ASSUME IInv, verified PROVE IInv'
  <1> USE DEF IInv, verified, setConnected, waitReadyAck, Serving, Served, call, flags,
          bounds, Codes, NotTried
  <1>1. Types' /\ RoundInv'
    BY DEF Types, RoundInv
  <1>2. AnswerInv'
    BY DEF AnswerInv, NoCodes, Types
  <1>3. AppliedInv'
    BY DEF AnswerInv, AppliedInv, NotConnectedNotApplied, Types
  <1>4. ReadyInv'
    BY DEF ReadyInv, RecentlyUp, In, Types, RoundInv
  <1>5. UntimedInv'
    BY DEF UntimedInv, Untimed, Changing, UntimedReturnedApplied, ReturnedApplied,
       AnswerInv, AppliedInv, NoCodes, ReadyInv, RecentlyUp, In, Types, RoundInv
  <1> QED
    BY <1>1, <1>2, <1>3, <1>4, <1>5

\* The connection is lost.
LEMMA disconnectedKeeps == ASSUME IInv, disconnected PROVE IInv'
  <1> USE DEF IInv, disconnected, interrupt, modifyAck, Serving, Served, call, flags
  <1>1. Types' /\ RoundInv'
    BY InterruptedCode DEF Types, RoundInv
  <1>2. AnswerInv'
    BY InterruptedCode DEF AnswerInv, NoCodes, Types
  <1>3. AppliedInv'
    BY InterruptedCode DEF AnswerInv, AppliedInv, NotConnectedNotApplied, Types
  <1>4. ReadyInv'
    BY InterruptedCode DEF ReadyInv, RecentlyUp, In, Types, RoundInv
  <1>5. UntimedInv'
    BY InterruptedCode DEF UntimedInv, Untimed, Changing, UntimedReturnedApplied,
       ReturnedApplied, AnswerInv, AppliedInv, NoCodes, ReadyInv, RecentlyUp, In, Types,
       RoundInv
  <1> QED
    BY <1>1, <1>2, <1>3, <1>4, <1>5

\* The reply to KEYS.
LEMMA keysReplyKeeps == ASSUME IInv, keysReply PROVE IInv'
  <1> USE DEF IInv, keysReply, modifyAck, Serving, Served, call, flags, bounds, Codes,
          NotTried
  <1>1. Types' /\ RoundInv'
    BY DEF Types, RoundInv
  <1>2. AnswerInv'
    BY DEF AnswerInv, NoCodes, Types
  <1>3. AppliedInv'
    BY DEF AnswerInv, AppliedInv, NotConnectedNotApplied, Types
  <1>4. ReadyInv'
    BY DEF ReadyInv, RecentlyUp, In, Types, RoundInv
  <1>5. UntimedInv'
    BY DEF UntimedInv, Untimed, Changing, UntimedReturnedApplied, ReturnedApplied,
       AnswerInv, AppliedInv, NoCodes, ReadyInv, RecentlyUp, In, Types, RoundInv
  <1> QED
    BY <1>1, <1>2, <1>3, <1>4, <1>5

\* The reply to a command.
LEMMA replyKeeps == ASSUME IInv, reply PROVE IInv'
  <1> USE DEF IInv, reply, modifyAck, Serving, Served, call, flags, bounds, Codes, NotTried
  <1>1. Types' /\ RoundInv'
    BY DEF Types, RoundInv
  <1>2. AnswerInv'
    BY DEF AnswerInv, NoCodes, Types
  <1>3. AppliedInv'
    BY DEF AnswerInv, AppliedInv, NotConnectedNotApplied, Types
  <1>4. ReadyInv'
    BY DEF ReadyInv, RecentlyUp, In, Types, RoundInv
  <1>5. UntimedInv'
    BY DEF UntimedInv, Untimed, Changing, UntimedReturnedApplied, ReturnedApplied,
       AnswerInv, AppliedInv, NoCodes, ReadyInv, RecentlyUp, In, Types, RoundInv
  <1> QED
    BY <1>1, <1>2, <1>3, <1>4, <1>5

\* The database executes the command.
LEMMA executeKeeps == ASSUME IInv, execute PROVE IInv'
  <1> USE DEF IInv, execute, call, flags, round, bounds
  <1>1. Types' /\ RoundInv'
    BY DEF Types, RoundInv
  <1>2. AnswerInv'
    BY DEF AnswerInv, NoCodes, Types
  <1>3. AppliedInv'
    BY DEF AnswerInv, AppliedInv, NotConnectedNotApplied, Types
  <1>4. ReadyInv'
    BY DEF ReadyInv, RecentlyUp, In, Types, RoundInv
  <1>5. UntimedInv'
    BY DEF UntimedInv, Untimed, Changing, UntimedReturnedApplied, ReturnedApplied,
       AnswerInv, AppliedInv, NoCodes, ReadyInv, RecentlyUp, In, Types, RoundInv
  <1> QED
    BY <1>1, <1>2, <1>3, <1>4, <1>5

\* The sentinel names another master.
LEMMA sentinelReportsKeeps == ASSUME IInv, sentinelReports PROVE IInv'
  <1> USE DEF IInv, sentinelReports, serviceStateChanged, interrupt, modifyAck,
          WithoutDispatcher, Serving, call, flags
  <1>1. Types' /\ RoundInv'
    BY InterruptedCode DEF Types, RoundInv
  <1>2. AnswerInv'
    BY InterruptedCode DEF AnswerInv, NoCodes, Types
  <1>3. AppliedInv'
    BY InterruptedCode DEF AnswerInv, AppliedInv, NotConnectedNotApplied, Types
  <1>4. ReadyInv'
    BY InterruptedCode DEF ReadyInv, RecentlyUp, In, Types, RoundInv
  <1>5. UntimedInv'
    BY InterruptedCode DEF UntimedInv, Untimed, Changing, UntimedReturnedApplied,
       ReturnedApplied, AnswerInv, AppliedInv, NoCodes, ReadyInv, RecentlyUp, In, Types,
       RoundInv
  <1> QED
    BY <1>1, <1>2, <1>3, <1>4, <1>5

\* What is left of the posted callbacks when the first one runs.
LEMMA TailOfPosted ==
    ASSUME Types, posted # <<>>, posted' = Tail(posted)
    PROVE  /\ Head(posted) = posted[1] /\ 1 \in DOMAIN posted
           /\ posted' \in Seq(Codes \cup {"ready", "stateChanged"})
           /\ \A i \in DOMAIN posted' :
                 i \in Nat /\ i + 1 \in DOMAIN posted /\ posted'[i] = posted[i + 1]
           /\ Len(posted) = 1 <=> posted' = <<>>
  <1> DEFINE S == Codes \cup {"ready", "stateChanged"}
  <1>1. posted \in Seq(S)
    BY DEF Types
  <1> HIDE DEF S
  <1>2. Len(posted) \in Nat \ {0} /\ DOMAIN posted = 1..Len(posted)
    BY <1>1
  <1>3. /\ posted' \in Seq(S) /\ Len(posted') = Len(posted) - 1
        /\ \A i \in 1..Len(posted') : posted'[i] = posted[i + 1]
    BY <1>1, <1>2
  <1>4. DOMAIN posted' = 1..Len(posted')
    BY <1>3
  <1>6. posted' = <<>> <=> Len(posted') = 0
    BY <1>3, EmptySeq
  <1>5. Head(posted) = posted[1]
    BY <1>1
  <1> QED
    BY <1>1, <1>2, <1>3, <1>4, <1>5, <1>6 DEF S

\* A posted callback runs.
LEMMA executePostedKeeps == ASSUME IInv, executePosted PROVE IInv'
  <1> DEFINE rest ==
        /\ Head(posted) = posted[1] /\ 1 \in DOMAIN posted
        /\ posted' \in Seq(Codes \cup {"ready", "stateChanged"})
        /\ \A i \in DOMAIN posted' :
              i \in Nat /\ i + 1 \in DOMAIN posted /\ posted'[i] = posted[i + 1]
        /\ Len(posted) = 1 <=> posted' = <<>>
  <1>1. posted # <<>> /\ rest
    BY TailOfPosted DEF executePosted, Serving, IInv, RoundInv
  <1>2. /\ "event" \in batch /\ batch' \subseteq batch
        /\ posted' = <<>> => "event" \notin batch'
        /\ posted' # <<>> => batch' = batch
        /\ UNCHANGED <<pc, operation, outcome, deployment>>
    BY <1>1 DEF executePosted, Serving, Served, call
  <1> HIDE DEF rest
  <1>3. CASE Head(posted) = "ready"
    <2>1. waitReadyAck /\ UNCHANGED <<conn, connectAck, command, applied, wasUp>>
      BY <1>3 DEF executePosted, Codes, dispatcher
    <2> USE <1>1, <1>2, <1>3, <2>1 DEF IInv, rest, waitReadyAck
    <2>2. Types' /\ RoundInv'
      BY DEF Types, RoundInv, Codes
    <2>3. AnswerInv' /\ AppliedInv'
      BY DEF AnswerInv, NoCodes, AppliedInv, NotConnectedNotApplied, NotTried, Codes
    <2>4. ReadyInv'
      BY DEF ReadyInv, RecentlyUp, In, Types, RoundInv
    <2>5. UntimedInv'
      BY DEF UntimedInv, Untimed, Changing, UntimedReturnedApplied, ReturnedApplied, Codes
    <2> QED
      BY <2>2, <2>3, <2>4, <2>5
  <1>4. CASE Head(posted) \in Codes
    <2>1. modifyAck(Head(posted)) /\ UNCHANGED <<conn, connectAck, command, applied, wasUp>>
      BY <1>4 DEF executePosted, Codes, dispatcher
    <2> USE <1>1, <1>2, <1>4, <2>1 DEF IInv, rest, modifyAck
    <2>2. Types' /\ RoundInv'
      BY DEF Types, RoundInv
    <2>3. AnswerInv' /\ AppliedInv'
      BY DEF AnswerInv, NoCodes, AppliedInv, NotConnectedNotApplied
    <2>4. ReadyInv'
      BY DEF ReadyInv, RecentlyUp, In, Types, RoundInv
    <2>5. UntimedInv'
      BY DEF UntimedInv, Untimed, Changing, UntimedReturnedApplied, ReturnedApplied,
         NotTried, RoundInv
    <2> QED
      BY <2>2, <2>3, <2>4, <2>5
  <1>5. CASE Head(posted) = "stateChanged"
    <2>1. serviceStateChanged
      BY <1>5 DEF executePosted, Codes
    <2> USE <1>1, <1>2, <1>5, <2>1, InterruptedCode
        DEF IInv, rest, serviceStateChanged, interrupt, modifyAck, flags
    <2>2. Types' /\ RoundInv'
      BY DEF Types, RoundInv
    <2>3. AnswerInv' /\ AppliedInv'
      BY DEF AnswerInv, NoCodes, AppliedInv, NotConnectedNotApplied, Types
    <2>4. ReadyInv'
      BY DEF ReadyInv, RecentlyUp, In, Types, RoundInv
    <2>5. UntimedInv'
      BY DEF UntimedInv, Untimed, Changing, UntimedReturnedApplied, ReturnedApplied,
         AnswerInv, Codes, NotTried, RoundInv
    <2> QED
      BY <2>2, <2>3, <2>4, <2>5
  <1> QED
    BY <1>3, <1>4, <1>5 DEF executePosted

\* The pending events were handled.
LEMMA eventsHandledKeeps == ASSUME IInv, eventsHandled PROVE IInv'
  <1> USE DEF IInv, eventsHandled, waitSdlToBeReady, waitReadyAsync, round, bounds, Codes
  <1>1. Types' /\ RoundInv'
    <2>1. posted' = posted \/ (posted' = Append(posted, "ready") /\ conn = "up")
      OBVIOUS
    <2>2. Types'
      <3>1. Append(posted, "ready") \in Seq(Codes \cup {"ready", "stateChanged"})
        BY DEF Types
      <3> QED
        BY ZenonT(30), <2>1, <3>1 DEF Types
    <2>3. RoundInv'
      <3>1. \A i \in DOMAIN Append(posted, "ready") :
              Append(posted, "ready")[i] = "ready" \/
              (i \in DOMAIN posted /\ Append(posted, "ready")[i] = posted[i])
        BY DEF Types
      <3> QED
        BY <2>1, <3>1 DEF Types, RoundInv
    <2> QED
      BY <2>2, <2>3
  <1>2. AnswerInv'
    BY DEF AnswerInv, NoCodes, Types
  <1>3. AppliedInv'
    BY DEF AnswerInv, AppliedInv, NotConnectedNotApplied, Types
  <1>4. ReadyInv'
    BY DEF ReadyInv, RecentlyUp, In, Types, RoundInv
  <1>5. UntimedInv'
    BY DEF UntimedInv, Untimed, Changing, UntimedReturnedApplied, ReturnedApplied,
       AnswerInv, AppliedInv, NoCodes, ReadyInv, RecentlyUp, In, Types, RoundInv
  <1> QED
    BY <1>1, <1>2, <1>3, <1>4, <1>5

\* waitReady() ends.
LEMMA waitReadyReturnsKeeps == ASSUME IInv, waitReadyReturns PROVE IInv'
  <1> USE DEF IInv, waitReadyReturns, ReadinessKnown, verifyBackendResponse, flags,
          dispatcher, round, bounds, WaitReady
  <1>1. Types' /\ RoundInv'
    BY OutcomeOf DEF Types, RoundInv
  <1>2. AnswerInv'
    BY OutcomeOf DEF AnswerInv, NoCodes, Types
  <1>3. AppliedInv'
    BY OutcomeOf DEF AnswerInv, AppliedInv, NotConnectedNotApplied, Types
  <1>4. ReadyInv'
    BY OutcomeOf DEF ReadyInv, RecentlyUp, In, Types, RoundInv
  <1>5. UntimedInv'
    BY OutcomeOf DEF UntimedInv, Untimed, Changing, UntimedReturnedApplied,
       ReturnedApplied, AnswerInv, AppliedInv, NoCodes, ReadyInv, RecentlyUp, In, Types,
       RoundInv
  <1> QED
    BY <1>1, <1>2, <1>3, <1>4, <1>5

\* The command is sent, or the answer posted.
LEMMA operationBeginsKeeps == ASSUME IInv, operationBegins PROVE IInv'
  <1> USE DEF IInv, operationBegins, ReadinessKnown, operationAsync, Answer, round,
          bounds, Codes, NotTried, WaitReady
  <1>1. Types' /\ RoundInv'
    BY DEF Types, RoundInv
  <1>2. AnswerInv'
    BY DEF AnswerInv, NoCodes, Types
  <1>3. AppliedInv'
    BY DEF AnswerInv, AppliedInv, NotConnectedNotApplied, Types
  <1>4. ReadyInv'
    BY DEF ReadyInv, RecentlyUp, In, Types, RoundInv
  <1>5. UntimedInv'
    BY DEF UntimedInv, Untimed, Changing, UntimedReturnedApplied, ReturnedApplied,
       AnswerInv, AppliedInv, NoCodes, ReadyInv, RecentlyUp, In, Types, RoundInv
  <1> QED
    BY <1>1, <1>2, <1>3, <1>4, <1>5

\* An operation ends.
LEMMA operationReturnsKeeps == ASSUME IInv, operationReturns PROVE IInv'
  <1> USE DEF IInv, operationReturns, verifyBackendResponse, flags, dispatcher, round,
          bounds
  <1>1. Types' /\ RoundInv'
    BY OutcomeOf DEF Types, RoundInv
  <1>2. AnswerInv'
    BY OutcomeOf DEF AnswerInv, NoCodes, Types
  <1>3. AppliedInv'
    BY OutcomeOf DEF AnswerInv, AppliedInv, NotConnectedNotApplied, Types
  <1>4. ReadyInv'
    BY OutcomeOf DEF ReadyInv, RecentlyUp, In, Types, RoundInv
  <1>5. UntimedInv'
    BY OutcomeOf DEF UntimedInv, Untimed, Changing, UntimedReturnedApplied,
       ReturnedApplied, AnswerInv, AppliedInv, NoCodes, ReadyInv, RecentlyUp, In, Types,
       RoundInv
  <1> QED
    BY <1>1, <1>2, <1>3, <1>4, <1>5

\* The application makes a call.
LEMMA CallKeeps == ASSUME IInv, NEW op \in Operations, Call(op) PROVE IInv'
  <1> USE DEF IInv, Call, waitSdlToBeReady, waitReadyAsync, round, bounds, Codes
  <1>1. Types' /\ RoundInv'
    <2>1. posted' = posted \/ (posted' = Append(posted, "ready") /\ conn = "up")
      OBVIOUS
    <2>2. Types'
      <3>1. Append(posted, "ready") \in Seq(Codes \cup {"ready", "stateChanged"})
        BY DEF Types
      <3> QED
        BY <2>1, <3>1 DEF Types
    <2>3. RoundInv'
      <3>1. \A i \in DOMAIN Append(posted, "ready") :
              Append(posted, "ready")[i] = "ready" \/
              (i \in DOMAIN posted /\ Append(posted, "ready")[i] = posted[i])
        BY DEF Types
      <3> QED
        BY ZenonT(30), <2>1, <3>1 DEF Types, RoundInv
    <2> QED
      BY <2>2, <2>3
  <1>2. AnswerInv'
    BY DEF AnswerInv, NoCodes, Types
  <1>3. AppliedInv'
    BY DEF AnswerInv, AppliedInv, NotConnectedNotApplied, Types
  <1>4. ReadyInv'
    BY ZenonT(30) DEF ReadyInv, RecentlyUp, In, Types, RoundInv
  <1>5. UntimedInv'
    BY DEF UntimedInv, Untimed, Changing, UntimedReturnedApplied, ReturnedApplied,
       AnswerInv, AppliedInv, NoCodes, ReadyInv, RecentlyUp, In, Types, RoundInv
  <1> QED
    BY <1>1, <1>2, <1>3, <1>4, <1>5

LEMMA StepKeepsIInv == ASSUME IInv, [Next]_vars PROVE IInv'
  <1>1. ASSUME NEW op \in deployment.operations, Call(op) PROVE IInv'
    <2>1. op \in Operations
      BY DeploymentsKnown DEF IInv, Types
    <2> QED
      BY <1>1, <2>1, CallKeeps
  <1>2. CASE Caller
    BY <1>2, eventsHandledKeeps, waitReadyReturnsKeeps, operationBeginsKeeps,
       operationReturnsKeeps DEF Caller
  <1>3. CASE Serve
    BY <1>3, executePostedKeeps, sentinelReportsKeeps, connectionRetryTimerKeeps,
       connectedKeeps, verifiedKeeps, disconnectedKeeps, keysReplyKeeps, replyKeeps DEF Serve
  <1>4. CASE handleEvents \/ execute
    BY <1>4, handleEventsKeeps, executeKeeps
  <1>5. CASE UNCHANGED vars
    <2> USE <1>5 DEF IInv, vars, call, flags, dispatcher, round, bounds
    <2>1. Types' /\ RoundInv'
      BY DEF Types, RoundInv
    <2>2. AnswerInv' /\ AppliedInv'
      BY DEF AnswerInv, NoCodes, AppliedInv, NotConnectedNotApplied
    <2>3. ReadyInv'
      BY DEF ReadyInv, RecentlyUp, In
    <2>4. UntimedInv'
      BY DEF UntimedInv, Untimed, Changing, UntimedReturnedApplied, ReturnedApplied
    <2> QED
      BY <2>1, <2>2, <2>3, <2>4
  <1> QED
    BY <1>1, <1>2, <1>3, <1>4, <1>5 DEF Next

THEOREM IInvariant == Spec => []IInv
  <1>1. IInv /\ [Next]_vars => IInv'
    BY StepKeepsIInv
  <1> QED
    BY InitIInv, <1>1, PTL DEF Spec

-----------------------------------------------------------------------------
(* What calls say.                                                          *)

\* A call that throws NotConnected changed nothing, whichever of its waits the
\* connection was lost or the database replaced in.
THEOREM NotConnectedKeepsData == Spec => []NotConnectedNotApplied
  <1>1. IInv => NotConnectedNotApplied
    BY DEF IInv, AppliedInv
  <1> QED
    BY <1>1, IInvariant, PTL

\* Without operation timeout, a set() or removeAll() that returns made its change:
\* a readiness acknowledgement never overwrites the error of the operation.
THEOREM UntimedCallsTellTheTruth == Spec => []UntimedReturnedApplied
  <1>1. IInv => UntimedReturnedApplied
    BY DEF IInv, UntimedInv
  <1> QED
    BY <1>1, IInvariant, PTL

\* A call finds the service ready only if the connection was up during this call.
THEOREM ReadinessIsOfThisCall == Spec => []ReadyWasUp
  <1>1. IInv => ReadyWasUp
    BY DEF IInv, ReadyInv, ReadyWasUp
  <1> QED
    BY <1>1, IInvariant, PTL

\* No call leaves a command or an answer behind for the next one.
THEOREM NoAnswerLeftBehind == Spec => []NoLateAnswer
  <1>1. IInv => NoLateAnswer
    BY DEF IInv, AnswerInv, NoCodes, NoLateAnswer
  <1> QED
    BY <1>1, IInvariant, PTL

=============================================================================
