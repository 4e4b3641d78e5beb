-------------------------- MODULE CommandDispatcher --------------------------
(***************************************************************************)
(* One AsyncHiredisCommandDispatcher object: its connection state machine, *)
(* its retry timer, the list of command callbacks it lends to hiredis and  *)
(* the callbacks it posts to the engine.                                   *)
(*                                                                         *)
(* Everything runs in one thread, driven by Engine::handleEvents.  What    *)
(* interleaves is: events (connect result, reply, connection loss, timer,  *)
(* posted callback), and client code, which calls the dispatcher between   *)
(* events and also from inside the callbacks the dispatcher makes.         *)
(* "running" names the client callback that is on the stack, and a context *)
(* that is "closing" or "failing" is inside hiredis' clean-up, which calls *)
(* every pending callback with a NULL reply before it frees the context.   *)
(***************************************************************************)
EXTENDS Naturals, Sequences

CONSTANTS
    Commands,       \* client commands; a name is reused once it was answered
    Verifications,  \* list nodes for the COMMAND queries of verifyConnection
    MaxPosted,      \* bound: the client posts while fewer callbacks are queued
    MaxFaults,      \* bound: refused or lost connections, failed verifications
    MaxRefusals     \* bound: commands hiredis refuses on an open connection

\* The values "running" and "posted" use for what is not a command.
Frames == {"none", "connectAck", "disconnect", "posted"}

ASSUME NamesDisjoint ==
    /\ Commands \cap Verifications = {}
    /\ (Commands \cup Verifications) \cap Frames = {}

ASSUME BoundsNat ==
    MaxPosted \in Nat /\ MaxFaults \in Nat /\ MaxRefusals \in Nat

Callbacks == Commands \cup Verifications

VARIABLES
    mode,               \* constructor arguments: storage, inquiry or subscriber
    serviceState,
    ac,                 \* what the pointer ac refers to
    replies,            \* callbacks hiredis holds for the context, in order
    cbs,                \* the list cbs: callbacks hiredis may still point to
    connectAck,         \* is an acknowledgement stored?
    disconnectCallback, \* is a disconnect callback registered?
    clientCallbacksEnabled,
    timer,              \* action of connectionRetryTimer, "off" if not armed
    posted,             \* callbacks posted to the engine, not yet executed
    running,            \* client callback on the stack
    life,               \* the object is alive, in its destructor, or destroyed
    aborted,            \* how the process died, if it did
    outstanding,        \* history: commands given and not yet answered
    waiting,            \* history: a wait begun while not connected is unanswered
    verified,           \* history: this context answered a COMMAND query
    faults,
    refusals            \* history: what an open connection refused, in order

setup == <<mode, disconnectCallback, clientCallbacksEnabled>>
lists == <<replies, cbs, posted>>
history == <<outstanding, waiting, verified>>
budget == <<faults, refusals>>
vars == <<setup, serviceState, ac, connectAck, lists, timer, running, life,
          aborted, history, budget>>

usedForSentinel == mode # "storage"

usePermanentCommandCallbacks == mode = "subscriber"

-----------------------------------------------------------------------------
(* Who may act.                                                             *)

\* hiredis is freeing the context: one that was connected is "closing", one
\* that never was is "failing".
Tearing == ac \in {"closing", "failing"}

\* The event loop is not inside a handler of this dispatcher.
LoopFree == running = "none" /\ ~Tearing /\ aborted = "no"

\* Client code runs between two events or inside a callback.
ClientTurn ==
    /\ aborted = "no" /\ life = "alive"
    /\ running # "none" \/ ~Tearing

Fault == faults < MaxFaults /\ faults' = faults + 1

-----------------------------------------------------------------------------
(* State changes shared by the handlers.                                    *)

\* Mutation: an armed timer is left as it is.
ArmConnectIfOff ==
    IF life = "destructing"
    THEN timer' = "off" /\ life' = "destroyed"
    ELSE timer' = (IF timer = "off" THEN "connect" ELSE timer) /\ UNCHANGED life

\* Mutation: the reconnect timer is forgotten.
ArmNothing ==
    /\ timer' = "off"
    /\ life' = IF life = "destructing" THEN "destroyed" ELSE life

\* setDisconnected arms the timer; in the destructor the Timer member, and the
\* object with it, is gone right after that.
ArmConnect ==
    IF life = "destructing"
    THEN timer' = "off" /\ life' = "destroyed"
    ELSE timer' = "connect" /\ UNCHANGED life

\* A registered disconnect callback runs first, with the timer still as the
\* caller left it (t); DisconnectReturn does the rest.
setDisconnected(t) ==
    /\ serviceState' = "DISCONNECTED"
    /\ \/ disconnectCallback /\ running' = "disconnect" /\ timer' = t /\ UNCHANGED life
       \/ ~disconnectCallback /\ running' = "none" /\ ArmConnect

\* Mutation: the acknowledgement is not called.
setConnectedSilently(caller) ==
    serviceState' = "CONNECTED" /\ running' = "none" /\ UNCHANGED waiting

\* "caller" is the frame under which connectAck runs; ConnectAckReturn clears it.
setConnected(caller) ==
    /\ serviceState' = "CONNECTED"
    /\ \/ connectAck /\ running' = caller /\ waiting' = FALSE
       \/ ~connectAck /\ running' = "none" /\ UNCHANGED waiting

\* The context is created and the attempt is under way, or redisAsyncConnect
\* returned NULL or a context in error.
connect ==
    /\ verified' = FALSE
    /\ \/ ac' = "connecting" /\ timer' = "off"
          /\ UNCHANGED <<serviceState, running, life, faults>>
       \/ ac' = "none" /\ Fault /\ setDisconnected("off")

\* Mutation: every node is removed.
removeAllCbs(c) == cbs' = {}

removeCb(c) == cbs' = cbs \ {c}

\* redisAsyncCommandArgv accepts the command: the node stays in cbs.  A
\* subscription replaces the earlier callback of its channel.
Accept(c) ==
    /\ ~Tearing
    /\ cbs' = cbs \cup {c}
    /\ replies' = IF usePermanentCommandCallbacks THEN <<c>> ELSE Append(replies, c)
    /\ UNCHANGED <<posted, refusals>>

Kind(c) == IF c \in Verifications THEN "query" ELSE "command"

\* hiredis refuses every command on a context that is going away.
Refused(c) ==
    \/ Tearing /\ UNCHANGED refusals
    \/ ~Tearing /\ Len(refusals) < MaxRefusals /\ refusals' = Append(refusals, Kind(c))

\* Mutation: the node of a refused command is not removed.
RefuseKeepsNode(c) ==
    Refused(c) /\ posted' = Append(posted, c) /\ cbs' = cbs \cup {c} /\ UNCHANGED replies

\* A refused command: its node is removed again and the error is posted.
Refuse(c) ==
    Refused(c) /\ posted' = Append(posted, c) /\ UNCHANGED <<cbs, replies>>

Elems(q) == {q[i] : i \in 1..Len(q)}

Posted == Elems(posted)

\* Mutation: no return after NOT_CONNECTED was posted.
submitNoReturn(c) ==
    /\ posted' = IF serviceState # "CONNECTED" THEN Append(posted, c) ELSE posted
    /\ cbs' = cbs \cup {c}
    /\ replies' = Append(replies, c)
    /\ UNCHANGED refusals

\* dispatchAsync of a command that is to be sent only when CONNECTED
submit(c) ==
    \/ /\ serviceState # "CONNECTED"
       /\ posted' = Append(posted, c)
       /\ UNCHANGED <<cbs, replies, refusals>>
    \/ /\ serviceState = "CONNECTED"
       /\ Accept(c) \/ Refuse(c)

\* Mutation: the connection is taken into use without the COMMAND query.
verifyNothing(t) ==
    setConnected("connectAck") /\ timer' = t /\ UNCHANGED <<lists, refusals>>

\* Mutation: the query is dispatched with the check that the state is CONNECTED.
verifyWithStateCheck(t) ==
    /\ serviceState' = "CONNECTION_VERIFICATION" /\ timer' = "off"
    /\ \E v \in Verifications \ (cbs \cup Posted) : submit(v)
    /\ UNCHANGED <<running, waiting>>

\* t is the timer as the caller leaves it.
verifyConnection(t) ==
    \/ /\ usedForSentinel
       /\ setConnected("connectAck") /\ timer' = t
       /\ UNCHANGED <<lists, refusals>>
    \/ /\ ~usedForSentinel
       /\ serviceState' = "CONNECTION_VERIFICATION" /\ timer' = "off"
       /\ \E v \in Verifications \ (cbs \cup Posted) : Accept(v) \/ Refuse(v)
       /\ UNCHANGED <<running, waiting>>

\* Mutation: a failed verification starts a new connection.
failedReconnects == timer' = "connect"

\* Mutation: a failed verification is not retried.
failedNotRetried == UNCHANGED timer

\* The error branch of verifyConnectionReply.
verificationFailed ==
    timer' = IF timer = "off" THEN "verify" ELSE timer

\* Mutation: the context is never freed.
dropContext ==
    /\ life' = "destroyed" /\ timer' = "off"
    /\ ac' = IF ac \in {"connecting", "open"} THEN "dropped" ELSE ac

\* Only a context that is connected is given back to hiredis; one that is still
\* connecting is dropped with the adapter that watched it.
disconnectHiredis ==
    \/ /\ serviceState = "DISCONNECTED"
       /\ life' = "destroyed" /\ timer' = "off"
       /\ ac' = IF ac = "connecting" THEN "dropped" ELSE ac
    \/ /\ serviceState # "DISCONNECTED"
       /\ life' = "destructing" /\ UNCHANGED timer
       /\ ac' = IF ac = "connecting" THEN "failing" ELSE "closing"

-----------------------------------------------------------------------------
(* Constructor: it calls connect() in the DISCONNECTED state.               *)

Init ==
    /\ mode \in {"storage", "inquiry", "subscriber"}
    /\ serviceState = "DISCONNECTED"
    /\ \/ ac = "connecting" /\ timer = "off" /\ faults = 0
       \/ ac = "none" /\ timer = "connect" /\ faults = 1 /\ 1 <= MaxFaults
    /\ replies = <<>> /\ cbs = {} /\ posted = <<>>
    /\ connectAck = FALSE /\ disconnectCallback = FALSE
    /\ clientCallbacksEnabled = TRUE
    /\ running = "none" /\ life = "alive" /\ aborted = "no"
    /\ outstanding = {} /\ waiting = FALSE /\ verified = FALSE
    /\ refusals = <<>>

-----------------------------------------------------------------------------
(* Client calls.                                                            *)

waitConnectedAsync ==
    /\ ClientTurn /\ Len(posted) < MaxPosted
    /\ connectAck' = TRUE
    /\ \/ /\ serviceState = "CONNECTED"
          /\ posted' = Append(posted, "connectAck") /\ waiting' = FALSE
       \/ serviceState # "CONNECTED" /\ waiting' = TRUE /\ UNCHANGED posted
    /\ UNCHANGED <<setup, serviceState, ac, replies, cbs, timer, running, life,
                   aborted, outstanding, verified, budget>>

registerDisconnectCb ==
    /\ ClientTurn /\ ~disconnectCallback
    /\ disconnectCallback' = TRUE
    /\ UNCHANGED <<mode, clientCallbacksEnabled, serviceState, ac, connectAck,
                   lists, timer, running, life, aborted, history, budget>>

disableCommandCallbacks ==
    /\ ClientTurn /\ clientCallbacksEnabled
    /\ clientCallbacksEnabled' = FALSE
    /\ UNCHANGED <<mode, disconnectCallback, serviceState, ac, connectAck,
                   lists, timer, running, life, aborted, history, budget>>

dispatchAsync(c) ==
    /\ ClientTurn /\ Len(posted) < MaxPosted
    /\ c \notin outstanding \cup cbs
    /\ outstanding' = outstanding \cup {c}
    /\ submit(c)
    /\ UNCHANGED <<setup, serviceState, ac, connectAck, timer, running, life,
                   aborted, waiting, verified, faults>>

\* The destructor, called from outside the dispatcher's own callbacks.
Destroy ==
    /\ LoopFree /\ life = "alive"
    /\ disconnectHiredis
    /\ UNCHANGED <<setup, serviceState, connectAck, lists, running, aborted,
                   history, budget>>

-----------------------------------------------------------------------------
(* hiredis callbacks.                                                       *)

\* connectCb with status REDIS_OK
connectCbOk ==
    /\ LoopFree /\ ac = "connecting"
    /\ ac' = "open"
    /\ verifyConnection(timer)
    /\ UNCHANGED <<setup, connectAck, life, aborted, outstanding, verified,
                   faults>>

\* connectCb with status REDIS_ERR; hiredis then frees the context.
connectCbError ==
    /\ LoopFree /\ ac = "connecting" /\ Fault
    /\ ac' = "failing"
    /\ setDisconnected(timer)
    /\ UNCHANGED <<setup, connectAck, lists, aborted, history, refusals>>

\* hiredis meets an error on the connection and starts to free the context.
ConnectionLost ==
    /\ LoopFree /\ ac = "open" /\ Fault
    /\ ac' = "closing"
    /\ UNCHANGED <<setup, serviceState, connectAck, lists, timer, running, life,
                   aborted, history, refusals>>

\* cb and handleReply up to the call of a client's commandCb; CommandReturn is
\* the rest of handleReply.
callCommandCb(c) ==
    /\ c \in Commands /\ c \in cbs
    /\ running' = c
    /\ outstanding' = outstanding \ {c}
    /\ UNCHANGED <<serviceState, cbs, timer, waiting, verified, aborted, faults>>

\* cb once disableCommandCallbacks was called
ignoreReply ==
    /\ ~clientCallbacksEnabled
    /\ UNCHANGED <<serviceState, cbs, timer, running, history, aborted, faults>>

\* handleReply of a callback that is not in cbs
invalidCb(c) ==
    /\ c \notin cbs
    /\ aborted' = "invalidCb"
    /\ UNCHANGED <<serviceState, cbs, timer, running, history, faults>>

\* handleReply of a COMMAND query: verifyConnectionReply with an error
verifyReplyError(v) ==
    /\ v \in Verifications /\ v \in cbs
    /\ verificationFailed
    /\ removeCb(v)
    /\ UNCHANGED <<serviceState, running, history, aborted>>

\* ... and with the command list.  If connectAck is called, v stays in cbs
\* until it returns.
verifyReplyOk(v) ==
    /\ v \in Verifications /\ v \in cbs
    /\ \/ /\ setConnected(v)
          /\ verified' = TRUE
          /\ IF connectAck THEN UNCHANGED cbs ELSE removeCb(v)
          /\ UNCHANGED <<timer, outstanding, aborted, faults>>
       \/ /\ aborted' = "modules"
          /\ UNCHANGED <<serviceState, cbs, timer, running, history, faults>>

\* A reply (or, for a subscription, a message) arrived on the connection.
Reply ==
    /\ LoopFree /\ ac = "open" /\ replies # <<>>
    /\ replies' = IF usePermanentCommandCallbacks THEN replies ELSE Tail(replies)
    /\ \/ ignoreReply
       \/ /\ clientCallbacksEnabled
          /\ LET c == Head(replies)
             IN \/ callCommandCb(c)
                \/ verifyReplyOk(c)
                \/ verifyReplyError(c) /\ Fault
                \/ invalidCb(c)
    /\ UNCHANGED <<setup, ac, connectAck, posted, life, refusals>>

\* hiredis calls the next pending callback of a context it frees, with NULL.
TeardownReply ==
    /\ Tearing /\ running = "none" /\ aborted = "no" /\ replies # <<>>
    /\ replies' = Tail(replies)
    /\ \/ ignoreReply
       \/ /\ clientCallbacksEnabled
          /\ LET c == Head(replies)
             IN \/ callCommandCb(c)
                \/ verifyReplyError(c) /\ UNCHANGED faults
                \/ invalidCb(c)
    /\ UNCHANGED <<setup, ac, connectAck, posted, life, refusals>>

\* disconnectCb, called last for a context that had been connected
disconnectCb ==
    /\ ac = "closing" /\ running = "none" /\ aborted = "no" /\ replies = <<>>
    /\ ac' = "freed"
    /\ setDisconnected(timer)
    /\ UNCHANGED <<setup, connectAck, lists, aborted, history, budget>>

\* A context that never connected is freed without disconnectCb.
FreeFailed ==
    /\ ac = "failing" /\ running = "none" /\ aborted = "no" /\ replies = <<>>
    /\ ac' = "freed"
    /\ \/ life = "alive" /\ UNCHANGED <<timer, life>>
       \/ life = "destructing" /\ timer' = "off" /\ life' = "destroyed"
    /\ UNCHANGED <<setup, serviceState, connectAck, lists, running, aborted,
                   history, budget>>

-----------------------------------------------------------------------------
(* Callbacks of the client return.                                          *)

CommandReturn ==
    /\ running \in Commands
    /\ running' = "none"
    /\ IF usePermanentCommandCallbacks THEN UNCHANGED cbs ELSE removeCb(running)
    /\ UNCHANGED <<setup, serviceState, ac, connectAck, replies, timer, posted,
                   life, aborted, history, budget>>

ConnectAckReturn ==
    /\ running \in Verifications \cup {"connectAck"}
    /\ running' = "none"
    /\ connectAck' = FALSE
    /\ removeCb(running)
    /\ UNCHANGED <<setup, serviceState, ac, replies, timer, posted, life,
                   aborted, history, budget>>

DisconnectReturn ==
    /\ running = "disconnect"
    /\ running' = "none"
    /\ ArmConnect
    /\ UNCHANGED <<setup, serviceState, ac, connectAck, lists, aborted, history,
                   budget>>

PostedReturn ==
    /\ running = "posted"
    /\ running' = "none"
    /\ UNCHANGED <<setup, serviceState, ac, connectAck, lists, timer, life,
                   aborted, history, budget>>

-----------------------------------------------------------------------------
(* Engine events.                                                           *)

TimerConnect ==
    /\ LoopFree /\ life = "alive" /\ timer = "connect"
    /\ connect
    /\ UNCHANGED <<setup, connectAck, lists, aborted, outstanding, waiting,
                   refusals>>

TimerVerify ==
    /\ LoopFree /\ life = "alive" /\ timer = "verify"
    /\ verifyConnection("off")
    /\ UNCHANGED <<setup, ac, connectAck, life, aborted, outstanding, verified,
                   faults>>

\* A posted acknowledgement or callCommandCbWithError reaches the client.
executePostedClient(c) ==
    /\ c \in Commands \cup {"connectAck"}
    /\ running' = "posted"
    /\ outstanding' = outstanding \ {c}
    /\ UNCHANGED <<timer, aborted>>

\* callCommandCbWithError of a COMMAND query calls verifyConnectionReply, a
\* member of the dispatcher: a destroyed one is used after it was freed.
executePostedVerify(v) ==
    /\ v \in Verifications
    /\ \/ life # "destroyed" /\ verificationFailed /\ UNCHANGED aborted
       \/ life = "destroyed" /\ aborted' = "danglingThis" /\ UNCHANGED timer
    /\ UNCHANGED <<running, outstanding>>

ExecutePosted ==
    /\ LoopFree /\ posted # <<>>
    /\ posted' = Tail(posted)
    /\ executePostedClient(Head(posted)) \/ executePostedVerify(Head(posted))
    /\ UNCHANGED <<setup, serviceState, ac, connectAck, replies, cbs, life,
                   waiting, verified, budget>>

\* The process has died, or the object is gone and nothing is left to do.
Terminated ==
    /\ \/ aborted # "no"
       \/ life = "destroyed" /\ running = "none" /\ posted = <<>>
    /\ UNCHANGED vars

-----------------------------------------------------------------------------
Client ==
    \/ waitConnectedAsync \/ registerDisconnectCb \/ disableCommandCallbacks
    \/ \E c \in Commands : dispatchAsync(c)
    \/ Destroy

Hiredis ==
    \/ connectCbOk \/ connectCbError \/ ConnectionLost \/ Reply
    \/ TeardownReply \/ disconnectCb \/ FreeFailed

Return ==
    /\ aborted = "no"
    /\ CommandReturn \/ ConnectAckReturn \/ DisconnectReturn \/ PostedReturn

Engine == TimerConnect \/ TimerVerify \/ ExecutePosted

Next == Client \/ Hiredis \/ Return \/ Engine \/ Terminated

Spec == Init /\ [][Next]_vars

(***************************************************************************)
(* Fairness: a client callback returns and hiredis finishes what it began.  *)
(* A handler runs to its end, so each round of the event loop serves every  *)
(* descriptor that is ready: an event that is ready again and again between *)
(* rounds is served, however often client callbacks take their turn.  That  *)
(* a reply comes, or the loss of the connection instead of it, is what the  *)
(* dispatcher relies on: it has no timeout of its own.                      *)
(***************************************************************************)
Fairness ==
    /\ WF_vars(Return)
    /\ WF_vars(TeardownReply \/ disconnectCb \/ FreeFailed)
    /\ SF_vars(connectCbOk \/ connectCbError)
    /\ SF_vars(Reply \/ ConnectionLost)
    /\ SF_vars(TimerConnect)
    /\ SF_vars(TimerVerify)
    /\ SF_vars(ExecutePosted)

FairSpec == Spec /\ Fairness

-----------------------------------------------------------------------------
(* Properties.                                                              *)

FlagTypes ==
    /\ connectAck \in BOOLEAN /\ disconnectCallback \in BOOLEAN
    /\ clientCallbacksEnabled \in BOOLEAN
    /\ waiting \in BOOLEAN /\ verified \in BOOLEAN

DataTypes ==
    /\ mode \in {"storage", "inquiry", "subscriber"}
    /\ serviceState \in {"DISCONNECTED", "CONNECTION_VERIFICATION", "CONNECTED"}
    /\ ac \in {"none", "connecting", "open", "closing", "failing", "freed",
               "dropped"}
    /\ replies \in Seq(Callbacks)
    /\ cbs \subseteq Callbacks
    /\ timer \in {"off", "connect", "verify"}
    /\ posted \in Seq(Callbacks \cup {"connectAck"})
    /\ running \in Callbacks \cup Frames
    /\ life \in {"alive", "destructing", "destroyed"}
    /\ aborted \in {"no", "invalidCb", "modules", "danglingThis"}
    /\ outstanding \subseteq Commands
    /\ faults \in 0..MaxFaults /\ refusals \in Seq({"query", "command"})

\* Every variable keeps its type; in particular only callbacks of the dispatcher
\* are ever posted or handed to hiredis.
TypeOK == FlagTypes /\ DataTypes

\* dispatchAsync, the verification retry and the destructor use ac without a
\* check of their own: whenever one of them may, ac is not a freed context.
\* This rests on setDisconnected replacing a verification retry that the dying
\* COMMAND query armed moments before.
ContextAlive ==
    life # "destroyed" =>
        /\ serviceState = "CONNECTED" => ac \in {"open", "closing"}
        /\ \/ serviceState = "CONNECTION_VERIFICATION"
           \/ timer = "verify" /\ running # "disconnect"
           => ac \in {"connecting", "open", "closing", "failing"}

\* While a connection attempt or a connection is alive, the timer is not set
\* to start another one, which would overwrite ac and leak the context.
OneContextAtATime ==
    ac \in {"connecting", "open"} => timer # "connect"

\* The abort "Invalid callback function." of handleReply is unreachable, also
\* when client code dispatches commands from inside a callback and while the
\* context is being freed.
NoInvalidCallback == aborted # "invalidCb"

\* The list cbs holds exactly the callbacks hiredis still has, so that nothing
\* is leaked over reconnects.  (A subscriber keeps its callbacks for good.)
CallbackListExact ==
    LoopFree /\ clientCallbacksEnabled /\ mode # "subscriber"
        => cbs = Elems(replies)

\* The dispatcher never strands: between events, a disconnected one has an
\* attempt under way or scheduled, and one that verifies its connection waits
\* for the answer or has the retry scheduled.
NeverStranded ==
    LoopFree /\ life = "alive" =>
        /\ serviceState = "DISCONNECTED" => ac = "connecting" \/ timer = "connect"
        /\ serviceState = "CONNECTION_VERIFICATION" /\ clientCallbacksEnabled
            => \/ timer = "verify"
               \/ \E v \in Verifications : v \in cbs \cup Posted

\* A command that was not answered yet will be answered from exactly one
\* place: it is either once in hiredis' queue or once among the posted errors.
\* This covers loss of the connection, refused commands and the destructor.
OneAnswerPerCommand ==
    LET pending == replies \o posted
        Pos(c) == {i \in 1..Len(pending) : pending[i] = c}
    IN mode # "subscriber" =>
        \A c \in Commands :
            /\ \A i, j \in Pos(c) : i = j
            /\ Pos(c) # {} => c \in outstanding
            /\ c \in outstanding /\ clientCallbacksEnabled => Pos(c) # {}

\* Redis closes at once the connections it accepts beyond its limit.  A client
\* is told that the storage is ready, and its commands are sent, only when the
\* COMMAND query was answered on the present connection.
VerifiedBeforeUse ==
    serviceState = "CONNECTED" /\ mode = "storage" => verified

\* The function posted for a failed command may run when the dispatcher is gone.
\* The one that then uses the freed object is the error of a COMMAND query that
\* an open connection refused: no query is posted otherwise, so neither commands
\* dispatched while disconnected nor those refused on an open connection or during
\* the teardown of a context, nor a query the teardown cancels, can lead there.
NoDanglingThis ==
    aborted = "danglingThis" \/ Verifications \cap Posted # {}
        => "query" \in Elems(refusals)

Over == aborted # "no" \/ life # "alive" \/ ~clientCallbacksEnabled

\* Once failures stop, the dispatcher connects and stays connected.
EventuallyConnected == <>[](serviceState = "CONNECTED" \/ Over)

\* Every command is answered, also one in flight when the dispatcher is
\* replaced and destroyed.
EveryCommandAnswered ==
    \A c \in Commands :
        []<>(mode = "subscriber" \/ c \notin outstanding
             \/ aborted # "no" \/ ~clientCallbacksEnabled)

\* A wait that was begun before the connection is up is acknowledged, once
\* failures stop, unless the dispatcher is destroyed before.
WaitAcknowledged == []<>(~waiting \/ Over)

=============================================================================
