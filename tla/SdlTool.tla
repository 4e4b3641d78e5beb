------------------------------- MODULE SdlTool -------------------------------
(***************************************************************************)
(* A process that uses the library: an application that creates, uses and  *)
(* destroys storage objects as it likes, or the command line tool sdltool. *)
(* The tool parses its command line, and repeats a command that creates an *)
(* object, waits until the namespace is ready, performs operations and     *)
(* destroys the object.  Its test commands can start a thread that ends    *)
(* the process after a timeout.  What the commands print is left out.      *)
(***************************************************************************)
EXTENDS StorageRouting

CONSTANT Invocations    \* command lines and databases of the tool

\* The number of executions is unsigned.
ASSUME InvocationsTyped == \A i \in Invocations : i.repeat \in Nat /\ i.ns \in Namespaces

VARIABLES
    program,    \* the invocation of the tool; none for an application
    step,       \* where the tool is
    iteration,  \* executions of the command that were begun
    operations, \* operations left to this execution
    threads,    \* timeout threads that were started
    ready       \* history: executions that found the namespace ready

tool == <<program, step, iteration, operations, threads, ready>>
vars == <<routing, tool>>

SyncCommands == {"get", "set", "listkeys", "test-get-set"}
Commands == SyncCommands \cup {"test-connectivity", "dump-configuration"}

Init ==
    /\ InitRouting
    /\ program \in {<<>>} \cup {<<i>> : i \in Invocations}
    /\ step = "parse" /\ iteration = 0 /\ operations = 0
    /\ threads = 0 /\ ready = 0

-----------------------------------------------------------------------------
(* An application.                                                          *)

\* After a request that threw, one more is made.
RequestBound ==
    IF \E r \in DOMAIN requests : requests[r].status = "thrown"
    THEN MaxRequests + 1 ELSE MaxRequests

Application ==
    /\ program = <<>>
    /\ \/ Len(objects) < MaxObjects /\ create
       \/ \E o \in DOMAIN objects :
             \/ destroy(o)
             \/ /\ Live(o) /\ Len(requests) < RequestBound
                /\ \E ns \in Namespaces, kind \in {"waitReady", "operation"} :
                      getOperationHandler(o, ns, kind)
    /\ UNCHANGED tool

-----------------------------------------------------------------------------
(* The tool.                                                                *)

Line == program[1]
Object == Len(objects)
At(place) == program # <<>> /\ process = "running" /\ step = place

\* The request that the tool waits for.
Status == requests[Len(requests)].status

\* Mutation: the other executions follow also when one fails.
executeAll(executed, code) == IF executed < Line.repeat THEN "running" ELSE code

\* CommandMap::execute, when an execution returned code.
execute(executed, code) ==
    IF code = "EXIT_SUCCESS" /\ executed < Line.repeat THEN "running" ELSE code

\* The command returns, and its storage object is destroyed.
Return(code) ==
    /\ process' = execute(iteration, code)
    /\ objects' = Destroyed(Object)
    /\ step' = "begin"
    /\ UNCHANGED <<sources, serverCount, dummyEngine, posted, requests>>

\* privateParseAndExecute, up to the first execution of the command.
parse ==
    /\ At("parse")
    /\ process' = CASE Line.command = "" ->
                         IF Line.options \cap {"help", "bash-completion", "version"} = {}
                         THEN "EXIT_FAILURE" ELSE "EXIT_SUCCESS"
                    [] Line.command \in Commands /\ "help" \in Line.options -> "EXIT_SUCCESS"
                    [] Line.command \in Commands /\ "bad" \in Line.options -> "EXIT_FAILURE"
                    [] Line.command \in Commands /\ Line.options = {} ->
                         IF Line.repeat = 0 THEN "EXIT_SUCCESS" ELSE "running"
                    [] OTHER -> "EXIT_FAILURE"
    /\ step' = "begin"
    /\ UNCHANGED <<sources, objects, serverCount, dummyEngine, posted, requests,
                   iteration, operations, threads, ready, program>>

\* A file that is not found where it is looked for is not reported.
dumpConfigurationCommand ==
    /\ At("begin") /\ Line.command = "dump-configuration"
    /\ iteration' = iteration + 1
    /\ process' = execute(iteration', IF source.directories \cap source.unparsable = {}
                                      THEN "EXIT_SUCCESS" ELSE "EXIT_FAILURE")
    /\ UNCHANGED <<sources, objects, serverCount, dummyEngine, posted, requests,
                   step, operations, threads, ready, program>>

TimesOut == Line.timeout /\ Line.command \in {"test-get-set", "test-connectivity"}

\* Mutation: no thread is started.
setNoTimeout == UNCHANGED threads

setTimeout == threads' = IF TimesOut THEN threads + 1 ELSE threads

\* TestConnectivityCommand succeeds when its storage cannot be created.
createStorage ==
    /\ At("begin") /\ Line.command # "dump-configuration"
    /\ iteration' = iteration + 1
    /\ setTimeout
    /\ IF Constructible(source)
       THEN create /\ step' = "created"
       ELSE /\ process' = execute(iteration', IF Line.command = "test-connectivity"
                                              THEN "EXIT_SUCCESS" ELSE "EXIT_FAILURE")
            /\ UNCHANGED <<sources, objects, serverCount, dummyEngine, posted,
                           requests, step>>
    /\ UNCHANGED <<operations, ready, program>>

waitReady ==
    /\ At("created")
    /\ getOperationHandler(Object, Line.ns, "waitReady")
    /\ step' = "waitReady"
    /\ UNCHANGED <<iteration, operations, threads, ready, program>>

\* std::out_of_range is caught by parseAndExecute only.
thrown ==
    /\ program # <<>> /\ process = "running" /\ requests # <<>> /\ Status = "thrown"
    /\ process' = "EXIT_FAILURE"
    /\ objects' = Destroyed(Object)
    /\ UNCHANGED <<sources, serverCount, dummyEngine, posted, requests, tool>>

\* The synchronous commands wait for a minute at most.
waitReadyTimeout ==
    /\ At("waitReady") /\ Status = "waiting" /\ Line.command \in SyncCommands
    /\ Return("EXIT_FAILURE")
    /\ UNCHANGED <<iteration, operations, threads, ready, program>>

waitReadyReturns ==
    /\ At("waitReady") /\ Status = "answered" /\ Line.command \in SyncCommands
    /\ step' = "operate"
    /\ operations' = IF Line.command = "test-get-set" THEN 2 * Line.keyCount + 1 ELSE 1
    /\ ready' = ready + 1
    /\ UNCHANGED <<routing, iteration, threads, program>>

\* PrintStaticConfiguration reads the configuration again; it may throw now.
PrintThrows == ~Readable(source) \/ readDatabaseConfiguration(source).type = "Exception"

TestConnectivityCommand ==
    /\ At("waitReady") /\ Status = "answered" /\ Line.command = "test-connectivity"
    /\ Return(IF ~isDbBackendUseEnabled(Object, Line.ns) \/ PrintThrows
              THEN "EXIT_FAILURE" ELSE "EXIT_SUCCESS")
    /\ ready' = ready + 1
    /\ UNCHANGED <<iteration, operations, threads, program>>

\* An operation waits for readiness for five seconds, and then for its answer
\* without limit.
operationBegins ==
    /\ At("operate") /\ operations > 0
    /\ getOperationHandler(Object, Line.ns, "waitReady")
    /\ step' = "opReady"
    /\ UNCHANGED <<iteration, operations, threads, ready, program>>

\* Its readiness is acknowledged, or the time is over.
operationSent ==
    /\ At("opReady") /\ Status \in {"waiting", "answered"}
    /\ getOperationHandler(Object, Line.ns, "operation")
    /\ step' = "operation"
    /\ UNCHANGED <<iteration, operations, threads, ready, program>>

\* An exception of the library is printed, and is no failure of the command.
operationReturns ==
    /\ At("operation") /\ Status = "answered"
    /\ operations' = operations - 1 /\ step' = "operate"
    /\ UNCHANGED <<routing, iteration, threads, ready, program>>

commandReturns ==
    /\ At("operate") /\ operations = 0
    /\ Return("EXIT_SUCCESS")
    /\ UNCHANGED <<iteration, operations, threads, ready, program>>

\* Nothing stops the thread when the command it was started for has returned.
\* That of test-connectivity prints the configuration, and an exception from a
\* thread ends the process.
timeoutThread ==
    /\ program # <<>> /\ process = "running" /\ threads > 0
    /\ process' = IF Line.command = "test-connectivity" /\ PrintThrows
                  THEN "aborted" ELSE "EXIT_FAILURE"
    /\ UNCHANGED <<sources, objects, serverCount, dummyEngine, posted, requests, tool>>

Tool ==
    \/ parse \/ dumpConfigurationCommand \/ createStorage \/ waitReady \/ thrown
    \/ waitReadyTimeout \/ waitReadyReturns \/ TestConnectivityCommand
    \/ operationBegins \/ operationSent \/ operationReturns \/ commandReturns

-----------------------------------------------------------------------------
(* Events are served while an application runs, or the tool polls.          *)

Polling == program # <<>> => step \in {"waitReady", "opReady", "operation"}
Reachable == IF program = <<>> THEN TRUE ELSE Line.reachable

\* A database that can be reached may still leave operations without an answer.
Answering == IF program = <<>> THEN TRUE ELSE Line.answers

Serve(o) == Polling /\ handleEvents(o) /\ UNCHANGED tool

Connect(o, h) == Polling /\ Reachable /\ connected(o, h) /\ UNCHANGED tool

Reply(o, h) == Polling /\ Answering /\ replied(o, h) /\ UNCHANGED tool

Environment ==
    /\ \/ configure
       \/ Polling /\ \E o \in DOMAIN objects, h \in 1..MaxServers : disconnected(o, h)
    /\ UNCHANGED tool

Next ==
    \/ Application \/ Tool \/ timeoutThread \/ Environment
    \/ \E o \in DOMAIN objects : Serve(o)
    \/ \E o \in DOMAIN objects, h \in 1..MaxServers : Connect(o, h) \/ Reply(o, h)

\* The tool and its threads run; an application serves the descriptor of each
\* object it has, and a database that can be reached is connected to.  That it
\* answers is an assumption of its own, of an application and of some invocations.
Fairness ==
    /\ WF_vars(Tool)
    /\ WF_vars(timeoutThread)
    /\ \A o \in 1..MaxObjects : WF_vars(Serve(o))
    /\ \A o \in 1..MaxObjects, h \in 1..MaxServers :
          WF_vars(Connect(o, h)) /\ WF_vars(Reply(o, h))

Spec == Init /\ [][Next]_vars
FairSpec == Spec /\ Fairness

-----------------------------------------------------------------------------
(* Properties.                                                              *)

\* While its object lives, its events are served and its database can be
\* reached and answers, no request stays unanswered, except for a wait that a later one on
\* the same storage replaced, and for a request to the dummy storage once the
\* object whose engine that storage has is gone.
EveryRequestAnswered ==
    \A r \in 1..(MaxRequests + 1) :
       []<>(r \in DOMAIN requests /\ requests[r].status \in {"waiting", "sent"}
            /\ Reachable /\ Answering
            => \/ ~Live(requests[r].object)
               \/ requests[r].target = <<>> /\ ~Live(dummyEngine))

\* A synchronous command that exits with EXIT_SUCCESS was executed as often as
\* asked for, and found its namespace ready each time: execute stops at the
\* first failure, and a timeout thread, an exception or a wait that ended
\* without an acknowledgement never ends in success.
SuccessMeansReady ==
    program # <<>> /\ process = "EXIT_SUCCESS"
    /\ Line.command \in SyncCommands /\ Line.options = {}
    => ready = Line.repeat

\* The tool ends, in any case when its command has a timeout.  test-connectivity
\* without one waits until the database can be reached.  The other commands wait
\* for readiness for a limited time and for an answer without limit: they end
\* whether or not the database can be reached and whenever it is lost, as long as
\* it does not take an operation and leave it without an answer.  That holds for
\* every repetition, although the dummy storage keeps the engine of the first one.
ToolEnds ==
    <>(program # <<>> /\ (TimesOut \/ IF Line.command = "test-connectivity" THEN Line.reachable
                                                                           ELSE Line.answers)
       => process # "running")
=============================================================================
