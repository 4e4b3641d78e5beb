# A TLA+ verification of the Shared Data Layer (SDL)

SDL is a C++ library through which applications keep shared data in Redis. This
directory holds TLA+ models of the library and of its command line tool, the TLC
configurations that check them, and TLAPS proofs about most of them. `PROJECT.json`
relates every definition to source lines and lists runs, mutants, hazards and
theorems.

## 1. The system

An application uses `SyncStorage` (blocking calls) or `AsyncStorage` (callbacks).

    application, sdltool
      | SyncStorageImpl: makes an asynchronous call and polls until it is answered
      v
    AsyncStorageImpl: reads the configuration, chooses a handler for the namespace
      |-- AsyncDummyStorage: namespaces without database
      v
    AsyncRedisStorage: requests -> Redis commands, replies -> acknowledgements
      |-- discovery (static, sentinel, cluster): which database; may change
      v
    AsyncHiredisCommandDispatcher: one connection, its verification and retries
    AsyncHiredisClusterCommandDispatcher: the same over the nodes of a cluster
      v
    hiredis + HiredisEpollAdapter, hiredis-vip + HiredisClusterEpollAdapter
      v
    EngineImpl: one epoll loop; EventFD (posted callbacks), TimerFD (timers)

The library has no thread of its own. The application's thread calls
`handleEvents`; one `epoll_wait` reports a round of descriptors, whose handlers
run one after the other. What interleaves is therefore: events in any order and
grouping, application code called from inside callbacks, other threads that post
callbacks, other applications on the same database, and the database itself.

### Inventory

Paths are below `src/src/`.

| Part | Sources | Modules | Status |
|---|---|---|---|
| Command dispatcher | `redis/asynchirediscommanddispatcher.cpp` | `CommandDispatcher`, `CommandDispatcherProofs` | modelled, proved |
| Cluster dispatcher | `redis/asynchiredisclustercommanddispatcher.cpp` | `Connections`, `ConnectionsProofs` | modelled, proved |
| hiredis adapters | `redis/hiredis*epolladapter.cpp` | `EpollAdapter`, `Connections`, `ConnectionsProofs` | modelled, proved |
| Engine | `engineimpl.cpp` | `Engine`, `Connections`, `ConnectionsProofs`, `EventFD`, `LazyEventFD` | modelled, proved |
| Posted callbacks | `eventfd.cpp` | `EventFD`, `CallbackQueue`, `EventFDProofs` | modelled, proved |
| Timers | `timerfd.cpp`, `timer.cpp` | `TimerFD`, `TimerFDProofs` | modelled, proved |
| Synchronous storage | `syncstorageimpl.cpp` | `SyncStorage`, `SyncStorageProofs` | partly, proved |
| Asynchronous Redis storage | `redis/asyncredisstorage.cpp` | `RedisStorage`, `SharedData`, `GlobPattern`, `RedisStorageProofs` | modelled, proved |
| Commands, replies | `redis/contentsbuilder.cpp`, `redis/asyncredisreply.cpp` | `RedisStorage`, `RedisStorageProofs` | modelled, proved |
| Errors | `error.cpp`, `errorqueries.cpp`, `redis/redisgeneral.cpp` | `ErrorMapping` | modelled |
| Sentinel discovery | `redis/asyncsentineldatabasediscovery.cpp` | `SentinelDiscovery`, `SentinelDiscoveryProofs` | modelled, proved |
| Static discovery, choice of one | `redis/asynchiredisdatabasediscovery.cpp`, `redis/asyncdatabasediscovery.cpp` | `StorageRouting`, `SyncStorage` | modelled |
| Routing, dummy storage | `asyncstorageimpl.cpp`, `asyncdummystorage.cpp` | `StorageRouting`, `SdlTool`, `SdlToolProofs` | modelled, proved |
| Configuration | `configurationreader.cpp`, `databaseconfigurationimpl.cpp`, `namespaceconfigurationsimpl.cpp`, `hostandport.cpp` | `Configuration`, `SdlToolProofs` | partly, proved |
| Command line tool | `cli/` | `SdlTool`, `SdlToolProofs` | partly, proved: no output |
| Exceptions | `backenderror.cpp` and the like | `ErrorMapping`, `SyncStorage` | partly: no texts |
| Loggers, system wrappers | `*logger.cpp`, `system.cpp`, `redis/hiredis*system.cpp` | - | not modelled: pure I/O or forwarding |

## 2. Modules

### CommandDispatcher

One `AsyncHiredisCommandDispatcher`. Its members are variables of the same name:
`serviceState`, `cbs`, `connectAck`, `disconnectCallback`,
`clientCallbacksEnabled`; `timer` is what `connectionRetryTimer` will do; `ac` is
the life of the hiredis context (connecting, open, being freed, freed, dropped);
`replies` are the callbacks hiredis holds; `posted` those given to the engine.

Client code may run between events and inside any callback of the dispatcher.
`running` is the callback on the stack, so a handler that calls the client is
split in two actions there and nowhere else: `callCommandCb`/`CommandReturn`,
`setConnected`/`ConnectAckReturn`, `setDisconnected`/`DisconnectReturn`. hiredis
frees a context by calling every pending callback with NULL and then the
disconnect callback (`TeardownReply`, `disconnectCb`); clients dispatch in
between as well. `mode` is the constructor's choice: `storage` verifies its
connection with a COMMAND query, `inquiry` and `subscriber` talk to a sentinel,
the latter with permanent callbacks. The object can be destroyed at any time
outside its own callbacks.

`outstanding`, `waiting`, `verified` and `refusals` are history variables for the
properties; `refusals` has what an open connection refused, queries and commands.

### Engine, EpollAdapter, Connections, MCConnections

`Engine` is the descriptor table: operators that add, modify and delete a monitored
descriptor, and the buffer of the round being served, in which deleting a descriptor
marks its event. `EpollAdapter` has the members of the two adapters on top of it.
`Connections` composes both with a dispatcher, chosen initially: a `SINGLE` one, which
the storage replaces when a sentinel reports a master (the new object is created before
the old one is destroyed), or a `CLUSTER` one with a connection per node. Rounds are
explicit: `epollWait` reports any set of ready descriptors in any order, and while they
are served connections open and close and their numbers are used again, the lowest
free one first (`Lowest`). The order inside the buffer is not kept: an event is found under
the number of its descriptor, and any event may be served next. `now`, `stage` and `back` say
where the thread is: in the read or write half of an adapter's `eventHandler`, in the
callbacks that hiredis calls while it frees a context, in client code. The `SINGLE`
dispatcher is reduced to connecting, the query that verifies a connection, and losing it,
with the destructor that frees the context while the connection is verified or in use and
leaves it otherwise (`FreesContexts`); an error reply to the query is left to
`CommandDispatcher`. The `CLUSTER` one is complete here. hiredis and hiredis-vip are external.

The adapter of a cluster node is destroyed by the disconnect callback inside its own
`eventHandler`, which then tests the object's members once more if the event says writable
too (`NodeFreed`). That is undefined behaviour: the model lets the test find what the clean-up
left there, or a node that writes, which uses a freed context and ends the process
(`freedNodeWrites`). `NoAbort` names this end and excludes every other.

### EventFD, CallbackQueue, LazyEventFD

`EventFD` follows `post` and `handleEvents` statement by statement: push under the
mutex, write to the eventfd, read of the eventfd, swap of the queue, execution of
one callback after the other; callbacks and other threads post meanwhile.
`run` and `stop` of the engine are the loop around it. `CallbackQueue` is the
promise: a FIFO queue whose callbacks are executed once, in order. `EventFD` is
shown to implement it with the queue mapped to the extracted callbacks followed
by the shared ones.

`LazyEventFD` is `EngineImpl::getEventFD`, which creates the EventFD at the first
use, by two threads.

### TimerFD

`Timer::arm`, `Timer::disarm` and the ordered queue in `TimerFD`, whose timerfd is
set for the first entry. A handler of the same epoll round can arm and disarm
timers after the timerfd was reported (`phase = "selected"`), and so can a timer's
callback (`phase = "callback"`). Time is discrete and may advance at any moment.
`Position` is where the multimap puts an entry, behind those with an equal time;
`iterator` is the member by which `disarm` finds the entry of a timer.

### SyncStorage, MCSyncStorage

A synchronous call through all layers: the caller's program counter, the three
members that its callbacks set (`isReady`, `synced`, `localError`), the storage's
`readyAck` and `dispatcher`, the dispatcher's single `connectAck`, one command, the
posted callbacks and the engine's round (`batch`). The dispatcher is reduced to
what the storage sees; rounds are explicit because two answers delivered in one
round are both applied before the caller looks at its flags. The `deployment` is
chosen initially: which calls the application makes, whether it set an operation
timeout, and whether the database is configured or named by a sentinel.

### SharedData, RedisStorage, GlobPattern, ErrorMapping, MCRedisStorage

`SharedData` is what the API promises to applications that share a database: an
operation takes effect at one moment between call and acknowledgement, its result
describes the data at that moment, and an error says that nothing changed. There are two
documented exceptions: `removeAll` finds keys at one moment and removes them at another, and
an interrupted operation may take effect later or never. One is not documented: the code
does not escape namespaces in search patterns, so what a search finds in a namespace whose
name has pattern characters is left open (`Finds`: any keys of any namespaces). That
`removeAll` then removes from its own namespace only is part of the promise.

`RedisStorage` is the implementation: the command that each operation builds, the
database that executes commands one at a time (external, modelled from how the
storage uses it), the interpretation of replies, posted errors, lost connections.
Keys are sequences of characters (`IsString`) and full keys are built and taken apart
as the code does, at the first separator. The containers of a request are finite
(`WellFormed`), and `InOrder` is the order of their elements. `GlobPattern` has the
escaping of search patterns and the matching of Redis (external, without character
classes). These modules define the few operators on sequences they need themselves:
the prover would carry all that `SequencesExt` extends, twice, through every obligation
of the refinement. `ErrorMapping` has the
tables that lead from an error of Redis or hiredis to the constant an application
compares with, and to the exception of a synchronous call. The refinement mapping calls
a request performed as soon as the database executed its command, and an error what
these tables make of it.

### SentinelDiscovery

`AsyncSentinelDatabaseDiscovery`: the subscription to failover notifications and the
inquiry for the master, each with its dispatcher (`subscriber`, `dispatcher`) and retry
timer, and the destructor. A dispatcher is reduced to its connection, the stored
acknowledgement and the commands under way. The sentinel is external: it answers
commands, possibly with an error, and notifies the subscription of a failover. It
monitors the group of the storage, another group, or both (`Monitoring`); asked for a
group that it does not know, it answers NIL, on which the code aborts. Masters are
numbered in the order of the failovers, so a report with a lower number than an earlier
one is a stale answer: a former master that becomes the master again is a new number.
`newest` is a history variable.

### Configuration, StorageRouting, SdlTool, MCSdlTool

`Configuration` has pure functions: which of environment and files is used and how files
override each other, how lists of addresses, ports and master names are taken apart, which
configuration a namespace has. A namespace is a sequence of characters, an address the
sequence of its parts between colons. The hash table that prefixes come out of is any
order of them.

`StorageRouting` has the `AsyncStorageImpl` objects of one process. An object is created
from the configuration found at that time, and destroyed; requests go to the dummy storage
or to the Redis storage of the namespace's checksum. The two function statics
(`serverCount`, `dummyEngine`) outlive the objects. A Redis storage is its discovery,
whether it is connected, and its one slot for an acknowledgement of readiness; operations
are sent over a connection that is up, and answered by the database in order (`replied`) or by
the loss of the connection.

What the configuration says of a namespace is written down separately, from
`docs/user-guide.rst` and the tests of the configuration and not with the operators of the
code: `UsesDatabase` and `DatabaseOf`, which give each server the port, the sentinel port and
the master name at its place in the lists. `Serves` compares a database with it and names
the four cases in which the code reads the environment otherwise, each of which makes a
difference to ports or to the master name only, or, for an IPv6 address without brackets, to
where the host ends.

`SdlTool` is what runs on top: any application, or the command line tool with its
command lines, repetitions, waits and detached timeout threads; the database of an
invocation may be out of reach, or be reached and leave operations without an answer.
`MCSdlTool` lists the sources and the command lines that are checked; a source may change
while the process runs.

## 3. Runs

Every property of a passing run has a mutant in `PROJECT.json`: a change to a definition,
as a plausible error in the code would make it, under which TLC finds the property violated.

| Run | Instance | What it shows |
|---|---|---|
| `dispatcher` | 2 commands, 2 queries, 2 faults, 1 refusal | hiredis is never called with a freed context; one context at a time; every reply finds its callback (`NoInvalidCallback`, `CallbackListExact`); a dispatcher without connection has something that brings one (`NeverStranded`); every command is answered once; nobody is told of a connection that was not verified; a posted error uses a destroyed dispatcher only if an open connection refused the COMMAND query; once failures stop it connects, every command and every wait is answered |
| `connections` | 2 commands; single dispatcher with 2 reports and 2 faults, cluster with 2 nodes and 2 faults; 4 descriptors | an event of a round reaches the connection that it was reported for and no other; the engine monitors what the adapters believe; who waits is registered for the event; no abort of engine or adapter is reached, and only a freed cluster node can end the process; the dispatcher connects and every command is answered |
| `eventfd` | loop and 2 threads, 2 callbacks | no lost wake-up, refinement of `CallbackQueue`, every callback executed, `stop` ends `run` |
| `lazy_eventfd` | 2 threads | **violation**, finding 1 |
| `timerfd` | 3 timers, durations 0 to 2 | the timerfd is set for the first timer, timers expire when armed for and not before, every timer expires |
| `sync_storage` | all calls without timeout on a configured database, and with timeout under 3 masters; 3 faults | without timeout a call that returns made its change (with it, finding 2); NotConnected means nothing was changed; readiness is that of a connection that was up during this call; no late answers; every call ends (without timeout and with failovers, finding 3) |
| `sync_error_masked` | timeout | **violation**, finding 2 |
| `sync_failover_hang` | no timeout, 2 masters | **violation**, finding 3 |
| `storage` | 2 applications, 2 namespaces, one of them `*` | refinement of `SharedData` (`AtomicOperations`), exactly the changes are published, every call is acknowledged |
| `sentinel_discovery` | 2 failovers, 2 faults, 2 groups | a subscription is kept or being renewed; the storage ends up with the present master, unless a stale answer or a failover of another group misled it last |
| `sentinel_stale_master` | 1 failover, no fault | **violation**, finding 4 |
| `sdltool` | 21 histories of sources, 18 command lines | a request goes where the configuration of its object says, and throws only if the number of servers is not that of the first cluster object (`RoutedAsConfigured`); every request is answered; a synchronous command exits with success only if each execution found its namespace ready; the tool ends |

### Bounds and why they are enough

* `CommandDispatcher`: commands and queries are names of callbacks and are used again
  once they were answered: behaviours are unbounded, only what is pending at one
  time is bounded. Two queries are enough to have one dying and one starting. Two faults
  allow a connection lost during verification and one lost in use. The safety properties
  are proved for every bound.
* Every liveness property needs a bound on failures (`MaxFaults`), since nothing connects
  while they go on.
* `MaxPosted`, `MaxQueued` bound queues by disabling the client's call, never by
  dropping anything.
* `Connections`: `LastFD` leaves four numbers for connections, which suffice for a connection
  to each node and the contexts that two failures leave behind. Two reports replace the
  dispatcher twice, so that numbers are used again more than once. Each command is
  dispatched once.
* `TimerFD`: no timer is armed to expire after `MaxTime`; three timers give a first,
  an equal and a later entry.
* `RedisStorage`: two applications with one request each, over and over, in three
  combinations: every operation against those that change what others see; those against
  each other with a connection lost at any moment; one operation with every error of
  Redis and of hiredis. Two keys, of which one has a pattern character and the separator;
  one namespace with notifications, one without that is named `*`, and one that is invalid:
  searches in `*` do find keys of the other.
* `SentinelDiscovery`: two failovers allow one before and one after an inquiry is answered;
  two faults allow both connections to be lost, or one to be lost again while it recovers.
  The safety properties are proved for every bound.
* `SdlTool`: two objects are what it takes to see a static of the first in the second; two
  requests, what it takes to replace an acknowledgement. Namespaces `a` and `ab` have
  different servers whether there are two or three of them.
* No run uses symmetry.

### Fairness and why the code justifies it

* Handlers run to their end, and the application serves its engine, as the documentation
  of `AsyncStorage::fd` demands (weak fairness of returns, of hiredis' clean-up, of a
  round and of each handler in it).
* An event that is ready again and again is served: every round reports all ready
  descriptors, since the buffer of `epollWait` has room for all of them (strong
  fairness per event source in `CommandDispatcher`, because a client callback on the
  stack disables events for a moment).
* The database answers, or the connection is lost: SDL itself has no timeout for
  replies. Applications are never forced to call, and nothing makes a fault happen.
* `SentinelDiscovery`: connections come back, retry timers expire, and the sentinel answers;
  failovers are not forced.
* `TimerFD`: time advances and expired timers are handled.
* `SdlTool`: the tool and its threads run; a database is connected to if the invocation says
  that it can be reached, and answers if the invocation says so.

## 4. Proofs

Every proof is an inductive invariant: it holds initially, every action keeps it (one
step or lemma per action), and the properties follow from it. The bounds in the
assumptions may have any value. Each module begins with a `USE` that gives the provers
more time for a leaf than they have by default, so that the proofs also pass on a busy
machine; the largest, `RedisStorageProofs`, takes about 20 minutes.

`CommandDispatcherProofs` proves, for any sets of commands and queries and any bounds
(assumptions `NamesDisjoint`, `BoundsNat`), `TypeOK`, `NoInvalidCallback`,
`CallbackListExact`, `ContextAlive`, `OneContextAtATime`, `VerifiedBeforeUse`,
`NeverStranded`, `OneAnswerPerCommand` and `NoDanglingThis`. Most of the properties are not
inductive. The argument has four layers:

* `CallbackInv`: hiredis' queue has no duplicates and only callbacks of `cbs`; a callback
  on the stack is still in `cbs` but no longer queued; `cbs` has nothing else while
  callbacks are enabled; a sentinel connection has no queries. The abort in `handleReply`
  is unreachable because a node leaves `cbs` only after its callback returned, and no
  command can be queued under the same node meanwhile.
* `ConnectionInv`: for each state of the context, the possible service states and timers.
  Its centre is that the reconnection timer is armed exactly when there is no context or a
  dead one, with the disconnect callback on the stack as the one moment in between: there a
  verification retry may still be armed although the context is dead, and
  `DisconnectReturn` replaces it.
* `VerificationInv`: while a connection is being verified, the query is in `cbs`, or its
  error is posted, or the retry is armed.
* `AnswerInv`: no command is in the queue of posted errors twice or in both queues, what is in
  a queue is outstanding, and while callbacks are enabled the converse. A name that is
  outstanding is not dispatched again, and one that was taken from a queue is answered in the
  same step; that a command is once in hiredis' queue is in `CallbackInv`.

`NoDanglingThis` is the exception: it is inductive. `verifyConnection` does not run while a
context is being freed, so a query that is posted was refused by an open connection. Commands,
whenever they are refused, are posted with a callback of the client, which outlives the
dispatcher, and `callCommandCbWithError` itself uses no member of it.

`EventFDProofs` proves `TypeOK`, `WakeupPending` and the refinement `PostedInOrder`, for any
threads and callbacks (assumptions `LoopIsThread`, `StopIsCallback`, `IdleNotCallback`). The
inductive invariant adds `LocalQueue` (what the loop has extracted when) to `WakeupPending`:
if callbacks wait then the counter is positive, a thread is about to write it, or the loop
has read it and not yet swapped the queue.

`SyncStorageProofs` proves `NotConnectedNotApplied`, `UntimedReturnedApplied`, `ReadyWasUp` and
`NoLateAnswer` for any deployments and bounds (assumptions `DeploymentsKnown`, `BoundsNat`).
None is inductive, because each speaks of the moment a call ends and what it relies on
happened in earlier rounds:

* `RoundInv`: the descriptors of a round belong to the present connection, and the EventFD
  is among them until all callbacks have run.
* `AnswerInv`: there is at most one answer to come, as a command or as a posted code, and
  none unless the call is in its operation. This is why the shared members never take the
  answer of another call.
* `AppliedInv`: the database has not changed before the command was executed, and an
  operation that was answered with a code of `NotTried` was not sent.
* `ReadyInv`: a posted acknowledgement of readiness is of a connection that is up, or was up
  in this round.
* `UntimedInv`: without timeout no acknowledgement is left when the operation starts, so
  nothing overwrites its error. This is what fails with a timeout (finding 2).

`SentinelDiscoveryProofs` proves `SubscriptionKept` and `NeverSettlesWrong` for any number of
failovers and failures (assumption `BoundsNat`). `LinkInv` says that nothing is under way on
a connection that is down, `ReportInv` that reports name masters there have been. The centre
is `PursuitInv`: the storage was told of the present master at some time, or something is
under way that will tell it: the subscription, whose acknowledgement starts an inquiry; the
inquiry or its retry; the answer or the notification that names the present master. A
failover destroys the first alternative and creates the last one if the sentinel has the
subscription, and by `SubscriptionKept` a subscription is under way if it has not.

`TimerFDProofs` proves `SetForFirst`, `ArmedIffQueued` and `ExpiresAsArmed` for any timers,
durations and times (assumption `TimesNat`). The lemmas are about the queue: what `insert` and
`erase` do to each place, that a sorted queue has a place for every new entry, and that `arm`,
`disarm` and the removal of the first entry keep it `Sorted` and `Exact`. `Exact` is the
strengthening that `ArmedIffQueued` needs: each entry is of an armed timer and for the time the
client expects, no timer has two, every armed timer has one. The inductive invariant `IInv`
adds that the local variable `now` and the entry whose callback runs are not in the future.
That a callback is never early follows from `SetForFirst` for the first timer of a round, and
from `now <= clock` for those that follow.

`ConnectionsProofs` proves `MonitoringExact`, `NeverDeaf`, `NoAbort` and the action property
`EventReachesItsConnection` for any numbers of descriptors, commands, nodes, faults and reports
(assumption `ConstantsKnown`). `ConnectionsInv` has these parts:

* `AdapterInv`: the engine is `Sound`, and the adapters in it are those of the contexts
  (`Adapted`). `Registered`: handlers and epoll have the internal descriptors and those of the
  adapters that monitor, for the events their flags say. `Buffered`: an event that was not served
  is of a descriptor that is still monitored and was not closed since, or is marked. This is
  what makes `EventReachesItsConnection` hold: `deleteMonitoredFD` marks the event before the
  number can be given to a new socket. `Listens`: which flags a context in each phase needs.
* `LoopInv`: where the thread is. At most one context is being freed, and only in the stage for
  it, which is why `redisAsyncFree` is never entered for a context that is already gone.
* `CallbackInv`: the callbacks in the queues of contexts are in `cbs`, and no callback is in two
  places, so `handleReply` finds each of them.
* `ConnectInv`: a single dispatcher has one context of its own and none while its timer is armed,
  a cluster dispatcher no query while its timer is armed. Otherwise a retry would put the
  query into `cbs` and into a queue for the second time.

The lemmas come in three groups: what the operations of `Engine` and `EpollAdapter` do to a
sound engine; that attaching, freeing and changing one context leaves the others as they were;
and what `ForEach` does when a destructor frees or detaches all adapters, by induction over the
descriptors.

`SdlToolProofs` proves `RoutedAsConfigured` and `SuccessMeansReady` for any histories of
sources, checksums, namespaces and command lines (assumptions `SourcesTyped`, `ChecksumsNat`,
`InvocationsTyped`; `LiteralIPv6Parts`: an IPv6 address has more than two parts between
colons). Its first part has no state and is about the operators of `Configuration`
and `StorageRouting`: the search in the list of namespace configurations finds the longest
matching prefix, whatever the order of the list (`FindsLongest`); a namespace uses the database
exactly if the files say so (`BackendAsConfigured`); and the handler that the checksum chooses
is of the server that the environment or the files name, with the addresses that `DatabaseOf`
has, up to the four cases of `Serves` (`HandlerAsConfigured`).
`RoutingInv` adds to the first that an object has what the source of its
creation says, that its handlers are those of its first servers, as many as the static
`serverCount` and the object have, and that what is posted or kept for an acknowledgement is a
request that did not throw: otherwise an answer could hide an exception. `ReadyInv` relates the
number of executions begun to those that found the namespace ready, for each place where
the tool can be; the next execution begins only while some are left.

`RedisStorageProofs` proves that `RedisStorage` implements `SharedData` (`AtomicOperations`) and
the action property `EveryChangePublished`, for any number of applications, any keys, values,
prefixes and patterns, any namespaces, and any number of lost connections. `ApplicationsKnown`
assumes that no namespace is the separator, which the validation of namespaces
excludes, that the containers of a request
are finite and that the errors are those of the tables; `NothingKnown`, that `Nothing` is no
record. The argument has three layers:

* Strings. Full keys of different namespaces or keys differ (`FullKeysDiffer`); `getKey` gives
  back the key, also if it contains the separator (`GetKeyInverts`); the pattern of a prefix
  matches the full keys of that namespace with that prefix and nothing else (`PrefixPattern`,
  whose centre is that an escaped string matches itself only), and the application's own
  pattern means for the full keys what it means for the keys (`NamespacePattern`), unless the
  namespace is a pattern character: then the keys found are keys of some namespaces
  (`ListingKeys`).
* Commands. For every operation, the command that `build` makes has the effect on the database
  that the API names for the request, its reply is read as the API's result, and it publishes
  as the namespace says (`SetPerforms` to `KeysPerforms`, together `CommandPerforms`). The
  lemmas on errors follow each one of Redis or hiredis through the tables: an error that an
  application can see for a command that was sent is never one that promises unchanged
  data unless the database refused it or its node was not connected (`ReplyErrors`,
  `ContextErrors`, `StorageErrors`).
* Steps. Each action is a step of `SharedData` or changes nothing it sees (`CallStep` to
  `OrphanStep`). The refinement mapping takes what a client waits for from `pending` and
  `posted`, so the simulation needs the invariant `Inv`: a client waits in one of them at most; what
  is pending or orphaned is a valid request with the command that `build` made of it and a reply
  that Redis can give; what is posted is a request that was not performed; and the database has
  finitely many values. The last is what makes the array of a KEYS reply a list of all keys found.

Loops of the code are recursive functions over numbers. What they compute is proved without the
library's induction rules, which need a predicate as parameter: a set of natural numbers that
is not empty has a least element (`LeastNatural`, from the well-foundedness of `<`), and the
least number for which the loop is wrong is refuted from the one before it.

Only model-checked:

* all liveness properties: fairness and `ENABLED` are out of the prover's reach. Every other
  property of a passing run is also proved.

## 5. Findings

1. `lazy_eventfd`: `include/private/engine.hpp:140` says that `postCallback` is thread-safe;
   `getEventFD` (`engineimpl.cpp:156`) tests and resets a pointer without a lock. Two first
   posts create two EventFDs and the callback posted to the first is lost.
2. `sync_error_masked`: `waitReadyAck` (`syncstorageimpl.cpp:85`) writes the `localError` that the
   operation's answer uses. After a readiness wait that timed out, NOT_CONNECTED and the late
   acknowledgement can arrive in one round; `set()` then returns although nothing was written.
3. `sync_failover_hang`: `waitReadyAsync` (`asyncredisstorage.cpp:301`) leaves the
   acknowledgement with the present dispatcher. A failover replaces it, the acknowledgement is
   gone, and a call without timeout waits for ever on a connected database.
4. `sentinel_stale_master`: inquiry and notifications use two connections. An inquiry that the
   sentinel answered before a failover can be received after the notification;
   `masterInquiryAck` (`asyncsentineldatabasediscovery.cpp:211`) reports it all the same, and the
   storage stays with the former master, although `include/private/redis/asyncdatabasediscovery.hpp:54`
   says that the callback is invoked "whenever connection information changes".

Some properties hold with an exception that is part of what the code does. Each is stated in
the comment of the property or of a definition it uses:

* `NoDanglingThis`: the error of a COMMAND query that an open connection refused is posted with a
  function bound to the dispatcher (`asynchirediscommanddispatcher.cpp:249`), which may be
  destroyed before the function runs.
* `NoAbort`: a freed node of the cluster adapter is read (`hiredisclusterepolladapter.cpp:138`).
* `AtomicOperations`: what searches find in a namespace with pattern characters
  (`asyncredisstorage.cpp:590`).
* `CurrentUnlessMisled`: `parseNotificationMessage` does not compare the name of the group.
* `EveryRequestAnswered`: a storage has one slot for `waitReadyAsync`, whichever namespaces wait;
  the static dummy storage posts to the engine of the first object, also when that is gone.
* `RoutedAsConfigured`: the static number of servers makes objects with another number of
  servers throw `std::out_of_range`; a port is appended to an IPv6 address without brackets
  and becomes a part of it (`PortsFollowHosts`, `hostandport.cpp:110`); the first of several
  database ports is used for every address (`OnePort`, `configurationreader.cpp:209`); a sentinel
  port that is no number moves the later ones (`PortsAreNumbers`,
  `databaseconfigurationimpl.cpp:111`); without a master name in the environment the first sentinel
  is asked for the master `""` (`MasterNamed`, `databaseconfigurationimpl.cpp:128`).
* `SuccessMeansReady`: `test-connectivity` exits with success when it cannot create its storage.

The models also have what follows, and no property forbids it:

* Contexts that are left unfreed: a dispatcher destroyed while it is connecting (a deliberate
  leak, `asynchirediscommanddispatcher.cpp:331`), and every cluster verification that fails
  (`asynchiredisclustercommanddispatcher.cpp:333`). The callback list of the subscriber grows
  with every reconnection (`asynchirediscommanddispatcher.cpp:299`).
* Ends of the process: a sentinel that does not know the configured master name
  (`asyncsentineldatabasediscovery.cpp:214`), a list of servers that is empty
  (`asyncstorageimpl.cpp:64`), an exception in the timeout thread of `test-connectivity`
  (`testconnectivitycommand.cpp:155`).
* JSON files found in the configuration directories are opened by their bare name in the
  current directory (`configurationpaths.cpp:41`): creating a storage throws from another one.
* The same master can be reported twice (`asynchirediscommanddispatcher.cpp:212`: an
  acknowledgement is posted and kept), although
  `include/private/redis/asyncdatabasediscovery.hpp:57` excludes it.

## 6. Not modelled

* hiredis, hiredis-vip, Redis, the sentinel, epoll, eventfd and timerfd themselves: they are
  modelled from how SDL uses them and marked external in `PROJECT.json`.
* Loggers, `System`, `HiredisSystem`, `HiredisClusterSystem`: output, or calls passed on.
* JSON parsing, file access and the parsing of network addresses beyond what tells host and
  port apart; a file is an input that can be read, not be found, or not be parsed.
* What the commands of the tool print, help and completion; the texts of exceptions.
* Results that the synchronous storage keeps beside the error (`get`, `findKeys`, the
  conditional operations): they are set by the callback that sets the error, and their
  contents are checked in `RedisStorage`. `setOperationTimeout` between two calls.
* Character classes in search patterns. A namespace is a single token; one that is a pattern
  character stands for all names that contain one.
* Allocation failures.
