---------------------------- MODULE StorageRouting ---------------------------
(***************************************************************************)
(* The storage objects of one process: AsyncStorageImpl reads its          *)
(* configuration when it is created, and hands every request to the dummy  *)
(* storage or to the Redis storage that serves the namespace.  Objects of  *)
(* one process share two function statics: the number of servers, and the  *)
(* dummy storage with the engine it posts its answers to.  A Redis storage *)
(* is reduced to its discovery, whether its database can be reached, and   *)
(* the one acknowledgement it keeps for waitReadyAsync.                    *)
(***************************************************************************)
EXTENDS Configuration

CONSTANTS
    Histories,      \* sequences of what ConfigurationReaders find, over time
    MaxServers,     \* bound: servers in a source
    MaxObjects,     \* bound: storage objects that an application creates
    MaxRequests,    \* bound: requests that it makes
    Namespaces,
    CRC32           \* the checksum of each namespace

Sources == UNION {Range(history) : history \in Histories}

ASSUME SourcesTyped ==
    /\ \A history \in Histories : history # <<>> /\ history \in Seq(Sources)
    /\ \A s \in Sources : IsSource(s)

ASSUME ChecksumsNat == Namespaces \subseteq Seq(STRING) /\ CRC32 \in [Namespaces -> Nat]

VARIABLES
    sources,        \* what a ConfigurationReader finds now, and later
    process,        \* running, or how it ended
    objects,        \* the storage objects created so far
    serverCount,    \* static of setAsyncRedisStorageHandlersForCluster, once set
    dummyEngine,    \* object whose engine the static dummy storage has, or 0
    posted,         \* callbacks in the engine of each object: requests
    requests        \* history: each request and how it was served

routing == <<sources, process, objects, serverCount, dummyEngine, posted, requests>>

InitRouting ==
    /\ sources \in Histories
    /\ process = "running" /\ objects = <<>> /\ requests = <<>>
    /\ serverCount = <<>> /\ dummyEngine = 0 /\ posted = <<>>

source == Head(sources)

Live(o) == process = "running" /\ o \in DOMAIN objects /\ objects[o].live

-----------------------------------------------------------------------------
(* AsyncDatabaseDiscovery::create, and what the dispatcher connects to.     *)

DefaultServerAddresses == <<[host |-> <<"localhost">>, port |-> "6379"]>>

\* Index 0 stands for boost::none.
discovery(db, index) ==
    LET configured == IF index = 0 THEN db.addresses ELSE <<db.addresses[index]>>
        addresses == IF configured = <<>> THEN DefaultServerAddresses ELSE configured
    IN  CASE db.type = "redis-cluster" ->
               [type |-> "CLUSTER", hosts |-> addresses, master |-> <<>>]
          [] db.type \in Sentinel ->
               [type |-> "SENTINEL", hosts |-> <<getSentinelAddress(db, index)>>,
                master |-> getSentinelMasterName(db, index)]
          [] OTHER ->
               [type |-> "SINGLE", hosts |-> addresses, master |-> <<>>]

\* AsyncCommandDispatcher::create: only a cluster is connected to by all hosts.
dispatcher(info) ==
    IF info.type = "CLUSTER" THEN info ELSE [info EXCEPT !.hosts = <<@[1]>>]

Handler(db, index) ==
    [database |-> dispatcher(discovery(db, index)), up |-> FALSE, readyAck |-> 0]

-----------------------------------------------------------------------------
(* AsyncStorageImpl.                                                        *)

\* Whether the constructor throws an Exception.
Constructible(s) ==
    /\ Readable(s)
    /\ readDatabaseConfiguration(s).type # "Exception"
    /\ readNamespaceConfigurations(s) # {}

create ==
    /\ Constructible(source)
    /\ \E list \in readNamespaceConfigurations(source) :
          objects' = Append(objects, [live |-> TRUE, source |-> source, list |-> list,
                                      db |-> readDatabaseConfiguration(source),
                                      handlers |-> <<>>])
    /\ posted' = Append(posted, <<>>)
    /\ UNCHANGED <<sources, process, serverCount, dummyEngine, requests>>

Destroyed(o) == [objects EXCEPT ![o].live = FALSE, ![o].handlers = <<>>]

destroy(o) ==
    /\ Live(o) /\ objects' = Destroyed(o)
    /\ UNCHANGED <<sources, process, serverCount, dummyEngine, posted, requests>>

\* The static, after an object creates its first handlers.
ServerCount(db) ==
    IF db.type \in SdlCluster /\ serverCount = <<>> THEN <<Len(db.addresses)>>
                                                    ELSE serverCount

\* For a server that the object does not have, at() throws and leaves the
\* handlers made so far.
setAsyncRedisStorageHandlers(db) ==
    IF db.type \in SdlCluster
    THEN [i \in 1..Min({ServerCount(db)[1], Len(db.addresses)}) |-> Handler(db, i)]
    ELSE <<Handler(db, 0)>>

getHandlerIndex(db, ns) ==
    IF db.type \in SdlCluster THEN 1 + (CRC32[ns] % Len(db.addresses)) ELSE 1

\* The process does not survive a sentinel without an address, nor, after no
\* handler was made for a cluster, the division by the number of its servers.
Fatal(db) ==
    /\ db.addresses = <<>>
    /\ \/ db.type = "redis-sentinel"
       \/ db.type \in SdlCluster /\ ServerCount(db)[1] = 0

\* A request is the number of its entry in the history.  Its target is the
\* database, none for the dummy storage and for a request that throws.
Record(o, ns, kind, target, status) ==
    Append(requests, [object |-> o, ns |-> ns, kind |-> kind, target |-> target,
                      status |-> status])

Answered(rs) ==
    [r \in DOMAIN requests |->
        IF r \in rs THEN [requests[r] EXCEPT !.status = "answered"] ELSE requests[r]]

\* AsyncDummyStorage posts its answer to the engine it was created with.
getDummyHandler(o, ns, kind) ==
    /\ dummyEngine' = IF dummyEngine = 0 THEN o ELSE dummyEngine
    /\ posted' = [posted EXCEPT ![dummyEngine'] = Append(@, Len(requests) + 1)]
    /\ requests' = Record(o, ns, kind, <<>>, "waiting")
    /\ UNCHANGED <<sources, process, objects, serverCount>>

\* Mutation: a connected storage only keeps the acknowledgement.
KeepReadyAck(o, handler, r) == posted

\* A connected storage posts the acknowledgement, beside keeping it.
PostReadyAck(o, handler, r) ==
    IF handler.up THEN [posted EXCEPT ![o] = Append(@, r)] ELSE posted

\* An acknowledgement that is kept takes the place of the one kept before.
waitReadyAsync(o, ns, handlers, h) ==
    LET r == Len(requests) + 1
        kept == handlers[h].readyAck
        lost == kept # 0 /\ requests[kept].status = "waiting"
        all == Record(o, ns, "waitReady", <<handlers[h].database>>, "waiting")
    IN  /\ requests' = IF lost THEN [all EXCEPT ![kept].status = "replaced"] ELSE all
        /\ posted' = PostReadyAck(o, handlers[h], r)
        /\ objects' = [objects EXCEPT ![o].handlers =
                          [handlers EXCEPT ![h].readyAck = r]]

\* An operation is sent over a connection that is up; without one, its error is
\* posted.  What the answers say is the subject of RedisStorage.
operationAsync(o, ns, handlers, h) ==
    /\ requests' = Record(o, ns, "operation", <<handlers[h].database>>,
                          IF handlers[h].up THEN "sent" ELSE "waiting")
    /\ posted' = IF handlers[h].up THEN posted
                 ELSE [posted EXCEPT ![o] = Append(@, Len(requests) + 1)]
    /\ objects' = [objects EXCEPT ![o].handlers = handlers]

\* The handlers are created by the first request; the second at() throws for a
\* namespace whose server has no handler.
getRedisHandler(o, ns, kind) ==
    LET db == objects[o].db
        first == objects[o].handlers = <<>>
        handlers == IF first THEN setAsyncRedisStorageHandlers(db)
                             ELSE objects[o].handlers
        h == getHandlerIndex(db, ns)
        throws == \/ first /\ db.type \in SdlCluster /\ Len(handlers) < ServerCount(db)[1]
                  \/ h > Len(handlers)
    IN  /\ serverCount' = IF first THEN ServerCount(db) ELSE serverCount
        /\ process' = IF Fatal(db) THEN "aborted" ELSE process
        /\ CASE Fatal(db) -> UNCHANGED <<objects, posted, requests>>
             [] ~Fatal(db) /\ throws ->
                  /\ objects' = [objects EXCEPT ![o].handlers = handlers]
                  /\ requests' = Record(o, ns, kind, <<>>, "thrown")
                  /\ UNCHANGED posted
             [] OTHER -> IF kind = "waitReady" THEN waitReadyAsync(o, ns, handlers, h)
                                               ELSE operationAsync(o, ns, handlers, h)
        /\ UNCHANGED <<sources, dummyEngine>>

\* The lookup table only keeps what the loop found: the list of an object does
\* not change.
isDbBackendUseEnabled(o, ns) ==
    objects[o].list[findConfigurationForNamespace(objects[o].list, ns)].useDbBackend

getOperationHandler(o, ns, kind) ==
    IF isDbBackendUseEnabled(o, ns) THEN getRedisHandler(o, ns, kind)
                                    ELSE getDummyHandler(o, ns, kind)

-----------------------------------------------------------------------------
(* The event loop of an object's application, and its databases.            *)

handleEvents(o) ==
    /\ Live(o) /\ posted[o] # <<>>
    /\ posted' = [posted EXCEPT ![o] = <<>>]
    /\ requests' = Answered(Range(posted[o]))
    /\ UNCHANGED <<sources, process, objects, serverCount, dummyEngine>>

\* The connection is up: setConnected calls the acknowledgement that is kept.
\* Connections that nobody has waited for yet are left out.
connected(o, h) ==
    /\ Live(o) /\ h \in DOMAIN objects[o].handlers
    /\ ~objects[o].handlers[h].up /\ objects[o].handlers[h].readyAck # 0
    /\ objects' = [objects EXCEPT ![o].handlers[h].up = TRUE]
    /\ requests' = Answered({objects[o].handlers[h].readyAck})
    /\ UNCHANGED <<sources, process, serverCount, dummyEngine, posted>>

\* The operations that are on their way to a database or back.
Sent(o, h) ==
    {r \in DOMAIN requests : /\ requests[r].object = o /\ requests[r].status = "sent"
                             /\ getHandlerIndex(objects[o].db, requests[r].ns) = h}

\* Redis answers in the order of the commands.
replied(o, h) ==
    /\ Live(o)
    /\ \E r \in Sent(o, h) :
          (\A other \in Sent(o, h) : r <= other) /\ requests' = Answered({r})
    /\ UNCHANGED <<sources, process, objects, serverCount, dummyEngine, posted>>

\* The loss of the connection answers what was sent, with an error.
disconnected(o, h) ==
    /\ Live(o) /\ h \in DOMAIN objects[o].handlers /\ objects[o].handlers[h].up
    /\ objects' = [objects EXCEPT ![o].handlers[h].up = FALSE]
    /\ requests' = Answered(Sent(o, h))
    /\ UNCHANGED <<sources, process, serverCount, dummyEngine, posted>>

\* JSON files are installed, changed or removed.
configure ==
    /\ process = "running" /\ Len(sources) > 1
    /\ sources' = Tail(sources)
    /\ UNCHANGED <<process, objects, serverCount, dummyEngine, posted, requests>>

-----------------------------------------------------------------------------
(* What the configuration says of a namespace.                              *)

\* The longest of the prefixes that match, as the last file says of it.
UsesDatabase(s, ns) ==
    LET json == jsonNamespaceConfigurations(s)
        matching == {prefix \in DOMAIN json : Matching(prefix, ns)}
    IN  \A prefix \in matching :
           (\A other \in matching : Len(other) <= Len(prefix)) => json[prefix].useDbBackend

\* The list a variable of the environment gives.  The variables count when there
\* is a host among them, and an empty one says no more than one that is not set.
Setting(s, variable) ==
    IF s.env.host = Unset \/ s.env[variable] = Empty THEN <<>> ELSE s.env[variable]

\* The database of the files counts when the environment has no host.
JsonDatabase(s) ==
    LET naming == {file \in s.directories : s.cwd[file].database # Unset}
    IN  IF s.env.host # Unset \/ naming = {} THEN [type |-> "none", servers |-> <<>>]
        ELSE s.cwd[Max(naming)].database[1]

Servers(s) ==
    CASE s.env.host = Unset -> JsonDatabase(s).servers
      [] s.env.host # Unset /\ Setting(s, "clusterAddrList") # <<>> -> s.env.clusterAddrList
      [] OTHER -> s.env.host

\* The servers share the namespaces by their checksums.
Sharded(s) == Setting(s, "clusterAddrList") # <<>> \/ JsonDatabase(s).type \in SdlCluster

\* The servers are Redis sentinels, which know the master.
Watched(s) == Setting(s, "sentinelPort") # <<>> \/ JsonDatabase(s).type \in Sentinel

Nth(list, n, default) == IF n \in DOMAIN list THEN list[n] ELSE default

\* Each server has the port at its place in the list; a single one is for all.
PortOf(s, i) ==
    LET ports == Setting(s, "port")
    IN  IF ports = <<>> THEN "6379" ELSE stringToPort(Nth(ports, i, ports[1])[1])

Address(s, i) == HostAndPort(Servers(s)[i], PortOf(s, i))

\* The database of a namespace, as docs/user-guide.rst and the tests of the
\* configuration have it: the server of the namespace, or all servers of a Redis
\* cluster, with the port, the sentinel port and the master name at its place in
\* their lists.
DatabaseOf(s, ns) ==
    LET place == IF Sharded(s) THEN 1 + (CRC32[ns] % Len(Servers(s))) ELSE 1
    IN  CASE Watched(s) ->
               [type |-> "SENTINEL",
                hosts |-> <<[host |-> Address(s, place).host,
                             port |-> Nth(Setting(s, "sentinelPort"), place, <<"26379">>)[1]]>>,
                master |-> Nth(Setting(s, "masterName"), place, <<"dbaasmaster">>)]
          [] ~Watched(s) /\ JsonDatabase(s).type = "redis-cluster" /\ Servers(s) # <<>> ->
               [type |-> "CLUSTER", hosts |-> [i \in DOMAIN Servers(s) |-> Address(s, i)],
                master |-> <<>>]
          [] OTHER ->
               [type |-> IF JsonDatabase(s).type = "redis-cluster" THEN "CLUSTER" ELSE "SINGLE",
                hosts |-> IF Servers(s) = <<>> THEN DefaultServerAddresses
                          ELSE <<Address(s, place)>>,
                master |-> <<>>]

\* Where the code reads the environment otherwise.  A port is appended to an
\* address, whatever that is: an IPv6 address without brackets takes it for a part
\* of its own.
PortsFollowHosts(s) ==
    Setting(s, "port") # <<>> =>
        \A item \in Range(Servers(s)) \cup Range(Setting(s, "port")) : Len(item) = 1

\* Every server gets the first port; with sentinels, it is not used.
OnePort(s) ==
    Sharded(s) /\ ~Watched(s) =>
        \A item \in Range(Setting(s, "port")) : item = Setting(s, "port")[1]

\* A sentinel port that is no number is skipped, and the ones after it move up.
PortsAreNumbers(s) == \A item \in Range(Setting(s, "sentinelPort")) : IsNumber(item)

\* With sentinels in the environment, a master name that is not given is "" for
\* the first server, instead of the default.
MasterNamed(s) == Setting(s, "sentinelPort") # <<>> => Setting(s, "masterName") # <<>>

Hosts(database) == [i \in DOMAIN database.hosts |-> database.hosts[i].host]

\* The database is the one of the namespace.  Each of the four cases makes a
\* difference to a part of the address only.
Serves(database, s, ns) ==
    LET right == DatabaseOf(s, ns)
    IN  /\ database.type = right.type
        /\ PortsFollowHosts(s) => Hosts(database) = Hosts(right)
        /\ PortsFollowHosts(s) /\ OnePort(s) /\ PortsAreNumbers(s) =>
              database.hosts = right.hosts
        /\ MasterNamed(s) => database.master = right.master

\* Every request is served where the configuration of its object says, whatever
\* the order in which the files' entries come out of the hash table, whichever
\* namespace an object was asked for first and whatever other objects of the
\* process did: by the dummy storage if the longest matching prefix says so, by
\* the server of the namespace otherwise.  A request throws only when the number
\* of servers is not that of the first cluster object of the process (the static
\* of asyncstorageimpl.cpp), and is then served nowhere else.
RoutedAsConfigured ==
    \A r \in DOMAIN requests :
       LET q == requests[r]  s == objects[q.object].source
       IN  /\ UsesDatabase(s, q.ns) <=> q.target # <<>> \/ q.status = "thrown"
           /\ q.target # <<>> => Serves(q.target[1], s, q.ns)
           /\ q.status = "thrown" => serverCount # <<Len(Servers(s))>>
=============================================================================
