---------------------------- MODULE Configuration ----------------------------
(***************************************************************************)
(* What a storage object is configured with: ConfigurationReader takes the *)
(* database from the environment or from JSON files and the namespaces     *)
(* from the files, DatabaseConfigurationImpl and HostAndPort turn strings  *)
(* into addresses, ports and sentinel master names, and                    *)
(* NamespaceConfigurationsImpl finds the configuration of a namespace.     *)
(*                                                                         *)
(* A string of an environment variable is the sequence of its items, which *)
(* commas separate, and an item is the sequence of its parts, which colons *)
(* separate; a literal IPv6 address in brackets is one part.  A namespace  *)
(* or a prefix is the sequence of its characters.                          *)
(***************************************************************************)
EXTENDS Naturals, Sequences, Functions, FiniteSets, FiniteSetsExt

CONSTANTS
    Numbers,        \* parts that are decimal numbers of 16 bits
    ServicePort,    \* the port of each service name
    LiteralIPv6     \* items that are IPv6 addresses (without brackets)

ASSUME LiteralIPv6Parts == \A item \in LiteralIPv6 : Len(item) > 2

Unset == <<>>
Empty == <<<<"">>>>

\* What getenv returns becomes a std::string, and stays empty if there is none.
Value(variable) == IF variable = Unset THEN Empty ELSE variable

-----------------------------------------------------------------------------
(* HostAndPort and DatabaseConfigurationImpl.                               *)

stringToPort(part) ==
    IF part \in Numbers THEN part
    ELSE IF part \in DOMAIN ServicePort THEN ServicePort[part] ELSE "InvalidPort"

HostAndPort(item, defaultPort) ==
    IF Len(item) = 1 \/ item \in LiteralIPv6
    THEN [host |-> item, port |-> defaultPort]
    ELSE [host |-> SubSeq(item, 1, Len(item) - 1), port |-> stringToPort(item[Len(item)])]

\* The constructor throws EmptyHost, EmptyPort or InvalidPort.
Throws(address) == address.host = <<"">> \/ address.port = "InvalidPort"

DbTypes == {"redis-standalone", "redis-cluster", "redis-sentinel",
            "sdl-standalone-cluster", "sdl-sentinel-cluster"}
SdlCluster == {"sdl-standalone-cluster", "sdl-sentinel-cluster"}
Sentinel == {"redis-sentinel", "sdl-sentinel-cluster"}

\* An empty container, and what stands for an exception while it is filled.
NoDatabase == [type |-> "UNKNOWN", addresses |-> <<>>, sentinelPorts |-> <<>>,
               masterNames |-> <<>>]
Exception == [NoDatabase EXCEPT !.type = "Exception"]

checkAndApply(type, items) ==
    LET addresses == [i \in DOMAIN items |-> HostAndPort(items[i], "6379")]
    IN  IF type \in DbTypes /\ \A i \in DOMAIN items : ~Throws(addresses[i])
        THEN [NoDatabase EXCEPT !.type = type, !.addresses = addresses]
        ELSE Exception

IsNumber(item) == Len(item) = 1 /\ item[1] \in Numbers

\* An item that is no number is skipped, and the ones after it move up.
AppendPort(ports, item) == IF IsNumber(item) THEN Append(ports, item[1]) ELSE ports

checkAndApplySentinelPorts(items) ==
    LET ports[i \in 0..Len(items)] ==
            IF i = 0 THEN <<>> ELSE AppendPort(ports[i - 1], items[i])
    IN  ports[Len(items)]

\* Index 0 stands for boost::none.
getSentinelAddress(db, index) ==
    LET i == Max({1, index})
    IN  [host |-> db.addresses[i].host,
         port |-> IF i <= Len(db.sentinelPorts) THEN db.sentinelPorts[i] ELSE "26379"]

getSentinelMasterName(db, index) ==
    LET i == Max({1, index})
    IN  IF i <= Len(db.masterNames) THEN db.masterNames[i] ELSE <<"dbaasmaster">>

-----------------------------------------------------------------------------
(* ConfigurationReader.  A source is what it reads: the environment, the    *)
(* names of the JSON files in the two directories, and the files themselves *)
(* which are opened by these names in the current directory.                *)

Strings == Seq(Seq(STRING))
Entries == [prefix : Seq(STRING), useDbBackend : BOOLEAN,
            enableNotifications : BOOLEAN, complete : BOOLEAN]

IsSource(source) ==
    /\ source.env \in [host : Strings, port : Strings, sentinelPort : Strings,
                       masterName : Strings, clusterAddrList : Strings]
    /\ source.directories \subseteq Nat /\ IsFiniteSet(source.directories)
    /\ \A file \in DOMAIN source.cwd :
          /\ source.cwd[file].database \in Seq([type : STRING, servers : Strings])
          /\ source.cwd[file].namespaces \in Seq(Entries)

\* The types that the environment can select; a redis-cluster is not among them.
EnvironmentType(host, sentinelPort, clusterAddrList) ==
    IF clusterAddrList # Empty
    THEN IF sentinelPort = Empty THEN "sdl-standalone-cluster"
                                 ELSE "sdl-sentinel-cluster"
    ELSE CASE host = Empty -> "missing"
           [] sentinelPort = Empty -> "redis-standalone"
           [] OTHER -> "redis-sentinel"

\* The first port is appended to every address.
appendDBPortToAddrList(addresses, ports) ==
    [i \in DOMAIN addresses |-> addresses[i] \o ports[1]]

readEnvironment(env) ==
    LET sentinelPort == Value(env.sentinelPort)
        clusterAddrList == Value(env.clusterAddrList)
        type == EnvironmentType(env.host, sentinelPort, clusterAddrList)
        hosts == IF type \in SdlCluster THEN clusterAddrList ELSE env.host
        db == checkAndApply(type, IF Value(env.port) = Empty THEN hosts
                                  ELSE appendDBPortToAddrList(hosts, env.port))
    IN  IF db.type \in Sentinel
        THEN [db EXCEPT !.sentinelPorts = checkAndApplySentinelPorts(sentinelPort),
                        !.masterNames = Value(env.masterName)]
        ELSE db

\* The order of the numbers is that in which the files are read.
findConfigurationFiles(source) == source.directories

\* read_json throws when a file cannot be opened or parsed; source.cwd has the
\* files that can be.
Readable(source) == findConfigurationFiles(source) \subseteq DOMAIN source.cwd

\* The last file with a "database" is used, unless the environment has a host.
\* The type "missing" stands for a database that lacks its type or servers.
readDatabaseConfiguration(source) ==
    LET json == {file \in findConfigurationFiles(source) : source.cwd[file].database # Unset}
    IN  CASE source.env.host # Unset -> readEnvironment(source.env)
          [] source.env.host = Unset /\ json = {} -> NoDatabase
          [] OTHER -> LET database == source.cwd[Max(json)].database[1]
                      IN  checkAndApply(database.type, database.servers)

\* The entries of a file that name a prefix.
Naming(source, file, prefix) ==
    {i \in DOMAIN source.cwd[file].namespaces : source.cwd[file].namespaces[i].prefix = prefix}

\* A prefix is configured by the last file, and the last entry, that names it.
jsonNamespaceConfigurations(source) ==
    LET files == findConfigurationFiles(source)
        Named(file) == {entry.prefix : entry \in Range(source.cwd[file].namespaces)}
        LastFile(prefix) == Max({file \in files : Naming(source, file, prefix) # {}})
    IN  [prefix \in UNION {Named(file) : file \in files} |->
            source.cwd[LastFile(prefix)].namespaces
                [Max(Naming(source, LastFile(prefix), prefix))]]

isValidNamespaceSyntax(ns) == Range(ns) \cap {",", "{", "}"} = {}

\* parseNsConfiguration throws on an entry that is not complete, on a prefix
\* with a disallowed character and on notifications without a database.
ParseThrows(entry) ==
    \/ ~entry.complete
    \/ ~isValidNamespaceSyntax(entry.prefix)
    \/ entry.enableNotifications /\ ~entry.useDbBackend

DefaultConfiguration ==
    [prefix |-> <<>>, useDbBackend |-> TRUE, enableNotifications |-> FALSE,
     complete |-> TRUE]

\* The container that is filled from a hash table, in any order; no container
\* if the reader throws.
readNamespaceConfigurations(source) ==
    LET json == jsonNamespaceConfigurations(source)
        entries == {json[prefix] : prefix \in DOMAIN json}
    IN  IF \E entry \in entries : ParseThrows(entry) THEN {}
        ELSE {<<DefaultConfiguration>> \o list :
                 list \in Bijection(1..Cardinality(entries), entries)}

-----------------------------------------------------------------------------
(* NamespaceConfigurationsImpl.                                             *)

\* The comparison of the first characters of the namespace with the prefix.
Matching(prefix, ns) ==
    Len(prefix) <= Len(ns) /\ SubSeq(ns, 1, Len(prefix)) = prefix

\* Mutation: a configured prefix must be longer than what was found before.
LongerOnly(list, ns, found, i) ==
    IF Matching(list[i].prefix, ns) /\ Len(list[i].prefix) > Len(list[found].prefix)
    THEN i ELSE found

\* A round of the loop: the index found so far, or that of the round.
LongestMatching(list, ns, found, i) ==
    IF Matching(list[i].prefix, ns) /\ Len(list[i].prefix) >= Len(list[found].prefix)
    THEN i ELSE found

\* The loop passes over all but the default configuration.
findConfigurationForNamespace(list, ns) ==
    LET found[i \in 1..Len(list)] ==
            IF i = 1 THEN 1 ELSE LongestMatching(list, ns, found[i - 1], i)
    IN  found[Len(list)]
=============================================================================
