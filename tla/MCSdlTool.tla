------------------------------ MODULE MCSdlTool ------------------------------
(***************************************************************************)
(* A small instance of SdlTool: sources that select each type of database, *)
(* with files that override each other, and invocations of every command.  *)
(***************************************************************************)
EXTENDS SdlTool, TLC

a == <<"a">>
ab == <<"a", "b">>

MCNamespaces == {a, ab}
MCCRC32 == a :> 7 @@ ab :> 5
MCServicePort == "redis" :> "6379"
MCLiteralIPv6 == {<<"", "", "1">>, <<"", "", "1", "6379">>}

-----------------------------------------------------------------------------
(* The environment.                                                         *)

None == [host |-> Unset, port |-> Unset, sentinelPort |-> Unset,
         masterName |-> Unset, clusterAddrList |-> Unset]

One == [None EXCEPT !.host = <<<<"h1">>>>, !.port = <<<<"6379">>>>]

Unnamed == [None EXCEPT !.host = <<<<"h1">>>>, !.sentinelPort = <<<<"26380">>>>]
Replicated == [Unnamed EXCEPT !.masterName = <<<<"m1">>>>]

\* The deployment with two database services of docs/user-guide.rst, with two
\* and with three of its servers.
Services == [host |-> <<<<"h1">>>>, port |-> <<<<"redis">>, <<"6380">>>>,
             sentinelPort |-> <<<<"26379">>, <<"26380">>>>,
             masterName |-> <<<<"m1">>, <<"m2">>>>,
             clusterAddrList |-> <<<<"h1">>, <<"h2">>>>]

\* The same services without sentinels, with one port and with one for each.
Shards == [Services EXCEPT !.port = <<<<"redis">>>>, !.sentinelPort = Unset]
Ports == [Services EXCEPT !.sentinelPort = Empty]

\* A sentinel port that is no number, and no host.
Shifted == [Services EXCEPT !.sentinelPort = <<<<"x">>, <<"26380">>>>]
NoHost == [None EXCEPT !.host = Empty]
NoPort == [One EXCEPT !.port = <<<<"x">>>>]
IPv6 == [One EXCEPT !.host = <<<<"", "", "1">>>>]

-----------------------------------------------------------------------------
(* The files.                                                               *)

Entry(prefix, backend) ==
    [prefix |-> prefix, useDbBackend |-> backend, enableNotifications |-> FALSE,
     complete |-> TRUE]
File(database, namespaces) == [database |-> database, namespaces |-> namespaces]
Database(type, hosts) == <<[type |-> type, servers |-> [i \in DOMAIN hosts |-> <<hosts[i]>>]]>>

NoFiles == [directories |-> {}, cwd |-> <<>>, unparsable |-> {}]
Found(files) == [directories |-> DOMAIN files, cwd |-> files, unparsable |-> {}]

\* Every namespace but those of prefix "ab" is without database; a later file
\* overrides an earlier one.
Overridden == Found(<<File(Unset, <<Entry(ab, FALSE), Entry(<<>>, FALSE)>>),
                      File(Unset, <<Entry(ab, TRUE)>>)>>)
DummyOnly == Found(<<File(Unset, <<Entry(<<>>, FALSE)>>)>>)
Cluster(hosts) == Found(<<File(Database("sdl-standalone-cluster", hosts), <<Entry(ab, TRUE)>>)>>)
Json(type, hosts) == Found(<<File(Database(type, hosts), <<>>)>>)

\* Files that are not in the current directory, or not JSON, or not allowed.
Elsewhere == [NoFiles EXCEPT !.directories = {1}]
Unparsable == [Elsewhere EXCEPT !.unparsable = {1}]
Disallowed == Found(<<File(Unset, <<Entry(<<"{">>, TRUE)>>)>>)
Notifying == Found(<<File(Unset, <<[Entry(a, FALSE) EXCEPT !.enableNotifications = TRUE]>>)>>)

Source(env, files) == [env |-> env] @@ files

MCHistories ==
    {<<Source(env, NoFiles)>> :
        env \in {None, Unnamed, Replicated, Shards, Ports, Shifted, NoHost, NoPort, IPv6}}
    \cup {<<Source(None, Json(type, hosts))>> :
             type \in {"redis-cluster", "sdl-sentinel-cluster"}, hosts \in {<<>>, <<"h1", "h2">>}}
    \cup {<<Source(None, Cluster(<<"h1", "h2">>)), Source(None, Cluster(<<"h1", "h2", "h3">>))>>,
          <<Source(None, Cluster(<<"h1", "h2", "h3">>)), Source(None, Cluster(<<"h1", "h2">>))>>,
          <<Source(None, Cluster(<<"h1", "h2">>)), Source(None, Cluster(<<>>))>>,
          <<Source(None, Elsewhere), Source(None, Unparsable)>>,
          <<Source(One, Overridden), Source(One, DummyOnly)>>,
          <<Source(One, DummyOnly), Source(One, Disallowed)>>,
          <<Source(Services, NoFiles), Source(Services, Overridden)>>,
          <<Source(Services, Overridden), Source(Services, Notifying)>>}

-----------------------------------------------------------------------------
(* The command lines.                                                       *)

Call(command, repeat, timeout, reachable) ==
    [command |-> command, options |-> {}, repeat |-> repeat, timeout |-> timeout,
     reachable |-> reachable, answers |-> TRUE, ns |-> a, keyCount |-> 1]

MCInvocations ==
    {Call(command, 2, FALSE, reachable) :
        command \in {"get", "test-connectivity"}, reachable \in BOOLEAN}
    \cup {Call(command, 2, TRUE, FALSE) : command \in {"test-get-set", "test-connectivity"}}
    \cup {Call(command, 1, FALSE, TRUE) :
             command \in {"set", "listkeys", "test-get-set", "dump-configuration", "unknown"}}
    \cup {[Call("get", 1, FALSE, TRUE) EXCEPT !.answers = FALSE],
          [Call("test-get-set", 1, TRUE, TRUE) EXCEPT !.answers = FALSE]}
    \cup {Call("get", 0, FALSE, TRUE)}
    \cup {[Call(command, 1, FALSE, TRUE) EXCEPT !.options = {option}] :
             command \in {"", "get"}, option \in {"help", "bad"}}
=============================================================================
