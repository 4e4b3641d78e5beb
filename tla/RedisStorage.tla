----------------------------- MODULE RedisStorage -----------------------------
(***************************************************************************)
(* The operations of AsyncRedisStorage: how requests of several            *)
(* applications become Redis commands, what the database replies, how the  *)
(* reply becomes the acknowledgement, and what happens when the connection *)
(* is lost in between.  A client is one outstanding request and the        *)
(* connection it uses; requests that share a connection are executed in    *)
(* order, which only removes behaviours.  The database executes one        *)
(* command at a time.  Keys, prefixes and patterns are sequences of        *)
(* tokens, namespaces single tokens; the separator is a token that keys    *)
(* may contain and valid namespaces do not.  A namespace may be one of the *)
(* characters of search patterns.                                          *)
(***************************************************************************)
EXTENDS Naturals, Sequences, FiniteSets, FiniteSetsExt, GlobPattern, ErrorMapping

CONSTANTS
    Clients, Namespaces, Keys, Values,
    Absent, Nothing,        \* no value, no request or result
    Applications,           \* what clients call and what fails; one is chosen
    NotificationsEnabled    \* the namespaces with areNotificationsEnabled

Separator == ","
OpenBrace == "{"
CloseBrace == "}"

Requests == UNION {a.requests[c] : a \in Applications, c \in Clients}

\* The strings of the program are sequences of characters.
IsString(s) == s \in Seq({s[i] : i \in DOMAIN s})

\* The containers of a request are finite, its keys are keys; the namespace may
\* be invalid.
WellFormed(r) ==
    /\ r.op \in {"set", "setIf", "setIfNotExists", "get", "remove", "removeIf",
                "findKeys", "listKeys", "removeAll"}
    /\ r.op = "set" => DOMAIN r.map \subseteq Keys /\ IsFiniteSet(DOMAIN r.map)
    /\ r.op \in {"setIf", "setIfNotExists", "removeIf"} => r.key \in Keys
    /\ r.op \in {"get", "remove"} => r.keys \subseteq Keys /\ IsFiniteSet(r.keys)
    /\ r.op = "findKeys" => IsString(r.prefix)
    /\ r.op = "listKeys" => IsString(r.pattern)

\* requests are those of each client; errors are those of replies and of
\* contexts; maxFaults bounds the connections that are lost.
ASSUME ApplicationsKnown ==
    /\ NotificationsEnabled \subseteq Namespaces
    /\ Separator \notin Namespaces
    /\ \A key \in Keys : IsString(key)
    /\ \A a \in Applications :
        /\ a.maxFaults \in Nat
        /\ a.errors \subseteq DOMAIN mapRedisReplyErrorToSdlError
                          \cup DOMAIN mapRedisContextErrorToSdlError
    /\ \A r \in Requests : WellFormed(r)

\* Nothing is told from records of a request and from replies by its fields.
ASSUME NothingKnown == DOMAIN Nothing \cap {"request", "type"} = {}

\* A full key is "{namespace},key".
addKey(ns, key) == <<OpenBrace, ns, CloseBrace, Separator>> \o key

FullKeys == {addKey(ns, key) : ns \in Namespaces, key \in Keys}

VARIABLES
    application,
    db,         \* [FullKeys -> Values or Absent]
    dispatcher, \* per client: "none" before discovery, "DISCONNECTED", "CONNECTED"
    pending,    \* per client: Nothing or [request, command, reply]
    posted,     \* per client: Nothing or [request, code] in the EventFD
    answers,    \* per client: how the last request was acknowledged
    orphans,    \* commands whose connection was lost before they were executed
    published,  \* the last command of the database published a notification
    faults

vars == <<application, db, dispatcher, pending, posted, answers, orphans, published, faults>>

Init ==
    /\ application \in Applications
    /\ db = [f \in FullKeys |-> Absent]
    /\ dispatcher = [c \in Clients |-> "none"]
    /\ pending = [c \in Clients |-> Nothing]
    /\ posted = [c \in Clients |-> Nothing]
    /\ answers = [c \in Clients |-> Nothing]
    /\ orphans = <<>> /\ published = FALSE /\ faults = 0

-----------------------------------------------------------------------------
(* Requests to commands.  A command whose name has a PUB variant uses it in *)
(* namespaces with notifications.                                           *)

\* The elements of a set in some order: that of a std::set, or of a reply.
InOrder(S) == CHOOSE s \in [1..Cardinality(S) -> S] : IsInjective(s)

addKeys(ns, keys) ==
    LET sorted == InOrder(keys) IN [i \in DOMAIN sorted |-> addKey(ns, sorted[i])]

addDataMap(ns, map) ==
    LET sorted == InOrder(DOMAIN map)
    IN [i \in DOMAIN sorted |-> <<addKey(ns, sorted[i]), map[sorted[i]]>>]

Plain(name, args) == [name |-> name, args |-> args, pub |-> FALSE]

Modifying(ns, name, args) ==
    [name |-> name, args |-> args, pub |-> ns \in NotificationsEnabled]

buildKeyPrefixSearchPattern(ns, keyPrefix) ==
    addKey(ns, escapeRedisSearchPatternCharacters(keyPrefix)) \o <<AnyString>>

\* The pattern is the application's.
buildNamespaceKeySearchPattern(ns, pattern) == addKey(ns, pattern)

\* Of the operations that send KEYS.
searchPattern(r) ==
    CASE r.op = "findKeys" -> buildKeyPrefixSearchPattern(r.ns, r.prefix)
      [] r.op = "listKeys" -> buildNamespaceKeySearchPattern(r.ns, r.pattern)
      [] r.op = "removeAll" -> buildKeyPrefixSearchPattern(r.ns, <<>>)

\* Mutation: SETIE gets the old value before the new one.
buildSwapped(r) ==
    LET full == addKey(r.ns, r.key)
    IN CASE r.op = "set" -> Modifying(r.ns, "MSET", addDataMap(r.ns, r.map))
         [] r.op = "setIf" -> Modifying(r.ns, "SETIE", <<full, r.old, r.new>>)
         [] r.op = "setIfNotExists" -> Modifying(r.ns, "SETNX", <<full, r.new>>)
         [] r.op = "removeIf" -> Modifying(r.ns, "DELIE", <<full, r.old>>)
         [] r.op = "remove" -> Modifying(r.ns, "DEL", addKeys(r.ns, r.keys))
         [] r.op = "get" -> Plain("MGET", addKeys(r.ns, r.keys))
         [] OTHER -> Plain("KEYS", searchPattern(r))

\* Mutation: removeAsync knows no DELPUB.
buildNoDelPub(r) ==
    LET full == addKey(r.ns, r.key)
    IN CASE r.op = "set" -> Modifying(r.ns, "MSET", addDataMap(r.ns, r.map))
         [] r.op = "setIf" -> Modifying(r.ns, "SETIE", <<full, r.new, r.old>>)
         [] r.op = "setIfNotExists" -> Modifying(r.ns, "SETNX", <<full, r.new>>)
         [] r.op = "removeIf" -> Modifying(r.ns, "DELIE", <<full, r.old>>)
         [] r.op = "remove" -> Plain("DEL", addKeys(r.ns, r.keys))
         [] r.op = "get" -> Plain("MGET", addKeys(r.ns, r.keys))
         [] OTHER -> Plain("KEYS", searchPattern(r))

build(r) ==
    LET full == addKey(r.ns, r.key)
    IN CASE r.op = "set" -> Modifying(r.ns, "MSET", addDataMap(r.ns, r.map))
         [] r.op = "setIf" -> Modifying(r.ns, "SETIE", <<full, r.new, r.old>>)
         [] r.op = "setIfNotExists" -> Modifying(r.ns, "SETNX", <<full, r.new>>)
         [] r.op = "removeIf" -> Modifying(r.ns, "DELIE", <<full, r.old>>)
         [] r.op = "remove" -> Modifying(r.ns, "DEL", addKeys(r.ns, r.keys))
         [] r.op = "get" -> Plain("MGET", addKeys(r.ns, r.keys))
         [] OTHER -> Plain("KEYS", searchPattern(r))

-----------------------------------------------------------------------------
(* Redis with the SDL module, as the storage uses it.                       *)

Integer(holds) == [type |-> "INTEGER", integer |-> IF holds THEN 1 ELSE 0]
Status == [type |-> "STATUS"]
Nil == [type |-> "NIL"]
Array(s) == [type |-> "ARRAY", array |-> s]
Error(text) == [type |-> "ERROR", text |-> text]
None == [type |-> "NONE"]

Stored(d) == {f \in FullKeys : d[f] # Absent}

Executed(d, reply, publishes) ==
    [db |-> d, reply |-> reply, publishes |-> publishes]

Conditional(m, holds, changed, reply) ==
    Executed(IF holds THEN changed ELSE db, reply, m.pub /\ holds)

Execute(m) ==
    LET a == m.args
    IN CASE m.name = "MSET" ->
              Executed([f \in FullKeys |->
                    IF \E i \in DOMAIN a : a[i][1] = f
                    THEN a[CHOOSE i \in DOMAIN a : a[i][1] = f][2] ELSE db[f]],
                  Status, m.pub)
         [] m.name = "SETIE" ->
              LET holds == db[a[1]] = a[3]
              IN Conditional(m, holds, [db EXCEPT ![a[1]] = a[2]],
                             IF holds THEN Status ELSE Nil)
         [] m.name = "SETNX" ->
              LET holds == db[a[1]] = Absent
              IN Conditional(m, holds, [db EXCEPT ![a[1]] = a[2]], Integer(holds))
         [] m.name = "DELIE" ->
              LET holds == db[a[1]] = a[2]
              IN Conditional(m, holds, [db EXCEPT ![a[1]] = Absent], Integer(holds))
         [] m.name = "DEL" ->
              LET gone == Range(a) \cap Stored(db)
              IN Conditional(m, gone # {},
                             [f \in FullKeys |-> IF f \in gone THEN Absent ELSE db[f]],
                             [type |-> "INTEGER", integer |-> Cardinality(gone)])
         [] m.name = "MGET" ->
              Executed(db, Array([i \in DOMAIN a |->
                    IF db[a[i]] = Absent THEN Nil
                    ELSE [type |-> "STRING", str |-> db[a[i]]]]), FALSE)
         [] m.name = "KEYS" ->
              LET found == InOrder({f \in Stored(db) : Matches(a, f)})
              IN Executed(db, Array([i \in DOMAIN found |->
                    [type |-> "STRING", str |-> found[i]]]), FALSE)

-----------------------------------------------------------------------------
(* Replies to acknowledgements.                                             *)

buildDataMap(keys, array) ==
    LET sorted == InOrder(keys)
        found == {i \in DOMAIN sorted : array[i].type = "STRING"}
    IN [k \in {sorted[i] : i \in found} |->
            array[CHOOSE i \in found : sorted[i] = k].str]

\* Mutation: the last separator is taken for the one after the namespace.
getKeyLast(item) ==
    LET found == {i \in 1..Len(item.str) : item.str[i] = Separator}
    IN SubSeq(item.str, Max(found \cup {0}) + 1, Len(item.str))

getKey(item) ==
    LET found == {i \in 1..Len(item.str) : item.str[i] = Separator}
    IN SubSeq(item.str, IF found = {} THEN 1 ELSE Min(found) + 1, Len(item.str))

getKeys(array) == {getKey(array[i]) : i \in {j \in DOMAIN array : array[j].type = "STRING"}}

conditionalStatus(reply) ==
    ~ \/ reply.type = "NIL"
      \/ reply.type = "INTEGER" /\ reply.integer # 1

IsConditional(r) == r.op \in {"setIf", "setIfNotExists", "removeIf"}

\* The result that goes with an error, or with SUCCESS when nothing was sent.
EmptyResult(r) ==
    CASE IsConditional(r) -> [status |-> FALSE]
      [] r.op = "get" -> [dataMap |-> [k \in {} |-> Absent]]
      [] r.op \in {"findKeys", "listKeys"} -> [keys |-> {}]
      [] OTHER -> Nothing

Result(r, reply) ==
    CASE IsConditional(r) -> [status |-> conditionalStatus(reply)]
      [] r.op = "get" -> [dataMap |-> buildDataMap(r.keys, reply.array)]
      [] r.op \in {"findKeys", "listKeys"} -> [keys |-> getKeys(reply.array)]
      [] OTHER -> Nothing

\* The application compares the code with the constants of Error.
ack(c, code, result) ==
    answers' = [answers EXCEPT ![c] = [error |-> Equals(code), result |-> result]]

-----------------------------------------------------------------------------
(* Actions.                                                                 *)

noKeysGiven(r) ==
    \/ r.op = "set" /\ DOMAIN r.map = {}
    \/ r.op \in {"get", "remove"} /\ r.keys = {}

\* The error code of canOperationBePerformed, or of the dispatcher if it is not
\* connected, to be posted; "NONE" if the command is sent.
cannotBePerformed(c, r) ==
    IF r.ns \notin Namespaces THEN "INVALID_NAMESPACE"
    ELSE IF noKeysGiven(r) THEN "SUCCESS"
    ELSE CASE dispatcher[c] = "none" -> "REDIS_NOT_YET_DISCOVERED"
           [] dispatcher[c] = "DISCONNECTED" -> "NOT_CONNECTED"
           [] dispatcher[c] = "CONNECTED" -> "NONE"

operationAsync(c, r) ==
    LET code == cannotBePerformed(c, r)
    IN IF code # "NONE"
       THEN /\ posted' = [posted EXCEPT ![c] = [request |-> r, code |-> code]]
            /\ pending' = [pending EXCEPT ![c] = Nothing]
       ELSE /\ pending' = [pending EXCEPT ![c] =
                    [request |-> r, command |-> build(r), reply |-> Nothing]]
            /\ UNCHANGED posted

Call(c, r) ==
    /\ pending[c] = Nothing /\ posted[c] = Nothing
    /\ operationAsync(c, r)
    /\ answers' = [answers EXCEPT ![c] = Nothing]
    /\ UNCHANGED <<application, db, dispatcher, orphans, published, faults>>

executePosted(c) ==
    /\ posted[c] # Nothing
    /\ ack(c, posted[c].code, EmptyResult(posted[c].request))
    /\ posted' = [posted EXCEPT ![c] = Nothing]
    /\ UNCHANGED <<application, db, dispatcher, pending, orphans, published, faults>>

\* The database executes a command, or replies with an error instead.
Redis(c) ==
    /\ pending[c] # Nothing /\ pending[c].reply = Nothing
    /\ \/ LET e == Execute(pending[c].command)
          IN /\ db' = e.db /\ published' = e.publishes
             /\ pending' = [pending EXCEPT ![c].reply = e.reply]
       \/ \E text \in application.errors \cap DOMAIN mapRedisReplyErrorToSdlError :
            /\ pending' = [pending EXCEPT ![c].reply = Error(text)]
            /\ UNCHANGED <<db, published>>
    /\ UNCHANGED <<application, dispatcher, posted, answers, orphans, faults>>

HasReply(c, error) ==
    /\ pending[c] # Nothing /\ pending[c].reply # Nothing
    /\ error = (pending[c].reply.type = "ERROR")

RemovesFound(c) ==
    pending[c].request.op = "removeAll" /\ pending[c].reply.array # <<>>

\* The callbacks of all operations, with the error of the reply.
errorReply(c) ==
    /\ HasReply(c, TRUE)
    /\ ack(c, getRedisError(Nothing, pending[c].reply), EmptyResult(pending[c].request))
    /\ pending' = [pending EXCEPT ![c] = Nothing]
    /\ UNCHANGED <<application, db, dispatcher, posted, orphans, published, faults>>

commandCallback(c) ==
    /\ HasReply(c, FALSE) /\ ~RemovesFound(c)
    /\ ack(c, "SUCCESS", Result(pending[c].request, pending[c].reply))
    /\ pending' = [pending EXCEPT ![c] = Nothing]
    /\ UNCHANGED <<application, db, dispatcher, posted, orphans, published, faults>>

\* Mutation: the keys are listed again instead of removed.
removeAllAgain(c) ==
    /\ HasReply(c, FALSE) /\ RemovesFound(c)
    /\ operationAsync(c, pending[c].request)
    /\ UNCHANGED <<application, db, dispatcher, answers, orphans, published, faults>>

\* The callback of removeAllAsync calls removeAsync for what was found.
removeAllCallback(c) ==
    /\ HasReply(c, FALSE) /\ RemovesFound(c)
    /\ operationAsync(c, [op |-> "remove", ns |-> pending[c].request.ns,
                          keys |-> getKeys(pending[c].reply.array)])
    /\ UNCHANGED <<application, db, dispatcher, answers, orphans, published, faults>>

\* The connection is lost, with an error of its context.  A command that was not
\* executed may have reached the database, which then executes it later.
Disconnect(c, contextErr) ==
    /\ dispatcher[c] = "CONNECTED"
    /\ faults < application.maxFaults /\ faults' = faults + 1
    /\ dispatcher' = [dispatcher EXCEPT ![c] = "DISCONNECTED"]
    /\ \/ /\ pending[c] = Nothing
          /\ UNCHANGED <<pending, answers, orphans>>
       \/ /\ pending[c] # Nothing
          /\ ack(c, getRedisError(contextErr, None), EmptyResult(pending[c].request))
          /\ pending' = [pending EXCEPT ![c] = Nothing]
          /\ orphans' = IF pending[c].reply = Nothing /\ pending[c].command.name # "KEYS"
                        THEN Append(orphans, pending[c]) ELSE orphans
    /\ UNCHANGED <<application, db, posted, published>>

\* hiredis-vip could not send the command to the node that has the key.
nodeNotConnected(c) ==
    /\ pending[c] # Nothing /\ pending[c].reply = Nothing
    /\ "CLUSTER_ERROR_NOT_CONNECTED" \in application.errors
    /\ ack(c, getRedisError("CLUSTER_ERROR_NOT_CONNECTED", None),
           EmptyResult(pending[c].request))
    /\ pending' = [pending EXCEPT ![c] = Nothing]
    /\ UNCHANGED <<application, db, dispatcher, posted, orphans, published, faults>>

\* The first discovery creates the dispatcher.
serviceStateChanged(c) ==
    /\ dispatcher[c] = "none"
    /\ dispatcher' = [dispatcher EXCEPT ![c] = "DISCONNECTED"]
    /\ UNCHANGED <<application, db, pending, posted, answers, orphans, published, faults>>

Connect(c) ==
    /\ dispatcher[c] = "DISCONNECTED"
    /\ dispatcher' = [dispatcher EXCEPT ![c] = "CONNECTED"]
    /\ UNCHANGED <<application, db, pending, posted, answers, orphans, published, faults>>

RemoveAt(s, i) == SubSeq(s, 1, i - 1) \o SubSeq(s, i + 1, Len(s))

\* An orphan is executed, or turns out to be lost.
RedisOrphan(i) ==
    /\ orphans' = RemoveAt(orphans, i)
    /\ \/ LET e == Execute(orphans[i].command)
          IN db' = e.db /\ published' = e.publishes
       \/ UNCHANGED <<db, published>>
    /\ UNCHANGED <<application, dispatcher, pending, posted, answers, faults>>

Storage(c) ==
    \/ executePosted(c) \/ errorReply(c) \/ commandCallback(c) \/ removeAllCallback(c)

ConnectionErrors ==
    (application.errors \cap DOMAIN mapRedisContextErrorToSdlError)
        \ {"CLUSTER_ERROR_NOT_CONNECTED"}

Next ==
    \/ \E c \in Clients :
        \/ \E r \in application.requests[c] : Call(c, r)
        \/ Storage(c) \/ Redis(c) \/ nodeNotConnected(c)
        \/ serviceStateChanged(c) \/ Connect(c)
        \/ \E e \in ConnectionErrors : Disconnect(c, e)
    \/ \E i \in DOMAIN orphans : RedisOrphan(i)

Spec == Init /\ [][Next]_vars

\* Engines serve their descriptors, the database executes what it is sent.
FairSpec ==
    /\ Spec
    /\ \A c \in Clients : WF_vars(Storage(c)) /\ WF_vars(Redis(c))

-----------------------------------------------------------------------------
(* Properties.                                                              *)

\* The abstract state.  A request is performed when the database executed its
\* command; of removeAll it is the removal of the keys in the reply that is
\* still to be done then.
AbstractCall(c) ==
    LET p == pending[c]
    IN CASE p = Nothing /\ posted[c] = Nothing -> [stage |-> "idle"]
         [] p = Nothing /\ posted[c] # Nothing ->
              [stage |-> "called", request |-> posted[c].request]
         [] p # Nothing /\ (p.reply = Nothing \/ p.reply.type = "ERROR") ->
              [stage |-> "called", request |-> p.request]
         [] OTHER ->
              IF RemovesFound(c)
              THEN [stage |-> "called",
                    request |-> [op |-> "remove", ns |-> p.request.ns,
                                 keys |-> getKeys(p.reply.array)]]
              ELSE [stage |-> "performed", request |-> p.request,
                    result |-> Result(p.request, p.reply)]

API == INSTANCE SharedData WITH
    data <- [n \in Namespaces |-> [k \in Keys |-> db[addKey(n, k)]]],
    calls <- [c \in Clients |-> AbstractCall(c)],
    unresolved <- [i \in DOMAIN orphans |-> orphans[i].request]

\* Every operation is atomic for all applications, conditions are tested on the
\* data that they protect, results tell what the database held at that moment,
\* searches find the keys with the prefix and no others, whatever characters it
\* has (but not whatever the namespace has: its name is not escaped), removals
\* never reach into other namespaces, and an error code compares equal to exactly
\* one Error, which tells truly whether the data may have been altered.
AtomicOperations == API!Spec

\* In a namespace with notifications every change of the data is published, in
\* others none is.
EveryChangePublished ==
    [][\A ns \in Namespaces, key \in Keys :
        db'[addKey(ns, key)] # db[addKey(ns, key)] =>
            (published' = (ns \in NotificationsEnabled))]_vars

\* Every operation is acknowledged, also a removeAll that others add keys to.
EveryCallAnswered ==
    \A c \in Clients : []<>(pending[c] = Nothing /\ posted[c] = Nothing)

=============================================================================
