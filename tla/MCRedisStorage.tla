---------------------------- MODULE MCRedisStorage ----------------------------
(* Applications for checking RedisStorage: every operation on keys with        *)
(* separators and pattern characters, searches in a namespace with one,        *)
(* interruptions, every kind of error.                                         *)
EXTENDS RedisStorage, TLC

CONSTANTS c1, c2, n, m, v, w

NoRecord == [none |-> TRUE]

k == <<"k">>
l == <<"*", Separator>>

TrickyKeys == {k, l}

AllRequests == {
    [op |-> "set", ns |-> n, map |-> [x \in {k, l} |-> v]],
    [op |-> "set", ns |-> n, map |-> [x \in {} |-> v]],
    [op |-> "set", ns |-> m, map |-> [x \in {k} |-> v]],
    [op |-> "setIf", ns |-> n, key |-> k, old |-> v, new |-> w],
    [op |-> "setIfNotExists", ns |-> n, key |-> k, new |-> w],
    [op |-> "get", ns |-> n, keys |-> {k, l}],
    [op |-> "remove", ns |-> n, keys |-> {k}],
    [op |-> "removeIf", ns |-> n, key |-> k, old |-> w],
    [op |-> "findKeys", ns |-> n, prefix |-> <<"*">>],
    [op |-> "listKeys", ns |-> n, pattern |-> <<"?">>],
    [op |-> "removeAll", ns |-> n],
    [op |-> "findKeys", ns |-> m, prefix |-> <<>>],
    [op |-> "removeAll", ns |-> m],
    [op |-> "get", ns |-> Separator, keys |-> {k}]}

\* Those that change what the others see.
RivalRequests == {
    [op |-> "set", ns |-> n, map |-> [x \in {k, l} |-> v]],
    [op |-> "setIf", ns |-> n, key |-> k, old |-> v, new |-> w],
    [op |-> "removeAll", ns |-> n]}

MCApplications == {
    [requests |-> (c1 :> AllRequests @@ c2 :> RivalRequests),
     errors |-> {"OTHER_REPLY"}, maxFaults |-> 0],
    [requests |-> [c \in Clients |-> RivalRequests],
     errors |-> {"READONLY", "REDIS_ERR_EOF"}, maxFaults |-> 1],
    [requests |-> [c \in Clients |->
        {[op |-> "setIfNotExists", ns |-> n, key |-> k, new |-> w]}],
     errors |-> DOMAIN mapRedisReplyErrorToSdlError
                \cup DOMAIN mapRedisContextErrorToSdlError,
     maxFaults |-> 2]}

=============================================================================
