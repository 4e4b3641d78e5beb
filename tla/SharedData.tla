------------------------------ MODULE SharedData ------------------------------
(***************************************************************************)
(* What the storage API promises to the applications that share a          *)
(* database: every operation takes effect at one moment between its call   *)
(* and its acknowledgement.  Two exceptions are documented: removeAll      *)
(* finds the keys at one moment and removes the found ones at another, and *)
(* an operation whose error leaves it open whether the data was altered    *)
(* may take effect at any later time, or never.  One is not: what a search *)
(* finds in a namespace whose name has characters of search patterns.      *)
(***************************************************************************)
EXTENDS Naturals, Sequences, GlobPattern

CONSTANTS
    Clients, Namespaces, Keys, Values,
    Absent, Nothing,
    Requests    \* the operations that clients call

VARIABLES
    data,       \* [Namespaces -> [Keys -> Values or Absent]]
    calls,      \* per client: [stage, request, keys found, result]
    answers,    \* per client: how its last call ended: the result, and the set of
                \* Errors that the error compares equal to
    unresolved  \* the interrupted operations that may still take effect

vars == <<data, calls, answers, unresolved>>

IdleCall == [stage |-> "idle"]

Present(d, n) == {k \in Keys : d[n][k] # Absent}

\* The condition under which a request changes the data.
Holds(r, d) ==
    CASE r.op = "setIf" -> d[r.ns][r.key] = r.old
      [] r.op = "setIfNotExists" -> d[r.ns][r.key] = Absent
      [] r.op = "removeIf" -> d[r.ns][r.key] = r.old
      [] OTHER -> TRUE

\* The values that a request assigns to keys of its namespace.
Assigns(r) ==
    CASE r.op = "set" -> r.map
      [] r.op \in {"setIf", "setIfNotExists"} -> [k \in {r.key} |-> r.new]
      [] r.op = "remove" -> [k \in r.keys |-> Absent]
      [] r.op = "removeIf" -> [k \in {r.key} |-> Absent]
      [] OTHER -> [k \in {} |-> Absent]

Effect(r, d) ==
    IF ~Holds(r, d) THEN d
    ELSE [d EXCEPT ![r.ns] = [k \in Keys |->
            IF k \in DOMAIN Assigns(r) THEN Assigns(r)[k] ELSE d[r.ns][k]]]

IsPrefix(prefix, key) == Len(prefix) <= Len(key) /\ SubSeq(key, 1, Len(prefix)) = prefix

\* The keys that findKeysAsync, by a prefix, listKeys, by a pattern, and removeAll
\* are to find.
Found(r, d) ==
    {k \in Present(d, r.ns) :
        CASE r.op = "findKeys" -> IsPrefix(r.prefix, k)
          [] r.op = "listKeys" -> Matches(r.pattern, k)
          [] OTHER -> TRUE}

\* What a search may find: if the namespace itself is taken for a pattern, any keys
\* that some namespace has.
Finds(r, d) ==
    IF r.ns \in PatternCharacters THEN SUBSET UNION {Present(d, n) : n \in Namespaces}
                                  ELSE {Found(r, d)}

Result(r, d, found) ==
    CASE r.op \in {"setIf", "setIfNotExists", "removeIf"} -> [status |-> Holds(r, d)]
      [] r.op = "get" ->
            [dataMap |-> [k \in r.keys \cap Present(d, r.ns) |-> d[r.ns][k]]]
      [] r.op \in {"findKeys", "listKeys"} -> [keys |-> found]
      [] OTHER -> Nothing

\* What is passed to the acknowledgement with an error.
ErrorResult(r) ==
    CASE r.op \in {"setIf", "setIfNotExists", "removeIf"} -> [status |-> FALSE]
      [] r.op = "get" -> [dataMap |-> [k \in {} |-> Absent]]
      [] r.op \in {"findKeys", "listKeys"} -> [keys |-> {}]
      [] OTHER -> Nothing

NoKeys(r) ==
    \/ r.op = "set" /\ DOMAIN r.map = {}
    \/ r.op \in {"get", "remove"} /\ r.keys = {}

Init ==
    /\ data = [n \in Namespaces |-> [k \in Keys |-> Absent]]
    /\ calls = [c \in Clients |-> IdleCall]
    /\ answers = [c \in Clients |-> Nothing]
    /\ unresolved = <<>>

Call(c, r) ==
    /\ calls[c] = IdleCall
    /\ calls' = [calls EXCEPT ![c] = [stage |-> "called", request |-> r]]
    /\ answers' = [answers EXCEPT ![c] = Nothing]
    /\ UNCHANGED <<data, unresolved>>

\* removeAll finds keys and goes on as a removal of these keys.
Perform(c) ==
    /\ calls[c].stage = "called" /\ calls[c].request.ns \in Namespaces
    /\ LET r == calls[c].request
       IN \E found \in Finds(r, data) :
          \/ /\ r.op = "removeAll" /\ found # {}
             /\ calls' = [calls EXCEPT ![c].request =
                            [op |-> "remove", ns |-> r.ns, keys |-> found]]
             /\ UNCHANGED data
          \/ /\ r.op # "removeAll" \/ found = {}
             /\ data' = Effect(r, data)
             /\ calls' = [calls EXCEPT ![c] =
                    [stage |-> "performed", request |-> r,
                     result |-> Result(r, data, found)]]
    /\ UNCHANGED <<answers, unresolved>>

Answer(c, error, result) ==
    /\ answers' = [answers EXCEPT ![c] = [error |-> {error}, result |-> result]]
    /\ calls' = [calls EXCEPT ![c] = IdleCall]

Return(c) ==
    /\ calls[c].stage = "performed"
    /\ Answer(c, "SUCCESS", calls[c].result)
    /\ UNCHANGED <<data, unresolved>>

\* With these errors "data in the backend data storage has not been altered".
Unaltered == {"NOT_CONNECTED", "REJECTED_BY_SDL"}

\* With these it "may or may not have been altered".
MaybeAltered == {"OPERATION_INTERRUPTED", "BACKEND_FAILURE", "REJECTED_BY_BACKEND"}

\* Nothing was changed; with SUCCESS only because the request names no keys.
Fail(c, error) ==
    /\ error \in Unaltered \cup {"SUCCESS"}
    /\ calls[c].stage = "called"
    /\ error = "SUCCESS" => NoKeys(calls[c].request)
    /\ Answer(c, error, ErrorResult(calls[c].request))
    /\ UNCHANGED <<data, unresolved>>

Interrupt(c, error) ==
    /\ error \in MaybeAltered
    /\ calls[c].stage \in {"called", "performed"}
    /\ Answer(c, error, ErrorResult(calls[c].request))
    /\ \/ UNCHANGED unresolved
       \/ /\ calls[c].stage = "called"
          /\ unresolved' = Append(unresolved, calls[c].request)
    /\ UNCHANGED data

RemoveAt(s, i) == SubSeq(s, 1, i - 1) \o SubSeq(s, i + 1, Len(s))

Resolve(i) ==
    /\ unresolved' = RemoveAt(unresolved, i)
    /\ data' \in {data, Effect(unresolved[i], data)}
    /\ UNCHANGED <<calls, answers>>

Next ==
    \/ \E c \in Clients, r \in Requests : Call(c, r)
    \/ \E c \in Clients : Perform(c) \/ Return(c)
    \/ \E c \in Clients, e \in Unaltered \cup {"SUCCESS"} : Fail(c, e)
    \/ \E c \in Clients, e \in MaybeAltered : Interrupt(c, e)
    \/ \E i \in DOMAIN unresolved : Resolve(i)

Spec == Init /\ [][Next]_vars

=============================================================================
