----------------------------- MODULE ErrorMapping -----------------------------
(***************************************************************************)
(* What an application sees of an error.  An error of the database or of   *)
(* hiredis becomes an error code of the dispatcher; together with the      *)
(* codes of the storage it has a default condition, an InternalError; the  *)
(* application compares the code with the constants of                     *)
(* shareddatalayer::Error, which stand for sets of InternalErrors.  Each   *)
(* table is a record: a function on the names of the errors.               *)
(***************************************************************************)

\* By the text of an error reply.
mapRedisReplyErrorToSdlError ==
    [LOADING |-> "DATASET_LOADING", CLUSTERDOWN |-> "NOT_CONNECTED",
     ERR_Protocol |-> "PROTOCOL_ERROR", READONLY |-> "WRITING_TO_SLAVE",
     OTHER_REPLY |-> "UNKNOWN_ERROR"]

\* Mutation: a lost connection is reported as if there had been none.
mapContextLostNotConnected ==
    [REDIS_ERR_IO_ECONNRESET |-> "NOT_CONNECTED", REDIS_ERR_IO |-> "IO_ERROR",
     REDIS_ERR_EOF |-> "CONNECTION_LOST", REDIS_ERR_PROTOCOL |-> "PROTOCOL_ERROR",
     REDIS_ERR_OOM |-> "OUT_OF_MEMORY",
     CLUSTER_ERROR_NOT_CONNECTED |-> "NOT_CONNECTED",
     CLUSTER_ERROR_CONNECTION_LOST |-> "CONNECTION_LOST",
     OTHER_CONTEXT |-> "UNKNOWN_ERROR"]

\* By the err of the context when there is no reply; an I/O error by errno.
mapRedisContextErrorToSdlError ==
    [REDIS_ERR_IO_ECONNRESET |-> "CONNECTION_LOST", REDIS_ERR_IO |-> "IO_ERROR",
     REDIS_ERR_EOF |-> "CONNECTION_LOST", REDIS_ERR_PROTOCOL |-> "PROTOCOL_ERROR",
     REDIS_ERR_OOM |-> "OUT_OF_MEMORY",
     CLUSTER_ERROR_NOT_CONNECTED |-> "NOT_CONNECTED",
     CLUSTER_ERROR_CONNECTION_LOST |-> "CONNECTION_LOST",
     OTHER_CONTEXT |-> "UNKNOWN_ERROR"]

\* A reply is an error if its type says so, no reply always is one.
getRedisError(contextErr, reply) ==
    IF reply.type = "NONE" THEN mapRedisContextErrorToSdlError[contextErr]
    ELSE IF reply.type = "ERROR" THEN mapRedisReplyErrorToSdlError[reply.text]
    ELSE "SUCCESS"

DispatcherCondition ==
    [SUCCESS |-> "SUCCESS", CONNECTION_LOST |-> "BACKEND_CONNECTION_LOST",
     PROTOCOL_ERROR |-> "BACKEND_REJECTED_REQUEST", OUT_OF_MEMORY |-> "BACKEND_ERROR",
     DATASET_LOADING |-> "BACKEND_NOT_READY",
     NOT_CONNECTED |-> "SDL_NOT_CONNECTED_TO_BACKEND",
     UNKNOWN_ERROR |-> "BACKEND_ERROR", IO_ERROR |-> "BACKEND_ERROR",
     WRITING_TO_SLAVE |-> "BACKEND_ERROR"]

StorageCondition ==
    [REDIS_NOT_YET_DISCOVERED |-> "SDL_NOT_READY",
     INVALID_NAMESPACE |-> "SDL_RECEIVED_INVALID_PARAMETER"]

default_error_condition(code) ==
    IF code \in DOMAIN StorageCondition THEN StorageCondition[code]
    ELSE DispatcherCondition[code]

\* The InternalErrors that are equivalent to each Error.
equivalent ==
    [SUCCESS |-> {"SUCCESS"},
     NOT_CONNECTED |-> {"SDL_NOT_CONNECTED_TO_BACKEND", "BACKEND_NOT_READY",
                        "SDL_NOT_READY"},
     OPERATION_INTERRUPTED |-> {"BACKEND_CONNECTION_LOST"},
     BACKEND_FAILURE |-> {"BACKEND_ERROR", "SDL_ERROR_CODE_LOGIC_ERROR"},
     REJECTED_BY_BACKEND |-> {"BACKEND_REJECTED_REQUEST"},
     REJECTED_BY_SDL |-> {"SDL_RECEIVED_INVALID_PARAMETER"}]

\* The Errors that an error code compares equal to.
Equals(code) ==
    {e \in DOMAIN equivalent : default_error_condition(code) \in equivalent[e]}

\* The exception of the synchronous API: the tests are made in this order, the
\* last exception is the one no error code should lead to.
throwExceptionForErrorCode(code) ==
    CASE "BACKEND_FAILURE" \in Equals(code) -> "BackendError"
      [] "NOT_CONNECTED" \in Equals(code) -> "NotConnected"
      [] "OPERATION_INTERRUPTED" \in Equals(code) -> "OperationInterrupted"
      [] "REJECTED_BY_BACKEND" \in Equals(code) -> "RejectedByBackend"
      [] code = "INVALID_NAMESPACE" -> "InvalidNamespace"
      [] "REJECTED_BY_SDL" \in Equals(code) /\ code # "INVALID_NAMESPACE" -> "RejectedBySdl"
      [] OTHER -> "range_error"

=============================================================================
