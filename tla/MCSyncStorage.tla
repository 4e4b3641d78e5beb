---------------------------- MODULE MCSyncStorage ----------------------------
(***************************************************************************)
(* The deployments for which SyncStorage is checked.                       *)
(***************************************************************************)
EXTENDS SyncStorage

\* All operations without operation timeout on a configured database.
Untimed == [operations |-> Operations, operationTimeout |-> "zero", discovery |-> "HIREDIS"]

\* With operation timeout and failovers; waitReady() would wait without limit.
Timed ==
    [operations |-> Operations \ {"waitReady"}, operationTimeout |-> "positive",
     discovery |-> "SENTINEL"]

UntimedAndTimed == {Untimed, Timed}

TimedSet ==
    {[operations |-> {"set"}, operationTimeout |-> "positive", discovery |-> "HIREDIS"]}

UntimedSetWithFailover ==
    {[operations |-> {"set"}, operationTimeout |-> "zero", discovery |-> "SENTINEL"]}

=============================================================================
