---------------------------- MODULE MCConnections ----------------------------
(* Two commands, to the two nodes of a cluster; failures.                     *)
EXTENDS Connections, TLC

CONSTANTS c1, c2

MCNodeOf == (c1 :> "a") @@ (c2 :> "b") @@ (Verify :> "a")

MCMaxFaults == [SINGLE |-> 2, CLUSTER |-> 2]

=============================================================================
