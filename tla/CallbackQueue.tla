---------------------------- MODULE CallbackQueue ----------------------------
(***************************************************************************)
(* What Engine::postCallback promises: callbacks posted by any thread are  *)
(* executed one at a time by the event loop, each once and in the order in *)
(* which they were posted.                                                 *)
(***************************************************************************)
EXTENDS Sequences

CONSTANT Callbacks

VARIABLES pending, current

Idle == "idle"

Init == pending = <<>> /\ current = Idle

Post(c) == pending' = Append(pending, c) /\ UNCHANGED current

Execute ==
    /\ current = Idle /\ pending # <<>>
    /\ current' = Head(pending) /\ pending' = Tail(pending)

Return == current # Idle /\ current' = Idle /\ UNCHANGED pending

Next == (\E c \in Callbacks : Post(c)) \/ Execute \/ Return

Spec == Init /\ [][Next]_<<pending, current>>

\* Nothing that was posted waits for ever.
FairSpec == Spec /\ WF_<<pending, current>>(Execute) /\ WF_<<pending, current>>(Return)

=============================================================================
