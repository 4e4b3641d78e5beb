----------------------- MODULE CommandDispatcherProofs -----------------------
(***************************************************************************)
(* Proofs about CommandDispatcher, for any number of commands and any      *)
(* number of failures.                                                     *)
(***************************************************************************)
EXTENDS CommandDispatcher, TLAPS

\* More time than a leaf has by default.
USE SMTT(30), ZenonT(30)

-----------------------------------------------------------------------------
(* Types.                                                                   *)

\* The operations on the queues of callbacks keep their types.
LEMMA QueueTypes ==
    /\ \A c \in Callbacks : <<c>> \in Seq(Callbacks)
    /\ \A q \in Seq(Callbacks), c \in Callbacks : Append(q, c) \in Seq(Callbacks)
    /\ \A q \in Seq(Callbacks) : q # <<>> => Tail(q) \in Seq(Callbacks)
    /\ \A q \in Seq(Callbacks \cup {"connectAck"}) :
        /\ \A c \in Callbacks \cup {"connectAck"} :
            Append(q, c) \in Seq(Callbacks \cup {"connectAck"})
        /\ q # <<>> => Tail(q) \in Seq(Callbacks \cup {"connectAck"})
  <1>1. \A S : \A c \in S : <<c>> \in Seq(S)
    OBVIOUS
  <1>2. \A S : \A q \in Seq(S) : /\ \A c \in S : Append(q, c) \in Seq(S)
                                 /\ q # <<>> => Tail(q) \in Seq(S)
    OBVIOUS
  <1> QED
    BY <1>1, <1>2, Zenon

\* Commands and COMMAND queries are callbacks.
LEMMA CallbackKinds == Commands \subseteq Callbacks /\ Verifications \subseteq Callbacks
  BY DEF Callbacks

\* No callback is mistaken for another frame.
LEMMA CallbackNames ==
    \A c \in Callbacks :
        c # "none" /\ c # "connectAck" /\ c # "disconnect" /\ c # "posted"
  BY NamesDisjoint DEF Callbacks, Frames

\* No action leaves a flag untyped.
LEMMA FlagStep == ASSUME FlagTypes, [Next]_vars PROVE FlagTypes'
  <1> USE DEF FlagTypes, setup, history, setConnected
  <1>1. CASE Client
    BY <1>1, Zenon DEF Client, waitConnectedAsync, registerDisconnectCb,
       disableCommandCallbacks, dispatchAsync, Destroy
  <1>2. CASE connectCbOk \/ TimerVerify
    BY <1>2, Zenon DEF connectCbOk, TimerVerify, verifyConnection
  <1>3. CASE Reply \/ TeardownReply
    BY <1>3, Zenon DEF Reply, TeardownReply, ignoreReply, callCommandCb,
       verifyReplyOk, verifyReplyError, invalidCb
  <1>4. CASE connectCbError \/ ConnectionLost \/ disconnectCb \/ FreeFailed
    BY <1>4, Zenon DEF connectCbError, ConnectionLost, disconnectCb, FreeFailed
  <1>5. CASE Return
    BY <1>5, Zenon DEF Return, CommandReturn, ConnectAckReturn, DisconnectReturn,
       PostedReturn
  <1>6. CASE TimerConnect \/ ExecutePosted
    BY <1>6, Zenon DEF TimerConnect, connect, ExecutePosted
  <1>7. CASE Terminated \/ UNCHANGED vars
    BY <1>7, Zenon DEF Terminated, vars
  <1> QED
    BY <1>1, <1>2, <1>3, <1>4, <1>5, <1>6, <1>7, Zenon DEF Next, Hiredis, Engine

\* Handing a callback to hiredis, or posting its error, keeps the types.
LEMMA SubmitTypes ==
    ASSUME DataTypes, NEW c \in Callbacks, Accept(c) \/ Refuse(c)
    PROVE  /\ replies' \in Seq(Callbacks) /\ cbs' \subseteq Callbacks
           /\ posted' \in Seq(Callbacks \cup {"connectAck"})
           /\ refusals' \in Seq({"query", "command"})
  <1> USE DEF DataTypes
  <1>1. CASE Accept(c) /\ usePermanentCommandCallbacks
    BY <1>1, QueueTypes DEF Accept
  <1>2. CASE Accept(c) /\ ~usePermanentCommandCallbacks
    BY <1>2, QueueTypes DEF Accept
  <1>3. CASE Refuse(c)
    <2>1. /\ posted' = Append(posted, c) /\ cbs' = cbs /\ replies' = replies
          /\ refusals' = refusals \/ refusals' = Append(refusals, Kind(c))
      BY ZenonT(30), <1>3 DEF Refuse, Refused
    <2>2. Kind(c) \in {"query", "command"}
      BY ZenonT(30) DEF Kind
    <2>3. Append(refusals, Kind(c)) \in Seq({"query", "command"})
      BY <2>2
    <2> QED
      BY ZenonT(30), <2>1, <2>3, QueueTypes
  <1> QED
    BY <1>1, <1>2, <1>3

\* No action leaves the other variables untyped.
LEMMA DataStep == ASSUME DataTypes, [Next]_vars PROVE DataTypes'
  <1> USE BoundsNat, CallbackKinds DEF DataTypes, Frames, setup, lists, history, budget
  <1>1. CASE waitConnectedAsync \/ registerDisconnectCb \/ disableCommandCallbacks
    BY ZenonT(30), <1>1, QueueTypes DEF waitConnectedAsync, registerDisconnectCb,
       disableCommandCallbacks
  <1>2. ASSUME NEW c \in Commands, dispatchAsync(c) PROVE DataTypes'
    <2>1. CASE serviceState = "CONNECTED"
      BY <1>2, <2>1, SubmitTypes DEF dispatchAsync, submit
    <2>2. CASE serviceState # "CONNECTED"
      <3>1. posted' \in Seq(Callbacks \cup {"connectAck"})
        BY <1>2, <2>2, QueueTypes DEF dispatchAsync, submit
      <3> QED
        BY <1>2, <2>2, <3>1 DEF dispatchAsync, submit
    <2> QED
      BY <2>1, <2>2
  <1>3. CASE Destroy
    BY <1>3 DEF Destroy, disconnectHiredis
  <1>4. CASE connectCbOk
    BY <1>4, SubmitTypes DEF connectCbOk, verifyConnection, setConnected
  <1>5. CASE connectCbError \/ ConnectionLost \/ disconnectCb \/ FreeFailed
    BY <1>5 DEF connectCbError, ConnectionLost, disconnectCb, FreeFailed,
       setDisconnected, ArmConnect, Fault
  <1>6. CASE Reply
    BY <1>6, QueueTypes DEF Reply, ignoreReply, callCommandCb, verifyReplyOk,
       verifyReplyError, invalidCb, setConnected, verificationFailed, removeCb,
       Fault
  <1>7. CASE TeardownReply
    BY ZenonT(30), <1>7, QueueTypes DEF TeardownReply, ignoreReply, callCommandCb,
       verifyReplyError, invalidCb, verificationFailed, removeCb
  <1>8. CASE Return
    BY <1>8 DEF Return, CommandReturn, ConnectAckReturn, DisconnectReturn,
       PostedReturn, removeCb, ArmConnect
  <1>9. CASE TimerConnect
    BY <1>9 DEF TimerConnect, connect, setDisconnected, ArmConnect, Fault
  <1>10. CASE TimerVerify
    BY <1>10, SubmitTypes DEF TimerVerify, verifyConnection, setConnected
  <1>11. CASE ExecutePosted
    BY <1>11, QueueTypes DEF ExecutePosted, executePostedClient,
       executePostedVerify, verificationFailed
  <1>12. CASE Terminated \/ UNCHANGED vars
    BY <1>12 DEF Terminated, vars
  <1> QED
    BY ZenonT(30), <1>1, <1>2, <1>3, <1>4, <1>5, <1>6, <1>7, <1>8, <1>9, <1>10, <1>11, <1>12
    DEF Next, Client, Hiredis, Engine

\* Every state the dispatcher reaches is well typed.
THEOREM TypeCorrect == Spec => []TypeOK
  <1>1. Init => TypeOK
    <2>1. Init => FlagTypes
      BY Zenon DEF Init, FlagTypes
    <2>2. Init => DataTypes
      BY BoundsNat DEF Init, DataTypes, Frames
    <2> QED
      BY <2>1, <2>2 DEF TypeOK
  <1>2. TypeOK /\ [Next]_vars => TypeOK'
    BY FlagStep, DataStep DEF TypeOK
  <1> QED
    BY <1>1, <1>2, PTL DEF Spec

-----------------------------------------------------------------------------
(* Queues as sets.                                                          *)

LEMMA ElemsAppend ==
    ASSUME NEW S, NEW q \in Seq(S), NEW e \in S
    PROVE  Elems(Append(q, e)) = Elems(q) \cup {e}
  <1>1. Len(Append(q, e)) = Len(q) + 1 /\ Len(q) \in Nat
    OBVIOUS
  <1>2. \A i \in 1..Len(q) : Append(q, e)[i] = q[i]
    OBVIOUS
  <1>3. Append(q, e)[Len(q) + 1] = e
    OBVIOUS
  <1>4. ASSUME NEW x \in Elems(Append(q, e)) PROVE x \in Elems(q) \cup {e}
    <2>1. PICK i \in 1..(Len(q) + 1) : x = Append(q, e)[i]
      BY <1>1, <1>4 DEF Elems
    <2>2. CASE i = Len(q) + 1
      BY <2>1, <2>2, <1>3
    <2>3. CASE i \in 1..Len(q)
      BY <2>1, <2>3, <1>2 DEF Elems
    <2> QED
      BY <1>1, <2>1, <2>2, <2>3
  <1>5. ASSUME NEW x \in Elems(q) \cup {e} PROVE x \in Elems(Append(q, e))
    BY <1>1, <1>2, <1>3, <1>5 DEF Elems
  <1> QED
    BY <1>4, <1>5

LEMMA ElemsTail ==
    ASSUME NEW S, NEW q \in Seq(S), q # <<>>
    PROVE  Elems(q) = Elems(Tail(q)) \cup {Head(q)}
  <1>1. Len(Tail(q)) = Len(q) - 1 /\ Len(q) \in Nat /\ Len(q) > 0
    OBVIOUS
  <1>2. \A i \in 1..Len(Tail(q)) : Tail(q)[i] = q[i + 1]
    OBVIOUS
  <1>3. Head(q) = q[1]
    OBVIOUS
  <1>4. ASSUME NEW x \in Elems(q) PROVE x \in Elems(Tail(q)) \cup {Head(q)}
    <2>1. PICK i \in 1..Len(q) : x = q[i]
      BY <1>4 DEF Elems
    <2>2. CASE i = 1
      BY <2>1, <2>2, <1>3
    <2>3. CASE i # 1
      <3>1. i - 1 \in 1..Len(Tail(q)) /\ x = Tail(q)[i - 1]
        BY <1>1, <1>2, <2>1, <2>3
      <3> QED
        BY <3>1 DEF Elems
    <2> QED
      BY <2>2, <2>3
  <1>5. ASSUME NEW x \in Elems(Tail(q)) \cup {Head(q)} PROVE x \in Elems(q)
    <2>1. CASE x = Head(q)
      BY <2>1, <1>1, <1>3 DEF Elems
    <2>2. CASE x \in Elems(Tail(q))
      <3>1. PICK i \in 1..Len(Tail(q)) : x = Tail(q)[i]
        BY <2>2 DEF Elems
      <3>2. i + 1 \in 1..Len(q) /\ x = q[i + 1]
        BY <3>1, <1>1, <1>2
      <3> QED
        BY <3>2 DEF Elems
    <2> QED
      BY <1>5, <2>1, <2>2
  <1> QED
    BY <1>4, <1>5

LEMMA ElemsShort == Elems(<<>>) = {} /\ \A e : Elems(<<e>>) = {e}
  <1>1. Elems(<<>>) = {}
    BY DEF Elems
  <1>2. ASSUME NEW e PROVE Elems(<<e>>) = {e}
    BY DEF Elems
  <1> QED
    BY <1>1, <1>2

\* No callback is queued twice.
Unique(q) == \A i, j \in 1..Len(q) : q[i] = q[j] => i = j

LEMMA UniqueAppend ==
    ASSUME NEW S, NEW q \in Seq(S), NEW e \in S, Unique(q), e \notin Elems(q)
    PROVE  Unique(Append(q, e))
  <1>1. Len(Append(q, e)) = Len(q) + 1 /\ Len(q) \in Nat
    OBVIOUS
  <1>2. \A i \in 1..Len(q) : Append(q, e)[i] = q[i] /\ q[i] # e
    BY DEF Elems
  <1>3. Append(q, e)[Len(q) + 1] = e
    OBVIOUS
  <1> QED
    BY <1>1, <1>2, <1>3 DEF Unique

LEMMA UniqueTail ==
    ASSUME NEW S, NEW q \in Seq(S), q # <<>>, Unique(q)
    PROVE  Unique(Tail(q)) /\ Head(q) \notin Elems(Tail(q))
  <1>1. Len(Tail(q)) = Len(q) - 1 /\ Len(q) \in Nat /\ Len(q) > 0
    OBVIOUS
  <1>2. \A i \in 1..Len(Tail(q)) : Tail(q)[i] = q[i + 1]
    OBVIOUS
  <1>3. Head(q) = q[1]
    OBVIOUS
  <1>4. Unique(Tail(q))
    BY <1>1, <1>2 DEF Unique
  <1>5. ASSUME NEW i \in 1..Len(Tail(q)) PROVE Tail(q)[i] # Head(q)
    BY <1>1, <1>2, <1>3 DEF Unique
  <1> QED
    BY <1>4, <1>5 DEF Elems

-----------------------------------------------------------------------------
(* The callbacks lent to hiredis.                                           *)

\* handleReply finds the callback it was given in cbs because hiredis only
\* holds callbacks of cbs, each once, and because the one that is on the stack,
\* which is about to be removed, is not among those hiredis still holds.
CallbackInv ==
    /\ Elems(replies) \subseteq cbs
    /\ Unique(replies)
    /\ running \in Callbacks => running \in cbs
    /\ running \in Callbacks /\ mode # "subscriber"
        => running \notin Elems(replies)
    /\ mode # "storage"
        => Verifications \cap (cbs \cup Elems(posted)) = {} /\ timer # "verify"
    /\ clientCallbacksEnabled /\ aborted = "no" /\ mode # "subscriber"
        => cbs \subseteq Elems(replies) \cup {running}
    /\ aborted # "invalidCb"

\* A command that hiredis accepts enters cbs and, last, the reply queue.
LEMMA AcceptEffect ==
    ASSUME DataTypes, CallbackInv, NEW c \in Callbacks, c \notin cbs, Accept(c)
    PROVE  /\ Unique(replies')
           /\ Elems(replies') \subseteq Elems(replies) \cup {c}
           /\ mode # "subscriber" => Elems(replies') = Elems(replies) \cup {c}
           /\ cbs' = cbs \cup {c} /\ posted' = posted
  <1>1. c \notin Elems(replies) /\ replies \in Seq(Callbacks) /\ Unique(replies)
    BY DEF DataTypes, CallbackInv
  <1>2. Elems(Append(replies, c)) = Elems(replies) \cup {c}
    BY <1>1, ElemsAppend
  <1>3. Unique(Append(replies, c))
    BY <1>1, UniqueAppend
  <1>4. Unique(<<c>>) /\ Elems(<<c>>) = {c}
    BY ElemsShort DEF Unique
  <1> QED
    BY <1>2, <1>3, <1>4 DEF Accept, usePermanentCommandCallbacks

\* A refused one is only posted.
LEMMA RefuseEffect ==
    ASSUME DataTypes, NEW c \in Callbacks, Refuse(c)
    PROVE  Elems(posted') = Elems(posted) \cup {c} /\ cbs' = cbs /\ replies' = replies
  <1>1. posted \in Seq(Callbacks \cup {"connectAck"})
    BY DEF DataTypes
  <1> QED
    BY <1>1, ElemsAppend DEF Refuse

\* Taking the next callback from the reply queue.
LEMMA PopEffect ==
    ASSUME DataTypes, CallbackInv, replies # <<>>
    PROVE  /\ Unique(Tail(replies))
           /\ Elems(replies) = Elems(Tail(replies)) \cup {Head(replies)}
           /\ Head(replies) \notin Elems(Tail(replies))
           /\ Head(replies) \in cbs /\ Head(replies) \in Callbacks
  <1>1. replies \in Seq(Callbacks) /\ Unique(replies)
    BY DEF DataTypes, CallbackInv
  <1>2. Elems(replies) = Elems(Tail(replies)) \cup {Head(replies)}
    BY <1>1, ElemsTail
  <1>3. Unique(Tail(replies)) /\ Head(replies) \notin Elems(Tail(replies))
    BY <1>1, UniqueTail
  <1>4. Head(replies) \in cbs
    BY <1>2 DEF CallbackInv
  <1> QED
    BY <1>2, <1>3, <1>4 DEF DataTypes

LEMMA CallbackStep ==
    ASSUME DataTypes, CallbackInv, [Next]_vars
    PROVE  CallbackInv'
  <1> USE CallbackKinds, CallbackNames DEF setup, lists, history, budget
  <1>0. "none" \notin cbs
    BY DEF DataTypes
  <1>1. CASE waitConnectedAsync \/ registerDisconnectCb \/ disableCommandCallbacks
    <2>1. Verifications \cap Elems(posted') = Verifications \cap Elems(posted)
      <3>1. posted \in Seq(Callbacks \cup {"connectAck"})
        BY DEF DataTypes
      <3>2. Elems(Append(posted, "connectAck")) = Elems(posted) \cup {"connectAck"}
        BY <3>1, ElemsAppend
      <3> QED
        BY ZenonT(30), <1>1, <3>2 DEF waitConnectedAsync, registerDisconnectCb,
           disableCommandCallbacks
    <2> QED
      BY <1>1, <2>1 DEF CallbackInv, waitConnectedAsync, registerDisconnectCb,
         disableCommandCallbacks
  <1>2. ASSUME NEW c \in Commands, dispatchAsync(c) PROVE CallbackInv'
    <2>1. c \notin cbs /\ c \in Callbacks /\ c \notin Verifications
      BY <1>2, NamesDisjoint DEF dispatchAsync
    <2>2. CASE Accept(c)
      BY <1>2, <2>1, <2>2, AcceptEffect DEF CallbackInv, dispatchAsync
    <2>3. CASE Refuse(c)
      BY <1>2, <2>1, <2>3, RefuseEffect DEF CallbackInv, dispatchAsync
    <2>4. CASE posted' = Append(posted, c) /\ UNCHANGED <<cbs, replies>>
      <3>1. Elems(posted') = Elems(posted) \cup {c}
        BY <2>1, <2>4, ElemsAppend DEF DataTypes
      <3> QED
        BY <1>2, <2>1, <2>4, <3>1 DEF CallbackInv, dispatchAsync
    <2> QED
      BY <1>2, <2>2, <2>3, <2>4 DEF dispatchAsync, submit
  <1>3. CASE Destroy
    BY <1>3 DEF Destroy, disconnectHiredis, CallbackInv, LoopFree
  <1>4. CASE connectCbOk \/ TimerVerify
    <2>1. running = "none" /\ UNCHANGED <<mode, clientCallbacksEnabled, aborted>>
      BY <1>4 DEF connectCbOk, TimerVerify, LoopFree
    <2>2. CASE usedForSentinel
      <3>1. UNCHANGED lists /\ timer' \in {"off", timer}
            /\ running' \in {"none", "connectAck"}
        <4>1. CASE connectCbOk
          BY <4>1, <2>2 DEF connectCbOk, verifyConnection, setConnected
        <4>2. CASE TimerVerify
          BY <4>2, <2>2 DEF TimerVerify, verifyConnection, setConnected
        <4> QED
          BY <1>4, <4>1, <4>2
      <3> QED
        BY <1>0, <2>1, <3>1 DEF CallbackInv
    <2>3. CASE ~usedForSentinel
      <3>1. PICK v \in Verifications : /\ v \notin cbs
                                       /\ Accept(v) \/ Refuse(v)
                                       /\ UNCHANGED running
        BY <1>4, <2>3 DEF connectCbOk, TimerVerify, verifyConnection
      <3>2. CASE Accept(v)
        BY <2>1, <2>3, <3>1, <3>2, AcceptEffect DEF CallbackInv, usedForSentinel
      <3>3. CASE Refuse(v)
        BY <2>1, <2>3, <3>1, <3>3, RefuseEffect DEF CallbackInv, usedForSentinel
      <3> QED
        BY <3>1, <3>2, <3>3
    <2> QED
      BY <2>2, <2>3
  <1>5. CASE connectCbError \/ ConnectionLost \/ disconnectCb \/ FreeFailed
    BY <1>0, <1>5 DEF connectCbError, ConnectionLost, disconnectCb, FreeFailed,
       setDisconnected, ArmConnect, CallbackInv, LoopFree
  <1>6. CASE Reply \/ TeardownReply
    <2> DEFINE c == Head(replies)
    <2>1. /\ replies # <<>> /\ running = "none"
          /\ UNCHANGED <<mode, clientCallbacksEnabled, posted>>
          /\ (replies' = replies /\ mode = "subscriber") \/ replies' = Tail(replies)
      BY <1>6 DEF Reply, TeardownReply, LoopFree, usePermanentCommandCallbacks
    <2>2. CASE ignoreReply
      BY ZenonT(30), <1>0, <2>1, <2>2, PopEffect DEF CallbackInv, ignoreReply
    <2>3. CASE callCommandCb(c)
      BY ZenonT(30), <1>0, <2>1, <2>3, PopEffect DEF CallbackInv, callCommandCb
    <2>4. CASE verifyReplyOk(c)
      <3>1. mode = "storage" /\ replies' = Tail(replies)
        BY <2>1, <2>4 DEF CallbackInv, verifyReplyOk
      <3>2. CASE connectAck /\ setConnected(c) /\ UNCHANGED <<cbs, aborted>>
        BY <1>0, <2>1, <3>1, <3>2, PopEffect DEF CallbackInv, setConnected
      <3>3. CASE ~connectAck /\ setConnected(c) /\ removeCb(c) /\ UNCHANGED aborted
        BY <1>0, <2>1, <3>1, <3>3, PopEffect DEF CallbackInv, setConnected, removeCb
      <3>4. CASE aborted' = "modules" /\ UNCHANGED <<cbs, running>>
        BY <1>0, <2>1, <3>1, <3>4, PopEffect DEF CallbackInv
      <3> QED
        BY <2>4, <3>2, <3>3, <3>4 DEF verifyReplyOk
    <2>5. CASE verifyReplyError(c)
      BY ZenonT(30), <2>1, <2>5, PopEffect DEF CallbackInv, verifyReplyError, removeCb,
         verificationFailed
    <2>6. ~invalidCb(c)
      BY <2>1, PopEffect DEF invalidCb
    <2> QED
      BY <1>6, <2>2, <2>3, <2>4, <2>5, <2>6 DEF Reply, TeardownReply
  <1>7. CASE Return
    <2>1. CASE CommandReturn
      BY <1>7, <2>1 DEF CallbackInv, Return, CommandReturn, removeCb,
         usePermanentCommandCallbacks
    <2>2. CASE ConnectAckReturn
      BY <1>7, <2>2 DEF CallbackInv, Return, ConnectAckReturn, removeCb, DataTypes
    <2>3. CASE DisconnectReturn \/ PostedReturn
      BY <1>7, <2>3 DEF CallbackInv, Return, DisconnectReturn, PostedReturn,
         ArmConnect, DataTypes
    <2> QED
      BY <1>7, <2>1, <2>2, <2>3 DEF Return
  <1>8. CASE TimerConnect
    BY <1>0, <1>8 DEF TimerConnect, connect, setDisconnected, ArmConnect, CallbackInv,
       LoopFree
  <1>9. CASE ExecutePosted
    <2>1. Elems(posted) = Elems(posted') \cup {Head(posted)}
      BY <1>9, ElemsTail DEF ExecutePosted, DataTypes
    <2>2. /\ running = "none" /\ aborted = "no"
          /\ UNCHANGED <<mode, clientCallbacksEnabled, cbs, replies>>
      BY <1>9 DEF ExecutePosted, LoopFree
    <2>3. CASE executePostedClient(Head(posted))
      BY <1>0, <2>1, <2>2, <2>3 DEF CallbackInv, executePostedClient
    <2>4. CASE executePostedVerify(Head(posted))
      BY <2>1, <2>2, <2>4 DEF CallbackInv, executePostedVerify, verificationFailed
    <2> QED
      BY <1>9, <2>3, <2>4 DEF ExecutePosted
  <1>10. CASE Terminated \/ UNCHANGED vars
    BY <1>10 DEF Terminated, vars, CallbackInv
  <1> QED
    BY <1>1, <1>2, <1>3, <1>4, <1>5, <1>6, <1>7, <1>8, <1>9, <1>10
    DEF Next, Client, Hiredis, Engine

THEOREM CallbackInvariant == Spec => []CallbackInv
  <1>1. Init => CallbackInv
    BY ElemsShort, CallbackNames DEF Init, CallbackInv, Unique
  <1>2. DataTypes /\ CallbackInv /\ [Next]_vars => CallbackInv'
    BY CallbackStep
  <1>3. TypeOK => DataTypes
    BY DEF TypeOK
  <1> QED
    BY <1>1, <1>2, <1>3, TypeCorrect, PTL DEF Spec

\* handleReply never aborts with "Invalid callback function.".
THEOREM CallbacksValid == Spec => []NoInvalidCallback
  <1>1. CallbackInv => NoInvalidCallback
    BY DEF CallbackInv, NoInvalidCallback
  <1> QED
    BY <1>1, CallbackInvariant, PTL

\* Between events cbs is exactly what hiredis holds: nothing is leaked.
THEOREM CallbackListMatches == Spec => []CallbackListExact
  <1>1. DataTypes /\ CallbackInv => CallbackListExact
    BY ZenonT(30), CallbackNames DEF DataTypes, CallbackInv, CallbackListExact, LoopFree
  <1>2. TypeOK => DataTypes
    BY DEF TypeOK
  <1> QED
    BY <1>1, <1>2, TypeCorrect, CallbackInvariant, PTL

-----------------------------------------------------------------------------
(* The context, the retry timer and the service state.                      *)

\* ContextAlive speaks of the moments at which ac is used.  That it holds there
\* follows from how ac, the timer and the state are related at every moment: a
\* reconnect is scheduled only when no context is left, and whenever none is
\* left it is scheduled, or will be as soon as the disconnect callback returns.
ConnectionInv ==
    /\ ac \in {"open", "closing"} => serviceState # "DISCONNECTED"
    /\ serviceState = "CONNECTED" /\ life # "destroyed"
        => ac \in {"open", "closing"}
    /\ serviceState = "CONNECTION_VERIFICATION" /\ life # "destroyed"
        => ac \in {"connecting", "open", "closing", "failing"}
    /\ timer = "connect"
        => serviceState = "DISCONNECTED" /\ ac \in {"none", "failing", "freed"}
    /\ life = "alive" /\ ac \in {"none", "failing", "freed"}
        => running = "disconnect" \/ timer = "connect"
    /\ running = "disconnect"
        => /\ ac \in {"none", "failing", "freed"}
           /\ life # "destroyed" /\ serviceState = "DISCONNECTED"
    /\ life = "alive" => ac # "dropped"
    /\ life = "destructing"
        => \/ running # "disconnect" /\ ac \in {"closing", "failing"}
           \/ running = "disconnect" /\ ac = "freed"
    /\ life = "destroyed" => ac \in {"none", "freed", "dropped"} /\ timer = "off"

\* The parts of the state that ConnectionInv relates change together.
LEMMA ConnectionStep ==
    ASSUME DataTypes, CallbackInv, ConnectionInv, [Next]_vars
    PROVE  ConnectionInv'
  <1> USE CallbackKinds, CallbackNames
      DEF DataTypes, ConnectionInv, Frames, setup, lists, history,
          budget, LoopFree, Tearing
  <1>1. CASE waitConnectedAsync \/ registerDisconnectCb \/ disableCommandCallbacks
    BY <1>1 DEF waitConnectedAsync, registerDisconnectCb, disableCommandCallbacks
  <1>2. ASSUME NEW c \in Commands, dispatchAsync(c) PROVE ConnectionInv'
    BY <1>2 DEF dispatchAsync
  <1>3. CASE Destroy
    BY <1>3 DEF Destroy, disconnectHiredis
  <1>4. CASE connectCbOk
    BY <1>4 DEF connectCbOk, verifyConnection, setConnected
  <1>5. CASE connectCbError
    BY <1>5 DEF connectCbError, setDisconnected, ArmConnect
  <1>6. CASE ConnectionLost \/ FreeFailed
    BY <1>6 DEF ConnectionLost, FreeFailed
  <1>7. CASE disconnectCb
    BY <1>7 DEF disconnectCb, setDisconnected, ArmConnect
  <1>8. CASE Reply
    BY <1>8 DEF Reply, ignoreReply, callCommandCb, verifyReplyOk,
       verifyReplyError, invalidCb, setConnected, verificationFailed
  <1>9. CASE TeardownReply
    BY <1>9 DEF TeardownReply, ignoreReply, callCommandCb, verifyReplyError,
       invalidCb, verificationFailed
  <1>10. CASE Return
    BY <1>10 DEF Return, CommandReturn, ConnectAckReturn, DisconnectReturn,
       PostedReturn, ArmConnect
  <1>11. CASE TimerConnect
    BY <1>11 DEF TimerConnect, connect, setDisconnected, ArmConnect
  <1>12. CASE TimerVerify
    <2>1. ~usedForSentinel
      BY <1>12 DEF TimerVerify, CallbackInv, usedForSentinel
    <2> QED
      BY <1>12, <2>1 DEF TimerVerify, verifyConnection
  <1>13. CASE ExecutePosted
    BY <1>13 DEF ExecutePosted, executePostedClient, executePostedVerify,
       verificationFailed
  <1>14. CASE Terminated \/ UNCHANGED vars
    BY <1>14 DEF Terminated, vars
  <1> QED
    BY ZenonT(30), <1>1, <1>2, <1>3, <1>4, <1>5, <1>6, <1>7, <1>8, <1>9, <1>10, <1>11,
       <1>12, <1>13, <1>14
    DEF Next, Client, Hiredis, Engine

THEOREM ConnectionInvariant == Spec => []ConnectionInv
  <1>1. Init => ConnectionInv
    BY DEF Init, ConnectionInv
  <1>2. DataTypes /\ CallbackInv /\ ConnectionInv /\ [Next]_vars => ConnectionInv'
    BY ConnectionStep
  <1>3. TypeOK => DataTypes
    BY DEF TypeOK
  <1> QED
    BY <1>1, <1>2, <1>3, TypeCorrect, CallbackInvariant, PTL DEF Spec

\* Whatever connections fail and whatever client callbacks do, ac is never used
\* after hiredis freed the context: commands, the verification retry and the
\* destructor find a live one.
THEOREM ContextNeverDangles == Spec => []ContextAlive
  <1>1. DataTypes /\ ConnectionInv => ContextAlive
    BY DEF DataTypes, ConnectionInv, ContextAlive
  <1>2. TypeOK => DataTypes
    BY DEF TypeOK
  <1> QED
    BY <1>1, <1>2, TypeCorrect, ConnectionInvariant, PTL

\* A context that is connecting or connected is never overwritten by the next.
THEOREM ContextNeverLeaked == Spec => []OneContextAtATime
  <1>1. ConnectionInv => OneContextAtATime
    BY DEF ConnectionInv, OneContextAtATime
  <1> QED
    BY <1>1, ConnectionInvariant, PTL

-----------------------------------------------------------------------------
(* Connection verification.                                                 *)

\* A storage is used only over a connection that answered the COMMAND query.
THEOREM OnlyVerifiedConnectionsUsed == Spec => []VerifiedBeforeUse
  <1>1. Init => VerifiedBeforeUse
    BY DEF Init, VerifiedBeforeUse
  <1>2. ASSUME CallbackInv, ConnectionInv, VerifiedBeforeUse, [Next]_vars
        PROVE  VerifiedBeforeUse'
    <2> USE DEF VerifiedBeforeUse, setup, history, usedForSentinel
    <2>1. CASE Client
      BY <1>2, <2>1 DEF Client, waitConnectedAsync, registerDisconnectCb,
         disableCommandCallbacks, dispatchAsync, Destroy
    <2>2. CASE connectCbOk \/ TimerVerify
      BY <1>2, <2>2 DEF connectCbOk, TimerVerify, verifyConnection, setConnected
    <2>3. CASE Reply \/ TeardownReply
      BY <1>2, <2>3 DEF Reply, TeardownReply, ignoreReply, callCommandCb,
         verifyReplyOk, verifyReplyError, invalidCb, setConnected
    <2>4. CASE connectCbError \/ ConnectionLost \/ disconnectCb \/ FreeFailed
      BY <1>2, <2>4 DEF connectCbError, ConnectionLost, disconnectCb, FreeFailed,
         setDisconnected
    <2>5. CASE Return
      BY <1>2, <2>5 DEF Return, CommandReturn, ConnectAckReturn,
         DisconnectReturn, PostedReturn
    <2>6. CASE TimerConnect
      BY <1>2, <2>6 DEF TimerConnect, ConnectionInv, connect, setDisconnected
    <2>7. CASE ExecutePosted
      BY <1>2, <2>7 DEF ExecutePosted
    <2>8. CASE Terminated \/ UNCHANGED vars
      BY <1>2, <2>8 DEF Terminated, vars
    <2> QED
      BY <1>2, <2>1, <2>2, <2>3, <2>4, <2>5, <2>6, <2>7, <2>8
      DEF Next, Hiredis, Engine
  <1> QED
    BY <1>1, <1>2, CallbackInvariant, ConnectionInvariant, PTL DEF Spec

\* While the connection is being verified, the query or its retry is pending;
\* a query whose acknowledgement is running has ended the verification.
VerificationInv ==
    /\ running \in Verifications => serviceState = "CONNECTED"
    /\ /\ life = "alive" /\ serviceState = "CONNECTION_VERIFICATION"
       /\ clientCallbacksEnabled /\ aborted = "no"
       => \/ timer = "verify"
          \/ \E v \in Verifications : v \in cbs \/ v \in Elems(posted)

LEMMA VerificationStep ==
    ASSUME DataTypes, CallbackInv, ConnectionInv, VerificationInv, [Next]_vars
    PROVE  VerificationInv'
  <1> USE CallbackKinds, CallbackNames, NamesDisjoint
      DEF setup, lists, history, budget
  <1>1. CASE waitConnectedAsync \/ registerDisconnectCb \/ disableCommandCallbacks
    <2>1. Elems(posted) \subseteq Elems(posted')
      <3>1. Elems(posted) \subseteq Elems(Append(posted, "connectAck"))
        BY ElemsAppend DEF DataTypes
      <3> QED
        BY ZenonT(30), <1>1, <3>1 DEF waitConnectedAsync, registerDisconnectCb,
           disableCommandCallbacks
    <2> QED
      BY <1>1, <2>1 DEF VerificationInv, waitConnectedAsync,
         registerDisconnectCb, disableCommandCallbacks
  <1>2. ASSUME NEW c \in Commands, dispatchAsync(c) PROVE VerificationInv'
    <2>1. cbs \subseteq cbs'
      BY <1>2 DEF dispatchAsync, submit, Accept, Refuse
    <2>2. Elems(posted) \subseteq Elems(posted')
      <3>1. Elems(posted) \subseteq Elems(Append(posted, c))
        BY ElemsAppend DEF DataTypes
      <3> QED
        BY ZenonT(30), <1>2, <3>1 DEF dispatchAsync, submit, Accept, Refuse
    <2> QED
      BY <1>2, <2>1, <2>2 DEF VerificationInv, dispatchAsync
  <1>3. CASE Destroy
    BY <1>3 DEF Destroy, disconnectHiredis, VerificationInv, LoopFree
  <1>4. CASE connectCbOk \/ TimerVerify
    <2>1. running = "none"
      BY <1>4 DEF connectCbOk, TimerVerify, LoopFree
    <2>2. CASE usedForSentinel
      BY <1>4, <2>1, <2>2 DEF connectCbOk, TimerVerify, verifyConnection,
         setConnected, VerificationInv
    <2>3. CASE ~usedForSentinel
      <3>1. PICK v \in Verifications : /\ v \notin cbs
                                       /\ Accept(v) \/ Refuse(v)
                                       /\ UNCHANGED running
        BY <1>4, <2>3 DEF connectCbOk, TimerVerify, verifyConnection
      <3>2. v \in cbs' \/ v \in Elems(posted')
        BY <3>1, AcceptEffect, RefuseEffect
      <3> QED
        BY <2>1, <3>1, <3>2 DEF VerificationInv
    <2> QED
      BY <2>2, <2>3
  <1>5. CASE connectCbError \/ ConnectionLost \/ disconnectCb \/ FreeFailed
    BY <1>5 DEF connectCbError, ConnectionLost, disconnectCb, FreeFailed,
       setDisconnected, ArmConnect, VerificationInv, LoopFree
  <1>6. CASE Reply \/ TeardownReply
    <2> DEFINE c == Head(replies)
    <2>1. /\ running = "none" /\ aborted = "no"
          /\ UNCHANGED <<clientCallbacksEnabled, posted, life>>
      BY <1>6 DEF Reply, TeardownReply, LoopFree
    <2>2. CASE ignoreReply
      BY <2>1, <2>2 DEF VerificationInv, ignoreReply
    <2>3. CASE callCommandCb(c)
      BY <2>1, <2>3 DEF VerificationInv, callCommandCb
    <2>4. CASE verifyReplyOk(c)
      BY <2>1, <2>4 DEF VerificationInv, verifyReplyOk, setConnected
    <2>5. CASE verifyReplyError(c)
      BY <2>1, <2>5 DEF VerificationInv, verifyReplyError, verificationFailed,
         ConnectionInv, DataTypes
    <2>6. CASE invalidCb(c)
      BY <2>1, <2>6 DEF VerificationInv, invalidCb
    <2> QED
      BY <1>6, <2>2, <2>3, <2>4, <2>5, <2>6 DEF Reply, TeardownReply
  <1>7. CASE Return
    BY <1>7 DEF VerificationInv, Return, CommandReturn, ConnectAckReturn,
       DisconnectReturn, PostedReturn, removeCb, ArmConnect, ConnectionInv
  <1>8. CASE TimerConnect
    BY <1>8 DEF TimerConnect, connect, setDisconnected, VerificationInv,
       ConnectionInv, LoopFree
  <1>9. CASE ExecutePosted
    <2>1. Elems(posted) = Elems(posted') \cup {Head(posted)}
      BY <1>9, ElemsTail DEF ExecutePosted, DataTypes
    <2>2. CASE executePostedClient(Head(posted))
      BY <1>9, <2>1, <2>2 DEF ExecutePosted, LoopFree, VerificationInv,
         executePostedClient
    <2>3. CASE executePostedVerify(Head(posted))
      BY <1>9, <2>3 DEF ExecutePosted, LoopFree, VerificationInv,
         executePostedVerify, verificationFailed, ConnectionInv, DataTypes
    <2> QED
      BY <1>9, <2>2, <2>3 DEF ExecutePosted
  <1>10. CASE Terminated \/ UNCHANGED vars
    BY <1>10 DEF Terminated, vars, VerificationInv
  <1> QED
    BY <1>1, <1>2, <1>3, <1>4, <1>5, <1>6, <1>7, <1>8, <1>9, <1>10
    DEF Next, Client, Hiredis, Engine

\* The dispatcher never strands: it is always connected, or connecting, or has
\* the retry scheduled, whatever sequence of failures led to the state.
THEOREM DispatcherNeverStranded == Spec => []NeverStranded
  <1>1. Init => VerificationInv
    BY CallbackKinds, CallbackNames DEF Init, VerificationInv
  <1>2. /\ DataTypes /\ CallbackInv /\ ConnectionInv /\ VerificationInv
        /\ [Next]_vars
        => VerificationInv'
    BY VerificationStep
  <1>3. TypeOK => DataTypes
    BY DEF TypeOK
  <1>4. DataTypes /\ ConnectionInv /\ VerificationInv => NeverStranded
    BY DEF DataTypes, ConnectionInv, VerificationInv, NeverStranded, LoopFree,
       Tearing, Posted
  <1> QED
    BY <1>1, <1>2, <1>3, <1>4, TypeCorrect, CallbackInvariant,
       ConnectionInvariant, PTL DEF Spec


-----------------------------------------------------------------------------
(* Every command is answered from one place.                                *)

\* No command is queued twice.
UniqueCommands(q) ==
    \A i, j \in 1..Len(q) : q[i] = q[j] /\ q[i] \in Commands => i = j

\* A command that waits for its answer is in one of the two queues, and in one
\* only, because its name is not used again before it was answered.
AnswerInv ==
    mode # "subscriber" =>
        /\ UniqueCommands(posted)
        /\ Commands \cap Elems(replies) \cap Elems(posted) = {}
        /\ Commands \cap (Elems(replies) \cup Elems(posted)) \subseteq outstanding
        /\ clientCallbacksEnabled => outstanding \subseteq Elems(replies) \cup Elems(posted)

\* Posting a callback: a command that is not posted yet, or no command.
LEMMA PostEffect ==
    ASSUME DataTypes, UniqueCommands(posted), NEW c \in Callbacks \cup {"connectAck"},
           c \in Commands => c \notin Elems(posted)
    PROVE  /\ UniqueCommands(Append(posted, c))
           /\ Elems(Append(posted, c)) = Elems(posted) \cup {c}
  <1>0. posted \in Seq(Callbacks \cup {"connectAck"})
    BY DEF DataTypes
  <1>1. Len(Append(posted, c)) = Len(posted) + 1 /\ Len(posted) \in Nat
    BY <1>0
  <1>2. \A i \in 1..Len(posted) :
          Append(posted, c)[i] = posted[i] /\ (c \in Commands => posted[i] # c)
    BY <1>0 DEF Elems
  <1>3. Append(posted, c)[Len(posted) + 1] = c
    BY <1>0
  <1>4. UniqueCommands(Append(posted, c))
    BY <1>1, <1>2, <1>3 DEF UniqueCommands
  <1> QED
    BY <1>0, <1>4, ElemsAppend

\* Taking the next callback from the engine's queue.
LEMMA UnpostEffect ==
    ASSUME DataTypes, UniqueCommands(posted), posted # <<>>
    PROVE  /\ UniqueCommands(Tail(posted))
           /\ Elems(posted) = Elems(Tail(posted)) \cup {Head(posted)}
           /\ Head(posted) \in Commands => Head(posted) \notin Elems(Tail(posted))
  <1>0. posted \in Seq(Callbacks \cup {"connectAck"})
    BY DEF DataTypes
  <1>1. Len(Tail(posted)) = Len(posted) - 1 /\ Len(posted) \in Nat /\ Len(posted) > 0
    BY <1>0
  <1>2. \A i \in 1..Len(Tail(posted)) : Tail(posted)[i] = posted[i + 1]
    BY <1>0
  <1>3. Head(posted) = posted[1]
    BY <1>0
  <1>4. UniqueCommands(Tail(posted))
    BY <1>1, <1>2 DEF UniqueCommands
  <1>5. ASSUME Head(posted) \in Commands, NEW i \in 1..Len(Tail(posted))
        PROVE  Tail(posted)[i] # Head(posted)
    BY <1>1, <1>2, <1>3, <1>5 DEF UniqueCommands
  <1> QED
    BY <1>0, <1>4, <1>5, ElemsTail DEF Elems

\* A command or a query that hiredis accepts or refuses.
LEMMA SubmitAnswer ==
    ASSUME DataTypes, CallbackInv, AnswerInv, mode # "subscriber",
           NEW c \in Callbacks, c \notin cbs, c \in Commands => c \notin outstanding,
           Accept(c) \/ Refuse(c),
           outstanding' = outstanding \cup ({c} \cap Commands),
           UNCHANGED <<mode, clientCallbacksEnabled>>
    PROVE  AnswerInv'
  <1>1. c \notin Elems(replies) /\ (c \in Commands => c \notin Elems(posted))
    BY DEF CallbackInv, AnswerInv
  <1>2. CASE Accept(c)
    <2>1. Elems(replies') = Elems(replies) \cup {c} /\ posted' = posted
      BY <1>2, AcceptEffect
    <2> QED
      BY <1>1, <2>1 DEF AnswerInv
  <1>3. CASE Refuse(c)
    <2>1. UniqueCommands(posted) /\ c \in Callbacks \cup {"connectAck"}
      BY DEF AnswerInv
    <2>2. UniqueCommands(posted') /\ Elems(posted') = Elems(posted) \cup {c}
      BY <1>1, <1>3, <2>1, PostEffect DEF Refuse
    <2> QED
      BY <1>1, <1>3, <2>2 DEF AnswerInv, Refuse
  <1> QED
    BY <1>2, <1>3

LEMMA AnswerStep ==
    ASSUME DataTypes, CallbackInv, AnswerInv, [Next]_vars
    PROVE  AnswerInv'
  <1> USE CallbackKinds, CallbackNames, NamesDisjoint DEF setup, lists, history, budget
  <1> SUFFICES ASSUME mode # "subscriber", mode' = mode PROVE AnswerInv'
    <2>1. mode' = mode
      BY ZenonT(30) DEF Next, Client, Hiredis, Return, Engine, Terminated, vars, waitConnectedAsync,
         registerDisconnectCb, disableCommandCallbacks, dispatchAsync, Destroy, connectCbOk,
         connectCbError, ConnectionLost, Reply, TeardownReply, disconnectCb, FreeFailed,
         CommandReturn, ConnectAckReturn, DisconnectReturn, PostedReturn, TimerConnect,
         TimerVerify, ExecutePosted
    <2> QED
      BY <2>1 DEF AnswerInv
  <1>1. CASE waitConnectedAsync \/ registerDisconnectCb \/ disableCommandCallbacks
    <2>1. /\ UniqueCommands(Append(posted, "connectAck"))
          /\ Elems(Append(posted, "connectAck")) = Elems(posted) \cup {"connectAck"}
      BY PostEffect DEF AnswerInv
    <2>2. CASE posted' = Append(posted, "connectAck")
               /\ UNCHANGED <<clientCallbacksEnabled, replies, outstanding>>
      BY <2>1, <2>2 DEF AnswerInv
    <2>3. CASE (clientCallbacksEnabled' => clientCallbacksEnabled)
               /\ UNCHANGED <<posted, replies, outstanding>>
      BY <2>3 DEF AnswerInv
    <2>4. ASSUME waitConnectedAsync
          PROVE  /\ posted' = Append(posted, "connectAck") \/ posted' = posted
                 /\ UNCHANGED <<clientCallbacksEnabled, replies, outstanding>>
      BY <2>4 DEF waitConnectedAsync
    <2>5. ASSUME registerDisconnectCb \/ disableCommandCallbacks
          PROVE  /\ clientCallbacksEnabled' => clientCallbacksEnabled
                 /\ UNCHANGED <<posted, replies, outstanding>>
      BY <2>5 DEF registerDisconnectCb, disableCommandCallbacks
    <2> QED
      BY <1>1, <2>2, <2>3, <2>4, <2>5
  <1>2. ASSUME NEW c \in Commands, dispatchAsync(c) PROVE AnswerInv'
    <2>1. /\ c \notin cbs /\ c \notin outstanding /\ c \in Callbacks
          /\ outstanding' = outstanding \cup ({c} \cap Commands)
          /\ UNCHANGED <<mode, clientCallbacksEnabled>>
      BY <1>2 DEF dispatchAsync
    <2>2. CASE Accept(c) \/ Refuse(c)
      BY <2>1, <2>2, SubmitAnswer
    <2>3. CASE posted' = Append(posted, c) /\ UNCHANGED <<cbs, replies>>
      <3>1. c \notin Elems(replies) /\ c \notin Elems(posted) /\ UniqueCommands(posted)
        BY <2>1 DEF CallbackInv, AnswerInv
      <3>2. UniqueCommands(posted') /\ Elems(posted') = Elems(posted) \cup {c}
        BY <2>1, <2>3, <3>1, PostEffect
      <3> QED
        BY <2>1, <2>3, <3>1, <3>2 DEF AnswerInv
    <2> QED
      BY <1>2, <2>2, <2>3 DEF dispatchAsync, submit
  <1>3. CASE connectCbOk \/ TimerVerify
    <2>1. UNCHANGED <<mode, clientCallbacksEnabled, outstanding>>
      BY <1>3 DEF connectCbOk, TimerVerify
    <2>2. CASE usedForSentinel
      BY <1>3, <2>1, <2>2 DEF connectCbOk, TimerVerify, verifyConnection, AnswerInv
    <2>3. CASE ~usedForSentinel
      <3>1. PICK v \in Verifications : v \notin cbs /\ (Accept(v) \/ Refuse(v))
        BY <1>3, <2>3 DEF connectCbOk, TimerVerify, verifyConnection
      <3>2. v \in Callbacks /\ v \notin Commands
        OBVIOUS
      <3> QED
        BY <2>1, <3>1, <3>2, SubmitAnswer
    <2> QED
      BY <2>2, <2>3
  <1>4. CASE Destroy \/ connectCbError \/ ConnectionLost \/ disconnectCb \/ FreeFailed
             \/ Return \/ TimerConnect \/ Terminated \/ UNCHANGED vars
    <2>1. UNCHANGED <<clientCallbacksEnabled, replies, posted, outstanding>>
      BY ZenonT(30), <1>4 DEF Destroy, connectCbError, ConnectionLost, disconnectCb, FreeFailed,
         Return, CommandReturn, ConnectAckReturn, DisconnectReturn, PostedReturn,
         TimerConnect, Terminated, vars
    <2> QED
      BY <2>1 DEF AnswerInv
  <1>5. CASE Reply \/ TeardownReply
    <2> DEFINE c == Head(replies)
    <2>1. /\ replies # <<>> /\ replies' = Tail(replies)
          /\ UNCHANGED <<clientCallbacksEnabled, posted>>
      BY <1>5 DEF Reply, TeardownReply, usePermanentCommandCallbacks
    <2>2. /\ Elems(replies) = Elems(replies') \cup {c} /\ c \notin Elems(replies')
          /\ c \in cbs /\ c \in Callbacks
      BY <2>1, PopEffect
    <2>3. CASE ignoreReply
      BY <2>1, <2>2, <2>3 DEF AnswerInv, ignoreReply
    <2>4. CASE callCommandCb(c)
      BY <2>1, <2>2, <2>4 DEF AnswerInv, callCommandCb
    <2>5. CASE verifyReplyOk(c) \/ verifyReplyError(c)
      <3>1. c \notin Commands /\ outstanding' = outstanding
        BY <2>5 DEF verifyReplyOk, verifyReplyError
      <3>2. outstanding \subseteq Commands
        BY DEF DataTypes
      <3> QED
        BY <2>1, <2>2, <3>1, <3>2 DEF AnswerInv
    <2>6. ~invalidCb(c)
      BY <2>2 DEF invalidCb
    <2> QED
      BY <1>5, <2>3, <2>4, <2>5, <2>6 DEF Reply, TeardownReply
  <1>6. CASE ExecutePosted
    <2> DEFINE c == Head(posted)
    <2>1. posted # <<>> /\ posted' = Tail(posted) /\ UNCHANGED <<clientCallbacksEnabled, replies>>
      BY <1>6 DEF ExecutePosted
    <2>2. /\ UniqueCommands(posted') /\ Elems(posted) = Elems(posted') \cup {c}
          /\ c \in Commands => c \notin Elems(posted')
      BY <2>1, UnpostEffect DEF AnswerInv
    <2>3. outstanding \subseteq Commands /\ outstanding' = outstanding \ {c}
      BY <1>6 DEF ExecutePosted, executePostedClient, executePostedVerify, DataTypes
    <2> QED
      BY <2>1, <2>2, <2>3 DEF AnswerInv
  <1> QED
    BY <1>1, <1>2, <1>3, <1>4, <1>5, <1>6 DEF Next, Client, Hiredis, Engine

\* The invariant that makes OneAnswerPerCommand inductive.
THEOREM AnswerInvariant == Spec => []AnswerInv
  <1>1. Init => AnswerInv
    BY ElemsShort DEF Init, AnswerInv, UniqueCommands
  <1>2. DataTypes /\ CallbackInv /\ AnswerInv /\ [Next]_vars => AnswerInv'
    BY AnswerStep
  <1>3. TypeOK => DataTypes
    BY DEF TypeOK
  <1> QED
    BY <1>1, <1>2, <1>3, TypeCorrect, CallbackInvariant, PTL DEF Spec

\* A command that was not answered yet is in exactly one place from which its
\* answer will come: hiredis' queue or the engine's queue of posted errors.
THEOREM AnsweredFromOnePlace == Spec => []OneAnswerPerCommand
  <1>1. ASSUME DataTypes, CallbackInv, AnswerInv PROVE OneAnswerPerCommand
    <2> DEFINE pending == replies \o posted
               Pos(c) == {i \in 1..Len(pending) : pending[i] = c}
    <2> SUFFICES ASSUME mode # "subscriber", NEW c \in Commands
                 PROVE  /\ \A i, j \in Pos(c) : i = j
                        /\ Pos(c) # {} => c \in outstanding
                        /\ c \in outstanding /\ clientCallbacksEnabled => Pos(c) # {}
      BY ZenonT(30) DEF OneAnswerPerCommand
    <2>0. replies \in Seq(Callbacks) /\ posted \in Seq(Callbacks \cup {"connectAck"})
      BY <1>1 DEF DataTypes
    <2>1. Len(replies) \in Nat /\ Len(posted) \in Nat
      BY <2>0
    <2>2. /\ Len(pending) = Len(replies) + Len(posted)
          /\ \A i \in 1..Len(replies) : pending[i] = replies[i]
          /\ \A i \in Len(replies) + 1 .. Len(replies) + Len(posted) :
               pending[i] = posted[i - Len(replies)]
      BY <2>0
    <2>3. \A j \in 1..Len(posted) :
            /\ Len(replies) + j \in Len(replies) + 1 .. Len(replies) + Len(posted)
            /\ (Len(replies) + j) - Len(replies) = j
      BY <2>1
    <2>4. \A i \in 1..Len(pending) :
            \/ i \in 1..Len(replies)
            \/ /\ i \in Len(replies) + 1 .. Len(replies) + Len(posted)
               /\ i - Len(replies) \in 1..Len(posted)
      BY <2>1, <2>2
    <2> HIDE DEF pending
    <2>5. /\ Unique(replies) /\ UniqueCommands(posted)
          /\ ~(c \in Elems(replies) /\ c \in Elems(posted))
          /\ c \in Elems(replies) \cup Elems(posted) => c \in outstanding
          /\ c \in outstanding /\ clientCallbacksEnabled => c \in Elems(replies) \cup Elems(posted)
      <3>1. Unique(replies)
        BY <1>1 DEF CallbackInv
      <3> QED
        BY <1>1, <3>1 DEF AnswerInv
    <2>6. \A i \in Pos(c) :
            \/ i \in 1..Len(replies) /\ replies[i] = c
            \/ /\ i \in Len(replies) + 1 .. Len(replies) + Len(posted)
               /\ i - Len(replies) \in 1..Len(posted) /\ posted[i - Len(replies)] = c
      BY <2>2, <2>4
    <2>7. c \in Elems(replies) \cup Elems(posted) => Pos(c) # {}
      <3>1. ASSUME NEW i \in 1..Len(replies), replies[i] = c PROVE i \in Pos(c)
        BY <2>1, <2>2, <3>1
      <3>2. ASSUME NEW j \in 1..Len(posted), posted[j] = c PROVE Len(replies) + j \in Pos(c)
        BY <2>1, <2>2, <2>3, <3>2
      <3> QED
        BY <3>1, <3>2 DEF Elems
    <2>8. Pos(c) # {} => c \in Elems(replies) \cup Elems(posted)
      BY <2>6 DEF Elems
    <2>9. ASSUME NEW i \in Pos(c), NEW j \in Pos(c) PROVE i = j
      <3>1. CASE i \in 1..Len(replies) /\ replies[i] = c
        <4>1. c \in Elems(replies) /\ c \notin Elems(posted)
          BY <2>5, <3>1 DEF Elems
        <4>2. j \in 1..Len(replies) /\ replies[j] = c
          BY <2>6, <4>1 DEF Elems
        <4> QED
          BY <2>5, <3>1, <4>2 DEF Unique
      <3>2. CASE /\ i \in Len(replies) + 1 .. Len(replies) + Len(posted)
                 /\ i - Len(replies) \in 1..Len(posted) /\ posted[i - Len(replies)] = c
        <4>1. c \in Elems(posted) /\ c \notin Elems(replies)
          BY <2>5, <3>2 DEF Elems
        <4>2. /\ j \in Len(replies) + 1 .. Len(replies) + Len(posted)
              /\ j - Len(replies) \in 1..Len(posted) /\ posted[j - Len(replies)] = c
          BY <2>6, <4>1 DEF Elems
        <4>3. i - Len(replies) = j - Len(replies)
          BY <2>5, <3>2, <4>2 DEF UniqueCommands
        <4> QED
          BY <2>1, <3>2, <4>2, <4>3
      <3> QED
        BY <2>6, <3>1, <3>2
    <2> QED
      BY <2>5, <2>7, <2>8, <2>9
  <1>2. TypeOK => DataTypes
    BY DEF TypeOK
  <1> QED
    BY <1>1, <1>2, TypeCorrect, CallbackInvariant, AnswerInvariant, PTL

-----------------------------------------------------------------------------
(* What is posted for a dispatcher that may be gone.                        *)

\* NoDanglingThis is inductive: verifyConnection does not run while the context is
\* freed, so a query that is posted was refused by an open connection.
LEMMA PostedStep ==
    ASSUME DataTypes, NoDanglingThis, [Next]_vars
    PROVE  NoDanglingThis'
  <1> USE CallbackKinds, CallbackNames, NamesDisjoint DEF setup, lists, history, budget
  <1>0. /\ posted \in Seq(Callbacks \cup {"connectAck"})
        /\ refusals \in Seq({"query", "command"})
    BY DEF DataTypes
  <1>1. CASE Destroy \/ connectCbError \/ ConnectionLost \/ disconnectCb \/ FreeFailed
             \/ Return \/ TimerConnect \/ Terminated \/ registerDisconnectCb
             \/ disableCommandCallbacks \/ UNCHANGED vars
    <2>1. UNCHANGED <<aborted, posted, refusals>>
      BY ZenonT(30), <1>1 DEF Destroy, connectCbError, ConnectionLost, disconnectCb, FreeFailed,
         Return, CommandReturn, ConnectAckReturn, DisconnectReturn, PostedReturn,
         TimerConnect, Terminated, registerDisconnectCb, disableCommandCallbacks, vars
    <2> QED
      BY <2>1 DEF NoDanglingThis, Posted
  <1>2. CASE waitConnectedAsync
    <2>1. Elems(Append(posted, "connectAck")) = Elems(posted) \cup {"connectAck"}
      BY <1>0, ElemsAppend
    <2>2. /\ UNCHANGED <<aborted, refusals>>
          /\ posted' = posted \/ posted' = Append(posted, "connectAck")
      BY <1>2 DEF waitConnectedAsync
    <2> QED
      BY ZenonT(30), <2>1, <2>2 DEF NoDanglingThis, Posted
  <1>3. ASSUME NEW c \in Commands, dispatchAsync(c) PROVE NoDanglingThis'
    <2>1. Elems(Append(posted, c)) = Elems(posted) \cup {c} /\ c \notin Verifications
      BY <1>0, ElemsAppend
    <2>2. /\ UNCHANGED aborted
          /\ posted' = posted \/ posted' = Append(posted, c)
          /\ refusals' = refusals \/ refusals' = Append(refusals, "command")
      <3>1. Kind(c) = "command"
        BY ZenonT(30), <2>1 DEF Kind
      <3> QED
        BY ZenonT(30), <1>3, <3>1 DEF dispatchAsync, submit, Accept, Refuse, Refused
    <2>3. Elems(refusals) \subseteq Elems(refusals')
      <3>1. Elems(Append(refusals, "command")) = Elems(refusals) \cup {"command"}
        BY <1>0, ElemsAppend
      <3> QED
        BY ZenonT(30), <2>2, <3>1
    <2>4. Verifications \cap Elems(posted') = Verifications \cap Elems(posted)
      <3>1. CASE posted' = posted
        BY ONLY ZenonT(30), <3>1
      <3>2. CASE posted' = Append(posted, c)
        <4>1. Elems(posted') = Elems(posted) \cup {c}
          BY ONLY ZenonT(30), <2>1, <3>2
        <4> QED
          BY ONLY ZenonT(30), <2>1, <4>1
      <3> QED
        BY ONLY ZenonT(30), <2>2, <3>1, <3>2
    <2> QED
      BY ZenonT(30), <2>2, <2>3, <2>4 DEF NoDanglingThis, Posted
  <1>4. CASE connectCbOk \/ TimerVerify
    <2>1. ~Tearing /\ UNCHANGED aborted
      BY <1>4 DEF connectCbOk, TimerVerify, LoopFree
    <2>2. \/ UNCHANGED <<posted, refusals>>
          \/ refusals' = Append(refusals, "query")
      BY ZenonT(30), <1>4, <2>1 DEF connectCbOk, TimerVerify, verifyConnection, Accept, Refuse,
         Refused, Kind
    <2>3. Elems(Append(refusals, "query")) = Elems(refusals) \cup {"query"}
      BY <1>0, ElemsAppend
    <2> QED
      BY ZenonT(30), <2>1, <2>2, <2>3 DEF NoDanglingThis, Posted
  <1>5. CASE Reply \/ TeardownReply
    <2>1. /\ UNCHANGED <<posted, refusals>>
          /\ aborted' = aborted \/ aborted' \in {"invalidCb", "modules"}
      BY <1>5 DEF Reply, TeardownReply, ignoreReply, callCommandCb, verifyReplyOk,
         verifyReplyError, invalidCb
    <2> QED
      BY <2>1 DEF NoDanglingThis, Posted
  <1>6. CASE ExecutePosted
    <2>1. posted # <<>> /\ posted' = Tail(posted) /\ refusals' = refusals
      BY <1>6 DEF ExecutePosted
    <2>2. Elems(posted) = Elems(posted') \cup {Head(posted)}
      BY <1>0, <2>1, ElemsTail
    <2>3. aborted' = aborted \/ Head(posted) \in Verifications
      BY <1>6 DEF ExecutePosted, executePostedClient, executePostedVerify
    <2> QED
      BY <2>1, <2>2, <2>3 DEF NoDanglingThis, Posted
  <1> QED
    BY <1>1, <1>2, <1>3, <1>4, <1>5, <1>6 DEF Next, Client, Hiredis, Engine

\* Of the functions posted for a dispatcher that may be gone, only the error of a
\* COMMAND query that an open connection refused uses it, whatever else is refused.
THEOREM PostedErrorsOutliveDispatcher == Spec => []NoDanglingThis
  <1>1. Init => NoDanglingThis
    BY ElemsShort DEF Init, NoDanglingThis, Posted
  <1>2. DataTypes /\ NoDanglingThis /\ [Next]_vars => NoDanglingThis'
    BY PostedStep
  <1>3. TypeOK => DataTypes
    BY DEF TypeOK
  <1> QED
    BY <1>1, <1>2, <1>3, TypeCorrect, PTL DEF Spec

=============================================================================
