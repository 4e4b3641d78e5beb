-------------------------- MODULE SentinelDiscovery --------------------------
(***************************************************************************)
(* AsyncSentinelDatabaseDiscovery: it asks a sentinel for the address of   *)
(* the master and subscribes to the notifications of failovers, over two   *)
(* connections.  The dispatchers of these are reduced to what the          *)
(* discovery uses: the connection, the stored acknowledgement, commands    *)
(* under way.  Masters are numbered in the order in which they become the  *)
(* master; a sentinel may also monitor another group of servers, or only   *)
(* that one.  Once the object is destroyed nothing runs: its engine goes   *)
(* with the storage.                                                       *)
(***************************************************************************)
EXTENDS Naturals, Sequences, Functions

CONSTANTS
    Monitoring, \* sets of the groups that a sentinel monitors; one is chosen
    MaxMaster,  \* bound: failovers, of either group
    MaxFaults   \* bound: lost connections, error replies, refused commands

\* The group with the configured master name is "own".
ASSUME MonitoringKnown == Monitoring \subseteq SUBSET {"own", "other"}

ASSUME BoundsNat == MaxMaster \in Nat \ {0} /\ MaxFaults \in Nat

\* The master of the other group, and no master.
OtherMaster == MaxMaster + 1
NoMaster == 0

\* The dispatchers subscriber and dispatcher of the discovery.
Links == {"subscriber", "dispatcher"}

VARIABLES
    monitored,
    stateChangedCb, \* unset, set, cleared; destroyed with the object
    aborted,        \* SHAREDDATALAYER_ABORT was called
    conn,           \* per link: "down", "up"
    connectAck,     \* per link: the dispatcher keeps an acknowledgement
    retryTimer,     \* per link: subscribeRetryTimer, masterInquiryRetryTimer
    posted,         \* the engine's posted callbacks, [link, what]
    sent,           \* per link: commands that the sentinel has not answered
    received,       \* per link: answers and messages, [kind, master]
    channelCb,      \* hiredis keeps a callback for the channel
    listening,      \* the sentinel has the subscription of this connection
    master,         \* the present master
    discovered,     \* the master last passed to stateChangedCb
    newest,         \* history: the newest own master ever passed to it
    faults

links == <<conn, connectAck, retryTimer, posted, sent, received, channelCb, listening>>
reports == <<discovered, newest>>
process == <<monitored, aborted>>
vars == <<process, stateChangedCb, links, master, reports, faults>>

Init ==
    /\ monitored \in Monitoring /\ aborted = FALSE
    /\ stateChangedCb = "unset"
    /\ conn = [l \in Links |-> "down"]
    /\ connectAck = [l \in Links |-> FALSE]
    /\ retryTimer = [l \in Links |-> FALSE]
    /\ posted = <<>>
    /\ sent = [l \in Links |-> 0]
    /\ received = [l \in Links |-> <<>>]
    /\ channelCb = FALSE /\ listening = FALSE
    /\ master = 1 /\ discovered = NoMaster /\ newest = NoMaster
    /\ faults = 0

Fault == faults < MaxFaults /\ faults' = faults + 1

-----------------------------------------------------------------------------
(* What the discovery does with its dispatchers.                            *)

Post(l, what) == posted' = Append(posted, [link |-> l, what |-> what])

waitConnectedAsync(l) ==
    /\ connectAck' = [connectAck EXCEPT ![l] = TRUE]
    /\ IF conn[l] = "up" THEN Post(l, "connectAck") ELSE UNCHANGED posted

Sent(l) ==
    /\ sent' = [sent EXCEPT ![l] = @ + 1]
    /\ channelCb' = (channelCb \/ l = "subscriber")

\* subscribeNotifications and sendMasterInquiry, on a dispatcher in this state:
\* the command is sent, or hiredis refuses it, or the dispatcher is not connected.
\* p is the queue of posted callbacks without the one that runs.
dispatchAsync(l, state, p) ==
    \/ state = "up" /\ Sent(l) /\ posted' = p /\ UNCHANGED faults
    \/ /\ IF state = "up" THEN Fault ELSE UNCHANGED faults
       /\ posted' = Append(p, [link |-> l, what |-> "error"])
       /\ UNCHANGED <<sent, channelCb>>

\* subscribeAck and masterInquiryAck with an error
retryLater(l) == retryTimer' = [retryTimer EXCEPT ![l] = TRUE]

report(m) ==
    IF stateChangedCb = "set"
    THEN /\ discovered' = m
         /\ newest' = IF newest < m /\ m # OtherMaster THEN m ELSE newest
    ELSE UNCHANGED reports

-----------------------------------------------------------------------------
(* Calls of the storage.                                                    *)

\* setStateChangedCb also registers the disconnect callback of the subscriber.
DisconnectCbRegistered == stateChangedCb # "unset"

setStateChangedCb ==
    /\ stateChangedCb = "unset"
    /\ stateChangedCb' = "set"
    /\ waitConnectedAsync("subscriber")
    /\ UNCHANGED <<process, conn, retryTimer, sent, received, channelCb, listening,
                   master, reports, faults>>

clearStateChangedCb ==
    /\ stateChangedCb = "set"
    /\ stateChangedCb' = "cleared"
    /\ UNCHANGED <<process, links, master, reports, faults>>

\* The callbacks of both dispatchers are disabled before they are destroyed.
destroy ==
    /\ stateChangedCb' = "destroyed"
    /\ UNCHANGED <<process, links, master, reports, faults>>

-----------------------------------------------------------------------------
(* The parsers.  What they cannot parse is NoMaster or no kind.             *)

\* A sentinel sends no third kind, with which the process would abort.
parseSubscribeReply(reply) ==
    IF reply.kind \in {"subscribe", "message"} THEN reply.kind ELSE "none"

\* The address is the last of the five words of the message; the first, the
\* name of the master, is not looked at.
parseNotificationMessage(reply) == reply.master

\* A sentinel answers with NIL when it does not know the name.
parseMasterInquiryReply(reply) ==
    IF reply.kind = "array" THEN reply.master ELSE NoMaster

-----------------------------------------------------------------------------
(* Events.                                                                  *)

\* Mutation: the acknowledgement is cleared but not called.
setConnectedSilently(l) ==
    /\ conn[l] = "down"
    /\ conn' = [conn EXCEPT ![l] = "up"]
    /\ connectAck' = [connectAck EXCEPT ![l] = FALSE]
    /\ UNCHANGED <<process, stateChangedCb, retryTimer, posted, sent, received, channelCb,
                   listening, master, reports, faults>>

\* The connection is up (a sentinel's is not verified); the acknowledgement is
\* called and cleared.
setConnected(l) ==
    /\ conn[l] = "down"
    /\ conn' = [conn EXCEPT ![l] = "up"]
    /\ connectAck' = [connectAck EXCEPT ![l] = FALSE]
    /\ \/ connectAck[l] /\ dispatchAsync(l, "up", posted)
       \/ ~connectAck[l] /\ UNCHANGED <<sent, channelCb, posted, faults>>
    /\ UNCHANGED <<process, stateChangedCb, retryTimer, received, listening, master, reports>>

\* hiredis answers what is under way with an error, then the dispatcher calls
\* the disconnect callback.
setDisconnected(l) ==
    /\ conn[l] = "up" /\ Fault
    /\ conn' = [conn EXCEPT ![l] = "down"]
    /\ sent' = [sent EXCEPT ![l] = 0]
    /\ received' = [received EXCEPT ![l] = <<>>]
    /\ \/ /\ l = "subscriber"
          /\ IF channelCb THEN retryLater(l) ELSE UNCHANGED retryTimer
          /\ connectAck' = [connectAck EXCEPT ![l] = @ \/ DisconnectCbRegistered]
          /\ channelCb' = FALSE /\ listening' = FALSE
       \/ /\ l = "dispatcher"
          /\ IF sent[l] > 0 \/ received[l] # <<>> THEN retryLater(l)
                                                  ELSE UNCHANGED retryTimer
          /\ UNCHANGED <<connectAck, channelCb, listening>>
    /\ UNCHANGED <<process, stateChangedCb, posted, master, reports>>

\* The stored acknowledgement stays stored when the posted copy is called.
executePosted ==
    /\ posted # <<>>
    /\ LET p == Head(posted)
       IN \/ /\ p.what = "connectAck"
             /\ dispatchAsync(p.link, conn[p.link], Tail(posted))
             /\ UNCHANGED retryTimer
          \/ /\ p.what = "error"
             /\ retryLater(p.link)
             /\ posted' = Tail(posted)
             /\ UNCHANGED <<sent, channelCb, faults>>
    /\ UNCHANGED <<process, stateChangedCb, conn, connectAck, received, listening, master,
                   reports>>

\* Mutation: the retry is forgotten when the connection is down.
retryIfUp(l) ==
    /\ retryTimer[l]
    /\ retryTimer' = [retryTimer EXCEPT ![l] = FALSE]
    /\ IF conn[l] = "up" THEN dispatchAsync(l, "up", posted)
                         ELSE UNCHANGED <<sent, channelCb, posted, faults>>
    /\ UNCHANGED <<process, stateChangedCb, conn, connectAck, received, listening, master,
                   reports>>

retry(l) ==
    /\ retryTimer[l]
    /\ retryTimer' = [retryTimer EXCEPT ![l] = FALSE]
    /\ dispatchAsync(l, conn[l], posted)
    /\ UNCHANGED <<process, stateChangedCb, conn, connectAck, received, listening, master,
                   reports>>

\* The reply that is next on a link, after the test for an error.
Arrived(l) == received[l] # <<>> /\ Head(received[l]).kind # "error"
Reply(l) == Head(received[l])

Consume(l) == received' = [received EXCEPT ![l] = Tail(@)]

\* Mutation: the reply to SUBSCRIBE triggers no inquiry.
subscribedOnly ==
    /\ Arrived("subscriber") /\ Consume("subscriber")
    /\ parseSubscribeReply(Reply("subscriber")) = "subscribe"
    /\ UNCHANGED <<process, stateChangedCb, conn, connectAck, posted, retryTimer, sent,
                   channelCb, listening, master, reports, faults>>

\* subscribeAck: the reply to SUBSCRIBE
subscribed ==
    /\ Arrived("subscriber") /\ Consume("subscriber")
    /\ parseSubscribeReply(Reply("subscriber")) = "subscribe"
    /\ waitConnectedAsync("dispatcher")
    /\ UNCHANGED <<process, stateChangedCb, conn, retryTimer, sent, channelCb, listening,
                   master, reports, faults>>

\* subscribeAck: a +switch-master message
notified ==
    /\ Arrived("subscriber") /\ Consume("subscriber")
    /\ parseSubscribeReply(Reply("subscriber")) = "message"
    /\ report(parseNotificationMessage(Reply("subscriber")))
    /\ UNCHANGED <<process, stateChangedCb, conn, connectAck, retryTimer, posted, sent,
                   channelCb, listening, master, faults>>

masterInquiryAck ==
    /\ Arrived("dispatcher") /\ Consume("dispatcher")
    /\ LET m == parseMasterInquiryReply(Reply("dispatcher"))
       IN \/ m # NoMaster /\ report(m) /\ UNCHANGED aborted
          \/ m = NoMaster /\ aborted' = TRUE /\ UNCHANGED reports
    /\ UNCHANGED <<monitored, stateChangedCb, conn, connectAck, retryTimer, posted, sent,
                   channelCb, listening, master, faults>>

errorAck(l) ==
    /\ received[l] # <<>> /\ ~Arrived(l) /\ Consume(l)
    /\ retryLater(l)
    /\ UNCHANGED <<process, stateChangedCb, conn, connectAck, posted, sent, channelCb,
                   listening, master, reports, faults>>

Receive == subscribed \/ notified \/ masterInquiryAck \/ \E l \in Links : errorAck(l)

-----------------------------------------------------------------------------
(* The sentinel.                                                            *)

Answer(l, kind) ==
    /\ sent[l] > 0
    /\ sent' = [sent EXCEPT ![l] = @ - 1]
    /\ received' = [received EXCEPT ![l] = Append(@, [kind |-> kind, master |-> master])]

\* The sentinel answers the command, or replies with an error.
SentinelAnswers(l) ==
    /\ \/ l = "subscriber" /\ Answer(l, "subscribe") /\ listening' = TRUE /\ UNCHANGED faults
       \/ /\ l = "dispatcher"
          /\ Answer(l, IF "own" \in monitored THEN "array" ELSE "nil")
          /\ UNCHANGED <<listening, faults>>
       \/ Answer(l, "error") /\ Fault /\ UNCHANGED listening
    /\ UNCHANGED <<process, stateChangedCb, conn, connectAck, retryTimer, posted, channelCb,
                   master, reports>>

\* All subscribers are told of a failover in every group; the message names it.
Notify(group, m) ==
    received' = IF listening /\ group \in monitored
                THEN [received EXCEPT !["subscriber"] =
                         Append(@, [kind |-> "message", master |-> m])]
                ELSE received

\* One message of the other group is enough to be under way.
Failover ==
    /\ \/ master < MaxMaster /\ master' = master + 1 /\ Notify("own", master')
       \/ /\ \A r \in Range(received["subscriber"]) : r.master # OtherMaster
          /\ discovered # OtherMaster
          /\ Notify("other", OtherMaster) /\ UNCHANGED master
    /\ UNCHANGED <<process, stateChangedCb, conn, connectAck, retryTimer, posted, sent,
                   channelCb, listening, reports, faults>>

Running == ~aborted /\ stateChangedCb # "destroyed"

Events ==
    \/ \E l \in Links : setConnected(l) \/ setDisconnected(l) \/ retry(l) \/ SentinelAnswers(l)
    \/ executePosted \/ Receive

Next ==
    /\ Running
    /\ setStateChangedCb \/ clearStateChangedCb \/ destroy \/ Events \/ Failover

Spec == Init /\ [][Next]_vars

\* The dispatchers connect once connections stop failing, timers expire, posted
\* callbacks run, the sentinel answers and what it sends is received.
FairSpec ==
    /\ Spec
    /\ WF_vars(Running /\ executePosted) /\ WF_vars(Running /\ Receive)
    /\ \A l \in Links :
        /\ WF_vars(Running /\ setConnected(l)) /\ WF_vars(Running /\ retry(l))
        /\ WF_vars(Running /\ SentinelAnswers(l))

-----------------------------------------------------------------------------
(* Properties.                                                              *)

\* The storage uses what it was told last of a sentinel that has its master.
Following == Running /\ stateChangedCb = "set" /\ "own" \in monitored

\* The last report was the answer to an inquiry that a notification overtook,
\* or the notification of a failover in the other group.
Misled == discovered < newest \/ discovered = OtherMaster

\* Something is under way on a link that makes it send its command (again).
Sending(l) ==
    \/ connectAck[l] /\ conn[l] = "down"
    \/ retryTimer[l] \/ sent[l] > 0
    \/ \E p \in Range(posted) : p.link = l
    \/ \E r \in Range(received[l]) : r.kind = "error"

Coming(l, kind, m) ==
    \E r \in Range(received[l]) : r.kind = kind /\ r.master = m

\* The discovery never settles on a wrong master: as long as the storage does
\* not have the present one, its subscription or its inquiry is under way, or
\* the answer that names the present master is.  The exceptions are an answer
\* that was overtaken by the notification of a failover, and a notification
\* about another group, whose name parseNotificationMessage does not compare.
NeverSettlesWrong ==
    Following =>
        \/ discovered = master \/ Misled
        \/ Sending("subscriber") \/ Sending("dispatcher")
        \/ \E m \in 1..MaxMaster : Coming("subscriber", "subscribe", m)
        \/ Coming("subscriber", "message", master) \/ Coming("dispatcher", "array", master)

\* While the sentinel's notifications can reach the discovery, none is missed;
\* while they cannot, a subscription is under way.
SubscriptionKept ==
    stateChangedCb \in {"set", "cleared"} => listening \/ Sending("subscriber")

\* Once failures and failovers stop, the storage has the present master, unless
\* the last report misled it.
CurrentUnlessMisled == <>[](Following => discovered = master \/ Misled)

\* "invoked whenever connection information changes": in the end the storage has
\* the present master.
CurrentMasterReported == <>[](Following => discovered = master)

=============================================================================
