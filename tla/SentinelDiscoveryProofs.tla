----------------------- MODULE SentinelDiscoveryProofs -----------------------
(***************************************************************************)
(* Proofs about SentinelDiscovery for any number of failovers and faults:  *)
(* the subscription is kept or being renewed, and the discovery never      *)
(* settles on a wrong master.                                              *)
(***************************************************************************)
EXTENDS SentinelDiscovery, TLAPS

\* More time than a leaf has by default.
USE SMTT(30), ZenonT(30)

Callbacks == [link : Links, what : {"connectAck", "error"}]
Replies == [kind : {"subscribe", "message", "array", "nil", "error"}, master : 1..OtherMaster]

Types ==
    /\ conn \in [Links -> {"down", "up"}]
    /\ connectAck \in [Links -> BOOLEAN] /\ retryTimer \in [Links -> BOOLEAN]
    /\ posted \in Seq(Callbacks)
    /\ sent \in [Links -> Nat]
    /\ received \in [Links -> Seq(Replies)]
    /\ master \in 1..MaxMaster
    /\ discovered \in 0..OtherMaster /\ newest \in 0..MaxMaster

\* Nothing is sent on a connection that is down.
LinkInv ==
    /\ \A l \in Links : conn[l] = "down" => sent[l] = 0
    /\ conn["subscriber"] = "down" => ~listening

\* Reports are about masters that there have been.
ReportInv ==
    /\ newest <= master
    /\ discovered <= newest \/ discovered = OtherMaster
    /\ \A l \in Links : \A r \in Range(received[l]) :
          r.master <= master \/ r.master = OtherMaster

Pursued ==
    \/ Sending("subscriber") \/ Sending("dispatcher")
    \/ \E m \in 1..MaxMaster : Coming("subscriber", "subscribe", m)
    \/ Coming("subscriber", "message", master) \/ Coming("dispatcher", "array", master)

\* The present master was reported, or what will report it is under way.  Unlike
\* the last report, the newest one is never taken back.
PursuitInv == Following => Pursued \/ newest = master

IInv == Types /\ LinkInv /\ ReportInv /\ SubscriptionKept /\ PursuitInv

-----------------------------------------------------------------------------
(* Sequences as sets.                                                       *)

LEMMA RangeEmpty == Range(<<>>) = {}
  BY DEF Range

LEMMA RangeAppend ==
    ASSUME NEW S, NEW s \in Seq(S), NEW e \in S
    PROVE  Append(s, e) \in Seq(S) /\ Range(Append(s, e)) = Range(s) \cup {e}
  <1>1. /\ Append(s, e) \in Seq(S) /\ Len(Append(s, e)) = Len(s) + 1
        /\ \A i \in 1..Len(s) : Append(s, e)[i] = s[i]
        /\ Append(s, e)[Len(s) + 1] = e
    OBVIOUS
  <1>2. DOMAIN s = 1..Len(s) /\ Len(s) \in Nat
    OBVIOUS
  <1>3. DOMAIN Append(s, e) = 1..(Len(s) + 1)
    BY <1>1
  <1> QED
    BY <1>1, <1>2, <1>3 DEF Range

LEMMA RangeTail ==
    ASSUME NEW S, NEW s \in Seq(S), s # <<>>
    PROVE  /\ Tail(s) \in Seq(S) /\ Head(s) \in S
           /\ Range(s) = Range(Tail(s)) \cup {Head(s)}
  <1>1. Len(s) \in Nat \ {0} /\ DOMAIN s = 1..Len(s)
    OBVIOUS
  <1>2. /\ Tail(s) \in Seq(S) /\ Len(Tail(s)) = Len(s) - 1
        /\ \A i \in 1..Len(Tail(s)) : Tail(s)[i] = s[i + 1]
    BY <1>1
  <1>3. Head(s) = s[1] /\ Head(s) \in S
    BY <1>1
  <1>4. DOMAIN Tail(s) = 1..Len(Tail(s))
    BY <1>2
  <1>5. \A i \in DOMAIN s : i = 1 \/ (i - 1 \in DOMAIN Tail(s) /\ s[i] = Tail(s)[i - 1])
    BY <1>1, <1>2, <1>4
  <1>6. \A i \in DOMAIN Tail(s) : i + 1 \in DOMAIN s /\ Tail(s)[i] = s[i + 1]
    BY <1>1, <1>2, <1>4
  <1>7. 1 \in DOMAIN s
    BY <1>1
  <1> QED
    BY <1>2, <1>3, <1>5, <1>6, <1>7 DEF Range

-----------------------------------------------------------------------------
(* Steps that several actions share.                                        *)

\* A command on its way, or an error that will make it be sent again.
LEMMA Dispatched ==
    ASSUME Types, NEW l \in Links, NEW state \in {"down", "up"}, NEW p \in Seq(Callbacks),
           dispatchAsync(l, state, p)
    PROVE  /\ sent' \in [Links -> Nat] /\ posted' \in Seq(Callbacks)
           /\ Range(p) \subseteq Range(posted')
           /\ sent'[l] > 0 \/ \E q \in Range(posted') : q.link = l
           /\ \A k \in Links : sent'[k] >= sent[k]
           /\ \A k \in Links : k # l \/ state = "down" => sent'[k] = sent[k]
  <1> DEFINE error == [link |-> l, what |-> "error"]
  <1>1. error \in Callbacks
    BY DEF Callbacks
  <1>2. /\ Append(p, error) \in Seq(Callbacks)
        /\ Range(Append(p, error)) = Range(p) \cup {error}
    BY <1>1, RangeAppend
  <1>3. CASE state = "up" /\ Sent(l) /\ posted' = p
    BY <1>3 DEF Sent, Types
  <1>4. CASE posted' = Append(p, error) /\ UNCHANGED <<sent, channelCb>>
    BY <1>2, <1>4 DEF Types
  <1> QED
    BY <1>3, <1>4 DEF dispatchAsync

\* The inquiry or the subscription will be sent, when the link is up.
LEMMA Awaited ==
    ASSUME Types, NEW l \in Links, waitConnectedAsync(l)
    PROVE  /\ connectAck' \in [Links -> BOOLEAN] /\ posted' \in Seq(Callbacks)
           /\ Range(posted) \subseteq Range(posted')
           /\ conn[l] = "up" => \E q \in Range(posted') : q.link = l
           /\ connectAck'[l]
           /\ \A k \in Links : connectAck[k] => connectAck'[k]
  <1> DEFINE ack == [link |-> l, what |-> "connectAck"]
  <1>1. ack \in Callbacks
    BY DEF Callbacks
  <1>2. /\ Append(posted, ack) \in Seq(Callbacks)
        /\ Range(Append(posted, ack)) = Range(posted) \cup {ack}
    BY <1>1, RangeAppend DEF Types
  <1>3. /\ connectAck' \in [Links -> BOOLEAN] /\ connectAck'[l]
        /\ \A k \in Links : connectAck[k] => connectAck'[k]
    BY DEF waitConnectedAsync, Types
  <1>4. CASE conn[l] = "up"
    <2>1. posted' = Append(posted, ack)
      BY <1>4 DEF waitConnectedAsync, Post
    <2>2. ack \in Range(posted') /\ ack.link = l
      BY <1>2, <2>1
    <2> QED
      BY <1>2, <1>3, <2>1, <2>2
  <1>5. CASE conn[l] # "up"
    BY <1>3, <1>5 DEF waitConnectedAsync, Types
  <1> QED
    BY <1>4, <1>5

\* The next reply of a link is taken.
LEMMA Consumed ==
    ASSUME Types, NEW l \in Links, received[l] # <<>>, Consume(l)
    PROVE  /\ received' \in [Links -> Seq(Replies)] /\ Head(received[l]) \in Replies
           /\ Range(received[l]) = Range(received'[l]) \cup {Head(received[l])}
           /\ \A k \in Links : k # l => received'[k] = received[k]
  BY RangeTail DEF Consume, Types

-----------------------------------------------------------------------------
(* Every action keeps the invariant.                                        *)

LEMMA InitIInv == Init => IInv
  <1> SUFFICES ASSUME Init PROVE IInv
    OBVIOUS
  <1>1. Types
    BY BoundsNat DEF Init, Types, OtherMaster, NoMaster
  <1>2. LinkInv
    BY DEF Init, LinkInv
  <1>3. ReportInv
    BY RangeEmpty DEF Init, ReportInv, NoMaster, Links
  <1> QED
    BY <1>1, <1>2, <1>3 DEF Init, IInv, SubscriptionKept, PursuitInv, Following

LEMMA SetStateChangedCbKeepsIInv == IInv /\ setStateChangedCb => IInv'
  <1> SUFFICES ASSUME IInv, setStateChangedCb PROVE IInv'
    OBVIOUS
  <1> USE DEF IInv
  <1>1. "subscriber" \in Links /\ waitConnectedAsync("subscriber")
    BY DEF Links, setStateChangedCb
  <1>2. Types'
    BY <1>1, Awaited DEF Types, setStateChangedCb, reports
  <1>3. LinkInv'
    BY DEF LinkInv, setStateChangedCb
  <1>4. ReportInv'
    BY DEF ReportInv, setStateChangedCb, reports
  <1>5. Sending("subscriber")'
    BY <1>1, Awaited DEF Sending, Types, setStateChangedCb
  <1> QED
    BY <1>2, <1>3, <1>4, <1>5 DEF SubscriptionKept, PursuitInv, Pursued

LEMMA CallKeepsIInv == IInv /\ (clearStateChangedCb \/ destroy) => IInv'
  <1> SUFFICES ASSUME IInv, clearStateChangedCb \/ destroy PROVE IInv'
    OBVIOUS
  <1>1. UNCHANGED <<process, links, master, reports, faults>>
    BY DEF clearStateChangedCb, destroy
  <1>2. stateChangedCb' \in {"cleared", "destroyed"}
        /\ (stateChangedCb' = "cleared" => stateChangedCb = "set")
    BY DEF clearStateChangedCb, destroy
  <1>3. Types' /\ LinkInv' /\ ReportInv'
    BY <1>1 DEF IInv, Types, LinkInv, ReportInv, links, reports
  <1>4. SubscriptionKept'
    BY <1>1, <1>2 DEF IInv, SubscriptionKept, Sending, links
  <1>5. PursuitInv'
    BY <1>2 DEF PursuitInv, Following
  <1> QED
    BY <1>3, <1>4, <1>5 DEF IInv

\* A step on the links that leaves the reports alone, and after which whatever
\* pursued the master still does.
LEMMA StepOfLinks ==
    ASSUME IInv, Types', UNCHANGED <<monitored, stateChangedCb, aborted, master, reports>>,
           LinkInv', ReportInv', SubscriptionKept', Pursued => Pursued'
    PROVE  IInv'
  BY DEF IInv, PursuitInv, Following, Running, reports

LEMMA SetConnectedKeepsIInv ==
    ASSUME IInv, NEW l \in Links, setConnected(l)
    PROVE  IInv'
  <1> USE DEF IInv
  <1>1. /\ conn[l] = "down" /\ conn' = [conn EXCEPT ![l] = "up"]
        /\ connectAck' = [connectAck EXCEPT ![l] = FALSE]
        /\ UNCHANGED <<process, stateChangedCb, retryTimer, received, listening, master,
                       reports>>
    BY DEF setConnected
  <1>2. /\ sent' \in [Links -> Nat] /\ posted' \in Seq(Callbacks)
        /\ Range(posted) \subseteq Range(posted')
        /\ connectAck[l] => sent'[l] > 0 \/ \E q \in Range(posted') : q.link = l
        /\ \A k \in Links : sent'[k] >= sent[k] /\ (k # l => sent'[k] = sent[k])
    <2>1. CASE connectAck[l] /\ dispatchAsync(l, "up", posted)
      BY <2>1, Dispatched DEF Types
    <2>2. CASE ~connectAck[l] /\ UNCHANGED <<sent, channelCb, posted, faults>>
      BY <2>2 DEF Types
    <2> QED
      BY <2>1, <2>2 DEF setConnected
  <1>3. Types'
    BY ZenonT(30), <1>1, <1>2 DEF Types, reports
  <1>4. LinkInv'
    BY <1>1, <1>2 DEF Types, LinkInv
  <1>5. ReportInv'
    BY <1>1 DEF ReportInv, reports
  <1>6. ASSUME NEW k \in Links, Sending(k) PROVE Sending(k)'
    <2>1. CASE k = l /\ connectAck[l]
      <3>1. CASE sent'[l] > 0
        BY <2>1, <3>1 DEF Sending
      <3>2. CASE \E q \in Range(posted') : q.link = l
        BY <2>1, <3>2 DEF Sending
      <3> QED
        BY <1>2, <2>1, <3>1, <3>2
    <2>2. CASE k = l /\ ~connectAck[l]
      <3>1. sent[l] > 0 => sent'[l] > 0
        BY <1>2 DEF Types
      <3> QED
        BY <1>1, <1>2, <1>6, <2>2, <3>1 DEF Sending
    <2>3. CASE k # l
      <3>1. conn'[k] = conn[k] /\ connectAck'[k] = connectAck[k] /\ sent'[k] = sent[k]
        BY <1>1, <1>2, <2>3 DEF Types
      <3> QED
        BY <1>1, <1>2, <1>6, <3>1 DEF Sending
    <2> QED
      BY <2>1, <2>2, <2>3
  <1>7. SubscriptionKept'
    BY <1>1, <1>6 DEF SubscriptionKept, Links
  <1>8. Pursued => Pursued'
    BY <1>1, <1>6 DEF Pursued, Coming, Links
  <1> QED
    BY <1>1, <1>3, <1>4, <1>5, <1>7, <1>8, StepOfLinks DEF process

LEMMA RetryKeepsIInv ==
    ASSUME IInv, NEW l \in Links, retry(l)
    PROVE  IInv'
  <1> USE DEF IInv
  <1>1. /\ retryTimer' = [retryTimer EXCEPT ![l] = FALSE]
        /\ dispatchAsync(l, conn[l], posted)
        /\ UNCHANGED <<process, stateChangedCb, conn, connectAck, received, listening,
                       master, reports>>
    BY DEF retry
  <1>2. /\ sent' \in [Links -> Nat] /\ posted' \in Seq(Callbacks)
        /\ Range(posted) \subseteq Range(posted')
        /\ sent'[l] > 0 \/ \E q \in Range(posted') : q.link = l
        /\ \A k \in Links : sent'[k] >= sent[k]
        /\ \A k \in Links : k # l \/ conn[l] = "down" => sent'[k] = sent[k]
    BY <1>1, Dispatched DEF Types
  <1>3. Types'
    BY ZenonT(30), <1>1, <1>2 DEF Types, reports
  <1>4. LinkInv'
    BY <1>1, <1>2 DEF Types, LinkInv
  <1>5. ReportInv'
    BY <1>1 DEF ReportInv, reports
  <1>6. \A k \in Links : Sending(k) => Sending(k)'
    BY <1>1, <1>2 DEF Types, Sending
  <1>7. SubscriptionKept'
    BY <1>1, <1>6 DEF SubscriptionKept, Links
  <1>8. Pursued => Pursued'
    BY <1>1, <1>6 DEF Pursued, Coming, Links
  <1> QED
    BY <1>1, <1>3, <1>4, <1>5, <1>7, <1>8, StepOfLinks DEF process

LEMMA ExecutePostedKeepsIInv == IInv /\ executePosted => IInv'
  <1> SUFFICES ASSUME IInv, executePosted PROVE IInv'
    OBVIOUS
  <1> USE DEF IInv
  <1> DEFINE p == Head(posted)
             l == p.link
  <1>1. /\ Tail(posted) \in Seq(Callbacks) /\ p \in Callbacks
        /\ Range(posted) = Range(Tail(posted)) \cup {p}
    BY RangeTail DEF Types, executePosted
  <1>2. l \in Links
    BY <1>1 DEF Callbacks
  <1>3. UNCHANGED <<process, stateChangedCb, conn, connectAck, received, listening, master,
                    reports>>
    BY DEF executePosted
  <1>4. /\ sent' \in [Links -> Nat] /\ posted' \in Seq(Callbacks)
        /\ retryTimer' \in [Links -> BOOLEAN]
        /\ Range(Tail(posted)) \subseteq Range(posted')
        /\ retryTimer'[l] \/ sent'[l] > 0 \/ \E q \in Range(posted') : q.link = l
        /\ \A k \in Links : retryTimer[k] => retryTimer'[k]
        /\ \A k \in Links : sent'[k] >= sent[k]
        /\ \A k \in Links : k # l \/ conn[l] = "down" => sent'[k] = sent[k]
    <2>1. CASE p.what = "connectAck" /\ dispatchAsync(l, conn[l], Tail(posted))
               /\ UNCHANGED retryTimer
      <3>1. conn[l] \in {"down", "up"}
        BY <1>2 DEF Types
      <3> HIDE DEF l
      <3>2. /\ sent' \in [Links -> Nat] /\ posted' \in Seq(Callbacks)
            /\ Range(Tail(posted)) \subseteq Range(posted')
            /\ sent'[l] > 0 \/ \E q \in Range(posted') : q.link = l
            /\ \A k \in Links : sent'[k] >= sent[k]
            /\ \A k \in Links : k # l \/ conn[l] = "down" => sent'[k] = sent[k]
        BY ZenonT(30), <1>1, <1>2, <2>1, <3>1, Dispatched
      <3> QED
        BY <2>1, <3>2 DEF Types
    <2>2. CASE retryLater(l) /\ posted' = Tail(posted) /\ UNCHANGED sent
      <3> HIDE DEF l
      <3> QED
        BY <1>1, <1>2, <2>2 DEF Types, retryLater
    <2> QED
      BY <2>1, <2>2 DEF executePosted
  <1> HIDE DEF l
  <1>5. Types'
    BY <1>3, <1>4 DEF Types, reports
  <1>6. LinkInv'
    BY <1>2, <1>3, <1>4 DEF Types, LinkInv
  <1>7. ReportInv'
    BY <1>3 DEF ReportInv, reports
  <1>8. \A k \in Links : Sending(k) => Sending(k)'
    BY <1>1, <1>2, <1>3, <1>4 DEF Types, Sending, l
  <1>9. SubscriptionKept'
    BY <1>3, <1>8 DEF SubscriptionKept, Links
  <1>10. Pursued => Pursued'
    BY <1>3, <1>8 DEF Pursued, Coming, Links
  <1> QED
    BY <1>3, <1>5, <1>6, <1>7, <1>9, <1>10, StepOfLinks DEF process

LEMMA SentinelAnswersKeepsIInv ==
    ASSUME IInv, NEW l \in Links, SentinelAnswers(l)
    PROVE  IInv'
  <1> USE DEF IInv
  <1>1. UNCHANGED <<process, stateChangedCb, conn, connectAck, retryTimer, posted, channelCb,
                    master, reports>>
    BY DEF SentinelAnswers
  <1>2. PICK kind \in {"subscribe", "array", "nil", "error"} :
           /\ Answer(l, kind)
           /\ listening' = listening \/ (l = "subscriber" /\ listening' = TRUE)
           /\ \/ kind = "error" /\ UNCHANGED listening
              \/ l = "subscriber" /\ kind = "subscribe" /\ listening' = TRUE
              \/ l = "dispatcher" /\ kind = "array"
              \/ l = "dispatcher" /\ "own" \notin monitored
    <2>1. CASE l = "subscriber" /\ Answer(l, "subscribe") /\ listening' = TRUE
      BY ZenonT(30), <2>1
    <2>2. CASE l = "dispatcher" /\ Answer(l, IF "own" \in monitored THEN "array" ELSE "nil")
               /\ UNCHANGED listening
      BY <2>2
    <2>3. CASE Answer(l, "error") /\ UNCHANGED listening
      BY <2>3
    <2> QED
      BY <2>1, <2>2, <2>3 DEF SentinelAnswers
  <1> DEFINE reply == [kind |-> kind, master |-> master]
  <1>3. reply \in Replies /\ reply.kind = kind /\ reply.master = master
    BY BoundsNat DEF Replies, Types, OtherMaster
  <1>4. /\ Append(received[l], reply) \in Seq(Replies)
        /\ Range(Append(received[l], reply)) = Range(received[l]) \cup {reply}
    BY <1>3, RangeAppend DEF Types
  <1>5. /\ sent[l] > 0 /\ sent' = [sent EXCEPT ![l] = @ - 1]
        /\ received' = [received EXCEPT ![l] = Append(@, reply)]
    BY <1>2 DEF Answer
  <1> HIDE DEF reply
  <1>6. Types'
    BY <1>1, <1>4, <1>5 DEF Types, reports
  <1>7. /\ Range(received'[l]) = Range(received[l]) \cup {reply}
        /\ \A k \in Links : k # l => received'[k] = received[k] /\ sent'[k] = sent[k]
    BY <1>4, <1>5 DEF Types
  <1>8. LinkInv'
    <2>1. conn[l] # "down"
      BY <1>5 DEF LinkInv
    <2>2. \A k \in Links : conn'[k] = "down" => sent'[k] = 0
      BY <1>1, <1>7, <2>1 DEF LinkInv
    <2>3. conn'["subscriber"] = "down" => ~listening'
      BY <1>1, <1>2, <2>1 DEF LinkInv
    <2> QED
      BY <2>2, <2>3 DEF LinkInv
  <1>9. ReportInv'
    <2>1. ASSUME NEW k \in Links, NEW r \in Range(received'[k])
          PROVE  r.master <= master \/ r.master = OtherMaster
      <3>1. CASE r = reply
        BY <1>3, <3>1 DEF Types
      <3>2. CASE r \in Range(received[k])
        BY <3>2 DEF ReportInv
      <3> QED
        BY <1>7, <3>1, <3>2
    <2> QED
      BY <1>1, <2>1 DEF ReportInv, reports
  <1>10. ASSUME NEW k \in Links, Sending(k), k # l \/ kind = "error" PROVE Sending(k)'
    <2>1. CASE k = l
      BY <1>3, <1>7, <1>10, <2>1 DEF Sending
    <2>2. CASE k # l
      BY <1>1, <1>7, <1>10, <2>2 DEF Sending
    <2> QED
      BY <2>1, <2>2
  <1>11. SubscriptionKept'
    <2>1. CASE listening'
      BY <2>1 DEF SubscriptionKept
    <2>2. CASE UNCHANGED listening /\ (l # "subscriber" \/ kind = "error")
      BY <1>1, <1>10, <2>2 DEF SubscriptionKept, Links
    <2> QED
      BY <1>2, <2>1, <2>2
  <1>12. Following' => Pursued'
    <2>1. CASE kind = "error"
      BY <1>3, <1>7, <2>1 DEF Sending, Pursued, Links
    <2>2. CASE l = "subscriber" /\ kind = "subscribe"
      <3>1. reply \in Range(received'["subscriber"]) /\ master \in 1..MaxMaster
        BY <1>7, <2>2 DEF Types
      <3> QED
        BY <1>3, <2>2, <3>1 DEF Coming, Pursued
    <2>3. CASE l = "dispatcher" /\ kind = "array"
      BY <1>1, <1>3, <1>7, <2>3 DEF Coming, Pursued
    <2>4. CASE "own" \notin monitored
      BY <1>1, <2>4 DEF Following, process
    <2> QED
      BY <1>2, <2>1, <2>2, <2>3, <2>4
  <1> QED
    BY <1>6, <1>8, <1>9, <1>11, <1>12 DEF PursuitInv

LEMMA SetDisconnectedKeepsIInv ==
    ASSUME IInv, NEW l \in Links, setDisconnected(l)
    PROVE  IInv'
  <1> USE DEF IInv
  <1>1. /\ conn[l] = "up" /\ conn' = [conn EXCEPT ![l] = "down"]
        /\ sent' = [sent EXCEPT ![l] = 0] /\ received' = [received EXCEPT ![l] = <<>>]
        /\ UNCHANGED <<process, stateChangedCb, posted, master, reports>>
    BY DEF setDisconnected
  <1>2. \/ /\ l = "subscriber" /\ ~listening'
           /\ retryTimer' \in {retryTimer, [retryTimer EXCEPT ![l] = TRUE]}
           /\ connectAck' = [connectAck EXCEPT ![l] = @ \/ stateChangedCb # "unset"]
        \/ /\ l = "dispatcher" /\ UNCHANGED <<connectAck, listening>>
           /\ retryTimer' = IF sent[l] > 0 \/ received[l] # <<>>
                            THEN [retryTimer EXCEPT ![l] = TRUE] ELSE retryTimer
    BY DEF setDisconnected, retryLater, DisconnectCbRegistered
  <1>3. Types'
    <2>1. retryTimer' \in [Links -> BOOLEAN]
      BY ZenonT(30), <1>2 DEF Types
    <2>2. connectAck' \in [Links -> BOOLEAN]
      BY ZenonT(30), <1>2 DEF Types
    <2>3. sent' \in [Links -> Nat] /\ received' \in [Links -> Seq(Replies)]
          /\ conn' \in [Links -> {"down", "up"}]
      BY <1>1 DEF Types
    <2> QED
      BY <1>1, <2>1, <2>2, <2>3 DEF Types, reports
  <1>4. LinkInv'
    BY <1>1, <1>2 DEF LinkInv, Types, Links
  <1>5. Range(received'[l]) = {} /\ \A k \in Links : k # l => received'[k] = received[k]
    BY <1>1, RangeEmpty DEF Types
  <1>6. ReportInv'
    BY <1>1, <1>5 DEF ReportInv, reports
  <1>7. CASE l = "subscriber"
    <2>1. stateChangedCb # "unset" => Sending("subscriber")'
      BY ZenonT(30), <1>1, <1>2, <1>7 DEF Sending, Types
    <2>2. SubscriptionKept' /\ PursuitInv'
      BY <1>1, <2>1 DEF SubscriptionKept, PursuitInv, Following, Pursued
    <2> QED
      BY <1>3, <1>4, <1>6, <2>2
  <1>8. CASE l = "dispatcher"
    <2>1. /\ conn'["subscriber"] = conn["subscriber"]
          /\ sent'["subscriber"] = sent["subscriber"]
          /\ retryTimer'["subscriber"] = retryTimer["subscriber"]
          /\ received'["subscriber"] = received["subscriber"]
          /\ UNCHANGED <<connectAck, listening>>
      BY <1>1, <1>2, <1>8 DEF Types, Links
    <2>2. Sending("subscriber") => Sending("subscriber")'
      BY <1>1, <2>1 DEF Sending
    <2>3. SubscriptionKept'
      BY <1>1, <2>1, <2>2 DEF SubscriptionKept
    <2>4. Sending("dispatcher") \/ Coming("dispatcher", "array", master)
          => Sending("dispatcher")'
      <3>1. CASE sent[l] > 0 \/ received[l] # <<>>
        BY <1>2, <1>8, <3>1 DEF Sending, Types, Links
      <3>2. CASE ~(sent[l] > 0 \/ received[l] # <<>>)
        <4>1. Range(received[l]) = {} /\ UNCHANGED <<retryTimer, connectAck, posted>>
          BY <1>1, <1>2, <1>8, <3>2, RangeEmpty
        <4>2. ~Coming("dispatcher", "array", master) /\ conn["dispatcher"] = "up"
          BY <1>1, <1>8, <4>1 DEF Coming
        <4> QED
          BY <1>8, <3>2, <4>1, <4>2 DEF Sending
      <3> QED
        BY <3>1, <3>2
    <2>5. Pursued => Pursued'
      BY <1>1, <2>1, <2>2, <2>4 DEF Pursued, Coming
    <2> QED
      BY <1>1, <1>3, <1>4, <1>6, <2>3, <2>5, StepOfLinks DEF process
  <1> QED
    BY <1>7, <1>8 DEF Links

LEMMA SubscribedKeepsIInv == IInv /\ subscribed => IInv'
  <1> SUFFICES ASSUME IInv, subscribed PROVE IInv'
    OBVIOUS
  <1> USE DEF IInv
  <1>1. /\ "subscriber" \in Links /\ "dispatcher" \in Links
        /\ received["subscriber"] # <<>> /\ Consume("subscriber")
        /\ waitConnectedAsync("dispatcher") /\ Reply("subscriber").kind # "error"
        /\ UNCHANGED <<process, stateChangedCb, conn, retryTimer, sent, channelCb, listening,
                       master, reports, faults>>
    BY DEF subscribed, Arrived, Reply, Links
  <1>2. /\ connectAck' \in [Links -> BOOLEAN] /\ posted' \in Seq(Callbacks)
        /\ Range(posted) \subseteq Range(posted')
        /\ conn["dispatcher"] = "up" => \E q \in Range(posted') : q.link = "dispatcher"
        /\ connectAck'["dispatcher"]
        /\ \A k \in Links : connectAck[k] => connectAck'[k]
    BY <1>1, Awaited
  <1>3. /\ received' \in [Links -> Seq(Replies)]
        /\ Range(received["subscriber"])
             = Range(received'["subscriber"]) \cup {Reply("subscriber")}
        /\ \A k \in Links : k # "subscriber" => received'[k] = received[k]
    BY ZenonT(30), <1>1, Consumed DEF Reply
  <1>4. Types'
    BY <1>1, <1>2, <1>3 DEF Types, reports
  <1>5. LinkInv'
    BY <1>1 DEF LinkInv
  <1>6. ReportInv'
    <2>1. \A k \in Links : Range(received'[k]) \subseteq Range(received[k])
      BY ZenonT(30), <1>3
    <2> QED
      BY <1>1, <2>1 DEF ReportInv, reports
  <1>7. Sending("subscriber") => Sending("subscriber")'
    BY <1>1, <1>2, <1>3 DEF Sending
  <1>8. SubscriptionKept'
    BY <1>1, <1>7 DEF SubscriptionKept
  <1>9. Sending("dispatcher")'
    <2>1. CASE conn["dispatcher"] = "up"
      BY <1>2, <2>1 DEF Sending
    <2>2. CASE conn["dispatcher"] = "down"
      BY <1>1, <1>2, <2>2 DEF Sending
    <2> QED
      BY <1>1, <2>1, <2>2 DEF Types
  <1> QED
    BY <1>4, <1>5, <1>6, <1>8, <1>9 DEF PursuitInv, Pursued

\* What a report does: the newest one becomes the present master, if it is it.
LEMMA Reported ==
    ASSUME Types, ReportInv, NEW m \in 1..OtherMaster, m <= master \/ m = OtherMaster,
           report(m)
    PROVE  /\ discovered' \in 0..OtherMaster /\ newest' \in 0..MaxMaster
           /\ newest <= newest' /\ newest' <= master
           /\ discovered' <= newest' \/ discovered' = OtherMaster
           /\ stateChangedCb = "set" /\ m = master => newest' = master
  <1>1. CASE stateChangedCb = "set"
    BY <1>1, BoundsNat DEF Types, ReportInv, report, OtherMaster
  <1>2. CASE stateChangedCb # "set"
    BY <1>2, BoundsNat DEF Types, ReportInv, report, reports, OtherMaster
  <1> QED
    BY <1>1, <1>2

LEMMA NotifiedKeepsIInv == IInv /\ notified => IInv'
  <1> SUFFICES ASSUME IInv, notified PROVE IInv'
    OBVIOUS
  <1> USE DEF IInv
  <1> DEFINE reply == Reply("subscriber")
  <1>1. /\ "subscriber" \in Links /\ "dispatcher" \in Links
        /\ received["subscriber"] # <<>> /\ Consume("subscriber")
        /\ reply.kind = "message" /\ report(reply.master)
        /\ UNCHANGED <<process, stateChangedCb, conn, connectAck, retryTimer, posted, sent,
                       channelCb, listening, master, faults>>
    BY DEF notified, Arrived, Links, parseSubscribeReply, parseNotificationMessage
  <1>2. /\ received' \in [Links -> Seq(Replies)] /\ reply \in Replies
        /\ Range(received["subscriber"]) = Range(received'["subscriber"]) \cup {reply}
        /\ \A k \in Links : k # "subscriber" => received'[k] = received[k]
    BY ZenonT(30), <1>1, Consumed DEF Reply
  <1> HIDE DEF reply
  <1>3. /\ reply.master \in 1..OtherMaster
        /\ reply.master <= master \/ reply.master = OtherMaster
    BY <1>1, <1>2 DEF ReportInv, Replies
  <1>4. /\ discovered' \in 0..OtherMaster /\ newest' \in 0..MaxMaster
        /\ newest <= newest' /\ newest' <= master
        /\ discovered' <= newest' \/ discovered' = OtherMaster
        /\ stateChangedCb = "set" /\ reply.master = master => newest' = master
    BY <1>1, <1>3, Reported
  <1>5. Types'
    BY <1>1, <1>2, <1>4 DEF Types
  <1>6. LinkInv'
    BY <1>1 DEF LinkInv
  <1>7. ReportInv'
    <2>1. \A k \in Links : Range(received'[k]) \subseteq Range(received[k])
      BY ZenonT(30), <1>2
    <2> QED
      BY <1>1, <1>4, <2>1 DEF ReportInv
  <1>8. \A k \in Links : Sending(k) => Sending(k)'
    BY <1>1, <1>2 DEF Sending
  <1>9. SubscriptionKept'
    BY <1>1, <1>8 DEF SubscriptionKept
  <1>10. PursuitInv'
    <2> SUFFICES ASSUME Following', ~Pursued' PROVE newest' = master
      BY <1>1 DEF PursuitInv
    <2>1. Following /\ stateChangedCb = "set"
      BY <1>1 DEF Following, Running, process
    <2>2. CASE newest = master
      BY <1>4, <2>2 DEF Types
    <2>3. CASE Pursued
      <3>1. Coming("subscriber", "message", master)
        BY <1>1, <1>2, <1>8, <2>3 DEF Pursued, Coming
      <3>2. reply.master = master
        BY <1>1, <1>2, <3>1 DEF Pursued, Coming
      <3> QED
        BY <1>4, <2>1, <3>2
    <2> QED
      BY <2>1, <2>2, <2>3 DEF PursuitInv
  <1> QED
    BY <1>5, <1>6, <1>7, <1>9, <1>10

LEMMA MasterInquiryAckKeepsIInv == IInv /\ masterInquiryAck => IInv'
  <1> SUFFICES ASSUME IInv, masterInquiryAck PROVE IInv'
    OBVIOUS
  <1> USE DEF IInv
  <1> DEFINE reply == Reply("dispatcher")
  <1>1. /\ "subscriber" \in Links /\ "dispatcher" \in Links
        /\ received["dispatcher"] # <<>> /\ Consume("dispatcher")
        /\ reply.kind # "error"
        /\ UNCHANGED <<monitored, stateChangedCb, conn, connectAck, retryTimer, posted, sent,
                       channelCb, listening, master, faults>>
    BY DEF masterInquiryAck, Arrived, Reply, Links
  <1>2. /\ received' \in [Links -> Seq(Replies)] /\ reply \in Replies
        /\ Range(received["dispatcher"]) = Range(received'["dispatcher"]) \cup {reply}
        /\ \A k \in Links : k # "dispatcher" => received'[k] = received[k]
    BY ZenonT(30), <1>1, Consumed DEF Reply
  <1>3. \/ reply.kind = "array" /\ report(reply.master) /\ UNCHANGED aborted
        \/ aborted' = TRUE /\ UNCHANGED reports
    BY <1>2 DEF masterInquiryAck, parseMasterInquiryReply, NoMaster, Replies
  <1> HIDE DEF reply
  <1>4. /\ reply.master \in 1..OtherMaster
        /\ reply.master <= master \/ reply.master = OtherMaster
    BY <1>1, <1>2 DEF ReportInv, Replies
  <1>5. /\ discovered' \in 0..OtherMaster /\ newest' \in 0..MaxMaster
        /\ newest <= newest' /\ newest' <= master
        /\ discovered' <= newest' \/ discovered' = OtherMaster
        /\ \/ aborted' = TRUE
           \/ /\ reply.kind = "array" /\ UNCHANGED aborted
              /\ stateChangedCb = "set" /\ reply.master = master => newest' = master
    <2>1. CASE reply.kind = "array" /\ report(reply.master) /\ UNCHANGED aborted
      BY <1>4, <2>1, Reported
    <2>2. CASE aborted' = TRUE /\ UNCHANGED reports
      BY <2>2, BoundsNat DEF reports, ReportInv, Types
    <2> QED
      BY ZenonT(30), <1>3, <2>1, <2>2
  <1>6. Types'
    BY <1>1, <1>2, <1>5 DEF Types
  <1>7. LinkInv'
    BY <1>1 DEF LinkInv
  <1>8. ReportInv'
    <2>1. \A k \in Links : Range(received'[k]) \subseteq Range(received[k])
      BY ZenonT(30), <1>2
    <2> QED
      BY <1>1, <1>5, <2>1 DEF ReportInv
  <1>9. \A k \in Links : Sending(k) => Sending(k)'
    BY <1>1, <1>2 DEF Sending
  <1>10. SubscriptionKept'
    BY <1>1, <1>9 DEF SubscriptionKept
  <1>11. PursuitInv'
    <2> SUFFICES ASSUME Following', ~Pursued' PROVE newest' = master
      BY <1>1 DEF PursuitInv
    <2>1. /\ Following /\ stateChangedCb = "set" /\ reply.kind = "array"
          /\ reply.master = master => newest' = master
      BY <1>1, <1>5 DEF Following, Running
    <2>2. CASE newest = master
      BY <1>5, <2>2 DEF Types
    <2>3. CASE Pursued
      <3>1. Coming("dispatcher", "array", master)
        BY <1>1, <1>2, <1>9, <2>3 DEF Pursued, Coming
      <3>2. reply.master = master
        BY <1>1, <1>2, <3>1 DEF Pursued, Coming
      <3> QED
        BY <2>1, <3>2
    <2> QED
      BY <2>1, <2>2, <2>3 DEF PursuitInv
  <1> QED
    BY <1>6, <1>7, <1>8, <1>10, <1>11

LEMMA ErrorAckKeepsIInv ==
    ASSUME IInv, NEW l \in Links, errorAck(l)
    PROVE  IInv'
  <1> USE DEF IInv
  <1>1. /\ received[l] # <<>> /\ Consume(l)
        /\ retryTimer' = [retryTimer EXCEPT ![l] = TRUE]
        /\ UNCHANGED <<process, stateChangedCb, conn, connectAck, posted, sent, channelCb,
                       listening, master, reports, faults>>
    BY DEF errorAck, retryLater
  <1>2. /\ received' \in [Links -> Seq(Replies)]
        /\ \A k \in Links : Range(received'[k]) \subseteq Range(received[k])
        /\ \A k \in Links : k # l => received'[k] = received[k]
    BY ZenonT(30), <1>1, Consumed
  <1>3. /\ retryTimer' \in [Links -> BOOLEAN] /\ retryTimer'[l]
        /\ \A k \in Links : k # l => retryTimer'[k] = retryTimer[k]
    BY <1>1 DEF Types
  <1>4. Types'
    BY <1>1, <1>2, <1>3 DEF Types, reports
  <1>5. LinkInv' /\ ReportInv'
    BY <1>1, <1>2 DEF LinkInv, ReportInv, reports
  <1>6. Sending(l)'
    BY <1>3 DEF Sending
  <1>7. SubscriptionKept'
    <2>1. CASE l = "subscriber"
      BY <1>6, <2>1 DEF SubscriptionKept
    <2>2. CASE l # "subscriber"
      <3>1. Sending("subscriber") => Sending("subscriber")'
        BY <1>1, <1>2, <1>3, <2>2 DEF Sending, Links
      <3> QED
        BY <1>1, <3>1 DEF SubscriptionKept
    <2> QED
      BY <2>1, <2>2
  <1> QED
    BY <1>4, <1>5, <1>6, <1>7 DEF PursuitInv, Pursued, Links

LEMMA FailoverKeepsIInv == IInv /\ Failover => IInv'
  <1> SUFFICES ASSUME IInv, Failover PROVE IInv'
    OBVIOUS
  <1> USE DEF IInv
  <1>1. /\ "subscriber" \in Links /\ "dispatcher" \in Links
        /\ UNCHANGED <<process, stateChangedCb, conn, connectAck, retryTimer, posted, sent,
                       channelCb, listening, reports, faults>>
    BY DEF Failover, Links
  <1>2. PICK group \in {"own", "other"}, m \in 1..OtherMaster :
           /\ Notify(group, m)
           /\ \/ group = "own" /\ master < MaxMaster /\ master' = master + 1 /\ m = master'
              \/ group = "other" /\ m = OtherMaster /\ UNCHANGED master
    BY BoundsNat DEF Failover, Types, OtherMaster
  <1> DEFINE message == [kind |-> "message", master |-> m]
  <1>3. message \in Replies /\ message.kind = "message" /\ message.master = m
    BY DEF Replies
  <1>4. /\ Append(received["subscriber"], message) \in Seq(Replies)
        /\ Range(Append(received["subscriber"], message))
             = Range(received["subscriber"]) \cup {message}
    BY <1>1, <1>3, RangeAppend DEF Types
  <1>5. received' = IF listening /\ group \in monitored
                    THEN [received EXCEPT !["subscriber"] = Append(@, message)]
                    ELSE received
    BY <1>2 DEF Notify
  <1> HIDE DEF message
  <1>6. /\ received' \in [Links -> Seq(Replies)]
        /\ received'["dispatcher"] = received["dispatcher"]
        /\ \/ /\ listening /\ group \in monitored
              /\ Range(received'["subscriber"]) = Range(received["subscriber"]) \cup {message}
           \/ ~(listening /\ group \in monitored) /\ UNCHANGED received
    <2>1. CASE listening /\ group \in monitored
      BY <1>1, <1>4, <1>5, <2>1 DEF Types
    <2>2. CASE ~(listening /\ group \in monitored)
      BY <1>5, <2>2 DEF Types
    <2> QED
      BY <2>1, <2>2
  <1>7. master' \in 1..MaxMaster /\ master <= master' /\ (m <= master' \/ m = OtherMaster)
    BY <1>2, BoundsNat DEF Types
  <1>8. Types'
    BY <1>1, <1>6, <1>7 DEF Types, reports
  <1>9. LinkInv'
    BY <1>1 DEF LinkInv
  <1>10. ReportInv'
    <2>1. ASSUME NEW k \in Links, NEW r \in Range(received'[k])
          PROVE  r.master <= master' \/ r.master = OtherMaster
      <3>1. CASE r = message
        BY <1>3, <1>7, <3>1
      <3>2. CASE r \in Range(received[k])
        <4>1. r.master <= master \/ r.master = OtherMaster
          BY <3>2 DEF ReportInv
        <4>2. r \in Replies
          BY <3>2 DEF Types, Range
        <4>3. r.master \in Nat /\ master \in Nat /\ master' \in Nat
          BY <1>7, <4>2, BoundsNat DEF Types, Replies
        <4> QED
          BY <1>7, <4>1, <4>3
      <3> QED
        BY <1>6, <3>1, <3>2 DEF Links
    <2>2. newest' <= master'
      BY <1>1, <1>7 DEF ReportInv, Types, reports
    <2> QED
      BY <1>1, <2>1, <2>2 DEF ReportInv, reports, OtherMaster
  <1>11. \A k \in Links : Sending(k) => Sending(k)'
    <2>1. \A k \in Links : Range(received[k]) \subseteq Range(received'[k])
      BY <1>6 DEF Links
    <2> QED
      BY <1>1, <2>1 DEF Sending
  <1>12. SubscriptionKept'
    BY <1>1, <1>11 DEF SubscriptionKept
  <1>13. PursuitInv'
    <2> SUFFICES ASSUME Following' PROVE Pursued' \/ newest' = master'
      BY DEF PursuitInv
    <2>1. Following /\ stateChangedCb = "set" /\ "own" \in monitored
      BY <1>1 DEF Following, Running, process
    <2>2. CASE group = "own" /\ m = master'
      <3>1. CASE listening
        <4>1. message \in Range(received'["subscriber"])
          BY <1>6, <2>1, <2>2, <3>1
        <4> QED
          BY <1>3, <2>2, <4>1 DEF Pursued, Coming
      <3>2. CASE ~listening
        BY <1>1, <1>11, <2>1, <3>2 DEF SubscriptionKept, Pursued
      <3> QED
        BY <3>1, <3>2
    <2>3. CASE UNCHANGED master
      <3>1. Pursued => Pursued'
        BY <1>1, <1>6, <1>11, <2>3 DEF Pursued, Coming
      <3> QED
        BY <1>1, <2>1, <2>3, <3>1 DEF PursuitInv, reports
    <2> QED
      BY <1>2, <2>2, <2>3
  <1> QED
    BY <1>8, <1>9, <1>10, <1>12, <1>13

LEMMA StepKeepsIInv == IInv /\ [Next]_vars => IInv'
  <1> SUFFICES ASSUME IInv, [Next]_vars PROVE IInv'
    OBVIOUS
  <1>1. CASE setStateChangedCb
    BY <1>1, SetStateChangedCbKeepsIInv
  <1>2. CASE clearStateChangedCb \/ destroy
    BY <1>2, CallKeepsIInv
  <1>3. CASE \E l \in Links : setConnected(l) \/ setDisconnected(l) \/ retry(l)
                              \/ SentinelAnswers(l)
    BY <1>3, SetConnectedKeepsIInv, SetDisconnectedKeepsIInv, RetryKeepsIInv,
       SentinelAnswersKeepsIInv
  <1>4. CASE executePosted
    BY <1>4, ExecutePostedKeepsIInv
  <1>5. CASE subscribed \/ notified \/ masterInquiryAck
    BY <1>5, SubscribedKeepsIInv, NotifiedKeepsIInv, MasterInquiryAckKeepsIInv
  <1>6. CASE \E l \in Links : errorAck(l)
    BY <1>6, ErrorAckKeepsIInv
  <1>7. CASE Failover
    BY <1>7, FailoverKeepsIInv
  <1>8. CASE UNCHANGED vars
    BY ZenonT(30), <1>8 DEF IInv, Types, LinkInv, ReportInv, SubscriptionKept, PursuitInv, Pursued,
                Sending, Coming, Following, Running, vars, links, reports, process
  <1> QED
    BY <1>1, <1>2, <1>3, <1>4, <1>5, <1>6, <1>7, <1>8 DEF Next, Events, Receive

\* Every reachable state is well-formed and keeps up the pursuit of the master.
THEOREM IInvariant == Spec => []IInv
  BY InitIInv, StepKeepsIInv, PTL DEF Spec

-----------------------------------------------------------------------------
(* The properties.                                                          *)

\* However often the connections, the commands and the replies fail, either the
\* sentinel has the subscription, or subscribeNotifications is under way, from
\* setStateChangedCb until the discovery is destroyed.
THEOREM SubscriptionIsKept == Spec => []SubscriptionKept
  <1>1. IInv => SubscriptionKept
    BY DEF IInv
  <1> QED
    BY <1>1, IInvariant, PTL

\* For any number of failovers and faults, the discovery that does not have the
\* present master is on its way to it, or the last report misled it: the newest
\* report is the present master's unless that is pursued, and the last report is
\* the newest one, an older one or one of the other group.
THEOREM NeverSettles == Spec => []NeverSettlesWrong
  <1>1. IInv => NeverSettlesWrong
    <2> SUFFICES ASSUME IInv, Following, ~Pursued, ~Misled PROVE discovered = master
      BY DEF NeverSettlesWrong, Pursued
    <2>1. newest = master
      BY DEF IInv, PursuitInv
    <2> QED
      BY <2>1, BoundsNat DEF IInv, Types, ReportInv, Misled, OtherMaster
  <1> QED
    BY <1>1, IInvariant, PTL

=============================================================================
