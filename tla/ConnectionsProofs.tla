------------------------- MODULE ConnectionsProofs -------------------------
(***************************************************************************)
(* Proofs about Connections, for any number of descriptors, commands,      *)
(* cluster nodes, failures and reports of the sentinel.                    *)
(***************************************************************************)
EXTENDS Connections, TLAPS

\* More time than a leaf has by default.
USE SMTT(30), ZenonT(30)

-----------------------------------------------------------------------------
(* The inductive invariant.                                                 *)

\* Records of the engine and of hiredis.
Nodes == [reading : BOOLEAN, writing : BOOLEAN, isMonitoring : BOOLEAN]
Events == [fd : Int, events : SUBSET {"IN", "OUT"}, closed : BOOLEAN]
Contexts == [phase : {"connecting", "open", "closing"}, owner : {"dispatcher", "nobody"},
             node : Range(NodeOf), eof : BOOLEAN, connected : BOOLEAN,
             sent : Seq(Callbacks), unsent : Seq(Callbacks)]

Monitored(i) == {fd \in DOMAIN i.nodes : i.nodes[fd].isMonitoring}

\* An engine without abort, where everything has its type ...
EngineShape(i) ==
    /\ DOMAIN i = {"handlers", "epoll", "ebuffer", "nodes", "aborted"} /\ i.aborted = "no"
    /\ i.nodes \in [DOMAIN i.nodes -> Nodes] /\ DOMAIN i.nodes \subseteq FDs
    /\ i.epoll \in [DOMAIN i.epoll -> SUBSET {"IN", "OUT"}]
    /\ i.ebuffer \in [DOMAIN i.ebuffer -> Events]

\* ... the engine monitors for the adapters ...
Registered(i) ==
    /\ DOMAIN i.handlers = 1..3 \cup Monitored(i) /\ DOMAIN i.epoll = DOMAIN i.handlers
    /\ \A fd \in Monitored(i) : i.epoll[fd] = eventState(i.nodes[fd])

\* ... and the events that are not served yet are for descriptors it monitors.
Buffered(i, served) ==
    /\ DOMAIN i.ebuffer \subseteq 1..LastFD
    /\ \A j \in DOMAIN i.ebuffer :
          i.ebuffer[j].fd = -1
          \/ /\ i.ebuffer[j].fd = j
             /\ j \in served \/ (j \in DOMAIN i.handlers /\ ~i.ebuffer[j].closed)

Sound(i, served) == EngineShape(i) /\ Registered(i) /\ Buffered(i, served)

TypeInv ==
    /\ type \in {"SINGLE", "CLUSTER"} /\ life \in {"new", "alive", "gone"}
    /\ ctx \in [FDs -> {NoContext} \cup Contexts]
    /\ cbs \subseteq Callbacks /\ timer \in BOOLEAN
    /\ status \in [Callbacks -> {"idle", "held", "posted", "done"}]
    /\ notices \in Nat /\ (notices > 0 => type = "SINGLE")
    /\ now.events \subseteq {"IN", "OUT"}

\* A context that has an adapter, and what its flags are then.
HasAdapter(x, t) ==
    x.phase # "none" /\ (t = "SINGLE" => x.owner = "dispatcher" \/ x.phase = "closing")

Listens(node, x) ==
    x.phase # "closing" =>
        /\ x.phase = "connecting" \/ x.unsent # <<>> => node.writing
        /\ x.phase = "open" => node.reading

\* The adapters of the contexts c.
Adapted(i, c, s, t) ==
    /\ Sound(i, s) /\ Monitored(i) = {fd \in FDs : HasAdapter(c[fd], t)}
    /\ t = "SINGLE" => Monitored(i) = DOMAIN i.nodes
    /\ \A fd \in Monitored(i) : Listens(i.nodes[fd], c[fd])

AdapterInv ==
    IF life = "alive" THEN Adapted(io, ctx, now.served, type)
                      ELSE Sound(io, now.served) /\ DOMAIN io.nodes = {}

\* Where the thread is: a callback of a client returns to a stage.
At(s) == stage = s \/ (stage = "client" /\ calling.to = s)

LoopInv ==
    /\ stage # "loop" => life = "alive"
    /\ stage = "client" => calling.to \in {"read", "closing", "event"}
    /\ At("closing") => back \in {"out", "next", "notified"}
    /\ At("read") => now.fd \in Monitored(io)
    /\ \A fd, gd \in FDs : ctx[fd].phase = "closing" =>
          At("closing") /\ (ctx[gd].phase = "closing" => fd = gd)

\* Where the callbacks of a context are called when it is answered or freed.
Queue(x) == x.sent \o x.unsent

Held(M, c, b, st) ==
    /\ \A fd \in M : \A k \in DOMAIN Queue(c[fd]) :
          Queue(c[fd])[k] \in b /\ st[Queue(c[fd])[k]] = "held"
    /\ \A fd, gd \in M : \A k \in DOMAIN Queue(c[fd]), l \in DOMAIN Queue(c[gd]) :
          Queue(c[fd])[k] = Queue(c[gd])[l] => fd = gd /\ k = l

CallbackInv ==
    /\ Held(Monitored(io), ctx, cbs, status)
    /\ stage = "client" => calling.cb \in Commands /\ status[calling.cb] = "done"

\* A connection that is not verified yet, and one attempt at a time.
Owned(x) == x.phase # "none" /\ x.owner = "dispatcher"

Attempts(c, t, armed, verifying) ==
    /\ t = "CLUSTER" /\ armed => verifying # "held"
    /\ t = "SINGLE" =>
          /\ armed => \A fd \in FDs : ~Owned(c[fd])
          /\ \A fd, gd \in FDs : Owned(c[fd]) /\ Owned(c[gd]) => fd = gd
          /\ \A fd \in FDs : c[fd].phase = "connecting" =>
                \A k \in DOMAIN Queue(c[fd]) : Queue(c[fd])[k] # Verify

ConnectInv ==
    /\ life = "new" => ~timer /\ status[Verify] = "idle" /\ \A fd \in FDs : ~Open(fd)
    /\ Attempts(ctx, type, timer, status[Verify])

ConnectionsInv == TypeInv /\ AdapterInv /\ LoopInv /\ CallbackInv /\ ConnectInv

-----------------------------------------------------------------------------
(* The engine and the adapters.                                             *)

\* The engine that j is, compared with i: only the node of fd may differ.
OthersKept(i, j, fd) ==
    \A g \in FDs \ {fd} :
        /\ g \in DOMAIN j.nodes <=> g \in DOMAIN i.nodes
        /\ g \in DOMAIN i.nodes => j.nodes[g] = i.nodes[g]

\* An adapter changes its flags: the engine is told of the same events.
LEMMA SetFlagsSound ==
    ASSUME NEW i, NEW s, Sound(i, s), NEW fd \in Monitored(i), NEW node \in Nodes,
           node.isMonitoring
    PROVE  LET j == SetFlags(i, fd, node)
           IN  /\ Sound(j, s) /\ OthersKept(i, j, fd) /\ Monitored(j) = Monitored(i)
               /\ DOMAIN j.nodes = DOMAIN i.nodes /\ j.nodes[fd] = node
  <1> DEFINE j == SetFlags(i, fd, node)
             nodes == [i.nodes EXCEPT ![fd] = node]
             epoll == [i.epoll EXCEPT ![fd] = eventState(node)]
  <1>1. /\ DOMAIN i = {"handlers", "epoll", "ebuffer", "nodes", "aborted"} /\ i.aborted = "no"
        /\ fd \in DOMAIN i.handlers
    BY DEF Sound, EngineShape, Registered
  <1>2. /\ j.handlers = i.handlers /\ j.epoll = epoll /\ j.ebuffer = i.ebuffer /\ j.nodes = nodes
        /\ DOMAIN j = DOMAIN i /\ j.aborted = "no"
    BY <1>1 DEF SetFlags, modifyMonitoredFD
  <1> HIDE DEF j
  <1>3. /\ j.handlers = i.handlers /\ j.epoll = epoll /\ j.ebuffer = i.ebuffer /\ j.nodes = nodes
    BY <1>2
  <1>4. fd \in DOMAIN i.nodes /\ fd \in FDs /\ i.nodes \in [DOMAIN i.nodes -> Nodes]
    BY DEF Monitored, Sound, EngineShape
  <1>5. DOMAIN nodes = DOMAIN i.nodes /\ nodes[fd] = node
        /\ \A g \in DOMAIN nodes : g # fd => nodes[g] = i.nodes[g]
    BY <1>4
  <1>6. Monitored(j) = Monitored(i)
    BY <1>3, <1>5 DEF Monitored
  <1>7. eventState(node) \in SUBSET {"IN", "OUT"}
    BY DEF eventState
  <1>8. DOMAIN epoll = DOMAIN i.epoll /\ fd \in DOMAIN i.epoll /\ epoll[fd] = eventState(node)
        /\ \A g \in DOMAIN epoll : g # fd => epoll[g] = i.epoll[g]
    BY <1>1 DEF Sound, Registered, EngineShape
  <1>9. EngineShape(j)
    <2>1. nodes \in [DOMAIN nodes -> Nodes] /\ DOMAIN nodes \subseteq FDs
      BY <1>4, <1>5 DEF Sound, EngineShape
    <2>2. epoll \in [DOMAIN epoll -> SUBSET {"IN", "OUT"}]
      BY <1>7, <1>8 DEF Sound, EngineShape
    <2> HIDE DEF nodes, epoll
    <2> QED
      BY <1>1, <1>2, <2>1, <2>2 DEF Sound, EngineShape
  <1>10. Registered(j)
    <2> HIDE DEF nodes, epoll
    <2>1. ASSUME NEW g \in Monitored(i) PROVE epoll[g] = eventState(nodes[g])
      <3>1. g \in DOMAIN epoll /\ g \in DOMAIN nodes /\ i.epoll[g] = eventState(i.nodes[g])
        BY <1>5, <1>8 DEF Sound, Registered, Monitored
      <3> QED
        BY <1>5, <1>8, <3>1
    <2> QED
      BY <1>3, <1>6, <1>8, <2>1 DEF Sound, Registered
  <1>11. Buffered(j, s)
    BY <1>3 DEF Sound, Buffered
  <1> QED
    BY <1>3, <1>5, <1>6, <1>9, <1>10, <1>11 DEF Sound, OthersKept, j

\* addWrite keeps the flags that are set.
LEMMA AddWriteSound ==
    ASSUME NEW i, NEW s, Sound(i, s), NEW fd \in Monitored(i)
    PROVE  LET j == addWrite(i, fd)
           IN  /\ Sound(j, s) /\ OthersKept(i, j, fd) /\ Monitored(j) = Monitored(i)
               /\ DOMAIN j.nodes = DOMAIN i.nodes
               /\ j.nodes[fd].writing /\ (i.nodes[fd].reading => j.nodes[fd].reading)
  <1> DEFINE node == [i.nodes[fd] EXCEPT !.writing = TRUE]
  <1>1. fd \in DOMAIN i.nodes /\ i.nodes[fd] \in Nodes /\ i.nodes[fd].isMonitoring
    BY DEF Monitored, Sound, EngineShape
  <1>2. node \in Nodes /\ node.isMonitoring /\ node.writing /\ node.reading = i.nodes[fd].reading
    BY ZenonT(30), <1>1 DEF Nodes
  <1>3. CASE i.nodes[fd].writing
    BY <1>1, <1>3 DEF addWrite, OthersKept
  <1>4. CASE ~i.nodes[fd].writing
    <2>1. addWrite(i, fd) = SetFlags(i, fd, node)
      BY <1>4 DEF addWrite
    <2> HIDE DEF node
    <2> QED
      BY <1>2, <2>1, SetFlagsSound
  <1> QED
    BY <1>3, <1>4

\* After everything is written the adapter reads and no longer writes.
LEMMA WrittenSound ==
    ASSUME NEW i, NEW s, Sound(i, s), NEW fd \in Monitored(i)
    PROVE  LET j == addRead(delWrite(i, fd), fd)
           IN  /\ Sound(j, s) /\ OthersKept(i, j, fd) /\ Monitored(j) = Monitored(i)
               /\ DOMAIN j.nodes = DOMAIN i.nodes /\ j.nodes[fd].reading
  <1> DEFINE written == [i.nodes[fd] EXCEPT !.writing = FALSE]
             k == delWrite(i, fd)
             node == [k.nodes[fd] EXCEPT !.reading = TRUE]
  <1>1. fd \in DOMAIN i.nodes /\ i.nodes[fd] \in Nodes /\ i.nodes[fd].isMonitoring
    BY DEF Monitored, Sound, EngineShape
  <1>2. written \in Nodes /\ written.isMonitoring
    BY ZenonT(30), <1>1 DEF Nodes
  <1>3. k = SetFlags(i, fd, written)
    BY DEF delWrite
  <1> HIDE DEF k, written
  <1>4. /\ Sound(k, s) /\ OthersKept(i, k, fd) /\ Monitored(k) = Monitored(i)
        /\ DOMAIN k.nodes = DOMAIN i.nodes /\ k.nodes[fd] = written
    BY <1>2, <1>3, SetFlagsSound
  <1>5. node \in Nodes /\ node.isMonitoring /\ node.reading
    BY ZenonT(30), <1>2, <1>4 DEF Nodes
  <1>6. CASE k.nodes[fd].reading
    BY <1>4, <1>6 DEF addRead, k
  <1>7. CASE ~k.nodes[fd].reading
    <2>1. addRead(k, fd) = SetFlags(k, fd, node)
      BY <1>7 DEF addRead
    <2> HIDE DEF node
    <2>2. LET j == SetFlags(k, fd, node)
          IN  /\ Sound(j, s) /\ OthersKept(k, j, fd) /\ Monitored(j) = Monitored(k)
              /\ DOMAIN j.nodes = DOMAIN k.nodes /\ j.nodes[fd] = node
      BY <1>4, <1>5, SetFlagsSound
    <2> QED
      BY <1>4, <1>5, <2>1, <2>2 DEF OthersKept, k
  <1> QED
    BY <1>6, <1>7

\* cleanUp: the descriptor is no longer monitored, and no event of the buffer names it.
LEMMA DeletedSound ==
    ASSUME NEW i, NEW s, Sound(i, s), NEW fd \in Monitored(i)
    PROVE  LET j == cleanUp(i, fd)
           IN  /\ Sound(j, s) /\ OthersKept(i, j, fd) /\ Monitored(j) = Monitored(i) \ {fd}
               /\ DOMAIN j.nodes = DOMAIN i.nodes /\ ~j.nodes[fd].isMonitoring
               /\ \A k \in DOMAIN j.ebuffer : j.ebuffer[k].fd # fd
  <1> DEFINE j == cleanUp(i, fd)
             off == [reading |-> FALSE, writing |-> FALSE, isMonitoring |-> FALSE]
             nodes == [i.nodes EXCEPT ![fd] = off]
             handlers == Restrict(i.handlers, DOMAIN i.handlers \ {fd})
             epoll == Restrict(i.epoll, DOMAIN i.epoll \ {fd})
             ebuffer == Marked(i.ebuffer, fd)
  <1>1. /\ DOMAIN i = {"handlers", "epoll", "ebuffer", "nodes", "aborted"} /\ i.aborted = "no"
        /\ fd \in DOMAIN i.handlers
    BY DEF Sound, EngineShape, Registered
  <1>2. /\ j.handlers = handlers /\ j.epoll = epoll /\ j.ebuffer = ebuffer /\ j.nodes = nodes
        /\ DOMAIN j = DOMAIN i /\ j.aborted = "no"
    <2> HIDE DEF handlers, epoll, ebuffer
    <2>1. deleteMonitoredFD(i, fd) =
             [i EXCEPT !.handlers = handlers, !.ebuffer = ebuffer, !.epoll = epoll]
      BY <1>1 DEF deleteMonitoredFD, handlers, epoll, ebuffer
    <2> QED
      BY <1>1, <2>1 DEF cleanUp
  <1>3. fd \in DOMAIN i.nodes /\ fd \in FDs /\ i.nodes \in [DOMAIN i.nodes -> Nodes]
    BY DEF Monitored, Sound, EngineShape
  <1>4. DOMAIN nodes = DOMAIN i.nodes /\ nodes[fd] = off
        /\ \A g \in DOMAIN nodes : g # fd => nodes[g] = i.nodes[g]
    BY <1>3
  <1>5. /\ DOMAIN handlers = DOMAIN i.handlers \ {fd} /\ DOMAIN epoll = DOMAIN i.epoll \ {fd}
        /\ \A g \in DOMAIN epoll : epoll[g] = i.epoll[g]
    BY DEF Restrict
  <1>6. /\ DOMAIN ebuffer = DOMAIN i.ebuffer
        /\ \A k \in DOMAIN i.ebuffer :
              IF i.ebuffer[k].fd = fd THEN ebuffer[k] = [i.ebuffer[k] EXCEPT !.fd = -1]
                                      ELSE ebuffer[k] = i.ebuffer[k]
    <2>1. \A k \in DOMAIN i.ebuffer : i.ebuffer[k].fd = fd => k = fd /\ k \in Int
      BY <1>3 DEF Sound, Buffered, FDs
    <2> QED
      BY <2>1 DEF Marked
  <1> HIDE DEF j, handlers, epoll, ebuffer, nodes
  <1>7. /\ j.handlers = handlers /\ j.epoll = epoll /\ j.ebuffer = ebuffer /\ j.nodes = nodes
    BY <1>2
  <1>8. Monitored(j) = Monitored(i) \ {fd}
    BY <1>4, <1>7 DEF Monitored
  <1>9. \A k \in DOMAIN ebuffer :
          /\ ebuffer[k] \in Events
          /\ ebuffer[k].fd = -1 \/ (ebuffer[k] = i.ebuffer[k] /\ ebuffer[k].fd # fd)
    <2>1. \A k \in DOMAIN i.ebuffer : i.ebuffer[k] \in Events
      BY DEF Sound, EngineShape
    <2>2. ASSUME NEW e \in Events
          PROVE  [e EXCEPT !.fd = -1] \in Events /\ [e EXCEPT !.fd = -1].fd = -1
      BY DEF Events
    <2> SUFFICES ASSUME NEW k \in DOMAIN i.ebuffer
                 PROVE  /\ ebuffer[k] \in Events
                        /\ \/ ebuffer[k].fd = -1
                           \/ ebuffer[k] = i.ebuffer[k] /\ ebuffer[k].fd # fd
      BY <1>6
    <2>3. CASE i.ebuffer[k].fd = fd
      <3>1. ebuffer[k] = [i.ebuffer[k] EXCEPT !.fd = -1]
        BY <1>6, <2>3
      <3> QED
        BY <2>1, <2>2, <3>1
    <2>4. CASE i.ebuffer[k].fd # fd
      BY ZenonT(30), <1>6, <2>1, <2>4
    <2> QED
      BY <2>3, <2>4
  <1>10. EngineShape(j)
    <2>1. off \in Nodes
      BY DEF Nodes
    <2>2. nodes \in [DOMAIN nodes -> Nodes]
      BY <1>3, <2>1 DEF nodes
    <2>3. epoll \in [DOMAIN epoll -> SUBSET {"IN", "OUT"}]
      <3>1. \A g \in DOMAIN i.epoll : i.epoll[g] \in SUBSET {"IN", "OUT"}
        BY DEF Sound, EngineShape
      <3>2. epoll = [g \in DOMAIN epoll |-> epoll[g]]
        BY DEF epoll, Restrict
      <3> QED
        BY <1>5, <3>1, <3>2
    <2>4. ebuffer \in [DOMAIN ebuffer -> Events]
      <3>1. ebuffer = [k \in DOMAIN ebuffer |-> ebuffer[k]]
        BY DEF ebuffer, Marked, Sound, EngineShape
      <3> QED
        BY <1>9, <3>1
    <2>5. DOMAIN nodes \subseteq FDs
      BY <1>4 DEF Sound, EngineShape
    <2> QED
      BY <1>1, <1>2, <1>7, <2>2, <2>3, <2>4, <2>5 DEF EngineShape
  <1>11. Registered(j)
    <2>1. ASSUME NEW g \in Monitored(i), g # fd PROVE epoll[g] = eventState(nodes[g])
      BY <1>4, <1>5, <2>1 DEF Sound, Registered, Monitored
    <2>2. fd \notin 1..3
      BY <1>3 DEF FDs
    <2> QED
      BY <1>5, <1>7, <1>8, <2>1, <2>2 DEF Sound, Registered
  <1>12. Buffered(j, s)
    BY <1>5, <1>6, <1>7, <1>9 DEF Sound, Buffered
  <1> QED
    BY <1>3, <1>4, <1>6, <1>7, <1>8, <1>9, <1>10, <1>11, <1>12 DEF Sound, OthersKept, j, FDs

\* Forgetting an adapter that does not monitor leaves the engine alone.
LEMMA EraseSound ==
    ASSUME NEW i, NEW s, Sound(i, s), NEW fd \in FDs, fd \notin Monitored(i)
    PROVE  LET j == Erase(i, fd)
           IN  /\ Sound(j, s) /\ OthersKept(i, j, fd) /\ Monitored(j) = Monitored(i)
               /\ DOMAIN j.nodes = DOMAIN i.nodes \ {fd} /\ j.ebuffer = i.ebuffer
  <1> DEFINE j == Erase(i, fd)
             nodes == Restrict(i.nodes, DOMAIN i.nodes \ {fd})
  <1>1. DOMAIN i = {"handlers", "epoll", "ebuffer", "nodes", "aborted"} /\ i.aborted = "no"
    BY DEF Sound, EngineShape
  <1>2. /\ j.handlers = i.handlers /\ j.epoll = i.epoll /\ j.ebuffer = i.ebuffer /\ j.nodes = nodes
        /\ DOMAIN j = DOMAIN i /\ j.aborted = "no"
    BY <1>1 DEF Erase
  <1>3. DOMAIN nodes = DOMAIN i.nodes \ {fd} /\ \A g \in DOMAIN nodes : nodes[g] = i.nodes[g]
    BY DEF Restrict
  <1>4. nodes \in [DOMAIN nodes -> Nodes] /\ DOMAIN nodes \subseteq FDs
    <2>1. nodes = [g \in DOMAIN nodes |-> nodes[g]]
      BY DEF Restrict
    <2> HIDE DEF nodes
    <2> QED
      BY <1>3, <2>1 DEF Sound, EngineShape
  <1> HIDE DEF j, nodes
  <1>5. Monitored(j) = Monitored(i)
    BY <1>2, <1>3 DEF Monitored
  <1>6. EngineShape(j)
    BY <1>1, <1>2, <1>4 DEF Sound, EngineShape
  <1>7. Registered(j)
    BY ZenonT(30), <1>2, <1>3, <1>5 DEF Sound, Registered, Monitored
  <1>8. Buffered(j, s)
    BY <1>2 DEF Sound, Buffered
  <1> QED
    BY <1>2, <1>3, <1>5, <1>6, <1>7, <1>8 DEF Sound, OthersKept, j

\* Destroying an adapter ends its monitoring, if it monitors.
LEMMA DestroySound ==
    ASSUME NEW i, NEW s, Sound(i, s), NEW fd \in DOMAIN i.nodes
    PROVE  LET j == destroy(i, fd)
           IN  /\ Sound(j, s) /\ OthersKept(i, j, fd) /\ Monitored(j) = Monitored(i) \ {fd}
               /\ DOMAIN j.nodes = DOMAIN i.nodes \ {fd}
  <1>0. fd \in FDs
    BY DEF Sound, EngineShape
  <1>1. CASE i.nodes[fd].isMonitoring
    <2> DEFINE k == cleanUp(i, fd)
    <2>1. fd \in Monitored(i) /\ destroy(i, fd) = Erase(k, fd)
      BY <1>1 DEF Monitored, destroy
    <2>2. /\ Sound(k, s) /\ OthersKept(i, k, fd) /\ Monitored(k) = Monitored(i) \ {fd}
          /\ DOMAIN k.nodes = DOMAIN i.nodes
      BY <2>1, DeletedSound
    <2> HIDE DEF k
    <2>3. LET j == Erase(k, fd)
          IN  /\ Sound(j, s) /\ OthersKept(k, j, fd) /\ Monitored(j) = Monitored(k)
              /\ DOMAIN j.nodes = DOMAIN k.nodes \ {fd}
      BY <1>0, <2>2, EraseSound
    <2> QED
      BY <2>1, <2>2, <2>3 DEF OthersKept
  <1>2. CASE ~i.nodes[fd].isMonitoring
    <2>1. fd \notin Monitored(i) /\ destroy(i, fd) = Erase(i, fd)
      BY <1>2 DEF Monitored, destroy
    <2> QED
      BY <1>0, <2>1, EraseSound
  <1> QED
    BY <1>1, <1>2

\* The socket of a descriptor that neither the engine nor the buffer knows is closed.
LEMMA CloseSound ==
    ASSUME NEW i, NEW s, Sound(i, s), NEW fd \in FDs, fd \notin Monitored(i),
           \A k \in DOMAIN i.ebuffer : i.ebuffer[k].fd # fd
    PROVE  LET j == close(i, fd) IN Sound(j, s) /\ j.nodes = i.nodes
  <1> DEFINE j == close(i, fd)
             epoll == Restrict(i.epoll, DOMAIN i.epoll \ {fd})
             ebuffer == [k \in DOMAIN i.ebuffer |->
                    IF i.ebuffer[k].fd = fd THEN [i.ebuffer[k] EXCEPT !.closed = TRUE]
                                            ELSE i.ebuffer[k]]
  <1>1. DOMAIN i = {"handlers", "epoll", "ebuffer", "nodes", "aborted"} /\ i.aborted = "no"
    BY DEF Sound, EngineShape
  <1>2. /\ j.handlers = i.handlers /\ j.epoll = epoll /\ j.ebuffer = ebuffer
        /\ j.nodes = i.nodes /\ DOMAIN j = DOMAIN i /\ j.aborted = "no"
    <2>1. close(i, fd) = [i EXCEPT !.epoll = epoll, !.ebuffer = ebuffer]
      BY <1>1 DEF close
    <2> HIDE DEF epoll, ebuffer
    <2> QED
      BY <1>1, <2>1
  <1>3. fd \notin DOMAIN i.epoll
    BY DEF Sound, Registered, FDs
  <1>4. DOMAIN epoll = DOMAIN i.epoll /\ \A g \in DOMAIN epoll : epoll[g] = i.epoll[g]
    BY <1>3 DEF Restrict
  <1>5. epoll \in [DOMAIN epoll -> SUBSET {"IN", "OUT"}]
    <2>1. epoll = [g \in DOMAIN epoll |-> epoll[g]]
      BY DEF Restrict
    <2> HIDE DEF epoll
    <2> QED
      BY <1>4, <2>1 DEF Sound, EngineShape
  <1>6. DOMAIN ebuffer = DOMAIN i.ebuffer /\ \A k \in DOMAIN ebuffer : ebuffer[k] = i.ebuffer[k]
    OBVIOUS
  <1>7. ebuffer = i.ebuffer
    BY <1>6 DEF Sound, EngineShape
  <1> HIDE DEF j, epoll, ebuffer
  <1>8. EngineShape(j)
    BY <1>1, <1>2, <1>5, <1>7 DEF Sound, EngineShape
  <1>9. Registered(j)
    BY <1>2, <1>4 DEF Sound, Registered, Monitored
  <1>10. Buffered(j, s)
    BY <1>2, <1>7 DEF Sound, Buffered
  <1> QED
    BY <1>2, <1>8, <1>9, <1>10 DEF Sound, j

\* redisAsyncFree: cleanUp, the disconnect callback and close, in this order.
LEMMA FreedSound ==
    ASSUME NEW i, NEW s, Sound(i, s), NEW fd \in Monitored(i)
    PROVE  LET j == Freed(i, fd)
           IN  /\ Sound(j, s) /\ OthersKept(i, j, fd) /\ Monitored(j) = Monitored(i) \ {fd}
               /\ DOMAIN i.nodes \ {fd} \subseteq DOMAIN j.nodes
               /\ DOMAIN j.nodes \subseteq DOMAIN i.nodes
               /\ type = "SINGLE" => DOMAIN j.nodes = DOMAIN i.nodes \ {fd}
  <1> DEFINE k == cleanUp(i, fd)
             d == IF type = "SINGLE" \/ ctx[fd].connected THEN destroy(k, fd) ELSE k
  <1>1. fd \in FDs /\ fd \in DOMAIN i.nodes
    BY DEF Monitored, Sound, EngineShape
  <1>2. /\ Sound(k, s) /\ OthersKept(i, k, fd) /\ Monitored(k) = Monitored(i) \ {fd}
        /\ DOMAIN k.nodes = DOMAIN i.nodes /\ ~k.nodes[fd].isMonitoring
        /\ \A n \in DOMAIN k.ebuffer : k.ebuffer[n].fd # fd
    BY DeletedSound
  <1>3. Freed(i, fd) = close(d, fd)
    BY DEF Freed
  <1>4. destroy(k, fd) = Erase(k, fd)
    BY ZenonT(30), <1>2 DEF destroy
  <1> HIDE DEF k
  <1>5. /\ Sound(d, s) /\ OthersKept(i, d, fd) /\ Monitored(d) = Monitored(i) \ {fd}
        /\ DOMAIN i.nodes \ {fd} \subseteq DOMAIN d.nodes
        /\ DOMAIN d.nodes \subseteq DOMAIN i.nodes
        /\ type = "SINGLE" => DOMAIN d.nodes = DOMAIN i.nodes \ {fd}
        /\ d.ebuffer = k.ebuffer
    <2>1. CASE type = "SINGLE" \/ ctx[fd].connected
      <3>1. d = Erase(k, fd)
        BY <1>4, <2>1
      <3>2. LET j == Erase(k, fd)
            IN  /\ Sound(j, s) /\ OthersKept(k, j, fd) /\ Monitored(j) = Monitored(k)
                /\ DOMAIN j.nodes = DOMAIN k.nodes \ {fd} /\ j.ebuffer = k.ebuffer
        BY <1>1, <1>2, EraseSound
      <3> HIDE DEF d
      <3> QED
        BY <1>2, <3>1, <3>2 DEF OthersKept
    <2>2. CASE ~(type = "SINGLE" \/ ctx[fd].connected)
      BY <1>2, <2>2
    <2> QED
      BY <2>1, <2>2
  <1> HIDE DEF d
  <1>6. LET j == close(d, fd) IN Sound(j, s) /\ j.nodes = d.nodes
    BY ZenonT(30), <1>1, <1>2, <1>5, CloseSound
  <1> QED
    BY <1>3, <1>5, <1>6 DEF OthersKept, Monitored

\* attach on a descriptor that is not monitored, whatever a previous Node left behind.
LEMMA AttachSound ==
    ASSUME NEW i, NEW s, Sound(i, s), NEW fd \in FDs, fd \notin Monitored(i)
    PROVE  LET j == attach(i, fd)
           IN  /\ Sound(j, s) /\ OthersKept(i, j, fd) /\ Monitored(j) = Monitored(i) \cup {fd}
               /\ DOMAIN j.nodes = DOMAIN i.nodes \cup {fd}
  <1> DEFINE k == detach(i, fd)
             handlers == Put(k.handlers, fd, fd)
             epoll == Put(k.epoll, fd, {})
             nodes == Put(k.nodes, fd, NewNode)
             j == attach(i, fd)
  <1>1. /\ Sound(k, s) /\ OthersKept(i, k, fd) /\ Monitored(k) = Monitored(i)
        /\ DOMAIN k.nodes = DOMAIN i.nodes \ {fd}
    <2>1. CASE fd \in DOMAIN i.nodes
      <3>1. k = destroy(i, fd) /\ Monitored(i) \ {fd} = Monitored(i)
        BY <2>1 DEF detach
      <3> HIDE DEF k
      <3> QED
        BY ZenonT(30), <2>1, <3>1, DestroySound
    <2>2. CASE fd \notin DOMAIN i.nodes
      BY <2>2 DEF detach, OthersKept
    <2> QED
      BY <2>1, <2>2
  <1> HIDE DEF k
  <1>2. /\ DOMAIN k = {"handlers", "epoll", "ebuffer", "nodes", "aborted"} /\ k.aborted = "no"
        /\ fd \notin DOMAIN k.handlers
    BY <1>1 DEF Sound, EngineShape, Registered, FDs
  <1>3. /\ j.handlers = handlers /\ j.epoll = epoll /\ j.ebuffer = k.ebuffer
        /\ j.nodes = nodes /\ DOMAIN j = DOMAIN k /\ j.aborted = "no"
    <2>1. addMonitoredFD(k, fd, {}, fd) = [k EXCEPT !.epoll = epoll, !.handlers = handlers]
      BY <1>2 DEF addMonitoredFD
    <2> HIDE DEF epoll, handlers
    <2>2. j = [addMonitoredFD(k, fd, {}, fd) EXCEPT
                  !.nodes = Put(addMonitoredFD(k, fd, {}, fd).nodes, fd, NewNode)]
      BY ZenonT(30) DEF attach, k
    <2> HIDE DEF j
    <2>3. addMonitoredFD(k, fd, {}, fd).nodes = k.nodes
      BY ZenonT(30), <1>2, <2>1
    <2> HIDE DEF nodes
    <2>4. j = [[k EXCEPT !.epoll = epoll, !.handlers = handlers] EXCEPT !.nodes = nodes]
      BY ZenonT(30), <2>1, <2>2, <2>3 DEF nodes
    <2> QED
      BY <1>2, <2>4
  <1>4. /\ DOMAIN handlers = DOMAIN k.handlers \cup {fd}
        /\ DOMAIN epoll = DOMAIN k.epoll \cup {fd} /\ epoll[fd] = {}
        /\ \A g \in DOMAIN epoll : g # fd => epoll[g] = k.epoll[g]
        /\ DOMAIN nodes = DOMAIN k.nodes \cup {fd} /\ nodes[fd] = NewNode
        /\ \A g \in DOMAIN nodes : g # fd => nodes[g] = k.nodes[g]
    BY DEF Put
  <1>5. NewNode \in Nodes /\ NewNode.isMonitoring /\ eventState(NewNode) = {}
    BY DEF NewNode, Nodes, eventState
  <1>6. nodes \in [DOMAIN nodes -> Nodes] /\ DOMAIN nodes \subseteq FDs
    <2>1. nodes = [g \in DOMAIN nodes |-> nodes[g]]
      BY DEF Put
    <2> HIDE DEF nodes
    <2> QED
      BY <1>1, <1>4, <1>5, <2>1 DEF Sound, EngineShape
  <1>7. epoll \in [DOMAIN epoll -> SUBSET {"IN", "OUT"}]
    <2>1. epoll = [g \in DOMAIN epoll |-> epoll[g]]
      BY DEF Put
    <2> HIDE DEF epoll
    <2> QED
      BY <1>1, <1>4, <2>1 DEF Sound, EngineShape
  <1> HIDE DEF j, handlers, epoll, nodes, NewNode
  <1>8. Monitored(j) = Monitored(i) \cup {fd}
    BY <1>1, <1>3, <1>4, <1>5 DEF Monitored
  <1>9. EngineShape(j)
    BY ZenonT(30), <1>1, <1>2, <1>3, <1>6, <1>7 DEF Sound, EngineShape
  <1>10. Registered(j)
    <2>1. ASSUME NEW g \in Monitored(j), g # fd PROVE epoll[g] = eventState(nodes[g])
      <3>1. g \in Monitored(k) /\ g \in DOMAIN nodes /\ g \in DOMAIN epoll
        BY ZenonT(30), <1>1, <1>4, <1>8, <2>1 DEF Sound, Registered, Monitored
      <3> QED
        BY ZenonT(30), <1>1, <1>4, <2>1, <3>1 DEF Sound, Registered
    <2>2. epoll[fd] = eventState(nodes[fd])
      BY <1>4, <1>5
    <2>3. \A g \in Monitored(j) : epoll[g] = eventState(nodes[g])
      BY ZenonT(30), <2>1, <2>2
    <2> QED
      BY ZenonT(30), <1>1, <1>3, <1>4, <1>8, <2>3 DEF Sound, Registered
  <1>11. Buffered(j, s)
    BY <1>1, <1>3, <1>4 DEF Sound, Buffered
  <1> QED
    BY <1>1, <1>3, <1>4, <1>8, <1>9, <1>10, <1>11 DEF Sound, OthersKept, j

\* A new context is attached and waits for its connection.
LEMMA NewSound ==
    ASSUME NEW i, NEW s, Sound(i, s), NEW fd \in FDs, fd \notin Monitored(i)
    PROVE  LET j == addWrite(attach(i, fd), fd)
           IN  /\ Sound(j, s) /\ OthersKept(i, j, fd) /\ Monitored(j) = Monitored(i) \cup {fd}
               /\ DOMAIN j.nodes = DOMAIN i.nodes \cup {fd} /\ j.nodes[fd].writing
  <1> DEFINE k == attach(i, fd)
  <1>1. /\ Sound(k, s) /\ OthersKept(i, k, fd) /\ Monitored(k) = Monitored(i) \cup {fd}
        /\ DOMAIN k.nodes = DOMAIN i.nodes \cup {fd}
    BY ZenonT(30), AttachSound
  <1> HIDE DEF k
  <1>2. LET j == addWrite(k, fd)
        IN  /\ Sound(j, s) /\ OthersKept(k, j, fd) /\ Monitored(j) = Monitored(k)
            /\ DOMAIN j.nodes = DOMAIN k.nodes /\ j.nodes[fd].writing
    BY <1>1, AddWriteSound
  <1> QED
    BY ZenonT(30), <1>1, <1>2 DEF OthersKept, k

-----------------------------------------------------------------------------
(* Contexts with their adapters and their callbacks.                        *)

\* What a descriptor can have.
Slots == {NoContext} \cup Contexts

\* An engine stays sound as events are served.
LEMMA SoundLater ==
    ASSUME NEW i, NEW s, NEW r, Sound(i, s), s \subseteq r
    PROVE  Sound(i, r)
  BY DEF Sound, Buffered

\* One context and its adapter change together.
LEMMA AdaptedWith ==
    ASSUME NEW i, NEW c, NEW s, NEW t, Adapted(i, c, s, t), NEW fd \in FDs,
           NEW j, Sound(j, s), OthersKept(i, j, fd), NEW d, \A g \in FDs \ {fd} : d[g] = c[g],
           NEW x, d[fd] = x,
           Monitored(j) = IF HasAdapter(x, t) THEN Monitored(i) \cup {fd} ELSE Monitored(i) \ {fd},
           t = "SINGLE" /\ ~HasAdapter(x, t) => fd \notin DOMAIN j.nodes,
           HasAdapter(x, t) => Listens(j.nodes[fd], x)
    PROVE  Adapted(j, d, s, t)
  <1>1. d[fd] = x /\ \A g \in FDs \ {fd} : d[g] = c[g]
    BY ZenonT(30)
  <1>2. Monitored(i) \subseteq FDs /\ Monitored(i) = {g \in FDs : HasAdapter(c[g], t)}
    BY ZenonT(30) DEF Adapted
  <1>3. Monitored(j) = {g \in FDs : HasAdapter(d[g], t)}
    BY ZenonT(30), <1>1, <1>2
  <1>4. ASSUME t = "SINGLE" PROVE Monitored(j) = DOMAIN j.nodes
    <2>1. DOMAIN j.nodes \subseteq FDs /\ Monitored(i) = DOMAIN i.nodes
      BY ZenonT(30), <1>4 DEF Adapted, Sound, EngineShape
    <2>2. Monitored(j) \subseteq DOMAIN j.nodes
      BY ZenonT(30) DEF Monitored
    <2> QED
      BY ZenonT(30), <1>4, <2>1, <2>2 DEF OthersKept
  <1>5. ASSUME NEW g \in Monitored(j) PROVE Listens(j.nodes[g], d[g])
    <2>1. CASE g = fd
      BY <1>1, <1>3, <2>1
    <2>2. CASE g # fd
      <3>1. g \in Monitored(i) /\ g \in FDs
        BY ZenonT(30), <1>2, <2>2
      <3>2. j.nodes[g] = i.nodes[g] /\ d[g] = c[g]
        BY <1>1, <2>2, <3>1 DEF OthersKept, Monitored
      <3> QED
        BY <3>1, <3>2 DEF Adapted
    <2> QED
      BY <2>1, <2>2
  <1> QED
    BY ZenonT(30), <1>3, <1>4, <1>5 DEF Adapted

LEMMA AdaptedChanged ==
    ASSUME NEW i, NEW c, NEW s, NEW t, Adapted(i, c, s, t), DOMAIN c = FDs, NEW fd \in FDs,
           NEW j, Sound(j, s), OthersKept(i, j, fd), NEW x,
           Monitored(j) = IF HasAdapter(x, t) THEN Monitored(i) \cup {fd} ELSE Monitored(i) \ {fd},
           t = "SINGLE" /\ ~HasAdapter(x, t) => fd \notin DOMAIN j.nodes,
           HasAdapter(x, t) => Listens(j.nodes[fd], x)
    PROVE  Adapted(j, [c EXCEPT ![fd] = x], s, t)
  <1> DEFINE d == [c EXCEPT ![fd] = x]
  <1>1. d[fd] = x /\ \A g \in FDs \ {fd} : d[g] = c[g]
    BY ZenonT(30)
  <1> HIDE DEF d
  <1>2. Adapted(j, d, s, t)
    BY <1>1, AdaptedWith
  <1> QED
    BY <1>2 DEF d

\* One context changes and its adapter does not have to.
LEMMA AdaptedSame ==
    ASSUME NEW i, NEW c, NEW s, NEW t, Adapted(i, c, s, t), NEW fd \in FDs, DOMAIN c = FDs, NEW x,
           HasAdapter(x, t) <=> HasAdapter(c[fd], t),
           HasAdapter(x, t) => Listens(i.nodes[fd], x)
    PROVE  Adapted(i, [c EXCEPT ![fd] = x], s, t)
  <1>1. fd \in Monitored(i) <=> HasAdapter(c[fd], t)
    BY DEF Adapted
  <1>2. t = "SINGLE" => Monitored(i) = DOMAIN i.nodes
    BY DEF Adapted
  <1>3. OthersKept(i, i, fd) /\ Sound(i, s)
    BY DEF OthersKept, Adapted
  <1>4. Monitored(i) = IF HasAdapter(x, t) THEN Monitored(i) \cup {fd} ELSE Monitored(i) \ {fd}
    BY <1>1
  <1>5. t = "SINGLE" /\ ~HasAdapter(x, t) => fd \notin DOMAIN i.nodes
    BY <1>1, <1>2
  <1> QED
    BY ZenonT(30), <1>3, <1>4, <1>5, AdaptedChanged

\* A context is added to the contexts c, with its adapter.
Added(i, c, fd, j, d) ==
    /\ fd \in Lowest(c) /\ j = addWrite(attach(i, fd), fd)
    /\ \A g \in FDs \ {fd} : d[g] = c[g]
    /\ d[fd].phase = "connecting" /\ d[fd].owner = "dispatcher"

\* A new context and its adapter.
LEMMA AdaptedNew ==
    ASSUME NEW i, NEW c, NEW s, NEW t, Adapted(i, c, s, t),
           NEW fd, NEW j, NEW d, Added(i, c, fd, j, d)
    PROVE  /\ fd \in FDs /\ fd \notin Monitored(i) /\ Adapted(j, d, s, t)
           /\ Monitored(j) = Monitored(i) \cup {fd}
  <1>1. /\ fd \in Lowest(c) /\ j = addWrite(attach(i, fd), fd)
        /\ \A g \in FDs \ {fd} : d[g] = c[g]
        /\ d[fd].phase = "connecting" /\ d[fd].owner = "dispatcher"
    BY ZenonT(30) DEF Added
  <1>2. fd \in FDs /\ fd \notin Monitored(i)
    BY ZenonT(30), <1>1 DEF Adapted, HasAdapter, Lowest
  <1>3. /\ Sound(j, s) /\ OthersKept(i, j, fd) /\ Monitored(j) = Monitored(i) \cup {fd}
        /\ j.nodes[fd].writing
    BY ZenonT(30), <1>1, <1>2, NewSound DEF Adapted
  <1>4. HasAdapter(d[fd], t) /\ Listens(j.nodes[fd], d[fd])
    BY ZenonT(30), <1>1, <1>3 DEF HasAdapter, Listens
  <1>5. Adapted(j, d, s, t)
    BY <1>1, <1>2, <1>3, <1>4, AdaptedWith
  <1> QED
    BY <1>2, <1>3, <1>5

\* A command joins the end of the callbacks of its context.
LEMMA AppendedQueue ==
    ASSUME NEW x \in Contexts, NEW e \in Callbacks
    PROVE  Queue([x EXCEPT !.unsent = Append(@, e)]) = Append(Queue(x), e)
  BY DEF Queue, Contexts

\* The domains of what Held is about.
Shaped(M, c, st) == M \subseteq FDs /\ DOMAIN c = FDs /\ DOMAIN st = Callbacks

\* The queue r is q with e at the end ...
Appended(q, e, r) == q \in Seq(Callbacks) /\ e \in Callbacks /\ r = Append(q, e)

\* ... or q without its first callback, e ...
Popped(q, e, r) == q \in Seq(Callbacks) /\ q # <<>> /\ e = Head(q) /\ r = Tail(q)

\* ... and e is in no queue of the contexts c.
Elsewhere(M, c, e) == \A gd \in M : \A k \in DOMAIN Queue(c[gd]) : Queue(c[gd])[k] # e

\* A callback that no context has is added to one.
LEMMA HeldAppended ==
    ASSUME NEW M, NEW c, NEW b, NEW st, Held(M, c, b, st), Shaped(M, c, st),
           NEW fd \in M, NEW x, NEW e, Appended(Queue(c[fd]), e, Queue(x)), Elsewhere(M, c, e)
    PROVE  Held(M, [c EXCEPT ![fd] = x], b \cup {e}, [st EXCEPT ![e] = "held"])
  <1> DEFINE d == [c EXCEPT ![fd] = x]
             v == [st EXCEPT ![e] = "held"]
  <1>0. /\ M \in SUBSET FDs /\ DOMAIN c = FDs /\ DOMAIN st = Callbacks
    BY DEF Shaped
  <1>q. /\ Queue(c[fd]) \in Seq(Callbacks) /\ e \in Callbacks /\ Queue(x) = Append(Queue(c[fd]), e)
        /\ \A gd \in M : \A k \in DOMAIN Queue(c[gd]) : Queue(c[gd])[k] # e
    BY DEF Appended, Elsewhere
  <1>a. \A gd \in M : \A k \in DOMAIN Queue(c[gd]) :
          Queue(c[gd])[k] \in b /\ st[Queue(c[gd])[k]] = "held"
    BY ZenonT(30) DEF Held
  <1>b. ASSUME NEW gd \in M, NEW hd \in M,
               NEW k \in DOMAIN Queue(c[gd]), NEW l \in DOMAIN Queue(c[hd]),
               Queue(c[gd])[k] = Queue(c[hd])[l]
        PROVE  gd = hd /\ k = l
    BY <1>b DEF Held
  <1>1. d[fd] = x /\ \A g \in FDs \ {fd} : d[g] = c[g]
    BY <1>0
  <1>2. v[e] = "held" /\ \A f : f # e /\ st[f] = "held" => v[f] = "held"
    BY <1>0, <1>q DEF Callbacks
  <1> HIDE DEF d, v
  <1> DEFINE q == Queue(c[fd])
  <1>3. /\ DOMAIN Queue(x) = DOMAIN q \cup {Len(q) + 1} /\ Len(q) + 1 \notin DOMAIN q
        /\ Queue(x)[Len(q) + 1] = e /\ \A k \in DOMAIN q : Queue(x)[k] = q[k]
    BY <1>q
  <1> HIDE DEF q
  <1>4. PICK n : n = Len(q) + 1
    OBVIOUS
  <1>5. ASSUME NEW gd \in M, NEW k \in DOMAIN Queue(d[gd])
        PROVE  \/ k \in DOMAIN Queue(c[gd]) /\ Queue(d[gd])[k] = Queue(c[gd])[k]
               \/ gd = fd /\ k = n /\ Queue(d[gd])[k] = e
    BY <1>0, <1>1, <1>3, <1>4 DEF q
  <1>6. ASSUME NEW gd \in M, NEW k \in DOMAIN Queue(d[gd])
        PROVE  Queue(d[gd])[k] \in b \cup {e} /\ v[Queue(d[gd])[k]] = "held"
    BY ZenonT(30), <1>2, <1>a, <1>5
  <1>7. ASSUME NEW gd \in M, NEW hd \in M,
               NEW k \in DOMAIN Queue(d[gd]), NEW l \in DOMAIN Queue(d[hd]),
               Queue(d[gd])[k] = Queue(d[hd])[l]
        PROVE  gd = hd /\ k = l
    <2>1. CASE Queue(d[gd])[k] = e
      <3>1. gd = fd /\ k = n /\ hd = fd /\ l = n
        BY ZenonT(30), <1>q, <1>5, <1>7, <2>1
      <3> QED
        BY <3>1
    <2>2. CASE Queue(d[gd])[k] # e
      <3>1. /\ k \in DOMAIN Queue(c[gd]) /\ Queue(d[gd])[k] = Queue(c[gd])[k]
            /\ l \in DOMAIN Queue(c[hd]) /\ Queue(d[hd])[l] = Queue(c[hd])[l]
        BY ZenonT(30), <1>5, <1>7, <2>2
      <3>2. Queue(c[gd])[k] = Queue(c[hd])[l]
        BY ZenonT(30), <1>7, <3>1
      <3>3. \A m \in DOMAIN Queue(c[gd]), o \in DOMAIN Queue(c[hd]) :
               Queue(c[gd])[m] = Queue(c[hd])[o] => gd = hd /\ m = o
        BY ZenonT(30), <1>b
      <3> QED
        BY ZenonT(30), <3>1, <3>2, <3>3
    <2> QED
      BY <2>1, <2>2
  <1> QED
    BY ZenonT(30), <1>6, <1>7 DEF Held, d, v

\* The first callback of a context is registered; it is taken out of the queue and called.
LEMMA HeldPopped ==
    ASSUME NEW M, NEW c, NEW b, NEW st, Held(M, c, b, st), Shaped(M, c, st),
           NEW fd \in M, NEW x, NEW e, NEW new, Popped(Queue(c[fd]), e, Queue(x))
    PROVE  /\ e \in Callbacks /\ e \in b /\ st[e] = "held"
           /\ Held(M, [c EXCEPT ![fd] = x], b \ {e}, [st EXCEPT ![e] = new])
  <1> DEFINE d == [c EXCEPT ![fd] = x]
             v == [st EXCEPT ![e] = new]
             q == Queue(c[fd])
  <1>0. /\ M \in SUBSET FDs /\ DOMAIN c = FDs /\ DOMAIN st = Callbacks
    BY DEF Shaped
  <1>q. /\ Queue(c[fd]) \in Seq(Callbacks) /\ Queue(c[fd]) # <<>>
        /\ e = Head(Queue(c[fd])) /\ Queue(x) = Tail(Queue(c[fd]))
    BY DEF Popped
  <1>a. \A gd \in M : \A k \in DOMAIN Queue(c[gd]) :
          Queue(c[gd])[k] \in b /\ st[Queue(c[gd])[k]] = "held"
    BY ZenonT(30) DEF Held
  <1>b. ASSUME NEW gd \in M, NEW hd \in M,
               NEW k \in DOMAIN Queue(c[gd]), NEW l \in DOMAIN Queue(c[hd]),
               Queue(c[gd])[k] = Queue(c[hd])[l]
        PROVE  gd = hd /\ k = l
    BY <1>b DEF Held
  <1>1. d[fd] = x /\ \A g \in FDs \ {fd} : d[g] = c[g]
    BY <1>0
  <1>2. \A f : f # e /\ st[f] = "held" => v[f] = "held"
    BY <1>0
  <1> HIDE DEF d, v
  <1>3. 1 \in DOMAIN q /\ e = q[1] /\ e \in Callbacks
    BY <1>q
  <1>4. ASSUME NEW k \in DOMAIN Queue(x)
        PROVE  k + 1 \in DOMAIN q /\ k + 1 # 1 /\ Queue(x)[k] = q[k + 1] /\ k \in Int
    BY <1>q
  <1> HIDE DEF q
  <1>5. ASSUME NEW gd \in M, NEW k \in DOMAIN Queue(d[gd])
        PROVE  \/ gd # fd /\ k \in DOMAIN Queue(c[gd]) /\ Queue(d[gd])[k] = Queue(c[gd])[k]
               \/ gd = fd /\ k \in DOMAIN Queue(x) /\ Queue(d[gd])[k] = q[k + 1]
    BY <1>0, <1>1, <1>4
  <1>6. ASSUME NEW gd \in M, NEW k \in DOMAIN Queue(d[gd])
        PROVE  \E l \in DOMAIN Queue(c[gd]) :
                  Queue(d[gd])[k] = Queue(c[gd])[l] /\ (gd = fd => l # 1)
    BY ZenonT(30), <1>4, <1>5 DEF q
  <1>7. ASSUME NEW gd \in M, NEW k \in DOMAIN Queue(d[gd])
        PROVE  Queue(d[gd])[k] \in b \ {e} /\ v[Queue(d[gd])[k]] = "held"
    <2>1. PICK l \in DOMAIN Queue(c[gd]) :
                  Queue(d[gd])[k] = Queue(c[gd])[l] /\ (gd = fd => l # 1)
      BY ZenonT(30), <1>6
    <2>2. Queue(c[gd])[l] # e
      <3> SUFFICES ASSUME Queue(c[gd])[l] = e PROVE FALSE
        OBVIOUS
      <3>1. Queue(c[gd])[l] = Queue(c[fd])[1] /\ 1 \in DOMAIN Queue(c[fd])
        BY ZenonT(30), <1>3 DEF q
      <3>2. gd = fd /\ l = 1
        BY <1>b, <3>1
      <3> QED
        BY <2>1, <3>2
    <2> QED
      BY ZenonT(30), <1>a, <1>2, <2>1, <2>2
  <1>8. ASSUME NEW gd \in M, NEW hd \in M,
               NEW k \in DOMAIN Queue(d[gd]), NEW l \in DOMAIN Queue(d[hd]),
               Queue(d[gd])[k] = Queue(d[hd])[l]
        PROVE  gd = hd /\ k = l
    <2>1. gd = hd
      <3>1. PICK m \in DOMAIN Queue(c[gd]) : Queue(d[gd])[k] = Queue(c[gd])[m]
        BY ZenonT(30), <1>6
      <3>2. PICK n \in DOMAIN Queue(c[hd]) : Queue(d[hd])[l] = Queue(c[hd])[n]
        BY ZenonT(30), <1>6
      <3>3. Queue(c[gd])[m] = Queue(c[hd])[n]
        BY ZenonT(30), <1>8, <3>1, <3>2
      <3> QED
        BY ZenonT(30), <1>b, <3>3
    <2>2. CASE gd = fd
      <3>1. k \in DOMAIN Queue(x) /\ l \in DOMAIN Queue(x) /\ q[k + 1] = q[l + 1]
        BY <1>5, <1>8, <2>1, <2>2
      <3>2. k + 1 = l + 1
        <4>1. k + 1 \in DOMAIN Queue(c[fd]) /\ l + 1 \in DOMAIN Queue(c[fd])
              /\ Queue(c[fd])[k + 1] = Queue(c[fd])[l + 1]
          BY <1>4, <3>1 DEF q
        <4> QED
          BY ZenonT(30), <1>b, <4>1
      <3> QED
        BY <1>4, <2>1, <3>1, <3>2
    <2>3. CASE gd # fd
      <3>1. /\ k \in DOMAIN Queue(c[gd]) /\ l \in DOMAIN Queue(c[hd])
            /\ Queue(c[gd])[k] = Queue(c[hd])[l]
        BY ZenonT(30), <1>5, <1>8, <2>1, <2>3
      <3>2. \A m \in DOMAIN Queue(c[gd]), o \in DOMAIN Queue(c[hd]) :
               Queue(c[gd])[m] = Queue(c[hd])[o] => gd = hd /\ m = o
        BY ZenonT(30), <1>b
      <3> QED
        BY ZenonT(30), <3>1, <3>2
    <2> QED
      BY <2>1, <2>2, <2>3
  <1>9. e \in b /\ st[e] = "held"
    BY ZenonT(30), <1>a, <1>3 DEF q
  <1> QED
    BY ZenonT(30), <1>3, <1>7, <1>8, <1>9 DEF Held, d, v

\* A new context without callbacks.
LEMMA HeldNew ==
    ASSUME NEW M, NEW c, NEW b, NEW st, Held(M, c, b, st), Shaped(M, c, st),
           NEW fd \in FDs, fd \notin M, NEW x, Queue(x) = <<>>
    PROVE  Held(M \cup {fd}, [c EXCEPT ![fd] = x], b, st)
  <1> DEFINE d == [c EXCEPT ![fd] = x]
  <1>1. d[fd] = x /\ \A g \in FDs \ {fd} : d[g] = c[g]
    BY DEF Shaped
  <1> HIDE DEF d
  <1>2. \A g \in M \cup {fd} : \A k \in DOMAIN Queue(d[g]) : g \in M /\ d[g] = c[g]
    BY <1>1 DEF Shaped
  <1> QED
    <2>1. ASSUME NEW g \in M \cup {fd}, NEW k \in DOMAIN Queue(d[g])
          PROVE  Queue(d[g])[k] \in b /\ st[Queue(d[g])[k]] = "held"
      <3>1. g \in M /\ d[g] = c[g]
        BY ZenonT(30), <1>2
      <3>2. \A m \in DOMAIN Queue(c[g]) :
               Queue(c[g])[m] \in b /\ st[Queue(c[g])[m]] = "held"
        BY ZenonT(30), <3>1 DEF Held
      <3> QED
        BY ZenonT(30), <3>1, <3>2
    <2>2. ASSUME NEW gd \in M \cup {fd}, NEW hd \in M \cup {fd},
                 NEW k \in DOMAIN Queue(d[gd]), NEW l \in DOMAIN Queue(d[hd]),
                 Queue(d[gd])[k] = Queue(d[hd])[l]
          PROVE  gd = hd /\ k = l
      <3>1. gd \in M /\ hd \in M /\ d[gd] = c[gd] /\ d[hd] = c[hd]
        BY ZenonT(30), <1>2
      <3>2. /\ k \in DOMAIN Queue(c[gd]) /\ l \in DOMAIN Queue(c[hd])
            /\ Queue(c[gd])[k] = Queue(c[hd])[l]
        BY ZenonT(30), <2>2, <3>1
      <3>3. \A m \in DOMAIN Queue(c[gd]), o \in DOMAIN Queue(c[hd]) :
               Queue(c[gd])[m] = Queue(c[hd])[o] => gd = hd /\ m = o
        BY ZenonT(30), <3>1 DEF Held
      <3> QED
        BY ZenonT(30), <3>2, <3>3
    <2> QED
      BY ZenonT(30), <2>1, <2>2 DEF Held, d

\* Fewer contexts, or the same callbacks under other contexts.
LEMMA HeldFewer ==
    ASSUME NEW M, NEW N, NEW c, NEW d, NEW b, NEW e, NEW st, NEW v,
           Held(M, c, b, st), N \subseteq M,
           \A fd \in N : Queue(d[fd]) = Queue(c[fd]),
           \A f \in b : st[f] = "held" => f \in e /\ v[f] = "held"
    PROVE  Held(N, d, e, v)
  BY DEF Held

\* The same contexts and callbacks.
LEMMA HeldSame ==
    ASSUME NEW M, NEW c, NEW d, NEW b, NEW st, NEW v,
           Held(M, c, b, st), \A fd \in M : Queue(d[fd]) = Queue(c[fd]),
           \A f \in b : st[f] = "held" => v[f] = "held"
    PROVE  Held(M, d, b, v)
  BY DEF Held

-----------------------------------------------------------------------------
(* The loop of the engine and its handlers.                                 *)

\* A context is being freed only while the thread frees one.
LEMMA NoneClosing ==
    ASSUME ConnectionsInv, ~At("closing")
    PROVE  \A fd \in FDs : ctx[fd].phase # "closing"
  BY DEF ConnectionsInv, LoopInv

\* A monitored descriptor has a context and an adapter.
LEMMA MonitoredOpen ==
    ASSUME ConnectionsInv, NEW fd \in Monitored(io)
    PROVE  /\ life = "alive" /\ fd \in FDs /\ HasAdapter(ctx[fd], type)
           /\ fd \in DOMAIN io.nodes
           /\ ctx[fd] \in Contexts /\ Queue(ctx[fd]) \in Seq(Callbacks)
  <1>1. life = "alive" /\ fd \in DOMAIN io.nodes
    BY DEF ConnectionsInv, AdapterInv, Monitored
  <1>2. fd \in FDs /\ HasAdapter(ctx[fd], type)
    BY <1>1 DEF ConnectionsInv, AdapterInv, Adapted
  <1>3. ctx[fd] \in Contexts
    BY <1>2 DEF ConnectionsInv, TypeInv, NoContext, HasAdapter
  <1>4. Queue(ctx[fd]) \in Seq(Callbacks)
    BY <1>3 DEF Queue, Contexts
  <1> QED
    BY <1>1, <1>2, <1>3, <1>4

\* The callbacks of the state.
LEMMA IsShaped ==
    ASSUME ConnectionsInv
    PROVE  Shaped(Monitored(io), ctx, status) /\ Held(Monitored(io), ctx, cbs, status)
  BY MonitoredOpen DEF ConnectionsInv, TypeInv, CallbackInv, Shaped

\* Steps that only move the thread.
Moves(s) ==
    /\ stage # "loop" /\ ~At("closing") /\ stage' = s /\ s \in {"next", "out"}
    /\ UNCHANGED <<now, back, io, ctx, dispatcher, status, calling, environment>>

\* They keep the invariant.
LEMMA MoveKeeps ==
    ASSUME ConnectionsInv, NEW s, Moves(s)
    PROVE  ConnectionsInv'
  <1>0. /\ stage # "loop" /\ ~At("closing") /\ stage' = s /\ s \in {"next", "out"}
        /\ io' = io /\ ctx' = ctx /\ now' = now /\ back' = back /\ timer' = timer /\ cbs' = cbs
        /\ status' = status /\ calling' = calling /\ type' = type /\ notices' = notices
        /\ life' = life
    BY DEF Moves, dispatcher, environment
  <1>1. TypeInv'
    BY <1>0 DEF ConnectionsInv, TypeInv
  <1>2. AdapterInv'
    BY ZenonT(30), <1>0 DEF ConnectionsInv, AdapterInv
  <1>3. LoopInv'
    BY ZenonT(30), <1>0, NoneClosing DEF ConnectionsInv, LoopInv, At
  <1>4. CallbackInv'
    BY <1>0 DEF ConnectionsInv, CallbackInv
  <1>5. ConnectInv'
    BY <1>0 DEF ConnectionsInv, ConnectInv, Open
  <1> QED
    BY <1>1, <1>2, <1>3, <1>4, <1>5 DEF ConnectionsInv

\* Four actions are such steps.
LEMMA MoversMove ==
    ASSUME readDone \/ handlerDone \/ eventDone \/ sentinelDone
    PROVE  Moves("next") \/ Moves("out")
  BY DEF readDone, handlerDone, eventDone, sentinelDone, Moves, At

\* clientReturns keeps the invariant: the callback that handleReply removes is done, so no
\* context has it.
LEMMA clientReturnsKeeps ==
    ASSUME ConnectionsInv, clientReturns
    PROVE  ConnectionsInv'
  <1>0. /\ stage = "client" /\ stage' = calling.to
        /\ io' = io /\ ctx' = ctx /\ now' = now /\ back' = back /\ timer' = timer
        /\ cbs' = cbs \ {calling.cb}
        /\ status' = status /\ type' = type /\ notices' = notices
        /\ life' = life
    BY DEF clientReturns, environment
  <1>1. TypeInv'
    BY <1>0 DEF ConnectionsInv, TypeInv
  <1>2. AdapterInv'
    BY <1>0 DEF ConnectionsInv, AdapterInv
  <1>3. LoopInv'
    <2>1. calling.to \in {"read", "closing", "event"}
      BY <1>0 DEF ConnectionsInv, LoopInv
    <2>2. (At("read")' <=> At("read")) /\ (At("closing")' <=> At("closing"))
      BY <1>0, <2>1 DEF At
    <2> QED
      BY <1>0, <2>1, <2>2 DEF ConnectionsInv, LoopInv
  <1>4. CallbackInv'
    <2>1. status[calling.cb] = "done"
      BY <1>0 DEF ConnectionsInv, CallbackInv
    <2>2. \A f \in cbs : status[f] = "held" => f \in cbs' /\ status'[f] = "held"
      BY ZenonT(30), <1>0, <2>1
    <2>3. Held(Monitored(io), ctx, cbs', status')
      BY <2>2, HeldFewer DEF ConnectionsInv, CallbackInv
    <2>4. stage' # "client"
      BY <1>0 DEF ConnectionsInv, LoopInv
    <2> QED
      BY <1>0, <2>3, <2>4 DEF CallbackInv
  <1>5. ConnectInv'
    BY <1>0 DEF ConnectionsInv, ConnectInv, Open
  <1> QED
    BY <1>1, <1>2, <1>3, <1>4, <1>5 DEF ConnectionsInv

\* callHandler keeps the invariant: the handler it looks up exists, by Buffered.
LEMMA callHandlerKeeps ==
    ASSUME ConnectionsInv, callHandler
    PROVE  ConnectionsInv'
  <1>1. PICK i \in DOMAIN io.ebuffer \ now.served :
           LET e == io.ebuffer[i]
           IN /\ now' = [served |-> now.served \cup {i}, fd |-> e.fd, events |-> e.events]
              /\ stage' = IF e.fd = -1 THEN stage ELSE HandlerOf(e.fd)
              /\ io' = IF e.fd \in {-1} \cup DOMAIN io.handlers THEN io
                       ELSE Abort(io, "bad_function_call")
    BY ZenonT(30) DEF callHandler
  <1>2. life = "alive" /\ stage = "next" /\ Adapted(io, ctx, now.served, type)
    BY ZenonT(30) DEF callHandler, ConnectionsInv, LoopInv, AdapterInv
  <1>3. io.ebuffer[i] \in Events /\ io.ebuffer[i].fd \in {-1} \cup DOMAIN io.handlers
    BY ZenonT(30), <1>2 DEF Adapted, Sound, EngineShape, Buffered
  <1>0. /\ io' = io /\ stage' \in {"next", "event", "timer", "sentinel", "in"}
        /\ ctx' = ctx /\ back' = back /\ timer' = timer /\ cbs' = cbs
        /\ status' = status /\ calling' = calling /\ type' = type /\ notices' = notices
        /\ life' = life
    BY ZenonT(30), <1>1, <1>2, <1>3 DEF callHandler, dispatcher, environment, HandlerOf
  <1>a. TypeInv'
    <2>1. io.ebuffer[i].events \subseteq {"IN", "OUT"}
      BY ZenonT(30), <1>3 DEF Events
    <2>2. now'.events = io.ebuffer[i].events
      BY ZenonT(30), <1>1
    <2> QED
      BY ZenonT(30), <1>0, <2>1, <2>2 DEF ConnectionsInv, TypeInv
  <1>b. AdapterInv'
    <2>1. now.served \subseteq now'.served
      BY ZenonT(30), <1>1
    <2>2. Sound(io, now'.served)
      BY ZenonT(30), <1>2, <2>1, SoundLater DEF Adapted
    <2> QED
      BY ZenonT(30), <1>0, <1>2, <2>2 DEF AdapterInv, Adapted
  <1>c. LoopInv'
    <2>1. ~At("closing")
      BY ZenonT(30), <1>2 DEF At
    <2> QED
      BY ZenonT(30), <1>0, <1>2, <2>1, NoneClosing DEF ConnectionsInv, LoopInv, At
  <1>d. CallbackInv'
    BY ZenonT(30), <1>0 DEF ConnectionsInv, CallbackInv
  <1>e. ConnectInv'
    BY <1>0 DEF ConnectionsInv, ConnectInv, Open
  <1> QED
    BY <1>a, <1>b, <1>c, <1>d, <1>e DEF ConnectionsInv

\* A buffer with events of monitored descriptors only.
LEMMA NewRound ==
    ASSUME NEW i, NEW s, Sound(i, s), NEW b, b \in [DOMAIN b -> Events],
           \A n \in DOMAIN b : n \in DOMAIN i.handlers /\ b[n].fd = n /\ ~b[n].closed
    PROVE  LET j == [i EXCEPT !.ebuffer = b]
           IN  Sound(j, {}) /\ j.nodes = i.nodes /\ Monitored(j) = Monitored(i)
  <1> DEFINE j == [i EXCEPT !.ebuffer = b]
  <1>1. DOMAIN i = {"handlers", "epoll", "ebuffer", "nodes", "aborted"} /\ i.aborted = "no"
    BY DEF Sound, EngineShape
  <1>2. /\ j.handlers = i.handlers /\ j.epoll = i.epoll /\ j.ebuffer = b /\ j.nodes = i.nodes
        /\ DOMAIN j = DOMAIN i /\ j.aborted = "no"
    BY <1>1
  <1> HIDE DEF j
  <1>3. Monitored(j) = Monitored(i)
    BY <1>2 DEF Monitored
  <1>4. EngineShape(j)
    BY <1>1, <1>2 DEF Sound, EngineShape
  <1>5. Registered(j)
    BY ZenonT(30), <1>2, <1>3 DEF Sound, Registered
  <1>6. DOMAIN i.handlers \subseteq 1..LastFD
    <2>1. Monitored(i) \subseteq FDs /\ DOMAIN i.handlers = 1..3 \cup Monitored(i)
      BY DEF Sound, EngineShape, Registered, Monitored
    <2>2. FDs \subseteq 1..LastFD /\ 1..3 \subseteq 1..LastFD
      BY ConstantsKnown DEF FDs
    <2> QED
      BY ZenonT(30), <2>1, <2>2
  <1>7. Buffered(j, {})
    BY <1>2, <1>6 DEF Buffered
  <1> QED
    BY <1>2, <1>3, <1>4, <1>5, <1>7 DEF Sound, j

\* Steps that only replace the buffer.
Refills(b) ==
    /\ io' = [io EXCEPT !.ebuffer = b] /\ now'.served = {} /\ now'.events \subseteq {"IN", "OUT"}
    /\ stage \in {"loop", "next"} /\ stage' \in {"loop", "next"} /\ life = "alive"
    /\ UNCHANGED <<back, ctx, dispatcher, status, calling, environment>>

\* They keep the invariant.
LEMMA RefillKeeps ==
    ASSUME ConnectionsInv, NEW b, Refills(b), b \in [DOMAIN b -> Events],
           \A n \in DOMAIN b : n \in DOMAIN io.handlers /\ b[n].fd = n /\ ~b[n].closed
    PROVE  ConnectionsInv'
  <1>0. /\ stage \in {"loop", "next"} /\ stage' \in {"loop", "next"} /\ now'.served = {}
        /\ io' = [io EXCEPT !.ebuffer = b] /\ now'.events \subseteq {"IN", "OUT"}
        /\ ctx' = ctx /\ back' = back /\ timer' = timer /\ cbs' = cbs
        /\ status' = status /\ calling' = calling /\ type' = type /\ notices' = notices
        /\ life' = life /\ life = "alive"
    BY DEF Refills, dispatcher, environment
  <1>1. Adapted(io, ctx, now.served, type)
    BY <1>0 DEF ConnectionsInv, AdapterInv
  <1>2. Sound(io', {}) /\ io'.nodes = io.nodes /\ Monitored(io') = Monitored(io)
    BY <1>0, <1>1, NewRound DEF Adapted
  <1>a. TypeInv'
    BY <1>0 DEF ConnectionsInv, TypeInv
  <1>b. AdapterInv'
    BY ZenonT(30), <1>0, <1>1, <1>2 DEF AdapterInv, Adapted
  <1>c. LoopInv'
    <2>1. ~At("closing")
      BY <1>0 DEF At
    <2> QED
      BY <1>0, <2>1, NoneClosing DEF ConnectionsInv, LoopInv, At
  <1>d. CallbackInv'
    BY <1>0, <1>2 DEF ConnectionsInv, CallbackInv
  <1>e. ConnectInv'
    BY <1>0 DEF ConnectionsInv, ConnectInv, Open
  <1> QED
    BY <1>a, <1>b, <1>c, <1>d, <1>e DEF ConnectionsInv

\* roundOver keeps the invariant.
LEMMA roundOverKeeps ==
    ASSUME ConnectionsInv, roundOver
    PROVE  ConnectionsInv'
  <1>1. <<>> \in [DOMAIN <<>> -> Events] /\ DOMAIN <<>> = {}
    OBVIOUS
  <1>2. Refills(<<>>)
    BY DEF roundOver, Refills, NotServing, ConnectionsInv, LoopInv
  <1> QED
    BY ZenonT(30), <1>1, <1>2, RefillKeeps

\* epollWait keeps the invariant: the kernel reports descriptors of the interest list.
LEMMA epollWaitKeeps ==
    ASSUME ConnectionsInv, epollWait
    PROVE  ConnectionsInv'
  <1>1. PICK ready \in SUBSET UNION {{fd} \X ReadyEvents(fd) : fd \in DOMAIN io.epoll} :
          io' = [io EXCEPT !.ebuffer = [fd \in {r[1] : r \in ready} |->
                    [fd |-> fd, events |-> {r[2] : r \in {x \in ready : x[1] = fd}},
                     closed |-> FALSE]]]
    BY ZenonT(30) DEF epollWait
  <1> DEFINE fds == {r[1] : r \in ready}
             b == [fd \in fds |->
                    [fd |-> fd, events |-> {r[2] : r \in {x \in ready : x[1] = fd}},
                     closed |-> FALSE]]
  <1>2. life = "alive" /\ Adapted(io, ctx, now.served, type) /\ now.served = {}
    BY ZenonT(30) DEF epollWait, BetweenRounds, NotServing, ConnectionsInv, AdapterInv
  <1>3. DOMAIN io.epoll = DOMAIN io.handlers /\ DOMAIN io.handlers \subseteq Int
    <2>1. EngineShape(io) /\ Registered(io)
      BY ZenonT(30), <1>2 DEF Adapted, Sound
    <2>2. FDs \subseteq Int /\ 1..3 \subseteq Int
      BY DEF FDs
    <2>3. /\ DOMAIN io.nodes \subseteq FDs /\ DOMAIN io.epoll = DOMAIN io.handlers
          /\ DOMAIN io.handlers = 1..3 \cup Monitored(io)
      BY ZenonT(30), <2>1 DEF EngineShape, Registered
    <2> QED
      BY ZenonT(30), <2>2, <2>3 DEF Monitored
  <1>4. ASSUME NEW fd \in DOMAIN io.epoll PROVE ReadyEvents(fd) \subseteq {"IN", "OUT"}
    <2>1. io.epoll[fd] \subseteq {"IN", "OUT"}
      BY ZenonT(30), <1>2 DEF Adapted, Sound, EngineShape
    <2> QED
      BY ZenonT(30), <2>1 DEF ReadyEvents, EventFD, TimerFD, SentinelFD
  <1>5. ASSUME NEW r \in ready
        PROVE  r[1] \in DOMAIN io.epoll /\ r[2] \in {"IN", "OUT"}
    <2>1. PICK fd \in DOMAIN io.epoll : r \in {fd} \X ReadyEvents(fd)
      OBVIOUS
    <2> QED
      BY <1>4, <2>1
  <1>6. fds \subseteq DOMAIN io.handlers /\ fds \subseteq Int
    BY <1>3, <1>5
  <1>7. \A fd : {r[2] : r \in {x \in ready : x[1] = fd}} \subseteq {"IN", "OUT"}
    BY ZenonT(30), <1>5
  <1> HIDE DEF fds
  <1>8. DOMAIN b = fds /\ \A n \in fds : b[n].fd = n /\ ~b[n].closed /\ b[n] \in Events
    BY ZenonT(30), <1>6, <1>7 DEF Events
  <1>9. b \in [DOMAIN b -> Events]
    BY <1>8
  <1>10. Refills(b)
    <2>1. now' = now /\ now.events \subseteq {"IN", "OUT"}
      BY DEF epollWait, ConnectionsInv, TypeInv
    <2>2. io' = [io EXCEPT !.ebuffer = b]
      BY <1>1 DEF fds
    <2> HIDE DEF b
    <2> QED
      BY ZenonT(30), <1>2, <2>1, <2>2 DEF epollWait, Refills, BetweenRounds
  <1> HIDE DEF b
  <1> QED
    BY <1>6, <1>8, <1>9, <1>10, RefillKeeps

\* Report keeps the invariant.
LEMMA ReportKeeps ==
    ASSUME ConnectionsInv, Report
    PROVE  ConnectionsInv'
  <1>0. /\ stage' = stage /\ io' = io /\ ctx' = ctx /\ now' = now /\ back' = back
        /\ timer' = timer /\ cbs' = cbs
        /\ status' = status /\ calling' = calling /\ type' = type /\ notices' = notices + 1
        /\ life' = life /\ type = "SINGLE"
    BY ZenonT(30) DEF Report, loop, dispatcher
  <1>1. TypeInv'
    BY <1>0 DEF ConnectionsInv, TypeInv
  <1>2. AdapterInv'
    BY ZenonT(30), <1>0 DEF ConnectionsInv, AdapterInv
  <1>3. LoopInv'
    BY ZenonT(30), <1>0 DEF ConnectionsInv, LoopInv, At
  <1>4. CallbackInv'
    BY <1>0 DEF ConnectionsInv, CallbackInv
  <1>5. ConnectInv'
    BY ZenonT(30), <1>0 DEF ConnectionsInv, ConnectInv, Open
  <1> QED
    BY <1>1, <1>2, <1>3, <1>4, <1>5 DEF ConnectionsInv

\* A context changes without becoming the dispatcher's or verifying.
LEMMA AttemptsChanged ==
    ASSUME NEW c, NEW t, NEW armed, NEW v, Attempts(c, t, armed, v), DOMAIN c = FDs,
           NEW fd \in FDs, NEW x, Owned(x) => Owned(c[fd]),
           t = "SINGLE" /\ x.phase = "connecting" =>
                \A k \in DOMAIN Queue(x) : Queue(x)[k] # Verify
    PROVE  Attempts([c EXCEPT ![fd] = x], t, armed, v)
  <1> DEFINE d == [c EXCEPT ![fd] = x]
  <1>1. d[fd] = x /\ \A g \in FDs \ {fd} : d[g] = c[g]
    BY ZenonT(30)
  <1> HIDE DEF d
  <1>2. \A g \in FDs : Owned(d[g]) => Owned(c[g])
    BY ZenonT(30), <1>1
  <1>3. t = "SINGLE" => \A g \in FDs : d[g].phase = "connecting" =>
            \A k \in DOMAIN Queue(d[g]) : Queue(d[g])[k] # Verify
    BY ZenonT(30), <1>1 DEF Attempts
  <1> QED
    BY <1>2, <1>3 DEF Attempts, d

\* A context is marked as broken or as being freed.
LEMMA ContextMarked ==
    ASSUME ConnectionsInv, life = "alive", NEW fd \in FDs, ctx[fd] \in Contexts, NEW x \in Contexts,
           x.owner = ctx[fd].owner, x.sent = ctx[fd].sent, x.unsent = ctx[fd].unsent,
           \/ x.phase = ctx[fd].phase
           \/ x.phase = "closing" /\ HasAdapter(ctx[fd], type),
           ctx' = [ctx EXCEPT ![fd] = x],
           UNCHANGED <<io, now, dispatcher, status, type, notices, life>>
    PROVE  /\ TypeInv' /\ AdapterInv' /\ ConnectInv'
           /\ Held(Monitored(io'), ctx', cbs', status')
  <1>0. /\ io' = io /\ now' = now /\ timer' = timer /\ cbs' = cbs /\ life' = life
        /\ status' = status /\ type' = type /\ notices' = notices /\ DOMAIN ctx = FDs
    BY ZenonT(30) DEF dispatcher, ConnectionsInv, TypeInv
  <1>1. TypeInv'
    BY ZenonT(30), <1>0 DEF ConnectionsInv, TypeInv
  <1>2. AdapterInv'
    <2>1. Adapted(io, ctx, now.served, type)
      BY ZenonT(30) DEF ConnectionsInv, AdapterInv
    <2>2. HasAdapter(x, type) <=> HasAdapter(ctx[fd], type)
      BY ZenonT(30) DEF HasAdapter, Contexts
    <2>3. HasAdapter(x, type) => Listens(io.nodes[fd], x)
      BY <2>1, <2>2 DEF Adapted, Listens
    <2>4. Adapted(io, ctx', now.served, type)
      BY ZenonT(30), <1>0, <2>1, <2>2, <2>3, AdaptedSame
    <2> QED
      BY <1>0, <2>4 DEF AdapterInv
  <1>3. Queue(x) = Queue(ctx[fd])
    BY ZenonT(30) DEF Queue
  <1>4. ConnectInv'
    <2>1. Owned(x) => Owned(ctx[fd])
      BY DEF Owned, Contexts
    <2>2. Attempts(ctx, type, timer, status[Verify])
      BY ZenonT(30) DEF ConnectionsInv, ConnectInv
    <2>3. type = "SINGLE" /\ x.phase = "connecting" =>
             \A k \in DOMAIN Queue(x) : Queue(x)[k] # Verify
      BY <1>3, <2>2 DEF Attempts
    <2>4. Attempts(ctx', type, timer, status[Verify])
      BY ZenonT(30), <1>0, <2>1, <2>2, <2>3, AttemptsChanged
    <2> QED
      BY ZenonT(30), <1>0, <2>4 DEF ConnectInv
  <1>5. \A gd \in FDs : Queue(ctx'[gd]) = Queue(ctx[gd])
    BY ZenonT(30), <1>0, <1>3
  <1>6. Monitored(io) \subseteq FDs
    BY ZenonT(30), MonitoredOpen
  <1>7. Held(Monitored(io), ctx', cbs, status)
    <2>1. Held(Monitored(io), ctx, cbs, status)
      BY ZenonT(30) DEF ConnectionsInv, CallbackInv
    <2>2. \A gd \in Monitored(io) : Queue(ctx'[gd]) = Queue(ctx[gd])
      BY ZenonT(30), <1>5, <1>6
    <2> QED
      BY ONLY Zenon, <2>1, <2>2, HeldSame
  <1> QED
    BY ZenonT(30), <1>0, <1>1, <1>2, <1>4, <1>7

\* Lose keeps the invariant.
LEMMA LoseKeeps ==
    ASSUME ConnectionsInv, NEW fd \in FDs, Lose(fd)
    PROVE  ConnectionsInv'
  <1> DEFINE x == [ctx[fd] EXCEPT !.eof = TRUE]
  <1>0. /\ stage = "loop" /\ stage' = stage /\ life = "alive" /\ ctx[fd].phase = "open"
        /\ ctx' = [ctx EXCEPT ![fd] = x]
        /\ io' = io /\ now' = now /\ back' = back /\ calling' = calling
        /\ UNCHANGED <<io, now, dispatcher, status, type, notices, life>>
    BY DEF Lose, BetweenRounds, loop
  <1>1. ctx[fd] \in Contexts
    BY <1>0 DEF ConnectionsInv, TypeInv, NoContext
  <1>2. /\ x \in Contexts /\ x.owner = ctx[fd].owner /\ x.sent = ctx[fd].sent
        /\ x.unsent = ctx[fd].unsent /\ x.phase = ctx[fd].phase
    BY ZenonT(30), <1>1 DEF Contexts
  <1> HIDE DEF x
  <1>3. /\ TypeInv' /\ AdapterInv' /\ ConnectInv'
        /\ Held(Monitored(io'), ctx', cbs', status')
    BY ZenonT(30), <1>0, <1>1, <1>2, ContextMarked
  <1>4. \A gd \in FDs : ctx'[gd].phase # "closing"
    <2>1. ~At("closing") /\ DOMAIN ctx = FDs
      BY <1>0 DEF At, ConnectionsInv, TypeInv
    <2>2. \A gd \in FDs : ctx[gd].phase # "closing"
      BY ZenonT(30), <2>1, NoneClosing
    <2> QED
      BY ZenonT(30), <1>0, <1>2, <2>1, <2>2
  <1>5. LoopInv'
    BY ZenonT(30), <1>0, <1>4 DEF LoopInv, At
  <1> QED
    BY <1>0, <1>3, <1>5 DEF ConnectionsInv, CallbackInv

\* An adapter whose handler goes on is monitored.
LEMMA NodeMonitored ==
    ASSUME ConnectionsInv, stage # "loop", NEW fd, NodeMonitors(fd)
    PROVE  fd \in Monitored(io)
  BY DEF ConnectionsInv, LoopInv, AdapterInv, TypeInv, Adapted, NodeMonitors, Monitored

\* redisAsyncFree begins in a handler of the context.
LEMMA FreeBegins ==
    ASSUME ConnectionsInv, NEW to \in {"out", "next"}, stage \in {"in", "read", "out"},
           now.fd \in Monitored(io), BeginFree(now.fd, to),
           UNCHANGED <<io, now, dispatcher, status, calling, type, notices, life>>
    PROVE  ConnectionsInv'
  <1> DEFINE fd == now.fd
             x == [ctx[fd] EXCEPT !.phase = "closing"]
  <1>0. /\ ctx' = [ctx EXCEPT ![fd] = x] /\ stage' = "closing" /\ back' = to
    BY ZenonT(30) DEF BeginFree
  <1>1. life = "alive" /\ fd \in FDs /\ ctx[fd] \in Contexts /\ HasAdapter(ctx[fd], type)
    BY MonitoredOpen
  <1>2. /\ x \in Contexts /\ x.owner = ctx[fd].owner /\ x.sent = ctx[fd].sent
        /\ x.unsent = ctx[fd].unsent /\ x.phase = "closing"
    BY ZenonT(30), <1>1 DEF Contexts
  <1> HIDE DEF x, fd
  <1>3. /\ TypeInv' /\ AdapterInv' /\ ConnectInv'
        /\ Held(Monitored(io'), ctx', cbs', status')
    BY ZenonT(30), <1>0, <1>1, <1>2, ContextMarked
  <1>4. \A gd \in FDs : ctx'[gd].phase = "closing" => gd = fd
    <2>1. ~At("closing") /\ DOMAIN ctx = FDs
      BY DEF At, ConnectionsInv, TypeInv
    <2>2. \A gd \in FDs : ctx[gd].phase # "closing"
      BY ZenonT(30), <2>1, NoneClosing
    <2> QED
      BY <1>0, <1>2, <2>1, <2>2
  <1>5. LoopInv'
    BY ZenonT(30), <1>0, <1>1, <1>4 DEF LoopInv, At
  <1>6. CallbackInv'
    BY <1>0, <1>3 DEF CallbackInv
  <1> QED
    BY <1>3, <1>5, <1>6 DEF ConnectionsInv

\* readEof keeps the invariant.
LEMMA readEofKeeps ==
    ASSUME ConnectionsInv, readEof
    PROVE  ConnectionsInv'
  <1>1. stage \in {"in", "read"} /\ BeginFree(now.fd, "out")
    BY DEF readEof
  <1>2. now.fd \in Monitored(io)
    <2>1. CASE stage = "in"
      BY ZenonT(30), <2>1, NodeMonitored DEF readEof, Reads
    <2>2. CASE stage = "read"
      BY ZenonT(30), <2>2 DEF ConnectionsInv, LoopInv, At
    <2> QED
      BY ZenonT(30), <1>1, <2>1, <2>2
  <1>3. UNCHANGED <<io, now, dispatcher, status, calling, type, notices, life>>
    BY DEF readEof, environment
  <1> QED
    BY ZenonT(30), <1>1, <1>2, <1>3, FreeBegins

\* writeFails keeps the invariant.
LEMMA writeFailsKeeps ==
    ASSUME ConnectionsInv, writeFails
    PROVE  ConnectionsInv'
  <1>1. stage = "out" /\ BeginFree(now.fd, "next") /\ NodeMonitors(now.fd)
    BY DEF writeFails, Writes
  <1>2. now.fd \in Monitored(io)
    BY <1>1, NodeMonitored
  <1>3. UNCHANGED <<io, now, dispatcher, status, calling, type, notices, life>>
    BY DEF writeFails
  <1> QED
    BY ZenonT(30), <1>1, <1>2, <1>3, FreeBegins

\* What handleReply does with a callback that is registered.
LEMMA ReplyHandled ==
    ASSUME ConnectionsInv, NEW e \in Callbacks, e \in cbs, status[e] = "held", NEW error, NEW to,
           handleReply(e, error, to)
    PROVE  /\ io' = io /\ cbs \ {e} \subseteq cbs' /\ cbs' \subseteq cbs
           /\ \E v \in {"done", "idle"} : status' = [status EXCEPT ![e] = v]
           /\ timer' \in BOOLEAN /\ (type = "SINGLE" => timer' = timer)
           /\ type = "CLUSTER" /\ timer' => status'[Verify] # "held"
           /\ \/ stage' = to
              \/ /\ stage' = "client" /\ calling'.to = to
                 /\ calling'.cb \in Commands /\ status'[calling'.cb] = "done"
  <1>0. /\ status \in [Callbacks -> {"idle", "held", "posted", "done"}] /\ timer \in BOOLEAN
        /\ type \in {"SINGLE", "CLUSTER"}
        /\ type = "CLUSTER" /\ timer => status[Verify] # "held"
    BY ZenonT(30) DEF ConnectionsInv, TypeInv, ConnectInv, Attempts
  <1>1. CASE e # Verify /\ CallClient(e, to) /\ UNCHANGED io
    <2>1. /\ status' = [status EXCEPT ![e] = "done"] /\ calling' = [cb |-> e, to |-> to]
          /\ stage' = "client" /\ timer' = timer /\ cbs' = cbs /\ e \in Commands
      BY <1>1 DEF CallClient, dispatcher, Callbacks
    <2>2. status'[e] = "done" /\ status'[Verify] = status[Verify]
      BY <1>0, <1>1, <2>1 DEF Callbacks
    <2>3. calling'.cb = e /\ calling'.to = to
      BY <2>1
    <2> QED
      BY ZenonT(30), <1>0, <1>1, <2>1, <2>2, <2>3
  <1>2. ASSUME NEW err, e = Verify, verifyConnectionReply(err, to), UNCHANGED io
        PROVE  /\ io' = io /\ cbs' = cbs \ {e} /\ status' = [status EXCEPT ![e] = "idle"]
               /\ timer' \in BOOLEAN /\ (type = "SINGLE" => timer' = timer)
               /\ status'[Verify] = "idle" /\ stage' = to
    <2>1. /\ cbs' = cbs \ {Verify} /\ status' = [status EXCEPT ![Verify] = "idle"] /\ stage' = to
          /\ timer' = timer \/ timer' = (timer \/ type = "CLUSTER")
      BY <1>2 DEF verifyConnectionReply
    <2>2. status'[Verify] = "idle"
      BY <1>0, <2>1 DEF Callbacks
    <2> QED
      BY ZenonT(30), <1>0, <1>2, <2>1, <2>2
  <1>3. \/ e # Verify /\ CallClient(e, to) /\ UNCHANGED io
        \/ \E err \in {error, TRUE} : e = Verify /\ verifyConnectionReply(err, to) /\ UNCHANGED io
    BY ZenonT(30) DEF handleReply
  <1>4. CASE \E err \in {error, TRUE} : e = Verify /\ verifyConnectionReply(err, to) /\ UNCHANGED io
    BY ZenonT(30), <1>2, <1>4
  <1> QED
    BY ZenonT(30), <1>1, <1>3, <1>4

\* The first callback of a context is called, with a reply or because it is freed.
LEMMA AnsweredKeeps ==
    ASSUME ConnectionsInv, NEW fd \in Monitored(io), NEW x \in Contexts, NEW e,
           x.owner = ctx[fd].owner, x.phase = ctx[fd].phase,
           x.unsent = ctx[fd].unsent \/ x.phase = "closing",
           Popped(Queue(ctx[fd]), e, Queue(x)), ctx' = [ctx EXCEPT ![fd] = x],
           NEW error, NEW to, handleReply(e, error, to),
           \/ to = "read" /\ stage \in {"in", "read"} /\ fd = now.fd
           \/ to = "closing" /\ stage = "closing",
           UNCHANGED <<now, back, type, notices, life, reported>>
    PROVE  ConnectionsInv'
  <1>1. /\ life = "alive" /\ fd \in FDs /\ HasAdapter(ctx[fd], type) /\ fd \in DOMAIN io.nodes
        /\ ctx[fd] \in Contexts /\ Queue(ctx[fd]) \in Seq(Callbacks)
    BY MonitoredOpen
  <1>2. /\ DOMAIN ctx = FDs /\ DOMAIN status = Callbacks /\ Monitored(io) \subseteq FDs
        /\ now' = now /\ back' = back /\ type' = type /\ notices' = notices /\ life' = life
        /\ Held(Monitored(io), ctx, cbs, status)
    BY ZenonT(30), MonitoredOpen DEF ConnectionsInv, TypeInv, CallbackInv
  <1>3. /\ e \in Callbacks /\ e \in cbs /\ status[e] = "held"
        /\ \A v : Held(Monitored(io), ctx', cbs \ {e}, [status EXCEPT ![e] = v])
    <2>1. Shaped(Monitored(io), ctx, status)
      BY ZenonT(30), IsShaped
    <2>2. ASSUME NEW v
          PROVE  /\ e \in Callbacks /\ e \in cbs /\ status[e] = "held"
                 /\ Held(Monitored(io), [ctx EXCEPT ![fd] = x], cbs \ {e}, [status EXCEPT ![e] = v])
      BY ZenonT(30), <1>2, <2>1, HeldPopped
    <2> QED
      BY ZenonT(30), <2>2
  <1>4. /\ io' = io /\ cbs \ {e} \subseteq cbs' /\ cbs' \subseteq cbs
        /\ \E v \in {"done", "idle"} : status' = [status EXCEPT ![e] = v]
        /\ timer' \in BOOLEAN /\ (type = "SINGLE" => timer' = timer)
        /\ type = "CLUSTER" /\ timer' => status'[Verify] # "held"
        /\ \/ stage' = to
           \/ /\ stage' = "client" /\ calling'.to = to
              /\ calling'.cb \in Commands /\ status'[calling'.cb] = "done"
    BY ZenonT(30), <1>3, ReplyHandled
  <1>a. TypeInv'
    <2>1. status' \in [Callbacks -> {"idle", "held", "posted", "done"}]
      BY ZenonT(30), <1>4 DEF ConnectionsInv, TypeInv
    <2>2. ctx' \in [FDs -> {NoContext} \cup Contexts]
      BY ZenonT(30) DEF ConnectionsInv, TypeInv
    <2> QED
      BY ZenonT(30), <1>2, <1>4, <2>1, <2>2 DEF ConnectionsInv, TypeInv
  <1>b. AdapterInv'
    <2>1. Adapted(io, ctx, now.served, type)
      BY <1>1 DEF ConnectionsInv, AdapterInv
    <2>2. HasAdapter(x, type) <=> HasAdapter(ctx[fd], type)
      BY ZenonT(30) DEF HasAdapter
    <2>3. Listens(io.nodes[fd], x)
      BY ZenonT(30), <2>1 DEF Adapted, Listens
    <2>4. Adapted(io, ctx', now.served, type)
      BY ZenonT(30), <1>1, <1>2, <2>1, <2>2, <2>3, AdaptedSame
    <2> QED
      BY ZenonT(30), <1>1, <1>2, <1>4, <2>4 DEF AdapterInv
  <1>c. LoopInv'
    <2>1. At(to)' /\ (\A t : t # to /\ t # "client" => ~At(t)')
      BY ZenonT(30), <1>4 DEF At
    <2>2. \A gd \in FDs : ctx'[gd].phase = ctx[gd].phase
      BY ZenonT(30), <1>2
    <2>3. stage' # "loop" /\ to \in {"read", "closing"}
      BY ZenonT(30), <1>4
    <2>4. stage' = "client" => calling'.to = to
      BY <1>4
    <2>5. CASE to = "read"
      <3>1. \A gd \in FDs : ctx'[gd].phase # "closing"
        <4>1. ~At("closing")
          BY ZenonT(30), <2>5 DEF At
        <4> QED
          BY ZenonT(30), <2>2, <4>1, NoneClosing
      <3> QED
        BY ZenonT(30), <1>1, <1>2, <1>4, <2>1, <2>3, <2>4, <2>5, <3>1 DEF LoopInv
    <2>6. CASE to = "closing"
      <3>1. At("closing")
        BY ZenonT(30), <2>6 DEF At
      <3>2. /\ back \in {"out", "next", "notified"}
            /\ \A gd, hd \in FDs : ctx[gd].phase = "closing" /\ ctx[hd].phase = "closing" => gd = hd
        BY ZenonT(30), <3>1 DEF ConnectionsInv, LoopInv
      <3>3. \A gd, hd \in FDs : ctx'[gd].phase = "closing" /\ ctx'[hd].phase = "closing" => gd = hd
        BY ZenonT(30), <2>2, <3>2
      <3>4. At("closing")' /\ ~At("read")'
        BY ZenonT(30), <2>1, <2>6
      <3> QED
        BY ZenonT(30), <1>1, <1>2, <2>3, <2>4, <2>6, <3>2, <3>3, <3>4 DEF LoopInv
    <2> QED
      BY ZenonT(30), <2>3, <2>5, <2>6
  <1>d. CallbackInv'
    <2>1. Held(Monitored(io), ctx', cbs \ {e}, status')
      BY ZenonT(30), <1>3, <1>4
    <2>2. \A f \in cbs \ {e} : status'[f] = "held" => f \in cbs' /\ status'[f] = "held"
      BY ZenonT(30), <1>4
    <2>3. Held(Monitored(io), ctx', cbs', status')
      BY ONLY <2>1, <2>2, HeldFewer
    <2>4. stage' = "client" => calling'.cb \in Commands /\ status'[calling'.cb] = "done"
      BY ZenonT(30), <1>4
    <2> QED
      BY <1>4, <2>3, <2>4 DEF CallbackInv
  <1>e. ConnectInv'
    <2>1. Owned(x) => Owned(ctx[fd])
      BY ZenonT(30) DEF Owned
    <2>2. Attempts(ctx, type, timer, status[Verify])
      BY DEF ConnectionsInv, ConnectInv
    <2>3. type = "SINGLE" /\ x.phase = "connecting" =>
             \A k \in DOMAIN Queue(x) : Queue(x)[k] # Verify
      <3>1. \A k \in DOMAIN Queue(x) : k + 1 \in DOMAIN Queue(ctx[fd])
                                       /\ Queue(x)[k] = Queue(ctx[fd])[k + 1]
        BY DEF Popped
      <3> QED
        BY ZenonT(30), <1>1, <2>2, <3>1 DEF Attempts
    <2>4. Attempts(ctx', type, timer, status[Verify])
      BY ZenonT(30), <1>1, <1>2, <2>1, <2>2, <2>3, AttemptsChanged
    <2>5. Attempts(ctx', type, timer', status'[Verify])
      BY ZenonT(30), <1>4, <2>4 DEF Attempts
    <2> QED
      BY ZenonT(30), <1>1, <1>2, <2>5 DEF ConnectInv
  <1> QED
    BY ZenonT(30), <1>a, <1>b, <1>c, <1>d, <1>e DEF ConnectionsInv

\* readReply keeps the invariant.
LEMMA readReplyKeeps ==
    ASSUME ConnectionsInv, readReply
    PROVE  ConnectionsInv'
  <1> DEFINE fd == now.fd
             x == [ctx[fd] EXCEPT !.sent = Tail(@)]
  <1>0. /\ stage \in {"in", "read"} /\ ctx[fd].sent # <<>> /\ ctx' = [ctx EXCEPT ![fd] = x]
        /\ handleReply(Head(ctx[fd].sent), FALSE, "read")
        /\ UNCHANGED <<now, back, type, notices, life, reported>>
    BY ZenonT(30) DEF readReply
  <1>1. fd \in Monitored(io)
    <2>1. CASE stage = "in"
      BY ZenonT(30), <2>1, NodeMonitored DEF readReply, Reads
    <2>2. CASE stage = "read"
      BY ZenonT(30), <2>2 DEF ConnectionsInv, LoopInv, At
    <2> QED
      BY <1>0, <2>1, <2>2
  <1>2. ctx[fd] \in Contexts
    BY <1>1, MonitoredOpen
  <1>3. /\ x \in Contexts /\ x.owner = ctx[fd].owner /\ x.phase = ctx[fd].phase
        /\ x.unsent = ctx[fd].unsent /\ x.sent = Tail(ctx[fd].sent)
    <2>1. Tail(ctx[fd].sent) \in Seq(Callbacks)
      <3>1. ctx[fd].sent \in Seq(Callbacks) /\ ctx[fd].sent # <<>>
        BY <1>0, <1>2 DEF Contexts
      <3> QED
        BY <3>1
    <2>2. ASSUME NEW q \in Seq(Callbacks)
          PROVE  LET y == [ctx[fd] EXCEPT !.sent = q]
                 IN  /\ y \in Contexts /\ y.owner = ctx[fd].owner /\ y.phase = ctx[fd].phase
                     /\ y.unsent = ctx[fd].unsent /\ y.sent = q
      BY ZenonT(30), <1>2 DEF Contexts
    <2> QED
      BY ZenonT(30), <2>1, <2>2
  <1>4. Popped(Queue(ctx[fd]), Head(ctx[fd].sent), Queue(x))
    <2>1. ctx[fd].sent \in Seq(Callbacks) /\ ctx[fd].unsent \in Seq(Callbacks)
      BY <1>2 DEF Contexts
    <2>2. ASSUME NEW p \in Seq(Callbacks), NEW q \in Seq(Callbacks), p # <<>>
          PROVE  Popped(p \o q, Head(p), Tail(p) \o q)
      BY <2>2 DEF Popped
    <2> HIDE DEF x
    <2> QED
      BY ZenonT(30), <1>0, <1>3, <2>1, <2>2 DEF Queue
  <1> HIDE DEF x, fd
  <1>5. fd = now.fd
    BY DEF fd
  <1> QED
    BY ZenonT(30), <1>0, <1>1, <1>3, <1>4, <1>5, AnsweredKeeps

\* A context that is being freed still has its adapter.
LEMMA ClosingMonitored ==
    ASSUME ConnectionsInv, NEW fd \in FDs, ctx[fd].phase = "closing"
    PROVE  fd \in Monitored(io)
  <1>1. life = "alive"
    BY DEF ConnectionsInv, LoopInv, At
  <1> QED
    BY <1>1 DEF ConnectionsInv, AdapterInv, Adapted, HasAdapter

\* pendingCallback keeps the invariant.
LEMMA pendingCallbackKeeps ==
    ASSUME ConnectionsInv, NEW fd \in FDs, pendingCallback(fd)
    PROVE  ConnectionsInv'
  <1> DEFINE x == [ctx[fd] EXCEPT !.sent = Tail(Pending(fd)), !.unsent = <<>>]
  <1>0. /\ stage = "closing" /\ ctx[fd].phase = "closing" /\ Queue(ctx[fd]) # <<>>
        /\ ctx' = [ctx EXCEPT ![fd] = x]
        /\ handleReply(Head(Queue(ctx[fd])), TRUE, "closing")
        /\ UNCHANGED <<now, back, type, notices, life, reported>>
    BY ZenonT(30) DEF pendingCallback, Closing, Pending, Queue
  <1>1. fd \in Monitored(io)
    BY ZenonT(30), <1>0, ClosingMonitored
  <1>2. ctx[fd] \in Contexts /\ Queue(ctx[fd]) \in Seq(Callbacks)
    BY <1>1, MonitoredOpen
  <1>3. Pending(fd) = Queue(ctx[fd]) /\ Tail(Queue(ctx[fd])) \in Seq(Callbacks)
    BY <1>0, <1>2 DEF Pending, Queue
  <1>4. /\ x \in Contexts /\ x.owner = ctx[fd].owner /\ x.phase = ctx[fd].phase
        /\ x.unsent = <<>> /\ x.sent = Tail(Queue(ctx[fd]))
    <2>1. ASSUME NEW q \in Seq(Callbacks), NEW r \in Seq(Callbacks)
          PROVE  LET y == [ctx[fd] EXCEPT !.sent = q, !.unsent = r]
                 IN  /\ y \in Contexts /\ y.owner = ctx[fd].owner /\ y.phase = ctx[fd].phase
                     /\ y.unsent = r /\ y.sent = q
      BY ZenonT(30), <1>2 DEF Contexts
    <2>a. <<>> \in Seq(Callbacks)
      OBVIOUS
    <2>2. PICK r \in Seq(Callbacks) : r = <<>>
      BY ZenonT(30), <2>a
    <2>3. PICK q \in Seq(Callbacks) : q = Tail(Queue(ctx[fd]))
      BY ZenonT(30), <1>3
    <2>4. x = [ctx[fd] EXCEPT !.sent = q, !.unsent = r]
      BY <1>3, <2>2, <2>3
    <2> HIDE DEF x
    <2>5. /\ x \in Contexts /\ x.owner = ctx[fd].owner /\ x.phase = ctx[fd].phase
          /\ x.unsent = r /\ x.sent = q
      BY ZenonT(30), <2>1, <2>4
    <2> QED
      BY <2>2, <2>3, <2>5
  <1> HIDE DEF x
  <1>5. Popped(Queue(ctx[fd]), Head(Queue(ctx[fd])), Queue(x))
    <2>1. ASSUME NEW p \in Seq(Callbacks) PROVE p \o <<>> = p
      OBVIOUS
    <2>2. Queue(x) = Tail(Queue(ctx[fd]))
      BY <1>3, <1>4, <2>1 DEF Queue
    <2> QED
      BY <1>0, <1>2, <2>2 DEF Popped
  <1> QED
    BY ZenonT(30), <1>0, <1>1, <1>4, <1>5, AnsweredKeeps

-----------------------------------------------------------------------------
(* Writing and freeing.                                                     *)

\* The context after a write.
LEMMA WrittenContext ==
    ASSUME NEW y \in Contexts, NEW v \in Seq(Callbacks)
    PROVE  LET x == [y EXCEPT !.phase = "open", !.connected = TRUE,
                              !.sent = @ \o y.unsent \o v, !.unsent = <<>>]
           IN  /\ x \in Contexts /\ x.phase = "open" /\ x.owner = y.owner /\ x.unsent = <<>>
               /\ Queue(x) = Queue(y) \o v /\ Queue(y) \in Seq(Callbacks)
  <1> DEFINE q == y.sent \o y.unsent \o v
  <1>1. y.sent \in Seq(Callbacks) /\ y.unsent \in Seq(Callbacks)
    BY DEF Contexts
  <1>2. q \in Seq(Callbacks) /\ q \o <<>> = q /\ y.sent \o y.unsent \in Seq(Callbacks)
    BY <1>1
  <1>3. ASSUME NEW r \in Seq(Callbacks), NEW u \in Seq(Callbacks)
        PROVE  LET x == [y EXCEPT !.phase = "open", !.connected = TRUE, !.sent = r, !.unsent = u]
               IN  /\ x \in Contexts /\ x.phase = "open" /\ x.owner = y.owner /\ x.unsent = u
                   /\ x.sent = r
    BY ZenonT(30) DEF Contexts
  <1>4. <<>> \in Seq(Callbacks)
    OBVIOUS
  <1> HIDE DEF q
  <1>5. LET x == [y EXCEPT !.phase = "open", !.connected = TRUE, !.sent = q, !.unsent = <<>>]
        IN  /\ x \in Contexts /\ x.phase = "open" /\ x.owner = y.owner /\ x.unsent = <<>>
            /\ x.sent = q
    BY ZenonT(30), <1>2, <1>3, <1>4
  <1> QED
    BY ZenonT(30), <1>2, <1>5 DEF Queue, q

\* write keeps the invariant: the query that verifies a connection is sent once.
LEMMA writeKeeps ==
    ASSUME ConnectionsInv, write
    PROVE  ConnectionsInv'
  <1> DEFINE fd == now.fd
             verifies == type = "SINGLE" /\ ctx[fd].phase = "connecting"
             v == IF verifies THEN <<Verify>> ELSE <<>>
             x == [ctx[fd] EXCEPT !.phase = "open", !.connected = TRUE,
                                  !.sent = @ \o ctx[fd].unsent \o v, !.unsent = <<>>]
  <1>1. stage = "out" /\ NodeMonitors(fd)
    BY DEF write, Writes
  <1>2. fd \in Monitored(io)
    BY ZenonT(30), <1>1, NodeMonitored
  <1>3. /\ life = "alive" /\ fd \in FDs /\ HasAdapter(ctx[fd], type) /\ fd \in DOMAIN io.nodes
        /\ ctx[fd] \in Contexts
    BY ZenonT(30), <1>2, MonitoredOpen
  <1>4. /\ DOMAIN ctx = FDs /\ Shaped(Monitored(io), ctx, status)
        /\ Held(Monitored(io), ctx, cbs, status) /\ ~At("closing")
        /\ \A gd \in FDs : ctx[gd].phase # "closing"
    BY <1>1, IsShaped, NoneClosing DEF At, Shaped
  <1>5. /\ ctx' = [ctx EXCEPT ![fd] = x]
        /\ io' = addRead(delWrite(io, fd), fd)
        /\ IF verifies THEN timer' = FALSE /\ Hold(Verify)
                       ELSE timer' = timer /\ UNCHANGED <<cbs, status>>
        /\ stage' = "next" /\ now' = now /\ back' = back /\ calling' = calling
        /\ type' = type /\ notices' = notices /\ life' = life
    BY ZenonT(30), <1>3, <1>4 DEF write, environment, dispatcher
  <1>t. timer' = timer
    <2>1. verifies => Owned(ctx[fd]) /\ timer \in BOOLEAN
      BY <1>3, <1>4 DEF HasAdapter, Owned, ConnectionsInv, TypeInv
    <2>2. verifies /\ timer => ~Owned(ctx[fd])
      BY ZenonT(30), <1>3 DEF ConnectionsInv, ConnectInv, Attempts
    <2> QED
      BY ZenonT(30), <1>5, <2>1, <2>2
  <1>6. v \in Seq(Callbacks)
    <2>1. Verify \in Callbacks
      BY DEF Callbacks
    <2>2. <<Verify>> \in Seq(Callbacks) /\ <<>> \in Seq(Callbacks)
      BY <2>1
    <2> QED
      BY ZenonT(30), <2>2
  <1>7. /\ x \in Contexts /\ x.phase = "open" /\ x.owner = ctx[fd].owner /\ x.unsent = <<>>
        /\ Queue(x) = Queue(ctx[fd]) \o v /\ Queue(ctx[fd]) \in Seq(Callbacks)
    <2> HIDE DEF v
    <2> QED
      BY ZenonT(30), <1>3, <1>6, WrittenContext
  <1> HIDE DEF x, fd
  <1>8. Adapted(io, ctx, now.served, type)
    BY ZenonT(30), <1>3 DEF ConnectionsInv, AdapterInv
  <1>9. /\ Sound(io', now.served) /\ OthersKept(io, io', fd) /\ Monitored(io') = Monitored(io)
        /\ io'.nodes[fd].reading
    BY ZenonT(30), <1>2, <1>5, <1>8, WrittenSound DEF Adapted
  <1>b. AdapterInv'
    <2>1. HasAdapter(x, type)
      BY ZenonT(30), <1>3, <1>4, <1>7 DEF HasAdapter
    <2>2. Listens(io'.nodes[fd], x)
      BY <1>7, <1>9 DEF Listens
    <2>3. Monitored(io') = Monitored(io) \cup {fd}
      BY <1>2, <1>9
    <2>4. Adapted(io', ctx', now.served, type)
      BY ZenonT(30), <1>3, <1>4, <1>5, <1>8, <1>9, <2>1, <2>2, <2>3, AdaptedChanged
    <2> QED
      BY ZenonT(30), <1>3, <1>5, <2>4 DEF AdapterInv
  <1>c. LoopInv'
    <2>1. \A gd \in FDs : ctx'[gd].phase # "closing"
      BY ZenonT(30), <1>4, <1>5, <1>7
    <2> QED
      BY ZenonT(30), <1>3, <1>5, <2>1 DEF LoopInv, At
  <1>d. CallbackInv' /\ cbs' \subseteq Callbacks /\ (type = "CLUSTER" => status' = status)
        /\ status' \in [Callbacks -> {"idle", "held", "posted", "done"}]
    <2>0. /\ status \in [Callbacks -> {"idle", "held", "posted", "done"}] /\ cbs \subseteq Callbacks
          /\ Verify \in Callbacks
      BY DEF ConnectionsInv, TypeInv, Callbacks
    <2>1. CASE verifies
      <3>1. cbs' = cbs \cup {Verify} /\ status' = [status EXCEPT ![Verify] = "held"]
        BY ZenonT(30), <1>5, <2>1 DEF Hold
      <3>2. Appended(Queue(ctx[fd]), Verify, Queue(x))
        BY <1>7, <2>0, <2>1 DEF Appended
      <3>3. Elsewhere(Monitored(io), ctx, Verify)
        <4>1. Attempts(ctx, type, timer, status[Verify])
          BY ZenonT(30) DEF ConnectionsInv, ConnectInv
        <4>2. \A gd \in Monitored(io) : gd \in FDs /\ Owned(ctx[gd])
          BY ZenonT(30), <1>4, <2>1, MonitoredOpen DEF HasAdapter, Owned
        <4>3. \A gd \in Monitored(io) : gd = fd
          BY ZenonT(30), <1>2, <2>1, <4>1, <4>2 DEF Attempts
        <4>4. \A k \in DOMAIN Queue(ctx[fd]) : Queue(ctx[fd])[k] # Verify
          BY <1>3, <2>1, <4>1 DEF Attempts
        <4> QED
          BY ZenonT(30), <4>3, <4>4 DEF Elsewhere
      <3>4. Held(Monitored(io), [ctx EXCEPT ![fd] = x], cbs \cup {Verify},
                 [status EXCEPT ![Verify] = "held"])
        BY ZenonT(30), <1>2, <1>4, <3>2, <3>3, HeldAppended
      <3> QED
        BY ZenonT(30), <1>5, <1>9, <2>0, <2>1, <3>1, <3>4 DEF CallbackInv
    <2>2. CASE ~verifies
      <3>1. cbs' = cbs /\ status' = status /\ Queue(x) = Queue(ctx[fd])
        BY <1>5, <1>7, <2>2
      <3>2. \A gd \in Monitored(io) : Queue(ctx'[gd]) = Queue(ctx[gd])
        BY ZenonT(30), <1>3, <1>4, <1>5, <3>1 DEF Shaped
      <3>3. Held(Monitored(io), ctx, cbs, status) /\ Monitored(io) \subseteq Monitored(io)
            /\ \A f \in cbs : status[f] = "held" => f \in cbs /\ status[f] = "held"
        BY ZenonT(30), <1>4
      <3>4. Held(Monitored(io), ctx', cbs, status)
        BY ONLY ZenonT(30), <3>2, <3>3, HeldFewer
      <3> QED
        BY ZenonT(30), <1>5, <1>9, <2>0, <3>1, <3>4 DEF CallbackInv
    <2> HIDE DEF verifies
    <2> QED
      BY ZenonT(30), <2>1, <2>2
  <1>a. TypeInv'
    <2>1. ctx' \in [FDs -> {NoContext} \cup Contexts]
      BY ZenonT(30), <1>5, <1>7 DEF ConnectionsInv, TypeInv
    <2> QED
      BY <1>d, <1>5, <1>t, <2>1 DEF ConnectionsInv, TypeInv
  <1>e. ConnectInv'
    <2>1. Attempts(ctx, type, timer, status[Verify])
      BY DEF ConnectionsInv, ConnectInv
    <2>2. Owned(x) => Owned(ctx[fd])
      BY <1>3, <1>7 DEF Owned, HasAdapter
    <2>3. Attempts(ctx', type, timer, status[Verify])
      BY ZenonT(30), <1>3, <1>4, <1>5, <1>7, <2>1, <2>2, AttemptsChanged
    <2>4. Attempts(ctx', type, timer, status'[Verify])
      BY <1>d, <2>3 DEF Attempts
    <2> QED
      BY ZenonT(30), <1>3, <1>5, <1>t, <2>4 DEF ConnectInv
  <1> QED
    BY <1>a, <1>b, <1>c, <1>d, <1>e DEF ConnectionsInv

\* free keeps the invariant.
LEMMA freeKeeps ==
    ASSUME ConnectionsInv, NEW fd \in FDs, free(fd)
    PROVE  ConnectionsInv'
  <1>1. /\ stage = "closing" /\ ctx[fd].phase = "closing" /\ io' = Freed(io, fd)
        /\ ctx' = [ctx EXCEPT ![fd] = NoContext] /\ stage' = back
        /\ IF type = "SINGLE" /\ Current(fd) THEN timer' = TRUE ELSE timer' = timer
        /\ now' = now /\ back' = back /\ cbs' = cbs /\ status' = status /\ calling' = calling
        /\ type' = type /\ notices' = notices /\ life' = life
    BY DEF free, Closing, armConnectionRetryTimer, environment
  <1>2. fd \in Monitored(io)
    BY <1>1, ClosingMonitored
  <1>3. life = "alive" /\ Adapted(io, ctx, now.served, type) /\ DOMAIN ctx = FDs
    BY ZenonT(30), <1>2, MonitoredOpen, IsShaped DEF ConnectionsInv, AdapterInv, Shaped
  <1>4. /\ Sound(io', now.served) /\ OthersKept(io, io', fd)
        /\ Monitored(io') = Monitored(io) \ {fd}
        /\ type = "SINGLE" => DOMAIN io'.nodes = DOMAIN io.nodes \ {fd}
    BY ZenonT(30), <1>1, <1>2, <1>3, FreedSound DEF Adapted
  <1>5. ~HasAdapter(NoContext, type) /\ ~Owned(NoContext) /\ NoContext.phase = "none"
    BY ZenonT(30) DEF HasAdapter, Owned, NoContext
  <1>a. TypeInv'
    <2>1. ctx' \in [FDs -> {NoContext} \cup Contexts]
      BY ZenonT(30), <1>1 DEF ConnectionsInv, TypeInv
    <2>2. timer' \in BOOLEAN
      BY ZenonT(30), <1>1 DEF ConnectionsInv, TypeInv
    <2> QED
      BY ZenonT(30), <1>1, <2>1, <2>2 DEF ConnectionsInv, TypeInv
  <1>b. AdapterInv'
    <2>1. Adapted(io', ctx', now.served, type)
      BY ZenonT(30), <1>1, <1>3, <1>4, <1>5, AdaptedChanged
    <2> QED
      BY <1>1, <1>3, <2>1 DEF AdapterInv
  <1>c. LoopInv'
    <2>1. At("closing") /\ ctx'[fd] = NoContext /\ \A gd \in FDs : gd # fd => ctx'[gd] = ctx[gd]
      BY ZenonT(30), <1>1, <1>3 DEF At
    <2>2. \A gd \in FDs : ctx'[gd].phase # "closing"
      BY ZenonT(30), <1>1, <1>5, <2>1 DEF ConnectionsInv, LoopInv
    <2>3. back \in {"out", "next", "notified"}
      BY ZenonT(30), <2>1 DEF ConnectionsInv, LoopInv
    <2> QED
      BY ZenonT(30), <1>1, <1>3, <2>2, <2>3 DEF LoopInv, At
  <1>d. CallbackInv'
    <2>1. \A gd \in Monitored(io') : Queue(ctx'[gd]) = Queue(ctx[gd])
      <3>1. Monitored(io) \subseteq FDs
        BY ZenonT(30), MonitoredOpen
      <3> QED
        BY ZenonT(30), <1>1, <1>3, <1>4, <3>1
    <2>2. /\ Held(Monitored(io), ctx, cbs, status) /\ Monitored(io') \subseteq Monitored(io)
          /\ \A f \in cbs : status[f] = "held" => f \in cbs /\ status[f] = "held"
      BY ZenonT(30), <1>4, IsShaped
    <2>3. Held(Monitored(io'), ctx', cbs, status)
      BY ONLY <2>1, <2>2, HeldFewer
    <2>4. stage' # "client"
      BY ZenonT(30), <1>1 DEF ConnectionsInv, LoopInv, At
    <2> QED
      BY ZenonT(30), <1>1, <2>3, <2>4 DEF CallbackInv
  <1>e. ConnectInv'
    <2>1. Attempts(ctx, type, timer, status[Verify])
      BY DEF ConnectionsInv, ConnectInv
    <2>2. Attempts(ctx', type, timer, status[Verify])
      BY ZenonT(30), <1>1, <1>3, <1>5, <2>1, AttemptsChanged
    <2>3. ASSUME type = "SINGLE", timer' PROVE \A gd \in FDs : ~Owned(ctx'[gd])
      <3>1. CASE Current(fd)
        <4>1. \A gd \in FDs : Owned(ctx[gd]) => gd = fd
          BY <2>1, <2>3, <3>1 DEF Attempts, Current, Open, Owned
        <4> QED
          BY ZenonT(30), <1>1, <1>3, <1>5, <4>1
      <3>2. CASE ~Current(fd)
        BY ZenonT(30), <1>1, <2>2, <2>3, <3>2 DEF Attempts
      <3> QED
        BY ZenonT(30), <3>1, <3>2
    <2>4. type = "CLUSTER" => timer' = timer
      BY ZenonT(30), <1>1
    <2>5. Attempts(ctx', type, timer', status[Verify])
      BY <2>2, <2>3, <2>4 DEF Attempts
    <2> QED
      BY <1>1, <1>3, <2>5 DEF ConnectInv
  <1> QED
    BY ZenonT(30), <1>a, <1>b, <1>c, <1>d, <1>e DEF ConnectionsInv

\* executePosted keeps the invariant.
LEMMA executePostedKeeps ==
    ASSUME ConnectionsInv, NEW e \in Callbacks, executePosted(e)
    PROVE  ConnectionsInv'
  <1>0. /\ stage = "event" /\ status[e] = "posted" /\ now' = now /\ back' = back /\ io' = io
        /\ ctx' = ctx /\ type' = type /\ notices' = notices /\ life' = life
    BY ZenonT(30) DEF executePosted
  <1>1. /\ status \in [Callbacks -> {"idle", "held", "posted", "done"}] /\ timer \in BOOLEAN
        /\ type \in {"SINGLE", "CLUSTER"} /\ cbs \subseteq Callbacks
        /\ Attempts(ctx, type, timer, status[Verify]) /\ life = "alive"
    BY <1>0 DEF ConnectionsInv, TypeInv, ConnectInv, LoopInv
  <1>2. /\ cbs \ {e} \subseteq cbs' /\ cbs' \subseteq cbs
        /\ \E v \in {"done", "idle"} : status' = [status EXCEPT ![e] = v]
        /\ timer' \in BOOLEAN /\ (type = "SINGLE" => timer' = timer)
        /\ type = "CLUSTER" /\ timer' => status'[Verify] # "held"
        /\ \/ stage' = "event"
           \/ /\ stage' = "client" /\ calling'.to = "event"
              /\ calling'.cb \in Commands /\ status'[calling'.cb] = "done"
    <2>1. CASE e # Verify /\ CallClient(e, "event")
      <3>1. /\ status' = [status EXCEPT ![e] = "done"] /\ calling' = [cb |-> e, to |-> "event"]
            /\ stage' = "client" /\ timer' = timer /\ cbs' = cbs /\ e \in Commands
        BY ZenonT(30), <2>1 DEF CallClient, dispatcher, Callbacks
      <3>2. status'[e] = "done" /\ status'[Verify] = status[Verify]
        BY ZenonT(30), <1>1, <2>1, <3>1 DEF Callbacks
      <3>3. calling'.cb = e /\ calling'.to = "event"
        BY ZenonT(30), <3>1
      <3>4. type = "CLUSTER" /\ timer => status[Verify] # "held"
        BY ZenonT(30), <1>1 DEF Attempts
      <3> QED
        BY ZenonT(30), <1>1, <3>1, <3>2, <3>3, <3>4
    <2>2. CASE e = Verify /\ verifyConnectionReply(TRUE, "event")
      <3>1. /\ cbs' = cbs \ {e} /\ status' = [status EXCEPT ![e] = "idle"] /\ stage' = "event"
            /\ timer' = (timer \/ type = "CLUSTER")
        BY <2>2 DEF verifyConnectionReply
      <3>2. status'[Verify] = "idle"
        BY ZenonT(30), <1>1, <2>2, <3>1
      <3> QED
        BY ZenonT(30), <1>1, <3>1, <3>2
    <2> QED
      BY ZenonT(30), <2>1, <2>2 DEF executePosted
  <1>a. TypeInv'
    <2>1. status' \in [Callbacks -> {"idle", "held", "posted", "done"}]
      BY ZenonT(30), <1>1, <1>2
    <2> QED
      BY ZenonT(30), <1>0, <1>1, <1>2, <2>1 DEF ConnectionsInv, TypeInv
  <1>b. AdapterInv'
    BY ZenonT(30), <1>0 DEF ConnectionsInv, AdapterInv
  <1>c. LoopInv'
    <2>1. ~At("closing") /\ ~At("closing")' /\ ~At("read")'
      BY ZenonT(30), <1>0, <1>2 DEF At
    <2> QED
      BY ZenonT(30), <1>0, <1>1, <1>2, <2>1, NoneClosing DEF LoopInv
  <1>d. CallbackInv'
    <2>1. \A f \in cbs : status[f] = "held" => f \in cbs' /\ status'[f] = "held"
      BY ZenonT(30), <1>0, <1>1, <1>2
    <2>2. /\ Held(Monitored(io), ctx, cbs, status) /\ Monitored(io) \subseteq Monitored(io)
          /\ \A gd \in Monitored(io) : Queue(ctx[gd]) = Queue(ctx[gd])
      BY ZenonT(30), IsShaped
    <2>3. Held(Monitored(io), ctx, cbs', status')
      BY ONLY ZenonT(30), <2>1, <2>2, HeldFewer
    <2> QED
      BY ZenonT(30), <1>0, <1>2, <2>3 DEF CallbackInv
  <1>e. ConnectInv'
    <2>1. Attempts(ctx, type, timer', status'[Verify])
      BY ZenonT(30), <1>1, <1>2 DEF Attempts
    <2> QED
      BY <1>0, <1>1, <2>1 DEF ConnectInv
  <1> QED
    BY <1>a, <1>b, <1>c, <1>d, <1>e DEF ConnectionsInv

-----------------------------------------------------------------------------
(* New contexts and commands.                                               *)

\* A new context with one callback.
LEMMA HeldNewOne ==
    ASSUME NEW M, NEW c, NEW b, NEW st, Held(M, c, b, st), Shaped(M, c, st),
           NEW fd \in FDs, fd \notin M, NEW e \in Callbacks, Elsewhere(M, c, e),
           NEW x, Queue(x) = <<e>>
    PROVE  Held(M \cup {fd}, [c EXCEPT ![fd] = x], b \cup {e}, [st EXCEPT ![e] = "held"])
  <1> DEFINE d == [c EXCEPT ![fd] = x]
             v == [st EXCEPT ![e] = "held"]
  <1>0. M \subseteq FDs /\ DOMAIN c = FDs /\ DOMAIN st = Callbacks
    BY DEF Shaped
  <1>1. d[fd] = x /\ \A g \in FDs \ {fd} : d[g] = c[g]
    BY ZenonT(30), <1>0
  <1>2. v[e] = "held" /\ \A f : f # e /\ st[f] = "held" => v[f] = "held"
    BY <1>0
  <1>3. DOMAIN Queue(x) = {1} /\ Queue(x)[1] = e
    OBVIOUS
  <1> HIDE DEF d, v
  <1>5. ASSUME NEW gd \in M \cup {fd}, NEW k \in DOMAIN Queue(d[gd])
        PROVE  \/ gd \in M /\ k \in DOMAIN Queue(c[gd]) /\ Queue(d[gd])[k] = Queue(c[gd])[k]
                  /\ Queue(d[gd])[k] # e
               \/ gd = fd /\ k = 1 /\ Queue(d[gd])[k] = e
    <2>1. CASE gd = fd
      BY ZenonT(30), <1>1, <1>3, <2>1
    <2>2. CASE gd # fd
      <3>1. gd \in M /\ d[gd] = c[gd]
        BY <1>0, <1>1, <2>2
      <3> QED
        BY ZenonT(30), <3>1 DEF Elsewhere
    <2> QED
      BY ZenonT(30), <2>1, <2>2
  <1>6. ASSUME NEW gd \in M \cup {fd}, NEW k \in DOMAIN Queue(d[gd])
        PROVE  Queue(d[gd])[k] \in b \cup {e} /\ v[Queue(d[gd])[k]] = "held"
    <2>1. CASE gd = fd /\ k = 1 /\ Queue(d[gd])[k] = e
      BY ZenonT(30), <1>2, <2>1
    <2>2. CASE gd \in M /\ k \in DOMAIN Queue(c[gd]) /\ Queue(d[gd])[k] = Queue(c[gd])[k]
               /\ Queue(d[gd])[k] # e
      BY ZenonT(30), <1>2, <2>2 DEF Held
    <2> QED
      BY ZenonT(30), <1>5, <2>1, <2>2
  <1>7. ASSUME NEW gd \in M \cup {fd}, NEW hd \in M \cup {fd},
               NEW k \in DOMAIN Queue(d[gd]), NEW l \in DOMAIN Queue(d[hd]),
               Queue(d[gd])[k] = Queue(d[hd])[l]
        PROVE  gd = hd /\ k = l
    <2>1. CASE Queue(d[gd])[k] = e
      BY ZenonT(30), <1>5, <1>7, <2>1
    <2>2. CASE Queue(d[gd])[k] # e
      <3>1. /\ gd \in M /\ k \in DOMAIN Queue(c[gd]) /\ Queue(d[gd])[k] = Queue(c[gd])[k]
            /\ hd \in M /\ l \in DOMAIN Queue(c[hd]) /\ Queue(d[hd])[l] = Queue(c[hd])[l]
        BY ZenonT(30), <1>5, <1>7, <2>2
      <3>2. Queue(c[gd])[k] = Queue(c[hd])[l]
        BY ZenonT(30), <1>7, <3>1
      <3>3. \A m \in DOMAIN Queue(c[gd]), o \in DOMAIN Queue(c[hd]) :
               Queue(c[gd])[m] = Queue(c[hd])[o] => gd = hd /\ m = o
        BY ZenonT(30), <3>1 DEF Held
      <3> QED
        BY ZenonT(30), <3>1, <3>2, <3>3
    <2> QED
      BY <2>1, <2>2
  <1> QED
    BY ZenonT(30), <1>6, <1>7 DEF Held, d, v

\* Create for contexts c that the adapters are adapted to.
LEMMA Created ==
    ASSUME NEW c, Adapted(io, c, now.served, type), c \in [FDs -> Slots],
           NEW node \in Range(NodeOf), NEW q \in Seq(Callbacks), Create(c, node, q)
    PROVE  \E fd \in FDs \ Monitored(io) : \E x \in Contexts :
              /\ x.phase = "connecting" /\ Owned(x) /\ Queue(x) = q
              /\ ctx' = [c EXCEPT ![fd] = x] /\ ctx' \in [FDs -> Slots]
              /\ Adapted(io', ctx', now.served, type)
              /\ Monitored(io') = Monitored(io) \cup {fd}
  <1> DEFINE x == [phase |-> "connecting", owner |-> "dispatcher", node |-> node, eof |-> FALSE,
                   connected |-> FALSE, sent |-> <<>>, unsent |-> q]
  <1>1. PICK fd \in Lowest(c) : /\ ctx' = [c EXCEPT ![fd] = x]
                                /\ io' = addWrite(attach(io, fd), fd)
    BY ZenonT(30) DEF Create, NewContext
  <1>2. x \in Contexts /\ x.phase = "connecting" /\ x.owner = "dispatcher"
    <2>1. <<>> \in Seq(Callbacks)
      OBVIOUS
    <2> QED
      BY ZenonT(30), <2>1 DEF Contexts
  <1>3. Queue(x) = q /\ Owned(x)
    BY DEF Queue, Owned
  <1> HIDE DEF x
  <1>4. DOMAIN c = FDs
    BY ZenonT(30)
  <1>5. /\ fd \in FDs /\ fd \notin Monitored(io)
        /\ Adapted(io', ctx', now.served, type) /\ Monitored(io') = Monitored(io) \cup {fd}
    <2>1. Added(io, c, fd, io', ctx')
      BY ZenonT(30), <1>1, <1>2, <1>4 DEF Lowest, Added
    <2>2. Adapted(io, c, now.served, type)
      BY ZenonT(30)
    <2> QED
      BY ONLY SMTT(30), <2>1, <2>2, AdaptedNew
  <1>6. ctx' \in [FDs -> Slots]
    BY <1>1, <1>2, <1>5 DEF Slots
  <1> QED
    BY ZenonT(30), <1>1, <1>2, <1>3, <1>5, <1>6

\* What dispatchAsync has to provide.
LEMMA DispatchKeeps ==
    ASSUME ConnectionsInv, life = "alive", NEW e \in Commands, status[e] = "idle",
           NEW v \in {"posted", "held"}, status' = [status EXCEPT ![e] = v],
           cbs' \subseteq Callbacks, UNCHANGED <<loop, timer, calling, type, notices, life>>,
           ctx' \in [FDs -> Slots], Adapted(io', ctx', now.served, type),
           Held(Monitored(io'), ctx', cbs', status'), Monitored(io) \subseteq Monitored(io'),
           \A gd \in FDs : ctx'[gd].phase = "closing" => ctx[gd].phase = "closing",
           Attempts(ctx', type, timer, status[Verify])
    PROVE  ConnectionsInv'
  <1>0. /\ stage' = stage /\ now' = now /\ back' = back /\ timer' = timer /\ calling' = calling
        /\ type' = type /\ notices' = notices /\ life' = life
    BY ZenonT(30) DEF loop
  <1>1. /\ status \in [Callbacks -> {"idle", "held", "posted", "done"}] /\ e \in Callbacks
        /\ e # Verify
    BY ZenonT(30), ConstantsKnown DEF ConnectionsInv, TypeInv, Callbacks
  <1>2. /\ status' \in [Callbacks -> {"idle", "held", "posted", "done"}]
        /\ \A f \in Callbacks : f # e => status'[f] = status[f]
    BY ZenonT(30), <1>1
  <1>a. TypeInv'
    BY ZenonT(30), <1>0, <1>2 DEF ConnectionsInv, TypeInv, Slots
  <1>b. AdapterInv'
    BY ZenonT(30), <1>0 DEF AdapterInv
  <1>c. LoopInv'
    BY ZenonT(30), <1>0 DEF ConnectionsInv, LoopInv, At
  <1>d. CallbackInv'
    BY ZenonT(30), <1>0, <1>1, <1>2 DEF ConnectionsInv, CallbackInv, Callbacks
  <1>e. ConnectInv'
    <2>1. status'[Verify] = status[Verify]
      BY ZenonT(30), <1>1, <1>2 DEF Callbacks
    <2> QED
      BY ZenonT(30), <1>0, <2>1 DEF ConnectInv
  <1> QED
    BY ZenonT(30), <1>a, <1>b, <1>c, <1>d, <1>e DEF ConnectionsInv

\* A callback that hiredis does not hold is in no queue.
LEMMA NotHeldElsewhere ==
    ASSUME ConnectionsInv, NEW e, status[e] # "held"
    PROVE  Elsewhere(Monitored(io), ctx, e)
  <1>1. Held(Monitored(io), ctx, cbs, status)
    BY ZenonT(30), IsShaped
  <1>2. ASSUME NEW gd \in Monitored(io), NEW k \in DOMAIN Queue(ctx[gd])
        PROVE  Queue(ctx[gd])[k] # e
    <2>1. status[Queue(ctx[gd])[k]] = "held"
      BY ZenonT(30), <1>1 DEF Held
    <2> QED
      BY <2>1
  <1> QED
    BY ZenonT(30), <1>2 DEF Elsewhere

\* Every callback has a node and can be in a queue.
LEMMA NodesKnown ==
    ASSUME NEW e \in Callbacks
    PROVE  NodeOf[e] \in Range(NodeOf) /\ <<>> \in Seq(Callbacks) /\ <<e>> \in Seq(Callbacks)
  <1>1. NodeOf[e] \in Range(NodeOf)
    BY ConstantsKnown DEF Range
  <1>2. <<>> \in Seq(Callbacks) /\ <<e>> \in Seq(Callbacks)
    OBVIOUS
  <1> QED
    BY <1>1, <1>2

\* dispatchAsync keeps the invariant.
LEMMA dispatchAsyncKeeps ==
    ASSUME ConnectionsInv, NEW e \in Commands, dispatchAsync(e)
    PROVE  ConnectionsInv'
  <1>1. /\ status[e] = "idle" /\ life = "alive"
        /\ UNCHANGED <<loop, timer, calling, type, notices, life>>
    BY ZenonT(30) DEF dispatchAsync, ClientRuns, BetweenRounds, ConnectionsInv, LoopInv
  <1>2. /\ Adapted(io, ctx, now.served, type) /\ Shaped(Monitored(io), ctx, status)
        /\ Held(Monitored(io), ctx, cbs, status) /\ Elsewhere(Monitored(io), ctx, e)
        /\ Attempts(ctx, type, timer, status[Verify])
    BY <1>1, IsShaped, NotHeldElsewhere DEF ConnectionsInv, AdapterInv, ConnectInv
  <1>3. /\ ctx \in [FDs -> Slots] /\ cbs \subseteq Callbacks /\ e \in Callbacks /\ e # Verify
        /\ DOMAIN ctx = FDs /\ Monitored(io) \subseteq FDs
    BY ZenonT(30), <1>2, ConstantsKnown DEF ConnectionsInv, TypeInv, Slots, Callbacks, Shaped
  <1>4. CASE status' = [status EXCEPT ![e] = "posted"] /\ UNCHANGED <<io, ctx, cbs>>
    <2>1. \A f \in cbs : status[f] = "held" => f \in cbs' /\ status'[f] = "held"
      BY ZenonT(30), <1>1, <1>2, <1>3, <1>4 DEF Shaped
    <2>2. \A gd \in Monitored(io) : Queue(ctx[gd]) = Queue(ctx[gd])
      BY ZenonT(30)
    <2>3. Held(Monitored(io), ctx, cbs, status) /\ Monitored(io) \subseteq Monitored(io)
      BY ZenonT(30), <1>2
    <2>4. Held(Monitored(io), ctx, cbs', status')
      BY ONLY ZenonT(30), <2>1, <2>2, <2>3, HeldFewer
    <2> QED
      BY ZenonT(30), <1>1, <1>2, <1>3, <1>4, <2>4, DispatchKeeps
  <1>5. ASSUME NEW fd \in FDs, Current(fd), ctx[fd].phase \in {"connecting", "open"},
               ctx' = [ctx EXCEPT ![fd].unsent = Append(@, e)], io' = addWrite(io, fd), Hold(e)
        PROVE  ConnectionsInv'
    <2> DEFINE x == [ctx[fd] EXCEPT !.unsent = Append(@, e)]
    <2>1. fd \in Monitored(io) /\ HasAdapter(ctx[fd], type)
      BY ZenonT(30), <1>2, <1>5 DEF Adapted, HasAdapter, Current, Open
    <2>2. ctx[fd] \in Contexts /\ Queue(ctx[fd]) \in Seq(Callbacks)
      BY <2>1, MonitoredOpen
    <2>3. /\ x \in Contexts /\ x.phase = ctx[fd].phase /\ x.owner = ctx[fd].owner
      <3>1. Append(ctx[fd].unsent, e) \in Seq(Callbacks)
        BY <1>3, <2>2 DEF Contexts
      <3>2. ASSUME NEW q \in Seq(Callbacks)
            PROVE  LET y == [ctx[fd] EXCEPT !.unsent = q]
                   IN  y \in Contexts /\ y.phase = ctx[fd].phase /\ y.owner = ctx[fd].owner
        BY ZenonT(30), <2>2 DEF Contexts
      <3> QED
        BY ZenonT(30), <3>1, <3>2
    <2>4. Queue(x) = Append(Queue(ctx[fd]), e)
      BY <1>3, <2>2, AppendedQueue
    <2> HIDE DEF x
    <2>5. ctx' = [ctx EXCEPT ![fd] = x]
      BY ZenonT(30), <1>5 DEF x
    <2>6. /\ Sound(io', now.served) /\ OthersKept(io, io', fd) /\ Monitored(io') = Monitored(io)
          /\ io'.nodes[fd].writing /\ (io.nodes[fd].reading => io'.nodes[fd].reading)
      BY ZenonT(30), <1>2, <1>5, <2>1, AddWriteSound DEF Adapted
    <2>7. HasAdapter(x, type) /\ Listens(io'.nodes[fd], x)
      <3>1. Listens(io.nodes[fd], ctx[fd])
        BY ZenonT(30), <1>2, <2>1 DEF Adapted
      <3> QED
        BY ZenonT(30), <2>1, <2>3, <2>6, <3>1 DEF HasAdapter, Listens
    <2>8. Adapted(io', ctx', now.served, type)
      <3>1. Monitored(io') = Monitored(io) \cup {fd}
        BY ZenonT(30), <2>1, <2>6
      <3> QED
        BY ZenonT(30), <1>2, <1>3, <2>5, <2>6, <2>7, <3>1, AdaptedChanged
    <2>9. Appended(Queue(ctx[fd]), e, Queue(x))
      BY <1>3, <2>2, <2>4 DEF Appended
    <2>10. Held(Monitored(io'), ctx', cbs', status')
      <3>1. Held(Monitored(io), [ctx EXCEPT ![fd] = x], cbs \cup {e}, [status EXCEPT ![e] = "held"])
        BY ZenonT(30), <1>2, <2>1, <2>9, HeldAppended
      <3> QED
        BY ZenonT(30), <1>5, <2>5, <2>6, <3>1 DEF Hold
    <2>11. Attempts(ctx', type, timer, status[Verify])
      <3>1. Owned(x) => Owned(ctx[fd])
        BY ZenonT(30), <2>3 DEF Owned
      <3>2. type = "SINGLE" /\ x.phase = "connecting" =>
               \A k \in DOMAIN Queue(x) : Queue(x)[k] # Verify
        <4>1. \A k \in DOMAIN Queue(x) :
                 \/ Queue(x)[k] = e
                 \/ k \in DOMAIN Queue(ctx[fd]) /\ Queue(x)[k] = Queue(ctx[fd])[k]
          <5>1. ASSUME NEW q \in Seq(Callbacks), NEW k \in DOMAIN Append(q, e)
                PROVE  Append(q, e)[k] = e \/ (k \in DOMAIN q /\ Append(q, e)[k] = q[k])
            BY <1>3
          <5> QED
            BY ZenonT(30), <2>2, <2>4, <5>1
        <4>2. type = "SINGLE" /\ ctx[fd].phase = "connecting" =>
                 \A k \in DOMAIN Queue(ctx[fd]) : Queue(ctx[fd])[k] # Verify
          BY ZenonT(30), <1>2 DEF Attempts
        <4> QED
          BY <1>3, <2>3, <4>1, <4>2
      <3> QED
        BY ZenonT(30), <1>2, <1>3, <2>5, <3>1, <3>2, AttemptsChanged
    <2>12. \A gd \in FDs : ctx'[gd].phase = ctx[gd].phase
      BY ZenonT(30), <1>3, <2>3, <2>5
    <2>13. ctx' \in [FDs -> Slots] /\ cbs' \subseteq Callbacks
           /\ status' = [status EXCEPT ![e] = "held"]
      BY ZenonT(30), <1>3, <1>5, <2>3, <2>5 DEF Slots, Hold
    <2> QED
      BY ZenonT(30), <1>1, <2>6, <2>8, <2>10, <2>11, <2>12, <2>13, DispatchKeeps
  <1>6. ASSUME type = "CLUSTER", NEW node \in Range(NodeOf), Create(ctx, node, <<e>>), Hold(e)
        PROVE  ConnectionsInv'
    <2>1. <<e>> \in Seq(Callbacks)
      BY <1>3
    <2>2. PICK fd \in FDs \ Monitored(io), x \in Contexts :
              /\ x.phase = "connecting" /\ Owned(x) /\ Queue(x) = <<e>>
              /\ ctx' = [ctx EXCEPT ![fd] = x] /\ ctx' \in [FDs -> Slots]
              /\ Adapted(io', ctx', now.served, type)
              /\ Monitored(io') = Monitored(io) \cup {fd}
      BY ZenonT(30), <1>2, <1>3, <1>6, <2>1, Created
    <2>3. fd \in FDs /\ fd \notin Monitored(io)
      OBVIOUS
    <2>4. Held(Monitored(io) \cup {fd}, [ctx EXCEPT ![fd] = x], cbs \cup {e},
               [status EXCEPT ![e] = "held"])
      BY ZenonT(30), <1>2, <1>3, <2>2, <2>3, HeldNewOne
    <2>5. /\ Held(Monitored(io'), ctx', cbs', status') /\ cbs' \subseteq Callbacks
          /\ status' = [status EXCEPT ![e] = "held"]
      BY <1>3, <1>6, <2>2, <2>4 DEF Hold
    <2>6. Attempts(ctx', type, timer, status[Verify])
      BY ZenonT(30), <1>2, <1>6 DEF Attempts
    <2>7. \A gd \in FDs : ctx'[gd].phase = "closing" => ctx[gd].phase = "closing"
      BY <1>3, <2>2
    <2>8. Monitored(io) \subseteq Monitored(io')
      BY <2>2
    <2> QED
      BY ZenonT(30), <1>1, <2>2, <2>5, <2>6, <2>7, <2>8, DispatchKeeps
  <1>7. NodeOf[Verify] \in Range(NodeOf) /\ NodeOf[e] \in Range(NodeOf)
    BY ZenonT(30), <1>3, NodesKnown DEF Callbacks
  <1>8. CASE serviceState # "CONNECTED"
    BY <1>4, <1>8 DEF dispatchAsync, Post
  <1>9. CASE serviceState = "CONNECTED" /\ submit(e)
    <2> DEFINE node == IF type = "SINGLE" THEN NodeOf[Verify] ELSE NodeOf[e]
    <2>1. \/ Refuse(e)
          \/ \E fd \in Usable(node) : /\ ctx' = [ctx EXCEPT ![fd].unsent = Append(@, e)]
                                      /\ io' = addWrite(io, fd) /\ Hold(e)
          \/ type = "CLUSTER" /\ Create(ctx, node, <<e>>) /\ Hold(e)
      BY <1>9 DEF submit
    <2>2. node \in Range(NodeOf)
      BY <1>7
    <2> HIDE DEF node
    <2>3. CASE Refuse(e)
      BY <1>4, <2>3 DEF Refuse, Post
    <2>4. ASSUME NEW fd \in Usable(node), ctx' = [ctx EXCEPT ![fd].unsent = Append(@, e)],
                 io' = addWrite(io, fd), Hold(e)
          PROVE  ConnectionsInv'
      <3>1. fd \in FDs /\ Current(fd) /\ ctx[fd].phase \in {"connecting", "open"}
        BY ZenonT(30) DEF Usable
      <3> QED
        BY ZenonT(30), <1>5, <2>4, <3>1
    <2>5. CASE type = "CLUSTER" /\ Create(ctx, node, <<e>>) /\ Hold(e)
      BY ZenonT(30), <1>6, <2>2, <2>5
    <2> QED
      BY ZenonT(30), <2>1, <2>3, <2>4, <2>5
  <1> QED
    BY ZenonT(30), <1>8, <1>9 DEF dispatchAsync

-----------------------------------------------------------------------------
(* The dispatcher connects.                                                 *)

\* A dispatcher that forgets its contexts changes only their owner ...
LEMMA LeftSame ==
    ASSUME ctx \in [FDs -> Slots]
    PROVE  /\ Left \in [FDs -> Slots] /\ DOMAIN Left = FDs
           /\ \A fd \in FDs : /\ Left[fd].phase = ctx[fd].phase
                              /\ Queue(Left[fd]) = Queue(ctx[fd])
                              /\ Left[fd].phase # "none" => Left[fd].unsent = ctx[fd].unsent
  <1>1. ASSUME NEW fd \in FDs
        PROVE  /\ Left[fd] \in Slots /\ Left[fd].phase = ctx[fd].phase
               /\ Queue(Left[fd]) = Queue(ctx[fd])
               /\ Left[fd].phase # "none" => Left[fd].unsent = ctx[fd].unsent
    <2>1. CASE Current(fd)
      <3> DEFINE x == [ctx[fd] EXCEPT !.owner = "nobody"]
      <3>1. Left[fd] = x
        BY ZenonT(30), <2>1 DEF Left
      <3>2. ctx[fd] \in Contexts
        BY <2>1 DEF Current, Open, Slots, NoContext
      <3>3. /\ x \in Contexts /\ x.phase = ctx[fd].phase /\ x.sent = ctx[fd].sent
            /\ x.unsent = ctx[fd].unsent
        BY ZenonT(30), <3>2 DEF Contexts
      <3> HIDE DEF x
      <3> QED
        BY <3>1, <3>3 DEF Queue, Slots
    <2>2. CASE ~Current(fd)
      BY <2>2 DEF Left
    <2> QED
      BY ZenonT(30), <2>1, <2>2
  <1>2. Left = [fd \in FDs |-> Left[fd]]
    BY ZenonT(30) DEF Left
  <1> QED
    BY ZenonT(30), <1>1, <1>2

\* ... which the Nodes of a cluster do not depend on.
LEMMA LeftAdapted ==
    ASSUME NEW i, NEW s, ctx \in [FDs -> Slots], Adapted(i, ctx, s, "CLUSTER")
    PROVE  Adapted(i, Left, s, "CLUSTER")
  <1>1. \A fd \in FDs : /\ Left[fd].phase = ctx[fd].phase
                        /\ Left[fd].phase # "none" => Left[fd].unsent = ctx[fd].unsent
    BY ZenonT(30), LeftSame
  <1>2. \A fd \in FDs : HasAdapter(Left[fd], "CLUSTER") <=> HasAdapter(ctx[fd], "CLUSTER")
    BY ZenonT(30), <1>1 DEF HasAdapter
  <1>3. Monitored(i) = {fd \in FDs : HasAdapter(Left[fd], "CLUSTER")}
    BY ZenonT(30), <1>2 DEF Adapted
  <1>4. \A fd \in Monitored(i) : Listens(i.nodes[fd], Left[fd])
    BY ZenonT(30), <1>1, <1>2, <1>3 DEF Adapted, Listens, HasAdapter
  <1> QED
    BY ZenonT(30), <1>3, <1>4 DEF Adapted

\* What a step that calls no client has to provide.
LEMMA Assembled ==
    ASSUME ConnectionsInv, life' = "alive", type' = type, now' = now,
           notices' \in Nat, notices' > 0 => type = "SINGLE", stage' # "client",
           ctx' \in [FDs -> Slots], LoopInv',
           Adapted(io', ctx', now.served, type), Held(Monitored(io'), ctx', cbs', status'),
           cbs' \subseteq Callbacks, timer' \in BOOLEAN,
           status' \in [Callbacks -> {"idle", "held", "posted", "done"}],
           Attempts(ctx', type, timer', status'[Verify])
    PROVE  ConnectionsInv'
  <1>a. TypeInv'
    BY ZenonT(30) DEF ConnectionsInv, TypeInv, Slots
  <1>b. AdapterInv'
    BY ZenonT(30) DEF AdapterInv
  <1>d. CallbackInv'
    BY ZenonT(30) DEF CallbackInv
  <1>e. ConnectInv'
    BY ZenonT(30) DEF ConnectInv
  <1> QED
    BY <1>a, <1>b, <1>d, <1>e DEF ConnectionsInv

\* The same, where no context is being freed.
LEMMA Connected ==
    ASSUME ConnectionsInv, life' = "alive", type' = type, now' = now, back' = back,
           notices' = notices, stage' \in {"loop", "next"},
           ctx' \in [FDs -> Slots], \A fd \in FDs : ctx'[fd].phase # "closing",
           Adapted(io', ctx', now.served, type), Held(Monitored(io'), ctx', cbs', status'),
           cbs' \subseteq Callbacks, timer' \in BOOLEAN,
           status' \in [Callbacks -> {"idle", "held", "posted", "done"}],
           Attempts(ctx', type, timer', status'[Verify])
    PROVE  ConnectionsInv'
  <1>1. LoopInv'
    BY ZenonT(30) DEF LoopInv, At
  <1>2. notices \in Nat /\ (notices > 0 => type = "SINGLE")
    BY ZenonT(30) DEF ConnectionsInv, TypeInv
  <1> QED
    BY ZenonT(30), <1>1, <1>2, Assembled

\* connect keeps the invariant: there is no attempt whose context or query is still there.
LEMMA ConnectKeeps ==
    ASSUME ConnectionsInv, connect, life' = "alive", life \in {"new", "alive"},
           life = "new" \/ timer, stage \in {"loop", "timer"}, stage' \in {"loop", "next"},
           type' = type, now' = now, back' = back, notices' = notices
    PROVE  ConnectionsInv'
  <1>1. /\ ctx \in [FDs -> Slots] /\ DOMAIN ctx = FDs /\ cbs \subseteq Callbacks
        /\ status \in [Callbacks -> {"idle", "held", "posted", "done"}] /\ Verify \in Callbacks
        /\ type \in {"SINGLE", "CLUSTER"}
        /\ Attempts(ctx, type, timer, status[Verify]) /\ Shaped(Monitored(io), ctx, status)
        /\ Held(Monitored(io), ctx, cbs, status) /\ Monitored(io) \subseteq FDs
    BY ZenonT(30), IsShaped, MonitoredOpen DEF ConnectionsInv, TypeInv, ConnectInv, Slots, Callbacks
  <1>2. Adapted(io, ctx, now.served, type)
    <2>1. CASE life = "alive"
      BY ZenonT(30), <2>1 DEF ConnectionsInv, AdapterInv
    <2>2. CASE life = "new"
      <3>1. /\ Sound(io, now.served) /\ DOMAIN io.nodes = {} /\ Monitored(io) = {}
            /\ \A fd \in FDs : ~HasAdapter(ctx[fd], type)
        BY ZenonT(30), <2>2 DEF ConnectionsInv, AdapterInv, ConnectInv, Open, HasAdapter, Monitored
      <3> QED
        BY ZenonT(30), <3>1 DEF Adapted
    <2> QED
      BY ZenonT(30), <2>1, <2>2
  <1>3. \A fd \in FDs : ctx[fd].phase # "closing"
    BY NoneClosing DEF At
  <1>4. CASE type = "SINGLE"
    <2>1. \A fd \in FDs : ~Owned(ctx[fd])
      BY ZenonT(30), <1>1, <1>4 DEF ConnectionsInv, ConnectInv, Attempts, Open, Owned
    <2>2. cbs' = cbs /\ status' = status
      BY <1>4 DEF connect, connectSingle
    <2>3. CASE Create(ctx, NodeOf[Verify], <<>>) /\ timer' = FALSE
      <3>1. <<>> \in Seq(Callbacks) /\ NodeOf[Verify] \in Range(NodeOf)
        BY ZenonT(30), NodesKnown DEF Callbacks
      <3>a. Adapted(io, ctx, now.served, type) /\ ctx \in [FDs -> Slots]
        BY ZenonT(30), <1>1, <1>2
      <3>b. Create(ctx, NodeOf[Verify], <<>>)
        BY <2>3
      <3>2. PICK fd \in FDs \ Monitored(io), x \in Contexts :
              /\ x.phase = "connecting" /\ Owned(x) /\ Queue(x) = <<>>
              /\ ctx' = [ctx EXCEPT ![fd] = x] /\ ctx' \in [FDs -> Slots]
              /\ Adapted(io', ctx', now.served, type)
              /\ Monitored(io') = Monitored(io) \cup {fd}
        BY ONLY ZenonT(30), <3>1, <3>a, <3>b, Created
      <3>3. fd \in FDs /\ fd \notin Monitored(io)
        OBVIOUS
      <3>4. Held(Monitored(io) \cup {fd}, [ctx EXCEPT ![fd] = x], cbs, status)
        BY ZenonT(30), <1>1, <3>2, <3>3, HeldNew
      <3>5. \A gd \in FDs : ctx'[gd].phase # "closing"
        BY ZenonT(30), <1>1, <1>3, <3>2
      <3>6. Attempts(ctx', type, FALSE, status[Verify])
        <4>1. ctx'[fd] = x /\ \A gd \in FDs \ {fd} : ctx'[gd] = ctx[gd]
          BY ZenonT(30), <1>1, <3>2, <3>3
        <4>2. \A gd \in FDs : Owned(ctx'[gd]) => gd = fd
          BY ZenonT(30), <2>1, <4>1
        <4>3. \A gd \in FDs : ctx'[gd].phase = "connecting" =>
                 \A k \in DOMAIN Queue(ctx'[gd]) : Queue(ctx'[gd])[k] # Verify
          BY <1>1, <1>4, <3>2, <4>1 DEF Attempts
        <4> QED
          BY ZenonT(30), <1>4, <4>2, <4>3 DEF Attempts
      <3>7. Held(Monitored(io'), ctx', cbs', status')
        BY ZenonT(30), <2>2, <3>2, <3>4
      <3> QED
        BY ZenonT(30), <1>1, <2>2, <2>3, <3>2, <3>5, <3>6, <3>7, Connected
    <2>4. CASE timer' = TRUE /\ UNCHANGED <<io, ctx>>
      <3>1. Attempts(ctx, type, TRUE, status[Verify])
        BY <1>1, <1>4, <2>1 DEF Attempts
      <3> QED
        BY ZenonT(30), <1>1, <1>2, <1>3, <2>2, <2>4, <3>1, Connected
    <2> QED
      BY ZenonT(30), <1>4, <2>3, <2>4 DEF connect, connectSingle, armConnectionRetryTimer
  <1>5. CASE type = "CLUSTER"
    <2>1. status[Verify] # "held"
      BY ZenonT(30), <1>1, <1>5 DEF ConnectionsInv, ConnectInv, Attempts
    <2>2. /\ Left \in [FDs -> Slots] /\ DOMAIN Left = FDs
          /\ \A fd \in FDs : Left[fd].phase = ctx[fd].phase /\ Queue(Left[fd]) = Queue(ctx[fd])
          /\ Adapted(io, Left, now.served, type)
      BY ZenonT(30), <1>1, <1>2, <1>5, LeftSame, LeftAdapted
    <2>3. ASSUME NEW v, \A f \in cbs : status[f] = "held" => v[f] = "held"
          PROVE  Held(Monitored(io), Left, cbs, v)
      <3>1. \A gd \in Monitored(io) : Queue(Left[gd]) = Queue(ctx[gd])
        BY ZenonT(30), <1>1, <2>2
      <3>2. Held(Monitored(io), ctx, cbs, status)
        BY Zenon, <1>1
      <3> QED
        BY ONLY Zenon, <2>3, <3>1, <3>2, HeldSame
    <2>4. \A c, armed, v : v # "held" \/ ~armed => Attempts(c, "CLUSTER", armed, v)
      BY ZenonT(30) DEF Attempts
    <2>5. CASE timer' = TRUE /\ ctx' = Left /\ UNCHANGED <<io, cbs, status>>
      <3>1. Held(Monitored(io), Left, cbs, status)
        BY <2>3
      <3>2. Attempts(Left, type, TRUE, status[Verify])
        BY ZenonT(30), <1>5, <2>1, <2>4
      <3> QED
        BY ZenonT(30), <1>1, <1>3, <2>2, <2>5, <3>1, <3>2, Connected
    <2>6. CASE ctx' = Left /\ status' = [status EXCEPT ![Verify] = "posted"] /\ timer' = FALSE
               /\ UNCHANGED <<io, cbs>>
      <3>1. \A f \in cbs : status[f] = "held" => status'[f] = "held"
        BY ZenonT(30), <1>1, <2>1, <2>6
      <3>2. Held(Monitored(io), Left, cbs, status')
        BY <2>3, <3>1
      <3>3. Attempts(Left, type, FALSE, status'[Verify])
        BY ZenonT(30), <1>5, <2>4
      <3>4. status' \in [Callbacks -> {"idle", "held", "posted", "done"}]
        BY <1>1, <2>6
      <3> QED
        BY ZenonT(30), <1>1, <1>3, <2>2, <2>6, <3>2, <3>3, <3>4, Connected
    <2>7. CASE /\ Create(Left, NodeOf[Verify], <<Verify>>) /\ cbs' = cbs \cup {Verify}
               /\ status' = [status EXCEPT ![Verify] = "held"] /\ timer' = FALSE
      <3>0. PICK d : d = Left
        BY ZenonT(30)
      <3>1. <<Verify>> \in Seq(Callbacks) /\ NodeOf[Verify] \in Range(NodeOf)
        BY ZenonT(30), NodesKnown DEF Callbacks
      <3>a. Adapted(io, d, now.served, type) /\ d \in [FDs -> Slots]
        BY <2>2, <3>0
      <3>b. Create(d, NodeOf[Verify], <<Verify>>)
        BY ZenonT(30), <2>7, <3>0 DEF Create, NewContext
      <3>2. PICK fd \in FDs \ Monitored(io), x \in Contexts :
              /\ x.phase = "connecting" /\ Owned(x) /\ Queue(x) = <<Verify>>
              /\ ctx' = [d EXCEPT ![fd] = x] /\ ctx' \in [FDs -> Slots]
              /\ Adapted(io', ctx', now.served, type)
              /\ Monitored(io') = Monitored(io) \cup {fd}
        BY ONLY ZenonT(30), <3>1, <3>a, <3>b, Created
      <3>3. fd \in FDs /\ fd \notin Monitored(io)
        OBVIOUS
      <3>4. Elsewhere(Monitored(io), Left, Verify)
        <4>1. Elsewhere(Monitored(io), ctx, Verify)
          BY ZenonT(30), <2>1, NotHeldElsewhere
        <4> QED
          BY ZenonT(30), <1>1, <2>2, <4>1 DEF Elsewhere
      <3>5. Held(Monitored(io), Left, cbs, status) /\ Shaped(Monitored(io), Left, status)
        BY ZenonT(30), <1>1, <2>2, <2>3 DEF Shaped
      <3>6. Held(Monitored(io) \cup {fd}, [Left EXCEPT ![fd] = x], cbs \cup {Verify},
                 [status EXCEPT ![Verify] = "held"])
        BY ZenonT(30), <1>1, <3>2, <3>3, <3>4, <3>5, HeldNewOne
      <3>7. \A gd \in FDs : ctx'[gd].phase # "closing"
        BY ZenonT(30), <1>3, <2>2, <3>0, <3>2
      <3>8. Attempts(ctx', type, FALSE, status'[Verify])
        BY ZenonT(30), <1>5, <2>4
      <3>9. /\ Held(Monitored(io'), ctx', cbs', status') /\ cbs' \subseteq Callbacks
            /\ status' \in [Callbacks -> {"idle", "held", "posted", "done"}]
        BY ZenonT(30), <1>1, <2>7, <3>0, <3>2, <3>6
      <3> QED
        BY ZenonT(30), <2>7, <3>2, <3>7, <3>8, <3>9, Connected
    <2> QED
      BY ZenonT(30), <1>5, <2>5, <2>6, <2>7 DEF connect, connectCluster, armConnectionRetryTimer
  <1> QED
    BY ZenonT(30), <1>1, <1>4, <1>5

\* Construct keeps the invariant.
LEMMA ConstructKeeps ==
    ASSUME ConnectionsInv, Construct
    PROVE  ConnectionsInv'
  <1>1. /\ connect /\ life = "new" /\ life' = "alive" /\ stage' = stage
        /\ type' = type /\ now' = now /\ back' = back /\ notices' = notices
    BY ZenonT(30) DEF Construct, loop
  <1>2. stage = "loop"
    BY ZenonT(30), <1>1 DEF ConnectionsInv, LoopInv
  <1> QED
    BY <1>1, <1>2, ConnectKeeps

\* connectionRetryTimer keeps the invariant.
LEMMA connectionRetryTimerKeeps ==
    ASSUME ConnectionsInv, connectionRetryTimer
    PROVE  ConnectionsInv'
  <1>1. /\ stage = "timer" /\ stage' = "next" /\ life' = life /\ type' = type /\ now' = now
        /\ back' = back /\ notices' = notices /\ calling' = calling
    BY ZenonT(30) DEF connectionRetryTimer
  <1>2. life = "alive"
    BY <1>1 DEF ConnectionsInv, LoopInv
  <1>3. CASE timer /\ connect
    BY ZenonT(30), <1>1, <1>2, <1>3, ConnectKeeps
  <1>4. CASE UNCHANGED <<io, ctx, timer, cbs, status, faults>>
    <2>1. /\ ctx \in [FDs -> Slots] /\ cbs \subseteq Callbacks /\ timer \in BOOLEAN
          /\ status \in [Callbacks -> {"idle", "held", "posted", "done"}]
          /\ Adapted(io, ctx, now.served, type) /\ Held(Monitored(io), ctx, cbs, status)
          /\ Attempts(ctx, type, timer, status[Verify])
      BY ZenonT(30), <1>2, IsShaped DEF ConnectionsInv, TypeInv, AdapterInv, ConnectInv, Slots
    <2>2. \A fd \in FDs : ctx[fd].phase # "closing"
      BY ZenonT(30), <1>1, NoneClosing DEF At
    <2> QED
      BY ZenonT(30), <1>1, <1>2, <1>4, <2>1, <2>2, Connected
  <1> QED
    BY ZenonT(30), <1>3, <1>4 DEF connectionRetryTimer

-----------------------------------------------------------------------------
(* Descriptors one after the other.                                         *)

INSTANCE WellFoundedInduction

\* A set of natural numbers that is not empty has a least element: the form of induction
\* that is used here.
LEMMA LeastNatural ==
    ASSUME NEW S \in SUBSET Nat, S # {}
    PROVE  \E n \in S : \A m \in S : n <= m
  <1>1. \E n \in S : \A m \in S : ~ (<<m, n>> \in OpToRel(<, Nat))
    BY ZenonT(30), NatLessThanWellFounded, WFMin
  <1>2. \E n \in S : \A m \in S : ~(m < n)
    BY ZenonT(30), <1>1 DEF OpToRel
  <1> QED
    BY <1>2

\* One round of ForEach, for redisAsyncFree or for the destructor of an adapter ...
Step(frees, e, n) == IF frees THEN Freed(e, n) ELSE destroy(e, n)

\* ... and all of them: f[n] is the engine after the descriptors up to n.
Rounds(f, k, i, fds, frees) ==
    f = [n \in 3..k |-> IF n = 3 THEN i
                        ELSE IF n \in fds THEN Step(frees, f[n - 1], n) ELSE f[n - 1]]

\* The rounds exist; the definition of ForEach chooses them.
LEMMA RoundsExist ==
    ASSUME NEW i, NEW fds, NEW frees, NEW k \in Nat, k >= 3
    PROVE  \E f : Rounds(f, k, i, fds, frees)
  <1> DEFINE B == {n \in Nat : n >= 3 /\ ~\E f : Rounds(f, n, i, fds, frees)}
  <1> SUFFICES ASSUME k \in B PROVE FALSE
    BY ZenonT(30)
  <1>1. B \in SUBSET Nat /\ B # {}
    OBVIOUS
  <1> HIDE DEF B
  <1>2. PICK n \in B : \A m \in B : n <= m
    BY ZenonT(30), <1>1, LeastNatural
  <1>3. n \in Nat /\ n >= 3 /\ n - 1 \notin B
    BY <1>1, <1>2 DEF B
  <1>4. n # 3
    <2> DEFINE g == [m \in 3..3 |-> i]
    <2>1. Rounds(g, 3, i, fds, frees)
      BY DEF Rounds
    <2> QED
      BY ZenonT(30), <1>2, <2>1 DEF B
  <1>5. PICK f : Rounds(f, n - 1, i, fds, frees)
    BY <1>3, <1>4 DEF B
  <1> DEFINE g == [m \in 3..n |-> IF m = 3 THEN i
                        ELSE IF m \in fds THEN Step(frees, f[m - 1], m) ELSE f[m - 1]]
  <1>6. \A m \in 3..n - 1 : g[m] = f[m]
    BY <1>3, <1>4, <1>5 DEF Rounds
  <1>7. \A m \in 3..n : m # 3 => m - 1 \in 3..n - 1
    BY <1>3
  <1>8. Rounds(g, n, i, fds, frees)
    BY ZenonT(30), <1>6, <1>7 DEF Rounds
  <1> QED
    BY ZenonT(30), <1>2, <1>8 DEF B

\* The engine j is i without the descriptors gone.  After redisAsyncFree a Node of the
\* cluster may stay.
Released(j, i, gone, frees, s) ==
    /\ Sound(j, s) /\ Monitored(j) = Monitored(i) \ gone
    /\ \A g \in FDs \ gone :
          /\ g \in DOMAIN j.nodes <=> g \in DOMAIN i.nodes
          /\ g \in DOMAIN i.nodes => j.nodes[g] = i.nodes[g]
    /\ ~frees => DOMAIN j.nodes = DOMAIN i.nodes \ gone

\* What can be freed has a context; what can be destroyed, an adapter.
Releasable(i, frees) == IF frees THEN Monitored(i) ELSE DOMAIN i.nodes

\* One round releases one descriptor more.
LEMMA StepReleases ==
    ASSUME NEW i, NEW j, NEW gone, NEW frees \in BOOLEAN, NEW s, Released(j, i, gone, frees, s),
           NEW n \in FDs, n \notin gone, n \in Releasable(i, frees)
    PROVE  Released(Step(frees, j, n), i, gone \cup {n}, frees, s)
  <1> DEFINE e == Step(frees, j, n)
  <1>1. /\ Sound(e, s) /\ OthersKept(j, e, n) /\ Monitored(e) = Monitored(j) \ {n}
        /\ ~frees => DOMAIN e.nodes = DOMAIN j.nodes \ {n}
    <2>1. CASE frees
      <3>1. n \in Monitored(j) /\ e = Freed(j, n)
        BY ZenonT(30), <2>1 DEF Released, Releasable, Step
      <3> HIDE DEF e
      <3> QED
        BY ZenonT(30), <2>1, <3>1, FreedSound DEF Released
    <2>2. CASE ~frees
      <3>1. n \in DOMAIN j.nodes /\ e = destroy(j, n)
        BY ZenonT(30), <2>2 DEF Released, Releasable, Step
      <3> HIDE DEF e
      <3> QED
        BY ZenonT(30), <2>2, <3>1, DestroySound DEF Released
    <2> QED
      BY ZenonT(30), <2>1, <2>2
  <1> HIDE DEF e
  <1> QED
    BY ZenonT(30), <1>1 DEF Released, OthersKept, e

\* All rounds release all descriptors: there is no least one that does not.
LEMMA RoundsRelease ==
    ASSUME NEW i, NEW s, Sound(i, s), NEW frees \in BOOLEAN, NEW fds \in SUBSET FDs,
           fds \subseteq Releasable(i, frees), NEW f, Rounds(f, LastFD, i, fds, frees)
    PROVE  Released(f[LastFD], i, fds, frees, s)
  <1> DEFINE Gone(n) == {fd \in fds : fd <= n}
             B == {n \in 3..LastFD : ~Released(f[n], i, Gone(n), frees, s)}
  <1>0. LastFD \in Nat /\ LastFD \in 3..LastFD /\ 3 \in 3..LastFD
    BY ConstantsKnown
  <1>a. \A fd \in fds : fd \in Int /\ 4 <= fd /\ fd <= LastFD
    BY <1>0 DEF FDs
  <1> HIDE DEF B
  <1>1. Gone(LastFD) = fds /\ Gone(3) = {}
    BY <1>0, <1>a
  <1> SUFFICES ASSUME B # {} PROVE FALSE
    BY ZenonT(30), <1>0, <1>1 DEF B
  <1>2. B \in SUBSET Nat
    BY <1>0 DEF B
  <1>3. PICK n \in B : \A m \in B : n <= m
    BY ZenonT(30), <1>2, LeastNatural
  <1>4. n \in 3..LastFD /\ n - 1 \notin B /\ ~Released(f[n], i, Gone(n), frees, s)
    BY <1>0, <1>3 DEF B
  <1>5. n # 3
    <2>1. f[3] = i
      BY ZenonT(30), <1>0 DEF Rounds
    <2>2. Released(i, i, {}, frees, s)
      BY ZenonT(30) DEF Released
    <2> QED
      BY ZenonT(30), <1>1, <1>4, <2>1, <2>2
  <1>6. n - 1 \in 3..LastFD /\ n \in FDs
    BY <1>0, <1>4, <1>5 DEF FDs
  <1>7. Released(f[n - 1], i, Gone(n - 1), frees, s)
    BY <1>4, <1>6 DEF B
  <1>8. f[n] = IF n \in fds THEN Step(frees, f[n - 1], n) ELSE f[n - 1]
    BY ZenonT(30), <1>4, <1>5 DEF Rounds
  <1>9. n \notin Gone(n - 1)
        /\ Gone(n) = IF n \in fds THEN Gone(n - 1) \cup {n} ELSE Gone(n - 1)
    <2>1. n \in Int /\ n - 1 \in Int
      BY <1>4
    <2>2. \A fd \in fds : fd <= n <=> fd <= n - 1 \/ fd = n
      BY <1>a, <2>1
    <2>3. ~(n <= n - 1) /\ n <= n
      BY <2>1
    <2>4. n \notin Gone(n - 1)
      BY ZenonT(30), <2>3
    <2>5. \A x : x \in Gone(n) <=> x \in Gone(n - 1) \/ (x = n /\ n \in fds)
      BY ZenonT(30), <2>2, <2>3
    <2> HIDE DEF Gone
    <2> QED
      BY <2>4, <2>5
  <1> HIDE DEF Gone
  <1>10. CASE n \in fds
    <2>1. Released(Step(frees, f[n - 1], n), i, Gone(n - 1) \cup {n}, frees, s)
      BY <1>6, <1>7, <1>9, <1>10, StepReleases
    <2> QED
      BY ZenonT(30), <1>4, <1>8, <1>9, <1>10, <2>1
  <1>11. CASE n \notin fds
    BY ZenonT(30), <1>4, <1>7, <1>8, <1>9, <1>11
  <1> QED
    BY ZenonT(30), <1>10, <1>11

\* Freeing every context of a set.
LEMMA EachFreed ==
    ASSUME NEW i, NEW s, Sound(i, s), NEW fds \in SUBSET FDs, fds \subseteq Monitored(i)
    PROVE  Released(ForEach(Freed, i, fds), i, fds, TRUE, s)
  <1>0. LastFD \in Nat /\ LastFD >= 3
    BY ConstantsKnown
  <1>1. PICK g : Rounds(g, LastFD, i, fds, TRUE)
    BY ZenonT(30), <1>0, RoundsExist
  <1>2. g = [n \in 3..LastFD |-> IF n = 3 THEN i
                ELSE IF n \in fds THEN Freed(g[n - 1], n) ELSE g[n - 1]]
    BY ZenonT(30), <1>1 DEF Rounds, Step
  <1> DEFINE f == CHOOSE f : f = [n \in 3..LastFD |-> IF n = 3 THEN i
                ELSE IF n \in fds THEN Freed(f[n - 1], n) ELSE f[n - 1]]
  <1>3. ForEach(Freed, i, fds) = f[LastFD]
    BY ZenonT(30) DEF ForEach
  <1>4. f = [n \in 3..LastFD |-> IF n = 3 THEN i
                ELSE IF n \in fds THEN Freed(f[n - 1], n) ELSE f[n - 1]]
    BY ZenonT(30), <1>2
  <1> HIDE DEF f
  <1>5. Rounds(f, LastFD, i, fds, TRUE)
    BY ZenonT(30), <1>4 DEF Rounds, Step
  <1> QED
    BY ZenonT(30), <1>3, <1>5, RoundsRelease DEF Releasable

\* Destroying every adapter of a set.
LEMMA EachDestroyed ==
    ASSUME NEW i, NEW s, Sound(i, s), NEW fds \in SUBSET FDs, fds \subseteq DOMAIN i.nodes
    PROVE  Released(ForEach(destroy, i, fds), i, fds, FALSE, s)
  <1>0. LastFD \in Nat /\ LastFD >= 3
    BY ConstantsKnown
  <1>1. PICK g : Rounds(g, LastFD, i, fds, FALSE)
    BY ZenonT(30), <1>0, RoundsExist
  <1>2. g = [n \in 3..LastFD |-> IF n = 3 THEN i
                ELSE IF n \in fds THEN destroy(g[n - 1], n) ELSE g[n - 1]]
    BY ZenonT(30), <1>1 DEF Rounds, Step
  <1> DEFINE f == CHOOSE f : f = [n \in 3..LastFD |-> IF n = 3 THEN i
                ELSE IF n \in fds THEN destroy(f[n - 1], n) ELSE f[n - 1]]
  <1>3. ForEach(destroy, i, fds) = f[LastFD]
    BY ZenonT(30) DEF ForEach
  <1>4. f = [n \in 3..LastFD |-> IF n = 3 THEN i
                ELSE IF n \in fds THEN destroy(f[n - 1], n) ELSE f[n - 1]]
    BY ZenonT(30), <1>2
  <1> HIDE DEF f
  <1>5. Rounds(f, LastFD, i, fds, FALSE)
    BY ZenonT(30), <1>4 DEF Rounds, Step
  <1> QED
    BY ZenonT(30), <1>3, <1>5, RoundsRelease DEF Releasable

-----------------------------------------------------------------------------
(* The dispatcher is destroyed or replaced.                                 *)

\* Destroy keeps the invariant: whatever is freed, no adapter is left.
LEMMA DestroyKeeps ==
    ASSUME ConnectionsInv, Destroy
    PROVE  ConnectionsInv'
  <1> DEFINE mine == {fd \in FDs : Current(fd)}
             freed == IF FreesContexts THEN mine ELSE {}
             closed == ForEach(Freed, io, freed)
  <1>1. /\ life = "alive" /\ stage = "loop" /\ life' = "gone" /\ timer' = FALSE
        /\ stage' = stage /\ now' = now /\ back' = back /\ cbs' = cbs /\ status' = status
        /\ type' = type /\ notices' = notices
        /\ io' = ForEach(destroy, closed, DOMAIN closed.nodes)
        /\ ctx' = [fd \in FDs |-> IF fd \in freed THEN NoContext ELSE ctx[fd]]
    BY DEF Destroy, BetweenRounds, loop
  <1>2. Adapted(io, ctx, now.served, type) /\ Sound(io, now.served)
    BY ZenonT(30), <1>1 DEF ConnectionsInv, AdapterInv, Adapted
  <1>3. freed \in SUBSET FDs /\ freed \subseteq Monitored(io)
    BY ZenonT(30), <1>2 DEF Adapted, HasAdapter, Current, Open
  <1>4. \A fd \in FDs : ctx[fd].phase # "closing"
    BY <1>1, NoneClosing DEF At
  <1> HIDE DEF freed
  <1>5. Released(closed, io, freed, TRUE, now.served)
    BY ZenonT(30), <1>2, <1>3, EachFreed
  <1> HIDE DEF closed
  <1>6. Sound(closed, now.served) /\ DOMAIN closed.nodes \in SUBSET FDs
    BY <1>5 DEF Released, Sound, EngineShape
  <1>7. Released(io', closed, DOMAIN closed.nodes, FALSE, now.served)
    BY ZenonT(30), <1>1, <1>6, EachDestroyed
  <1>8. Sound(io', now.served) /\ DOMAIN io'.nodes = {} /\ Monitored(io') = {}
    BY ZenonT(30), <1>7 DEF Released, Monitored
  <1>9. \A fd \in FDs : ctx'[fd] = NoContext \/ ctx'[fd] = ctx[fd]
    BY ZenonT(30), <1>1
  <1>10. NoContext.phase = "none" /\ ~Owned(NoContext)
    BY DEF NoContext, Owned
  <1>a. TypeInv'
    <2>1. ctx' \in [FDs -> {NoContext} \cup Contexts]
      BY ZenonT(30), <1>1 DEF ConnectionsInv, TypeInv
    <2> QED
      BY ZenonT(30), <1>1, <2>1 DEF ConnectionsInv, TypeInv
  <1>b. AdapterInv'
    BY ZenonT(30), <1>1, <1>8 DEF AdapterInv
  <1>c. LoopInv'
    BY ZenonT(30), <1>1, <1>4, <1>9, <1>10 DEF LoopInv, At
  <1>d. CallbackInv'
    BY ZenonT(30), <1>1, <1>8 DEF CallbackInv, Held
  <1>e. ConnectInv'
    <2>1. Attempts(ctx, type, timer, status[Verify])
      BY DEF ConnectionsInv, ConnectInv
    <2>2. \A fd \in FDs : ctx'[fd] = ctx[fd] \/ (~Owned(ctx'[fd]) /\ ctx'[fd].phase = "none")
      BY ZenonT(30), <1>9, <1>10
    <2>3. Attempts(ctx', type, FALSE, status[Verify])
      BY ZenonT(30), <2>1, <2>2 DEF Attempts
    <2> QED
      BY ZenonT(30), <1>1, <2>3 DEF ConnectInv
  <1> QED
    BY <1>a, <1>b, <1>c, <1>d, <1>e DEF ConnectionsInv

\* The contexts after the old dispatcher was destroyed: nobody's, and being freed
\* if frees.
Replaced(d, frees) ==
    /\ d \in [FDs -> Slots]
    /\ \A fd \in FDs :
          /\ Queue(d[fd]) = Queue(ctx[fd]) /\ ~Owned(d[fd])
          /\ fd \notin Monitored(io) => d[fd] = ctx[fd]
          /\ fd \in Monitored(io) =>
                d[fd].phase = IF frees THEN "closing" ELSE ctx[fd].phase

\* The contexts that serviceStateChanged leaves.
LEMMA LeftReplaced ==
    ASSUME ctx \in [FDs -> Slots], NEW frees \in BOOLEAN,
           Monitored(io) = {fd \in FDs : Current(fd)}
    PROVE  LET old == {fd \in FDs : Current(fd)}
           IN Replaced([fd \in FDs |->
                IF fd \notin old THEN ctx[fd]
                ELSE [Left[fd] EXCEPT !.phase = IF frees THEN "closing" ELSE @]], frees)
  <1> DEFINE d == [fd \in FDs |->
                IF fd \notin {gd \in FDs : Current(gd)} THEN ctx[fd]
                ELSE [Left[fd] EXCEPT !.phase = IF frees THEN "closing" ELSE @]]
  <1>1. ASSUME NEW fd \in FDs
        PROVE  /\ d[fd] \in Slots /\ Queue(d[fd]) = Queue(ctx[fd]) /\ ~Owned(d[fd])
               /\ fd \notin Monitored(io) => d[fd] = ctx[fd]
               /\ fd \in Monitored(io) =>
                     d[fd].phase = IF frees THEN "closing" ELSE ctx[fd].phase
    <2>1. CASE Current(fd)
      <3> DEFINE x == [ctx[fd] EXCEPT !.owner = "nobody"]
                 y == [x EXCEPT !.phase = IF frees THEN "closing" ELSE @]
      <3>1. d[fd] = y
        BY ZenonT(30), <2>1 DEF Left
      <3>2. ctx[fd] \in Contexts
        BY <2>1 DEF Current, Open, Slots, NoContext
      <3>3. /\ x \in Contexts /\ x.phase = ctx[fd].phase /\ x.sent = ctx[fd].sent
            /\ x.unsent = ctx[fd].unsent /\ x.owner = "nobody"
        BY ZenonT(30), <3>2 DEF Contexts
      <3> HIDE DEF x
      <3>4. /\ y \in Contexts /\ y.phase = (IF frees THEN "closing" ELSE x.phase)
            /\ y.sent = x.sent /\ y.unsent = x.unsent /\ y.owner = "nobody"
        BY ZenonT(30), <3>3 DEF Contexts
      <3> HIDE DEF y, d
      <3>5. Queue(y) = Queue(ctx[fd]) /\ ~Owned(y)
        BY ZenonT(30), <3>3, <3>4 DEF Queue, Owned
      <3> QED
        BY ZenonT(30), <2>1, <3>1, <3>3, <3>4, <3>5 DEF Slots
    <2>2. CASE ~Current(fd)
      BY <2>2 DEF Current, Open, Owned
    <2> QED
      BY ZenonT(30), <2>1, <2>2
  <1>2. d = [fd \in FDs |-> d[fd]]
    OBVIOUS
  <1> QED
    BY ZenonT(30), <1>1, <1>2 DEF Replaced

\* What destroying the old dispatcher leaves behind, before the new one connects.
LEMMA ReplacedAttempts ==
    ASSUME ConnectionsInv, type = "SINGLE", NEW frees \in BOOLEAN, NEW d, Replaced(d, frees),
           NEW fd \in FDs, NEW x, x.phase = "connecting", Queue(x) = <<>>
    PROVE  /\ Attempts(d, type, TRUE, status[Verify])
           /\ Attempts([d EXCEPT ![fd] = x], type, FALSE, status[Verify])
  <1> DEFINE e == [d EXCEPT ![fd] = x]
  <1>1. Attempts(ctx, type, timer, status[Verify])
    BY ZenonT(30) DEF ConnectionsInv, ConnectInv
  <1>2. \A gd \in FDs : d[gd].phase = "connecting" => ctx[gd].phase = "connecting"
    BY ZenonT(30) DEF Replaced
  <1>3. \A gd \in FDs : ~Owned(d[gd]) /\ Queue(d[gd]) = Queue(ctx[gd])
    BY ZenonT(30) DEF Replaced
  <1>4. \A gd \in FDs : d[gd].phase = "connecting" =>
           \A k \in DOMAIN Queue(d[gd]) : Queue(d[gd])[k] # Verify
    BY ZenonT(30), <1>1, <1>2, <1>3 DEF Attempts
  <1>5. DOMAIN d = FDs /\ e[fd] = x /\ \A gd \in FDs \ {fd} : e[gd] = d[gd]
    BY ZenonT(30) DEF Replaced
  <1> HIDE DEF e
  <1>6. \A gd \in FDs : Owned(e[gd]) => gd = fd
    BY ZenonT(30), <1>3, <1>5
  <1>7. \A gd \in FDs : e[gd].phase = "connecting" =>
           \A k \in DOMAIN Queue(e[gd]) : Queue(e[gd])[k] # Verify
    BY <1>4, <1>5
  <1>8. Attempts(d, type, TRUE, status[Verify])
    BY ZenonT(30), <1>3, <1>4 DEF Attempts
  <1>9. Attempts(e, type, FALSE, status[Verify])
    BY ZenonT(30), <1>6, <1>7 DEF Attempts
  <1> QED
    BY ZenonT(30), <1>8, <1>9 DEF e

\* The callbacks stay with their contexts.
LEMMA ReplacedHeld ==
    ASSUME ConnectionsInv, NEW frees \in BOOLEAN, NEW d, Replaced(d, frees)
    PROVE  /\ Held(Monitored(io), d, cbs, status) /\ Shaped(Monitored(io), d, status)
  <1>1. Monitored(io) \subseteq FDs /\ Shaped(Monitored(io), ctx, status)
    BY ZenonT(30), IsShaped, MonitoredOpen
  <1>2. \A gd \in Monitored(io) : Queue(d[gd]) = Queue(ctx[gd])
    BY ZenonT(30), <1>1 DEF Replaced
  <1>3. /\ Held(Monitored(io), ctx, cbs, status) /\ Monitored(io) \subseteq Monitored(io)
        /\ \A f \in cbs : status[f] = "held" => f \in cbs /\ status[f] = "held"
    BY ZenonT(30), IsShaped
  <1>4. Held(Monitored(io), d, cbs, status)
    BY ONLY ZenonT(30), <1>2, <1>3, HeldFewer
  <1> QED
    BY <1>1, <1>4 DEF Shaped, Replaced

\* serviceStateChanged keeps the invariant, although the new context is attached before the
\* old one is released.
LEMMA serviceStateChangedKeeps ==
    ASSUME ConnectionsInv, serviceStateChanged
    PROVE  ConnectionsInv'
  <1> DEFINE old == {fd \in FDs : Current(fd)}
             frees == FreesContexts
             left == [fd \in FDs |->
                IF fd \notin old THEN ctx[fd]
                ELSE [Left[fd] EXCEPT !.phase = IF frees THEN "closing" ELSE @]]
             x == [phase |-> "connecting", owner |-> "dispatcher", node |-> NodeOf[Verify],
                   eof |-> FALSE, connected |-> FALSE, sent |-> <<>>, unsent |-> <<>>]
             Attached(new) == addWrite(attach(io, new), new)
             Gone(i) == IF frees THEN i ELSE ForEach(destroy, i, old)
  <1>1. /\ stage \in {"sentinel", "notified"} /\ notices > 0 /\ notices' = notices - 1
        /\ now' = now /\ status' = status /\ type' = type /\ life' = life /\ calling' = calling
        /\ cbs' = (IF frees THEN cbs ELSE {})
        /\ IF frees THEN stage' = "closing" /\ back' = "notified" ELSE stage' = "notified"
    BY DEF serviceStateChanged
  <1>2. \/ /\ \E new \in Lowest(left) : /\ ctx' = [left EXCEPT ![new] = x]
                                        /\ io' = Gone(Attached(new))
           /\ timer' = FALSE
        \/ ctx' = left /\ io' = Gone(io) /\ timer' = TRUE
    BY ZenonT(30) DEF serviceStateChanged, NewContext, armConnectionRetryTimer
  <1>3. /\ life = "alive" /\ type = "SINGLE" /\ frees \in BOOLEAN /\ ctx \in [FDs -> Slots]
        /\ notices \in Nat /\ cbs \subseteq Callbacks /\ Verify \in Callbacks
        /\ status \in [Callbacks -> {"idle", "held", "posted", "done"}]
    <2>1. TypeInv /\ life = "alive" /\ type = "SINGLE"
      BY ZenonT(30), <1>1 DEF ConnectionsInv, TypeInv, LoopInv
    <2>2. frees \in BOOLEAN
      BY ONLY SMTT(30) DEF FreesContexts
    <2> QED
      BY ZenonT(30), <2>1, <2>2 DEF TypeInv, Slots, Callbacks
  <1>4. Adapted(io, ctx, now.served, type)
    BY ZenonT(30), <1>3 DEF ConnectionsInv, AdapterInv
  <1>5. \A fd \in FDs : ctx[fd].phase # "closing"
    BY ZenonT(30), <1>1, NoneClosing DEF At
  <1>6. /\ Monitored(io) = old /\ old \in SUBSET FDs /\ DOMAIN io.nodes = old
        /\ \A fd, gd \in old : fd = gd
    BY ZenonT(30), <1>3, <1>4, <1>5
       DEF Adapted, HasAdapter, Current, Open, ConnectionsInv, ConnectInv, Attempts, Owned
  <1>7. Replaced(left, frees)
    BY ZenonT(30), <1>3, <1>6, LeftReplaced
  <1>8. x \in Contexts /\ x.phase = "connecting" /\ x.owner = "dispatcher" /\ Queue(x) = <<>>
    <2>1. <<>> \in Seq(Callbacks)
      OBVIOUS
    <2>2. NodeOf[Verify] \in Range(NodeOf)
      BY <1>3, NodesKnown
    <2>3. x \in Contexts
      BY ZenonT(30), <2>1, <2>2 DEF Contexts
    <2> QED
      BY <2>3 DEF Queue
  <1> HIDE DEF x, left, frees
  <1>9. /\ left \in [FDs -> Slots] /\ DOMAIN left = FDs
        /\ \A fd \in FDs : ~Owned(left[fd])
        /\ \A fd \in old : left[fd].phase = IF frees THEN "closing" ELSE ctx[fd].phase
        /\ \A fd \in FDs : left[fd].phase = "closing" => frees /\ fd \in old
    BY ZenonT(30), <1>5, <1>6, <1>7 DEF Replaced
  <1>10. \A fd \in FDs : HasAdapter(left[fd], type) <=> frees /\ fd \in old
    BY ZenonT(30), <1>3, <1>4, <1>6, <1>9 DEF HasAdapter, Owned, Current, Open
  <1>11. Held(Monitored(io), left, cbs, status) /\ Shaped(Monitored(io), left, status)
    BY ZenonT(30), <1>3, <1>7, ReplacedHeld
  <1>12. \A new \in Lowest(left) : new \in FDs /\ new \notin old
    BY <1>9 DEF Current, Open, Lowest
  <1>15. 4 \in FDs
    BY ConstantsKnown DEF FDs
  <1>16. /\ life' = "alive" /\ type' = type /\ now' = now /\ notices' \in Nat
         /\ (notices' > 0 => type = "SINGLE") /\ stage' # "client" /\ cbs' \subseteq Callbacks
         /\ status' \in [Callbacks -> {"idle", "held", "posted", "done"}]
    BY <1>1, <1>3
  <1>13. CASE frees
    <2>1. Adapted(io, left, now.served, type)
      <3>1. Monitored(io) = {fd \in FDs : HasAdapter(left[fd], type)}
        BY ZenonT(30), <1>6, <1>10, <1>13
      <3>2. \A fd \in Monitored(io) : Listens(io.nodes[fd], left[fd])
        BY ZenonT(30), <1>6, <1>9, <1>13 DEF Listens
      <3> QED
        BY ZenonT(30), <1>4, <3>1, <3>2 DEF Adapted
    <2>2. ASSUME NEW c, \A fd \in FDs : c[fd].phase = "closing" => left[fd].phase = "closing",
                 ctx' = c
          PROVE  LoopInv'
      BY ZenonT(30), <1>1, <1>3, <1>6, <1>9, <1>13, <2>2 DEF LoopInv, At
    <2>3. CASE ctx' = left /\ io' = io /\ timer' = TRUE
      <3>1. Attempts(left, type, TRUE, status[Verify])
        BY ZenonT(30), <1>3, <1>7, <1>8, <1>15, ReplacedAttempts
      <3>2. LoopInv'
        BY ZenonT(30), <2>2, <2>3
      <3> QED
        BY <1>1, <1>3, <1>9, <1>11, <1>13, <2>1, <2>3, <3>1, <3>2, Assembled
    <2>4. ASSUME NEW new \in Lowest(left), ctx' = [left EXCEPT ![new] = x],
                 io' = Attached(new), timer' = FALSE
          PROVE  ConnectionsInv'
      <3>1. Adapted(io', ctx', now.served, type) /\ Monitored(io') = Monitored(io) \cup {new}
        <4>1. Added(io, left, new, io', ctx')
          BY ZenonT(30), <1>8, <1>9, <2>4 DEF Lowest, Added
        <4> QED
          BY ONLY SMTT(30), <2>1, <4>1, AdaptedNew
      <3>2. new \in FDs /\ new \notin Monitored(io)
        BY ZenonT(30), <1>6, <1>12, <2>4
      <3>3. Held(Monitored(io) \cup {new}, [left EXCEPT ![new] = x], cbs, status)
        BY ZenonT(30), <1>8, <1>11, <3>2, HeldNew
      <3>4. Attempts([left EXCEPT ![new] = x], type, FALSE, status[Verify])
        BY ZenonT(30), <1>3, <1>7, <1>8, <3>2, ReplacedAttempts
      <3>5. /\ [left EXCEPT ![new] = x] \in [FDs -> Slots]
            /\ \A fd \in FDs : [left EXCEPT ![new] = x][fd].phase = "closing"
                                    => left[fd].phase = "closing"
        BY ZenonT(30), <1>8, <1>9, <3>2 DEF Slots
      <3>6. LoopInv'
        BY ZenonT(30), <2>2, <2>4, <3>5
      <3> QED
        <4>1. /\ Adapted(io', ctx', now.served, type) /\ ctx' \in [FDs -> Slots]
              /\ Held(Monitored(io'), ctx', cbs', status') /\ timer' \in BOOLEAN
              /\ Attempts(ctx', type, timer', status'[Verify])
          BY ZenonT(30), <1>1, <1>13, <2>4, <3>1, <3>3, <3>4, <3>5
        <4> QED
          BY ZenonT(30), <1>16, <3>6, <4>1, Assembled
    <2> QED
      BY ZenonT(30), <1>2, <1>13, <2>3, <2>4
  <1>14. CASE ~frees
    <2>1. ASSUME NEW c, \A fd \in FDs : c[fd].phase # "closing", ctx' = c
          PROVE  LoopInv'
      BY ZenonT(30), <1>1, <1>3, <1>14, <2>1 DEF LoopInv, At
    <2>2. \A fd \in FDs : left[fd].phase # "closing" /\ ~HasAdapter(left[fd], type)
      BY ZenonT(30), <1>9, <1>10, <1>14
    <2>3. CASE ctx' = left /\ io' = ForEach(destroy, io, old) /\ timer' = TRUE
      <3>1. Attempts(left, type, TRUE, status[Verify])
        BY ZenonT(30), <1>3, <1>7, <1>8, <1>15, ReplacedAttempts
      <3>2. LoopInv'
        BY ZenonT(30), <2>1, <2>2, <2>3
      <3>3. Released(io', io, old, FALSE, now.served)
        BY ZenonT(30), <1>4, <1>6, <2>3, EachDestroyed DEF Adapted
      <3>4. Sound(io', now.served) /\ Monitored(io') = {} /\ DOMAIN io'.nodes = {}
        BY ZenonT(30), <1>6, <3>3 DEF Released
      <3>5. Adapted(io', left, now.served, type) /\ Held(Monitored(io'), left, {}, status)
        BY ZenonT(30), <2>2, <3>4 DEF Adapted, Held
      <3> QED
        BY <1>1, <1>3, <1>9, <1>14, <2>3, <3>1, <3>2, <3>5, Assembled
    <2>4. ASSUME NEW new \in Lowest(left), ctx' = [left EXCEPT ![new] = x],
                 io' = ForEach(destroy, Attached(new), old), timer' = FALSE
          PROVE  ConnectionsInv'
      <3>0. PICK added : added = Attached(new)
        BY ZenonT(30)
      <3>2. new \in FDs /\ new \notin Monitored(io)
        BY ZenonT(30), <1>6, <1>12, <2>4
      <3>1. /\ Sound(added, now.served) /\ Monitored(added) = old \cup {new}
            /\ DOMAIN added.nodes = old \cup {new} /\ added.nodes[new].writing
        BY ZenonT(30), <1>4, <1>6, <3>0, <3>2, NewSound DEF Adapted
      <3>3. Released(io', added, old, FALSE, now.served)
        BY ZenonT(30), <1>6, <2>4, <3>0, <3>1, EachDestroyed
      <3>4. /\ Sound(io', now.served) /\ Monitored(io') = {new} /\ DOMAIN io'.nodes = {new}
            /\ io'.nodes[new].writing
        BY ZenonT(30), <1>6, <3>1, <3>2, <3>3 DEF Released
      <3>5. /\ ctx' \in [FDs -> Slots] /\ ctx'[new] = x
            /\ \A fd \in FDs \ {new} : ctx'[fd] = left[fd]
        BY ZenonT(30), <1>8, <1>9, <2>4, <3>2 DEF Slots
      <3>6. Attempts(ctx', type, FALSE, status[Verify])
        BY ZenonT(30), <1>3, <1>7, <1>8, <2>4, <3>2, ReplacedAttempts
      <3>7. LoopInv'
        BY ZenonT(30), <1>8, <2>1, <2>2, <3>5
      <3>8. Adapted(io', ctx', now.served, type)
        BY ZenonT(30), <1>8, <2>2, <3>2, <3>4, <3>5 DEF Adapted, HasAdapter, Listens
      <3>9. Held({new}, ctx', {}, status)
        BY <1>8, <3>5 DEF Held
      <3> QED
        <4>1. /\ Held(Monitored(io'), ctx', cbs', status') /\ timer' \in BOOLEAN
              /\ Attempts(ctx', type, timer', status'[Verify])
          BY ZenonT(30), <1>1, <1>14, <2>4, <3>4, <3>6, <3>9
        <4> QED
          BY ZenonT(30), <1>16, <3>5, <3>7, <3>8, <4>1, Assembled
    <2> QED
      BY ZenonT(30), <1>2, <1>14, <2>3, <2>4
  <1> QED
    BY ZenonT(30), <1>13, <1>14

-----------------------------------------------------------------------------
(* The initial states, and steps that change nothing.                      *)

\* The engine at first.
LEMMA InitSound ==
    ASSUME Init
    PROVE  Sound(io, now.served) /\ DOMAIN io.nodes = {} /\ Monitored(io) = {}
  <1>1. /\ DOMAIN io = {"handlers", "epoll", "ebuffer", "nodes", "aborted"} /\ io.aborted = "no"
        /\ DOMAIN io.handlers = 1..3 /\ io.epoll = [fd \in 1..3 |-> {"IN"}]
        /\ io.ebuffer = <<>> /\ io.nodes = [fd \in {} |-> NewNode]
    BY ZenonT(30) DEF Init
  <1>2. DOMAIN io.nodes = {} /\ DOMAIN io.ebuffer = {} /\ DOMAIN io.epoll = 1..3
    BY <1>1
  <1>3. Monitored(io) = {}
    BY ZenonT(30), <1>2 DEF Monitored
  <1>4. EngineShape(io)
    <2>1. io.nodes \in [{} -> Nodes] /\ io.ebuffer \in [{} -> Events]
      BY <1>1, <1>2
    <2>2. io.epoll \in [1..3 -> SUBSET {"IN", "OUT"}]
      BY ZenonT(30), <1>1
    <2> QED
      BY ZenonT(30), <1>1, <1>2, <2>1, <2>2 DEF EngineShape
  <1>5. Registered(io)
    BY ZenonT(30), <1>1, <1>2, <1>3 DEF Registered
  <1>6. Buffered(io, now.served)
    BY <1>2 DEF Buffered
  <1> QED
    BY ZenonT(30), <1>2, <1>3, <1>4, <1>5, <1>6 DEF Sound

\* The invariant holds initially.
LEMMA InitInv ==
    ASSUME Init
    PROVE  ConnectionsInv
  <1>1. /\ type \in {"SINGLE", "CLUSTER"} /\ now = NotServing /\ stage = "loop"
        /\ ctx = [fd \in FDs |-> NoContext] /\ timer = FALSE /\ cbs = {} /\ notices = 0
        /\ status = [c \in Callbacks |-> "idle"] /\ life = "new"
    BY DEF Init
  <1>2. Sound(io, now.served) /\ DOMAIN io.nodes = {} /\ Monitored(io) = {}
    BY ZenonT(30), InitSound
  <1>3. \A fd \in FDs : ctx[fd].phase = "none" /\ ~Owned(ctx[fd]) /\ ~Open(fd)
    BY <1>1 DEF NoContext, Owned, Open
  <1>4. Verify \in Callbacks
    BY ZenonT(30) DEF Callbacks
  <1>a. TypeInv
    <2>1. ctx \in [FDs -> {NoContext} \cup Contexts]
      BY ZenonT(30), <1>1
    <2>2. status \in [Callbacks -> {"idle", "held", "posted", "done"}]
      BY ZenonT(30), <1>1
    <2>3. notices \in Nat /\ ~(notices > 0) /\ now.events = {}
      BY <1>1 DEF NotServing
    <2>4. timer \in BOOLEAN
      BY ZenonT(30), <1>1
    <2> QED
      BY ZenonT(30), <1>1, <2>1, <2>2, <2>3, <2>4 DEF TypeInv
  <1>b. AdapterInv
    BY ZenonT(30), <1>1, <1>2 DEF AdapterInv
  <1>c. LoopInv
    BY ZenonT(30), <1>1, <1>3 DEF LoopInv, At
  <1>d. CallbackInv
    BY ZenonT(30), <1>1, <1>2 DEF CallbackInv, Held
  <1>e. ConnectInv
    BY ZenonT(30), <1>1, <1>3, <1>4 DEF ConnectInv, Attempts
  <1> QED
    BY ZenonT(30), <1>a, <1>b, <1>c, <1>d, <1>e DEF ConnectionsInv

\* The invariant is about the state.
LEMMA StutterKeeps ==
    ASSUME ConnectionsInv, UNCHANGED vars
    PROVE  ConnectionsInv'
  <1>1. /\ io' = io /\ now' = now /\ stage' = stage /\ back' = back /\ ctx' = ctx
        /\ timer' = timer /\ cbs' = cbs /\ status' = status /\ calling' = calling
        /\ type' = type /\ notices' = notices /\ life' = life
    BY ZenonT(30) DEF vars, loop, dispatcher, environment
  <1>a. TypeInv'
    BY ZenonT(30), <1>1 DEF ConnectionsInv, TypeInv
  <1>b. AdapterInv'
    BY ZenonT(30), <1>1 DEF ConnectionsInv, AdapterInv
  <1>c. LoopInv'
    BY ZenonT(30), <1>1 DEF ConnectionsInv, LoopInv, At
  <1>d. CallbackInv'
    BY ZenonT(30), <1>1 DEF ConnectionsInv, CallbackInv
  <1>e. ConnectInv'
    BY ZenonT(30), <1>1 DEF ConnectionsInv, ConnectInv, Open
  <1> QED
    BY ZenonT(30), <1>a, <1>b, <1>c, <1>d, <1>e DEF ConnectionsInv

-----------------------------------------------------------------------------
(* What the invariant says of the engine, and the end of the process.       *)

\* The table of the engine, by the invariant.
LEMMA MonitorsForAdapters ==
    ASSUME ConnectionsInv
    PROVE  MonitoringExact
  <1>1. Sound(io, now.served) /\ (life # "alive" => Monitored(io) = {})
    BY ZenonT(30) DEF ConnectionsInv, AdapterInv, Adapted, Monitored
  <1>2. \A fd \in Monitored(io) : Open(fd)
    BY ZenonT(30), MonitoredOpen DEF HasAdapter, Open
  <1>3. 1..3 \cap FDs = {}
    BY ConstantsKnown DEF FDs
  <1> QED
    BY ZenonT(30), <1>1, <1>2, <1>3 DEF MonitoringExact, Monitored, Sound, Registered

\* The events that connections wait for, by the invariant.
LEMMA HearsEvents ==
    ASSUME ConnectionsInv
    PROVE  NeverDeaf
  <1> SUFFICES ASSUME NEW fd \in FDs, life = "alive", Current(fd),
                      ctx[fd].phase # "closing"
               PROVE  /\ ctx[fd].phase = "connecting" \/ ctx[fd].unsent # <<>>
                           => "OUT" \in io.epoll[fd]
                      /\ ctx[fd].phase = "open" => "IN" \in io.epoll[fd]
    BY ZenonT(30) DEF NeverDeaf
  <1>1. fd \in Monitored(io) /\ Listens(io.nodes[fd], ctx[fd])
    BY ZenonT(30) DEF ConnectionsInv, AdapterInv, Adapted, HasAdapter, Current, Open
  <1>2. io.epoll[fd] = eventState(io.nodes[fd])
    BY ZenonT(30), <1>1 DEF ConnectionsInv, AdapterInv, Adapted, Sound, Registered
  <1> QED
    BY ZenonT(30), <1>1, <1>2 DEF Listens, eventState

\* The process has used a Node that was freed: nothing else happened.
Crashed == io.aborted = "freed Node" /\ NodeFreed /\ MonitoringExact /\ NeverDeaf

\* freedNodeWrites leads there.
LEMMA FreedNodeCrashes ==
    ASSUME ConnectionsInv, freedNodeWrites
    PROVE  Crashed'
  <1>1. /\ io' = [io EXCEPT !.aborted = "freed Node"] /\ NodeFreed
        /\ now' = now /\ ctx' = ctx /\ type' = type /\ life' = life
    BY ZenonT(30) DEF freedNodeWrites, Abort, loop, environment
  <1>2. DOMAIN io = {"handlers", "epoll", "ebuffer", "nodes", "aborted"}
    BY ZenonT(30) DEF ConnectionsInv, AdapterInv, Adapted, Sound, EngineShape
  <1>3. /\ io'.aborted = "freed Node" /\ io'.handlers = io.handlers /\ io'.epoll = io.epoll
        /\ io'.nodes = io.nodes
    BY ZenonT(30), <1>1, <1>2
  <1>4. MonitoringExact /\ NeverDeaf
    BY ZenonT(30), MonitorsForAdapters, HearsEvents
  <1>5. MonitoringExact'
    BY ZenonT(30), <1>1, <1>3, <1>4 DEF MonitoringExact, Open
  <1>6. NeverDeaf'
    BY ZenonT(30), <1>1, <1>3, <1>4 DEF NeverDeaf, Current, Open
  <1> QED
    BY ZenonT(30), <1>1, <1>3, <1>5, <1>6 DEF Crashed, NodeFreed

\* It is the end.
LEMMA CrashedStays ==
    ASSUME Crashed, [Next]_vars
    PROVE  UNCHANGED vars /\ Crashed'
  <1>1. UNCHANGED vars
    BY ZenonT(30) DEF Crashed, Next
  <1>2. io' = io /\ now' = now /\ ctx' = ctx /\ type' = type /\ life' = life
    BY ZenonT(30), <1>1 DEF vars, loop, environment
  <1>3. MonitoringExact'
    BY ZenonT(30), <1>2 DEF Crashed, MonitoringExact, Open
  <1>4. NeverDeaf'
    BY ZenonT(30), <1>2 DEF Crashed, NeverDeaf, Current, Open
  <1> QED
    BY ZenonT(30), <1>1, <1>2, <1>3, <1>4 DEF Crashed, NodeFreed

-----------------------------------------------------------------------------
(* The theorems.                                                            *)

\* Every step keeps the invariant, or is that of a Node that was freed.
LEMMA NextKeeps ==
    ASSUME ConnectionsInv, [Next]_vars
    PROVE  ConnectionsInv' \/ Crashed'
  <1>1. CASE Construct
    BY ZenonT(30), <1>1, ConstructKeeps
  <1>2. CASE epollWait
    BY ZenonT(30), <1>2, epollWaitKeeps
  <1>3. CASE callHandler
    BY <1>3, callHandlerKeeps
  <1>4. CASE roundOver
    BY <1>4, roundOverKeeps
  <1>5. CASE clientReturns
    BY <1>5, clientReturnsKeeps
  <1>6. CASE readReply
    BY <1>6, readReplyKeeps
  <1>7. CASE readEof
    BY <1>7, readEofKeeps
  <1>8. CASE write
    BY <1>8, writeKeeps
  <1>9. CASE writeFails
    BY <1>9, writeFailsKeeps
  <1>10. CASE readDone \/ handlerDone \/ eventDone \/ sentinelDone
    BY ZenonT(30), <1>10, MoversMove, MoveKeeps
  <1>11. ASSUME NEW fd \in FDs, pendingCallback(fd)
         PROVE  ConnectionsInv'
    BY ZenonT(30), <1>11, pendingCallbackKeeps
  <1>12. ASSUME NEW fd \in FDs, free(fd)
         PROVE  ConnectionsInv'
    BY ZenonT(30), <1>12, freeKeeps
  <1>13. ASSUME NEW e \in Callbacks, executePosted(e)
         PROVE  ConnectionsInv'
    BY <1>13, executePostedKeeps
  <1>14. CASE connectionRetryTimer
    BY <1>14, connectionRetryTimerKeeps
  <1>15. CASE serviceStateChanged
    BY <1>15, serviceStateChangedKeeps
  <1>16. ASSUME NEW e \in Commands, dispatchAsync(e)
         PROVE  ConnectionsInv'
    BY ZenonT(30), <1>16, dispatchAsyncKeeps
  <1>17. CASE Destroy
    BY <1>17, DestroyKeeps
  <1>18. CASE Report
    BY <1>18, ReportKeeps
  <1>19. ASSUME NEW fd \in FDs, Lose(fd)
         PROVE  ConnectionsInv'
    BY <1>19, LoseKeeps
  <1>20. CASE UNCHANGED vars
    BY <1>20, StutterKeeps
  <1>21. CASE freedNodeWrites
    BY ZenonT(30), <1>21, FreedNodeCrashes
  <1> QED
    BY ZenonT(30), <1>1, <1>2, <1>3, <1>4, <1>5, <1>6, <1>7, <1>8, <1>9, <1>10, <1>11, <1>12, <1>13,
       <1>14,
       <1>15, <1>16, <1>17, <1>18, <1>19, <1>20, <1>21 DEF Next, Serve

\* The invariant holds in every state, but those after a Node that was freed was used.
THEOREM Invariance == Spec => [](ConnectionsInv \/ Crashed)
  <1>1. Init => ConnectionsInv
    BY InitInv
  <1>2. ConnectionsInv /\ [Next]_vars => ConnectionsInv' \/ Crashed'
    BY NextKeeps
  <1>3. Crashed /\ [Next]_vars => Crashed'
    BY CrashedStays
  <1> QED
    BY <1>1, <1>2, <1>3, PTL DEF Spec

\* What the engine monitors is what the adapters believe, in every state, for any number of
\* descriptors, commands, failures and reports: no adapter that is gone is left in the table of
\* EngineImpl and no open one is missing, although contexts are freed, replaced and attached
\* while a round is being served.
THEOREM EngineMonitorsForAdapters == Spec => []MonitoringExact
  <1>1. ConnectionsInv \/ Crashed => MonitoringExact
    BY ZenonT(30), MonitorsForAdapters DEF Crashed
  <1> QED
    BY <1>1, Invariance, PTL

\* A connection that waits to be established, has output or expects replies is registered for
\* the event that tells it: EpollAdapter never loses a request of hiredis to read or write.
THEOREM ConnectionsAreNeverDeaf == Spec => []NeverDeaf
  <1>1. ConnectionsInv \/ Crashed => NeverDeaf
    BY ZenonT(30), HearsEvents DEF Crashed
  <1> QED
    BY <1>1, Invariance, PTL

\* No SHAREDDATALAYER_ABORT of EngineImpl and of the dispatchers is reached: no descriptor is
\* added twice or modified or deleted without being there, callHandler finds a handler, and
\* hiredis hands over no callback that the dispatcher does not have.  If the process dies, then
\* in eventHandler of a Node that was destroyed while it ran.
THEOREM NothingAborts == Spec => []NoAbort
  <1>1. ConnectionsInv => io.aborted = "no"
    BY ZenonT(30) DEF ConnectionsInv, AdapterInv, Adapted, Sound, EngineShape
  <1>2. ConnectionsInv \/ Crashed => NoAbort
    BY ZenonT(30), <1>1 DEF Crashed, NoAbort
  <1> QED
    BY <1>2, Invariance, PTL

\* Only the loop over the buffer serves events.
LEMMA OnlyServingServes ==
    ASSUME Next
    PROVE  now' = now \/ callHandler \/ roundOver
  BY ZenonT(60) DEF Next, Serve, Construct, epollWait, clientReturns, readReply, readEof,
         readDone, write, writeFails, freedNodeWrites, handlerDone, pendingCallback, free,
         executePosted, eventDone, connectionRetryTimer, serviceStateChanged, sentinelDone,
         dispatchAsync, Destroy, Report, Lose, loop

\* An event that callHandler passes on reaches the connection it was reported for, and never a
\* connection that got the number of one closed in the same round.
THEOREM EventsReachTheirConnection == Spec => EventReachesItsConnection
  <1> DEFINE Reaches == \A i \in now'.served \ now.served :
                            LET e == io.ebuffer[i]
                            IN e.fd = -1 \/ (e.fd \in DOMAIN io.handlers /\ ~e.closed)
  <1>1. ASSUME ConnectionsInv, [Next]_vars
        PROVE  [Reaches]_vars
    <2>1. CASE now' = now
      BY ZenonT(30), <2>1
    <2>2. CASE callHandler
      <3>1. PICK i \in DOMAIN io.ebuffer \ now.served : now'.served = now.served \cup {i}
        BY ONLY SMTT(30), <2>2 DEF callHandler
      <3>2. Buffered(io, now.served)
        BY ZenonT(30), <1>1 DEF ConnectionsInv, AdapterInv, Adapted, Sound
      <3> QED
        BY ZenonT(30), <3>1, <3>2 DEF Buffered
    <2>3. CASE roundOver
      BY ZenonT(30), <2>3 DEF roundOver, NotServing
    <2>4. CASE UNCHANGED vars
      BY <2>4
    <2> QED
      BY ZenonT(30), <1>1, <2>1, <2>2, <2>3, <2>4, OnlyServingServes
  <1>2. ASSUME Crashed, [Next]_vars
        PROVE  [Reaches]_vars
    BY <1>2, CrashedStays
  <1> QED
    BY <1>1, <1>2, Invariance, PTL DEF Spec, EventReachesItsConnection

=============================================================================
