---------------------- MODULE ClusterMembership_proofs ----------------------
(***************************************************************************)
(* Proofs about ClusterMembership: who the main node lists and who is in   *)
(* message_loop, for any number of workers, connections, faults and frames.*)
(*                                                                         *)
(* The inductive invariant says of every connection slot on its own that   *)
(* it is Sound, of every worker that it Owns the connection it is at and   *)
(* no other, and of the registry that an Online node has a handler.        *)
(***************************************************************************)
EXTENDS ClusterMembership, TLAPS

-----------------------------------------------------------------------------
(* The inductive invariant *)

AtConnection == {"first", "register", "loop"}
Handled == {"serving", "leaving"}
Unregistered == {"backlog", "registering", "done"}

(* No RegisterAck is among the frames s. *)
NoAck(s) == \A k \in 1 .. Len(s) : s[k].type # "Ack"

(* A slot in use belongs to a worker; one of a worker without the token has  *)
(* no handler past registration and no RegisterAck under way to it.          *)
Sound(c) ==
  /\ c \in Connections
  /\ c.client = "open" \/ c.server # "done" => c.node \in Workers
  /\ c.node \notin Trusted => c.server \in Unregistered /\ NoAck(c.down)

WorkerTypes ==
  /\ worker \in [Workers -> [at : WorkerAt, conn : Conns \cup {NoConn}]]
  /\ connState \in [Workers -> {"Connected", "Disconnected", "Reconnecting"}]
  /\ nodeList \in [Workers -> [Workers -> Statuses]]
  /\ shutdown \subseteq Workers

MainTypes ==
  registry \in [Workers -> Statuses] /\ stopping \in BOOLEAN /\ faults \in 0 .. MaxFaults

ConnInv == conn \in [Conns -> Connections] /\ \A i \in Conns : Sound(conn[i])

(* A worker holds the client end of the connection it is at, and nobody      *)
(* holds another.                                                            *)
Owned ==
  /\ \A w \in Workers :
       IF worker[w].at \in AtConnection
         THEN /\ worker[w].conn \in Conns
              /\ conn[worker[w].conn].node = w
              /\ conn[worker[w].conn].client = "open"
         ELSE worker[w].conn = NoConn
  /\ \A i \in Conns :
       conn[i].client = "open" => worker[conn[i].node].conn = i

(* message_loop is entered with a RegisterAck only. *)
LoopEntered ==
  \A w \in Workers : worker[w].at = "loop" => w \in Trusted /\ connState[w] = "Connected"

Listed == \A w \in Workers \ Trusted : registry[w] = "Absent"

ClusterInv ==
  /\ MainTypes /\ WorkerTypes /\ ConnInv
  /\ Owned /\ LoopEntered /\ Listed /\ OnlineIsServed

-----------------------------------------------------------------------------
(* Frames and sequences of them *)

(* The frames the code sends are frames. *)
LEMMA FrameTyped ==
  ASSUME NEW t \in FrameTypes
  PROVE  Frame(t) \in Frames /\ Frame(t).type = t
BY DEF Frame, Frames, NoNodes, Statuses

(* Reading the first frame leaves a sequence of frames; without an Ack it    *)
(* stays without one.                                                        *)
LEMMA TailFrames ==
  ASSUME NEW s \in Seq(Frames), s # << >>
  PROVE  /\ Tail(s) \in Seq(Frames)
         /\ NoAck(s) => NoAck(Tail(s))
         /\ Head(s) \in Frames
         /\ NoAck(s) => Head(s).type # "Ack"
<1>1. Tail(s) \in Seq(Frames) /\ Head(s) \in Frames /\ Head(s) = s[1]
  OBVIOUS
<1>2. Len(s) \in Nat /\ Len(s) >= 1 /\ Len(Tail(s)) = Len(s) - 1
  OBVIOUS
<1>3. \A k \in 1 .. Len(Tail(s)) : k + 1 \in 1 .. Len(s) /\ Tail(s)[k] = s[k + 1]
  BY <1>2
<1>4. NoAck(s) => NoAck(Tail(s))
  BY <1>3 DEF NoAck
<1>5. NoAck(s) => s[1].type # "Ack"
  BY <1>2 DEF NoAck
<1>. QED  BY <1>1, <1>4, <1>5

(* Sending a frame appends it. *)
LEMMA AppendFrames ==
  ASSUME NEW s \in Seq(Frames), NEW f \in Frames
  PROVE  /\ Append(s, f) \in Seq(Frames)
         /\ NoAck(s) /\ f.type # "Ack" => NoAck(Append(s, f))
<1>1. Append(s, f) \in Seq(Frames) /\ Len(Append(s, f)) = Len(s) + 1
  OBVIOUS
<1>2. \A k \in 1 .. Len(s) + 1 :
        Append(s, f)[k] = IF k = Len(s) + 1 THEN f ELSE s[k]
  OBVIOUS
<1>3. \A k \in 1 .. Len(s) + 1 : k # Len(s) + 1 => k \in 1 .. Len(s)
  OBVIOUS
<1>. QED  BY <1>1, <1>2, <1>3 DEF NoAck

LEMMA EmptyFrames == << >> \in Seq(Frames) /\ NoAck(<< >>)
BY DEF NoAck

-----------------------------------------------------------------------------
(* One slot *)

(* What the code may assign to the parts of a connection. *)
LEMMA SlotUpdates ==
  ASSUME NEW c \in Connections
  PROVE  /\ \A s \in ServerEnds :
              LET d == [c EXCEPT !.server = s]
              IN  /\ d \in Connections /\ d.server = s
                  /\ d.node = c.node /\ d.client = c.client /\ d.down = c.down
                  /\ d.up = c.up /\ d.missed = c.missed /\ d.cut = c.cut
         /\ \A s \in Seq(Frames) :
              LET d == [c EXCEPT !.up = s]
              IN  /\ d \in Connections /\ d.up = s
                  /\ d.node = c.node /\ d.client = c.client /\ d.down = c.down
                  /\ d.server = c.server /\ d.missed = c.missed /\ d.cut = c.cut
         /\ \A s \in Seq(Frames) :
              LET d == [c EXCEPT !.down = s]
              IN  /\ d \in Connections /\ d.down = s
                  /\ d.node = c.node /\ d.client = c.client /\ d.up = c.up
                  /\ d.server = c.server /\ d.missed = c.missed /\ d.cut = c.cut
         /\ \A m \in 0 .. MaxMissed :
              LET d == [c EXCEPT !.missed = m]
              IN  /\ d \in Connections /\ d.missed = m
                  /\ d.node = c.node /\ d.client = c.client /\ d.down = c.down
                  /\ d.server = c.server /\ d.up = c.up /\ d.cut = c.cut
BY SMTT(30) DEF Connections

LEMMA SlotTyped ==
  ASSUME NEW c \in Connections
  PROVE  /\ c.node \in Workers \cup {NoWorker} /\ c.client \in {"open", "closed"}
         /\ c.server \in ServerEnds /\ c.up \in Seq(Frames) /\ c.down \in Seq(Frames)
         /\ c.missed \in 0 .. MaxMissed /\ c.cut \in BOOLEAN
BY DEF Connections

LEMMA SendUpFacts ==
  ASSUME NEW c \in Connections, NEW f \in Frames
  PROVE  LET d == SendUp(c, f)
         IN  /\ d \in Connections /\ d.node = c.node /\ d.client = c.client
             /\ d.server = c.server /\ d.down = c.down
<1>1. Append(c.up, f) \in Seq(Frames)
  BY SlotTyped, AppendFrames
<1>. QED  BY <1>1, SlotUpdates DEF SendUp

LEMMA SendDownFacts ==
  ASSUME NEW c \in Connections, NEW f \in Frames
  PROVE  LET d == SendDown(c, f)
         IN  /\ d \in Connections /\ d.node = c.node /\ d.client = c.client
             /\ d.server = c.server
             /\ NoAck(c.down) /\ f.type # "Ack" => NoAck(d.down)
<1>1. /\ Append(c.down, f) \in Seq(Frames)
      /\ NoAck(c.down) /\ f.type # "Ack" => NoAck(Append(c.down, f))
  BY SlotTyped, AppendFrames
<1>. QED  BY <1>1, SlotUpdates DEF SendDown

LEMMA CloseClientFacts ==
  ASSUME NEW c \in Connections
  PROVE  LET d == CloseClient(c)
         IN  /\ d \in Connections /\ d.node = c.node /\ d.client = "closed"
             /\ d.server = c.server /\ NoAck(d.down)
<1>1. << >> \in Seq(Frames) /\ NoAck(<< >>)
  BY EmptyFrames
<1>. DEFINE b == [c EXCEPT !.client = "closed"]
<1>2. /\ b \in Connections /\ b.client = "closed"
      /\ b.node = c.node /\ b.server = c.server
  BY DEF Connections
<1>3. CloseClient(c) = [b EXCEPT !.down = << >>]
  BY DEF CloseClient, Connections
<1>. DEFINE d == [b EXCEPT !.down = << >>]
<1>. HIDE DEF b
<1>4. /\ d \in Connections /\ d.down = << >> /\ d.client = b.client
      /\ d.node = b.node /\ d.server = b.server
  BY <1>1, <1>2, SlotUpdates
<1>. HIDE DEF d
<1>5. NoAck(d.down)
  BY <1>1, <1>4
<1>6. CloseClient(c) = d
  BY <1>3 DEF d
<1>. QED  BY <1>2, <1>4, <1>5, <1>6

LEMMA CloseServerFacts ==
  ASSUME NEW c \in Connections
  PROVE  LET d == CloseServer(c)
         IN  /\ d \in Connections /\ d.node = c.node /\ d.client = c.client
             /\ d.server = "done" /\ d.down = c.down
<1>1. << >> \in Seq(Frames)
  BY EmptyFrames
<1>2. 0 \in 0 .. MaxMissed
  BY ClusterAssumption
<1>. DEFINE a == [c EXCEPT !.server = "done"]
            b == [a EXCEPT !.up = << >>]
<1>3. a \in Connections /\ a.node = c.node /\ a.client = c.client
      /\ a.server = "done" /\ a.down = c.down
  BY SlotUpdates DEF ServerEnds
<1>4. CloseServer(c) = [b EXCEPT !.missed = 0]
  BY DEF CloseServer, Connections
<1>. HIDE DEF a
<1>5. b \in Connections /\ b.node = c.node /\ b.client = c.client
      /\ b.server = "done" /\ b.down = c.down
  BY <1>1, <1>3, SlotUpdates
<1>. HIDE DEF b
<1>. QED  BY <1>2, <1>4, <1>5, SlotUpdates

LEMMA ClosedFacts ==
  /\ Closed \in Connections /\ Closed.client = "closed" /\ Closed.server = "done"
  /\ Sound(Closed)
<1>1. << >> \in Seq(Frames) /\ NoAck(<< >>)
  BY EmptyFrames
<1>2. 0 \in 0 .. MaxMissed
  BY ClusterAssumption
<1>3. Closed \in Connections /\ Closed.client = "closed" /\ Closed.server = "done"
  BY <1>1, <1>2 DEF Closed, Connections, ServerEnds
<1>4. Closed.down = << >>
  BY DEF Closed
<1>. QED  BY <1>1, <1>3, <1>4 DEF Sound, Unregistered

(* Settling a slot forgets only what nobody looks at. *)
LEMMA SettleFacts ==
  ASSUME NEW d, Sound(d)
  PROVE  /\ Sound(Settle(d)) /\ Settle(d) \in Connections
         /\ Settle(d).client = d.client /\ Settle(d).server = d.server
         /\ d.client = "open" \/ d.server # "done" => Settle(d) = d
         /\ d.client \in {"open", "closed"}
<1>1. d \in Connections /\ d.client \in {"open", "closed"}
  BY SlotTyped DEF Sound
<1>. QED  BY <1>1, ClosedFacts DEF Settle, Sound

-----------------------------------------------------------------------------
(* How a step of one slot carries over to the whole *)

(* Slot i becomes Settle(d). *)
Changed(i, d) ==
  i \in Conns /\ Sound(d) /\ conn' = [conn EXCEPT ![i] = Settle(d)]

LEMMA ConnKept ==
  ASSUME ConnInv, NEW i, NEW d, Changed(i, d)
  PROVE  ConnInv'
<1>1. Sound(Settle(d)) /\ Settle(d) \in Connections
  BY SettleFacts DEF Changed
<1>. QED  BY <1>1 DEF Changed, ConnInv

LEMMA ConnAt ==
  ASSUME ConnInv, NEW i, NEW d, Changed(i, d)
  PROVE  /\ conn'[i] = Settle(d)
         /\ \A j \in Conns : j # i => conn'[j] = conn[j]
         /\ conn'[i].client = d.client /\ conn'[i].server = d.server
         /\ d.client = "open" \/ d.server # "done" => conn'[i] = d
         /\ d.client \in {"open", "closed"}
BY SettleFacts DEF Changed, ConnInv

(* Frames and server ends change, the client ends and the workers do not. *)
LEMMA OwnedKept ==
  ASSUME ConnInv, Owned, NEW i, NEW d, Changed(i, d),
         d.node = conn[i].node, d.client = conn[i].client, worker' = worker
  PROVE  Owned'
<1>0. /\ conn'[i].client = d.client /\ conn'[i].server = d.server
      /\ d.client = "open" \/ d.server # "done" => conn'[i] = d
      /\ \A j \in Conns : j # i => conn'[j] = conn[j]
  BY ConnAt
<1>1. \A j \in Conns : conn'[j].client = conn[j].client
  BY <1>0
<1>2. \A j \in Conns : conn[j].client = "open" => conn'[j].node = conn[j].node
  BY <1>0
<1>. QED  BY <1>1, <1>2 DEF Owned

(* Worker w drops the connection it is at. *)
LEMMA OwnedLeft ==
  ASSUME ConnInv, WorkerTypes, Owned, NEW w \in Workers, NEW a \in WorkerAt \ AtConnection,
         worker[w].at \in AtConnection, NEW d, Changed(worker[w].conn, d),
         d.client = "closed", Goto(w, a, NoConn)
  PROVE  Owned'
<1>. DEFINE i == worker[w].conn
<1>1. i \in Conns /\ conn[i].node = w /\ conn[i].client = "open"
  BY DEF Owned
<1>2. conn'[i].client = "closed" /\ \A j \in Conns : j # i => conn'[j] = conn[j]
  BY ConnAt
<1>3. /\ worker'[w].at = a /\ worker'[w].conn = NoConn
      /\ \A v \in Workers : v # w => worker'[v] = worker[v]
  BY DEF Goto, WorkerTypes
<1>. HIDE DEF i
<1>4. ASSUME NEW v \in Workers, worker[v].at \in AtConnection, v # w
      PROVE  worker[v].conn # i
  BY <1>1, <1>4 DEF Owned
<1>5. ASSUME NEW j \in Conns, conn'[j].client = "open"
      PROVE  j # i /\ conn[j].client = "open" /\ conn[j].node # w /\ conn[j].node \in Workers
  <2>1. j # i /\ conn'[j] = conn[j]
    BY <1>2, <1>5
  <2>2. conn[j].client = "open" /\ worker[conn[j].node].conn = j
    BY <1>5, <2>1 DEF Owned
  <2>3. conn[j].node \in Workers
    BY <2>2 DEF ConnInv, Sound
  <2>. QED  BY <2>1, <2>2, <2>3 DEF i
<1>6. \A v \in Workers :
        IF worker'[v].at \in AtConnection
          THEN /\ worker'[v].conn \in Conns
               /\ conn'[worker'[v].conn].node = v
               /\ conn'[worker'[v].conn].client = "open"
          ELSE worker'[v].conn = NoConn
  BY <1>2, <1>3, <1>4 DEF Owned
<1>7. \A j \in Conns : conn'[j].client = "open" => worker'[conn'[j].node].conn = j
  BY <1>2, <1>3, <1>5 DEF Owned
<1>. QED  BY <1>6, <1>7 DEF Owned

(* Worker w, at no connection, goes on without one. *)
LEMMA OwnedIdle ==
  ASSUME ConnInv, WorkerTypes, Owned, NEW w \in Workers, NEW a \in WorkerAt \ AtConnection,
         worker[w].at \notin AtConnection, conn' = conn, Goto(w, a, NoConn)
  PROVE  Owned'
<1>1. /\ worker'[w].at = a /\ worker'[w].conn = NoConn
      /\ \A v \in Workers : v # w => worker'[v] = worker[v]
  BY DEF Goto, WorkerTypes
<1>2. worker[w].conn = NoConn
  BY DEF Owned
<1>3. \A j \in Conns : conn[j].client = "open" => conn[j].node \in Workers
  BY DEF ConnInv, Sound
<1>4. \A j \in Conns : j # NoConn
  BY ClusterAssumption
<1>. QED  BY <1>1, <1>2, <1>3, <1>4 DEF Owned

(* Handlers that have not finished stay at their node. *)
LEMMA ServedKept ==
  ASSUME ConnInv, OnlineIsServed, NEW i, NEW d, Changed(i, d),
         d.node = conn[i].node, conn[i].server \in Handled => d.server \in Handled,
         registry' = registry
  PROVE  OnlineIsServed'
<1>0. /\ conn'[i].client = d.client /\ conn'[i].server = d.server
      /\ d.client = "open" \/ d.server # "done" => conn'[i] = d
      /\ \A j \in Conns : j # i => conn'[j] = conn[j]
  BY ConnAt
<1>1. \A j \in Conns : conn[j].server \in Handled
        => conn'[j].server \in Handled /\ conn'[j].node = conn[j].node
  BY <1>0 DEF Handled
<1>. QED  BY <1>1 DEF OnlineIsServed, Handled

(* A slot that keeps its node stays Sound unless a handler or an Ack appears. *)
LEMMA SoundNext ==
  ASSUME NEW c, Sound(c), NEW d \in Connections, d.node = c.node,
         d.client = "open" => c.client = "open",
         d.server # "done" => c.server # "done",
         c.node \notin Trusted /\ c.server \in Unregistered
           => d.server \in Unregistered /\ (NoAck(c.down) => NoAck(d.down))
  PROVE  Sound(d)
BY DEF Sound

(* A worker's own part: only w's moves, to a place outside message_loop. *)
OthersStay(w) ==
  /\ connState' \in [Workers -> {"Connected", "Disconnected", "Reconnecting"}]
  /\ \A v \in Workers : v # w => connState'[v] = connState[v]
  /\ nodeList' \in [Workers -> [Workers -> Statuses]]
  /\ shutdown' \subseteq Workers

LEMMA WorkersKept ==
  ASSUME WorkerTypes, LoopEntered, NEW w \in Workers, NEW a \in WorkerAt, a # "loop",
         NEW i \in Conns \cup {NoConn}, Goto(w, a, i), OthersStay(w)
  PROVE  WorkerTypes' /\ LoopEntered'
<1>1. /\ worker' \in [Workers -> [at : WorkerAt, conn : Conns \cup {NoConn}]]
      /\ worker'[w].at = a
      /\ \A v \in Workers : v # w => worker'[v] = worker[v]
  BY DEF Goto, WorkerTypes
<1>. QED  BY <1>1 DEF WorkerTypes, LoopEntered, OthersStay

MainStays ==
  registry' = registry /\ stopping' \in BOOLEAN /\ faults' \in 0 .. MaxFaults

(* A step on one slot that moves no worker and keeps every handler. *)
LEMMA SlotStep ==
  ASSUME ClusterInv, NEW i, NEW d, Changed(i, d),
         d.node = conn[i].node, d.client = conn[i].client,
         conn[i].server \in Handled => d.server \in Handled,
         worker' = worker, connState' = connState, shutdown' = shutdown,
         nodeList' \in [Workers -> [Workers -> Statuses]], MainStays
  PROVE  ClusterInv'
<1>1. ConnInv' /\ Owned' /\ OnlineIsServed'
  BY ConnKept, OwnedKept, ServedKept DEF ClusterInv, MainStays
<1>2. WorkerTypes' /\ LoopEntered'
  BY DEF ClusterInv, WorkerTypes, LoopEntered
<1>3. MainTypes' /\ Listed'
  BY DEF ClusterInv, MainTypes, Listed, MainStays
<1>. QED  BY <1>1, <1>2, <1>3 DEF ClusterInv

(* Worker w drops the connection it is at. *)
LEMMA DropStep ==
  ASSUME ClusterInv, NEW w \in Workers, worker[w].at \in AtConnection,
         NEW a \in WorkerAt \ AtConnection, Goto(w, a, NoConn), OthersStay(w), MainStays,
         NEW b \in Connections, b.node = conn[worker[w].conn].node,
         b.server = conn[worker[w].conn].server,
         Update(worker[w].conn, CloseClient(b))
  PROVE  ClusterInv'
<1>. DEFINE i == worker[w].conn
            d == CloseClient(b)
<1>1. i \in Conns /\ conn[i].node = w
  BY DEF ClusterInv, Owned
<1>2. /\ d \in Connections /\ d.node = conn[i].node /\ d.client = "closed"
      /\ d.server = conn[i].server /\ NoAck(d.down)
  BY CloseClientFacts
<1>3. conn' = [conn EXCEPT ![i] = Settle(d)]
  BY DEF Update
<1>. HIDE DEF d
<1>4. Sound(conn[i])
  BY <1>1 DEF ClusterInv, ConnInv
<1>5. Sound(d)
  BY <1>2, <1>4, SoundNext
<1>6. Changed(i, d)
  BY <1>1, <1>3, <1>5 DEF Changed
<1>7. ConnInv' /\ OnlineIsServed'
  BY <1>2, <1>6, ConnKept, ServedKept DEF ClusterInv, MainStays
<1>8. Owned'
  BY <1>2, <1>6, OwnedLeft DEF ClusterInv
<1>9. a # "loop" /\ NoConn \in Conns \cup {NoConn} /\ a \in WorkerAt
  BY DEF AtConnection
<1>10. WorkerTypes' /\ LoopEntered'
  BY <1>9, WorkersKept DEF ClusterInv
<1>11. MainTypes' /\ Listed'
  BY DEF ClusterInv, MainTypes, Listed, MainStays
<1>. QED  BY <1>7, <1>8, <1>10, <1>11 DEF ClusterInv

(* Worker w, at no connection, goes on without one. *)
LEMMA IdleStep ==
  ASSUME ClusterInv, NEW w \in Workers, worker[w].at \notin AtConnection,
         NEW a \in WorkerAt \ AtConnection, Goto(w, a, NoConn), OthersStay(w), MainStays,
         conn' = conn
  PROVE  ClusterInv'
<1>1. Owned'
  BY OwnedIdle DEF ClusterInv
<1>2. ConnInv' /\ OnlineIsServed'
  BY DEF ClusterInv, ConnInv, OnlineIsServed, MainStays
<1>3. a # "loop" /\ NoConn \in Conns \cup {NoConn} /\ a \in WorkerAt
  BY DEF AtConnection
<1>4. WorkerTypes' /\ LoopEntered'
  BY <1>3, WorkersKept DEF ClusterInv
<1>5. MainTypes' /\ Listed'
  BY DEF ClusterInv, MainTypes, Listed, MainStays
<1>. QED  BY <1>1, <1>2, <1>4, <1>5 DEF ClusterInv

-----------------------------------------------------------------------------
(* The workers *)

LEMMA FaultsBounded ==
  ASSUME ClusterInv, Fault \/ faults' = faults
  PROVE  faults' \in 0 .. MaxFaults
BY ClusterAssumption DEF ClusterInv, MainTypes, Fault

LEMMA StateSet ==
  ASSUME ClusterInv, NEW w \in Workers,
         NEW s \in {"Connected", "Disconnected", "Reconnecting"},
         connState' = connState \/ connState' = [connState EXCEPT ![w] = s],
         nodeList' = nodeList \/ nodeList' = [nodeList EXCEPT ![w] = NoNodes],
         shutdown' \subseteq shutdown
  PROVE  OthersStay(w)
<1>1. NoNodes \in [Workers -> Statuses]
  BY DEF NoNodes, Statuses
<1>2. nodeList' \in [Workers -> [Workers -> Statuses]]
  BY <1>1 DEF ClusterInv, WorkerTypes
<1>3. /\ connState' \in [Workers -> {"Connected", "Disconnected", "Reconnecting"}]
      /\ \A v \in Workers : v # w => connState'[v] = connState[v]
  BY DEF ClusterInv, WorkerTypes
<1>. QED  BY <1>2, <1>3 DEF ClusterInv, WorkerTypes, OthersStay

LEMMA MainAside ==
  ASSUME ClusterInv, UNCHANGED mainVars, Fault \/ faults' = faults
  PROVE  MainStays
BY FaultsBounded DEF MainStays, mainVars, ClusterInv, MainTypes

(* The connection a worker is at. *)
LEMMA HeldSlot ==
  ASSUME ClusterInv, NEW w \in Workers, worker[w].at \in AtConnection
  PROVE  /\ worker[w].conn \in Conns /\ conn[worker[w].conn] \in Connections
         /\ Sound(conn[worker[w].conn]) /\ conn[worker[w].conn].node = w
BY DEF ClusterInv, Owned, ConnInv

LEMMA DropCases ==
  ASSUME ClusterInv, NEW w \in Workers,
         \/ ConnectOnceAcked(w) \/ ConnectOnceFails(w) \/ ReregisterFails(w)
         \/ Disconnected(w) \/ Deregister(w)
  PROVE  ClusterInv'
<1>. DEFINE i == worker[w].conn
<1>1. /\ worker[w].at \in AtConnection
      /\ \E a \in WorkerAt \ AtConnection : Goto(w, a, NoConn)
      /\ UNCHANGED mainVars /\ (Fault \/ faults' = faults)
      /\ UNCHANGED <<nodeList, shutdown>>
      /\ \E s \in {"Connected", "Disconnected", "Reconnecting"} :
           connState' = connState \/ connState' = [connState EXCEPT ![w] = s]
  BY DEF ConnectOnceAcked, ConnectOnceFails, ReregisterFails, RegisterFails, Disconnected,
         Deregister, InLoop, AtConnection, WorkerAt, mainVars
<1>2. conn[i] \in Connections
  BY <1>1, HeldSlot
<1>3. \E b \in Connections :
        b.node = conn[i].node /\ b.server = conn[i].server /\ Update(i, CloseClient(b))
  <2>1. CASE Deregister(w)
    <3>1. Frame("Deregister") \in Frames
      BY FrameTyped DEF FrameTypes
    <3>2. LET b == SendUp(conn[i], Frame("Deregister"))
          IN  b \in Connections /\ b.node = conn[i].node /\ b.server = conn[i].server
      BY <1>2, <3>1, SendUpFacts
    <3>. QED  BY <2>1, <3>2 DEF Deregister
  <2>2. CASE ~ Deregister(w)
    <3>1. Update(i, CloseClient(conn[i]))
      BY <2>2 DEF ConnectOnceAcked, ConnectOnceFails, ReregisterFails, RegisterFails,
                  Disconnected
    <3>. QED  BY <1>2, <3>1
  <2>. QED  BY <2>1, <2>2
<1>4. MainStays /\ OthersStay(w)
  BY <1>1, MainAside, StateSet
<1>. QED  BY <1>1, <1>3, <1>4, DropStep

LEMMA IdleCases ==
  ASSUME ClusterInv, NEW w \in Workers,
         ConnectFails(w) \/ BackoffEnds(w) \/ WorkerRestart(w)
  PROVE  ClusterInv'
<1>1. /\ worker[w].at \notin AtConnection
      /\ \E a \in WorkerAt \ AtConnection : Goto(w, a, NoConn)
      /\ UNCHANGED mainVars /\ (Fault \/ faults' = faults) /\ conn' = conn
      /\ nodeList' = nodeList \/ nodeList' = [nodeList EXCEPT ![w] = NoNodes]
      /\ shutdown' \subseteq shutdown
      /\ \E s \in {"Connected", "Disconnected", "Reconnecting"} :
           connState' = connState \/ connState' = [connState EXCEPT ![w] = s]
  BY DEF ConnectFails, BackoffEnds, WorkerRestart, AtConnection, WorkerAt, mainVars
<1>2. MainStays /\ OthersStay(w)
  BY <1>1, MainAside, StateSet
<1>. QED  BY <1>1, <1>2, IdleStep

LEMMA CrashCase ==
  ASSUME ClusterInv, NEW w \in Workers, WorkerCrash(w)
  PROVE  ClusterInv'
<1>1. /\ Goto(w, "down", NoConn) /\ "down" \in WorkerAt \ AtConnection
      /\ UNCHANGED mainVars /\ Fault /\ UNCHANGED <<connState, nodeList, shutdown>>
  BY DEF WorkerCrash, WorkerAt, AtConnection
<1>2. MainStays /\ OthersStay(w)
  BY <1>1, MainAside, StateSet
<1>3. CASE worker[w].at \in AtConnection
  <2>1. worker[w].conn \in Conns /\ conn[worker[w].conn] \in Connections
    BY <1>3, HeldSlot
  <2>2. Update(worker[w].conn, CloseClient(conn[worker[w].conn]))
    BY <2>1 DEF WorkerCrash
  <2>. QED  BY <1>1, <1>2, <1>3, <2>1, <2>2, DropStep
<1>4. CASE worker[w].at \notin AtConnection
  <2>1. worker[w].conn = NoConn /\ NoConn \notin Conns
    BY <1>4, ClusterAssumption DEF ClusterInv, Owned
  <2>2. conn' = conn
    BY <2>1 DEF WorkerCrash
  <2>. QED  BY <1>1, <1>2, <1>4, <2>2, IdleStep
<1>. QED  BY <1>3, <1>4

LEMMA ShutdownCase ==
  ASSUME ClusterInv, NEW w \in Workers, RequestShutdown(w)
  PROVE  ClusterInv'
<1>1. /\ registry' = registry /\ stopping' = stopping /\ conn' = conn /\ worker' = worker
      /\ connState' = connState /\ nodeList' = nodeList /\ faults' = faults
      /\ shutdown' = shutdown \cup {w}
  BY DEF RequestShutdown, mainVars
<1>. QED  BY <1>1 DEF ClusterInv, MainTypes, WorkerTypes, ConnInv, Owned, LoopEntered,
                      Listed, OnlineIsServed

LEMMA TalkCases ==
  ASSUME ClusterInv, NEW w \in Workers,
         AnswerPing(w) \/ PollNodes(w) \/ ReadNodeList(w)
  PROVE  ClusterInv'
<1>. DEFINE i == worker[w].conn
            c == conn[i]
<1>1. /\ worker[w].at \in AtConnection
      /\ UNCHANGED mainVars /\ faults' = faults
      /\ worker' = worker /\ connState' = connState /\ shutdown' = shutdown
  BY DEF AnswerPing, PollNodes, ReadNodeList, InLoop, AtConnection, workerVars
<1>2. i \in Conns /\ c \in Connections /\ Sound(c)
  BY <1>1, HeldSlot
<1>3. MainStays
  BY <1>1, MainAside
<1>4. ASSUME c.down # << >>
      PROVE  LET t == [c EXCEPT !.down = Tail(@)]
             IN  /\ t \in Connections /\ t.node = c.node /\ t.client = c.client
                 /\ t.server = c.server /\ (NoAck(c.down) => NoAck(t.down))
  <2>1. Tail(c.down) \in Seq(Frames) /\ (NoAck(c.down) => NoAck(Tail(c.down)))
    BY <1>2, <1>4, SlotTyped, TailFrames
  <2>. QED  BY <1>2, <2>1, SlotUpdates
<1>5. PICK d \in Connections :
        /\ Update(i, d) /\ d.node = c.node /\ d.client = c.client
        /\ d.server = c.server /\ (NoAck(c.down) => NoAck(d.down))
  <2>1. Frame("Pong") \in Frames /\ Frame("ListNodes") \in Frames
    BY FrameTyped DEF FrameTypes
  <2>2. CASE AnswerPing(w)
    <3>. DEFINE t == [c EXCEPT !.down = Tail(@)]
    <3>1. c.down # << >> /\ Update(i, SendUp(t, Frame("Pong")))
      BY <2>2 DEF AnswerPing, ClientReads
    <3>2. /\ t \in Connections /\ t.node = c.node /\ t.client = c.client
          /\ t.server = c.server /\ (NoAck(c.down) => NoAck(t.down))
      BY <1>4, <3>1
    <3>. HIDE DEF t
    <3>. QED  BY <2>1, <3>1, <3>2, SendUpFacts
  <2>3. CASE PollNodes(w)
    BY <1>2, <2>1, <2>3, SendUpFacts DEF PollNodes
  <2>4. CASE ReadNodeList(w)
    <3>1. c.down # << >> /\ Update(i, [c EXCEPT !.down = Tail(@)])
      BY <2>4 DEF ReadNodeList, ClientReads
    <3>. QED  BY <1>4, <3>1
  <2>. QED  BY <2>2, <2>3, <2>4
<1>6. nodeList' \in [Workers -> [Workers -> Statuses]]
  <2>1. nodeList \in [Workers -> [Workers -> Statuses]]
    BY DEF ClusterInv, WorkerTypes
  <2>2. CASE ReadNodeList(w)
    <3>1. c.down # << >>
      BY <2>2 DEF ReadNodeList, ClientReads
    <3>2. Head(c.down) \in Frames
      BY <1>2, <3>1, SlotTyped, TailFrames
    <3>3. Head(c.down).nodes \in [Workers -> Statuses]
      BY <3>2 DEF Frames
    <3>. QED  BY <2>1, <2>2, <3>3 DEF ReadNodeList
  <2>3. CASE ~ ReadNodeList(w)
    BY <2>1, <2>3 DEF AnswerPing, PollNodes, workerVars
  <2>. QED  BY <2>2, <2>3
<1>7. Sound(d)
  BY <1>2, <1>5, SoundNext
<1>8. Changed(i, d)
  BY <1>2, <1>5, <1>7 DEF Changed, Update
<1>9. c.server \in Handled => d.server \in Handled
  BY <1>5
<1>. HIDE DEF i
<1>. QED  BY <1>1, <1>3, <1>5, <1>6, <1>8, <1>9, SlotStep

(* do_register read a RegisterAck: the worker knows the token. *)
LEMMA AckedCase ==
  ASSUME ClusterInv, NEW w \in Workers, ReregisterAcked(w)
  PROVE  ClusterInv'
<1>. DEFINE i == worker[w].conn
            c == conn[i]
            d == [c EXCEPT !.down = Tail(@)]
<1>1. /\ worker[w].at \in AtConnection /\ UNCHANGED mainVars /\ faults' = faults
      /\ c.down # << >> /\ Head(c.down).type = "Ack" /\ Update(i, d)
      /\ Goto(w, "loop", i) /\ connState' = [connState EXCEPT ![w] = "Connected"]
      /\ nodeList' = nodeList /\ shutdown' = shutdown
  BY DEF ReregisterAcked, ClientReads, AtConnection
<1>2. i \in Conns /\ c \in Connections /\ Sound(c) /\ c.node = w
  BY <1>1, HeldSlot
<1>3. /\ Tail(c.down) \in Seq(Frames) /\ (NoAck(c.down) => NoAck(Tail(c.down)))
      /\ ~ NoAck(c.down)
  BY <1>1, <1>2, SlotTyped, TailFrames
<1>4. w \in Trusted
  BY <1>2, <1>3 DEF Sound
<1>5. /\ d \in Connections /\ d.node = c.node /\ d.client = c.client
      /\ d.server = c.server /\ (NoAck(c.down) => NoAck(d.down))
  BY <1>2, <1>3, SlotUpdates
<1>. HIDE DEF d
<1>6. Sound(d)
  BY <1>2, <1>5, SoundNext
<1>7. Changed(i, d)
  BY <1>1, <1>2, <1>6 DEF Changed, Update
<1>8. ConnInv' /\ OnlineIsServed'
  BY <1>1, <1>5, <1>7, ConnKept, ServedKept DEF ClusterInv, mainVars
<1>9. /\ worker' \in [Workers -> [at : WorkerAt, conn : Conns \cup {NoConn}]]
      /\ \A v \in Workers : worker'[v].conn = worker[v].conn
      /\ worker'[w].at = "loop"
      /\ \A v \in Workers : v # w => worker'[v].at = worker[v].at
  BY <1>1, <1>2 DEF Goto, ClusterInv, WorkerTypes, WorkerAt
<1>10. Owned'
  <2>1. /\ d.client = "open" => conn'[i] = d
        /\ \A j \in Conns : j # i => conn'[j] = conn[j]
        /\ conn'[i].client = d.client
    BY <1>7, ConnAt DEF ClusterInv
  <2>2. /\ \A j \in Conns : conn'[j].client = conn[j].client
        /\ \A j \in Conns : conn[j].client = "open" => conn'[j].node = conn[j].node
    BY <1>5, <2>1
  <2>3. \A v \in Workers : worker'[v].at \in AtConnection <=> worker[v].at \in AtConnection
    BY <1>1, <1>9 DEF AtConnection
  <2>4. \A j \in Conns : conn[j].client = "open" => conn[j].node \in Workers
    BY DEF ClusterInv, ConnInv, Sound
  <2>. QED  BY <1>9, <2>2, <2>3, <2>4 DEF ClusterInv, Owned
<1>11. LoopEntered'
  BY <1>1, <1>4, <1>9 DEF ClusterInv, LoopEntered, WorkerTypes
<1>12. WorkerTypes' /\ MainTypes' /\ Listed'
  BY <1>1, <1>9 DEF ClusterInv, WorkerTypes, MainTypes, Listed, mainVars
<1>. QED  BY <1>8, <1>10, <1>11, <1>12 DEF ClusterInv

(* tcp_connect takes a free slot. *)
LEMMA ConnectCases ==
  ASSUME ClusterInv, NEW w \in Workers, ConnectOnce(w) \/ ConnectAgain(w)
  PROVE  ClusterInv'
<1>1. PICK a \in {"first", "register"}, i \in Conns :
        /\ worker[w].at \notin AtConnection
        /\ conn[i] = Closed
        /\ conn' = [conn EXCEPT ![i] =
                      [Closed EXCEPT !.node = w, !.client = "open", !.server = "backlog",
                                     !.up = <<Frame("Register")>>]]
        /\ Goto(w, a, i)
        /\ UNCHANGED <<mainVars, connState, nodeList, shutdown, faults>>
  BY DEF ConnectOnce, ConnectAgain, Connect, AtConnection
<1>. DEFINE d == [Closed EXCEPT !.node = w, !.client = "open", !.server = "backlog",
                                !.up = <<Frame("Register")>>]
<1>2. <<Frame("Register")>> \in Seq(Frames) /\ << >> \in Seq(Frames) /\ NoAck(<< >>)
  BY FrameTyped, EmptyFrames DEF FrameTypes
<1>. DEFINE b == [Closed EXCEPT !.node = w]
            e == [b EXCEPT !.client = "open"]
            f == [e EXCEPT !.server = "backlog"]
<1>a. /\ b \in Connections /\ b.node = w /\ b.down = << >>
  <2>1. Closed \in Connections /\ Closed.down = << >>
    BY ClosedFacts DEF Closed
  <2>. QED  BY <2>1 DEF Connections
<1>b. d = [f EXCEPT !.up = <<Frame("Register")>>]
  BY DEF Closed
<1>. HIDE DEF b, d
<1>c. e \in Connections /\ e.node = w /\ e.down = << >> /\ e.client = "open"
  BY <1>a DEF Connections
<1>. HIDE DEF e
<1>d. /\ f \in Connections /\ f.node = w /\ f.down = << >> /\ f.client = "open"
      /\ f.server = "backlog"
  BY <1>c, SlotUpdates DEF ServerEnds
<1>. HIDE DEF f
<1>3. /\ d.node = w /\ d.client = "open" /\ d.server = "backlog" /\ d.down = << >>
  BY <1>2, <1>b, <1>d, SlotUpdates
<1>4. d \in Connections
  BY <1>2, <1>b, <1>d, SlotUpdates
<1>5. NoAck(d.down)
  BY <1>2, <1>3
<1>6. conn' = [conn EXCEPT ![i] = d]
  BY <1>1 DEF d
<1>7. Sound(d)
  BY <1>3, <1>4, <1>5 DEF Sound, Unregistered
<1>8. /\ conn'[i] = d /\ \A j \in Conns : j # i => conn'[j] = conn[j]
      /\ conn' \in [Conns -> Connections]
  BY <1>4, <1>6 DEF ClusterInv, ConnInv
<1>9. conn[i].client = "closed" /\ conn[i].server = "done"
  BY <1>1, ClosedFacts
<1>10. ConnInv'
  BY <1>7, <1>8 DEF ClusterInv, ConnInv
<1>11. OnlineIsServed'
  BY <1>1, <1>8, <1>9 DEF ClusterInv, OnlineIsServed, mainVars
<1>12. /\ worker'[w].at = a /\ worker'[w].conn = i
       /\ \A v \in Workers : v # w => worker'[v] = worker[v]
  BY <1>1 DEF Goto, ClusterInv, WorkerTypes
<1>13. Owned'
  <2>1. a \in AtConnection /\ worker[w].conn = NoConn /\ NoConn \notin Conns
    BY <1>1, ClusterAssumption DEF AtConnection, ClusterInv, Owned
  <2>2. ASSUME NEW v \in Workers, v # w, worker[v].at \in AtConnection
        PROVE  worker[v].conn # i
    BY <1>9, <2>2 DEF ClusterInv, Owned
  <2>3. ASSUME NEW j \in Conns, j # i, conn[j].client = "open"
        PROVE  conn[j].node \in Workers /\ conn[j].node # w
    <3>1. conn[j].node \in Workers
      BY <2>3 DEF ClusterInv, ConnInv, Sound
    <3>. QED  BY <2>1, <2>3, <3>1 DEF ClusterInv, Owned
  <2>4. \A v \in Workers :
          IF worker'[v].at \in AtConnection
            THEN /\ worker'[v].conn \in Conns
                 /\ conn'[worker'[v].conn].node = v
                 /\ conn'[worker'[v].conn].client = "open"
            ELSE worker'[v].conn = NoConn
    BY <1>3, <1>8, <1>12, <2>1, <2>2 DEF ClusterInv, Owned
  <2>5. \A j \in Conns : conn'[j].client = "open" => worker'[conn'[j].node].conn = j
    BY <1>3, <1>8, <1>12, <2>3 DEF ClusterInv, Owned
  <2>. QED  BY <2>4, <2>5 DEF Owned
<1>14. OthersStay(w)
  BY <1>1, StateSet
<1>15. a \in WorkerAt /\ a # "loop" /\ i \in Conns \cup {NoConn}
  BY DEF WorkerAt
<1>16. WorkerTypes' /\ LoopEntered'
  BY <1>1, <1>14, <1>15, WorkersKept DEF ClusterInv
<1>17. MainTypes' /\ Listed'
  BY <1>1 DEF ClusterInv, MainTypes, Listed, mainVars
<1>. QED  BY <1>10, <1>11, <1>13, <1>16, <1>17 DEF ClusterInv

-----------------------------------------------------------------------------
(* The main node *)

(* A handler's step that leaves the registry alone. *)
LEMMA HandlerStep ==
  ASSUME ClusterInv, NEW i \in Conns, NEW d \in Connections, Update(i, d),
         d.node = conn[i].node, d.client = conn[i].client,
         d.server # "done" => conn[i].server # "done",
         conn[i].server \in Handled => d.server \in Handled,
         conn[i].node \notin Trusted /\ conn[i].server \in Unregistered
           => d.server \in Unregistered /\ (NoAck(conn[i].down) => NoAck(d.down)),
         UNCHANGED <<workerVars, stopping, registry>>, Fault \/ faults' = faults
  PROVE  ClusterInv'
<1>1. Sound(conn[i])
  BY DEF ClusterInv, ConnInv
<1>2. Sound(d)
  BY <1>1, SoundNext
<1>3. Changed(i, d)
  BY <1>2 DEF Changed, Update
<1>4. MainStays
  BY MainAside DEF mainVars
<1>5. /\ worker' = worker /\ connState' = connState /\ shutdown' = shutdown
      /\ nodeList' \in [Workers -> [Workers -> Statuses]]
  BY DEF workerVars, ClusterInv, WorkerTypes
<1>. QED  BY <1>3, <1>4, <1>5, SlotStep

(* The handler moves on without a frame. *)
LEMMA MoveCases ==
  ASSUME ClusterInv, NEW i \in Conns,
         Accept(i) \/ PingTimeout(i) \/ ServerDisconnected(i) \/ ServerShutdown(i)
  PROVE  ClusterInv'
<1>1. conn[i] \in Connections
  BY DEF ClusterInv, ConnInv
<1>2. PICK s \in {"registering", "leaving"} :
        /\ Update(i, [conn[i] EXCEPT !.server = s])
        /\ s = "registering" => conn[i].server = "backlog"
        /\ s = "leaving" => conn[i].server = "serving"
        /\ UNCHANGED <<workerVars, stopping, registry>> /\ faults' = faults
  BY DEF Accept, PingTimeout, ServerDisconnected, ServerShutdown, Leave, Serving, ServerOnly
<1>. DEFINE d == [conn[i] EXCEPT !.server = s]
<1>3. /\ d \in Connections /\ d.server = s /\ d.node = conn[i].node
      /\ d.client = conn[i].client /\ d.down = conn[i].down
  <2>1. s \in ServerEnds
    BY DEF ServerEnds
  <2>. QED  BY <1>1, <2>1, SlotUpdates
<1>4. Update(i, d)
  BY <1>2
<1>. HIDE DEF d
<1>5. /\ d.server # "done" => conn[i].server # "done"
      /\ conn[i].server \in Handled => d.server \in Handled
      /\ conn[i].server \in Unregistered => d.server \in Unregistered
  BY <1>2, <1>3 DEF Handled, Unregistered
<1>. QED  BY <1>2, <1>3, <1>4, <1>5, HandlerStep

(* A connection that is not registered yet is given up. *)
LEMMA GiveUpCases ==
  ASSUME ClusterInv, NEW i \in Conns, RegisterTimeout(i) \/ CloseListener(i)
  PROVE  ClusterInv'
<1>1. conn[i] \in Connections
  BY DEF ClusterInv, ConnInv
<1>2. /\ Update(i, CloseServer(conn[i])) /\ conn[i].server \in {"backlog", "registering"}
      /\ UNCHANGED <<workerVars, stopping, registry>> /\ (Fault \/ faults' = faults)
  BY DEF RegisterTimeout, CloseListener, ServerOnly
<1>. DEFINE d == CloseServer(conn[i])
<1>3. /\ d \in Connections /\ d.server = "done" /\ d.node = conn[i].node
      /\ d.client = conn[i].client /\ d.down = conn[i].down
  BY <1>1, CloseServerFacts
<1>4. Update(i, d)
  BY <1>2
<1>. HIDE DEF d
<1>5. conn[i].server \notin Handled /\ d.server \in Unregistered
  BY <1>2, <1>3 DEF Handled, Unregistered
<1>. QED  BY <1>2, <1>3, <1>4, <1>5, HandlerStep

(* handle_register: an Ack for a node that knows the token, a Nack and the   *)
(* end of the connection for any other.                                      *)
LEMMA RegisterCase ==
  ASSUME ClusterInv, NEW i \in Conns, HandleRegister(i)
  PROVE  ClusterInv'
<1>. DEFINE c == conn[i]
            u == [c EXCEPT !.up = Tail(@)]
<1>1. /\ c.server = "registering" /\ c.up # << >>
      /\ UNCHANGED <<workerVars, stopping, registry>> /\ faults' = faults
      /\ IF u.node \in Trusted
           THEN Update(i, SendDown([u EXCEPT !.server = "acked"], Frame("Ack")))
           ELSE Update(i, CloseServer(SendDown(u, Frame("Nack"))))
  BY DEF HandleRegister, ServerReads, ServerOnly
<1>2. c \in Connections
  BY DEF ClusterInv, ConnInv
<1>3. Tail(c.up) \in Seq(Frames)
  BY <1>1, <1>2, SlotTyped, TailFrames
<1>4. /\ u \in Connections /\ u.node = c.node /\ u.client = c.client /\ u.down = c.down
      /\ u.server = c.server
  BY <1>2, <1>3, SlotUpdates
<1>. HIDE DEF u
<1>5. Frame("Ack") \in Frames /\ Frame("Nack") \in Frames /\ Frame("Nack").type # "Ack"
  BY FrameTyped DEF FrameTypes
<1>6. c.server \notin Handled /\ c.server # "done"
  BY <1>1 DEF Handled
<1>7. CASE c.node \in Trusted
  <2>. DEFINE v == [u EXCEPT !.server = "acked"]
              d == SendDown(v, Frame("Ack"))
  <2>1. v \in Connections /\ v.node = c.node /\ v.client = c.client
    BY <1>4, SlotUpdates DEF ServerEnds
  <2>2. Update(i, d)
    BY <1>1, <1>4, <1>7
  <2>. HIDE DEF v
  <2>3. d \in Connections /\ d.node = c.node /\ d.client = c.client
    BY <1>5, <2>1, SendDownFacts
  <2>. HIDE DEF d
  <2>. QED  BY <1>1, <1>6, <1>7, <2>2, <2>3, HandlerStep
<1>8. CASE c.node \notin Trusted
  <2>. DEFINE v == SendDown(u, Frame("Nack"))
              d == CloseServer(v)
  <2>1. /\ v \in Connections /\ v.node = c.node /\ v.client = c.client
        /\ NoAck(c.down) => NoAck(v.down)
    BY <1>4, <1>5, SendDownFacts
  <2>2. Update(i, d)
    BY <1>1, <1>4, <1>8
  <2>. HIDE DEF v
  <2>3. /\ d \in Connections /\ d.node = c.node /\ d.client = c.client
        /\ d.server = "done" /\ d.down = v.down
    BY <2>1, CloseServerFacts
  <2>. HIDE DEF d
  <2>4. d.server \in Unregistered /\ (NoAck(c.down) => NoAck(d.down))
    BY <2>1, <2>3 DEF Unregistered
  <2>. QED  BY <1>1, <1>6, <2>2, <2>3, <2>4, HandlerStep
<1>. QED  BY <1>7, <1>8

(* The handler's loop reads and answers. *)
LEMMA ServeCases ==
  ASSUME ClusterInv, NEW i \in Conns,
         PingTick(i) \/ HandlePong(i) \/ HandleListNodes(i)
  PROVE  ClusterInv'
<1>. DEFINE c == conn[i]
<1>1. /\ c.server = "serving" /\ c.server \notin Unregistered
      /\ UNCHANGED <<workerVars, stopping, registry>> /\ faults' = faults
  BY DEF PingTick, HandlePong, HandleListNodes, Serving, ServerOnly, Unregistered
<1>2. c \in Connections
  BY DEF ClusterInv, ConnInv
<1>3. ASSUME c.up # << >>
      PROVE  Tail(c.up) \in Seq(Frames)
  BY <1>2, <1>3, SlotTyped, TailFrames
<1>4. \E d \in Connections :
        /\ Update(i, d) /\ d.node = c.node /\ d.client = c.client /\ d.server = c.server
  <2>1. CASE PingTick(i)
    <3>. DEFINE m == [c EXCEPT !.missed = @ + 1]
    <3>1. Update(i, SendDown(m, Frame("Ping"))) /\ c.missed < MaxMissed
      BY <2>1 DEF PingTick
    <3>2. c.missed + 1 \in 0 .. MaxMissed
      BY <1>2, <3>1, SlotTyped, ClusterAssumption
    <3>3. m \in Connections /\ m.node = c.node /\ m.client = c.client /\ m.server = c.server
      BY <1>2, <3>2, SlotUpdates
    <3>. HIDE DEF m
    <3>4. Frame("Ping") \in Frames
      BY FrameTyped DEF FrameTypes
    <3>. QED  BY <3>1, <3>3, <3>4, SendDownFacts
  <2>2. CASE HandlePong(i)
    <3>. DEFINE m == [c EXCEPT !.missed = 0]
                d == [m EXCEPT !.up = Tail(c.up)]
    <3>1. /\ Update(i, [c EXCEPT !.missed = 0, !.up = Tail(@)])
          /\ c.up # << >>
      BY <2>2 DEF HandlePong, ServerReads
    <3>2. 0 \in 0 .. MaxMissed
      BY ClusterAssumption
    <3>3. m \in Connections /\ m.node = c.node /\ m.client = c.client /\ m.server = c.server
      BY <1>2, <3>2, SlotUpdates
    <3>4. Update(i, d)
      BY <3>1, <1>2 DEF Connections
    <3>. HIDE DEF m
    <3>5. d \in Connections /\ d.node = c.node /\ d.client = c.client /\ d.server = c.server
      BY <1>3, <3>1, <3>3, SlotUpdates
    <3>. HIDE DEF d
    <3>. QED  BY <3>4, <3>5
  <2>3. CASE HandleListNodes(i)
    <3>. DEFINE m == [c EXCEPT !.up = Tail(@)]
                f == [type |-> "NodeList", nodes |-> registry]
    <3>1. Update(i, SendDown(m, f)) /\ c.up # << >>
      BY <2>3 DEF HandleListNodes, ServerReads
    <3>2. m \in Connections /\ m.node = c.node /\ m.client = c.client /\ m.server = c.server
      BY <1>2, <1>3, <3>1, SlotUpdates
    <3>3. f \in Frames
      BY DEF Frames, FrameTypes, ClusterInv, MainTypes
    <3>. HIDE DEF m, f
    <3>. QED  BY <3>1, <3>2, <3>3, SendDownFacts
  <2>. QED  BY <2>1, <2>2, <2>3
<1>. HIDE DEF c
<1>. QED  BY <1>1, <1>4, HandlerStep DEF c

(* The steps that write the registry: the handler's node is set to r, and    *)
(* the handlers of the other nodes are as they were.                         *)
LEMMA RegistryStep ==
  ASSUME ClusterInv, NEW i \in Conns, NEW d \in Connections, Update(i, d),
         conn[i].server \notin Unregistered,
         d.node = conn[i].node, d.client = conn[i].client, d.down = conn[i].down,
         NEW r \in Statuses, registry' = [registry EXCEPT ![conn[i].node] = r],
         r = "Online" => d.server \in Handled,
         UNCHANGED <<workerVars, stopping, faults>>
  PROVE  ClusterInv'
<1>1. Sound(conn[i]) /\ conn[i].node \in Trusted /\ conn[i].node \in Workers
  BY ClusterAssumption DEF ClusterInv, ConnInv, Sound
<1>2. Sound(d)
  BY <1>1, ClusterAssumption DEF Sound
<1>3. Changed(i, d)
  BY <1>2 DEF Changed, Update
<1>4. /\ worker' = worker /\ connState' = connState /\ shutdown' = shutdown
      /\ nodeList' = nodeList /\ stopping' = stopping /\ faults' = faults
  BY DEF workerVars
<1>5. ConnInv' /\ Owned'
  BY <1>3, <1>4, ConnKept, OwnedKept DEF ClusterInv
<1>6. /\ registry' \in [Workers -> Statuses] /\ registry'[conn[i].node] = r
      /\ \A w \in Workers : w # conn[i].node => registry'[w] = registry[w]
  BY <1>1 DEF ClusterInv, MainTypes
<1>7. OnlineIsServed'
  <2>1. SUFFICES ASSUME NEW w \in Workers, registry'[w] = "Online"
                 PROVE  \E j \in Conns : conn'[j].node = w /\ conn'[j].server \in Handled
    BY DEF OnlineIsServed, Handled
  <2>2. /\ conn'[i].server = d.server /\ (d.server # "done" => conn'[i] = d)
        /\ \A j \in Conns : j # i => conn'[j] = conn[j]
    BY <1>3, ConnAt DEF ClusterInv
  <2>3. CASE w = conn[i].node
    BY <1>6, <2>1, <2>2, <2>3 DEF Handled
  <2>4. CASE w # conn[i].node
    <3>1. PICK j \in Conns : conn[j].node = w /\ conn[j].server \in Handled
      BY <1>6, <2>1, <2>4 DEF ClusterInv, OnlineIsServed, Handled
    <3>. QED  BY <2>2, <2>4, <3>1
  <2>. QED  BY <2>3, <2>4
<1>8. Listed'
  BY <1>1, <1>6 DEF ClusterInv, Listed
<1>9. MainTypes' /\ WorkerTypes' /\ LoopEntered'
  BY <1>4, <1>6 DEF ClusterInv, MainTypes, WorkerTypes, LoopEntered
<1>. QED  BY <1>5, <1>7, <1>8, <1>9 DEF ClusterInv

LEMMA RegistryCases ==
  ASSUME ClusterInv, NEW i \in Conns,
         Register(i) \/ HandleDeregister(i) \/ SetOffline(i)
  PROVE  ClusterInv'
<1>1. conn[i] \in Connections /\ registry \in [Workers -> Statuses]
  BY DEF ClusterInv, ConnInv, MainTypes
<1>2. /\ conn[i].server \notin Unregistered /\ UNCHANGED <<workerVars, stopping, faults>>
  BY DEF Register, HandleDeregister, SetOffline, Serving, ServerOnly, Unregistered
<1>3. CASE Register(i)
  <2>. DEFINE d == [conn[i] EXCEPT !.server = "serving"]
  <2>1. /\ d \in Connections /\ d.node = conn[i].node /\ d.client = conn[i].client
        /\ d.down = conn[i].down /\ d.server = "serving"
    BY <1>1, SlotUpdates DEF ServerEnds
  <2>2. Update(i, d) /\ registry' = [registry EXCEPT ![conn[i].node] = "Online"]
    BY <1>3 DEF Register
  <2>. HIDE DEF d
  <2>. QED  BY <1>2, <2>1, <2>2, RegistryStep DEF Statuses, Handled
<1>4. CASE HandleDeregister(i) \/ SetOffline(i)
  <2>. DEFINE d == CloseServer(conn[i])
  <2>1. /\ d \in Connections /\ d.node = conn[i].node /\ d.client = conn[i].client
        /\ d.down = conn[i].down
    BY <1>1, CloseServerFacts
  <2>2. Update(i, d)
    BY <1>4 DEF HandleDeregister, SetOffline
  <2>3. conn[i].node \in Workers
    BY <1>2 DEF ClusterInv, ConnInv, Sound, Unregistered
  <2>4. \E r \in Statuses \ {"Online"} : registry' = [registry EXCEPT ![conn[i].node] = r]
    BY <1>1, <1>4, <2>3 DEF HandleDeregister, SetOffline, Statuses
  <2>. HIDE DEF d
  <2>. QED  BY <1>2, <2>1, <2>2, <2>4, RegistryStep
<1>. QED  BY <1>3, <1>4

LEMMA CutCase ==
  ASSUME ClusterInv, NEW i \in Conns, Cut(i)
  PROVE  ClusterInv'
<1>. DEFINE c == conn[i]
            a == [c EXCEPT !.cut = TRUE]
            b == [a EXCEPT !.up = << >>]
            d == [b EXCEPT !.down = << >>]
<1>1. c \in Connections /\ Sound(c) /\ c # Closed
  BY DEF ClusterInv, ConnInv, Cut
<1>2. /\ a \in Connections /\ a.node = c.node /\ a.client = c.client
      /\ a.server = c.server
  BY <1>1 DEF Connections
<1>3. conn' = [conn EXCEPT ![i] = d]
  BY <1>1 DEF Cut, ClusterInv, ConnInv, Connections
<1>4. << >> \in Seq(Frames) /\ NoAck(<< >>)
  BY EmptyFrames
<1>. HIDE DEF a
<1>5. b \in Connections /\ b.node = c.node /\ b.client = c.client /\ b.server = c.server
  BY <1>2, <1>4, SlotUpdates
<1>. HIDE DEF b
<1>6. /\ d \in Connections /\ d.node = c.node /\ d.client = c.client
      /\ d.server = c.server /\ d.down = << >>
  BY <1>4, <1>5, SlotUpdates
<1>. HIDE DEF d
<1>7. NoAck(d.down)
  BY <1>4, <1>6
<1>8. Sound(d)
  BY <1>1, <1>6, <1>7, SoundNext
<1>9. ConnInv'
  BY <1>3, <1>6, <1>8 DEF ClusterInv, ConnInv
<1>10. \A j \in Conns : /\ conn'[j].node = conn[j].node /\ conn'[j].client = conn[j].client
                        /\ conn'[j].server = conn[j].server
  BY <1>3, <1>6 DEF ClusterInv, ConnInv
<1>11. /\ worker' = worker /\ connState' = connState /\ shutdown' = shutdown
       /\ nodeList' = nodeList /\ stopping' = stopping /\ registry' = registry
       /\ faults' \in 0 .. MaxFaults
  BY FaultsBounded DEF Cut, workerVars, mainVars
<1>12. Owned' /\ OnlineIsServed'
  BY <1>10, <1>11 DEF ClusterInv, Owned, OnlineIsServed
<1>13. MainTypes' /\ WorkerTypes' /\ LoopEntered' /\ Listed'
  BY <1>11 DEF ClusterInv, MainTypes, WorkerTypes, LoopEntered, Listed
<1>. QED  BY <1>9, <1>12, <1>13 DEF ClusterInv

LEMMA MainShutdownCase ==
  ASSUME ClusterInv, MainShutdown
  PROVE  ClusterInv'
<1>1. /\ worker' = worker /\ connState' = connState /\ shutdown' = shutdown
      /\ nodeList' = nodeList /\ stopping' = TRUE /\ registry' = registry
      /\ conn' = conn /\ faults' \in 0 .. MaxFaults
  BY FaultsBounded DEF MainShutdown, workerVars
<1>. QED  BY <1>1 DEF ClusterInv, MainTypes, WorkerTypes, ConnInv, Owned, LoopEntered,
                      Listed, OnlineIsServed

(* The new process knows nobody and serves nobody. *)
LEMMA MainRestartCase ==
  ASSUME ClusterInv, MainRestart
  PROVE  ClusterInv'
<1>1. /\ worker' = worker /\ connState' = connState /\ shutdown' = shutdown
      /\ nodeList' = nodeList /\ stopping' = FALSE /\ registry' = NoNodes
      /\ conn' = [i \in Conns |-> Settle(CloseServer(conn[i]))]
      /\ faults' \in 0 .. MaxFaults
  BY FaultsBounded DEF MainRestart, workerVars
<1>2. ASSUME NEW i \in Conns
      PROVE  /\ Sound(conn'[i]) /\ conn'[i].client = conn[i].client
             /\ conn[i].client = "open" => conn'[i].node = conn[i].node
  <2>. DEFINE d == CloseServer(conn[i])
  <2>1. conn[i] \in Connections /\ Sound(conn[i])
    BY DEF ClusterInv, ConnInv
  <2>2. /\ d \in Connections /\ d.node = conn[i].node /\ d.client = conn[i].client
        /\ d.server = "done" /\ d.down = conn[i].down
    BY <2>1, CloseServerFacts
  <2>3. conn'[i] = Settle(d)
    BY <1>1
  <2>. HIDE DEF d
  <2>4. Sound(d)
    BY <2>1, <2>2 DEF Sound, Unregistered
  <2>. QED  BY <2>2, <2>3, <2>4, SettleFacts
<1>3. ConnInv'
  BY <1>1, <1>2 DEF ConnInv, Sound
<1>4. Owned'
  BY <1>1, <1>2 DEF ClusterInv, Owned
<1>5. registry' \in [Workers -> Statuses] /\ \A w \in Workers : registry'[w] = "Absent"
  BY <1>1 DEF NoNodes, Statuses
<1>6. OnlineIsServed' /\ Listed' /\ MainTypes'
  BY <1>1, <1>5 DEF OnlineIsServed, Listed, MainTypes
<1>7. WorkerTypes' /\ LoopEntered'
  BY <1>1 DEF ClusterInv, WorkerTypes, LoopEntered
<1>. QED  BY <1>3, <1>4, <1>6, <1>7 DEF ClusterInv

-----------------------------------------------------------------------------
(* The theorems *)

LEMMA InitialInv == Init => ClusterInv
<1>. SUFFICES ASSUME Init PROVE ClusterInv
  OBVIOUS
<1>1. /\ NoNodes \in [Workers -> Statuses]
      /\ \A w \in Workers : NoNodes[w] = "Absent"
  BY DEF NoNodes, Statuses
<1>2. \A i \in Conns : conn[i] = Closed
  BY DEF Init
<1>3. ConnInv
  BY <1>2, ClosedFacts DEF Init, ConnInv
<1>4. Owned
  BY <1>2, ClosedFacts DEF Init, Owned, AtConnection
<1>5. MainTypes /\ WorkerTypes /\ LoopEntered
  <2>1. MainTypes
    <3>1. 0 \in 0 .. MaxFaults
      BY ClusterAssumption
    <3>2. registry = NoNodes /\ stopping = FALSE /\ faults = 0
      BY DEF Init
    <3>. QED  BY <1>1, <3>1, <3>2 DEF MainTypes
  <2>2. [at |-> "start", conn |-> NoConn] \in [at : WorkerAt, conn : Conns \cup {NoConn}]
    BY DEF WorkerAt
  <2>3. WorkerTypes
    BY <1>1, <2>2 DEF Init, WorkerTypes
  <2>4. LoopEntered
    BY DEF Init, LoopEntered
  <2>. QED  BY <2>1, <2>3, <2>4
<1>6. Listed /\ OnlineIsServed
  BY <1>1 DEF Init, Listed, OnlineIsServed
<1>. QED  BY <1>3, <1>4, <1>5, <1>6 DEF ClusterInv

LEMMA StepInv == ClusterInv /\ [Next]_vars => ClusterInv'
<1>. SUFFICES ASSUME ClusterInv, [Next]_vars PROVE ClusterInv'
  OBVIOUS
<1>1. CASE UNCHANGED vars
  BY <1>1 DEF vars, ClusterInv, MainTypes, WorkerTypes, ConnInv, Owned, LoopEntered, Listed,
              OnlineIsServed
<1>2. ASSUME NEW w \in Workers, WorkerStep(w) \/ Environment(w)
      PROVE  ClusterInv'
  BY <1>2, DropCases, IdleCases, CrashCase, ShutdownCase, TalkCases, AckedCase, ConnectCases
     DEF WorkerStep, Environment
<1>3. ASSUME NEW i \in Conns, ServerStep(i) \/ Cut(i)
      PROVE  ClusterInv'
  BY <1>3, MoveCases, GiveUpCases, RegisterCase, ServeCases, RegistryCases, CutCase
     DEF ServerStep
<1>. QED  BY <1>1, <1>2, <1>3, MainShutdownCase, MainRestartCase DEF Next

(* The invariant holds in every reachable state of workers and main node. *)
THEOREM Invariance == Spec => []ClusterInv
BY InitialInv, StepInv, PTL DEF Spec

LEMMA InvTypes == ClusterInv => TypeOK
BY DEF ClusterInv, MainTypes, WorkerTypes, ConnInv, TypeOK

LEMMA InvMembers == ClusterInv => MembersGenuine
<1>. SUFFICES ASSUME ClusterInv PROVE MembersGenuine
  OBVIOUS
<1>1. UntrustedStaysOut
  BY DEF ClusterInv, UntrustedStaysOut, Listed, LoopEntered, ConnInv, Sound, Unregistered
<1>2. LoopOwnsConnection
  BY DEF ClusterInv, LoopOwnsConnection, LoopEntered, Owned, AtConnection
<1>. QED  BY <1>1, <1>2 DEF ClusterInv, MembersGenuine

(* Every variable has its type: no step leaves the sets the code's enums and *)
(* tables allow.                                                             *)
THEOREM TypeCorrectness == Spec => []TypeOK
BY Invariance, InvTypes, PTL

(* Who is a member (MembersGenuine), for any number of workers, connection   *)
(* slots, frames under way and failures: an Online node has a handler that   *)
(* will set it Offline, a node without the token is never listed, served or  *)
(* in message_loop, and a worker in message_loop has its connection to       *)
(* itself.                                                                   *)
THEOREM MembersCorrect == Spec => []MembersGenuine
BY Invariance, InvMembers, PTL
=============================================================================
