------------------------ MODULE DiameterPeer_proofs -------------------------
(***************************************************************************)
(* Proofs about DiameterPeer, for any set of requests, any assignment of    *)
(* HopByHopIds, any channel capacity and any bounds: the type invariant,    *)
(* that a response channel is never written twice, that a silent peer is    *)
(* given up, that a peer is quiet once it has reported PeerDown, that       *)
(* Close() closes the channel only when it is drained, and that responses   *)
(* are correlated when the HopByHopIds are distinct.                        *)
(***************************************************************************)
EXTENDS DiameterPeer, FiniteSetTheorems, TLAPS

\* The messages that the code builds are Messages.
LEMMA MessageTypes ==
    /\ Posts \subseteq Messages
    /\ \A t \in Signals : Signal(t) \in Posts
    /\ \A b \in EgressBodies : M("Egress", b) \in Posts
    /\ \A b \in IngressBodies : M("Ingress", b) \in Messages
    /\ \A r \in Reqs : M("Exchange", r) \in Messages
    /\ \A h \in HopIds : M("Answer", h) \in Messages /\ M("Cancel", h) \in Messages
    /\ SetDownCommand \in Posts
  BY DEF Messages, Posts, Signals, SetDownCommand

\* What a body is, given the type of its message.
LEMMA MessageBodies ==
    ASSUME NEW m \in Messages
    PROVE  /\ m.type = "Exchange" => m.body \in Reqs /\ m = M("Exchange", m.body)
           /\ m.type = "Egress" => m.body \in EgressBodies
           /\ m.type \in {"Answer", "Cancel"} => m.body \in HopIds
           /\ m.type = "Ingress" => m.body \in IngressBodies
           /\ m \in Posts => m.type # "Exchange"
  BY DEF Messages, Posts, Signals, Signal, M

\* The lists of messages that handlers post are typed.
LEMMA PostTypes ==
    /\ <<>> \in Seq(Posts)
    /\ \A m \in Posts : /\ <<m>> \in Seq(Posts)
                           /\ <<>> \o <<m>> \in Seq(Posts)
                           /\ <<m>> \o <<>> \in Seq(Posts)
    /\ \A m, n \in Posts : <<m, n>> \in Seq(Posts) /\ <<m>> \o <<n>> \in Seq(Posts)
    /\ <<>> \o <<>> \in Seq(Posts)
  OBVIOUS

\* A send to the channel keeps its contents typed.
LEMMA SendType ==
    ASSUME BooleanTypes, LoopTypes, NEW m \in Messages, Send(m)
    PROVE  queue' \in Seq(Messages) /\ crashed' \in BOOLEAN /\ chanClosed' \in BOOLEAN
  BY DEF Send, BooleanTypes, LoopTypes

\* A receive from the channel keeps its contents typed, and the message received is typed.
LEMMA ReceiveType ==
    ASSUME BooleanTypes, LoopTypes, NEW type, Take(type)
    PROVE  /\ queue' \in Seq(Messages) /\ chanClosed' \in BOOLEAN /\ loop' \in {"running", "done"}
           /\ Head(queue) \in Messages
           /\ Head(queue).type = type
  BY DEF Take, BooleanTypes, LoopTypes

\* A value sent to a response channel keeps the channels typed.
LEMMA ReplyType ==
    ASSUME RequestTypes, NEW r \in Reqs, NEW v \in Replies, Reply(r, v)
    PROVE  rchan' \in [Reqs -> Seq(Replies)]
  BY DEF Reply, RequestTypes

\* cancelAll keeps the request bookkeeping typed.
LEMMA CancelAllType ==
    ASSUME RequestTypes, CancelAll, UNCHANGED caller
    PROVE  RequestTypes'
  <1> DEFINE stopped == {r \in requestsMap : timer[r] = "armed"}
  <1>1. IsFiniteSet(stopped) /\ Cardinality(stopped) \in Nat
    BY HopAssumption, FS_Subset, FS_CardinalityType DEF RequestTypes
  <1>2. wg' \in Int
    BY <1>1 DEF CancelAll, RequestTypes
  <1>3. "cancelled" \in Replies
    BY DEF Replies
  <1> QED
    BY <1>2, <1>3 DEF CancelAll, RequestTypes

-----------------------------------------------------------------------------
\* The initial state is typed.
LEMMA InitTypeOK == Init => TypeOK
  <1> SUFFICES ASSUME Init PROVE TypeOK
    OBVIOUS
  <1>1. PICK role \in Roles :
           /\ status = IF role = "active" THEN StatusConnecting ELSE StatusConnected
           /\ dialing = (role = "active")
           /\ readLoop = IF role = "active" THEN "none" ELSE "reading"
           /\ conn = IF role = "active" THEN "none" ELSE "open"
           /\ wg = IF role = "active" THEN 1 ELSE 0
    BY DEF Init
  <1>2. BooleanTypes
    <2>1. dialing \in BOOLEAN
      BY <1>1, Zenon
    <2>2. chanClosed = FALSE /\ crashed = FALSE
      BY Zenon DEF Init
    <2> QED
      BY <2>1, <2>2, Zenon DEF BooleanTypes
  <1>3. RequestTypes
    BY <1>1 DEF Init, RequestTypes
  <1>4. LoopTypes
    BY <1>1 DEF Init, LoopTypes, StatusConnecting, StatusConnected, StatusTerminated
  <1>5. NetTypes
    BY <1>1 DEF Init, NetTypes
  <1> QED
    BY <1>2, <1>3, <1>4, <1>5 DEF TypeOK

\* The steps of the goroutines around the event loop keep the types.
LEMMA GoroutinesTypeOK ==
    ASSUME TypeOK,
           \/ \E result \in {"ConnectionEstablished", "ConnectionError"} : Connect(result)
           \/ \E b \in RemoteBodies : ReadBase(b)
           \/ \E h \in HopIds : ReadAnswer(h)
           \/ \E type \in {"ReadEOF", "ReadError"} : ReadStop(type)
           \/ LinkBreaks \/ SetDown \/ HandlerReturn
           \/ \E r \in Reqs : ExchangeBegin(r) \/ ExchangePost(r) \/ TimerFire(r) \/ TimerPost(r)
    PROVE  TypeOK'
  <1> USE DEF loopVars, chanVars, requestVars, procVars, netVars, boundVars
  <1>a. BooleanTypes /\ RequestTypes /\ LoopTypes /\ NetTypes
    BY DEF TypeOK
  <1>1. ASSUME NEW result \in {"ConnectionEstablished", "ConnectionError"}, Connect(result)
        PROVE  TypeOK'
    <2>1. Signal(result) \in Messages
      BY MessageTypes DEF Signals
    <2>2. queue' \in Seq(Messages) /\ crashed' \in BOOLEAN /\ chanClosed' \in BOOLEAN
      BY <1>a, <1>1, <2>1, SendType DEF Connect
    <2>3. BooleanTypes'
      <3>1. dialing' \in BOOLEAN
        BY <1>1, Zenon DEF Connect
      <3> QED
        BY <2>2, <3>1, Zenon DEF BooleanTypes
    <2>4. RequestTypes' /\ LoopTypes' /\ NetTypes'
      BY <1>a, <1>1, <2>2 DEF Connect, RequestTypes, LoopTypes, NetTypes
    <2> QED
      BY <2>3, <2>4 DEF TypeOK
  <1>2. ASSUME NEW m \in Messages, ReadMessage(m)
        PROVE  TypeOK'
    BY <1>a, <1>2, SendType DEF ReadMessage, TypeOK, BooleanTypes, RequestTypes, LoopTypes, NetTypes
  <1>3. ASSUME NEW type \in {"ReadEOF", "ReadError"}, ReadStop(type)
        PROVE  TypeOK'
    <2>1. Signal(type) \in Messages
      BY MessageTypes DEF Signals
    <2> QED
      BY <1>a, <1>3, <2>1, SendType
      DEF ReadStop, TypeOK, BooleanTypes, RequestTypes, LoopTypes, NetTypes
  <1>4. CASE LinkBreaks
    BY <1>a, <1>4 DEF LinkBreaks, TypeOK, BooleanTypes, RequestTypes, LoopTypes, NetTypes
  <1>5. CASE SetDown
    BY <1>a, <1>5, MessageTypes, SendType
    DEF SetDown, TypeOK, BooleanTypes, RequestTypes, LoopTypes, NetTypes
  <1>6. CASE HandlerReturn
    <2>1. M("Egress", "ANS") \in Messages
      BY MessageTypes DEF EgressBodies
    <2> QED
      BY <1>a, <1>6, <2>1, SendType
      DEF HandlerReturn, TypeOK, BooleanTypes, RequestTypes, LoopTypes, NetTypes
  <1>7. ASSUME NEW r \in Reqs, ExchangeBegin(r)
        PROVE  TypeOK'
    BY <1>a, <1>7 DEF ExchangeBegin, TypeOK, BooleanTypes, RequestTypes, LoopTypes, NetTypes
  <1>8. ASSUME NEW r \in Reqs, TimerFire(r)
        PROVE  TypeOK'
    BY <1>a, <1>8 DEF TimerFire, TypeOK, BooleanTypes, RequestTypes, LoopTypes, NetTypes
  <1>9. ASSUME NEW r \in Reqs, ExchangePost(r)
        PROVE  TypeOK'
    <2>1. M("Exchange", r) \in Messages
      BY MessageTypes
    <2> QED
      BY <1>a, <1>9, <2>1, SendType
      DEF ExchangePost, TypeOK, BooleanTypes, RequestTypes, LoopTypes, NetTypes
  <1>10. ASSUME NEW r \in Reqs, TimerPost(r)
        PROVE  TypeOK'
    <2>1. M("Cancel", Hop[r]) \in Messages
      BY MessageTypes, HopAssumption
    <2> QED
      BY <1>a, <1>10, <2>1, SendType
      DEF TimerPost, TypeOK, BooleanTypes, RequestTypes, LoopTypes, NetTypes
  <1>11. \A b \in RemoteBodies : M("Ingress", b) \in Messages
    BY MessageTypes, InputAssumption
  <1>12. \A h \in HopIds : M("Answer", h) \in Messages
    BY MessageTypes
  <1> QED
    BY <1>1, <1>2, <1>3, <1>4, <1>5, <1>6, <1>7, <1>8, <1>9, <1>10, <1>11, <1>12
    DEF ReadBase, ReadAnswer

\* The steps of Close() keep the types.
LEMMA CloserTypeOK ==
    ASSUME TypeOK, Closer
    PROVE  TypeOK'
  <1> USE DEF loopVars, chanVars, requestVars, procVars, netVars, boundVars, CloseStep
  <1>a. BooleanTypes /\ RequestTypes /\ LoopTypes /\ NetTypes
    BY DEF TypeOK
  <1>1. CASE CloseBegin \/ CloseReadLoopDone \/ CloseGroupDone
    BY <1>a, <1>1 DEF CloseBegin, CloseReadLoopDone, CloseGroupDone,
                      TypeOK, BooleanTypes, RequestTypes, LoopTypes, NetTypes
  <1>2. CASE ClosePost
    <2>1. Signal("Close") \in Messages
      BY MessageTypes DEF Signals
    <2> QED
      BY <1>a, <1>2, <2>1, SendType
      DEF ClosePost, TypeOK, BooleanTypes, RequestTypes, LoopTypes, NetTypes
  <1>3. CASE CloseChannel
    <2>1. BooleanTypes'
      BY <1>a, <1>3, Zenon DEF CloseChannel, BooleanTypes
    <2>2. RequestTypes' /\ LoopTypes' /\ NetTypes'
      BY <1>a, <1>3 DEF CloseChannel, RequestTypes, LoopTypes, NetTypes
    <2> QED
      BY <2>1, <2>2 DEF TypeOK
  <1> QED
    BY <1>1, <1>2, <1>3 DEF Closer

\* A handler of an incoming base message keeps the types if what it posts is typed.
LEMMA IngestType ==
    ASSUME TypeOK,
           NEW body, NEW posts \in Seq(Posts), NEW s \in 1..5,
           Ingest("Ingress", body, posts, s),
           outstandingDWA' \in Nat, handlers' \in Int, wg' \in Int
    PROVE  TypeOK'
  <1>1. BooleanTypes /\ RequestTypes /\ LoopTypes /\ NetTypes
    BY DEF TypeOK
  <1>2. Receive("Ingress")
    BY DEF Ingest
  <1> QED
    BY <1>1, <1>2, ReceiveType
    DEF Ingest, Receive, requestVars, netVars, boundVars, StatusConnecting, StatusTerminated,
        TypeOK, BooleanTypes, RequestTypes, LoopTypes, NetTypes

\* What one of the handlers of incoming messages posts and leaves is typed.
LEMMA IngressTypeOK ==
    ASSUME TypeOK,
           \/ OnCER \/ OnBadCER \/ OnDWR \/ OnDPR \/ OnCEA \/ OnDWA \/ OnUnknown \/ OnRequest
           \/ \E body \in {"CEAbad", "DWAbad"} : OnBadAnswer(body)
    PROVE  TypeOK'
  <1>1. status \in 1..5 /\ outstandingDWA \in Nat /\ handlers \in Int /\ wg \in Int
    BY DEF TypeOK, LoopTypes, NetTypes, RequestTypes, StatusConnecting, StatusTerminated
  <1>2. StatusTerminating \in 1..5
    BY DEF StatusTerminating
  <1>3. /\ Signal("PeerUp") \in Posts /\ SetDownCommand \in Posts
        /\ M("Egress", "CEA") \in Posts /\ M("Egress", "CEAerror") \in Posts
        /\ M("Egress", "DWA") \in Posts /\ M("Egress", "DPA") \in Posts
    BY MessageTypes DEF Signals, EgressBodies
  <1>4. CASE OnCER
    <2>1. outstandingDWA' \in Nat /\ handlers' \in Int /\ wg' \in Int
      BY <1>1, <1>4 DEF OnCER
    <2>2. CASE status = StatusConnected
      <3>1. Ingest("Ingress", "CER", <<M("Egress", "CEA"), Signal("PeerUp")>>, status)
        BY <1>4, <2>2 DEF OnCER
      <3>2. <<M("Egress", "CEA"), Signal("PeerUp")>> \in Seq(Posts)
        BY <1>3, PostTypes
      <3> QED
        BY <1>1, <2>1, <3>1, <3>2, IngestType
    <2>3. CASE status # StatusConnected
      <3>1. Ingest("Ingress", "CER", <<SetDownCommand>>, StatusTerminating)
        BY <1>4, <2>3 DEF OnCER
      <3>2. <<SetDownCommand>> \in Seq(Posts)
        BY <1>3, PostTypes
      <3> QED
        BY <1>2, <2>1, <3>1, <3>2, IngestType
    <2> QED
      BY <2>2, <2>3
  <1>5. CASE OnBadCER
    <2> DEFINE posts == (IF status = StatusConnected THEN <<M("Egress", "CEAerror")>> ELSE <<>>)
                          \o <<SetDownCommand>>
    <2>1. outstandingDWA' \in Nat /\ handlers' \in Int /\ wg' \in Int
      BY <1>1, <1>5 DEF OnBadCER
    <2>2. posts \in Seq(Posts)
      BY <1>3, PostTypes
    <2>3. Ingest("Ingress", "CERbad", posts, StatusTerminating)
      BY <1>5 DEF OnBadCER
    <2> QED
      BY <1>2, <2>1, <2>2, <2>3, IngestType
  <1>6. CASE OnDWR
    <2>1. outstandingDWA' \in Nat /\ handlers' \in Int /\ wg' \in Int
      BY <1>1, <1>6 DEF OnDWR
    <2>2. <<M("Egress", "DWA")>> \in Seq(Posts)
      BY <1>3, PostTypes
    <2> QED
      BY <1>1, <1>6, <2>1, <2>2, IngestType DEF OnDWR
  <1>7. CASE OnDPR
    <2>1. outstandingDWA' \in Nat /\ handlers' \in Int /\ wg' \in Int
      BY <1>1, <1>7 DEF OnDPR
    <2>2. <<M("Egress", "DPA")>> \in Seq(Posts)
      BY <1>3, PostTypes
    <2> QED
      BY <1>1, <1>7, <2>1, <2>2, IngestType DEF OnDPR
  <1>8. CASE OnCEA
    <2>1. outstandingDWA' \in Nat /\ handlers' \in Int /\ wg' \in Int
      BY <1>1, <1>8 DEF OnCEA
    <2>2. <<Signal("PeerUp")>> \in Seq(Posts)
      BY <1>3, PostTypes
    <2> QED
      BY <1>1, <1>8, <2>1, <2>2, IngestType DEF OnCEA
  <1>9. CASE OnDWA
    <2>1. outstandingDWA' \in Nat /\ handlers' \in Int /\ wg' \in Int
      BY <1>1, <1>9 DEF OnDWA
    <2> QED
      BY <1>1, <1>9, <2>1, PostTypes, IngestType DEF OnDWA
  <1>10. CASE OnUnknown
    <2>1. outstandingDWA' \in Nat /\ handlers' \in Int /\ wg' \in Int
      BY <1>1, <1>10 DEF OnUnknown
    <2> QED
      BY <1>1, <1>10, <2>1, PostTypes, IngestType DEF OnUnknown
  <1>11. CASE OnRequest
    <2>1. outstandingDWA' \in Nat /\ handlers' \in Int /\ wg' \in Int
      BY <1>1, <1>11 DEF OnRequest
    <2> QED
      BY <1>1, <1>11, <2>1, PostTypes, IngestType DEF OnRequest
  <1>12. ASSUME NEW body \in {"CEAbad", "DWAbad"}, OnBadAnswer(body)
         PROVE  TypeOK'
    <2>1. outstandingDWA' \in Nat /\ handlers' \in Int /\ wg' \in Int
      BY <1>1, <1>12 DEF OnBadAnswer
    <2>2. <<SetDownCommand>> \in Seq(Posts)
      BY <1>3, PostTypes
    <2> QED
      BY <1>2, <1>12, <2>1, <2>2, IngestType DEF OnBadAnswer
  <1> QED
    BY <1>4, <1>5, <1>6, <1>7, <1>8, <1>9, <1>10, <1>11, <1>12

\* Writing an application request, or failing to, keeps the types.
LEMMA ExchangeTypeOK ==
    ASSUME TypeOK, NEW r \in Reqs, OnExchange(r)
    PROVE  TypeOK'
  <1> USE DEF loopVars, requestVars, procVars, netVars, boundVars,
              StatusConnecting, StatusTerminating, StatusTerminated
  <1>1. BooleanTypes /\ RequestTypes /\ LoopTypes /\ NetTypes
    BY DEF TypeOK
  <1>2. Take("Exchange") /\ UNCHANGED <<outstandingDWA, events, caller, procVars, conn, boundVars>>
    BY DEF OnExchange
  <1>3. /\ queue' \in Seq(Messages) /\ chanClosed' \in BOOLEAN /\ loop' \in {"running", "done"}
    BY <1>1, <1>2, ReceiveType
  <1>4. {"refused", "error"} \subseteq Replies
    BY DEF Replies
  <1>5. CASE ExchangeRefused(r)
    <2>1. rchan' \in [Reqs -> Seq(Replies)]
      BY <1>1, <1>4, <1>5, ReplyType DEF ExchangeRefused
    <2> QED
      BY <1>1, <1>2, <1>3, <1>5, <2>1
      DEF ExchangeRefused, TypeOK, BooleanTypes, RequestTypes, LoopTypes, NetTypes
  <1>6. CASE ExchangeDuplicated(r)
    <2>1. BooleanTypes'
      <3>1. crashed' = TRUE
        BY <1>6, Zenon DEF ExchangeDuplicated
      <3>2. dialing' = dialing
        BY <1>2
      <3> QED
        BY <1>1, <1>3, <3>1, <3>2, Zenon DEF BooleanTypes
    <2>2. RequestTypes' /\ LoopTypes' /\ NetTypes'
      BY <1>1, <1>2, <1>3, <1>6 DEF ExchangeDuplicated, RequestTypes, LoopTypes, NetTypes
    <2> QED
      BY <2>1, <2>2 DEF TypeOK
  <1>7. CASE ExchangeWriteError(r)
    <2>2. out' \in Seq(Posts)
      BY <1>7, MessageTypes, PostTypes DEF ExchangeWriteError, WriteErrorPosts, Signals
    <2> QED
      BY <1>1, <1>2, <1>3, <1>7, <2>2
      DEF ExchangeWriteError, Write, TypeOK, BooleanTypes, RequestTypes, LoopTypes, NetTypes
  <1>8. CASE ExchangeSent(r)
    <2>1. wire' \in SUBSET Messages /\ link' \in {"up", "broken", "sticky"}
      BY <1>1, <1>8, MessageTypes DEF ExchangeSent, Write, NetTypes
    <2> QED
      BY <1>1, <1>2, <1>3, <1>8, <2>1
      DEF ExchangeSent, TypeOK, BooleanTypes, RequestTypes, LoopTypes, NetTypes
  <1> QED
    BY <1>5, <1>6, <1>7, <1>8 DEF OnExchange

\* The handlers of the event loop keep the types.
LEMMA EventLoopTypeOK ==
    ASSUME TypeOK, EventLoop \/ WatchdogTick
    PROVE  TypeOK'
  <1> USE DEF loopVars, chanVars, requestVars, procVars, netVars, boundVars,
              StatusConnecting, StatusConnected, StatusEngaged, StatusTerminating, StatusTerminated
  <1>a. BooleanTypes /\ RequestTypes /\ LoopTypes /\ NetTypes
    BY DEF TypeOK
  <1>b. /\ Signal("Watchdog") \in Posts /\ Signal("WriteError") \in Posts
        /\ SetDownCommand \in Posts
        /\ M("Egress", "CER") \in Posts /\ M("Egress", "DWR") \in Posts
    BY MessageTypes DEF Signals, EgressBodies
  <1>1. CASE LoopSend
    <2>1. Head(out) \in Messages /\ Tail(out) \in Seq(Posts)
      BY <1>a, <1>1, MessageTypes DEF LoopSend, LoopTypes
    <2> QED
      BY <1>a, <1>1, <2>1, SendType
      DEF LoopSend, TypeOK, BooleanTypes, RequestTypes, LoopTypes, NetTypes
  <1>c. ASSUME NEW type, Receive(type)
        PROVE  /\ queue' \in Seq(Messages) /\ chanClosed' \in BOOLEAN /\ loop' \in {"running", "done"}
               /\ Head(queue) \in Messages /\ failed' \in SUBSET Reqs
    BY <1>a, <1>c, ReceiveType DEF Receive, LoopTypes
  <1>2. CASE WatchdogTick
    <2>1. out' \in Seq(Posts)
      BY <1>2, <1>b, PostTypes DEF WatchdogTick
    <2> QED
      BY <1>a, <1>2, <2>1 DEF WatchdogTick, TypeOK, BooleanTypes, RequestTypes, LoopTypes, NetTypes
  <1>3. CASE OnClose
    BY <1>a, <1>3 DEF OnClose, TypeOK, BooleanTypes, RequestTypes, LoopTypes, NetTypes
  <1>4. CASE OnConnectionEstablished
    <2>1. out' \in Seq(Posts)
      BY <1>4, <1>b, PostTypes DEF OnConnectionEstablished
    <2> QED
      BY <1>a, <1>4, <2>1, <1>c
      DEF OnConnectionEstablished, TypeOK, BooleanTypes, RequestTypes, LoopTypes, NetTypes
  <1>5. CASE OnConnectionError
    <2>1. status' \in 1..5 /\ events' \in Seq({"up", "down"})
      <3>1. CASE status' = StatusTerminated /\ events' = Append(events, "down")
        BY <1>a, <3>1 DEF LoopTypes
      <3>2. CASE UNCHANGED <<status, events>>
        BY <1>a, <3>2 DEF LoopTypes
      <3> QED
        BY <1>5, <3>1, <3>2 DEF OnConnectionError
    <2> QED
      BY <1>a, <1>5, <2>1, <1>c
      DEF OnConnectionError, TypeOK, BooleanTypes, RequestTypes, LoopTypes, NetTypes
  <1>6. ASSUME NEW type \in {"ReadEOF", "ReadError", "WriteError", "SetDown"}, OnDown(type)
        PROVE  TypeOK'
    <2>1. RequestTypes'
      BY <1>a, <1>6, CancelAllType DEF OnDown, TerminateActions, RequestTypes
    <2>2. status' \in 1..5 /\ events' \in Seq({"up", "down"}) /\ conn' \in {"none", "open", "closed"}
      <3>1. CASE TerminateActions
        BY <1>a, <3>1 DEF TerminateActions, LoopTypes, NetTypes
      <3>2. CASE UNCHANGED <<status, events, conn>>
        BY <1>a, <3>2 DEF LoopTypes, NetTypes
      <3> QED
        BY <1>6, <3>1, <3>2 DEF OnDown
    <2> QED
      BY <1>a, <1>6, <2>1, <2>2, <1>c DEF OnDown, TypeOK, BooleanTypes, LoopTypes, NetTypes
  <1>7. CASE OnPeerUp
    <2>1. status' \in 1..5 /\ events' \in Seq({"up", "down"})
      BY <1>a, <1>7 DEF OnPeerUp, LoopTypes
    <2> QED
      BY <1>a, <1>7, <2>1, <1>c
      DEF OnPeerUp, TypeOK, BooleanTypes, RequestTypes, LoopTypes, NetTypes
  <1>8. CASE OnEgress
    <2>1. Head(queue) \in Messages
      BY <1>a, <1>8, <1>c DEF OnEgress
    <2>2. ASSUME NEW outcome,
                 out' = (IF Body = "DPA" THEN <<SetDownCommand>> ELSE <<>>) \o WriteErrorPosts(outcome)
          PROVE  out' \in Seq(Posts)
      BY <1>b, <2>2, PostTypes DEF WriteErrorPosts
    <2>3. out' \in Seq(Posts)
      <3>1. CASE UNCHANGED out
        BY <1>a, <3>1 DEF LoopTypes
      <3> QED
        BY <1>8, <2>2, <3>1 DEF OnEgress
    <2>4. wire' \in SUBSET Messages /\ link' \in {"up", "broken", "sticky"}
      BY <1>a, <1>8, <2>1 DEF OnEgress, Write, NetTypes
    <2>5. status' \in 1..5
      BY <1>a, <1>8 DEF OnEgress, LoopTypes
    <2> QED
      BY <1>a, <1>8, <2>3, <2>4, <2>5, <1>c
      DEF OnEgress, TypeOK, BooleanTypes, RequestTypes, LoopTypes, NetTypes
  <1>9. CASE OnAnswer
    <2>1. "answer" \in Replies
      BY DEF Replies
    <2>2. RequestTypes'
      <3>1. CASE UNCHANGED <<requestsMap, timer, rchan, wg>>
        BY <1>a, <1>9, <3>1 DEF OnAnswer, RequestTypes
      <3>2. ASSUME NEW r \in Entry(Body),
                   timer' = [timer EXCEPT ![r] = IF @ = "armed" THEN "stopped" ELSE @],
                   wg' = IF timer[r] = "armed" THEN wg - 1 ELSE wg,
                   Reply(r, "answer"), requestsMap' = Forget(r), UNCHANGED caller
            PROVE  RequestTypes'
        <4>1. r \in Reqs
          BY <1>a DEF Entry, RequestTypes
        <4> QED
          BY <1>a, <2>1, <3>2, <4>1, ReplyType DEF Forget, RequestTypes
      <3> QED
        BY <1>9, <3>1, <3>2 DEF OnAnswer
    <2> QED
      BY <1>a, <1>9, <2>2, <1>c DEF OnAnswer, TypeOK, BooleanTypes, LoopTypes, NetTypes
  <1>10. CASE OnCancel
    <2>1. "timeout" \in Replies
      BY DEF Replies
    <2>2. RequestTypes'
      <3>1. CASE UNCHANGED <<requestsMap, rchan>>
        BY <1>a, <1>10, <3>1 DEF OnCancel, RequestTypes
      <3>2. ASSUME NEW r \in Entry(Body), Reply(r, "timeout"), requestsMap' = Forget(r),
                   UNCHANGED <<timer, caller, wg>>
            PROVE  RequestTypes'
        <4>1. r \in Reqs
          BY <1>a DEF Entry, RequestTypes
        <4> QED
          BY <1>a, <2>1, <3>2, <4>1, ReplyType DEF Forget, RequestTypes
      <3> QED
        BY <1>10, <3>1, <3>2 DEF OnCancel
    <2> QED
      BY <1>a, <1>10, <2>2, <1>c DEF OnCancel, TypeOK, BooleanTypes, LoopTypes, NetTypes
  <1>11. CASE OnWatchdog
    <2>1. out' \in Seq(Posts)
      BY <1>b, <1>11, PostTypes DEF OnWatchdog
    <2>2. status' \in 1..5 /\ outstandingDWA' \in Nat
      BY <1>a, <1>11 DEF OnWatchdog, LoopTypes
    <2> QED
      BY <1>a, <1>11, <2>1, <2>2, <1>c
      DEF OnWatchdog, TypeOK, BooleanTypes, RequestTypes, LoopTypes, NetTypes
  <1>12. ASSUME NEW r \in Reqs, ExchangeFail(r)
         PROVE  TypeOK'
    <2>1. "error" \in Replies
      BY DEF Replies
    <2>2. rchan' \in [Reqs -> Seq(Replies)]
      BY <1>a, <1>12, <2>1, ReplyType DEF ExchangeFail
    <2> QED
      BY <1>a, <1>12, <2>2
      DEF ExchangeFail, TypeOK, BooleanTypes, RequestTypes, LoopTypes, NetTypes
  <1> QED
    BY <1>1, <1>2, <1>3, <1>4, <1>5, <1>6, <1>7, <1>8, <1>9, <1>10, <1>11, <1>12,
       IngressTypeOK, ExchangeTypeOK DEF EventLoop

\* Every step keeps the types.
LEMMA NextTypeOK == TypeOK /\ [Next]_vars => TypeOK'
  <1>1. ASSUME TypeOK, Next
        PROVE  TypeOK'
    BY <1>1, GoroutinesTypeOK, CloserTypeOK, EventLoopTypeOK DEF Next
  <1>2. ASSUME TypeOK, UNCHANGED vars
        PROVE  TypeOK'
    BY <1>2 DEF vars, loopVars, chanVars, requestVars, procVars, netVars, boundVars,
                TypeOK, BooleanTypes, RequestTypes, LoopTypes, NetTypes
  <1> QED
    BY <1>1, <1>2

\* Type correctness of the peer, whatever the constants: no sequence of connections, messages,
\* timeouts and closings makes a handler leave an ill-typed state, outstandingDWA included.
THEOREM TypeCorrect == Spec => []TypeOK
  BY InitTypeOK, NextTypeOK, PTL DEF Spec

-----------------------------------------------------------------------------
(* OneAnswerPerRequest.  A request is in one place at a time: with its caller,  *)
(* in the channel (once), in requestsMap, about to be told that it could not be *)
(* written, or answered.                                                        *)

InQueue(m) == \E i \in 1..Len(queue) : queue[i] = m

Queued(r) == InQueue(M("Exchange", r))

QueuedOnce ==
    \A i, j \in 1..Len(queue) : queue[i].type = "Exchange" /\ queue[i] = queue[j] => i = j

OnePlace(r) ==
    /\ caller[r] # "sent" => r \notin requestsMap /\ ~Queued(r) /\ rchan[r] = <<>>
    /\ Queued(r) => r \notin requestsMap /\ rchan[r] = <<>>
    /\ r \in requestsMap => rchan[r] = <<>>
    /\ r \in failed => /\ caller[r] = "sent" /\ ~Queued(r)
                       /\ r \notin requestsMap /\ rchan[r] = <<>>
    /\ Len(rchan[r]) <= 1

RequestInv == QueuedOnce /\ \A r \in Reqs : OnePlace(r)

\* Posting a message that is not a request leaves the queued requests alone.
LEMMA SendOther ==
    ASSUME TypeOK, QueuedOnce, NEW m \in Messages, m.type # "Exchange", Send(m)
    PROVE  QueuedOnce' /\ \A r \in Reqs : Queued(r)' <=> Queued(r)
  <1>1. queue \in Seq(Messages)
    BY DEF TypeOK, LoopTypes
  <1>2. CASE queue' = queue
    BY <1>2 DEF QueuedOnce, Queued, InQueue
  <1>3. CASE queue' = Append(queue, m)
    <2>1. /\ Len(queue') = Len(queue) + 1 /\ Len(queue) \in Nat
          /\ queue'[Len(queue) + 1] = m
          /\ \A i \in 1..Len(queue) : queue'[i] = queue[i]
      BY <1>1, <1>3
    <2>2. \A r \in Reqs : m # M("Exchange", r)
      BY DEF M
    <2>3. QueuedOnce'
      BY <2>1 DEF QueuedOnce
    <2>4. \A r \in Reqs : Queued(r)' <=> Queued(r)
      BY <2>1, <2>2 DEF Queued, InQueue
    <2> QED
      BY <2>3, <2>4
  <1> QED
    BY <1>2, <1>3 DEF Send

\* Taking the head of the channel: the rest of it moves up by one.
LEMMA ReceiveShift ==
    ASSUME TypeOK, NEW type, Take(type)
    PROVE  /\ Len(queue) \in Nat \ {0} /\ Len(queue') = Len(queue) - 1
           /\ queue[1] = Head(queue)
           /\ \A i \in 1..Len(queue') : queue'[i] = queue[i + 1]
  BY DEF Take, TypeOK, LoopTypes

\* Taking a message that is not a request leaves the queued requests alone.
LEMMA ReceiveOther ==
    ASSUME TypeOK, QueuedOnce, NEW type, type # "Exchange", Take(type)
    PROVE  QueuedOnce' /\ \A r \in Reqs : Queued(r)' <=> Queued(r)
  <1>1. /\ Len(queue) \in Nat \ {0} /\ Len(queue') = Len(queue) - 1
        /\ queue[1].type # "Exchange"
        /\ \A i \in 1..Len(queue') : queue'[i] = queue[i + 1]
    BY ReceiveShift DEF Take
  <1>2. QueuedOnce'
    BY <1>1 DEF QueuedOnce
  <1>3. ASSUME NEW r \in Reqs PROVE Queued(r)' => Queued(r)
    BY <1>1 DEF Queued, InQueue
  <1>4. ASSUME NEW r \in Reqs, Queued(r) PROVE Queued(r)'
    <2>1. PICK i \in 1..Len(queue) : queue[i] = M("Exchange", r)
      BY <1>4 DEF Queued, InQueue
    <2>2. i # 1
      BY <1>1, <2>1 DEF M
    <2>3. i - 1 \in 1..Len(queue') /\ queue'[i - 1] = M("Exchange", r)
      BY <1>1, <2>1, <2>2
    <2> QED
      BY <2>3 DEF Queued, InQueue
  <1> QED
    BY <1>2, <1>3, <1>4

\* Taking a request: it is not in the channel any more, the others still are.
LEMMA ReceiveExchange ==
    ASSUME TypeOK, QueuedOnce, NEW r \in Reqs, Take("Exchange"), Body = r
    PROVE  /\ QueuedOnce' /\ Queued(r) /\ ~Queued(r)'
           /\ \A q \in Reqs \ {r} : Queued(q)' <=> Queued(q)
  <1>1. /\ Len(queue) \in Nat \ {0} /\ Len(queue') = Len(queue) - 1
        /\ queue[1] = Head(queue)
        /\ \A i \in 1..Len(queue') : queue'[i] = queue[i + 1]
    BY ReceiveShift
  <1>2. queue[1] = M("Exchange", r) /\ queue[1].type = "Exchange"
    <2>1. Head(queue) \in Messages /\ Head(queue).type = "Exchange"
      BY ReceiveType DEF TypeOK
    <2> QED
      BY <1>1, <2>1, MessageBodies DEF Body
  <1>3. Queued(r)
    BY <1>1, <1>2 DEF Queued, InQueue
  <1>4. QueuedOnce'
    BY <1>1 DEF QueuedOnce
  <1>5. ~Queued(r)'
    BY <1>1, <1>2 DEF QueuedOnce, Queued, InQueue
  <1>6. ASSUME NEW q \in Reqs \ {r} PROVE Queued(q)' => Queued(q)
    BY <1>1 DEF Queued, InQueue
  <1>7. ASSUME NEW q \in Reqs \ {r}, Queued(q) PROVE Queued(q)'
    <2>1. PICK i \in 1..Len(queue) : queue[i] = M("Exchange", q)
      BY <1>7 DEF Queued, InQueue
    <2>2. i # 1
      BY <1>2, <2>1 DEF M
    <2>3. i - 1 \in 1..Len(queue') /\ queue'[i - 1] = M("Exchange", q)
      BY <1>1, <2>1, <2>2
    <2> QED
      BY <2>3 DEF Queued, InQueue
  <1> QED
    BY <1>3, <1>4, <1>5, <1>6, <1>7

\* A step that leaves the requests and the queued requests alone keeps the invariant.
LEMMA Elsewhere ==
    ASSUME RequestInv, QueuedOnce', \A r \in Reqs : Queued(r)' <=> Queued(r),
           UNCHANGED <<requestsMap, rchan, caller, failed>>
    PROVE  RequestInv'
  BY DEF RequestInv, OnePlace

\* Initially nothing is queued, in flight or answered.
LEMMA InitRequestInv == Init => RequestInv
  BY DEF Init, RequestInv, QueuedOnce, OnePlace, Queued, InQueue

\* The goroutines around the event loop keep the invariant: only ExchangePost queues a request.
LEMMA GoroutinesRequestInv ==
    ASSUME TypeOK, RequestInv,
           \/ \E result \in {"ConnectionEstablished", "ConnectionError"} : Connect(result)
           \/ \E b \in RemoteBodies : ReadBase(b)
           \/ \E h \in HopIds : ReadAnswer(h)
           \/ \E type \in {"ReadEOF", "ReadError"} : ReadStop(type)
           \/ LinkBreaks \/ SetDown \/ HandlerReturn
           \/ \E r \in Reqs : ExchangeBegin(r) \/ ExchangePost(r) \/ TimerFire(r) \/ TimerPost(r)
    PROVE  RequestInv'
  <1> USE DEF loopVars, chanVars, requestVars, procVars, netVars, boundVars
  <1>a. QueuedOnce
    BY DEF RequestInv
  <1>b. ASSUME NEW m \in Messages, m.type # "Exchange", Send(m),
               UNCHANGED <<requestsMap, rchan, caller, failed>>
        PROVE  RequestInv'
    BY <1>a, <1>b, SendOther, Elsewhere
  <1>c. ASSUME NEW type \in {"Close", "ConnectionEstablished", "ConnectionError", "ReadEOF",
                             "ReadError", "SetDown"}
        PROVE  Signal(type) \in Messages /\ Signal(type).type # "Exchange"
    BY MessageTypes DEF Signals, Signal, M
  <1>d. SetDownCommand \in Messages /\ SetDownCommand.type # "Exchange"
    BY MessageTypes DEF SetDownCommand, Signal, M
  <1>e. ASSUME NEW b
        PROVE  /\ M("Egress", b).type # "Exchange" /\ M("Ingress", b).type # "Exchange"
               /\ M("Answer", b).type # "Exchange" /\ M("Cancel", b).type # "Exchange"
    BY DEF M
  <1>1. ASSUME NEW result \in {"ConnectionEstablished", "ConnectionError"}, Connect(result)
        PROVE  RequestInv'
    BY <1>1, <1>b, <1>c DEF Connect
  <1>2. ASSUME NEW b \in RemoteBodies, ReadBase(b)
        PROVE  RequestInv'
    <2>1. M("Ingress", b) \in Messages
      BY MessageTypes, InputAssumption
    <2> QED
      BY <1>2, <2>1, <1>b, <1>e DEF ReadBase, ReadMessage
  <1>3. ASSUME NEW h \in HopIds, ReadAnswer(h)
        PROVE  RequestInv'
    <2>1. M("Answer", h) \in Messages
      BY MessageTypes
    <2> QED
      BY <1>3, <2>1, <1>b, <1>e DEF ReadAnswer, ReadMessage
  <1>4. ASSUME NEW type \in {"ReadEOF", "ReadError"}, ReadStop(type)
        PROVE  RequestInv'
    BY <1>4, <1>b, <1>c DEF ReadStop
  <1>5. CASE LinkBreaks
    BY <1>5 DEF LinkBreaks, RequestInv, QueuedOnce, OnePlace, Queued, InQueue
  <1>6. CASE SetDown
    BY <1>6, <1>b, <1>d DEF SetDown
  <1>7. CASE HandlerReturn
    <2>1. M("Egress", "ANS") \in Messages
      BY MessageTypes DEF EgressBodies
    <2> QED
      BY <1>7, <2>1, <1>b, <1>e DEF HandlerReturn
  <1>8. ASSUME NEW r \in Reqs, ExchangeBegin(r)
        PROVE  RequestInv'
    BY <1>8 DEF ExchangeBegin, TypeOK, RequestTypes, RequestInv, QueuedOnce, OnePlace, Queued, InQueue
  <1>9. ASSUME NEW r \in Reqs, ExchangePost(r)
        PROVE  RequestInv'
    <2> DEFINE m == M("Exchange", r)
    <2>1. queue \in Seq(Messages) /\ m \in Messages
      BY MessageTypes DEF TypeOK, LoopTypes
    <2>2. r \notin requestsMap /\ ~Queued(r) /\ rchan[r] = <<>> /\ r \notin failed
      BY <1>9 DEF ExchangePost, RequestInv, OnePlace
    <2>3. caller \in [Reqs -> {"idle", "sending", "sent"}] /\ caller' = [caller EXCEPT ![r] = "sent"]
      BY <1>9 DEF ExchangePost, TypeOK, RequestTypes
    <2>4. CASE queue' = queue
      BY <1>9, <2>3, <2>4 DEF ExchangePost, RequestInv, QueuedOnce, OnePlace, Queued, InQueue
    <2>5. CASE queue' = Append(queue, m)
      <3>1. /\ Len(queue') = Len(queue) + 1 /\ Len(queue) \in Nat
            /\ queue'[Len(queue) + 1] = m
            /\ \A i \in 1..Len(queue) : queue'[i] = queue[i] /\ queue[i] # m
        BY <2>1, <2>2, <2>5 DEF Queued, InQueue
      <3>2. QueuedOnce'
        BY <1>a, <3>1 DEF QueuedOnce
      <3>3. \A q \in Reqs \ {r} : m # M("Exchange", q)
        BY DEF M
      <3>4. \A q \in Reqs \ {r} : Queued(q)' <=> Queued(q)
        BY <3>1, <3>3 DEF Queued, InQueue
      <3>5. UNCHANGED <<requestsMap, rchan, failed>>
        BY <1>9 DEF ExchangePost
      <3>6. ASSUME NEW q \in Reqs PROVE OnePlace(q)'
        <4>1. OnePlace(q)
          BY DEF RequestInv
        <4>2. CASE q = r
          BY <2>2, <2>3, <3>5, <4>1, <4>2 DEF OnePlace
        <4>3. CASE q # r
          BY <2>3, <3>4, <3>5, <4>1, <4>3 DEF OnePlace
        <4> QED
          BY <4>2, <4>3
      <3> QED
        BY <3>2, <3>6 DEF RequestInv
    <2> QED
      BY <1>9, <2>4, <2>5 DEF ExchangePost, Send
  <1>10. ASSUME NEW r \in Reqs, TimerFire(r)
        PROVE  RequestInv'
    BY <1>10 DEF TimerFire, RequestInv, QueuedOnce, OnePlace, Queued, InQueue
  <1>11. ASSUME NEW r \in Reqs, TimerPost(r)
        PROVE  RequestInv'
    <2>1. M("Cancel", Hop[r]) \in Messages
      BY MessageTypes, HopAssumption
    <2> QED
      BY <1>11, <2>1, <1>b, <1>e DEF TimerPost
  <1> QED
    BY <1>1, <1>2, <1>3, <1>4, <1>5, <1>6, <1>7, <1>8, <1>9, <1>10, <1>11

\* Close() keeps the invariant.
LEMMA CloserRequestInv ==
    ASSUME TypeOK, RequestInv, Closer
    PROVE  RequestInv'
  <1> USE DEF loopVars, chanVars, requestVars, procVars, netVars, boundVars, CloseStep
  <1>1. CASE CloseBegin \/ CloseReadLoopDone \/ CloseGroupDone \/ CloseChannel
    <2>1. UNCHANGED <<queue, requestsMap, rchan, caller, failed>>
      BY <1>1 DEF CloseBegin, CloseReadLoopDone, CloseGroupDone, CloseChannel
    <2> QED
      BY <2>1 DEF RequestInv, QueuedOnce, OnePlace, Queued, InQueue
  <1>2. CASE ClosePost
    <2>1. Signal("Close") \in Messages /\ Signal("Close").type # "Exchange"
      BY MessageTypes DEF Signals, Signal, M
    <2>2. QueuedOnce /\ Send(Signal("Close")) /\ UNCHANGED <<requestsMap, rchan, caller, failed>>
      BY <1>2 DEF ClosePost, RequestInv
    <2> QED
      BY <2>1, <2>2, SendOther, Elsewhere
  <1> QED
    BY <1>1, <1>2 DEF Closer

\* Answering a request that is in the map, and removing it, keeps the invariant.
LEMMA ReplyAndForget ==
    ASSUME TypeOK, RequestInv, NEW r \in requestsMap, NEW v,
           QueuedOnce', \A q \in Reqs : Queued(q)' <=> Queued(q), UNCHANGED <<caller, failed>>,
           Reply(r, v), requestsMap' = Forget(r)
    PROVE  RequestInv'
  <1>1. r \in Reqs /\ rchan[r] = <<>> /\ caller[r] = "sent" /\ ~Queued(r) /\ r \notin failed
    BY DEF TypeOK, RequestTypes, RequestInv, OnePlace
  <1>2. Len(Append(<<>>, v)) = 1
    OBVIOUS
  <1>3. rchan' = [rchan EXCEPT ![r] = Append(@, v)] /\ rchan \in [Reqs -> Seq(Replies)]
    BY DEF Reply, TypeOK, RequestTypes
  <1>4. ASSUME NEW q \in Reqs PROVE OnePlace(q)'
    <2>1. OnePlace(q)
      BY DEF RequestInv
    <2>2. CASE q = r
      BY <1>1, <1>2, <1>3, <2>1, <2>2 DEF OnePlace, Forget
    <2>3. CASE q # r
      BY <1>3, <2>1, <2>3 DEF OnePlace, Forget
    <2> QED
      BY <2>2, <2>3
  <1> QED
    BY <1>4 DEF RequestInv

\* cancelAll answers exactly the requests of the map, and empties it.
LEMMA CancelAllRequestInv ==
    ASSUME TypeOK, RequestInv, CancelAll, UNCHANGED <<caller, failed>>,
           QueuedOnce', \A q \in Reqs : Queued(q)' <=> Queued(q)
    PROVE  RequestInv'
  <1>1. ASSUME NEW q \in Reqs PROVE OnePlace(q)'
    <2>1. OnePlace(q)
      BY DEF RequestInv
    <2>2. requestsMap' = {}
      BY DEF CancelAll
    <2>3. CASE q \in requestsMap
      <3>1. rchan[q] = <<>> /\ caller[q] = "sent" /\ ~Queued(q) /\ q \notin failed
        BY <2>1, <2>3 DEF OnePlace, TypeOK, RequestTypes
      <3>2. rchan'[q] = Append(<<>>, "cancelled")
        BY <2>3, <3>1 DEF CancelAll
      <3>3. Len(rchan'[q]) = 1
        BY <3>2
      <3> QED
        BY <2>2, <3>1, <3>3 DEF OnePlace
    <2>4. CASE q \notin requestsMap
      <3>1. rchan'[q] = rchan[q]
        BY <2>4 DEF CancelAll
      <3> QED
        BY <2>1, <2>2, <2>4, <3>1 DEF OnePlace
    <2> QED
      BY <2>3, <2>4
  <1> QED
    BY <1>1 DEF RequestInv

\* The handler of an EgressDiameterMsg with a response channel keeps the invariant: the request
\* leaves the channel, and is answered or stored, not both.
LEMMA ExchangeRequestInv ==
    ASSUME TypeOK, RequestInv, NEW r \in Reqs, OnExchange(r)
    PROVE  RequestInv'
  <1>1. /\ QueuedOnce' /\ Queued(r) /\ ~Queued(r)'
        /\ \A q \in Reqs \ {r} : Queued(q)' <=> Queued(q)
    BY ReceiveExchange DEF OnExchange, RequestInv
  <1>2. r \notin requestsMap /\ rchan[r] = <<>> /\ caller[r] = "sent" /\ UNCHANGED caller
    BY <1>1 DEF RequestInv, OnePlace, OnExchange
  <1>3. rchan \in [Reqs -> Seq(Replies)] /\ failed = {}
    BY DEF TypeOK, RequestTypes, OnExchange, Take, Idle
  <1>4. ASSUME NEW v, Reply(r, v), UNCHANGED <<requestsMap, failed>>, NEW q \in Reqs
        PROVE  OnePlace(q)'
    <2>1. OnePlace(q)
      BY DEF RequestInv
    <2>2. CASE q = r
      <3>1. rchan'[r] = Append(<<>>, v) /\ Len(Append(<<>>, v)) = 1
        BY <1>2, <1>3, <1>4 DEF Reply
      <3> QED
        BY <1>1, <1>2, <1>3, <1>4, <2>2, <3>1 DEF OnePlace
    <2>3. CASE q # r
      BY <1>1, <1>2, <1>3, <1>4, <2>1, <2>3 DEF OnePlace, Reply
    <2> QED
      BY <2>2, <2>3
  <1>5. CASE ExchangeRefused(r)
    BY <1>1, <1>4, <1>5 DEF ExchangeRefused, RequestInv
  <1>6. CASE ExchangeDuplicated(r)
    <2>1. UNCHANGED <<requestsMap, rchan, failed>>
      BY <1>6 DEF ExchangeDuplicated
    <2>2. ASSUME NEW q \in Reqs PROVE OnePlace(q)'
      BY <1>1, <1>2, <1>3, <2>1 DEF RequestInv, OnePlace
    <2> QED
      BY <1>1, <2>2 DEF RequestInv
  <1>7. CASE ExchangeSent(r)
    <2>1. requestsMap' = requestsMap \cup {r} /\ UNCHANGED <<rchan, failed>>
      BY <1>7 DEF ExchangeSent
    <2>2. ASSUME NEW q \in Reqs PROVE OnePlace(q)'
      BY <1>1, <1>2, <1>3, <2>1 DEF RequestInv, OnePlace
    <2> QED
      BY <1>1, <2>2 DEF RequestInv
  <1>8. CASE ExchangeWriteError(r)
    <2>1. failed' = {r} /\ UNCHANGED <<requestsMap, rchan>>
      BY <1>8 DEF ExchangeWriteError
    <2>2. ASSUME NEW q \in Reqs PROVE OnePlace(q)'
      BY <1>1, <1>2, <1>3, <2>1 DEF RequestInv, OnePlace
    <2> QED
      BY <1>1, <2>2 DEF RequestInv
  <1> QED
    BY <1>5, <1>6, <1>7, <1>8 DEF OnExchange

\* Telling a request that it could not be written keeps the invariant.
LEMMA ExchangeFailRequestInv ==
    ASSUME TypeOK, RequestInv, NEW r \in Reqs, ExchangeFail(r)
    PROVE  RequestInv'
  <1>1. /\ r \in failed /\ failed' = failed \ {r} /\ UNCHANGED <<queue, requestsMap, caller>>
        /\ rchan' = [rchan EXCEPT ![r] = Append(@, "error")] /\ rchan \in [Reqs -> Seq(Replies)]
    BY DEF ExchangeFail, Reply, chanVars, TypeOK, RequestTypes
  <1>2. r \notin requestsMap /\ rchan[r] = <<>> /\ caller[r] = "sent" /\ ~Queued(r)
    BY <1>1 DEF RequestInv, OnePlace
  <1>3. QueuedOnce' /\ \A q \in Reqs : Queued(q)' <=> Queued(q)
    BY <1>1 DEF RequestInv, QueuedOnce, Queued, InQueue
  <1>4. Len(Append(<<>>, "error")) = 1
    OBVIOUS
  <1>5. ASSUME NEW q \in Reqs PROVE OnePlace(q)'
    <2>1. OnePlace(q)
      BY DEF RequestInv
    <2>2. CASE q = r
      BY <1>1, <1>2, <1>3, <1>4, <2>2 DEF OnePlace
    <2>3. CASE q # r
      BY <1>1, <1>3, <2>1, <2>3 DEF OnePlace
    <2> QED
      BY <2>2, <2>3
  <1> QED
    BY <1>3, <1>5 DEF RequestInv

\* The handlers of the event loop keep the invariant.
LEMMA EventLoopRequestInv ==
    ASSUME TypeOK, RequestInv, EventLoop \/ WatchdogTick
    PROVE  RequestInv'
  <1> USE DEF loopVars, chanVars, requestVars, procVars, netVars, boundVars
  <1>a. QueuedOnce
    BY DEF RequestInv
  <1>b. ASSUME NEW type, type # "Exchange", Receive(type), UNCHANGED <<requestsMap, rchan, caller>>
        PROVE  RequestInv'
    BY <1>a, <1>b, ReceiveOther, Elsewhere DEF Receive
  <1>1. CASE LoopSend
    <2>1. Head(out) \in Posts
      BY <1>1 DEF LoopSend, TypeOK, LoopTypes
    <2>2. Head(out) \in Messages /\ Head(out).type # "Exchange"
      BY <2>1, MessageTypes, MessageBodies
    <2>3. Send(Head(out)) /\ UNCHANGED <<requestsMap, rchan, caller, failed>>
      BY <1>1 DEF LoopSend
    <2> QED
      BY <1>a, <2>2, <2>3, SendOther, Elsewhere
  <1>2. CASE WatchdogTick
    BY <1>2 DEF WatchdogTick, RequestInv, QueuedOnce, OnePlace, Queued, InQueue
  <1>3. CASE OnClose
    <2>2. /\ queue # <<>> /\ queue' = Tail(queue) /\ Head(queue).type = "Close"
          /\ queue \in Seq(Messages) /\ UNCHANGED <<requestsMap, rchan, caller, failed>>
      BY <1>3 DEF OnClose, TypeOK, LoopTypes
    <2>3. /\ Len(queue) \in Nat \ {0} /\ Len(queue') = Len(queue) - 1
          /\ queue[1].type # "Exchange"
          /\ \A i \in 1..Len(queue') : queue'[i] = queue[i + 1]
      BY <2>2
    <2>4. QueuedOnce'
      BY <1>a, <2>3 DEF QueuedOnce
    <2>5. ASSUME NEW r \in Reqs PROVE Queued(r)' => Queued(r)
      BY <2>3 DEF Queued, InQueue
    <2>6. ASSUME NEW r \in Reqs PROVE OnePlace(r)'
      BY <2>2, <2>5 DEF RequestInv, OnePlace
    <2> QED
      BY <2>4, <2>6 DEF RequestInv
  <1>4. CASE OnConnectionEstablished \/ OnConnectionError \/ OnPeerUp \/ OnEgress \/ OnWatchdog
    BY <1>4, <1>b DEF OnConnectionEstablished, OnConnectionError, OnPeerUp, OnEgress, OnWatchdog
  <1>5. ASSUME NEW type \in {"ReadEOF", "ReadError", "WriteError", "SetDown"}, OnDown(type)
        PROVE  RequestInv'
    <2>1. Receive(type) /\ Take(type) /\ UNCHANGED <<caller, failed>>
      BY <1>5 DEF OnDown, Receive
    <2>2. CASE TerminateActions
      <3>1. CancelAll
        BY <2>2 DEF TerminateActions
      <3> QED
        BY <1>a, <2>1, <3>1, ReceiveOther, CancelAllRequestInv
    <2>3. CASE UNCHANGED <<requestsMap, rchan>>
      BY <1>b, <2>1, <2>3
    <2> QED
      BY <1>5, <2>2, <2>3 DEF OnDown
  <1>6. CASE \/ OnCER \/ OnBadCER \/ OnDWR \/ OnDPR \/ OnCEA \/ OnDWA \/ OnUnknown \/ OnRequest
             \/ \E body \in {"CEAbad", "DWAbad"} : OnBadAnswer(body)
    <2>1. Receive("Ingress") /\ UNCHANGED <<requestsMap, rchan, caller>>
      BY <1>6 DEF OnCER, OnBadCER, OnDWR, OnDPR, OnCEA, OnDWA, OnUnknown, OnRequest, OnBadAnswer, Ingest
    <2> QED
      BY <1>b, <2>1
  <1>7. CASE OnAnswer
    <2>1. Receive("Answer") /\ Take("Answer") /\ UNCHANGED <<caller, failed>>
      BY <1>7 DEF OnAnswer, Receive
    <2>2. CASE UNCHANGED <<requestsMap, rchan>>
      BY <1>b, <2>1, <2>2
    <2>3. ASSUME NEW r \in Entry(Body), Reply(r, "answer"), requestsMap' = Forget(r)
          PROVE  RequestInv'
      <3>1. r \in requestsMap
        BY DEF Entry
      <3> QED
        BY <1>a, <2>1, <2>3, <3>1, ReceiveOther, ReplyAndForget
    <2> QED
      BY <1>7, <2>2, <2>3 DEF OnAnswer
  <1>8. CASE OnCancel
    <2>1. Receive("Cancel") /\ Take("Cancel") /\ UNCHANGED <<caller, failed>>
      BY <1>8 DEF OnCancel, Receive
    <2>2. CASE UNCHANGED <<requestsMap, rchan>>
      BY <1>b, <2>1, <2>2
    <2>3. ASSUME NEW r \in Entry(Body), Reply(r, "timeout"), requestsMap' = Forget(r)
          PROVE  RequestInv'
      <3>1. r \in requestsMap
        BY DEF Entry
      <3> QED
        BY <1>a, <2>1, <2>3, <3>1, ReceiveOther, ReplyAndForget
    <2> QED
      BY <1>8, <2>2, <2>3 DEF OnCancel
  <1> QED
    BY <1>1, <1>2, <1>3, <1>4, <1>5, <1>6, <1>7, <1>8, ExchangeRequestInv, ExchangeFailRequestInv
    DEF EventLoop

\* Every step keeps the requests in one place.
LEMMA NextRequestInv == TypeOK /\ RequestInv /\ [Next]_vars => RequestInv'
  <1>1. ASSUME TypeOK, RequestInv, Next
        PROVE  RequestInv'
    BY <1>1, GoroutinesRequestInv, CloserRequestInv, EventLoopRequestInv DEF Next
  <1>2. ASSUME RequestInv, UNCHANGED vars
        PROVE  RequestInv'
    BY <1>2 DEF vars, loopVars, chanVars, requestVars, RequestInv, QueuedOnce, OnePlace, Queued, InQueue
  <1> QED
    BY <1>1, <1>2

\* A response channel is never written twice, whatever the interleaving of answers, timeouts,
\* write errors, refusals and the cancellations of terminateActions, and whatever the
\* HopByHopIds of the requests: the send on a closed response channel cannot happen.
THEOREM ResponseChannelsSafe == Spec => []OneAnswerPerRequest
  <1>1. Init => RequestInv
    BY InitRequestInv
  <1>2. RequestInv => OneAnswerPerRequest
    BY DEF RequestInv, OnePlace, OneAnswerPerRequest
  <1> QED
    BY <1>1, <1>2, NextRequestInv, TypeCorrect, PTL DEF Spec

-----------------------------------------------------------------------------
(* SilentPeerGivenUp.  Only the handler of ConnectionEstablished brings the     *)
(* status of a terminated peer back, so the counter of watchdog requests has to *)
(* be still zero while that message is to come: the connection it announces is  *)
(* the only one of the peer, and nothing was read from it.                      *)

QueueTypes == {queue[i].type : i \in 1..Len(queue)}
OutTypes == {out[i].type : i \in 1..Len(out)}

\* The connect() goroutine, or what it has posted, may still start the peer
Pending == dialing \/ "ConnectionEstablished" \in QueueTypes

\* What only a connection brings: the messages read from it and what follows from them
Connected == {"Ingress", "PeerUp", "Watchdog"}

OneConnection ==
    \A i, j \in 1..Len(queue) :
        queue[i].type = "ConnectionEstablished" /\ queue[j].type = "ConnectionEstablished" => i = j

DialInv ==
    /\ OneConnection
    /\ dialing => "ConnectionEstablished" \notin QueueTypes
    /\ "ConnectionEstablished" \notin OutTypes
    /\ Pending => /\ readLoop = "none" /\ status # StatusEngaged /\ outstandingDWA = 0
                  /\ QueueTypes \cap Connected = {} /\ OutTypes \cap Connected = {}

WatchdogInv == status < StatusTerminating => outstandingDWA <= MaxUnanswered + 1

\* What a send adds to the channel.
LEMMA SendQueueTypes ==
    ASSUME TypeOK, NEW m \in Messages, Send(m)
    PROVE  /\ QueueTypes' \subseteq QueueTypes \cup {m.type}
           /\ OneConnection /\ (m.type # "ConnectionEstablished"
                                \/ "ConnectionEstablished" \notin QueueTypes) => OneConnection'
  <1>1. queue \in Seq(Messages)
    BY DEF TypeOK, LoopTypes
  <1>2. CASE queue' = queue
    BY <1>2 DEF QueueTypes, OneConnection
  <1>3. CASE queue' = Append(queue, m)
    <2>1. /\ Len(queue') = Len(queue) + 1 /\ Len(queue) \in Nat
          /\ queue'[Len(queue) + 1] = m
          /\ \A i \in 1..Len(queue) : queue'[i] = queue[i]
      BY <1>1, <1>3
    <2>2. QueueTypes' \subseteq QueueTypes \cup {m.type}
      BY <2>1 DEF QueueTypes
    <2>3. ASSUME OneConnection, m.type # "ConnectionEstablished"
                                \/ "ConnectionEstablished" \notin QueueTypes
          PROVE  OneConnection'
      BY <2>1, <2>3 DEF QueueTypes, OneConnection
    <2> QED
      BY <2>2, <2>3
  <1> QED
    BY <1>2, <1>3 DEF Send

\* What a receive takes from the channel.
LEMMA ReceiveQueueTypes ==
    ASSUME TypeOK, queue # <<>>, queue' = Tail(queue)
    PROVE  /\ QueueTypes' \subseteq QueueTypes /\ Head(queue).type \in QueueTypes
           /\ OneConnection => OneConnection'
           /\ OneConnection /\ Head(queue).type = "ConnectionEstablished"
                => "ConnectionEstablished" \notin QueueTypes'
  <1>1. /\ Len(queue) \in Nat \ {0} /\ Len(queue') = Len(queue) - 1
        /\ queue[1] = Head(queue)
        /\ \A i \in 1..Len(queue') : queue'[i] = queue[i + 1]
    BY DEF TypeOK, LoopTypes
  <1>2. QueueTypes' \subseteq QueueTypes
    BY <1>1 DEF QueueTypes
  <1>3. Head(queue).type \in QueueTypes
    BY <1>1 DEF QueueTypes
  <1>4. OneConnection => OneConnection'
    BY <1>1 DEF OneConnection
  <1>5. ASSUME OneConnection, Head(queue).type = "ConnectionEstablished"
        PROVE  "ConnectionEstablished" \notin QueueTypes'
    BY <1>1, <1>5 DEF OneConnection, QueueTypes
  <1> QED
    BY <1>2, <1>3, <1>4, <1>5

\* What a handler that posts nothing, one or two messages leaves to post.
LEMMA PostedTypes ==
    /\ out' = <<>> => OutTypes' = {}
    /\ \A m : out' = <<m>> => OutTypes' = {m.type}
    /\ \A m, n : out' = <<m, n>> => OutTypes' = {m.type, n.type}
  BY DEF OutTypes

\* Two lists of two messages are equal if their elements are.
LEMMA SeqEqual ==
    ASSUME NEW s \in Seq(Posts), NEW t \in Seq(Posts), Len(s) = 2, Len(t) = 2,
           s[1] = t[1], s[2] = t[2]
    PROVE  s = t
  <1>1. \A i \in 1..2 : s[i] = t[i]
    BY Z3
  <1>2. s = [i \in 1..2 |-> s[i]] /\ t = [i \in 1..2 |-> t[i]]
    OBVIOUS
  <1> QED
    BY <1>1, <1>2, Zenon

\* The lists of messages that handlers put together.
LEMMA PostLists ==
    ASSUME NEW m \in Posts, NEW n \in Posts
    PROVE  /\ <<>> \o <<m>> = <<m>> /\ <<m>> \o <<>> = <<m>> /\ <<m>> \o <<n>> = <<m, n>>
           /\ <<>> \o <<>> = <<>>
  <1>1. <<m>> \o <<n>> = <<m, n>>
    <2>1. <<m>> \in Seq(Posts) /\ <<n>> \in Seq(Posts) /\ <<m, n>> \in Seq(Posts)
      OBVIOUS
    <2>2. Len(<<m>> \o <<n>>) = 2 /\ (<<m>> \o <<n>>)[1] = m /\ (<<m>> \o <<n>>)[2] = n
      BY <2>1
    <2>3. Len(<<m, n>>) = 2 /\ <<m, n>>[1] = m /\ <<m, n>>[2] = n
      OBVIOUS
    <2>4. <<m>> \o <<n>> \in Seq(Posts)
      BY <2>1
    <2> QED
      BY <2>1, <2>2, <2>3, <2>4, SeqEqual
  <1>2. <<>> \o <<m>> = <<m>>
    OBVIOUS
  <1>3. <<m>> \o <<>> = <<m>>
    OBVIOUS
  <1>4. <<>> \o <<>> = <<>>
    OBVIOUS
  <1> QED
    BY <1>1, <1>2, <1>3, <1>4

\* A goroutine that posts a message keeps DialInv, unless it is the connect() goroutine; only
\* the read loop posts what comes from a connection.
LEMMA SendDialInv ==
    ASSUME TypeOK, DialInv, NEW m \in Messages, Send(m),
           m.type \notin {"ConnectionEstablished", "PeerUp", "Watchdog"},
           m.type = "Ingress" => readLoop = "reading",
           UNCHANGED <<out, status, outstandingDWA>>,
           dialing' => dialing, readLoop = "none" => readLoop' = "none"
    PROVE  DialInv' /\ (Pending' => Pending)
  <1>1. QueueTypes' \subseteq QueueTypes \cup {m.type} /\ OneConnection'
    BY SendQueueTypes DEF DialInv
  <1>2. OutTypes' = OutTypes
    BY DEF OutTypes
  <1>3. Pending' => Pending
    BY <1>1 DEF Pending
  <1>4. dialing' => "ConnectionEstablished" \notin QueueTypes'
    BY <1>1 DEF DialInv
  <1>5. ASSUME Pending'
        PROVE  /\ readLoop' = "none" /\ status' # StatusEngaged /\ outstandingDWA' = 0
               /\ QueueTypes' \cap Connected = {} /\ OutTypes' \cap Connected = {}
    BY <1>1, <1>2, <1>3, <1>5 DEF DialInv, Connected
  <1> QED
    BY <1>1, <1>2, <1>3, <1>4, <1>5 DEF DialInv

\* A handler keeps DialInv, unless it is the one of ConnectionEstablished: while that message is
\* to come there is no message of a connection to handle, and no other one reports PeerUp.
LEMMA ReceiveDialInv ==
    ASSUME TypeOK, DialInv, queue # <<>>, queue' = Tail(queue),
           Head(queue).type # "ConnectionEstablished", UNCHANGED <<dialing, readLoop>>,
           "ConnectionEstablished" \notin OutTypes',
           Head(queue).type \notin Connected =>
               /\ status' = StatusEngaged => status = StatusEngaged
               /\ outstandingDWA' = outstandingDWA
               /\ OutTypes' \cap Connected \subseteq OutTypes
    PROVE  DialInv' /\ (Pending' => Pending)
  <1>1. /\ QueueTypes' \subseteq QueueTypes /\ Head(queue).type \in QueueTypes
        /\ OneConnection'
    BY ReceiveQueueTypes DEF DialInv
  <1>2. Pending' => Pending
    BY <1>1 DEF Pending
  <1>3. Pending => Head(queue).type \notin Connected
    BY <1>1 DEF DialInv
  <1>4. ASSUME Pending'
        PROVE  /\ readLoop' = "none" /\ status' # StatusEngaged /\ outstandingDWA' = 0
               /\ QueueTypes' \cap Connected = {} /\ OutTypes' \cap Connected = {}
    BY <1>1, <1>2, <1>3, <1>4 DEF DialInv
  <1> QED
    BY <1>1, <1>2, <1>4 DEF DialInv

\* Initially an active peer is dialling, and a passive one has its connection.
LEMMA InitDialInv == Init => DialInv /\ WatchdogInv
  <1> SUFFICES ASSUME Init PROVE DialInv /\ WatchdogInv
    OBVIOUS
  <1>1. PICK role \in Roles :
           /\ status = IF role = "active" THEN StatusConnecting ELSE StatusConnected
           /\ dialing = (role = "active")
           /\ readLoop = IF role = "active" THEN "none" ELSE "reading"
    BY DEF Init
  <1>2. QueueTypes = {} /\ OutTypes = {} /\ OneConnection
    BY DEF Init, QueueTypes, OutTypes, OneConnection
  <1>3. outstandingDWA = 0 /\ status # StatusEngaged
    BY <1>1 DEF Init, StatusConnecting, StatusConnected, StatusEngaged
  <1>4. dialing => readLoop = "none"
    BY <1>1, Zenon
  <1>5. DialInv
    BY <1>2, <1>3, <1>4 DEF DialInv, Pending
  <1>6. WatchdogInv
    BY <1>3, BoundsAssumption DEF WatchdogInv
  <1> QED
    BY <1>5, <1>6

\* The goroutines around the event loop and Close() keep DialInv, and leave the watchdog alone.
LEMMA GoroutinesDialInv ==
    ASSUME TypeOK, DialInv,
           \/ \E result \in {"ConnectionEstablished", "ConnectionError"} : Connect(result)
           \/ \E b \in RemoteBodies : ReadBase(b)
           \/ \E h \in HopIds : ReadAnswer(h)
           \/ \E type \in {"ReadEOF", "ReadError"} : ReadStop(type)
           \/ LinkBreaks \/ SetDown \/ HandlerReturn \/ Closer
           \/ \E r \in Reqs : ExchangeBegin(r) \/ ExchangePost(r) \/ TimerFire(r) \/ TimerPost(r)
    PROVE  DialInv' /\ (Pending' => Pending) /\ UNCHANGED <<status, outstandingDWA>>
  <1> USE DEF loopVars, chanVars, requestVars, procVars, netVars, boundVars, CloseStep
  <1> DEFINE Posting(m) == /\ m \in Messages
                           /\ m.type \notin {"ConnectionEstablished", "PeerUp", "Watchdog"}
  <1>a. ASSUME NEW m, Posting(m), Send(m), m.type = "Ingress" => readLoop = "reading",
               UNCHANGED <<out, status, outstandingDWA>>,
               dialing' => dialing, readLoop = "none" => readLoop' = "none"
        PROVE  DialInv' /\ (Pending' => Pending)
    BY <1>a, SendDialInv
  <1>b. ASSUME NEW type \in Signals \ {"ConnectionEstablished", "PeerUp", "Watchdog"}
        PROVE  Posting(Signal(type)) /\ Signal(type).type # "Ingress"
    BY MessageTypes DEF Signals, Signal, M
  <1>c. ASSUME UNCHANGED <<queue, out, status, outstandingDWA, dialing, readLoop>>
        PROVE  DialInv' /\ (Pending' => Pending)
    BY <1>c DEF DialInv, OneConnection, Pending, QueueTypes, OutTypes
  <1>d. ASSUME NEW r \in Reqs
        PROVE  /\ Posting(M("Exchange", r)) /\ M("Exchange", r).type # "Ingress"
               /\ Posting(M("Cancel", Hop[r])) /\ M("Cancel", Hop[r]).type # "Ingress"
    BY MessageTypes, HopAssumption DEF M
  <1>e. Posting(M("Egress", "ANS")) /\ M("Egress", "ANS").type # "Ingress"
    BY MessageTypes DEF EgressBodies, M
  <1>f. /\ \A b \in RemoteBodies : Posting(M("Ingress", b))
        /\ \A h \in HopIds : Posting(M("Answer", h))
    BY MessageTypes, InputAssumption DEF M
  <1> HIDE DEF Posting
  <1>1. ASSUME Connect("ConnectionEstablished")
        PROVE  DialInv' /\ (Pending' => Pending)
    <2> DEFINE m == Signal("ConnectionEstablished")
    <2>1. m \in Messages /\ m.type = "ConnectionEstablished"
      BY MessageTypes DEF Signals, Signal, M
    <2>2. /\ dialing /\ Send(m) /\ dialing' = FALSE
          /\ UNCHANGED <<out, status, outstandingDWA, readLoop>>
      BY <1>1 DEF Connect
    <2>3. Pending /\ "ConnectionEstablished" \notin QueueTypes
      BY <2>2 DEF DialInv, Pending
    <2>4. QueueTypes' \subseteq QueueTypes \cup {"ConnectionEstablished"} /\ OneConnection'
      BY <2>1, <2>2, <2>3, SendQueueTypes DEF DialInv
    <2>5. OutTypes' = OutTypes
      BY <2>2 DEF OutTypes
    <2>6. /\ readLoop' = "none" /\ status' # StatusEngaged /\ outstandingDWA' = 0
          /\ QueueTypes' \cap Connected = {} /\ OutTypes' \cap Connected = {}
      BY <2>2, <2>3, <2>4, <2>5 DEF DialInv, Connected
    <2> QED
      BY <2>2, <2>3, <2>4, <2>5, <2>6 DEF DialInv
  <1>2. ASSUME Connect("ConnectionError")
        PROVE  DialInv' /\ (Pending' => Pending)
    <2>1. /\ Send(Signal("ConnectionError")) /\ dialing' = FALSE
          /\ UNCHANGED <<out, status, outstandingDWA, readLoop>>
      BY <1>2 DEF Connect
    <2> QED
      BY <2>1, <1>a, <1>b DEF Signals
  <1>3. ASSUME NEW b \in RemoteBodies, ReadBase(b)
        PROVE  DialInv' /\ (Pending' => Pending)
    BY <1>3, <1>a, <1>f DEF ReadBase, ReadMessage
  <1>4. ASSUME NEW h \in HopIds, ReadAnswer(h)
        PROVE  DialInv' /\ (Pending' => Pending)
    BY <1>4, <1>a, <1>f DEF ReadAnswer, ReadMessage
  <1>5. ASSUME NEW type \in {"ReadEOF", "ReadError"}, ReadStop(type)
        PROVE  DialInv' /\ (Pending' => Pending)
    BY <1>5, <1>a, <1>b DEF ReadStop, Signals
  <1>6. CASE LinkBreaks
    BY <1>6, <1>c DEF LinkBreaks
  <1>7. CASE SetDown
    BY <1>7, <1>a, <1>b DEF SetDown, SetDownCommand, Signals
  <1>8. CASE HandlerReturn
    BY <1>8, <1>a, <1>e DEF HandlerReturn
  <1>9. ASSUME NEW r \in Reqs, ExchangeBegin(r) \/ TimerFire(r)
        PROVE  DialInv' /\ (Pending' => Pending)
    BY <1>9, <1>c DEF ExchangeBegin, TimerFire
  <1>10. ASSUME NEW r \in Reqs, ExchangePost(r)
         PROVE  DialInv' /\ (Pending' => Pending)
    BY <1>10, <1>a, <1>d DEF ExchangePost
  <1>11. ASSUME NEW r \in Reqs, TimerPost(r)
         PROVE  DialInv' /\ (Pending' => Pending)
    BY <1>11, <1>a, <1>d DEF TimerPost
  <1>12. CASE CloseBegin \/ CloseReadLoopDone \/ CloseGroupDone \/ CloseChannel
    BY <1>12, <1>c DEF CloseBegin, CloseReadLoopDone, CloseGroupDone, CloseChannel
  <1>13. CASE ClosePost
    BY <1>13, <1>a, <1>b DEF ClosePost, Signals
  <1>14. UNCHANGED <<status, outstandingDWA>>
    BY DEF Connect, ReadBase, ReadAnswer, ReadMessage, ReadStop, LinkBreaks, SetDown, HandlerReturn,
           ExchangeBegin, ExchangePost, TimerFire, TimerPost, Closer, CloseBegin, CloseReadLoopDone,
           CloseGroupDone, ClosePost, CloseChannel
  <1> QED
    BY <1>1, <1>2, <1>3, <1>4, <1>5, <1>6, <1>7, <1>8, <1>9, <1>10, <1>11, <1>12, <1>13, <1>14
    DEF Closer

\* A request that cannot be written terminates the peer; it does nothing else to the status.
LEMMA ExchangeStatus ==
    ASSUME NEW r \in Reqs, OnExchange(r)
    PROVE  status' = status \/ status' = StatusTerminating
  <1>1. CASE ExchangeRefused(r)
    BY <1>1 DEF ExchangeRefused
  <1>2. CASE ExchangeDuplicated(r)
    BY <1>2 DEF ExchangeDuplicated
  <1>3. CASE ExchangeWriteError(r)
    BY <1>3 DEF ExchangeWriteError
  <1>4. CASE ExchangeSent(r)
    BY <1>4 DEF ExchangeSent
  <1> QED
    BY <1>1, <1>2, <1>3, <1>4 DEF OnExchange

\* The handlers of the event loop keep DialInv.
LEMMA EventLoopDialInv ==
    ASSUME TypeOK, DialInv, EventLoop \/ WatchdogTick
    PROVE  DialInv' /\ (Pending' => Pending)
  <1> USE DEF loopVars, chanVars, requestVars, procVars, netVars, boundVars
  <1>t. out \in Seq(Posts) /\ queue \in Seq(Messages)
    BY DEF TypeOK, LoopTypes
  <1>p. /\ SetDownCommand \in Posts /\ SetDownCommand.type = "SetDown"
        /\ Signal("WriteError") \in Posts /\ Signal("WriteError").type = "WriteError"
        /\ Signal("PeerUp") \in Posts /\ Signal("PeerUp").type = "PeerUp"
        /\ Signal("Watchdog") \in Posts /\ Signal("Watchdog").type = "Watchdog"
        /\ \A b \in EgressBodies : M("Egress", b) \in Posts
        /\ \A b : M("Egress", b).type = "Egress"
    BY MessageTypes DEF Signals, SetDownCommand, Signal, M
  <1>a. ASSUME NEW type, type # "ConnectionEstablished", Take(type), UNCHANGED <<dialing, readLoop>>,
               "ConnectionEstablished" \notin OutTypes', type \in Connected
        PROVE  DialInv' /\ (Pending' => Pending)
    <2>1. queue # <<>> /\ queue' = Tail(queue) /\ Head(queue).type = type
      BY <1>a DEF Take
    <2> QED
      BY <1>a, <2>1, ReceiveDialInv
  <1>b. ASSUME NEW type, type # "ConnectionEstablished", Take(type),
               UNCHANGED <<dialing, readLoop, outstandingDWA>>,
               OutTypes' \subseteq {"Egress", "SetDown", "WriteError"},
               status' = StatusEngaged => status = StatusEngaged
        PROVE  DialInv' /\ (Pending' => Pending)
    <2>1. queue # <<>> /\ queue' = Tail(queue) /\ Head(queue).type = type
      BY <1>b DEF Take
    <2>2. "ConnectionEstablished" \notin OutTypes' /\ OutTypes' \cap Connected \subseteq OutTypes
      BY <1>b DEF Connected
    <2> QED
      BY <1>b, <2>1, <2>2, ReceiveDialInv
  <1>c. ASSUME NEW type, Take(type), UNCHANGED out
        PROVE  OutTypes' = {}
    BY <1>c, PostedTypes DEF Take, Idle
  <1>1. CASE LoopSend
    <2>1. /\ Head(out) \in Posts /\ Head(out) \in Messages
          /\ Head(out).type \in OutTypes /\ OutTypes' \subseteq OutTypes
      <3>1. /\ out # <<>> /\ out' = Tail(out)
        BY <1>1 DEF LoopSend
      <3>2. /\ Len(out) \in Nat \ {0} /\ Len(out') = Len(out) - 1 /\ out[1] = Head(out)
            /\ Head(out) \in Posts /\ \A i \in 1..Len(out') : out'[i] = out[i + 1]
        BY <1>t, <3>1
      <3> QED
        BY <3>2, MessageTypes DEF OutTypes
    <2>2. Send(Head(out)) /\ UNCHANGED <<status, outstandingDWA, dialing, readLoop>>
      BY <1>1 DEF LoopSend
    <2>3. Head(out).type # "ConnectionEstablished"
      BY <2>1 DEF DialInv
    <2>4. /\ QueueTypes' \subseteq QueueTypes \cup {Head(out).type} /\ OneConnection'
      BY <2>1, <2>2, <2>3, SendQueueTypes DEF DialInv
    <2>5. Pending' => Pending
      BY <2>2, <2>3, <2>4 DEF Pending
    <2>6. dialing' => "ConnectionEstablished" \notin QueueTypes'
      BY <2>2, <2>3, <2>4 DEF DialInv
    <2>7. ASSUME Pending'
          PROVE  /\ readLoop' = "none" /\ status' # StatusEngaged /\ outstandingDWA' = 0
                 /\ QueueTypes' \cap Connected = {} /\ OutTypes' \cap Connected = {}
      BY <2>1, <2>2, <2>4, <2>5, <2>7 DEF DialInv
    <2> QED
      BY <2>1, <2>4, <2>5, <2>6, <2>7 DEF DialInv
  <1>2. CASE WatchdogTick
    <2>1. UNCHANGED <<queue, status, outstandingDWA, dialing, readLoop>>
      BY <1>2 DEF WatchdogTick
    <2>2. /\ OutTypes' \subseteq {"Watchdog", "SetDown"}
          /\ status # StatusEngaged => OutTypes' \subseteq {"SetDown"}
      <3>1. CASE out' = <<Signal("Watchdog")>> /\ status = StatusEngaged
        BY <1>p, <3>1, PostedTypes
      <3>2. CASE out' = <<>> \/ out' = <<SetDownCommand>>
        BY <1>p, <3>2, PostedTypes
      <3> QED
        BY <1>2, <3>1, <3>2 DEF WatchdogTick
    <2>3. QueueTypes' = QueueTypes /\ OneConnection' /\ (Pending' <=> Pending)
      BY <2>1 DEF QueueTypes, OneConnection, Pending, DialInv
    <2>4. ASSUME Pending'
          PROVE  /\ readLoop' = "none" /\ status' # StatusEngaged /\ outstandingDWA' = 0
                 /\ QueueTypes' \cap Connected = {} /\ OutTypes' \cap Connected = {}
      BY <2>1, <2>2, <2>3, <2>4 DEF DialInv, Connected
    <2> QED
      BY <2>1, <2>2, <2>3, <2>4 DEF DialInv
  <1>3. CASE OnClose
    <2>1. /\ queue # <<>> /\ queue' = Tail(queue) /\ Head(queue).type = "Close"
          /\ UNCHANGED <<status, outstandingDWA, dialing, readLoop, out>>
      BY <1>3 DEF OnClose
    <2>2. OutTypes' = OutTypes
      BY <2>1 DEF OutTypes
    <2> QED
      BY <2>1, <2>2, ReceiveDialInv DEF DialInv
  <1>4. CASE OnConnectionEstablished
    <2>1. /\ queue # <<>> /\ queue' = Tail(queue) /\ Head(queue).type = "ConnectionEstablished"
          /\ UNCHANGED dialing /\ out' = <<M("Egress", "CER")>>
      BY <1>4 DEF OnConnectionEstablished, Receive, Take
    <2>2. OneConnection' /\ "ConnectionEstablished" \notin QueueTypes'
      BY <2>1, ReceiveQueueTypes DEF DialInv
    <2>3. dialing' = FALSE \/ ~dialing'
      BY <2>1, ReceiveQueueTypes DEF DialInv
    <2>4. OutTypes' = {"Egress"}
      BY <1>p, <2>1, PostedTypes
    <2> QED
      BY <2>2, <2>3, <2>4 DEF DialInv, Pending
  <1>5. CASE OnConnectionError
    <2>1. /\ Take("ConnectionError") /\ UNCHANGED <<dialing, readLoop, outstandingDWA, out>>
          /\ status' = StatusEngaged => status = StatusEngaged
      BY <1>5 DEF OnConnectionError, Receive, StatusTerminated, StatusEngaged
    <2> QED
      BY <1>b, <1>c, <2>1
  <1>6. ASSUME NEW type \in {"ReadEOF", "ReadError", "WriteError", "SetDown"}, OnDown(type)
        PROVE  DialInv' /\ (Pending' => Pending)
    <2>1. /\ Take(type) /\ UNCHANGED <<dialing, readLoop, outstandingDWA, out>>
          /\ status' = StatusEngaged => status = StatusEngaged
      BY <1>6 DEF OnDown, TerminateActions, Receive, StatusTerminated, StatusEngaged
    <2> QED
      BY <1>6, <1>b, <1>c, <2>1
  <1>7. CASE OnPeerUp
    <2>1. Take("PeerUp") /\ UNCHANGED <<dialing, readLoop, out>>
      BY <1>7 DEF OnPeerUp, Receive
    <2> QED
      BY <1>a, <1>c, <2>1 DEF Connected
  <1>8. CASE OnEgress
    <2>1. /\ Take("Egress") /\ UNCHANGED <<dialing, readLoop, outstandingDWA>>
          /\ status' = StatusEngaged => status = StatusEngaged
      BY <1>8 DEF OnEgress, Receive, StatusTerminating, StatusEngaged
    <2>2. ASSUME NEW outcome,
                 out' = (IF Body = "DPA" THEN <<SetDownCommand>> ELSE <<>>) \o WriteErrorPosts(outcome)
          PROVE  OutTypes' \subseteq {"SetDown", "WriteError"}
      <3>1. \/ out' = <<>> \/ out' = <<SetDownCommand>> \/ out' = <<Signal("WriteError")>>
            \/ out' = <<SetDownCommand, Signal("WriteError")>>
        BY <1>p, <2>2, PostLists DEF WriteErrorPosts
      <3> QED
        BY <1>p, <3>1, PostedTypes
    <2>3. OutTypes' \subseteq {"SetDown", "WriteError"}
      BY <1>8, <1>c, <2>1, <2>2 DEF OnEgress
    <2> QED
      BY <1>b, <2>1, <2>3
  <1>9. ASSUME NEW r \in Reqs, OnExchange(r)
        PROVE  DialInv' /\ (Pending' => Pending)
    <2>1. Take("Exchange") /\ UNCHANGED <<dialing, readLoop, outstandingDWA>>
      BY <1>9 DEF OnExchange
    <2>2. status' = StatusEngaged => status = StatusEngaged
      BY <1>9, ExchangeStatus DEF StatusTerminating, StatusEngaged
    <2>3. OutTypes' \subseteq {"WriteError"}
      <3>1. CASE UNCHANGED out
        BY <1>c, <2>1, <3>1
      <3>2. CASE out' = <<Signal("WriteError")>>
        BY <1>p, <3>2, PostedTypes
      <3> QED
        BY <1>9, <3>1, <3>2 DEF OnExchange, ExchangeRefused, ExchangeDuplicated, ExchangeWriteError,
                                ExchangeSent, WriteErrorPosts
    <2> QED
      BY <1>b, <2>1, <2>2, <2>3
  <1>10. ASSUME NEW r \in Reqs, ExchangeFail(r)
         PROVE  DialInv' /\ (Pending' => Pending)
    BY <1>10 DEF ExchangeFail, DialInv, OneConnection, Pending, QueueTypes, OutTypes
  <1>11. CASE \/ OnCER \/ OnBadCER \/ OnDWR \/ OnDPR \/ OnCEA \/ OnDWA \/ OnUnknown \/ OnRequest
              \/ \E body \in {"CEAbad", "DWAbad"} : OnBadAnswer(body)
    <2>1. Take("Ingress") /\ UNCHANGED <<dialing, readLoop>>
      BY <1>11 DEF OnCER, OnBadCER, OnDWR, OnDPR, OnCEA, OnDWA, OnUnknown, OnRequest, OnBadAnswer,
                   Ingest, Receive
    <2>2. /\ M("Egress", "CEA") \in Posts /\ M("Egress", "CEAerror") \in Posts
          /\ M("Egress", "DWA") \in Posts /\ M("Egress", "DPA") \in Posts
      BY <1>p DEF EgressBodies
    <2>3. \/ out' = <<>> \/ out' = <<M("Egress", "CEA"), Signal("PeerUp")>>
          \/ out' = <<SetDownCommand>> \/ out' = <<M("Egress", "CEAerror"), SetDownCommand>>
          \/ out' = <<M("Egress", "DWA")>> \/ out' = <<M("Egress", "DPA")>>
          \/ out' = <<Signal("PeerUp")>>
      BY <1>11, <1>p, <2>2, PostLists
      DEF OnCER, OnBadCER, OnDWR, OnDPR, OnCEA, OnDWA, OnUnknown, OnRequest, OnBadAnswer, Ingest
    <2>4. "ConnectionEstablished" \notin OutTypes'
      BY <1>p, <2>3, PostedTypes
    <2> QED
      BY <1>a, <2>1, <2>4 DEF Connected
  <1>12. CASE OnAnswer \/ OnCancel
    <2>1. /\ Take("Answer") \/ Take("Cancel")
          /\ UNCHANGED <<dialing, readLoop, outstandingDWA, out, status>>
      BY <1>12 DEF OnAnswer, OnCancel, Receive
    <2> QED
      BY <1>b, <1>c, <2>1
  <1>13. CASE OnWatchdog
    <2>1. Take("Watchdog") /\ UNCHANGED <<dialing, readLoop>>
      BY <1>13 DEF OnWatchdog, Receive
    <2>2. M("Egress", "DWR") \in Posts
      BY <1>p DEF EgressBodies
    <2>3. out' = <<M("Egress", "DWR")>> \/ out' = <<SetDownCommand, M("Egress", "DWR")>>
      BY <1>13, <1>p, <2>2, PostLists DEF OnWatchdog
    <2>4. "ConnectionEstablished" \notin OutTypes'
      BY <1>p, <2>3, PostedTypes
    <2> QED
      BY <1>a, <2>1, <2>4 DEF Connected
  <1> QED
    BY <1>1, <1>2, <1>3, <1>4, <1>5, <1>6, <1>7, <1>8, <1>9, <1>10, <1>11, <1>12, <1>13
    DEF EventLoop

\* The handlers keep the limit: the watchdog gives up before it exceeds it, and the counter of a
\* peer that connects is zero.
LEMMA EventLoopWatchdogInv ==
    ASSUME TypeOK, DialInv, WatchdogInv, EventLoop \/ WatchdogTick
    PROVE  WatchdogInv'
  <1> USE DEF loopVars, chanVars, requestVars, procVars, netVars, boundVars,
              StatusConnected, StatusEngaged, StatusTerminating, StatusTerminated
  <1>t. status \in 1..5 /\ outstandingDWA \in Nat /\ MaxUnanswered \in Nat
    BY BoundsAssumption DEF TypeOK, LoopTypes, StatusConnecting
  <1>a. ASSUME outstandingDWA' = outstandingDWA, status' < StatusTerminating => status < StatusTerminating
        PROVE  WatchdogInv'
    BY <1>a DEF WatchdogInv
  <1>1. CASE LoopSend \/ WatchdogTick \/ OnClose \/ OnAnswer \/ OnCancel
    BY <1>1, <1>a DEF LoopSend, WatchdogTick, OnClose, OnAnswer, OnCancel
  <1>2. CASE OnConnectionEstablished
    <2>1. queue # <<>> /\ queue' = Tail(queue) /\ Head(queue).type = "ConnectionEstablished"
      BY <1>2 DEF OnConnectionEstablished, Receive, Take
    <2>2. Pending
      BY <2>1, ReceiveQueueTypes DEF Pending
    <2>3. outstandingDWA' = 0
      BY <1>2, <2>2 DEF OnConnectionEstablished, DialInv
    <2> QED
      BY <1>t, <2>3 DEF WatchdogInv
  <1>3. CASE OnConnectionError
    BY <1>3, <1>t, <1>a DEF OnConnectionError
  <1>4. ASSUME NEW type, OnDown(type)
        PROVE  WatchdogInv'
    BY <1>4, <1>t, <1>a DEF OnDown, TerminateActions
  <1>5. CASE OnPeerUp
    BY <1>5, <1>t, <1>a DEF OnPeerUp
  <1>6. CASE OnEgress
    BY <1>6, <1>t, <1>a DEF OnEgress
  <1>7. ASSUME NEW r \in Reqs, OnExchange(r)
        PROVE  WatchdogInv'
    <2>1. outstandingDWA' = outstandingDWA
      BY <1>7 DEF OnExchange
    <2> QED
      BY <1>7, <1>t, <1>a, <2>1, ExchangeStatus
  <1>8. ASSUME NEW r \in Reqs, ExchangeFail(r)
        PROVE  WatchdogInv'
    BY <1>8, <1>a DEF ExchangeFail
  <1>9. CASE \/ OnCER \/ OnBadCER \/ OnDWR \/ OnDPR \/ OnCEA \/ OnUnknown \/ OnRequest
             \/ \E body \in {"CEAbad", "DWAbad"} : OnBadAnswer(body)
    <2>1. outstandingDWA' = outstandingDWA /\ status' \in {status, StatusTerminating}
      BY <1>9 DEF OnCER, OnBadCER, OnDWR, OnDPR, OnCEA, OnUnknown, OnRequest, OnBadAnswer, Ingest
    <2> QED
      BY <1>t, <1>a, <2>1
  <1>10. CASE OnDWA
    <2>1. status' = status /\ outstandingDWA' <= outstandingDWA /\ outstandingDWA' \in Nat
      BY <1>10, <1>t DEF OnDWA, Ingest
    <2> QED
      BY <1>t, <2>1 DEF WatchdogInv
  <1>11. CASE OnWatchdog
    <2>1. /\ outstandingDWA' = outstandingDWA + 1
          /\ outstandingDWA > MaxUnanswered => status' = StatusTerminating
      BY <1>11 DEF OnWatchdog
    <2> QED
      BY <1>t, <2>1 DEF WatchdogInv
  <1> QED
    BY <1>1, <1>2, <1>3, <1>4, <1>5, <1>6, <1>7, <1>8, <1>9, <1>10, <1>11 DEF EventLoop

\* Every step keeps DialInv and WatchdogInv, and none makes a connection pending.
LEMMA NextDialInv ==
    TypeOK /\ DialInv /\ WatchdogInv /\ [Next]_vars => DialInv' /\ (Pending' => Pending) /\ WatchdogInv'
  <1>1. ASSUME TypeOK, DialInv, WatchdogInv, Next
        PROVE  DialInv' /\ (Pending' => Pending) /\ WatchdogInv'
    <2>1. CASE EventLoop \/ WatchdogTick
      BY <1>1, <2>1, EventLoopDialInv, EventLoopWatchdogInv
    <2>2. CASE ~(EventLoop \/ WatchdogTick)
      <3>1. DialInv' /\ (Pending' => Pending) /\ UNCHANGED <<status, outstandingDWA>>
        BY <1>1, <2>2, GoroutinesDialInv DEF Next
      <3> QED
        BY <1>1, <3>1 DEF WatchdogInv
    <2> QED
      BY <2>1, <2>2
  <1>2. ASSUME DialInv, WatchdogInv, UNCHANGED vars
        PROVE  DialInv' /\ (Pending' => Pending) /\ WatchdogInv'
    BY <1>2 DEF vars, loopVars, chanVars, procVars, DialInv, WatchdogInv, OneConnection, Pending,
                QueueTypes, OutTypes
  <1> QED
    BY <1>1, <1>2

\* A remote peer that does not answer the watchdog requests is given up, for any limit, any
\* number of ticks that wait in the channel and whatever else is queued; a peer that was
\* terminated while it dialled, and connects after all, starts with no request unanswered.
THEOREM SilentPeersGivenUp == Spec => []SilentPeerGivenUp
  <1>1. Init => DialInv /\ WatchdogInv
    BY InitDialInv
  <1>2. TypeOK /\ WatchdogInv => SilentPeerGivenUp
    BY DEF WatchdogInv, SilentPeerGivenUp, StatusEngaged, StatusTerminating
  <1> QED
    BY <1>1, <1>2, NextDialInv, TypeCorrect, PTL DEF Spec

-----------------------------------------------------------------------------
(* QuietAfterDown.  A peer that reported PeerDown is at least terminating, as    *)
(* long as no connection is still to come, and then nothing may be sent.         *)

\* No peer is set down while its connect() goroutine may still start it
DialledBeforeDown == Down => ~Pending

DownInv == Down => status >= StatusTerminating

\* What is reported to the router.
LEMMA Reported ==
    ASSUME TypeOK
    PROVE  /\ events' = Append(events, "up") => (Down' <=> Down)
           /\ events' = Append(events, "down") =>
                  \A i \in 1..Len(events') : i > Len(events) => events'[i] # "up"
           /\ events' = events =>
                  /\ Down' <=> Down
                  /\ \A i \in 1..Len(events') : i > Len(events) => events'[i] # "up"
  <1>1. events \in Seq({"up", "down"})
    BY DEF TypeOK, LoopTypes
  <1>2. ASSUME events' = Append(events, "up") PROVE Down' <=> Down
    BY <1>1, <1>2 DEF Down
  <1>3. ASSUME events' = Append(events, "down"), NEW i \in 1..Len(events'), i > Len(events)
        PROVE  events'[i] # "up"
    BY <1>1, <1>3
  <1>4. ASSUME events' = events
        PROVE  /\ Down' <=> Down
               /\ \A i \in 1..Len(events') : i > Len(events) => events'[i] # "up"
    BY <1>1, <1>4 DEF Down
  <1> QED
    BY <1>2, <1>3, <1>4

\* A step keeps DownInv, and is quiet after PeerDown.
LEMMA QuietStep ==
    ASSUME TypeOK, DownInv, DialledBeforeDown, Next
    PROVE  DownInv' /\ (Down => Quiet)
  <1> USE DEF loopVars, chanVars, requestVars, procVars, netVars, boundVars, CloseStep
  <1>t. status \in 1..5 /\ timer \in [Reqs -> {"none", "armed", "fired", "done", "stopped"}]
    BY DEF TypeOK, LoopTypes, RequestTypes, StatusConnecting, StatusTerminated
  <1>d. Down => ~Sendable(TRUE) /\ ~Sendable(FALSE)
    BY <1>t DEF DownInv, Sendable, StatusConnected, StatusEngaged, StatusTerminating
  <1>a. ASSUME UNCHANGED events, status' = status \/ status' = StatusTerminating
        PROVE  DownInv'
    <2>1. Down' <=> Down
      BY <1>a, Reported
    <2> QED
      BY <1>a, <1>t, <2>1 DEF DownInv, StatusTerminating
  <1>b. ASSUME UNCHANGED <<wire, requestsMap, timer, events>>
        PROVE  Quiet
    BY <1>b, Reported DEF Quiet
  <1>1. CASE \/ \E result \in {"ConnectionEstablished", "ConnectionError"} : Connect(result)
             \/ \E b \in RemoteBodies : ReadBase(b)
             \/ \E h \in HopIds : ReadAnswer(h)
             \/ \E type \in {"ReadEOF", "ReadError"} : ReadStop(type)
             \/ LinkBreaks \/ SetDown \/ HandlerReturn \/ Closer
             \/ \E r \in Reqs : ExchangeBegin(r) \/ ExchangePost(r)
             \/ LoopSend \/ WatchdogTick \/ OnClose
    <2>1. UNCHANGED <<wire, requestsMap, timer, events, status>>
      BY <1>1 DEF Connect, ReadBase, ReadAnswer, ReadMessage, ReadStop, LinkBreaks, SetDown,
                  HandlerReturn, ExchangeBegin, ExchangePost, Closer, CloseBegin, CloseReadLoopDone,
                  CloseGroupDone, ClosePost, CloseChannel, LoopSend, WatchdogTick, OnClose
    <2> QED
      BY <1>a, <1>b, <2>1
  <1>2. ASSUME NEW r \in Reqs, TimerFire(r) \/ TimerPost(r)
        PROVE  DownInv' /\ Quiet
    <2>1. UNCHANGED <<wire, requestsMap, events, status>>
      BY <1>2 DEF TimerFire, TimerPost
    <2>2. \A q \in Reqs : timer'[q] = "armed" => timer[q] = "armed"
      BY <1>2, <1>t DEF TimerFire, TimerPost
    <2> QED
      BY <1>a, <2>1, <2>2, Reported DEF Quiet
  <1>3. CASE OnConnectionEstablished
    <2>1. queue # <<>> /\ queue' = Tail(queue) /\ Head(queue).type = "ConnectionEstablished"
      BY <1>3 DEF OnConnectionEstablished, Receive, Take
    <2>2. ~Down
      BY <2>1, ReceiveQueueTypes DEF DialledBeforeDown, Pending
    <2>3. Down' <=> Down
      BY <1>3, Reported DEF OnConnectionEstablished
    <2> QED
      BY <2>2, <2>3 DEF DownInv
  <1>c. ASSUME status' = StatusTerminated, events' = Append(events, "down"),
               UNCHANGED wire, requestsMap' \subseteq requestsMap,
               \A r \in Reqs : timer'[r] = "armed" => timer[r] = "armed"
        PROVE  DownInv' /\ Quiet
    BY <1>c, Reported DEF DownInv, Quiet, StatusTerminated, StatusTerminating
  <1>4. CASE OnConnectionError
    BY <1>4, <1>a, <1>b, <1>c DEF OnConnectionError
  <1>5. ASSUME NEW type \in {"ReadEOF", "ReadError", "WriteError", "SetDown"}, OnDown(type)
        PROVE  DownInv' /\ Quiet
    <2>1. UNCHANGED wire
      BY <1>5 DEF OnDown
    <2>2. CASE TerminateActions
      <3>1. requestsMap' \subseteq requestsMap
        BY <2>2 DEF TerminateActions, CancelAll
      <3>2. \A r \in Reqs : timer'[r] = "armed" => timer[r] = "armed"
        BY <2>2 DEF TerminateActions, CancelAll
      <3> QED
        BY <1>c, <2>1, <2>2, <3>1, <3>2 DEF TerminateActions
    <2>3. CASE UNCHANGED <<status, events, requestsMap, timer>>
      BY <1>a, <1>b, <2>1, <2>3
    <2> QED
      BY <1>5, <2>2, <2>3 DEF OnDown
  <1>6. CASE OnPeerUp
    <2>1. UNCHANGED <<wire, requestsMap, timer>>
      BY <1>6 DEF OnPeerUp
    <2>2. CASE status < StatusEngaged
      <3>1. ~Down
        BY <1>t, <2>2 DEF DownInv, StatusEngaged, StatusTerminating
      <3>2. Down' <=> Down
        BY <1>6, <2>2, Reported DEF OnPeerUp
      <3> QED
        BY <3>1, <3>2 DEF DownInv
    <2>3. CASE ~(status < StatusEngaged)
      BY <1>6, <1>a, <1>b, <2>1, <2>3 DEF OnPeerUp
    <2> QED
      BY <2>2, <2>3
  <1>7. CASE OnEgress
    <2>1. UNCHANGED <<events, requestsMap, timer>> /\ (status' = status \/ status' = StatusTerminating)
      BY <1>7 DEF OnEgress
    <2>2. Down => UNCHANGED wire
      BY <1>7, <1>d DEF OnEgress, Sendable
    <2> QED
      BY <1>a, <1>b, <2>1, <2>2
  <1>8. ASSUME NEW r \in Reqs, OnExchange(r)
        PROVE  DownInv' /\ (Down => Quiet)
    <2>1. UNCHANGED events
      BY <1>8 DEF OnExchange
    <2>2. Down => ExchangeRefused(r)
      BY <1>8, <1>d DEF OnExchange, ExchangeDuplicated, ExchangeWriteError, ExchangeSent
    <2>3. Down => UNCHANGED <<wire, requestsMap, timer>>
      BY <2>2 DEF ExchangeRefused
    <2> QED
      BY <1>8, <1>a, <1>b, <2>1, <2>3, ExchangeStatus
  <1>9. ASSUME NEW r \in Reqs, ExchangeFail(r)
        PROVE  DownInv' /\ Quiet
    BY <1>9, <1>a, <1>b DEF ExchangeFail
  <1>10. CASE \/ OnCER \/ OnBadCER \/ OnDWR \/ OnDPR \/ OnCEA \/ OnDWA \/ OnUnknown \/ OnRequest
              \/ \E body \in {"CEAbad", "DWAbad"} : OnBadAnswer(body)
    <2>1. UNCHANGED <<wire, requestsMap, timer, events>>
      BY <1>10 DEF OnCER, OnBadCER, OnDWR, OnDPR, OnCEA, OnDWA, OnUnknown, OnRequest, OnBadAnswer,
                   Ingest
    <2>2. status' = status \/ status' = StatusTerminating
      BY <1>10 DEF OnCER, OnBadCER, OnDWR, OnDPR, OnCEA, OnDWA, OnUnknown, OnRequest, OnBadAnswer,
                   Ingest
    <2> QED
      BY <1>a, <1>b, <2>1, <2>2
  <1>11. CASE OnAnswer \/ OnCancel
    <2>1. UNCHANGED <<wire, events, status>>
      BY <1>11 DEF OnAnswer, OnCancel
    <2>2. requestsMap' \subseteq requestsMap
      BY <1>11 DEF OnAnswer, OnCancel, Forget
    <2>3. \A q \in Reqs : timer'[q] = "armed" => timer[q] = "armed"
      BY <1>11, <1>t DEF OnAnswer, OnCancel
    <2> QED
      BY <1>a, <2>1, <2>2, <2>3, Reported DEF Quiet
  <1>12. CASE OnWatchdog
    BY <1>12, <1>a, <1>b DEF OnWatchdog
  <1> QED
    BY <1>1, <1>2, <1>3, <1>4, <1>5, <1>6, <1>7, <1>8, <1>9, <1>10, <1>11, <1>12 DEF Next, EventLoop

\* Every step of the specification, a stuttering one included.
LEMMA QuietSteps ==
    TypeOK /\ DownInv /\ DialledBeforeDown /\ [Next]_vars => DownInv' /\ [Down => Quiet]_vars
  <1>1. ASSUME TypeOK, DownInv, UNCHANGED vars
        PROVE  DownInv'
    BY <1>1, Reported DEF vars, loopVars, DownInv
  <1> QED
    BY <1>1, QuietStep

\* Once a peer has reported PeerDown nothing reaches its socket, no request is stored, no timer
\* is armed and PeerUp is not reported, provided that it is not set down while it is dialling: a
\* connection established after that starts the peer again.
THEOREM QuietOnceDown == Spec /\ []DialledBeforeDown => QuietAfterDown
  <1>1. Init => DownInv
    BY DEF Init, DownInv, Down
  <1> QED
    BY <1>1, QuietSteps, TypeCorrect, PTL DEF Spec, QuietAfterDown

\* A peer created from an incoming connection (NewPassiveDiameterPeer) has no connection to come.
LEMMA PassiveNeverPending ==
    ASSUME Roles \subseteq {"passive"}
    PROVE  Spec => []~Pending
  <1>1. Init => ~Pending
    <2> SUFFICES ASSUME Init PROVE ~Pending
      OBVIOUS
    <2>1. PICK role \in Roles : dialing = (role = "active")
      BY DEF Init
    <2>2. role # "active"
      BY <2>1
    <2>3. ~dialing
      BY <2>1, <2>2, Zenon
    <2>4. QueueTypes = {}
      BY DEF Init, QueueTypes
    <2> QED
      BY <2>3, <2>4 DEF Pending
  <1>2. Init => DialInv /\ WatchdogInv
    BY InitDialInv
  <1> QED
    BY <1>1, <1>2, NextDialInv, TypeCorrect, PTL DEF Spec

\* In particular a passive peer, whatever it is sent and whoever sets it down, is quiet.
THEOREM PassivePeersQuiet ==
    ASSUME Roles \subseteq {"passive"}
    PROVE  Spec => QuietAfterDown
  <1>1. ~Pending => DialledBeforeDown
    BY DEF DialledBeforeDown
  <1> QED
    BY <1>1, PassiveNeverPending, QuietOnceDown, PTL

-----------------------------------------------------------------------------
(* DrainedBeforeClose.  dp.wg counts the connect() goroutine, the handlers, the  *)
(* exchanges that were begun and not settled (answered or stored) and the        *)
(* request timers that may still post: when it is zero all are gone, and no new  *)
(* one may start once Close() was called.                                        *)

Unsettled == {r \in Reqs : caller[r] = "sending" \/ Queued(r) \/ r \in failed}
Timed == {r \in Reqs : timer[r] = "armed" \/ timer[r] = "fired"}
Working == Cardinality(Unsettled) + Cardinality(Timed) + handlers

CountInv ==
    ~crashed => /\ handlers \in Nat
                /\ dialing => wg = Working + 1
                /\ ~dialing => wg = Working

\* A request that was not written has no timer
FreshTimers ==
    \A r \in Reqs : caller[r] # "sent" \/ Queued(r) \/ r \in failed => timer[r] = "none"

\* What a step does to what wg counts: exchanges begin before Close() is called, and only the
\* timers of exchanges that were not settled start
CountStep ==
    /\ CountInv' /\ FreshTimers'
    /\ closing = "idle" \/ LateExchange \/ Unsettled' \subseteq Unsettled
    /\ Timed' \subseteq Timed \cup Unsettled

\* The sets that wg counts are finite.
LEMMA CountedFinite ==
    /\ IsFiniteSet(Unsettled) /\ IsFiniteSet(Timed)
    /\ Cardinality(Unsettled) \in Nat /\ Cardinality(Timed) \in Nat
  <1>1. Unsettled \subseteq Reqs /\ Timed \subseteq Reqs
    BY DEF Unsettled, Timed
  <1> QED
    BY <1>1, HopAssumption, FS_Subset, FS_CardinalityType

\* A step that leaves what is queued, the callers and the timers alone.
LEMMA SettledElsewhere ==
    ASSUME FreshTimers, \A r \in Reqs : Queued(r)' <=> Queued(r), UNCHANGED <<caller, failed, timer>>
    PROVE  Unsettled' = Unsettled /\ Timed' = Timed /\ FreshTimers'
  BY DEF Unsettled, Timed, FreshTimers

\* Such a step, when it leaves the goroutines alone too.
LEMMA CountSame ==
    ASSUME CountInv, FreshTimers, \A r \in Reqs : Queued(r)' <=> Queued(r), ~crashed,
           UNCHANGED <<caller, failed, timer, wg, handlers, dialing>>
    PROVE  CountStep
  <1>1. Unsettled' = Unsettled /\ Timed' = Timed /\ FreshTimers'
    BY SettledElsewhere
  <1> QED
    BY <1>1 DEF CountStep, CountInv, Working

\* The goroutines around the event loop and Close() keep the count.
LEMMA GoroutinesCount ==
    ASSUME TypeOK, RequestInv, CountInv, FreshTimers,
           \/ \E result \in {"ConnectionEstablished", "ConnectionError"} : Connect(result)
           \/ \E b \in RemoteBodies : ReadBase(b)
           \/ \E h \in HopIds : ReadAnswer(h)
           \/ \E type \in {"ReadEOF", "ReadError"} : ReadStop(type)
           \/ LinkBreaks \/ SetDown \/ HandlerReturn \/ Closer
           \/ \E r \in Reqs : ExchangeBegin(r) \/ ExchangePost(r) \/ TimerFire(r) \/ TimerPost(r)
    PROVE  CountStep
  <1> USE DEF loopVars, chanVars, requestVars, procVars, netVars, boundVars, CloseStep
  <1>t. /\ wg \in Int /\ handlers \in Int
        /\ timer \in [Reqs -> {"none", "armed", "fired", "done", "stopped"}]
        /\ caller \in [Reqs -> {"idle", "sending", "sent"}]
        /\ QueuedOnce /\ \A r \in Reqs : OnePlace(r)
    BY DEF TypeOK, RequestTypes, NetTypes, RequestInv
  <1> DEFINE Posting(m) == m \in Messages /\ m.type # "Exchange"
  <1>a. ASSUME NEW m, Posting(m), Send(m)
        PROVE  ~crashed /\ \A r \in Reqs : Queued(r)' <=> Queued(r)
    <2>1. \A r \in Reqs : Queued(r)' <=> Queued(r)
      BY <1>a, <1>t, SendOther
    <2> QED
      BY <1>a, <2>1 DEF Send
  <1>b. ASSUME NEW type \in Signals PROVE Posting(Signal(type))
    BY MessageTypes DEF Signals, Signal, M
  <1>c. /\ \A b \in RemoteBodies : Posting(M("Ingress", b))
        /\ \A h \in HopIds : Posting(M("Answer", h)) /\ Posting(M("Cancel", h))
        /\ Posting(M("Egress", "ANS"))
    BY MessageTypes, InputAssumption DEF M, EgressBodies
  <1>d. ASSUME UNCHANGED queue PROVE \A r \in Reqs : Queued(r)' <=> Queued(r)
    BY <1>d DEF Queued, InQueue
  <1> HIDE DEF Posting
  <1>1. ASSUME NEW result \in {"ConnectionEstablished", "ConnectionError"}, Connect(result)
        PROVE  CountStep
    <2>1. Send(Signal(result)) /\ Posting(Signal(result))
      BY <1>1, <1>b DEF Connect, Signals
    <2>2. dialing /\ ~dialing' /\ wg' = wg - 1 /\ UNCHANGED <<caller, failed, timer, handlers>>
      BY <1>1 DEF Connect
    <2>3. Unsettled' = Unsettled /\ Timed' = Timed /\ FreshTimers' /\ ~crashed
      BY <1>a, <2>1, <2>2, SettledElsewhere
    <2> QED
      BY <1>t, <2>2, <2>3, CountedFinite DEF CountStep, CountInv, Working
  <1>2. ASSUME NEW m, Posting(m), Send(m), UNCHANGED <<caller, failed, timer, wg, handlers, dialing>>
        PROVE  CountStep
    BY <1>2, <1>a, CountSame
  <1>3. CASE \/ \E b \in RemoteBodies : ReadBase(b)
             \/ \E h \in HopIds : ReadAnswer(h)
             \/ \E type \in {"ReadEOF", "ReadError"} : ReadStop(type)
             \/ SetDown \/ ClosePost
    BY <1>3, <1>2, <1>b, <1>c
    DEF ReadBase, ReadAnswer, ReadMessage, ReadStop, SetDown, SetDownCommand, ClosePost, Signals
  <1>4. CASE LinkBreaks \/ CloseBegin \/ CloseReadLoopDone \/ CloseGroupDone \/ CloseChannel
    <2>1. ~crashed /\ UNCHANGED <<queue, caller, failed, timer, wg, handlers, dialing>>
      BY <1>4 DEF LinkBreaks, CloseBegin, CloseReadLoopDone, CloseGroupDone, CloseChannel
    <2> QED
      BY <1>d, <2>1, CountSame
  <1>5. CASE HandlerReturn
    <2>1. /\ Send(M("Egress", "ANS")) /\ handlers > 0 /\ handlers' = handlers - 1 /\ wg' = wg - 1
          /\ UNCHANGED <<caller, failed, timer, dialing>>
      BY <1>5 DEF HandlerReturn
    <2>2. Unsettled' = Unsettled /\ Timed' = Timed /\ FreshTimers' /\ ~crashed
      BY <1>a, <1>c, <2>1, SettledElsewhere
    <2> QED
      BY <1>t, <2>1, <2>2, CountedFinite DEF CountStep, CountInv, Working
  <1>6. ASSUME NEW r \in Reqs, ExchangeBegin(r)
        PROVE  CountStep
    <2>1. /\ caller[r] = "idle" /\ caller' = [caller EXCEPT ![r] = "sending"] /\ wg' = wg + 1
          /\ LateExchange \/ closing = "idle"
          /\ ~crashed /\ ~crashed' /\ UNCHANGED <<queue, failed, timer, handlers, dialing>>
      BY <1>6 DEF ExchangeBegin
    <2>2. r \notin Unsettled
      BY <1>t, <2>1 DEF Unsettled, OnePlace
    <2>3. Unsettled' = Unsettled \cup {r} /\ Timed' = Timed
      BY <1>d, <1>t, <2>1 DEF Unsettled, Timed
    <2>4. Cardinality(Unsettled') = Cardinality(Unsettled) + 1
      BY <2>2, <2>3, CountedFinite, FS_AddElement
    <2>5. FreshTimers'
      BY <1>d, <1>t, <2>1 DEF FreshTimers
    <2>6. Working' = Working + 1 /\ Working \in Int
      BY <1>t, <2>1, <2>3, <2>4, CountedFinite DEF Working
    <2>7. CountInv'
      BY <1>t, <2>1, <2>6 DEF CountInv
    <2> QED
      BY <2>1, <2>3, <2>5, <2>7 DEF CountStep
  <1>7. ASSUME NEW r \in Reqs, ExchangePost(r)
        PROVE  CountStep
    <2>1. /\ caller[r] = "sending" /\ caller' = [caller EXCEPT ![r] = "sent"] /\ ~crashed
          /\ UNCHANGED <<failed, timer, handlers, dialing, wg>> /\ Send(M("Exchange", r))
      BY <1>7 DEF ExchangePost, Send
    <2>2. \A q \in Reqs \ {r} : Queued(q)' <=> Queued(q)
      <3>1. CASE queue' = queue
        BY <1>d, <3>1
      <3>2. CASE queue' = Append(queue, M("Exchange", r))
        <4>1. queue \in Seq(Messages)
          BY DEF TypeOK, LoopTypes
        <4>2. /\ Len(queue') = Len(queue) + 1 /\ Len(queue) \in Nat
              /\ queue'[Len(queue) + 1] = M("Exchange", r)
              /\ \A i \in 1..Len(queue) : queue'[i] = queue[i]
          BY <3>2, <4>1
        <4>3. \A q \in Reqs \ {r} : M("Exchange", r) # M("Exchange", q)
          BY DEF M
        <4> QED
          BY <4>2, <4>3 DEF Queued, InQueue
      <3> QED
        BY <2>1, <3>1, <3>2 DEF Send
    <2>3. ~crashed' => Queued(r)'
      <3>1. ASSUME ~crashed' PROVE queue' = Append(queue, M("Exchange", r))
        BY <2>1, <3>1 DEF Send
      <3>2. queue \in Seq(Messages)
        BY DEF TypeOK, LoopTypes
      <3>3. ASSUME queue' = Append(queue, M("Exchange", r)) PROVE Queued(r)'
        <4>1. Len(queue) + 1 \in 1..Len(queue') /\ queue'[Len(queue) + 1] = M("Exchange", r)
          BY <3>2, <3>3
        <4> QED
          BY <4>1 DEF Queued, InQueue
      <3> QED
        BY <3>1, <3>3
    <2>4. Timed' = Timed /\ Unsettled' \subseteq Unsettled
      BY <1>t, <2>1, <2>2 DEF Timed, Unsettled
    <2>5. ~crashed' => Unsettled' = Unsettled
      BY <1>t, <2>1, <2>2, <2>3 DEF Unsettled
    <2>6. FreshTimers'
      BY <1>t, <2>1, <2>2 DEF FreshTimers
    <2> QED
      BY <2>1, <2>4, <2>5, <2>6 DEF CountStep, CountInv, Working
  <1>8. ASSUME NEW r \in Reqs, TimerFire(r)
        PROVE  CountStep
    <2>1. /\ timer[r] = "armed" /\ timer' = [timer EXCEPT ![r] = "fired"] /\ ~crashed
          /\ UNCHANGED <<queue, caller, failed, wg, handlers, dialing>>
      BY <1>8 DEF TimerFire
    <2>2. Timed' = Timed /\ Unsettled' = Unsettled
      BY <1>d, <1>t, <2>1 DEF Timed, Unsettled
    <2>3. FreshTimers'
      BY <1>d, <1>t, <2>1 DEF FreshTimers
    <2> QED
      BY <2>1, <2>2, <2>3 DEF CountStep, CountInv, Working
  <1>9. ASSUME NEW r \in Reqs, TimerPost(r)
        PROVE  CountStep
    <2>1. /\ timer[r] = "fired" /\ timer' = [timer EXCEPT ![r] = "done"] /\ wg' = wg - 1
          /\ Send(M("Cancel", Hop[r])) /\ UNCHANGED <<caller, failed, handlers, dialing>>
      BY <1>9 DEF TimerPost
    <2>2. ~crashed /\ \A q \in Reqs : Queued(q)' <=> Queued(q)
      BY <1>a, <1>c, <2>1, HopAssumption
    <2>3. r \in Timed /\ Timed' = Timed \ {r} /\ Unsettled' = Unsettled
      BY <1>t, <2>1, <2>2 DEF Timed, Unsettled
    <2>4. Cardinality(Timed') = Cardinality(Timed) - 1
      BY <2>3, CountedFinite, FS_RemoveElement
    <2>5. FreshTimers'
      BY <1>t, <2>1, <2>2 DEF FreshTimers
    <2>6. Working' = Working - 1 /\ Working \in Int
      BY <1>t, <2>1, <2>3, <2>4, CountedFinite DEF Working
    <2>7. CountInv'
      BY <1>t, <2>1, <2>2, <2>6 DEF CountInv
    <2> QED
      BY <2>3, <2>5, <2>7 DEF CountStep
  <1> QED
    BY <1>1, <1>3, <1>4, <1>5, <1>6, <1>7, <1>8, <1>9 DEF Closer

\* The exchanges that cancelAll and the timers that it stops.
LEMMA CancelAllCount ==
    ASSUME TypeOK, CountInv, FreshTimers, CancelAll, ~crashed, ~crashed',
           \A r \in Reqs : Queued(r)' <=> Queued(r), UNCHANGED <<caller, failed, handlers, dialing>>
    PROVE  CountStep
  <1> DEFINE stopped == {r \in requestsMap : timer[r] = "armed"}
  <1>1. /\ timer \in [Reqs -> {"none", "armed", "fired", "done", "stopped"}]
        /\ requestsMap \subseteq Reqs /\ wg \in Int /\ handlers \in Int
    BY DEF TypeOK, RequestTypes, NetTypes
  <1>2. /\ timer' = [r \in Reqs |-> IF r \in stopped THEN "stopped" ELSE timer[r]]
        /\ wg' = wg - Cardinality(stopped)
    BY DEF CancelAll
  <1>3. stopped \subseteq Timed
    BY <1>1 DEF Timed
  <1>4. Timed' = Timed \ stopped
    BY <1>1, <1>2 DEF Timed
  <1>5. Unsettled' = Unsettled
    BY DEF Unsettled
  <1>6. FreshTimers'
    BY <1>1, <1>2 DEF FreshTimers
  <1> HIDE DEF stopped
  <1>7. /\ IsFiniteSet(stopped) /\ Cardinality(stopped) \in Nat
        /\ Cardinality(Timed') = Cardinality(Timed) - Cardinality(stopped)
    <2>1. IsFiniteSet(stopped) /\ Cardinality(stopped) \in Nat
      BY <1>3, CountedFinite, FS_Subset, FS_CardinalityType
    <2>2. Timed \cap stopped = stopped
      BY <1>3
    <2>3. Cardinality(Timed \ stopped) = Cardinality(Timed) - Cardinality(Timed \cap stopped)
      BY CountedFinite, FS_Difference
    <2> QED
      BY <1>4, <2>1, <2>2, <2>3
  <1>8. Working' = Working - Cardinality(stopped) /\ Working \in Int
    BY <1>1, <1>5, <1>7, CountedFinite DEF Working
  <1>9. CountInv'
    BY <1>1, <1>2, <1>7, <1>8 DEF CountInv
  <1> QED
    BY <1>4, <1>5, <1>6, <1>9 DEF CountStep

\* An exchange that is settled: it is refused, told that it could not be written, or its timer
\* takes its place in the count.
LEMMA ExchangeCount ==
    ASSUME TypeOK, RequestInv, CountInv, FreshTimers, NEW r \in Reqs, OnExchange(r)
    PROVE  CountStep
  <1>1. /\ wg \in Int /\ handlers \in Int
        /\ timer \in [Reqs -> {"none", "armed", "fired", "done", "stopped"}]
        /\ \A q \in Reqs : OnePlace(q)
    BY DEF TypeOK, RequestTypes, NetTypes, RequestInv
  <1>2. /\ Queued(r) /\ ~Queued(r)' /\ \A q \in Reqs \ {r} : Queued(q)' <=> Queued(q)
    BY ReceiveExchange DEF OnExchange, RequestInv
  <1>3. ~crashed /\ failed = {} /\ UNCHANGED <<caller, handlers, dialing>>
    BY DEF OnExchange, Take, Idle, procVars
  <1>4. r \in Unsettled /\ caller[r] = "sent" /\ timer[r] = "none" /\ r \notin Timed
    BY <1>1, <1>2 DEF Unsettled, OnePlace, FreshTimers, Timed
  <1>5. Cardinality(Unsettled \ {r}) = Cardinality(Unsettled) - 1
    BY <1>4, CountedFinite, FS_RemoveElement
  <1>6. CASE ExchangeRefused(r)
    <2>1. wg' = wg - 1 /\ UNCHANGED <<timer, failed, crashed>>
      BY <1>6 DEF ExchangeRefused
    <2>2. Unsettled' = Unsettled \ {r} /\ Timed' = Timed
      BY <1>2, <1>3, <1>4, <2>1 DEF Unsettled, Timed
    <2>3. FreshTimers'
      BY <1>2, <1>3, <1>4, <2>1 DEF FreshTimers
    <2>4. Working' = Working - 1 /\ Working \in Int
      BY <1>1, <1>3, <1>5, <2>2, CountedFinite DEF Working
    <2>5. CountInv'
      BY <1>1, <1>3, <2>1, <2>4 DEF CountInv
    <2> QED
      BY <2>2, <2>3, <2>5 DEF CountStep
  <1>7. CASE ExchangeDuplicated(r)
    <2>1. crashed' /\ UNCHANGED <<timer, failed>>
      BY <1>7 DEF ExchangeDuplicated
    <2>2. Unsettled' = Unsettled \ {r} /\ Timed' = Timed
      BY <1>2, <1>3, <1>4, <2>1 DEF Unsettled, Timed
    <2>3. FreshTimers'
      BY <1>2, <1>3, <1>4, <2>1 DEF FreshTimers
    <2>4. CountInv'
      BY <2>1 DEF CountInv
    <2> QED
      BY <2>2, <2>3, <2>4 DEF CountStep
  <1>8. CASE ExchangeWriteError(r)
    <2>1. failed' = {r} /\ UNCHANGED <<timer, wg, crashed>>
      BY <1>8 DEF ExchangeWriteError
    <2>2. Unsettled' = Unsettled /\ Timed' = Timed
      BY <1>2, <1>3, <1>4, <2>1 DEF Unsettled, Timed
    <2>3. FreshTimers'
      BY <1>2, <1>3, <1>4, <2>1 DEF FreshTimers
    <2> QED
      BY <1>3, <2>1, <2>2, <2>3 DEF CountStep, CountInv, Working
  <1>9. CASE ExchangeSent(r)
    <2>1. /\ timer' = [timer EXCEPT ![r] = "armed"] /\ wg' = (wg + 1) - 1
          /\ UNCHANGED <<failed, crashed>>
      BY <1>9 DEF ExchangeSent
    <2>2. Unsettled' = Unsettled \ {r} /\ Timed' = Timed \cup {r}
      BY <1>1, <1>2, <1>3, <1>4, <2>1 DEF Unsettled, Timed
    <2>3. Cardinality(Timed') = Cardinality(Timed) + 1
      BY <1>4, <2>2, CountedFinite, FS_AddElement
    <2>4. FreshTimers'
      BY <1>1, <1>2, <1>3, <1>4, <2>1 DEF FreshTimers
    <2>5. Working' = Working
      BY <1>1, <1>3, <1>5, <2>2, <2>3, CountedFinite DEF Working
    <2>6. CountInv'
      BY <1>1, <1>3, <2>1, <2>5 DEF CountInv
    <2> QED
      BY <1>4, <2>2, <2>4, <2>6 DEF CountStep
  <1> QED
    BY <1>6, <1>7, <1>8, <1>9 DEF OnExchange

\* The handlers of the event loop keep the count.
LEMMA EventLoopCount ==
    ASSUME TypeOK, RequestInv, CountInv, FreshTimers, EventLoop \/ WatchdogTick
    PROVE  CountStep
  <1> USE DEF loopVars, chanVars, requestVars, procVars, netVars, boundVars
  <1>t. /\ wg \in Int /\ handlers \in Int
        /\ timer \in [Reqs -> {"none", "armed", "fired", "done", "stopped"}]
        /\ requestsMap \subseteq Reqs
        /\ QueuedOnce /\ \A r \in Reqs : OnePlace(r)
    BY DEF TypeOK, RequestTypes, NetTypes, RequestInv
  <1>a. ASSUME NEW type, type # "Exchange", Receive(type)
        PROVE  ~crashed /\ UNCHANGED failed /\ \A r \in Reqs : Queued(r)' <=> Queued(r)
    <2>1. Take(type)
      BY <1>a DEF Receive
    <2>2. \A r \in Reqs : Queued(r)' <=> Queued(r)
      BY <1>a, <1>t, <2>1, ReceiveOther
    <2> QED
      BY <1>a, <2>1, <2>2 DEF Receive, Take, Idle
  <1>b. ASSUME NEW type, type # "Exchange", Receive(type),
               UNCHANGED <<caller, timer, wg, handlers, dialing>>
        PROVE  CountStep
    BY <1>a, <1>b, CountSame
  <1>1. CASE LoopSend
    <2>1. Head(out) \in Posts
      BY <1>1 DEF LoopSend, TypeOK, LoopTypes
    <2>2. Head(out) \in Messages /\ Head(out).type # "Exchange"
      BY <2>1, MessageTypes, MessageBodies
    <2>3. Send(Head(out)) /\ UNCHANGED <<caller, failed, timer, wg, handlers, dialing>> /\ ~crashed
      BY <1>1 DEF LoopSend, Send
    <2>4. \A r \in Reqs : Queued(r)' <=> Queued(r)
      BY <1>t, <2>2, <2>3, SendOther
    <2> QED
      BY <2>3, <2>4, CountSame
  <1>2. CASE WatchdogTick
    <2>1. ~crashed /\ UNCHANGED <<queue, caller, failed, timer, wg, handlers, dialing>>
      BY <1>2 DEF WatchdogTick, Idle
    <2>2. \A r \in Reqs : Queued(r)' <=> Queued(r)
      BY <2>1 DEF Queued, InQueue
    <2> QED
      BY <2>1, <2>2, CountSame
  <1>3. CASE OnClose
    <2>1. /\ queue # <<>> /\ queue' = Tail(queue) /\ Head(queue).type = "Close" /\ ~crashed
          /\ queue \in Seq(Messages) /\ UNCHANGED <<caller, failed, timer, wg, handlers, dialing>>
      BY <1>3 DEF OnClose, Idle, TypeOK, LoopTypes
    <2>2. /\ Len(queue) \in Nat \ {0} /\ Len(queue') = Len(queue) - 1
          /\ queue[1].type = "Close"
          /\ \A i \in 1..Len(queue') : queue'[i] = queue[i + 1]
      BY <2>1
    <2>3. ASSUME NEW r \in Reqs PROVE Queued(r)' => Queued(r)
      BY <2>2 DEF Queued, InQueue
    <2>4. ASSUME NEW r \in Reqs, Queued(r) PROVE Queued(r)'
      <3>1. PICK i \in 1..Len(queue) : queue[i] = M("Exchange", r)
        BY <2>4 DEF Queued, InQueue
      <3>2. i # 1
        BY <2>2, <3>1 DEF M
      <3>3. i - 1 \in 1..Len(queue') /\ queue'[i - 1] = M("Exchange", r)
        BY <2>2, <3>1, <3>2
      <3> QED
        BY <3>3 DEF Queued, InQueue
    <2> QED
      BY <2>1, <2>3, <2>4, CountSame
  <1>4. CASE OnConnectionEstablished \/ OnConnectionError \/ OnPeerUp \/ OnEgress \/ OnWatchdog \/ OnCancel
    BY <1>4, <1>b
    DEF OnConnectionEstablished, OnConnectionError, OnPeerUp, OnEgress, OnWatchdog, OnCancel
  <1>5. ASSUME NEW type \in {"ReadEOF", "ReadError", "WriteError", "SetDown"}, OnDown(type)
        PROVE  CountStep
    <2>1. Receive(type) /\ UNCHANGED <<caller, handlers, dialing, crashed>>
      BY <1>5 DEF OnDown
    <2>2. CASE TerminateActions
      <3>1. CancelAll
        BY <2>2 DEF TerminateActions
      <3> QED
        BY <1>5, <1>a, <2>1, <3>1, CancelAllCount
    <2>3. CASE UNCHANGED <<wg, timer>>
      BY <1>5, <1>b, <2>1, <2>3
    <2> QED
      BY <1>5, <2>2, <2>3 DEF OnDown
  <1>6. ASSUME NEW r \in Reqs, ExchangeFail(r)
        PROVE  CountStep
    <2>1. /\ r \in failed /\ failed' = failed \ {r} /\ wg' = wg - 1 /\ ~crashed
          /\ UNCHANGED <<queue, crashed, caller, timer, handlers, dialing>>
      BY <1>6 DEF ExchangeFail
    <2>2. \A q \in Reqs : Queued(q)' <=> Queued(q)
      BY <2>1 DEF Queued, InQueue
    <2>3. r \in Unsettled /\ Unsettled' = Unsettled \ {r} /\ Timed' = Timed
      BY <1>t, <2>1, <2>2 DEF Unsettled, Timed, OnePlace
    <2>4. Cardinality(Unsettled') = Cardinality(Unsettled) - 1
      BY <2>3, CountedFinite, FS_RemoveElement
    <2>5. FreshTimers'
      BY <2>1, <2>2 DEF FreshTimers
    <2>6. Working' = Working - 1 /\ Working \in Int
      BY <1>t, <2>1, <2>3, <2>4, CountedFinite DEF Working
    <2>7. CountInv'
      BY <1>t, <2>1, <2>6 DEF CountInv
    <2> QED
      BY <2>3, <2>5, <2>7 DEF CountStep
  <1>7. CASE \/ OnCER \/ OnBadCER \/ OnDWR \/ OnDPR \/ OnCEA \/ OnDWA \/ OnUnknown
             \/ \E body \in {"CEAbad", "DWAbad"} : OnBadAnswer(body)
    <2>1. Receive("Ingress") /\ UNCHANGED <<caller, timer, wg, handlers, dialing>>
      BY <1>7 DEF OnCER, OnBadCER, OnDWR, OnDPR, OnCEA, OnDWA, OnUnknown, OnBadAnswer, Ingest
    <2> QED
      BY <1>b, <2>1
  <1>8. CASE OnRequest
    <2>1. /\ Receive("Ingress") /\ handlers' = handlers + 1 /\ wg' = wg + 1
          /\ UNCHANGED <<caller, timer, dialing, crashed>>
      BY <1>8 DEF OnRequest, Ingest
    <2>2. Unsettled' = Unsettled /\ Timed' = Timed /\ FreshTimers' /\ ~crashed
      BY <1>a, <2>1, SettledElsewhere
    <2>3. Working' = Working + 1 /\ Working \in Int
      BY <1>t, <2>1, <2>2, CountedFinite DEF Working
    <2>4. CountInv'
      BY <1>t, <2>1, <2>2, <2>3 DEF CountInv
    <2> QED
      BY <2>2, <2>4 DEF CountStep
  <1>9. CASE OnAnswer
    <2>1. Receive("Answer") /\ UNCHANGED <<caller, handlers, dialing, crashed>>
      BY <1>9 DEF OnAnswer
    <2>2. ~crashed /\ UNCHANGED failed /\ \A q \in Reqs : Queued(q)' <=> Queued(q)
      BY <1>a, <2>1
    <2>3. CASE UNCHANGED <<timer, wg>>
      BY <1>b, <2>1, <2>3
    <2>4. ASSUME NEW r \in Reqs, timer[r] = "armed", timer' = [timer EXCEPT ![r] = "stopped"],
                 wg' = wg - 1
          PROVE  CountStep
      <3>1. r \in Timed /\ Timed' = Timed \ {r} /\ Unsettled' = Unsettled
        BY <1>t, <2>1, <2>2, <2>4 DEF Timed, Unsettled
      <3>2. Cardinality(Timed') = Cardinality(Timed) - 1
        BY <3>1, CountedFinite, FS_RemoveElement
      <3>3. FreshTimers'
        BY <1>t, <2>1, <2>2, <2>4 DEF FreshTimers
      <3>4. Working' = Working - 1 /\ Working \in Int
        BY <1>t, <2>1, <3>1, <3>2, CountedFinite DEF Working
      <3>5. CountInv'
        BY <1>t, <2>1, <2>2, <2>4, <3>4 DEF CountInv
      <3> QED
        BY <3>1, <3>3, <3>5 DEF CountStep
    <2>5. ASSUME NEW r \in Reqs, timer' = [timer EXCEPT ![r] = IF @ = "armed" THEN "stopped" ELSE @],
                 wg' = IF timer[r] = "armed" THEN wg - 1 ELSE wg
          PROVE  CountStep
      <3>1. CASE timer[r] = "armed"
        BY <2>4, <2>5, <3>1
      <3>2. CASE timer[r] # "armed"
        BY <1>t, <2>3, <2>5, <3>2
      <3> QED
        BY <3>1, <3>2
    <2> QED
      BY <1>9, <1>t, <2>3, <2>5 DEF OnAnswer, Entry
  <1> QED
    BY <1>1, <1>2, <1>3, <1>4, <1>5, <1>6, <1>7, <1>8, <1>9, ExchangeCount DEF EventLoop

\* Every step keeps the count and the timers of requests that were not written.
LEMMA NextCount ==
    ASSUME TypeOK, RequestInv, CountInv, FreshTimers, [Next]_vars
    PROVE  CountStep
  <1>1. CASE Next
    BY <1>1, GoroutinesCount, EventLoopCount DEF Next
  <1>2. CASE UNCHANGED vars
    <2>1. UNCHANGED <<queue, caller, failed, timer, wg, handlers, dialing, crashed>>
      BY <1>2 DEF vars, loopVars, chanVars, requestVars, procVars
    <2>2. \A r \in Reqs : Queued(r)' <=> Queued(r)
      BY <2>1 DEF Queued, InQueue
    <2>3. Unsettled' = Unsettled /\ Timed' = Timed /\ FreshTimers'
      BY <2>1, <2>2, SettledElsewhere
    <2> QED
      BY <2>1, <2>3 DEF CountStep, CountInv, Working
  <1> QED
    BY <1>1, <1>2

\* How far Close() has come, and what is gone by then
CloseInv ==
    /\ closing \in {"idle", "read", "wg", "post", "close", "done"}
    /\ chanClosed => closing = "done"
    /\ closing # "idle" => Down
    /\ closing \notin {"idle", "read"} => readLoop # "reading"
    /\ closing \in {"post", "close", "done"} => ~dialing /\ Unsettled = {} /\ Timed = {}

\* What a step other than the ones of Close() does to the read loop and the connect() goroutine.
LEMMA LoopsEnd ==
    ASSUME TypeOK, DialledBeforeDown, Next, ~Closer
    PROVE  /\ UNCHANGED <<closing, chanClosed>> /\ (Down => Down')
           /\ dialing' => dialing
           /\ Down /\ readLoop # "reading" => readLoop' # "reading"
  <1> USE DEF loopVars, chanVars, requestVars, procVars, netVars, boundVars
  <1>a. \/ events' = events \/ events' = Append(events, "up") \/ events' = Append(events, "down")
        => (Down => Down')
    <2>1. events \in Seq({"up", "down"})
      BY DEF TypeOK, LoopTypes
    <2> QED
      BY <2>1 DEF Down
  <1>1. CASE OnConnectionEstablished
    <2>1. queue # <<>> /\ queue' = Tail(queue) /\ Head(queue).type = "ConnectionEstablished"
      BY <1>1 DEF OnConnectionEstablished, Receive, Take
    <2>2. ~Down
      BY <2>1, ReceiveQueueTypes DEF DialledBeforeDown, Pending
    <2> QED
      BY <1>1, <2>2 DEF OnConnectionEstablished, Receive, Take
  <1>2. CASE \/ OnConnectionError \/ OnPeerUp
             \/ \E type \in {"ReadEOF", "ReadError", "WriteError", "SetDown"} : OnDown(type)
    BY <1>2, <1>a DEF OnConnectionError, OnPeerUp, OnDown, TerminateActions, Receive, Take
  <1>3. CASE LoopSend \/ OnClose \/ OnEgress \/ OnAnswer \/ OnCancel \/ OnWatchdog \/ WatchdogTick
    BY <1>3, <1>a DEF LoopSend, OnClose, OnEgress, OnAnswer, OnCancel, OnWatchdog, WatchdogTick,
                      Receive, Take, Send
  <1>4. CASE \E r \in Reqs : OnExchange(r) \/ ExchangeFail(r)
    BY <1>4, <1>a DEF OnExchange, ExchangeFail, Take
  <1>5. CASE \/ OnCER \/ OnBadCER \/ OnDWR \/ OnDPR \/ OnCEA \/ OnDWA \/ OnUnknown \/ OnRequest
             \/ \E body \in {"CEAbad", "DWAbad"} : OnBadAnswer(body)
    BY <1>5, <1>a DEF OnCER, OnBadCER, OnDWR, OnDPR, OnCEA, OnDWA, OnUnknown, OnRequest,
                      OnBadAnswer, Ingest, Receive, Take
  <1>6. CASE \/ \E result \in {"ConnectionEstablished", "ConnectionError"} : Connect(result)
             \/ \E type \in {"ReadEOF", "ReadError"} : ReadStop(type)
             \/ \E b \in RemoteBodies : ReadBase(b)
             \/ \E h \in HopIds : ReadAnswer(h)
             \/ LinkBreaks \/ SetDown \/ HandlerReturn
             \/ \E r \in Reqs : ExchangeBegin(r) \/ ExchangePost(r) \/ TimerFire(r) \/ TimerPost(r)
    BY <1>6, <1>a DEF Connect, ReadStop, ReadBase, ReadAnswer, ReadMessage, LinkBreaks, SetDown,
                      HandlerReturn, ExchangeBegin, ExchangePost, TimerFire, TimerPost, Send
  <1> QED
    BY <1>1, <1>2, <1>3, <1>4, <1>5, <1>6 DEF Next, EventLoop

\* Close() waits for the read loop, then for the group, and nothing that it waited for comes back.
LEMMA NextCloseInv ==
    ASSUME LateExchange = FALSE, TypeOK, RequestInv, CountInv, FreshTimers, DialledBeforeDown,
           CloseInv, [Next]_vars
    PROVE  CloseInv'
  <1>s. /\ closing = "idle" \/ Unsettled' \subseteq Unsettled
        /\ Timed' \subseteq Timed \cup Unsettled
    BY NextCount DEF CountStep
  <1>1. CASE Next /\ ~Closer
    <2>1. /\ UNCHANGED <<closing, chanClosed>> /\ (Down => Down')
          /\ dialing' => dialing
          /\ Down /\ readLoop # "reading" => readLoop' # "reading"
      BY <1>1, LoopsEnd
    <2> QED
      BY <1>s, <2>1 DEF CloseInv
  <1>2. CASE Closer
    <2> USE DEF loopVars, chanVars, requestVars, procVars, netVars, boundVars, CloseStep
    <2>1. UNCHANGED <<events, readLoop, dialing, handlers, wg, timer, caller, failed>> /\ (Down' <=> Down)
      BY <1>2 DEF Closer, CloseBegin, CloseReadLoopDone, CloseGroupDone, ClosePost, CloseChannel, Down
    <2>2. CASE CloseBegin
      BY <1>s, <2>1, <2>2 DEF CloseBegin, CloseInv, Down
    <2>3. CASE CloseReadLoopDone
      BY <1>s, <2>1, <2>3 DEF CloseReadLoopDone, CloseInv
    <2>4. CASE CloseGroupDone
      <3>1. ~crashed /\ wg = 0 /\ closing = "wg" /\ closing' = "post" /\ UNCHANGED <<queue, chanClosed>>
        BY <2>4 DEF CloseGroupDone
      <3>2. ~dialing /\ Cardinality(Unsettled) = 0 /\ Cardinality(Timed) = 0
        BY <3>1, CountedFinite DEF CountInv, Working
      <3>3. Unsettled = {} /\ Timed = {}
        BY <3>2, CountedFinite, FS_EmptySet
      <3> QED
        BY <1>s, <2>1, <3>1, <3>2, <3>3 DEF CloseInv
    <2>5. CASE ClosePost
      BY <1>s, <2>1, <2>5 DEF ClosePost, Send, CloseInv
    <2>6. CASE CloseChannel
      BY <1>s, <2>1, <2>6 DEF CloseChannel, CloseInv
    <2> QED
      BY <1>2, <2>2, <2>3, <2>4, <2>5, <2>6 DEF Closer
  <1>3. CASE UNCHANGED vars
    <2>1. UNCHANGED <<closing, chanClosed, events, readLoop, dialing>>
      BY <1>3 DEF vars, loopVars, chanVars, procVars
    <2>2. Down' <=> Down
      BY <2>1 DEF Down
    <2>3. Unsettled' = Unsettled /\ Timed' = Timed
      BY <1>3 DEF vars, loopVars, chanVars, requestVars, Unsettled, Timed, Queued, InQueue
    <2> QED
      BY <2>1, <2>2, <2>3 DEF CloseInv
  <1> QED
    BY <1>1, <1>2, <1>3

\* Initially only the connect() goroutine of an active peer is counted, and nothing is closed.
LEMMA InitCount == Init => CountInv /\ FreshTimers /\ CloseInv
  <1> SUFFICES ASSUME Init PROVE CountInv /\ FreshTimers /\ CloseInv
    OBVIOUS
  <1>1. PICK role \in Roles :
           /\ dialing = (role = "active")
           /\ wg = IF role = "active" THEN 1 ELSE 0
    BY DEF Init
  <1>2. Unsettled = {} /\ Timed = {}
    BY DEF Init, Unsettled, Timed, Queued, InQueue
  <1>3. Cardinality(Unsettled) = 0 /\ Cardinality(Timed) = 0
    BY <1>2, FS_EmptySet
  <1>4. Working = 0 /\ handlers = 0
    BY <1>3 DEF Init, Working
  <1>5. (dialing => wg = 1) /\ (~dialing => wg = 0)
    BY <1>1
  <1>6. CountInv
    BY <1>4, <1>5 DEF CountInv
  <1>7. FreshTimers
    BY DEF Init, FreshTimers
  <1>8. CloseInv
    BY DEF Init, CloseInv
  <1> QED
    BY <1>6, <1>7, <1>8

\* When the channel of a peer is closed its read loop has ended, no request timer can fire and no
\* exchange is still being posted, for any number of requests and any interleaving, provided that
\* DiameterExchange is not called once Close() was and the peer was not set down while it was
\* dialling.
THEOREM DrainedWhenClosed ==
    ASSUME LateExchange = FALSE
    PROVE  Spec /\ []DialledBeforeDown => []DrainedBeforeClose
  <1>1. Init => RequestInv /\ CountInv /\ FreshTimers /\ CloseInv
    BY InitRequestInv, InitCount
  <1>2. TypeOK /\ RequestInv /\ CountInv /\ FreshTimers /\ CloseInv /\ DialledBeforeDown /\ [Next]_vars
        => CountInv' /\ FreshTimers' /\ CloseInv'
    BY NextCount, NextCloseInv DEF CountStep
  <1>3. CloseInv => DrainedBeforeClose
    BY DEF CloseInv, DrainedBeforeClose, Unsettled, Timed
  <1> QED
    BY <1>1, <1>2, <1>3, NextRequestInv, TypeCorrect, PTL DEF Spec

\* In particular for a passive peer.
THEOREM PassivePeersDrained ==
    ASSUME LateExchange = FALSE, Roles \subseteq {"passive"}
    PROVE  Spec => []DrainedBeforeClose
  <1>1. ~Pending => DialledBeforeDown
    BY DEF DialledBeforeDown
  <1> QED
    BY <1>1, PassiveNeverPending, DrainedWhenClosed, PTL

-----------------------------------------------------------------------------
(* ResponsesCorrelated, when no two requests have the same HopByHopId.  A        *)
(* CancelRequest or an answer in the channel is evidence of what happened to     *)
(* the request that it names, and stays so: a timer that has posted stays        *)
(* "done", and what reached the socket is not taken back.                        *)

DistinctHops == \A q, r \in Reqs : Hop[q] = Hop[r] => q = r

CorrelationInv ==
    \A r \in Reqs : /\ InQueue(M("Cancel", Hop[r])) => timer[r] = "done"
                    /\ InQueue(M("Answer", Hop[r])) => M("Exchange", r) \in wire
                    /\ rchan[r] = <<"timeout">> => timer[r] = "done"
                    /\ rchan[r] = <<"answer">> => M("Exchange", r) \in wire

\* What a send and a receive do to the contents of the channel.
LEMMA QueueContents ==
    ASSUME TypeOK, NEW x
    PROVE  /\ \A m \in Messages : Send(m) => (InQueue(x)' => InQueue(x) \/ x = m)
           /\ queue # <<>> /\ queue' = Tail(queue) => (InQueue(x)' => InQueue(x)) /\ InQueue(Head(queue))
  <1>1. queue \in Seq(Messages)
    BY DEF TypeOK, LoopTypes
  <1>2. ASSUME NEW m \in Messages, Send(m), InQueue(x)' PROVE InQueue(x) \/ x = m
    <2>1. CASE queue' = queue
      BY <1>2, <2>1 DEF InQueue
    <2>2. CASE queue' = Append(queue, m)
      BY <1>1, <1>2, <2>2 DEF InQueue
    <2> QED
      BY <1>2, <2>1, <2>2 DEF Send
  <1>3. ASSUME queue # <<>>, queue' = Tail(queue)
        PROVE  (InQueue(x)' => InQueue(x)) /\ InQueue(Head(queue))
    <2>1. /\ Len(queue) \in Nat \ {0} /\ Len(queue') = Len(queue) - 1 /\ queue[1] = Head(queue)
          /\ \A i \in 1..Len(queue') : queue'[i] = queue[i + 1]
      BY <1>1, <1>3
    <2> QED
      BY <2>1 DEF InQueue
  <1> QED
    BY <1>2, <1>3

\* A step puts a CancelRequest in the channel only for a timer that has fired, and an answer only
\* for a request that reached the socket.
LEMMA EvidenceQueued ==
    ASSUME DistinctHops, TypeOK, Next, NEW r \in Reqs
    PROVE  /\ InQueue(M("Cancel", Hop[r]))' => InQueue(M("Cancel", Hop[r])) \/ timer'[r] = "done"
           /\ InQueue(M("Answer", Hop[r]))' => InQueue(M("Answer", Hop[r])) \/ M("Exchange", r) \in wire
  <1> USE DEF loopVars, chanVars, requestVars, procVars, netVars, boundVars, CloseStep
  <1> DEFINE Goal == /\ InQueue(M("Cancel", Hop[r]))' =>
                           InQueue(M("Cancel", Hop[r])) \/ timer'[r] = "done"
                     /\ InQueue(M("Answer", Hop[r]))' =>
                           InQueue(M("Answer", Hop[r])) \/ M("Exchange", r) \in wire
             Other(m) == m \in Messages /\ m.type # "Cancel" /\ m.type # "Answer"
  <1>a. ASSUME NEW m, Other(m), Send(m) PROVE Goal
    <2>1. m # M("Cancel", Hop[r]) /\ m # M("Answer", Hop[r])
      BY <1>a DEF M
    <2> QED
      BY <1>a, <2>1, QueueContents
  <1>b. ASSUME UNCHANGED queue PROVE Goal
    BY <1>b DEF InQueue
  <1>c. ASSUME queue # <<>>, queue' = Tail(queue) PROVE Goal
    BY <1>c, QueueContents
  <1>d. /\ \A type \in Signals : Other(Signal(type))
        /\ \A b \in RemoteBodies : Other(M("Ingress", b))
        /\ \A q \in Reqs : Other(M("Exchange", q))
        /\ Other(M("Egress", "ANS")) /\ \A m \in Posts : Other(m)
    BY MessageTypes, InputAssumption DEF Signals, Signal, M, EgressBodies, Posts
  <1> HIDE DEF Other
  <1> SUFFICES Goal
    OBVIOUS
  <1> HIDE DEF Goal
  <1>1. CASE \E result \in {"ConnectionEstablished", "ConnectionError"} : Connect(result)
    BY <1>1, <1>a, <1>d DEF Connect, Signals
  <1>2. CASE \E b \in RemoteBodies : ReadBase(b)
    BY <1>2, <1>a, <1>d DEF ReadBase, ReadMessage
  <1>3. ASSUME NEW h \in HopIds, ReadAnswer(h) PROVE Goal
    <2>1. PICK q \in Reqs : Hop[q] = h /\ M("Exchange", q) \in wire
      BY <1>3 DEF ReadAnswer
    <2>2. Send(M("Answer", h)) /\ M("Answer", h) \in Messages
      BY <1>3, MessageTypes DEF ReadAnswer, ReadMessage
    <2>3. M("Cancel", Hop[r]) # M("Answer", h)
      BY DEF M
    <2>4. M("Answer", Hop[r]) = M("Answer", h) => M("Exchange", r) \in wire
      BY <2>1 DEF M, DistinctHops
    <2> QED
      BY <2>2, <2>3, <2>4, QueueContents DEF Goal
  <1>4. CASE \E type \in {"ReadEOF", "ReadError"} : ReadStop(type)
    BY <1>4, <1>a, <1>d DEF ReadStop, Signals
  <1>5. CASE SetDown \/ ClosePost
    BY <1>5, <1>a, <1>d DEF SetDown, ClosePost, SetDownCommand, Signals
  <1>6. CASE HandlerReturn
    BY <1>6, <1>a, <1>d DEF HandlerReturn
  <1>7. ASSUME NEW q \in Reqs, ExchangePost(q) PROVE Goal
    BY <1>7, <1>a, <1>d DEF ExchangePost
  <1>8. ASSUME NEW q \in Reqs, TimerPost(q) PROVE Goal
    <2>1. /\ Send(M("Cancel", Hop[q])) /\ M("Cancel", Hop[q]) \in Messages
          /\ timer' = [timer EXCEPT ![q] = "done"]
      BY <1>8, MessageTypes, HopAssumption DEF TimerPost
    <2>2. M("Answer", Hop[r]) # M("Cancel", Hop[q])
      BY DEF M
    <2>3. M("Cancel", Hop[r]) = M("Cancel", Hop[q]) => timer'[r] = "done"
      <3>1. M("Cancel", Hop[r]) = M("Cancel", Hop[q]) => q = r
        BY DEF M, DistinctHops
      <3> QED
        BY <2>1, <3>1 DEF TypeOK, RequestTypes
    <2> QED
      BY <2>1, <2>2, <2>3, QueueContents DEF Goal
  <1>9. CASE LoopSend
    <2>1. Head(out) \in Posts /\ Send(Head(out))
      BY <1>9 DEF LoopSend, TypeOK, LoopTypes
    <2> QED
      BY <1>a, <1>d, <2>1
  <1>10. CASE \/ LinkBreaks \/ CloseBegin \/ CloseReadLoopDone \/ CloseGroupDone \/ CloseChannel
              \/ WatchdogTick \/ \E q \in Reqs : ExchangeBegin(q) \/ TimerFire(q) \/ ExchangeFail(q)
    BY <1>10, <1>b DEF LinkBreaks, CloseBegin, CloseReadLoopDone, CloseGroupDone, CloseChannel,
                       WatchdogTick, ExchangeBegin, TimerFire, ExchangeFail
  <1>11. CASE \/ OnClose \/ OnConnectionEstablished \/ OnConnectionError \/ OnPeerUp \/ OnEgress
              \/ OnAnswer \/ OnCancel \/ OnWatchdog
              \/ \E q \in Reqs : OnExchange(q)
              \/ \E type \in {"ReadEOF", "ReadError", "WriteError", "SetDown"} : OnDown(type)
    BY <1>11, <1>c DEF OnClose, OnConnectionEstablished, OnConnectionError, OnPeerUp, OnEgress,
                       OnAnswer, OnCancel, OnWatchdog, OnExchange, OnDown, Receive, Take
  <1>12. CASE \/ OnCER \/ OnBadCER \/ OnDWR \/ OnDPR \/ OnCEA \/ OnDWA \/ OnUnknown \/ OnRequest
              \/ \E body \in {"CEAbad", "DWAbad"} : OnBadAnswer(body)
    BY <1>12, <1>c DEF OnCER, OnBadCER, OnDWR, OnDPR, OnCEA, OnDWA, OnUnknown, OnRequest,
                       OnBadAnswer, Ingest, Receive, Take
  <1> QED
    BY <1>1, <1>2, <1>3, <1>4, <1>5, <1>6, <1>7, <1>8, <1>9, <1>10, <1>11, <1>12
    DEF Next, EventLoop, Closer

\* The evidence stays: what reached the socket, and a timer that has posted.
LEMMA EvidenceStays ==
    ASSUME TypeOK, RequestInv, FreshTimers, Next
    PROVE  wire \subseteq wire' /\ \A r \in Reqs : timer[r] = "done" => timer'[r] = "done"
  <1> USE DEF loopVars, chanVars, requestVars, procVars, netVars, boundVars, CloseStep
  <1>t. timer \in [Reqs -> {"none", "armed", "fired", "done", "stopped"}] /\ requestsMap \subseteq Reqs
    BY DEF TypeOK, RequestTypes
  <1>1. CASE \/ \E result \in {"ConnectionEstablished", "ConnectionError"} : Connect(result)
             \/ \E b \in RemoteBodies : ReadBase(b)
             \/ \E h \in HopIds : ReadAnswer(h)
             \/ \E type \in {"ReadEOF", "ReadError"} : ReadStop(type)
             \/ LinkBreaks \/ SetDown \/ HandlerReturn \/ Closer
             \/ \E r \in Reqs : ExchangeBegin(r) \/ ExchangePost(r) \/ ExchangeFail(r)
             \/ LoopSend \/ WatchdogTick \/ OnClose
    BY <1>1 DEF Connect, ReadBase, ReadAnswer, ReadMessage, ReadStop, LinkBreaks, SetDown,
                HandlerReturn, ExchangeBegin, ExchangePost, ExchangeFail, Closer, CloseBegin,
                CloseReadLoopDone, CloseGroupDone, ClosePost, CloseChannel, LoopSend, WatchdogTick,
                OnClose
  <1>2. ASSUME NEW r \in Reqs, TimerFire(r) \/ TimerPost(r)
        PROVE  wire \subseteq wire' /\ \A q \in Reqs : timer[q] = "done" => timer'[q] = "done"
    BY <1>2, <1>t DEF TimerFire, TimerPost
  <1>3. CASE OnConnectionEstablished \/ OnConnectionError \/ OnPeerUp \/ OnWatchdog \/ OnCancel
    BY <1>3 DEF OnConnectionEstablished, OnConnectionError, OnPeerUp, OnWatchdog, OnCancel
  <1>4. ASSUME NEW type \in {"ReadEOF", "ReadError", "WriteError", "SetDown"}, OnDown(type)
        PROVE  wire \subseteq wire' /\ \A r \in Reqs : timer[r] = "done" => timer'[r] = "done"
    BY <1>4, <1>t DEF OnDown, TerminateActions, CancelAll
  <1>5. CASE OnEgress
    <2>1. wire \subseteq wire'
      BY <1>5 DEF OnEgress, Write
    <2>2. UNCHANGED timer
      BY <1>5 DEF OnEgress
    <2> QED
      BY <2>1, <2>2
  <1>6. ASSUME NEW r \in Reqs, OnExchange(r)
        PROVE  wire \subseteq wire' /\ \A q \in Reqs : timer[q] = "done" => timer'[q] = "done"
    <2>1. Queued(r)
      BY <1>6, ReceiveExchange DEF OnExchange, RequestInv
    <2>2. timer[r] = "none"
      BY <2>1 DEF FreshTimers
    <2>3. CASE ExchangeSent(r)
      BY <1>t, <2>2, <2>3 DEF ExchangeSent, Write
    <2>4. CASE ExchangeRefused(r) \/ ExchangeDuplicated(r)
      BY <2>4 DEF ExchangeRefused, ExchangeDuplicated
    <2>5. CASE ExchangeWriteError(r)
      BY <2>5 DEF ExchangeWriteError, Write
    <2> QED
      BY <1>6, <2>3, <2>4, <2>5 DEF OnExchange
  <1>7. CASE \/ OnCER \/ OnBadCER \/ OnDWR \/ OnDPR \/ OnCEA \/ OnDWA \/ OnUnknown \/ OnRequest
             \/ \E body \in {"CEAbad", "DWAbad"} : OnBadAnswer(body)
    <2>1. UNCHANGED <<wire, timer>>
      BY <1>7 DEF OnCER, OnBadCER, OnDWR, OnDPR, OnCEA, OnDWA, OnUnknown, OnRequest, OnBadAnswer,
                  Ingest
    <2> QED
      BY <2>1
  <1>8. CASE OnAnswer
    BY <1>8, <1>t DEF OnAnswer
  <1> QED
    BY <1>1, <1>2, <1>3, <1>4, <1>5, <1>6, <1>7, <1>8 DEF Next, EventLoop

\* Answers and CancelRequests are known by their HopByHopId.
LEMMA NamedMessages ==
    ASSUME NEW m \in Messages
    PROVE  /\ m.type = "Answer" => m = M("Answer", m.body)
           /\ m.type = "Cancel" => m = M("Cancel", m.body)
  BY DEF Messages, Posts, Signals, Signal, M

\* The last value sent to a response channel.
LEMMA LastReply ==
    ASSUME RequestTypes, NEW r \in Reqs, NEW v, NEW q \in Reqs, NEW w, Reply(r, v), rchan'[q] = <<w>>
    PROVE  (q = r /\ v = w) \/ rchan[q] = <<w>>
  <1>1. rchan[r] \in Seq(Replies) /\ rchan' = [rchan EXCEPT ![r] = Append(@, v)]
    BY DEF RequestTypes, Reply
  <1>2. CASE q = r
    <2>1. Append(rchan[r], v) = <<w>>
      BY <1>1, <1>2 DEF RequestTypes
    <2>2. Len(Append(rchan[r], v)) = Len(rchan[r]) + 1 /\ Append(rchan[r], v)[Len(rchan[r]) + 1] = v
      BY <1>1
    <2>3. Len(<<w>>) = 1 /\ <<w>>[1] = w /\ Len(rchan[r]) \in Nat
      BY <1>1
    <2> QED
      BY <1>2, <2>1, <2>2, <2>3
  <1>3. CASE q # r
    BY <1>1, <1>3 DEF RequestTypes
  <1> QED
    BY <1>2, <1>3

\* A request is told "timeout" only for a CancelRequest with its HopByHopId, and is given an
\* answer only for an answer with it.
LEMMA RepliesEvidenced ==
    ASSUME TypeOK, Next, NEW q \in Reqs
    PROVE  /\ rchan'[q] = <<"timeout">> => rchan[q] = <<"timeout">> \/ InQueue(M("Cancel", Hop[q]))
           /\ rchan'[q] = <<"answer">> => rchan[q] = <<"answer">> \/ InQueue(M("Answer", Hop[q]))
  <1> USE DEF loopVars, chanVars, requestVars, procVars, netVars, boundVars, CloseStep
  <1> DEFINE Goal == /\ rchan'[q] = <<"timeout">> =>
                           rchan[q] = <<"timeout">> \/ InQueue(M("Cancel", Hop[q]))
                     /\ rchan'[q] = <<"answer">> =>
                           rchan[q] = <<"answer">> \/ InQueue(M("Answer", Hop[q]))
  <1>t. RequestTypes /\ requestsMap \subseteq Reqs /\ rchan[q] \in Seq(Replies)
    BY DEF TypeOK, RequestTypes
  <1>a. ASSUME UNCHANGED rchan PROVE Goal
    BY <1>a
  <1>b. ASSUME NEW r \in Reqs, NEW v, v # "timeout", v # "answer", Reply(r, v) PROVE Goal
    <2>1. rchan'[q] = <<"timeout">> => rchan[q] = <<"timeout">>
      BY <1>b, <1>t, LastReply
    <2>2. rchan'[q] = <<"answer">> => rchan[q] = <<"answer">>
      BY <1>b, <1>t, LastReply
    <2> QED
      BY <2>1, <2>2
  <1>c. ASSUME NEW type, Take(type)
        PROVE  Head(queue) \in Messages /\ Head(queue).type = type /\ InQueue(Head(queue))
    BY <1>c, ReceiveType, QueueContents DEF Take, TypeOK
  <1> SUFFICES Goal
    OBVIOUS
  <1>1. CASE \/ \E result \in {"ConnectionEstablished", "ConnectionError"} : Connect(result)
             \/ \E b \in RemoteBodies : ReadBase(b)
             \/ \E h \in HopIds : ReadAnswer(h)
             \/ \E type \in {"ReadEOF", "ReadError"} : ReadStop(type)
             \/ LinkBreaks \/ SetDown \/ HandlerReturn \/ Closer
             \/ \E r \in Reqs : ExchangeBegin(r) \/ ExchangePost(r) \/ TimerFire(r) \/ TimerPost(r)
             \/ LoopSend \/ WatchdogTick \/ OnClose
    <2>1. UNCHANGED rchan
      BY <1>1 DEF Connect, ReadBase, ReadAnswer, ReadMessage, ReadStop, LinkBreaks, SetDown,
                  HandlerReturn, ExchangeBegin, ExchangePost, TimerFire, TimerPost, Closer, CloseBegin,
                  CloseReadLoopDone, CloseGroupDone, ClosePost, CloseChannel, LoopSend, WatchdogTick,
                  OnClose
    <2> QED
      BY <1>a, <2>1
  <1>2. CASE \/ OnConnectionEstablished \/ OnConnectionError \/ OnPeerUp \/ OnWatchdog \/ OnEgress
             \/ OnCER \/ OnBadCER \/ OnDWR \/ OnDPR \/ OnCEA \/ OnDWA \/ OnUnknown \/ OnRequest
             \/ \E body \in {"CEAbad", "DWAbad"} : OnBadAnswer(body)
    <2>1. UNCHANGED rchan
      BY <1>2 DEF OnConnectionEstablished, OnConnectionError, OnPeerUp, OnWatchdog, OnEgress,
                  OnCER, OnBadCER, OnDWR, OnDPR, OnCEA, OnDWA, OnUnknown, OnRequest, OnBadAnswer,
                  Ingest
    <2> QED
      BY <1>a, <2>1
  <1>3. ASSUME NEW type \in {"ReadEOF", "ReadError", "WriteError", "SetDown"}, OnDown(type)
        PROVE  Goal
    <2>1. CASE CancelAll
      <3>1. rchan'[q] = rchan[q] \/ rchan'[q] = Append(rchan[q], "cancelled")
        BY <2>1 DEF CancelAll
      <3>2. ASSUME NEW w, w # "cancelled" PROVE Append(rchan[q], "cancelled") # <<w>>
        <4>1. /\ Len(rchan[q]) \in Nat /\ Len(Append(rchan[q], "cancelled")) = Len(rchan[q]) + 1
              /\ Append(rchan[q], "cancelled")[Len(rchan[q]) + 1] = "cancelled"
          BY <1>t
        <4>2. Len(<<w>>) = 1 /\ <<w>>[1] = w
          OBVIOUS
        <4> QED
          BY <3>2, <4>1, <4>2
      <3>3. rchan'[q] = <<"timeout">> => rchan[q] = <<"timeout">>
        BY <3>1, <3>2
      <3>4. rchan'[q] = <<"answer">> => rchan[q] = <<"answer">>
        BY <3>1, <3>2
      <3> QED
        BY <3>3, <3>4
    <2> QED
      BY <1>3, <1>a, <2>1 DEF OnDown, TerminateActions
  <1>4. ASSUME NEW r \in Reqs, OnExchange(r) \/ ExchangeFail(r)
        PROVE  Goal
    <2>1. \/ UNCHANGED rchan \/ Reply(r, "refused") \/ Reply(r, "error")
      BY <1>4 DEF OnExchange, ExchangeRefused, ExchangeDuplicated, ExchangeWriteError, ExchangeSent,
                  ExchangeFail
    <2> QED
      BY <1>a, <1>b, <2>1
  <1>5. CASE OnAnswer
    <2>1. ASSUME NEW r \in Entry(Body), Reply(r, "answer") PROVE Goal
      <3>1. r \in Reqs /\ Hop[r] = Body
        BY <1>t DEF Entry
      <3>2. InQueue(M("Answer", Hop[r]))
        <4>1. Head(queue) \in Messages /\ Head(queue).type = "Answer" /\ InQueue(Head(queue))
          BY <1>5, <1>c DEF OnAnswer, Receive
        <4>2. Head(queue) = M("Answer", Body)
          BY <4>1, NamedMessages DEF Body
        <4> QED
          BY <3>1, <4>1, <4>2
      <3>3. rchan'[q] = <<"timeout">> => rchan[q] = <<"timeout">>
        BY <1>t, <2>1, <3>1, LastReply
      <3>4. rchan'[q] = <<"answer">> => q = r \/ rchan[q] = <<"answer">>
        BY <1>t, <2>1, <3>1, LastReply
      <3> QED
        BY <3>2, <3>3, <3>4
    <2> QED
      BY <1>5, <1>a, <2>1 DEF OnAnswer
  <1>6. CASE OnCancel
    <2>1. ASSUME NEW r \in Entry(Body), Reply(r, "timeout") PROVE Goal
      <3>1. r \in Reqs /\ Hop[r] = Body
        BY <1>t DEF Entry
      <3>2. InQueue(M("Cancel", Hop[r]))
        <4>1. Head(queue) \in Messages /\ Head(queue).type = "Cancel" /\ InQueue(Head(queue))
          BY <1>6, <1>c DEF OnCancel, Receive
        <4>2. Head(queue) = M("Cancel", Body)
          BY <4>1, NamedMessages DEF Body
        <4> QED
          BY <3>1, <4>1, <4>2
      <3>3. rchan'[q] = <<"answer">> => rchan[q] = <<"answer">>
        BY <1>t, <2>1, <3>1, LastReply
      <3>4. rchan'[q] = <<"timeout">> => q = r \/ rchan[q] = <<"timeout">>
        BY <1>t, <2>1, <3>1, LastReply
      <3> QED
        BY <3>2, <3>3, <3>4
    <2> QED
      BY <1>6, <1>a, <2>1 DEF OnCancel
  <1> QED
    BY <1>1, <1>2, <1>3, <1>4, <1>5, <1>6 DEF Next, EventLoop

\* Every step keeps the correlation.
LEMMA NextCorrelationInv ==
    ASSUME DistinctHops, TypeOK, RequestInv, FreshTimers, CorrelationInv, [Next]_vars
    PROVE  CorrelationInv'
  <1>1. CASE Next
    <2> SUFFICES ASSUME NEW r \in Reqs
                 PROVE  /\ InQueue(M("Cancel", Hop[r]))' => timer'[r] = "done"
                        /\ InQueue(M("Answer", Hop[r]))' => M("Exchange", r) \in wire'
                        /\ rchan'[r] = <<"timeout">> => timer'[r] = "done"
                        /\ rchan'[r] = <<"answer">> => M("Exchange", r) \in wire'
      BY DEF CorrelationInv
    <2>1. /\ InQueue(M("Cancel", Hop[r]))' => InQueue(M("Cancel", Hop[r])) \/ timer'[r] = "done"
          /\ InQueue(M("Answer", Hop[r]))' => InQueue(M("Answer", Hop[r])) \/ M("Exchange", r) \in wire
      BY <1>1, EvidenceQueued
    <2>2. wire \subseteq wire' /\ (timer[r] = "done" => timer'[r] = "done")
      BY <1>1, EvidenceStays
    <2>3. /\ rchan'[r] = <<"timeout">> => rchan[r] = <<"timeout">> \/ InQueue(M("Cancel", Hop[r]))
          /\ rchan'[r] = <<"answer">> => rchan[r] = <<"answer">> \/ InQueue(M("Answer", Hop[r]))
      BY <1>1, RepliesEvidenced
    <2>4. /\ InQueue(M("Cancel", Hop[r])) => timer[r] = "done"
          /\ InQueue(M("Answer", Hop[r])) => M("Exchange", r) \in wire
          /\ rchan[r] = <<"timeout">> => timer[r] = "done"
          /\ rchan[r] = <<"answer">> => M("Exchange", r) \in wire
      BY DEF CorrelationInv
    <2> QED
      BY <2>1, <2>2, <2>3, <2>4
  <1>2. CASE UNCHANGED vars
    BY <1>2 DEF vars, chanVars, requestVars, netVars, CorrelationInv, InQueue
  <1> QED
    BY <1>1, <1>2

\* Responses are correlated, for any number of requests with different HopByHopIds: a request is
\* told "timeout" only when its own timer fired, and is given an answer only when it was sent,
\* however late or often the answers arrive and whatever the order of timeouts and answers.
THEOREM ResponsesWellCorrelated ==
    ASSUME DistinctHops
    PROVE  Spec => []ResponsesCorrelated
  <1>1. Init => RequestInv /\ CountInv /\ FreshTimers
    BY InitRequestInv, InitCount
  <1>2. Init => CorrelationInv
    BY DEF Init, CorrelationInv, InQueue
  <1>3. TypeOK /\ RequestInv /\ CountInv /\ FreshTimers /\ [Next]_vars => CountInv' /\ FreshTimers'
    BY NextCount DEF CountStep
  <1>4. TypeOK /\ RequestInv /\ FreshTimers /\ CorrelationInv /\ [Next]_vars => CorrelationInv'
    BY NextCorrelationInv
  <1>5. CorrelationInv => ResponsesCorrelated
    BY DEF CorrelationInv, ResponsesCorrelated
  <1> QED
    BY <1>1, <1>2, <1>3, <1>4, <1>5, NextRequestInv, TypeCorrect, PTL DEF Spec
=============================================================================
