---------------------- MODULE RadiusClientSocket_proofs ----------------------
(***************************************************************************)
(* Proofs about RadiusClientSocket, for any number of requests, servers,     *)
(* identifiers and tries, any capacity of the channel, and any order of      *)
(* answers, time-outs, errors and closing.                                   *)
(***************************************************************************)
EXTENDS RadiusClientSocket, FiniteSetTheorems, TLAPS

-----------------------------------------------------------------------------
(* One answer for every request that is not retransmitted *)

Signals == {Signal(type) : type \in {"Close", "SetDown", "ReadError"}}
Requests == [type : {"Request"}, req : Reqs, tries : Nat \ {0}, id : {0} \cup Ids]
Packet == [ep : Endpoints, id : Ids, auth : Reqs \X Nat]
Responses == {Response(p) : p \in Packet}
Cancels == [type : {"Cancel"}, ep : Endpoints, id : Ids]
Entries == [ep : Endpoints, id : Ids, req : Reqs, tries : Nat \ {0}]
AllTimers == [req : Reqs, tries : Nat \ {0}, id : Ids, fired : BOOLEAN]
AllMessages == Signals \cup Requests \cup Responses \cup Cancels

\* Only what the proofs need: the group and the closing of the channel are not in it
ChannelTypes ==
    queue \in Seq(AllMessages) /\ out \in Seq(Signals) /\ readOut \in Seq(Signals \cup Responses)
RequestTypes ==
    /\ requestsMap \subseteq Entries
    /\ timers \subseteq AllTimers
    /\ rchan \in [Reqs -> Seq(Values)]
    /\ caller \in [Reqs -> {"idle", "sent"}]
    /\ wire \subseteq Packet
    /\ lastRadiusId \in [Endpoints -> 0..MaxId]

Queued == {queue[i] : i \in 1..Len(queue)}
\* A request as SendRadiusRequest posts it, not a retransmission
Fresh(m) == m.type = "Request" /\ m.id = 0
Waiting(r) == \E m \in Queued : Fresh(m) /\ m.req = r
Single(r) == Tries[r] = 1

\* Nothing has happened to a request yet
Nothing(r) ==
    /\ rchan[r] = <<>>
    /\ \A e \in requestsMap : e.req # r
    /\ \A t \in timers : t.req # r
    /\ \A p \in wire : p.auth[1] # r
    /\ \A m \in Queued : m.type = "Request" /\ m.req = r => m.id = 0

FreshOnce ==
    \A i, j \in 1..Len(queue) :
        Fresh(queue[i]) /\ Fresh(queue[j]) /\ queue[i].req = queue[j].req => i = j
SentIfWaiting == \A r \in Reqs : Waiting(r) => caller[r] = "sent"
NotBegun == \A r \in Reqs : caller[r] = "idle" \/ Waiting(r) => Nothing(r)

TriesLeft ==
    /\ \A m \in Queued : m.type = "Request" =>
         m.tries <= Tries[m.req] /\ (m.id # 0 => m.tries < Tries[m.req])
    /\ \A t \in timers : t.tries <= Tries[t.req]

OpenEntries ==
    \A e \in requestsMap : Single(e.req) =>
        rchan[e.req] = <<>> /\ \A f \in requestsMap : f.req = e.req => f = e

AnswerInv ==
    /\ ChannelTypes /\ RequestTypes /\ FreshOnce /\ SentIfWaiting /\ NotBegun /\ TriesLeft
    /\ OpenEntries /\ OneAnswerPerRequest


-----------------------------------------------------------------------------
(* The channel *)

LEMMA InitAnswers == Init => AnswerInv
  <1> SUFFICES ASSUME Init PROVE AnswerInv
    OBVIOUS
  <1>1. queue = <<>> /\ Queued = {}
    BY DEF Init, Queued
  <1>2. ChannelTypes /\ RequestTypes
    BY SocketBounds DEF Init, ChannelTypes, RequestTypes
  <1>3. FreshOnce /\ SentIfWaiting /\ TriesLeft
    BY <1>1 DEF Init, FreshOnce, SentIfWaiting, Waiting, TriesLeft
  <1>4. NotBegun
    BY <1>1 DEF Init, NotBegun, Nothing
  <1>5. OpenEntries /\ OneAnswerPerRequest
    BY DEF Init, OpenEntries, OneAnswerPerRequest
  <1> QED
    BY <1>2, <1>3, <1>4, <1>5 DEF AnswerInv

\* A message that is sent is the only new one in the channel.
LEMMA SendQueue ==
    ASSUME queue \in Seq(AllMessages), FreshOnce, NEW m \in AllMessages, Send(m),
           Fresh(m) => ~Waiting(m.req)
    PROVE  queue' \in Seq(AllMessages) /\ Queued' \subseteq Queued \cup {m} /\ FreshOnce'
  <1>1. CASE chanClosed
    BY <1>1 DEF Send, Queued, FreshOnce
  <1>2. CASE ~chanClosed
    <2>1. /\ queue' \in Seq(AllMessages) /\ Len(queue') = Len(queue) + 1 /\ Len(queue) \in Nat
          /\ \A i \in 1..Len(queue) : queue'[i] = queue[i]
          /\ queue'[Len(queue) + 1] = m
      BY <1>2 DEF Send
    <2>2. \A i \in 1..Len(queue') : i \in 1..Len(queue) \/ i = Len(queue) + 1
      BY <2>1
    <2>3. Queued' \subseteq Queued \cup {m}
      BY <2>1, <2>2 DEF Queued
    <2>4. \A i \in 1..Len(queue) : Fresh(queue[i]) /\ Fresh(m) => queue[i].req # m.req
      BY DEF Waiting, Queued
    <2>5. FreshOnce'
      <3> SUFFICES ASSUME NEW i \in 1..Len(queue'), NEW j \in 1..Len(queue'),
                          Fresh(queue'[i]), Fresh(queue'[j]), queue'[i].req = queue'[j].req
                   PROVE  i = j
        BY DEF FreshOnce, Fresh
      <3> QED
        BY <2>1, <2>2, <2>4 DEF FreshOnce
    <2> QED
      BY <2>1, <2>3, <2>5
  <1> QED
    BY <1>1, <1>2

\* The event loop takes the oldest message.
LEMMA ReceiveQueue ==
    ASSUME queue \in Seq(AllMessages), FreshOnce, NEW type, Receive(type)
    PROVE  /\ queue' \in Seq(AllMessages) /\ Queued' \subseteq Queued /\ FreshOnce'
           /\ Msg \in Queued /\ Msg \in AllMessages /\ Msg.type = type
           /\ \A r \in Reqs : Fresh(Msg) /\ Msg.req = r => ~Waiting(r)'
  <1>1. queue # <<>> /\ queue' = Tail(queue) /\ Msg.type = type
    BY DEF Receive, Msg
  <1>2. /\ queue' \in Seq(AllMessages) /\ Len(queue) \in Nat \ {0} /\ Len(queue') = Len(queue) - 1
        /\ \A i \in 1..Len(queue') : queue'[i] = queue[i + 1]
        /\ Msg = queue[1] /\ Msg \in AllMessages
    BY <1>1 DEF Msg
  <1>3. \A i \in 1..Len(queue') : i + 1 \in 1..Len(queue)
    BY <1>2
  <1>4. 1 \in 1..Len(queue) /\ \A i \in 1..Len(queue') : i + 1 # 1
    BY <1>2
  <1>5. Queued' \subseteq Queued /\ Msg \in Queued
    BY <1>2, <1>3, <1>4 DEF Queued
  <1>6. FreshOnce'
    <2> SUFFICES ASSUME NEW i \in 1..Len(queue'), NEW j \in 1..Len(queue'),
                        Fresh(queue'[i]), Fresh(queue'[j]), queue'[i].req = queue'[j].req
                 PROVE  i = j
      BY DEF FreshOnce, Fresh
    <2>1. i + 1 = j + 1
      BY <1>2, <1>3 DEF FreshOnce
    <2> QED
      BY <2>1
  <1>7. ASSUME NEW r \in Reqs, Fresh(Msg), Msg.req = r, Waiting(r)' PROVE FALSE
    <2>1. PICK i \in 1..Len(queue') : Fresh(queue'[i]) /\ queue'[i].req = r
      BY <1>7 DEF Waiting, Queued, Fresh
    <2>2. i + 1 = 1
      BY <1>2, <1>3, <1>4, <1>7, <2>1 DEF FreshOnce
    <2> QED
      BY <1>4, <2>2
  <1> QED
    BY <1>1, <1>2, <1>5, <1>6, <1>7

-----------------------------------------------------------------------------
(* What the steps do to the requests *)

\* A value is written to the channels of requests that have none, if they are not retransmitted.
LEMMA ReplyOnce ==
    ASSUME rchan \in [Reqs -> Seq(Values)], OneAnswerPerRequest,
           NEW rs \in SUBSET Reqs, NEW value \in Values,
           \A r \in rs : Single(r) => rchan[r] = <<>>,
           rchan' = [r \in Reqs |-> IF r \in rs THEN Append(rchan[r], value) ELSE rchan[r]]
    PROVE  rchan' \in [Reqs -> Seq(Values)] /\ OneAnswerPerRequest'
  <1>1. \A r \in Reqs : rchan[r] \in Seq(Values) /\ Append(rchan[r], value) \in Seq(Values)
    OBVIOUS
  <1>2. rchan' \in [Reqs -> Seq(Values)]
    BY <1>1
  <1>3. ASSUME NEW r \in Reqs, Tries[r] = 1 PROVE Len(rchan'[r]) <= 1
    <2>1. CASE r \in rs
      <3>1. rchan[r] = <<>> /\ rchan'[r] = Append(rchan[r], value)
        BY <1>3, <2>1 DEF Single
      <3> QED
        BY <3>1
    <2>2. CASE r \notin rs
      BY <1>3, <2>2 DEF OneAnswerPerRequest
    <2> QED
      BY <2>1, <2>2
  <1> QED
    BY <1>2, <1>3 DEF OneAnswerPerRequest

\* A step that starts nothing: entries and timers go, their requests are answered or
\* retransmitted.
LEMMA StepEnds ==
    ASSUME AnswerInv, ChannelTypes', FreshOnce', UNCHANGED <<caller, wire, lastRadiusId>>,
           \A m \in Queued' :
               \/ m \in Queued
               \/ m.type # "Request"
               \/ m.id # 0 /\ m.tries < Tries[m.req] /\ \E t \in timers : t.req = m.req,
           requestsMap' \subseteq requestsMap,
           timers' \subseteq AllTimers,
           \A t \in timers' : \E u \in timers : u.req = t.req /\ u.tries = t.tries,
           NEW rs \in SUBSET {e.req : e \in requestsMap}, NEW value \in Values,
           rchan' = [r \in Reqs |-> IF r \in rs THEN Append(rchan[r], value) ELSE rchan[r]],
           \A e \in requestsMap' : Single(e.req) => e.req \notin rs
    PROVE  AnswerInv'
  <1>1. /\ RequestTypes /\ SentIfWaiting /\ NotBegun /\ TriesLeft /\ OpenEntries
        /\ OneAnswerPerRequest
    BY DEF AnswerInv
  <1>2. \A e \in requestsMap : e.req \in Reqs
    BY <1>1 DEF RequestTypes, Entries
  <1>3. rs \subseteq Reqs
    BY <1>2
  <1>4. \A r \in rs : Single(r) => rchan[r] = <<>>
    BY <1>1 DEF OpenEntries
  <1>5. rchan' \in [Reqs -> Seq(Values)] /\ OneAnswerPerRequest'
    BY <1>1, <1>3, <1>4, ReplyOnce DEF RequestTypes
  <1>6. RequestTypes'
    BY <1>1, <1>5 DEF RequestTypes
  <1>7. ASSUME NEW r \in Reqs, Waiting(r)' PROVE Waiting(r)
    BY <1>7 DEF Waiting, Fresh
  <1>8. SentIfWaiting'
    BY <1>1, <1>7 DEF SentIfWaiting
  <1>9. ASSUME NEW r \in Reqs, Nothing(r) PROVE Nothing(r)'
    <2>1. r \notin rs
      BY <1>9 DEF Nothing
    <2>2. rchan'[r] = <<>>
      BY <1>9, <2>1 DEF Nothing
    <2>3. \A m \in Queued' : m.type = "Request" /\ m.req = r => m.id = 0
      BY <1>9 DEF Nothing
    <2>4. /\ \A e \in requestsMap' : e.req # r
          /\ \A t \in timers' : t.req # r
          /\ \A p \in wire' : p.auth[1] # r
      BY <1>9 DEF Nothing
    <2> QED
      BY <2>2, <2>3, <2>4 DEF Nothing
  <1>10. NotBegun'
    BY <1>1, <1>7, <1>9 DEF NotBegun
  <1>11. TriesLeft'
    <2>1. ASSUME NEW m \in Queued', m.type = "Request"
          PROVE  m.tries <= Tries[m.req] /\ (m.id # 0 => m.tries < Tries[m.req])
      <3>1. CASE m \in Queued
        BY <1>1, <2>1, <3>1 DEF TriesLeft
      <3>2. CASE m.id # 0 /\ m.tries < Tries[m.req]
        <4>1. m \in AllMessages
          BY <2>1 DEF ChannelTypes, Queued
        <4>2. m.tries \in Nat /\ m.req \in Reqs
          BY <2>1, <4>1 DEF AllMessages, Signals, Signal, Requests, Responses, Response, Cancels
        <4>3. Tries[m.req] \in Nat
          BY <4>2, SocketBounds
        <4> QED
          BY <3>2, <4>2, <4>3
      <3> QED
        BY <2>1, <3>1, <3>2
    <2>2. \A t \in timers' : t.tries <= Tries[t.req]
      BY <1>1 DEF TriesLeft
    <2> QED
      BY <2>1, <2>2 DEF TriesLeft
  <1>12. OpenEntries'
    <2> SUFFICES ASSUME NEW e \in requestsMap', Single(e.req)
                 PROVE  rchan'[e.req] = <<>> /\ \A f \in requestsMap' : f.req = e.req => f = e
      BY DEF OpenEntries, Single
    <2>1. e \in requestsMap /\ e.req \in Reqs /\ e.req \notin rs
      BY <1>2
    <2>2. rchan'[e.req] = rchan[e.req]
      BY <2>1
    <2> QED
      BY <1>1, <2>1, <2>2 DEF OpenEntries
  <1> QED
    BY <1>5, <1>6, <1>8, <1>10, <1>11, <1>12 DEF AnswerInv

\* What is known of a request that the event loop takes from the channel.
LEMMA TakenRequest ==
    ASSUME AnswerInv, NEW r \in Reqs, Receive("Request"), Msg.req = r
    PROVE  /\ Msg.tries \in Nat \ {0} /\ Msg.tries <= Tries[r] /\ Msg.id \in {0} \cup Ids
           /\ caller[r] = "sent" /\ ~Waiting(r)' /\ (Msg.id = 0 <=> Waiting(r))
           /\ Single(r) => Nothing(r) /\ Msg.id = 0 /\ Msg.tries = 1
  <1>1. /\ ChannelTypes /\ RequestTypes /\ FreshOnce /\ SentIfWaiting /\ NotBegun /\ TriesLeft
    BY DEF AnswerInv
  <1>2. /\ Queued' \subseteq Queued /\ Msg \in Queued /\ Msg \in AllMessages /\ Msg.type = "Request"
        /\ Fresh(Msg) => ~Waiting(r)'
    BY <1>1, ReceiveQueue DEF ChannelTypes
  <1>3. /\ Msg.tries \in Nat \ {0} /\ Tries[r] \in Nat \ {0} /\ Msg.id \in {0} \cup Ids
        /\ Msg.tries <= Tries[r] /\ (Msg.id # 0 => Msg.tries < Tries[r])
    <2>1. Msg.tries \in Nat \ {0} /\ Msg.id \in {0} \cup Ids
      BY <1>2 DEF AllMessages, Signals, Signal, Requests, Responses, Response, Cancels
    <2> QED
      BY <1>1, <1>2, <2>1, SocketBounds DEF TriesLeft
  <1>4. CASE Msg.id = 0
    <2>1. Waiting(r)
      BY <1>2, <1>4 DEF Waiting, Fresh
    <2>2. Single(r) => Msg.tries = 1
      BY <1>3 DEF Single
    <2> QED
      BY <1>1, <1>2, <1>3, <1>4, <2>1, <2>2 DEF SentIfWaiting, NotBegun, Fresh
  <1>5. CASE Msg.id # 0
    <2>1. ~Nothing(r)
      BY <1>2, <1>5 DEF Nothing
    <2>2. ~Waiting(r) /\ caller[r] # "idle"
      BY <1>1, <2>1 DEF NotBegun
    <2>3. ~Waiting(r)'
      BY <1>2, <2>2 DEF Waiting, Fresh
    <2>4. ~Single(r)
      BY <1>3, <1>5 DEF Single
    <2> QED
      BY <1>1, <1>3, <1>5, <2>2, <2>3, <2>4 DEF RequestTypes
  <1> QED
    BY <1>4, <1>5

\* The event loop takes a request from the channel, which it fails or sends.
LEMMA StepOfRequest ==
    ASSUME AnswerInv, NEW r \in Reqs, Receive("Request"), Msg.req = r,
           out' \in Seq(Signals), RequestTypes',
           \A e \in requestsMap' : e \in requestsMap \/ e.req = r,
           \A t \in timers' : t \in timers \/ (t.req = r /\ t.tries = Msg.tries),
           \A p \in wire' : p \in wire \/ p.auth[1] = r,
           \/ /\ \E value \in Values :
                   rchan' = [q \in Reqs |-> IF q \in {r} THEN Append(rchan[q], value) ELSE rchan[q]]
              /\ requestsMap' = requestsMap
           \/ /\ rchan' = rchan
              /\ \A e, f \in requestsMap' \ requestsMap : e = f
    PROVE  AnswerInv'
  <1>1. /\ ChannelTypes /\ RequestTypes /\ FreshOnce /\ SentIfWaiting /\ NotBegun /\ TriesLeft
        /\ OpenEntries /\ OneAnswerPerRequest
    BY DEF AnswerInv
  <1>2. /\ queue' \in Seq(AllMessages) /\ Queued' \subseteq Queued /\ FreshOnce'
        /\ Msg \in Queued /\ Msg \in AllMessages /\ Msg.type = "Request"
        /\ Fresh(Msg) => ~Waiting(r)'
    BY <1>1, ReceiveQueue DEF ChannelTypes
  <1>3. caller' = caller /\ readOut' = readOut
    BY DEF Receive, readVars
  <1>4. ChannelTypes'
    BY <1>1, <1>2, <1>3 DEF ChannelTypes
  <1>5. Msg.tries <= Tries[r]
    BY TakenRequest
  <1>6. ~Waiting(r)' /\ caller[r] = "sent" /\ (Single(r) => Nothing(r))
    BY TakenRequest
  <1>7. ASSUME NEW q \in Reqs, Waiting(q)' PROVE Waiting(q) /\ q # r
    BY <1>2, <1>6, <1>7 DEF Waiting, Fresh
  <1>8. SentIfWaiting'
    BY <1>1, <1>3, <1>7 DEF SentIfWaiting
  <1>9. \A q \in Reqs \ {r} : rchan'[q] = rchan[q]
    <2>1. CASE rchan' = rchan
      BY <2>1
    <2>2. ASSUME NEW value \in Values,
                 rchan' = [q \in Reqs |-> IF q \in {r} THEN Append(rchan[q], value) ELSE rchan[q]]
          PROVE  \A q \in Reqs \ {r} : rchan'[q] = rchan[q]
      BY <2>2
    <2> QED
      BY <2>1, <2>2
  <1>10. ASSUME NEW q \in Reqs, q # r, Nothing(q) PROVE Nothing(q)'
    BY <1>2, <1>9, <1>10 DEF Nothing
  <1>11. NotBegun'
    BY <1>1, <1>3, <1>6, <1>7, <1>10 DEF NotBegun
  <1>12. TriesLeft'
    BY <1>1, <1>2, <1>5 DEF TriesLeft
  <1>13. OpenEntries' /\ OneAnswerPerRequest'
    <2>1. ASSUME NEW value \in Values, requestsMap' = requestsMap,
                 rchan' = [q \in Reqs |-> IF q \in {r} THEN Append(rchan[q], value) ELSE rchan[q]]
          PROVE  OpenEntries' /\ OneAnswerPerRequest'
      <3>1. \A q \in {r} : Single(q) => rchan[q] = <<>>
        BY <1>6 DEF Nothing
      <3>2. OneAnswerPerRequest'
        BY <1>1, <2>1, <3>1, ReplyOnce DEF RequestTypes
      <3>3. \A e \in requestsMap : e.req \in Reqs /\ (Single(e.req) => e.req # r)
        BY <1>1, <1>6 DEF RequestTypes, Entries, Nothing
      <3> QED
        BY <1>1, <1>9, <2>1, <3>2, <3>3 DEF OpenEntries
    <2>2. ASSUME rchan' = rchan, \A e, f \in requestsMap' \ requestsMap : e = f
          PROVE  OpenEntries' /\ OneAnswerPerRequest'
      <3>1. OneAnswerPerRequest'
        BY <1>1, <2>2 DEF OneAnswerPerRequest
      <3> SUFFICES ASSUME NEW e \in requestsMap', Single(e.req)
                   PROVE  rchan'[e.req] = <<>> /\ \A f \in requestsMap' : f.req = e.req => f = e
        BY <3>1 DEF OpenEntries, Single
      <3>2. CASE e.req = r
        BY <1>6, <2>2, <3>2 DEF Nothing
      <3>3. CASE e.req # r
        BY <1>1, <2>2, <3>3 DEF OpenEntries
      <3> QED
        BY <3>2, <3>3
    <2> QED
      BY <2>1, <2>2
  <1> QED
    BY <1>2, <1>4, <1>8, <1>11, <1>12, <1>13 DEF AnswerInv

\* The request that a caller posts was not known to the socket.
LEMMA SendRequestAnswers ==
    ASSUME AnswerInv, NEW r \in Reqs, SendRadiusRequest(r)
    PROVE  AnswerInv'
  <1> DEFINE m == Request(r, Tries[r], 0)
  <1>1. /\ ChannelTypes /\ RequestTypes /\ FreshOnce /\ SentIfWaiting /\ NotBegun /\ TriesLeft
        /\ OpenEntries /\ OneAnswerPerRequest
    BY DEF AnswerInv
  <1>2. /\ caller[r] = "idle" /\ Send(m) /\ caller' = [caller EXCEPT ![r] = "sent"]
        /\ UNCHANGED <<out, requestsMap, lastRadiusId, timers, rchan, wire, readOut>>
    BY DEF SendRadiusRequest, netVars, readVars
  <1>3. /\ m \in AllMessages /\ m.type = "Request" /\ m.req = r /\ m.id = 0
        /\ m.tries = Tries[r] /\ m.tries \in Nat
    BY SocketBounds DEF AllMessages, Requests, Request
  <1> HIDE DEF m
  <1>4. ~Waiting(r) /\ Nothing(r)
    BY <1>1, <1>2 DEF SentIfWaiting, NotBegun
  <1>5. queue' \in Seq(AllMessages) /\ Queued' \subseteq Queued \cup {m} /\ FreshOnce'
    BY <1>1, <1>2, <1>3, <1>4, SendQueue DEF ChannelTypes
  <1>6. ChannelTypes'
    BY <1>1, <1>2, <1>5 DEF ChannelTypes
  <1>7. RequestTypes'
    BY <1>1, <1>2 DEF RequestTypes
  <1>8. \A q \in Reqs : caller'[q] = IF q = r THEN "sent" ELSE caller[q]
    BY <1>1, <1>2 DEF RequestTypes
  <1>9. \A q \in Reqs : Waiting(q)' => Waiting(q) \/ q = r
    BY <1>3, <1>5 DEF Waiting, Fresh
  <1>10. SentIfWaiting'
    BY <1>1, <1>8, <1>9 DEF SentIfWaiting
  <1>11. ASSUME NEW q \in Reqs, Nothing(q) PROVE Nothing(q)'
    <2>1. \A n \in Queued' : n.type = "Request" /\ n.req = q => n.id = 0
      BY <1>3, <1>5, <1>11 DEF Nothing
    <2> QED
      BY <1>2, <1>11, <2>1 DEF Nothing
  <1>12. NotBegun'
    BY <1>1, <1>4, <1>8, <1>9, <1>11 DEF NotBegun
  <1>13. TriesLeft'
    BY <1>1, <1>2, <1>3, <1>5 DEF TriesLeft
  <1>14. OpenEntries' /\ OneAnswerPerRequest'
    BY <1>1, <1>2 DEF OpenEntries, OneAnswerPerRequest
  <1> QED
    BY <1>5, <1>6, <1>7, <1>10, <1>12, <1>13, <1>14 DEF AnswerInv

LEMMA SendRefusedAnswers ==
    ASSUME AnswerInv, NEW r \in Reqs, SendRefused(r)
    PROVE  AnswerInv'
  <1>1. /\ ChannelTypes /\ RequestTypes /\ FreshOnce /\ SentIfWaiting /\ NotBegun /\ TriesLeft
        /\ OpenEntries /\ OneAnswerPerRequest
    BY DEF AnswerInv
  <1>2. /\ caller[r] = "idle" /\ caller' = [caller EXCEPT ![r] = "sent"]
        /\ rchan' = [rchan EXCEPT ![r] = Append(@, "notRequest")]
        /\ UNCHANGED <<queue, out, requestsMap, lastRadiusId, timers, wire, readOut>>
    BY DEF SendRefused, netVars, readVars, chanVars
  <1>3. ~Waiting(r) /\ Nothing(r)
    BY <1>1, <1>2 DEF SentIfWaiting, NotBegun
  <1>4. rchan' = [q \in Reqs |-> IF q \in {r} THEN Append(rchan[q], "notRequest") ELSE rchan[q]]
    BY <1>1, <1>2 DEF RequestTypes
  <1>5. rchan' \in [Reqs -> Seq(Values)] /\ OneAnswerPerRequest'
    <2>1. \A q \in {r} : Single(q) => rchan[q] = <<>>
      BY <1>3 DEF Nothing
    <2>2. "notRequest" \in Values /\ {r} \in SUBSET Reqs
      BY DEF Values
    <2>3. rchan \in [Reqs -> Seq(Values)]
      BY <1>1 DEF RequestTypes
    <2> QED
      BY <1>1, <1>4, <2>1, <2>2, <2>3, ReplyOnce
  <1>6. ChannelTypes' /\ RequestTypes' /\ FreshOnce' /\ TriesLeft'
    BY <1>1, <1>2, <1>5 DEF ChannelTypes, RequestTypes, FreshOnce, TriesLeft, Queued
  <1>7. \A q \in Reqs : caller'[q] = IF q = r THEN "sent" ELSE caller[q]
    BY <1>1, <1>2 DEF RequestTypes
  <1>8. \A q \in Reqs : Waiting(q)' <=> Waiting(q)
    BY <1>2 DEF Waiting, Queued
  <1>9. SentIfWaiting'
    BY <1>1, <1>7, <1>8 DEF SentIfWaiting
  <1>10. ASSUME NEW q \in Reqs, q # r, Nothing(q) PROVE Nothing(q)'
    BY <1>2, <1>4, <1>10 DEF Nothing, Queued
  <1>11. NotBegun'
    BY <1>1, <1>3, <1>7, <1>8, <1>10 DEF NotBegun
  <1>12. OpenEntries'
    <2>1. \A e \in requestsMap : e.req \in Reqs /\ e.req # r
      BY <1>1, <1>3 DEF RequestTypes, Entries, Nothing
    <2> QED
      BY <1>1, <1>2, <1>4, <2>1 DEF OpenEntries
  <1> QED
    BY <1>5, <1>6, <1>9, <1>11, <1>12 DEF AnswerInv

\* A step that does not touch the requests.
LEMMA StepElsewhere ==
    ASSUME AnswerInv, ChannelTypes', FreshOnce', UNCHANGED <<requestVars, wire>>,
           \A m \in Queued' : m \in Queued \/ m.type # "Request"
    PROVE  AnswerInv'
  <1>1. UNCHANGED <<requestsMap, lastRadiusId, timers, rchan, caller, wire>> /\ RequestTypes
    BY DEF requestVars, AnswerInv
  <1>2. {} \in SUBSET {e.req : e \in requestsMap} /\ "error" \in Values
    BY DEF Values
  <1>3. rchan' = [r \in Reqs |-> IF r \in {} THEN Append(rchan[r], "error") ELSE rchan[r]]
    BY <1>1 DEF RequestTypes
  <1>4. timers' \subseteq AllTimers /\ requestsMap' \subseteq requestsMap
    BY <1>1 DEF RequestTypes
  <1> QED
    BY <1>1, <1>2, <1>3, <1>4, StepEnds

\* A message other than a request is posted.
LEMMA StepPosts ==
    ASSUME AnswerInv, NEW m \in Signals \cup Responses, Send(m), UNCHANGED <<requestVars, wire>>,
           out' \in Seq(Signals), readOut' \in Seq(Signals \cup Responses)
    PROVE  AnswerInv'
  <1>1. m \in AllMessages /\ m.type # "Request"
    BY DEF AllMessages, Signals, Signal, Responses, Response
  <1>2. queue \in Seq(AllMessages) /\ FreshOnce
    BY DEF AnswerInv, ChannelTypes
  <1>3. queue' \in Seq(AllMessages) /\ Queued' \subseteq Queued \cup {m} /\ FreshOnce'
    BY <1>1, <1>2, SendQueue DEF Fresh
  <1>4. ChannelTypes'
    BY <1>3 DEF ChannelTypes
  <1> QED
    BY <1>1, <1>3, <1>4, StepElsewhere

\* A step that leaves the channel and the requests alone.
LEMMA StepIdle ==
    ASSUME AnswerInv, UNCHANGED <<queue, out, requestVars, wire>>,
           readOut' \in Seq(Signals \cup Responses)
    PROVE  AnswerInv'
  <1>1. ChannelTypes' /\ FreshOnce' /\ Queued' = Queued
    BY DEF AnswerInv, ChannelTypes, FreshOnce, Queued
  <1> QED
    BY <1>1, StepElsewhere

LEMMA UserAnswers ==
    ASSUME AnswerInv, SetDown \/ \E k \in CloseIds : Closer(k)
    PROVE  AnswerInv'
  <1> USE DEF netVars, readVars
  <1>1. out \in Seq(Signals) /\ readOut \in Seq(Signals \cup Responses)
    BY DEF AnswerInv, ChannelTypes
  <1>2. Signal("SetDown") \in Signals \cup Responses /\ Signal("Close") \in Signals \cup Responses
    BY DEF Signals
  <1>3. CASE SetDown
    <2>1. Send(Signal("SetDown")) /\ UNCHANGED <<requestVars, wire, out, readOut>>
      BY <1>3 DEF SetDown
    <2> QED
      BY <1>1, <1>2, <2>1, StepPosts
  <1>4. ASSUME NEW k \in CloseIds, Closer(k) PROVE AnswerInv'
    <2>1. UNCHANGED <<requestVars, wire, readOut>>
      BY <1>4 DEF Closer, CloseBegin, CloseReadLoopDone, CloseGroupDone, ClosePost, CloseChannel,
         CloseStep
    <2>2. CASE ClosePost(k)
      <3>1. Send(Signal("Close")) /\ out' = out
        BY <2>2 DEF ClosePost
      <3> QED
        BY <1>1, <1>2, <2>1, <3>1, StepPosts
    <2>3. CASE CloseBegin(k) \/ CloseReadLoopDone(k) \/ CloseGroupDone(k) \/ CloseChannel(k)
      <3>1. UNCHANGED <<queue, out>>
        BY <2>3 DEF CloseBegin, CloseReadLoopDone, CloseGroupDone, CloseChannel, chanVars
      <3> QED
        BY <1>1, <2>1, <3>1, StepIdle
    <2> QED
      BY <1>4, <2>2, <2>3 DEF Closer
  <1> QED
    BY <1>3, <1>4

LEMMA ReadAnswers ==
    ASSUME AnswerInv, ReadPacket \/ ReadFails \/ ReadPost
    PROVE  AnswerInv'
  <1> USE DEF netVars, readVars, chanVars
  <1>1. out \in Seq(Signals) /\ readOut \in Seq(Signals \cup Responses) /\ wire \subseteq Packet
    BY DEF AnswerInv, ChannelTypes, RequestTypes
  <1>2. CASE ReadPacket
    <2>1. PICK p \in wire : readOut' = <<Response(p)>>
      BY <1>2 DEF ReadPacket
    <2>2. Response(p) \in Signals \cup Responses
      BY <1>1 DEF Responses
    <2>3. readOut' \in Seq(Signals \cup Responses)
      BY <2>1, <2>2
    <2>4. UNCHANGED <<queue, out, requestVars, wire>>
      BY <1>2 DEF ReadPacket
    <2> QED
      BY <2>3, <2>4, StepIdle
  <1>3. CASE ReadFails
    <2>1. Signal("ReadError") \in Signals \cup Responses
      BY DEF Signals
    <2>2. readOut' = <<>> \/ readOut' = <<Signal("ReadError")>>
      BY <1>3 DEF ReadFails
    <2>3. readOut' \in Seq(Signals \cup Responses)
      <3> DEFINE m == Signal("ReadError")
      <3>1. m \in Signals \cup Responses /\ (readOut' = <<>> \/ readOut' = <<m>>)
        BY <2>1, <2>2
      <3> HIDE DEF m
      <3>2. <<>> \in Seq(Signals \cup Responses) /\ <<m>> \in Seq(Signals \cup Responses)
        BY <3>1
      <3> QED
        BY <3>1, <3>2, Zenon
    <2>4. UNCHANGED <<queue, out, requestVars, wire>>
      BY <1>3 DEF ReadFails
    <2> QED
      BY <2>3, <2>4, StepIdle
  <1>4. CASE ReadPost
    <2>1. /\ readOut # <<>> /\ Send(Head(readOut)) /\ readOut' = <<>>
          /\ UNCHANGED <<out, requestVars, wire>>
      BY <1>4 DEF ReadPost
    <2> DEFINE m == Head(readOut)
    <2>2. m \in Signals \cup Responses /\ readOut' \in Seq(Signals \cup Responses)
      BY <1>1, <2>1
    <2>3. Send(m) /\ UNCHANGED <<requestVars, wire>> /\ out' \in Seq(Signals)
      BY <1>1, <2>1
    <2> HIDE DEF m
    <2> QED
      BY <2>2, <2>3, StepPosts
  <1> QED
    BY <1>2, <1>3, <1>4

LEMMA LoopSendAnswers ==
    ASSUME AnswerInv, LoopSend
    PROVE  AnswerInv'
  <1>1. out \in Seq(Signals) /\ readOut \in Seq(Signals \cup Responses)
    BY DEF AnswerInv, ChannelTypes
  <1>2. /\ out # <<>> /\ Send(Head(out)) /\ out' = Tail(out)
        /\ UNCHANGED <<requestVars, wire, readOut>>
    BY DEF LoopSend, netVars, readVars
  <1>3. Head(out) \in Signals \cup Responses /\ out' \in Seq(Signals)
    BY <1>1, <1>2
  <1> QED
    BY <1>1, <1>2, <1>3, StepPosts

\* A timer retransmits or cancels.
LEMMA TimerAnswers ==
    ASSUME AnswerInv, Timers
    PROVE  AnswerInv'
  <1>1. /\ ChannelTypes /\ RequestTypes /\ FreshOnce /\ TriesLeft
    BY DEF AnswerInv
  <1>2. PICK t \in timers : TimerFire(t) \/ TimerPost(t)
    BY DEF Timers
  <1>3. t \in AllTimers /\ t.req \in Reqs /\ t.tries \in Nat \ {0} /\ t.id \in Ids /\ t.id # 0
    BY <1>1, SocketBounds DEF RequestTypes, AllTimers, Ids
  <1>4. UNCHANGED <<caller, wire, lastRadiusId, requestsMap, rchan, out, readOut>>
    BY <1>2 DEF TimerFire, TimerPost, chanVars, netVars, readVars
  <1>5. {} \in SUBSET {e.req : e \in requestsMap} /\ "error" \in Values
    BY DEF Values
  <1>6. rchan' = [r \in Reqs |-> IF r \in {} THEN Append(rchan[r], "error") ELSE rchan[r]]
    BY <1>1, <1>4 DEF RequestTypes
  <1>7. CASE TimerFire(t)
    <2>1. timers' = (timers \ {t}) \cup {[t EXCEPT !.fired = TRUE]} /\ queue' = queue
      BY <1>7 DEF TimerFire, chanVars
    <2>2. timers' \subseteq AllTimers
      <3>1. [t EXCEPT !.fired = TRUE] \in AllTimers
        BY <1>3 DEF AllTimers
      <3> QED
        BY <1>1, <2>1, <3>1 DEF RequestTypes
    <2>3. \A v \in timers' : \E u \in timers : u.req = v.req /\ u.tries = v.tries
      <3>1. [t EXCEPT !.fired = TRUE].req = t.req /\ [t EXCEPT !.fired = TRUE].tries = t.tries
        BY <1>3 DEF AllTimers
      <3> QED
        BY <2>1, <3>1
    <2>4. ChannelTypes' /\ FreshOnce' /\ Queued' = Queued
      BY <1>1, <1>4, <2>1 DEF ChannelTypes, FreshOnce, Queued
    <2> QED
      BY <1>4, <1>5, <1>6, <2>2, <2>3, <2>4, StepEnds
  <1>8. CASE TimerPost(t)
    <2>1. timers' = timers \ {t}
      BY <1>8 DEF TimerPost
    <2>2. timers' \subseteq AllTimers /\ \A v \in timers' : v \in timers
      BY <1>1, <2>1 DEF RequestTypes
    <2>3. PICK m \in AllMessages :
            /\ Send(m) /\ ~Fresh(m)
            /\ m.type = "Request" => m.id # 0 /\ m.tries < Tries[m.req] /\ m.req = t.req
      <3>1. CASE t.tries <= 1 /\ Send(Cancel(Dest[t.req], t.id))
        <4>1. Cancel(Dest[t.req], t.id) \in Cancels
          BY <1>3, DestAssumption DEF Cancel, Cancels
        <4>2. Cancel(Dest[t.req], t.id).type = "Cancel"
          BY DEF Cancel
        <4> QED
          BY <3>1, <4>1, <4>2 DEF AllMessages, Fresh
      <3>2. CASE t.tries > 1 /\ Send(Request(t.req, t.tries - 1, t.id))
        <4> DEFINE m == Request(t.req, t.tries - 1, t.id)
        <4>1. m \in Requests
          BY <1>3, <3>2 DEF Request, Requests
        <4>2. m.id = t.id /\ m.tries = t.tries - 1 /\ m.req = t.req
          BY DEF Request
        <4>3. t.tries <= Tries[t.req] /\ Tries[t.req] \in Nat
          BY <1>1, <1>3, SocketBounds DEF TriesLeft
        <4>4. m.tries < Tries[m.req]
          BY <1>3, <4>2, <4>3
        <4> HIDE DEF m
        <4>5. Send(m)
          BY <3>2 DEF m
        <4> QED
          BY <1>3, <4>1, <4>2, <4>4, <4>5 DEF AllMessages, Fresh
      <3> QED
        BY <1>8, <3>1, <3>2 DEF TimerPost
    <2>4. queue' \in Seq(AllMessages) /\ Queued' \subseteq Queued \cup {m} /\ FreshOnce'
      BY <1>1, <2>3, SendQueue DEF ChannelTypes
    <2>5. ChannelTypes'
      BY <1>1, <1>4, <2>4 DEF ChannelTypes
    <2>6. \A n \in Queued' :
            \/ n \in Queued
            \/ n.type # "Request"
            \/ n.id # 0 /\ n.tries < Tries[n.req] /\ \E u \in timers : u.req = n.req
      BY <2>3, <2>4
    <2> QED
      BY <1>4, <1>5, <1>6, <2>2, <2>4, <2>5, <2>6, StepEnds
  <1> QED
    BY <1>2, <1>7, <1>8

\* The event loop ends requests of its map, or none.
LEMMA LoopEnds ==
    ASSUME AnswerInv, NEW type, Receive(type), UNCHANGED <<wire, lastRadiusId, out>>,
           requestsMap' \subseteq requestsMap, timers' \subseteq timers,
           NEW rs \in SUBSET {e.req : e \in requestsMap}, NEW value \in Values,
           rchan' = [r \in Reqs |-> IF r \in rs THEN Append(rchan[r], value) ELSE rchan[r]],
           \A e \in requestsMap' : Single(e.req) => e.req \notin rs
    PROVE  AnswerInv'
  <1>1. ChannelTypes /\ RequestTypes /\ FreshOnce
    BY DEF AnswerInv
  <1>2. queue' \in Seq(AllMessages) /\ Queued' \subseteq Queued /\ FreshOnce'
    BY <1>1, ReceiveQueue DEF ChannelTypes
  <1>3. caller' = caller /\ readOut' = readOut
    BY DEF Receive, readVars
  <1>4. ChannelTypes' /\ timers' \subseteq AllTimers
    BY <1>1, <1>2, <1>3 DEF ChannelTypes, RequestTypes
  <1> QED
    BY <1>2, <1>3, <1>4, StepEnds

LEMMA EndingAnswers ==
    ASSUME AnswerInv, OnClose \/ OnReadError \/ OnSetDown \/ OnResponse \/ OnCancel
    PROVE  AnswerInv'
  <1>1. RequestTypes /\ OpenEntries
    BY DEF AnswerInv
  <1>2. \A e \in requestsMap : e.req \in Reqs
    BY <1>1 DEF RequestTypes, Entries
  <1> USE DEF netVars
  <1>3. CASE OnClose
    <2>1. /\ Receive("Close") /\ UNCHANGED <<wire, lastRadiusId, out, requestsMap, timers, rchan>>
      BY <1>3 DEF OnClose
    <2>2. {} \in SUBSET {e.req : e \in requestsMap} /\ "error" \in Values
      BY DEF Values
    <2>3. rchan' = [r \in Reqs |-> IF r \in {} THEN Append(rchan[r], "error") ELSE rchan[r]]
      BY <1>1, <2>1 DEF RequestTypes
    <2> QED
      BY <2>1, <2>2, <2>3, LoopEnds
  <1>4. CASE OnReadError \/ OnSetDown
    <2> DEFINE rs == {e.req : e \in requestsMap}
    <2>1. /\ Receive("ReadError") \/ Receive("SetDown")
          /\ timers' \subseteq timers /\ requestsMap' = {} /\ UNCHANGED <<wire, lastRadiusId, out>>
          /\ rchan' = [r \in Reqs |-> IF r \in rs THEN Append(rchan[r], "cancelled") ELSE rchan[r]]
      BY <1>4 DEF OnReadError, OnSetDown, GoDown, CancelAll, Reply
    <2>2. rs \in SUBSET {e.req : e \in requestsMap} /\ "cancelled" \in Values
      BY DEF Values
    <2> HIDE DEF rs
    <2> QED
      BY <2>1, <2>2, LoopEnds
  <1>5. CASE OnResponse
    <2> DEFINE entry == Entry(Msg.ep, Msg.id)
    <2>1. /\ Receive("Response") /\ timers' \subseteq timers /\ requestsMap' = requestsMap \ entry
          /\ UNCHANGED <<wire, lastRadiusId, out>>
      BY <1>5 DEF OnResponse
    <2>2. entry \subseteq requestsMap
      BY DEF Entry
    <2>3. CASE rchan' = rchan
      <3>1. {} \in SUBSET {e.req : e \in requestsMap} /\ "error" \in Values
        BY DEF Values
      <3>2. rchan' = [r \in Reqs |-> IF r \in {} THEN Append(rchan[r], "error") ELSE rchan[r]]
        BY <1>1, <2>3 DEF RequestTypes
      <3> HIDE DEF entry
      <3>3. requestsMap' \subseteq requestsMap
        BY <2>1
      <3> QED
        BY <2>1, <3>1, <3>2, <3>3, LoopEnds
    <2>4. ASSUME NEW e \in entry, NEW value \in Values, Reply({e.req}, value)
          PROVE  AnswerInv'
      <3> HIDE DEF entry
      <3>1. e \in requestsMap /\ requestsMap' \subseteq requestsMap
        BY <2>1, <2>2
      <3>2. {e.req} \in SUBSET {f.req : f \in requestsMap}
        BY <3>1
      <3>3. rchan' = [r \in Reqs |-> IF r \in {e.req} THEN Append(rchan[r], value) ELSE rchan[r]]
        BY <2>4 DEF Reply
      <3>4. \A f \in requestsMap' : Single(f.req) => f.req \notin {e.req}
        BY <1>1, <2>1, <3>1 DEF OpenEntries
      <3> QED
        BY <2>1, <3>1, <3>2, <3>3, <3>4, LoopEnds
    <2>5. rchan' = rchan \/ \E e \in entry, value \in Values : Reply({e.req}, value)
      BY <1>5 DEF OnResponse, Values
    <2> QED
      BY <2>3, <2>4, <2>5
  <1>6. CASE OnCancel
    <2> DEFINE entry == Entry(Msg.ep, Msg.id)
               rs == {e.req : e \in entry}
    <2>1. /\ Receive("Cancel") /\ timers' \subseteq timers /\ requestsMap' = requestsMap \ entry
          /\ UNCHANGED <<wire, lastRadiusId, out>>
          /\ rchan' = [r \in Reqs |-> IF r \in rs THEN Append(rchan[r], "timeout") ELSE rchan[r]]
      BY <1>6 DEF OnCancel, Reply
    <2>2. entry \subseteq requestsMap
      BY DEF Entry
    <2> HIDE DEF entry
    <2>3. rs \in SUBSET {e.req : e \in requestsMap} /\ "timeout" \in Values
      BY <2>2 DEF Values
    <2>4. \A f \in requestsMap' : Single(f.req) => f.req \notin rs
      BY <1>1, <2>1, <2>2 DEF OpenEntries
    <2> HIDE DEF rs
    <2>5. requestsMap' \subseteq requestsMap
      BY <2>1
    <2> QED
      BY <2>1, <2>3, <2>4, <2>5, LoopEnds
  <1> QED
    BY <1>3, <1>4, <1>5, <1>6

\* getNextRadiusId: an identifier or none, the same one for a retransmission.
LEMMA NextIdType ==
    ASSUME NEW ep, NEW current \in {0} \cup Ids
    PROVE  /\ NextRadiusId(ep, current) \in {0} \cup Ids
           /\ current # 0 => NextRadiusId(ep, current) = current
  <1> DEFINE distance(id) == (id - lastRadiusId[ep] - 1) % MaxId
             nearest == {id \in FreeIds(ep) : \A other \in FreeIds(ep) : distance(id) <= distance(other)}
  <1>1. nearest # {} => (CHOOSE id \in nearest : TRUE) \in nearest
    OBVIOUS
  <1>2. nearest \subseteq Ids
    BY DEF FreeIds
  <1>3. NextRadiusId(ep, current)
          = CASE current # 0 -> current
              [] current = 0 /\ nearest # {} -> CHOOSE id \in nearest : TRUE
              [] OTHER -> 0
    BY DEF NextRadiusId
  <1> HIDE DEF nearest
  <1>4. CASE current # 0
    BY <1>3, <1>4
  <1>5. CASE current = 0 /\ nearest # {}
    BY <1>1, <1>2, <1>3, <1>5
  <1>6. CASE current = 0 /\ nearest = {}
    BY <1>3, <1>6
  <1> QED
    BY <1>4, <1>5, <1>6

\* What the entry, the timer and the packet of a request that is written are.
LEMMA WrittenTypes ==
    ASSUME NEW r \in Reqs, NEW id \in Ids, NEW n \in Nat \ {0}
    PROVE  /\ [ep |-> Dest[r], id |-> id, auth |-> Authenticator(r, n)] \in Packet
           /\ [ep |-> Dest[r], id |-> id, req |-> r, tries |-> n] \in Entries
           /\ [req |-> r, tries |-> n, id |-> id, fired |-> FALSE] \in AllTimers
           /\ Authenticator(r, n)[1] = r
  <1>1. Dest[r] \in Endpoints
    BY DestAssumption
  <1>2. Authenticator(r, n) \in Reqs \X Nat /\ Authenticator(r, n)[1] = r
    BY DEF Authenticator
  <1> QED
    BY <1>1, <1>2 DEF Packet, Entries, AllTimers

LEMMA RequestAnswers ==
    ASSUME AnswerInv, NEW r \in Reqs, OnRequest(r)
    PROVE  AnswerInv'
  <1> DEFINE id == NextRadiusId(Dest[r], Msg.id)
             n == Msg.tries
  <1>1. Receive("Request") /\ Msg.req = r
    BY DEF OnRequest
  <1>2. ChannelTypes /\ RequestTypes /\ FreshOnce
    BY DEF AnswerInv
  <1>3. Msg \in AllMessages /\ Msg.type = "Request"
    BY <1>1, <1>2, ReceiveQueue DEF ChannelTypes
  <1>4. Msg.id \in {0} \cup Ids /\ n \in Nat \ {0}
    BY <1>3 DEF AllMessages, Signals, Signal, Requests, Responses, Response, Cancels
  <1>5. id \in {0} \cup Ids
    BY <1>4, NextIdType
  <1>6. lastRadiusId' = IF Msg.id = 0 /\ id # 0 THEN [lastRadiusId EXCEPT ![Dest[r]] = id]
                        ELSE lastRadiusId
    BY DEF OnRequest
  <1>7. \/ RequestExhausted(r, id) \/ RequestNotEncoded(r, id)
        \/ RequestNotWritten(r, id) \/ RequestWritten(r, id)
    BY DEF OnRequest
  <1> HIDE DEF id, n
  <1>8. lastRadiusId' \in [Endpoints -> 0..MaxId]
    <2>1. id \in 0..MaxId /\ Dest[r] \in Endpoints
      BY <1>5, SocketBounds, DestAssumption DEF Ids
    <2>2. lastRadiusId \in [Endpoints -> 0..MaxId]
      BY <1>2 DEF RequestTypes
    <2> QED
      BY <1>6, <2>1, <2>2
  <1>9. CASE RequestExhausted(r, id) \/ RequestNotEncoded(r, id) \/ RequestNotWritten(r, id)
    <2>1. \E reason \in {"exhausted", "error"} : RequestFails(r, reason)
      BY <1>9 DEF RequestExhausted, RequestNotEncoded, RequestNotWritten
    <2>2. PICK value \in Values : RequestFails(r, value)
      BY <2>1 DEF Values
    <2>3. /\ rchan' = [q \in Reqs |-> IF q \in {r} THEN Append(rchan[q], value) ELSE rchan[q]]
          /\ requestsMap' = requestsMap /\ timers' = timers /\ wire' = wire
      BY <2>2 DEF RequestFails, Reply
    <2>4. out' = out \/ out' = <<Signal("SetDown")>>
      BY <1>9 DEF RequestExhausted, RequestNotEncoded, RequestNotWritten
    <2>5. out' \in Seq(Signals)
      <3>1. Signal("SetDown") \in Signals
        BY DEF Signals
      <3>2. <<Signal("SetDown")>> \in Seq(Signals)
        BY <3>1
      <3> QED
        BY <1>2, <2>4, <3>2, Zenon DEF ChannelTypes
    <2>6. RequestTypes'
      <3>1. \A q \in Reqs : rchan[q] \in Seq(Values) /\ Append(rchan[q], value) \in Seq(Values)
        BY <1>2 DEF RequestTypes
      <3>2. rchan' \in [Reqs -> Seq(Values)]
        BY <2>3, <3>1
      <3>3. caller' = caller
        BY <1>1 DEF Receive
      <3> QED
        BY <1>2, <1>8, <2>3, <3>2, <3>3 DEF RequestTypes
    <2>7. /\ \A e \in requestsMap' : e \in requestsMap \/ e.req = r
          /\ \A t \in timers' : t \in timers \/ (t.req = r /\ t.tries = Msg.tries)
          /\ \A p \in wire' : p \in wire \/ p.auth[1] = r
      BY <2>3
    <2> QED
      BY <1>1, <2>3, <2>5, <2>6, <2>7, StepOfRequest
  <1>10. CASE RequestWritten(r, id)
    <2> DEFINE packet == [ep |-> Dest[r], id |-> id, auth |-> Authenticator(r, n)]
               entry == [ep |-> Dest[r], id |-> id, req |-> r, tries |-> n]
               timer == [req |-> r, tries |-> n, id |-> id, fired |-> FALSE]
    <2>1. /\ wire' = wire \cup {packet} /\ timers' = timers \cup {timer}
          /\ requestsMap' = (requestsMap \ Entry(Dest[r], id)) \cup {entry}
          /\ rchan' = rchan /\ out' = out /\ id \in Ids
      BY <1>5, <1>10 DEF RequestWritten, n
    <2>2. packet \in Packet /\ entry \in Entries /\ timer \in AllTimers /\ packet.auth[1] = r
      BY <1>4, <2>1, WrittenTypes
    <2>3. entry.req = r /\ timer.req = r /\ timer.tries = n
      OBVIOUS
    <2> HIDE DEF packet, entry, timer
    <2>4. caller' = caller
      BY <1>1 DEF Receive
    <2>5. RequestTypes'
      BY <1>2, <1>8, <2>1, <2>2, <2>4 DEF RequestTypes
    <2>6. /\ \A e \in requestsMap' : e \in requestsMap \/ e.req = r
          /\ \A t \in timers' : t \in timers \/ (t.req = r /\ t.tries = Msg.tries)
          /\ \A p \in wire' : p \in wire \/ p.auth[1] = r
          /\ \A e, f \in requestsMap' \ requestsMap : e = f
      BY <2>1, <2>2, <2>3 DEF n
    <2>7. out' \in Seq(Signals)
      BY <1>2, <2>1 DEF ChannelTypes
    <2> QED
      BY <1>1, <2>1, <2>5, <2>6, <2>7, StepOfRequest
  <1> QED
    BY <1>7, <1>9, <1>10

LEMMA AnswersPreserved == AnswerInv /\ [Next]_vars => AnswerInv'
  <1> SUFFICES ASSUME AnswerInv, [Next]_vars PROVE AnswerInv'
    OBVIOUS
  <1>1. CASE EventLoop
    BY <1>1, LoopSendAnswers, EndingAnswers, RequestAnswers DEF EventLoop
  <1>2. CASE SetDown \/ \E k \in CloseIds : Closer(k)
    BY <1>2, UserAnswers
  <1>3. CASE Timers
    BY <1>3, TimerAnswers
  <1>4. CASE ReadPacket \/ ReadFails \/ ReadPost
    BY <1>4, ReadAnswers
  <1>5. ASSUME NEW r \in Reqs, SendRadiusRequest(r) \/ SendRefused(r) PROVE AnswerInv'
    BY <1>5, SendRequestAnswers, SendRefusedAnswers
  <1>6. CASE UNCHANGED vars
    <2>1. UNCHANGED <<queue, out, requestVars, wire, readOut>>
      BY <1>6 DEF vars, chanVars, netVars, readVars
    <2> QED
      BY <2>1, StepIdle DEF AnswerInv, ChannelTypes
  <1> QED
    BY <1>1, <1>2, <1>3, <1>4, <1>5, <1>6 DEF Next

\* The response channel of a request that is not retransmitted is written at most once, whatever
\* answers, time-outs, errors of the socket and SetDown() arrive in whatever order: no case of
\* eventLoop, nor cancelAll, writes to a channel that another one closed.
THEOREM AnsweredOnce == Spec => []OneAnswerPerRequest
  <1>1. AnswerInv => OneAnswerPerRequest
    BY DEF AnswerInv
  <1> QED
    BY <1>1, InitAnswers, AnswersPreserved, PTL DEF Spec

-----------------------------------------------------------------------------
(* Late answers and late cancellations *)

\* A packet of r was sent to ep with this identifier
Sent(ep, id, r) == \E p \in wire : p.ep = ep /\ p.id = id /\ p.auth[1] = r
PacketOf(e) == [ep |-> Dest[e.req], id |-> e.id, auth |-> Authenticator(e.req, e.tries)]
Answers(m) == [ep |-> m.ep, id |-> m.id, auth |-> m.auth]

\* What a message is about was sent
Founded(m) ==
    /\ m.type = "Request" /\ m.id # 0 => Sent(Dest[m.req], m.id, m.req)
    /\ m.type = "Response" => Answers(m) \in wire
    /\ m.type = "Cancel" => \E r \in Reqs : Sent(m.ep, m.id, r)

Evidence ==
    /\ \A e \in requestsMap : e.ep = Dest[e.req] /\ PacketOf(e) \in wire
    /\ \A t \in timers : PacketOf(t) \in wire
    /\ \A m \in Queued : Founded(m)
    /\ \A i \in 1..Len(readOut) : readOut[i].type = "Response" => Answers(readOut[i]) \in wire
    /\ \A p \in wire :
         /\ Dest[p.auth[1]] = p.ep
         /\ Single(p.auth[1]) => p.auth = Authenticator(p.auth[1], 1)

\* The requests of an endpoint that the event loop has taken
Begun(ep) == {r \in Reqs : Dest[r] = ep /\ caller[r] = "sent" /\ ~Waiting(r)}

\* Until the identifiers have come around once, they are given in order, once each
FirstRound ==
    \A ep \in Endpoints : Few(ep) =>
        /\ lastRadiusId[ep] <= Cardinality(Begun(ep))
        /\ \A p \in wire : p.ep = ep => p.id <= lastRadiusId[ep]
        /\ \A p, q \in wire : p.ep = ep /\ q.ep = ep /\ p.id = q.id => p.auth[1] = q.auth[1]

OneTimer == \A t, u \in timers : Single(t.req) /\ t.req = u.req => t = u

\* A cancellation in the channel is that of a request whose timer has fired
CancelFits(m, p) ==
    m.type = "Cancel" /\ p.ep = m.ep /\ p.id = m.id /\ Single(p.auth[1]) /\ Few(p.ep)
CancelledFired ==
    \A m \in Queued, p \in wire : CancelFits(m, p) => \A t \in timers : t.req # p.auth[1]

LateInv == AnswerInv /\ Evidence /\ FirstRound /\ OneTimer /\ CancelledFired /\ LateAnswersHarmless

LEMMA InitLate == Init => LateInv
  <1> SUFFICES ASSUME Init PROVE LateInv
    OBVIOUS
  <1>1. AnswerInv
    BY InitAnswers
  <1>2. Queued = {} /\ wire = {} /\ timers = {} /\ requestsMap = {} /\ readOut = <<>>
    BY DEF Init, Queued
  <1>3. Evidence /\ OneTimer /\ CancelledFired
    BY <1>2 DEF Evidence, OneTimer, CancelledFired
  <1>4. FirstRound
    <2>1. ASSUME NEW ep \in Endpoints PROVE lastRadiusId[ep] <= Cardinality(Begun(ep))
      <3>1. lastRadiusId[ep] = 0
        BY DEF Init
      <3>2. IsFiniteSet(Begun(ep))
        <4>1. Begun(ep) \subseteq Reqs
          BY DEF Begun
        <4> QED
          BY <4>1, DestAssumption, FS_Subset
      <3>3. Cardinality(Begun(ep)) \in Nat
        BY <3>2, FS_CardinalityType
      <3> QED
        BY <3>1, <3>3
    <2> QED
      BY <1>2, <2>1 DEF FirstRound
  <1>5. LateAnswersHarmless
    BY DEF Init, LateAnswersHarmless
  <1> QED
    BY <1>1, <1>3, <1>4, <1>5 DEF LateInv

LEMMA ModZero ==
    ASSUME NEW m \in Nat \ {0}, NEW x \in Int, -m < x, x < m
    PROVE  x % m \in Nat /\ (x % m = 0 <=> x = 0)
  <1>1. x % m \in 0..(m - 1)
    BY SMT
  <1>2. CASE x = 0
    BY <1>2
  <1>3. CASE x > 0
    <2>1. x % m = x
      BY <1>3
    <2> QED
      BY <1>3, <2>1
  <1>4. CASE x < 0
    <2>1. x % m = x + m
      BY <1>4
    <2> QED
      BY <1>4, <2>1
  <1> QED
    BY <1>1, <1>2, <1>3, <1>4

\* getNextRadiusId goes on from the last identifier while no later one is taken.
LEMMA NextIdInOrder ==
    ASSUME NEW ep \in Endpoints, RequestTypes, lastRadiusId[ep] < MaxId,
           \A e \in requestsMap : e.ep = ep => e.id <= lastRadiusId[ep]
    PROVE  NextRadiusId(ep, 0) = lastRadiusId[ep] + 1
  <1> DEFINE L == lastRadiusId[ep]
             distance(id) == (id - L - 1) % MaxId
             nearest == {id \in FreeIds(ep) : \A other \in FreeIds(ep) : distance(id) <= distance(other)}
  <1>1. L \in Nat /\ L < MaxId /\ MaxId \in Nat \ {0}
    BY SocketBounds DEF RequestTypes
  <1>2. NextRadiusId(ep, 0) = IF nearest # {} THEN CHOOSE id \in nearest : TRUE ELSE 0
    BY DEF NextRadiusId
  <1>3. L + 1 \in FreeIds(ep)
    <2>1. \A e \in requestsMap : e.ep = ep => e.id # L + 1
      <3>1. \A e \in requestsMap : e.id \in Nat
        BY <1>1 DEF RequestTypes, Entries, Ids
      <3> QED
        BY <1>1, <3>1
    <2>2. Entry(ep, L + 1) = {}
      BY <2>1 DEF Entry
    <2>3. L + 1 \in Ids
      BY <1>1 DEF Ids
    <2> QED
      BY <2>2, <2>3 DEF FreeIds
  <1> HIDE DEF L
  <1>4. \A id \in FreeIds(ep) : distance(id) \in Nat /\ (distance(id) = 0 <=> id = L + 1)
    <2> TAKE id \in FreeIds(ep)
    <2>1. id \in 1..MaxId
      BY DEF FreeIds, Ids
    <2> DEFINE x == id - L - 1
    <2>2. x \in Int /\ -MaxId < x /\ x < MaxId /\ (x = 0 <=> id = L + 1)
      BY <1>1, <2>1
    <2> HIDE DEF x
    <2>3. x % MaxId \in Nat /\ (x % MaxId = 0 <=> x = 0)
      BY <1>1, <2>2, ModZero
    <2> QED
      BY <2>2, <2>3 DEF x
  <1> HIDE DEF distance
  <1>5. nearest = {L + 1}
    <2>1. distance(L + 1) = 0
      BY <1>3, <1>4
    <2>2. L + 1 \in nearest
      BY <1>3, <1>4, <2>1
    <2>3. ASSUME NEW id \in nearest PROVE id = L + 1
      <3>1. id \in FreeIds(ep) /\ distance(id) <= distance(L + 1)
        BY <1>3
      <3> QED
        BY <1>4, <2>1, <3>1
    <2> QED
      BY <2>2, <2>3
  <1> HIDE DEF nearest
  <1> QED
    BY <1>2, <1>5 DEF L

\* Requests that were sent stay sent: the sets of them only grow.
LEMMA FewBefore ==
    ASSUME \A r \in Reqs : caller[r] = "sent" => caller'[r] = "sent",
           NEW ep, Few(ep)'
    PROVE  Few(ep)
  <1> DEFINE before == {r \in Reqs : Dest[r] = ep /\ caller[r] = "sent"}
             after == {r \in Reqs : Dest[r] = ep /\ caller'[r] = "sent"}
  <1>1. before \subseteq after /\ after \subseteq Reqs
    OBVIOUS
  <1>2. IsFiniteSet(after)
    BY <1>1, DestAssumption, FS_Subset
  <1>3. Cardinality(before) <= Cardinality(after) /\ IsFiniteSet(before)
    BY <1>1, <1>2, FS_Subset
  <1>4. Cardinality(before) \in Nat /\ Cardinality(after) \in Nat /\ MaxId \in Nat
    BY <1>2, <1>3, FS_CardinalityType, SocketBounds
  <1>5. Cardinality(after) <= MaxId
    BY DEF Few
  <1>6. Cardinality(before) <= MaxId
    BY <1>3, <1>4, <1>5
  <1> QED
    BY <1>6 DEF Few

LEMMA BegunFinite ==
    ASSUME NEW ep
    PROVE  IsFiniteSet(Begun(ep)) /\ Cardinality(Begun(ep)) \in Nat
  <1>1. Begun(ep) \subseteq Reqs
    BY DEF Begun
  <1>2. IsFiniteSet(Begun(ep))
    BY <1>1, DestAssumption, FS_Subset
  <1> QED
    BY <1>2, FS_CardinalityType

LEMMA BegunGrows ==
    ASSUME \A r \in Reqs : caller[r] = "sent" => caller'[r] = "sent",
           \A r \in Reqs : Waiting(r)' /\ caller[r] = "sent" => Waiting(r),
           NEW ep
    PROVE  /\ Begun(ep) \subseteq Begun(ep)'
           /\ Cardinality(Begun(ep)) <= Cardinality(Begun(ep)')
           /\ IsFiniteSet(Begun(ep)') /\ Cardinality(Begun(ep)') \in Nat
  <1> DEFINE after == {r \in Reqs : Dest[r] = ep /\ caller'[r] = "sent" /\ ~Waiting(r)'}
  <1>1. Begun(ep)' = after
    BY DEF Begun
  <1>2. Begun(ep) \subseteq after /\ after \subseteq Reqs
    BY DEF Begun
  <1> HIDE DEF after
  <1>3. IsFiniteSet(after)
    BY <1>2, DestAssumption, FS_Subset
  <1>4. Cardinality(Begun(ep)) <= Cardinality(after)
    BY <1>2, <1>3, FS_Subset
  <1>5. Cardinality(after) \in Nat
    BY <1>3, FS_CardinalityType
  <1> QED
    BY <1>1, <1>2, <1>3, <1>4, <1>5

\* A step that sends no packet and gives no identifier.
LEMMA StepLate ==
    ASSUME LateInv, AnswerInv', UNCHANGED <<wire, lastRadiusId>>,
           \A r \in Reqs : caller[r] = "sent" => caller'[r] = "sent",
           \A r \in Reqs : Waiting(r)' /\ caller[r] = "sent" => Waiting(r),
           requestsMap' \subseteq requestsMap,
           \A t \in timers' : \E u \in timers : u.req = t.req /\ u.tries = t.tries /\ u.id = t.id,
           OneTimer',
           \A m \in Queued' : m \in Queued \/ Founded(m),
           \A i \in 1..Len(readOut') : readOut'[i].type = "Response" => Answers(readOut'[i]) \in wire,
           \A m \in Queued' \ Queued, p \in wire :
               CancelFits(m, p) => \A t \in timers' : t.req # p.auth[1],
           \A r \in Reqs : Single(r) /\ Few(Dest[r]) =>
               \/ rchan'[r] = rchan[r]
               \/ rchan'[r] # <<"badAuthenticator">> /\ rchan'[r] # <<"timeout">>
               \/ rchan'[r] # <<"badAuthenticator">> /\ \A t \in timers : t.req # r
    PROVE  LateInv'
  <1>1. Evidence /\ FirstRound /\ OneTimer /\ CancelledFired /\ LateAnswersHarmless
    BY DEF LateInv
  <1>2. \A t \in timers' : PacketOf(t) \in wire
    BY <1>1 DEF Evidence, PacketOf
  <1>3. \A m \in Queued' : Founded(m)'
    <2>1. ASSUME NEW m \in Queued' PROVE Founded(m)'
      <3>1. Founded(m)
        BY <1>1 DEF Evidence
      <3> QED
        BY <3>1 DEF Founded, Sent
    <2> QED
      BY <2>1
  <1>4. Evidence'
    BY <1>1, <1>2, <1>3 DEF Evidence, PacketOf, Answers
  <1>5. ASSUME NEW ep, Few(ep)' PROVE Few(ep)
    BY <1>5, FewBefore
  <1>6. FirstRound'
    <2> SUFFICES ASSUME NEW ep \in Endpoints, Few(ep)'
                 PROVE  /\ lastRadiusId'[ep] <= Cardinality(Begun(ep)')
                        /\ \A p \in wire' : p.ep = ep => p.id <= lastRadiusId'[ep]
                        /\ \A p, q \in wire' : p.ep = ep /\ q.ep = ep /\ p.id = q.id
                                             => p.auth[1] = q.auth[1]
      BY DEF FirstRound
    <2>1. Few(ep)
      BY <1>5
    <2>2. lastRadiusId[ep] <= Cardinality(Begun(ep))
      BY <1>1, <2>1 DEF FirstRound
    <2>3. /\ Cardinality(Begun(ep)) <= Cardinality(Begun(ep)')
          /\ Cardinality(Begun(ep)') \in Nat /\ Cardinality(Begun(ep)) \in Nat
      BY BegunGrows, BegunFinite
    <2>4. lastRadiusId[ep] \in Int
      BY DEF LateInv, AnswerInv, RequestTypes
    <2>5. lastRadiusId'[ep] <= Cardinality(Begun(ep)')
      BY <2>2, <2>3, <2>4
    <2> QED
      BY <1>1, <2>1, <2>5 DEF FirstRound
  <1>7. CancelledFired'
    <2> SUFFICES ASSUME NEW m \in Queued', NEW p \in wire', CancelFits(m, p)', NEW t \in timers'
                 PROVE  t.req # p.auth[1]
      BY DEF CancelledFired
    <2>1. CancelFits(m, p)
      BY <1>5 DEF CancelFits
    <2>2. CASE m \in Queued
      BY <1>1, <2>1, <2>2 DEF CancelledFired
    <2>3. CASE m \notin Queued
      BY <2>1, <2>3
    <2> QED
      BY <2>2, <2>3
  <1>8. LateAnswersHarmless'
    <2> SUFFICES ASSUME NEW r \in Reqs, Tries[r] = 1, Few(Dest[r])'
                 PROVE  /\ rchan'[r] # <<"badAuthenticator">>
                        /\ rchan'[r] = <<"timeout">> => \A t \in timers' : t.req # r
      BY DEF LateAnswersHarmless
    <2>1. Few(Dest[r]) /\ Single(r)
      BY <1>5 DEF Single
    <2>2. CASE rchan'[r] = rchan[r]
      BY <1>1, <2>1, <2>2 DEF LateAnswersHarmless
    <2>3. CASE rchan'[r] # <<"badAuthenticator">> /\ rchan'[r] # <<"timeout">>
      BY <2>3
    <2>4. CASE rchan'[r] # <<"badAuthenticator">> /\ \A t \in timers : t.req # r
      BY <2>4
    <2> QED
      BY <2>1, <2>2, <2>3, <2>4, Zenon
  <1> QED
    BY <1>4, <1>6, <1>7, <1>8 DEF LateInv

\* What was read, or is about to be posted, answers a packet that was sent.
ReadFounded == \A i \in 1..Len(readOut) : readOut[i].type = "Response" => Answers(readOut[i]) \in wire

\* A step that does not touch the requests.
LEMMA LateElsewhere ==
    ASSUME LateInv, AnswerInv', UNCHANGED <<requestVars, wire>>, ReadFounded',
           \A m \in Queued' : m \in Queued \/ (m.type \notin {"Request", "Cancel"} /\ Founded(m))
    PROVE  LateInv'
  <1>1. UNCHANGED <<requestsMap, lastRadiusId, timers, rchan, caller, wire>>
    BY DEF requestVars
  <1>2. OneTimer'
    BY <1>1 DEF LateInv, OneTimer
  <1>3. \A r \in Reqs : Waiting(r)' /\ caller[r] = "sent" => Waiting(r)
    BY DEF Waiting, Fresh
  <1>4. \A i \in 1..Len(readOut') : readOut'[i].type = "Response" => Answers(readOut'[i]) \in wire
    BY <1>1 DEF ReadFounded, Answers
  <1>5. \A m \in Queued' \ Queued, p \in wire : ~CancelFits(m, p)
    BY DEF CancelFits
  <1> QED
    BY <1>1, <1>2, <1>3, <1>4, <1>5, StepLate

LEMMA LatePosts ==
    ASSUME LateInv, AnswerInv', UNCHANGED <<requestVars, wire>>, ReadFounded',
           NEW m \in Signals \cup Responses, Send(m), m.type = "Response" => Answers(m) \in wire
    PROVE  LateInv'
  <1>1. queue \in Seq(AllMessages) /\ FreshOnce
    BY DEF LateInv, AnswerInv, ChannelTypes
  <1>2. m \in AllMessages /\ m.type \notin {"Request", "Cancel"}
    BY DEF AllMessages, Signals, Signal, Responses, Response
  <1>3. Queued' \subseteq Queued \cup {m}
    BY <1>1, <1>2, SendQueue DEF Fresh
  <1>4. Founded(m)
    BY <1>2 DEF Founded
  <1> QED
    BY <1>2, <1>3, <1>4, LateElsewhere

LEMMA LateIdle ==
    ASSUME LateInv, AnswerInv', UNCHANGED <<queue, requestVars, wire>>, ReadFounded'
    PROVE  LateInv'
  <1>1. Queued' = Queued
    BY DEF Queued
  <1> QED
    BY <1>1, LateElsewhere

LEMMA UserLate ==
    ASSUME LateInv, AnswerInv', SetDown \/ \E k \in CloseIds : Closer(k)
    PROVE  LateInv'
  <1> USE DEF netVars, readVars
  <1>1. Signal("SetDown") \in Signals \cup Responses /\ Signal("Close") \in Signals \cup Responses
    BY DEF Signals
  <1>2. Signal("SetDown").type # "Response" /\ Signal("Close").type # "Response"
    BY DEF Signal
  <1>3. UNCHANGED <<requestVars, wire, readOut>>
    BY DEF SetDown, Closer, CloseBegin, CloseReadLoopDone, CloseGroupDone, ClosePost, CloseChannel,
       CloseStep
  <1>4. ReadFounded'
    BY <1>3 DEF LateInv, Evidence, ReadFounded, Answers
  <1>5. CASE SetDown
    BY <1>1, <1>2, <1>3, <1>4, <1>5, LatePosts DEF SetDown
  <1>6. ASSUME NEW k \in CloseIds, Closer(k) PROVE LateInv'
    <2>1. CASE ClosePost(k)
      BY <1>1, <1>2, <1>3, <1>4, <2>1, LatePosts DEF ClosePost
    <2>2. CASE CloseBegin(k) \/ CloseReadLoopDone(k) \/ CloseGroupDone(k) \/ CloseChannel(k)
      <3>1. queue' = queue
        BY <2>2 DEF CloseBegin, CloseReadLoopDone, CloseGroupDone, CloseChannel, chanVars
      <3> QED
        BY <1>3, <1>4, <3>1, LateIdle
    <2> QED
      BY <1>6, <2>1, <2>2 DEF Closer
  <1> QED
    BY <1>5, <1>6

LEMMA ReadLate ==
    ASSUME LateInv, AnswerInv', ReadPacket \/ ReadFails \/ ReadPost
    PROVE  LateInv'
  <1> USE DEF netVars, readVars, chanVars
  <1>1. UNCHANGED <<requestVars, wire>>
    BY DEF ReadPacket, ReadFails, ReadPost
  <1>2. CASE ReadPacket
    <2>1. PICK p \in wire : readOut' = <<Response(p)>>
      BY <1>2 DEF ReadPacket
    <2>2. p \in Packet
      BY DEF LateInv, AnswerInv, RequestTypes
    <2>3. Answers(Response(p)) = p
      BY <2>2 DEF Answers, Response, Packet
    <2>4. ReadFounded'
      <3>1. \A i \in 1..Len(readOut') : readOut'[i] = Response(p)
        BY <2>1
      <3>2. \A i \in 1..Len(readOut') : Answers(readOut'[i]) = p
        BY <2>3, <3>1
      <3> QED
        BY <1>1, <3>2 DEF ReadFounded, Answers
    <2> QED
      BY <1>1, <1>2, <2>4, LateIdle DEF ReadPacket
  <1>3. CASE ReadFails
    <2>1. readOut' = <<>> \/ readOut' = <<Signal("ReadError")>>
      BY <1>3 DEF ReadFails
    <2>2. \A i \in 1..Len(readOut') : readOut'[i] = Signal("ReadError")
      BY <2>1
    <2>3. ReadFounded'
      BY <2>2 DEF ReadFounded, Signal
    <2> QED
      BY <1>1, <1>3, <2>3, LateIdle DEF ReadFails
  <1>4. CASE ReadPost
    <2> DEFINE m == Head(readOut)
    <2>1. readOut # <<>> /\ Send(m) /\ readOut' = <<>>
      BY <1>4 DEF ReadPost
    <2>2. readOut \in Seq(Signals \cup Responses)
      BY DEF LateInv, AnswerInv, ChannelTypes
    <2>3. m = readOut[1] /\ 1 \in 1..Len(readOut) /\ m \in Signals \cup Responses
      BY <2>1, <2>2
    <2>4. m.type = "Response" => Answers(m) \in wire
      BY <2>3 DEF LateInv, Evidence
    <2>5. ReadFounded'
      BY <2>1 DEF ReadFounded
    <2> HIDE DEF m
    <2> QED
      BY <1>1, <2>1, <2>3, <2>4, <2>5, LatePosts
  <1> QED
    BY <1>2, <1>3, <1>4

LEMMA LoopSendLate ==
    ASSUME LateInv, AnswerInv', LoopSend
    PROVE  LateInv'
  <1> DEFINE m == Head(out)
  <1>1. out # <<>> /\ Send(m) /\ UNCHANGED <<requestVars, wire, readOut>>
    BY DEF LoopSend, netVars, readVars
  <1>2. out \in Seq(Signals)
    BY DEF LateInv, AnswerInv, ChannelTypes
  <1>3. m \in Signals
    BY <1>1, <1>2
  <1> HIDE DEF m
  <1>4. m.type # "Response"
    BY <1>3 DEF Signals, Signal
  <1>5. ReadFounded'
    BY <1>1 DEF LateInv, Evidence, ReadFounded, Answers
  <1> QED
    BY <1>1, <1>3, <1>4, <1>5, LatePosts

LEMMA TimerLate ==
    ASSUME LateInv, AnswerInv', Timers
    PROVE  LateInv'
  <1>1. /\ ChannelTypes /\ RequestTypes /\ FreshOnce /\ TriesLeft /\ Evidence /\ FirstRound
        /\ OneTimer /\ CancelledFired
    BY DEF LateInv, AnswerInv
  <1>2. PICK t \in timers : TimerFire(t) \/ TimerPost(t)
    BY DEF Timers
  <1>3. t \in AllTimers /\ t.req \in Reqs /\ t.tries \in Nat \ {0} /\ t.id \in Ids /\ t.id # 0
    BY <1>1, SocketBounds DEF RequestTypes, AllTimers, Ids
  <1>4. UNCHANGED <<caller, wire, lastRadiusId, requestsMap, rchan, out, readOut>>
    BY <1>2 DEF TimerFire, TimerPost, chanVars, netVars, readVars
  <1>5. \A i \in 1..Len(readOut') : readOut'[i].type = "Response" => Answers(readOut'[i]) \in wire
    BY <1>1, <1>4 DEF Evidence
  <1>6. CASE TimerFire(t)
    <2> DEFINE fired == [t EXCEPT !.fired = TRUE]
    <2>1. timers' = (timers \ {t}) \cup {fired} /\ queue' = queue
      BY <1>6 DEF TimerFire, chanVars
    <2>2. fired.req = t.req /\ fired.tries = t.tries /\ fired.id = t.id
      BY <1>3 DEF AllTimers
    <2> HIDE DEF fired
    <2>3. OneTimer'
      BY <1>1, <2>1, <2>2 DEF OneTimer
    <2>4. Queued' = Queued
      BY <2>1 DEF Queued
    <2>5. \A v \in timers' : \E u \in timers : u.req = v.req /\ u.tries = v.tries /\ u.id = v.id
      BY <2>1, <2>2
    <2>6. \A r \in Reqs : Waiting(r)' /\ caller[r] = "sent" => Waiting(r)
      BY <2>4 DEF Waiting
    <2> QED
      BY <1>4, <1>5, <2>3, <2>4, <2>5, <2>6, StepLate
  <1>7. CASE TimerPost(t)
    <2>1. timers' = timers \ {t} /\ PacketOf(t) \in wire
      BY <1>1, <1>7 DEF TimerPost, Evidence
    <2>2. Sent(Dest[t.req], t.id, t.req)
      <3>1. PacketOf(t).ep = Dest[t.req] /\ PacketOf(t).id = t.id
        BY DEF PacketOf
      <3>2. PacketOf(t).auth[1] = t.req
        BY <1>3, WrittenTypes DEF PacketOf
      <3> QED
        BY <2>1, <3>1, <3>2 DEF Sent
    <2>3. OneTimer'
      BY <1>1, <2>1 DEF OneTimer
    <2>4. PICK m \in AllMessages :
            /\ Send(m) /\ ~Fresh(m) /\ Founded(m)
            /\ m.type = "Cancel" => m.ep = Dest[t.req] /\ m.id = t.id
      <3>1. CASE t.tries <= 1 /\ Send(Cancel(Dest[t.req], t.id))
        <4> DEFINE m == Cancel(Dest[t.req], t.id)
        <4>1. m \in Cancels /\ m.type = "Cancel" /\ m.ep = Dest[t.req] /\ m.id = t.id
          BY <1>3, DestAssumption DEF Cancel, Cancels
        <4>2. Send(m)
          BY <3>1
        <4> HIDE DEF m
        <4>3. Founded(m)
          BY <1>3, <2>2, <4>1 DEF Founded
        <4> QED
          BY <4>1, <4>2, <4>3 DEF AllMessages, Fresh
      <3>2. CASE t.tries > 1 /\ Send(Request(t.req, t.tries - 1, t.id))
        <4> DEFINE m == Request(t.req, t.tries - 1, t.id)
        <4>1. m \in Requests
          BY <1>3, <3>2 DEF Request, Requests
        <4>2. m.type = "Request" /\ m.id = t.id /\ m.req = t.req
          BY DEF Request
        <4>3. Send(m)
          BY <3>2
        <4> HIDE DEF m
        <4>4. Founded(m)
          BY <2>2, <4>2 DEF Founded
        <4> QED
          BY <1>3, <4>1, <4>2, <4>3, <4>4 DEF AllMessages, Fresh
      <3> QED
        BY <1>7, <3>1, <3>2 DEF TimerPost
    <2>5. Queued' \subseteq Queued \cup {m}
      BY <1>1, <2>4, SendQueue DEF ChannelTypes
    <2>6. \A r \in Reqs : Waiting(r)' /\ caller[r] = "sent" => Waiting(r)
      BY <2>4, <2>5 DEF Waiting, Fresh
    <2>7. ASSUME NEW n \in Queued' \ Queued, NEW p \in wire, CancelFits(n, p), NEW u \in timers'
          PROVE  u.req # p.auth[1]
      <3>1. n = m
        BY <2>5, <2>7
      <3>2. p.ep = Dest[t.req] /\ p.id = t.id /\ Single(p.auth[1]) /\ Few(Dest[t.req])
        BY <2>4, <2>7, <3>1 DEF CancelFits
      <3>3. p.auth[1] = t.req
        BY <1>1, <1>3, <2>2, <3>2, DestAssumption DEF Sent, FirstRound
      <3> QED
        BY <1>1, <2>1, <2>7, <3>2, <3>3 DEF OneTimer
    <2>8. \A v \in timers' : v \in timers
      BY <2>1
    <2> QED
      BY <1>4, <1>5, <2>3, <2>4, <2>5, <2>6, <2>7, <2>8, StepLate
  <1> QED
    BY <1>2, <1>6, <1>7

\* The event loop takes a message, and starts nothing.
LEMMA LateReceives ==
    ASSUME LateInv, AnswerInv', NEW type, Receive(type), UNCHANGED <<wire, lastRadiusId>>,
           requestsMap' \subseteq requestsMap, timers' \subseteq timers,
           \A r \in Reqs : Single(r) /\ Few(Dest[r]) =>
               \/ rchan'[r] = rchan[r]
               \/ rchan'[r] # <<"badAuthenticator">> /\ rchan'[r] # <<"timeout">>
               \/ rchan'[r] # <<"badAuthenticator">> /\ \A t \in timers : t.req # r
    PROVE  LateInv'
  <1>1. ChannelTypes /\ FreshOnce /\ Evidence /\ OneTimer
    BY DEF LateInv, AnswerInv
  <1>2. Queued' \subseteq Queued
    BY <1>1, ReceiveQueue DEF ChannelTypes
  <1>3. caller' = caller /\ readOut' = readOut
    BY DEF Receive, readVars
  <1>4. OneTimer'
    BY <1>1 DEF OneTimer
  <1>5. \A i \in 1..Len(readOut') : readOut'[i].type = "Response" => Answers(readOut'[i]) \in wire
    BY <1>1, <1>3 DEF Evidence
  <1>6. \A r \in Reqs : Waiting(r)' /\ caller[r] = "sent" => Waiting(r)
    BY <1>2 DEF Waiting
  <1>7. /\ \A r \in Reqs : caller[r] = "sent" => caller'[r] = "sent"
        /\ \A t \in timers' : \E u \in timers : u.req = t.req /\ u.tries = t.tries /\ u.id = t.id
        /\ \A m \in Queued' : m \in Queued \/ Founded(m)
        /\ Queued' \ Queued = {}
    BY <1>2, <1>3
  <1> QED
    BY <1>4, <1>5, <1>6, <1>7, StepLate

\* The first value of a response channel.
LEMMA FirstValue ==
    ASSUME NEW r \in Reqs, rchan[r] = <<>>, NEW rs, r \in rs, NEW value,
           rchan' = [q \in Reqs |-> IF q \in rs THEN Append(rchan[q], value) ELSE rchan[q]]
    PROVE  rchan'[r] = <<value>>
  <1>1. rchan'[r] = Append(<<>>, value)
    OBVIOUS
  <1> QED
    BY <1>1

LEMMA OtherValue ==
    ASSUME NEW v, NEW w, v # w
    PROVE  <<v>> # <<w>>
OBVIOUS

\* The event loop goes down: what it cancels is told so.
LEMMA GoDownLate ==
    ASSUME LateInv, AnswerInv', OnReadError \/ OnSetDown
    PROVE  LateInv'
  <1> DEFINE rs == {e.req : e \in requestsMap}
  <1>1. /\ Receive("ReadError") \/ Receive("SetDown")
        /\ timers' \subseteq timers /\ requestsMap' \subseteq requestsMap
        /\ UNCHANGED <<wire, lastRadiusId>>
        /\ rchan' = [r \in Reqs |-> IF r \in rs THEN Append(rchan[r], "cancelled") ELSE rchan[r]]
    BY DEF OnReadError, OnSetDown, GoDown, CancelAll, Reply
  <1>2. \A r \in rs : Single(r) => rchan[r] = <<>>
    BY DEF LateInv, AnswerInv, OpenEntries
  <1> HIDE DEF rs
  <1>3. ASSUME NEW r \in Reqs, Single(r)
        PROVE  \/ rchan'[r] = rchan[r]
               \/ rchan'[r] # <<"badAuthenticator">> /\ rchan'[r] # <<"timeout">>
    <2>1. CASE r \notin rs
      BY <1>1, <2>1
    <2>2. CASE r \in rs
      <3>1. rchan'[r] = <<"cancelled">>
        BY <1>1, <1>2, <1>3, <2>2, FirstValue
      <3>2. <<"cancelled">> # <<"badAuthenticator">> /\ <<"cancelled">> # <<"timeout">>
        BY OtherValue
      <3> QED
        BY <3>1, <3>2
    <2> QED
      BY <2>1, <2>2
  <1> QED
    BY <1>1, <1>3, LateReceives

\* The packet of an entry is the one that was sent with its identifier.
LEMMA EntryPacket ==
    ASSUME LateInv, NEW e \in requestsMap
    PROVE  /\ PacketOf(e) \in wire /\ PacketOf(e).ep = e.ep /\ PacketOf(e).id = e.id
           /\ PacketOf(e).auth = Authenticator(e.req, e.tries) /\ PacketOf(e).auth[1] = e.req
           /\ e.req \in Reqs /\ e.ep = Dest[e.req]
  <1>1. PacketOf(e) \in wire /\ e.ep = Dest[e.req]
    BY DEF LateInv, Evidence
  <1>2. e.req \in Reqs /\ e.id \in Ids /\ e.tries \in Nat \ {0}
    BY DEF LateInv, AnswerInv, RequestTypes, Entries
  <1>3. Authenticator(e.req, e.tries)[1] = e.req
    BY <1>2, WrittenTypes
  <1> QED
    BY <1>1, <1>2, <1>3 DEF PacketOf

\* An answer meets the request that it is for.
LEMMA ResponseLate ==
    ASSUME LateInv, AnswerInv', OnResponse
    PROVE  LateInv'
  <1> DEFINE entry == Entry(Msg.ep, Msg.id)
  <1>1. /\ Receive("Response") /\ timers' \subseteq timers /\ requestsMap' \subseteq requestsMap
        /\ UNCHANGED <<wire, lastRadiusId>>
    BY DEF OnResponse, netVars
  <1>2. /\ ChannelTypes /\ RequestTypes /\ FreshOnce /\ OpenEntries /\ Evidence /\ FirstRound
    BY DEF LateInv, AnswerInv
  <1>3. Msg \in Queued /\ Msg.type = "Response"
    BY <1>1, <1>2, ReceiveQueue DEF ChannelTypes
  <1>4. Answers(Msg) \in wire
    BY <1>2, <1>3 DEF Evidence, Founded
  <1>5. Answers(Msg).ep = Msg.ep /\ Answers(Msg).id = Msg.id /\ Answers(Msg).auth = Msg.auth
    BY DEF Answers
  <1>6. ASSUME NEW e \in entry, Single(e.req), Few(Dest[e.req])
        PROVE  Authenticator(e.req, e.tries) = Msg.auth
    <2>1. e \in requestsMap /\ e.ep = Msg.ep /\ e.id = Msg.id
      BY DEF Entry
    <2> HIDE DEF entry
    <2>2. /\ PacketOf(e) \in wire /\ PacketOf(e).ep = e.ep /\ PacketOf(e).id = e.id
          /\ PacketOf(e).auth = Authenticator(e.req, e.tries) /\ PacketOf(e).auth[1] = e.req
          /\ e.req \in Reqs /\ e.ep = Dest[e.req]
      BY <2>1, EntryPacket
    <2>3. e.ep \in Endpoints
      BY <2>2, DestAssumption
    <2>4. Answers(Msg).auth[1] = PacketOf(e).auth[1]
      BY <1>2, <1>4, <1>5, <1>6, <2>1, <2>2, <2>3 DEF FirstRound
    <2>5. Msg.auth = Authenticator(e.req, 1)
      BY <1>2, <1>4, <1>5, <1>6, <2>2, <2>4 DEF Evidence
    <2>6. PacketOf(e).auth = Authenticator(e.req, 1)
      BY <1>2, <1>6, <2>2 DEF Evidence
    <2> QED
      BY <2>2, <2>5, <2>6
  <1>7. \/ rchan' = rchan
        \/ \E e \in entry, value \in Values :
              /\ rchan' = [r \in Reqs |-> IF r \in {e.req} THEN Append(rchan[r], value) ELSE rchan[r]]
              /\ value = "badAuthenticator" => Authenticator(e.req, e.tries) # Msg.auth
              /\ value # "timeout"
    BY DEF OnResponse, Reply, Values
  <1>8. entry \subseteq requestsMap
    BY DEF Entry
  <1> HIDE DEF entry
  <1>9. ASSUME NEW r \in Reqs, Single(r), Few(Dest[r])
        PROVE  \/ rchan'[r] = rchan[r]
               \/ rchan'[r] # <<"badAuthenticator">> /\ rchan'[r] # <<"timeout">>
    <2>1. CASE rchan' = rchan
      BY <2>1
    <2>2. ASSUME NEW e \in entry, NEW value \in Values,
                 rchan' = [q \in Reqs |-> IF q \in {e.req} THEN Append(rchan[q], value) ELSE rchan[q]],
                 value = "badAuthenticator" => Authenticator(e.req, e.tries) # Msg.auth,
                 value # "timeout", r = e.req
          PROVE  rchan'[r] # <<"badAuthenticator">> /\ rchan'[r] # <<"timeout">>
      <3>1. value # "badAuthenticator"
        BY <1>6, <1>9, <2>2
      <3>2. rchan[r] = <<>>
        BY <1>2, <1>8, <1>9, <2>2 DEF OpenEntries
      <3>3. rchan'[r] = <<value>>
        <4> DEFINE rs == {e.req}
        <4>1. /\ r \in rs
              /\ rchan' = [q \in Reqs |-> IF q \in rs THEN Append(rchan[q], value) ELSE rchan[q]]
          BY <2>2
        <4> HIDE DEF rs
        <4> QED
          BY <3>2, <4>1, FirstValue
      <3>4. <<value>> # <<"badAuthenticator">> /\ <<value>> # <<"timeout">>
        BY <2>2, <3>1, OtherValue
      <3> QED
        BY <3>3, <3>4
    <2>3. ASSUME NEW e \in entry, NEW value \in Values,
                 rchan' = [q \in Reqs |-> IF q \in {e.req} THEN Append(rchan[q], value) ELSE rchan[q]],
                 r # e.req
          PROVE  rchan'[r] = rchan[r]
      BY <2>3
    <2> QED
      BY <1>7, <2>1, <2>2, <2>3
  <1> QED
    BY <1>1, <1>9, LateReceives

\* A cancellation meets the request that it is for.
LEMMA CancelLate ==
    ASSUME LateInv, AnswerInv', OnCancel
    PROVE  LateInv'
  <1> DEFINE entry == Entry(Msg.ep, Msg.id)
             rs == {e.req : e \in entry}
  <1>1. /\ Receive("Cancel") /\ timers' \subseteq timers /\ requestsMap' \subseteq requestsMap
        /\ UNCHANGED <<wire, lastRadiusId>>
        /\ rchan' = [r \in Reqs |-> IF r \in rs THEN Append(rchan[r], "timeout") ELSE rchan[r]]
    BY DEF OnCancel, Reply, netVars
  <1>2. /\ ChannelTypes /\ RequestTypes /\ FreshOnce /\ OpenEntries /\ CancelledFired
    BY DEF LateInv, AnswerInv
  <1>3. Msg \in Queued /\ Msg.type = "Cancel"
    BY <1>1, <1>2, ReceiveQueue DEF ChannelTypes
  <1>4. ASSUME NEW e \in entry, Single(e.req), Few(Dest[e.req])
        PROVE  rchan[e.req] = <<>> /\ \A t \in timers : t.req # e.req
    <2>1. e \in requestsMap /\ e.ep = Msg.ep /\ e.id = Msg.id
      BY DEF Entry
    <2> HIDE DEF entry
    <2>2. /\ PacketOf(e) \in wire /\ PacketOf(e).ep = e.ep /\ PacketOf(e).id = e.id
          /\ PacketOf(e).auth[1] = e.req /\ e.ep = Dest[e.req]
      BY <2>1, EntryPacket
    <2>3. CancelFits(Msg, PacketOf(e))
      BY <1>3, <1>4, <2>1, <2>2 DEF CancelFits
    <2>4. \A t \in timers : t.req # e.req
      BY <1>2, <1>3, <2>2, <2>3 DEF CancelledFired
    <2> QED
      BY <1>2, <1>4, <2>1, <2>4 DEF OpenEntries
  <1> HIDE DEF entry
  <1>5. ASSUME NEW r \in Reqs, Single(r), Few(Dest[r])
        PROVE  \/ rchan'[r] = rchan[r]
               \/ rchan'[r] # <<"badAuthenticator">> /\ \A t \in timers : t.req # r
    <2>1. CASE r \notin rs
      BY <1>1, <2>1
    <2>2. CASE r \in rs
      <3>1. rchan[r] = <<>> /\ \A t \in timers : t.req # r
        BY <1>4, <1>5, <2>2
      <3>2. rchan'[r] = <<"timeout">>
        BY <1>1, <2>2, <3>1, FirstValue
      <3>3. <<"timeout">> # <<"badAuthenticator">>
        BY OtherValue
      <3> QED
        BY <3>1, <3>2, <3>3
    <2> QED
      BY <2>1, <2>2
  <1> QED
    BY <1>1, <1>5, LateReceives

LEMMA CloseLate ==
    ASSUME LateInv, AnswerInv', OnClose
    PROVE  LateInv'
  <1>1. Receive("Close") /\ UNCHANGED <<wire, lastRadiusId, requestsMap, timers, rchan>>
    BY DEF OnClose
  <1> QED
    BY <1>1, LateReceives

\* A caller posts a request, or is refused.
LEMMA CallerLate ==
    ASSUME LateInv, AnswerInv', NEW r \in Reqs, SendRadiusRequest(r) \/ SendRefused(r)
    PROVE  LateInv'
  <1>1. /\ ChannelTypes /\ RequestTypes /\ FreshOnce /\ SentIfWaiting /\ NotBegun /\ Evidence
        /\ OneTimer
    BY DEF LateInv, AnswerInv
  <1>2. /\ caller[r] = "idle" /\ caller' = [caller EXCEPT ![r] = "sent"]
        /\ UNCHANGED <<out, requestsMap, lastRadiusId, timers, wire, readOut>>
    BY DEF SendRadiusRequest, SendRefused, netVars, readVars, chanVars
  <1>3. ~Waiting(r) /\ Nothing(r)
    BY <1>1, <1>2 DEF SentIfWaiting, NotBegun
  <1>4. \A q \in Reqs : caller[q] = "sent" => caller'[q] = "sent"
    BY <1>1, <1>2 DEF RequestTypes
  <1>5. OneTimer'
    BY <1>1, <1>2 DEF OneTimer
  <1>6. \A i \in 1..Len(readOut') : readOut'[i].type = "Response" => Answers(readOut'[i]) \in wire
    BY <1>1, <1>2 DEF Evidence
  <1>7. /\ requestsMap' \subseteq requestsMap
        /\ \A t \in timers' : \E u \in timers : u.req = t.req /\ u.tries = t.tries /\ u.id = t.id
    BY <1>2
  <1>8. CASE SendRadiusRequest(r)
    <2> DEFINE m == Request(r, Tries[r], 0)
    <2>1. Send(m) /\ rchan' = rchan
      BY <1>8 DEF SendRadiusRequest
    <2>2. m \in AllMessages /\ m.type = "Request" /\ m.req = r /\ m.id = 0
      BY SocketBounds DEF AllMessages, Requests, Request
    <2> HIDE DEF m
    <2>3. Queued' \subseteq Queued \cup {m}
      BY <1>1, <1>3, <2>1, <2>2, SendQueue DEF ChannelTypes
    <2>4. \A q \in Reqs : Waiting(q)' /\ caller[q] = "sent" => Waiting(q)
      BY <1>2, <2>2, <2>3 DEF Waiting, Fresh
    <2>5. Founded(m) /\ \A p \in wire : ~CancelFits(m, p)
      BY <2>2 DEF Founded, CancelFits
    <2>6. /\ \A n \in Queued' : n \in Queued \/ Founded(n)
          /\ \A n \in Queued' \ Queued, p \in wire : ~CancelFits(n, p)
      BY <2>3, <2>5
    <2> QED
      BY <1>2, <1>4, <1>5, <1>6, <1>7, <2>1, <2>4, <2>6, StepLate
  <1>9. CASE SendRefused(r)
    <2>1. queue' = queue /\ rchan' = [rchan EXCEPT ![r] = Append(@, "notRequest")]
      BY <1>9 DEF SendRefused, chanVars
    <2>2. Queued' = Queued
      BY <2>1 DEF Queued
    <2>3. rchan' = [q \in Reqs |-> IF q \in {r} THEN Append(rchan[q], "notRequest") ELSE rchan[q]]
      BY <1>1, <2>1 DEF RequestTypes
    <2>4. rchan'[r] = <<"notRequest">>
      BY <1>3, <2>3, FirstValue DEF Nothing
    <2>5. <<"notRequest">> # <<"badAuthenticator">> /\ <<"notRequest">> # <<"timeout">>
      BY OtherValue
    <2>6. \A q \in Reqs :
            \/ rchan'[q] = rchan[q]
            \/ rchan'[q] # <<"badAuthenticator">> /\ rchan'[q] # <<"timeout">>
      <3>1. \A q \in Reqs : q # r => rchan'[q] = rchan[q]
        BY <2>3
      <3> QED
        BY <2>4, <2>5, <3>1
    <2>7. \A q \in Reqs : Waiting(q)' => Waiting(q)
      BY <2>2 DEF Waiting
    <2> QED
      BY <1>2, <1>4, <1>5, <1>6, <1>7, <2>2, <2>6, <2>7, StepLate
  <1> QED
    BY <1>8, <1>9

\* The event loop takes a new request of a server that has had few: the identifiers go on in
\* order, and there is one left.
LEMMA NewRequestId ==
    ASSUME LateInv, NEW r \in Reqs, OnRequest(r), Msg.id = 0, Few(Dest[r])
    PROVE  /\ NextRadiusId(Dest[r], 0) = lastRadiusId[Dest[r]] + 1
           /\ lastRadiusId'[Dest[r]] = lastRadiusId[Dest[r]] + 1
           /\ lastRadiusId'[Dest[r]] <= Cardinality(Begun(Dest[r])')
  <1> DEFINE ep == Dest[r]
             L == lastRadiusId[ep]
             B == Begun(ep)
             sent == {q \in Reqs : Dest[q] = ep /\ caller[q] = "sent"}
  <1>1. AnswerInv /\ RequestTypes /\ ChannelTypes /\ FreshOnce /\ Evidence /\ FirstRound
    BY DEF LateInv, AnswerInv
  <1>2. Receive("Request") /\ Msg.req = r
    BY DEF OnRequest
  <1>3. caller[r] = "sent" /\ ~Waiting(r)' /\ Waiting(r)
    BY <1>1, <1>2, TakenRequest
  <1>4. caller' = caller /\ Queued' \subseteq Queued
    BY <1>1, <1>2, ReceiveQueue DEF Receive, ChannelTypes
  <1>5. \A q \in Reqs : Waiting(q)' => Waiting(q)
    BY <1>4 DEF Waiting
  <1>6. /\ B \subseteq Begun(ep)' /\ IsFiniteSet(Begun(ep)') /\ Cardinality(Begun(ep)') \in Nat
    BY <1>4, <1>5, BegunGrows
  <1>7. r \in Begun(ep)' /\ r \notin B
    BY <1>3, <1>4 DEF Begun
  <1>8. IsFiniteSet(B) /\ Cardinality(B) \in Nat
    BY BegunFinite
  <1>9. Cardinality(B \cup {r}) = Cardinality(B) + 1 /\ IsFiniteSet(B \cup {r})
    BY <1>7, <1>8, FS_AddElement
  <1>10. Cardinality(B) + 1 <= Cardinality(Begun(ep)')
    <2>1. B \cup {r} \subseteq Begun(ep)'
      BY <1>6, <1>7
    <2>2. Cardinality(B \cup {r}) <= Cardinality(Begun(ep)')
      BY <1>6, <2>1, FS_Subset
    <2> QED
      BY <1>9, <2>2
  <1>11. Cardinality(B) + 1 <= MaxId
    <2>1. B \cup {r} \subseteq sent /\ sent \subseteq Reqs
      BY <1>3 DEF Begun
    <2>2. Cardinality(sent) <= MaxId
      BY DEF Few
    <2> HIDE DEF sent
    <2>3. IsFiniteSet(sent)
      BY <2>1, DestAssumption, FS_Subset
    <2>4. Cardinality(B \cup {r}) <= Cardinality(sent)
      BY <2>1, <2>3, FS_Subset
    <2>5. Cardinality(sent) \in Nat /\ MaxId \in Nat
      BY <2>3, FS_CardinalityType, SocketBounds
    <2> QED
      BY <1>8, <1>9, <2>2, <2>4, <2>5
  <1>12. ep \in Endpoints /\ L \in Nat /\ MaxId \in Nat
    BY <1>1, DestAssumption, SocketBounds DEF RequestTypes
  <1>13. L <= Cardinality(B) /\ \A p \in wire : p.ep = ep => p.id <= L
    BY <1>1, <1>12 DEF FirstRound
  <1>14. \A e \in requestsMap : e.ep = ep => e.id <= L
    BY <1>13, EntryPacket
  <1>15. L < MaxId
    BY <1>8, <1>11, <1>12, <1>13
  <1>16. NextRadiusId(ep, 0) = L + 1
    BY <1>1, <1>12, <1>14, <1>15, NextIdInOrder
  <1>17. L + 1 # 0
    BY <1>12
  <1>18. lastRadiusId' = [lastRadiusId EXCEPT ![ep] = L + 1]
    BY <1>16, <1>17 DEF OnRequest
  <1>19. lastRadiusId'[ep] = L + 1
    BY <1>1, <1>12, <1>18 DEF RequestTypes
  <1>20. L + 1 <= Cardinality(Begun(ep)')
    BY <1>6, <1>8, <1>10, <1>12, <1>13
  <1> QED
    BY <1>16, <1>19, <1>20

\* What happens to the identifiers when the event loop takes a request.
LEMMA RequestIds ==
    ASSUME LateInv, NEW r \in Reqs, OnRequest(r), NEW ep \in Endpoints, Few(ep)
    PROVE  /\ lastRadiusId'[ep] <= Cardinality(Begun(ep)')
           /\ lastRadiusId[ep] <= lastRadiusId'[ep]
           /\ lastRadiusId[ep] \in Nat /\ lastRadiusId'[ep] \in Nat
  <1>1. AnswerInv /\ RequestTypes /\ ChannelTypes /\ FreshOnce /\ FirstRound
    BY DEF LateInv, AnswerInv
  <1>2. Receive("Request") /\ lastRadiusId[ep] \in Nat /\ Dest[r] \in Endpoints
    BY <1>1, DestAssumption DEF OnRequest, RequestTypes
  <1>3. CASE Msg.id = 0 /\ ep = Dest[r]
    BY <1>2, <1>3, NewRequestId
  <1>4. CASE ~(Msg.id = 0 /\ ep = Dest[r])
    <2> DEFINE id == NextRadiusId(Dest[r], Msg.id)
    <2>1. lastRadiusId' = IF Msg.id = 0 /\ id # 0 THEN [lastRadiusId EXCEPT ![Dest[r]] = id]
                          ELSE lastRadiusId
      BY DEF OnRequest
    <2> HIDE DEF id
    <2>2. lastRadiusId'[ep] = lastRadiusId[ep]
      BY <1>1, <1>2, <1>4, <2>1 DEF RequestTypes
    <2>3. caller' = caller /\ Queued' \subseteq Queued
      BY <1>1, <1>2, ReceiveQueue DEF Receive, ChannelTypes
    <2>4. \A q \in Reqs : Waiting(q)' => Waiting(q)
      BY <2>3 DEF Waiting
    <2>5. /\ Cardinality(Begun(ep)) <= Cardinality(Begun(ep)') /\ Cardinality(Begun(ep)') \in Nat
          /\ Cardinality(Begun(ep)) \in Nat
      BY <2>3, <2>4, BegunGrows, BegunFinite
    <2>6. lastRadiusId[ep] <= Cardinality(Begun(ep))
      BY <1>1 DEF FirstRound
    <2> QED
      BY <1>2, <2>2, <2>5, <2>6
  <1> QED
    BY <1>3, <1>4

\* Packets that were sent stay sent: what a message is about is not lost.
LEMMA FoundedStays ==
    ASSUME NEW m, Founded(m), wire \subseteq wire'
    PROVE  Founded(m)'
BY DEF Founded, Sent, Answers

\* A request that fails is told so, and nothing else happens to the others.
LEMMA FailLate ==
    ASSUME LateInv, AnswerInv', NEW r \in Reqs, OnRequest(r),
           NEW reason \in {"exhausted", "error"}, RequestFails(r, reason)
    PROVE  LateInv'
  <1>1. /\ AnswerInv /\ ChannelTypes /\ RequestTypes /\ FreshOnce /\ Evidence /\ FirstRound
        /\ OneTimer /\ CancelledFired /\ LateAnswersHarmless
    BY DEF LateInv, AnswerInv
  <1>2. Receive("Request") /\ Msg.req = r
    BY DEF OnRequest
  <1>3. Single(r) => Nothing(r)
    BY <1>1, <1>2, TakenRequest
  <1>4. /\ caller' = caller /\ readOut' = readOut /\ Queued' \subseteq Queued
    BY <1>1, <1>2, ReceiveQueue DEF Receive, readVars, ChannelTypes
  <1>5. /\ rchan' = [q \in Reqs |-> IF q \in {r} THEN Append(rchan[q], reason) ELSE rchan[q]]
        /\ UNCHANGED <<requestsMap, timers, wire>>
    BY DEF RequestFails, Reply
  <1>6. \A ep : Few(ep)' <=> Few(ep)
    BY <1>4 DEF Few
  <1>7. \A m \in Queued' : Founded(m)'
    BY <1>1, <1>4, <1>5, FoundedStays DEF Evidence
  <1>8. Evidence'
    BY <1>1, <1>4, <1>5, <1>7 DEF Evidence, PacketOf, Answers
  <1>9. FirstRound'
    <2> SUFFICES ASSUME NEW ep \in Endpoints, Few(ep)'
                 PROVE  /\ lastRadiusId'[ep] <= Cardinality(Begun(ep)')
                        /\ \A p \in wire' : p.ep = ep => p.id <= lastRadiusId'[ep]
                        /\ \A p, q \in wire' : p.ep = ep /\ q.ep = ep /\ p.id = q.id
                                             => p.auth[1] = q.auth[1]
      BY DEF FirstRound
    <2>1. Few(ep)
      BY <1>6
    <2>2. /\ lastRadiusId'[ep] <= Cardinality(Begun(ep)')
          /\ lastRadiusId[ep] <= lastRadiusId'[ep]
          /\ lastRadiusId[ep] \in Nat /\ lastRadiusId'[ep] \in Nat
      BY <2>1, RequestIds
    <2>3. ASSUME NEW p \in wire', p.ep = ep PROVE p.id <= lastRadiusId'[ep]
      <3>1. p \in wire /\ p.id <= lastRadiusId[ep]
        BY <1>1, <1>5, <2>1, <2>3 DEF FirstRound
      <3>2. p.id \in Nat
        BY <1>1, <3>1 DEF RequestTypes, Packet, Ids
      <3> QED
        BY <2>2, <3>1, <3>2
    <2> QED
      BY <1>1, <1>5, <2>1, <2>2, <2>3 DEF FirstRound
  <1>10. OneTimer'
    BY <1>1, <1>5 DEF OneTimer
  <1>11. CancelledFired'
    <2> SUFFICES ASSUME NEW m \in Queued', NEW p \in wire', CancelFits(m, p)', NEW t \in timers'
                 PROVE  t.req # p.auth[1]
      BY DEF CancelledFired
    <2>1. CancelFits(m, p)
      BY <1>6 DEF CancelFits
    <2> QED
      BY <1>1, <1>4, <1>5, <2>1 DEF CancelledFired
  <1>12. LateAnswersHarmless'
    <2> SUFFICES ASSUME NEW q \in Reqs, Tries[q] = 1, Few(Dest[q])'
                 PROVE  /\ rchan'[q] # <<"badAuthenticator">>
                        /\ rchan'[q] = <<"timeout">> => \A t \in timers' : t.req # q
      BY DEF LateAnswersHarmless
    <2>1. CASE q = r
      <3>1. rchan[r] = <<>>
        BY <1>3, <2>1 DEF Single, Nothing
      <3>2. rchan'[r] = <<reason>>
        BY <1>5, <3>1, FirstValue
      <3>3. <<reason>> # <<"badAuthenticator">> /\ <<reason>> # <<"timeout">>
        BY OtherValue
      <3> QED
        BY <2>1, <3>2, <3>3
    <2>2. CASE q # r
      <3>1. rchan'[q] = rchan[q]
        BY <1>5, <2>2
      <3> QED
        BY <1>1, <1>5, <1>6, <3>1 DEF LateAnswersHarmless
    <2> QED
      BY <2>1, <2>2
  <1> QED
    BY <1>8, <1>9, <1>10, <1>11, <1>12 DEF LateInv

\* A request is sent: a new one with an identifier that no packet had, or again with its own.
LEMMA WriteLate ==
    ASSUME LateInv, AnswerInv', NEW r \in Reqs, OnRequest(r),
           RequestWritten(r, NextRadiusId(Dest[r], Msg.id))
    PROVE  LateInv'
  <1> DEFINE ep == Dest[r]
             id == NextRadiusId(ep, Msg.id)
             n == Msg.tries
             packet == [ep |-> ep, id |-> id, auth |-> Authenticator(r, n)]
             entry == [ep |-> ep, id |-> id, req |-> r, tries |-> n]
             timer == [req |-> r, tries |-> n, id |-> id, fired |-> FALSE]
  <1>1. /\ AnswerInv /\ ChannelTypes /\ RequestTypes /\ FreshOnce /\ Evidence /\ FirstRound
        /\ OneTimer /\ CancelledFired /\ LateAnswersHarmless
    BY DEF LateInv, AnswerInv
  <1>2. Receive("Request") /\ Msg.req = r
    BY DEF OnRequest
  <1>3. /\ n \in Nat \ {0} /\ Msg.id \in {0} \cup Ids
        /\ Single(r) => Nothing(r) /\ Msg.id = 0 /\ n = 1
    BY <1>1, <1>2, TakenRequest
  <1>4. /\ caller' = caller /\ readOut' = readOut /\ Queued' \subseteq Queued /\ Msg \in Queued
        /\ Msg.type = "Request"
    BY <1>1, <1>2, ReceiveQueue DEF Receive, readVars, ChannelTypes
  <1>5. id \in Ids /\ (Msg.id # 0 => id = Msg.id)
    BY <1>3, NextIdType DEF RequestWritten
  <1>6. /\ wire' = wire \cup {packet} /\ timers' = timers \cup {timer} /\ rchan' = rchan
        /\ requestsMap' = (requestsMap \ Entry(ep, id)) \cup {entry}
    BY DEF RequestWritten
  <1>7. /\ packet.ep = ep /\ packet.id = id /\ packet.auth = Authenticator(r, n) /\ packet.auth[1] = r
        /\ PacketOf(entry) = packet /\ PacketOf(timer) = packet
        /\ entry.ep = Dest[entry.req] /\ timer.req = r
    BY <1>3, <1>5, WrittenTypes DEF PacketOf
  <1>8. Msg.id # 0 => Sent(ep, id, r)
    BY <1>1, <1>2, <1>4, <1>5 DEF Evidence, Founded
  <1>9. Msg.id = 0 /\ Few(ep) => id = lastRadiusId[ep] + 1 /\ lastRadiusId'[ep] = id
    BY NewRequestId
  <1> HIDE DEF id, n, packet, entry, timer
  <1>10. \A e : Few(e)' <=> Few(e)
    BY <1>4 DEF Few
  <1>11. Evidence'
    <2>1. \A m \in Queued' : Founded(m)'
      BY <1>1, <1>4, <1>6, FoundedStays DEF Evidence
    <2>2. /\ \A e \in requestsMap' : e.ep = Dest[e.req] /\ PacketOf(e) \in wire'
          /\ \A t \in timers' : PacketOf(t) \in wire'
      BY <1>1, <1>6, <1>7 DEF Evidence
    <2>3. \A i \in 1..Len(readOut') : readOut'[i].type = "Response" => Answers(readOut'[i]) \in wire'
      BY <1>1, <1>4, <1>6 DEF Evidence
    <2>4. \A p \in wire' :
            /\ Dest[p.auth[1]] = p.ep
            /\ Single(p.auth[1]) => p.auth = Authenticator(p.auth[1], 1)
      BY <1>1, <1>3, <1>6, <1>7 DEF Evidence
    <2> QED
      BY <2>1, <2>2, <2>3, <2>4 DEF Evidence, PacketOf, Answers
  <1>12. FirstRound'
    <2> SUFFICES ASSUME NEW e \in Endpoints, Few(e)'
                 PROVE  /\ lastRadiusId'[e] <= Cardinality(Begun(e)')
                        /\ \A p \in wire' : p.ep = e => p.id <= lastRadiusId'[e]
                        /\ \A p, q \in wire' : p.ep = e /\ q.ep = e /\ p.id = q.id
                                             => p.auth[1] = q.auth[1]
      BY DEF FirstRound
    <2>1. Few(e)
      BY <1>10
    <2>2. /\ lastRadiusId'[e] <= Cardinality(Begun(e)')
          /\ lastRadiusId[e] <= lastRadiusId'[e]
          /\ lastRadiusId[e] \in Nat /\ lastRadiusId'[e] \in Nat
      BY <2>1, RequestIds
    <2>3. \A p \in wire : p.id \in Nat /\ (p.ep = e => p.id <= lastRadiusId[e])
      BY <1>1, <2>1 DEF RequestTypes, Packet, Ids, FirstRound
    <2>4. \A p, q \in wire : p.ep = e /\ q.ep = e /\ p.id = q.id => p.auth[1] = q.auth[1]
      BY <1>1, <2>1 DEF FirstRound
    <2>5. ASSUME ep = e
          PROVE  /\ id <= lastRadiusId'[e]
                 /\ \A q \in wire : q.ep = e /\ q.id = id => q.auth[1] = r
      <3>1. CASE Msg.id = 0
        <4>1. id = lastRadiusId[e] + 1 /\ lastRadiusId'[e] = id
          BY <1>9, <2>1, <2>5, <3>1
        <4> QED
          BY <2>2, <2>3, <4>1
      <3>2. CASE Msg.id # 0
        <4>1. PICK p \in wire : p.ep = e /\ p.id = id /\ p.auth[1] = r
          BY <1>8, <2>5, <3>2 DEF Sent
        <4> QED
          BY <2>2, <2>3, <2>4, <4>1
      <3> QED
        BY <3>1, <3>2
    <2>6. ASSUME NEW p \in wire', p.ep = e PROVE p.id <= lastRadiusId'[e]
      <3>1. CASE p \in wire
        BY <2>2, <2>3, <2>6, <3>1
      <3>2. CASE p = packet
        BY <1>7, <2>5, <2>6, <3>2
      <3> QED
        BY <1>6, <3>1, <3>2
    <2>7. ASSUME NEW p \in wire', NEW q \in wire', p.ep = e, q.ep = e, p.id = q.id
          PROVE  p.auth[1] = q.auth[1]
      <3>1. CASE p \in wire /\ q \in wire
        BY <2>4, <2>7, <3>1
      <3>2. CASE p = packet /\ q \in wire
        BY <1>7, <2>5, <2>7, <3>2
      <3>3. CASE p \in wire /\ q = packet
        BY <1>7, <2>5, <2>7, <3>3
      <3> QED
        BY <1>6, <3>1, <3>2, <3>3
    <2> QED
      BY <2>2, <2>6, <2>7
  <1>13. OneTimer'
    BY <1>1, <1>3, <1>6, <1>7 DEF OneTimer, Nothing
  <1>14. CancelledFired'
    <2> SUFFICES ASSUME NEW m \in Queued', NEW p \in wire', CancelFits(m, p)', NEW t \in timers'
                 PROVE  t.req # p.auth[1]
      BY DEF CancelledFired
    <2>1. CancelFits(m, p) /\ m \in Queued
      BY <1>4, <1>10 DEF CancelFits
    <2>2. CASE p \in wire
      <3>1. CASE t \in timers
        BY <1>1, <2>1, <2>2, <3>1 DEF CancelledFired
      <3>2. CASE t = timer
        BY <1>3, <1>7, <2>1, <2>2, <3>2 DEF CancelFits, Nothing
      <3> QED
        BY <1>6, <3>1, <3>2
    <2>3. CASE p = packet
      <3>1. /\ m.type = "Cancel" /\ m.ep = ep /\ m.id = id /\ Single(r) /\ Few(ep)
        BY <1>7, <2>1, <2>3 DEF CancelFits
      <3>2. PICK q \in wire : q.ep = ep /\ q.id = id
        BY <1>1, <2>1, <3>1 DEF Evidence, Founded, Sent
      <3>3. id = lastRadiusId[ep] + 1
        BY <1>3, <1>9, <3>1
      <3>4. q.id <= lastRadiusId[ep] /\ lastRadiusId[ep] \in Nat
        BY <1>1, <3>1, <3>2, DestAssumption DEF FirstRound, RequestTypes
      <3> QED
        BY <3>2, <3>3, <3>4
    <2> QED
      BY <1>6, <2>2, <2>3
  <1>15. LateAnswersHarmless'
    <2> SUFFICES ASSUME NEW q \in Reqs, Tries[q] = 1, Few(Dest[q])'
                 PROVE  /\ rchan'[q] # <<"badAuthenticator">>
                        /\ rchan'[q] = <<"timeout">> => \A t \in timers' : t.req # q
      BY DEF LateAnswersHarmless
    <2>1. /\ rchan[q] # <<"badAuthenticator">>
          /\ rchan[q] = <<"timeout">> => \A t \in timers : t.req # q
      BY <1>1, <1>10 DEF LateAnswersHarmless
    <2>2. q = r => rchan[q] # <<"timeout">>
      <3>1. <<"timeout">> # <<>>
        OBVIOUS
      <3> QED
        BY <1>3, <3>1 DEF Single, Nothing
    <2> QED
      BY <1>6, <1>7, <2>1, <2>2
  <1> QED
    BY <1>11, <1>12, <1>13, <1>14, <1>15 DEF LateInv

LEMMA LatePreserved == LateInv /\ [Next]_vars => LateInv'
  <1> SUFFICES ASSUME LateInv, [Next]_vars PROVE LateInv'
    OBVIOUS
  <1>1. AnswerInv'
    BY AnswersPreserved DEF LateInv
  <1>2. ASSUME NEW r \in Reqs, OnRequest(r) PROVE LateInv'
    <2> DEFINE id == NextRadiusId(Dest[r], Msg.id)
    <2>1. \/ RequestExhausted(r, id) \/ RequestNotEncoded(r, id)
          \/ RequestNotWritten(r, id) \/ RequestWritten(r, id)
      BY <1>2 DEF OnRequest
    <2>2. CASE RequestWritten(r, id)
      BY <1>1, <1>2, <2>2, WriteLate
    <2> HIDE DEF id
    <2>3. CASE RequestExhausted(r, id) \/ RequestNotEncoded(r, id) \/ RequestNotWritten(r, id)
      <3>1. \E reason \in {"exhausted", "error"} : RequestFails(r, reason)
        BY <2>3 DEF RequestExhausted, RequestNotEncoded, RequestNotWritten
      <3> QED
        BY <1>1, <1>2, <3>1, FailLate
    <2> QED
      BY <2>1, <2>2, <2>3
  <1>3. CASE EventLoop
    BY <1>1, <1>2, <1>3, LoopSendLate, CloseLate, GoDownLate, ResponseLate, CancelLate DEF EventLoop
  <1>4. CASE SetDown \/ \E k \in CloseIds : Closer(k)
    BY <1>1, <1>4, UserLate
  <1>5. CASE Timers
    BY <1>1, <1>5, TimerLate
  <1>6. CASE ReadPacket \/ ReadFails \/ ReadPost
    BY <1>1, <1>6, ReadLate
  <1>7. ASSUME NEW r \in Reqs, SendRadiusRequest(r) \/ SendRefused(r) PROVE LateInv'
    BY <1>1, <1>7, CallerLate
  <1>8. CASE UNCHANGED vars
    <2>1. UNCHANGED <<queue, requestVars, wire, readOut>>
      BY <1>8 DEF vars, chanVars, netVars, readVars
    <2>2. ReadFounded'
      BY <2>1 DEF LateInv, Evidence, ReadFounded, Answers
    <2> QED
      BY <1>1, <2>1, <2>2, LateIdle
  <1> QED
    BY <1>3, <1>4, <1>5, <1>6, <1>7, <1>8 DEF Next

\* Until a server has been sent as many requests as there are identifiers, a late answer or a
\* late cancellation never ends a request other than its own, for requests that are not
\* retransmitted: getNextRadiusId gives every identifier once before it gives one again.
THEOREM LateMessagesHarmless == Spec => []LateAnswersHarmless
  <1>1. LateInv => LateAnswersHarmless
    BY DEF LateInv
  <1> QED
    BY <1>1, InitLate, LatePreserved, PTL DEF Spec

=============================================================================
