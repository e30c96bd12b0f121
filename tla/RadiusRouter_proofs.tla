------------------------- MODULE RadiusRouter_proofs -------------------------
(***************************************************************************)
(* Proofs about RadiusRouter, for any number of requests, servers, tries and *)
(* sockets, with Close() and failures at any time.                           *)
(***************************************************************************)
EXTENDS RadiusRouter, SequenceTheorems, TLAPS

-----------------------------------------------------------------------------
(* One answer for every request *)

RequestTypes ==
    /\ requests \in Seq(Reqs) /\ routing \subseteq Reqs
    /\ job \in [Reqs -> Jobs]
    /\ rchan \in [Reqs -> Seq({"answer", "error"})]

\* The requests in the channel are waiting to be routed, and are there once
QueuedOnce ==
    /\ \A i \in 1..Len(requests) : job[requests[i]] = "posted"
    /\ \A i, j \in 1..Len(requests) : requests[i] = requests[j] => i = j

RoutedNow == \A r \in routing : job[r] = "routing"

\* The goroutine of a request knows whether it has answered
AnsweredOnce ==
    \A r \in Reqs :
        /\ job[r] \in {"reportOk", "done"} => Len(rchan[r]) = 1
        /\ job[r] \notin {"reportOk", "done"} => Len(rchan[r]) = 0

AnswerInv == RequestTypes /\ QueuedOnce /\ RoutedNow /\ AnsweredOnce

LEMMA InitAnswers == Init => AnswerInv
BY DEF Init, AnswerInv, RequestTypes, QueuedOnce, RoutedNow, AnsweredOnce, Jobs

\* What a step does to one request: its value is written when its goroutine says so.
LEMMA AnswerStep ==
    ASSUME AnswerInv, NEW r \in Reqs, NEW state \in Jobs, NEW value \in {"answer", "error"},
           job' = [job EXCEPT ![r] = state],
           \/ /\ rchan' = rchan
              /\ (job[r] \in {"reportOk", "done"} <=> state \in {"reportOk", "done"})
           \/ /\ rchan' = [rchan EXCEPT ![r] = Append(@, value)]
              /\ job[r] \notin {"reportOk", "done"}
              /\ state \in {"reportOk", "done"}
    PROVE  /\ job' \in [Reqs -> Jobs]
           /\ rchan' \in [Reqs -> Seq({"answer", "error"})]
           /\ AnsweredOnce'
  <1>1. /\ job \in [Reqs -> Jobs] /\ rchan \in [Reqs -> Seq({"answer", "error"})]
        /\ AnsweredOnce
    BY DEF AnswerInv, RequestTypes
  <1>2. job' \in [Reqs -> Jobs] /\ job'[r] = state /\ \A q \in Reqs \ {r} : job'[q] = job[q]
    BY <1>1
  <1>3. rchan[r] \in Seq({"answer", "error"})
    BY <1>1
  <1>4. CASE rchan' = rchan /\ (job[r] \in {"reportOk", "done"} <=> state \in {"reportOk", "done"})
    BY <1>1, <1>2, <1>4 DEF AnsweredOnce
  <1>5. CASE /\ rchan' = [rchan EXCEPT ![r] = Append(@, value)]
             /\ job[r] \notin {"reportOk", "done"} /\ state \in {"reportOk", "done"}
    <2>1. /\ Append(rchan[r], value) \in Seq({"answer", "error"})
          /\ Len(Append(rchan[r], value)) = Len(rchan[r]) + 1
      BY <1>3
    <2>2. /\ rchan' \in [Reqs -> Seq({"answer", "error"})]
          /\ rchan'[r] = Append(rchan[r], value)
          /\ \A q \in Reqs \ {r} : rchan'[q] = rchan[q]
      BY <1>1, <1>5, <2>1
    <2>3. Len(rchan[r]) = 0
      BY <1>1, <1>5 DEF AnsweredOnce
    <2>4. Len(rchan'[r]) = 1 /\ job'[r] \in {"reportOk", "done"}
      BY <1>2, <1>5, <2>1, <2>2, <2>3
    <2>5. \A q \in Reqs \ {r} : job'[q] = job[q] /\ rchan'[q] = rchan[q]
      BY <1>2, <2>2
    <2>6. AnsweredOnce'
      BY <1>1, <2>4, <2>5 DEF AnsweredOnce
    <2> QED
      BY <1>2, <2>2, <2>6
  <1> QED
    BY <1>4, <1>5

\* The event loop takes the oldest request.
LEMMA TakeShift ==
    ASSUME AnswerInv, requests # <<>>, requests' = Tail(requests)
    PROVE  /\ Msg \in Reqs /\ job[Msg] = "posted" /\ Msg \notin routing
           /\ requests' \in Seq(Reqs)
           /\ \A i \in 1..Len(requests') : requests'[i] # Msg /\ job[requests'[i]] = "posted"
           /\ \A i, j \in 1..Len(requests') : requests'[i] = requests'[j] => i = j
  <1>1. requests \in Seq(Reqs) /\ QueuedOnce /\ RoutedNow
    BY DEF AnswerInv, RequestTypes
  <1>2. /\ Len(requests) \in Nat \ {0} /\ Msg = requests[1] /\ Msg \in Reqs
        /\ requests' \in Seq(Reqs) /\ Len(requests') = Len(requests) - 1
        /\ \A i \in 1..Len(requests') : requests'[i] = requests[i + 1]
    BY <1>1 DEF Msg
  <1>3. job[Msg] = "posted" /\ Msg \notin routing
    BY <1>1, <1>2 DEF QueuedOnce, RoutedNow
  <1>4. \A i \in 1..Len(requests') : i + 1 \in 1..Len(requests) /\ i + 1 # 1
    BY <1>2
  <1> QED
    BY <1>1, <1>2, <1>3, <1>4 DEF QueuedOnce

\* A step of the event loop that takes the request Msg and leaves it in another state.
LEMMA TakeStep ==
    ASSUME AnswerInv, requests # <<>>, requests' = Tail(requests),
           NEW state \in Jobs \ {"idle", "posted"}, NEW value \in {"answer", "error"},
           job' = [job EXCEPT ![Msg] = state],
           \/ rchan' = rchan /\ state \notin {"reportOk", "done"}
           \/ rchan' = [rchan EXCEPT ![Msg] = Append(@, value)] /\ state = "done",
           routing' \subseteq routing \/ (routing' = {Msg} /\ state = "routing")
    PROVE  AnswerInv'
  <1>1. /\ Msg \in Reqs /\ job[Msg] = "posted" /\ Msg \notin routing
        /\ requests' \in Seq(Reqs)
        /\ \A i \in 1..Len(requests') : requests'[i] # Msg /\ job[requests'[i]] = "posted"
        /\ \A i, j \in 1..Len(requests') : requests'[i] = requests'[j] => i = j
    BY TakeShift
  <1> HIDE DEF Msg
  <1>2. /\ job' \in [Reqs -> Jobs] /\ rchan' \in [Reqs -> Seq({"answer", "error"})]
        /\ AnsweredOnce'
    BY <1>1, AnswerStep
  <1>3. \A i \in 1..Len(requests') : requests'[i] \in Reqs
    BY <1>1
  <1>4. routing \subseteq Reqs /\ RoutedNow /\ job \in [Reqs -> Jobs]
    BY DEF AnswerInv, RequestTypes
  <1>5. \A q \in Reqs : job'[q] = IF q = Msg THEN state ELSE job[q]
    BY <1>1, <1>4
  <1>6. routing' \subseteq Reqs /\ RoutedNow'
    BY <1>1, <1>4, <1>5 DEF RoutedNow
  <1>7. QueuedOnce'
    BY <1>1, <1>3, <1>5 DEF QueuedOnce
  <1> QED
    BY <1>1, <1>2, <1>6, <1>7 DEF AnswerInv, RequestTypes

\* A step of the goroutine of a request that is not in the channel.
LEMMA GoroutineStep ==
    ASSUME AnswerInv, NEW r \in Reqs, NEW state \in Jobs \ {"idle", "posted"},
           NEW value \in {"answer", "error"},
           job[r] \notin {"idle", "posted", "routing"},
           job' = [job EXCEPT ![r] = state],
           \/ /\ rchan' = rchan
              /\ (job[r] \in {"reportOk", "done"} <=> state \in {"reportOk", "done"})
           \/ /\ rchan' = [rchan EXCEPT ![r] = Append(@, value)]
              /\ job[r] \notin {"reportOk", "done"}
              /\ state \in {"reportOk", "done"},
           requests' = requests, routing' = routing
    PROVE  AnswerInv'
  <1>1. /\ job' \in [Reqs -> Jobs] /\ rchan' \in [Reqs -> Seq({"answer", "error"})]
        /\ AnsweredOnce'
    BY AnswerStep
  <1>2. /\ requests \in Seq(Reqs) /\ routing \subseteq Reqs /\ RoutedNow /\ QueuedOnce
        /\ job \in [Reqs -> Jobs]
    BY DEF AnswerInv, RequestTypes
  <1>3. \A q \in Reqs : job'[q] = IF q = r THEN state ELSE job[q]
    BY <1>2
  <1>4. \A i \in 1..Len(requests) : requests[i] \in Reqs
    BY <1>2
  <1>5. QueuedOnce' /\ RoutedNow'
    BY <1>2, <1>3, <1>4 DEF QueuedOnce, RoutedNow
  <1> QED
    BY <1>1, <1>2, <1>5 DEF AnswerInv, RequestTypes

\* A caller gives the router a new request.
LEMMA RouteAnswers ==
    ASSUME AnswerInv, NEW r \in Reqs, RouteRadiusRequest(r)
    PROVE  AnswerInv'
  <1>1. /\ job[r] = "idle" /\ job' = [job EXCEPT ![r] = "posted"]
        /\ requests' = IF chanClosed THEN requests ELSE Append(requests, r)
        /\ UNCHANGED <<routing, rchan>>
    BY DEF RouteRadiusRequest
  <1>2. /\ requests \in Seq(Reqs) /\ routing \subseteq Reqs /\ RoutedNow /\ QueuedOnce
        /\ job \in [Reqs -> Jobs]
    BY DEF AnswerInv, RequestTypes
  <1>3. /\ job' \in [Reqs -> Jobs] /\ rchan' \in [Reqs -> Seq({"answer", "error"})]
        /\ AnsweredOnce'
    BY <1>1, AnswerStep DEF Jobs
  <1>4. \A q \in Reqs : job'[q] = IF q = r THEN "posted" ELSE job[q]
    BY <1>1, <1>2
  <1>5. RoutedNow'
    BY <1>1, <1>2, <1>4 DEF RoutedNow
  <1>6. requests' \in Seq(Reqs) /\ QueuedOnce'
    <2>1. \A i \in 1..Len(requests) : requests[i] \in Reqs /\ requests[i] # r
      BY <1>1, <1>2 DEF QueuedOnce
    <2>2. CASE chanClosed
      BY <1>1, <1>2, <1>4, <2>1, <2>2 DEF QueuedOnce
    <2>3. CASE ~chanClosed
      <3>1. /\ requests' \in Seq(Reqs) /\ Len(requests') = Len(requests) + 1 /\ Len(requests) \in Nat
            /\ \A i \in 1..Len(requests) : requests'[i] = requests[i]
            /\ requests'[Len(requests) + 1] = r
        BY <1>1, <1>2, <2>3
      <3>2. \A i \in 1..Len(requests') : i \in 1..Len(requests) \/ i = Len(requests) + 1
        BY <3>1
      <3> QED
        BY <1>2, <1>4, <2>1, <3>1, <3>2 DEF QueuedOnce
    <2> QED
      BY <2>2, <2>3
  <1> QED
    BY <1>1, <1>2, <1>3, <1>5, <1>6 DEF AnswerInv, RequestTypes

LEMMA LoopAnswers ==
    ASSUME AnswerInv, EventLoop
    PROVE  AnswerInv'
  <1>1. CASE OnClose \/ OnSetDown \/ OnSendTable \/ OnUpdate \/ OnResult \/ OnClosedRequests
    BY <1>1 DEF OnClose, OnSetDown, OnSendTable, OnUpdate, OnResult, OnClosedRequests, Receive,
       AnswerInv, RequestTypes, QueuedOnce, RoutedNow, AnsweredOnce
  <1>2. CASE RefuseRequest
    BY <1>2, TakeStep DEF RefuseRequest, TakeRequest, Answer, Jobs
  <1>3. CASE StartHandler
    BY <1>3, TakeStep DEF StartHandler, TakeRequest, Jobs
  <1>4. CASE RouteToEndpoint
    BY <1>4, TakeStep DEF RouteToEndpoint, TakeRequest, Jobs
  <1>5. CASE RouteToGroup
    <2> DEFINE next == IF Released = {} THEN "try" ELSE "routing"
    <2>1. requests # <<>> /\ requests' = Tail(requests)
      BY <1>5 DEF RouteToGroup, TakeRequest
    <2>2. CASE Answer(Msg, "error") /\ UNCHANGED routing
      BY <2>1, <2>2, TakeStep DEF Answer, Jobs
    <2>3. CASE /\ routing' = IF Released = {} THEN {} ELSE {Msg}
               /\ job' = [job EXCEPT ![Msg] = next]
               /\ UNCHANGED rchan
      <3>1. next \in Jobs \ {"idle", "posted", "reportOk", "done"}
        BY DEF Jobs
      <3>2. routing' \subseteq routing \/ (routing' = {Msg} /\ next = "routing")
        BY <2>3
      <3> HIDE DEF next
      <3> QED
        BY <2>1, <2>3, <3>1, <3>2, TakeStep
    <2> QED
      BY <1>5, <2>2, <2>3 DEF RouteToGroup
  <1>6. CASE LoopPost
    <2>1. /\ routing' = IF posts = 1 THEN {} ELSE routing
          /\ job' = [r \in Reqs |-> IF posts = 1 /\ r \in routing THEN "try" ELSE job[r]]
          /\ UNCHANGED <<requests, rchan>>
      BY <1>6 DEF LoopPost
    <2>2. /\ requests \in Seq(Reqs) /\ routing \subseteq Reqs /\ RoutedNow /\ QueuedOnce
          /\ job \in [Reqs -> Jobs] /\ rchan \in [Reqs -> Seq({"answer", "error"})] /\ AnsweredOnce
      BY DEF AnswerInv, RequestTypes
    <2>3. job' \in [Reqs -> Jobs]
      BY <2>1, <2>2 DEF Jobs
    <2>4. \A r \in Reqs : job'[r] = job[r] \/ (job[r] = "routing" /\ job'[r] = "try")
      BY <2>1, <2>2 DEF RoutedNow
    <2>5. \A i \in 1..Len(requests) : requests[i] \in Reqs
      BY <2>2
    <2>6. QueuedOnce' /\ AnsweredOnce'
      <3>1. QueuedOnce'
        <4>1. requests' = requests
          BY <2>1
        <4>2. \A i \in 1..Len(requests) : job'[requests[i]] = "posted"
          BY <2>2, <2>4, <2>5 DEF QueuedOnce
        <4> QED
          BY <2>2, <4>1, <4>2 DEF QueuedOnce
      <3>2. ASSUME NEW r \in Reqs
            PROVE  job'[r] \in {"reportOk", "done"} <=> job[r] \in {"reportOk", "done"}
        BY <2>4
      <3>3. AnsweredOnce'
        BY <2>1, <2>2, <3>2 DEF AnsweredOnce
      <3> QED
        BY <3>1, <3>3
    <2>7. RoutedNow'
      <3>1. \A r \in routing' : r \in routing /\ posts # 1
        BY <2>1
      <3> QED
        BY <2>1, <2>2, <3>1 DEF RoutedNow
    <2> QED
      BY <2>1, <2>2, <2>3, <2>6, <2>7 DEF AnswerInv, RequestTypes
  <1> QED
    BY <1>1, <1>2, <1>3, <1>4, <1>5, <1>6 DEF EventLoop

LEMMA JobAnswers ==
    ASSUME AnswerInv, NEW r \in Reqs, Job(r)
    PROVE  AnswerInv'
  <1>1. CASE HandlerAnswers(r)
    BY <1>1, GoroutineStep DEF HandlerAnswers, JobStep, Answer, Jobs
  <1>2. CASE Try(r)
    BY <1>2, GoroutineStep DEF Try, JobStep, Jobs
  <1>3. CASE GotAnswer(r)
    <2> DEFINE next == IF Head(params[r]).hasErrors THEN "reportOk" ELSE "done"
    <2>1. /\ job[r] = "wait" /\ job' = [job EXCEPT ![r] = next]
          /\ rchan' = [rchan EXCEPT ![r] = Append(@, "answer")]
          /\ requests' = requests /\ routing' = routing
      BY <1>3 DEF GotAnswer, JobStep
    <2>2. next \in {"reportOk", "done"}
      OBVIOUS
    <2> HIDE DEF next
    <2> QED
      BY <2>1, <2>2, GoroutineStep DEF Jobs
  <1>4. CASE ReportOk(r)
    BY <1>4, GoroutineStep DEF ReportOk, JobStep, Jobs
  <1>5. CASE GotError(r)
    <2>1. job[r] = "wait" /\ requests' = requests /\ routing' = routing
      BY <1>5 DEF GotError, JobStep
    <2>2. \/ Answer(r, "error")
          \/ job' = [job EXCEPT ![r] = "try"] /\ rchan' = rchan
      BY <1>5 DEF GotError
    <2>3. CASE Answer(r, "error")
      BY <2>1, <2>3, GoroutineStep DEF Answer, Jobs
    <2>4. CASE job' = [job EXCEPT ![r] = "try"] /\ rchan' = rchan
      BY <2>1, <2>4, GoroutineStep DEF Jobs
    <2> QED
      BY <2>2, <2>3, <2>4
  <1> QED
    BY <1>1, <1>2, <1>3, <1>4, <1>5 DEF Job

LEMMA AnswersPreserved == AnswerInv /\ [Next]_vars => AnswerInv'
  <1> SUFFICES ASSUME AnswerInv, [Next]_vars PROVE AnswerInv'
    OBVIOUS
  <1>1. ASSUME NEW r \in Reqs, Job(r) PROVE AnswerInv'
    BY <1>1, JobAnswers
  <1>2. CASE EventLoop
    BY <1>2, LoopAnswers
  <1>3. ASSUME NEW r \in Reqs, RouteRadiusRequest(r) PROVE AnswerInv'
    BY <1>3, RouteAnswers
  <1>4. CASE UNCHANGED <<requests, routing, job, rchan>>
    BY <1>4 DEF AnswerInv, RequestTypes, QueuedOnce, RoutedNow, AnsweredOnce
  <1>5. CASE UNCHANGED routerVars
    BY <1>4, <1>5 DEF routerVars
  <1>6. CASE Closer \/ Tick \/ UpdateConfiguration \/ CloseBegin
    BY <1>4, <1>6 DEF Closer, CloseServers, CloseWait, ClosePost, CloseStep, Tick,
       UpdateConfiguration, CloseBegin
  <1>7. CASE Running
    BY <1>1, <1>2, <1>5, <1>6, <1>7 DEF Running, AnswerSteps, ClientSteps, SocketSteps
  <1>8. CASE UNCHANGED vars
    BY <1>5, <1>8 DEF vars
  <1> QED
    BY <1>3, <1>5, <1>6, <1>7, <1>8 DEF Next

\* A request never gets a second value on its RChan and has got one when its goroutine ends,
\* whatever the tries, the failures of the sockets, the changes of configuration and Close()
\* do (RouteRadiusRequestAsync and the
\* goroutines that handleRadiusRequest starts).
THEOREM RequestsAnsweredOnce == Spec => []OneAnswerPerRequest
  <1>1. ASSUME AnswerInv, NEW r \in Reqs
        PROVE  Len(rchan[r]) <= 1 /\ (job[r] = "done" => Len(rchan[r]) = 1)
    <2>1. AnsweredOnce
      BY <1>1 DEF AnswerInv
    <2>2. CASE job[r] \in {"reportOk", "done"}
      <3>1. Len(rchan[r]) = 1
        BY <2>1, <2>2 DEF AnsweredOnce
      <3> QED
        BY <3>1
    <2>3. CASE job[r] \notin {"reportOk", "done"}
      BY <2>1, <2>3 DEF AnsweredOnce
    <2> QED
      BY <2>2, <2>3
  <1>2. AnswerInv => OneAnswerPerRequest
    BY <1>1 DEF OneAnswerPerRequest
  <1> QED
    BY <1>2, InitAnswers, AnswersPreserved, PTL DEF Spec

-----------------------------------------------------------------------------
(* No panic in service *)

InService == closing = "idle" /\ failures = 0

\* Nothing has told the router to go down
RouterUp ==
    /\ chanClosed = FALSE
    /\ Len(control) \in Nat /\ control = [i \in 1..Len(control) |-> control[i]]
    /\ \A i \in 1..Len(control) : control[i].type \notin {"SetDown", "Close"}

\* Nothing has told the client to, and none of its sockets did
ClientUp ==
    /\ cChanClosed = FALSE /\ ~cTerminated /\ cClose = "idle" /\ cControl = <<>>
    /\ downPosted = [s \in Sockets |-> 0] /\ closers = [s \in Sockets |-> 0]

SocketTypes ==
    /\ port \in Seq(Ports) /\ Len(port) <= MaxSockets
    /\ clientSockets \in [Ports -> 0..Len(port)]
    /\ socket \in [Sockets -> {"none", "up", "down", "closed"}]

\* Every socket that was opened is the one that the client has for its port
SocketsUp == \A s \in 1..Len(port) : socket[s] = "up" /\ clientSockets[port[s]] = s

\* The requests that the client gave to sockets
ExchangesUp ==
    /\ cRequests \in Seq(Reqs)
    /\ xch \in [Reqs -> Exchanges] /\ at \in [Reqs -> Nat]
    /\ \A r \in Reqs : xch[r] = "socket" => at[r] \in 1..Len(port)

ServiceInv ==
    /\ failures \in Nat
    /\ InService =>
         RouterUp /\ ClientUp /\ SocketTypes /\ SocketsUp /\ ExchangesUp /\ crashed = FALSE

LEMMA InitService == Init => ServiceInv
  <1> SUFFICES ASSUME Init PROVE ServiceInv
    OBVIOUS
  <1>1. RouterUp
    <2>1. control = <<RouterSignal("SendTable")>> /\ chanClosed = FALSE
      BY DEF Init
    <2>2. Len(control) = 1 /\ control[1].type = "SendTable" /\ control = [i \in 1..1 |-> control[i]]
      BY <2>1 DEF RouterSignal
    <2> QED
      BY <2>1, <2>2 DEF RouterUp
  <1>2. ClientUp
    BY DEF Init, ClientInit, ClientUp
  <1>3. SocketTypes /\ SocketsUp
    BY ClientBounds DEF Init, ClientInit, SocketTypes, SocketsUp
  <1>4. ExchangesUp
    BY DEF Init, ClientInit, ExchangesUp, Exchanges
  <1> QED
    BY <1>1, <1>2, <1>3, <1>4 DEF Init, ClientInit, ServiceInv

\* What is posted in service does not tell the router to go down.
LEMMA PostInService ==
    ASSUME RouterUp, NEW m, m.type \notin {"SetDown", "Close"}, PostControl(m),
           chanClosed' = chanClosed
    PROVE  RouterUp'
  <1> DEFINE S == {control[i] : i \in 1..Len(control)} \cup {m}
  <1>1. /\ Len(control) \in Nat /\ control = [i \in 1..Len(control) |-> control[i]]
        /\ chanClosed = FALSE /\ chanClosed' = FALSE
        /\ \A i \in 1..Len(control) : control[i].type \notin {"SetDown", "Close"}
    BY DEF RouterUp
  <1>2. control' = Append(control, m)
    BY <1>1 DEF PostControl
  <1>3. control \in Seq(S) /\ m \in S
    <2>1. \A i \in 1..Len(control) : control[i] \in S
      OBVIOUS
    <2>2. m \in S
      OBVIOUS
    <2> HIDE DEF S
    <2>3. control \in [1..Len(control) -> S]
      BY <1>1, <2>1
    <2> QED
      BY <1>1, <2>2, <2>3
  <1> HIDE DEF S
  <1>4. /\ Len(control') = Len(control) + 1
        /\ \A i \in 1..Len(control) : control'[i] = control[i]
        /\ control'[Len(control) + 1] = m
        /\ control' \in Seq(S)
    BY <1>2, <1>3
  <1>5. Len(control') \in Nat /\ control' = [i \in 1..Len(control') |-> control'[i]]
    BY <1>4
  <1>6. \A i \in 1..Len(control') : i \in 1..Len(control) \/ i = Len(control) + 1
    BY <1>1, <1>4
  <1>7. \A i \in 1..Len(control') : control'[i].type \notin {"SetDown", "Close"}
    BY <1>1, <1>4, <1>6
  <1> QED
    BY <1>1, <1>5, <1>7 DEF RouterUp

\* The event loop receives no message that tells it to go down.
LEMMA ReceiveInService ==
    ASSUME RouterUp, NEW type, Receive(type)
    PROVE  RouterUp' /\ type \notin {"SetDown", "Close"}
  <1> DEFINE S == {control[i] : i \in 1..Len(control)}
  <1>1. /\ Len(control) \in Nat /\ control = [i \in 1..Len(control) |-> control[i]]
        /\ chanClosed = FALSE
        /\ \A i \in 1..Len(control) : control[i].type \notin {"SetDown", "Close"}
    BY DEF RouterUp
  <1>2. /\ control # <<>> /\ Head(control).type = type /\ control' = Tail(control)
        /\ chanClosed' = chanClosed
    BY DEF Receive
  <1>3. control \in Seq(S)
    <2>1. \A i \in 1..Len(control) : control[i] \in S
      OBVIOUS
    <2> HIDE DEF S
    <2>2. control \in [1..Len(control) -> S]
      BY <1>1, <2>1
    <2> QED
      BY <1>1, <2>2
  <1> HIDE DEF S
  <1>4. /\ Len(control) > 0 /\ Head(control) = control[1]
        /\ Len(control') = Len(control) - 1
        /\ \A i \in 1..Len(control') : control'[i] = control[i + 1]
        /\ control' \in Seq(S)
    BY <1>2, <1>3
  <1>5. Len(control') \in Nat /\ control' = [i \in 1..Len(control') |-> control'[i]]
    BY <1>4
  <1>6. \A i \in 1..Len(control') : control'[i].type \notin {"SetDown", "Close"}
    <2>1. \A i \in 1..Len(control') : i + 1 \in 1..Len(control)
      BY <1>1, <1>4
    <2> QED
      BY <1>1, <1>4, <2>1
  <1>7. type \notin {"SetDown", "Close"}
    BY <1>1, <1>2, <1>4
  <1> QED
    BY <1>1, <1>2, <1>5, <1>6, <1>7 DEF RouterUp

\* A step that does not touch the client.
LEMMA ClientUntouched ==
    ASSUME ClientUp, SocketTypes, SocketsUp, ExchangesUp, UNCHANGED clientVars
    PROVE  ClientUp' /\ SocketTypes' /\ SocketsUp' /\ ExchangesUp' /\ failures' = failures
BY DEF clientVars, ClientUp, SocketTypes, SocketsUp, ExchangesUp

-----------------------------------------------------------------------------
(* The steps in service; Up is what each of them keeps *)

Up == RouterUp /\ ClientUp /\ SocketTypes /\ SocketsUp /\ ExchangesUp /\ crashed = FALSE

LEMMA LoopInService ==
    ASSUME Up, EventLoop
    PROVE  Up' /\ failures' = failures
  <1> USE DEF Up
  <1>1. CASE OnClose \/ OnSetDown
    BY <1>1, ReceiveInService DEF OnClose, OnSetDown
  <1>2. CASE OnSendTable \/ OnUpdate \/ OnResult
    <2>1. RouterUp'
      BY <1>2, ReceiveInService DEF OnSendTable, OnUpdate, OnResult
    <2>2. UNCHANGED clientVars /\ UNCHANGED crashed
      BY <1>2 DEF OnSendTable, OnUpdate, OnResult
    <2> QED
      BY <2>1, <2>2, ClientUntouched
  <1>3. CASE RefuseRequest \/ StartHandler \/ RouteToGroup \/ RouteToEndpoint
    <2>1. UNCHANGED clientVars /\ UNCHANGED <<crashed, control, chanClosed>>
      BY <1>3 DEF RefuseRequest, StartHandler, RouteToGroup, RouteToEndpoint, TakeRequest
    <2> QED
      BY <2>1, ClientUntouched DEF RouterUp
  <1>4. CASE LoopPost
    <2>1. PostControl(RouterSignal("SendTable")) /\ chanClosed' = chanClosed
          /\ crashed' = chanClosed /\ UNCHANGED clientVars
      BY <1>4 DEF LoopPost
    <2>2. RouterSignal("SendTable").type \notin {"SetDown", "Close"}
      BY DEF RouterSignal
    <2>3. RouterUp'
      BY <2>1, <2>2, PostInService
    <2> QED
      BY <2>1, <2>3, ClientUntouched, Zenon DEF RouterUp
  <1>5. CASE OnClosedRequests
    BY <1>5 DEF OnClosedRequests, RouterUp
  <1> QED
    BY <1>1, <1>2, <1>3, <1>4, <1>5 DEF EventLoop

\* The variables of the client that an exchange of a goroutine does not touch
exchangeFrame ==
    <<cTerminated, cLoop, cControl, cChanClosed, cDone, cClose, clientSockets, port, socket,
      downPosted, closers, failures>>

LEMMA ExchangeStep ==
    ASSUME ClientUp, SocketTypes, SocketsUp, ExchangesUp, UNCHANGED exchangeFrame, ExchangesUp'
    PROVE  ClientUp' /\ SocketTypes' /\ SocketsUp' /\ failures' = failures
BY DEF exchangeFrame, ClientUp, SocketTypes, SocketsUp

LEMMA TakeInService ==
    ASSUME ClientUp, SocketTypes, SocketsUp, ExchangesUp, NEW r \in Reqs, NEW value,
           TakeValue(r, value)
    PROVE  ClientUp' /\ SocketTypes' /\ SocketsUp' /\ ExchangesUp' /\ failures' = failures
  <1>1. xch' = [xch EXCEPT ![r] = "none"] /\ UNCHANGED <<cRequests, at, port>>
    BY DEF TakeValue
  <1>2. ExchangesUp'
    BY <1>1 DEF ExchangesUp, Exchanges
  <1> QED
    BY <1>2, ExchangeStep DEF TakeValue, exchangeFrame

LEMMA JobInService ==
    ASSUME Up, NEW r \in Reqs, Job(r)
    PROVE  Up' /\ failures' = failures
  <1> USE DEF Up
  <1>1. CASE HandlerAnswers(r)
    <2>1. UNCHANGED clientVars /\ UNCHANGED <<crashed, control, chanClosed>>
      BY <1>1 DEF HandlerAnswers, JobStep
    <2> QED
      BY <2>1, ClientUntouched DEF RouterUp
  <1>2. CASE Try(r)
    <2>1. RadiusExchange(r) /\ UNCHANGED <<control, chanClosed>>
      BY <1>2 DEF Try, JobStep
    <2>2. /\ cRequests' = Append(cRequests, r) /\ xch' = [xch EXCEPT ![r] = "queued"]
          /\ UNCHANGED <<at, port>>
      BY <2>1 DEF RadiusExchange, ClientUp
    <2>3. ExchangesUp'
      BY <2>2 DEF ExchangesUp, Exchanges
    <2>4. UNCHANGED exchangeFrame
      BY <2>1 DEF RadiusExchange, exchangeFrame
    <2>5. crashed' = FALSE
      BY <2>1 DEF RadiusExchange, ClientUp
    <2>6. RouterUp'
      BY <2>1 DEF RouterUp
    <2> QED
      BY <2>3, <2>4, <2>5, <2>6, ExchangeStep
  <1>3. CASE GotAnswer(r)
    <2>1. TakeValue(r, "answer") /\ UNCHANGED <<crashed, control, chanClosed>>
      BY <1>3 DEF GotAnswer, JobStep
    <2> QED
      BY <2>1, TakeInService DEF RouterUp
  <1>4. CASE ReportOk(r)
    <2>1. /\ PostControl(Result(Head(params[r]).server, TRUE)) /\ chanClosed' = chanClosed
          /\ crashed' = chanClosed /\ UNCHANGED clientVars
      BY <1>4 DEF ReportOk, JobStep
    <2>2. RouterUp'
      BY <2>1, PostInService DEF Result
    <2> QED
      BY <2>1, <2>2, ClientUntouched, Zenon DEF RouterUp
  <1>5. CASE GotError(r)
    <2>1. /\ PostControl(Result(Head(params[r]).server, FALSE)) /\ chanClosed' = chanClosed
          /\ crashed' = chanClosed /\ TakeValue(r, "error")
      BY <1>5 DEF GotError, JobStep
    <2>2. RouterUp'
      BY <2>1, PostInService DEF Result
    <2> QED
      BY <2>1, <2>2, TakeInService, Zenon DEF RouterUp
  <1> QED
    BY <1>1, <1>2, <1>3, <1>4, <1>5 DEF Job

LEMMA ClientInService ==
    ASSUME Up, ClientSteps
    PROVE  Up' /\ failures' = failures
  <1> USE DEF Up
  <1>1. UNCHANGED <<control, chanClosed>>
    BY DEF ClientSteps, routerVars
  <1>2. RouterUp'
    BY <1>1 DEF RouterUp
  <1>3. cControl = <<>> /\ cClose = "idle" /\ ~cTerminated
    BY DEF ClientUp
  <1>4. ~ClientCloser /\ ~ClientOnClose /\ ~ClientOnSocketDown /\ ~ClientOnSetDown /\ ~ClientRefuse
    BY <1>3 DEF ClientCloser, ClientCloseWait, ClientClosePost, ClientCloseStep, ClientOnClose,
       ClientOnSocketDown, ClientOnSetDown, ClientReceive, ClientRefuse
  <1>5. PICK p \in Ports : ClientServe(p)
    BY <1>4 DEF ClientSteps, ClientLoop
  <1> DEFINE r == Head(cRequests)
  <1>6. /\ cRequests # <<>> /\ cRequests' = Tail(cRequests)
        /\ xch' = [xch EXCEPT ![r] = "socket"]
        /\ at' = [at EXCEPT ![r] = clientSockets'[p]]
        /\ UNCHANGED <<cTerminated, cControl, cChanClosed, cClose, downPosted, closers, failures>>
    BY <1>5 DEF ClientServe, ClientTakeRequest
  <1>7. ClientUp'
    BY <1>6 DEF ClientUp
  <1>8. cRequests' \in Seq(Reqs) /\ r \in Reqs
    BY <1>6 DEF ExchangesUp
  <1> HIDE DEF r
  <1>9. /\ port \in Seq(Ports) /\ Len(port) \in Nat /\ Len(port) <= MaxSockets
        /\ clientSockets \in [Ports -> 0..Len(port)] /\ MaxSockets \in Nat
        /\ socket \in [Sockets -> {"none", "up", "down", "closed"}]
        /\ SocketsUp
    BY ClientBounds DEF SocketTypes
  <1>10. /\ SocketTypes' /\ SocketsUp' /\ crashed' = FALSE
         /\ clientSockets'[p] \in 1..Len(port') /\ Len(port) <= Len(port')
    <2>1. CASE clientSockets[p] # 0
      <3>1. UNCHANGED <<clientSockets, port, socket, crashed>>
        BY <1>5, <2>1 DEF ClientServe
      <3> QED
        BY <1>9, <2>1, <3>1 DEF SocketTypes, SocketsUp
    <2>2. CASE clientSockets[p] = 0
      <3> DEFINE s == Len(port) + 1
      <3>1. /\ s \in Sockets /\ port' = Append(port, p)
            /\ crashed' = \E q \in 1..Len(port) : port[q] = p /\ socket[q] = "up"
            /\ clientSockets' = [clientSockets EXCEPT ![p] = s]
            /\ socket' = [socket EXCEPT ![s] = "up"]
        BY <1>5, <2>2 DEF ClientServe
      <3>2. \A q \in 1..Len(port) : port[q] \in Ports /\ port[q] # p
        BY <1>9, <2>2 DEF SocketsUp
      <3>3. crashed' = FALSE
        <4>1. ~ \E q \in 1..Len(port) : port[q] = p /\ socket[q] = "up"
          BY <3>2
        <4> QED
          BY <3>1, <4>1, Zenon
      <3>4. /\ port' \in Seq(Ports) /\ Len(port') = s /\ port'[s] = p
            /\ \A q \in 1..Len(port) : port'[q] = port[q]
        BY <1>9, <3>1
      <3>5. Len(port') <= MaxSockets
        BY <3>1, <3>4 DEF Sockets
      <3>6. socket' \in [Sockets -> {"none", "up", "down", "closed"}]
        BY <1>9, <3>1
      <3>7. clientSockets' \in [Ports -> 0..Len(port')]
        BY <1>9, <3>1, <3>4
      <3>8. SocketsUp'
        <4>1. ASSUME NEW q \in 1..Len(port) PROVE socket'[q] = "up" /\ clientSockets'[port'[q]] = q
          <5>1. q # s /\ q \in Sockets
            BY <1>9 DEF Sockets
          <5>2. socket[q] = "up" /\ clientSockets[port[q]] = q /\ port[q] \in Ports /\ port[q] # p
            BY <1>9, <3>2 DEF SocketsUp
          <5> QED
            BY <1>9, <3>1, <3>4, <5>1, <5>2
        <4>2. socket'[s] = "up" /\ clientSockets'[port'[s]] = s
          BY <1>9, <3>1, <3>4
        <4>3. \A q \in 1..Len(port') : q \in 1..Len(port) \/ q = s
          BY <1>9, <3>4
        <4> QED
          BY <4>1, <4>2, <4>3 DEF SocketsUp
      <3>9. clientSockets'[p] \in 1..Len(port') /\ Len(port) <= Len(port')
        BY <1>9, <3>1, <3>4
      <3> QED
        BY <3>3, <3>4, <3>5, <3>6, <3>7, <3>8, <3>9 DEF SocketTypes
    <2> QED
      BY <1>9, <2>1, <2>2
  <1>11. ExchangesUp'
    <2>1. xch' \in [Reqs -> Exchanges] /\ at' \in [Reqs -> Nat]
      BY <1>6, <1>8, <1>10 DEF ExchangesUp, Exchanges, SocketTypes
    <2>2. ASSUME NEW q \in Reqs, xch'[q] = "socket" PROVE at'[q] \in 1..Len(port')
      <3>1. CASE q = r
        BY <1>6, <1>8, <1>10, <3>1 DEF ExchangesUp
      <3>2. CASE q # r
        <4>1. xch[q] = "socket" /\ at'[q] = at[q]
          BY <1>6, <1>8, <2>2, <3>2 DEF ExchangesUp
        <4>2. at[q] \in 1..Len(port) /\ Len(port') \in Nat
          BY <4>1, <1>10 DEF ExchangesUp, SocketTypes
        <4> QED
          BY <1>9, <1>10, <4>1, <4>2
      <3> QED
        BY <3>1, <3>2
    <2> QED
      BY <1>8, <2>1, <2>2 DEF ExchangesUp
  <1> QED
    BY <1>2, <1>6, <1>7, <1>10, <1>11

LEMMA SocketsInService ==
    ASSUME Up, UNCHANGED routerVars,
           \/ \E s \in Sockets : SocketRuns(s)
           \/ \E r \in Reqs, value \in {"answer", "error"} : SocketAnswers(r, value)
           \/ \E r \in Reqs : SocketRefuses(r)
    PROVE  Up' /\ failures' = failures
  <1> USE DEF Up
  <1>1. RouterUp'
    BY DEF routerVars, RouterUp
  <1>2. ASSUME NEW s \in Sockets PROVE ~SocketRuns(s)
    <2>1. downPosted[s] = 0 /\ closers[s] = 0
      BY DEF ClientUp
    <2> QED
      BY <2>1 DEF SocketRuns, SocketOnSetDown, SocketClose
  <1>3. ASSUME NEW r \in Reqs, SocketRefuses(r) PROVE FALSE
    <2>1. xch[r] = "socket" /\ socket[at[r]] = "down"
      BY <1>3 DEF SocketRefuses
    <2>2. at[r] \in 1..Len(port)
      BY <2>1 DEF ExchangesUp
    <2> QED
      BY <2>1, <2>2 DEF SocketsUp
  <1>4. PICK r \in Reqs, value \in {"answer", "error"} : SocketAnswers(r, value)
    BY <1>2, <1>3
  <1>5. /\ xch' = [xch EXCEPT ![r] = value] /\ at' = [at EXCEPT ![r] = 0]
        /\ UNCHANGED <<port, cRequests, crashed>> /\ UNCHANGED exchangeFrame
    BY <1>4 DEF SocketAnswers, SocketStep, exchangeFrame
  <1>6. ExchangesUp'
    BY <1>5 DEF ExchangesUp, Exchanges
  <1> QED
    BY <1>1, <1>5, <1>6, ExchangeStep

\* The failures of sockets are counted, and Close() is called once.
LEMMA ServiceEnds ==
    ASSUME [Next]_vars
    PROVE  /\ failures' = failures \/ failures' = failures + 1
           /\ closing' = "idle" => closing = "idle"
  <1>1. CASE UNCHANGED vars
    BY <1>1 DEF vars, clientVars, routerVars
  <1>2. CASE Tick \/ UpdateConfiguration \/ CloseBegin
    BY <1>2 DEF Tick, UpdateConfiguration, CloseBegin, CloseStep, clientVars
  <1>3. ASSUME NEW r \in Reqs, RouteRadiusRequest(r) PROVE failures' = failures /\ closing' = closing
    BY <1>3 DEF RouteRadiusRequest, clientVars
  <1>4. ASSUME NEW s \in Sockets, SocketFails(s), UNCHANGED routerVars
        PROVE  failures' = failures + 1 /\ closing' = closing
    BY <1>4 DEF SocketFails, routerVars
  <1>5. CASE Closer
    BY <1>5 DEF Closer, CloseServers, CloseWait, ClosePost, CloseStep, clientVars
  <1>6. CASE EventLoop
    BY <1>6 DEF EventLoop, OnClose, OnSetDown, OnSendTable, OnUpdate, OnResult, RefuseRequest,
       StartHandler, RouteToGroup, RouteToEndpoint, LoopPost, OnClosedRequests, Receive, TakeRequest,
       ClientSetDown, clientVars
  <1>7. ASSUME NEW r \in Reqs, Job(r) PROVE failures' = failures /\ closing' = closing
    BY <1>7 DEF Job, HandlerAnswers, Try, GotAnswer, ReportOk, GotError, JobStep, RadiusExchange,
       TakeValue, clientVars
  <1>8. CASE ClientSteps
    BY <1>8 DEF ClientSteps, ClientCloser, ClientCloseWait, ClientClosePost, ClientCloseStep,
       ClientLoop, ClientOnClose, ClientOnSocketDown, ClientOnSetDown, ClientReceive, ClientRefuse,
       ClientServe, ClientTakeRequest, routerVars
  <1>9. ASSUME NEW s \in Sockets, SocketSteps(s) PROVE failures' = failures /\ closing' = closing
    BY <1>9 DEF SocketSteps, SocketRuns, SocketOnSetDown, SocketClose, routerVars
  <1>10. ASSUME NEW r \in Reqs, AnswerSteps(r) PROVE failures' = failures /\ closing' = closing
    BY <1>10 DEF AnswerSteps, SocketAnswers, SocketRefuses, routerVars
  <1> QED
    BY <1>1, <1>2, <1>3, <1>4, <1>5, <1>6, <1>7, <1>8, <1>9, <1>10 DEF Next, Running

LEMMA ServicePreserved == ServiceInv /\ [Next]_vars => ServiceInv'
  <1> SUFFICES ASSUME ServiceInv, [Next]_vars PROVE ServiceInv'
    OBVIOUS
  <1>1. failures \in Nat /\ (InService => Up)
    BY DEF ServiceInv, Up
  <1>2. failures' \in Nat /\ (InService' => InService)
    BY <1>1, ServiceEnds DEF InService
  <1> SUFFICES ASSUME InService, InService' PROVE Up'
    BY <1>2 DEF ServiceInv, Up
  <1>3. Up /\ closing = "idle" /\ closing' = "idle" /\ failures = 0 /\ failures' = 0
    BY <1>1 DEF InService
  <1>4. ~Closer /\ ~CloseBegin
    BY <1>3 DEF Closer, CloseServers, CloseWait, ClosePost, CloseBegin, CloseStep
  <1>5. ASSUME NEW s \in Sockets PROVE ~SocketFails(s)
    BY <1>3 DEF SocketFails
  <1>6. CASE EventLoop
    BY <1>3, <1>6, LoopInService
  <1>7. ASSUME NEW r \in Reqs, Job(r) PROVE Up'
    BY <1>3, <1>7, JobInService
  <1>8. CASE ClientSteps
    BY <1>3, <1>8, ClientInService
  <1>9. ASSUME NEW s \in Sockets, SocketSteps(s) PROVE Up'
    BY <1>3, <1>9, SocketsInService DEF SocketSteps
  <1>10. ASSUME NEW r \in Reqs, AnswerSteps(r) PROVE Up'
    BY <1>3, <1>10, SocketsInService DEF AnswerSteps
  <1>11. CASE Tick \/ (\E r \in Reqs : RouteRadiusRequest(r))
    <2>1. UNCHANGED clientVars /\ UNCHANGED <<control, chanClosed>>
      BY <1>11 DEF Tick, RouteRadiusRequest
    <2>2. crashed' = FALSE
      BY <1>3, <1>11 DEF Tick, RouteRadiusRequest, Up, RouterUp
    <2>3. RouterUp'
      BY <1>3, <2>1 DEF Up, RouterUp
    <2> QED
      BY <1>3, <2>1, <2>2, <2>3, ClientUntouched DEF Up
  <1>12. CASE UpdateConfiguration
    <2>1. /\ PostControl(RouterSignal("Update")) /\ UNCHANGED clientVars
          /\ UNCHANGED <<crashed, chanClosed>>
      BY <1>12 DEF UpdateConfiguration
    <2>2. RouterUp'
      BY <1>3, <2>1, PostInService DEF Up, RouterSignal
    <2> QED
      BY <1>3, <2>1, <2>2, ClientUntouched DEF Up
  <1>13. CASE UNCHANGED vars
    <2>1. UNCHANGED clientVars /\ UNCHANGED <<crashed, control, chanClosed>>
      BY <1>13 DEF vars, routerVars
    <2> QED
      BY <1>3, <2>1, ClientUntouched DEF Up, RouterUp
  <1> QED
    BY <1>4, <1>5, <1>6, <1>7, <1>8, <1>9, <1>10, <1>11, <1>12, <1>13 DEF Next, Running

\* As long as Close() was not called and no socket failed, the program does not panic: no channel
\* is used after being closed, and no port is bound twice (NewRadiusClientSocket), whatever
\* requests, results and changes of configuration interleave.
THEOREM RouterNeverPanics == Spec => []NoPanicInService
  <1>1. ServiceInv => NoPanicInService
    BY DEF ServiceInv, InService, NoPanicInService
  <1> QED
    BY <1>1, InitService, ServicePreserved, PTL DEF Spec

=============================================================================
