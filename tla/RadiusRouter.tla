---------------------------- MODULE RadiusRouter ----------------------------
(***************************************************************************)
(* The RadiusRouter (router/radius_router.go) composed with its RadiusClient: *)
(* the actor that keeps the availability of the upstream servers of a group, *)
(* tries them in turn for every request, counts their errors, puts them in   *)
(* quarantine, and gives the other requests to a handler.                    *)
(*                                                                          *)
(* A handler of the event loop is one step, except that the SendRadiusTable  *)
(* messages it sends to its own channel are posted one by one ("posts"): the *)
(* goroutines may get in between and the loop waits if its channel is full.  *)
(***************************************************************************)
EXTENDS RadiusClient, SequencesExt

CONSTANTS
    Servers,     \* the servers of the configuration
    Group,       \* serverGroup.Servers, a sequence
    Random,      \* the policy of the group is "random"
    Dests,       \* what each request may be for: "group", "endpoint" (ip:port), "handler" (local or
                 \* http), "nowhere" (no such group, or a packet that is not a request)
    Tries,       \* tries of each request
    ErrorLimit,  \* errors in a row that make a server unavailable
    Quarantine,  \* QuarantineTimeSeconds
    Capacity,    \* CONTROL_QUEUE_SIZE
    LateRequests,\* RadiusServer.Close() leaves handlers that may still route a request
    MaxEvents    \* bound: ticks of the clock, calls of UpdateConfiguration, failures of sockets

ASSUME RouterAssumption ==
    /\ IsFiniteSet(Servers) /\ Group \in Seq(Servers)
    /\ Dests \in [Reqs -> SUBSET {"group", "endpoint", "handler", "nowhere"}]
    /\ Tries \in [Reqs -> Nat \ {0}]
    /\ {ErrorLimit, Capacity} \subseteq Nat \ {0}
    /\ {Quarantine, MaxEvents} \subseteq Nat
    /\ Random \in BOOLEAN /\ LateRequests \in BOOLEAN

VARIABLES
    table,      \* radiusServersTable: isAvailable, numErrors, until (unavailableUntil)
    shown,      \* the table as last sent to instrumentation
    now,
    terminated, \* status = StatusTerminated
    loop,       \* the event loop: "running", "done", "stuck"
    control,    \* routerControlChan
    requests,   \* radiusRequestsChan
    posts,      \* SendRadiusTable messages the loop has yet to post
    routing,    \* the request the loop was routing, a set of at most one
    doneChan,   \* doneChan is closed
    chanClosed, \* both channels are closed
    wg,
    closing,    \* Close(): "idle", "wait", "client", "post", "closed"
    dest,       \* what each request is for
    job,        \* the goroutine of each request
    params,     \* its RadiusRequestParamsSet: server (or "none") and hasErrors
    rchan,      \* what was written to its RChan
    updates

routerVars == <<table, shown, now, terminated, loop, control, requests, posts, routing,
                doneChan, chanClosed, wg, closing, dest, job, params, rchan, updates>>
vars == <<clientVars, crashed, routerVars>>

RouterSignal(type) == [type |-> type]
\* RadiusRequestResult
Result(server, ok) == [type |-> "Result", server |-> server, ok |-> ok]

\* buildRadiusServersTable
NewTable == [s \in Servers |-> [isAvailable |-> TRUE, numErrors |-> 0, until |-> 0]]

\* parseRadiusServersTable: appends the servers to as many empty entries
ParsedTable(t) == [empty |-> Cardinality(Servers), available |-> [s \in Servers |-> t[s].isAvailable]]

\* NewRadiusRouter and Start
Init ==
    /\ ClientInit /\ crashed = FALSE
    /\ table = NewTable
    /\ shown = [empty |-> 0, available |-> [s \in Servers |-> TRUE]]
    /\ now = 1
    /\ terminated = FALSE /\ loop = "running"
    /\ control = <<RouterSignal("SendTable")>> /\ requests = <<>>
    /\ posts = 0 /\ routing = {}
    /\ doneChan = FALSE /\ chanClosed = FALSE
    /\ wg = 0 /\ closing = "idle"
    /\ dest = [r \in Reqs |-> "none"]
    /\ job = [r \in Reqs |-> "idle"]
    /\ params = [r \in Reqs |-> <<>>]
    /\ rchan = [r \in Reqs |-> <<>>]
    /\ updates = 0

-----------------------------------------------------------------------------
(* Callers *)

InBounds == (now - 1) + updates + failures < MaxEvents

Tick ==
    /\ ~crashed
    /\ InBounds
    /\ now' = now + 1
    /\ UNCHANGED <<clientVars, crashed, table, shown, terminated, loop, control,
                   requests, posts, routing, doneChan, chanClosed, wg, closing, job, params,
                   rchan, updates, dest>>

\* RouteRadiusRequest and RouteRadiusRequestAsync
RouteRadiusRequest(r) ==
    /\ ~crashed
    /\ job[r] = "idle"
    /\ LateRequests \/ closing \in {"idle", "wait", "client"}
    /\ \E d \in Dests[r] : dest' = [dest EXCEPT ![r] = d]
    /\ job' = [job EXCEPT ![r] = "posted"]
    /\ wg' = wg + 1
    /\ requests' = IF chanClosed THEN requests ELSE Append(requests, r)
    /\ crashed' = chanClosed
    /\ UNCHANGED <<clientVars, table, shown, now, terminated, loop, control, posts,
                   routing, doneChan, chanClosed, closing, params, rchan, updates>>

\* A goroutine posts to routerControlChan: waits while it is full, panics if it is closed
PostControl(m) ==
    /\ ~crashed
    /\ chanClosed \/ Len(control) < Capacity
    /\ control' = IF chanClosed THEN control ELSE Append(control, m)

UpdateConfiguration ==
    /\ closing = "idle"
    /\ InBounds
    /\ PostControl(RouterSignal("Update"))
    /\ updates' = updates + 1
    /\ UNCHANGED <<clientVars, crashed, table, shown, now, terminated, loop, requests,
                   posts, routing, doneChan, chanClosed, wg, closing, job, params, rchan, dest>>

-----------------------------------------------------------------------------
(* Close() *)

CloseStep(from, to) ==
    /\ ~crashed
    /\ closing = from
    /\ closing' = to
    /\ UNCHANGED <<crashed, table, shown, now, terminated, loop, requests, posts, routing,
                   doneChan, wg, job, params, rchan, updates, dest>>

CloseBegin ==
    /\ PostControl(RouterSignal("SetDown"))
    /\ CloseStep("idle", "wait")
    /\ UNCHANGED <<clientVars, chanClosed>>

\* The RadiusServers are closed, which does not wait for their handlers, and then the client
CloseServers ==
    /\ doneChan
    /\ CloseStep("wait", "client")
    /\ cClose' = "wait"
    /\ UNCHANGED <<cTerminated, cLoop, cControl, cRequests, cChanClosed, cDone, cWg, clientSockets,
                   port, socket, downPosted, closers, xch, at, failures, control, chanClosed>>

\* Waits for the client and for router.wg
CloseWait ==
    /\ cClose = "closed" /\ wg = 0
    /\ CloseStep("client", "post")
    /\ UNCHANGED <<clientVars, control, chanClosed>>
\* Ends the event loop and closes the channels
ClosePost ==
    /\ PostControl(RouterSignal("Close"))
    /\ CloseStep("post", "closed")
    /\ chanClosed' = TRUE
    /\ UNCHANGED clientVars

Closer == CloseServers \/ CloseWait \/ ClosePost

-----------------------------------------------------------------------------
(* The event loop: control messages *)

LoopIdle == ~crashed /\ loop = "running" /\ posts = 0

Receive(type) ==
    /\ LoopIdle
    /\ control # <<>>
    /\ Head(control).type = type
    /\ control' = Tail(control)
    /\ UNCHANGED <<now, requests, routing, chanClosed, wg, closing, job, params, rchan, updates,
                   dest>>

OnClose ==
    /\ Receive("Close")
    /\ loop' = "done"
    /\ UNCHANGED <<clientVars, crashed, table, shown, terminated, posts, doneChan>>

OnSetDown ==
    /\ Receive("SetDown")
    /\ terminated' = TRUE
    /\ ClientSetDown
    /\ doneChan' = TRUE
    /\ UNCHANGED <<crashed, table, shown, loop, posts>>

OnSendTable ==
    /\ Receive("SendTable")
    /\ shown' = ParsedTable(table)
    /\ UNCHANGED <<clientVars, crashed, table, terminated, loop, posts, doneChan>>

OnUpdate ==
    /\ Receive("Update")
    /\ table' = NewTable
    /\ UNCHANGED <<clientVars, crashed, shown, terminated, loop, posts, doneChan>>

\* A result of a server that is not available, or has no name, is ignored
Counted(res) ==
    /\ res.server \in Servers
    /\ table[res.server].isAvailable
Reaches(s) == table[s].numErrors + 1 >= ErrorLimit
OnError(s) ==
    [table EXCEPT ![s] =
        [isAvailable |-> ~Reaches(s),
         numErrors   |-> @.numErrors + 1,
         until       |-> IF Reaches(s) THEN now + Quarantine ELSE @.until]]
OnSuccess(s) == [table EXCEPT ![s].numErrors = 0]

OnResult ==
    LET res == Head(control)
        failed == Counted(res) /\ ~res.ok
    IN /\ Receive("Result")
       /\ table' = IF failed THEN OnError(res.server)
                   ELSE IF Counted(res) THEN OnSuccess(res.server) ELSE table
       /\ posts' = IF failed /\ Reaches(res.server) THEN 1 ELSE 0
       /\ UNCHANGED <<clientVars, crashed, shown, terminated, loop, doneChan>>

-----------------------------------------------------------------------------
(* The event loop: requests *)

TakeRequest ==
    /\ LoopIdle
    /\ requests # <<>>
    /\ requests' = Tail(requests)
    /\ UNCHANGED <<clientVars, crashed, shown, now, terminated, loop, control, doneChan,
                   chanClosed, closing, updates, dest>>

Msg == Head(requests)

\* RChan <- value; close(RChan); router.wg.Done() for the request
Answer(r, value) ==
    /\ rchan' = [rchan EXCEPT ![r] = Append(@, value)]
    /\ job' = [job EXCEPT ![r] = "done"]

\* "router terminated", "no server available" and "non-request packet"
RefuseRequest ==
    /\ TakeRequest
    /\ terminated \/ dest[Msg] = "nowhere"
    /\ Answer(Msg, "error")
    /\ wg' = wg - 1
    /\ UNCHANGED <<table, posts, routing, params>>

\* A goroutine calls the local handler, or posts the packet to one of the http handlers
StartHandler ==
    /\ TakeRequest
    /\ ~terminated /\ dest[Msg] = "handler"
    /\ job' = [job EXCEPT ![Msg] = "handler"]
    /\ wg' = (wg + 1) - 1
    /\ UNCHANGED <<table, posts, routing, params, rchan>>

\* The servers that may be used, those whose quarantine is over included
Usable(s) == table[s].isAvailable \/ table[s].until < now
Released == {s \in ToSet(Group) : ~table[s].isAvailable /\ Usable(s)}
Refreshed == [s \in Servers |-> [table[s] EXCEPT !.isAvailable = @ \/ s \in Released]]

\* getRouteParams for a group: the usable servers in turn, from the initial one
RouteParams(initial) ==
    LET available == SelectSeq(Group, Usable) IN
    [i \in 1..Tries[Msg] |->
        LET s == available[((initial + i - 1) % Len(available)) + 1]
        IN [server |-> s, hasErrors |-> table[s].numErrors > 0]]

RouteToGroup ==
    LET available == SelectSeq(Group, Usable) IN
    /\ TakeRequest
    /\ ~terminated /\ dest[Msg] = "group"
    /\ table' = Refreshed
    /\ posts' = Cardinality(Released)
    /\ IF available = <<>>
       THEN /\ Answer(Msg, "error")
            /\ wg' = wg - 1
            /\ UNCHANGED <<params, routing>>
       ELSE /\ \E initial \in IF Random THEN 0..(Len(available) - 1) ELSE {0} :
                 params' = [params EXCEPT ![Msg] = RouteParams(initial)]
            /\ routing' = IF Released = {} THEN {} ELSE {Msg}
            /\ job' = [job EXCEPT ![Msg] = IF Released = {} THEN "try" ELSE "routing"]
            /\ wg' = (wg + 1) - 1
            /\ UNCHANGED rchan

RouteToEndpoint ==
    /\ TakeRequest
    /\ ~terminated /\ dest[Msg] = "endpoint"
    /\ params' = [params EXCEPT ![Msg] = <<[server |-> "none", hasErrors |-> FALSE]>>]
    /\ job' = [job EXCEPT ![Msg] = "try"]
    /\ wg' = (wg + 1) - 1
    /\ UNCHANGED <<table, posts, routing, rchan>>

\* The loop sends SendRadiusTable to itself; after the last one it goes on with the request
LoopPost ==
    /\ loop = "running"
    /\ posts > 0
    /\ PostControl(RouterSignal("SendTable"))
    /\ crashed' = chanClosed
    /\ posts' = posts - 1
    /\ routing' = IF posts = 1 THEN {} ELSE routing
    /\ job' = [r \in Reqs |-> IF posts = 1 /\ r \in routing THEN "try" ELSE job[r]]
    /\ UNCHANGED <<clientVars, table, shown, now, terminated, loop, requests, doneChan,
                   chanClosed, wg, closing, params, rchan, updates, dest>>

\* The zero value from the closed channel has no RChan: the loop waits forever
OnClosedRequests ==
    /\ LoopIdle
    /\ chanClosed /\ requests = <<>>
    /\ loop' = "stuck"
    /\ UNCHANGED <<clientVars, crashed, table, shown, now, terminated, control, requests,
                   posts, routing, doneChan, chanClosed, wg, closing, job, params, rchan, updates,
                   dest>>

EventLoop ==
    \/ OnClose \/ OnSetDown \/ OnSendTable \/ OnUpdate \/ OnResult
    \/ RefuseRequest \/ StartHandler \/ RouteToGroup \/ RouteToEndpoint
    \/ LoopPost \/ OnClosedRequests

-----------------------------------------------------------------------------
(* The goroutines of the requests *)

JobStep(r, state) ==
    /\ ~crashed
    /\ job[r] = state
    /\ UNCHANGED <<table, shown, now, terminated, loop, requests, posts, routing,
                   doneChan, chanClosed, closing, updates, dest>>

HandlerAnswers(r) ==
    /\ JobStep(r, "handler")
    /\ \E value \in {"answer", "error"} : Answer(r, value)
    /\ wg' = wg - 1
    /\ UNCHANGED <<clientVars, crashed, control, params>>

Try(r) ==
    /\ JobStep(r, "try")
    /\ RadiusExchange(r)
    /\ job' = [job EXCEPT ![r] = "wait"]
    /\ UNCHANGED <<control, wg, params, rchan>>

\* <-ch
TakeValue(r, value) ==
    /\ xch[r] = value
    /\ xch' = [xch EXCEPT ![r] = "none"]
    /\ UNCHANGED <<cTerminated, cLoop, cControl, cRequests, cChanClosed, cDone, cWg, cClose,
                   clientSockets, port, socket, downPosted, closers, at, failures>>

\* The success is reported only if the server had errors when the route was computed
GotAnswer(r) ==
    LET reported == Head(params[r]).hasErrors IN
    /\ JobStep(r, "wait")
    /\ TakeValue(r, "answer")
    /\ rchan' = [rchan EXCEPT ![r] = Append(@, "answer")]
    /\ job' = [job EXCEPT ![r] = IF reported THEN "reportOk" ELSE "done"]
    /\ wg' = IF reported THEN wg ELSE wg - 1
    /\ UNCHANGED <<crashed, control, params>>

ReportOk(r) ==
    /\ JobStep(r, "reportOk")
    /\ PostControl(Result(Head(params[r]).server, TRUE))
    /\ crashed' = chanClosed
    /\ job' = [job EXCEPT ![r] = "done"]
    /\ wg' = wg - 1
    /\ UNCHANGED <<clientVars, params, rchan>>

\* Mutants: no answer after the last try; an answer after every try
EndTry(r, last) ==
    /\ JobStep(r, "wait")
    /\ TakeValue(r, "error")
    /\ PostControl(Result(Head(params[r]).server, FALSE))
    /\ crashed' = chanClosed
    /\ params' = [params EXCEPT ![r] = Tail(@)]
    /\ job' = [job EXCEPT ![r] = IF last THEN "done" ELSE "try"]
    /\ wg' = IF last THEN wg - 1 ELSE wg
GotError_NotAnswered(r) == EndTry(r, Len(params[r]) = 1) /\ UNCHANGED rchan
GotError_EveryTry(r) ==
    /\ EndTry(r, Len(params[r]) = 1)
    /\ rchan' = [rchan EXCEPT ![r] = Append(@, "error")]

\* The error is reported, and the next try begins or the request fails after the last one
GotError(r) ==
    LET last == Len(params[r]) = 1 IN
    /\ JobStep(r, "wait")
    /\ TakeValue(r, "error")
    /\ PostControl(Result(Head(params[r]).server, FALSE))
    /\ crashed' = chanClosed
    /\ params' = [params EXCEPT ![r] = Tail(@)]
    /\ IF last THEN Answer(r, "error")
       ELSE job' = [job EXCEPT ![r] = "try"] /\ UNCHANGED rchan
    /\ wg' = IF last THEN wg - 1 ELSE wg

Job(r) ==
    HandlerAnswers(r) \/ Try(r) \/ GotAnswer(r) \/ ReportOk(r) \/ GotError(r)

-----------------------------------------------------------------------------
ClientSteps == (ClientCloser \/ ClientLoop) /\ UNCHANGED routerVars
SocketSteps(s) == SocketRuns(s) /\ UNCHANGED routerVars
AnswerSteps(r) ==
    /\ \/ \E value \in {"answer", "error"} : SocketAnswers(r, value)
       \/ SocketRefuses(r)
    /\ UNCHANGED routerVars

\* What runs by itself: goroutines, the loops, sockets that have something to answer
\* (RequestAnswered of RadiusClientSocket) and handlers.  Nothing is assumed of callers, of the
\* clock, of failures nor of who calls Close, but none of them goes on forever, so that it is
\* enough to assume that something runs as long as something can.
Running ==
    \/ \E r \in Reqs : Job(r) \/ AnswerSteps(r)
    \/ ClientSteps
    \/ EventLoop
    \/ \E s \in Sockets : SocketSteps(s)
    \/ Closer
Fairness == WF_vars(Running)

Next ==
    \/ Running
    \/ Tick \/ UpdateConfiguration \/ CloseBegin
    \/ \E r \in Reqs : RouteRadiusRequest(r)
    \/ \E s \in Sockets : InBounds /\ SocketFails(s) /\ UNCHANGED routerVars

Spec == Init /\ [][Next]_vars
FairSpec == Spec /\ Fairness

-----------------------------------------------------------------------------
(* Properties *)

Jobs == {"idle", "posted", "routing", "handler", "try", "wait", "reportOk", "done"}
Exchanges == {"none", "queued", "socket", "answer", "error"}

\* The variables of the router and of the client keep their types.
TypeOK ==
    /\ table \in [Servers -> [isAvailable : BOOLEAN, numErrors : Nat, until : Nat]]
    /\ shown \in [empty : Nat, available : [Servers -> BOOLEAN]]
    /\ loop \in {"running", "done", "stuck"} /\ posts \in Nat /\ routing \subseteq Reqs
    /\ requests \in Seq(Reqs) /\ wg \in Int
    /\ job \in [Reqs -> Jobs]
    /\ \A r \in Reqs : Len(params[r]) <= Tries[r]
    /\ clientSockets \in [Ports -> {0} \cup Sockets]
    /\ socket \in [Sockets -> {"none", "up", "down", "closed"}]
    /\ xch \in [Reqs -> Exchanges] /\ at \in [Reqs -> {0} \cup Sockets]
    /\ cRequests \in Seq(Reqs) /\ cWg \in Int

\* Whatever happens to its tries, a request gets exactly one value on RChan, which is closed
\* after it: none twice, none forgotten when its goroutine ends.
OneAnswerPerRequest ==
    \A r \in Reqs :
        /\ Len(rchan[r]) <= 1
        /\ job[r] = "done" => Len(rchan[r]) = 1

\* There is no panic as long as Close() was not called and the sockets work.
NoPanicInService == crashed => closing # "idle" \/ failures > 0

\* An exchange that the client took into its channel after its last request was counted
Lost(r) == xch[r] = "queued" /\ cLoop = "done"

\* Every request is eventually answered, unless the program panics or the client is closed
\* under the goroutine that sends the next try.
RequestAnswered ==
    \A r \in Reqs : job[r] = "posted" ~> (rchan[r] # <<>> \/ crashed \/ Lost(r))

\* Close() returns, with the same exceptions.
CloseCompletes ==
    closing = "wait" ~> (closing = "closed" \/ crashed \/ \E r \in Reqs : Lost(r))

-----------------------------------------------------------------------------
(* Expectations that the code does not meet; see README.md *)

\* numErrors are errors in a row ("Current errors in a row"): a server with errors that
\* answers a request has its success reported.
ErrorsInARow ==
    [][\A r \in Reqs, s \in Servers :
         /\ job[r] = "wait" /\ xch[r] = "answer" /\ job'[r] # "wait"
         /\ Head(params[r]).server = s /\ table[s].numErrors > 0
         => job'[r] = "reportOk"]_vars

\* An open socket is the one that the client has for its port.
SocketsOwned ==
    \A s \in Sockets : socket[s] = "up" => \E p \in Ports : clientSockets[p] = s

\* "No more messages will be sent on these channels, and is safe to close" (both Close()).
NoPanic == ~crashed
=============================================================================
