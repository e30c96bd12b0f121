---------------------------- MODULE DiameterPeer ----------------------------
(***************************************************************************)
(* One DiameterPeer object (diampeer/diam_peer.go): an actor whose event    *)
(* loop is the only writer of its state, fed through a bounded channel by   *)
(* the dialling goroutine, the read loop, request timers, handler           *)
(* goroutines, the callers of DiameterExchange and SetDown, and by itself.  *)
(*                                                                          *)
(* A handler of the event loop is one step that consumes the head of the    *)
(* channel; the messages that it posts to its own channel are put in "out"  *)
(* and sent one by one by LoopSend, so that other goroutines may slip in    *)
(* between and the loop blocks on its own full channel as the code does.    *)
(* A Go panic (send on a closed channel, duplicated HopByHopId) ends the    *)
(* process: "crashed".                                                      *)
(***************************************************************************)
EXTENDS Integers, Sequences, FiniteSets

CONSTANTS
    Reqs,           \* application requests given to DiameterExchange, one response channel each
    HopIds,         \* HopByHopIds
    Hop,            \* the HopByHopId of each request; a relayed request keeps its sender's
    Roles,          \* subset of {"active", "passive"}
    RemoteBodies,   \* what the remote peer may send, besides answers to our requests
    Capacity,       \* EVENTLOOP_CAPACITY
    MaxUnanswered,  \* MAX_UNANSWERED_WATCHDOG_REQUESTS
    LateExchange,   \* may DiameterExchange be called once Close() has started?
    MaxIngress,     \* bound: messages read from the remote peer
    MaxTicks,       \* bound: ticks of the watchdog ticker
    MaxSetDowns     \* bound: calls of SetDown()

BaseRequests == {"CER", "CERbad", "DWR", "DPR"}
BaseAnswers == {"CEA", "CEAbad", "DWA", "DWAbad"}
IngressBodies == BaseRequests \cup BaseAnswers \cup {"REQ", "unknown"}

ASSUME HopAssumption == Hop \in [Reqs -> HopIds] /\ IsFiniteSet(Reqs)
ASSUME BoundsAssumption ==
    /\ Capacity \in Nat \ {0}
    /\ {MaxUnanswered, MaxIngress, MaxTicks, MaxSetDowns} \subseteq Nat
ASSUME InputAssumption ==
    /\ RemoteBodies \subseteq IngressBodies
    /\ Roles \subseteq {"active", "passive"}
    /\ LateExchange \in BOOLEAN

StatusConnecting == 1
StatusConnected == 2
StatusEngaged == 3
StatusTerminating == 4
StatusTerminated == 5

VARIABLES
    \* the event loop
    status,         \* dp.status
    loop,           \* "running", "done"
    outstandingDWA, \* dp.outstandingDWA
    events,         \* what was reported to routerControlChannel: "up", "down"
    \* the channel
    queue,          \* eventLoopChannel
    out,            \* messages the current handler has still to post to eventLoopChannel
    failed,         \* the request it could not write, answered after WriteErrorMsg is posted
    chanClosed,     \* close(dp.eventLoopChannel) was executed
    crashed,        \* a goroutine panicked
    \* requests in flight
    requestsMap,    \* the requests in dp.requestsMap; the key of r is Hop[r]
    timer,          \* the timeout timer of each request
    rchan,          \* everything written to the response channel of each request
    caller,         \* progress of DiameterExchange
    \* goroutines
    dialing,        \* the connect() goroutine is running
    readLoop,       \* "none", "reading", "done" (readLoopDoneChannel closed)
    handlers,       \* running handler goroutines
    closing,        \* progress of Close()
    wg,             \* dp.wg
    \* the connection
    conn,           \* "none", "open", "closed" by us
    link,           \* "up", "broken", or "sticky": connWriter has recorded a failed Flush
    wire,           \* messages that reached the socket
    \* bounds
    ingress, ticks, setDowns

loopVars == <<status, loop, outstandingDWA, events, failed>>
chanVars == <<queue, out, chanClosed, crashed>>
requestVars == <<requestsMap, timer, rchan, caller>>
procVars == <<dialing, readLoop, handlers, closing>>
netVars == <<conn, link, wire>>
boundVars == <<ingress, ticks, setDowns>>
vars == <<loopVars, chanVars, requestVars, procVars, wg, netVars, boundVars>>

-----------------------------------------------------------------------------
(* Messages of the event loop.  "Exchange" is an EgressDiameterMsg that      *)
(* carries a response channel, "Egress" one that does not; "Answer" is an    *)
(* IngressDiameterMsg with a non-base answer, "Ingress" any other.           *)

M(type, body) == [type |-> type, body |-> body]
Signal(type) == M(type, "none")
SetDownCommand == Signal("SetDown")

Signals == {"Close", "ConnectionEstablished", "ConnectionError", "ReadEOF",
            "ReadError", "WriteError", "PeerUp", "SetDown", "Watchdog"}
EgressBodies == {"CER", "CEA", "CEAerror", "DWR", "DWA", "DPA", "ANS"}

\* What the event loop may post to itself
Posts == {Signal(t) : t \in Signals} \cup {M("Egress", b) : b \in EgressBodies}

Messages ==
    Posts
    \cup {M("Exchange", r) : r \in Reqs} \cup {M("Ingress", b) : b \in IngressBodies}
    \cup {M("Answer", h) : h \in HopIds} \cup {M("Cancel", h) : h \in HopIds}

\* A goroutine sends m to eventLoopChannel: waits while it is full, panics if closed
Send(m) ==
    /\ ~crashed
    /\ chanClosed \/ Len(queue) < Capacity
    /\ queue' = IF chanClosed THEN queue ELSE Append(queue, m)
    /\ crashed' = chanClosed
    /\ UNCHANGED chanClosed

\* The event loop is in its select statement
Idle == ~crashed /\ loop = "running" /\ out = <<>> /\ failed = {}

\* The event loop takes a message of this type
Take(type) ==
    /\ Idle
    /\ queue # <<>>
    /\ Head(queue).type = type
    /\ queue' = Tail(queue)
    /\ UNCHANGED <<loop, chanClosed>>

Receive(type) == Take(type) /\ UNCHANGED failed

Body == Head(queue).body

-----------------------------------------------------------------------------
Init ==
    /\ \E role \in Roles :
         /\ status = IF role = "active" THEN StatusConnecting ELSE StatusConnected
         /\ dialing = (role = "active")
         /\ readLoop = IF role = "active" THEN "none" ELSE "reading"
         /\ conn = IF role = "active" THEN "none" ELSE "open"
         /\ wg = IF role = "active" THEN 1 ELSE 0
    /\ loop = "running"
    /\ outstandingDWA = 0
    /\ events = <<>>
    /\ queue = <<>> /\ out = <<>> /\ failed = {} /\ chanClosed = FALSE /\ crashed = FALSE
    /\ requestsMap = {}
    /\ timer = [r \in Reqs |-> "none"]
    /\ rchan = [r \in Reqs |-> <<>>]
    /\ caller = [r \in Reqs |-> "idle"]
    /\ handlers = 0
    /\ closing = "idle"
    /\ link = "up"
    /\ wire = {}
    /\ ingress = 0 /\ ticks = 0 /\ setDowns = 0

-----------------------------------------------------------------------------
(* Goroutines other than the event loop *)

\* connect(): DialContext succeeds, or fails at its deadline at the latest
Connect(result) ==
    /\ dialing
    /\ Send(Signal(result))
    /\ dialing' = FALSE
    /\ wg' = wg - 1
    /\ UNCHANGED <<loopVars, out, requestVars, readLoop, handlers, closing, netVars, boundVars>>

\* readLoop: one message read from the connection, or from what connReader buffered before
\* we closed it
ReadMessage(m) ==
    /\ readLoop = "reading"
    /\ ingress < MaxIngress
    /\ ingress' = ingress + 1
    /\ Send(m)
    /\ UNCHANGED <<loopVars, out, requestVars, procVars, wg, netVars, ticks, setDowns>>

ReadBase(b) == ReadMessage(M("Ingress", b))

\* The remote peer answers a request that it received, possibly late or more than once
ReadAnswer(h) ==
    /\ \E r \in Reqs : Hop[r] = h /\ M("Exchange", r) \in wire
    /\ ReadMessage(M("Answer", h))

\* readLoop ends: the remote peer closed, or a read fails (always possible: a message
\* that cannot be decoded, a reset, or the connection closed by terminateActions)
ReadStop(type) ==
    /\ readLoop = "reading"
    /\ type = "ReadEOF" => (link # "up" /\ conn = "open")
    /\ Send(Signal(type))
    /\ readLoop' = "done"
    /\ UNCHANGED <<loopVars, out, requestVars, dialing, handlers, closing, wg, netVars, boundVars>>

LinkBreaks ==
    /\ ~crashed
    /\ conn = "open" /\ link = "up"
    /\ link' = "broken"
    /\ UNCHANGED <<loopVars, chanVars, requestVars, procVars, wg, conn, wire, boundVars>>

SetDown ==
    /\ closing = "idle"
    /\ setDowns < MaxSetDowns
    /\ setDowns' = setDowns + 1
    /\ Send(SetDownCommand)
    /\ UNCHANGED <<loopVars, out, requestVars, procVars, wg, netVars, ingress, ticks>>

\* DiameterExchange, after its argument checks: wg.Add(1), then the send
ExchangeBegin(r) ==
    /\ ~crashed
    /\ caller[r] = "idle"
    /\ LateExchange \/ closing = "idle"
    /\ caller' = [caller EXCEPT ![r] = "sending"]
    /\ wg' = wg + 1
    /\ UNCHANGED <<loopVars, chanVars, requestsMap, timer, rchan, procVars, netVars, boundVars>>

ExchangePost(r) ==
    /\ caller[r] = "sending"
    /\ Send(M("Exchange", r))
    /\ caller' = [caller EXCEPT ![r] = "sent"]
    /\ UNCHANGED <<loopVars, out, requestsMap, timer, rchan, procVars, wg, netVars, boundVars>>

\* The AfterFunc of a request starts: from here timer.Stop() returns false
TimerFire(r) ==
    /\ ~crashed
    /\ timer[r] = "armed"
    /\ timer' = [timer EXCEPT ![r] = "fired"]
    /\ UNCHANGED <<loopVars, chanVars, requestsMap, rchan, caller, procVars, wg, netVars, boundVars>>

TimerPost(r) ==
    /\ timer[r] = "fired"
    /\ Send(M("Cancel", Hop[r]))
    /\ timer' = [timer EXCEPT ![r] = "done"]
    /\ wg' = wg - 1
    /\ UNCHANGED <<loopVars, out, requestsMap, rchan, caller, procVars, netVars, boundVars>>

\* A handler goroutine returns, with an answer or with the UNABLE_TO_COMPLY answer
HandlerReturn ==
    /\ handlers > 0
    /\ Send(M("Egress", "ANS"))
    /\ handlers' = handlers - 1
    /\ wg' = wg - 1
    /\ UNCHANGED <<loopVars, out, requestVars, dialing, readLoop, closing, netVars, boundVars>>

-----------------------------------------------------------------------------
(* Close(), called by the router after a PeerDownEvent *)

CloseStep(from, to) ==
    /\ ~crashed
    /\ closing = from
    /\ closing' = to
    /\ UNCHANGED <<loopVars, requestVars, dialing, readLoop, handlers, wg, netVars, boundVars>>

\* readLoopDoneChannel is nil while an active peer has no connection
CloseBegin ==
    /\ "down" \in {events[i] : i \in 1..Len(events)}
    /\ CloseStep("idle", IF readLoop = "none" THEN "wg" ELSE "read")
    /\ UNCHANGED chanVars

CloseReadLoopDone ==
    /\ readLoop = "done"
    /\ CloseStep("read", "wg")
    /\ UNCHANGED chanVars

CloseGroupDone_Hasty == CloseStep("wg", "post") /\ UNCHANGED chanVars
CloseGroupDone ==
    /\ wg = 0
    /\ CloseStep("wg", "post")
    /\ UNCHANGED chanVars

ClosePost ==
    /\ CloseStep("post", "close")
    /\ Send(Signal("Close"))
    /\ UNCHANGED out

CloseChannel ==
    /\ CloseStep("close", "done")
    /\ chanClosed' = TRUE
    /\ UNCHANGED <<queue, out, crashed>>

-----------------------------------------------------------------------------
(* The event loop *)

\* The running handler posts its next message to eventLoopChannel
LoopSend ==
    /\ out # <<>>
    /\ Send(Head(out))
    /\ out' = Tail(out)
    /\ UNCHANGED <<loopVars, requestVars, procVars, wg, netVars, boundVars>>

WatchdogTick ==
    /\ Idle
    /\ ticks < MaxTicks
    /\ ticks' = ticks + 1
    /\ out' = IF status = StatusEngaged THEN <<Signal("Watchdog")>>
              ELSE IF status > StatusEngaged THEN <<>>
              ELSE <<SetDownCommand>>
    /\ UNCHANGED <<loopVars, queue, chanClosed, crashed, requestVars, procVars, wg, netVars,
                   ingress, setDowns>>

\* The requests of the map whose key is h: at most one
Entry_AnyKey(h) == requestsMap
Entry(h) == {r \in requestsMap : Hop[r] = h}

Forget_KeepsEntry(r) == requestsMap
Forget(r) == requestsMap \ {r}

\* The value is sent to the response channel, which is then closed
Reply(r, value) == rchan' = [rchan EXCEPT ![r] = Append(@, value)]

\* cancelAll
CancelAll ==
    LET stopped == {r \in requestsMap : timer[r] = "armed"} IN
    /\ timer' = [r \in Reqs |-> IF r \in stopped THEN "stopped" ELSE timer[r]]
    /\ wg' = wg - Cardinality(stopped)
    /\ rchan' = [r \in Reqs |-> IF r \in requestsMap THEN Append(rchan[r], "cancelled")
                                ELSE rchan[r]]
    /\ requestsMap' = {}

\* terminateActions
TerminateActions_ConnectionLeftOpen ==
    /\ status' = StatusTerminated
    /\ UNCHANGED conn
    /\ CancelAll
    /\ events' = Append(events, "down")
TerminateActions ==
    /\ status' = StatusTerminated
    /\ conn' = IF conn = "open" THEN "closed" ELSE conn
    /\ CancelAll
    /\ events' = Append(events, "down")

OnClose ==
    /\ Idle
    /\ queue # <<>> /\ Head(queue).type = "Close"
    /\ queue' = Tail(queue)
    /\ loop' = "done"
    /\ UNCHANGED <<status, outstandingDWA, events, failed, out, chanClosed, crashed, requestVars,
                   procVars, wg, netVars, boundVars>>

OnConnectionEstablished ==
    /\ Receive("ConnectionEstablished")
    /\ status' = StatusConnected
    /\ conn' = "open"
    /\ readLoop' = "reading"
    /\ out' = <<M("Egress", "CER")>>
    /\ UNCHANGED <<outstandingDWA, events, crashed, requestVars, dialing, handlers, closing, wg,
                   link, wire, boundVars>>

OnConnectionError ==
    /\ Receive("ConnectionError")
    /\ \/ /\ status < StatusTerminated
          /\ status' = StatusTerminated
          /\ events' = Append(events, "down")
       \/ /\ status = StatusTerminated
          /\ UNCHANGED <<status, events>>
    /\ UNCHANGED <<outstandingDWA, out, crashed, requestVars, procVars, wg, netVars, boundVars>>

\* ReadEOFMsg, ReadErrorMsg, WriteErrorMsg and PeerSetDownCommandMsg differ in what is logged
OnDown(type) ==
    /\ Receive(type)
    /\ \/ /\ status < StatusTerminated
          /\ TerminateActions
       \/ /\ status = StatusTerminated
          /\ UNCHANGED <<status, events, conn, wg, requestsMap, timer, rchan>>
    /\ UNCHANGED <<outstandingDWA, out, crashed, caller, procVars, link, wire, boundVars>>

OnPeerUp ==
    /\ Receive("PeerUp")
    /\ status' = IF status < StatusEngaged THEN StatusEngaged ELSE status
    /\ events' = IF status < StatusEngaged THEN Append(events, "up") ELSE events
    /\ UNCHANGED <<outstandingDWA, out, crashed, requestVars, procVars, wg, netVars, boundVars>>

\* May a message of the base application (or of another one) be sent now?
Sendable_WhateverTheStatus(base) == status # StatusConnecting
Sendable(base) == (status = StatusConnected /\ base) \/ status = StatusEngaged

\* What WriteTo and Flush do.  WriteTo fills a buffered writer: it fails once an earlier
\* Flush has failed, or when the message is larger than the buffer and the connection is
\* broken; an application message may also fail to encode.  A failed Flush is not noticed.
WriteOutcomes(base) ==
    CASE link = "sticky" -> {"error"}
      [] link = "broken" -> {"lost", "error"}
      [] OTHER -> IF base THEN {"ok"} ELSE {"ok", "error"}

Write(m, outcome) ==
    /\ wire' = IF outcome = "ok" THEN wire \cup {m} ELSE wire
    /\ link' = IF outcome = "lost" THEN "sticky" ELSE link

WriteErrorPosts(outcome) == IF outcome = "error" THEN <<Signal("WriteError")>> ELSE <<>>

OnEgress ==
    LET base == Body # "ANS"
        isDPA == Body = "DPA"
    IN  /\ Receive("Egress")
        /\ \/ /\ Sendable(base)
              /\ \E outcome \in WriteOutcomes(base) :
                   /\ Write(Head(queue), outcome)
                   /\ out' = (IF isDPA THEN <<SetDownCommand>> ELSE <<>>) \o WriteErrorPosts(outcome)
                   /\ status' = IF isDPA \/ outcome = "error" THEN StatusTerminating ELSE status
           \/ /\ ~Sendable(base)
              /\ UNCHANGED <<status, out, link, wire>>
        /\ UNCHANGED <<outstandingDWA, events, crashed, requestVars, procVars, wg, conn, boundVars>>

ExchangeRefused(r) ==
    /\ ~Sendable(FALSE)
    /\ Reply(r, "refused")
    /\ wg' = wg - 1
    /\ UNCHANGED <<status, out, failed, crashed, requestsMap, timer, link, wire>>

ExchangeDuplicated(r) ==
    /\ Sendable(FALSE)
    /\ Entry(Hop[r]) # {}
    /\ crashed' = TRUE
    /\ UNCHANGED <<status, out, failed, rchan, requestsMap, timer, wg, link, wire>>

ExchangeWriteError(r) ==
    /\ Sendable(FALSE)
    /\ Entry(Hop[r]) = {}
    /\ "error" \in WriteOutcomes(FALSE)
    /\ Write(M("Exchange", r), "error")
    /\ out' = WriteErrorPosts("error")
    /\ status' = StatusTerminating
    /\ failed' = {r}
    /\ UNCHANGED <<crashed, rchan, requestsMap, timer, wg>>

\* wg.Add(1) for the timer, wg.Done() for DiameterExchange
ExchangeSent_NoTimer(r) ==
    /\ Sendable(FALSE)
    /\ Entry(Hop[r]) = {}
    /\ \E outcome \in WriteOutcomes(FALSE) \ {"error"} : Write(M("Exchange", r), outcome)
    /\ requestsMap' = requestsMap \cup {r}
    /\ wg' = wg - 1
    /\ UNCHANGED <<status, out, failed, crashed, rchan, timer>>
ExchangeSent(r) ==
    /\ Sendable(FALSE)
    /\ Entry(Hop[r]) = {}
    /\ \E outcome \in WriteOutcomes(FALSE) \ {"error"} : Write(M("Exchange", r), outcome)
    /\ timer' = [timer EXCEPT ![r] = "armed"]
    /\ requestsMap' = requestsMap \cup {r}
    /\ wg' = (wg + 1) - 1
    /\ UNCHANGED <<status, out, failed, crashed, rchan>>

OnExchange(r) ==
    /\ Take("Exchange")
    /\ Body = r
    /\ \/ ExchangeRefused(r)
       \/ ExchangeDuplicated(r)
       \/ ExchangeWriteError(r)
       \/ ExchangeSent(r)
    /\ UNCHANGED <<outstandingDWA, events, caller, procVars, conn, boundVars>>

\* Once WriteErrorMsg is posted, the request is told and wg.Done() is called for it
ExchangeFail(r) ==
    /\ ~crashed
    /\ out = <<>>
    /\ r \in failed
    /\ failed' = failed \ {r}
    /\ Reply(r, "error")
    /\ wg' = wg - 1
    /\ UNCHANGED <<status, loop, outstandingDWA, events, chanVars, requestsMap, timer, caller,
                   procVars, netVars, boundVars>>

\* Base requests and answers: what each one posts, and the status it leaves
Ingest(type, body, posts, newStatus) ==
    /\ Receive(type)
    /\ Body = body
    /\ out' = posts
    /\ status' = newStatus
    /\ UNCHANGED <<events, crashed, requestVars, dialing, readLoop, closing, netVars, boundVars>>

\* handleCER: a CER is good only while the peer is connected
OnCER ==
    /\ IF status = StatusConnected
       THEN Ingest("Ingress", "CER", <<M("Egress", "CEA"), Signal("PeerUp")>>, status)
       ELSE Ingest("Ingress", "CER", <<SetDownCommand>>, StatusTerminating)
    /\ UNCHANGED <<outstandingDWA, handlers, wg>>

\* handleCER: Origin-Host missing, unknown, or coming from a wrong address
OnBadCER ==
    /\ Ingest("Ingress", "CERbad",
              (IF status = StatusConnected THEN <<M("Egress", "CEAerror")>> ELSE <<>>)
                \o <<SetDownCommand>>,
              StatusTerminating)
    /\ UNCHANGED <<outstandingDWA, handlers, wg>>

OnDWR ==
    /\ Ingest("Ingress", "DWR", <<M("Egress", "DWA")>>, status)
    /\ UNCHANGED <<outstandingDWA, handlers, wg>>

OnDPR ==
    /\ Ingest("Ingress", "DPR", <<M("Egress", "DPA")>>, status)
    /\ UNCHANGED <<outstandingDWA, handlers, wg>>

OnCEA ==
    /\ Ingest("Ingress", "CEA", <<Signal("PeerUp")>>, status)
    /\ UNCHANGED <<outstandingDWA, handlers, wg>>

OnBadAnswer(body) ==
    /\ Ingest("Ingress", body, <<SetDownCommand>>, StatusTerminating)
    /\ UNCHANGED <<outstandingDWA, handlers, wg>>

OnDWA_Unchecked ==
    /\ Ingest("Ingress", "DWA", <<>>, status)
    /\ outstandingDWA' = outstandingDWA - 1
    /\ UNCHANGED <<handlers, wg>>
OnDWA ==
    /\ Ingest("Ingress", "DWA", <<>>, status)
    /\ outstandingDWA' = IF outstandingDWA > 0 THEN outstandingDWA - 1 ELSE 0
    /\ UNCHANGED <<handlers, wg>>

OnUnknown ==
    /\ Ingest("Ingress", "unknown", <<>>, status)
    /\ UNCHANGED <<outstandingDWA, handlers, wg>>

OnRequest ==
    /\ Ingest("Ingress", "REQ", <<>>, status)
    /\ handlers' = handlers + 1
    /\ wg' = wg + 1
    /\ UNCHANGED outstandingDWA

\* timer.Stop() tells whether the AfterFunc will still run
OnAnswer ==
    /\ Receive("Answer")
    /\ \/ /\ Entry(Body) = {}
          /\ UNCHANGED <<requestsMap, timer, rchan, wg>>
       \/ \E r \in Entry(Body) :
            /\ timer' = [timer EXCEPT ![r] = IF @ = "armed" THEN "stopped" ELSE @]
            /\ wg' = IF timer[r] = "armed" THEN wg - 1 ELSE wg
            /\ Reply(r, "answer")
            /\ requestsMap' = Forget(r)
    /\ UNCHANGED <<status, outstandingDWA, events, out, crashed, caller, procVars, netVars, boundVars>>

OnCancel ==
    /\ Receive("Cancel")
    /\ \/ /\ Entry(Body) = {}
          /\ UNCHANGED <<requestsMap, rchan>>
       \/ \E r \in Entry(Body) :
            /\ Reply(r, "timeout")
            /\ requestsMap' = Forget(r)
    /\ UNCHANGED <<status, outstandingDWA, events, out, crashed, timer, caller, procVars, wg,
                   netVars, boundVars>>

OnWatchdog_Unchecked ==
    /\ Receive("Watchdog")
    /\ out' = <<M("Egress", "DWR")>>
    /\ outstandingDWA' = outstandingDWA + 1
    /\ UNCHANGED <<status, events, crashed, requestVars, procVars, wg, netVars, boundVars>>
OnWatchdog ==
    LET tooMany == outstandingDWA > MaxUnanswered IN
    /\ Receive("Watchdog")
    /\ status' = IF tooMany THEN StatusTerminating ELSE status
    /\ out' = (IF tooMany THEN <<SetDownCommand>> ELSE <<>>) \o <<M("Egress", "DWR")>>
    /\ outstandingDWA' = outstandingDWA + 1
    /\ UNCHANGED <<events, crashed, requestVars, procVars, wg, netVars, boundVars>>

-----------------------------------------------------------------------------
EventLoop ==
    \/ LoopSend
    \/ OnClose
    \/ OnConnectionEstablished \/ OnConnectionError
    \/ \E type \in {"ReadEOF", "ReadError", "WriteError", "SetDown"} : OnDown(type)
    \/ OnPeerUp
    \/ OnEgress
    \/ \E r \in Reqs : OnExchange(r) \/ ExchangeFail(r)
    \/ OnCER \/ OnBadCER \/ OnDWR \/ OnDPR \/ OnCEA \/ OnDWA
    \/ \E body \in {"CEAbad", "DWAbad"} : OnBadAnswer(body)
    \/ OnUnknown \/ OnRequest
    \/ OnAnswer \/ OnCancel
    \/ OnWatchdog

Closer ==
    CloseBegin \/ CloseReadLoopDone \/ CloseGroupDone \/ ClosePost \/ CloseChannel

Next ==
    \/ EventLoop
    \/ Closer
    \/ WatchdogTick
    \/ \E result \in {"ConnectionEstablished", "ConnectionError"} : Connect(result)
    \/ \E b \in RemoteBodies : ReadBase(b)
    \/ \E h \in HopIds : ReadAnswer(h)
    \/ \E type \in {"ReadEOF", "ReadError"} : ReadStop(type)
    \/ LinkBreaks
    \/ SetDown
    \/ \E r \in Reqs : ExchangeBegin(r) \/ ExchangePost(r) \/ TimerFire(r) \/ TimerPost(r)
    \/ HandlerReturn

\* Goroutines run when they can, timers expire, handlers return, dialling ends at its
\* deadline, the router calls Close() after a PeerDownEvent, and a read of a connection
\* that we closed fails.  Nothing is assumed of the remote peer, nor of who calls SetDown
\* or DiameterExchange, nor of the ticker.
Fairness ==
    /\ WF_vars(EventLoop)
    /\ WF_vars(Closer)
    /\ WF_vars(\E result \in {"ConnectionEstablished", "ConnectionError"} : Connect(result))
    /\ WF_vars(conn = "closed" /\ ReadStop("ReadError"))
    /\ \A r \in Reqs : WF_vars(ExchangePost(r)) /\ WF_vars(TimerFire(r)) /\ WF_vars(TimerPost(r))
    /\ WF_vars(HandlerReturn)

Spec == Init /\ [][Next]_vars
FairSpec == Spec /\ Fairness

-----------------------------------------------------------------------------
(* Properties *)

BooleanTypes == chanClosed \in BOOLEAN /\ crashed \in BOOLEAN /\ dialing \in BOOLEAN

Replies == {"answer", "timeout", "cancelled", "error", "refused"}

RequestTypes ==
    /\ requestsMap \in SUBSET Reqs
    /\ timer \in [Reqs -> {"none", "armed", "fired", "done", "stopped"}]
    /\ rchan \in [Reqs -> Seq(Replies)]
    /\ caller \in [Reqs -> {"idle", "sending", "sent"}]
    /\ wg \in Int

LoopTypes ==
    /\ status \in StatusConnecting..StatusTerminated
    /\ loop \in {"running", "done"}
    /\ outstandingDWA \in Nat
    /\ events \in Seq({"up", "down"})
    /\ queue \in Seq(Messages)
    /\ out \in Seq(Posts)
    /\ failed \in SUBSET Reqs

NetTypes ==
    /\ readLoop \in {"none", "reading", "done"}
    /\ handlers \in Int
    /\ closing \in {"idle", "read", "wg", "post", "close", "done"}
    /\ conn \in {"none", "open", "closed"}
    /\ link \in {"up", "broken", "sticky"}
    /\ wire \in SUBSET Messages
    /\ ingress \in Nat /\ ticks \in Nat /\ setDowns \in Nat

\* The variables keep their types; in particular outstandingDWA, decremented by each DWA
\* received, never becomes negative (diam_peer.go, case "Device-Watchdog" of the answers).
TypeOK == BooleanTypes /\ RequestTypes /\ LoopTypes /\ NetTypes

\* A response channel is written at most once: it is closed after the first value, and a
\* second send (an answer after the timeout, a timeout after the answer, a cancellation
\* after either) would panic.
OneAnswerPerRequest == \A r \in Reqs : Len(rchan[r]) <= 1

\* Responses are correlated: a request is told "timeout" only when its own timer fired, and is
\* given an answer only when it was sent (the key of requestsMap identifies it).
ResponsesCorrelated ==
    \A r \in Reqs : /\ rchan[r] = <<"timeout">> => timer[r] = "done"
                   /\ rchan[r] = <<"answer">> => M("Exchange", r) \in wire

\* When the channel of a peer is closed its read loop has ended, no request timer can fire and
\* no exchange accepted before Close() is still being posted: readLoopDoneChannel and wg were
\* really waited for.
DrainedBeforeClose ==
    chanClosed => /\ readLoop # "reading" /\ ~dialing
                  /\ \A r \in Reqs : timer[r] \notin {"armed", "fired"} /\ caller[r] # "sending"

\* The channel is not used after being closed, by anybody (comment of dp.wg).
NoUseAfterClose == ~crashed

Down == "down" \in {events[i] : i \in 1..Len(events)}

Quiet ==
    /\ wire' = wire
    /\ requestsMap' \subseteq requestsMap
    /\ \A r \in Reqs : timer'[r] = "armed" => timer[r] = "armed"
    /\ \A i \in 1..Len(events') : i > Len(events) => events'[i] # "up"

\* After PeerDown was reported nothing reaches the socket, no request enters the map, no
\* timer is armed, and PeerUp is not reported: what the router took out of its table is dead.
QuietAfterDown == [][Down => Quiet]_vars

\* An engaged peer never has more than MaxUnanswered + 1 watchdog requests unanswered: a
\* silent remote peer is given up, also when several ticks are queued.
SilentPeerGivenUp == status = StatusEngaged => outstandingDWA <= MaxUnanswered + 1

\* PeerDown is reported at most once: the router calls Close() for each one.
PeerDownOnce == Cardinality({i \in 1..Len(events) : events[i] = "down"}) <= 1

\* The error CEA that handleCER posts for a CER that it rejects is written when its turn comes,
\* if the connection works ("Send error message before disconnecting").
RejectedCERAnswered ==
    [][(/\ queue # <<>> /\ Head(queue) = M("Egress", "CEAerror") /\ queue' = Tail(queue)
        /\ conn = "open" /\ link = "up") => M("Egress", "CEAerror") \in wire']_vars

\* Every request given to DiameterExchange is eventually answered: an answer or an error
\* arrives on its response channel, whatever the remote peer does.
ExchangeAnswered == \A r \in Reqs : caller[r] = "sending" ~> (rchan[r] # <<>> \/ crashed)

\* A peer that is set down, or goes down, finishes: PeerDown is reported, Close() returns and the
\* event loop ends.
ShutdownCompletes ==
    (setDowns > 0 \/ Down) ~> ((Down /\ closing = "done" /\ loop = "done") \/ crashed)
=============================================================================
