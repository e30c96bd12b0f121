------------------------- MODULE RadiusClientSocket -------------------------
(***************************************************************************)
(* One RadiusClientSocket (radiusclient/radius_client_socket.go): the actor  *)
(* that owns a UDP socket, gives radius identifiers to requests, matches     *)
(* responses with them, retransmits and times out, and closes down.  The     *)
(* RadiusClient that owns it appears as the caller of SendRadiusRequest and  *)
(* SetDown, and starts one Close() for every SocketDownEvent it is told of.  *)
(*                                                                          *)
(* As in DiameterPeer, a handler is one step, "out" holds what it has still  *)
(* to post to its own channel, and "crashed" is a Go panic.                  *)
(***************************************************************************)
EXTENDS Integers, Sequences, FiniteSets, FiniteSetsExt

CONSTANTS
    Reqs,         \* requests, one response channel each
    Endpoints,    \* upstream servers
    Dest,         \* the endpoint each request is sent to
    AccessReqs,   \* the Access-Requests: ToBytes gives them a new authenticator every time
    Tries,        \* serverTries of each request
    MaxId,        \* identifiers are 1..MaxId for each endpoint (255); 0 is "none yet"
    Capacity,     \* EVENTLOOP_CAPACITY
    NotRequests,  \* the packets whose code is not that of a request
    Unencodable,  \* the packets that ToBytes refuses
    Faults,       \* what may fail: subset of {"read", "write", "decode"}
    MaxResponses, \* bound: packets received
    MaxCloses     \* bound: SocketDownEvents that the RadiusClient attends to

ASSUME DestAssumption ==
    Dest \in [Reqs -> Endpoints] /\ IsFiniteSet(Reqs) /\ AccessReqs \subseteq Reqs
ASSUME SocketBounds ==
    /\ Tries \in [Reqs -> Nat \ {0}] /\ {MaxId, Capacity} \subseteq Nat \ {0}
    /\ {MaxResponses, MaxCloses} \subseteq Nat
    /\ NotRequests \subseteq Reqs /\ Unencodable \subseteq Reqs
    /\ Faults \subseteq {"read", "write", "decode"}

VARIABLES
    terminated,   \* rcs.status = StatusTerminated
    loop,         \* "running", "done"
    downs,        \* SocketDownEvents reported
    queue,        \* eventLoopChannel
    out,          \* what the current handler has still to post to eventLoopChannel
    chanClosed, crashed,
    requestsMap,  \* entries [ep, id, req, tries]; the key is ep and id
    lastRadiusId, \* lastRadiusIdMap, 0 for an absent endpoint
    timers,       \* [req, tries, id, fired]: timers that can still fire, or post
    rchan,        \* everything written to the response channel of each request
    caller,       \* "idle", "sent"
    socketOpen,
    wire,         \* [ep, id, auth] of the packets sent
    readLoop,     \* "reading", "done"
    readOut,      \* what readLoop has read and is about to post
    setDown,      \* SetDown() was called
    closers,      \* progress of each Close()
    wg,           \* rcs.wg
    responses

loopVars == <<terminated, loop, downs>>
chanVars == <<queue, out, chanClosed, crashed>>
requestVars == <<requestsMap, lastRadiusId, timers, rchan, caller>>
netVars == <<socketOpen, wire>>
readVars == <<readLoop, readOut, responses>>
userVars == <<setDown, closers>>
vars == <<loopVars, chanVars, requestVars, netVars, readVars, userVars, wg>>

Ids == 1..MaxId
CloseIds == 1..MaxCloses

Signal(type) == [type |-> type]
\* ClientRadiusRequestMsg: tries left, and the identifier of a retransmission or 0
Request(r, n, id) == [type |-> "Request", req |-> r, tries |-> n, id |-> id]
\* RadiusResponseMsg: the packet p that it answers; CancelRequestMsg
Response(p) == [type |-> "Response", ep |-> p.ep, id |-> p.id, auth |-> p.auth]
Cancel(ep, id) == [type |-> "Cancel", ep |-> ep, id |-> id]

\* The request authenticator of the n-th try from the end: random for an Access-Request, a
\* hash of the contents otherwise
Authenticator(r, n) == IF r \in AccessReqs THEN <<r, n>> ELSE <<r, 0>>

\* A goroutine sends to eventLoopChannel: waits while it is full, panics if it is closed
Send(m) ==
    /\ ~crashed
    /\ chanClosed \/ Len(queue) < Capacity
    /\ queue' = IF chanClosed THEN queue ELSE Append(queue, m)
    /\ crashed' = chanClosed
    /\ UNCHANGED chanClosed

\* The event loop receives a message of this type
Receive(type) ==
    /\ ~crashed
    /\ loop = "running"
    /\ out = <<>>
    /\ queue # <<>>
    /\ Head(queue).type = type
    /\ queue' = Tail(queue)
    /\ UNCHANGED <<chanClosed, caller, readVars, userVars>>

Msg == Head(queue)

Init ==
    /\ terminated = FALSE /\ loop = "running" /\ downs = 0
    /\ queue = <<>> /\ out = <<>> /\ chanClosed = FALSE /\ crashed = FALSE
    /\ requestsMap = {}
    /\ lastRadiusId = [e \in Endpoints |-> 0]
    /\ timers = {}
    /\ rchan = [r \in Reqs |-> <<>>]
    /\ caller = [r \in Reqs |-> "idle"]
    /\ socketOpen = TRUE /\ wire = {}
    /\ readLoop = "reading" /\ readOut = <<>> /\ responses = 0
    /\ setDown = FALSE /\ closers = [k \in CloseIds |-> "idle"]
    /\ wg = 0

-----------------------------------------------------------------------------
(* The RadiusClient.  It forgets a socket when it is told that it is down,   *)
(* and takes no requests once it is set down itself.                         *)

InUse == ~setDown /\ \A k \in CloseIds : closers[k] = "idle"

SendRadiusRequest(r) ==
    /\ r \notin NotRequests
    /\ caller[r] = "idle"
    /\ InUse
    /\ Send(Request(r, Tries[r], 0))
    /\ caller' = [caller EXCEPT ![r] = "sent"]
    /\ wg' = wg + 1
    /\ UNCHANGED <<loopVars, out, requestsMap, lastRadiusId, timers, rchan, netVars, readVars, userVars>>

\* The packet is not a request
SendRefused(r) ==
    /\ ~crashed
    /\ r \in NotRequests
    /\ caller[r] = "idle"
    /\ InUse
    /\ caller' = [caller EXCEPT ![r] = "sent"]
    /\ rchan' = [rchan EXCEPT ![r] = Append(@, "notRequest")]
    /\ UNCHANGED <<loopVars, chanVars, requestsMap, lastRadiusId, timers, netVars, readVars, userVars, wg>>

SetDown ==
    /\ InUse
    /\ setDown' = TRUE
    /\ Send(Signal("SetDown"))
    /\ UNCHANGED <<loopVars, out, requestVars, netVars, readVars, closers, wg>>

CloseStep(k, from, to) ==
    /\ ~crashed
    /\ closers[k] = from
    /\ closers' = [closers EXCEPT ![k] = to]
    /\ UNCHANGED <<loopVars, requestVars, netVars, readVars, setDown, wg>>

\* A SocketDownEvent is received: go v.Sender.Close()
CloseBegin(k) ==
    /\ k <= downs
    /\ CloseStep(k, "idle", "read")
    /\ UNCHANGED chanVars

CloseReadLoopDone(k) ==
    /\ readLoop = "done"
    /\ CloseStep(k, "read", "wg")
    /\ UNCHANGED chanVars

CloseGroupDone(k) ==
    /\ wg = 0
    /\ CloseStep(k, "wg", "post")
    /\ UNCHANGED chanVars

ClosePost(k) ==
    /\ CloseStep(k, "post", "close")
    /\ Send(Signal("Close"))
    /\ UNCHANGED out

\* Closing a closed channel panics
CloseChannel(k) ==
    /\ CloseStep(k, "close", "done")
    /\ chanClosed' = TRUE
    /\ crashed' = chanClosed
    /\ UNCHANGED <<queue, out>>

-----------------------------------------------------------------------------
(* readLoop and the timers *)

\* An endpoint answers a packet it was sent, possibly late or more than once
ReadPacket ==
    /\ ~crashed
    /\ readLoop = "reading" /\ readOut = <<>> /\ socketOpen
    /\ responses < MaxResponses
    /\ responses' = responses + 1
    /\ \E p \in wire : readOut' = <<Response(p)>>
    /\ UNCHANGED <<loopVars, chanVars, requestVars, netVars, readLoop, userVars, wg>>

\* ReadFrom fails: always on a closed socket
ReadFails ==
    /\ ~crashed
    /\ readLoop = "reading" /\ readOut = <<>>
    /\ ~socketOpen \/ "read" \in Faults
    /\ readOut' = IF terminated THEN <<>> ELSE <<Signal("ReadError")>>
    /\ readLoop' = IF terminated THEN "done" ELSE "reading"
    /\ UNCHANGED <<loopVars, chanVars, requestVars, netVars, responses, userVars, wg>>

ReadPost ==
    /\ readOut # <<>>
    /\ Send(Head(readOut))
    /\ readOut' = <<>>
    /\ readLoop' = IF Head(readOut).type = "ReadError" THEN "done" ELSE readLoop
    /\ UNCHANGED <<loopVars, out, requestVars, netVars, responses, userVars, wg>>

\* The AfterFunc starts: from here timer.Stop() returns false
TimerFire(t) ==
    /\ ~crashed
    /\ ~t.fired
    /\ timers' = (timers \ {t}) \cup {[t EXCEPT !.fired = TRUE]}
    /\ UNCHANGED <<loopVars, chanVars, requestsMap, lastRadiusId, rchan, caller, netVars, readVars,
                   userVars, wg>>

\* Retransmits with the same identifier while there are tries left, and else cancels
TimerPost(t) ==
    /\ t.fired
    /\ \/ /\ t.tries <= 1
          /\ Send(Cancel(Dest[t.req], t.id))
          /\ wg' = wg - 1
       \/ /\ t.tries > 1
          /\ Send(Request(t.req, t.tries - 1, t.id))
          /\ wg' = (wg + 1) - 1
    /\ timers' = timers \ {t}
    /\ UNCHANGED <<loopVars, out, requestsMap, lastRadiusId, rchan, caller, netVars, readVars, userVars>>

-----------------------------------------------------------------------------
(* The event loop *)

\* A SetDownCommandMsg that the loop posts to itself after a failed write; wg.Done() follows
LoopSend ==
    /\ out # <<>>
    /\ Send(Head(out))
    /\ out' = Tail(out)
    /\ wg' = wg - 1
    /\ UNCHANGED <<loopVars, requestVars, netVars, readVars, userVars>>

Entry(ep, id) == {e \in requestsMap : e.ep = ep /\ e.id = id}

\* timer.Stop() succeeds on these
Stoppable(entries) ==
    {t \in timers : ~t.fired /\ \E e \in entries : e.req = t.req /\ e.tries = t.tries}

\* A value is sent to the response channels of some requests, which are then closed: a
\* panic if they were closed before
Reply(rs, value) ==
    /\ rchan' = [r \in Reqs |-> IF r \in rs THEN Append(rchan[r], value) ELSE rchan[r]]
    /\ crashed' = \E r \in rs : rchan[r] # <<>>

\* cancelAll
CancelAll_KeepsMap ==
    /\ timers' = timers \ Stoppable(requestsMap)
    /\ wg' = wg - Cardinality(Stoppable(requestsMap))
    /\ Reply({e.req : e \in requestsMap}, "cancelled")
    /\ UNCHANGED requestsMap
CancelAll ==
    LET stopped == Stoppable(requestsMap) IN
    /\ timers' = timers \ stopped
    /\ wg' = wg - Cardinality(stopped)
    /\ Reply({e.req : e \in requestsMap}, "cancelled")
    /\ requestsMap' = {}

GoDown ==
    /\ socketOpen' = FALSE
    /\ CancelAll
    /\ downs' = downs + 1
    /\ UNCHANGED <<loop, out, lastRadiusId, wire>>

OnClose ==
    /\ Receive("Close")
    /\ loop' = "done"
    /\ socketOpen' = FALSE
    /\ UNCHANGED <<terminated, downs, out, crashed, requestsMap, lastRadiusId, timers, rchan, wire, wg>>

OnReadError == Receive("ReadError") /\ GoDown /\ UNCHANGED terminated

OnSetDown == Receive("SetDown") /\ GoDown /\ terminated' = TRUE

\* A response is given to the request that has its endpoint and identifier, whose timer is
\* stopped; a response that was made for another packet fails the authenticator check
OnResponse ==
    LET entry == Entry(Msg.ep, Msg.id)
        stopped == Stoppable(entry)
        valid(e) == Authenticator(e.req, e.tries) = Msg.auth
    IN  /\ Receive("Response")
        /\ \/ /\ entry = {}
              /\ UNCHANGED <<rchan, crashed>>
           \/ \E e \in entry :
                \/ valid(e) /\ Reply({e.req}, "answer")
                \/ valid(e) /\ "decode" \in Faults /\ Reply({e.req}, "undecodable")
                \/ ~valid(e) /\ Reply({e.req}, "badAuthenticator")
        /\ timers' = timers \ stopped
        /\ wg' = wg - Cardinality(stopped)
        /\ requestsMap' = requestsMap \ entry
        /\ UNCHANGED <<loopVars, out, lastRadiusId, netVars>>

\* getNextRadiusId: the first free identifier after the last one given, around the circle;
\* 0 when all are taken.  A retransmission keeps its own.
FreeIds(ep) == {id \in Ids : Entry(ep, id) = {}}
NextRadiusId_LowestFree(ep, current) ==
    IF current # 0 THEN current ELSE IF FreeIds(ep) = {} THEN 0 ELSE Min(FreeIds(ep))
NextRadiusId(ep, current) ==
    LET distance(id) == (id - lastRadiusId[ep] - 1) % MaxId
        nearest == {id \in FreeIds(ep) : \A other \in FreeIds(ep) : distance(id) <= distance(other)}
    IN  CASE current # 0 -> current
          [] current = 0 /\ nearest # {} -> CHOOSE id \in nearest : TRUE
          [] OTHER -> 0

RequestFails(r, reason) ==
    /\ Reply({r}, reason)
    /\ UNCHANGED <<requestsMap, timers, wire>>

RequestExhausted(r, id) ==
    /\ id = 0
    /\ RequestFails(r, "exhausted")
    /\ wg' = wg - 1
    /\ UNCHANGED out

RequestNotEncoded(r, id) ==
    /\ id # 0 /\ r \in Unencodable
    /\ RequestFails(r, "error")
    /\ wg' = wg - 1
    /\ UNCHANGED out

RequestNotWritten_NotReported(r, id) ==
    /\ id # 0 /\ r \notin Unencodable
    /\ ~socketOpen \/ "write" \in Faults
    /\ UNCHANGED <<rchan, crashed, requestsMap, timers, wire>>
    /\ out' = <<Signal("SetDown")>>
    /\ UNCHANGED wg
RequestNotWritten(r, id) ==
    /\ id # 0 /\ r \notin Unencodable
    /\ ~socketOpen \/ "write" \in Faults
    /\ RequestFails(r, "error")
    /\ out' = <<Signal("SetDown")>>
    /\ UNCHANGED wg

\* wg.Add(1) for the timer, wg.Done() for SendRadiusRequest or the previous timer.  A
\* retransmission replaces the entry of its identifier.
RequestWritten(r, id) ==
    /\ id # 0 /\ r \notin Unencodable /\ socketOpen
    /\ wire' = wire \cup {[ep |-> Dest[r], id |-> id, auth |-> Authenticator(r, Msg.tries)]}
    /\ requestsMap' = (requestsMap \ Entry(Dest[r], id))
                        \cup {[ep |-> Dest[r], id |-> id, req |-> r, tries |-> Msg.tries]}
    /\ timers' = timers \cup {[req |-> r, tries |-> Msg.tries, id |-> id, fired |-> FALSE]}
    /\ wg' = (wg + 1) - 1
    /\ UNCHANGED <<out, rchan, crashed>>

OnRequest(r) ==
    /\ Receive("Request")
    /\ Msg.req = r
    /\ LET id == NextRadiusId(Dest[r], Msg.id) IN
         /\ lastRadiusId' = IF Msg.id = 0 /\ id # 0 THEN [lastRadiusId EXCEPT ![Dest[r]] = id]
                            ELSE lastRadiusId
         /\ \/ RequestExhausted(r, id)
            \/ RequestNotEncoded(r, id)
            \/ RequestNotWritten(r, id)
            \/ RequestWritten(r, id)
    /\ UNCHANGED <<loopVars, socketOpen>>

OnCancel ==
    LET entry == Entry(Msg.ep, Msg.id) IN
    /\ Receive("Cancel")
    /\ Reply({e.req : e \in entry}, "timeout")
    /\ requestsMap' = requestsMap \ entry
    /\ UNCHANGED <<loopVars, out, lastRadiusId, timers, netVars, wg>>

-----------------------------------------------------------------------------
EventLoop ==
    \/ LoopSend
    \/ OnClose \/ OnReadError \/ OnSetDown
    \/ OnResponse \/ OnCancel
    \/ \E r \in Reqs : OnRequest(r)

Closer(k) ==
    CloseBegin(k) \/ CloseReadLoopDone(k) \/ CloseGroupDone(k) \/ ClosePost(k) \/ CloseChannel(k)

Timers == \E t \in timers : TimerFire(t) \/ TimerPost(t)

Next ==
    \/ EventLoop
    \/ \E k \in CloseIds : Closer(k)
    \/ Timers
    \/ ReadPacket \/ ReadFails \/ ReadPost
    \/ SetDown
    \/ \E r \in Reqs : SendRadiusRequest(r) \/ SendRefused(r)

\* Goroutines run when they can, timers expire, the RadiusClient closes a socket that is
\* down, and a read of a closed socket fails.  Nothing is assumed of the upstream servers,
\* of read errors, nor of who sends requests or calls SetDown.
Fairness ==
    /\ WF_vars(EventLoop)
    /\ \A k \in CloseIds : WF_vars(Closer(k))
    /\ WF_vars(Timers)
    /\ WF_vars(ReadPost)
    /\ WF_vars(~socketOpen /\ ReadFails)

Spec == Init /\ [][Next]_vars
FairSpec == Spec /\ Fairness

-----------------------------------------------------------------------------
(* Properties *)

Values == {"answer", "undecodable", "badAuthenticator", "timeout", "cancelled", "error",
           "exhausted", "notRequest"}
MaxTries == Max({Tries[r] : r \in Reqs})
Auths == Reqs \X (0..MaxTries)
Packets == [ep : Endpoints, id : Ids, auth : Auths]
Messages ==
    {Signal(type) : type \in {"Close", "SetDown", "ReadError"}}
    \cup [type : {"Request"}, req : Reqs, tries : 1..MaxTries, id : 0..MaxId]
    \cup [type : {"Response"}, ep : Endpoints, id : Ids, auth : Auths]
    \cup [type : {"Cancel"}, ep : Endpoints, id : Ids]

\* The variables keep their types; in particular an identifier that is given to a packet is
\* always in 1..MaxId ("Radius id should never be 0", getNextRadiusId).
TypeOK ==
    /\ terminated \in BOOLEAN /\ loop \in {"running", "done"} /\ downs \in Nat
    /\ queue \in Seq(Messages) /\ out \in Seq(Messages)
    /\ chanClosed \in BOOLEAN /\ crashed \in BOOLEAN
    /\ requestsMap \subseteq [ep : Endpoints, id : Ids, req : Reqs, tries : 1..MaxTries]
    /\ lastRadiusId \in [Endpoints -> 0..MaxId]
    /\ timers \subseteq [req : Reqs, tries : 1..MaxTries, id : Ids, fired : BOOLEAN]
    /\ rchan \in [Reqs -> Seq(Values)]
    /\ caller \in [Reqs -> {"idle", "sent"}]
    /\ socketOpen \in BOOLEAN /\ wire \subseteq Packets
    /\ readLoop \in {"reading", "done"} /\ readOut \in Seq(Messages) /\ responses \in Nat
    /\ setDown \in BOOLEAN
    /\ closers \in [CloseIds -> {"idle", "read", "wg", "post", "close", "done"}]
    /\ wg \in Int

\* The response channel of a request that is not retransmitted is written at most once: it is
\* closed after the first value and a second send would panic ("The response channel is closed
\* just after sending the reponse or error").
OneAnswerPerRequest == \A r \in Reqs : Tries[r] = 1 => Len(rchan[r]) <= 1

\* The same expected of every request; a retransmission that is queued when the answer is
\* handled breaks it.
OneAnswerEvenRetried == \A r \in Reqs : Len(rchan[r]) <= 1

\* No more requests than identifiers were sent to this server
Few(ep) == Cardinality({r \in Reqs : Dest[r] = ep /\ caller[r] = "sent"}) <= MaxId

\* With upstream servers that answer correctly, until the identifiers have come around once, no
\* request that is not retransmitted is failed by what was meant for another one, be it a late
\* answer or a late cancellation: an identifier that was released is not given again while
\* others have not been given (the purpose of lastRadiusIdMap).
LateAnswersHarmless ==
    \A r \in Reqs : Tries[r] = 1 /\ Few(Dest[r]) =>
        /\ rchan[r] # <<"badAuthenticator">>
        /\ rchan[r] = <<"timeout">> => \A t \in timers : t.req # r

\* The channel is not used after being closed, and not closed twice (comment of rcs.wg).
NoUseAfterClose == ~crashed

\* A SocketDownEvent is reported at most once ("when the connection and the eventloop are
\* terminated"): the RadiusClient runs Close() for each one.
SocketDownOnce == downs <= 1

\* Every accepted request is eventually answered: a packet or an error arrives on its response
\* channel, whatever the upstream server and the socket do.
RequestAnswered == \A r \in Reqs : caller[r] = "sent" ~> (rchan[r] # <<>> \/ crashed)
=============================================================================
