---------------------------- MODULE RadiusClient ----------------------------
(***************************************************************************)
(* The RadiusClient (radiusclient/radius_client.go): the actor that creates  *)
(* a RadiusClientSocket for an origin port on demand, gives it the requests  *)
(* for that port and closes it when it reports that it is down.              *)
(*                                                                          *)
(* A socket appears as what RadiusClientSocket shows of it: it answers every *)
(* request that it was given, with a packet or with an error; when it fails  *)
(* or is set down it cancels its requests and reports a SocketDownEvent; a   *)
(* request that reaches a socket that is down fails, and makes it report     *)
(* again; a second Close() panics.                                           *)
(***************************************************************************)
EXTENDS Integers, Sequences, FiniteSets

CONSTANTS
    Reqs,        \* the goroutines that send requests: one exchange at a time each
    Ports,       \* origin ports
    MaxSockets   \* bound: sockets created, no less than there can be exchanges

ASSUME ClientBounds == IsFiniteSet(Reqs) /\ MaxSockets \in Nat

VARIABLES
    cTerminated,   \* r.status = StatusTerminated
    cLoop,         \* the event loop: "running", "done"
    cControl,      \* controlChannel
    cRequests,     \* requestsChannel
    cChanClosed,   \* both channels are closed
    cDone,         \* doneChannel is closed
    cWg,           \* r.wg
    cClose,        \* Close(): "idle", "wait", "post", "closed"
    clientSockets, \* socket by port, 0 for none
    port,          \* the port of every socket created
    socket,        \* "none", "up", "down", "closed"
    downPosted,    \* SetDownCommandMsg in the channel of each socket
    closers,       \* goroutines in Close() of each socket
    xch,           \* the exchange of each goroutine: "none", "queued", "socket", or the
                   \* value in its channel: "answer", "error"
    at,            \* the socket that has it, 0 for none
    failures,
    crashed        \* a Go panic, here or in the router

clientVars == <<cTerminated, cLoop, cControl, cRequests, cChanClosed, cDone, cWg, cClose,
                clientSockets, port, socket, downPosted, closers, xch, at, failures>>

Sockets == 1..MaxSockets
SocketDown(s) == [type |-> "SocketDown", sender |-> s]
ClientSignal(type) == [type |-> type]

ClientInit ==
    /\ cTerminated = FALSE /\ cLoop = "running"
    /\ cControl = <<>> /\ cRequests = <<>> /\ cChanClosed = FALSE
    /\ cDone = FALSE /\ cWg = 0 /\ cClose = "idle"
    /\ clientSockets = [p \in Ports |-> 0]
    /\ port = <<>>
    /\ socket = [s \in Sockets |-> "none"]
    /\ downPosted = [s \in Sockets |-> 0]
    /\ closers = [s \in Sockets |-> 0]
    /\ xch = [r \in Reqs |-> "none"] /\ at = [r \in Reqs |-> 0]
    /\ failures = 0

-----------------------------------------------------------------------------
(* Callers *)

\* RadiusExchange: sends to the channel, which panics if it is closed
RadiusExchange(r) ==
    /\ xch[r] = "none"
    /\ cWg' = cWg + 1
    /\ crashed' = cChanClosed
    /\ cRequests' = IF cChanClosed THEN cRequests ELSE Append(cRequests, r)
    /\ xch' = [xch EXCEPT ![r] = "queued"]
    /\ UNCHANGED <<cTerminated, cLoop, cControl, cChanClosed, cDone, cClose, clientSockets,
                   port, socket, downPosted, closers, at, failures>>

\* SetDown()
ClientSetDown ==
    /\ cControl' = Append(cControl, ClientSignal("SetDown"))
    /\ UNCHANGED <<cTerminated, cLoop, cRequests, cChanClosed, cDone, cWg, cClose,
                   clientSockets, port, socket, downPosted, closers, xch, at, failures>>

\* Close(): waits for doneChannel, and then for r.wg
ClientCloseStep(from, to) ==
    /\ ~crashed
    /\ cClose = from
    /\ cClose' = to
    /\ UNCHANGED <<cTerminated, cLoop, cRequests, cDone, cWg, clientSockets, port, socket,
                   downPosted, closers, xch, at, failures, crashed>>
ClientCloseWait ==
    /\ ClientCloseStep("wait", "post")
    /\ cDone /\ cWg = 0
    /\ UNCHANGED <<cControl, cChanClosed>>
\* Stops the event loop and closes the channels
ClientClosePost ==
    /\ ClientCloseStep("post", "closed")
    /\ cControl' = Append(cControl, ClientSignal("Close"))
    /\ cChanClosed' = TRUE

ClientCloser == ClientCloseWait \/ ClientClosePost

-----------------------------------------------------------------------------
(* The event loop *)

ClientReceive(type) ==
    /\ ~crashed
    /\ cLoop = "running"
    /\ cControl # <<>>
    /\ Head(cControl).type = type
    /\ cControl' = Tail(cControl)
    /\ UNCHANGED <<cRequests, cChanClosed, cWg, cClose, port, socket, xch, at, failures>>

ClientOnClose ==
    /\ ClientReceive("Close")
    /\ cLoop' = "done"
    /\ UNCHANGED <<cTerminated, cDone, clientSockets, downPosted, closers, crashed>>

NoSockets(table) == \A p \in Ports : table[p] = 0

\* close(r.doneChannel): panics the second time
CloseDoneChannel(cond) ==
    /\ cDone' = (cDone \/ cond)
    /\ crashed' = (cDone /\ cond)

\* The socket of the table is deleted by port, be it the one that reports or a newer one
ClientOnSocketDown ==
    /\ ClientReceive("SocketDown")
    /\ LET s == Head(cControl).sender
           table == [clientSockets EXCEPT ![port[s]] = 0]
       IN /\ clientSockets' = table
          /\ closers' = [closers EXCEPT ![s] = @ + 1]
          /\ CloseDoneChannel(cTerminated /\ NoSockets(table))
    /\ UNCHANGED <<cTerminated, cLoop, downPosted>>

\* Mutant: doneChannel is closed only when a socket goes down
ClientOnSetDown_NotSignalled ==
    /\ ClientReceive("SetDown")
    /\ cTerminated' = TRUE
    /\ downPosted' = [s \in Sockets |-> downPosted[s]
                        + IF \E p \in Ports : clientSockets[p] = s THEN 1 ELSE 0]
    /\ UNCHANGED <<cLoop, cDone, clientSockets, closers, crashed>>

ClientOnSetDown ==
    /\ ClientReceive("SetDown")
    /\ cTerminated' = TRUE
    /\ CloseDoneChannel(NoSockets(clientSockets))
    /\ downPosted' = [s \in Sockets |-> downPosted[s]
                        + IF \E p \in Ports : clientSockets[p] = s THEN 1 ELSE 0]
    /\ UNCHANGED <<cLoop, clientSockets, closers>>

ClientTakeRequest ==
    /\ ~crashed
    /\ cLoop = "running"
    /\ cRequests # <<>>
    /\ cRequests' = Tail(cRequests)
    /\ cWg' = cWg - 1
    /\ UNCHANGED <<cTerminated, cLoop, cControl, cChanClosed, cDone, cClose, downPosted,
                   closers, failures>>

ClientRefuse ==
    /\ ClientTakeRequest
    /\ cTerminated
    /\ xch' = [xch EXCEPT ![Head(cRequests)] = "error"]
    /\ UNCHANGED <<clientSockets, port, socket, at, crashed>>

\* Mutant: a socket for every request
ClientServe_NewSocket(p) ==
    /\ ClientTakeRequest
    /\ ~cTerminated
    /\ xch' = [xch EXCEPT ![Head(cRequests)] = "socket"]
    /\ LET s == Len(port) + 1 IN
       /\ s \in Sockets
       /\ port' = Append(port, p)
       /\ crashed' = \E q \in 1..Len(port) : port[q] = p /\ socket[q] = "up"
       /\ clientSockets' = [clientSockets EXCEPT ![p] = s]
       /\ socket' = [socket EXCEPT ![s] = "up"]
    /\ at' = [at EXCEPT ![Head(cRequests)] = clientSockets'[p]]

\* A port that another socket has bound cannot be bound again: NewRadiusClientSocket panics
ClientServe(p) ==
    /\ ClientTakeRequest
    /\ ~cTerminated
    /\ xch' = [xch EXCEPT ![Head(cRequests)] = "socket"]
    /\ IF clientSockets[p] # 0
       THEN UNCHANGED <<clientSockets, port, socket, crashed>>
       ELSE LET s == Len(port) + 1 IN
            /\ s \in Sockets
            /\ port' = Append(port, p)
            /\ crashed' = \E q \in 1..Len(port) : port[q] = p /\ socket[q] = "up"
            /\ clientSockets' = [clientSockets EXCEPT ![p] = s]
            /\ socket' = [socket EXCEPT ![s] = "up"]
    /\ at' = [at EXCEPT ![Head(cRequests)] = clientSockets'[p]]

ClientLoop ==
    \/ ClientOnClose \/ ClientOnSocketDown \/ ClientOnSetDown
    \/ ClientRefuse \/ \E p \in Ports : ClientServe(p)

-----------------------------------------------------------------------------
(* The sockets *)

SocketStep ==
    /\ ~crashed
    /\ UNCHANGED <<cTerminated, cLoop, cRequests, cChanClosed, cDone, cWg, cClose,
                   clientSockets, port>>

\* The answer of the upstream server, a bad one, or no one after all the serverTries
SocketAnswers(r, value) ==
    /\ SocketStep
    /\ xch[r] = "socket"
    /\ socket[at[r]] = "up"
    /\ xch' = [xch EXCEPT ![r] = value]
    /\ at' = [at EXCEPT ![r] = 0]
    /\ UNCHANGED <<cControl, socket, downPosted, closers, failures, crashed>>

\* The socket closes, cancels the requests in its map (the others are in its channel yet) and
\* tells the RadiusClient, whose channel may be closed
GoesDown(s) ==
    /\ socket' = [socket EXCEPT ![s] = "down"]
    /\ \E inMap \in SUBSET {r \in Reqs : at[r] = s /\ socket[s] = "up"} :
         /\ xch' = [r \in Reqs |-> IF r \in inMap THEN "error" ELSE xch[r]]
         /\ at' = [r \in Reqs |-> IF r \in inMap THEN 0 ELSE at[r]]
    /\ cControl' = IF cChanClosed THEN cControl ELSE Append(cControl, SocketDown(s))
    /\ crashed' = cChanClosed

SocketFails(s) ==
    /\ SocketStep
    /\ socket[s] = "up"
    /\ failures' = failures + 1
    /\ GoesDown(s)
    /\ UNCHANGED <<downPosted, closers>>

SocketOnSetDown(s) ==
    /\ SocketStep
    /\ downPosted[s] > 0
    /\ downPosted' = [downPosted EXCEPT ![s] = @ - 1]
    /\ GoesDown(s)
    /\ UNCHANGED <<closers, failures>>

\* The write fails, and the socket sends itself another SetDownCommandMsg
SocketRefuses(r) ==
    /\ SocketStep
    /\ xch[r] = "socket"
    /\ socket[at[r]] = "down"
    /\ xch' = [xch EXCEPT ![r] = "error"]
    /\ at' = [at EXCEPT ![r] = 0]
    /\ downPosted' = [downPosted EXCEPT ![at[r]] = @ + 1]
    /\ UNCHANGED <<cControl, socket, closers, failures, crashed>>

\* Close() of a socket waits until it has nothing to do
SocketClose(s) ==
    /\ SocketStep
    /\ closers[s] > 0
    /\ \A r \in Reqs : at[r] # s
    /\ downPosted[s] = 0
    /\ closers' = [closers EXCEPT ![s] = @ - 1]
    /\ socket' = [socket EXCEPT ![s] = "closed"]
    /\ crashed' = (socket[s] = "closed")
    /\ UNCHANGED <<cControl, downPosted, xch, at, failures>>

SocketRuns(s) == SocketOnSetDown(s) \/ SocketClose(s)
=============================================================================
